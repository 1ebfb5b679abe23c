SPECIFICATION MCSpec
CONSTANTS
  Content <- MCFiles
  Environment = {"accessToken", "managedConfigPrefix"}
  MaxLoads = 4
  Plain = {"a", "b"}
  Contents <- MCContents
  NotFound = NotFound
  Skipped = "#"
  MaxItems = 4
CHECK_DEADLOCK FALSE
INVARIANTS
  CompleteLoadIsComplete
  NothingIsStale
  ImportsAreInPlace
PROPERTIES
  ReloadsKeep
