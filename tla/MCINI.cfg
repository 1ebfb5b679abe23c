SPECIFICATION MCSpec
CONSTANTS
  Sections = {"s", "t"}
  Names = {"a", "b"}
  Values = {"1", "2"}
  Texts <- MCTexts
  Flags <- MCFlags
  MaxItems = 3
  Dangling = Dangling
  Alphabet <- Lines
  MaxLines = 5
CHECK_DEADLOCK FALSE
INVARIANTS
  CacheIsCoherent
  ParseIsFaithful
  RoundTrip
