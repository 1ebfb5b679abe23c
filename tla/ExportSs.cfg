SPECIFICATION Spec
CONSTANTS
  Word = 16
  Texts <- Strings
  Direct <- Builtin
  Requests <- SsRequests
INVARIANTS
  LinksAreOfTheirNodes
CHECK_DEADLOCK FALSE
