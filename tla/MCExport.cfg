SPECIFICATION Spec
CONSTANTS
  Word = 16
  Texts <- Strings
  Direct <- Builtin
  Requests <- Mixed
CHECK_DEADLOCK FALSE
INVARIANTS
  NamesAreUnique
  GroupsFollowTheirRules
  GroupsHaveMembers
  LinesAreOfTheirNodes
