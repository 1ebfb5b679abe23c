SPECIFICATION MCSpec
CONSTANTS
  Workers = {w1, w2}
  Files <- MCFiles
  External <- MCExternal
  Unreadable = Unreadable
  Nobody = Nobody
  APIMode = TRUE
  Conf = TRUE
  Refresh = TRUE
  Edits = TRUE
CONSTRAINT
  Bounded
INVARIANTS
  ExternalIsIsolated
  AnswerHasItsRules
PROPERTIES
  ReloadReplacesRules
