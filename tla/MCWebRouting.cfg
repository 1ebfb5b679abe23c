SPECIFICATION MCSpec
CONSTANTS
  Workers = {w1, w2}
  Sent <- All
  Prefs <- Seven
  FilesUnder <- Directories
  APIMode = FALSE
INVARIANTS
  RoutesSurviveReloads
