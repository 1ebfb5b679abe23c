SPECIFICATION Spec
CONSTANTS
  Workers = {w1, w2}
  Clients = {c1, c2, c3}
  Main = main
  MaxPending = 2
  MaxFetches = 1
  ScriptTimeout = TRUE
  Signals = TRUE
CHECK_DEADLOCK FALSE
INVARIANTS
  NoChainOfWaits
PROPERTIES
  EveryRequestIsAnswered
  StopCompletes
