SPECIFICATION MCSpec
CONSTANTS
  t1 = t1
  t2 = t2
  t3 = t3
  u1 = u1
  Threads = {t1, t2, t3}
  Calls <- AllCalls
  MaxVersion = 2
  MaxClock = 2
  MaxCrashes = 1
  Flushes = TRUE
  Aborts = TRUE
  serveCacheOnFetchFail = TRUE
  Absent = Absent
  Empty = Empty
  Torn = Torn
  ErrorHead = ErrorHead
SYMMETRY Symmetry
INVARIANTS
  AnswersAreWhole
  OutageServesCache
PROPERTIES
  HitIsFresh
