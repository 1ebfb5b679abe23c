SPECIFICATION MCSpec
CONSTANTS
  t1 = t1
  t2 = t2
  t3 = t3
  Readers = {t1, t2, t3}
  Writers = {t1, t2, t3}
  NullThread = NullThread
  SpuriousFailures = TRUE
  MaxSpurious = 1
INVARIANTS
  BooksAreExact
  NoOvertaking
PROPERTIES
  ImplementsSharedExclusive
  Progress
