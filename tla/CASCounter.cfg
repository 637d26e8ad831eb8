CONSTANTS
  t1 = t1
  t2 = t2
  t3 = t3
  Threads = {t1, t2, t3}
  Increments = 2
SPECIFICATION Spec
INVARIANTS
  TotalIsExact
PROPERTIES
  AtomicSpec
  TestEnds
