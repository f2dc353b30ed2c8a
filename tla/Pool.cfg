SPECIFICATION FairSpec
CONSTANTS
  t1 = t1
  t2 = t2
  g1 = g1
  g2 = g2
  g3 = g3
  Tasks = {t1, t2}
  Goroutines = {g1, g2}
  PoolSize = 1
  ReadCount = 2
INVARIANTS TypeOK BoundedConcurrency NothingDropped
PROPERTIES ShutdownTerminates ReadTaskStarts ImplementsPool
CHECK_DEADLOCK FALSE
