SPECIFICATION Spec
CONSTANTS
  t1 = t1
  t2 = t2
  g1 = g1
  g2 = g2
  g3 = g3
  Tasks = {t1, t2}
  Goroutines = {g1, g2, g3}
  PoolSize = 2
  ReadCount = 2
INVARIANT ClosedWhenIdle
CHECK_DEADLOCK FALSE
