SPECIFICATION FairSpec
CONSTANTS
  bad = bad
  task1 = task1
  task2 = task2
  p1 = p1
  p2 = p2
  Items = {bad, task1, task2}
  Attempt <- AttemptOf
  BaseDelay = 1
  MaxDelay = 2
  Jitter = 100
  Second = 2
  Corrupt = {bad}
  Pods = {p1, p2}
  FlushLimit = 1
  MaxNow = 3
  MaxBreaks = 1
  MaxRefusals = 1
INVARIANTS TypeOK Accounted DuplicatesBounded NeverEarly
PROPERTY RetryDrains
CHECK_DEADLOCK FALSE
