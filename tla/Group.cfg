SPECIFICATION FairSpec
CONSTANTS
  t1 = t1
  t2 = t2
  bad = bad
  junk = junk
  Tasks <- MCTasks
  Invalid = {bad}
  Batches <- MCBatches
  MaxRetries = 1
  MaxCalls = 1
  MaxEntries = 2
  MaxFaults = 2
  Streams = 2
  StreamOf <- MCStreamOf
  Garbage = {junk}
  Pods = {p1, p2}
  ReadCount = 1
  ClaimCount = 2
  FaultCost = 2
INVARIANTS
  TypeOK
  ReportIsTruthful
  SkippedOnlyInGap
PROPERTIES
  GroupsComeBack
  HandledInTheEnd
CHECK_DEADLOCK FALSE
