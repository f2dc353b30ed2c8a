SPECIFICATION FairSpec
CONSTANTS
  t1 = t1
  d1 = d1
  d2 = d2
  p1 = p1
  p2 = p2
  Tasks = {t1}
  Pods = {p1}
  Deliveries = {d1}
  PodOf <- SoloPod
  MaxAttempts = 1
  TransientErrors = {"timeout"}
  Outcomes <- NoPanic
  Faults = {"crash", "ack", "lock", "complete", "clear", "retry", "dlq", "read", "pipe", "ttl"}
  MaxFaults = 2
  MaxMsgs = 3
  Cap = 1
PROPERTIES ImplementsContract EventuallySettled PelDrains
CHECK_DEADLOCK FALSE
