SPECIFICATION HistorySpec
CONSTANTS
  t1 = t1
  d1 = d1
  d2 = d2
  p1 = p1
  p2 = p2
  Tasks = {t1}
  Pods = {p1}
  Deliveries = {d1, d2}
  PodOf <- OnePod
  MaxAttempts = 1
  TransientErrors = {"timeout"}
  Outcomes <- AnyOutcome
  Faults = {"crash", "slow", "ttl", "ambiguous", "resubmit", "read", "ack", "lock", "complete", "clear", "retry", "dlq", "pipe"}
  MaxFaults = 1
  MaxMsgs = 3
  Cap = 3
SYMMETRY DeliverySymmetry
INVARIANTS TypeOK AckAfterOutcome NoTaskLost ResendsCostFailures OneOutcome
CHECK_DEADLOCK FALSE
