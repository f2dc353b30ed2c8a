SPECIFICATION Spec
CONSTANTS
  t1 = t1
  d1 = d1
  d2 = d2
  p1 = p1
  p2 = p2
  Tasks = {t1}
  Pods = {p1, p2}
  Deliveries = {d1, d2}
  PodOf <- OnePod
  MaxAttempts = 1
  TransientErrors = {"timeout"}
  Outcomes <- AnyOutcome
  Faults = {"resubmit", "read", "ack", "lock", "clear", "retry", "dlq", "xadd", "pipe"}
  MaxFaults = 1
  MaxMsgs = 3
  Cap = 2
SYMMETRY DeliverySymmetry
INVARIANTS ExclusiveAttempt AcceptedOncePerAttempt
PROPERTY CompletedIsFinal
CHECK_DEADLOCK FALSE
