SPECIFICATION Spec
CONSTANTS
  t1 = t1
  d1 = d1
  d2 = d2
  p1 = p1
  p2 = p2
  Tasks = {t1}
  Pods = {p1}
  Deliveries = {d1, d2}
  PodOf <- OnePod
  MaxAttempts = 1
  TransientErrors = {"timeout"}
  Outcomes <- NoPanic
  Faults = {}
  MaxFaults = 1
  MaxMsgs = 3
  Cap = 1
SYMMETRY DeliverySymmetry
INVARIANT SentExactlyOnce
CHECK_DEADLOCK FALSE
