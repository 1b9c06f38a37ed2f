SPECIFICATION Spec
CONSTANTS
  Workers = {w1, w2}
  Holders = {k1, k2}
  Cap = 1
  Attempt = 4
  HardHeadroom = 2
  TtlHeadroom = 2
  MaxThrottleRetries = 1
  Backoff = 1
  Prepare = 0
  FaultKinds <- NoFault
  MaxFaults = 0
INVARIANTS BudgetCoversTheRow
