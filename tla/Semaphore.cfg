SPECIFICATION FairSpec
CONSTANTS
  Workers = {w1, w2}
  Holders = {k1, k2}
  Cap = 1
  Attempt = 2
  HardHeadroom = 1
  TtlHeadroom = 1
  MaxThrottleRetries = 1
  Backoff = 1
  Prepare = 4
  FaultKinds <- AnyFault
  MaxFaults = 1
INVARIANTS TypeOK HolderOutlivesItsRow CallsWithinCap
PROPERTIES LeakedSlotsReturn
