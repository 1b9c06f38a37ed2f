SPECIFICATION IntlFairSpec
CONSTANTS
  w1 = w1
  w2 = w2
  b1 = b1
  N = 2
  Workers = {w1, w2}
  Beats = {b1}
  Window = 1
  Chunk = 1
  MaxRetries = 0
  MaxAttempts = 1
  FaultPoints <- RepairableFaults
  MaxFaults = 1
PROPERTIES Completes
