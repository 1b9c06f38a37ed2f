SPECIFICATION Spec
CONSTANTS
  w1 = w1
  w2 = w2
  b1 = b1
  N = 2
  Workers = {w1, w2}
  Beats = {b1}
  Window = 1
  Chunk = 1
  MaxRetries = 1
  MaxAttempts = 1
  FaultPoints <- RowFaults
  MaxFaults = 1
INVARIANTS NeverOvercounted FinalizeCoversAllRows CountingInv OutputHasNoGap
PROPERTIES KeepsTheLedger
