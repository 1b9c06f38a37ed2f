SPECIFICATION Spec
CONSTANTS
  r1 = r1
  r2 = r2
  r3 = r3
  w1 = w1
  w2 = w2
  b1 = b1
  c1 = c1
  Rows = {r1, r2}
  Workers = {w1, w2}
  Beats = {b1}
  Clients = {c1}
  DbUpdate = TRUE
  Window = 1
  Chunk = 1
  MaxAttempts = 2
  MaxRequests = 1
  FaultPoints <- DispatchFaults
  MaxFaults = 1
SYMMETRY ExternalSymmetry
INVARIANTS TypeOK CountersMatchRows AtMostOneCopy
PROPERTIES CompletedIsFinal
