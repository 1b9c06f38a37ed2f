SPECIFICATION Spec
CONSTANTS
  r1 = r1
  r2 = r2
  r3 = r3
  w1 = w1
  w2 = w2
  b1 = b1
  c1 = c1
  Rows = {r1, r2}
  Workers = {w1, w2}
  Beats = {}
  Clients = {}
  DbUpdate = FALSE
  Window = 2
  Chunk = 1
  MaxAttempts = 1
  MaxRequests = 0
  FaultPoints <- NoFaults
  MaxFaults = 0
CHECK_DEADLOCK FALSE
INVARIANTS PhaseReflectsRows
