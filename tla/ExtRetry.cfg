SPECIFICATION FairSpec
CONSTANTS
  r1 = r1
  r2 = r2
  r3 = r3
  w1 = w1
  w2 = w2
  b1 = b1
  c1 = c1
  Rows = {r1, r2}
  Workers = {w1}
  Beats = {b1}
  Clients = {c1}
  DbUpdate = TRUE
  Window = 2
  Chunk = 1
  MaxAttempts = 2
  MaxRequests = 2
  FaultPoints <- RepairableFaults
  MaxFaults = 1
INVARIANTS FinishedMeansDone
PROPERTIES EveryRunEnds
