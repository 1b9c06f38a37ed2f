\* The jobs complete and the queue runs empty: the model may stop.
SPECIFICATION FairSpec
CONSTANTS
  Jobs = {"big", "low"}
  Total <- ShareTotal
  Pipeline <- SharePipeline
  JobOrder <- ShareOrder
  Workers = {w1}
  Depth = 1
  MinWindow = 2
  Fallback = 2
  Chunk = 1
  Rotations = 2
  MaxFaults = 1
INVARIANTS TypeOK RotationIsFair NobodyFloodsTheQueue
PROPERTIES NoJobStarves
CHECK_DEADLOCK FALSE
