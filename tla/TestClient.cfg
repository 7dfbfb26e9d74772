SPECIFICATION FairSpec
CONSTANTS
  LastSegment = 2
  TileCount = 2
  Parallelism = 2
  PipelineStream = pipelineStream
  Whole = 10
  HighShare = 3
  MediumShare = 5
INVARIANTS
  TypeOK
  ParallelismHolds
  ResponseFindsRequest
  NoLostWakeup
  NeverSkippedEarly
  MapIsGuarded
  PriorityShares
PROPERTIES
  RunEnds
