SPECIFICATION FairSpec
CONSTANTS
  NotANumber = notANumber
  ConfigFiles <- MCConfigFiles
  Initial = 2
  FirstBatch = 1
  SecondBatch = 2
  Watermark = 1
INVARIANTS
  TypeOK
  NoRequestIsLeftBehind
  ConsumerLeavesFew
PROPERTIES
  ClientFinishes
