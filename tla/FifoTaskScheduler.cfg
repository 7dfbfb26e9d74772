SPECIFICATION FairSpec
CONSTANTS
  Submitters = {p, q}
  MaxCalls = 3
  MaxTasks = 3
  NoTask = noTask
INVARIANTS
  TypeOK
  NoLostWakeup
PROPERTIES
  ServesPool
  StopReturns
