SPECIFICATION FairSpec
CONSTANTS
  Policy = "wfq"
  Submitters = {p, q}
  MaxCalls = 2
  RequestLevels = {0, 2}
  MaxTasksPerLevel = 2
  Nil = nil
  Free = free
  NoTask = noTask
INVARIANTS
  FairSpread
PROPERTIES
  AcceptedTasksRun
  StopEndsRun
  ServesPool
