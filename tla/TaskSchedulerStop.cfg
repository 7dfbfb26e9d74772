SPECIFICATION FairSpec
CONSTANTS
  Policy = "sp"
  Submitters = {p, q}
  MaxCalls = 1
  RequestLevels = {0, 3}
  MaxTasksPerLevel = 2
  Nil = nil
  Free = free
  NoTask = noTask
PROPERTIES
  StopReturns
CHECK_DEADLOCK FALSE
