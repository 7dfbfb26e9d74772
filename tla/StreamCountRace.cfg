SPECIFICATION Spec
CONSTANTS
  Streams = {s}
  MaxRequests = 2
  Levels = {0}
  Capacity = 2
  NoTask = noTask
INVARIANTS
  UsageCountsPending
CHECK_DEADLOCK FALSE
