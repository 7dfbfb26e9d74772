SPECIFICATION Spec
CONSTANTS
  Streams = {s, t}
  MaxRequests = 2
  Levels = {0}
  Capacity = 1
  NoTask = noTask
INVARIANTS
  RefusedIsNotCounted
CHECK_DEADLOCK FALSE
