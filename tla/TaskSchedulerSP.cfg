SPECIFICATION Spec
CONSTANTS
  Policy = "sp"
  Submitters = {p, q}
  MaxCalls = 2
  RequestLevels = {0, 1, 2, 3}
  MaxTasksPerLevel = 2
  Nil = nil
  Free = free
  NoTask = noTask
INVARIANTS
  TypeOK
  EntryMatchesGroup
  NoLostWakeup
PROPERTIES
  AnswerIsHonest
  PicksMostUrgent
  ImplementsPool
CHECK_DEADLOCK FALSE
