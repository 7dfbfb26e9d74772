SPECIFICATION Spec
CONSTANTS
  EntryId = {a, b, c}
  HeapCapacity = 3
  Policy = "wfq"
  Priorities = {1, 2, 3, 4}
  VirtualUnit = 12
  Nil = nil
  MaxRounds = 12
INVARIANTS
  SharesAreProportional
CHECK_DEADLOCK FALSE
