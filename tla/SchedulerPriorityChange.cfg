SPECIFICATION Spec
CONSTANTS
  EntryId = {a, b, c}
  HeapCapacity = 2
  Policy = "wfq"
  Priorities = {1, 2}
  VirtualUnit = 2
  Nil = nil
  MaxVirtualTime = 6
PROPERTIES
  PriorityFixedOnceEnqueued
