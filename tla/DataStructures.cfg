SPECIFICATION StructuresSpec
CONSTANTS
  Items = {a, b, c}
  Capacity = 3
  Empty = empty
  HeapValues = {d, e, f, g, h, i}
  HeapPriorities = {1, 2, 3}
  HeapCapacity = 5
  Zero = zero
INVARIANTS
  TypeOK
  VacatedSlotsAreCleared
  HeapTypeOK
  HeapOrdered
  HeapSlotsAreCleared
PROPERTIES
  ImplementsFifo
  ImplementsPool
