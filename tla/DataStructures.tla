--------------------------- MODULE DataStructures ---------------------------
(***************************************************************************)
(* Package datastructures: the circular queue, which holds the tasks of a  *)
(* group and the entries of the fifo policy, and the heap, which holds the *)
(* entries of sp and wfq.  They share no state, so a behaviour uses one of *)
(* the two: what one does is the same whatever the other is doing.         *)
(***************************************************************************)
EXTENDS CircularQueue, FiniteSets

CONSTANTS
  HeapValues,     \* what module PriorityQueue calls Values,
  HeapPriorities, \* Priorities,
  HeapCapacity,   \* Capacity
  Zero            \* and Zero

VARIABLES
  inUse,      \* which structure is used: "queue" or "heap"
  slots,
  heapLen,
  pc,
  cursor,
  heapResult

heapVars == <<slots, heapLen, pc, cursor, heapResult>>

Heap == INSTANCE PriorityQueue WITH
          Values <- HeapValues,
          Priorities <- HeapPriorities,
          Capacity <- HeapCapacity,
          len <- heapLen,
          result <- heapResult

ASSUME HeapAssumption ==
  /\ HeapCapacity \in Nat \ {0}
  /\ HeapPriorities \subseteq Int
  /\ Zero \notin HeapValues

StructuresInit ==
  /\ inUse \in {"queue", "heap"}
  /\ Init
  /\ Heap!Init

StructuresNext ==
  \/ inUse = "queue" /\ Next /\ UNCHANGED <<inUse, heapVars>>
  \/ inUse = "heap" /\ Heap!Next /\ UNCHANGED <<inUse, vars>>

StructuresSpec == StructuresInit /\ [][StructuresNext]_<<inUse, vars, heapVars>>
-----------------------------------------------------------------------------
\* The heap's types, its length and the cursor of the loops included.
HeapTypeOK == Heap!TypeOK

\* The heap's order, between calls and in every turn of container/heap's loops.
HeapOrdered == Heap!HeapOrdered

\* No popped entry is kept alive by the heap (priority_queue.go:35).
HeapSlotsAreCleared == Heap!VacatedSlotsAreCleared

\* The heap is a bounded pool that returns an item of the greatest priority.
ImplementsPool == Heap!ImplementsPool
=============================================================================
