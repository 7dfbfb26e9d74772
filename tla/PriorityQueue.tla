--------------------------- MODULE PriorityQueue ---------------------------
(***************************************************************************)
(* datastructures.PriorityQueue: a bounded max-queue kept as a binary heap *)
(* in a slice by the standard library's container/heap.  heap.Push and     *)
(* heap.Pop move one item along a path of the heap in a loop, and each     *)
(* turn of the loop is a step here, so that the state between two turns    *)
(* can be reasoned about.  Nothing else runs meanwhile: the callers hold   *)
(* the task scheduler's mutex.                                             *)
(***************************************************************************)
EXTENDS Integers, FiniteSets

CONSTANTS
  Values,     \* the values that may be queued, other than Zero
  Priorities, \* the priorities they are queued with
  Capacity,   \* cap(q.heap), fixed by NewPriorityQueue; positive
  Zero        \* the zero value of T

VARIABLES
  slots,      \* the slice's backing array
  len,        \* len(q.heap)
  pc,         \* "idle", or inside heap.Push ("up") or heap.Pop ("down")
  cursor,     \* the slot of the item that the loop moves
  result      \* what the last call returned to its caller

vars == <<slots, len, pc, cursor, result>>

Slots == 0 .. Capacity - 1
Item == [value : Values, priority : Priorities]
NoItem == [value |-> Zero, priority |-> 0]

Init ==
  /\ slots = [i \in Slots |-> NoItem]
  /\ len = 0
  /\ pc = "idle"
  /\ cursor = 0
  /\ result = [val |-> Zero, ok |-> TRUE]

\* heapImpl.Less: slot i belongs above slot j.
Less(i, j) == slots[i].priority > slots[j].priority

Swap(i, j) == [slots EXCEPT ![i] = slots[j], ![j] = slots[i]]

\* (i - 1) / 2, which Go truncates to 0 for the root.
Parent(i) == IF i = 0 THEN 0 ELSE (i - 1) \div 2

\* The values in the queue.  A value is a pointer to an entry, which its
\* scheduler queues only while it is not queued.
Queued == {slots[i].value : i \in 0 .. len - 1}

EnqueueFull ==
  /\ pc = "idle"
  /\ len = Capacity
  /\ result' = [val |-> Zero, ok |-> FALSE]
  /\ UNCHANGED <<slots, len, pc, cursor>>

\* Mutant of Enqueue: the capacity is not tested.
EnqueueUnbounded(v, p) ==
  /\ pc = "idle"
  /\ v \notin Queued
  /\ slots' = [slots EXCEPT ![len] = [value |-> v, priority |-> p]]
  /\ len' = len + 1
  /\ cursor' = len
  /\ pc' = "up"
  /\ UNCHANGED result

\* heap.Push appends the item, and begins to move it up.
Enqueue(v, p) ==
  /\ pc = "idle"
  /\ len # Capacity
  /\ v \notin Queued
  /\ slots' = [slots EXCEPT ![len] = [value |-> v, priority |-> p]]
  /\ len' = len + 1
  /\ cursor' = len
  /\ pc' = "up"
  /\ UNCHANGED result

UpSwap ==
  /\ pc = "up"
  /\ Parent(cursor) # cursor
  /\ Less(cursor, Parent(cursor))
  /\ slots' = Swap(Parent(cursor), cursor)
  /\ cursor' = Parent(cursor)
  /\ UNCHANGED <<len, pc, result>>

UpStop ==
  /\ pc = "up"
  /\ Parent(cursor) = cursor \/ ~Less(cursor, Parent(cursor))
  /\ pc' = "idle"
  /\ result' = [val |-> Zero, ok |-> TRUE]
  /\ UNCHANGED <<slots, len, cursor>>

DequeueEmpty ==
  /\ pc = "idle"
  /\ len = 0
  /\ result' = [val |-> Zero, ok |-> FALSE]
  /\ UNCHANGED <<slots, len, pc, cursor>>

\* heap.Pop swaps the root with the last item, and begins to move that down
\* the heap of the others.
Dequeue ==
  /\ pc = "idle"
  /\ len # 0
  /\ slots' = Swap(0, len - 1)
  /\ cursor' = 0
  /\ pc' = "down"
  /\ UNCHANGED <<len, result>>

\* Mutant of Child: it does not look at the right child.
LeftChild(i, n) == 2 * i + 1

\* The child that down compares slot i with, in the heap of the first n slots:
\* the right one if there is one that belongs above the left one.
Child(i, n) ==
  LET left == 2 * i + 1
      right == left + 1
  IN IF right < n /\ Less(right, left) THEN right ELSE left

DownMoves == LET child == Child(cursor, len - 1)
             IN child < len - 1 /\ Less(child, cursor)

DownSwap ==
  /\ pc = "down"
  /\ DownMoves
  /\ slots' = Swap(cursor, Child(cursor, len - 1))
  /\ cursor' = Child(cursor, len - 1)
  /\ UNCHANGED <<len, pc, result>>

\* Mutant of DownStop: the vacated slot is not cleared.
DownStopKeepsItem ==
  /\ pc = "down"
  /\ ~DownMoves
  /\ result' = [val |-> slots[len - 1].value, ok |-> TRUE]
  /\ len' = len - 1
  /\ pc' = "idle"
  /\ UNCHANGED <<slots, cursor>>

\* heapImpl.Pop removes the last item and clears its slot.
DownStop ==
  /\ pc = "down"
  /\ ~DownMoves
  /\ result' = [val |-> slots[len - 1].value, ok |-> TRUE]
  /\ slots' = [slots EXCEPT ![len - 1] = NoItem]
  /\ len' = len - 1
  /\ pc' = "idle"
  /\ UNCHANGED cursor

Next ==
  \/ \E v \in Values, p \in Priorities : Enqueue(v, p)
  \/ EnqueueFull
  \/ UpSwap
  \/ UpStop
  \/ Dequeue
  \/ DequeueEmpty
  \/ DownSwap
  \/ DownStop

Spec == Init /\ [][Next]_vars
-----------------------------------------------------------------------------
TypeOK ==
  /\ slots \in [Slots -> Item \cup {NoItem}]
  /\ len \in 0 .. Capacity
  /\ pc \in {"idle", "up", "down"}
  /\ cursor \in Slots
  /\ pc # "idle" => cursor < len
  /\ result \in [val : Values \cup {Zero}, ok : BOOLEAN]

\* The slots of the heap: all that hold an item, but for the one heap.Pop has
\* set aside to return.
HeapSize == IF pc = "down" THEN len - 1 ELSE len

\* The cursor's item may be out of place: too low in heap.Push, too high in
\* heap.Pop.
InOrder(i) ==
  \/ slots[i].priority <= slots[Parent(i)].priority
  \/ pc = "up" /\ i = cursor
  \/ pc = "down" /\ Parent(i) = cursor

\* Between calls every item is at most its parent, and during one the only
\* exception is the item on the move, which could change places with its parent
\* and leave the rest in order.
HeapOrdered ==
  \A i \in 1 .. HeapSize - 1 :
    /\ InOrder(i)
    /\ pc # "idle" /\ cursor # 0 /\ Parent(i) = cursor =>
         slots[i].priority <= slots[Parent(cursor)].priority

\* "avoid memory leak" (priority_queue.go:35): a slot behind the last item
\* keeps no item, and with it no entry or task, alive.
VacatedSlotsAreCleared ==
  \A i \in Slots : slots[i] = NoItem <=> i >= len

\* The heap is a bounded pool whose Dequeue returns an item of the greatest
\* priority, as the strict-priority order and the weighted-fair shares of the
\* schedulers require.  A call takes effect when it returns.
Contents == {slots[i] : i \in 0 .. len - 1}
Pool == INSTANCE MaxPool WITH
          pool <- IF pc = "up" THEN Contents \ {slots[cursor]} ELSE Contents
ImplementsPool == Pool!Spec
=============================================================================
