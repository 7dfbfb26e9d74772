--------------------------- MODULE CircularQueue ---------------------------
(***************************************************************************)
(* datastructures.CircularQueue: a bounded queue kept in a fixed slice, a  *)
(* head index and a length.  The queue is not synchronised: its users call *)
(* it under the task scheduler's mutex, so each call is one step.          *)
(***************************************************************************)
EXTENDS Integers, Sequences

CONSTANTS
  Items,      \* the values that may be queued
  Capacity,   \* len(q.buffer), fixed by NewCircularQueue
  Empty       \* the zero value of T, which vacated slots are reset to

\* make([]T, capacity) accepts any non-negative capacity, zero included.
ASSUME CapacityAssumption == Capacity \in Nat

VARIABLES
  buffer,     \* q.buffer
  head,       \* q.head
  len,        \* q.len
  result      \* what the last call returned to its caller

vars == <<buffer, head, len, result>>

Slots == 0 .. Capacity - 1

Init ==
  /\ buffer = [i \in Slots |-> Empty]
  /\ head = 0
  /\ len = 0
  /\ result = [val |-> Empty, ok |-> TRUE]

IsEmpty == len = 0

EnqueueFull ==
  /\ len = Capacity
  /\ result' = [val |-> Empty, ok |-> FALSE]
  /\ UNCHANGED <<buffer, head, len>>

\* Mutant of Enqueue: it writes to the slot after the tail.
EnqueuePastTail(x) ==
  /\ len # Capacity
  /\ buffer' = [buffer EXCEPT ![(head + len + 1) % Capacity] = x]
  /\ len' = len + 1
  /\ result' = [val |-> Empty, ok |-> TRUE]
  /\ UNCHANGED head

Enqueue(x) ==
  /\ len # Capacity
  /\ buffer' = [buffer EXCEPT ![(head + len) % Capacity] = x]
  /\ len' = len + 1
  /\ result' = [val |-> Empty, ok |-> TRUE]
  /\ UNCHANGED head

DequeueEmpty ==
  /\ IsEmpty
  /\ result' = [val |-> Empty, ok |-> FALSE]
  /\ UNCHANGED <<buffer, head, len>>

\* Mutants of Dequeue: the slot is not cleared; the head does not wrap.
DequeueKeepsSlot ==
  /\ ~IsEmpty
  /\ result' = [val |-> buffer[head], ok |-> TRUE]
  /\ head' = (head + 1) % Capacity
  /\ len' = len - 1
  /\ UNCHANGED buffer

DequeueWithoutWrap ==
  /\ ~IsEmpty
  /\ result' = [val |-> buffer[head], ok |-> TRUE]
  /\ buffer' = [buffer EXCEPT ![head] = Empty]
  /\ head' = head + 1
  /\ len' = len - 1

Dequeue ==
  /\ ~IsEmpty
  /\ result' = [val |-> buffer[head], ok |-> TRUE]
  /\ buffer' = [buffer EXCEPT ![head] = Empty]
  /\ head' = (head + 1) % Capacity
  /\ len' = len - 1

Next ==
  \/ \E x \in Items : Enqueue(x)
  \/ EnqueueFull
  \/ Dequeue
  \/ DequeueEmpty

Spec == Init /\ [][Next]_vars
-----------------------------------------------------------------------------
\* The slot of the i-th oldest item of a queue whose head is h.
SlotFrom(h, i) == (h + i - 1) % Capacity
SlotOf(i) == SlotFrom(head, i)

\* The items in the queue, oldest first.
Contents == [i \in 1 .. len |-> buffer[SlotOf(i)]]

TypeOK ==
  /\ buffer \in [Slots -> Items \cup {Empty}]
  /\ head \in Nat
  /\ Capacity > 0 => head \in Slots
  /\ len \in 0 .. Capacity
  /\ result \in [val : Items \cup {Empty}, ok : BOOLEAN]

\* A slot outside the occupied window holds no item: Dequeue clears the slot
\* it leaves (circular_queue.go:37-38), so the queue never keeps a finished
\* task's closure, and the request and stream it captures, alive.
VacatedSlotsAreCleared ==
  \A s \in Slots : (\A i \in 1 .. len : SlotOf(i) # s) => buffer[s] = Empty

\* The wrapped slice behaves as a first-in first-out queue: it refuses an item
\* exactly when full, and every Dequeue returns the oldest item still queued,
\* however often head and tail have gone round the slice.
Fifo == INSTANCE BoundedFifo WITH queue <- Contents
ImplementsFifo == Fifo!Spec
=============================================================================
