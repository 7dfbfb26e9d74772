---------------------------- MODULE BoundedFifo ----------------------------
(***************************************************************************)
(* What the callers of datastructures.CircularQueue rely on: a first-in    *)
(* first-out queue of at most Capacity items whose Enqueue reports whether *)
(* the item was taken and whose Dequeue returns the oldest item, or says   *)
(* there is none.                                                          *)
(***************************************************************************)
EXTENDS Naturals, Sequences

CONSTANTS
  Items,      \* the values that may be queued
  Capacity,   \* the most items the queue ever holds
  Empty       \* what a failed Dequeue returns: the zero value of Go's type

VARIABLES
  queue,      \* the queued items, oldest first
  result      \* what the last call returned to its caller

vars == <<queue, result>>

Init ==
  /\ queue = << >>
  /\ result = [val |-> Empty, ok |-> TRUE]

Accept(x) ==
  /\ Len(queue) < Capacity
  /\ queue' = Append(queue, x)
  /\ result' = [val |-> Empty, ok |-> TRUE]

Refuse ==
  /\ Len(queue) = Capacity
  /\ result' = [val |-> Empty, ok |-> FALSE]
  /\ UNCHANGED queue

Take ==
  /\ queue # << >>
  /\ result' = [val |-> Head(queue), ok |-> TRUE]
  /\ queue' = Tail(queue)

FindNone ==
  /\ queue = << >>
  /\ result' = [val |-> Empty, ok |-> FALSE]
  /\ UNCHANGED queue

Next ==
  \/ \E x \in Items : Accept(x)
  \/ Refuse
  \/ Take
  \/ FindNone

Spec == Init /\ [][Next]_vars
=============================================================================
