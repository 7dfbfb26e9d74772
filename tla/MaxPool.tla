------------------------------ MODULE MaxPool ------------------------------
(***************************************************************************)
(* What the schedulers rely on when they use datastructures.PriorityQueue: *)
(* a bounded pool of items whose Dequeue returns some item of the greatest *)
(* priority in it.  Which of several such items is left open.              *)
(***************************************************************************)
EXTENDS Naturals, FiniteSets

CONSTANTS
  Item,       \* the items: [value, priority]
  Capacity,   \* the most items the pool ever holds
  Zero        \* what a failed Dequeue returns: the zero value of Go's type

VARIABLES
  pool,       \* the items in the pool
  result      \* what the last call returned to its caller

vars == <<pool, result>>

Init ==
  /\ pool = {}
  /\ result = [val |-> Zero, ok |-> TRUE]

Add(item) ==
  /\ item \notin pool
  /\ Cardinality(pool) < Capacity
  /\ pool' = pool \cup {item}
  /\ result' = [val |-> Zero, ok |-> TRUE]

Refuse ==
  /\ Cardinality(pool) = Capacity
  /\ result' = [val |-> Zero, ok |-> FALSE]
  /\ UNCHANGED pool

TakeGreatest(item) ==
  /\ item \in pool
  /\ \A other \in pool : item.priority >= other.priority
  /\ pool' = pool \ {item}
  /\ result' = [val |-> item.value, ok |-> TRUE]

FindNone ==
  /\ pool = {}
  /\ result' = [val |-> Zero, ok |-> FALSE]
  /\ UNCHANGED pool

Next ==
  \/ \E item \in Item : Add(item) \/ TakeGreatest(item)
  \/ Refuse
  \/ FindNone

Spec == Init /\ [][Next]_vars
=============================================================================
