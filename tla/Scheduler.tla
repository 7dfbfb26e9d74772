----------------------------- MODULE Scheduler -----------------------------
(***************************************************************************)
(* The scheduler package's strict-priority and weighted-fair schedulers,   *)
(* as functions on the scheduler's state: each operator is one method, and *)
(* returns the state after the call.  The package is not synchronised; its *)
(* user holds a mutex around every call.                                   *)
(*                                                                         *)
(* An entry of the weighted-fair scheduler holds 1/priority and a virtual  *)
(* finish time, both float32 in the code.  Here they are whole numbers of  *)
(* a unit that every priority divides, so 1/priority is VirtualUnit/p      *)
(* exactly; the rounding of float32 is not modelled.                       *)
(*                                                                         *)
(* The binary heap under both schedulers is used only through what module  *)
(* PriorityQueue shows of it: a Dequeue returns some item of greatest key. *)
(***************************************************************************)
EXTENDS Integers, FiniteSets

CONSTANTS
  EntryId,      \* the user data that tells the entries apart
  HeapCapacity, \* the capacity the scheduler was created with
  Policy,       \* which scheduler: StrictPriorityQueue or WeightedFairQueue
  Priorities,   \* the values passed to SetPriority
  VirtualUnit,  \* the number of virtual-time units in 1.0
  Nil           \* a nil entry pointer

StrictPriorityQueue == "sp"
WeightedFairQueue == "wfq"

ASSUME PolicyAssumption == Policy \in {StrictPriorityQueue, WeightedFairQueue}

\* Priorities are positive, so that 1.0 / priority is finite, and the unit is
\* fine enough to hold each of their inverses exactly.
ASSUME PrioritiesAssumption ==
  /\ VirtualUnit \in Nat \ {0}
  /\ \A p \in Priorities :
       /\ p \in 1 .. VirtualUnit
       /\ Policy = WeightedFairQueue => VirtualUnit % p = 0

\* An spEntry (weight is its priority) or a wfqEntry (weight is its
\* inverseWeight).  lastVirtualFinish stays 0 in an spEntry.
Entry == [weight : Nat, lastVirtualFinish : Nat, enqueued : BOOLEAN]

\* A heap item: the entry and the key it was pushed with.
Item == [id : EntryId, key : Int]

\* The scheduler and the entries its user still holds.
State == [entry : [EntryId -> Entry \cup {Nil}],
          queue : SUBSET Item,
          lastVirtualFinish : Nat]

\* NewSP and NewWFQ.
Empty == [entry |-> [id \in EntryId |-> Nil],
          queue |-> {},
          lastVirtualFinish |-> 0]

InverseWeight(p) == VirtualUnit \div p

CreateEntry(s, id) ==
  [s EXCEPT !.entry[id] =
     [weight |-> 0, lastVirtualFinish |-> s.lastVirtualFinish, enqueued |-> FALSE]]

SetPriority(s, id, p) ==
  [s EXCEPT !.entry[id].weight =
     IF Policy = WeightedFairQueue THEN InverseWeight(p) ELSE p]

\* Mutant of Key: the heap's order is not taken into account.
KeyOfSmallest(e) ==
  IF Policy = WeightedFairQueue THEN e.lastVirtualFinish ELSE -e.weight

\* The largest priority first, or the smallest virtual finish first.
Key(e) == IF Policy = WeightedFairQueue THEN -e.lastVirtualFinish ELSE e.weight

CanEnqueue(s, id) ==
  /\ ~s.entry[id].enqueued
  /\ Cardinality(s.queue) < HeapCapacity

Enqueue(s, id) ==
  IF CanEnqueue(s, id)
  THEN [s EXCEPT !.queue = @ \cup {[id |-> id, key |-> Key(s.entry[id])]},
                 !.entry[id].enqueued = TRUE]
  ELSE s

\* The items Dequeue may return: ties are broken by the heap's layout.
First(s) == {item \in s.queue : \A other \in s.queue : item.key >= other.key}

\* Mutant of Dequeue: every entry is charged alike.
DequeueChargesOne(s, item) ==
  LET finish == s.entry[item.id].lastVirtualFinish + 1
  IN [entry |-> [s.entry EXCEPT ![item.id] =
                   [@ EXCEPT !.lastVirtualFinish = finish, !.enqueued = FALSE]],
      queue |-> s.queue \ {item},
      lastVirtualFinish |-> finish]

\* Dequeue of a given first item.  The weighted-fair scheduler charges the
\* entry for its service and moves its virtual clock there.
Dequeue(s, item) ==
  LET e == s.entry[item.id]
      finish == IF Policy = WeightedFairQueue
                THEN e.lastVirtualFinish + e.weight ELSE e.lastVirtualFinish
  IN [entry |-> [s.entry EXCEPT ![item.id] =
                   [e EXCEPT !.lastVirtualFinish = finish, !.enqueued = FALSE]],
      queue |-> s.queue \ {item},
      lastVirtualFinish |-> IF Policy = WeightedFairQueue
                            THEN finish ELSE s.lastVirtualFinish]

\* The user drops its pointer to an entry.
Forget(s, id) == [s EXCEPT !.entry[id] = Nil]
=============================================================================
