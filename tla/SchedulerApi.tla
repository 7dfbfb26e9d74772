---------------------------- MODULE SchedulerApi ----------------------------
(***************************************************************************)
(* The scheduler package under every sequence of calls its documentation   *)
(* allows (docs/server/stream_handler.md:57-71): entries are created,      *)
(* given priorities at any time, enqueued, dequeued, enqueued again and    *)
(* dropped.  The task scheduler makes only some of these sequences.        *)
(***************************************************************************)
EXTENDS Scheduler

CONSTANT
  MaxVirtualTime  \* bound: no entry is served beyond this virtual time

VARIABLES
  sched,      \* the scheduler and its entries
  result      \* what the last Enqueue returned

vars == <<sched, result>>

Held(id) == sched.entry[id] # Nil

Init ==
  /\ sched = Empty
  /\ result = TRUE

Create(id) ==
  /\ ~Held(id)
  /\ sched' = CreateEntry(sched, id)
  /\ UNCHANGED result

Prioritise(id, p) ==
  /\ Held(id)
  /\ sched' = SetPriority(sched, id, p)
  /\ UNCHANGED result

\* An entry's priority is set before it is enqueued for the first time.
Submit(id) ==
  /\ Held(id)
  /\ sched.entry[id].weight > 0
  /\ sched' = Enqueue(sched, id)
  /\ result' = CanEnqueue(sched, id)

\* An item is served only within the bound on virtual time.
Serve(item) ==
  /\ item \in First(sched)
  /\ Dequeue(sched, item).lastVirtualFinish <= MaxVirtualTime
  /\ sched' = Dequeue(sched, item)
  /\ UNCHANGED result

\* An entry that has been served, or never enqueued, is dropped.
Drop(id) ==
  /\ Held(id)
  /\ ~sched.entry[id].enqueued
  /\ sched' = Forget(sched, id)
  /\ UNCHANGED result

Next ==
  \/ \E id \in EntryId :
       \/ Create(id)
       \/ \E p \in Priorities : Prioritise(id, p)
       \/ Submit(id)
       \/ Drop(id)
  \/ \E item \in sched.queue : Serve(item)

Spec == Init /\ [][Next]_vars
-----------------------------------------------------------------------------
\* "Once the entry is enqueued, changing the priority has no effect"
\* (docs/server/stream_handler.md:64): a change of priority that is made while
\* the entry waits alters neither which items may come out first nor the state
\* the scheduler's clocks are left in when one does.
PriorityFixedOnceEnqueued ==
  [][\A id \in EntryId, p \in Priorities :
       Prioritise(id, p) /\ sched.entry[id].enqueued =>
         /\ sched'.queue = sched.queue
         /\ \A item \in First(sched) :
              LET before == Dequeue(sched, item)
                  after == Dequeue(sched', item)
              IN /\ after.lastVirtualFinish = before.lastVirtualFinish
                 /\ after.entry[item.id].lastVirtualFinish
                      = before.entry[item.id].lastVirtualFinish]_vars
=============================================================================
