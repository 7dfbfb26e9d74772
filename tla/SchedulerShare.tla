--------------------------- MODULE SchedulerShare ---------------------------
(***************************************************************************)
(* The weighted-fair scheduler under the use its documentation gives to    *)
(* "guarantee fairness" (docs/server/stream_handler.md:67-71): every entry *)
(* always has work, so each one that is served is enqueued again before    *)
(* the next is dequeued.  wfq_scheduler_test.go runs one such schedule.    *)
(***************************************************************************)
EXTENDS Scheduler

CONSTANT
  MaxRounds   \* bound: how often the scheduler is asked for an entry

VARIABLES
  sched,      \* the scheduler and its entries
  priority,   \* the priority each entry was given
  rounds,     \* history: how often each entry was served
  total       \* history: how often any entry was

vars == <<sched, priority, rounds, total>>

ASSUME ShareAssumption ==
  /\ Policy = WeightedFairQueue
  /\ IsFiniteSet(EntryId)
  /\ HeapCapacity \in Nat
  /\ Cardinality(EntryId) <= HeapCapacity
  /\ MaxRounds \in Nat

\* Every entry has been created, given a priority and enqueued.
Init ==
  /\ priority \in [EntryId -> Priorities]
  /\ rounds = [id \in EntryId |-> 0]
  /\ total = 0
  /\ sched = [entry |-> [id \in EntryId |-> [weight |-> InverseWeight(priority[id]),
                                             lastVirtualFinish |-> 0,
                                             enqueued |-> TRUE]],
              queue |-> {[id |-> id, key |-> 0] : id \in EntryId},
              lastVirtualFinish |-> 0]

Serve(item) ==
  /\ total < MaxRounds
  /\ item \in First(sched)
  /\ sched' = Enqueue(Dequeue(sched, item), item.id)
  /\ rounds' = [rounds EXCEPT ![item.id] = @ + 1]
  /\ total' = total + 1
  /\ UNCHANGED priority

Next == \E item \in sched.queue : Serve(item)

Spec == Init /\ [][Next]_vars
-----------------------------------------------------------------------------
\* The virtual time an entry has been served.
Service(id) == rounds[id] * InverseWeight(priority[id])

\* "The weighted fair queuing scheduler tries to serve entries proportionally
\* to their priorities" (wfq_scheduler.go:20-24): at no moment is an entry ahead
\* of another by more than one of its own services, so over any period the
\* shares are in proportion up to one service, whatever way ties are broken.  (When
\* as many entries have been served as the priorities add up to, each has been
\* served as often as its priority: what wfq_scheduler_test.go:31-53 observes.)
SharesAreProportional ==
  \A a, b \in EntryId : Service(a) <= Service(b) + InverseWeight(priority[a])
=============================================================================
