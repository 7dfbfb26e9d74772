--------------------------- MODULE TaskScheduler ---------------------------
(***************************************************************************)
(* stream_handler.priorityTaskScheduler: the goroutines that read requests *)
(* call Enqueue, the connection's acceptor calls Stop once, and one worker *)
(* goroutine, in Run, executes the tasks.  They share the groups, the      *)
(* scheduler and isStopped under a mutex, and a condition variable on it.  *)
(*                                                                         *)
(* Nothing blocks inside a critical section except cond.Wait, so each      *)
(* critical section is one step taken while the mutex is free.  Two things *)
(* happen outside of it and are steps of their own: the Broadcast that     *)
(* follows an Unlock, and the execution of a task.                         *)
(***************************************************************************)
EXTENDS Integers, Sequences, FiniteSets

CONSTANTS
  Policy,           \* the server's queue policy, "sp" or "wfq"
  Submitters,       \* the goroutines that call Enqueue
  MaxCalls,         \* bound: how often each of them does
  RequestLevels,    \* the priorities requests carry; any integer can arrive
  MaxTasksPerLevel, \* maxTasksPerPriorityLevel
  Nil,              \* a nil entry
  Free,             \* nobody holds the mutex
  NoTask            \* the worker executes no task

HIGH_PRIORITY == 0
MEDIUM_PRIORITY == 1
LOW_PRIORITY == 2
PRIORITY_LEVEL_COUNT == LOW_PRIORITY + 1
Levels == 0 .. PRIORITY_LEVEL_COUNT - 1

WeightedFairQueue == "wfq"
StrictPriorityQueue == "sp"

ASSUME ConstantsAssumption ==
  /\ Policy \in {WeightedFairQueue, StrictPriorityQueue}
  /\ MaxCalls \in Nat
  /\ MaxTasksPerLevel \in Nat \ {0}
  /\ RequestLevels \subseteq Int
  /\ Free \notin Submitters
  /\ NoTask \notin Submitters \X (1 .. MaxCalls)

\* The value given to SetPriority for a level.
GetPriority(l) ==
  CASE l = HIGH_PRIORITY -> IF Policy = WeightedFairQueue THEN 49 ELSE 120
    [] l = MEDIUM_PRIORITY -> 110
    [] l = LOW_PRIORITY -> 100

\* The least common multiple of 49, 110 and 100.
VirtualUnit == 53900

VARIABLES
  tasks,      \* groups[l].tasks, oldest first
  sched,      \* the scheduler, with groups[l].entry as its entry l
  isStopped,
  mutex,      \* Free, or the goroutine that returned without unlocking
  runPc,      \* the worker: "lock", "wait", "exec" or "done"
  current,    \* the task the worker executes
  callPc,     \* per submitter: "idle", "lock" or "broadcast" in Enqueue
  level,      \* per submitter: the priority of the call
  calls,      \* per submitter: the calls that have decided
  ok,         \* per submitter: what the last call that decided returns
  stopPc      \* the acceptor: "idle", "lock", "broadcast" or "returned"

shared == <<tasks, sched, isStopped, mutex>>
worker == <<runPc, current>>
callers == <<callPc, level, calls, ok>>
vars == <<shared, worker, callers, stopPc>>

\* Both schedulers are created with capacity PRIORITY_LEVEL_COUNT; their user
\* data is the level.  A level has at most one entry the code still points to,
\* so the level identifies it.
S == INSTANCE Scheduler WITH
       EntryId <- Levels,
       HeapCapacity <- PRIORITY_LEVEL_COUNT,
       Priorities <- {GetPriority(l) : l \in Levels}

ASSUME NilAssumption == Nil \notin S!Entry

\* The n-th closure submitter p passes to Enqueue.
Tasks == Submitters \X (1 .. MaxCalls)
Task(p) == <<p, calls[p] + 1>>

Init ==
  /\ tasks = [l \in Levels |-> << >>]
  /\ sched = S!Empty
  /\ isStopped = FALSE
  /\ mutex = Free
  /\ runPc = "lock"
  /\ current = NoTask
  /\ callPc = [p \in Submitters |-> "idle"]
  /\ level = [p \in Submitters |-> LOW_PRIORITY]
  /\ calls = [p \in Submitters |-> 0]
  /\ ok = [p \in Submitters |-> TRUE]
  /\ stopPc = "idle"

\* Mutant of Broadcast: a notification that does not reach the waiter.
LostBroadcast == runPc' = runPc

\* cond.Broadcast wakes the worker, which then needs the mutex again.
Broadcast == runPc' = IF runPc = "wait" THEN "lock" ELSE runPc
-----------------------------------------------------------------------------
(* Enqueue                                                                 *)

EnqueueCall(p, l) ==
  /\ callPc[p] = "idle"
  /\ calls[p] < MaxCalls
  /\ callPc' = [callPc EXCEPT ![p] = "lock"]
  /\ level' = [level EXCEPT ![p] = l]
  /\ UNCHANGED <<shared, worker, calls, ok, stopPc>>

\* The submitter's call has decided to return r.
Decide(p, r) ==
  /\ calls' = [calls EXCEPT ![p] = @ + 1]
  /\ ok' = [ok EXCEPT ![p] = r]

\* The return for an invalid priority is inside the critical section, and
\* neither unlocks nor broadcasts.
EnqueueInvalid(p) ==
  /\ callPc[p] = "lock"
  /\ mutex = Free
  /\ level[p] \notin Levels
  /\ mutex' = p
  /\ Decide(p, FALSE)
  /\ callPc' = [callPc EXCEPT ![p] = "idle"]
  /\ UNCHANGED <<tasks, sched, isStopped, worker, level, stopPc>>

\* group.entry once it is created if need be and its priority is set.
ReadyEntry(l) ==
  LET created == IF sched.entry[l] = Nil THEN S!CreateEntry(sched, l) ELSE sched
  IN S!SetPriority(created, l, GetPriority(l))

\* Mutant of HasRoom: off by one.
HasRoomForOneMore(l) == Len(tasks[l]) <= MaxTasksPerLevel

\* What group.tasks.Enqueue checks and returns.
HasRoom(l) == Len(tasks[l]) < MaxTasksPerLevel

\* The critical section for a level: the group takes the task unless it is
\* full, and a group that was empty puts its entry into the scheduler.
EnqueueLocked(p) ==
  LET l == level[p]
      taken == HasRoom(l)
      scheduled == taken /\ tasks[l] = << >>
  IN
  /\ callPc[p] = "lock"
  /\ mutex = Free
  /\ l \in Levels
  /\ tasks' = IF taken THEN [tasks EXCEPT ![l] = Append(@, Task(p))] ELSE tasks
  /\ sched' = IF scheduled THEN S!Enqueue(ReadyEntry(l), l) ELSE sched
  /\ Decide(p, taken /\ (scheduled => S!CanEnqueue(ReadyEntry(l), l)))
  /\ callPc' = [callPc EXCEPT ![p] = "broadcast"]
  /\ UNCHANGED <<isStopped, mutex, worker, level, stopPc>>

EnqueueBroadcast(p) ==
  /\ callPc[p] = "broadcast"
  /\ Broadcast
  /\ callPc' = [callPc EXCEPT ![p] = "idle"]
  /\ UNCHANGED <<shared, current, level, calls, ok, stopPc>>
-----------------------------------------------------------------------------
(* Stop                                                                    *)

StopCall ==
  /\ stopPc = "idle"
  /\ stopPc' = "lock"
  /\ UNCHANGED <<shared, worker, callers>>

StopLocked ==
  /\ stopPc = "lock"
  /\ mutex = Free
  /\ isStopped' = TRUE
  /\ stopPc' = "broadcast"
  /\ UNCHANGED <<tasks, sched, mutex, worker, callers>>

\* Mutant of StopBroadcast: Stop forgets to notify.
StopUnnoticed ==
  /\ stopPc = "broadcast"
  /\ stopPc' = "returned"
  /\ UNCHANGED <<shared, worker, callers>>

StopBroadcast ==
  /\ stopPc = "broadcast"
  /\ Broadcast
  /\ stopPc' = "returned"
  /\ UNCHANGED <<shared, current, callers>>
-----------------------------------------------------------------------------
(* Run                                                                     *)

\* The worker holds the mutex at the head of Run's loop.
AtLoopHead == runPc = "lock" /\ mutex = Free

\* Mutant of MayServe: the flag is not tested again after a task.
MayServeOnceStopped == AtLoopHead

\* The test of Run's loop.
MayServe == AtLoopHead /\ ~isStopped

RunExit ==
  /\ AtLoopHead
  /\ isStopped
  /\ runPc' = "done"
  /\ UNCHANGED <<shared, current, callers, stopPc>>

\* cond.Wait joins the waiters and unlocks in one step.
RunWait ==
  /\ MayServe
  /\ sched.queue = {}
  /\ runPc' = "wait"
  /\ UNCHANGED <<shared, current, callers, stopPc>>

\* Mutants of AfterService: the entry is put back whether or not its group has
\* tasks left, never put back, or kept by an empty group.
AlwaysPutBack(served, l) == S!Enqueue(served, l)
NeverPutBack(served, l) == S!Forget(served, l)
KeptByEmptyGroup(served, l) ==
  IF Len(tasks[l]) > 1 THEN S!Enqueue(served, l) ELSE served

\* The scheduler's entry after its group gave up a task: back in the scheduler,
\* or dropped by the group that is now empty.
AfterService(served, l) ==
  IF Len(tasks[l]) > 1 THEN S!Enqueue(served, l) ELSE S!Forget(served, l)

\* Dequeue an entry and the oldest task of its group, and unlock to execute it.
\* An entry dequeued for an empty group just goes round the loop.
RunTask(item) ==
  LET l == item.id
      served == S!Dequeue(sched, item)
  IN
  /\ MayServe
  /\ item \in S!First(sched)
  /\ IF tasks[l] = << >>
     THEN /\ sched' = served
          /\ UNCHANGED <<tasks, worker>>
     ELSE /\ sched' = AfterService(served, l)
          /\ tasks' = [tasks EXCEPT ![l] = Tail(@)]
          /\ current' = Head(tasks[l])
          /\ runPc' = "exec"
  /\ UNCHANGED <<isStopped, mutex, callers, stopPc>>

RunTaskDone ==
  /\ runPc = "exec"
  /\ runPc' = "lock"
  /\ current' = NoTask
  /\ UNCHANGED <<shared, callers, stopPc>>
-----------------------------------------------------------------------------
Submit(p) ==
  \/ \E l \in RequestLevels : EnqueueCall(p, l)
  \/ EnqueueInvalid(p)
  \/ EnqueueLocked(p)
  \/ EnqueueBroadcast(p)

StopNext == StopCall \/ StopLocked \/ StopBroadcast

Run ==
  \/ RunExit
  \/ RunWait
  \/ \E item \in sched.queue : RunTask(item)
  \/ RunTaskDone

\* Every call has returned and so has Run: nothing is left to do.
Finished ==
  /\ \A p \in Submitters : callPc[p] = "idle" /\ calls[p] = MaxCalls
  /\ stopPc = "returned"
  /\ runPc = "done"
  /\ UNCHANGED vars

Next ==
  \/ \E p \in Submitters : Submit(p)
  \/ StopNext
  \/ Run
  \/ Finished

Spec == Init /\ [][Next]_vars

\* The Go runtime runs every goroutine that can run, and hands a mutex that is
\* unlocked to a goroutine that waits for it; tasks return.  Nothing obliges a
\* goroutine to submit a request or the connection to end.
Fairness ==
  /\ WF_vars(Run)
  /\ \A p \in Submitters :
       WF_vars(EnqueueInvalid(p) \/ EnqueueLocked(p) \/ EnqueueBroadcast(p))
  /\ WF_vars(StopLocked \/ StopBroadcast)

FairSpec == Spec /\ Fairness
-----------------------------------------------------------------------------
(* Safety                                                                  *)

TypeOK ==
  /\ tasks \in [Levels -> Seq(Tasks)]
  /\ \A l \in Levels : Len(tasks[l]) <= MaxTasksPerLevel
  /\ sched \in S!State
  /\ isStopped \in BOOLEAN
  /\ mutex \in Submitters \cup {Free}
  /\ runPc \in {"lock", "wait", "exec", "done"}
  /\ current \in Tasks \cup {NoTask}
  /\ (current # NoTask) <=> (runPc = "exec")
  /\ callPc \in [Submitters -> {"idle", "lock", "broadcast"}]
  /\ level \in [Submitters -> RequestLevels \cup {LOW_PRIORITY}]
  /\ calls \in [Submitters -> 0 .. MaxCalls]
  /\ \A p \in Submitters : callPc[p] = "lock" => calls[p] < MaxCalls
  /\ ok \in [Submitters -> BOOLEAN]
  /\ stopPc \in {"idle", "lock", "broadcast", "returned"}

\* What SetPriority makes of a level's priority.
Weight(l) == IF Policy = WeightedFairQueue
             THEN S!InverseWeight(GetPriority(l)) ELSE GetPriority(l)

\* The heap item of a level's entry, while it is queued.
ItemOf(l) == [id |-> l, key |-> S!Key(sched.entry[l])]

\* Outside critical sections a group has tasks exactly if it holds an entry
\* (the comment on priorityGroup.entry), that entry is marked as enqueued and
\* carries its level's priority, and the scheduler holds one item for each
\* such group, with the entry's key, and no other.  Otherwise a group's tasks
\* would never be served, or an entry would be served for an empty group
\* (task_scheduler.go:226 has no branch for that).
EntryMatchesGroup ==
  /\ \A l \in Levels :
       IF tasks[l] = << >>
       THEN sched.entry[l] = Nil
       ELSE /\ sched.entry[l] # Nil
            /\ sched.entry[l].enqueued
            /\ sched.entry[l].weight = Weight(l)
  /\ sched.queue = {ItemOf(l) : l \in {m \in Levels : tasks[m] # << >>}}

\* A worker that sleeps in cond.Wait while there is a task to run or a Stop to
\* obey is about to be woken: somebody is between its Unlock and its Broadcast.
\* The two are separate steps in Enqueue and Stop, so the worker may also have
\* gone to sleep, or served the task, in between.
NoLostWakeup ==
  runPc = "wait" /\ (isStopped \/ \E l \in Levels : tasks[l] # << >>)
    => \/ stopPc = "broadcast"
       \/ \E p \in Submitters : callPc[p] = "broadcast"

\* The longest virtual service time of a level.
MaxInverse == Weight(HIGH_PRIORITY)

Within(a, b, bound) == a <= b + bound /\ b <= a + bound

\* Weighted fairness: the virtual finish times of the levels that have tasks,
\* and the scheduler's own, never drift apart by more than one service of the
\* level with the smallest weight.  While two levels both have tasks, what each
\* is served is therefore in proportion to their weights, up to one task; a
\* level that was idle neither saves up service nor owes any.
FairSpread ==
  Policy = WeightedFairQueue =>
    \A l \in Levels : tasks[l] # << >> =>
      /\ Within(sched.entry[l].lastVirtualFinish, sched.lastVirtualFinish, MaxInverse)
      /\ \A m \in Levels : tasks[m] # << >> =>
           Within(sched.entry[l].lastVirtualFinish,
                  sched.entry[m].lastVirtualFinish, MaxInverse)

\* The bool Enqueue returns tells the truth, on which the caller's accounting
\* of pending requests depends (stream_handler.go:77-85): true if the task
\* is now last in its group, false if no group holds it.
AnswerIsHonest ==
  [][\A p \in Submitters : calls'[p] # calls[p] =>
       IF ok'[p]
       THEN tasks' = [tasks EXCEPT ![level[p]] = Append(@, Task(p))]
       ELSE UNCHANGED tasks]_vars

\* Strict priority: the worker takes a task only from the most urgent level
\* that has any, whatever was submitted while the task before it ran.
PicksMostUrgent ==
  [][\A l \in Levels : (runPc # "exec" /\ runPc' = "exec" /\ tasks'[l] # tasks[l]) =>
       \A m \in Levels : m < l => tasks[m] = << >>]_vars
-----------------------------------------------------------------------------
(* What the stream handler is promised                                     *)

\* The calls whose task has been put into a group or refused.
Decided == {t \in Tasks : t[2] <= calls[t[1]]}

Pool == INSTANCE TaskPool WITH
          Capacity <- MaxTasksPerLevel,
          pending <- tasks,
          running <- current,
          decided <- Decided,
          stopped <- isStopped

\* The groups, the scheduler, the mutex and the condition variable together
\* are a pool of tasks: each task decided once, run at most once, one at a time,
\* in order within its level, and none begun after Stop.
ImplementsPool == Pool!Spec

\* ... and under fair scheduling of the goroutines the pool is served.
ServesPool == Pool!FairSpec

\* Every accepted task is executed, unless the scheduler is stopped first.
AcceptedTasksRun ==
  \A t \in Tasks :
    (\E l \in Levels : \E i \in 1 .. Len(tasks[l]) : tasks[l][i] = t)
      ~> (current = t \/ isStopped)

\* Run returns once Stop has been called ("until Stop is called",
\* docs/server/stream_handler.md:37), whether the worker sleeps or executes.
StopEndsRun == isStopped ~> (runPc = "done")

\* "Start and Stop are non-blocking" (docs/server/stream_handler.md:24): a
\* call of Stop returns.
StopReturns == (stopPc = "lock") ~> (stopPc = "returned")
=============================================================================
