------------------------- MODULE FifoTaskScheduler -------------------------
(***************************************************************************)
(* stream_handler.fifoTaskScheduler, the task scheduler of the "fifo"      *)
(* policy: the same goroutines, mutex and condition variable as in module  *)
(* TaskScheduler, but one FIFO scheduler whose entries are the tasks and   *)
(* no priorities.  Each Enqueue creates an entry of its own, so an entry   *)
(* is enqueued at most once and stands for its task.                       *)
(***************************************************************************)
EXTENDS Integers, Sequences

CONSTANTS
  Submitters, \* the goroutines that call Enqueue
  MaxCalls,   \* bound: how often each of them does
  MaxTasks,   \* the FIFO scheduler's capacity, room for every level's tasks
  NoTask      \* the worker executes no task

ASSUME ConstantsAssumption ==
  /\ MaxCalls \in Nat
  /\ MaxTasks \in Nat \ {0}
  /\ NoTask \notin Submitters \X (1 .. MaxCalls)

VARIABLES
  queue,      \* scheduler.queue, oldest first
  isStopped,
  runPc,      \* the worker: "lock", "wait", "exec" or "done"
  current,    \* the task the worker executes
  callPc,     \* per submitter: "idle", "lock" or "broadcast" in Enqueue
  calls,      \* per submitter: the calls that have decided
  ok,         \* per submitter: what the last call that decided returns
  stopPc      \* the acceptor: "idle", "lock", "broadcast" or "returned"

shared == <<queue, isStopped>>
worker == <<runPc, current>>
callers == <<callPc, calls, ok>>
vars == <<shared, worker, callers, stopPc>>

Tasks == Submitters \X (1 .. MaxCalls)
Task(p) == <<p, calls[p] + 1>>

Init ==
  /\ queue = << >>
  /\ isStopped = FALSE
  /\ runPc = "lock"
  /\ current = NoTask
  /\ callPc = [p \in Submitters |-> "idle"]
  /\ calls = [p \in Submitters |-> 0]
  /\ ok = [p \in Submitters |-> TRUE]
  /\ stopPc = "idle"

\* Mutant of Broadcast: a notification that does not reach the waiter.
LostBroadcast == runPc' = runPc

\* cond.Broadcast wakes the worker, which then needs the mutex again.
Broadcast == runPc' = IF runPc = "wait" THEN "lock" ELSE runPc

EnqueueCall(p) ==
  /\ callPc[p] = "idle"
  /\ calls[p] < MaxCalls
  /\ callPc' = [callPc EXCEPT ![p] = "lock"]
  /\ UNCHANGED <<shared, worker, calls, ok, stopPc>>

\* Mutant of HasRoom: off by one.
HasRoomForOneMore == Len(queue) <= MaxTasks

\* What the FIFO scheduler's queue checks and returns.
HasRoom == Len(queue) < MaxTasks

EnqueueLocked(p) ==
  /\ callPc[p] = "lock"
  /\ queue' = IF HasRoom THEN Append(queue, Task(p)) ELSE queue
  /\ ok' = [ok EXCEPT ![p] = HasRoom]
  /\ calls' = [calls EXCEPT ![p] = @ + 1]
  /\ callPc' = [callPc EXCEPT ![p] = "broadcast"]
  /\ UNCHANGED <<isStopped, worker, stopPc>>

EnqueueBroadcast(p) ==
  /\ callPc[p] = "broadcast"
  /\ Broadcast
  /\ callPc' = [callPc EXCEPT ![p] = "idle"]
  /\ UNCHANGED <<shared, current, calls, ok, stopPc>>

StopCall ==
  /\ stopPc = "idle"
  /\ stopPc' = "lock"
  /\ UNCHANGED <<shared, worker, callers>>

StopLocked ==
  /\ stopPc = "lock"
  /\ isStopped' = TRUE
  /\ stopPc' = "broadcast"
  /\ UNCHANGED <<queue, worker, callers>>

\* Mutant of StopBroadcast: Stop forgets to notify.
StopUnnoticed ==
  /\ stopPc = "broadcast"
  /\ stopPc' = "returned"
  /\ UNCHANGED <<shared, worker, callers>>

StopBroadcast ==
  /\ stopPc = "broadcast"
  /\ Broadcast
  /\ stopPc' = "returned"
  /\ UNCHANGED <<shared, current, callers>>

RunExit ==
  /\ runPc = "lock"
  /\ isStopped
  /\ runPc' = "done"
  /\ UNCHANGED <<shared, current, callers, stopPc>>

RunWait ==
  /\ runPc = "lock"
  /\ ~isStopped
  /\ queue = << >>
  /\ runPc' = "wait"
  /\ UNCHANGED <<shared, current, callers, stopPc>>

\* Mutant of RunTask: the flag is not tested again after a task.
RunTaskOnceStopped ==
  /\ runPc = "lock"
  /\ queue # << >>
  /\ current' = Head(queue)
  /\ queue' = Tail(queue)
  /\ runPc' = "exec"
  /\ UNCHANGED <<isStopped, callers, stopPc>>

\* Dequeue the oldest entry, and unlock to execute its task.
RunTask ==
  /\ runPc = "lock"
  /\ ~isStopped
  /\ queue # << >>
  /\ current' = Head(queue)
  /\ queue' = Tail(queue)
  /\ runPc' = "exec"
  /\ UNCHANGED <<isStopped, callers, stopPc>>

RunTaskDone ==
  /\ runPc = "exec"
  /\ runPc' = "lock"
  /\ current' = NoTask
  /\ UNCHANGED <<shared, callers, stopPc>>

Run == RunExit \/ RunWait \/ RunTask \/ RunTaskDone

\* Every call has returned and so has Run: nothing is left to do.
Finished ==
  /\ \A p \in Submitters : callPc[p] = "idle" /\ calls[p] = MaxCalls
  /\ stopPc = "returned"
  /\ runPc = "done"
  /\ UNCHANGED vars

Next ==
  \/ \E p \in Submitters :
       EnqueueCall(p) \/ EnqueueLocked(p) \/ EnqueueBroadcast(p)
  \/ StopCall
  \/ StopLocked
  \/ StopBroadcast
  \/ Run
  \/ Finished

\* As in module TaskScheduler.
Fairness ==
  /\ WF_vars(Run)
  /\ \A p \in Submitters : WF_vars(EnqueueLocked(p) \/ EnqueueBroadcast(p))
  /\ WF_vars(StopLocked \/ StopBroadcast)

Spec == Init /\ [][Next]_vars
FairSpec == Spec /\ Fairness
-----------------------------------------------------------------------------
TypeOK ==
  /\ queue \in Seq(Tasks)
  /\ Len(queue) <= MaxTasks
  /\ isStopped \in BOOLEAN
  /\ runPc \in {"lock", "wait", "exec", "done"}
  /\ current \in Tasks \cup {NoTask}
  /\ (current # NoTask) <=> (runPc = "exec")
  /\ callPc \in [Submitters -> {"idle", "lock", "broadcast"}]
  /\ calls \in [Submitters -> 0 .. MaxCalls]
  /\ \A p \in Submitters : callPc[p] = "lock" => calls[p] < MaxCalls
  /\ ok \in [Submitters -> BOOLEAN]
  /\ stopPc \in {"idle", "lock", "broadcast", "returned"}

\* A worker that sleeps in cond.Wait while there is a task to run or a Stop to
\* obey is about to be woken, although Unlock and Broadcast are separate steps.
NoLostWakeup ==
  runPc = "wait" /\ (isStopped \/ queue # << >>)
    => \/ stopPc = "broadcast"
       \/ \E p \in Submitters : callPc[p] = "broadcast"

Decided == {t \in Tasks : t[2] <= calls[t[1]]}

\* One level for all: the requests' priorities are ignored.
Pool == INSTANCE TaskPool WITH
          Levels <- {"all"},
          Capacity <- MaxTasks,
          pending <- [l \in {"all"} |-> queue],
          running <- current,
          decided <- Decided,
          stopped <- isStopped

\* The queue, the mutex and the condition variable together are a pool of
\* tasks of one level: each task decided once, run at most once, one at a time,
\* in the order of the critical sections of Enqueue, and none begun after Stop;
\* and under fair scheduling of the goroutines it is served.
ServesPool == Pool!FairSpec

\* Stop returns, and ends Run, whether the worker sleeps or executes a task: no
\* priority is refused here, so no call leaves the mutex locked.
StopReturns == (stopPc = "lock") ~> (stopPc = "returned" /\ runPc = "done")
=============================================================================
