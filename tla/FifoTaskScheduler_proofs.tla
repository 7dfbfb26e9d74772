---------------------- MODULE FifoTaskScheduler_proofs ----------------------
(***************************************************************************)
(* The fifo task scheduler, for every number of submitters and calls and   *)
(* every capacity: types, wakeups, and that it is a pool of tasks of one   *)
(* level (module TaskPool).                                                *)
(***************************************************************************)
EXTENDS FifoTaskScheduler, TLAPS

-----------------------------------------------------------------------------
(* Types                                                                   *)

LEMMA NextTask ==
  ASSUME TypeOK, NEW p \in Submitters, callPc[p] = "lock"
  PROVE  Task(p) \in Tasks /\ calls[p] + 1 \in 1 .. MaxCalls
BY ConstantsAssumption DEF TypeOK, Task, Tasks

LEMMA NextTypes ==
  ASSUME TypeOK, [Next]_vars
  PROVE  TypeOK'
<1> USE ConstantsAssumption
<1>1. ASSUME NEW p \in Submitters, EnqueueCall(p)
      PROVE  TypeOK'
  BY <1>1 DEF TypeOK, EnqueueCall, shared, worker
<1>2. ASSUME NEW p \in Submitters, EnqueueLocked(p)
      PROVE  TypeOK'
  <2>1. Task(p) \in Tasks /\ calls[p] + 1 \in 0 .. MaxCalls
    BY <1>2, NextTask DEF EnqueueLocked
  <2>2. queue' \in Seq(Tasks) /\ Len(queue') <= MaxTasks
    BY <1>2, <2>1 DEF TypeOK, EnqueueLocked, HasRoom
  <2>3. /\ callPc' \in [Submitters -> {"idle", "lock", "broadcast"}]
        /\ calls' \in [Submitters -> 0 .. MaxCalls]
        /\ \A q \in Submitters : callPc'[q] = "lock" => calls'[q] < MaxCalls
    BY <1>2, <2>1 DEF TypeOK, EnqueueLocked
  <2>4. ok' \in [Submitters -> BOOLEAN]
    BY <1>2, HasRoom \in BOOLEAN DEF TypeOK, EnqueueLocked, HasRoom
  <2>5. QED
    BY <1>2, <2>2, <2>3, <2>4 DEF TypeOK, EnqueueLocked, worker
<1>3. ASSUME NEW p \in Submitters, EnqueueBroadcast(p)
      PROVE  TypeOK'
  BY <1>3 DEF TypeOK, EnqueueBroadcast, Broadcast, shared
<1>4. CASE StopCall
  BY <1>4 DEF TypeOK, StopCall, shared, worker, callers
<1>5. CASE StopLocked
  BY <1>5 DEF TypeOK, StopLocked, worker, callers
<1>6. CASE StopBroadcast
  BY <1>6 DEF TypeOK, StopBroadcast, Broadcast, shared, callers
<1>7. CASE RunExit \/ RunWait
  BY <1>7 DEF TypeOK, RunExit, RunWait, shared, callers
<1>8. CASE RunTask
  <2>1. queue \in Seq(Tasks) /\ queue # << >> /\ queue' = Tail(queue)
    BY <1>8 DEF TypeOK, RunTask
  <2>2. queue' \in Seq(Tasks) /\ Len(queue') <= MaxTasks /\ Head(queue) \in Tasks
    BY <2>1 DEF TypeOK
  <2>3. NoTask \notin Tasks
    BY DEF Tasks
  <2>4. QED
    BY <1>8, <2>2, <2>3 DEF TypeOK, RunTask, callers
<1>9. CASE RunTaskDone
  BY <1>9 DEF TypeOK, RunTaskDone, shared, callers
<1>10. CASE UNCHANGED vars
  BY <1>10 DEF TypeOK, vars, shared, worker, callers
<1>11. QED
  BY <1>1, <1>2, <1>3, <1>4, <1>5, <1>6, <1>7, <1>8, <1>9, <1>10 DEF Next, Run, Finished

\* The variables keep their types: the queue never holds more than its capacity,
\* and a task is current exactly while the worker executes one.
THEOREM TypeCorrect ==
  Spec => []TypeOK
<1>1. Init => TypeOK
  <2>1. SUFFICES ASSUME Init PROVE TypeOK
    OBVIOUS
  <2>2. queue \in Seq(Tasks) /\ Len(queue) <= MaxTasks
    BY <2>1, ConstantsAssumption DEF Init
  <2>3. /\ callPc \in [Submitters -> {"idle", "lock", "broadcast"}]
        /\ calls \in [Submitters -> 0 .. MaxCalls]
        /\ \A p \in Submitters : callPc[p] = "lock" => calls[p] < MaxCalls
    BY <2>1, ConstantsAssumption DEF Init
  <2>4. ok \in [Submitters -> BOOLEAN]
    BY <2>1 DEF Init
  <2>5. QED
    BY <2>1, <2>2, <2>3, <2>4 DEF Init, TypeOK
<1>2. QED
  BY <1>1, NextTypes, PTL DEF Spec

-----------------------------------------------------------------------------
(* No lost wakeup                                                          *)

LEMMA NextWakeup ==
  ASSUME TypeOK, NoLostWakeup, [Next]_vars
  PROVE  NoLostWakeup'
<1>1. ASSUME NEW p \in Submitters,
             EnqueueCall(p) \/ EnqueueLocked(p) \/ EnqueueBroadcast(p)
      PROVE  NoLostWakeup'
  BY <1>1 DEF NoLostWakeup, TypeOK, EnqueueCall, EnqueueLocked, EnqueueBroadcast,
              Broadcast, shared, worker
<1>2. CASE StopCall \/ StopLocked \/ StopBroadcast
  BY <1>2 DEF NoLostWakeup, TypeOK, StopCall, StopLocked, StopBroadcast, Broadcast,
              shared, worker, callers
<1>3. CASE Run
  BY <1>3 DEF NoLostWakeup, TypeOK, Run, RunExit, RunWait, RunTask, RunTaskDone,
              shared, callers
<1>4. CASE UNCHANGED vars
  BY <1>4 DEF NoLostWakeup, vars, shared, worker, callers
<1>5. QED
  BY <1>1, <1>2, <1>3, <1>4 DEF Next, Finished

\* A worker that sleeps although there is a task, or a Stop to obey, is about to be
\* woken, although Enqueue and Stop broadcast only after they unlock.
THEOREM WakeupsCorrect ==
  Spec => []NoLostWakeup
<1>1. Init => NoLostWakeup
  BY DEF Init, NoLostWakeup
<1>2. QED
  BY <1>1, NextWakeup, TypeCorrect, PTL DEF Spec

-----------------------------------------------------------------------------
(* The pool of tasks                                                       *)

\* A call that decides, decides a new task and no other.
LEMMA OneMoreDecided ==
  ASSUME TypeOK, NEW p \in Submitters, EnqueueLocked(p)
  PROVE  /\ Task(p) \in Tasks \ Decided
         /\ Decided' = Decided \cup {Task(p)}
<1>1. /\ calls \in [Submitters -> 0 .. MaxCalls] /\ MaxCalls \in Nat
      /\ calls' = [calls EXCEPT ![p] = @ + 1]
      /\ Task(p) = <<p, calls[p] + 1>>
  BY ConstantsAssumption DEF EnqueueLocked, TypeOK, Task
<1>2. Task(p) \in Tasks /\ Task(p) \notin Decided
  <2>1. Task(p) \in Tasks
    BY NextTask DEF EnqueueLocked
  <2>2. ~(calls[p] + 1 <= calls[p])
    BY <1>1
  <2>3. QED
    BY <1>1, <2>1, <2>2 DEF Decided
<1>3. \A q \in Submitters, n \in 1 .. MaxCalls :
         n <= calls'[q] <=> (n <= calls[q] \/ <<q, n>> = Task(p))
  <2> TAKE q \in Submitters, n \in 1 .. MaxCalls
  <2>1. CASE q = p
    BY <1>1, <2>1
  <2>2. CASE q # p
    BY <1>1, <2>2
  <2>3. QED
    BY <2>1, <2>2
<1>4. \A t \in Tasks : t[1] \in Submitters /\ t[2] \in 1 .. MaxCalls /\ t = <<t[1], t[2]>>
  BY DEF Tasks
<1>5. \A t \in Tasks : t \in Decided' <=> (t \in Decided \/ t = Task(p))
  BY <1>3, <1>4 DEF Decided
<1>6. Decided \subseteq Tasks /\ Decided' \subseteq Tasks
  BY DEF Decided
<1>7. QED
  BY <1>2, <1>5, <1>6

LEMMA StepIsPoolStep ==
  ASSUME TypeOK, [Next]_vars
  PROVE  [Pool!Next]_(Pool!vars)
<1> DEFINE pending == [l \in {"all"} |-> queue]
<1>1. ASSUME UNCHANGED <<queue, current, calls, isStopped>>
      PROVE  UNCHANGED Pool!vars
  BY <1>1 DEF Pool!vars, Decided
<1>2. ASSUME NEW p \in Submitters, EnqueueLocked(p)
      PROVE  Pool!Next
  <2>1. /\ Task(p) \in Tasks /\ Task(p) \notin Decided
        /\ Decided' = Decided \cup {Task(p)}
        /\ UNCHANGED <<current, isStopped>>
    BY <1>2, OneMoreDecided DEF EnqueueLocked, worker
  <2>2. CASE HasRoom
    <3>1. pending' = [pending EXCEPT !["all"] = Append(@, Task(p))]
      BY <1>2, <2>2 DEF EnqueueLocked
    <3>2. Len(pending["all"]) < MaxTasks
      BY <2>2 DEF HasRoom
    <3>3. Pool!Accept(Task(p), "all")
      BY <2>1, <3>1, <3>2 DEF Pool!Accept
    <3>4. QED
      BY <2>1, <3>3 DEF Pool!Next
  <2>3. CASE ~HasRoom
    <3>1. Pool!Refuse(Task(p))
      BY <1>2, <2>1, <2>3 DEF EnqueueLocked, Pool!Refuse
    <3>2. QED
      BY <2>1, <3>1 DEF Pool!Next
  <2>4. QED
    BY <2>2, <2>3
<1>3. ASSUME NEW p \in Submitters, EnqueueCall(p) \/ EnqueueBroadcast(p)
      PROVE  UNCHANGED Pool!vars
  BY <1>1, <1>3 DEF EnqueueCall, EnqueueBroadcast, shared, worker
<1>4. CASE StopCall \/ StopBroadcast
  BY <1>1, <1>4 DEF StopCall, StopBroadcast, shared, worker, callers
<1>5. CASE StopLocked
  <2>1. isStopped' = TRUE /\ UNCHANGED <<queue, current, calls>> /\ isStopped \in BOOLEAN
    BY <1>5 DEF StopLocked, worker, callers, TypeOK
  <2>2. CASE isStopped
    BY <1>1, <2>1, <2>2
  <2>3. CASE ~isStopped
    BY <2>1, <2>3 DEF Pool!Next, Pool!Stop, Decided
  <2>4. QED
    BY <2>2, <2>3
<1>6. CASE RunExit \/ RunWait
  BY <1>1, <1>6 DEF RunExit, RunWait, shared, callers
<1>7. CASE RunTask
  <2>1. /\ ~isStopped /\ queue # << >> /\ current = NoTask
        /\ current' = Head(queue) /\ queue' = Tail(queue)
        /\ UNCHANGED <<isStopped, calls>>
    BY <1>7 DEF RunTask, callers, TypeOK
  <2>2. pending' = [pending EXCEPT !["all"] = Tail(@)] /\ pending["all"] = queue
    BY <2>1
  <2>3. Pool!Begin("all")
    BY <2>1, <2>2 DEF Pool!Begin, Decided
  <2>4. QED
    BY <2>3 DEF Pool!Next
<1>8. CASE RunTaskDone
  <2>1. Pool!Finish
    BY <1>8 DEF RunTaskDone, shared, callers, TypeOK, Pool!Finish, Decided
  <2>2. QED
    BY <2>1 DEF Pool!Next
<1>9. CASE UNCHANGED vars
  BY <1>1, <1>9 DEF vars, shared, worker, callers
<1>10. QED
  BY <1>2, <1>3, <1>4, <1>5, <1>6, <1>7, <1>8, <1>9 DEF Next, Run, Finished

\* The queue, the mutex and the condition variable implement the pool of tasks, with
\* one level: every task is decided once, runs at most once and in order, one at a
\* time, and none begins after Stop.
THEOREM Refinement ==
  Spec => Pool!Spec
<1>1. Init => Pool!Init
  BY DEF Init, Pool!Init, Decided, Tasks
<1>2. QED
  BY <1>1, StepIsPoolStep, TypeCorrect, PTL DEF Spec, Pool!Spec
=============================================================================
