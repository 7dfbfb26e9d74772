------------------ MODULE TaskSchedulerGuarantees_proofs ------------------
(***************************************************************************)
(* What the callers of the priority task scheduler rely on, proved from    *)
(* the inductive invariant of TaskScheduler_proofs: no wakeup is lost, the *)
(* answers of Enqueue are true, each policy chooses as it should, and the  *)
(* whole is a pool of tasks (module TaskPool).                             *)
(***************************************************************************)
EXTENDS TaskScheduler_proofs

-----------------------------------------------------------------------------
(* No lost wakeup                                                          *)

\* Nothing is queued when the scheduler is empty: what the worker tests before
\* it waits is what its wakeup depends on.
LEMMA EmptyScheduler ==
  ASSUME IInv, sched.queue = {}
  PROVE  \A l \in Levels : tasks[l] = << >>
BY DEF IInv, EntryMatchesGroup

LEMMA NextWakeup ==
  ASSUME IInv, NoLostWakeup, [Next]_vars
  PROVE  NoLostWakeup'
<1> DEFINE Work == isStopped \/ \E l \in Levels : tasks[l] # << >>
           Notified == \/ stopPc = "broadcast"
                       \/ \E p \in Submitters : callPc[p] = "broadcast"
<1>0. /\ runPc = "wait" /\ Work => Notified
      /\ NoLostWakeup' <=> (runPc' = "wait" /\ Work' => Notified')
      /\ callPc \in [Submitters -> {"idle", "lock", "broadcast"}]
  BY DEF NoLostWakeup, IInv, TypeOK
<1>1. ASSUME NEW p \in Submitters, NEW l \in RequestLevels, EnqueueCall(p, l)
      PROVE  NoLostWakeup'
  BY <1>0, <1>1 DEF EnqueueCall, shared, worker
<1>2. ASSUME NEW p \in Submitters, EnqueueInvalid(p)
      PROVE  NoLostWakeup'
  BY <1>0, <1>2 DEF EnqueueInvalid, worker
<1>3. ASSUME NEW p \in Submitters, EnqueueLocked(p)
      PROVE  NoLostWakeup'
  BY <1>0, <1>3 DEF EnqueueLocked
<1>4. ASSUME NEW p \in Submitters, EnqueueBroadcast(p)
      PROVE  NoLostWakeup'
  BY <1>0, <1>4 DEF EnqueueBroadcast, Broadcast
<1>5. CASE StopCall
  BY <1>0, <1>5 DEF StopCall, shared, worker, callers
<1>6. CASE StopLocked
  BY <1>0, <1>6 DEF StopLocked
<1>7. CASE StopBroadcast
  BY <1>0, <1>7 DEF StopBroadcast, Broadcast
<1>8. CASE RunExit
  BY <1>0, <1>8 DEF RunExit
<1>9. CASE RunWait
  <2>1. ~Work
    BY <1>9, EmptyScheduler DEF RunWait, MayServe
  <2>2. ~Work'
    BY <1>9, <2>1 DEF RunWait, shared
  <2>3. QED
    BY <1>0, <2>2
<1>10. ASSUME NEW item \in sched.queue, RunTask(item)
       PROVE  NoLostWakeup'
  BY <1>0, <1>10, RunTaskEffect
<1>11. CASE RunTaskDone
  BY <1>0, <1>11 DEF RunTaskDone
<1>12. CASE UNCHANGED vars
  BY <1>0, <1>12 DEF vars, shared, worker, callers
<1>13. QED
  BY <1>1, <1>2, <1>3, <1>4, <1>5, <1>6, <1>7, <1>8, <1>9, <1>10, <1>11, <1>12
  DEF Next, Submit, StopNext, Run, Finished

\* A worker that sleeps although there is work, or a Stop to obey, is about to
\* be woken, although Enqueue and Stop broadcast only after they unlock.
THEOREM WakeupsCorrect ==
  Spec => []NoLostWakeup
<1>1. Init => NoLostWakeup
  BY DEF Init, NoLostWakeup
<1>2. QED
  BY <1>1, NextWakeup, Invariance, PTL DEF Spec

-----------------------------------------------------------------------------
(* The answers of Enqueue                                                  *)

LEMMA NextHonest ==
  ASSUME IInv, [Next]_vars, NEW p \in Submitters, calls'[p] # calls[p]
  PROVE  IF ok'[p]
         THEN tasks' = [tasks EXCEPT ![level[p]] = Append(@, Task(p))]
         ELSE UNCHANGED tasks
<1>0. calls \in [Submitters -> 0 .. MaxCalls] /\ ok \in [Submitters -> BOOLEAN]
  BY DEF IInv, TypeOK
<1>1. ASSUME NEW q \in Submitters, EnqueueInvalid(q)
      PROVE  q = p /\ ~ok'[p] /\ UNCHANGED tasks
  <2>1. /\ calls' = [calls EXCEPT ![q] = @ + 1]
        /\ ok' = [ok EXCEPT ![q] = FALSE]
        /\ UNCHANGED tasks
    BY <1>1 DEF EnqueueInvalid, Decide
  <2>2. q = p
    BY <1>0, <2>1
  <2>3. QED
    BY <1>0, <2>1, <2>2
<1>2. ASSUME NEW q \in Submitters, EnqueueLocked(q)
      PROVE  q = p
  BY <1>0, <1>2 DEF EnqueueLocked, Decide
<1>3. ASSUME EnqueueLocked(p)
      PROVE  IF ok'[p]
             THEN tasks' = [tasks EXCEPT ![level[p]] = Append(@, Task(p))]
             ELSE UNCHANGED tasks
  <2>1. ok'[p] <=> HasRoom(level[p])
    BY <1>0, <1>3, EnqueueEffect
  <2>2. CASE HasRoom(level[p])
    BY <1>3, <2>1, <2>2, EnqueueEffect
  <2>3. CASE ~HasRoom(level[p])
    BY <1>3, <2>1, <2>3, EnqueueEffect
  <2>4. QED
    BY <2>2, <2>3
<1>4. ASSUME NEW q \in Submitters, Submit(q)
      PROVE  EnqueueInvalid(q) \/ EnqueueLocked(q)
  BY <1>4 DEF Submit, EnqueueCall, EnqueueBroadcast
<1>5. UNCHANGED vars \/ StopNext \/ Run => UNCHANGED calls
  BY DEF vars, callers, StopNext, StopCall, StopLocked, StopBroadcast,
         Run, RunExit, RunWait, RunTask, RunTaskDone
<1>6. QED
  BY <1>1, <1>2, <1>3, <1>4, <1>5 DEF Next, Finished

\* Enqueue returns true exactly when its task is now last in the group of its
\* priority, and false when nothing was queued.
THEOREM AnswersCorrect ==
  Spec => AnswerIsHonest
<1>1. IInv /\ [Next]_vars =>
        [\A p \in Submitters : calls'[p] # calls[p] =>
           IF ok'[p]
           THEN tasks' = [tasks EXCEPT ![level[p]] = Append(@, Task(p))]
           ELSE UNCHANGED tasks]_vars
  BY NextHonest
<1>2. QED
  BY <1>1, Invariance, PTL DEF Spec, AnswerIsHonest

-----------------------------------------------------------------------------
(* The choice of the next task                                             *)

\* Only RunTask begins a task, and takes it from its item's level.
LEMMA OnlyRunTaskBegins ==
  ASSUME IInv, [Next]_vars, runPc # "exec", runPc' = "exec"
  PROVE  \E item \in sched.queue : RunTask(item)
<1>1. ASSUME NEW p \in Submitters, Submit(p)
      PROVE  runPc' = runPc \/ runPc' = "lock"
  BY <1>1 DEF Submit, EnqueueCall, EnqueueInvalid, EnqueueLocked, EnqueueBroadcast,
              Broadcast, worker
<1>2. StopNext => runPc' = runPc \/ runPc' = "lock"
  BY DEF StopNext, StopCall, StopLocked, StopBroadcast, Broadcast, worker
<1>3. RunExit \/ RunWait \/ RunTaskDone => runPc' # "exec"
  BY DEF RunExit, RunWait, RunTaskDone
<1>4. UNCHANGED vars => runPc' = runPc
  BY DEF vars, worker
<1>5. QED
  BY <1>1, <1>2, <1>3, <1>4 DEF Next, Run, Finished

\* Under strict priority a level's key is its weight, which falls from level
\* to level.
LEMMA StrictKeys ==
  ASSUME IInv, Policy = "sp", NEW l \in Levels, tasks[l] # << >>
  PROVE  ItemOf(l).key = Weight(l)
<1>1. /\ sched.entry[l] = QueuedEntry(Weight(l), sched.entry[l].lastVirtualFinish)
      /\ sched.entry[l].lastVirtualFinish \in Nat
  BY QueuedLevel
<1>2. S!Key(sched.entry[l]) = Weight(l)
  BY <1>1, WeightType, EntryKey
<1>3. QED
  BY <1>2 DEF ItemOf

LEMMA NextUrgent ==
  ASSUME IInv, [Next]_vars, Policy = "sp",
         runPc # "exec", runPc' = "exec",
         NEW l \in Levels, tasks'[l] # tasks[l],
         NEW m \in Levels, m < l
  PROVE  tasks[m] = << >>
<1>1. PICK item \in sched.queue : RunTask(item)
  BY OnlyRunTaskBegins
<1>2. /\ item.id \in Levels
      /\ item = ItemOf(item.id)
      /\ item \in S!First(sched)
      /\ tasks[item.id] # << >>
      /\ tasks' = [tasks EXCEPT ![item.id] = Tail(tasks[item.id])]
  BY <1>1, RunTaskEffect
<1>3. item.id = l
  BY <1>2 DEF IInv, TypeOK
<1>4. SUFFICES ASSUME tasks[m] # << >> PROVE FALSE
  OBVIOUS
<1>5. ItemOf(m) \in sched.queue
  BY <1>4, QueuedLevel
<1>6. ItemOf(l).key >= ItemOf(m).key
  BY <1>2, <1>3, <1>5 DEF S!First
<1>7. Weight(l) >= Weight(m)
  BY <1>2, <1>3, <1>4, <1>6, StrictKeys
<1>8. Weight(m) > Weight(l)
  BY LevelsAre, Weights
<1>9. QED
  BY <1>7, <1>8, WeightType

\* With the strict-priority policy a task begins only while no more urgent
\* level has any.
THEOREM UrgencyCorrect ==
  ASSUME Policy = "sp"
  PROVE  Spec => PicksMostUrgent
<1>1. IInv /\ [Next]_vars =>
        [\A l \in Levels : (runPc # "exec" /\ runPc' = "exec" /\ tasks'[l] # tasks[l]) =>
           \A m \in Levels : m < l => tasks[m] = << >>]_vars
  BY NextUrgent
<1>2. QED
  BY <1>1, Invariance, PTL DEF Spec, PicksMostUrgent

-----------------------------------------------------------------------------
(* Weighted fairness                                                       *)

\* The least virtual finish time is served.
LEMMA FairKeys ==
  ASSUME IInv, Policy = "wfq", NEW l \in Levels, tasks[l] # << >>
  PROVE  /\ sched.entry[l].lastVirtualFinish \in Nat
         /\ ItemOf(l).key = -sched.entry[l].lastVirtualFinish
<1>1. /\ sched.entry[l] = QueuedEntry(Weight(l), sched.entry[l].lastVirtualFinish)
      /\ sched.entry[l].lastVirtualFinish \in Nat
  BY QueuedLevel
<1>2. S!Key(sched.entry[l]) = -sched.entry[l].lastVirtualFinish
  BY <1>1, WeightType, EntryKey
<1>3. QED
  BY <1>1, <1>2 DEF ItemOf

\* The virtual finish time of a level, and what FairSpread says of them.
VFinish(l) == sched.entry[l].lastVirtualFinish

Spread ==
  \A l \in Levels : tasks[l] # << >> =>
    /\ Within(VFinish(l), sched.lastVirtualFinish, MaxInverse)
    /\ \A m \in Levels : tasks[m] # << >> => Within(VFinish(l), VFinish(m), MaxInverse)

LEMMA WeightsUpToMax ==
  ASSUME Policy = "wfq"
  PROVE  MaxInverse \in Nat /\ \A l \in Levels : Weight(l) <= MaxInverse
BY LevelsAre, Weights DEF MaxInverse, HIGH_PRIORITY

LEMMA RunTaskSpread ==
  ASSUME IInv, Policy = "wfq", Spread, NEW item \in sched.queue, RunTask(item)
  PROVE  Spread'
<1> DEFINE l == item.id
           f == VFinish(l)
           g == f + Weight(l)
<1>1. /\ l \in Levels
      /\ item = ItemOf(l)
      /\ item \in S!First(sched)
      /\ tasks[l] # << >>
      /\ tasks' = [tasks EXCEPT ![l] = Tail(tasks[l])]
  BY RunTaskEffect
<1>2. /\ Finish(l) = g /\ ClockAfter(l) = g
      /\ f \in Nat /\ Weight(l) \in Nat /\ Weight(l) <= MaxInverse /\ MaxInverse \in Nat
  BY <1>1, FairKeys, WeightType, WeightsUpToMax DEF Finish, ClockAfter, VFinish
<1>3. \A m \in Levels : tasks[m] # << >> =>
         VFinish(m) \in Nat /\ f <= VFinish(m) /\ VFinish(m) <= f + MaxInverse
  <2>1. SUFFICES ASSUME NEW m \in Levels, tasks[m] # << >>
                 PROVE  VFinish(m) \in Nat /\ f <= VFinish(m)
                        /\ VFinish(m) <= f + MaxInverse
    OBVIOUS
  <2>2. ItemOf(m) \in sched.queue
    BY <2>1, QueuedLevel
  <2>3. ItemOf(l).key >= ItemOf(m).key
    BY <1>1, <2>2 DEF S!First
  <2>4. VFinish(m) \in Nat /\ f <= VFinish(m)
    <3>1. VFinish(m) \in Nat /\ ItemOf(m).key = -VFinish(m)
      BY <2>1, FairKeys DEF VFinish
    <3>2. VFinish(l) \in Nat /\ ItemOf(l).key = -VFinish(l)
      BY <1>1, FairKeys DEF VFinish
    <3> HIDE DEF l
    <3>3. f = VFinish(l)
      OBVIOUS
    <3> HIDE DEF f
    <3>4. QED
      BY <2>3, <3>1, <3>2, <3>3
  <2>5. Within(VFinish(m), f, MaxInverse)
    BY <1>1, <2>1 DEF Spread
  <2>6. QED
    BY <2>4, <2>5 DEF Within
<1>4. /\ sched'.lastVirtualFinish = g
      /\ Len(tasks[l]) > 1 => VFinish(l)' = g
      /\ ~(Len(tasks[l]) > 1) => tasks'[l] = << >>
      /\ \A m \in Levels \ {l} : tasks'[m] = tasks[m] /\ VFinish(m)' = VFinish(m)
  <2>1. tasks[l] \in Seq(Tasks) /\ tasks \in [Levels -> Seq(Tasks)]
    BY <1>1 DEF IInv, TypeOK
  <2>2. /\ Len(tasks[l]) > 1 <=> Tail(tasks[l]) # << >>
        /\ tasks'[l] = Tail(tasks[l])
        /\ \A m \in Levels \ {l} : tasks'[m] = tasks[m]
    BY <1>1, <2>1, Shortened
  <2>3. CASE Len(tasks[l]) > 1
    <3>1. /\ sched'.lastVirtualFinish = ClockAfter(l)
          /\ sched'.entry = [sched.entry EXCEPT ![l] = QueuedEntry(Weight(l), Finish(l))]
      BY <2>3, RunTaskEffect
    <3>2. sched'.entry[l] = QueuedEntry(Weight(l), g)
      BY <1>1, <1>2, <3>1, SchedType DEF IInv
    <3>3. \A m \in Levels \ {l} : sched'.entry[m] = sched.entry[m]
      BY <1>1, <3>1, SchedType DEF IInv
    <3>4. VFinish(l)' = g
      BY <3>2, EntryFields DEF VFinish
    <3>5. QED
      BY <1>2, <2>2, <2>3, <3>1, <3>3, <3>4 DEF VFinish
  <2>4. CASE ~(Len(tasks[l]) > 1)
    <3>1. /\ sched'.lastVirtualFinish = ClockAfter(l)
          /\ sched'.entry = [sched.entry EXCEPT ![l] = Nil]
      BY <2>4, RunTaskEffect
    <3>2. \A m \in Levels \ {l} : sched'.entry[m] = sched.entry[m]
      BY <1>1, <3>1, SchedType DEF IInv
    <3>3. QED
      BY <1>2, <2>2, <2>4, <3>1, <3>2 DEF VFinish
  <2>5. QED
    BY <2>3, <2>4
<1> HIDE DEF l, f
<1>5. \A m \in Levels : tasks'[m] # << >> =>
         /\ VFinish(m)' \in Nat
         /\ m = l => VFinish(m)' = g
         /\ m # l => f <= VFinish(m)' /\ VFinish(m)' <= f + MaxInverse
  BY <1>1, <1>2, <1>3, <1>4
<1>6. \A m \in Levels : tasks'[m] # << >> =>
         /\ Within(VFinish(m)', g, MaxInverse)
         /\ \A n \in Levels : tasks'[n] # << >> =>
              Within(VFinish(m)', VFinish(n)', MaxInverse)
  BY <1>2, <1>5 DEF Within
<1>7. QED
  BY <1>4, <1>6 DEF Spread, MaxInverse

LEMMA EnqueueSpread ==
  ASSUME IInv, Policy = "wfq", Spread, NEW p \in Submitters, EnqueueLocked(p)
  PROVE  Spread'
<1> DEFINE clock == sched.lastVirtualFinish
<1>0. PICK l \in Levels : l = level[p]
  BY EnqueueEffect
<1>1. /\ clock \in Nat
      /\ MaxInverse \in Nat
      /\ tasks \in [Levels -> Seq(Tasks)]
  BY EnqueueEffect, SchedType, WeightsUpToMax DEF IInv, TypeOK
<1>2. \A m \in Levels : tasks[m] # << >> => VFinish(m) \in Nat
  BY FairKeys DEF VFinish
<1>3. CASE sched' = sched /\ tasks' = tasks
  BY <1>3 DEF Spread, VFinish, MaxInverse
<1>4. CASE HasRoom(l) /\ tasks[l] # << >>
  <2>1. sched' = sched /\ \A m \in Levels \ {l} : tasks'[m] = tasks[m]
    BY <1>0, <1>1, <1>4, EnqueueEffect
  <2>2. \A m \in Levels : VFinish(m)' = VFinish(m)
    BY <2>1 DEF VFinish
  <2>3. \A m \in Levels : tasks'[m] # << >> => tasks[m] # << >>
    BY <1>4, <2>1
  <2>4. QED
    BY <2>1, <2>2, <2>3 DEF Spread, MaxInverse
<1>5. CASE HasRoom(l) /\ tasks[l] = << >>
  <2>1. /\ sched'.entry = [sched.entry EXCEPT ![l] = QueuedEntry(Weight(l), clock)]
        /\ sched'.lastVirtualFinish = clock
        /\ \A m \in Levels \ {l} : tasks'[m] = tasks[m]
    <3>1. /\ sched' = [entry |-> [sched.entry EXCEPT ![l] = FreshEntry(l)],
                       queue |-> OthersItems(l) \cup {KeyedItem(l, FreshEntry(l))},
                       lastVirtualFinish |-> clock]
          /\ tasks' = [tasks EXCEPT ![l] = Append(tasks[l], Task(p))]
      BY <1>0, <1>5, EnqueueEffect
    <3>2. QED
      BY <1>1, <3>1 DEF FreshEntry
  <2>2. /\ sched'.entry[l] = QueuedEntry(Weight(l), clock)
        /\ \A m \in Levels \ {l} : sched'.entry[m] = sched.entry[m]
    BY <1>1, <2>1, SchedType DEF IInv
  <2>3. VFinish(l)' = clock /\ \A m \in Levels \ {l} : VFinish(m)' = VFinish(m)
    BY <2>2, EntryFields DEF VFinish
  <2> HIDE DEF clock
  <2>4. \A m \in Levels \ {l} : tasks'[m] # << >> =>
           /\ VFinish(m)' \in Nat
           /\ Within(VFinish(m)', clock, MaxInverse)
           /\ \A n \in Levels \ {l} : tasks'[n] # << >> =>
                Within(VFinish(m)', VFinish(n)', MaxInverse)
    BY <1>2, <2>1, <2>3 DEF Spread, clock
  <2>5. \A m \in Levels : tasks'[m] # << >> =>
           /\ Within(VFinish(m)', clock, MaxInverse)
           /\ \A n \in Levels : tasks'[n] # << >> =>
                Within(VFinish(m)', VFinish(n)', MaxInverse)
    BY <1>1, <2>3, <2>4 DEF Within
  <2>6. QED
    BY <2>1, <2>5 DEF Spread, MaxInverse
<1>6. QED
  BY <1>0, <1>3, <1>4, <1>5, EnqueueEffect

LEMMA NextSpread ==
  ASSUME IInv, Policy = "wfq", Spread, [Next]_vars
  PROVE  Spread'
<1>1. CASE UNCHANGED <<tasks, sched>>
  BY <1>1 DEF Spread, VFinish, MaxInverse
<1>2. ASSUME NEW p \in Submitters, Submit(p)
      PROVE  EnqueueLocked(p) \/ UNCHANGED <<tasks, sched>>
  BY <1>2 DEF Submit, EnqueueCall, EnqueueInvalid, EnqueueBroadcast, shared
<1>3. StopNext => UNCHANGED <<tasks, sched>>
  BY DEF StopNext, StopCall, StopLocked, StopBroadcast, shared
<1>4. RunExit \/ RunWait \/ RunTaskDone => UNCHANGED <<tasks, sched>>
  BY DEF RunExit, RunWait, RunTaskDone, shared
<1>5. UNCHANGED vars => UNCHANGED <<tasks, sched>>
  BY DEF vars, shared
<1>6. QED
  BY <1>1, <1>2, <1>3, <1>4, <1>5, EnqueueSpread, RunTaskSpread DEF Next, Run, Finished

\* With weighted fair queueing no level that has tasks is ever further ahead
\* of, or behind, another one or the scheduler's clock than one service of the
\* level of smallest weight, for any number of requests and whenever they come.
THEOREM FairnessCorrect ==
  Spec => []FairSpread
<1>1. Spread => FairSpread
  BY DEF Spread, FairSpread, VFinish
<1>2. Policy # WeightedFairQueue => FairSpread
  BY DEF FairSpread
<1>3. CASE Policy = WeightedFairQueue
  <2>1. Policy = "wfq"
    BY <1>3 DEF WeightedFairQueue
  <2>2. Init => Spread
    BY DEF Init, Spread
  <2>3. IInv /\ Spread /\ [Next]_vars => Spread'
    BY <2>1, NextSpread
  <2>4. QED
    BY <1>1, <2>2, <2>3, Invariance, PTL DEF Spec
<1>4. CASE Policy # WeightedFairQueue
  <2>1. FairSpread
    BY <1>2, <1>4
  <2>2. FairSpread /\ FairSpread'
    BY <1>4 DEF FairSpread
  <2>3. QED
    BY <2>2, PTL DEF Spec
<1>5. QED
  BY <1>3, <1>4

-----------------------------------------------------------------------------
(* A pool of tasks                                                         *)

\* A call decides its own task, which was not decided before.
LEMMA OneMoreDecided ==
  ASSUME IInv, NEW p \in Submitters, callPc[p] = "lock",
         calls' = [calls EXCEPT ![p] = @ + 1]
  PROVE  /\ Task(p) \in Tasks
         /\ Task(p) \notin Decided
         /\ Decided' = Decided \cup {Task(p)}
<1>1. /\ calls \in [Submitters -> 0 .. MaxCalls]
      /\ calls[p] \in 0 .. MaxCalls /\ calls[p] < MaxCalls
      /\ MaxCalls \in Nat
  BY ConstantsAssumption DEF IInv, TypeOK
<1>2. Task(p) = <<p, calls[p] + 1>> /\ Task(p) \in Tasks
  BY <1>1 DEF Task, Tasks
<1>3. Task(p) \notin Decided
  BY <1>1, <1>2 DEF Decided
<1>4. \A q \in Submitters, n \in 1 .. MaxCalls :
         n <= calls'[q] <=> (n <= calls[q] \/ <<q, n>> = Task(p))
  <2>1. SUFFICES ASSUME NEW q \in Submitters, NEW n \in 1 .. MaxCalls
                 PROVE  n <= calls'[q] <=> (n <= calls[q] \/ <<q, n>> = Task(p))
    OBVIOUS
  <2>2. CASE q = p
    BY <1>1, <1>2, <2>1, <2>2
  <2>3. CASE q # p
    BY <1>1, <1>2, <2>1, <2>3
  <2>4. QED
    BY <2>2, <2>3
<1>5. \A t \in Tasks : t[1] \in Submitters /\ t[2] \in 1 .. MaxCalls /\ t = <<t[1], t[2]>>
  BY DEF Tasks
<1>6. \A t \in Tasks : t \in Decided' <=> (t \in Decided \/ t = Task(p))
  BY <1>4, <1>5 DEF Decided
<1>7. Decided \subseteq Tasks /\ Decided' \subseteq Tasks
  BY DEF Decided
<1>8. QED
  BY <1>2, <1>3, <1>6, <1>7

LEMMA SameDecided ==
  ASSUME UNCHANGED calls
  PROVE  Decided' = Decided
BY DEF Decided

LEMMA StepIsPoolStep ==
  ASSUME IInv, [Next]_vars
  PROVE  [Pool!Next]_(Pool!vars)
<1>1. ASSUME UNCHANGED <<tasks, current, calls, isStopped>>
      PROVE  UNCHANGED Pool!vars
  BY <1>1, SameDecided DEF Pool!vars
<1>2. ASSUME NEW p \in Submitters, NEW l \in RequestLevels, EnqueueCall(p, l)
      PROVE  UNCHANGED Pool!vars
  BY <1>1, <1>2 DEF EnqueueCall, shared, worker
<1>3. ASSUME NEW p \in Submitters, EnqueueInvalid(p)
      PROVE  Pool!Next
  <2>1. /\ callPc[p] = "lock"
        /\ calls' = [calls EXCEPT ![p] = @ + 1]
        /\ UNCHANGED <<tasks, current, isStopped>>
    BY <1>3 DEF EnqueueInvalid, Decide, worker
  <2>2. Pool!Refuse(Task(p)) /\ Task(p) \in Tasks
    BY <2>1, OneMoreDecided DEF Pool!Refuse
  <2>3. QED
    BY <2>2 DEF Pool!Next
<1>4. ASSUME NEW p \in Submitters, EnqueueLocked(p)
      PROVE  Pool!Next
  <2>1. /\ callPc[p] = "lock"
        /\ calls' = [calls EXCEPT ![p] = @ + 1]
        /\ UNCHANGED <<current, isStopped>>
    BY <1>4 DEF EnqueueLocked, Decide, worker
  <2>2. /\ Task(p) \in Tasks /\ Task(p) \notin Decided
        /\ Decided' = Decided \cup {Task(p)}
    BY <2>1, OneMoreDecided
  <2>3. CASE HasRoom(level[p])
    <3>1. /\ level[p] \in Levels
          /\ tasks' = [tasks EXCEPT ![level[p]] = Append(tasks[level[p]], Task(p))]
      BY <1>4, <2>3, EnqueueEffect
    <3>2. Pool!Accept(Task(p), level[p])
      BY <2>1, <2>2, <2>3, <3>1 DEF Pool!Accept, HasRoom
    <3>3. QED
      BY <2>2, <3>1, <3>2 DEF Pool!Next
  <2>4. CASE ~HasRoom(level[p])
    <3>1. UNCHANGED tasks
      BY <1>4, <2>4, EnqueueEffect
    <3>2. Pool!Refuse(Task(p))
      BY <2>1, <2>2, <3>1 DEF Pool!Refuse
    <3>3. QED
      BY <2>2, <3>2 DEF Pool!Next
  <2>5. QED
    BY <2>3, <2>4
<1>5. ASSUME NEW p \in Submitters, EnqueueBroadcast(p)
      PROVE  UNCHANGED Pool!vars
  BY <1>1, <1>5 DEF EnqueueBroadcast, shared
<1>6. CASE StopCall
  BY <1>1, <1>6 DEF StopCall, shared, worker, callers
<1>7. CASE StopLocked
  <2>1. /\ isStopped' = TRUE
        /\ UNCHANGED <<tasks, current, calls>>
        /\ isStopped \in BOOLEAN
    BY <1>7 DEF StopLocked, worker, callers, IInv, TypeOK
  <2>2. CASE isStopped
    BY <1>1, <2>1, <2>2
  <2>3. CASE ~isStopped
    <3>1. Pool!Stop
      BY <2>1, <2>3, SameDecided DEF Pool!Stop
    <3>2. QED
      BY <3>1 DEF Pool!Next
  <2>4. QED
    BY <2>2, <2>3
<1>8. CASE StopBroadcast
  BY <1>1, <1>8 DEF StopBroadcast, shared, callers
<1>9. CASE RunExit
  BY <1>1, <1>9 DEF RunExit, shared, callers
<1>10. CASE RunWait
  BY <1>1, <1>10 DEF RunWait, shared, callers
<1>11. ASSUME NEW item \in sched.queue, RunTask(item)
       PROVE  Pool!Next
  <2>1. /\ ~isStopped /\ runPc = "lock"
        /\ UNCHANGED <<isStopped, calls>>
    BY <1>11 DEF RunTask, MayServe, AtLoopHead, callers
  <2>2. current = NoTask
    BY <2>1 DEF IInv, TypeOK
  <2>3. /\ item.id \in Levels
        /\ tasks[item.id] # << >>
        /\ tasks' = [tasks EXCEPT ![item.id] = Tail(tasks[item.id])]
        /\ current' = Head(tasks[item.id])
    BY <1>11, RunTaskEffect
  <2>4. Pool!Begin(item.id)
    BY <2>1, <2>2, <2>3, SameDecided DEF Pool!Begin
  <2>5. QED
    BY <2>3, <2>4 DEF Pool!Next
<1>12. CASE RunTaskDone
  <2>1. /\ runPc = "exec" /\ current' = NoTask
        /\ UNCHANGED <<tasks, isStopped, calls>>
    BY <1>12 DEF RunTaskDone, shared, callers
  <2>2. current # NoTask
    BY <2>1 DEF IInv, TypeOK
  <2>3. Pool!Finish
    BY <2>1, <2>2, SameDecided DEF Pool!Finish
  <2>4. QED
    BY <2>3 DEF Pool!Next
<1>13. CASE UNCHANGED vars
  BY <1>1, <1>13 DEF vars, shared, worker, callers
<1>14. QED
  BY <1>2, <1>3, <1>4, <1>5, <1>6, <1>7, <1>8, <1>9, <1>10, <1>11, <1>12, <1>13
  DEF Next, Submit, StopNext, Run, Finished

\* The groups, the scheduler, the mutex and the condition variable implement
\* the pool of tasks: every task is decided once, runs at most once and in
\* order within its level, one at a time, and none begins after Stop.
THEOREM Refinement ==
  Spec => ImplementsPool
<1>1. Init => Pool!Init
  <2>1. SUFFICES ASSUME Init PROVE Pool!Init
    OBVIOUS
  <2>2. Decided = {}
    BY <2>1 DEF Init, Decided, Tasks
  <2>3. QED
    BY <2>1, <2>2 DEF Init, Pool!Init
<1>2. QED
  BY <1>1, StepIsPoolStep, Invariance, PTL DEF Spec, ImplementsPool, Pool!Spec
=============================================================================
