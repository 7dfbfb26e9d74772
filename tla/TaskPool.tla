------------------------------ MODULE TaskPool ------------------------------
(***************************************************************************)
(* What the stream handler relies on when it gives tasks to a              *)
(* TaskScheduler: a task is decided once, either accepted or refused; an   *)
(* accepted task is run at most once, after the accepted tasks of its      *)
(* level that came before it; at most one task runs at a time; and no task *)
(* is begun after Stop.  The order between levels is left open: it is what *)
(* the queue policies differ in.                                           *)
(***************************************************************************)
EXTENDS Naturals, Sequences

CONSTANTS
  Tasks,      \* the closures passed to Enqueue
  Levels,     \* the priority levels
  Capacity,   \* the most tasks waiting at one level
  NoTask      \* the worker is between tasks

VARIABLES
  pending,    \* per level, the accepted tasks not begun, oldest first
  running,    \* the task being executed, or NoTask
  decided,    \* the tasks already accepted or refused
  stopped     \* Stop has taken effect

vars == <<pending, running, decided, stopped>>

Init ==
  /\ pending = [l \in Levels |-> << >>]
  /\ running = NoTask
  /\ decided = {}
  /\ stopped = FALSE

Accept(t, l) ==
  /\ t \notin decided
  /\ Len(pending[l]) < Capacity
  /\ pending' = [pending EXCEPT ![l] = Append(@, t)]
  /\ decided' = decided \cup {t}
  /\ UNCHANGED <<running, stopped>>

\* Why a task is refused is left open here: the pool knows no caller's level.
Refuse(t) ==
  /\ t \notin decided
  /\ decided' = decided \cup {t}
  /\ UNCHANGED <<pending, running, stopped>>

Begin(l) ==
  /\ ~stopped
  /\ running = NoTask
  /\ pending[l] # << >>
  /\ running' = Head(pending[l])
  /\ pending' = [pending EXCEPT ![l] = Tail(@)]
  /\ UNCHANGED <<decided, stopped>>

Finish ==
  /\ running # NoTask
  /\ running' = NoTask
  /\ UNCHANGED <<pending, decided, stopped>>

Stop ==
  /\ ~stopped
  /\ stopped' = TRUE
  /\ UNCHANGED <<pending, running, decided>>

Next ==
  \/ \E t \in Tasks :
       \/ \E l \in Levels : Accept(t, l)
       \/ Refuse(t)
  \/ \E l \in Levels : Begin(l)
  \/ Finish
  \/ Stop

\* The pool is served: a task that waits is begun, and what is begun ends.
Fairness ==
  /\ WF_vars(\E l \in Levels : Begin(l))
  /\ WF_vars(Finish)

Spec == Init /\ [][Next]_vars
FairSpec == Spec /\ Fairness
=============================================================================
