----------------------------- MODULE TaskState -----------------------------
(***************************************************************************)
(* The part of the scheduler (kernel/sched.c) that the sleeping primitives *)
(* rely on: a task's p->state, whether it is on a run queue (p->array is   *)
(* not NULL), and the two functions that change both under the run-queue   *)
(* lock, schedule() and try_to_wake_up().  Everything those functions do   *)
(* about priorities, time slices and CPUs is left out: any task that is on *)
(* the run queue may take the next step.                                   *)
(***************************************************************************)
EXTENDS Integers, Sequences, FiniteSets

CONSTANTS Task,     \* the tasks of the system
          NoTask    \* the NULL task pointer

ASSUME TaskAssumption == NoTask \notin Task /\ IsFiniteSet(Task)

VARIABLES state,    \* state[t]: p->state
          onrq      \* onrq[t]: p->array # NULL

sched_vars == <<state, onrq>>

RUNNING == "TASK_RUNNING"
INTERRUPTIBLE == "TASK_INTERRUPTIBLE"
UNINTERRUPTIBLE == "TASK_UNINTERRUPTIBLE"

TaskStates == {RUNNING, INTERRUPTIBLE, UNINTERRUPTIBLE}

\* The sleeping states wake_up_process() and wake_up() may end.
SleepStates == {INTERRUPTIBLE, UNINTERRUPTIBLE}

SchedTypeOK == /\ state \in [Task -> TaskStates]
               /\ onrq \in [Task -> BOOLEAN]

SchedInit == /\ state = [t \in Task |-> RUNNING]
             /\ onrq = [t \in Task |-> TRUE]

\* set_task_state(), and plain stores to tsk->state.
set_task_state(t, s) == /\ state' = [state EXCEPT ![t] = s]
                        /\ UNCHANGED onrq

\* schedule(): a task that is not TASK_RUNNING leaves the run queue, unless it
\* sleeps interruptibly and has a signal pending.
schedule(t, signalPending) ==
  IF state[t] = INTERRUPTIBLE /\ signalPending
  THEN set_task_state(t, RUNNING)
  ELSE /\ onrq' = [onrq EXCEPT ![t] = (state[t] = RUNNING)]
       /\ UNCHANGED state

\* try_to_wake_up(): does nothing to a task whose state is not in mask; puts
\* any other on the run queue (where it may already be) as TASK_RUNNING.
try_to_wake_up(p, mask) ==
  IF state[p] \in mask
  THEN /\ state' = [state EXCEPT ![p] = RUNNING]
       /\ onrq' = [onrq EXCEPT ![p] = TRUE]
  ELSE UNCHANGED sched_vars

\* What try_to_wake_up() returns: it has put p back on the run queue.  A task
\* that declared itself sleeping but has not left the run queue does not count.
WakeSucceeds(p, mask) == state[p] \in mask /\ ~onrq[p]

wake_up_process(p) == try_to_wake_up(p, SleepStates)

=============================================================================
