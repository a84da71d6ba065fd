----------------------------- MODULE Semaphore -----------------------------
(***************************************************************************)
(* The MIPS counting semaphore: the inline fast paths of asm-mips/         *)
(* semaphore.h and the slow paths of arch/mips/kernel/semaphore.c.         *)
(*                                                                         *)
(* sem->count is only changed by atomic operations, one step each; a       *)
(* section under the lock of the wait queue is one step.  holds[t] says    *)
(* that down() has given t a unit, from the atomic operation that took it  *)
(* out of count to the one that puts it back.  A task takes one unit at a  *)
(* time and gives back what it took, as a user of a semaphore for          *)
(* exclusion does.  Each task uses either down() or down_interruptible(),  *)
(* and down_trylock().                                                     *)
(***************************************************************************)
EXTENDS WaitQueue

CONSTANTS N,               \* sema_init(sem, N)
          Interruptible    \* the tasks that call down_interruptible()

ASSUME NAssumption == N \in Nat /\ Interruptible \subseteq Task

VARIABLES count,       \* sem->count
          wait,        \* sem->wait.task_list, all of its entries exclusive
          holds,
          sigpending,
          pc

sem_vars == <<count, wait, holds, sigpending, pc>>

vars == <<sem_vars, sched_vars>>

\* Where a task is in __down() while its wait_queue_t is queued.
QueuedLabels == {"update", "check", "give_up", "schedule", "again", "remove"}

Labels == {"out", "set_state", "add", "running", "up_slow", "wake"} \union QueuedLabels

\* However often the waiters decrement it again, count stays above minus the
\* number of tasks: __sem_update_count() takes a negative count for 0.
TypeOK == /\ SchedTypeOK
          /\ count \in -Cardinality(Task) .. N
          /\ wait \in Seq(Task)
          /\ holds \in [Task -> BOOLEAN]
          /\ sigpending \in [Task -> BOOLEAN]
          /\ pc \in [Task -> Labels]

\* sema_init()
Init == /\ SchedInit
        /\ count = N
        /\ wait = <<>>
        /\ holds = [t \in Task |-> FALSE]
        /\ sigpending = [t \in Task |-> FALSE]
        /\ pc = [t \in Task |-> "out"]

At(t, l) == onrq[t] /\ pc[t] = l

Goto(t, l) == pc' = [pc EXCEPT ![t] = l]

\* The state t sleeps in.
SleepState(t) == IF t \in Interruptible THEN INTERRUPTIBLE ELSE UNINTERRUPTIBLE

MaxZero(n) == IF n > 0 THEN n ELSE 0

\* __sem_update_count(), an ll/sc loop or, without ll/sc, a section with
\* interrupts off.  It returns the old count.
sem_update_count(incr) == count' = MaxZero(count) + incr

-----------------------------------------------------------------------------
(* down(), down_interruptible() and down_trylock().                        *)

\* The atomic_dec_return() of down() and down_interruptible().
down(t) ==
  /\ At(t, "out") /\ ~holds[t]
  /\ count' = count - 1
  /\ IF count - 1 < 0
     THEN Goto(t, "set_state") /\ UNCHANGED holds
     ELSE holds' = [holds EXCEPT ![t] = TRUE] /\ UNCHANGED pc
  /\ UNCHANGED <<wait, sigpending, sched_vars>>

\* atomic_dec_if_positive(): a failed attempt changes nothing.
down_trylock(t) ==
  /\ At(t, "out") /\ ~holds[t] /\ count > 0
  /\ count' = count - 1
  /\ holds' = [holds EXCEPT ![t] = TRUE]
  /\ UNCHANGED <<wait, sigpending, pc, sched_vars>>

DownSetState(t) ==
  /\ At(t, "set_state")
  /\ set_task_state(t, SleepState(t))
  /\ Goto(t, "add")
  /\ UNCHANGED <<count, wait, holds, sigpending>>

\* add_wait_queue_exclusive()
DownAdd(t) ==
  /\ At(t, "add")
  /\ wait' = Append(wait, t)
  /\ Goto(t, "update")
  /\ UNCHANGED <<count, holds, sigpending, sched_vars>>

\* Mutant: a count of 0 is taken for a unit (< 0 where <= 0 is meant).
DownUpdateOffByOne(t) ==
  /\ At(t, "update")
  /\ sem_update_count(-1)
  /\ IF count >= 0
     THEN holds' = [holds EXCEPT ![t] = TRUE] /\ Goto(t, "remove")
     ELSE /\ UNCHANGED holds
          /\ Goto(t, IF t \in Interruptible THEN "check" ELSE "schedule")
  /\ UNCHANGED <<wait, sigpending, sched_vars>>

\* while (__sem_update_count(sem, -1) <= 0)
DownUpdate(t) ==
  /\ At(t, "update")
  /\ sem_update_count(-1)
  /\ IF count > 0
     THEN holds' = [holds EXCEPT ![t] = TRUE] /\ Goto(t, "remove")
     ELSE /\ UNCHANGED holds
          /\ Goto(t, IF t \in Interruptible THEN "check" ELSE "schedule")
  /\ UNCHANGED <<wait, sigpending, sched_vars>>

DownCheckSignal(t) ==
  /\ At(t, "check")
  /\ Goto(t, IF sigpending[t] THEN "give_up" ELSE "schedule")
  /\ UNCHANGED <<count, wait, holds, sigpending, sched_vars>>

\* "A signal is pending - give up trying": __sem_update_count(sem, 0)
DownGiveUp(t) ==
  /\ At(t, "give_up")
  /\ sem_update_count(0)
  /\ Goto(t, "remove")
  /\ UNCHANGED <<wait, holds, sigpending, sched_vars>>

DownSchedule(t) ==
  /\ At(t, "schedule")
  /\ schedule(t, sigpending[t])
  /\ Goto(t, "again")
  /\ UNCHANGED <<count, wait, holds, sigpending>>

\* Mutant: the loop of __down() copied without changing the state it sets.
DownAgainUninterruptible(t) ==
  /\ At(t, "again")
  /\ set_task_state(t, UNINTERRUPTIBLE)
  /\ Goto(t, "update")
  /\ UNCHANGED <<count, wait, holds, sigpending>>

\* set_task_state() at the end of the loop body.
DownAgain(t) ==
  /\ At(t, "again")
  /\ set_task_state(t, SleepState(t))
  /\ Goto(t, "update")
  /\ UNCHANGED <<count, wait, holds, sigpending>>

\* remove_wait_queue()
DownRemove(t) ==
  /\ At(t, "remove")
  /\ wait' = Without(wait, t)
  /\ Goto(t, "running")
  /\ UNCHANGED <<count, holds, sigpending, sched_vars>>

\* Mutant: the new owner, or the task that gave up, wakes nobody.
DownRunningNoWake(t) ==
  /\ At(t, "running")
  /\ set_task_state(t, RUNNING)
  /\ Goto(t, "out")
  /\ UNCHANGED <<count, wait, holds, sigpending>>

\* __set_task_state(tsk, TASK_RUNNING); what is left is the wake_up().
DownRunning(t) ==
  /\ At(t, "running")
  /\ set_task_state(t, RUNNING)
  /\ Goto(t, "wake")
  /\ UNCHANGED <<count, wait, holds, sigpending>>

-----------------------------------------------------------------------------
(* up(), and the wake_up() that ends all slow paths.                       *)

\* Mutant: the slow path is only taken for a result below 0.
upOffByOne(t) ==
  /\ At(t, "out") /\ holds[t]
  /\ count' = count + 1
  /\ holds' = [holds EXCEPT ![t] = FALSE]
  /\ Goto(t, IF count + 1 < 0 THEN "up_slow" ELSE "out")
  /\ UNCHANGED <<wait, sigpending, sched_vars>>

up(t) ==
  /\ At(t, "out") /\ holds[t]
  /\ count' = count + 1
  /\ holds' = [holds EXCEPT ![t] = FALSE]
  /\ Goto(t, IF count + 1 <= 0 THEN "up_slow" ELSE "out")
  /\ UNCHANGED <<wait, sigpending, sched_vars>>

\* __up()
UpSlow(t) ==
  /\ At(t, "up_slow")
  /\ sem_update_count(1)
  /\ Goto(t, "wake")
  /\ UNCHANGED <<wait, holds, sigpending, sched_vars>>

\* wake_up(&sem->wait), the end of all the slow paths.
WakeUp(t) ==
  /\ At(t, "wake")
  /\ wake_up(wait, Task)
  /\ Goto(t, "out")
  /\ UNCHANGED <<count, wait, holds, sigpending>>

-----------------------------------------------------------------------------
(* Signals, as in the module Mutex, but only those that reach a task in    *)
(* down_interruptible(), the one function that looks at the flag: a signal *)
(* that came before the call acts like one that comes right after it.      *)

signal_wake_up(t) ==
  /\ ~sigpending[t] /\ pc[t] # "out" /\ t \in Interruptible
  /\ sigpending' = [sigpending EXCEPT ![t] = TRUE]
  /\ try_to_wake_up(t, {INTERRUPTIBLE})
  /\ UNCHANGED <<count, wait, holds, pc>>

SignalHandled(t) ==
  /\ At(t, "out") /\ ~holds[t] /\ sigpending[t]
  /\ sigpending' = [sigpending EXCEPT ![t] = FALSE]
  /\ UNCHANGED <<count, wait, holds, pc, sched_vars>>

-----------------------------------------------------------------------------
Request(t) == /\ ~sigpending[t]
              /\ down(t) \/ down_trylock(t)

Progress(t) == \/ DownSetState(t) \/ DownAdd(t) \/ DownUpdate(t) \/ DownCheckSignal(t)
               \/ DownGiveUp(t) \/ DownSchedule(t) \/ DownAgain(t) \/ DownRemove(t)
               \/ DownRunning(t) \/ UpSlow(t) \/ WakeUp(t)

Next == \E t \in Task : \/ Request(t) \/ Progress(t) \/ up(t)
                        \/ signal_wake_up(t) \/ SignalHandled(t)

Spec == Init /\ [][Next]_vars

\* A task on the run queue runs.  Whoever has a unit need not give it back.
Fairness == \A t \in Task : WF_vars(Progress(t))

FairSpec == Spec /\ Fairness

-----------------------------------------------------------------------------
(* Properties.                                                             *)

\* The tasks that have a unit, or have found that their up() was ineffective
\* and not made it good yet.
Owners == {t \in Task : holds[t] \/ pc[t] = "up_slow"}

\* Units are neither lost nor made: "any negative value of count is equivalent
\* to 0", and the increments and decrements made of a negative count are made
\* good by __sem_update_count(), however many tasks do so at once.
UnitsConserved == MaxZero(count) + Cardinality(Owners) = N

\* A task that is going to execute __sem_update_count(sem, -1) with its entry
\* queued, or wake_up() after that.
Active(t) == /\ onrq[t]
             /\ \/ pc[t] \in {"again", "update", "give_up", "remove", "running", "wake", "up_slow"}
                \/ pc[t] \in {"check", "schedule"} /\ (state[t] = RUNNING \/ (t \in Interruptible /\ sigpending[t]))

\* As long as a waiter is asleep, a count that would let the next up() take the
\* fast path (count >= 0) means that somebody is still on their way to set it
\* back to -1 or to wake the next waiter: no unit sits in sem->count while
\* everyone who could see it sleeps.
NoLostWakeup ==
  (\E t \in Task : ~onrq[t]) /\ count >= 0 => \E t \in Task : Active(t)

\* A signalled down_interruptible() returns even if nobody ever calls up():
\* no signal is missed between the check of the flag and the sleep, on the first
\* round of the loop or on a later one.
InterruptedWaiterReturns ==
  \A t \in Task : (pc[t] # "out" /\ t \in Interruptible /\ sigpending[t]) ~> pc[t] = "out"

\* Like the mutex, the semaphore lets a newcomer take a unit from under a woken
\* waiter.  But once newcomers stop, and if nobody keeps a unit for ever, every
\* down() returns: the chain of wake-ups, each new owner waking the next waiter,
\* does not break, not even at the waiters that give up.
EveryWaiterReturns ==
  /\ <>[][\A t \in Task : pc[t] = "out" /\ ~holds[t] => pc'[t] = "out" /\ ~holds'[t]]_vars
  /\ \A t \in Task : []<>~holds[t]
  => \A t \in Task : pc[t] # "out" ~> pc[t] = "out"

=============================================================================
