------------------------------- MODULE Mutex -------------------------------
(***************************************************************************)
(* The sleeping mutex, kernel/mutex.c, over the decrement-based fast paths *)
(* of include/asm-generic/mutex-dec.h (the ones asm-mips selects).         *)
(*                                                                         *)
(* lock->count is changed by atomic operations that do not take wait_lock, *)
(* so every one of them is a step of its own, also inside the wait_lock    *)
(* sections of the slow paths.  holds[t] says that t owns the mutex: it is *)
(* set by the atomic operation that saw count = 1 and cleared by the one   *)
(* that starts the release.  The mutex is not recursive and only its owner *)
(* releases it (include/linux/mutex.h states both rules).  Each task uses  *)
(* either mutex_lock() or mutex_lock_interruptible(), and mutex_trylock(). *)
(***************************************************************************)
EXTENDS TaskState, Lists

CONSTANT Interruptible   \* the tasks that call mutex_lock_interruptible()

ASSUME InterruptibleAssumption == Interruptible \subseteq Task

VARIABLES have_cmpxchg, \* the #ifdef of __mutex_fastpath_trylock(), fixed by the build
          count,      \* lock->count: 1 unlocked, 0 locked, < 0 locked and contended
          wait_list,  \* lock->wait_list, the tasks of the queued waiters
          wait_lock,  \* the task inside lock->wait_lock, or NoTask
          prev,       \* the local of the task inside __mutex_trylock_slowpath()
          holds,
          sigpending, \* sigpending[t]: t has TIF_SIGPENDING
          pc

mutex_vars == <<have_cmpxchg, count, wait_list, wait_lock, prev, holds, sigpending, pc>>

vars == <<mutex_vars, sched_vars>>

\* Where a task with a struct mutex_waiter on wait_list can be.
QueuedLabels == {"xchg", "check", "set_state", "schedule", "relock", "got"}

Labels == {"out", "lock_slow", "trylock_slow", "trylock_fix", "unlock_slow", "unlock_wake"}
            \union QueuedLabels

TypeOK == /\ SchedTypeOK
          /\ have_cmpxchg \in BOOLEAN
          /\ count \in Int /\ count <= 1
          /\ wait_list \in Seq(Task)
          /\ wait_lock \in Task \union {NoTask}
          /\ prev \in Int
          /\ holds \in [Task -> BOOLEAN]
          /\ sigpending \in [Task -> BOOLEAN]
          /\ pc \in [Task -> Labels]

\* __mutex_init()
Init == /\ SchedInit
        /\ have_cmpxchg \in BOOLEAN
        /\ count = 1
        /\ wait_list = <<>>
        /\ wait_lock = NoTask
        /\ prev = 0
        /\ holds = [t \in Task |-> FALSE]
        /\ sigpending = [t \in Task |-> FALSE]
        /\ pc = [t \in Task |-> "out"]

At(t, l) == onrq[t] /\ pc[t] = l

Goto(t, l) == pc' = [pc EXCEPT ![t] = l]

\* The slow path's argument, the state t sleeps in.
SleepState(t) == IF t \in Interruptible THEN INTERRUPTIBLE ELSE UNINTERRUPTIBLE

\* spin_lock_mutex() and spin_unlock_mutex() on lock->wait_lock.
SpinLock(t) == wait_lock = NoTask /\ wait_lock' = t

SpinUnlock == wait_lock' = NoTask

mutex_remove_waiter(t) == wait_list' = Without(wait_list, t)

-----------------------------------------------------------------------------
(* mutex_lock() and mutex_lock_interruptible().                            *)

\* The atomic_dec_return() of both.
mutex_lock(t) ==
  /\ At(t, "out") /\ ~holds[t]
  /\ count' = count - 1
  /\ IF count - 1 < 0
     THEN Goto(t, "lock_slow") /\ UNCHANGED holds
     ELSE holds' = [holds EXCEPT ![t] = TRUE] /\ UNCHANGED pc
  /\ UNCHANGED <<have_cmpxchg, wait_list, wait_lock, prev, sigpending, sched_vars>>

\* __mutex_lock_common() up to its loop.
LockQueue(t) ==
  /\ At(t, "lock_slow")
  /\ SpinLock(t)
  /\ wait_list' = Append(wait_list, t)
  /\ Goto(t, "xchg")
  /\ UNCHANGED <<have_cmpxchg, count, prev, holds, sigpending, sched_vars>>

\* old_val = atomic_xchg(&lock->count, -1)
LockXchg(t) ==
  /\ At(t, "xchg")
  /\ count' = -1
  /\ IF count = 1
     THEN holds' = [holds EXCEPT ![t] = TRUE] /\ Goto(t, "got")
     ELSE UNCHANGED holds /\ Goto(t, "check")
  /\ UNCHANGED <<have_cmpxchg, wait_list, wait_lock, prev, sigpending, sched_vars>>

\* The caller gets -EINTR and leaves the queue; count stays as it is.
LockInterrupted(t) ==
  /\ At(t, "check") /\ t \in Interruptible /\ sigpending[t]
  /\ mutex_remove_waiter(t)
  /\ SpinUnlock
  /\ Goto(t, "out")
  /\ UNCHANGED <<have_cmpxchg, count, prev, holds, sigpending, sched_vars>>

LockNoSignal(t) ==
  /\ At(t, "check") /\ ~(t \in Interruptible /\ sigpending[t])
  /\ Goto(t, "set_state")
  /\ UNCHANGED <<have_cmpxchg, count, wait_list, wait_lock, prev, holds, sigpending, sched_vars>>

\* Mutant: wait_lock is dropped before the task declares itself sleeping.
LockSetStateUnlocked(t) ==
  /\ At(t, "set_state")
  /\ IF wait_lock = t
     THEN SpinUnlock /\ UNCHANGED <<pc, sched_vars>>
     ELSE set_task_state(t, SleepState(t)) /\ Goto(t, "schedule") /\ UNCHANGED wait_lock
  /\ UNCHANGED <<have_cmpxchg, count, wait_list, prev, holds, sigpending>>

\* __set_task_state(task, state) and the unlock.
LockSetState(t) ==
  /\ At(t, "set_state")
  /\ set_task_state(t, SleepState(t))
  /\ SpinUnlock
  /\ Goto(t, "schedule")
  /\ UNCHANGED <<have_cmpxchg, count, wait_list, prev, holds, sigpending>>

\* Mutant: schedule() lets a task with a signal pending sleep.
LockScheduleIgnoreSignal(t) ==
  /\ At(t, "schedule")
  /\ schedule(t, FALSE)
  /\ Goto(t, "relock")
  /\ UNCHANGED <<have_cmpxchg, count, wait_list, wait_lock, prev, holds, sigpending>>

LockSchedule(t) ==
  /\ At(t, "schedule")
  /\ schedule(t, sigpending[t])
  /\ Goto(t, "relock")
  /\ UNCHANGED <<have_cmpxchg, count, wait_list, wait_lock, prev, holds, sigpending>>

LockRelock(t) ==
  /\ At(t, "relock")
  /\ SpinLock(t)
  /\ Goto(t, "xchg")
  /\ UNCHANGED <<have_cmpxchg, count, wait_list, prev, holds, sigpending, sched_vars>>

\* "got the lock - rejoice!"
LockGot(t) ==
  /\ At(t, "got")
  /\ mutex_remove_waiter(t)
  /\ count' = IF wait_list' = <<>> THEN 0 ELSE count
  /\ SpinUnlock
  /\ Goto(t, "out")
  /\ UNCHANGED <<have_cmpxchg, prev, holds, sigpending, sched_vars>>

-----------------------------------------------------------------------------
(* mutex_trylock().                                                        *)

\* atomic_cmpxchg(count, 1, 0) where the architecture has it.
TrylockCmpxchg(t) ==
  /\ have_cmpxchg
  /\ At(t, "out") /\ ~holds[t]
  /\ count = 1
  /\ count' = 0
  /\ holds' = [holds EXCEPT ![t] = TRUE]
  /\ UNCHANGED <<have_cmpxchg, wait_list, wait_lock, prev, sigpending, pc, sched_vars>>

\* __mutex_trylock_slowpath() where it has not: the destructive probe ...
TrylockSlow(t) ==
  /\ ~have_cmpxchg
  /\ At(t, "out") /\ ~holds[t]
  /\ SpinLock(t)
  /\ Goto(t, "trylock_slow")
  /\ UNCHANGED <<have_cmpxchg, count, wait_list, prev, holds, sigpending, sched_vars>>

\* Mutant: any count but 0 is taken for an unlocked mutex.
TrylockXchgNonzero(t) ==
  /\ At(t, "trylock_slow")
  /\ prev' = count
  /\ count' = -1
  /\ holds' = [holds EXCEPT ![t] = (count # 0)]
  /\ Goto(t, "trylock_fix")
  /\ UNCHANGED <<have_cmpxchg, wait_list, wait_lock, sigpending, sched_vars>>

TrylockXchg(t) ==
  /\ At(t, "trylock_slow")
  /\ prev' = count
  /\ count' = -1
  /\ holds' = [holds EXCEPT ![t] = (count = 1)]
  /\ Goto(t, "trylock_fix")
  /\ UNCHANGED <<have_cmpxchg, wait_list, wait_lock, sigpending, sched_vars>>

\* ... and "Set it back to 0 if there are no waiters".
TrylockFix(t) ==
  /\ At(t, "trylock_fix")
  /\ count' = IF wait_list = <<>> THEN 0 ELSE count
  /\ prev' = 0
  /\ SpinUnlock
  /\ Goto(t, "out")
  /\ UNCHANGED <<have_cmpxchg, wait_list, holds, sigpending, sched_vars>>

-----------------------------------------------------------------------------
(* mutex_unlock().                                                         *)

\* Mutant: the increment's result is compared with < 0, not <= 0.
mutex_unlockOffByOne(t) ==
  /\ At(t, "out") /\ holds[t]
  /\ count' = count + 1
  /\ holds' = [holds EXCEPT ![t] = FALSE]
  /\ Goto(t, IF count + 1 < 0 THEN "unlock_slow" ELSE "out")
  /\ UNCHANGED <<have_cmpxchg, wait_list, wait_lock, prev, sigpending, sched_vars>>

mutex_unlock(t) ==
  /\ At(t, "out") /\ holds[t]
  /\ count' = count + 1
  /\ holds' = [holds EXCEPT ![t] = FALSE]
  /\ Goto(t, IF count + 1 <= 0 THEN "unlock_slow" ELSE "out")
  /\ UNCHANGED <<have_cmpxchg, wait_list, wait_lock, prev, sigpending, sched_vars>>

\* __mutex_unlock_common_slowpath(): atomic_set(&lock->count, 1) ...
UnlockSet(t) ==
  /\ At(t, "unlock_slow")
  /\ SpinLock(t)
  /\ count' = 1
  /\ Goto(t, "unlock_wake")
  /\ UNCHANGED <<have_cmpxchg, wait_list, prev, holds, sigpending, sched_vars>>

\* ... and the wake-up of the first waiter, which stays on the list.
UnlockWake(t) ==
  /\ At(t, "unlock_wake")
  /\ IF wait_list # <<>> THEN wake_up_process(Head(wait_list)) ELSE UNCHANGED sched_vars
  /\ SpinUnlock
  /\ Goto(t, "out")
  /\ UNCHANGED <<have_cmpxchg, count, wait_list, prev, holds, sigpending>>

-----------------------------------------------------------------------------
(* Signals, as signal_wake_up() raises them and the return to user   *)
(* which a task does not make from inside the mutex code, clears them;     *)
(* only for the tasks that look at the flag.                               *)

signal_wake_up(t) ==
  /\ t \in Interruptible /\ ~sigpending[t]
  /\ sigpending' = [sigpending EXCEPT ![t] = TRUE]
  /\ try_to_wake_up(t, {INTERRUPTIBLE})
  /\ UNCHANGED <<have_cmpxchg, count, wait_list, wait_lock, prev, holds, pc>>

SignalHandled(t) ==
  /\ At(t, "out") /\ ~holds[t] /\ sigpending[t]
  /\ sigpending' = [sigpending EXCEPT ![t] = FALSE]
  /\ UNCHANGED <<have_cmpxchg, count, wait_list, wait_lock, prev, holds, pc, sched_vars>>

-----------------------------------------------------------------------------
\* A new request for the mutex.
Request(t) == \/ mutex_lock(t)
              \/ TrylockCmpxchg(t)
              \/ TrylockSlow(t)

\* Steps that enter the wait_lock section.
SpinStep(t) == LockQueue(t) \/ LockRelock(t) \/ UnlockSet(t)

\* Every other step of a request or a release that has begun.
Progress(t) == \/ LockXchg(t) \/ LockInterrupted(t) \/ LockNoSignal(t) \/ LockSetState(t)
               \/ LockSchedule(t) \/ LockGot(t)
               \/ TrylockXchg(t) \/ TrylockFix(t)
               \/ UnlockWake(t)

Next == \E t \in Task : \/ Request(t) \/ SpinStep(t) \/ Progress(t) \/ mutex_unlock(t)
                        \/ signal_wake_up(t) \/ SignalHandled(t)

Spec == Init /\ [][Next]_vars

(***************************************************************************)
(* Fairness: a task on the run queue keeps running, an owner eventually    *)
(* releases, and a task that spins for wait_lock gets it at some point     *)
(* (strong, since the lock is released and taken over and over; on the     *)
(* uniprocessor the configuration builds for, nobody ever spins).  Nothing *)
(* is assumed of new requests, of signals, or of who wins a race.          *)
(***************************************************************************)
Fairness == \A t \in Task : /\ WF_vars(Progress(t))
                            /\ WF_vars(mutex_unlock(t))
                            /\ SF_vars(SpinStep(t))

FairSpec == Spec /\ Fairness

-----------------------------------------------------------------------------
(* Properties.                                                             *)

\* include/linux/mutex.h: "only one task can hold the mutex at a time".
MutualExclusion == \A t, u \in Task : holds[t] /\ holds[u] => t = u

\* A queued waiter that is going to execute the xchg again.
Retrying(t) == /\ onrq[t]
               /\ \/ pc[t] \in {"relock", "xchg"}
                  \/ pc[t] = "schedule" /\ state[t] = RUNNING

\* The waiters are not forgotten: as long as wait_list is not empty, either a
\* release is on its way through the slow path, or there is an owner whose
\* release will find count < 0 and take it, or one of the waiters is awake and
\* tries again.  A fast-path lock or unlock slipping in between the xchg, the
\* store of 1 and the wake-up, or a waiter leaving with -EINTR after having
\* been woken, must not break this.
NoLostWakeup ==
  wait_list # <<>> => \/ \E t \in Task : pc[t] \in {"unlock_slow", "unlock_wake"}
                      \/ count < 0 /\ \E t \in Task : holds[t]
                      \/ \E i \in DOMAIN wait_list : Retrying(wait_list[i])

\* Every way out of the mutex code leaves the caller TASK_RUNNING: none of
\* the paths resets the state __set_task_state() stored, the wake-up or
\* schedule() must have done it.
ReturnsRunning == \A t \in Task : pc[t] = "out" => state[t] = RUNNING /\ onrq[t]

\* mutex_lock_interruptible() "returns -EINTR" if "a signal arrives while
\* waiting": a signalled waiter gets out even when barging tasks keep taking
\* the mutex from under it.
InterruptedWaiterReturns ==
  \A t \in Task : (pc[t] # "out" /\ t \in Interruptible /\ sigpending[t]) ~> pc[t] = "out"

\* The mutex is not fair: a task that comes in on the fast path may take it from
\* under a woken waiter, again and again.  But once newcomers stop, every task
\* gets out of mutex_lock(): the wake-ups of the slow path reach each waiter.
EveryWaiterReturns ==
  <>[][\A t \in Task : pc[t] = "out" /\ ~holds[t] => pc'[t] = "out" /\ ~holds'[t]]_vars
    => \A t \in Task : pc[t] # "out" ~> pc[t] = "out"

=============================================================================
