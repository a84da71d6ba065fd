------------------------------- MODULE RwSem -------------------------------
(***************************************************************************)
(* The spinlock-based read/write semaphore, lib/rwsem-spinlock.c.          *)
(*                                                                         *)
(* One step is at most one access to what other tasks can see: the section *)
(* under sem->wait_lock is cut wherever a store in it is visible without   *)
(* the lock (waiter.task = NULL, the woken task's state), because a waiter *)
(* polls waiter.task with no lock held.  holds[t] records what task t has  *)
(* been told it owns: it changes when down_*() returns and when up_*() or  *)
(* downgrade_write() enters its section.  A task does not take a semaphore *)
(* it holds and releases only what it holds (kernel/rwsem.c's callers).    *)
(***************************************************************************)
EXTENDS TaskState

VARIABLES activity,    \* sem->activity: > 0 readers, -1 a writer, 0 free
          wait_list,   \* sem->wait_list, the tasks of the queued waiters
          wait_lock,   \* the task inside sem->wait_lock, or NoTask
          flags,       \* flags[t]: t's waiter.flags
          waiting,     \* waiting[t]: t's waiter.task # NULL
          holds,       \* holds[t]: what t has been granted and knows of
          tsk, woken,  \* locals of the task inside wait_lock
          pc

rwsem_vars == <<activity, wait_list, wait_lock, flags, waiting, holds, tsk, woken, pc>>

vars == <<rwsem_vars, sched_vars>>

\* A waiter polls waiter.task ("check"), sleeps ("schedule"), declares itself
\* sleeping again ("set_state") and returns once granted ("granted").
WaitLabels == {"check", "schedule", "set_state", "granted"}

\* Where a releasing task can be inside the wait_lock section.
WakeLabels == {"wake_one_writer", "do_wake_writers", "do_wake_readers", "grant_readers",
               "wake_writer", "wake_reader"}

Labels == {"out"} \union WaitLabels \union WakeLabels

TypeOK == /\ SchedTypeOK
          /\ activity \in Nat \union {-1}
          /\ wait_list \in Seq(Task)
          /\ wait_lock \in Task \union {NoTask}
          /\ flags \in [Task -> {"read", "write"}]
          /\ waiting \in [Task -> BOOLEAN]
          /\ holds \in [Task -> {"none", "read", "write"}]
          /\ tsk \in Task \union {NoTask}
          /\ woken \in Nat
          /\ pc \in [Task -> Labels]

Init == /\ SchedInit
        /\ activity = 0
        /\ wait_list = <<>>
        /\ wait_lock = NoTask
        /\ flags = [t \in Task |-> "read"]
        /\ waiting = [t \in Task |-> FALSE]
        /\ holds = [t \in Task |-> "none"]
        /\ tsk = NoTask
        /\ woken = 0
        /\ pc = [t \in Task |-> "out"]

-----------------------------------------------------------------------------
(* Acquiring.                                                              *)

\* t runs, at label l.
At(t, l) == onrq[t] /\ pc[t] = l

Goto(t, l) == pc' = [pc EXCEPT ![t] = l]

\* Mutant: the queue is not looked at, so that a reader barges past a writer.
GrantableBarging(kind) == IF kind = "read" THEN activity >= 0 ELSE activity = 0

\* The test of __down_read[_trylock]() and of __down_write[_trylock]().
Grantable(kind) == /\ IF kind = "read" THEN activity >= 0 ELSE activity = 0
                   /\ wait_list = <<>>

\* A granted request, of the blocking or of the try variant.
DownGranted(t, kind) ==
  /\ At(t, "out") /\ holds[t] = "none" /\ wait_lock = NoTask
  /\ Grantable(kind)
  /\ activity' = IF kind = "read" THEN activity + 1 ELSE -1
  /\ holds' = [holds EXCEPT ![t] = kind]
  /\ UNCHANGED <<wait_list, wait_lock, flags, waiting, tsk, woken, pc, sched_vars>>

\* __down_read() and __down_write_nested(): queue behind the others.  A
\* trylock that fails changes nothing.
DownQueue(t, kind) ==
  /\ At(t, "out") /\ holds[t] = "none" /\ wait_lock = NoTask
  /\ ~Grantable(kind)
  /\ set_task_state(t, UNINTERRUPTIBLE)
  /\ waiting' = [waiting EXCEPT ![t] = TRUE]
  /\ flags' = [flags EXCEPT ![t] = kind]
  /\ wait_list' = Append(wait_list, t)
  /\ Goto(t, "check")
  /\ UNCHANGED <<activity, wait_lock, holds, tsk, woken>>

\* if (!waiter.task) break;
WaitCheck(t) ==
  /\ At(t, "check")
  /\ Goto(t, IF waiting[t] THEN "schedule" ELSE "granted")
  /\ UNCHANGED <<activity, wait_list, wait_lock, flags, waiting, holds, tsk, woken, sched_vars>>

WaitSchedule(t) ==
  /\ At(t, "schedule")
  /\ schedule(t, FALSE)
  /\ Goto(t, "set_state")
  /\ UNCHANGED <<activity, wait_list, wait_lock, flags, waiting, holds, tsk, woken>>

\* Mutant: the waiter goes back to sleep without polling waiter.task again.
WaitSetStateNoRecheck(t) ==
  /\ At(t, "set_state")
  /\ set_task_state(t, UNINTERRUPTIBLE)
  /\ Goto(t, "schedule")
  /\ UNCHANGED <<activity, wait_list, wait_lock, flags, waiting, holds, tsk, woken>>

WaitSetState(t) ==
  /\ At(t, "set_state")
  /\ set_task_state(t, UNINTERRUPTIBLE)
  /\ Goto(t, "check")
  /\ UNCHANGED <<activity, wait_list, wait_lock, flags, waiting, holds, tsk, woken>>

\* tsk->state = TASK_RUNNING, and the caller owns the semaphore.
WaitDone(t) ==
  /\ At(t, "granted")
  /\ set_task_state(t, RUNNING)
  /\ holds' = [holds EXCEPT ![t] = flags[t]]
  /\ Goto(t, "out")
  /\ UNCHANGED <<activity, wait_list, wait_lock, flags, waiting, tsk, woken>>

-----------------------------------------------------------------------------
(* Releasing.                                                              *)

\* Stay inside wait_lock at label l if there are waiters to look at (and more
\* holds), else leave the section.
StayIf(t, more, l) ==
  IF more /\ wait_list # <<>>
  THEN wait_lock' = t /\ Goto(t, l)
  ELSE UNCHANGED <<wait_lock, pc>>

up_read(t) ==
  /\ At(t, "out") /\ holds[t] = "read" /\ wait_lock = NoTask
  /\ activity' = activity - 1
  /\ holds' = [holds EXCEPT ![t] = "none"]
  /\ StayIf(t, activity - 1 = 0, "wake_one_writer")
  /\ UNCHANGED <<wait_list, flags, waiting, tsk, woken, sched_vars>>

\* Mutant: the waiters are forgotten when a writer leaves.
up_writeNoWake(t) ==
  /\ At(t, "out") /\ holds[t] = "write" /\ wait_lock = NoTask
  /\ activity' = 0
  /\ holds' = [holds EXCEPT ![t] = "none"]
  /\ UNCHANGED <<wait_list, wait_lock, flags, waiting, tsk, woken, pc, sched_vars>>

up_write(t) ==
  /\ At(t, "out") /\ holds[t] = "write" /\ wait_lock = NoTask
  /\ activity' = 0
  /\ holds' = [holds EXCEPT ![t] = "none"]
  /\ StayIf(t, TRUE, "do_wake_writers")
  /\ UNCHANGED <<wait_list, flags, waiting, tsk, woken, sched_vars>>

\* Mutant: the readers first in the queue stay there after a downgrade.
downgrade_writeNoWake(t) ==
  /\ At(t, "out") /\ holds[t] = "write" /\ wait_lock = NoTask
  /\ activity' = 1
  /\ holds' = [holds EXCEPT ![t] = "read"]
  /\ UNCHANGED <<wait_list, wait_lock, flags, waiting, tsk, woken, pc, sched_vars>>

downgrade_write(t) ==
  /\ At(t, "out") /\ holds[t] = "write" /\ wait_lock = NoTask
  /\ activity' = 1
  /\ holds' = [holds EXCEPT ![t] = "read"]
  /\ StayIf(t, TRUE, "do_wake_readers")
  /\ UNCHANGED <<wait_list, flags, waiting, tsk, woken, sched_vars>>

\* list_del(&waiter->list); tsk = waiter->task; waiter->task = NULL.
PopWaiter == /\ tsk' = Head(wait_list)
             /\ wait_list' = Tail(wait_list)
             /\ waiting' = [waiting EXCEPT ![Head(wait_list)] = FALSE]

\* spin_unlock(&sem->wait_lock) and return.
Leave(t) == wait_lock' = NoTask /\ Goto(t, "out")

\* The semaphore goes to the first waiter, which is taken to be a writer.
rwsem_wake_one_writer(t) ==
  /\ At(t, "wake_one_writer")
  /\ activity' = -1
  /\ PopWaiter
  /\ Goto(t, "wake_writer")
  /\ UNCHANGED <<wait_lock, flags, holds, woken, sched_vars>>

\* __rwsem_do_wake(sem, 1) with a writer first in the queue.
DoWakeWriter(t) ==
  /\ At(t, "do_wake_writers") /\ flags[Head(wait_list)] = "write"
  /\ activity' = -1
  /\ PopWaiter
  /\ Goto(t, "wake_writer")
  /\ UNCHANGED <<wait_lock, flags, holds, woken, sched_vars>>

\* __rwsem_do_wake(sem, 0) with a writer first in the queue: nobody is woken.
DoWakeNobody(t) ==
  /\ At(t, "do_wake_readers") /\ flags[Head(wait_list)] = "write"
  /\ Leave(t)
  /\ UNCHANGED <<activity, wait_list, flags, waiting, holds, tsk, woken, sched_vars>>

\* __rwsem_do_wake() with a reader first in the queue.
DoWakeReaders(t) ==
  /\ At(t, "do_wake_writers") \/ At(t, "do_wake_readers")
  /\ flags[Head(wait_list)] = "read"
  /\ woken' = 0
  /\ Goto(t, "grant_readers")
  /\ UNCHANGED <<activity, wait_list, wait_lock, flags, waiting, holds, tsk, sched_vars>>

GrantReader(t) ==
  /\ At(t, "grant_readers")
  /\ PopWaiter
  /\ Goto(t, "wake_reader")
  /\ UNCHANGED <<activity, wait_lock, flags, holds, woken, sched_vars>>

\* wake_up_process(tsk); woken++; go on while a reader is first in the queue,
\* then sem->activity += woken.
WakeReader(t) ==
  /\ At(t, "wake_reader")
  /\ wake_up_process(tsk)
  /\ woken' = woken + 1
  /\ tsk' = NoTask
  /\ IF wait_list # <<>> /\ flags[Head(wait_list)] = "read"
     THEN Goto(t, "grant_readers") /\ UNCHANGED <<activity, wait_lock>>
     ELSE activity' = activity + woken + 1 /\ Leave(t)
  /\ UNCHANGED <<wait_list, flags, waiting, holds>>

WakeWriter(t) ==
  /\ At(t, "wake_writer")
  /\ wake_up_process(tsk)
  /\ tsk' = NoTask
  /\ Leave(t)
  /\ UNCHANGED <<activity, wait_list, flags, waiting, holds, woken>>

\* Any other code may wake a task that sleeps here, for instance the late
\* wake_up_process() of a primitive the task has already left.
StrayWakeup(t) ==
  /\ pc[t] \in WaitLabels
  /\ wake_up_process(t)
  /\ UNCHANGED rwsem_vars

-----------------------------------------------------------------------------

Acquiring(t) == \E kind \in {"read", "write"} : DownGranted(t, kind) \/ DownQueue(t, kind)

WaitStep(t) == WaitCheck(t) \/ WaitSchedule(t) \/ WaitSetState(t) \/ WaitDone(t)

WakeStep(t) == \/ rwsem_wake_one_writer(t) \/ DoWakeWriter(t) \/ DoWakeNobody(t)
               \/ DoWakeReaders(t) \/ GrantReader(t) \/ WakeReader(t) \/ WakeWriter(t)

Next == \E t \in Task : \/ Acquiring(t)
                        \/ WaitStep(t)
                        \/ up_read(t) \/ up_write(t) \/ downgrade_write(t)
                        \/ WakeStep(t)
                        \/ StrayWakeup(t)

Spec == Init /\ [][Next]_vars

\* A task that is on the run queue runs on; a task that holds the semaphore
\* releases it.  Releasing needs wait_lock, which others keep taking: a CPU
\* that spins on a spinlock gets it in the end (on a uniprocessor the lock is
\* free whenever the task runs), hence the strong fairness.
Fairness == \A t \in Task : /\ WF_vars(WaitStep(t))
                            /\ WF_vars(WakeStep(t))
                            /\ SF_vars(up_read(t) \/ up_write(t))

FairSpec == Spec /\ Fairness

-----------------------------------------------------------------------------
(* Properties.                                                             *)

\* What t owns: a waiter owns the semaphore from the moment waiter.task is
\* NULL, before it has run and knows of it.
Owner(t) == IF pc[t] \in WaitLabels
            THEN IF waiting[t] THEN "none" ELSE flags[t]
            ELSE holds[t]

Readers == {t \in Task : Owner(t) = "read"}

Writers == {t \in Task : Owner(t) = "write"}

\* A writer shares the semaphore with nobody, whether the ownership was taken
\* in down_*() or handed over to a sleeping waiter by up_*() or
\* downgrade_write().
MutualExclusion == \A w \in Writers : Readers = {} /\ Writers = {w}

\* With wait_lock free, sem->activity says who owns the semaphore, as the
\* comment in include/linux/rwsem-spinlock.h has it: -1 for one writer,
\* otherwise the number of readers, granted waiters included.
ActivityCountsOwners ==
  wait_lock = NoTask =>
    IF activity = -1 THEN Cardinality(Writers) = 1 /\ Readers = {}
                     ELSE Writers = {} /\ activity = Cardinality(Readers)

\* __rwsem_wake_one_writer() gives the semaphore to the first waiter without
\* looking at its flags: whenever readers own the semaphore and tasks wait,
\* the first of them waits to write; and nobody waits for a free semaphore.
FirstWaiterIsWriter ==
  /\ wait_lock = NoTask /\ wait_list # <<>> =>
       activity # 0 /\ (activity > 0 => flags[Head(wait_list)] = "write")
  /\ \A t \in Task : pc[t] = "wake_one_writer" => flags[Head(wait_list)] = "write"

\* A waiter that was given the semaphore is never left asleep: either it is on
\* the run queue or the task that granted it is still to wake it.  The waiter
\* stores its state and polls waiter.task without the lock.
NoLostWakeup ==
  \A t \in Task : pc[t] \in WaitLabels /\ ~waiting[t] /\ ~onrq[t] =>
                   tsk = t /\ wait_lock # NoTask

\* The owners and the queue of RwLock, as functions of the semaphore's state.
AbsOwner == [t \in Task |-> Owner(t)]

AbsQueue == [i \in DOMAIN wait_list |-> <<wait_list[i], flags[wait_list[i]]>>]

Abstract == INSTANCE RwLock WITH owner <- AbsOwner, queue <- AbsQueue

\* The semaphore is a first-come first-served read/write lock: every step of
\* lib/rwsem-spinlock.c is a step of RwLock or leaves its variables alone.
ImplementsRwLock == Abstract!LockSpec

\* Every task that queues gets the semaphore and returns, if holders release.
WaiterEventuallyOwns == \A t \in Task : waiting[t] ~> holds[t] # "none"

=============================================================================
