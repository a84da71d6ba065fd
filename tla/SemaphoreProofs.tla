-------------------------- MODULE SemaphoreProofs --------------------------
(***************************************************************************)
(* Proofs about Semaphore, for any finite set of tasks, any initial count  *)
(* and any choice of down() or down_interruptible() per task.              *)
(***************************************************************************)
EXTENDS Semaphore, WaitQueueProofs, FiniteSetTheorems

\* Where a task is between the atomic_dec_return() that left it without a unit
\* and the __sem_update_count() that gives it one or lets it give up.
Waiting == {t \in Task : pc[t] \in {"set_state", "add", "update", "check", "give_up", "schedule", "again"}}

SemTypeOK == /\ SchedTypeOK
             /\ count \in Int
             /\ wait \in Seq(Task)
             /\ holds \in [Task -> BOOLEAN]
             /\ sigpending \in [Task -> BOOLEAN]
             /\ pc \in [Task -> Labels]

\* A task has no unit while it waits for one, nor after up() has taken it back.
HoldInv == \A t \in Task : holds[t] => pc[t] \in {"out", "remove", "running", "wake"}

\* Every decrement below 0 is owed to a task that still waits.
CountInv == count >= -Cardinality(Waiting)

\* sem->wait holds exactly the entries of the tasks between add_wait_queue_exclusive()
\* and remove_wait_queue().
QueueInv == /\ Distinct(wait)
            /\ \A t \in Task : t \in Elements(wait) <=> pc[t] \in QueuedLabels

\* A task is off the run queue only inside schedule(), and it sleeps in one state.
SleepInv == \A t \in Task : /\ ~onrq[t] => pc[t] = "again" /\ state[t] # RUNNING
                            /\ state[t] # RUNNING => state[t] = SleepState(t)

\* t sleeps, or has seen no unit and is about to sleep.
Sleepy(t) == pc[t] \in {"check", "schedule"} \/ ~onrq[t]

\* NoLostWakeup, with the tasks that are about to sleep among the sleepers.
WakeInv == (\E t \in Task : Sleepy(t)) /\ count >= 0 => \E t \in Task : Active(t)

IInv == SemTypeOK /\ HoldInv /\ UnitsConserved /\ CountInv /\ QueueInv /\ SleepInv /\ WakeInv

\* sema_init() establishes the invariant.
LEMMA InitInv == Init => IInv
  <1> SUFFICES ASSUME Init PROVE IInv
    OBVIOUS
  <1>1. SemTypeOK
    BY NAssumption DEF Init, SchedInit, SemTypeOK, SchedTypeOK, TaskStates, Labels
  <1>2. HoldInv /\ SleepInv /\ WakeInv
    BY DEF Init, SchedInit, HoldInv, SleepInv, WakeInv, Sleepy
  <1>3. QueueInv
    BY DEF Init, QueueInv, QueuedLabels, Distinct, Elements
  <1>4. Owners = {} /\ Waiting = {}
    BY DEF Init, Owners, Waiting
  <1>5. UnitsConserved /\ CountInv
    BY <1>4, FS_EmptySet, NAssumption DEF Init, UnitsConserved, CountInv, MaxZero
  <1> QED
    BY <1>1, <1>2, <1>3, <1>5 DEF IInv

-----------------------------------------------------------------------------
(* Counting.                                                               *)

\* One more owner, and one unit less in count.
LEMMA OwnerAdded ==
  ASSUME UnitsConserved, count \in Int, count' \in Int, NEW t \in Task, t \notin Owners,
         Owners' = Owners \union {t}, MaxZero(count') = MaxZero(count) - 1
  PROVE  UnitsConserved'
  <1>1. IsFiniteSet(Owners)
    BY TaskAssumption, FS_Subset DEF Owners
  <1>2. Cardinality(Owners') = Cardinality(Owners) + 1 /\ Cardinality(Owners) \in Nat
    BY <1>1, FS_AddElement, FS_CardinalityType
  <1> QED
    BY <1>2, NAssumption DEF UnitsConserved, MaxZero

\* One owner less, and one unit more in count.
LEMMA OwnerRemoved ==
  ASSUME UnitsConserved, count \in Int, count' \in Int, NEW t \in Owners,
         Owners' = Owners \ {t}, MaxZero(count') = MaxZero(count) + 1
  PROVE  UnitsConserved'
  <1>1. IsFiniteSet(Owners)
    BY TaskAssumption, FS_Subset DEF Owners
  <1>2. Cardinality(Owners') = Cardinality(Owners) - 1 /\ Cardinality(Owners) \in Nat
    BY <1>1, FS_RemoveElement, FS_CardinalityType
  <1> QED
    BY <1>2, NAssumption DEF UnitsConserved, MaxZero

\* The same owners, and the same units in count.
LEMMA OwnersKept ==
  ASSUME UnitsConserved, Owners' = Owners, MaxZero(count') = MaxZero(count)
  PROVE  UnitsConserved'
  BY DEF UnitsConserved

\* count is at least 0, or has not fallen while no task stopped waiting.
LEMMA CountKept ==
  ASSUME CountInv, count \in Int, count' \in Int,
         \/ count' >= 0
         \/ count' >= count /\ Waiting \subseteq Waiting'
  PROVE  CountInv'
  <1>1. IsFiniteSet(Waiting) /\ IsFiniteSet(Waiting')
    BY TaskAssumption, FS_Subset DEF Waiting
  <1>2. Cardinality(Waiting) \in Nat /\ Cardinality(Waiting') \in Nat
    BY <1>1, FS_CardinalityType
  <1>3. Waiting \subseteq Waiting' => Cardinality(Waiting) <= Cardinality(Waiting')
    BY <1>1, FS_Subset
  <1> QED
    BY <1>2, <1>3 DEF CountInv

\* count is -1 or one less than before, and somebody waits for it (who, in the
\* second case, has just begun to).
LEMMA CountLowered ==
  ASSUME CountInv, count \in Int, NEW t \in Task, t \in Waiting',
         \/ count' = -1
         \/ count' = count - 1 /\ t \notin Waiting /\ Waiting' = Waiting \union {t}
  PROVE  CountInv'
  <1>1. IsFiniteSet(Waiting) /\ IsFiniteSet(Waiting')
    BY TaskAssumption, FS_Subset DEF Waiting
  <1>2. Cardinality(Waiting) \in Nat /\ Cardinality(Waiting') \in Nat
    BY <1>1, FS_CardinalityType
  <1>3. Cardinality(Waiting') >= 1
    BY <1>1, <1>2, FS_EmptySet
  <1>4. t \notin Waiting /\ Waiting' = Waiting \union {t} => Cardinality(Waiting') = Cardinality(Waiting) + 1
    BY <1>1, FS_AddElement
  <1> QED
    BY <1>2, <1>3, <1>4 DEF CountInv

-----------------------------------------------------------------------------
(* Waking.                                                                 *)

\* A step that puts nobody to sleep, takes no active task away and makes no
\* negative count available.
LEMMA ActiveKept ==
  ASSUME WakeInv, count' >= 0 => count >= 0,
         \A u \in Task : (Sleepy(u)' => Sleepy(u)) /\ (Active(u) => Active(u)')
  PROVE  WakeInv'
  BY DEF WakeInv

\* A step after which t is active.
LEMMA ActiveNow ==
  ASSUME NEW t \in Task, Active(t)'
  PROVE  WakeInv'
  BY DEF WakeInv

-----------------------------------------------------------------------------
(* The steps.                                                              *)

\* The atomic_dec_return() takes a unit out of count, or leaves the caller waiting.
LEMMA DownInv ==
  ASSUME IInv, NEW t \in Task, down(t)
  PROVE  IInv'
  <1> USE DEF IInv, down, At, Goto
  <1>1. SemTypeOK'
    <2>0. holds' \in [Task -> BOOLEAN]
      BY Zenon DEF SemTypeOK
    <2>1. pc' \in [Task -> Labels]
      BY DEF SemTypeOK, SchedTypeOK, Labels
    <2> QED
      BY <2>0, <2>1 DEF SemTypeOK, SchedTypeOK, sched_vars
  <1>2. HoldInv'
    BY DEF SemTypeOK, SchedTypeOK, HoldInv, QueuedLabels
  <1>3. UnitsConserved'
    <2>1. CASE count - 1 < 0
      <3>1. Owners' = Owners
        BY <2>1 DEF SemTypeOK, SchedTypeOK, Owners
      <3> QED
        BY <2>1, <3>1, OwnersKept DEF SemTypeOK, SchedTypeOK, MaxZero
    <2>2. CASE ~(count - 1 < 0)
      <3>1. t \notin Owners /\ Owners' = Owners \union {t}
        BY <2>2 DEF SemTypeOK, SchedTypeOK, Owners
      <3> QED
        BY <1>1, <2>2, <3>1, OwnerAdded DEF SemTypeOK, SchedTypeOK, MaxZero
    <2> QED
      BY <2>1, <2>2
  <1>4. CountInv'
    <2>1. CASE count - 1 < 0
      <3>1. t \notin Waiting /\ Waiting' = Waiting \union {t}
        BY <2>1 DEF SemTypeOK, SchedTypeOK, Waiting
      <3> QED
        BY <3>1, CountLowered DEF SemTypeOK, SchedTypeOK
    <2>2. CASE ~(count - 1 < 0)
      BY <1>1, <2>2, CountKept DEF SemTypeOK, SchedTypeOK
    <2> QED
      BY <2>1, <2>2
  <1>5. QueueInv'
    BY DEF SemTypeOK, SchedTypeOK, QueueInv, QueuedLabels
  <1>6. SleepInv'
    BY DEF SemTypeOK, SchedTypeOK, SleepInv, SleepState, sched_vars
  <1>7. WakeInv'
    <2>1. \A u \in Task : (Sleepy(u)' => Sleepy(u)) /\ (Active(u) => Active(u)')
      BY DEF SemTypeOK, SchedTypeOK, SleepInv, SleepState, Sleepy, Active, sched_vars
    <2> QED
      BY <1>1, <2>1, ActiveKept DEF SemTypeOK, SchedTypeOK
  <1> QED
    BY <1>1, <1>2, <1>3, <1>4, <1>5, <1>6, <1>7

\* down_trylock() takes a unit that is there.
LEMMA Down_trylockInv ==
  ASSUME IInv, NEW t \in Task, down_trylock(t)
  PROVE  IInv'
  <1> USE DEF IInv, down_trylock, At, Goto
  <1>1. SemTypeOK'
    <2>0. holds' \in [Task -> BOOLEAN]
      BY Zenon DEF SemTypeOK
    <2> QED
      BY <2>0 DEF SemTypeOK, SchedTypeOK, sched_vars
  <1>2. HoldInv'
    BY DEF SemTypeOK, SchedTypeOK, HoldInv, QueuedLabels
  <1>3. UnitsConserved'
    <2>1. t \notin Owners /\ Owners' = Owners \union {t}
      BY DEF SemTypeOK, SchedTypeOK, Owners
    <2> QED
      BY <1>1, <2>1, OwnerAdded DEF SemTypeOK, SchedTypeOK, MaxZero
  <1>4. CountInv'
    BY <1>1, CountKept DEF SemTypeOK, SchedTypeOK
  <1>5. QueueInv'
    BY DEF SemTypeOK, SchedTypeOK, QueueInv, QueuedLabels
  <1>6. SleepInv'
    BY DEF SemTypeOK, SchedTypeOK, SleepInv, SleepState, sched_vars
  <1>7. WakeInv'
    <2>1. \A u \in Task : (Sleepy(u)' => Sleepy(u)) /\ (Active(u) => Active(u)')
      BY DEF SemTypeOK, SchedTypeOK, SleepInv, SleepState, Sleepy, Active, sched_vars
    <2> QED
      BY <1>1, <2>1, ActiveKept DEF SemTypeOK, SchedTypeOK
  <1> QED
    BY <1>1, <1>2, <1>3, <1>4, <1>5, <1>6, <1>7

\* The state is stored before the entry is queued.
LEMMA DownSetStateInv ==
  ASSUME IInv, NEW t \in Task, DownSetState(t)
  PROVE  IInv'
  <1> USE DEF IInv, DownSetState, At, Goto
  <1>1. SemTypeOK'
    <2>1. SleepState(t) \in TaskStates
      BY DEF SleepState, TaskStates
    <2> QED
      BY <2>1 DEF set_task_state, SemTypeOK, SchedTypeOK, Labels, QueuedLabels
  <1>2. HoldInv'
    BY DEF SemTypeOK, SchedTypeOK, HoldInv, QueuedLabels
  <1>3. UnitsConserved'
    <2>1. Owners' = Owners
      BY DEF SemTypeOK, SchedTypeOK, Owners, HoldInv
    <2> QED
      BY <2>1, OwnersKept DEF SemTypeOK, SchedTypeOK, MaxZero
  <1>4. CountInv'
    <2>1. Waiting \subseteq Waiting'
      BY DEF SemTypeOK, SchedTypeOK, Waiting
    <2> QED
      BY <1>1, <2>1, CountKept DEF SemTypeOK, SchedTypeOK
  <1>5. QueueInv'
    BY DEF SemTypeOK, SchedTypeOK, QueueInv, QueuedLabels
  <1>6. SleepInv'
    BY DEF set_task_state, SemTypeOK, SchedTypeOK, SleepInv, SleepState, sched_vars
  <1>7. WakeInv'
    <2>1. \A u \in Task : (Sleepy(u)' => Sleepy(u)) /\ (Active(u) => Active(u)')
      BY DEF set_task_state, SemTypeOK, SchedTypeOK, SleepInv, SleepState, Sleepy, Active, sched_vars
    <2> QED
      BY <1>1, <2>1, ActiveKept DEF SemTypeOK, SchedTypeOK
  <1> QED
    BY <1>1, <1>2, <1>3, <1>4, <1>5, <1>6, <1>7

\* The entry is queued before count is looked at.
LEMMA DownAddInv ==
  ASSUME IInv, NEW t \in Task, DownAdd(t)
  PROVE  IInv'
  <1> USE DEF IInv, DownAdd, At, Goto
  <1>0. /\ wait' \in Seq(Task) /\ Elements(wait') = Elements(wait) \union {t}
        /\ Distinct(wait')
    BY ListAddTail DEF SemTypeOK, QueueInv, QueuedLabels
  <1>1. SemTypeOK'
    BY <1>0 DEF SemTypeOK, SchedTypeOK, Labels, QueuedLabels, sched_vars
  <1>2. HoldInv'
    BY DEF SemTypeOK, SchedTypeOK, HoldInv, QueuedLabels
  <1>3. UnitsConserved'
    <2>1. Owners' = Owners
      BY DEF SemTypeOK, SchedTypeOK, Owners, HoldInv
    <2> QED
      BY <2>1, OwnersKept DEF SemTypeOK, SchedTypeOK, MaxZero
  <1>4. CountInv'
    <2>1. Waiting \subseteq Waiting'
      BY DEF SemTypeOK, SchedTypeOK, Waiting
    <2> QED
      BY <1>1, <2>1, CountKept DEF SemTypeOK, SchedTypeOK
  <1>5. QueueInv'
    BY <1>0 DEF SemTypeOK, SchedTypeOK, QueueInv, QueuedLabels
  <1>6. SleepInv'
    BY DEF SemTypeOK, SchedTypeOK, SleepInv, SleepState, sched_vars
  <1>7. WakeInv'
    <2>1. \A u \in Task : (Sleepy(u)' => Sleepy(u)) /\ (Active(u) => Active(u)')
      BY DEF SemTypeOK, SchedTypeOK, SleepInv, SleepState, Sleepy, Active, sched_vars
    <2> QED
      BY <1>1, <2>1, ActiveKept DEF SemTypeOK, SchedTypeOK
  <1> QED
    BY <1>1, <1>2, <1>3, <1>4, <1>5, <1>6, <1>7

\* __sem_update_count(sem, -1) takes a unit, or sets count to -1 for a task that waits.
LEMMA DownUpdateInv ==
  ASSUME IInv, NEW t \in Task, DownUpdate(t)
  PROVE  IInv'
  <1> USE DEF IInv, DownUpdate, At, Goto
  <1>1. SemTypeOK'
    <2>0. holds' \in [Task -> BOOLEAN]
      BY Zenon DEF SemTypeOK
    <2>1. count' \in Int
      BY DEF SemTypeOK, sem_update_count, MaxZero
    <2>2. pc' \in [Task -> Labels]
      BY DEF SemTypeOK, SchedTypeOK, Labels, QueuedLabels
    <2> QED
      BY <2>0, <2>1, <2>2 DEF SemTypeOK, SchedTypeOK, sched_vars
  <1>2. HoldInv'
    BY DEF SemTypeOK, SchedTypeOK, HoldInv, QueuedLabels
  <1>3. UnitsConserved'
    <2>1. CASE count > 0
      <3>1. t \notin Owners /\ Owners' = Owners \union {t}
        BY <2>1 DEF SemTypeOK, SchedTypeOK, Owners, HoldInv
      <3> QED
        BY <1>1, <2>1, <3>1, OwnerAdded DEF SemTypeOK, SchedTypeOK, MaxZero, sem_update_count
    <2>2. CASE ~(count > 0)
      <3>1. Owners' = Owners
        BY <2>2 DEF SemTypeOK, SchedTypeOK, Owners
      <3> QED
        BY <2>2, <3>1, OwnersKept DEF SemTypeOK, SchedTypeOK, MaxZero, sem_update_count
    <2> QED
      BY <2>1, <2>2
  <1>4. CountInv'
    <2>1. CASE count > 0
      BY <1>1, <2>1, CountKept DEF SemTypeOK, SchedTypeOK, MaxZero, sem_update_count
    <2>2. CASE ~(count > 0)
      <3>1. t \in Waiting' /\ count' = -1
        BY <2>2 DEF SemTypeOK, SchedTypeOK, Waiting, MaxZero, sem_update_count
      <3> QED
        BY <3>1, CountLowered DEF SemTypeOK, SchedTypeOK
    <2> QED
      BY <2>1, <2>2
  <1>5. QueueInv'
    BY DEF SemTypeOK, SchedTypeOK, QueueInv, QueuedLabels
  <1>6. SleepInv'
    BY DEF SemTypeOK, SchedTypeOK, SleepInv, SleepState, sched_vars
  <1>7. WakeInv'
    <2>1. CASE count > 0
      <3>1. Active(t)'
        BY <2>1 DEF SemTypeOK, SchedTypeOK, Active, sched_vars
      <3> QED
        BY <3>1, ActiveNow
    <2>2. CASE ~(count > 0)
      <3>1. ~(count' >= 0)
        BY <2>2 DEF SemTypeOK, SchedTypeOK, MaxZero, sem_update_count
      <3> QED
        BY <3>1 DEF WakeInv
    <2> QED
      BY <2>1, <2>2
  <1> QED
    BY <1>1, <1>2, <1>3, <1>4, <1>5, <1>6, <1>7

\* The test of the signal: a task that is going to return, or to find it in schedule(), stays active.
LEMMA DownCheckSignalInv ==
  ASSUME IInv, NEW t \in Task, DownCheckSignal(t)
  PROVE  IInv'
  <1> USE DEF IInv, DownCheckSignal, At, Goto
  <1>1. SemTypeOK'
    BY DEF SemTypeOK, SchedTypeOK, Labels, QueuedLabels, sched_vars
  <1>2. HoldInv'
    BY DEF SemTypeOK, SchedTypeOK, HoldInv, QueuedLabels
  <1>3. UnitsConserved'
    <2>1. Owners' = Owners
      BY DEF SemTypeOK, SchedTypeOK, Owners, HoldInv
    <2> QED
      BY <2>1, OwnersKept DEF SemTypeOK, SchedTypeOK, MaxZero
  <1>4. CountInv'
    <2>1. Waiting \subseteq Waiting'
      BY DEF SemTypeOK, SchedTypeOK, Waiting
    <2> QED
      BY <1>1, <2>1, CountKept DEF SemTypeOK, SchedTypeOK
  <1>5. QueueInv'
    BY DEF SemTypeOK, SchedTypeOK, QueueInv, QueuedLabels
  <1>6. SleepInv'
    BY DEF SemTypeOK, SchedTypeOK, SleepInv, SleepState, sched_vars
  <1>7. WakeInv'
    <2>1. \A u \in Task : (Sleepy(u)' => Sleepy(u)) /\ (Active(u) => Active(u)')
      BY DEF SemTypeOK, SchedTypeOK, SleepInv, SleepState, Sleepy, Active, sched_vars
    <2> QED
      BY <1>1, <2>1, ActiveKept DEF SemTypeOK, SchedTypeOK
  <1> QED
    BY <1>1, <1>2, <1>3, <1>4, <1>5, <1>6, <1>7

\* A task that gives up sets a negative count to 0 and is bound to wake the next.
LEMMA DownGiveUpInv ==
  ASSUME IInv, NEW t \in Task, DownGiveUp(t)
  PROVE  IInv'
  <1> USE DEF IInv, DownGiveUp, At, Goto
  <1>1. SemTypeOK'
    <2>1. count' \in Int
      BY DEF SemTypeOK, sem_update_count, MaxZero
    <2> QED
      BY <2>1 DEF SemTypeOK, SchedTypeOK, Labels, QueuedLabels, sched_vars
  <1>2. HoldInv'
    BY DEF SemTypeOK, SchedTypeOK, HoldInv, QueuedLabels
  <1>3. UnitsConserved'
    <2>1. Owners' = Owners
      BY DEF SemTypeOK, SchedTypeOK, Owners, HoldInv
    <2> QED
      BY <2>1, OwnersKept DEF SemTypeOK, SchedTypeOK, MaxZero, sem_update_count
  <1>4. CountInv'
    BY <1>1, CountKept DEF SemTypeOK, SchedTypeOK, MaxZero, sem_update_count
  <1>5. QueueInv'
    BY DEF SemTypeOK, SchedTypeOK, QueueInv, QueuedLabels
  <1>6. SleepInv'
    BY DEF SemTypeOK, SchedTypeOK, SleepInv, SleepState, sched_vars
  <1>7. WakeInv'
    <2>1. Active(t)'
      BY DEF SemTypeOK, SchedTypeOK, Active, sched_vars
    <2> QED
      BY <2>1, ActiveNow
  <1> QED
    BY <1>1, <1>2, <1>3, <1>4, <1>5, <1>6, <1>7

\* Only a task nobody has woken since it stored its state leaves the run queue.
LEMMA DownScheduleInv ==
  ASSUME IInv, NEW t \in Task, DownSchedule(t)
  PROVE  IInv'
  <1> USE DEF IInv, DownSchedule, At, Goto
  <1>0. SchedTypeOK'
    BY Zenon DEF SemTypeOK, SchedTypeOK, schedule, set_task_state, TaskStates
  <1>1. SemTypeOK'
    BY <1>0 DEF SemTypeOK, SchedTypeOK, Labels, QueuedLabels
  <1>2. HoldInv'
    BY DEF SemTypeOK, SchedTypeOK, HoldInv, QueuedLabels
  <1>3. UnitsConserved'
    <2>1. Owners' = Owners
      BY DEF SemTypeOK, SchedTypeOK, Owners, HoldInv
    <2> QED
      BY <2>1, OwnersKept DEF SemTypeOK, SchedTypeOK, MaxZero
  <1>4. CountInv'
    <2>1. Waiting \subseteq Waiting'
      BY DEF SemTypeOK, SchedTypeOK, Waiting
    <2> QED
      BY <1>1, <2>1, CountKept DEF SemTypeOK, SchedTypeOK
  <1>5. QueueInv'
    BY DEF SemTypeOK, SchedTypeOK, QueueInv, QueuedLabels
  <1>6. SleepInv'
    BY DEF schedule, set_task_state, SemTypeOK, SchedTypeOK, SleepInv, SleepState, sched_vars
  <1>7. WakeInv'
    <2>1. \A u \in Task : (Sleepy(u)' => Sleepy(u)) /\ (Active(u) => Active(u)')
      BY DEF schedule, set_task_state, SemTypeOK, SchedTypeOK, SleepInv, SleepState, Sleepy, Active, sched_vars
    <2> QED
      BY <1>1, <2>1, ActiveKept DEF SemTypeOK, SchedTypeOK
  <1> QED
    BY <1>1, <1>2, <1>3, <1>4, <1>5, <1>6, <1>7

\* Back to the head of the loop, with the state stored first.
LEMMA DownAgainInv ==
  ASSUME IInv, NEW t \in Task, DownAgain(t)
  PROVE  IInv'
  <1> USE DEF IInv, DownAgain, At, Goto
  <1>1. SemTypeOK'
    <2>1. SleepState(t) \in TaskStates
      BY DEF SleepState, TaskStates
    <2> QED
      BY <2>1 DEF set_task_state, SemTypeOK, SchedTypeOK, Labels, QueuedLabels
  <1>2. HoldInv'
    BY DEF SemTypeOK, SchedTypeOK, HoldInv, QueuedLabels
  <1>3. UnitsConserved'
    <2>1. Owners' = Owners
      BY DEF SemTypeOK, SchedTypeOK, Owners, HoldInv
    <2> QED
      BY <2>1, OwnersKept DEF SemTypeOK, SchedTypeOK, MaxZero
  <1>4. CountInv'
    <2>1. Waiting \subseteq Waiting'
      BY DEF SemTypeOK, SchedTypeOK, Waiting
    <2> QED
      BY <1>1, <2>1, CountKept DEF SemTypeOK, SchedTypeOK
  <1>5. QueueInv'
    BY DEF SemTypeOK, SchedTypeOK, QueueInv, QueuedLabels
  <1>6. SleepInv'
    BY DEF set_task_state, SemTypeOK, SchedTypeOK, SleepInv, SleepState, sched_vars
  <1>7. WakeInv'
    <2>1. \A u \in Task : (Sleepy(u)' => Sleepy(u)) /\ (Active(u) => Active(u)')
      BY DEF set_task_state, SemTypeOK, SchedTypeOK, SleepInv, SleepState, Sleepy, Active, sched_vars
    <2> QED
      BY <1>1, <2>1, ActiveKept DEF SemTypeOK, SchedTypeOK
  <1> QED
    BY <1>1, <1>2, <1>3, <1>4, <1>5, <1>6, <1>7

\* remove_wait_queue() takes the caller, and nobody else, off the queue.
LEMMA DownRemoveInv ==
  ASSUME IInv, NEW t \in Task, DownRemove(t)
  PROVE  IInv'
  <1> USE DEF IInv, DownRemove, At, Goto
  <1>0. /\ wait' \in Seq(Task) /\ Elements(wait') = Elements(wait) \ {t}
        /\ Distinct(wait')
    BY ListDel DEF SemTypeOK, QueueInv, QueuedLabels
  <1>1. SemTypeOK'
    BY <1>0 DEF SemTypeOK, SchedTypeOK, Labels, sched_vars
  <1>2. HoldInv'
    BY DEF SemTypeOK, SchedTypeOK, HoldInv, QueuedLabels
  <1>3. UnitsConserved'
    <2>1. Owners' = Owners
      BY DEF SemTypeOK, SchedTypeOK, Owners, HoldInv
    <2> QED
      BY <2>1, OwnersKept DEF SemTypeOK, SchedTypeOK, MaxZero
  <1>4. CountInv'
    <2>1. Waiting \subseteq Waiting'
      BY DEF SemTypeOK, SchedTypeOK, Waiting
    <2> QED
      BY <1>1, <2>1, CountKept DEF SemTypeOK, SchedTypeOK
  <1>5. QueueInv'
    BY <1>0 DEF SemTypeOK, SchedTypeOK, QueueInv, QueuedLabels
  <1>6. SleepInv'
    BY DEF SemTypeOK, SchedTypeOK, SleepInv, SleepState, sched_vars
  <1>7. WakeInv'
    <2>1. \A u \in Task : (Sleepy(u)' => Sleepy(u)) /\ (Active(u) => Active(u)')
      BY DEF SemTypeOK, SchedTypeOK, SleepInv, SleepState, Sleepy, Active, sched_vars
    <2> QED
      BY <1>1, <2>1, ActiveKept DEF SemTypeOK, SchedTypeOK
  <1> QED
    BY <1>1, <1>2, <1>3, <1>4, <1>5, <1>6, <1>7

\* A task that leaves the slow path is still to call wake_up().
LEMMA DownRunningInv ==
  ASSUME IInv, NEW t \in Task, DownRunning(t)
  PROVE  IInv'
  <1> USE DEF IInv, DownRunning, At, Goto
  <1>1. SemTypeOK'
    BY DEF set_task_state, SemTypeOK, SchedTypeOK, TaskStates, Labels
  <1>2. HoldInv'
    BY DEF SemTypeOK, SchedTypeOK, HoldInv, QueuedLabels
  <1>3. UnitsConserved'
    <2>1. Owners' = Owners
      BY DEF SemTypeOK, SchedTypeOK, Owners, HoldInv
    <2> QED
      BY <2>1, OwnersKept DEF SemTypeOK, SchedTypeOK, MaxZero
  <1>4. CountInv'
    <2>1. Waiting \subseteq Waiting'
      BY DEF SemTypeOK, SchedTypeOK, Waiting
    <2> QED
      BY <1>1, <2>1, CountKept DEF SemTypeOK, SchedTypeOK
  <1>5. QueueInv'
    BY DEF SemTypeOK, SchedTypeOK, QueueInv, QueuedLabels
  <1>6. SleepInv'
    BY DEF set_task_state, SemTypeOK, SchedTypeOK, SleepInv, SleepState, sched_vars
  <1>7. WakeInv'
    <2>1. \A u \in Task : (Sleepy(u)' => Sleepy(u)) /\ (Active(u) => Active(u)')
      BY DEF set_task_state, SemTypeOK, SchedTypeOK, SleepInv, SleepState, Sleepy, Active, sched_vars
    <2> QED
      BY <1>1, <2>1, ActiveKept DEF SemTypeOK, SchedTypeOK
  <1> QED
    BY <1>1, <1>2, <1>3, <1>4, <1>5, <1>6, <1>7

\* up() makes a unit available, or leaves that to __up().
LEMMA UpInv ==
  ASSUME IInv, NEW t \in Task, up(t)
  PROVE  IInv'
  <1> USE DEF IInv, up, At, Goto
  <1>1. SemTypeOK'
    <2>0. holds' \in [Task -> BOOLEAN]
      BY Zenon DEF SemTypeOK
    <2> QED
      BY <2>0 DEF SemTypeOK, SchedTypeOK, Labels, sched_vars
  <1>2. HoldInv'
    BY DEF SemTypeOK, SchedTypeOK, HoldInv, QueuedLabels
  <1>3. UnitsConserved'
    <2>1. CASE count + 1 <= 0
      <3>1. Owners' = Owners
        BY <2>1 DEF SemTypeOK, SchedTypeOK, Owners
      <3> QED
        BY <2>1, <3>1, OwnersKept DEF SemTypeOK, SchedTypeOK, MaxZero
    <2>2. CASE ~(count + 1 <= 0)
      <3>1. t \in Owners /\ Owners' = Owners \ {t}
        BY <2>2 DEF SemTypeOK, SchedTypeOK, Owners
      <3> QED
        BY <1>1, <2>2, <3>1, OwnerRemoved DEF SemTypeOK, SchedTypeOK, MaxZero
    <2> QED
      BY <2>1, <2>2
  <1>4. CountInv'
    <2>1. Waiting \subseteq Waiting'
      BY DEF SemTypeOK, SchedTypeOK, Waiting
    <2> QED
      BY <1>1, <2>1, CountKept DEF SemTypeOK, SchedTypeOK
  <1>5. QueueInv'
    BY DEF SemTypeOK, SchedTypeOK, QueueInv, QueuedLabels
  <1>6. SleepInv'
    BY DEF SemTypeOK, SchedTypeOK, SleepInv, SleepState, sched_vars
  <1>7. WakeInv'
    <2>1. CASE count + 1 <= 0
      <3>1. Active(t)'
        BY <2>1 DEF SemTypeOK, SchedTypeOK, Active, sched_vars
      <3> QED
        BY <3>1, ActiveNow
    <2>2. CASE ~(count + 1 <= 0)
      <3>1. \A u \in Task : (Sleepy(u)' => Sleepy(u)) /\ (Active(u) => Active(u)')
        BY DEF SemTypeOK, SchedTypeOK, Sleepy, Active, sched_vars
      <3> QED
        BY <2>2, <3>1, ActiveKept DEF SemTypeOK, SchedTypeOK
    <2> QED
      BY <2>1, <2>2
  <1> QED
    BY <1>1, <1>2, <1>3, <1>4, <1>5, <1>6, <1>7

\* __up() makes good what the increment of a negative count did not give.
LEMMA UpSlowInv ==
  ASSUME IInv, NEW t \in Task, UpSlow(t)
  PROVE  IInv'
  <1> USE DEF IInv, UpSlow, At, Goto
  <1>1. SemTypeOK'
    <2>1. count' \in Int
      BY DEF SemTypeOK, sem_update_count, MaxZero
    <2> QED
      BY <2>1 DEF SemTypeOK, SchedTypeOK, Labels, sched_vars
  <1>2. HoldInv'
    BY DEF SemTypeOK, SchedTypeOK, HoldInv, QueuedLabels
  <1>3. UnitsConserved'
    <2>1. t \in Owners /\ Owners' = Owners \ {t}
      BY DEF SemTypeOK, SchedTypeOK, Owners, HoldInv
    <2> QED
      BY <1>1, <2>1, OwnerRemoved DEF SemTypeOK, SchedTypeOK, MaxZero, sem_update_count
  <1>4. CountInv'
    BY <1>1, CountKept DEF SemTypeOK, SchedTypeOK, MaxZero, sem_update_count
  <1>5. QueueInv'
    BY DEF SemTypeOK, SchedTypeOK, QueueInv, QueuedLabels
  <1>6. SleepInv'
    BY DEF SemTypeOK, SchedTypeOK, SleepInv, SleepState, sched_vars
  <1>7. WakeInv'
    <2>1. Active(t)'
      BY DEF SemTypeOK, SchedTypeOK, Active, sched_vars
    <2> QED
      BY <2>1, ActiveNow
  <1> QED
    BY <1>1, <1>2, <1>3, <1>4, <1>5, <1>6, <1>7

\* wake_up() makes a sleeper active, or else everybody who is about to sleep.
LEMMA WakeUpInv ==
  ASSUME IInv, NEW t \in Task, WakeUp(t)
  PROVE  IInv'
  <1> USE DEF IInv, WakeUp, At, Goto
  <1>0. /\ SchedTypeOK'
        /\ \A u \in Task : \/ state'[u] = state[u] /\ onrq'[u] = onrq[u]
                           \/ state'[u] = RUNNING /\ onrq'[u]
    <2>1. SchedTypeOK /\ wake_up(wait, Task)
      BY DEF SemTypeOK
    <2>2. /\ SchedTypeOK'
          /\ \A u \in Task : \/ state'[u] = state[u] /\ onrq'[u] = onrq[u]
                             \/ /\ u \in Elements(wait) /\ state[u] \in SleepStates
                                /\ state'[u] = RUNNING /\ onrq'[u]
      BY <2>1, WakeUpEffect, Zenon
    <2> QED
      BY <2>2
  <1>1. SemTypeOK'
    BY <1>0 DEF SemTypeOK, Labels
  <1>2. HoldInv'
    BY DEF SemTypeOK, SchedTypeOK, HoldInv, QueuedLabels
  <1>3. UnitsConserved'
    <2>1. Owners' = Owners
      BY DEF SemTypeOK, SchedTypeOK, Owners, HoldInv
    <2> QED
      BY <2>1, OwnersKept DEF SemTypeOK, SchedTypeOK, MaxZero
  <1>4. CountInv'
    <2>1. Waiting \subseteq Waiting'
      BY DEF SemTypeOK, SchedTypeOK, Waiting
    <2> QED
      BY <1>1, <2>1, CountKept DEF SemTypeOK, SchedTypeOK
  <1>5. QueueInv'
    BY DEF SemTypeOK, SchedTypeOK, QueueInv, QueuedLabels
  <1>6. SleepInv'
    BY <1>0 DEF SemTypeOK, SchedTypeOK, SleepInv, SleepState
  <1>7. WakeInv'
    <2>0. wait \in Seq(Task) /\ SchedTypeOK
      BY DEF SemTypeOK
    <2>1. CASE \E u \in Elements(wait) : WakeSucceeds(u, SleepStates)
      <3>1. PICK v \in Elements(wait) : ~onrq[v] /\ onrq'[v] /\ state'[v] = RUNNING
        BY <2>0, <2>1, WakeUpWakesOne
      <3>2. v \in Task
        BY <2>0, ListHead
      <3>3. pc[v] = "again" /\ v # t
        BY <3>1, <3>2 DEF SleepInv
      <3>4. Active(v)'
        BY <3>1, <3>2, <3>3 DEF SemTypeOK, Active
      <3> QED
        BY <3>2, <3>4, ActiveNow
    <2>2. CASE \A u \in Elements(wait) : ~WakeSucceeds(u, SleepStates)
      <3> SUFFICES ASSUME NEW u \in Task, Sleepy(u)' PROVE WakeInv'
        BY DEF WakeInv
      <3>1. \A v \in Task : onrq[v]
        BY <2>2 DEF SemTypeOK, SchedTypeOK, SleepInv, QueueInv, QueuedLabels, WakeSucceeds, TaskStates, SleepStates
      <3>2. u # t /\ pc[u] \in {"check", "schedule"} /\ onrq'[u]
        BY <1>0, <3>1 DEF SemTypeOK, SchedTypeOK, Sleepy
      <3>3. u \in Elements(wait)
        BY <3>2 DEF QueueInv, QueuedLabels
      <3>4. state'[u] = RUNNING
        BY <2>0, <2>2, <3>3, WakeUpWakesAll
      <3>5. Active(u)'
        BY <3>2, <3>4 DEF SemTypeOK, Active
      <3> QED
        BY <3>5, ActiveNow
    <2> QED
      BY <2>1, <2>2
  <1> QED
    BY <1>1, <1>2, <1>3, <1>4, <1>5, <1>6, <1>7

\* A signal makes an interruptible waiter active.
LEMMA Signal_wake_upInv ==
  ASSUME IInv, NEW t \in Task, signal_wake_up(t)
  PROVE  IInv'
  <1> USE DEF IInv, signal_wake_up, At, Goto
  <1>0. sigpending' \in [Task -> BOOLEAN]
    BY Zenon DEF SemTypeOK
  <1>00. SchedTypeOK'
    BY TryToWakeUpFacts DEF SemTypeOK
  <1>1. SemTypeOK'
    BY <1>0, <1>00 DEF SemTypeOK
  <1>2. HoldInv'
    BY DEF SemTypeOK, SchedTypeOK, HoldInv, QueuedLabels
  <1>3. UnitsConserved'
    <2>1. Owners' = Owners
      BY DEF SemTypeOK, SchedTypeOK, Owners, HoldInv
    <2> QED
      BY <2>1, OwnersKept DEF SemTypeOK, SchedTypeOK, MaxZero
  <1>4. CountInv'
    <2>1. Waiting \subseteq Waiting'
      BY DEF SemTypeOK, SchedTypeOK, Waiting
    <2> QED
      BY <1>1, <2>1, CountKept DEF SemTypeOK, SchedTypeOK
  <1>5. QueueInv'
    BY DEF SemTypeOK, SchedTypeOK, QueueInv, QueuedLabels
  <1>6. SleepInv'
    BY DEF try_to_wake_up, SemTypeOK, SchedTypeOK, SleepInv, SleepState, sched_vars
  <1>7. WakeInv'
    <2>1. \A u \in Task : (Sleepy(u)' => Sleepy(u)) /\ (Active(u) => Active(u)')
      BY DEF try_to_wake_up, SemTypeOK, SchedTypeOK, SleepInv, SleepState, Sleepy, Active, sched_vars
    <2> QED
      BY <1>1, <2>1, ActiveKept DEF SemTypeOK, SchedTypeOK
  <1> QED
    BY <1>1, <1>2, <1>3, <1>4, <1>5, <1>6, <1>7

\* The signal is handled after the call.
LEMMA SignalHandledInv ==
  ASSUME IInv, NEW t \in Task, SignalHandled(t)
  PROVE  IInv'
  <1> USE DEF IInv, SignalHandled, At, Goto
  <1>0. sigpending' \in [Task -> BOOLEAN]
    BY Zenon DEF SemTypeOK
  <1>1. SemTypeOK'
    BY <1>0 DEF SemTypeOK, SchedTypeOK, sched_vars
  <1>2. HoldInv'
    BY DEF SemTypeOK, SchedTypeOK, HoldInv, QueuedLabels
  <1>3. UnitsConserved'
    <2>1. Owners' = Owners
      BY DEF SemTypeOK, SchedTypeOK, Owners, HoldInv
    <2> QED
      BY <2>1, OwnersKept DEF SemTypeOK, SchedTypeOK, MaxZero
  <1>4. CountInv'
    <2>1. Waiting \subseteq Waiting'
      BY DEF SemTypeOK, SchedTypeOK, Waiting
    <2> QED
      BY <1>1, <2>1, CountKept DEF SemTypeOK, SchedTypeOK
  <1>5. QueueInv'
    BY DEF SemTypeOK, SchedTypeOK, QueueInv, QueuedLabels
  <1>6. SleepInv'
    BY DEF SemTypeOK, SchedTypeOK, SleepInv, SleepState, sched_vars
  <1>7. WakeInv'
    <2>1. \A u \in Task : (Sleepy(u)' => Sleepy(u)) /\ (Active(u) => Active(u)')
      BY DEF SemTypeOK, SchedTypeOK, SleepInv, SleepState, Sleepy, Active, sched_vars
    <2> QED
      BY <1>1, <2>1, ActiveKept DEF SemTypeOK, SchedTypeOK
  <1> QED
    BY <1>1, <1>2, <1>3, <1>4, <1>5, <1>6, <1>7

\* A step that changes nothing.
LEMMA StutterInv == IInv /\ UNCHANGED vars => IInv'
  <1> SUFFICES ASSUME IInv, UNCHANGED vars PROVE IInv'
    OBVIOUS
  <1> USE DEF IInv, vars, sem_vars, sched_vars
  <1>1. SemTypeOK' /\ HoldInv' /\ QueueInv' /\ SleepInv'
    BY DEF SemTypeOK, SchedTypeOK, HoldInv, QueueInv, SleepInv
  <1>2. UnitsConserved' /\ CountInv'
    BY DEF UnitsConserved, Owners, CountInv, Waiting
  <1>3. WakeInv'
    BY DEF WakeInv, Sleepy, Active
  <1> QED
    BY <1>1, <1>2, <1>3

\* The invariant holds throughout, whatever the interleaving of down(),
\* down_interruptible(), down_trylock(), up() and the signals.
THEOREM Invariance == Spec => []IInv
  <1>1. ASSUME IInv, Next PROVE IInv'
    <2>1. PICK t \in Task : \/ Request(t) \/ Progress(t) \/ up(t)
                            \/ signal_wake_up(t) \/ SignalHandled(t)
      BY <1>1 DEF Next
    <2> USE <1>1
    <2>2. CASE Request(t)
      BY <2>2, DownInv, Down_trylockInv DEF Request
    <2>3. CASE Progress(t)
      BY <2>3, DownSetStateInv, DownAddInv, DownUpdateInv, DownCheckSignalInv, DownGiveUpInv,
         DownScheduleInv, DownAgainInv, DownRemoveInv, DownRunningInv, UpSlowInv, WakeUpInv DEF Progress
    <2> QED
      BY <2>1, <2>2, <2>3, UpInv, Signal_wake_upInv, SignalHandledInv
  <1> QED
    BY <1>1, InitInv, StutterInv, PTL DEF Spec

\* sem->count stays between minus the number of tasks and the number of units:
\* atomic decrements that race each other cannot drive it further down.
THEOREM TypeCorrect == Spec => []TypeOK
  <1>1. IInv => TypeOK
    <2> SUFFICES ASSUME IInv PROVE TypeOK
      OBVIOUS
    <2>1. IsFiniteSet(Task) /\ Owners \subseteq Task /\ Waiting \subseteq Task
      BY TaskAssumption DEF Owners, Waiting
    <2>2. Cardinality(Owners) \in Nat /\ Cardinality(Waiting) \in Nat /\ Cardinality(Task) \in Nat
      BY <2>1, FS_Subset, FS_CardinalityType
    <2>3. Cardinality(Waiting) <= Cardinality(Task)
      BY <2>1, FS_Subset
    <2>4. count \in Int /\ count <= N /\ count >= -Cardinality(Task)
      BY <2>2, <2>3, NAssumption DEF IInv, SemTypeOK, UnitsConserved, CountInv, MaxZero
    <2> QED
      BY <2>2, <2>4, NAssumption DEF IInv, SemTypeOK, TypeOK
  <1> QED
    BY <1>1, Invariance, PTL

\* The semaphore counts: at any time the units in sem->count, the tasks that have
\* one and the tasks about to put one back add up to what sema_init() put in.
THEOREM UnitsAreConserved == Spec => []UnitsConserved
  <1>1. IInv => UnitsConserved
    BY DEF IInv
  <1> QED
    BY <1>1, Invariance, PTL

\* No unit sits in sem->count while everybody who could take it sleeps.
THEOREM WakeupNotLost == Spec => []NoLostWakeup
  <1>1. IInv => NoLostWakeup
    BY DEF IInv, WakeInv, Sleepy, NoLostWakeup
  <1> QED
    BY <1>1, Invariance, PTL

=============================================================================
