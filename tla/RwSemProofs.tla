---------------------------- MODULE RwSemProofs ----------------------------
(***************************************************************************)
(* Proofs about RwSem: its safety properties hold, and it implements       *)
(* RwLock, for any finite set of tasks.                                    *)
(***************************************************************************)
EXTENDS RwSem, WaitQueueProofs, FiniteSetTheorems

\* The labels at which a releasing task holds a reference in tsk.
WakingLabels == {"wake_writer", "wake_reader"}

\* The labels at which a releasing task is about to look at the first waiter.
PoppingLabels == WakeLabels \ WakingLabels

\* wait_lock is the task whose pc is inside the section.
LockInv == \A t \in Task : pc[t] \in WakeLabels <=> wait_lock = t

\* Waiters hold nothing yet; those on the list are the ones not yet granted.
WaiterInv ==
  /\ \A t \in Task : pc[t] \in WaitLabels => holds[t] = "none"
  /\ \A t \in Task : waiting[t] => pc[t] \in WaitLabels \ {"granted"}
  /\ \A t \in Task : waiting[t] <=> \E i \in DOMAIN wait_list : wait_list[i] = t
  /\ \A i, j \in DOMAIN wait_list : wait_list[i] = wait_list[j] => i = j

\* What a releasing task knows inside the section.
SectionInv ==
  \A t \in Task :
    /\ pc[t] \in PoppingLabels => wait_list # <<>>
    /\ pc[t] = "wake_one_writer" => activity = 0 /\ flags[wait_list[1]] = "write"
    /\ pc[t] = "do_wake_writers" => activity = 0
    /\ pc[t] = "do_wake_readers" => activity = 1
    /\ pc[t] = "grant_readers" => activity >= 0 /\ flags[wait_list[1]] = "read"
    /\ pc[t] = "wake_reader" => activity >= 0
    /\ pc[t] = "wake_writer" => activity = -1
    /\ pc[t] \in WakingLabels => tsk \in Task

\* Readers already granted whom sem->activity does not count yet.
Uncounted == IF \E t \in Task : pc[t] = "grant_readers" THEN woken
             ELSE IF \E t \in Task : pc[t] = "wake_reader" THEN woken + 1
             ELSE 0

\* At every step, in or out of the section.
CountInv == IF activity = -1 THEN Readers = {} /\ \E w \in Task : Writers = {w}
                             ELSE Writers = {} /\ Cardinality(Readers) = activity + Uncounted

\* FirstWaiterIsWriter, outside the section.
QueueInv == wait_lock = NoTask /\ wait_list # <<>> =>
              activity # 0 /\ (activity > 0 => flags[wait_list[1]] = "write")

\* A task that is off the run queue, or will be when it calls schedule(), is
\* not granted yet or is about to be woken.
WakeInv ==
  /\ \A t \in Task : ~onrq[t] => pc[t] = "set_state" /\ state[t] # RUNNING
  /\ \A t \in Task :
       /\ pc[t] \in WaitLabels /\ ~waiting[t]
       /\ ~onrq[t] \/ (pc[t] = "schedule" /\ state[t] # RUNNING)
       => tsk = t /\ \E u \in Task : pc[u] \in WakingLabels

IInv == TypeOK /\ LockInv /\ WaiterInv /\ SectionInv /\ CountInv /\ QueueInv /\ WakeInv

-----------------------------------------------------------------------------
(* Lemmas about the queue and about counting readers.                      *)

\* What list_del() of the first waiter leaves in the list.
LEMMA PopFacts ==
  ASSUME NEW s \in Seq(Task), s # <<>>
  PROVE  /\ Head(s) = s[1] /\ s[1] \in Task /\ 1 \in DOMAIN s
         /\ Tail(s) \in Seq(Task)
         /\ Tail(s) # <<>> => Head(Tail(s)) = Tail(s)[1] /\ Tail(s)[1] = s[2]
         /\ \A i \in DOMAIN Tail(s) : i + 1 \in DOMAIN s /\ Tail(s)[i] = s[i + 1]
         /\ \A i \in DOMAIN s : i # 1 => i - 1 \in DOMAIN Tail(s) /\ Tail(s)[i - 1] = s[i]
  OBVIOUS

\* What list_add_tail() leaves in the list.
LEMMA AppendFacts ==
  ASSUME NEW s \in Seq(Task), NEW t \in Task
  PROVE  /\ Append(s, t) \in Seq(Task)
         /\ Append(s, t) # <<>>
         /\ DOMAIN Append(s, t) = DOMAIN s \union {Len(s) + 1}
         /\ Len(s) + 1 \notin DOMAIN s
         /\ \A i \in DOMAIN s : Append(s, t)[i] = s[i]
         /\ Append(s, t)[Len(s) + 1] = t
         /\ s = <<>> => Append(s, t)[1] = t
         /\ s # <<>> => Append(s, t)[1] = s[1]
  <1>1. Append(s, t) \in Seq(Task) /\ Len(Append(s, t)) = Len(s) + 1
    OBVIOUS
  <1>2. DOMAIN Append(s, t) = 1 .. (Len(s) + 1) /\ DOMAIN s = 1 .. Len(s) /\ Len(s) \in Nat
    BY <1>1
  <1>3. DOMAIN Append(s, t) = DOMAIN s \union {Len(s) + 1} /\ Len(s) + 1 \notin DOMAIN s
    BY <1>2
  <1>4. /\ \A i \in DOMAIN s : Append(s, t)[i] = s[i]
        /\ Append(s, t)[Len(s) + 1] = t
    OBVIOUS
  <1>5. s # <<>> => 1 \in DOMAIN s
    OBVIOUS
  <1>6. s = <<>> => Len(s) + 1 = 1
    OBVIOUS
  <1> QED
    BY <1>1, <1>3, <1>4, <1>5, <1>6

\* The readers are finitely many, and one more or one less is counted as such.
LEMMA CountFacts ==
  ASSUME NEW S \in SUBSET Task
  PROVE  /\ Cardinality(S) \in Nat
         /\ Cardinality(S) = 0 <=> S = {}
         /\ \A t \in Task \ S : Cardinality(S \union {t}) = Cardinality(S) + 1
         /\ \A t \in S : Cardinality(S \ {t}) = Cardinality(S) - 1
  <1>1. IsFiniteSet(S)
    BY TaskAssumption, FS_Subset
  <1>2. Cardinality(S) \in Nat /\ (Cardinality(S) = 0 <=> S = {})
    BY <1>1, FS_CardinalityType, FS_EmptySet
  <1>3. \A t \in Task \ S : Cardinality(S \union {t}) = Cardinality(S) + 1
    BY <1>1, FS_AddElement
  <1>4. \A t \in S : Cardinality(S \ {t}) = Cardinality(S) - 1
    BY <1>1, FS_RemoveElement
  <1> QED
    BY <1>2, <1>3, <1>4

\* If no task's ownership changes, neither do the sets of owners.
LEMMA SameOwners ==
  ASSUME \A u \in Task : Owner(u)' = Owner(u)
  PROVE  Readers' = Readers /\ Writers' = Writers
  BY DEF Readers, Writers

-----------------------------------------------------------------------------
(* The inductive invariant.                                                *)

\* __init_rwsem() establishes the invariant.
LEMMA InitInv == Init => IInv
  <1> SUFFICES ASSUME Init PROVE IInv
    OBVIOUS
  <1> USE DEF Init, SchedInit
  <1>1. TypeOK
    BY DEF TypeOK, SchedTypeOK, TaskStates, Labels
  <1>2. LockInv /\ WaiterInv /\ SectionInv /\ QueueInv /\ WakeInv
    BY TaskAssumption DEF LockInv, WaiterInv, SectionInv, QueueInv, WakeInv, WaitLabels, WakeLabels,
                          WakingLabels, PoppingLabels
  <1>3. Readers = {} /\ Writers = {}
    BY DEF Readers, Writers, Owner, WaitLabels
  <1>4. CountInv
    BY <1>3, CountFacts DEF CountInv, Uncounted
  <1> QED
    BY <1>1, <1>2, <1>4 DEF IInv

\* A request granted at once makes its caller an owner beside compatible owners.
LEMMA DownGrantedInv ==
  ASSUME IInv, NEW t \in Task, NEW kind \in {"read", "write"}, DownGranted(t, kind)
  PROVE  IInv'
  <1> USE TaskAssumption DEF IInv, DownGranted, Grantable, At, sched_vars, RUNNING, INTERRUPTIBLE, UNINTERRUPTIBLE
  <1> USE DEF Labels, WaitLabels, WakeLabels, WakingLabels, PoppingLabels
  <1>1. LockInv'
    BY DEF TypeOK, SchedTypeOK, LockInv
  <1>2. WaiterInv'
    BY DEF TypeOK, SchedTypeOK, LockInv, WaiterInv, SectionInv
  <1>3. SectionInv'
    BY DEF TypeOK, SchedTypeOK, LockInv, WaiterInv, SectionInv, QueueInv
  <1>4. IF kind = "read" THEN Readers' = Readers \union {t} /\ Writers' = Writers ELSE Readers' = Readers /\ Writers' = Writers \union {t}
    BY DEF TypeOK, SchedTypeOK, LockInv, WaiterInv, SectionInv, Readers, Writers, Owner
  <1>5. Uncounted = 0 /\ Uncounted' = 0
    BY DEF TypeOK, LockInv, SectionInv, Uncounted
  <1>6. Readers \subseteq Task /\ Writers \subseteq Task
    BY DEF Readers, Writers
  <1>7. CountInv'
    <2>1. CASE kind = "read"
      <3>1. t \notin Readers /\ Writers = {} /\ Cardinality(Readers) = activity /\ activity >= 0
        BY <2>1, <1>5 DEF CountInv, Readers, Owner, TypeOK
      <3>2. Cardinality(Readers \union {t}) = activity + 1
        BY <3>1, <1>6, CountFacts
      <3>3. Readers' = Readers \union {t} /\ Writers' = {} /\ activity' = activity + 1
        BY <2>1, <1>4, <3>1
      <3>4. activity' # -1 /\ Cardinality(Readers') = activity' + Uncounted'
        BY <1>5, <3>1, <3>2, <3>3 DEF TypeOK
      <3> QED
        BY <3>3, <3>4 DEF CountInv
    <2>2. CASE kind = "write"
      <3>1. Writers = {} /\ Cardinality(Readers) = 0
        BY <2>2, <1>5 DEF CountInv, TypeOK
      <3>2. Readers = {}
        BY <3>1, <1>6, CountFacts
      <3> QED
        BY <2>2, <1>4, <3>1, <3>2 DEF CountInv
    <2> QED
      BY <2>1, <2>2
  <1>8. TypeOK'
    BY <1>4, <1>6, CountFacts DEF TypeOK, SchedTypeOK, TaskStates, CountInv, SectionInv
  <1>9. QueueInv'
    BY DEF TypeOK, SchedTypeOK, LockInv, WaiterInv, SectionInv, QueueInv
  <1>10. WakeInv'
    BY DEF TypeOK, SchedTypeOK, TaskStates, LockInv, WaiterInv, SectionInv, WakeInv
  <1> QED
    BY <1>1, <1>2, <1>3, <1>7, <1>8, <1>9, <1>10

\* __down_read() and __down_write() put the caller at the end of wait_list.
LEMMA DownQueueInv ==
  ASSUME IInv, NEW t \in Task, NEW kind \in {"read", "write"}, DownQueue(t, kind)
  PROVE  IInv'
  <1> USE TaskAssumption, AppendFacts DEF IInv, DownQueue, Grantable, At, Goto, set_task_state, sched_vars, RUNNING, INTERRUPTIBLE, UNINTERRUPTIBLE
  <1> USE DEF Labels, WaitLabels, WakeLabels, WakingLabels, PoppingLabels
  <1>1. LockInv'
    BY DEF TypeOK, SchedTypeOK, LockInv
  <1>2. WaiterInv'
    BY DEF TypeOK, SchedTypeOK, LockInv, WaiterInv, SectionInv
  <1>3. SectionInv'
    BY DEF TypeOK, SchedTypeOK, LockInv, WaiterInv, SectionInv, QueueInv
  <1>4. Readers' = Readers /\ Writers' = Writers
    BY SameOwners DEF TypeOK, SchedTypeOK, LockInv, WaiterInv, SectionInv, Owner
  <1>5. Uncounted = 0 /\ Uncounted' = 0
    BY DEF TypeOK, LockInv, SectionInv, Uncounted
  <1>6. Readers \subseteq Task /\ Writers \subseteq Task
    BY DEF Readers, Writers
  <1>7. CountInv'
    BY <1>4, <1>5, <1>6, CountFacts DEF TypeOK, LockInv, SectionInv, CountInv
  <1>8. TypeOK'
    BY <1>4, <1>6, CountFacts DEF TypeOK, SchedTypeOK, TaskStates, CountInv, SectionInv
  <1>9. QueueInv'
    BY SMTT(60) DEF TypeOK, SchedTypeOK, LockInv, WaiterInv, SectionInv, QueueInv
  <1>10. WakeInv'
    BY DEF TypeOK, SchedTypeOK, TaskStates, LockInv, WaiterInv, SectionInv, WakeInv
  <1> QED
    BY <1>1, <1>2, <1>3, <1>7, <1>8, <1>9, <1>10

\* Polling waiter.task only moves the waiter on.
LEMMA WaitCheckInv ==
  ASSUME IInv, NEW t \in Task, WaitCheck(t)
  PROVE  IInv'
  <1> USE TaskAssumption DEF IInv, WaitCheck, At, Goto, sched_vars, RUNNING, INTERRUPTIBLE, UNINTERRUPTIBLE
  <1> USE DEF Labels, WaitLabels, WakeLabels, WakingLabels, PoppingLabels
  <1>1. LockInv'
    BY DEF TypeOK, SchedTypeOK, LockInv
  <1>2. WaiterInv'
    BY DEF TypeOK, SchedTypeOK, LockInv, WaiterInv, SectionInv
  <1>3. SectionInv'
    BY DEF TypeOK, SchedTypeOK, LockInv, WaiterInv, SectionInv, QueueInv
  <1>4. Readers' = Readers /\ Writers' = Writers
    BY SameOwners DEF TypeOK, SchedTypeOK, LockInv, WaiterInv, SectionInv, Owner
  <1>5. Uncounted' = Uncounted
    BY DEF TypeOK, LockInv, SectionInv, Uncounted
  <1>6. Readers \subseteq Task /\ Writers \subseteq Task
    BY DEF Readers, Writers
  <1>7. CountInv'
    BY <1>4, <1>5, <1>6, CountFacts DEF TypeOK, LockInv, SectionInv, CountInv
  <1>8. TypeOK'
    BY <1>4, <1>6, CountFacts DEF TypeOK, SchedTypeOK, TaskStates, CountInv, SectionInv
  <1>9. QueueInv'
    BY DEF TypeOK, SchedTypeOK, LockInv, WaiterInv, SectionInv, QueueInv
  <1>10. WakeInv'
    BY DEF TypeOK, SchedTypeOK, TaskStates, LockInv, WaiterInv, SectionInv, WakeInv
  <1> QED
    BY <1>1, <1>2, <1>3, <1>7, <1>8, <1>9, <1>10

\* schedule() takes a waiter off the run queue only while it is marked sleeping.
LEMMA WaitScheduleInv ==
  ASSUME IInv, NEW t \in Task, WaitSchedule(t)
  PROVE  IInv'
  <1> USE TaskAssumption DEF IInv, WaitSchedule, At, Goto, schedule, set_task_state, sched_vars, RUNNING, INTERRUPTIBLE, UNINTERRUPTIBLE
  <1> USE DEF Labels, WaitLabels, WakeLabels, WakingLabels, PoppingLabels
  <1>1. LockInv'
    BY DEF TypeOK, SchedTypeOK, LockInv
  <1>2. WaiterInv'
    BY DEF TypeOK, SchedTypeOK, LockInv, WaiterInv, SectionInv
  <1>3. SectionInv'
    BY DEF TypeOK, SchedTypeOK, LockInv, WaiterInv, SectionInv, QueueInv
  <1>4. Readers' = Readers /\ Writers' = Writers
    BY SameOwners DEF TypeOK, SchedTypeOK, LockInv, WaiterInv, SectionInv, Owner
  <1>5. Uncounted' = Uncounted
    BY DEF TypeOK, LockInv, SectionInv, Uncounted
  <1>6. Readers \subseteq Task /\ Writers \subseteq Task
    BY DEF Readers, Writers
  <1>7. CountInv'
    BY <1>4, <1>5, <1>6, CountFacts DEF TypeOK, LockInv, SectionInv, CountInv
  <1>8. TypeOK'
    BY ZenonT(30) DEF TypeOK, SchedTypeOK, TaskStates
  <1>9. QueueInv'
    BY DEF TypeOK, SchedTypeOK, LockInv, WaiterInv, SectionInv, QueueInv
  <1>10. WakeInv'
    BY DEF TypeOK, SchedTypeOK, TaskStates, LockInv, WaiterInv, SectionInv, WakeInv
  <1> QED
    BY <1>1, <1>2, <1>3, <1>7, <1>8, <1>9, <1>10

\* A waiter that declares itself sleeping again is still on the run queue.
LEMMA WaitSetStateInv ==
  ASSUME IInv, NEW t \in Task, WaitSetState(t)
  PROVE  IInv'
  <1> USE TaskAssumption DEF IInv, WaitSetState, At, Goto, set_task_state, sched_vars, RUNNING, INTERRUPTIBLE, UNINTERRUPTIBLE
  <1> USE DEF Labels, WaitLabels, WakeLabels, WakingLabels, PoppingLabels
  <1>1. LockInv'
    BY DEF TypeOK, SchedTypeOK, LockInv
  <1>2. WaiterInv'
    BY DEF TypeOK, SchedTypeOK, LockInv, WaiterInv, SectionInv
  <1>3. SectionInv'
    BY DEF TypeOK, SchedTypeOK, LockInv, WaiterInv, SectionInv, QueueInv
  <1>4. Readers' = Readers /\ Writers' = Writers
    BY SameOwners DEF TypeOK, SchedTypeOK, LockInv, WaiterInv, SectionInv, Owner
  <1>5. Uncounted' = Uncounted
    BY DEF TypeOK, LockInv, SectionInv, Uncounted
  <1>6. Readers \subseteq Task /\ Writers \subseteq Task
    BY DEF Readers, Writers
  <1>7. CountInv'
    BY <1>4, <1>5, <1>6, CountFacts DEF TypeOK, LockInv, SectionInv, CountInv
  <1>8. TypeOK'
    BY <1>4, <1>6, CountFacts DEF TypeOK, SchedTypeOK, TaskStates, CountInv, SectionInv
  <1>9. QueueInv'
    BY DEF TypeOK, SchedTypeOK, LockInv, WaiterInv, SectionInv, QueueInv
  <1>10. WakeInv'
    BY DEF TypeOK, SchedTypeOK, TaskStates, LockInv, WaiterInv, SectionInv, WakeInv
  <1> QED
    BY <1>1, <1>2, <1>3, <1>7, <1>8, <1>9, <1>10

\* A granted waiter returns as the owner its granter has counted already.
LEMMA WaitDoneInv ==
  ASSUME IInv, NEW t \in Task, WaitDone(t)
  PROVE  IInv'
  <1> USE TaskAssumption DEF IInv, WaitDone, At, Goto, set_task_state, sched_vars, RUNNING, INTERRUPTIBLE, UNINTERRUPTIBLE
  <1> USE DEF Labels, WaitLabels, WakeLabels, WakingLabels, PoppingLabels
  <1>1. LockInv'
    BY DEF TypeOK, SchedTypeOK, LockInv
  <1>2. WaiterInv'
    BY DEF TypeOK, SchedTypeOK, LockInv, WaiterInv, SectionInv
  <1>3. SectionInv'
    BY DEF TypeOK, SchedTypeOK, LockInv, WaiterInv, SectionInv, QueueInv
  <1>4. Readers' = Readers /\ Writers' = Writers
    BY SameOwners DEF TypeOK, SchedTypeOK, LockInv, WaiterInv, SectionInv, Owner
  <1>5. Uncounted' = Uncounted
    BY DEF TypeOK, LockInv, SectionInv, Uncounted
  <1>6. Readers \subseteq Task /\ Writers \subseteq Task
    BY DEF Readers, Writers
  <1>7. CountInv'
    BY <1>4, <1>5, <1>6, CountFacts DEF TypeOK, LockInv, SectionInv, CountInv
  <1>8. TypeOK'
    BY <1>4, <1>6, CountFacts DEF TypeOK, SchedTypeOK, TaskStates, CountInv, SectionInv
  <1>9. QueueInv'
    BY DEF TypeOK, SchedTypeOK, LockInv, WaiterInv, SectionInv, QueueInv
  <1>10. WakeInv'
    BY DEF TypeOK, SchedTypeOK, TaskStates, LockInv, WaiterInv, SectionInv, WakeInv
  <1> QED
    BY <1>1, <1>2, <1>3, <1>7, <1>8, <1>9, <1>10

\* up_read() enters the waking code only when the last reader leaves.
LEMMA UpReadInv ==
  ASSUME IInv, NEW t \in Task, up_read(t)
  PROVE  IInv'
  <1> USE TaskAssumption DEF IInv, up_read, At, StayIf, Goto, sched_vars, RUNNING, INTERRUPTIBLE, UNINTERRUPTIBLE
  <1> USE DEF Labels, WaitLabels, WakeLabels, WakingLabels, PoppingLabels
  <1>1. LockInv'
    BY DEF TypeOK, SchedTypeOK, LockInv
  <1>2. WaiterInv'
    BY DEF TypeOK, SchedTypeOK, LockInv, WaiterInv, SectionInv
  <1>3. SectionInv'
    BY DEF TypeOK, SchedTypeOK, LockInv, WaiterInv, SectionInv, QueueInv
  <1>4. t \in Readers /\ Readers' = Readers \ {t} /\ Writers' = Writers
    BY DEF TypeOK, SchedTypeOK, LockInv, WaiterInv, SectionInv, Readers, Writers, Owner
  <1>5. Uncounted = 0 /\ Uncounted' = 0
    BY DEF TypeOK, LockInv, SectionInv, Uncounted
  <1>6. Readers \subseteq Task /\ Writers \subseteq Task
    BY DEF Readers, Writers
  <1>7. CountInv'
    BY <1>4, <1>5, <1>6, CountFacts DEF TypeOK, LockInv, SectionInv, CountInv
  <1>8. TypeOK'
    BY SMTT(30), <1>4, <1>6, CountFacts DEF TypeOK, SchedTypeOK, TaskStates, CountInv, SectionInv
  <1>9. QueueInv'
    BY DEF TypeOK, SchedTypeOK, LockInv, WaiterInv, SectionInv, QueueInv
  <1>10. WakeInv'
    BY DEF TypeOK, SchedTypeOK, TaskStates, LockInv, WaiterInv, SectionInv, WakeInv
  <1> QED
    BY <1>1, <1>2, <1>3, <1>7, <1>8, <1>9, <1>10

\* up_write() leaves no owner behind when it starts to wake.
LEMMA UpWriteInv ==
  ASSUME IInv, NEW t \in Task, up_write(t)
  PROVE  IInv'
  <1> USE TaskAssumption DEF IInv, up_write, At, StayIf, Goto, sched_vars, RUNNING, INTERRUPTIBLE, UNINTERRUPTIBLE
  <1> USE DEF Labels, WaitLabels, WakeLabels, WakingLabels, PoppingLabels
  <1>1. LockInv'
    BY DEF TypeOK, SchedTypeOK, LockInv
  <1>2. WaiterInv'
    BY DEF TypeOK, SchedTypeOK, LockInv, WaiterInv, SectionInv
  <1>3. SectionInv'
    BY DEF TypeOK, SchedTypeOK, LockInv, WaiterInv, SectionInv, QueueInv
  <1>4. t \in Writers /\ Readers' = Readers /\ Writers' = Writers \ {t}
    BY DEF TypeOK, SchedTypeOK, LockInv, WaiterInv, SectionInv, Readers, Writers, Owner
  <1>5. Uncounted = 0 /\ Uncounted' = 0
    BY DEF TypeOK, LockInv, SectionInv, Uncounted
  <1>6. Readers \subseteq Task /\ Writers \subseteq Task
    BY DEF Readers, Writers
  <1>7. CountInv'
    BY <1>4, <1>5, <1>6, CountFacts DEF TypeOK, LockInv, SectionInv, CountInv
  <1>8. TypeOK'
    BY <1>4, <1>6, CountFacts DEF TypeOK, SchedTypeOK, TaskStates, CountInv, SectionInv
  <1>9. QueueInv'
    BY DEF TypeOK, SchedTypeOK, LockInv, WaiterInv, SectionInv, QueueInv
  <1>10. WakeInv'
    BY DEF TypeOK, SchedTypeOK, TaskStates, LockInv, WaiterInv, SectionInv, WakeInv
  <1> QED
    BY <1>1, <1>2, <1>3, <1>7, <1>8, <1>9, <1>10

\* downgrade_write() leaves the caller as the one reader.
LEMMA DowngradeWriteInv ==
  ASSUME IInv, NEW t \in Task, downgrade_write(t)
  PROVE  IInv'
  <1> USE TaskAssumption DEF IInv, downgrade_write, At, StayIf, Goto, sched_vars, RUNNING, INTERRUPTIBLE, UNINTERRUPTIBLE
  <1> USE DEF Labels, WaitLabels, WakeLabels, WakingLabels, PoppingLabels
  <1>1. LockInv'
    BY DEF TypeOK, SchedTypeOK, LockInv
  <1>2. WaiterInv'
    BY DEF TypeOK, SchedTypeOK, LockInv, WaiterInv, SectionInv
  <1>3. SectionInv'
    BY DEF TypeOK, SchedTypeOK, LockInv, WaiterInv, SectionInv, QueueInv
  <1>4. t \in Writers /\ Readers' = Readers \union {t} /\ Writers' = Writers \ {t}
    BY DEF TypeOK, SchedTypeOK, LockInv, WaiterInv, SectionInv, Readers, Writers, Owner
  <1>5. Uncounted = 0 /\ Uncounted' = 0
    BY DEF TypeOK, LockInv, SectionInv, Uncounted
  <1>6. Readers \subseteq Task /\ Writers \subseteq Task
    BY DEF Readers, Writers
  <1>7. CountInv'
    BY <1>4, <1>5, <1>6, CountFacts DEF TypeOK, LockInv, SectionInv, CountInv
  <1>8. TypeOK'
    BY <1>4, <1>6, CountFacts DEF TypeOK, SchedTypeOK, TaskStates, CountInv, SectionInv
  <1>9. QueueInv'
    BY DEF TypeOK, SchedTypeOK, LockInv, WaiterInv, SectionInv, QueueInv
  <1>10. WakeInv'
    BY DEF TypeOK, SchedTypeOK, TaskStates, LockInv, WaiterInv, SectionInv, WakeInv
  <1> QED
    BY <1>1, <1>2, <1>3, <1>7, <1>8, <1>9, <1>10

\* __rwsem_wake_one_writer() hands a free semaphore to the first waiter, a writer.
LEMMA WakeOneWriterInv ==
  ASSUME IInv, NEW t \in Task, rwsem_wake_one_writer(t)
  PROVE  IInv'
  <1> USE TaskAssumption, PopFacts DEF IInv, rwsem_wake_one_writer, At, PopWaiter, Goto, sched_vars, RUNNING, INTERRUPTIBLE, UNINTERRUPTIBLE
  <1> USE DEF Labels, WaitLabels, WakeLabels, WakingLabels, PoppingLabels
  <1>1. LockInv'
    BY DEF TypeOK, SchedTypeOK, LockInv
  <1>2. WaiterInv'
    <2>1. /\ wait_list \in Seq(Task) /\ wait_list # <<>>
          /\ wait_list' = Tail(wait_list)
          /\ \A u \in Task : waiting'[u] <=> waiting[u] /\ u # wait_list[1]
      BY DEF TypeOK, SectionInv
    <2>2. \A u \in Task : waiting'[u] <=> \E i \in DOMAIN wait_list' : wait_list'[i] = u
      <3> SUFFICES ASSUME NEW u \in Task
                   PROVE  waiting'[u] <=> \E i \in DOMAIN wait_list' : wait_list'[i] = u
        OBVIOUS
      <3>1. ASSUME waiting'[u] PROVE \E i \in DOMAIN wait_list' : wait_list'[i] = u
        <4>1. PICK i \in DOMAIN wait_list : wait_list[i] = u
          BY <2>1, <3>1 DEF WaiterInv
        <4>2. i # 1
          BY <2>1, <3>1, <4>1
        <4>3. i - 1 \in DOMAIN wait_list' /\ wait_list'[i - 1] = wait_list[i]
          BY <2>1, <4>2
        <4> QED
          BY <4>1, <4>3
      <3>2. ASSUME NEW i \in DOMAIN wait_list', wait_list'[i] = u PROVE waiting'[u]
        <4>1. i + 1 \in DOMAIN wait_list /\ wait_list[i + 1] = u /\ i + 1 # 1
          BY <2>1, <3>2
        <4>2. u # wait_list[1] /\ waiting[u]
          BY <2>1, <4>1 DEF WaiterInv
        <4> QED
          BY <2>1, <4>2
      <3> QED
        BY <3>1, <3>2
    <2>3. \A i, j \in DOMAIN wait_list' : wait_list'[i] = wait_list'[j] => i = j
      BY <2>1 DEF WaiterInv
    <2>4. \A u \in Task : /\ pc'[u] \in WaitLabels => holds'[u] = "none"
                          /\ waiting'[u] => pc'[u] \in WaitLabels \ {"granted"}
      BY <2>1 DEF TypeOK, WaiterInv
    <2> QED
      BY <2>2, <2>3, <2>4 DEF WaiterInv
  <1>3. SectionInv'
    BY DEF TypeOK, SchedTypeOK, LockInv, WaiterInv, SectionInv, QueueInv
  <1>4. Readers' = Readers /\ Writers' = Writers \union {wait_list[1]}
    BY DEF TypeOK, SchedTypeOK, LockInv, WaiterInv, SectionInv, Readers, Writers, Owner
  <1>5. Uncounted = 0 /\ Uncounted' = 0
    BY DEF TypeOK, LockInv, SectionInv, Uncounted
  <1>6. Readers \subseteq Task /\ Writers \subseteq Task
    BY DEF Readers, Writers
  <1>7. CountInv'
    <2>1. Cardinality(Readers) = 0 /\ Writers = {} /\ wait_list[1] \in Task
      BY <1>5 DEF CountInv, SectionInv, TypeOK
    <2>2. Readers = {}
      BY <2>1, <1>6, CountFacts
    <2> QED
      BY ZenonT(30), <1>4, <2>1, <2>2 DEF CountInv
  <1>8. TypeOK'
    BY <1>4, <1>6, CountFacts DEF TypeOK, SchedTypeOK, TaskStates, CountInv, SectionInv
  <1>9. QueueInv'
    BY DEF TypeOK, SchedTypeOK, LockInv, WaiterInv, SectionInv, QueueInv
  <1>10. WakeInv'
    BY DEF TypeOK, SchedTypeOK, TaskStates, LockInv, WaiterInv, SectionInv, WakeInv
  <1> QED
    BY <1>1, <1>2, <1>3, <1>7, <1>8, <1>9, <1>10

\* __rwsem_do_wake() hands a free semaphore to a writer first in the queue.
LEMMA DoWakeWriterInv ==
  ASSUME IInv, NEW t \in Task, DoWakeWriter(t)
  PROVE  IInv'
  <1> USE TaskAssumption, PopFacts DEF IInv, DoWakeWriter, At, PopWaiter, Goto, sched_vars, RUNNING, INTERRUPTIBLE, UNINTERRUPTIBLE
  <1> USE DEF Labels, WaitLabels, WakeLabels, WakingLabels, PoppingLabels
  <1>1. LockInv'
    BY DEF TypeOK, SchedTypeOK, LockInv
  <1>2. WaiterInv'
    <2>1. /\ wait_list \in Seq(Task) /\ wait_list # <<>>
          /\ wait_list' = Tail(wait_list)
          /\ \A u \in Task : waiting'[u] <=> waiting[u] /\ u # wait_list[1]
      BY DEF TypeOK, SectionInv
    <2>2. \A u \in Task : waiting'[u] <=> \E i \in DOMAIN wait_list' : wait_list'[i] = u
      <3> SUFFICES ASSUME NEW u \in Task
                   PROVE  waiting'[u] <=> \E i \in DOMAIN wait_list' : wait_list'[i] = u
        OBVIOUS
      <3>1. ASSUME waiting'[u] PROVE \E i \in DOMAIN wait_list' : wait_list'[i] = u
        <4>1. PICK i \in DOMAIN wait_list : wait_list[i] = u
          BY <2>1, <3>1 DEF WaiterInv
        <4>2. i # 1
          BY <2>1, <3>1, <4>1
        <4>3. i - 1 \in DOMAIN wait_list' /\ wait_list'[i - 1] = wait_list[i]
          BY <2>1, <4>2
        <4> QED
          BY <4>1, <4>3
      <3>2. ASSUME NEW i \in DOMAIN wait_list', wait_list'[i] = u PROVE waiting'[u]
        <4>1. i + 1 \in DOMAIN wait_list /\ wait_list[i + 1] = u /\ i + 1 # 1
          BY <2>1, <3>2
        <4>2. u # wait_list[1] /\ waiting[u]
          BY <2>1, <4>1 DEF WaiterInv
        <4> QED
          BY <2>1, <4>2
      <3> QED
        BY <3>1, <3>2
    <2>3. \A i, j \in DOMAIN wait_list' : wait_list'[i] = wait_list'[j] => i = j
      BY <2>1 DEF WaiterInv
    <2>4. \A u \in Task : /\ pc'[u] \in WaitLabels => holds'[u] = "none"
                          /\ waiting'[u] => pc'[u] \in WaitLabels \ {"granted"}
      BY <2>1 DEF TypeOK, WaiterInv
    <2> QED
      BY <2>2, <2>3, <2>4 DEF WaiterInv
  <1>3. SectionInv'
    BY DEF TypeOK, SchedTypeOK, LockInv, WaiterInv, SectionInv, QueueInv
  <1>4. Readers' = Readers /\ Writers' = Writers \union {wait_list[1]}
    BY DEF TypeOK, SchedTypeOK, LockInv, WaiterInv, SectionInv, Readers, Writers, Owner
  <1>5. Uncounted = 0 /\ Uncounted' = 0
    BY DEF TypeOK, LockInv, SectionInv, Uncounted
  <1>6. Readers \subseteq Task /\ Writers \subseteq Task
    BY DEF Readers, Writers
  <1>7. CountInv'
    <2>1. Cardinality(Readers) = 0 /\ Writers = {} /\ wait_list[1] \in Task
      BY <1>5 DEF CountInv, SectionInv, TypeOK
    <2>2. Readers = {}
      BY <2>1, <1>6, CountFacts
    <2> QED
      BY <1>4, <2>1, <2>2 DEF CountInv
  <1>8. TypeOK'
    BY <1>4, <1>6, CountFacts DEF TypeOK, SchedTypeOK, TaskStates, CountInv, SectionInv
  <1>9. QueueInv'
    BY DEF TypeOK, SchedTypeOK, LockInv, WaiterInv, SectionInv, QueueInv
  <1>10. WakeInv'
    BY DEF TypeOK, SchedTypeOK, TaskStates, LockInv, WaiterInv, SectionInv, WakeInv
  <1> QED
    BY <1>1, <1>2, <1>3, <1>7, <1>8, <1>9, <1>10

\* After a downgrade, a writer first in the queue keeps waiting.
LEMMA DoWakeNobodyInv ==
  ASSUME IInv, NEW t \in Task, DoWakeNobody(t)
  PROVE  IInv'
  <1> USE TaskAssumption, PopFacts DEF IInv, DoWakeNobody, At, Leave, Goto, sched_vars, RUNNING, INTERRUPTIBLE, UNINTERRUPTIBLE
  <1> USE DEF Labels, WaitLabels, WakeLabels, WakingLabels, PoppingLabels
  <1>1. LockInv'
    BY DEF TypeOK, SchedTypeOK, LockInv
  <1>2. WaiterInv'
    BY DEF TypeOK, SchedTypeOK, LockInv, WaiterInv, SectionInv
  <1>3. SectionInv'
    BY DEF TypeOK, SchedTypeOK, LockInv, WaiterInv, SectionInv, QueueInv
  <1>4. Readers' = Readers /\ Writers' = Writers
    BY SameOwners DEF TypeOK, SchedTypeOK, LockInv, WaiterInv, SectionInv, Owner
  <1>5. Uncounted = 0 /\ Uncounted' = 0
    BY DEF TypeOK, LockInv, SectionInv, Uncounted
  <1>6. Readers \subseteq Task /\ Writers \subseteq Task
    BY DEF Readers, Writers
  <1>7. CountInv'
    BY <1>4, <1>5, <1>6, CountFacts DEF TypeOK, LockInv, SectionInv, CountInv
  <1>8. TypeOK'
    BY <1>4, <1>6, CountFacts DEF TypeOK, SchedTypeOK, TaskStates, CountInv, SectionInv
  <1>9. QueueInv'
    BY DEF TypeOK, SchedTypeOK, LockInv, WaiterInv, SectionInv, QueueInv
  <1>10. WakeInv'
    BY DEF TypeOK, SchedTypeOK, TaskStates, LockInv, WaiterInv, SectionInv, WakeInv
  <1> QED
    BY <1>1, <1>2, <1>3, <1>7, <1>8, <1>9, <1>10

\* __rwsem_do_wake() starts on the readers first in the queue.
LEMMA DoWakeReadersInv ==
  ASSUME IInv, NEW t \in Task, DoWakeReaders(t)
  PROVE  IInv'
  <1> USE TaskAssumption, PopFacts DEF IInv, DoWakeReaders, At, Goto, sched_vars, RUNNING, INTERRUPTIBLE, UNINTERRUPTIBLE
  <1> USE DEF Labels, WaitLabels, WakeLabels, WakingLabels, PoppingLabels
  <1>1. LockInv'
    BY DEF TypeOK, SchedTypeOK, LockInv
  <1>2. WaiterInv'
    BY DEF TypeOK, SchedTypeOK, LockInv, WaiterInv, SectionInv
  <1>3. SectionInv'
    BY DEF TypeOK, SchedTypeOK, LockInv, WaiterInv, SectionInv, QueueInv
  <1>4. Readers' = Readers /\ Writers' = Writers
    BY SameOwners DEF TypeOK, SchedTypeOK, LockInv, WaiterInv, SectionInv, Owner
  <1>5. Uncounted = 0 /\ Uncounted' = 0
    BY DEF TypeOK, LockInv, SectionInv, Uncounted
  <1>6. Readers \subseteq Task /\ Writers \subseteq Task
    BY DEF Readers, Writers
  <1>7. CountInv'
    BY <1>4, <1>5, <1>6, CountFacts DEF TypeOK, LockInv, SectionInv, CountInv
  <1>8. TypeOK'
    BY <1>4, <1>6, CountFacts DEF TypeOK, SchedTypeOK, TaskStates, CountInv, SectionInv
  <1>9. QueueInv'
    BY DEF TypeOK, SchedTypeOK, LockInv, WaiterInv, SectionInv, QueueInv
  <1>10. WakeInv'
    BY DEF TypeOK, SchedTypeOK, TaskStates, LockInv, WaiterInv, SectionInv, WakeInv
  <1> QED
    BY <1>1, <1>2, <1>3, <1>7, <1>8, <1>9, <1>10

\* One more reader is granted: it owns the semaphore before it is counted.
LEMMA GrantReaderInv ==
  ASSUME IInv, NEW t \in Task, GrantReader(t)
  PROVE  IInv'
  <1> USE TaskAssumption, PopFacts DEF IInv, GrantReader, At, PopWaiter, Goto, sched_vars, RUNNING, INTERRUPTIBLE, UNINTERRUPTIBLE
  <1> USE DEF Labels, WaitLabels, WakeLabels, WakingLabels, PoppingLabels
  <1>1. LockInv'
    BY DEF TypeOK, SchedTypeOK, LockInv
  <1>2. WaiterInv'
    <2>1. /\ wait_list \in Seq(Task) /\ wait_list # <<>>
          /\ wait_list' = Tail(wait_list)
          /\ \A u \in Task : waiting'[u] <=> waiting[u] /\ u # wait_list[1]
      BY DEF TypeOK, SectionInv
    <2>2. \A u \in Task : waiting'[u] <=> \E i \in DOMAIN wait_list' : wait_list'[i] = u
      <3> SUFFICES ASSUME NEW u \in Task
                   PROVE  waiting'[u] <=> \E i \in DOMAIN wait_list' : wait_list'[i] = u
        OBVIOUS
      <3>1. ASSUME waiting'[u] PROVE \E i \in DOMAIN wait_list' : wait_list'[i] = u
        <4>1. PICK i \in DOMAIN wait_list : wait_list[i] = u
          BY <2>1, <3>1 DEF WaiterInv
        <4>2. i # 1
          BY <2>1, <3>1, <4>1
        <4>3. i - 1 \in DOMAIN wait_list' /\ wait_list'[i - 1] = wait_list[i]
          BY <2>1, <4>2
        <4> QED
          BY <4>1, <4>3
      <3>2. ASSUME NEW i \in DOMAIN wait_list', wait_list'[i] = u PROVE waiting'[u]
        <4>1. i + 1 \in DOMAIN wait_list /\ wait_list[i + 1] = u /\ i + 1 # 1
          BY <2>1, <3>2
        <4>2. u # wait_list[1] /\ waiting[u]
          BY <2>1, <4>1 DEF WaiterInv
        <4> QED
          BY <2>1, <4>2
      <3> QED
        BY <3>1, <3>2
    <2>3. \A i, j \in DOMAIN wait_list' : wait_list'[i] = wait_list'[j] => i = j
      BY <2>1 DEF WaiterInv
    <2>4. \A u \in Task : /\ pc'[u] \in WaitLabels => holds'[u] = "none"
                          /\ waiting'[u] => pc'[u] \in WaitLabels \ {"granted"}
      BY <2>1 DEF TypeOK, WaiterInv
    <2> QED
      BY <2>2, <2>3, <2>4 DEF WaiterInv
  <1>3. SectionInv'
    BY DEF TypeOK, SchedTypeOK, LockInv, WaiterInv, SectionInv, QueueInv
  <1>4. wait_list[1] \notin Readers /\ Readers' = Readers \union {wait_list[1]} /\ Writers' = Writers
    BY DEF TypeOK, SchedTypeOK, LockInv, WaiterInv, SectionInv, Readers, Writers, Owner
  <1>5. Uncounted = woken /\ Uncounted' = woken + 1
    BY DEF TypeOK, LockInv, SectionInv, Uncounted
  <1>6. Readers \subseteq Task /\ Writers \subseteq Task
    BY DEF Readers, Writers
  <1>7. CountInv'
    <2>1. activity >= 0 /\ Writers = {} /\ Cardinality(Readers) = activity + woken
      BY <1>5 DEF CountInv, SectionInv, TypeOK
    <2>2. Cardinality(Readers \union {wait_list[1]}) = Cardinality(Readers) + 1
      <3> wait_list[1] \in Task
        BY DEF SectionInv, TypeOK
      <3> QED
        BY <1>4, <1>6, CountFacts
    <2> QED
      BY <1>4, <1>5, <2>1, <2>2 DEF CountInv, TypeOK
  <1>8. TypeOK'
    BY <1>4, <1>6, CountFacts DEF TypeOK, SchedTypeOK, TaskStates, CountInv, SectionInv
  <1>9. QueueInv'
    BY DEF TypeOK, SchedTypeOK, LockInv, WaiterInv, SectionInv, QueueInv
  <1>10. WakeInv'
    BY DEF TypeOK, SchedTypeOK, TaskStates, LockInv, WaiterInv, SectionInv, WakeInv
  <1> QED
    BY <1>1, <1>2, <1>3, <1>7, <1>8, <1>9, <1>10

\* The readers woken are added to activity once the last of them is.
LEMMA WakeReaderInv ==
  ASSUME IInv, NEW t \in Task, WakeReader(t)
  PROVE  IInv'
  <1> USE TaskAssumption, PopFacts DEF IInv, WakeReader, At, Leave, Goto
  <1> USE DEF Labels, WaitLabels, WakeLabels, WakingLabels, PoppingLabels
  <1>0. /\ SchedTypeOK' /\ state'[tsk] = RUNNING /\ onrq'[tsk]
        /\ \A u \in Task \ {tsk} : state'[u] = state[u] /\ onrq'[u] = onrq[u]
    <2>1. SchedTypeOK /\ tsk \in Task /\ wake_up_process(tsk) /\ (~onrq[tsk] => state[tsk] # RUNNING)
      BY DEF TypeOK, SectionInv, WakeInv
    <2> QED
      BY <2>1, WakeUpFacts
  <1>1. LockInv'
    BY DEF TypeOK, SchedTypeOK, LockInv
  <1>2. WaiterInv'
    BY DEF TypeOK, SchedTypeOK, LockInv, WaiterInv, SectionInv
  <1>3. SectionInv'
    BY DEF TypeOK, SchedTypeOK, LockInv, WaiterInv, SectionInv, QueueInv
  <1>4. Readers' = Readers /\ Writers' = Writers
    BY SameOwners DEF TypeOK, SchedTypeOK, LockInv, WaiterInv, SectionInv, Owner
  <1>5. Uncounted = woken + 1 /\ activity' + Uncounted' = activity + woken + 1
    <2>1. /\ \A u \in Task : pc[u] # "grant_readers"
          /\ \A u \in Task \ {t} : pc'[u] = pc[u] /\ pc[u] # "wake_reader"
      BY DEF TypeOK, LockInv
    <2>2. Uncounted = woken + 1
      BY <2>1 DEF Uncounted
    <2>3. CASE wait_list # <<>> /\ flags[Head(wait_list)] = "read"
      <3>1. pc'[t] = "grant_readers" /\ activity' = activity /\ woken' = woken + 1
        <4>1. pc' = [pc EXCEPT ![t] = "grant_readers"] /\ activity' = activity /\ woken' = woken + 1
          BY <2>3, ZenonT(30)
        <4>2. pc \in [Task -> Labels]
          BY ZenonT(30) DEF TypeOK
        <4> QED
          BY <4>1, <4>2, ZenonT(30)
      <3> QED
        BY <2>2, <3>1 DEF Uncounted, TypeOK
    <2>4. CASE ~(wait_list # <<>> /\ flags[Head(wait_list)] = "read")
      <3>1. pc'[t] = "out" /\ activity' = activity + woken + 1
        <4>1. pc' = [pc EXCEPT ![t] = "out"] /\ activity' = activity + woken + 1
          BY <2>4, ZenonT(30)
        <4>2. pc \in [Task -> Labels]
          BY ZenonT(30) DEF TypeOK
        <4> QED
          BY <4>1, <4>2, ZenonT(30)
      <3>2. Uncounted' = 0
        BY <2>1, <3>1 DEF Uncounted
      <3> QED
        BY <2>2, <3>1, <3>2 DEF TypeOK, SectionInv
    <2> QED
      BY <2>3, <2>4
  <1>6. Readers \subseteq Task /\ Writers \subseteq Task
    BY DEF Readers, Writers
  <1>7. CountInv'
    BY SMTT(30), <1>4, <1>5, <1>6, CountFacts DEF TypeOK, LockInv, SectionInv, CountInv
  <1>8. TypeOK'
    <2>1. SchedTypeOK'
      BY SMTT(30), <1>0
    <2>2. activity' \in Nat \union {-1} /\ wait_lock' \in Task \union {NoTask} /\ pc' \in [Task -> Labels]
      BY SMTT(30) DEF TypeOK, SectionInv
    <2> QED
      BY SMTT(30), <2>1, <2>2 DEF TypeOK
  <1>9. QueueInv'
    BY SMTT(30) DEF TypeOK, SchedTypeOK, LockInv, WaiterInv, SectionInv, QueueInv
  <1>10. WakeInv'
    <2>1. pc \in [Task -> Labels] /\ onrq[t]
      BY ZenonT(30) DEF TypeOK
    <2>2. PICK l \in {"grant_readers", "out"} : pc' = [pc EXCEPT ![t] = l]
      BY ZenonT(30)
    <2>3. \A u \in Task : u # t => pc'[u] = pc[u]
      BY <2>1, <2>2, ZenonT(30)
    <2>4. onrq[t] /\ pc'[t] \notin WaitLabels
      <3> HIDE DEF IInv, WakeReader
      <3> QED
        BY <2>1, <2>2
    <2>5. waiting' = waiting /\ wait_list' = wait_list
      OBVIOUS
    <2>6. \A u \in Task : ~onrq'[u] => pc'[u] = "set_state" /\ state'[u] # RUNNING
      BY SMTT(30), <1>0, <2>3, <2>4 DEF WakeInv
    <2>7. ASSUME NEW u \in Task, pc'[u] \in WaitLabels, ~waiting'[u],
                 ~onrq'[u] \/ (pc'[u] = "schedule" /\ state'[u] # RUNNING)
          PROVE  FALSE
      BY <1>0, <2>3, <2>4, <2>5, <2>7 DEF WakeInv
    <2> QED
      BY <2>6, <2>7, ZenonT(30) DEF WakeInv
  <1> QED
    BY <1>1, <1>2, <1>3, <1>7, <1>8, <1>9, <1>10

\* Waking the granted writer ends the section.
LEMMA WakeWriterInv ==
  ASSUME IInv, NEW t \in Task, WakeWriter(t)
  PROVE  IInv'
  <1> USE TaskAssumption DEF IInv, WakeWriter, At, Leave, Goto, wake_up_process, try_to_wake_up, SleepStates, sched_vars, RUNNING, INTERRUPTIBLE, UNINTERRUPTIBLE
  <1> USE DEF Labels, WaitLabels, WakeLabels, WakingLabels, PoppingLabels
  <1>1. LockInv'
    BY DEF TypeOK, SchedTypeOK, LockInv
  <1>2. WaiterInv'
    BY DEF TypeOK, SchedTypeOK, LockInv, WaiterInv, SectionInv
  <1>3. SectionInv'
    BY DEF TypeOK, SchedTypeOK, LockInv, WaiterInv, SectionInv, QueueInv
  <1>4. Readers' = Readers /\ Writers' = Writers
    BY SMTT(30), SameOwners DEF TypeOK, SchedTypeOK, LockInv, WaiterInv, SectionInv, Owner
  <1>5. Uncounted = 0 /\ Uncounted' = 0
    BY DEF TypeOK, LockInv, SectionInv, Uncounted
  <1>6. Readers \subseteq Task /\ Writers \subseteq Task
    BY DEF Readers, Writers
  <1>7. CountInv'
    BY <1>4, <1>5, <1>6, CountFacts DEF TypeOK, LockInv, SectionInv, CountInv
  <1>8. TypeOK'
    BY ZenonT(30), <1>4, <1>6, CountFacts DEF TypeOK, SchedTypeOK, TaskStates, CountInv, SectionInv
  <1>9. QueueInv'
    BY DEF TypeOK, SchedTypeOK, LockInv, WaiterInv, SectionInv, QueueInv
  <1>10. WakeInv'
    BY DEF TypeOK, SchedTypeOK, TaskStates, LockInv, WaiterInv, SectionInv, WakeInv
  <1> QED
    BY <1>1, <1>2, <1>3, <1>7, <1>8, <1>9, <1>10

\* A wake-up from elsewhere makes a waiter poll once more, and no more than that.
LEMMA StrayWakeupInv ==
  ASSUME IInv, NEW t \in Task, StrayWakeup(t)
  PROVE  IInv'
  <1> USE TaskAssumption DEF IInv, StrayWakeup, wake_up_process, try_to_wake_up, SleepStates, rwsem_vars, sched_vars, RUNNING, INTERRUPTIBLE, UNINTERRUPTIBLE
  <1> USE DEF Labels, WaitLabels, WakeLabels, WakingLabels, PoppingLabels
  <1>1. LockInv'
    BY DEF TypeOK, SchedTypeOK, LockInv
  <1>2. WaiterInv'
    BY DEF TypeOK, SchedTypeOK, LockInv, WaiterInv, SectionInv
  <1>3. SectionInv'
    BY DEF TypeOK, SchedTypeOK, LockInv, WaiterInv, SectionInv, QueueInv
  <1>4. Readers' = Readers /\ Writers' = Writers
    BY SameOwners DEF TypeOK, SchedTypeOK, LockInv, WaiterInv, SectionInv, Owner
  <1>5. Uncounted' = Uncounted
    BY DEF TypeOK, LockInv, SectionInv, Uncounted
  <1>6. Readers \subseteq Task /\ Writers \subseteq Task
    BY DEF Readers, Writers
  <1>7. CountInv'
    BY <1>4, <1>5, <1>6, CountFacts DEF TypeOK, LockInv, SectionInv, CountInv
  <1>8. TypeOK'
    BY ZenonT(30) DEF TypeOK, SchedTypeOK, TaskStates
  <1>9. QueueInv'
    BY DEF TypeOK, SchedTypeOK, LockInv, WaiterInv, SectionInv, QueueInv
  <1>10. WakeInv'
    BY SMTT(30) DEF TypeOK, SchedTypeOK, TaskStates, LockInv, WaiterInv, SectionInv, WakeInv
  <1> QED
    BY <1>1, <1>2, <1>3, <1>7, <1>8, <1>9, <1>10

\* Every step of the semaphore code preserves the invariant.
LEMMA NextInv == IInv /\ [Next]_vars => IInv'
  <1> SUFFICES ASSUME IInv, [Next]_vars PROVE IInv'
    OBVIOUS
  <1>1. CASE Next
    <2>1. PICK t \in Task : \/ Acquiring(t) \/ WaitStep(t) \/ WakeStep(t)
                            \/ up_read(t) \/ up_write(t) \/ downgrade_write(t)
                            \/ StrayWakeup(t)
      BY <1>1 DEF Next
    <2>2. CASE Acquiring(t)
      BY <2>2, DownGrantedInv, DownQueueInv DEF Acquiring
    <2>3. CASE WaitStep(t)
      BY <2>3, WaitCheckInv, WaitScheduleInv, WaitSetStateInv, WaitDoneInv DEF WaitStep
    <2>4. CASE WakeStep(t)
      BY <2>4, WakeOneWriterInv, DoWakeWriterInv, DoWakeNobodyInv, DoWakeReadersInv,
         GrantReaderInv, WakeReaderInv, WakeWriterInv DEF WakeStep
    <2>5. CASE up_read(t) \/ up_write(t) \/ downgrade_write(t)
      BY <2>5, UpReadInv, UpWriteInv, DowngradeWriteInv
    <2>6. CASE StrayWakeup(t)
      BY <2>6, StrayWakeupInv
    <2> QED
      BY <2>1, <2>2, <2>3, <2>4, <2>5, <2>6
  <1>2. CASE UNCHANGED vars
    <2>1. Readers' = Readers /\ Writers' = Writers
      BY SMTT(30), <1>2, SameOwners DEF Owner, vars, rwsem_vars
    <2>2. TypeOK' /\ LockInv' /\ WaiterInv'
      BY SMTT(90), <1>2 DEF vars, rwsem_vars, sched_vars, IInv, TypeOK, SchedTypeOK, LockInv, WaiterInv
    <2>3. SectionInv' /\ QueueInv'
      BY SMTT(90), <1>2 DEF vars, rwsem_vars, sched_vars, IInv, SectionInv, QueueInv
    <2>4. CountInv'
      BY SMTT(90), <1>2, <2>1 DEF vars, rwsem_vars, IInv, CountInv, Uncounted
    <2>5. WakeInv'
      <3>1. WakeInv
        BY DEF IInv
      <3>2. state' = state /\ onrq' = onrq /\ pc' = pc /\ waiting' = waiting /\ tsk' = tsk
        BY <1>2 DEF vars, rwsem_vars, sched_vars
      <3> QED
        BY ZenonT(30), <3>1, <3>2 DEF WakeInv
    <2> QED
      BY <2>2, <2>3, <2>4, <2>5 DEF IInv
  <1> QED
    BY <1>1, <1>2

\* Every reachable state satisfies the inductive invariant.
THEOREM Invariance == Spec => []IInv
  BY InitInv, NextInv, PTL DEF Spec

-----------------------------------------------------------------------------
(* What follows from the invariant.                                        *)

\* The variables of the semaphore keep their types; in particular activity
\* never falls below -1.
THEOREM TypeCorrect == Spec => []TypeOK
  <1>1. IInv => TypeOK
    BY DEF IInv
  <1> QED
    BY <1>1, Invariance, PTL

\* A writer shares the semaphore with nobody.
THEOREM Exclusion == Spec => []MutualExclusion
  <1>1. IInv => MutualExclusion
    BY DEF IInv, CountInv, MutualExclusion
  <1> QED
    BY <1>1, Invariance, PTL

\* With wait_lock free, sem->activity counts the owners.
THEOREM ActivityCorrect == Spec => []ActivityCountsOwners
  <1>1. IInv => ActivityCountsOwners
    <2> SUFFICES ASSUME IInv, wait_lock = NoTask
                 PROVE  IF activity = -1 THEN Cardinality(Writers) = 1 /\ Readers = {}
                                         ELSE Writers = {} /\ activity = Cardinality(Readers)
      BY DEF ActivityCountsOwners
    <2>1. Uncounted = 0
      BY TaskAssumption DEF IInv, LockInv, WakeLabels, Uncounted
    <2>2. \A w \in Task : Cardinality({w}) = 1
      BY ZenonT(30), FS_Singleton
    <2> QED
      BY <2>1, <2>2 DEF IInv, TypeOK, CountInv
  <1> QED
    BY <1>1, Invariance, PTL

\* When the last reader hands the semaphore to the first waiter without looking
\* at its flags, that waiter is a writer.
THEOREM FirstWaiterCorrect == Spec => []FirstWaiterIsWriter
  <1>1. IInv => FirstWaiterIsWriter
    <2> SUFFICES ASSUME IInv PROVE FirstWaiterIsWriter
      OBVIOUS
    <2>1. wait_list # <<>> => Head(wait_list) = wait_list[1]
      BY PopFacts DEF IInv, TypeOK
    <2> QED
      BY <2>1 DEF IInv, QueueInv, SectionInv, PoppingLabels, WakeLabels, WakingLabels,
                  FirstWaiterIsWriter
  <1> QED
    BY <1>1, Invariance, PTL

\* A waiter that was given the semaphore is on the run queue or about to be
\* woken.
THEOREM WakeupNotLost == Spec => []NoLostWakeup
  <1>1. IInv => NoLostWakeup
    BY TaskAssumption DEF IInv, LockInv, WakeInv, WakeLabels, WakingLabels, NoLostWakeup
  <1> QED
    BY <1>1, Invariance, PTL

-----------------------------------------------------------------------------
(* The semaphore implements RwLock.                                        *)

\* The requests a list of waiters stands for, given their flags.
Requests(s, f) == [i \in DOMAIN s |-> <<s[i], f[s[i]]>>]

\* The abstract queue is a sequence of requests as long as wait_list.
LEMMA RequestsSeq ==
  ASSUME NEW s \in Seq(Task), NEW f \in [Task -> {"read", "write"}]
  PROVE  /\ Requests(s, f) \in Seq(Task \X {"read", "write"})
         /\ Len(Requests(s, f)) = Len(s)
         /\ \A i \in 1 .. Len(s) : Requests(s, f)[i] = <<s[i], f[s[i]]>>
  <1>1. Len(s) \in Nat /\ DOMAIN s = 1 .. Len(s) /\ \A i \in 1 .. Len(s) : s[i] \in Task
    OBVIOUS
  <1>2. \A i \in 1 .. Len(s) : <<s[i], f[s[i]]>> \in Task \X {"read", "write"}
    BY <1>1
  <1> QED
    BY <1>1, <1>2 DEF Requests

\* Taking the first waiter off the list takes its request off the queue.
LEMMA RequestsTail ==
  ASSUME NEW s \in Seq(Task), s # <<>>, NEW f \in [Task -> {"read", "write"}]
  PROVE  /\ Requests(s, f) # <<>>
         /\ Head(Requests(s, f)) = <<s[1], f[s[1]]>>
         /\ Requests(Tail(s), f) = Tail(Requests(s, f))
  <1> DEFINE q == Requests(s, f)
             r == Requests(Tail(s), f)
             K == Task \X {"read", "write"}
  <1>1. /\ q \in Seq(K) /\ Len(q) = Len(s)
        /\ \A i \in 1 .. Len(s) : q[i] = <<s[i], f[s[i]]>>
    BY RequestsSeq
  <1>2. /\ Tail(s) \in Seq(Task) /\ Len(s) \in Nat \ {0} /\ Len(Tail(s)) = Len(s) - 1
        /\ \A i \in 1 .. (Len(s) - 1) : Tail(s)[i] = s[i + 1]
    OBVIOUS
  <1>3. /\ r \in Seq(K) /\ Len(r) = Len(s) - 1
        /\ \A i \in 1 .. (Len(s) - 1) : r[i] = <<Tail(s)[i], f[Tail(s)[i]]>>
    BY ZenonT(30), <1>2, RequestsSeq
  <1> HIDE DEF q, r, K
  <1>4. q # <<>> /\ Head(q) = q[1] /\ 1 \in 1 .. Len(s)
    BY <1>1, <1>2
  <1>5. /\ Tail(q) \in Seq(K) /\ Len(Tail(q)) = Len(s) - 1
        /\ \A i \in 1 .. (Len(s) - 1) : Tail(q)[i] = q[i + 1]
    BY <1>1, <1>2, <1>4
  <1>6. \A i \in 1 .. (Len(s) - 1) : r[i] = Tail(q)[i]
    <2> SUFFICES ASSUME NEW i \in 1 .. (Len(s) - 1) PROVE r[i] = Tail(q)[i]
      BY ZenonT(30)
    <2>1. i + 1 \in 1 .. Len(s)
      BY <1>2
    <2>2. Tail(q)[i] = <<s[i + 1], f[s[i + 1]]>>
      BY <1>1, <1>5, <2>1
    <2>3. r[i] = <<s[i + 1], f[s[i + 1]]>>
      BY <1>2, <1>3
    <2> QED
      BY ZenonT(30), <2>2, <2>3
  <1>7. r = Tail(q)
    BY <1>2, <1>3, <1>5, <1>6, SeqsAgree, SMTT(60)
  <1> QED
    BY <1>1, <1>4, <1>7 DEF q, r

\* Queueing a waiter at the end appends its request.
LEMMA RequestsAppend ==
  ASSUME NEW s \in Seq(Task), NEW f \in [Task -> {"read", "write"}],
         NEW t \in Task, NEW kind \in {"read", "write"},
         \A i \in DOMAIN s : s[i] # t
  PROVE  Requests(Append(s, t), [f EXCEPT ![t] = kind]) = Append(Requests(s, f), <<t, kind>>)
  <1> DEFINE g == [f EXCEPT ![t] = kind]
             q == Requests(s, f)
             l == Append(s, t)
             r == Requests(l, g)
             a == Append(q, <<t, kind>>)
             K == Task \X {"read", "write"}
  <1>1. /\ q \in Seq(K) /\ Len(q) = Len(s)
        /\ \A i \in 1 .. Len(s) : q[i] = <<s[i], f[s[i]]>>
    BY RequestsSeq
  <1>2. /\ l \in Seq(Task) /\ Len(l) = Len(s) + 1 /\ Len(s) \in Nat
        /\ \A i \in 1 .. Len(s) : l[i] = s[i] /\ s[i] \in Task /\ s[i] # t
        /\ l[Len(s) + 1] = t
    OBVIOUS
  <1>3. /\ g \in [Task -> {"read", "write"}] /\ g[t] = kind
        /\ \A u \in Task \ {t} : g[u] = f[u]
    OBVIOUS
  <1> HIDE DEF g, l
  <1>4. /\ r \in Seq(K) /\ Len(r) = Len(s) + 1
        /\ \A i \in 1 .. (Len(s) + 1) : r[i] = <<l[i], g[l[i]]>>
    BY <1>2, <1>3, RequestsSeq
  <1>5. <<t, kind>> \in K
    OBVIOUS
  <1>6. /\ a \in Seq(K) /\ Len(a) = Len(s) + 1
        /\ \A i \in 1 .. Len(s) : a[i] = q[i]
        /\ a[Len(s) + 1] = <<t, kind>>
    BY <1>1, <1>5, AppendIs
  <1> HIDE DEF q, r, K, a
  <1>7. \A i \in 1 .. (Len(s) + 1) : r[i] = a[i]
    <2> SUFFICES ASSUME NEW i \in 1 .. (Len(s) + 1) PROVE r[i] = a[i]
      OBVIOUS
    <2>1. CASE i = Len(s) + 1
      BY <2>1, <1>2, <1>3, <1>4, <1>6
    <2>2. CASE i \in 1 .. Len(s)
      <3>1. l[i] = s[i] /\ g[s[i]] = f[s[i]]
        BY <2>2, <1>2, <1>3
      <3>2. r[i] = <<s[i], f[s[i]]>>
        BY <3>1, <1>4
      <3>3. a[i] = <<s[i], f[s[i]]>>
        BY <2>2, <1>1, <1>6
      <3> QED
        BY <3>2, <3>3
    <2> QED
      BY <2>1, <2>2, <1>2
  <1>8. r = a
    BY <1>4, <1>6, <1>7, SeqsAgree
  <1> QED
    BY ZenonT(30), <1>8 DEF q, r, a, g, l

\* Steps that change neither who owns the semaphore nor the list of waiters.
LEMMA RefStutter ==
  ASSUME \A u \in Task : Owner(u)' = Owner(u), wait_list' = wait_list, flags' = flags
  PROVE  UNCHANGED <<AbsOwner, AbsQueue>>
  BY DEF AbsOwner, AbsQueue

\* A grant to the first waiter is RwLock's Grant, if the waiter's kind is
\* compatible with the owners.
LEMMA RefGrant ==
  ASSUME IInv, wait_list # <<>>, PopWaiter, flags' = flags,
         \A u \in Task : Owner(u)' = IF u = wait_list[1] THEN flags[u] ELSE Owner(u),
         Writers = {}, flags[wait_list[1]] = "write" => Readers = {}
  PROVE  Abstract!Grant
  <1>1. wait_list \in Seq(Task) /\ flags \in [Task -> {"read", "write"}] /\ wait_list[1] \in Task
    BY PopFacts DEF IInv, TypeOK
  <1>2. /\ AbsQueue # <<>> /\ Head(AbsQueue) = <<wait_list[1], flags[wait_list[1]]>>
        /\ AbsQueue' = Tail(AbsQueue)
    <2>1. AbsQueue = Requests(wait_list, flags) /\ AbsQueue' = Requests(Tail(wait_list), flags)
      BY DEF AbsQueue, Requests, PopWaiter
    <2> QED
      BY <1>1, <2>1, RequestsTail
  <1>3. AbsOwner' = [AbsOwner EXCEPT ![wait_list[1]] = flags[wait_list[1]]]
    BY <1>1, ZenonT(30) DEF AbsOwner
  <1>4. \A u \in Task : AbsOwner[u] # "write" /\ (flags[wait_list[1]] = "write" => AbsOwner[u] = "none")
    <2>1. \A u \in Task : Owner(u) \in {"none", "read", "write"}
      BY DEF Owner, IInv, TypeOK
    <2> QED
      BY <2>1 DEF AbsOwner, Readers, Writers
  <1>5. Head(AbsQueue)[1] = wait_list[1] /\ Head(AbsQueue)[2] = flags[wait_list[1]]
    BY <1>2
  <1>6. Abstract!Compatible(flags[wait_list[1]])
    <2>1. flags[wait_list[1]] \in {"read", "write"}
      BY <1>1
    <2> QED
      BY <1>4, <2>1 DEF Abstract!Compatible
  <1> QED
    BY <1>2, <1>3, <1>5, <1>6, ZenonT(30) DEF Abstract!Grant

\* An initialised semaphore is a free abstract lock.
LEMMA RefInit == Init => Abstract!LockInit
  BY DEF Init, Abstract!LockInit, AbsOwner, AbsQueue, Owner, WaitLabels

\* A request is an Acquire or an Enqueue of the abstract lock.
LEMMA RefAcquiring ==
  ASSUME IInv, NEW t \in Task, Acquiring(t)
  PROVE  \E kind \in {"read", "write"} : Abstract!Acquire(t, kind) \/ Abstract!Enqueue(t, kind)
  <1>1. PICK kind \in {"read", "write"} : DownGranted(t, kind) \/ DownQueue(t, kind)
    BY DEF Acquiring
  <1>2. CASE DownGranted(t, kind)
    <2>1. /\ wait_list = <<>> /\ wait_list' = <<>> /\ AbsQueue = <<>> /\ AbsQueue' = <<>>
          /\ pc[t] = "out" /\ pc' = pc /\ waiting' = waiting /\ flags' = flags
      BY <1>2 DEF DownGranted, Grantable, At, AbsQueue
    <2>2. Owner(t) = "none" /\ AbsOwner' = [AbsOwner EXCEPT ![t] = kind]
      BY <1>2, <2>1, ZenonT(30) DEF DownGranted, At, AbsOwner, Owner, WaitLabels, IInv, TypeOK
    <2>3. Uncounted = 0
      BY <1>2, TaskAssumption DEF DownGranted, IInv, LockInv, WakeLabels, Uncounted
    <2>4. Writers = {} /\ (kind = "write" => Cardinality(Readers) = 0)
      BY <1>2, <2>3 DEF DownGranted, Grantable, IInv, CountInv, TypeOK
    <2>5. kind = "write" => Readers = {}
      BY <2>4, CountFacts, Readers \subseteq Task DEF Readers
    <2>6. \A u \in Task : Owner(u) \in {"none", "read", "write"}
      BY DEF Owner, IInv, TypeOK
    <2>7. \A u \in Task : AbsOwner[u] # "write" /\ (kind = "write" => AbsOwner[u] = "none")
      BY <2>4, <2>5, <2>6 DEF AbsOwner, Readers, Writers
    <2>8. AbsOwner[t] = "none"
      BY <2>2 DEF AbsOwner
    <2> QED
      BY <2>1, <2>2, <2>7, <2>8, ZenonT(30) DEF Abstract!Acquire, Abstract!Compatible
  <1>3. CASE DownQueue(t, kind)
    <2>1. ~waiting[t] /\ \A i \in DOMAIN wait_list : wait_list[i] # t
      BY <1>3 DEF DownQueue, At, IInv, WaiterInv, WaitLabels
    <2>2. wait_list \in Seq(Task) /\ flags \in [Task -> {"read", "write"}]
      BY DEF IInv, TypeOK
    <2>3. AbsQueue' = Append(AbsQueue, <<t, kind>>)
      <3>1. /\ AbsQueue = Requests(wait_list, flags)
            /\ AbsQueue' = Requests(Append(wait_list, t), [flags EXCEPT ![t] = kind])
        <4>1. wait_list' = Append(wait_list, t) /\ flags' = [flags EXCEPT ![t] = kind]
          BY <1>3, ZenonT(30) DEF DownQueue
        <4>2. AbsQueue = Requests(wait_list, flags) /\ AbsQueue' = Requests(wait_list', flags')
          BY ZenonT(30) DEF AbsQueue, Requests
        <4> QED
          BY <4>1, <4>2
      <3> QED
        BY <2>1, <2>2, <3>1, RequestsAppend, ZenonT(30)
    <2>4. AbsOwner' = AbsOwner /\ AbsOwner[t] = "none"
      BY <1>3 DEF DownQueue, At, Goto, AbsOwner, Owner, WaitLabels, IInv, TypeOK
    <2>5. ~Abstract!Queued(t)
      BY <2>1 DEF Abstract!Queued, AbsQueue
    <2> QED
      BY <2>3, <2>4, <2>5 DEF Abstract!Enqueue
  <1> QED
    BY <1>1, <1>2, <1>3

\* What a waiter does by itself does not change the abstract lock.
LEMMA RefWaitStep ==
  ASSUME IInv, NEW t \in Task, WaitStep(t) \/ StrayWakeup(t)
  PROVE  UNCHANGED <<AbsOwner, AbsQueue>>
  <1>1. wait_list' = wait_list /\ flags' = flags
    BY ZenonT(30) DEF WaitStep, WaitCheck, WaitSchedule, WaitSetState, WaitDone, StrayWakeup, rwsem_vars
  <1>2. ASSUME NEW u \in Task PROVE Owner(u)' = Owner(u)
    <2>1. pc \in [Task -> Labels] /\ holds \in [Task -> {"none", "read", "write"}]
      BY DEF IInv, TypeOK
    <2>2. waiting[t] => pc[t] # "granted"
      BY DEF IInv, WaiterInv
    <2>3. CASE WaitCheck(t) \/ WaitSchedule(t) \/ WaitSetState(t)
      <3>1. waiting' = waiting /\ holds' = holds
        BY <2>3, ZenonT(30) DEF WaitCheck, WaitSchedule, WaitSetState
      <3>2. pc[t] \in WaitLabels
        BY <2>3, ZenonT(30) DEF WaitCheck, WaitSchedule, WaitSetState, At, WaitLabels
      <3>3. PICK l \in WaitLabels : pc' = [pc EXCEPT ![t] = l]
        BY <2>3, ZenonT(30) DEF WaitCheck, WaitSchedule, WaitSetState, Goto, WaitLabels
      <3>4. pc'[t] \in WaitLabels /\ (u # t => pc'[u] = pc[u])
        BY <2>1, <3>3, ZenonT(30)
      <3> QED
        BY <1>1, <3>1, <3>2, <3>4, ZenonT(30) DEF Owner
    <2>4. CASE WaitDone(t)
      <3>1. waiting' = waiting /\ pc[t] = "granted"
        BY <2>4, ZenonT(30) DEF WaitDone, At
      <3>2. pc'[t] = "out" /\ holds'[t] = flags[t]
        BY <2>1, <2>4, SMTT(30) DEF WaitDone, Goto
      <3>3. u # t => pc'[u] = pc[u] /\ holds'[u] = holds[u]
        BY <2>1, <2>4, SMTT(30) DEF WaitDone, Goto
      <3> QED
        BY <1>1, <2>2, <3>1, <3>2, <3>3, SMTT(30) DEF Owner, WaitLabels
    <2>5. CASE StrayWakeup(t)
      BY <2>5, ZenonT(30) DEF StrayWakeup, rwsem_vars, Owner
    <2> QED
      BY <2>3, <2>4, <2>5, ZenonT(30) DEF WaitStep
  <1> QED
    BY <1>1, <1>2, RefStutter

\* A release or a downgrade is the same of the abstract lock.
LEMMA RefRelease ==
  ASSUME IInv, NEW t \in Task, up_read(t) \/ up_write(t) \/ downgrade_write(t)
  PROVE  Abstract!Release(t) \/ Abstract!Downgrade(t)
  <1>1. wait_list' = wait_list /\ flags' = flags /\ waiting' = waiting
    BY ZenonT(30) DEF up_read, up_write, downgrade_write
  <1>2. pc[t] = "out" /\ pc'[t] \notin WaitLabels /\ \A u \in Task \ {t} : pc'[u] = pc[u]
    BY DEF up_read, up_write, downgrade_write, At, StayIf, Goto, WaitLabels, IInv, TypeOK
  <1>3. AbsQueue' = AbsQueue
    BY <1>1 DEF AbsQueue
  <1>4. AbsOwner[t] = holds[t]
    BY <1>2 DEF AbsOwner, Owner, WaitLabels
  <1>5. ASSUME NEW h, holds' = [holds EXCEPT ![t] = h] PROVE AbsOwner' = [AbsOwner EXCEPT ![t] = h]
    BY <1>1, <1>2, <1>5, ZenonT(30) DEF AbsOwner, Owner, IInv, TypeOK
  <1>6. CASE up_read(t) \/ up_write(t)
    <2>1. holds' = [holds EXCEPT ![t] = "none"] /\ holds[t] # "none"
      BY <1>6, ZenonT(30) DEF up_read, up_write
    <2> QED
      BY <2>1, <1>3, <1>4, <1>5, ZenonT(30) DEF Abstract!Release
  <1>7. CASE downgrade_write(t)
    <2>1. holds' = [holds EXCEPT ![t] = "read"] /\ holds[t] = "write"
      BY <1>7 DEF downgrade_write
    <2> QED
      BY <2>1, <1>3, <1>4, <1>5, ZenonT(30) DEF Abstract!Downgrade
  <1> QED
    BY <1>6, <1>7

\* Waking code changes the abstract lock only where it grants, to its first waiter.
LEMMA RefWakeStep ==
  ASSUME IInv, NEW t \in Task, WakeStep(t)
  PROVE  Abstract!Grant \/ UNCHANGED <<AbsOwner, AbsQueue>>
  <1> DEFINE Popping == rwsem_wake_one_writer(t) \/ DoWakeWriter(t) \/ GrantReader(t)
  <1>1. CASE Popping
    <2>1. /\ PopWaiter /\ flags' = flags /\ holds' = holds
          /\ pc[t] \in PoppingLabels /\ pc'[t] \in WakingLabels
          /\ \A u \in Task \ {t} : pc'[u] = pc[u]
      BY <1>1 DEF rwsem_wake_one_writer, DoWakeWriter, GrantReader, At, Goto, PoppingLabels, WakeLabels,
                  WakingLabels, IInv, TypeOK
    <2>2. wait_list # <<>> /\ wait_list[1] \in Task /\ Head(wait_list) = wait_list[1] /\ wait_list[1] # t
      <3>1. wait_list # <<>> /\ wait_list \in Seq(Task)
        BY <2>1 DEF IInv, SectionInv, TypeOK
      <3>2. wait_list[1] \in Task /\ Head(wait_list) = wait_list[1] /\ waiting[wait_list[1]]
        BY <3>1, PopFacts DEF IInv, WaiterInv
      <3> QED
        BY <2>1, <3>1, <3>2 DEF IInv, WaiterInv, WaitLabels, PoppingLabels, WakeLabels, WakingLabels
    <2>3. waiting[wait_list[1]] /\ pc[wait_list[1]] \in WaitLabels
      BY <2>2, PopFacts DEF IInv, WaiterInv, TypeOK
    <2>4. \A u \in Task : Owner(u)' = IF u = wait_list[1] THEN flags[u] ELSE Owner(u)
      BY <2>1, <2>2, <2>3 DEF Owner, PopWaiter, IInv, TypeOK, WaitLabels, WakeLabels, WakingLabels,
                              PoppingLabels
    <2>5. /\ activity >= 0
          /\ flags[wait_list[1]] = "write" => activity = 0 /\ ~(\E u \in Task : pc[u] = "grant_readers")
      <3>1. pc[t] \in {"wake_one_writer", "do_wake_writers", "grant_readers"}
        BY <1>1, ZenonT(30) DEF rwsem_wake_one_writer, DoWakeWriter, GrantReader, At
      <3>2. \A u \in Task : pc[u] = "grant_readers" => u = t
        BY <3>1 DEF IInv, LockInv, WakeLabels
      <3>3. CASE pc[t] \in {"wake_one_writer", "do_wake_writers"}
        BY <3>2, <3>3 DEF IInv, SectionInv
      <3>4. CASE pc[t] = "grant_readers"
        BY <3>4 DEF IInv, SectionInv
      <3> QED
        BY <3>1, <3>3, <3>4
    <2>6. flags[wait_list[1]] = "write" => Uncounted = 0
      BY <2>1, <2>5 DEF Uncounted, IInv, LockInv, PoppingLabels, WakeLabels, WakingLabels
    <2>7. Writers = {} /\ (flags[wait_list[1]] = "write" => Cardinality(Readers) = 0)
      BY <2>5, <2>6 DEF IInv, CountInv, TypeOK
    <2>8. flags[wait_list[1]] = "write" => Readers = {}
      BY <2>7, CountFacts, Readers \subseteq Task DEF Readers
    <2> QED
      BY <2>1, <2>2, <2>4, <2>7, <2>8, RefGrant
  <1>2. CASE ~Popping
    <2>1. DoWakeNobody(t) \/ DoWakeReaders(t) \/ WakeReader(t) \/ WakeWriter(t)
      BY <1>2 DEF WakeStep
    <2>2. wait_list' = wait_list /\ flags' = flags /\ waiting' = waiting /\ holds' = holds
      BY <2>1 DEF DoWakeNobody, DoWakeReaders, WakeReader, WakeWriter
    <2>3. pc[t] \in WakeLabels /\ pc'[t] \notin WaitLabels /\ \A u \in Task \ {t} : pc'[u] = pc[u]
      BY <2>1 DEF DoWakeNobody, DoWakeReaders, WakeReader, WakeWriter, At, Goto, Leave, WakeLabels, WaitLabels,
                  IInv, TypeOK
    <2>4. \A u \in Task : Owner(u)' = Owner(u)
      BY <2>2, <2>3, ZenonT(30) DEF Owner, WakeLabels, WaitLabels
    <2> QED
      BY <2>2, <2>4, RefStutter
  <1> QED
    BY <1>1, <1>2

\* Every step of the semaphore code is a step of the abstract lock or none.
LEMMA RefNext == IInv /\ [Next]_vars => [Abstract!LockNext]_<<AbsOwner, AbsQueue>>
  <1> SUFFICES ASSUME IInv, [Next]_vars
               PROVE  Abstract!LockNext \/ UNCHANGED <<AbsOwner, AbsQueue>>
    OBVIOUS
  <1>1. CASE UNCHANGED vars
    <2>1. \A u \in Task : Owner(u)' = Owner(u)
      BY <1>1 DEF vars, rwsem_vars, Owner
    <2> QED
      BY <1>1, <2>1, RefStutter DEF vars, rwsem_vars
  <1>2. CASE Next
    <2>1. PICK t \in Task : \/ Acquiring(t) \/ WaitStep(t) \/ StrayWakeup(t) \/ WakeStep(t)
                            \/ up_read(t) \/ up_write(t) \/ downgrade_write(t)
      BY <1>2 DEF Next
    <2>2. CASE Acquiring(t)
      BY <2>2, RefAcquiring DEF Abstract!LockNext, Abstract!Kind
    <2>3. CASE WaitStep(t) \/ StrayWakeup(t)
      BY <2>3, RefWaitStep
    <2>4. CASE WakeStep(t)
      BY <2>4, RefWakeStep DEF Abstract!LockNext
    <2>5. CASE up_read(t) \/ up_write(t) \/ downgrade_write(t)
      BY <2>5, RefRelease DEF Abstract!LockNext
    <2> QED
      BY <2>1, <2>2, <2>3, <2>4, <2>5
  <1> QED
    BY <1>1, <1>2

\* The semaphore of lib/rwsem-spinlock.c is a first-come first-served
\* read/write lock.
THEOREM Refinement == Spec => ImplementsRwLock
  BY Invariance, RefInit, RefNext, PTL DEF Spec, ImplementsRwLock, Abstract!LockSpec, Abstract!lockVars

=============================================================================
