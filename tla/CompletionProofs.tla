------------------------- MODULE CompletionProofs -------------------------
(***************************************************************************)
(* Proofs about Completion, for any finite set of tasks, any width of      *)
(* done, any number of calls, and any of the four functions per task.      *)
(***************************************************************************)
EXTENDS Completion, WaitQueueProofs, FiniteSetTheorems

Labels == {"out", "schedule", "relock"}

CompletionTypeOK == /\ SchedTypeOK
                    /\ done \in 0 .. UINT_MAX
                    /\ wait \in Seq(Task) /\ Distinct(wait)
                    /\ expired \in [Task -> BOOLEAN]
                    /\ sigpending \in [Task -> BOOLEAN]
                    /\ posts \in 0 .. MaxPosts
                    /\ waits \in 0 .. MaxWaits
                    /\ abandoned \in Nat
                    /\ pc \in [Task -> Labels]

\* A task is off the run queue only inside schedule(), and then asleep; one that
\* is about to call schedule() has been woken or is in the state it chose.
SleepInv == \A t \in Task : /\ ~onrq[t] => pc[t] = "relock" /\ state[t] # RUNNING
                            /\ pc[t] = "schedule" => state[t] \in {RUNNING, SleepState(t)}

\* A wait is abandoned at most once, when it ends.
AbandonedInv == abandoned + Cardinality(Queued) <= waits

IInv == CompletionTypeOK /\ EntriesMatchWaiters /\ SleepInv /\ AbandonedInv /\ UnitsHaveTakers

Takers == {t \in Queued : Awake(t)}

\* Nobody who was awake, or was not waiting, sleeps now.
NoNewSleeper == \A u \in Queued' : ~Awake(u)' => u \in Queued /\ ~Awake(u)

\* Tasks are finitely many.
LEMMA FiniteTasks ==
  /\ IsFiniteSet(Queued) /\ IsFiniteSet(Takers) /\ IsFiniteSet(Queued') /\ IsFiniteSet(Takers')
  /\ Cardinality(Queued) \in Nat /\ Cardinality(Takers) \in Nat
  /\ Cardinality(Queued') \in Nat /\ Cardinality(Takers') \in Nat
  <1>1. IsFiniteSet(Queued) /\ IsFiniteSet(Takers) /\ IsFiniteSet(Queued') /\ IsFiniteSet(Takers')
    BY TaskAssumption, FS_Subset, Zenon DEF Queued, Takers
  <1> QED
    BY <1>1, FS_CardinalityType, Zenon

-----------------------------------------------------------------------------
(* Units and takers.                                                       *)

\* No unit more, no sleeper more and no taker less.
LEMMA TakersKept ==
  ASSUME UnitsHaveTakers, done \in Nat, done' \in Nat, done' <= done,
         abandoned \in Nat, abandoned' = abandoned, NoNewSleeper, Takers \subseteq Takers'
  PROVE  UnitsHaveTakers'
  <1>1. Cardinality(Takers) <= Cardinality(Takers')
    BY FiniteTasks, FS_Subset, Zenon
  <1>2. (\E u \in Queued' : ~Awake(u)') => done <= Cardinality(Takers) + abandoned
    BY Zenon DEF UnitsHaveTakers, NoNewSleeper, Takers
  <1>3. (\E u \in Queued' : ~Awake(u)') => done' <= Cardinality(Takers') + abandoned'
    BY <1>1, <1>2, FiniteTasks
  <1> QED
    BY <1>3, Zenon DEF UnitsHaveTakers, Takers

\* One unit more, and one taker more for it.
LEMMA TakerAdded ==
  ASSUME UnitsHaveTakers, done \in Nat, done' \in Nat, done' <= done + 1,
         abandoned \in Nat, abandoned' = abandoned, NoNewSleeper, Takers \subseteq Takers',
         NEW v \in Takers' \ Takers
  PROVE  UnitsHaveTakers'
  <1>1. Cardinality(Takers \union {v}) = Cardinality(Takers) + 1
    BY FiniteTasks, FS_AddElement, Zenon
  <1>2. Takers \union {v} \subseteq Takers'
    BY Zenon
  <1>3. Cardinality(Takers \union {v}) <= Cardinality(Takers')
    BY <1>2, FiniteTasks, FS_Subset, Zenon
  <1>4. (\E u \in Queued' : ~Awake(u)') => done <= Cardinality(Takers) + abandoned
    BY Zenon DEF UnitsHaveTakers, NoNewSleeper, Takers
  <1>5. (\E u \in Queued' : ~Awake(u)') => done' <= Cardinality(Takers') + abandoned'
    BY <1>1, <1>3, <1>4, FiniteTasks
  <1> QED
    BY <1>5, Zenon DEF UnitsHaveTakers, Takers

\* A taker leaves: with a unit, or without the unit it was woken for.
LEMMA TakerLeaves ==
  ASSUME UnitsHaveTakers, done \in Nat, done' \in Nat, abandoned \in Nat, abandoned' \in Nat,
         done' + abandoned + 1 = done + abandoned', NoNewSleeper,
         NEW t \in Takers, Takers \ {t} \subseteq Takers'
  PROVE  UnitsHaveTakers'
  <1>1. Cardinality(Takers \ {t}) = Cardinality(Takers) - 1
    BY FiniteTasks, FS_RemoveElement
  <1>2. Cardinality(Takers \ {t}) <= Cardinality(Takers')
    BY FiniteTasks, FS_Subset, Zenon
  <1>3. (\E u \in Queued' : ~Awake(u)') => done <= Cardinality(Takers) + abandoned
    BY Zenon DEF UnitsHaveTakers, NoNewSleeper, Takers
  <1>4. ASSUME done <= Cardinality(Takers) + abandoned
        PROVE  done' <= Cardinality(Takers') + abandoned'
    <2>1. Cardinality(Takers) \in Nat /\ Cardinality(Takers') \in Nat /\ Cardinality(Takers) - 1 <= Cardinality(Takers')
      BY <1>1, <1>2, FiniteTasks, Zenon
    <2> QED
      BY <1>4, <2>1
  <1> QED
    BY <1>3, <1>4, Zenon DEF UnitsHaveTakers, Takers

\* Without units nothing is asked for.
LEMMA NoUnits ==
  ASSUME done' = 0, abandoned' \in Nat
  PROVE  UnitsHaveTakers'
  <1>1. done' <= Cardinality(Takers') + abandoned'
    BY FiniteTasks
  <1> QED
    BY <1>1, Zenon DEF UnitsHaveTakers, Takers

\* A step that changes neither who is queued nor how many waits there were.
LEMMA AbandonedKept ==
  ASSUME AbandonedInv, abandoned \in Nat, waits \in Nat, waits' \in Nat,
         abandoned' = abandoned, waits <= waits', Queued' = Queued
  PROVE  AbandonedInv'
  BY FiniteTasks DEF AbandonedInv

\* t is in no wait any more.
LEMMA Leaving ==
  ASSUME AbandonedInv, abandoned \in Nat, abandoned' \in Nat, waits \in Nat, waits' = waits,
         abandoned' <= abandoned + 1, NEW t \in Queued, Queued' = Queued \ {t}
  PROVE  AbandonedInv'
  <1>1. Cardinality(Queued') = Cardinality(Queued) - 1
    BY FiniteTasks, FS_RemoveElement, Zenon
  <1> QED
    BY <1>1, FiniteTasks DEF AbandonedInv

\* x->done += n never gives more than the sum.
LEMMA AddedDone ==
  ASSUME done \in 0 .. UINT_MAX, NEW n \in 0 .. UINT_MAX, AddDone(n)
  PROVE  done' \in 0 .. UINT_MAX /\ done' <= done + n
  <1>0. UINT_MAX \in Nat
    BY UintAssumption
  <1>1. CASE done + n <= UINT_MAX
    <2>1. (done + n) % (UINT_MAX + 1) = done + n
      BY <1>0, <1>1
    <2> QED
      BY <1>0, <1>1, <2>1 DEF AddDone
  <1>2. CASE ~(done + n <= UINT_MAX)
    <2>1. (done + n) % (UINT_MAX + 1) \in 0 .. UINT_MAX
      BY <1>0
    <2> QED
      BY <1>0, <1>2, <2>1 DEF AddDone
  <1> QED
    BY <1>1, <1>2, Zenon

-----------------------------------------------------------------------------
(* What a step of one task does.                                           *)

\* t moves to l, and nobody else does.
LEMMA Going ==
  ASSUME CompletionTypeOK, NEW t \in Task, NEW l \in Labels, Goto(t, l)
  PROVE  /\ pc' \in [Task -> Labels] /\ pc'[t] = l
         /\ \A u \in Task \ {t} : pc'[u] = pc[u]
  BY Zenon DEF CompletionTypeOK, Goto

\* A step of t that leaves the others and their wake-ups alone.
Alone(t) == \A u \in Task \ {t} : /\ pc'[u] = pc[u] /\ state'[u] = state[u] /\ onrq'[u] = onrq[u]
                                  /\ sigpending'[u] = sigpending[u]

\* Then the others are as awake and as asleep as before.
LEMMA OthersKept ==
  ASSUME NEW t \in Task, Alone(t), SleepInv
  PROVE  \A u \in Task \ {t} :
           /\ u \in Queued' <=> u \in Queued
           /\ Awake(u)' <=> Awake(u)
           /\ ~onrq'[u] => pc'[u] = "relock" /\ state'[u] # RUNNING
           /\ pc'[u] = "schedule" => state'[u] \in {RUNNING, SleepState(u)}
  BY Zenon DEF Alone, Queued, Awake, Interrupted, SleepInv

\* A waiter whose wait ends is on the run queue, and so awake.
LEMMA WaitEnds ==
  ASSUME CompletionTypeOK, EntriesMatchWaiters, SleepInv, NEW t \in Task, At(t, "relock"), Goto(t, "out"),
         wait' = Without(wait, t), UNCHANGED <<sigpending, sched_vars>>
  PROVE  /\ SleepInv' /\ EntriesMatchWaiters' /\ wait' \in Seq(Task) /\ Distinct(wait')
         /\ pc' \in [Task -> Labels] /\ NoNewSleeper
         /\ t \in Takers /\ Takers' = Takers \ {t} /\ t \in Queued /\ Queued' = Queued \ {t}
  <1>1. pc' \in [Task -> Labels] /\ pc'[t] = "out" /\ \A u \in Task \ {t} : pc'[u] = pc[u]
    BY Going, Zenon DEF Labels
  <1>2. Alone(t) /\ onrq'[t] /\ pc[t] = "relock"
    BY <1>1, Zenon DEF Alone, sched_vars, At
  <1>3. t \in Takers /\ t \in Queued
    BY <1>2, Zenon DEF Takers, Queued, Awake, At
  <1>4. Queued' = Queued \ {t} /\ t \notin Queued'
    BY <1>1, <1>3, Zenon DEF Queued
  <1>5. Takers' = Takers \ {t} /\ NoNewSleeper
    BY <1>2, <1>4, OthersKept, Zenon DEF Takers, NoNewSleeper, Queued
  <1>6. SleepInv'
    BY <1>1, <1>2, OthersKept, Zenon DEF SleepInv
  <1>7. /\ wait' \in Seq(Task) /\ Distinct(wait') /\ Elements(wait') = Elements(wait) \ {t}
    BY <1>3, ListDel, Zenon DEF CompletionTypeOK, EntriesMatchWaiters
  <1>8. EntriesMatchWaiters'
    BY <1>4, <1>7, Zenon DEF EntriesMatchWaiters
  <1> QED
    BY <1>1, <1>3, <1>4, <1>5, <1>6, <1>7, <1>8, Zenon

\* A step that moves nobody between inside and outside of a wait.
LEMMA QueueKept ==
  ASSUME EntriesMatchWaiters, wait' = wait, \A u \in Task : pc'[u] = "out" <=> pc[u] = "out"
  PROVE  EntriesMatchWaiters' /\ Queued' = Queued
  <1>1. Queued' = Queued
    BY Zenon DEF Queued
  <1> QED
    BY <1>1, Zenon DEF EntriesMatchWaiters

\* A step that wakes some tasks, in which case they are on the run queue, and gives
\* signals to some.
LEMMA Waking ==
  ASSUME CompletionTypeOK, SleepInv, EntriesMatchWaiters, UNCHANGED <<wait, pc>>,
         \A u \in Task : \/ state'[u] = state[u] /\ onrq'[u] = onrq[u]
                         \/ state'[u] = RUNNING /\ onrq'[u],
         \A u \in Task : sigpending[u] => sigpending'[u]
  PROVE  SleepInv' /\ NoNewSleeper /\ Takers \subseteq Takers' /\ EntriesMatchWaiters' /\ Queued' = Queued
  <1>1. EntriesMatchWaiters' /\ Queued' = Queued
    BY QueueKept, Zenon
  <1>2. ASSUME NEW u \in Task, Awake(u) PROVE Awake(u)'
    BY <1>2, Zenon DEF Awake, Interrupted
  <1>3. NoNewSleeper /\ Takers \subseteq Takers'
    BY <1>1, <1>2, Zenon DEF NoNewSleeper, Takers, Queued
  <1>4. ASSUME NEW u \in Task
        PROVE  /\ ~onrq'[u] => pc'[u] = "relock" /\ state'[u] # RUNNING
               /\ pc'[u] = "schedule" => state'[u] \in {RUNNING, SleepState(u)}
    BY Zenon DEF SleepInv
  <1> QED
    BY <1>1, <1>3, <1>4, Zenon DEF SleepInv

-----------------------------------------------------------------------------
(* The steps.                                                              *)

\* init_completion() establishes the invariant.
LEMMA InitInv == Init => IInv
  <1> SUFFICES ASSUME Init PROVE IInv
    OBVIOUS
  <1>1. SchedTypeOK /\ pc \in [Task -> Labels] /\ expired \in [Task -> BOOLEAN] /\ sigpending \in [Task -> BOOLEAN]
    BY Zenon DEF Init, SchedInit, SchedTypeOK, TaskStates, Labels
  <1>2. wait \in Seq(Task) /\ Distinct(wait) /\ Elements(wait) = {}
    BY DEF Init, Distinct, Elements
  <1>3. CompletionTypeOK
    BY <1>1, <1>2, UintAssumption DEF Init, CompletionTypeOK
  <1>4. Queued = {}
    BY Zenon DEF Init, Queued
  <1>5. SleepInv
    BY Zenon DEF Init, SchedInit, SleepInv
  <1>6. AbandonedInv
    BY <1>4, FS_EmptySet DEF AbandonedInv, Init
  <1> QED
    BY <1>2, <1>3, <1>4, <1>5, <1>6, Zenon DEF IInv, EntriesMatchWaiters, UnitsHaveTakers

\* complete() adds a unit and ends somebody's sleep, or finds nobody asleep and sends
\* everybody who was about to sleep back to look.
LEMMA CompleteInv ==
  ASSUME IInv, complete
  PROVE  IInv'
  <1> USE DEF IInv
  <1>1. wake_up(wait, Task) /\ UNCHANGED <<wait, expired, sigpending, waits, abandoned, pc>>
    BY Zenon DEF complete, wake_up
  <1>2. /\ SchedTypeOK'
        /\ \A u \in Task : \/ state'[u] = state[u] /\ onrq'[u] = onrq[u]
                           \/ /\ u \in Elements(wait) /\ state[u] \in SleepStates
                              /\ state'[u] = RUNNING /\ onrq'[u]
    BY <1>1, WakeUpEffect, Zenon DEF CompletionTypeOK
  <1>3. SleepInv' /\ NoNewSleeper /\ Takers \subseteq Takers' /\ EntriesMatchWaiters' /\ Queued' = Queued
    BY <1>1, <1>2, Waking, Zenon
  <1>4. posts' \in 0 .. MaxPosts
    BY UintAssumption DEF complete, CompletionTypeOK
  <1>5. done' \in 0 .. UINT_MAX /\ done' <= done + 1
    <2>1. CASE UINT_MAX = 0
      BY <2>1 DEF complete, AddDone, CompletionTypeOK
    <2>2. CASE UINT_MAX # 0
      <3>1. 1 \in 0 .. UINT_MAX
        BY <2>2, UintAssumption
      <3> QED
        BY <3>1, AddedDone, Zenon DEF complete, CompletionTypeOK
    <2> QED
      BY <2>1, <2>2, Zenon
  <1>6. CompletionTypeOK'
    BY <1>1, <1>2, <1>4, <1>5, Zenon DEF CompletionTypeOK
  <1>7. AbandonedInv'
    BY <1>1, <1>3, UintAssumption, AbandonedKept DEF CompletionTypeOK
  <1>8. UnitsHaveTakers'
    <2>1. CASE \E u \in Queued : ~onrq[u]
      <3>1. PICK u \in Queued : ~onrq[u]
        BY <2>1, Zenon
      <3>2. u \in Elements(wait) /\ u \in Task /\ state[u] # RUNNING
        BY <3>1, Zenon DEF EntriesMatchWaiters, Queued, SleepInv
      <3>3. WakeSucceeds(u, SleepStates)
        BY <3>1, <3>2 DEF WakeSucceeds, CompletionTypeOK, SchedTypeOK, TaskStates, SleepStates
      <3>4. PICK v \in Elements(wait) : ~onrq[v] /\ onrq'[v] /\ state'[v] = RUNNING
        BY <1>1, <3>2, <3>3, WakeUpWakesOne, Zenon DEF CompletionTypeOK
      <3>5. v \in Queued' /\ v \in Task /\ pc'[v] = "relock" /\ ~Awake(v)
        BY <1>1, <1>3, <3>4, Zenon DEF EntriesMatchWaiters, Queued, SleepInv, Awake
      <3>6. v \in Takers' /\ v \notin Takers
        BY <3>4, <3>5, Zenon DEF Takers, Awake
      <3>7. done \in Nat /\ done' \in Nat
        BY <1>5, UintAssumption DEF CompletionTypeOK
      <3> QED
        BY <1>1, <1>3, <1>5, <3>6, <3>7, TakerAdded, Zenon DEF CompletionTypeOK
    <2>2. CASE \A u \in Queued : onrq[u]
      <3>1. ASSUME NEW u \in Queued' PROVE Awake(u)'
        <4>1. u \in Elements(wait) /\ u \in Task /\ onrq[u] /\ pc'[u] \in Labels /\ pc'[u] # "out"
          BY <1>3, <1>6, <2>2, <3>1, Zenon DEF EntriesMatchWaiters, Queued, CompletionTypeOK
        <4>2. \A v \in Elements(wait) : ~(v \in Task /\ WakeSucceeds(v, SleepStates))
          BY <2>2, Zenon DEF EntriesMatchWaiters, WakeSucceeds
        <4>3. state'[u] = RUNNING
          BY <1>1, <4>1, <4>2, WakeUpWakesAll, Zenon DEF CompletionTypeOK
        <4>4. onrq'[u]
          BY <1>2, <4>1, Zenon
        <4> QED
          BY <4>1, <4>3, <4>4, Zenon DEF Awake, Labels
      <3> QED
        BY <3>1, Zenon DEF UnitsHaveTakers
    <2> QED
      BY <2>1, <2>2, Zenon
  <1> QED
    BY <1>3, <1>6, <1>7, <1>8, Zenon

\* complete_all() leaves nobody asleep.
LEMMA Complete_allInv ==
  ASSUME IInv, complete_all
  PROVE  IInv'
  <1> USE DEF IInv
  <1> DEFINE woken == Woken(wait, Task, 0, SleepStates)
  <1>1. WakeAll(woken) /\ UNCHANGED <<wait, expired, sigpending, waits, abandoned, pc>>
    BY Zenon DEF complete_all, wake_up_common
  <1>2. woken = {t \in Queued : state[t] \in SleepStates}
    <2>1. \A x : x \in woken <=> \E i \in DOMAIN wait : wait[i] = x /\ state[wait[i]] \in SleepStates
      BY Zenon DEF Woken, Reached
    <2>2. \A x : x \in Queued <=> \E i \in DOMAIN wait : wait[i] = x
      BY Zenon DEF EntriesMatchWaiters, Elements
    <2> QED
      BY <2>1, <2>2, Zenon
  <1> HIDE DEF woken
  <1>3. SchedTypeOK'
    <2>1. state' \in [Task -> TaskStates]
      BY <1>1 DEF WakeAll, CompletionTypeOK, SchedTypeOK, TaskStates
    <2>2. onrq' \in [Task -> BOOLEAN]
      BY <1>1, Zenon DEF WakeAll
    <2> QED
      BY <2>1, <2>2, Zenon DEF SchedTypeOK
  <1>4. ASSUME NEW u \in Task
        PROVE  \/ u \notin woken /\ state'[u] = state[u] /\ onrq'[u] = onrq[u]
               \/ u \in woken /\ state'[u] = RUNNING /\ onrq'[u]
    <2>1. onrq[u] \in BOOLEAN
      BY Zenon DEF CompletionTypeOK, SchedTypeOK
    <2> QED
      BY <1>1, <2>1, Zenon DEF WakeAll
  <1>5. SleepInv' /\ NoNewSleeper /\ Takers \subseteq Takers' /\ EntriesMatchWaiters' /\ Queued' = Queued
    BY <1>1, <1>4, Waking, Zenon
  <1>6. posts' \in 0 .. MaxPosts
    BY UintAssumption DEF complete_all, CompletionTypeOK
  <1>7. done' \in 0 .. UINT_MAX
    <2>1. UINT_MAX \div 2 \in 0 .. UINT_MAX
      BY UintAssumption
    <2> QED
      BY <2>1, AddedDone, Zenon DEF complete_all, CompletionTypeOK
  <1>8. CompletionTypeOK'
    BY <1>1, <1>3, <1>6, <1>7, Zenon DEF CompletionTypeOK
  <1>9. AbandonedInv'
    BY <1>1, <1>5, UintAssumption, AbandonedKept DEF CompletionTypeOK
  <1>10. ASSUME NEW u \in Queued' PROVE Awake(u)'
    <2>1. u \in Queued /\ u \in Task /\ pc'[u] \in Labels /\ pc'[u] # "out"
      BY <1>5, <1>8, Zenon DEF Queued, CompletionTypeOK
    <2>2. state[u] \in SleepStates \/ state[u] = RUNNING
      BY <2>1, Zenon DEF CompletionTypeOK, SchedTypeOK, TaskStates, SleepStates
    <2>3. state'[u] = RUNNING /\ onrq'[u]
      BY <1>2, <1>4, <2>1, <2>2, Zenon DEF SleepInv
    <2> QED
      BY <2>1, <2>3, Zenon DEF Awake, Labels
  <1>11. UnitsHaveTakers'
    BY <1>10, Zenon DEF UnitsHaveTakers
  <1> QED
    BY <1>5, <1>8, <1>9, <1>11, Zenon

\* A call that finds a unit takes it and does not wait.
LEMMA WaitTakeInv ==
  ASSUME IInv, NEW t \in Task, WaitTake(t)
  PROVE  IInv'
  <1> USE DEF IInv
  <1>1. UNCHANGED <<wait, expired, sigpending, posts, abandoned, pc, sched_vars>>
    BY Zenon DEF WaitTake
  <1>2. /\ done' \in 0 .. UINT_MAX /\ done \in Nat /\ done' \in Nat /\ done' <= done
        /\ waits' \in 0 .. MaxWaits /\ waits \in Nat /\ waits' \in Nat /\ waits <= waits'
    BY UintAssumption DEF WaitTake, CompletionTypeOK
  <1>3. SleepInv' /\ NoNewSleeper /\ Takers \subseteq Takers' /\ EntriesMatchWaiters' /\ Queued' = Queued
    BY <1>1, Waking, Zenon DEF sched_vars
  <1>4. CompletionTypeOK'
    BY <1>1, <1>2, Zenon DEF CompletionTypeOK, SchedTypeOK, sched_vars
  <1>5. AbandonedInv'
    BY <1>1, <1>2, <1>3, AbandonedKept, Zenon DEF CompletionTypeOK
  <1>6. UnitsHaveTakers'
    BY <1>1, <1>2, <1>3, TakersKept, Zenon DEF CompletionTypeOK
  <1> QED
    BY <1>3, <1>4, <1>5, <1>6, Zenon

\* A waiter queues while there is no unit.
LEMMA WaitQueueUpInv ==
  ASSUME IInv, NEW t \in Task, WaitQueueUp(t)
  PROVE  IInv'
  <1> USE DEF IInv
  <1>1. /\ pc' \in [Task -> Labels] /\ pc'[t] = "schedule" /\ pc[t] = "out" /\ onrq[t]
        /\ \A u \in Task \ {t} : pc'[u] = pc[u]
    BY Going, Zenon DEF WaitQueueUp, At, Labels
  <1>2. SleepState(t) \in TaskStates
    BY Zenon DEF SleepState, TaskStates
  <1>3. /\ SchedTypeOK' /\ onrq' = onrq /\ state'[t] = SleepState(t)
        /\ \A u \in Task \ {t} : state'[u] = state[u]
    BY <1>2, Zenon DEF WaitQueueUp, set_task_state, CompletionTypeOK, SchedTypeOK
  <1>4. Alone(t) /\ UNCHANGED <<done, sigpending, posts, abandoned>> /\ expired' \in [Task -> BOOLEAN]
    BY <1>1, <1>3, Zenon DEF Alone, WaitQueueUp, CompletionTypeOK
  <1>5. t \notin Queued /\ Queued' = Queued \union {t}
    BY <1>1, Zenon DEF Queued
  <1>6. wait' \in Seq(Task) /\ Distinct(wait') /\ Elements(wait') = Elements(wait) \union {t}
    <2>1. wait' = Append(wait, t) /\ wait \in Seq(Task) /\ Distinct(wait) /\ t \notin Elements(wait)
      BY <1>5, Zenon DEF WaitQueueUp, CompletionTypeOK, EntriesMatchWaiters
    <2> QED
      BY <2>1, ListAddTail
  <1>7. waits' \in 0 .. MaxWaits /\ waits \in Nat /\ waits' = waits + 1
    BY UintAssumption DEF WaitQueueUp, CompletionTypeOK
  <1>8. CompletionTypeOK'
    BY <1>1, <1>3, <1>4, <1>6, <1>7, Zenon DEF CompletionTypeOK
  <1>9. EntriesMatchWaiters'
    BY <1>5, <1>6, Zenon DEF EntriesMatchWaiters
  <1>10. SleepInv'
    BY <1>1, <1>3, <1>4, OthersKept, Zenon DEF SleepInv
  <1>11. AbandonedInv'
    <2>1. Cardinality(Queued') = Cardinality(Queued) + 1
      BY <1>5, FiniteTasks, FS_AddElement, Zenon
    <2> QED
      BY <1>4, <1>7, <2>1, FiniteTasks DEF AbandonedInv, CompletionTypeOK
  <1>12. UnitsHaveTakers'
    BY <1>4, NoUnits, Zenon DEF WaitQueueUp, CompletionTypeOK
  <1> QED
    BY <1>8, <1>9, <1>10, <1>11, <1>12, Zenon

\* schedule() puts only those to sleep who were not awake.
LEMMA WaitScheduleInv ==
  ASSUME IInv, NEW t \in Task, WaitSchedule(t)
  PROVE  IInv'
  <1> USE DEF IInv
  <1>1. /\ pc' \in [Task -> Labels] /\ pc'[t] = "relock" /\ pc[t] = "schedule" /\ onrq[t]
        /\ \A u \in Task \ {t} : pc'[u] = pc[u]
    BY Going, Zenon DEF WaitSchedule, At, Labels
  <1>2. UNCHANGED <<done, wait, expired, sigpending, posts, waits, abandoned>> /\ schedule(t, sigpending[t])
    BY Zenon DEF WaitSchedule
  <1>3. SchedTypeOK'
    BY <1>2, SchedTypes, Zenon DEF CompletionTypeOK, TaskStates
  <1>4. /\ \A u \in Task \ {t} : state'[u] = state[u] /\ onrq'[u] = onrq[u]
        /\ onrq'[t] \/ state'[t] # RUNNING
        /\ Awake(t) => onrq'[t]
    <2>1. state[t] \in {RUNNING, SleepState(t)} /\ state[t] \in TaskStates
      BY <1>1, Zenon DEF SleepInv, CompletionTypeOK, SchedTypeOK
    <2>2. CASE state[t] = INTERRUPTIBLE /\ sigpending[t]
      <3>1. state' = [state EXCEPT ![t] = RUNNING] /\ onrq' = onrq
        BY <1>2, <2>2, Zenon DEF schedule, set_task_state
      <3> QED
        BY <1>1, <3>1, Zenon DEF CompletionTypeOK, SchedTypeOK
    <2>3. CASE ~(state[t] = INTERRUPTIBLE /\ sigpending[t])
      <3>1. onrq' = [onrq EXCEPT ![t] = (state[t] = RUNNING)] /\ state' = state
        BY <1>2, <2>3, Zenon DEF schedule
      <3>2. onrq'[t] <=> state[t] = RUNNING
        BY <3>1, Zenon DEF CompletionTypeOK, SchedTypeOK
      <3>3. Awake(t) => state[t] = RUNNING
        BY <1>1, <2>1, <2>3, Zenon DEF Awake, Interrupted, SleepState
      <3> QED
        BY <3>1, <3>2, <3>3, Zenon DEF CompletionTypeOK, SchedTypeOK
    <2> QED
      BY <2>2, <2>3, Zenon
  <1>5. Alone(t)
    BY <1>1, <1>2, <1>4, Zenon DEF Alone
  <1>6. CompletionTypeOK'
    BY <1>1, <1>2, <1>3, Zenon DEF CompletionTypeOK
  <1>7. EntriesMatchWaiters' /\ Queued' = Queued
    BY <1>1, <1>2, QueueKept, Zenon
  <1>8. SleepInv'
    BY <1>1, <1>4, <1>5, OthersKept, Zenon DEF SleepInv
  <1>9. Awake(t) => Awake(t)'
    BY <1>1, <1>4, Zenon DEF Awake
  <1>10. NoNewSleeper /\ Takers \subseteq Takers'
    BY <1>5, <1>7, <1>9, OthersKept, Zenon DEF NoNewSleeper, Takers, Queued
  <1>11. AbandonedInv'
    BY <1>2, <1>7, UintAssumption, AbandonedKept DEF CompletionTypeOK
  <1>12. UnitsHaveTakers'
    BY <1>2, <1>10, UintAssumption, TakersKept DEF CompletionTypeOK
  <1> QED
    BY <1>6, <1>7, <1>8, <1>11, <1>12, Zenon

\* A waiter that finds no unit declares itself asleep again.
LEMMA WaitAgainInv ==
  ASSUME IInv, NEW t \in Task, WaitAgain(t)
  PROVE  IInv'
  <1> USE DEF IInv
  <1>1. /\ pc' \in [Task -> Labels] /\ pc'[t] = "schedule" /\ pc[t] = "relock" /\ onrq[t]
        /\ \A u \in Task \ {t} : pc'[u] = pc[u]
    BY Going, Zenon DEF WaitAgain, At, Labels
  <1>2. SleepState(t) \in TaskStates
    BY Zenon DEF SleepState, TaskStates
  <1>3. /\ SchedTypeOK' /\ onrq' = onrq /\ state'[t] = SleepState(t)
        /\ \A u \in Task \ {t} : state'[u] = state[u]
    BY <1>2, Zenon DEF WaitAgain, set_task_state, CompletionTypeOK, SchedTypeOK
  <1>4. Alone(t) /\ UNCHANGED <<done, wait, expired, sigpending, posts, waits, abandoned>>
    BY <1>1, <1>3, Zenon DEF Alone, WaitAgain
  <1>5. CompletionTypeOK'
    BY <1>1, <1>3, <1>4, Zenon DEF CompletionTypeOK
  <1>6. EntriesMatchWaiters' /\ Queued' = Queued
    BY <1>1, <1>4, QueueKept, Zenon
  <1>7. SleepInv'
    BY <1>1, <1>3, <1>4, OthersKept, Zenon DEF SleepInv
  <1>8. AbandonedInv'
    BY <1>4, <1>6, UintAssumption, AbandonedKept DEF CompletionTypeOK
  <1>9. UnitsHaveTakers'
    BY <1>4, NoUnits, Zenon DEF WaitAgain, CompletionTypeOK
  <1> QED
    BY <1>5, <1>6, <1>7, <1>8, <1>9, Zenon

\* A wait that times out ends without a unit, and without passing it on.
LEMMA WaitTimedOutInv ==
  ASSUME IInv, NEW t \in Task, WaitTimedOut(t)
  PROVE  IInv'
  <1> USE DEF IInv
  <1>1. UNCHANGED <<done, expired, sigpending, posts, waits, sched_vars>>
    BY Zenon DEF WaitTimedOut
  <1>2. /\ SleepInv' /\ EntriesMatchWaiters' /\ wait' \in Seq(Task) /\ Distinct(wait')
        /\ pc' \in [Task -> Labels] /\ NoNewSleeper
        /\ t \in Takers /\ Takers' = Takers \ {t} /\ t \in Queued /\ Queued' = Queued \ {t}
    BY WaitEnds, Zenon DEF WaitTimedOut
  <1>3. /\ done \in Nat /\ waits \in Nat /\ abandoned \in Nat
        /\ abandoned' \in Nat /\ abandoned' <= abandoned + 1
        /\ done # 0 => abandoned' = abandoned + 1
    BY UintAssumption DEF WaitTimedOut, CompletionTypeOK
  <1>4. CompletionTypeOK'
    BY <1>1, <1>2, <1>3, Zenon DEF CompletionTypeOK, SchedTypeOK, sched_vars
  <1>5. AbandonedInv'
    BY <1>1, <1>2, <1>3, Leaving, Zenon
  <1>6. UnitsHaveTakers'
    <2>1. CASE done = 0
      BY <1>1, <1>3, <2>1, NoUnits, Zenon
    <2>2. CASE done # 0
      <3>1. done' \in Nat /\ done' + abandoned + 1 = done + abandoned' /\ Takers \ {t} \subseteq Takers'
        BY <1>1, <1>2, <1>3, <2>2
      <3> QED
        BY <1>2, <1>3, <3>1, TakerLeaves, Zenon
    <2> QED
      BY <2>1, <2>2, Zenon
  <1> QED
    BY <1>2, <1>4, <1>5, <1>6, Zenon

\* A wait is interrupted only when there is no unit to take.
LEMMA WaitInterruptedInv ==
  ASSUME IInv, NEW t \in Task, WaitInterrupted(t)
  PROVE  IInv'
  <1> USE DEF IInv
  <1>1. UNCHANGED <<done, expired, sigpending, posts, waits, abandoned, sched_vars>> /\ done = 0
    BY Zenon DEF WaitInterrupted
  <1>2. /\ SleepInv' /\ EntriesMatchWaiters' /\ wait' \in Seq(Task) /\ Distinct(wait')
        /\ pc' \in [Task -> Labels] /\ NoNewSleeper
        /\ t \in Takers /\ Takers' = Takers \ {t} /\ t \in Queued /\ Queued' = Queued \ {t}
    BY WaitEnds, Zenon DEF WaitInterrupted
  <1>3. waits \in Nat /\ abandoned \in Nat /\ abandoned' \in Nat /\ abandoned' <= abandoned + 1
    BY <1>1, UintAssumption DEF CompletionTypeOK
  <1>4. CompletionTypeOK'
    BY <1>1, <1>2, Zenon DEF CompletionTypeOK, SchedTypeOK, sched_vars
  <1>5. AbandonedInv'
    BY <1>1, <1>2, <1>3, Leaving, Zenon
  <1>6. UnitsHaveTakers'
    BY <1>1, <1>3, NoUnits, Zenon
  <1> QED
    BY <1>2, <1>4, <1>5, <1>6, Zenon

\* A waiter leaves with a unit.
LEMMA WaitGotInv ==
  ASSUME IInv, NEW t \in Task, WaitGot(t)
  PROVE  IInv'
  <1> USE DEF IInv
  <1>1. UNCHANGED <<expired, sigpending, posts, waits, abandoned, sched_vars>>
    BY Zenon DEF WaitGot
  <1>2. /\ SleepInv' /\ EntriesMatchWaiters' /\ wait' \in Seq(Task) /\ Distinct(wait')
        /\ pc' \in [Task -> Labels] /\ NoNewSleeper
        /\ t \in Takers /\ Takers' = Takers \ {t} /\ t \in Queued /\ Queued' = Queued \ {t}
    BY WaitEnds, Zenon DEF WaitGot
  <1>3. /\ done \in Nat /\ done' \in 0 .. UINT_MAX /\ done' \in Nat /\ done' + abandoned + 1 = done + abandoned'
        /\ waits \in Nat /\ abandoned \in Nat /\ abandoned' \in Nat /\ abandoned' <= abandoned + 1
    BY <1>1, UintAssumption DEF WaitGot, CompletionTypeOK
  <1>4. CompletionTypeOK'
    BY <1>1, <1>2, <1>3, Zenon DEF CompletionTypeOK, SchedTypeOK, sched_vars
  <1>5. AbandonedInv'
    BY <1>1, <1>2, <1>3, Leaving, Zenon
  <1>6. UnitsHaveTakers'
    BY <1>2, <1>3, TakerLeaves, Zenon
  <1> QED
    BY <1>2, <1>4, <1>5, <1>6, Zenon

\* A timer or a signal only wakes.
LEMMA WakingInv ==
  ASSUME IInv, NEW t \in Task, process_timeout(t) \/ signal_wake_up(t)
  PROVE  IInv'
  <1> USE DEF IInv
  <1>1. UNCHANGED <<done, wait, posts, waits, abandoned, pc>>
    BY Zenon DEF process_timeout, signal_wake_up
  <1>2. /\ expired' \in [Task -> BOOLEAN] /\ sigpending' \in [Task -> BOOLEAN]
        /\ \A u \in Task : sigpending[u] => sigpending'[u]
    BY Zenon DEF process_timeout, signal_wake_up, CompletionTypeOK
  <1>3. PICK mask : try_to_wake_up(t, mask)
    BY Zenon DEF process_timeout, signal_wake_up, wake_up_process
  <1>4. /\ SchedTypeOK' /\ (UNCHANGED sched_vars \/ (state'[t] = RUNNING /\ onrq'[t]))
        /\ \A u \in Task \ {t} : state'[u] = state[u] /\ onrq'[u] = onrq[u]
    BY <1>3, TryToWakeUpFacts, Zenon DEF CompletionTypeOK
  <1>5. SleepInv' /\ NoNewSleeper /\ Takers \subseteq Takers' /\ EntriesMatchWaiters' /\ Queued' = Queued
    BY <1>1, <1>2, <1>4, Waking, Zenon DEF sched_vars
  <1>6. CompletionTypeOK'
    BY <1>1, <1>2, <1>4, Zenon DEF CompletionTypeOK
  <1>7. AbandonedInv'
    BY <1>1, <1>5, UintAssumption, AbandonedKept DEF CompletionTypeOK
  <1>8. UnitsHaveTakers'
    BY <1>1, <1>5, UintAssumption, TakersKept DEF CompletionTypeOK
  <1> QED
    BY <1>5, <1>6, <1>7, <1>8, Zenon

\* Signals are handled outside of waits.
LEMMA SignalHandledInv ==
  ASSUME IInv, NEW t \in Task, SignalHandled(t)
  PROVE  IInv'
  <1> USE DEF IInv
  <1>1. UNCHANGED <<done, wait, expired, posts, waits, abandoned, pc, sched_vars>> /\ pc[t] = "out" /\ onrq[t]
    BY Zenon DEF SignalHandled, At
  <1>2. sigpending' \in [Task -> BOOLEAN] /\ \A u \in Task \ {t} : sigpending'[u] = sigpending[u]
    BY Zenon DEF SignalHandled, CompletionTypeOK
  <1>3. Alone(t) /\ t \notin Queued
    BY <1>1, <1>2, Zenon DEF Alone, sched_vars, Queued
  <1>4. EntriesMatchWaiters' /\ Queued' = Queued
    BY <1>1, QueueKept, Zenon
  <1>5. NoNewSleeper /\ Takers \subseteq Takers' /\ SleepInv'
    <2>1. NoNewSleeper /\ Takers \subseteq Takers'
      BY <1>3, <1>4, OthersKept, Zenon DEF NoNewSleeper, Takers, Queued
    <2>2. SleepInv'
      BY <1>1, <1>3, OthersKept, Zenon DEF SleepInv, sched_vars
    <2> QED
      BY <2>1, <2>2, Zenon
  <1>6. CompletionTypeOK'
    BY <1>1, <1>2, Zenon DEF CompletionTypeOK, SchedTypeOK, sched_vars
  <1>7. AbandonedInv'
    BY <1>1, <1>4, UintAssumption, AbandonedKept DEF CompletionTypeOK
  <1>8. UnitsHaveTakers'
    BY <1>1, <1>5, UintAssumption, TakersKept DEF CompletionTypeOK
  <1> QED
    BY <1>4, <1>5, <1>6, <1>7, <1>8, Zenon

-----------------------------------------------------------------------------
(* The theorems.                                                           *)

\* Every step keeps the invariant.
LEMMA NextInv == IInv /\ [Next]_vars => IInv'
  <1>1. ASSUME IInv, UNCHANGED vars PROVE IInv'
    <2>1. SleepInv' /\ EntriesMatchWaiters' /\ CompletionTypeOK'
      BY <1>1, Zenon DEF vars, completion_vars, sched_vars, IInv, SleepInv, EntriesMatchWaiters, Queued,
                         CompletionTypeOK, SchedTypeOK
    <2>2. AbandonedInv' /\ UnitsHaveTakers'
      BY <1>1, Zenon DEF vars, completion_vars, sched_vars, IInv, AbandonedInv, UnitsHaveTakers, Queued, Awake,
                         Interrupted
    <2> QED
      BY <2>1, <2>2, Zenon DEF IInv
  <1>2. ASSUME IInv, Next PROVE IInv'
    BY <1>2, CompleteInv, Complete_allInv, WaitTakeInv, WaitQueueUpInv, WaitScheduleInv, WaitTimedOutInv,
       WaitInterruptedInv, WaitAgainInv, WaitGotInv, WakingInv, SignalHandledInv, Zenon DEF Next, Progress
  <1> QED
    BY <1>1, <1>2, Zenon

\* The invariant holds in every behaviour of completers, waiters, timers and signals.
THEOREM Invariance == Spec => []IInv
  BY InitInv, NextInv, PTL DEF Spec

\* x->done keeps its width, and no wait is abandoned twice.
THEOREM TypeCorrect == Spec => []TypeOK
  <1>1. IInv => TypeOK
    <2> SUFFICES ASSUME IInv PROVE TypeOK
      OBVIOUS
    <2>1. abandoned \in 0 .. MaxWaits
      BY FiniteTasks, UintAssumption DEF IInv, CompletionTypeOK, AbandonedInv
    <2> QED
      BY <2>1, Zenon DEF IInv, CompletionTypeOK, TypeOK, Labels
  <1> QED
    BY <1>1, Invariance, PTL

\* While anybody sleeps in wait_for_completion*(), somebody is awake for each unit
\* of x->done, except for those that timed-out waiters were woken for.
THEOREM EveryUnitHasTaker == Spec => []UnitsHaveTakers
  <1>1. IInv => UnitsHaveTakers
    BY Zenon DEF IInv
  <1> QED
    BY <1>1, Invariance, PTL

\* The entries on x->wait, which live on the stacks of the waiters, are those of the
\* calls in progress: each way out of the four functions takes its own off.
THEOREM EntriesAreWaiters == Spec => []EntriesMatchWaiters
  <1>1. IInv => EntriesMatchWaiters
    BY Zenon DEF IInv
  <1> QED
    BY <1>1, Invariance, PTL

=============================================================================
