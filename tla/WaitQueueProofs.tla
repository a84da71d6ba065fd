-------------------------- MODULE WaitQueueProofs --------------------------
(***************************************************************************)
(* Facts that the proofs about the sleeping primitives share: what         *)
(* schedule() and wake_up_process() do to a task, what the list operations *)
(* do to the set of entries of a list, and whom wake_up() wakes.           *)
(***************************************************************************)
EXTENDS WaitQueue, WellFoundedInduction, TLAPS

-----------------------------------------------------------------------------
(* Sequences                                                               *)

\* The domain of a sequence, and that only the empty one has length 0.
LEMMA SeqFacts ==
  ASSUME NEW S, NEW s \in Seq(S)
  PROVE  /\ Len(s) \in Nat /\ DOMAIN s = 1 .. Len(s) /\ s \in [1 .. Len(s) -> S]
         /\ \A i \in 1 .. Len(s) : s[i] \in S
         /\ s = <<>> <=> Len(s) = 0
OBVIOUS

\* Sequences that agree at every place are the same.
LEMMA SeqsAgree ==
  ASSUME NEW S, NEW s \in Seq(S), NEW t \in Seq(S), Len(s) = Len(t),
         \A i \in 1 .. Len(s) : s[i] = t[i]
  PROVE  s = t
OBVIOUS

\* What list_add_tail() makes of a list, place by place.
LEMMA AppendIs ==
  ASSUME NEW S, NEW s \in Seq(S), NEW e \in S
  PROVE  /\ Append(s, e) \in Seq(S) /\ Len(Append(s, e)) = Len(s) + 1
         /\ Append(s, e)[Len(s) + 1] = e
         /\ \A i \in 1 .. Len(s) : Append(s, e)[i] = s[i]
OBVIOUS

\* One list spliced behind another, place by place.
LEMMA ConcatIs ==
  ASSUME NEW S, NEW s \in Seq(S), NEW t \in Seq(S)
  PROVE  /\ s \o t \in Seq(S) /\ Len(s \o t) = Len(s) + Len(t)
         /\ \A i \in 1 .. Len(s) + Len(t) : (s \o t)[i] = IF i <= Len(s) THEN s[i] ELSE t[i - Len(s)]
OBVIOUS

-----------------------------------------------------------------------------
(* schedule() and try_to_wake_up()                                         *)

\* schedule() and set_task_state() keep the types of the scheduler's variables.
LEMMA SchedTypes ==
  ASSUME SchedTypeOK, NEW t \in Task, NEW s \in TaskStates, NEW sig \in BOOLEAN,
         schedule(t, sig) \/ set_task_state(t, s)
  PROVE  SchedTypeOK'
  BY ZenonT(30) DEF SchedTypeOK, schedule, set_task_state, RUNNING, TaskStates

\* try_to_wake_up(p) either does nothing or leaves p TASK_RUNNING on the run queue.
LEMMA TryToWakeUpFacts ==
  ASSUME SchedTypeOK, NEW p \in Task, NEW mask, try_to_wake_up(p, mask)
  PROVE  /\ SchedTypeOK'
         /\ UNCHANGED sched_vars \/ (state'[p] = RUNNING /\ onrq'[p])
         /\ \A u \in Task \ {p} : state'[u] = state[u] /\ onrq'[u] = onrq[u]
  <1>1. CASE state[p] \in mask
    BY <1>1, ZenonT(30) DEF SchedTypeOK, TaskStates, RUNNING, try_to_wake_up
  <1>2. CASE state[p] \notin mask
    BY <1>2 DEF SchedTypeOK, try_to_wake_up, sched_vars
  <1> QED
    BY <1>1, <1>2

\* After wake_up_process(p) the task p is TASK_RUNNING and on the run queue, and
\* no other task is touched, provided no task is off the run queue while
\* TASK_RUNNING.
LEMMA WakeUpFacts ==
  ASSUME SchedTypeOK, NEW p \in Task, wake_up_process(p),
         ~onrq[p] => state[p] # RUNNING
  PROVE  /\ SchedTypeOK'
         /\ state'[p] = RUNNING /\ onrq'[p]
         /\ \A u \in Task \ {p} : state'[u] = state[u] /\ onrq'[u] = onrq[u]
  <1> USE DEF SchedTypeOK, TaskStates, SleepStates, RUNNING, INTERRUPTIBLE, UNINTERRUPTIBLE,
              wake_up_process, try_to_wake_up, sched_vars
  <1>1. CASE state[p] \in SleepStates
    BY <1>1, ZenonT(30)
  <1>2. CASE state[p] \notin SleepStates
    <2>1. state[p] = RUNNING /\ onrq[p] /\ UNCHANGED sched_vars
      BY <1>2
    <2> QED
      BY <2>1
  <1> QED
    BY <1>1, <1>2

-----------------------------------------------------------------------------
(* struct list_head                                                        *)

\* list_empty() and the first entry.
LEMMA ListHead ==
  ASSUME NEW S, NEW s \in Seq(S)
  PROVE  /\ Elements(s) \subseteq S
         /\ s = <<>> <=> Elements(s) = {}
         /\ s # <<>> => Head(s) = s[1] /\ Head(s) \in Elements(s)
  <1>1. DOMAIN s = 1 .. Len(s) /\ Len(s) \in Nat /\ \A i \in 1 .. Len(s) : s[i] \in S
    BY SeqFacts
  <1>2. CASE s = <<>>
    BY <1>2 DEF Elements
  <1>3. CASE s # <<>>
    <2>1. 1 \in DOMAIN s
      BY <1>1, <1>3, SeqFacts
    <2>2. Head(s) = s[1]
      BY <1>3
    <2> QED
      BY <1>1, <1>3, <2>1, <2>2, ZenonT(30) DEF Elements
  <1> QED
    BY <1>2, <1>3

\* list_add_tail() adds one entry and, if it was not on the list, no duplicate.
LEMMA ListAddTail ==
  ASSUME NEW S, NEW s \in Seq(S), NEW e \in S
  PROVE  /\ Append(s, e) \in Seq(S)
         /\ Append(s, e) # <<>>
         /\ Elements(Append(s, e)) = Elements(s) \union {e}
         /\ Distinct(s) /\ e \notin Elements(s) => Distinct(Append(s, e))
  <1> DEFINE r == Append(s, e)
  <1>1. /\ r \in Seq(S) /\ Len(r) = Len(s) + 1 /\ DOMAIN s = 1 .. Len(s) /\ Len(s) \in Nat
        /\ DOMAIN r = 1 .. Len(s) + 1
        /\ \A i \in 1 .. Len(s) : r[i] = s[i]
        /\ r[Len(s) + 1] = e
    BY SeqFacts, AppendIs
  <1>2. r # <<>>
    BY <1>1, SeqFacts
  <1> HIDE DEF r
  <1>3. DOMAIN r = DOMAIN s \union {Len(s) + 1}
    BY <1>1
  <1>4. Elements(r) = Elements(s) \union {e}
    BY <1>1, <1>3 DEF Elements
  <1>5. ASSUME Distinct(s), e \notin Elements(s) PROVE Distinct(r)
    <2> SUFFICES ASSUME NEW i \in DOMAIN r, NEW j \in DOMAIN r, r[i] = r[j] PROVE i = j
      BY DEF Distinct
    <2> QED
      BY <1>1, <1>3, <1>5 DEF Distinct, Elements
  <1> QED
    BY <1>1, <1>2, <1>4, <1>5 DEF r

\* list_del() of an entry removes that entry and nothing else.
LEMMA ListDel ==
  ASSUME NEW S, NEW s \in Seq(S), Distinct(s), NEW e \in Elements(s)
  PROVE  /\ Without(s, e) \in Seq(S)
         /\ Elements(Without(s, e)) = Elements(s) \ {e}
         /\ Distinct(Without(s, e))
  <1> DEFINE p == Position(s, e)
             a == SubSeq(s, 1, p - 1)
             b == SubSeq(s, p + 1, Len(s))
             r == a \o b
  <1>1. DOMAIN s = 1 .. Len(s) /\ Len(s) \in Nat /\ \A i \in 1 .. Len(s) : s[i] \in S
    BY SeqFacts
  <1>2. p \in 1 .. Len(s) /\ s[p] = e
    BY <1>1 DEF Elements, Position
  <1> HIDE DEF p
  <1>3. /\ a \in Seq(S) /\ Len(a) = p - 1
        /\ \A i \in 1 .. p - 1 : a[i] = s[i]
    <2>1. \A i \in 1 .. p - 1 : s[i] \in S
      BY <1>1, <1>2
    <2>2. /\ a \in Seq(S) /\ Len(a) = IF 1 <= p - 1 THEN p - 1 - 1 + 1 ELSE 0
          /\ \A i \in 1 .. p - 1 - 1 + 1 : a[i] = s[1 + i - 1]
      BY <1>1, <1>2, <2>1
    <2> QED
      BY <1>2, <2>2
  <1>4. /\ b \in Seq(S) /\ Len(b) = Len(s) - p
        /\ \A i \in 1 .. Len(s) - p : b[i] = s[p + i]
    <2>1. \A i \in p + 1 .. Len(s) : s[i] \in S
      BY <1>1, <1>2
    <2>2. /\ b \in Seq(S) /\ Len(b) = IF p + 1 <= Len(s) THEN Len(s) - (p + 1) + 1 ELSE 0
          /\ \A i \in 1 .. Len(s) - (p + 1) + 1 : b[i] = s[p + 1 + i - 1]
      BY <1>1, <1>2, <2>1
    <2> HIDE DEF b
    <2>3. Len(s) - (p + 1) + 1 = Len(s) - p /\ \A i \in Int : p + 1 + i - 1 = p + i
      BY <1>1, <1>2
    <2>4. Len(b) = Len(s) - p
      <3>1. CASE p + 1 <= Len(s)
        BY <1>1, <1>2, <2>2, <2>3, <3>1
      <3>2. CASE ~(p + 1 <= Len(s))
        <4>0. p \in Int /\ Len(s) \in Int /\ p <= Len(s)
          BY <1>1, <1>2
        <4>1. Len(s) - p = 0
          BY <4>0, <3>2
        <4> QED
          BY <2>2, <3>2, <4>1
      <3> QED
        BY <3>1, <3>2
    <2>5. ASSUME NEW i \in 1 .. Len(s) - p PROVE b[i] = s[p + i]
      <3>1. i \in 1 .. Len(s) - (p + 1) + 1 /\ p + 1 + i - 1 = p + i
        BY <1>1, <1>2, <2>3
      <3> QED
        BY <2>2, <3>1
    <2> QED
      BY <2>2, <2>4, <2>5
  <1> HIDE DEF a, b
  <1>5. /\ r \in Seq(S) /\ Len(r) = Len(a) + Len(b) /\ DOMAIN r = 1 .. Len(r)
        /\ \A i \in 1 .. Len(a) + Len(b) : r[i] = IF i <= Len(a) THEN a[i] ELSE b[i - Len(a)]
    BY <1>3, <1>4, ConcatIs, SeqFacts, ZenonT(30)
  <1> HIDE DEF r
  <1>6. DOMAIN r = 1 .. Len(s) - 1 /\ \A i \in 1 .. Len(s) - 1 : r[i] = IF i < p THEN s[i] ELSE s[i + 1]
    <2>1. Len(a) + Len(b) = Len(s) - 1
      BY <1>1, <1>2, <1>3, <1>4
    <2>2. ASSUME NEW i \in 1 .. Len(s) - 1 PROVE r[i] = IF i < p THEN s[i] ELSE s[i + 1]
      <3>1. CASE i < p
        <4>1. i \in 1 .. p - 1 /\ i <= Len(a)
          BY <3>1, <1>1, <1>2, <1>3
        <4> QED
          BY <4>1, <3>1, <2>1, <1>3, <1>5
      <3>2. CASE ~(i < p)
        <4>1. i - Len(a) \in 1 .. Len(s) - p /\ p + (i - Len(a)) = i + 1 /\ ~(i <= Len(a))
          BY <3>2, <1>1, <1>2, <1>3
        <4> QED
          BY <4>1, <3>2, <2>1, <1>4, <1>5
      <3> QED
        BY <3>1, <3>2
    <2> QED
      BY <2>1, <2>2, <1>5
  <1>7. Elements(r) \subseteq Elements(s) \ {e}
    <2> SUFFICES ASSUME NEW i \in 1 .. Len(s) - 1 PROVE r[i] \in Elements(s) /\ r[i] # e
      BY <1>6 DEF Elements
    <2> QED
      BY <1>1, <1>2, <1>6 DEF Elements, Distinct
  <1>8. Elements(s) \ {e} \subseteq Elements(r)
    <2> SUFFICES ASSUME NEW j \in 1 .. Len(s), s[j] # e PROVE s[j] \in Elements(r)
      BY <1>1 DEF Elements
    <2>1. CASE j < p
      BY <2>1, <1>1, <1>2, <1>6 DEF Elements
    <2>2. CASE j > p
      <3>1. j - 1 \in 1 .. Len(s) - 1 /\ ~(j - 1 < p) /\ (j - 1) + 1 = j
        BY <2>2, <1>1, <1>2
      <3>2. r[j - 1] = s[j]
        BY <3>1, <1>6
      <3> QED
        BY <3>1, <3>2, <1>6 DEF Elements
    <2> QED
      BY <2>1, <2>2, <1>1, <1>2
  <1>9. Distinct(r)
    <2> SUFFICES ASSUME NEW i \in 1 .. Len(s) - 1, NEW j \in 1 .. Len(s) - 1, r[i] = r[j] PROVE i = j
      BY <1>6 DEF Distinct
    <2> QED
      BY <1>1, <1>2, <1>6, SMTT(30) DEF Distinct
  <1> QED
    BY <1>5, <1>7, <1>8, <1>9 DEF Without, r, a, b, p

-----------------------------------------------------------------------------
(* __wake_up_common()                                                      *)

\* A non-empty set of natural numbers has a least one.
LEMMA Least ==
  ASSUME NEW T, T \subseteq Nat, T # {}
  PROVE  \E x \in T : \A y \in T : x <= y
  <1>1. PICK x \in T : \A y \in T : ~(<<y, x>> \in OpToRel(<, Nat))
    BY NatLessThanWellFounded, WFMin, Zenon
  <1>2. \A y \in T : ~(y < x)
    BY <1>1 DEF OpToRel
  <1> QED
    BY <1>2

\* wake_up() leaves a task alone, or makes it TASK_RUNNING and runnable; it does
\* so only to tasks on the queue that have declared themselves sleeping.
LEMMA WakeUpEffect ==
  ASSUME SchedTypeOK, NEW q, NEW exclusive, wake_up(q, exclusive)
  PROVE  /\ SchedTypeOK'
         /\ \A t \in Task : \/ state'[t] = state[t] /\ onrq'[t] = onrq[t]
                            \/ /\ t \in Elements(q) /\ state[t] \in SleepStates
                               /\ state'[t] = RUNNING /\ onrq'[t]
  <1> DEFINE woken == Woken(q, exclusive, 1, SleepStates)
  <1>1. /\ state' = [t \in Task |-> IF t \in woken THEN RUNNING ELSE state[t]]
        /\ onrq' = [t \in Task |-> t \in woken \/ onrq[t]]
    BY DEF wake_up, wake_up_common, WakeAll
  <1>2. \A t \in woken : t \in Elements(q) /\ state[t] \in SleepStates
    BY DEF Woken, Elements
  <1> HIDE DEF woken
  <1>3. state' \in [Task -> TaskStates]
    BY <1>1 DEF SchedTypeOK, TaskStates
  <1>4. onrq' \in [Task -> BOOLEAN]
    BY <1>1, Zenon DEF SchedTypeOK
  <1>5. ASSUME NEW t \in Task
        PROVE  \/ state'[t] = state[t] /\ onrq'[t] = onrq[t]
               \/ /\ t \in Elements(q) /\ state[t] \in SleepStates
                  /\ state'[t] = RUNNING /\ onrq'[t]
    <2>1. CASE t \in woken
      BY <1>1, <1>2, <2>1, Zenon
    <2>2. CASE t \notin woken
      <3>1. onrq[t] \in BOOLEAN
        BY DEF SchedTypeOK
      <3> QED
        BY <1>1, <2>2, <3>1, Zenon
    <2> QED
      BY <2>1, <2>2
  <1> QED
    BY <1>3, <1>4, <1>5 DEF SchedTypeOK

\* No waiter counts for none.
LEMMA CardinalityOfNone == Cardinality({}) = 0
  <1> DEFINE Def(f) == [T \in SUBSET {} |-> IF T = {} THEN 0
                                            ELSE 1 + f[T \ {CHOOSE x : x \in T}]]
             zero == [T \in SUBSET {} |-> 0]
             CS == CHOOSE f : f = Def(f)
  <1>1. zero = Def(zero)
    OBVIOUS
  <1>2. CS = Def(CS)
    <2> HIDE DEF Def
    <2> QED
      BY <1>1, Zenon
  <1>3. CS[{}] = 0
    <2>1. CS[{}] = Def(CS)[{}]
      BY <1>2, Zenon
    <2> HIDE DEF CS
    <2> QED
      BY <2>1
  <1> QED
    BY <1>3, Zenon DEF Cardinality

\* A scan that has come past no exclusive sleeper goes on: it reaches entry i.
LEMMA ScanReaches ==
  ASSUME NEW q, NEW exclusive, NEW i \in Nat \ {0},
         \A j \in 1 .. i - 1 : ~(q[j] \in exclusive /\ WakeSucceeds(q[j], SleepStates))
  PROVE  Reached(q, exclusive, 1, i, SleepStates)
  <1>1. {j \in 1 .. i - 1 : q[j] \in exclusive /\ WakeSucceeds(q[j], SleepStates)} = {}
    OBVIOUS
  <1>2. ExclusiveWoken(q, exclusive, i - 1, SleepStates) = 0
    BY <1>1, CardinalityOfNone DEF ExclusiveWoken
  <1> QED
    BY <1>2 DEF Reached

\* wake_up() ends the sleep of somebody if anybody on the queue is asleep.
LEMMA WakeUpWakesOne ==
  ASSUME SchedTypeOK, NEW q \in Seq(Task), NEW exclusive, wake_up(q, exclusive),
         NEW u \in Elements(q), WakeSucceeds(u, SleepStates)
  PROVE  \E v \in Elements(q) : ~onrq[v] /\ onrq'[v] /\ state'[v] = RUNNING
  <1> DEFINE S == {j \in DOMAIN q : WakeSucceeds(q[j], SleepStates)}
  <1>1. DOMAIN q = 1 .. Len(q) /\ Len(q) \in Nat /\ \A j \in 1 .. Len(q) : q[j] \in Task
    BY SeqFacts
  <1>2. S \subseteq Nat /\ S # {}
    BY <1>1 DEF Elements
  <1>3. PICK i \in S : \A j \in S : i <= j
    BY <1>2, Least
  <1>4. i \in DOMAIN q /\ WakeSucceeds(q[i], SleepStates) /\ i \in Nat \ {0}
    BY <1>1, <1>3
  <1>5. \A j \in 1 .. i - 1 : ~WakeSucceeds(q[j], SleepStates)
    <2> SUFFICES ASSUME NEW j \in 1 .. i - 1, WakeSucceeds(q[j], SleepStates) PROVE FALSE
      OBVIOUS
    <2>1. j \in S /\ ~(i <= j)
      BY <1>1, <1>4
    <2> QED
      BY <1>3, <2>1
  <1>6. Reached(q, exclusive, 1, i, SleepStates)
    BY <1>4, <1>5, ScanReaches
  <1>7. q[i] \in Woken(q, exclusive, 1, SleepStates)
    BY <1>4, <1>6 DEF Woken, WakeSucceeds
  <1>8. q[i] \in Task /\ q[i] \in Elements(q)
    BY <1>1, <1>4 DEF Elements
  <1>9. onrq'[q[i]] /\ state'[q[i]] = RUNNING
    BY <1>7, <1>8 DEF wake_up, wake_up_common, WakeAll
  <1> QED
    BY <1>4, <1>8, <1>9 DEF WakeSucceeds

\* If no exclusive waiter is asleep, wake_up() makes every task on the queue
\* TASK_RUNNING, also those that are only about to sleep.
LEMMA WakeUpWakesAll ==
  ASSUME SchedTypeOK, NEW q \in Seq(Task), NEW exclusive, wake_up(q, exclusive),
         \A u \in Elements(q) : ~(u \in exclusive /\ WakeSucceeds(u, SleepStates)),
         NEW t \in Elements(q)
  PROVE  state'[t] = RUNNING
  <1>1. DOMAIN q = 1 .. Len(q) /\ Len(q) \in Nat /\ \A j \in 1 .. Len(q) : q[j] \in Task
    BY SeqFacts
  <1>2. PICK i \in 1 .. Len(q) : q[i] = t
    BY <1>1 DEF Elements
  <1>3. \A j \in 1 .. i - 1 : q[j] \in Elements(q)
    BY <1>1, <1>2 DEF Elements
  <1>4. Reached(q, exclusive, 1, i, SleepStates)
    BY <1>2, <1>3, ScanReaches
  <1>5. t \in Task /\ state[t] \in TaskStates
    BY <1>1, <1>2 DEF SchedTypeOK
  <1>6. CASE state[t] \in SleepStates
    <2>1. t \in Woken(q, exclusive, 1, SleepStates)
      BY <1>1, <1>2, <1>4, <1>6 DEF Woken
    <2> QED
      BY <2>1, <1>5 DEF wake_up, wake_up_common, WakeAll
  <1>7. CASE state[t] = RUNNING
    BY <1>5, <1>7, WakeUpEffect
  <1> QED
    BY <1>5, <1>6, <1>7 DEF TaskStates, SleepStates

=============================================================================
