-------------------------- MODULE WorkqueueProofs --------------------------
(***************************************************************************)
(* Proofs about Workqueue, for any number of users and works, for both     *)
(* kinds of workqueue, with and without functions that flush their queue.  *)
(***************************************************************************)
EXTENDS Workqueue, TLAPS

-----------------------------------------------------------------------------
(* The inductive invariant.                                                *)

LabelInv == /\ pc[Worker] \in WorkerLabels
            /\ \A t \in User : pc[t] \in UserLabels

\* Where a user is says what it does, and with what kind of work.
FnInv ==
  \A t \in User :
    /\ fn[t] = "none" <=> pc[t] = "out"
    /\ pc[t] \in {"add", "arm"} => fn[t] = "queue"
    /\ pc[t] \in {"cancel", "clear"} => fn[t] \in {"cancel", "cancel_rearming"}
    /\ pc[t] \in {"flush_mutex", "flush", "flush_schedule", "flush_again"} =>
         fn[t] \in {"flush", "cancel_rearming", "destroy"}
    /\ pc[t] \in {"cleanup", "stop_store", "stop_wake", "stop_wait"} => fn[t] = "destroy"
    /\ fn[t] = "cancel_rearming" => arg[t] \in Rearming
    /\ fn[t] \in {"queue", "cancel"} => arg[t] \notin Rearming

UserClaims(t, w) == pc[t] \in {"add", "arm", "clear"} /\ arg[t] = w

WorkerClaims(w) == pc[Worker] = "clear_pending" /\ Top.work = w

\* A work is on the list at most once.
OnceInv == \A i, j \in DOMAIN worklist : worklist[i].work = worklist[j].work => i = j

\* The pending bit of w is set while some party has a claim on w, and no two have.
OneClaim(w) ==
  /\ pending[w] <=> (\E t \in User : UserClaims(t, w)) \/ Queued(w) \/ timer[w] \/ WorkerClaims(w)
  /\ \A t, u \in User : UserClaims(t, w) /\ UserClaims(u, w) => t = u
  /\ \A t \in User : UserClaims(t, w) => ~Queued(w) /\ ~timer[w] /\ ~WorkerClaims(w)
  /\ Queued(w) => ~timer[w] /\ ~WorkerClaims(w)
  /\ timer[w] => ~WorkerClaims(w)

ClaimInv == \A w \in Work : OneClaim(w)

\* Nobody but its own function claims a work that rearms itself.
KillInv == /\ \A w \in killed : ~pending[w] /\ (pc[Worker] = "func" => Top.work # w)
           /\ pc[Worker] = "func" /\ Top.work \in Rearming => ~pending[Top.work]

\* The stack of run_workqueue() calls.
RunInv == /\ Len(running) <= MaxDepth /\ (~NESTED => Len(running) <= 1)
          /\ pc[Worker] \in {"clear_pending", "func", "func_mutex", "func_end"} => running # <<>>
          /\ pc[Worker] = "func_mutex" => NESTED /\ Len(running) < MaxDepth
          /\ pc[Worker] = "run" => Len(running) < MaxDepth /\ (~NESTED => running = <<>>)
          /\ pc[Worker] \notin {"clear_pending", "func", "func_mutex", "func_end", "run"} => running = <<>>

\* How many works have been inserted since insert_sequence was seq.
Age(seq) == (insert_sequence - seq) % Width

\* The entries carry consecutive numbers, up to insert_sequence.
SeqInv == /\ SequencesCountWork
          /\ \A i \in DOMAIN worklist : Age(worklist[i].seq) = Len(worklist) - i + 1
          /\ ~NESTED => \A i \in DOMAIN running : Age(running[i].seq) = Len(worklist) + 1

\* A flusher is not overtaken by half of the sequence numbers, and the one that
\* destroys the queue is not overtaken at all.
NeededInv ==
  \A t \in User : pc[t] \in {"flush_schedule", "flush_again"} =>
    /\ Age(needed[t]) < Width \div 2
    /\ fn[t] = "destroy" => needed[t] = insert_sequence

\* A flusher that sleeps, or has declared that it will, is on work_done and has
\* something to wait for.
FlusherInv ==
  \A t \in User :
    /\ ~onrq[t] => pc[t] = "flush_again" /\ state[t] # RUNNING
    /\ state[t] # RUNNING => /\ pc[t] \in {"flush_schedule", "flush_again"}
                             /\ t \in work_done /\ Ahead(needed[t], remove_sequence)

\* The worker that sleeps, or is about to, has seen the list empty and is on
\* more_work; if it is to stop, it will be woken.
WorkerInv ==
  /\ ~onrq[Worker] => pc[Worker] = "remove_wait" /\ state[Worker] # RUNNING
  /\ state[Worker] # RUNNING => pc[Worker] \in {"should_stop", "add_wait", "test", "schedule"} \/ ~onrq[Worker]
  /\ more_work <=> pc[Worker] \in {"test", "schedule", "remove_wait"}
  /\ state[Worker] # RUNNING /\ pc[Worker] \in {"schedule", "remove_wait"} => worklist = <<>>
  /\ stop /\ state[Worker] # RUNNING /\ pc[Worker] # "should_stop" => \E t \in User : pc[t] = "stop_wake"

\* While the queue is being destroyed nothing is added to it, and once the
\* destroyer has flushed it, it is empty.
DestroyInv ==
  /\ live => ~stop /\ pc[Worker] # "exited" /\ \A t \in User : fn[t] # "destroy"
  /\ ~live => /\ Rearming \subseteq killed /\ \A w \in Work : ~timer[w]
              /\ \A t \in User : fn[t] \in {"none", "destroy"}
              /\ \A t, u \in User : fn[t] = "destroy" /\ fn[u] = "destroy" => t = u
              /\ pc[Worker] = "exited" \/ \E t \in User : fn[t] = "destroy"
  /\ \A t \in User : pc[t] \in {"cleanup", "stop_store", "stop_wake", "stop_wait"} =>
       worklist = <<>> /\ running = <<>>
  /\ pc[Worker] = "exited" => worklist = <<>> /\ running = <<>>
  /\ stop => \E t \in User : pc[t] \in {"stop_wake", "stop_wait"}

IInv == /\ TypeOK /\ LabelInv /\ FnInv /\ OnceInv /\ ClaimInv /\ KillInv /\ RunInv
        /\ SeqInv /\ NeededInv /\ FlusherInv /\ WorkerInv /\ DestroyInv

\* What follows from it because there are not too many works.
Bounded == Len(worklist) + Len(running) < Width \div 2

-----------------------------------------------------------------------------
(* Sequence numbers.                                                       *)

\* Differences and increments of numbers of finite width, spelled out.
LEMMA Wrapping ==
  ASSUME NEW a \in 0 .. Width - 1, NEW b \in 0 .. Width - 1
  PROVE  /\ (a - b) % Width = IF a >= b THEN a - b ELSE a - b + Width
         /\ Incremented(a) = IF a = Width - 1 THEN 0 ELSE a + 1
         /\ Incremented(a) \in 0 .. Width - 1
  <1>0. Width \in Nat \ {0}
    BY WorkqueueAssumption, Zenon
  <1> HIDE DEF Incremented
  <1>1. ASSUME NEW x \in 0 .. Width - 1 PROVE x % Width = x
    BY <1>0
  <1>2. ASSUME NEW x \in Int, -Width <= x, x < 0 PROVE x % Width = x + Width
    BY <1>0, <1>2
  <1>3. Width % Width = 0
    BY <1>0
  <1>4. (a - b) % Width = IF a >= b THEN a - b ELSE a - b + Width
    <2>1. CASE a >= b
      <3>1. a - b \in 0 .. Width - 1
        BY <1>0, <2>1
      <3> QED
        BY <1>1, <2>1, <3>1, Zenon
    <2>2. CASE ~(a >= b)
      <3>1. a - b \in Int /\ -Width <= a - b /\ a - b < 0
        BY <1>0, <2>2
      <3> QED
        BY <1>2, <2>2, <3>1, Zenon
    <2> QED
      BY <2>1, <2>2, Zenon
  <1>5. Incremented(a) = IF a = Width - 1 THEN 0 ELSE a + 1
    <2>1. CASE a = Width - 1
      <3>1. a + 1 = Width
        BY <1>0, <2>1
      <3> QED
        BY <1>3, <2>1, <3>1, Zenon DEF Incremented
    <2>2. CASE a # Width - 1
      <3>1. a + 1 \in 0 .. Width - 1
        BY <1>0, <2>2
      <3> QED
        BY <1>1, <2>2, <3>1, Zenon DEF Incremented
    <2> QED
      BY <2>1, <2>2, Zenon
  <1> QED
    BY <1>0, <1>4, <1>5

\* An insertion makes everything that was inserted before one older.
LEMMA Ageing ==
  ASSUME NEW a \in 0 .. Width - 1, NEW b \in 0 .. Width - 1
  PROVE  /\ (a - b) % Width \in 0 .. Width - 1
         /\ (a - b) % Width < Width - 1 => (Incremented(a) - b) % Width = ((a - b) % Width) + 1
         /\ (Incremented(a) - a) % Width = 1
         /\ (a - a) % Width = 0
  <1>0. Width \in Nat /\ Width > 1
    BY WorkqueueAssumption
  <1>1. Incremented(a) \in 0 .. Width - 1 /\ Incremented(a) = IF a = Width - 1 THEN 0 ELSE a + 1
    BY Wrapping, Zenon
  <1>2. \A x, y \in 0 .. Width - 1 : (x - y) % Width = IF x >= y THEN x - y ELSE x - y + Width
    BY Wrapping, Zenon
  <1> QED
    BY <1>0, <1>1, <1>2

\* A removal brings remove_sequence one nearer to insert_sequence.
LEMMA Closing ==
  ASSUME NEW a \in 0 .. Width - 1, NEW b \in 0 .. Width - 1, (a - b) % Width > 0
  PROVE  (a - Incremented(b)) % Width = ((a - b) % Width) - 1
  <1>0. Width \in Nat
    BY WorkqueueAssumption, Zenon
  <1>1. Incremented(b) \in 0 .. Width - 1 /\ Incremented(b) = IF b = Width - 1 THEN 0 ELSE b + 1
    BY Wrapping, Zenon
  <1>2. \A x, y \in 0 .. Width - 1 : (x - y) % Width = IF x >= y THEN x - y ELSE x - y + Width
    BY Wrapping, Zenon
  <1> QED
    BY <1>0, <1>1, <1>2

\* "a - b > 0" compares two numbers by the insertions since each of them, provided
\* both are less than half of the numbers.
LEMMA Comparing ==
  ASSUME NEW c \in 0 .. Width - 1, NEW a \in 0 .. Width - 1, NEW b \in 0 .. Width - 1,
         (c - a) % Width < Width \div 2, (c - b) % Width < Width \div 2
  PROVE  Ahead(a, b) <=> (c - b) % Width > (c - a) % Width
  <1>0. Width \in Nat
    BY WorkqueueAssumption, Zenon
  <1>2. \A x, y \in 0 .. Width - 1 : (x - y) % Width = IF x >= y THEN x - y ELSE x - y + Width
    BY Wrapping, Zenon
  <1> QED
    BY <1>0, <1>2 DEF Ahead

-----------------------------------------------------------------------------
(* The lists.                                                              *)

\* list_add_tail() of a work.
LEMMA ListInsert ==
  ASSUME worklist \in Seq(Entry), NEW w \in Work, NEW n \in 0 .. Width - 1,
         worklist' = Append(worklist, [work |-> w, seq |-> n])
  PROVE  /\ worklist' \in Seq(Entry) /\ worklist' # <<>>
         /\ Len(worklist) \in Nat /\ Len(worklist') = Len(worklist) + 1
         /\ DOMAIN worklist = 1 .. Len(worklist) /\ DOMAIN worklist' = 1 .. Len(worklist) + 1
         /\ \A i \in 1 .. Len(worklist) : worklist'[i] = worklist[i]
         /\ worklist'[Len(worklist) + 1] = [work |-> w, seq |-> n]
         /\ \A x \in Work : Queued(x)' <=> Queued(x) \/ x = w
  <1> DEFINE e == [work |-> w, seq |-> n]
  <1>1. e \in Entry /\ e.work = w
    BY Zenon DEF Entry
  <1> HIDE DEF e
  <1>2. worklist' = Append(worklist, e)
    BY Zenon DEF e
  <1>3. /\ worklist' \in Seq(Entry)
        /\ Len(worklist) \in Nat /\ Len(worklist') = Len(worklist) + 1
        /\ DOMAIN worklist = 1 .. Len(worklist) /\ DOMAIN worklist' = 1 .. Len(worklist) + 1
        /\ \A i \in 1 .. Len(worklist) : worklist'[i] = worklist[i]
        /\ worklist'[Len(worklist) + 1] = e
    BY <1>1, <1>2
  <1>4. worklist' # <<>>
    BY <1>3
  <1>5. \A x \in Work : Queued(x)' <=> Queued(x) \/ x = w
    BY <1>1, <1>3 DEF Queued
  <1> QED
    BY <1>3, <1>4, <1>5, Zenon DEF e

\* list_del_init() of the first work.
LEMMA ListTake ==
  ASSUME worklist \in Seq(Entry), worklist # <<>>, worklist' = Tail(worklist)
  PROVE  /\ worklist' \in Seq(Entry) /\ Head(worklist) = worklist[1] /\ Head(worklist) \in Entry
         /\ Len(worklist) \in Nat \ {0} /\ Len(worklist') = Len(worklist) - 1
         /\ DOMAIN worklist = 1 .. Len(worklist) /\ DOMAIN worklist' = 1 .. Len(worklist) - 1
         /\ \A i \in 1 .. Len(worklist) - 1 : worklist'[i] = worklist[i + 1]
         /\ OnceInv => \A x \in Work : Queued(x)' <=> Queued(x) /\ x # Head(worklist).work
  <1>1. /\ worklist' \in Seq(Entry) /\ Head(worklist) = worklist[1] /\ Head(worklist) \in Entry
        /\ Len(worklist) \in Nat \ {0} /\ Len(worklist') = Len(worklist) - 1
        /\ DOMAIN worklist = 1 .. Len(worklist) /\ DOMAIN worklist' = 1 .. Len(worklist) - 1
        /\ \A i \in 1 .. Len(worklist) - 1 : worklist'[i] = worklist[i + 1]
    OBVIOUS
  <1>2. ASSUME OnceInv, NEW x \in Work PROVE Queued(x)' <=> Queued(x) /\ x # Head(worklist).work
    <2>1. ASSUME Queued(x)' PROVE Queued(x) /\ x # Head(worklist).work
      <3>1. PICK i \in 1 .. Len(worklist) - 1 : worklist'[i].work = x
        BY <1>1, <2>1, Zenon DEF Queued
      <3>2. i + 1 \in 1 .. Len(worklist) /\ i + 1 # 1 /\ 1 \in 1 .. Len(worklist) /\ worklist[i + 1].work = x
        BY <1>1, <3>1
      <3> QED
        BY <1>1, <1>2, <3>2, Zenon DEF Queued, OnceInv
    <2>2. ASSUME Queued(x), x # Head(worklist).work PROVE Queued(x)'
      <3>1. PICK i \in 1 .. Len(worklist) : worklist[i].work = x
        BY <1>1, <2>2, Zenon DEF Queued
      <3>2. i - 1 \in 1 .. Len(worklist) - 1 /\ (i - 1) + 1 = i
        BY <1>1, <2>2, <3>1
      <3> QED
        BY <1>1, <3>1, <3>2, Zenon DEF Queued
    <2> QED
      BY <2>1, <2>2, Zenon
  <1> QED
    BY <1>1, <1>2, Zenon

\* What is left of the stack of entries when the innermost function is done.
LEMMA StackPop ==
  ASSUME running \in Seq(Entry), running # <<>>, NEW outer, outer = SubSeq(running, 1, Len(running) - 1)
  PROVE  outer \in Seq(Entry) /\ Len(running) \in Nat \ {0} /\ Len(outer) = Len(running) - 1
  <1>1. PICK n \in Nat : n = Len(running) - 1
    OBVIOUS
  <1>2. SubSeq(running, 1, n) \in Seq(Entry) /\ Len(SubSeq(running, 1, n)) = n
    BY <1>1
  <1>3. outer = SubSeq(running, 1, n) /\ Len(running) \in Nat /\ Len(running) = n + 1
    BY <1>1
  <1> QED
    BY <1>1, <1>2, <1>3

\* An entry that is to be run becomes the innermost.
LEMMA StackPush ==
  ASSUME NEW outer \in Seq(Entry), NEW e \in Entry, running' = Append(outer, e)
  PROVE  /\ running' \in Seq(Entry) /\ running' # <<>> /\ Top' = e
         /\ Len(outer) \in Nat /\ Len(running') = Len(outer) + 1
         /\ Len(outer) = 0 => DOMAIN running' = {1} /\ running'[1] = e
  <1>1. /\ running' \in Seq(Entry) /\ Len(outer) \in Nat /\ Len(running') = Len(outer) + 1
        /\ DOMAIN running' = 1 .. Len(outer) + 1 /\ running'[Len(outer) + 1] = e
    OBVIOUS
  <1>2. running' # <<>>
    BY <1>1
  <1>3. Len(outer) = 0 => DOMAIN running' = {1} /\ running'[1] = e
    BY <1>1
  <1> QED
    BY <1>1, <1>2, <1>3, Zenon DEF Top

\* The innermost entry.
LEMMA StackTop ==
  ASSUME running \in Seq(Entry), running # <<>>
  PROVE  Top \in Entry /\ Top.work \in Work
  <1>1. Len(running) \in 1 .. Len(running)
    OBVIOUS
  <1>2. Top \in Entry
    BY <1>1 DEF Top
  <1> QED
    BY <1>2, Zenon DEF Entry

-----------------------------------------------------------------------------
(* Wake-ups.                                                               *)

\* wake_up() of a queue without exclusive entries makes everybody on it
\* TASK_RUNNING and touches nobody else.
LEMMA WakeEntries ==
  ASSUME SchedTypeOK, NEW q, q \subseteq Task, wake_up_entries(q)
  PROVE  /\ SchedTypeOK'
         /\ \A t \in q : state'[t] = RUNNING /\ (onrq[t] \/ state[t] # RUNNING => onrq'[t])
         /\ \A t \in Task \ q : state'[t] = state[t] /\ onrq'[t] = onrq[t]
         /\ \A t \in Task : onrq[t] => onrq'[t]
  <1> DEFINE woken == {t \in q : state[t] \in SleepStates}
  <1>1. \A t \in Task : /\ state'[t] = (IF t \in woken THEN RUNNING ELSE state[t])
                        /\ onrq'[t] = (t \in woken \/ onrq[t])
    BY Zenon DEF wake_up_entries, WakeAll
  <1>2. state' \in [Task -> TaskStates]
    BY Zenon DEF wake_up_entries, WakeAll, SchedTypeOK, TaskStates
  <1>3. onrq' \in [Task -> BOOLEAN]
    BY Zenon DEF wake_up_entries, WakeAll, SchedTypeOK
  <1>4. \A t \in Task : /\ state[t] \in TaskStates /\ onrq[t] \in BOOLEAN
                        /\ t \in woken <=> t \in q /\ state[t] # RUNNING
    BY Zenon DEF SchedTypeOK, TaskStates, SleepStates, RUNNING, INTERRUPTIBLE, UNINTERRUPTIBLE
  <1> HIDE DEF woken
  <1>5. \A t \in q : state'[t] = RUNNING /\ (onrq[t] \/ state[t] # RUNNING => onrq'[t])
    BY <1>1, <1>4, Zenon
  <1>6. \A t \in Task \ q : state'[t] = state[t] /\ onrq'[t] = onrq[t]
    BY <1>1, <1>4, Zenon
  <1>7. \A t \in Task : onrq[t] => onrq'[t]
    BY <1>1, <1>4, Zenon
  <1> QED
    BY <1>2, <1>3, <1>5, <1>6, <1>7, Zenon DEF SchedTypeOK

-----------------------------------------------------------------------------
(* What leaves the parts of the invariant alone.                           *)

\* Works and sequence numbers a user's variables are reset to.
LEMMA Resets == SomeWork \in Work /\ 0 \in 0 .. Width - 1
  BY WorkqueueAssumption DEF SomeWork

\* A step of t leaves the variables of the others alone ...
UserMoves(t) ==
  /\ pc' \in [Task -> UserLabels \union WorkerLabels]
  /\ fn' \in [User -> {"none", "queue", "cancel", "cancel_rearming", "flush", "destroy"}]
  /\ arg' \in [User -> Work] /\ needed' \in [User -> 0 .. Width - 1]
  /\ pc'[Worker] = pc[Worker]
  /\ \A u \in User \ {t} : pc'[u] = pc[u] /\ fn'[u] = fn[u] /\ arg'[u] = arg[u] /\ needed'[u] = needed[u]

\* ... and so does a step of the worker.
WorkerMoves ==
  /\ pc' \in [Task -> UserLabels \union WorkerLabels] /\ UNCHANGED <<fn, arg, needed>>
  /\ \A u \in User : pc'[u] = pc[u]

\* set_current_state()
LEMMA SettingState ==
  ASSUME SchedTypeOK, NEW t \in Task, NEW s \in TaskStates, set_task_state(t, s)
  PROVE  SchedTypeOK' /\ state'[t] = s /\ UNCHANGED onrq /\ \A u \in Task \ {t} : state'[u] = state[u]
  <1>1. onrq' = onrq /\ state' = [state EXCEPT ![t] = s]
    BY Zenon DEF set_task_state
  <1> QED
    BY <1>1, Zenon DEF SchedTypeOK

\* schedule() of a task without a signal.
LEMMA Scheduling ==
  ASSUME SchedTypeOK, NEW t \in Task, schedule(t, FALSE)
  PROVE  /\ SchedTypeOK' /\ UNCHANGED state /\ onrq'[t] = (state[t] = RUNNING)
         /\ \A u \in Task \ {t} : onrq'[u] = onrq[u]
  <1>1. state' = state /\ onrq' = [onrq EXCEPT ![t] = (state[t] = RUNNING)]
    BY Zenon DEF schedule
  <1>2. onrq \in [Task -> BOOLEAN] /\ (state[t] = RUNNING) \in BOOLEAN
    BY Zenon DEF SchedTypeOK
  <1>3. /\ onrq' \in [Task -> BOOLEAN] /\ onrq'[t] = (state[t] = RUNNING)
        /\ \A u \in Task \ {t} : onrq'[u] = onrq[u]
    BY <1>1, <1>2, Zenon
  <1> QED
    BY <1>1, <1>3, Zenon DEF SchedTypeOK

\* wake_up_process()
LEMMA WakingProcess ==
  ASSUME SchedTypeOK, NEW p \in Task, wake_up_process(p)
  PROVE  /\ SchedTypeOK' /\ state'[p] = RUNNING /\ (onrq[p] \/ state[p] # RUNNING => onrq'[p])
         /\ \A u \in Task \ {p} : state'[u] = state[u] /\ onrq'[u] = onrq[u]
  <1>1. state[p] \in SleepStates \/ state[p] = RUNNING
    BY Zenon DEF SchedTypeOK, TaskStates, SleepStates
  <1>2. CASE state[p] \in SleepStates
    <2>1. state' = [state EXCEPT ![p] = RUNNING] /\ onrq' = [onrq EXCEPT ![p] = TRUE]
      BY <1>2, Zenon DEF wake_up_process, try_to_wake_up
    <2>2. onrq' \in [Task -> BOOLEAN] /\ onrq'[p] /\ \A u \in Task \ {p} : onrq'[u] = onrq[u]
      BY <2>1, Zenon DEF SchedTypeOK
    <2>3. state' \in [Task -> TaskStates] /\ state'[p] = RUNNING /\ \A u \in Task \ {p} : state'[u] = state[u]
      BY <2>1, Zenon DEF SchedTypeOK, TaskStates
    <2> QED
      BY <2>2, <2>3, Zenon DEF SchedTypeOK
  <1>3. CASE state[p] = RUNNING
    <2>1. RUNNING \notin SleepStates
      BY Zenon DEF RUNNING, INTERRUPTIBLE, UNINTERRUPTIBLE, SleepStates
    <2>2. state' = state /\ onrq' = onrq
      BY <1>3, <2>1, Zenon DEF wake_up_process, try_to_wake_up, sched_vars
    <2> QED
      BY <1>3, <2>2, Zenon DEF SchedTypeOK
  <1> QED
    BY <1>1, <1>2, <1>3, Zenon

\* A user calls a function,
LEMMA Beginning ==
  ASSUME TypeOK, NEW t \in User, NEW f \in {"queue", "cancel", "cancel_rearming", "flush", "destroy"},
         NEW w \in Work, Begin(t, f, w), NEW l \in UserLabels, Goto(t, l)
  PROVE  /\ UserMoves(t) /\ pc[t] = "out" /\ live
         /\ pc'[t] = l /\ fn'[t] = f /\ arg'[t] = w /\ needed' = needed
  <1>1. /\ pc[t] = "out" /\ live /\ needed' = needed /\ t \in Task /\ t # Worker
        /\ needed' \in [User -> 0 .. Width - 1]
    BY Zenon DEF TypeOK, Begin, At, User
  <1>2. /\ fn' \in [User -> {"none", "queue", "cancel", "cancel_rearming", "flush", "destroy"}]
        /\ arg' \in [User -> Work] /\ fn'[t] = f /\ arg'[t] = w
        /\ \A u \in User \ {t} : fn'[u] = fn[u] /\ arg'[u] = arg[u]
    BY Zenon DEF TypeOK, Begin
  <1>3. /\ pc' \in [Task -> UserLabels \union WorkerLabels] /\ pc'[t] = l
        /\ \A u \in Task \ {t} : pc'[u] = pc[u]
    BY <1>1, Zenon DEF TypeOK, Goto
  <1> QED
    BY <1>1, <1>2, <1>3, WorkqueueAssumption, Zenon DEF UserMoves, User

\* goes on in it,
LEMMA Going ==
  ASSUME TypeOK, NEW t \in User, NEW l \in UserLabels, Goto(t, l), UNCHANGED user_vars
  PROVE  UserMoves(t) /\ pc'[t] = l /\ UNCHANGED <<fn, arg, needed>>
  <1>1. UNCHANGED <<fn, arg, needed>> /\ t \in Task /\ t # Worker
    BY Zenon DEF user_vars, User
  <1>2. /\ pc' \in [Task -> UserLabels \union WorkerLabels] /\ pc'[t] = l
        /\ \A u \in Task \ {t} : pc'[u] = pc[u]
    BY <1>1, Zenon DEF TypeOK, Goto
  <1> QED
    BY <1>1, <1>2, WorkqueueAssumption, Zenon DEF UserMoves, TypeOK, User

\* and returns from it.
LEMMA Returning ==
  ASSUME TypeOK, NEW t \in User, Return(t)
  PROVE  UserMoves(t) /\ pc'[t] = "out" /\ fn'[t] = "none"
  <1>1. fn' \in [User -> {"none", "queue", "cancel", "cancel_rearming", "flush", "destroy"}]
    BY Zenon DEF TypeOK, Return
  <1>2. arg' \in [User -> Work]
    BY Resets, Zenon DEF TypeOK, Return
  <1>3. needed' \in [User -> 0 .. Width - 1]
    BY Resets, Zenon DEF TypeOK, Return
  <1>4. pc' \in [Task -> UserLabels \union WorkerLabels]
    BY Zenon DEF TypeOK, Return, Goto, UserLabels
  <1>5. /\ pc'[t] = "out" /\ fn'[t] = "none" /\ pc'[Worker] = pc[Worker]
        /\ \A u \in User \ {t} : pc'[u] = pc[u] /\ fn'[u] = fn[u] /\ arg'[u] = arg[u] /\ needed'[u] = needed[u]
    BY DEF TypeOK, Return, Goto, User
  <1> QED
    BY <1>1, <1>2, <1>3, <1>4, <1>5, Zenon DEF UserMoves

\* The worker goes on.
LEMMA WorkerGoing ==
  ASSUME TypeOK, NEW l \in WorkerLabels, Goto(Worker, l), UNCHANGED user_vars
  PROVE  WorkerMoves /\ pc'[Worker] = l
  BY WorkqueueAssumption, Zenon DEF TypeOK, Goto, user_vars, User, WorkerMoves

\* Everybody keeps the claim on w they have.
LEMMA OneClaimFrame ==
  ASSUME NEW w \in Work, OneClaim(w), pending'[w] = pending[w], timer'[w] = timer[w],
         Queued(w)' <=> Queued(w), WorkerClaims(w)' <=> WorkerClaims(w),
         \A t \in User : UserClaims(t, w)' <=> UserClaims(t, w)
  PROVE  OneClaim(w)'
  BY Zenon DEF OneClaim

\* Everybody keeps all the claims they have.
LEMMA ClaimFrame ==
  ASSUME ClaimInv, UNCHANGED <<pending, timer, worklist, running>>,
         pc'[Worker] = "clear_pending" <=> pc[Worker] = "clear_pending",
         \A t \in User, w \in Work : UserClaims(t, w)' <=> UserClaims(t, w)
  PROVE  ClaimInv'
  <1> SUFFICES ASSUME NEW w \in Work PROVE OneClaim(w)'
    BY Zenon DEF ClaimInv
  <1>1. /\ (Queued(w)' <=> Queued(w)) /\ (WorkerClaims(w)' <=> WorkerClaims(w))
        /\ pending'[w] = pending[w] /\ timer'[w] = timer[w]
    BY Zenon DEF Queued, WorkerClaims, Top
  <1> QED
    BY <1>1, OneClaimFrame, Zenon DEF ClaimInv

\* A user takes the claim on w, hands it to the timer or takes it back, or drops it.
LEMMA ClaimPasses ==
  ASSUME ClaimInv, NEW t \in User, UserMoves(t), NEW w \in Work, UNCHANGED cwq_vars,
         \A x \in Work \ {w} : /\ pending'[x] = pending[x] /\ timer'[x] = timer[x]
                              /\ ~UserClaims(t, x) /\ ~UserClaims(t, x)',
         \/ ~pending[w] /\ pending'[w] /\ timer'[w] = timer[w] /\ UserClaims(t, w)'
         \/ pending'[w] = pending[w] /\ timer'[w] /\ UserClaims(t, w) /\ ~UserClaims(t, w)'
         \/ pending'[w] = pending[w] /\ timer[w] /\ ~timer'[w] /\ UserClaims(t, w)'
         \/ ~pending'[w] /\ timer'[w] = timer[w] /\ UserClaims(t, w) /\ ~UserClaims(t, w)'
  PROVE  ClaimInv'
  <1> SUFFICES ASSUME NEW x \in Work PROVE OneClaim(x)'
    BY Zenon DEF ClaimInv
  <1>1. /\ OneClaim(x) /\ (Queued(x)' <=> Queued(x)) /\ (WorkerClaims(x)' <=> WorkerClaims(x))
        /\ \A u \in User \ {t} : UserClaims(u, x)' <=> UserClaims(u, x)
    BY Zenon DEF ClaimInv, Queued, WorkerClaims, Top, UserClaims, UserMoves, cwq_vars
  <1>2. CASE x # w
    BY <1>1, <1>2, OneClaimFrame, Zenon
  <1>3. CASE x = w
    BY <1>1, <1>3, Zenon DEF OneClaim
  <1> QED
    BY <1>2, <1>3, Zenon

\* A user that has no claim and takes none.
LEMMA NoClaimFrame ==
  ASSUME ClaimInv, KillInv, NEW t \in User, UserMoves(t), UNCHANGED cwq_vars, UNCHANGED <<pending, timer, killed>>,
         pc[t] \notin {"add", "arm", "clear"}, pc'[t] \notin {"add", "arm", "clear"}
  PROVE  ClaimInv' /\ KillInv'
  <1>1. \A u \in User, x \in Work : UserClaims(u, x)' <=> UserClaims(u, x)
    BY Zenon DEF UserMoves, UserClaims
  <1>2. pc'[Worker] = pc[Worker] /\ UNCHANGED <<worklist, running>>
    BY Zenon DEF UserMoves, cwq_vars
  <1>3. ClaimInv'
    BY <1>1, <1>2, ClaimFrame, Zenon
  <1>4. KillInv'
    BY <1>2, Zenon DEF KillInv, Top
  <1> QED
    BY <1>3, <1>4, Zenon

\* A user other than one that begins or ends the destruction of the queue.
LEMMA DestroyFrame ==
  ASSUME FnInv, DestroyInv, NEW t \in User, UserMoves(t),
         UNCHANGED <<live, stop, worklist, running>>, killed \subseteq killed',
         \A w \in Work : timer'[w] => live \/ timer[w],
         live \/ fn[t] # "none", fn'[t] = "destroy" <=> fn[t] = "destroy",
         pc'[t] \in {"cleanup", "stop_store", "stop_wake", "stop_wait"} => worklist = <<>> /\ running = <<>>,
         pc[t] \in {"stop_wake", "stop_wait"} => pc'[t] \in {"stop_wake", "stop_wait"}
  PROVE  DestroyInv'
  <1>1. (live' <=> live) /\ (stop' <=> stop) /\ worklist' = worklist /\ running' = running /\ pc'[Worker] = pc[Worker]
    BY Zenon DEF UserMoves
  <1>2. \A u \in User : fn'[u] = "destroy" <=> fn[u] = "destroy"
    BY Zenon DEF UserMoves
  <1>3. live => ~stop /\ pc'[Worker] # "exited" /\ \A u \in User : fn'[u] # "destroy"
    BY <1>1, <1>2, Zenon DEF DestroyInv
  <1>4. CASE ~live
    <2>1. /\ Rearming \subseteq killed' /\ (\A w \in Work : ~timer'[w])
          /\ pc'[Worker] = "exited" \/ \E u \in User : fn'[u] = "destroy"
      BY <1>1, <1>2, <1>4, Zenon DEF DestroyInv
    <2>2. \A u, v \in User : fn'[u] = "destroy" /\ fn'[v] = "destroy" => u = v
      BY <1>2, <1>4, Zenon DEF DestroyInv
    <2>3. \A u \in User : fn'[u] \in {"none", "destroy"}
      BY <1>4, Zenon DEF DestroyInv, UserMoves
    <2>4. \A u \in User : pc'[u] \in {"cleanup", "stop_store", "stop_wake", "stop_wait"} => worklist = <<>> /\ running = <<>>
      BY Zenon DEF DestroyInv, UserMoves
    <2>5. stop => \E u \in User : pc'[u] \in {"stop_wake", "stop_wait"}
      BY Zenon DEF DestroyInv, UserMoves
    <2> QED
      BY <1>1, <1>4, <2>1, <2>2, <2>3, <2>4, <2>5, Zenon DEF DestroyInv
  <1>5. CASE live
    <2>1. \A u \in User : pc'[u] \in {"cleanup", "stop_store", "stop_wake", "stop_wait"} => worklist = <<>> /\ running = <<>>
      BY Zenon DEF DestroyInv, UserMoves
    <2> QED
      BY <1>1, <1>3, <1>5, <2>1, Zenon DEF DestroyInv
  <1> QED
    BY <1>4, <1>5, Zenon

\* What is left to show of a step of a user outside cwq->lock.
LEMMA UserFrame ==
  ASSUME IInv, NEW t \in User, UserMoves(t), pc'[t] \in UserLabels,
         pc'[t] \in {"flush_schedule", "flush_again"} =>
           pc[t] \in {"flush_schedule", "flush_again"} /\ UNCHANGED <<fn, needed>>,
         UNCHANGED cwq_vars, pending' \in [Work -> BOOLEAN], timer' \in [Work -> BOOLEAN], killed' \subseteq Rearming,
         mutex' \in Task \union {NoTask}, stop' \in BOOLEAN, live' \in BOOLEAN, SchedTypeOK',
         FnInv', ClaimInv', KillInv', FlusherInv', WorkerInv', DestroyInv'
  PROVE  IInv'
  <1> USE DEF IInv
  <1>1. UNCHANGED <<insert_sequence, remove_sequence, worklist, more_work, work_done, running>>
    BY Zenon DEF cwq_vars
  <1>2. TypeOK'
    BY <1>1, Zenon DEF TypeOK, UserMoves
  <1>3. LabelInv' /\ RunInv'
    BY <1>1, Zenon DEF LabelInv, RunInv, UserMoves
  <1>4. OnceInv' /\ SeqInv'
    BY <1>1, Zenon DEF OnceInv, SeqInv, SequencesCountWork, Age
  <1>5. NeededInv'
    BY <1>1, Zenon DEF NeededInv, Age, UserMoves
  <1> QED
    BY <1>2, <1>3, <1>4, <1>5, Zenon

\* The same for a user that neither is, nor starts, waiting or waking.
LEMMA QuietUserFrame ==
  ASSUME IInv, NEW t \in User, UserMoves(t), pc'[t] \in UserLabels \ {"flush_schedule", "flush_again"},
         pc[t] \notin {"flush_schedule", "flush_again", "stop_wake"}, UNCHANGED sched_vars, UNCHANGED cwq_vars,
         pending' \in [Work -> BOOLEAN], timer' \in [Work -> BOOLEAN], killed' \subseteq Rearming,
         mutex' \in Task \union {NoTask}, stop' \in {stop, FALSE}, live' \in BOOLEAN,
         FnInv', ClaimInv', KillInv', DestroyInv'
  PROVE  IInv'
  <1> USE DEF IInv
  <1>1. SchedTypeOK' /\ stop' \in BOOLEAN
    BY Zenon DEF TypeOK, SchedTypeOK, sched_vars
  <1>2. FlusherInv'
    BY Zenon DEF FlusherInv, UserMoves, sched_vars, cwq_vars
  <1>3. WorkerInv'
    <2>1. pc'[Worker] = pc[Worker] /\ UNCHANGED <<state, onrq, worklist, more_work>>
      BY Zenon DEF UserMoves, sched_vars, cwq_vars
    <2>2. (\E u \in User : pc[u] = "stop_wake") => \E u \in User : pc'[u] = "stop_wake"
      BY Zenon DEF UserMoves
    <2>3. stop' => stop
      BY Zenon
    <2> QED
      BY <2>1, <2>2, <2>3, Zenon DEF WorkerInv
  <1> QED
    BY <1>1, <1>2, <1>3, UserFrame, Zenon

\* What is left to show of a step of the worker outside cwq->lock.
LEMMA WorkerFrame ==
  ASSUME IInv, WorkerMoves, pc'[Worker] \in WorkerLabels,
         UNCHANGED <<insert_sequence, remove_sequence, worklist, work_done, running>>, more_work' \in BOOLEAN,
         pending' \in [Work -> BOOLEAN], timer' \in [Work -> BOOLEAN], UNCHANGED <<killed, stop, live>>,
         mutex' \in Task \union {NoTask}, SchedTypeOK',
         \A u \in User : state'[u] = state[u] /\ onrq'[u] = onrq[u],
         ClaimInv', KillInv', RunInv', WorkerInv', DestroyInv'
  PROVE  IInv'
  <1> USE DEF IInv
  <1>1. TypeOK'
    BY Zenon DEF TypeOK, WorkerMoves
  <1>2. LabelInv' /\ FnInv'
    BY Zenon DEF LabelInv, FnInv, WorkerMoves
  <1>3. OnceInv' /\ SeqInv'
    BY Zenon DEF OnceInv, SeqInv, SequencesCountWork, Age
  <1>4. NeededInv' /\ FlusherInv'
    BY Zenon DEF NeededInv, FlusherInv, Age, WorkerMoves
  <1> QED
    BY <1>1, <1>2, <1>3, <1>4, Zenon

\* The same for a step that is not about a work, nor the last.
LEMMA QuietWorkerFrame ==
  ASSUME IInv, WorkerMoves, pc'[Worker] \in WorkerLabels \ {"clear_pending", "func", "exited"},
         pc[Worker] \notin {"clear_pending", "exited"},
         UNCHANGED <<insert_sequence, remove_sequence, worklist, work_done, running>>, more_work' \in BOOLEAN,
         UNCHANGED work_vars, UNCHANGED <<stop, live>>, mutex' \in Task \union {NoTask}, SchedTypeOK',
         \A u \in User : state'[u] = state[u] /\ onrq'[u] = onrq[u],
         RunInv', WorkerInv'
  PROVE  IInv'
  <1> USE DEF IInv
  <1>1. /\ UNCHANGED <<pending, timer, killed>>
        /\ pending' \in [Work -> BOOLEAN] /\ timer' \in [Work -> BOOLEAN]
    BY Zenon DEF TypeOK, work_vars
  <1>2. ClaimInv'
    <2>1. \A u \in User, x \in Work : UserClaims(u, x)' <=> UserClaims(u, x)
      BY Zenon DEF WorkerMoves, UserClaims
    <2> QED
      BY <1>1, <2>1, ClaimFrame, Zenon
  <1>3. KillInv'
    BY <1>1, Zenon DEF KillInv
  <1>4. DestroyInv'
    BY <1>1, Zenon DEF DestroyInv, WorkerMoves
  <1> QED
    BY <1>1, <1>2, <1>3, <1>4, WorkerFrame, Zenon

-----------------------------------------------------------------------------
(* The insertion of a work.                                                *)

\* What __queue_work() does to the queue while it is in use, whoever calls it.
LEMMA Inserting ==
  ASSUME IInv, Bounded, NEW w \in Work, queue_work_locked(w), ~Queued(w),
         live, live' = live, stop' = stop, pc'[Worker] = pc[Worker],
         \A u \in User : \/ pc'[u] = pc[u] /\ needed'[u] = needed[u] /\ fn'[u] = fn[u]
                         \/ pc[u] = "add" /\ pc'[u] = "out"
  PROVE  /\ SchedTypeOK' /\ insert_sequence' \in 0 .. Width - 1 /\ worklist' \in Seq(Entry)
         /\ OnceInv' /\ RunInv' /\ SeqInv' /\ NeededInv' /\ FlusherInv' /\ WorkerInv'
         /\ \A x \in Work : Queued(x)' <=> Queued(x) \/ x = w
  <1> USE DEF IInv
  <1> DEFINE n == Len(worklist)
  <1>1. /\ worklist \in Seq(Entry) /\ insert_sequence \in 0 .. Width - 1
        /\ remove_sequence \in 0 .. Width - 1 /\ Width \in Nat /\ User \subseteq Task /\ Worker \in Task
    BY WorkqueueAssumption, Zenon DEF TypeOK, User
  <1>2. /\ worklist' = Append(worklist, [work |-> w, seq |-> insert_sequence])
        /\ insert_sequence' = Incremented(insert_sequence) /\ remove_sequence' = remove_sequence
        /\ more_work' = more_work /\ work_done' = work_done /\ running' = running
    BY Zenon DEF queue_work_locked
  <1>3. /\ worklist' \in Seq(Entry) /\ worklist' # <<>>
        /\ n \in Nat /\ Len(worklist') = n + 1
        /\ DOMAIN worklist = 1 .. n /\ DOMAIN worklist' = 1 .. n + 1
        /\ \A i \in 1 .. n : worklist'[i] = worklist[i]
        /\ worklist'[n + 1] = [work |-> w, seq |-> insert_sequence]
        /\ \A x \in Work : Queued(x)' <=> Queued(x) \/ x = w
    BY <1>1, <1>2, ListInsert, Zenon
  <1>4. insert_sequence' \in 0 .. Width - 1
    BY <1>1, <1>2, Wrapping, Zenon
  <1>5. /\ SchedTypeOK'
        /\ \A u \in User : state'[u] = state[u] /\ onrq'[u] = onrq[u]
        /\ more_work => state'[Worker] = RUNNING /\ (onrq[Worker] \/ state[Worker] # RUNNING => onrq'[Worker])
        /\ ~more_work => state'[Worker] = state[Worker] /\ onrq'[Worker] = onrq[Worker]
    <2> DEFINE q == IF more_work THEN {Worker} ELSE {}
    <2>1. SchedTypeOK /\ q \subseteq Task /\ wake_up_entries(q) /\ (Worker \in q <=> more_work) /\ \A u \in User : u \notin q
      BY <1>1, Zenon DEF TypeOK, queue_work_locked, User
    <2> HIDE DEF q
    <2> QED
      BY <1>1, <2>1, WakeEntries, Zenon
  <1>6. OnceInv'
    <2> SUFFICES ASSUME NEW i \in 1 .. n + 1, NEW j \in 1 .. n + 1, worklist'[i].work = worklist'[j].work
                 PROVE  i = j
      BY <1>3, Zenon DEF OnceInv
    <2>1. \A k \in 1 .. n : worklist[k].work # w
      BY <1>3, Zenon DEF Queued
    <2>2. worklist'[n + 1].work = w
      BY <1>3
    <2>3. CASE i \in 1 .. n /\ j \in 1 .. n
      BY <1>3, <2>3, ZenonT(40) DEF OnceInv
    <2>4. CASE i = n + 1 \/ j = n + 1
      BY <1>3, <2>1, <2>2, <2>4
    <2> QED
      BY <1>3, <2>3, <2>4
  <1>7. RunInv'
    BY <1>2, Zenon DEF RunInv
  <1>8. /\ (insert_sequence - remove_sequence) % Width = n + Len(running)
        /\ n + Len(running) < Width \div 2 /\ Len(running) \in Nat /\ Width \div 2 <= Width - 1
    <2>1. Width \div 2 <= Width - 1
      BY <1>1
    <2> QED
      BY <1>1, <2>1 DEF TypeOK, SeqInv, SequencesCountWork, Bounded
  <1>9. \A s \in 0 .. Width - 1 : Age(s) < Width - 1 => Age(s)' = Age(s) + 1
    BY <1>1, <1>2, Ageing, Zenon DEF Age
  <1>10. SeqInv'
    <2>1. SequencesCountWork'
      <3>1. Age(remove_sequence) = n + Len(running) /\ n + Len(running) < Width - 1
        BY <1>1, <1>3, <1>8 DEF Age
      <3>2. Age(remove_sequence)' = n + Len(running) + 1
        BY <1>1, <1>2, <1>9, <3>1, Zenon DEF Age
      <3> QED
        BY <1>2, <1>3, <1>8, <3>2, SMTT(30) DEF SequencesCountWork, Age
    <2>2. ASSUME NEW i \in 1 .. n + 1 PROVE Age(worklist[i].seq)' = n + 1 - i + 1
      <3>1. CASE i = n + 1
        <4>1. worklist'[i].seq = insert_sequence /\ (Incremented(insert_sequence) - insert_sequence) % Width = 1
          BY <1>1, <1>3, <3>1, Ageing, SMTT(30)
        <4> QED
          BY <1>2, <1>3, <3>1, <4>1, SMTT(30) DEF Age
      <3>2. CASE i \in 1 .. n
        <4>1. worklist[i] \in Entry /\ Age(worklist[i].seq) = n - i + 1 /\ worklist'[i] = worklist[i]
          BY <1>1, <1>3, <3>2, SMTT(30) DEF SeqInv
        <4>2. worklist[i].seq \in 0 .. Width - 1 /\ n - i + 1 < Width - 1
          BY <1>1, <1>3, <1>8, <3>2, <4>1 DEF Entry
        <4> QED
          BY <1>3, <1>9, <4>1, <4>2, SMTT(30) DEF Age
      <3> QED
        BY <1>3, <3>1, <3>2
    <2>3. ASSUME ~NESTED, NEW i \in DOMAIN running PROVE Age(running[i].seq)' = n + 1 + 1
      <3>1. running[i] \in Entry /\ Age(running[i].seq) = n + 1 /\ Len(running) >= 1
        BY <2>3 DEF TypeOK, SeqInv
      <3>2. running[i].seq \in 0 .. Width - 1 /\ n + 1 < Width - 1
        BY <1>1, <1>3, <1>8, <3>1, SMTT(30) DEF Entry
      <3> QED
        BY <1>2, <1>3, <1>9, <3>1, <3>2, Zenon DEF Age
    <2> QED
      BY <1>2, <1>3, <2>1, <2>2, <2>3 DEF SeqInv
  <1>11. NeededInv'
    <2> SUFFICES ASSUME NEW u \in User, pc'[u] \in {"flush_schedule", "flush_again"}
                 PROVE  Age(needed[u])' < Width \div 2 /\ fn'[u] # "destroy"
      BY Zenon DEF NeededInv
    <2>1. pc'[u] = pc[u] /\ needed'[u] = needed[u] /\ fn'[u] = fn[u]
      BY Zenon
    <2>2. needed[u] \in 0 .. Width - 1 /\ fn[u] # "destroy" /\ Age(needed[u]) < Width \div 2 - 1
      BY <2>1, Zenon DEF TypeOK, DestroyInv, queue_work_locked, RoomFor, Age
    <2>3. Age(needed[u]) \in 0 .. Width - 1
      BY <1>1, <2>2, Ageing, Zenon DEF Age
    <2>4. Age(needed[u]) < Width - 1
      BY <1>1, <1>8, <2>2, <2>3, SMTT(30)
    <2>5. Age(needed[u])' = Age(needed[u]) + 1
      BY <1>9, <2>1, <2>2, <2>4, Zenon DEF Age
    <2> QED
      BY <1>1, <2>1, <2>2, <2>3, <2>5
  <1>12. FlusherInv'
    BY <1>2, <1>5, ZenonT(40) DEF FlusherInv
  <1>13. WorkerInv'
    BY <1>2, <1>3, <1>5, Zenon DEF WorkerInv, DestroyInv
  <1> QED
    BY <1>3, <1>4, <1>5, <1>6, <1>7, <1>10, <1>11, <1>12, <1>13, Zenon

\* The claim passes from the caller to the list.
LEMMA QueueAddInv ==
  ASSUME IInv, Bounded, NEW t \in User, QueueAdd(t)
  PROVE  IInv'
  <1> USE DEF IInv
  <1>1. /\ pc[t] = "add" /\ queue_work_locked(arg[t]) /\ Return(t)
        /\ UNCHANGED <<pending, timer, killed, mutex, stop, live>> /\ UNCHANGED <<work_done, running, remove_sequence, more_work>>
        /\ arg[t] \in Work /\ User = Task \ {Worker}
    BY Zenon DEF QueueAdd, At, work_vars, wq_vars, queue_work_locked, TypeOK, User
  <1>2. UserMoves(t) /\ pc'[t] = "out" /\ fn'[t] = "none"
    BY <1>1, Returning, Zenon
  <1>3. UserClaims(t, arg[t]) /\ fn[t] = "queue" /\ live
    BY <1>1, Zenon DEF UserClaims, FnInv, DestroyInv
  <1>4. ~Queued(arg[t])
    BY <1>1, <1>3, Zenon DEF ClaimInv, OneClaim
  <1>5. /\ SchedTypeOK' /\ insert_sequence' \in 0 .. Width - 1 /\ worklist' \in Seq(Entry)
        /\ OnceInv' /\ RunInv' /\ SeqInv' /\ NeededInv' /\ FlusherInv' /\ WorkerInv'
        /\ \A x \in Work : Queued(x)' <=> Queued(x) \/ x = arg[t]
    BY <1>1, <1>2, <1>3, <1>4, Inserting, Zenon DEF UserMoves
  <1>6. TypeOK'
    BY <1>1, <1>2, <1>5, Zenon DEF TypeOK, UserMoves
  <1>7. LabelInv'
    BY <1>2, Zenon DEF LabelInv, UserLabels, UserMoves
  <1>8. FnInv'
    BY <1>2 DEF FnInv, UserMoves
  <1>9. ClaimInv'
    <2> SUFFICES ASSUME NEW x \in Work PROVE OneClaim(x)'
      BY Zenon DEF ClaimInv
    <2>1. /\ OneClaim(x) /\ pending'[x] = pending[x] /\ timer'[x] = timer[x] /\ WorkerClaims(x)' = WorkerClaims(x)
          /\ \A u \in User \ {t} : UserClaims(u, x)' <=> UserClaims(u, x)
          /\ ~UserClaims(t, x)'
      BY <1>1, <1>2, Zenon DEF ClaimInv, WorkerClaims, Top, UserClaims, UserMoves
    <2>2. CASE x # arg[t]
      <3>1. (Queued(x)' <=> Queued(x)) /\ \A u \in User : UserClaims(u, x)' <=> UserClaims(u, x)
        BY <1>5, <2>1, <2>2, Zenon DEF UserClaims
      <3> QED
        BY <2>1, <3>1, OneClaimFrame, Zenon
    <2>3. CASE x = arg[t]
      <3>1. Queued(x)' /\ UserClaims(t, x)
        BY <1>3, <1>5, <2>3, Zenon
      <3> QED
        BY <2>1, <3>1, Zenon DEF OneClaim
    <2> QED
      BY <2>2, <2>3, Zenon
  <1>10. KillInv'
    BY <1>1, <1>2, Zenon DEF KillInv, Top, UserMoves
  <1>11. DestroyInv'
    BY <1>1, <1>2, <1>3, ZenonT(40) DEF DestroyInv, FnInv, UserMoves
  <1> QED
    BY <1>5, <1>6, <1>7, <1>8, <1>9, <1>10, <1>11, Zenon

\* The claim passes from the timer to the list.
LEMMA Delayed_work_timer_fnInv ==
  ASSUME IInv, Bounded, NEW w \in Work, delayed_work_timer_fn(w)
  PROVE  IInv'
  <1> USE DEF IInv
  <1>1. /\ timer[w] /\ queue_work_locked(w) /\ timer' = [timer EXCEPT ![w] = FALSE]
        /\ UNCHANGED <<pending, killed, mutex, stop, live>> /\ UNCHANGED <<work_done, running, remove_sequence, more_work>>
        /\ UNCHANGED <<fn, arg, needed, pc>>
    BY Zenon DEF delayed_work_timer_fn, wq_vars, user_vars, queue_work_locked
  <1>2. timer' \in [Work -> BOOLEAN] /\ \A x \in Work : timer'[x] = IF x = w THEN FALSE ELSE timer[x]
    BY <1>1, Zenon DEF TypeOK
  <1>3. live /\ ~Queued(w)
    BY <1>1, Zenon DEF DestroyInv, ClaimInv, OneClaim
  <1>4. /\ SchedTypeOK' /\ insert_sequence' \in 0 .. Width - 1 /\ worklist' \in Seq(Entry)
        /\ OnceInv' /\ RunInv' /\ SeqInv' /\ NeededInv' /\ FlusherInv' /\ WorkerInv'
        /\ \A x \in Work : Queued(x)' <=> Queued(x) \/ x = w
    BY <1>1, <1>3, Inserting, Zenon
  <1>5. TypeOK'
    BY <1>1, <1>2, <1>4, Zenon DEF TypeOK
  <1>6. LabelInv' /\ FnInv'
    BY <1>1, Zenon DEF LabelInv, FnInv
  <1>7. ClaimInv'
    <2> SUFFICES ASSUME NEW x \in Work PROVE OneClaim(x)'
      BY Zenon DEF ClaimInv
    <2>1. /\ OneClaim(x) /\ pending'[x] = pending[x] /\ WorkerClaims(x)' = WorkerClaims(x)
          /\ \A u \in User : UserClaims(u, x)' <=> UserClaims(u, x)
      BY <1>1, Zenon DEF ClaimInv, WorkerClaims, Top, UserClaims
    <2>2. CASE x # w
      BY <1>2, <1>4, <2>1, <2>2, OneClaimFrame, Zenon
    <2>3. CASE x = w
      <3>1. Queued(x)' /\ timer[x] /\ ~timer'[x]
        BY <1>1, <1>2, <1>4, <2>3, Zenon
      <3> QED
        BY <2>1, <3>1, Zenon DEF OneClaim
    <2> QED
      BY <2>2, <2>3, Zenon
  <1>8. KillInv'
    BY <1>1, Zenon DEF KillInv, Top
  <1>9. DestroyInv'
    BY <1>1, <1>3, Zenon DEF DestroyInv, FnInv
  <1> QED
    BY <1>4, <1>5, <1>6, <1>7, <1>8, <1>9, Zenon

-----------------------------------------------------------------------------
(* The flushers.                                                          *)

\* A flusher goes to sleep only for a sequence number that is still ahead.
LEMMA FlushSleepInv ==
  ASSUME IInv, NEW t \in User, NEW seq \in 0 .. Width - 1,
         onrq[t], pc[t] \in {"flush", "flush_again"},
         Age(seq) < Width \div 2, fn[t] = "destroy" => seq = insert_sequence,
         Ahead(seq, remove_sequence), FlushWait(t, seq),
         UNCHANGED <<insert_sequence, remove_sequence, worklist, more_work, running, work_vars, stop, live>>
  PROVE  IInv'
  <1> USE DEF IInv
  <1>1. /\ UNCHANGED <<insert_sequence, remove_sequence, worklist, more_work, running>>
        /\ UNCHANGED <<pending, timer, killed, stop, live>> /\ UNCHANGED <<mutex, fn, arg>>
        /\ work_done' = work_done \union {t}
        /\ User \subseteq Task /\ Worker \in Task /\ Worker \notin User
    BY WorkqueueAssumption, Zenon DEF FlushWait, Prepared, work_vars, User
  <1>2. /\ needed' \in [User -> 0 .. Width - 1] /\ needed'[t] = seq
        /\ \A u \in User \ {t} : needed'[u] = needed[u]
    BY Zenon DEF FlushWait, TypeOK
  <1>3. /\ pc' \in [Task -> UserLabels \union WorkerLabels] /\ pc'[t] = "flush_schedule"
        /\ \A u \in Task \ {t} : pc'[u] = pc[u]
    BY <1>1, Zenon DEF FlushWait, Goto, TypeOK, UserLabels
  <1>4. /\ SchedTypeOK' /\ state'[t] # RUNNING /\ onrq' = onrq
        /\ \A u \in Task \ {t} : state'[u] = state[u]
    BY <1>1, Zenon DEF FlushWait, set_task_state, TypeOK, SchedTypeOK, TaskStates, UNINTERRUPTIBLE, RUNNING
  <1>5. TypeOK'
    BY <1>1, <1>2, <1>3, <1>4, Zenon DEF TypeOK
  <1>6. LabelInv' /\ FnInv'
    BY <1>1, <1>3, ZenonT(40) DEF LabelInv, FnInv, UserLabels
  <1>7. OnceInv' /\ RunInv' /\ SeqInv'
    BY <1>1, <1>3, Zenon DEF OnceInv, RunInv, SeqInv, SequencesCountWork, Age
  <1>8. ClaimInv'
    <2>1. \A u \in User, x \in Work : UserClaims(u, x)' <=> UserClaims(u, x)
      BY <1>1, <1>3, Zenon DEF UserClaims
    <2> QED
      BY <1>1, <1>3, <2>1, ClaimFrame, Zenon
  <1>9. KillInv'
    BY <1>1, <1>3, Zenon DEF KillInv, Top
  <1>10. NeededInv'
    BY <1>1, <1>2, <1>3, Zenon DEF NeededInv, Age
  <1>11. FlusherInv'
    BY <1>1, <1>2, <1>3, <1>4, Zenon DEF FlusherInv
  <1>12. WorkerInv'
    BY <1>1, <1>3, <1>4, SMTT(30) DEF WorkerInv
  <1>13. DestroyInv'
    BY <1>1, <1>3 DEF DestroyInv
  <1> QED
    BY <1>5, <1>6, <1>7, <1>8, <1>9, <1>10, <1>11, <1>12, <1>13, Zenon

\* A flusher that destroys the queue leaves it empty.
LEMMA FlushReturnInv ==
  ASSUME IInv, NEW t \in User,
         onrq[t], pc[t] \in {"flush", "flush_again"},
         fn[t] = "destroy" => worklist = <<>> /\ running = <<>>, FlushReturn(t),
         UNCHANGED <<insert_sequence, remove_sequence, worklist, more_work, running, work_vars, stop, live>>
  PROVE  IInv'
  <1> USE DEF IInv
  <1>1. /\ UNCHANGED <<insert_sequence, remove_sequence, worklist, more_work, running>>
        /\ UNCHANGED <<pending, timer, killed, stop, live>>
        /\ work_done' = work_done \ {t} /\ mutex' \in {mutex, NoTask}
        /\ User \subseteq Task /\ Worker \in Task /\ Worker \notin User
    BY WorkqueueAssumption, Zenon DEF FlushReturn, Finished, work_vars, User
  <1>2. /\ UserMoves(t)
        /\ \/ fn[t] = "flush" /\ pc'[t] = "out" /\ fn'[t] = "none"
           \/ fn[t] = "cancel_rearming" /\ pc'[t] = "cancel" /\ fn'[t] = fn[t] /\ arg'[t] = arg[t]
           \/ fn[t] = "destroy" /\ pc'[t] = "cleanup" /\ fn'[t] = fn[t] /\ arg'[t] = arg[t]
    <2>1. CASE fn[t] = "flush"
      BY <2>1, Returning, Zenon DEF FlushReturn
    <2>2. ASSUME NEW l \in {"cancel", "cleanup"},
                 Goto(t, l), needed' = [needed EXCEPT ![t] = 0], UNCHANGED <<fn, arg>>
          PROVE  UserMoves(t) /\ pc'[t] = l /\ fn'[t] = fn[t] /\ arg'[t] = arg[t]
      <3>1. needed' \in [User -> 0 .. Width - 1] /\ \A u \in User \ {t} : needed'[u] = needed[u]
        BY <2>2, Resets, Zenon DEF TypeOK
      <3>2. /\ pc' \in [Task -> UserLabels \union WorkerLabels] /\ pc'[t] = l
            /\ \A u \in Task \ {t} : pc'[u] = pc[u]
        BY <1>1, <2>2, Zenon DEF TypeOK, Goto, UserLabels
      <3> QED
        BY <1>1, <2>2, <3>1, <3>2, Zenon DEF TypeOK, UserMoves
    <2>3. CASE fn[t] = "cancel_rearming"
      <3>1. Goto(t, "cancel") /\ needed' = [needed EXCEPT ![t] = 0] /\ UNCHANGED <<fn, arg>>
        BY <2>3, Zenon DEF FlushReturn
      <3> QED
        BY <2>2, <2>3, <3>1, Zenon
    <2>4. CASE fn[t] = "destroy"
      <3>1. Goto(t, "cleanup") /\ needed' = [needed EXCEPT ![t] = 0] /\ UNCHANGED <<fn, arg>>
        BY <2>4, Zenon DEF FlushReturn
      <3> QED
        BY <2>2, <2>4, <3>1, Zenon
    <2> QED
      BY <2>1, <2>3, <2>4, Zenon DEF FnInv
  <1>3. /\ SchedTypeOK' /\ state'[t] = RUNNING /\ onrq' = onrq
        /\ \A u \in Task \ {t} : state'[u] = state[u]
    BY <1>1, Zenon DEF FlushReturn, set_task_state, TypeOK, SchedTypeOK, TaskStates
  <1>4. TypeOK'
    BY <1>1, <1>2, <1>3, Zenon DEF TypeOK, UserMoves
  <1>5. LabelInv' /\ FnInv'
    <2>1. LabelInv'
      BY <1>2, Zenon DEF LabelInv, UserLabels, UserMoves
    <2>2. FnInv'
      BY <1>2, SMTT(30) DEF FnInv, UserMoves
    <2> QED
      BY <2>1, <2>2, Zenon
  <1>6. OnceInv' /\ RunInv' /\ SeqInv'
    BY <1>1, <1>2 DEF OnceInv, RunInv, SeqInv, SequencesCountWork, Age, UserMoves
  <1>7. ClaimInv'
    <2>1. \A u \in User, x \in Work : UserClaims(u, x)' <=> UserClaims(u, x)
      BY <1>2, Zenon DEF UserClaims, UserMoves
    <2> QED
      BY <1>1, <1>2, <2>1, ClaimFrame, Zenon DEF UserMoves
  <1>8. KillInv'
    BY <1>1, <1>2, ZenonT(40) DEF KillInv, Top, UserMoves
  <1>9. NeededInv'
    BY <1>1, <1>2, Zenon DEF NeededInv, Age, UserMoves
  <1>10. FlusherInv'
    BY <1>1, <1>2, <1>3, SMTT(30) DEF FlusherInv, UserMoves
  <1>11. WorkerInv'
    BY <1>1, <1>2, <1>3 DEF WorkerInv, UserMoves
  <1>12. DestroyInv'
    <2>1. fn[t] # "none"
      BY Zenon DEF FnInv
    <2>2. /\ fn'[t] = "destroy" <=> fn[t] = "destroy"
          /\ pc'[t] \in {"cleanup", "stop_store", "stop_wake", "stop_wait"} => worklist = <<>> /\ running = <<>>
      BY <1>2, Zenon
    <2> QED
      BY <1>1, <1>2, <2>1, <2>2, DestroyFrame, Zenon
  <1> QED
    BY <1>4, <1>5, <1>6, <1>7, <1>8, <1>9, <1>10, <1>11, <1>12, Zenon

\* A round of the loop of flush_cpu_workqueue().
LEMMA FlushWaitInv ==
  ASSUME IInv, Bounded, NEW t \in User, NEW seq \in 0 .. Width - 1,
         onrq[t], pc[t] \in {"flush", "flush_again"},
         Age(seq) < Width \div 2, fn[t] = "destroy" => seq = insert_sequence, FlushWait(t, seq),
         UNCHANGED <<insert_sequence, remove_sequence, worklist, more_work, running, work_vars, stop, live>>
  PROVE  IInv'
  <1>1. CASE Ahead(seq, remove_sequence)
    BY <1>1, FlushSleepInv, Zenon
  <1>2. CASE ~Ahead(seq, remove_sequence)
    <2>1. ASSUME fn[t] = "destroy" PROVE worklist = <<>> /\ running = <<>>
      <3>1. /\ (insert_sequence - remove_sequence) % Width < Width \div 2
            /\ (insert_sequence - remove_sequence) % Width = Len(worklist) + Len(running)
            /\ Len(worklist) \in Nat /\ Len(running) \in Nat
        BY SMTT(30) DEF IInv, TypeOK, SeqInv, SequencesCountWork, Bounded
      <3>2. Len(worklist) + Len(running) \notin 1 .. Width \div 2 - 1
        BY <1>2, <2>1, <3>1, Zenon DEF Ahead
      <3>3. Len(worklist) = 0 /\ Len(running) = 0
        BY WorkqueueAssumption, <3>1, <3>2
      <3> QED
        BY <3>3, SMTT(30) DEF IInv, TypeOK
    <2> QED
      BY <1>2, <2>1, FlushReturnInv, Zenon DEF FlushWait
  <1> QED
    BY <1>1, <1>2, Zenon

\* flush_cpu_workqueue() samples insert_sequence ...
LEMMA FlushInv ==
  ASSUME IInv, Bounded, NEW t \in User, Flush(t)
  PROVE  IInv'
  <1>1. insert_sequence \in 0 .. Width - 1 /\ Age(insert_sequence) = 0
    BY Ageing, Zenon DEF IInv, TypeOK, Age
  <1>2. 0 < Width \div 2
    BY WorkqueueAssumption
  <1> QED
    BY <1>1, <1>2, FlushWaitInv, Zenon DEF Flush, At

\* ... and keeps to it.
LEMMA FlushAgainInv ==
  ASSUME IInv, Bounded, NEW t \in User, FlushAgain(t)
  PROVE  IInv'
  <1>1. /\ needed[t] \in 0 .. Width - 1 /\ Age(needed[t]) < Width \div 2
        /\ fn[t] = "destroy" => needed[t] = insert_sequence
    BY Zenon DEF IInv, TypeOK, NeededInv, FlushAgain, At
  <1> QED
    BY <1>1, FlushWaitInv, Zenon DEF FlushAgain, At

-----------------------------------------------------------------------------
(* The head of the loop of run_workqueue().                                *)

\* The next work passes from the list to the worker; without one, run_workqueue()
\* returns.
LEMMA TakeNextInv ==
  ASSUME IInv, pc[Worker] \in {"run", "func_end"}, NEW outer \in Seq(Entry), TakeNext(outer),
         Len(outer) < MaxDepth, ~NESTED => outer = <<>>, outer = running \/ running # <<>>,
         UNCHANGED <<insert_sequence, more_work, work_vars, stop, live, user_vars>>,
         SchedTypeOK', remove_sequence' \in 0 .. Width - 1, work_done' \subseteq User,
         (insert_sequence - remove_sequence') % Width = Len(worklist) + Len(outer),
         state'[Worker] = state[Worker], onrq'[Worker] = onrq[Worker],
         FlusherInv'
  PROVE  IInv'
  <1> USE DEF IInv
  <1>1. /\ UNCHANGED <<insert_sequence, more_work, stop, live>> /\ UNCHANGED <<pending, timer, killed>>
        /\ UNCHANGED <<fn, arg, needed>>
        /\ User \subseteq Task /\ Worker \in Task /\ Worker \notin User /\ MaxDepth \in Nat
        /\ worklist \in Seq(Entry) /\ running \in Seq(Entry) /\ Len(outer) \in Nat
    BY WorkqueueAssumption DEF work_vars, user_vars, User, TypeOK
  <1>2. /\ pc' \in [Task -> UserLabels \union WorkerLabels] /\ \A u \in User : pc'[u] = pc[u]
        /\ pc'[Worker] = IF worklist # <<>> THEN "clear_pending"
                         ELSE IF outer = <<>> THEN "set_state" ELSE "func_end"
    BY <1>1, Zenon DEF TakeNext, Goto, TypeOK, WorkerLabels
  <1>3. mutex' \in {mutex, NoTask}
    BY Zenon DEF TakeNext
  <1>4. \A u \in User, x \in Work : UserClaims(u, x)' <=> UserClaims(u, x)
    BY <1>1, <1>2, Zenon DEF UserClaims
  <1>5. \A x \in Work : ~WorkerClaims(x)
    BY Zenon DEF WorkerClaims
  <1> DEFINE Lists == /\ worklist' \in Seq(Entry) /\ running' \in Seq(Entry)
                      /\ OnceInv' /\ ClaimInv' /\ RunInv' /\ SeqInv'
                      /\ worklist = <<>> /\ running = <<>> => worklist' = <<>> /\ running' = <<>>
  <1>6. ASSUME worklist # <<>> PROVE Lists
    <2> DEFINE e == Head(worklist)
               n == Len(worklist)
    <2>1. worklist' = Tail(worklist) /\ running' = Append(outer, e)
      BY <1>6, Zenon DEF TakeNext
    <2>2. /\ worklist' \in Seq(Entry) /\ e = worklist[1] /\ e \in Entry
          /\ n \in Nat \ {0} /\ Len(worklist') = n - 1
          /\ DOMAIN worklist = 1 .. n /\ DOMAIN worklist' = 1 .. n - 1
          /\ \A i \in 1 .. n - 1 : worklist'[i] = worklist[i + 1]
          /\ \A x \in Work : Queued(x)' <=> Queued(x) /\ x # e.work
      BY <1>1, <1>6, <2>1, ListTake, Zenon
    <2>3. e.work \in Work /\ e.seq \in 0 .. Width - 1
      BY <2>2, Zenon DEF Entry
    <2> HIDE DEF e, n
    <2>4. /\ running' \in Seq(Entry) /\ running' # <<>> /\ Top' = e /\ Len(running') = Len(outer) + 1
          /\ Len(outer) = 0 => DOMAIN running' = {1} /\ running'[1] = e
      BY <2>1, <2>2, StackPush, SMTT(30)
    <2>5. OnceInv'
      <3> SUFFICES ASSUME NEW i \in 1 .. n - 1, NEW j \in 1 .. n - 1, worklist'[i].work = worklist'[j].work
                   PROVE  i = j
        BY <2>2, Zenon DEF OnceInv
      <3>1. /\ i + 1 \in 1 .. n /\ j + 1 \in 1 .. n
            /\ worklist[i + 1].work = worklist[j + 1].work
        BY <2>2, SMTT(30)
      <3>2. i + 1 = j + 1
        BY <2>2, <3>1, Zenon DEF OnceInv
      <3> QED
        BY <2>2, <3>2
    <2>6. ClaimInv'
      <3> SUFFICES ASSUME NEW x \in Work PROVE OneClaim(x)'
        BY Zenon DEF ClaimInv
      <3>1. OneClaim(x) /\ pending'[x] = pending[x] /\ timer'[x] = timer[x]
        BY <1>1, Zenon DEF ClaimInv
      <3>2. WorkerClaims(x)' <=> x = e.work
        BY <1>2, <1>6, <2>4, Zenon DEF WorkerClaims
      <3>3. CASE x # e.work
        BY <1>4, <1>5, <2>2, <3>1, <3>2, <3>3, OneClaimFrame, Zenon
      <3>4. CASE x = e.work
        <4>1. 1 \in 1 .. n
          BY <2>2, SMTT(30)
        <4>2. Queued(x) /\ ~Queued(x)'
          BY <2>2, <3>4, <4>1, SMTT(30) DEF Queued
        <4> QED
          BY <1>4, <3>1, <3>2, <3>4, <4>2, Zenon DEF OneClaim
      <3> QED
        BY <3>3, <3>4, Zenon
    <2>7. RunInv'
      <3>1. ~NESTED => Len(outer) = 0
        BY <1>1
      <3> QED
        BY <1>1, <1>2, <1>6, <2>4, <3>1 DEF RunInv
    <2>8. SeqInv'
      <3>1. SequencesCountWork'
        BY <1>1, <2>2, <2>4, SMTT(30) DEF SequencesCountWork, n
      <3>2. ASSUME NEW i \in 1 .. n - 1 PROVE Age(worklist[i].seq)' = Len(worklist') - i + 1
        <4>1. i + 1 \in 1 .. n /\ i + 1 \in DOMAIN worklist
          BY <2>2
        <4>2. Age(worklist[i + 1].seq) = n - (i + 1) + 1
          BY <4>1, ZenonT(40) DEF SeqInv, n
        <4> QED
          BY <1>1, <2>2, <4>1, <4>2, SMTT(30) DEF Age
      <3>3. ASSUME ~NESTED, NEW i \in DOMAIN running' PROVE Age(running[i].seq)' = Len(worklist') + 1
        <4>1. i = 1 /\ running'[1] = e
          BY <2>4, <3>3, SMTT(30)
        <4>2. 1 \in 1 .. n /\ n - 1 + 1 = n
          BY <2>2
        <4>3. Age(e.seq) = n
          BY <2>2, <4>2, Zenon DEF SeqInv, n
        <4> QED
          BY <1>1, <2>2, <4>1, <4>3, SMTT(30) DEF Age
      <3> QED
        BY <2>2, <3>1, <3>2, <3>3, ZenonT(40) DEF SeqInv
    <2> QED
      BY <1>6, <2>2, <2>4, <2>5, <2>6, <2>7, <2>8, Zenon
  <1>7. ASSUME worklist = <<>> PROVE Lists
    <2>1. worklist' = worklist /\ running' = outer
      BY <1>7, Zenon DEF TakeNext
    <2>2. ClaimInv'
      <3> SUFFICES ASSUME NEW x \in Work PROVE OneClaim(x)'
        BY Zenon DEF ClaimInv
      <3>1. /\ OneClaim(x) /\ pending'[x] = pending[x] /\ timer'[x] = timer[x]
            /\ ~WorkerClaims(x)' /\ (Queued(x)' <=> Queued(x))
        BY <1>1, <1>2, <1>7, <2>1, ZenonT(40) DEF ClaimInv, WorkerClaims, Queued
      <3> QED
        BY <1>4, <1>5, <3>1, OneClaimFrame, Zenon
    <2>3. RunInv'
      <3>1. Len(<<>>) = 0
        BY Zenon
      <3> QED
        BY <1>1, <1>2, <1>7, <2>1, <3>1, SMTT(30) DEF RunInv
    <2>4. SeqInv'
      <3>1. DOMAIN worklist = {} /\ DOMAIN <<>> = {}
        BY <1>7
      <3> QED
        BY <1>1, <2>1, <3>1, Zenon DEF SeqInv, SequencesCountWork
    <2> QED
      BY <1>1, <1>7, <2>1, <2>2, <2>3, <2>4, Zenon DEF OnceInv
  <1>8. Lists
    BY <1>6, <1>7, ZenonT(40)
  <1> HIDE DEF Lists
  <1>9. TypeOK'
    <2>1. worklist' \in Seq(Entry) /\ running' \in Seq(Entry)
      BY <1>8, Zenon DEF Lists
    <2> QED
      BY <1>1, <1>2, <1>3, <2>1, SMTT(30) DEF TypeOK
  <1>10. LabelInv' /\ FnInv'
    BY <1>1, <1>2, Zenon DEF LabelInv, FnInv, WorkerLabels
  <1>11. KillInv'
    BY <1>1, <1>2, Zenon DEF KillInv
  <1>12. NeededInv'
    BY <1>1, <1>2, Zenon DEF NeededInv, Age
  <1>13. WorkerInv'
    BY <1>1, <1>2, SMTT(30) DEF WorkerInv
  <1>14. DestroyInv'
    <2>1. worklist = <<>> /\ running = <<>> => worklist' = <<>> /\ running' = <<>>
      BY <1>8, Zenon DEF Lists
    <2>2. pc[Worker] # "exited" /\ pc'[Worker] # "exited"
      BY <1>2, Zenon
    <2> QED
      BY <1>1, <1>2, <2>1, <2>2, SMTT(30) DEF DestroyInv
  <1> QED
    BY <1>8, <1>9, <1>10, <1>11, <1>12, <1>13, <1>14, ZenonT(40) DEF Lists

\* run_workqueue() is entered by worker_thread(), or by a function that flushes.
LEMMA Run_workqueueInv ==
  ASSUME IInv, run_workqueue
  PROVE  IInv'
  <1> USE DEF IInv
  <1>1. /\ pc[Worker] = "run" /\ TakeNext(running)
        /\ UNCHANGED <<insert_sequence, remove_sequence, more_work, work_done, work_vars, stop, live, user_vars>>
        /\ state' = state /\ onrq' = onrq
    BY Zenon DEF run_workqueue, At, sched_vars
  <1>2. /\ running \in Seq(Entry) /\ Len(running) < MaxDepth /\ (~NESTED => running = <<>>)
        /\ remove_sequence \in 0 .. Width - 1 /\ work_done \subseteq User
        /\ (insert_sequence - remove_sequence) % Width = Len(worklist) + Len(running)
    BY <1>1, Zenon DEF TypeOK, RunInv, SeqInv, SequencesCountWork
  <1>3. SchedTypeOK'
    BY <1>1, Zenon DEF TypeOK, SchedTypeOK
  <1>4. FlusherInv'
    <2>1. \A u \in User : pc'[u] = pc[u]
      BY <1>1, Zenon DEF TakeNext, Goto, TypeOK, User
    <2> QED
      BY <1>1, <2>1, Zenon DEF FlusherInv, user_vars
  <1> QED
    BY <1>1, <1>2, <1>3, <1>4, TakeNextInv, Zenon

\* After a function every flusher is awake and looks again.
LEMMA FuncEndInv ==
  ASSUME IInv, FuncEnd
  PROVE  IInv'
  <1> USE DEF IInv
  <1> DEFINE outer == SubSeq(running, 1, Len(running) - 1)
  <1>1. /\ pc[Worker] = "func_end" /\ TakeNext(outer)
        /\ UNCHANGED <<insert_sequence, more_work, work_vars, stop, live, user_vars>>
        /\ remove_sequence' = Incremented(remove_sequence)
        /\ wake_up_entries(work_done) /\ work_done' = Autoremoved(work_done)
    BY Zenon DEF FuncEnd, At
  <1>2. running # <<>> /\ running \in Seq(Entry) /\ Len(running) <= MaxDepth /\ (~NESTED => Len(running) <= 1)
    BY <1>1, Zenon DEF TypeOK, RunInv
  <1>3. outer \in Seq(Entry) /\ Len(running) \in Nat \ {0} /\ Len(outer) = Len(running) - 1
    BY <1>2, StackPop, Zenon
  <1> HIDE DEF outer
  <1>4. Len(outer) < MaxDepth /\ (~NESTED => outer = <<>>)
    <2>1. ~NESTED => Len(outer) = 0
      BY <1>2, <1>3
    <2> QED
      BY <1>2, <1>3, <2>1, WorkqueueAssumption
  <1>5. /\ insert_sequence \in 0 .. Width - 1 /\ remove_sequence \in 0 .. Width - 1
        /\ remove_sequence' \in 0 .. Width - 1
    BY <1>1, Wrapping, Zenon DEF TypeOK
  <1>6. (insert_sequence - remove_sequence') % Width = Len(worklist) + Len(outer)
    <2>1. /\ (insert_sequence - remove_sequence) % Width = Len(worklist) + Len(running)
          /\ Len(worklist) \in Nat
      BY DEF TypeOK, SeqInv, SequencesCountWork
    <2>2. (insert_sequence - remove_sequence') % Width = Len(worklist) + Len(running) - 1
      BY <1>1, <1>3, <1>5, <2>1, Closing, SMTT(30)
    <2> QED
      BY <1>3, <2>1, <2>2, ZenonT(40)
  <1>7. SchedTypeOK /\ work_done \subseteq User /\ work_done \subseteq Task /\ User \subseteq Task /\ Worker \in Task \ work_done
    BY WorkqueueAssumption, Zenon DEF TypeOK, User
  <1>8. /\ SchedTypeOK'
        /\ \A t \in work_done : state'[t] = RUNNING /\ (onrq[t] \/ state[t] # RUNNING => onrq'[t])
        /\ \A t \in Task \ work_done : state'[t] = state[t] /\ onrq'[t] = onrq[t]
    BY <1>1, <1>7, WakeEntries, Zenon
  <1>9. \A t \in User : onrq'[t] /\ state'[t] = RUNNING
    BY <1>7, <1>8, Zenon DEF FlusherInv
  <1>10. work_done' \subseteq User
    BY <1>1, <1>7, Zenon DEF Autoremoved
  <1>11. FlusherInv'
    BY <1>9, Zenon DEF FlusherInv
  <1> QED
    BY <1>1, <1>2, <1>3, <1>4, <1>5, <1>6, <1>7, <1>8, <1>10, <1>11, TakeNextInv, Zenon

-----------------------------------------------------------------------------
(* The steps of the users.                                                 *)

\* Setting the pending bit makes the caller the one who has a claim on the work.
LEMMA Queue_workInv ==
  ASSUME IInv, NEW t \in User, NEW w \in Work, NEW l \in {"add", "arm"}, queue_work(t, w, l)
  PROVE  IInv'
  <1> USE DEF IInv
  <1>1. UserMoves(t) /\ pc[t] = "out" /\ live /\ pc'[t] = l /\ fn'[t] = "queue" /\ arg'[t] = w
    BY Beginning, Zenon DEF queue_work, UserLabels
  <1>2. /\ UNCHANGED sched_vars /\ UNCHANGED cwq_vars /\ UNCHANGED <<timer, killed, mutex, stop, live>> /\ w \notin Rearming
        /\ timer' \in [Work -> BOOLEAN] /\ killed' \subseteq Rearming /\ live' \in BOOLEAN /\ mutex' \in Task \union {NoTask}
    BY Zenon DEF queue_work, wq_vars, TypeOK
  <1>3. pending' \in [Work -> BOOLEAN] /\ ~pending[w] /\ \A x \in Work : pending'[x] = IF x = w THEN TRUE ELSE pending[x]
    BY Zenon DEF queue_work, test_and_set_pending, TypeOK
  <1>4. FnInv'
    BY <1>1, <1>2, ZenonT(40) DEF FnInv, UserMoves
  <1>5. ClaimInv'
    <2>1. (\A x \in Work \ {w} : ~UserClaims(t, x) /\ ~UserClaims(t, x)') /\ UserClaims(t, w)'
      BY <1>1, Zenon DEF UserClaims
    <2> QED
      BY <1>1, <1>2, <1>3, <2>1, ClaimPasses, Zenon
  <1>6. KillInv'
    <2>1. pc'[Worker] = pc[Worker] /\ Top' = Top /\ Rearming \subseteq Work /\ killed' = killed /\ killed \subseteq Rearming
      BY <1>1, <1>2, WorkqueueAssumption, Zenon DEF UserMoves, Top, cwq_vars, TypeOK
    <2>2. \A x \in Rearming : pending'[x] = pending[x]
      BY <1>2, <1>3, <2>1, Zenon
    <2> QED
      BY <2>1, <2>2, Zenon DEF KillInv
  <1>7. DestroyInv'
    BY <1>1, <1>2, DestroyFrame, Zenon DEF FnInv, cwq_vars
  <1> QED
    BY <1>1, <1>2, <1>3, <1>4, <1>5, <1>6, <1>7, QuietUserFrame, Zenon DEF UserLabels

\* cancel_delayed_work() and cancel_rearming_delayed_work() begin.
LEMMA Cancel_delayed_workInv ==
  ASSUME IInv, NEW t \in User, NEW w \in Work, cancel_delayed_work(t, w)
  PROVE  IInv'
  <1> USE DEF IInv
  <1>1. /\ UserMoves(t) /\ pc[t] = "out" /\ live /\ pc'[t] = "cancel" /\ arg'[t] = w
        /\ fn'[t] = IF w \in Rearming THEN "cancel_rearming" ELSE "cancel"
    BY Beginning, Zenon DEF cancel_delayed_work, UserLabels
  <1>2. /\ UNCHANGED sched_vars /\ UNCHANGED cwq_vars /\ UNCHANGED <<pending, timer, killed>>
        /\ pending' \in [Work -> BOOLEAN] /\ timer' \in [Work -> BOOLEAN] /\ killed' \subseteq Rearming
        /\ live' = live /\ live' \in BOOLEAN /\ stop' = stop /\ mutex' \in Task \union {NoTask}
    BY Zenon DEF cancel_delayed_work, work_vars, wq_vars, TypeOK
  <1>3. FnInv'
    BY <1>1, <1>2, ZenonT(40) DEF FnInv, UserMoves
  <1>4. ClaimInv' /\ KillInv'
    BY <1>1, <1>2, NoClaimFrame, Zenon
  <1>5. DestroyInv'
    BY <1>1, <1>2, DestroyFrame, Zenon DEF FnInv, cwq_vars
  <1> QED
    BY <1>1, <1>2, <1>3, <1>4, <1>5, QuietUserFrame, Zenon DEF UserLabels

\* flush_workqueue() begins.
LEMMA Flush_workqueueInv ==
  ASSUME IInv, NEW t \in User, flush_workqueue(t)
  PROVE  IInv'
  <1> USE DEF IInv
  <1>1. UserMoves(t) /\ pc[t] = "out" /\ live /\ pc'[t] = "flush_mutex" /\ fn'[t] = "flush"
    BY Beginning, Resets, Zenon DEF flush_workqueue, UserLabels
  <1>2. /\ UNCHANGED sched_vars /\ UNCHANGED cwq_vars /\ UNCHANGED <<pending, timer, killed>>
        /\ pending' \in [Work -> BOOLEAN] /\ timer' \in [Work -> BOOLEAN] /\ killed' \subseteq Rearming
        /\ live' = live /\ live' \in BOOLEAN /\ stop' = stop /\ mutex' \in Task \union {NoTask}
    BY Zenon DEF flush_workqueue, work_vars, wq_vars, TypeOK
  <1>3. FnInv'
    BY <1>1, <1>2, ZenonT(40) DEF FnInv, UserMoves
  <1>4. ClaimInv' /\ KillInv'
    BY <1>1, <1>2, NoClaimFrame, Zenon
  <1>5. DestroyInv'
    BY <1>1, <1>2, DestroyFrame, Zenon DEF FnInv, cwq_vars
  <1> QED
    BY <1>1, <1>2, <1>3, <1>4, <1>5, QuietUserFrame, Zenon DEF UserLabels

\* destroy_workqueue() begins: from here on nothing is added.
LEMMA Destroy_workqueueInv ==
  ASSUME IInv, NEW t \in User, destroy_workqueue(t)
  PROVE  IInv'
  <1> USE DEF IInv
  <1>1. UserMoves(t) /\ pc[t] = "out" /\ live /\ pc'[t] = "flush_mutex" /\ fn'[t] = "destroy"
    BY Beginning, Resets, Zenon DEF destroy_workqueue, UserLabels
  <1>2. /\ UNCHANGED sched_vars /\ UNCHANGED cwq_vars /\ UNCHANGED <<pending, timer, killed>>
        /\ pending' \in [Work -> BOOLEAN] /\ timer' \in [Work -> BOOLEAN] /\ killed' \subseteq Rearming
        /\ live' = FALSE /\ live' \in BOOLEAN /\ stop' = stop /\ mutex' \in Task \union {NoTask}
        /\ (\A u \in User \ {t} : pc[u] = "out") /\ Rearming \subseteq killed /\ \A w \in Work : ~timer[w]
    BY Zenon DEF destroy_workqueue, work_vars, wq_vars, TypeOK
  <1>3. FnInv'
    BY <1>1, <1>2, ZenonT(40) DEF FnInv, UserMoves
  <1>4. ClaimInv' /\ KillInv'
    BY <1>1, <1>2, NoClaimFrame, Zenon
  <1>5. DestroyInv'
    BY <1>1, <1>2, ZenonT(40) DEF DestroyInv, FnInv, UserMoves, cwq_vars
  <1> QED
    BY <1>1, <1>2, <1>3, <1>4, <1>5, QuietUserFrame, Zenon DEF UserLabels

\* The claim passes from the caller to the timer.
LEMMA ArmTimerInv ==
  ASSUME IInv, NEW t \in User, ArmTimer(t)
  PROVE  IInv'
  <1> USE DEF IInv
  <1>1. UserMoves(t) /\ pc[t] = "arm" /\ pc'[t] = "out" /\ fn'[t] = "none"
    BY Returning, Zenon DEF ArmTimer, At
  <1>2. /\ UNCHANGED sched_vars /\ UNCHANGED cwq_vars /\ UNCHANGED <<pending, killed, mutex, stop, live>> /\ arg[t] \in Work
        /\ pending' \in [Work -> BOOLEAN] /\ killed' \subseteq Rearming /\ live' \in BOOLEAN /\ mutex' \in Task \union {NoTask}
    BY Zenon DEF ArmTimer, wq_vars, TypeOK
  <1>3. timer' \in [Work -> BOOLEAN] /\ \A x \in Work : timer'[x] = IF x = arg[t] THEN TRUE ELSE timer[x]
    BY Zenon DEF ArmTimer, TypeOK
  <1>4. FnInv'
    BY <1>1, <1>2, ZenonT(40) DEF FnInv, UserMoves
  <1>5. ClaimInv'
    <2>1. PICK w \in Work : w = arg[t]
      BY <1>2, Zenon
    <2>2. (\A x \in Work \ {w} : ~UserClaims(t, x) /\ ~UserClaims(t, x)') /\ UserClaims(t, w) /\ ~UserClaims(t, w)'
      BY <1>1, <2>1, Zenon DEF UserClaims
    <2>3. (\A x \in Work \ {w} : timer'[x] = timer[x]) /\ timer'[w]
      BY <1>3, <2>1, Zenon
    <2> QED
      BY <1>1, <1>2, <2>2, <2>3, ClaimPasses, Zenon
  <1>6. KillInv'
    BY <1>1, <1>2, Zenon DEF KillInv, UserMoves, Top, cwq_vars
  <1>7. DestroyInv'
    <2>1. fn[t] \notin {"none", "destroy"} /\ live
      BY <1>1, Zenon DEF DestroyInv, FnInv
    <2> QED
      BY <1>1, <1>2, <2>1, DestroyFrame, Zenon DEF cwq_vars
  <1> QED
    BY <1>1, <1>2, <1>3, <1>4, <1>5, <1>6, <1>7, QuietUserFrame, Zenon DEF UserLabels

\* The claim passes from the timer to the canceller.
LEMMA CancelTimerInv ==
  ASSUME IInv, NEW t \in User, CancelTimer(t)
  PROVE  IInv'
  <1> USE DEF IInv
  <1>1. UserMoves(t) /\ pc[t] = "cancel" /\ pc'[t] = "clear" /\ UNCHANGED <<fn, arg, needed>>
    BY Going, Zenon DEF CancelTimer, At, UserLabels
  <1>2. /\ UNCHANGED sched_vars /\ UNCHANGED cwq_vars /\ UNCHANGED <<pending, killed, mutex, stop, live>> /\ arg[t] \in Work
        /\ pending' \in [Work -> BOOLEAN] /\ killed' \subseteq Rearming /\ live' \in BOOLEAN /\ mutex' \in Task \union {NoTask}
    BY Zenon DEF CancelTimer, wq_vars, TypeOK
  <1>3. /\ timer[arg[t]] /\ timer' \in [Work -> BOOLEAN]
        /\ \A x \in Work : timer'[x] = IF x = arg[t] THEN FALSE ELSE timer[x]
    BY Zenon DEF CancelTimer, TypeOK
  <1>4. FnInv'
    BY <1>1, <1>2, ZenonT(40) DEF FnInv, UserMoves
  <1>5. ClaimInv'
    <2>1. (\A x \in Work \ {arg[t]} : ~UserClaims(t, x) /\ ~UserClaims(t, x)') /\ UserClaims(t, arg[t])'
      BY <1>1, Zenon DEF UserClaims
    <2> QED
      BY <1>1, <1>2, <1>3, <2>1, ClaimPasses, ZenonT(40)
  <1>6. KillInv'
    BY <1>1, <1>2, Zenon DEF KillInv, UserMoves, Top, cwq_vars
  <1>7. DestroyInv'
    <2>1. fn[t] \notin {"none", "destroy"} /\ live
      BY <1>1, Zenon DEF DestroyInv, FnInv
    <2> QED
      BY <1>1, <1>2, <2>1, DestroyFrame, Zenon DEF cwq_vars
  <1> QED
    BY <1>1, <1>2, <1>3, <1>4, <1>5, <1>6, <1>7, QuietUserFrame, Zenon DEF UserLabels

\* The claim is given up, and with it the life of a work that rearms itself.
LEMMA CancelClearInv ==
  ASSUME IInv, NEW t \in User, CancelClear(t)
  PROVE  IInv'
  <1> USE DEF IInv
  <1>1. UserMoves(t) /\ pc[t] = "clear" /\ pc'[t] = "out" /\ fn'[t] = "none"
    BY Returning, Zenon DEF CancelClear, At
  <1>2. /\ UNCHANGED sched_vars /\ UNCHANGED cwq_vars /\ UNCHANGED <<timer, mutex, stop, live>> /\ arg[t] \in Work
        /\ timer' \in [Work -> BOOLEAN] /\ live' \in BOOLEAN /\ mutex' \in Task \union {NoTask}
    BY Zenon DEF CancelClear, wq_vars, TypeOK
  <1>3. pending' \in [Work -> BOOLEAN] /\ \A x \in Work : pending'[x] = IF x = arg[t] THEN FALSE ELSE pending[x]
    BY Zenon DEF CancelClear, TypeOK
  <1>4. /\ killed \subseteq killed' /\ killed' \subseteq killed \union {arg[t]} /\ killed' \subseteq Rearming
    BY <1>1, Zenon DEF CancelClear, TypeOK, FnInv
  <1>5. FnInv'
    BY <1>1, <1>2, ZenonT(40) DEF FnInv, UserMoves
  <1>6. ClaimInv'
    <2>1. PICK w \in Work : w = arg[t]
      BY <1>2, Zenon
    <2>2. (\A x \in Work \ {w} : ~UserClaims(t, x) /\ ~UserClaims(t, x)') /\ UserClaims(t, w) /\ ~UserClaims(t, w)'
      BY <1>1, <2>1, Zenon DEF UserClaims
    <2>3. (\A x \in Work \ {w} : pending'[x] = pending[x]) /\ ~pending'[w]
      BY <1>3, <2>1, Zenon
    <2> QED
      BY <1>1, <1>2, <2>2, <2>3, ClaimPasses, Zenon
  <1>7. KillInv'
    <2>1. pending[arg[t]]
      BY <1>1, <1>2, Zenon DEF ClaimInv, OneClaim, UserClaims
    <2>2. pc'[Worker] = pc[Worker] /\ Top' = Top /\ Rearming \subseteq Work
      BY <1>1, <1>2, WorkqueueAssumption, Zenon DEF UserMoves, Top, cwq_vars
    <2> QED
      BY <1>2, <1>3, <1>4, <2>1, <2>2, Zenon DEF KillInv
  <1>8. DestroyInv'
    <2>1. fn[t] \notin {"none", "destroy"} /\ live
      BY <1>1, Zenon DEF DestroyInv, FnInv
    <2> QED
      BY <1>1, <1>2, <1>4, <2>1, DestroyFrame, Zenon DEF cwq_vars
  <1> QED
    BY <1>1, <1>2, <1>3, <1>4, <1>5, <1>6, <1>7, <1>8, QuietUserFrame, Zenon DEF UserLabels

\* There is no timer to delete.
LEMMA CancelFailedInv ==
  ASSUME IInv, NEW t \in User, CancelFailed(t)
  PROVE  IInv'
  <1> USE DEF IInv
  <1>1. /\ UserMoves(t) /\ pc[t] = "cancel"
        /\ \/ pc'[t] = "out" /\ fn'[t] = "none"
           \/ pc'[t] = "flush_mutex" /\ fn[t] # "cancel" /\ UNCHANGED <<fn, arg>>
    <2>1. CASE fn[t] = "cancel"
      BY <2>1, Returning, Zenon DEF CancelFailed, At
    <2>2. CASE fn[t] # "cancel"
      BY <2>2, Going, Zenon DEF CancelFailed, At, UserLabels
    <2> QED
      BY <2>1, <2>2, Zenon
  <1>2. /\ UNCHANGED sched_vars /\ UNCHANGED cwq_vars /\ UNCHANGED <<pending, timer, killed>>
        /\ pending' \in [Work -> BOOLEAN] /\ timer' \in [Work -> BOOLEAN] /\ killed' \subseteq Rearming
        /\ live' = live /\ live' \in BOOLEAN /\ stop' = stop /\ mutex' \in Task \union {NoTask}
    BY Zenon DEF CancelFailed, work_vars, wq_vars, TypeOK
  <1>3. FnInv'
    BY <1>1, <1>2 DEF FnInv, UserMoves
  <1>4. ClaimInv' /\ KillInv'
    BY <1>1, <1>2, NoClaimFrame, Zenon
  <1>5. DestroyInv'
    BY <1>1, <1>2, DestroyFrame, Zenon DEF FnInv, cwq_vars
  <1> QED
    BY <1>1, <1>2, <1>3, <1>4, <1>5, QuietUserFrame, Zenon DEF UserLabels

\* workqueue_mutex.
LEMMA FlushMutexInv ==
  ASSUME IInv, NEW t \in User, FlushMutex(t)
  PROVE  IInv'
  <1> USE DEF IInv
  <1>1. UserMoves(t) /\ pc[t] = "flush_mutex" /\ pc'[t] = "flush" /\ UNCHANGED <<fn, arg>>
    BY Going, Zenon DEF FlushMutex, At, UserLabels
  <1>2. /\ UNCHANGED sched_vars /\ UNCHANGED cwq_vars /\ UNCHANGED <<pending, timer, killed>>
        /\ pending' \in [Work -> BOOLEAN] /\ timer' \in [Work -> BOOLEAN] /\ killed' \subseteq Rearming
        /\ live' = live /\ live' \in BOOLEAN /\ stop' = stop /\ mutex' \in Task \union {NoTask}
    BY Zenon DEF FlushMutex, User, work_vars, wq_vars, TypeOK
  <1>3. FnInv'
    BY <1>1, <1>2, ZenonT(40) DEF FnInv, UserMoves
  <1>4. ClaimInv' /\ KillInv'
    BY <1>1, <1>2, NoClaimFrame, Zenon
  <1>5. DestroyInv'
    BY <1>1, <1>2, DestroyFrame, Zenon DEF FnInv, cwq_vars
  <1> QED
    BY <1>1, <1>2, <1>3, <1>4, <1>5, QuietUserFrame, Zenon DEF UserLabels

\* The destroyer takes workqueue_mutex.
LEMMA CleanupInv ==
  ASSUME IInv, NEW t \in User, Cleanup(t)
  PROVE  IInv'
  <1> USE DEF IInv
  <1>1. UserMoves(t) /\ pc[t] = "cleanup" /\ pc'[t] = "stop_store" /\ UNCHANGED <<fn, arg>>
    BY Going, Zenon DEF Cleanup, At, UserLabels
  <1>2. /\ UNCHANGED sched_vars /\ UNCHANGED cwq_vars /\ UNCHANGED <<pending, timer, killed>>
        /\ pending' \in [Work -> BOOLEAN] /\ timer' \in [Work -> BOOLEAN] /\ killed' \subseteq Rearming
        /\ live' = live /\ live' \in BOOLEAN /\ stop' = stop /\ mutex' \in Task \union {NoTask}
    BY Zenon DEF Cleanup, User, work_vars, wq_vars, TypeOK
  <1>3. FnInv'
    BY <1>1, <1>2, ZenonT(40) DEF FnInv, UserMoves
  <1>4. ClaimInv' /\ KillInv'
    BY <1>1, <1>2, NoClaimFrame, Zenon
  <1>5. DestroyInv'
    BY <1>1, <1>2, DestroyFrame, Zenon DEF DestroyInv, FnInv, cwq_vars
  <1> QED
    BY <1>1, <1>2, <1>3, <1>4, <1>5, QuietUserFrame, Zenon DEF UserLabels

\* The worker has exited: nothing is left of the queue.
LEMMA StopWaitInv ==
  ASSUME IInv, NEW t \in User, StopWait(t)
  PROVE  IInv'
  <1> USE DEF IInv
  <1>1. UserMoves(t) /\ pc[t] = "stop_wait" /\ pc'[t] = "out" /\ fn'[t] = "none" /\ pc[Worker] = "exited"
    BY Returning, Zenon DEF StopWait, At
  <1>2. /\ UNCHANGED sched_vars /\ UNCHANGED cwq_vars /\ UNCHANGED <<pending, timer, killed>>
        /\ pending' \in [Work -> BOOLEAN] /\ timer' \in [Work -> BOOLEAN] /\ killed' \subseteq Rearming
        /\ live' = live /\ live' \in BOOLEAN /\ stop' = FALSE /\ mutex' \in Task \union {NoTask}
    BY Zenon DEF StopWait, work_vars, wq_vars, TypeOK
  <1>3. FnInv'
    BY <1>1, <1>2, ZenonT(40) DEF FnInv, UserMoves
  <1>4. ClaimInv' /\ KillInv'
    BY <1>1, <1>2, NoClaimFrame, Zenon
  <1>5. DestroyInv'
    BY <1>1, <1>2, ZenonT(40) DEF DestroyInv, FnInv, UserMoves, cwq_vars
  <1> QED
    BY <1>1, <1>2, <1>3, <1>4, <1>5, QuietUserFrame, Zenon DEF UserLabels

\* Only a flusher nobody has woken leaves the run queue.
LEMMA FlushScheduleInv ==
  ASSUME IInv, NEW t \in User, FlushSchedule(t)
  PROVE  IInv'
  <1> USE DEF IInv
  <1>1. UserMoves(t) /\ pc[t] = "flush_schedule" /\ pc'[t] = "flush_again" /\ UNCHANGED <<fn, arg, needed>>
    BY Going, Zenon DEF FlushSchedule, At, UserLabels
  <1>2. /\ UNCHANGED cwq_vars /\ UNCHANGED <<pending, timer, killed>>
        /\ pending' \in [Work -> BOOLEAN] /\ timer' \in [Work -> BOOLEAN] /\ killed' \subseteq Rearming
        /\ UNCHANGED <<live, stop, mutex>> /\ live' \in BOOLEAN /\ stop' \in BOOLEAN /\ mutex' \in Task \union {NoTask}
    BY Zenon DEF FlushSchedule, work_vars, wq_vars, TypeOK
  <1>3. /\ SchedTypeOK' /\ UNCHANGED state /\ onrq'[t] = (state[t] = RUNNING)
        /\ \A u \in Task \ {t} : onrq'[u] = onrq[u]
    BY Scheduling, Zenon DEF FlushSchedule, TypeOK, User
  <1>4. FnInv'
    BY <1>1, <1>2, ZenonT(40) DEF FnInv, UserMoves
  <1>5. ClaimInv' /\ KillInv'
    BY <1>1, <1>2, NoClaimFrame, Zenon
  <1>6. FlusherInv'
    BY <1>1, <1>2, <1>3, Zenon DEF FlusherInv, UserMoves, cwq_vars, User
  <1>7. WorkerInv'
    BY <1>1, <1>2, <1>3, WorkqueueAssumption, ZenonT(40) DEF WorkerInv, UserMoves, cwq_vars, User
  <1>8. DestroyInv'
    BY <1>1, <1>2, DestroyFrame, Zenon DEF FnInv, cwq_vars
  <1> QED
    BY <1>1, <1>2, <1>3, <1>4, <1>5, <1>6, <1>7, <1>8, UserFrame, Zenon DEF UserLabels

\* kthread_stop() tells the worker to stop ...
LEMMA StopStoreInv ==
  ASSUME IInv, NEW t \in User, StopStore(t)
  PROVE  IInv'
  <1> USE DEF IInv
  <1>1. UserMoves(t) /\ pc[t] = "stop_store" /\ pc'[t] = "stop_wake" /\ UNCHANGED <<fn, arg, needed>>
    BY Going, Zenon DEF StopStore, At, UserLabels
  <1>2. /\ UNCHANGED cwq_vars /\ UNCHANGED <<pending, timer, killed>>
        /\ pending' \in [Work -> BOOLEAN] /\ timer' \in [Work -> BOOLEAN] /\ killed' \subseteq Rearming
        /\ UNCHANGED <<live, mutex>> /\ live' \in BOOLEAN /\ stop' /\ stop' \in BOOLEAN /\ mutex' \in Task \union {NoTask}
    BY Zenon DEF StopStore, work_vars, wq_vars, TypeOK
  <1>3. SchedTypeOK' /\ UNCHANGED <<state, onrq>>
    BY Zenon DEF StopStore, TypeOK, SchedTypeOK, sched_vars
  <1>4. FnInv'
    BY <1>1, <1>2, ZenonT(40) DEF FnInv, UserMoves
  <1>5. ClaimInv' /\ KillInv'
    BY <1>1, <1>2, NoClaimFrame, Zenon
  <1>6. FlusherInv'
    BY <1>1, <1>2, <1>3, Zenon DEF FlusherInv, UserMoves, cwq_vars
  <1>7. WorkerInv'
    BY <1>1, <1>2, <1>3, Zenon DEF WorkerInv, UserMoves, cwq_vars
  <1>8. DestroyInv'
    BY <1>1, <1>2, SMTT(30) DEF DestroyInv, FnInv, UserMoves, cwq_vars
  <1> QED
    BY <1>1, <1>2, <1>3, <1>4, <1>5, <1>6, <1>7, <1>8, UserFrame, Zenon DEF UserLabels

\* ... and wakes it ...
LEMMA StopWakeInv ==
  ASSUME IInv, NEW t \in User, StopWake(t)
  PROVE  IInv'
  <1> USE DEF IInv
  <1>1. UserMoves(t) /\ pc[t] = "stop_wake" /\ pc'[t] = "stop_wait" /\ UNCHANGED <<fn, arg, needed>>
    BY Going, Zenon DEF StopWake, At, UserLabels
  <1>2. /\ UNCHANGED cwq_vars /\ UNCHANGED <<pending, timer, killed>>
        /\ pending' \in [Work -> BOOLEAN] /\ timer' \in [Work -> BOOLEAN] /\ killed' \subseteq Rearming
        /\ UNCHANGED <<live, stop, mutex>> /\ live' \in BOOLEAN /\ stop' \in BOOLEAN /\ mutex' \in Task \union {NoTask}
    BY Zenon DEF StopWake, work_vars, wq_vars, TypeOK
  <1>3. /\ SchedTypeOK' /\ state'[Worker] = RUNNING /\ (onrq[Worker] \/ state[Worker] # RUNNING => onrq'[Worker])
        /\ \A u \in User : state'[u] = state[u] /\ onrq'[u] = onrq[u]
    BY WorkqueueAssumption, WakingProcess, Zenon DEF StopWake, TypeOK, User
  <1>4. FnInv'
    BY <1>1, <1>2, ZenonT(40) DEF FnInv, UserMoves
  <1>5. ClaimInv' /\ KillInv'
    BY <1>1, <1>2, NoClaimFrame, Zenon
  <1>6. FlusherInv'
    <2>1. state'[t] = RUNNING /\ onrq'[t]
      BY <1>1, <1>3, Zenon DEF FlusherInv
    <2>2. ASSUME NEW u \in User \ {t}
          PROVE  /\ pc'[u] = pc[u] /\ state'[u] = state[u] /\ onrq'[u] = onrq[u] /\ needed'[u] = needed[u]
                 /\ work_done' = work_done /\ insert_sequence' = insert_sequence /\ remove_sequence' = remove_sequence
      BY <1>1, <1>2, <1>3, Zenon DEF UserMoves, cwq_vars
    <2>3. ASSUME NEW u \in User \ {t}
          PROVE  /\ ~onrq'[u] => pc'[u] = "flush_again" /\ state'[u] # RUNNING
                 /\ state'[u] # RUNNING => /\ pc'[u] \in {"flush_schedule", "flush_again"}
                                          /\ u \in work_done' /\ Ahead(needed[u], remove_sequence)'
      BY <2>2, Zenon DEF FlusherInv, Ahead
    <2> QED
      BY <2>1, <2>3, Zenon DEF FlusherInv
  <1>7. WorkerInv'
    BY <1>1, <1>2, <1>3, Zenon DEF WorkerInv, UserMoves, cwq_vars
  <1>8. DestroyInv'
    BY <1>1, <1>2, DestroyFrame, Zenon DEF DestroyInv, FnInv, cwq_vars
  <1> QED
    BY <1>1, <1>2, <1>3, <1>4, <1>5, <1>6, <1>7, <1>8, UserFrame, Zenon DEF UserLabels

\* A new queue is as empty as the old one was.
LEMMA Create_workqueueInv ==
  ASSUME IInv, NEW t \in User, create_workqueue(t)
  PROVE  IInv'
  <1> USE WorkqueueAssumption DEF IInv, create_workqueue, At, Goto
  <1>0. /\ pc[Worker] = "exited" /\ worklist = <<>> /\ running = <<>>
        /\ \A u \in User : fn[u] = "none"
        /\ pc'[Worker] = "set_state" /\ \A u \in User : pc'[u] = pc[u]
        /\ worklist' = worklist /\ running' = running
    BY DEF TypeOK, User, FnInv, DestroyInv, cwq_vars
  <1>1. TypeOK'
    <2>1. <<>> \in Seq(Entry)
      OBVIOUS
    <2> QED
      BY <2>1, Resets, Zenon DEF TypeOK, SchedTypeOK, User, UserLabels, WorkerLabels, cwq_vars, work_vars, wq_vars, user_vars, sched_vars
  <1>2. LabelInv'
    BY Zenon DEF TypeOK, User, LabelInv, UserLabels, WorkerLabels
  <1>3. FnInv'
    BY Zenon DEF TypeOK, User, FnInv, user_vars
  <1>4. OnceInv'
    BY <1>0 DEF OnceInv
  <1>5. ClaimInv'
    <2>1. \A u \in User, x \in Work : UserClaims(u, x)' <=> UserClaims(u, x)
      BY <1>0, Zenon DEF UserClaims, user_vars
    <2> QED
      BY <1>0, <2>1, ClaimFrame, Zenon DEF work_vars
  <1>6. KillInv'
    BY <1>0, Zenon DEF KillInv, work_vars
  <1>7. RunInv'
    BY <1>0, Zenon DEF RunInv
  <1>8. SeqInv'
    <2>1. Len(worklist') = 0 /\ Len(running') = 0 /\ DOMAIN worklist' = {} /\ DOMAIN running' = {}
      BY <1>0
    <2>2. (0 - 0) % Width = 0
      BY Resets, Ageing, Zenon
    <2> QED
      BY <2>1, <2>2 DEF SeqInv, SequencesCountWork
  <1>9. NeededInv'
    BY Zenon DEF TypeOK, User, FnInv, NeededInv, Age, cwq_vars, user_vars
  <1>10. FlusherInv'
    BY Zenon DEF TypeOK, SchedTypeOK, User, FlusherInv, cwq_vars, user_vars, sched_vars
  <1>11. WorkerInv'
    BY <1>0, Zenon DEF TypeOK, SchedTypeOK, WorkerInv, sched_vars
  <1>12. DestroyInv'
    BY <1>0, Zenon DEF DestroyInv, work_vars, user_vars
  <1> QED
    BY <1>1, <1>2, <1>3, <1>4, <1>5, <1>6, <1>7, <1>8, <1>9, <1>10, <1>11, <1>12, Zenon

-----------------------------------------------------------------------------
(* The steps of the worker.                                                *)

\* The worker declares itself sleeping before it looks for a reason not to.
LEMMA WorkerSetStateInv ==
  ASSUME IInv, WorkerSetState
  PROVE  IInv'
  <1> USE DEF IInv
  <1>1. WorkerMoves /\ pc[Worker] = "set_state" /\ pc'[Worker] = "should_stop"
    BY WorkerGoing, Zenon DEF WorkerSetState, At, WorkerLabels
  <1>2. /\ UNCHANGED <<insert_sequence, remove_sequence, worklist, work_done, running>> /\ UNCHANGED work_vars
        /\ UNCHANGED <<stop, live>> /\ more_work' = more_work /\ more_work' \in BOOLEAN /\ mutex' \in Task \union {NoTask}
    BY WorkqueueAssumption, Zenon DEF WorkerSetState, TypeOK, cwq_vars, wq_vars
  <1>3. SchedTypeOK' /\ state'[Worker] = INTERRUPTIBLE /\ UNCHANGED onrq /\ \A u \in User : state'[u] = state[u]
    BY WorkqueueAssumption, SettingState, Zenon DEF WorkerSetState, TypeOK, TaskStates, User
  <1>4. RunInv'
    BY <1>1, <1>2, Zenon DEF RunInv
  <1>5. WorkerInv'
    BY <1>1, <1>2, <1>3, Zenon DEF WorkerInv, WorkerMoves
  <1> QED
    BY <1>1, <1>2, <1>3, <1>4, <1>5, QuietWorkerFrame, Zenon DEF WorkerLabels

\* kthread_should_stop()
LEMMA WorkerShouldStopInv ==
  ASSUME IInv, WorkerShouldStop
  PROVE  IInv'
  <1> USE DEF IInv
  <1>1. /\ WorkerMoves /\ pc[Worker] = "should_stop" /\ pc'[Worker] = IF stop THEN "exited" ELSE "add_wait"
    BY WorkerGoing, Zenon DEF WorkerShouldStop, At, WorkerLabels
  <1>2. /\ UNCHANGED <<insert_sequence, remove_sequence, worklist, work_done, running>>
        /\ UNCHANGED <<pending, timer, killed>> /\ UNCHANGED <<stop, live>>
        /\ pending' \in [Work -> BOOLEAN] /\ timer' \in [Work -> BOOLEAN]
        /\ more_work' = more_work /\ more_work' \in BOOLEAN /\ mutex' \in Task \union {NoTask}
    BY Zenon DEF WorkerShouldStop, TypeOK, cwq_vars, work_vars, wq_vars
  <1>3. /\ SchedTypeOK' /\ UNCHANGED onrq /\ (\A u \in User : state'[u] = state[u])
        /\ state'[Worker] = IF stop THEN RUNNING ELSE state[Worker]
    <2>1. CASE stop
      BY <2>1, WorkqueueAssumption, SettingState, Zenon DEF WorkerShouldStop, TypeOK, TaskStates, User
    <2>2. CASE ~(stop)
      BY <2>2, Zenon DEF WorkerShouldStop, TypeOK, SchedTypeOK, sched_vars
    <2> QED
      BY <2>1, <2>2, Zenon
  <1>4. RunInv'
    BY <1>1, <1>2, Zenon DEF RunInv
  <1>5. WorkerInv'
    BY <1>1, <1>2, <1>3, Zenon DEF WorkerInv, WorkerMoves
  <1>6. ClaimInv'
    <2>1. \A u \in User, x \in Work : UserClaims(u, x)' <=> UserClaims(u, x)
      BY <1>1, Zenon DEF WorkerMoves, UserClaims
    <2> QED
      BY <1>1, <1>2, <2>1, ClaimFrame, Zenon
  <1>7. KillInv'
    BY <1>1, <1>2, Zenon DEF KillInv
  <1>8. DestroyInv'
    <2>1. stop => ~live /\ worklist = <<>> /\ running = <<>>
      BY Zenon DEF FnInv, DestroyInv
    <2> QED
      BY <1>1, <1>2, <2>1, Zenon DEF DestroyInv, WorkerMoves
  <1> QED
    BY <1>1, <1>2, <1>3, <1>4, <1>5, <1>6, <1>7, <1>8, WorkerFrame, Zenon DEF WorkerLabels

\* The worker queues its entry before it looks at the list.
LEMMA WorkerAddWaitInv ==
  ASSUME IInv, WorkerAddWait
  PROVE  IInv'
  <1> USE DEF IInv
  <1>1. WorkerMoves /\ pc[Worker] = "add_wait" /\ pc'[Worker] = "test"
    BY WorkerGoing, Zenon DEF WorkerAddWait, At, WorkerLabels
  <1>2. /\ UNCHANGED <<insert_sequence, remove_sequence, worklist, work_done, running>> /\ UNCHANGED work_vars
        /\ UNCHANGED <<stop, live>> /\ more_work' = TRUE /\ more_work' \in BOOLEAN /\ mutex' \in Task \union {NoTask}
    BY WorkqueueAssumption, Zenon DEF WorkerAddWait, TypeOK, cwq_vars, wq_vars
  <1>3. SchedTypeOK' /\ UNCHANGED <<state, onrq>>
    BY Zenon DEF WorkerAddWait, TypeOK, SchedTypeOK, TaskStates, User, sched_vars
  <1>4. RunInv'
    BY <1>1, <1>2, Zenon DEF RunInv
  <1>5. WorkerInv'
    BY <1>1, <1>2, <1>3, Zenon DEF WorkerInv, WorkerMoves
  <1> QED
    BY <1>1, <1>2, <1>3, <1>4, <1>5, QuietWorkerFrame, Zenon DEF WorkerLabels

\* The unlocked look at the list.
LEMMA WorkerTestInv ==
  ASSUME IInv, WorkerTest
  PROVE  IInv'
  <1> USE DEF IInv
  <1>1. WorkerMoves /\ pc[Worker] = "test" /\ pc'[Worker] = IF worklist = <<>> THEN "schedule" ELSE "remove_wait"
    BY WorkerGoing, Zenon DEF WorkerTest, At, WorkerLabels
  <1>2. /\ UNCHANGED <<insert_sequence, remove_sequence, worklist, work_done, running>> /\ UNCHANGED work_vars
        /\ UNCHANGED <<stop, live>> /\ more_work' = more_work /\ more_work' \in BOOLEAN /\ mutex' \in Task \union {NoTask}
    BY WorkqueueAssumption, Zenon DEF WorkerTest, TypeOK, cwq_vars, wq_vars
  <1>3. SchedTypeOK' /\ UNCHANGED onrq /\ (\A u \in User : state'[u] = state[u])
        /\ state'[Worker] = IF worklist = <<>> THEN state[Worker] ELSE RUNNING
    <2>1. CASE worklist # <<>>
      BY <2>1, WorkqueueAssumption, SettingState, Zenon DEF WorkerTest, TypeOK, TaskStates, User
    <2>2. CASE ~(worklist # <<>>)
      BY <2>2, Zenon DEF WorkerTest, TypeOK, SchedTypeOK, sched_vars
    <2> QED
      BY <2>1, <2>2, Zenon
  <1>4. RunInv'
    BY <1>1, <1>2, Zenon DEF RunInv
  <1>5. WorkerInv'
    BY <1>1, <1>2, <1>3, Zenon DEF WorkerInv, WorkerMoves
  <1> QED
    BY <1>1, <1>2, <1>3, <1>4, <1>5, QuietWorkerFrame, Zenon DEF WorkerLabels

\* The worker sleeps unless it was woken since it declared itself sleeping.
LEMMA WorkerScheduleInv ==
  ASSUME IInv, WorkerSchedule
  PROVE  IInv'
  <1> USE DEF IInv
  <1>1. WorkerMoves /\ pc[Worker] = "schedule" /\ pc'[Worker] = "remove_wait"
    BY WorkerGoing, Zenon DEF WorkerSchedule, At, WorkerLabels
  <1>2. /\ UNCHANGED <<insert_sequence, remove_sequence, worklist, work_done, running>> /\ UNCHANGED work_vars
        /\ UNCHANGED <<stop, live>> /\ more_work' = more_work /\ more_work' \in BOOLEAN /\ mutex' \in Task \union {NoTask}
    BY WorkqueueAssumption, Zenon DEF WorkerSchedule, TypeOK, cwq_vars, wq_vars
  <1>3. SchedTypeOK' /\ UNCHANGED state /\ onrq'[Worker] = (state[Worker] = RUNNING) /\ \A u \in User : onrq'[u] = onrq[u]
    BY WorkqueueAssumption, Scheduling, Zenon DEF WorkerSchedule, TypeOK, User
  <1>4. RunInv'
    BY <1>1, <1>2, Zenon DEF RunInv
  <1>5. WorkerInv'
    BY <1>1, <1>2, <1>3, Zenon DEF WorkerInv, WorkerMoves
  <1> QED
    BY <1>1, <1>2, <1>3, <1>4, <1>5, QuietWorkerFrame, Zenon DEF WorkerLabels

\* remove_wait_queue()
LEMMA WorkerRemoveWaitInv ==
  ASSUME IInv, WorkerRemoveWait
  PROVE  IInv'
  <1> USE DEF IInv
  <1>1. WorkerMoves /\ pc[Worker] = "remove_wait" /\ onrq[Worker] /\ pc'[Worker] = "retest"
    BY WorkerGoing, Zenon DEF WorkerRemoveWait, At, WorkerLabels
  <1>2. /\ UNCHANGED <<insert_sequence, remove_sequence, worklist, work_done, running>> /\ UNCHANGED work_vars
        /\ UNCHANGED <<stop, live>> /\ more_work' = FALSE /\ more_work' \in BOOLEAN /\ mutex' \in Task \union {NoTask}
    BY WorkqueueAssumption, Zenon DEF WorkerRemoveWait, TypeOK, cwq_vars, wq_vars
  <1>3. SchedTypeOK' /\ UNCHANGED <<state, onrq>>
    BY Zenon DEF WorkerRemoveWait, TypeOK, SchedTypeOK, TaskStates, User, sched_vars
  <1>4. RunInv'
    BY <1>1, <1>2, Zenon DEF RunInv
  <1>5. WorkerInv'
    BY <1>1, <1>2, <1>3, Zenon DEF WorkerInv, WorkerMoves
  <1> QED
    BY <1>1, <1>2, <1>3, <1>4, <1>5, QuietWorkerFrame, Zenon DEF WorkerLabels

\* The second look at the list.
LEMMA WorkerRetestInv ==
  ASSUME IInv, WorkerRetest
  PROVE  IInv'
  <1> USE DEF IInv
  <1>1. WorkerMoves /\ pc[Worker] = "retest" /\ pc'[Worker] \in {"run", "set_state"}
    BY WorkerGoing, Zenon DEF WorkerRetest, At, WorkerLabels
  <1>2. /\ UNCHANGED <<insert_sequence, remove_sequence, worklist, work_done, running>> /\ UNCHANGED work_vars
        /\ UNCHANGED <<stop, live>> /\ more_work' = more_work /\ more_work' \in BOOLEAN /\ mutex' \in Task \union {NoTask}
    BY WorkqueueAssumption, Zenon DEF WorkerRetest, TypeOK, cwq_vars, wq_vars
  <1>3. SchedTypeOK' /\ UNCHANGED <<state, onrq>>
    BY Zenon DEF WorkerRetest, TypeOK, SchedTypeOK, TaskStates, User, sched_vars
  <1>4. RunInv'
    BY <1>1, <1>2, WorkqueueAssumption DEF RunInv
  <1>5. WorkerInv'
    BY <1>1, <1>2, <1>3, Zenon DEF WorkerInv, WorkerMoves
  <1> QED
    BY <1>1, <1>2, <1>3, <1>4, <1>5, QuietWorkerFrame, Zenon DEF WorkerLabels

\* The claim of the worker ends before the function is called.
LEMMA WorkerClearInv ==
  ASSUME IInv, WorkerClear
  PROVE  IInv'
  <1> USE DEF IInv
  <1>1. WorkerMoves /\ pc[Worker] = "clear_pending" /\ pc'[Worker] = "func"
    BY WorkerGoing, Zenon DEF WorkerClear, At, WorkerLabels
  <1>2. /\ UNCHANGED <<insert_sequence, remove_sequence, worklist, work_done, running>>
        /\ UNCHANGED <<timer, killed>> /\ UNCHANGED <<stop, live>> /\ timer' \in [Work -> BOOLEAN]
        /\ more_work' = more_work /\ more_work' \in BOOLEAN /\ mutex' \in Task \union {NoTask}
        /\ SchedTypeOK' /\ UNCHANGED <<state, onrq>> /\ Top' = Top
    BY Zenon DEF WorkerClear, TypeOK, SchedTypeOK, cwq_vars, wq_vars, sched_vars, Top
  <1>3. pending' \in [Work -> BOOLEAN] /\ \A x \in Work : pending'[x] = IF x = Top.work THEN FALSE ELSE pending[x]
    BY Zenon DEF WorkerClear, TypeOK
  <1>4. Top.work \in Work /\ WorkerClaims(Top.work) /\ pending[Top.work]
    <2>1. Top.work \in Work
      BY <1>1, StackTop, Zenon DEF TypeOK, RunInv
    <2> QED
      BY <1>1, <2>1, Zenon DEF WorkerClaims, ClaimInv, OneClaim
  <1>5. ClaimInv'
    <2> SUFFICES ASSUME NEW x \in Work PROVE OneClaim(x)'
      BY Zenon DEF ClaimInv
    <2>1. /\ OneClaim(x) /\ (Queued(x)' <=> Queued(x)) /\ ~WorkerClaims(x)' /\ (WorkerClaims(x) <=> x = Top.work)
          /\ timer'[x] = timer[x] /\ \A u \in User : UserClaims(u, x)' <=> UserClaims(u, x)
      BY <1>1, <1>2, Zenon DEF ClaimInv, Queued, WorkerClaims, UserClaims, WorkerMoves
    <2>2. CASE x # Top.work
      BY <1>3, <2>1, <2>2, OneClaimFrame, Zenon
    <2>3. CASE x = Top.work
      BY <1>3, <1>4, <2>1, <2>3, Zenon DEF OneClaim
    <2> QED
      BY <2>2, <2>3, Zenon
  <1>6. KillInv'
    BY <1>1, <1>2, <1>3, <1>4, WorkqueueAssumption, Zenon DEF KillInv, TypeOK
  <1>7. RunInv'
    BY <1>1, <1>2, Zenon DEF RunInv
  <1>8. WorkerInv'
    BY <1>1, <1>2, Zenon DEF WorkerInv, WorkerMoves
  <1>9. DestroyInv'
    BY <1>1, <1>2, Zenon DEF DestroyInv, WorkerMoves
  <1> QED
    BY <1>1, <1>2, <1>3, <1>5, <1>6, <1>7, <1>8, <1>9, WorkerFrame, Zenon DEF WorkerLabels

\* The function rearms its work, which is not one that was killed.
LEMMA FuncRearmInv ==
  ASSUME IInv, FuncRearm
  PROVE  IInv'
  <1> USE DEF IInv
  <1>1. WorkerMoves /\ pc[Worker] = "func" /\ pc'[Worker] = "func_end"
    BY WorkerGoing, Zenon DEF FuncRearm, At, WorkerLabels
  <1>2. /\ UNCHANGED <<insert_sequence, remove_sequence, worklist, work_done, running>>
        /\ UNCHANGED killed /\ UNCHANGED <<stop, live>>
        /\ more_work' = more_work /\ more_work' \in BOOLEAN /\ mutex' \in Task \union {NoTask}
        /\ SchedTypeOK' /\ UNCHANGED <<state, onrq>> /\ Top' = Top
    BY Zenon DEF FuncRearm, TypeOK, SchedTypeOK, cwq_vars, wq_vars, sched_vars, Top
  <1>3. Top.work \in Work /\ Top.work \in Rearming /\ Top.work \notin killed /\ ~pending[Top.work]
    BY <1>1, StackTop, Zenon DEF FuncRearm, TypeOK, RunInv, KillInv
  <1>4. /\ pending' \in [Work -> BOOLEAN] /\ timer' \in [Work -> BOOLEAN]
        /\ \A x \in Work : /\ pending'[x] = IF x = Top.work THEN TRUE ELSE pending[x]
                           /\ timer'[x] = IF x = Top.work THEN TRUE ELSE timer[x]
    BY <1>3, Zenon DEF FuncRearm, TypeOK
  <1>5. ClaimInv'
    <2> SUFFICES ASSUME NEW x \in Work PROVE OneClaim(x)'
      BY Zenon DEF ClaimInv
    <2>1. /\ OneClaim(x) /\ (Queued(x)' <=> Queued(x)) /\ ~WorkerClaims(x)' /\ ~WorkerClaims(x)
          /\ \A u \in User : UserClaims(u, x)' <=> UserClaims(u, x)
      BY <1>1, <1>2, Zenon DEF ClaimInv, Queued, WorkerClaims, UserClaims, WorkerMoves
    <2>2. CASE x # Top.work
      BY <1>4, <2>1, <2>2, OneClaimFrame, Zenon
    <2>3. CASE x = Top.work
      BY <1>3, <1>4, <2>1, <2>3, Zenon DEF OneClaim
    <2> QED
      BY <2>2, <2>3, Zenon
  <1>6. KillInv'
    BY <1>1, <1>2, <1>3, <1>4, WorkqueueAssumption, Zenon DEF KillInv, TypeOK
  <1>7. RunInv'
    BY <1>1, <1>2, Zenon DEF RunInv
  <1>8. WorkerInv'
    BY <1>1, <1>2, Zenon DEF WorkerInv, WorkerMoves
  <1>9. DestroyInv'
    <2>1. live
      BY <1>3, Zenon DEF DestroyInv
    <2> QED
      BY <1>1, <1>2, <2>1, Zenon DEF DestroyInv, WorkerMoves
  <1> QED
    BY <1>1, <1>2, <1>4, <1>5, <1>6, <1>7, <1>8, <1>9, WorkerFrame, Zenon DEF WorkerLabels

\* The function returns.
LEMMA FuncOtherInv ==
  ASSUME IInv, FuncOther
  PROVE  IInv'
  <1> USE DEF IInv
  <1>1. WorkerMoves /\ pc[Worker] = "func" /\ pc'[Worker] = "func_end"
    BY WorkerGoing, Zenon DEF FuncOther, At, WorkerLabels
  <1>2. /\ UNCHANGED <<insert_sequence, remove_sequence, worklist, work_done, running>> /\ UNCHANGED work_vars
        /\ UNCHANGED <<stop, live>> /\ more_work' = more_work /\ more_work' \in BOOLEAN /\ mutex' \in Task \union {NoTask}
    BY WorkqueueAssumption, Zenon DEF FuncOther, TypeOK, cwq_vars, wq_vars
  <1>3. SchedTypeOK' /\ UNCHANGED <<state, onrq>>
    BY Zenon DEF FuncOther, TypeOK, SchedTypeOK, TaskStates, User, sched_vars
  <1>4. RunInv'
    BY <1>1, <1>2, Zenon DEF RunInv
  <1>5. WorkerInv'
    BY <1>1, <1>2, <1>3, Zenon DEF WorkerInv, WorkerMoves
  <1> QED
    BY <1>1, <1>2, <1>3, <1>4, <1>5, QuietWorkerFrame, Zenon DEF WorkerLabels

\* The function flushes its own queue.
LEMMA FuncFlushInv ==
  ASSUME IInv, FuncFlush
  PROVE  IInv'
  <1> USE DEF IInv
  <1>1. WorkerMoves /\ pc[Worker] = "func" /\ pc'[Worker] = "func_mutex" /\ NESTED /\ Len(running) < MaxDepth
    BY WorkerGoing, Zenon DEF FuncFlush, At, WorkerLabels
  <1>2. /\ UNCHANGED <<insert_sequence, remove_sequence, worklist, work_done, running>> /\ UNCHANGED work_vars
        /\ UNCHANGED <<stop, live>> /\ more_work' = more_work /\ more_work' \in BOOLEAN /\ mutex' \in Task \union {NoTask}
    BY WorkqueueAssumption, Zenon DEF FuncFlush, TypeOK, cwq_vars, wq_vars
  <1>3. SchedTypeOK' /\ UNCHANGED <<state, onrq>>
    BY Zenon DEF FuncFlush, TypeOK, SchedTypeOK, TaskStates, User, sched_vars
  <1>4. RunInv'
    BY <1>1, <1>2, Zenon DEF RunInv
  <1>5. WorkerInv'
    BY <1>1, <1>2, <1>3, Zenon DEF WorkerInv, WorkerMoves
  <1> QED
    BY <1>1, <1>2, <1>3, <1>4, <1>5, QuietWorkerFrame, Zenon DEF WorkerLabels

\* It does so under workqueue_mutex.
LEMMA FuncMutexInv ==
  ASSUME IInv, FuncMutex
  PROVE  IInv'
  <1> USE DEF IInv
  <1>1. WorkerMoves /\ pc[Worker] = "func_mutex" /\ pc'[Worker] = "run"
    BY WorkerGoing, Zenon DEF FuncMutex, At, WorkerLabels
  <1>2. /\ UNCHANGED <<insert_sequence, remove_sequence, worklist, work_done, running>> /\ UNCHANGED work_vars
        /\ UNCHANGED <<stop, live>> /\ more_work' = more_work /\ more_work' \in BOOLEAN /\ mutex' \in Task \union {NoTask}
    BY WorkqueueAssumption, Zenon DEF FuncMutex, TypeOK, cwq_vars, wq_vars
  <1>3. SchedTypeOK' /\ UNCHANGED <<state, onrq>>
    BY Zenon DEF FuncMutex, TypeOK, SchedTypeOK, TaskStates, User, sched_vars
  <1>4. RunInv'
    BY <1>1, <1>2, Zenon DEF RunInv
  <1>5. WorkerInv'
    BY <1>1, <1>2, <1>3, Zenon DEF WorkerInv, WorkerMoves
  <1> QED
    BY <1>1, <1>2, <1>3, <1>4, <1>5, QuietWorkerFrame, Zenon DEF WorkerLabels

-----------------------------------------------------------------------------
(* There are not too many works.                                           *)

\* A list on which no work is twice is short against the sequence numbers.
LEMMA ListBounded ==
  ASSUME worklist \in Seq(Entry), OnceInv
  PROVE  Len(worklist) \in Nat /\ Len(worklist) + MaxDepth < Width \div 2
  <1>1. /\ Len(worklist) \in Nat /\ DOMAIN worklist = 1 .. Len(worklist)
        /\ \A i \in 1 .. Len(worklist) : worklist[i] \in Entry
    OBVIOUS
  <1>2. Width \in Nat /\ MaxDepth \in Nat /\ Width \div 2 \in Nat /\ Width \div 2 <= Width
    BY WorkqueueAssumption
  <1>3. ASSUME NEW n \in 0 .. Width, n <= Len(worklist)
        PROVE  n + MaxDepth < Width \div 2
    <2> DEFINE f == [i \in 1 .. n |-> worklist[i].work]
    <2>1. f \in [1 .. n -> Work]
      BY <1>1, <1>2, <1>3 DEF Entry
    <2>2. ASSUME NEW i \in 1 .. n, NEW j \in 1 .. n, f[i] = f[j] PROVE i = j
      BY <1>1, <1>2, <1>3, <2>2 DEF OnceInv
    <2> HIDE DEF f
    <2> QED
      BY <2>1, <2>2, WidthAssumption, Zenon
  <1>4. CASE Len(worklist) <= Width
    BY <1>1, <1>2, <1>3, <1>4
  <1>5. CASE Width < Len(worklist)
    BY <1>1, <1>2, <1>3, <1>5
  <1> QED
    BY <1>1, <1>2, <1>4, <1>5

\* What is queued or being run is less than half of the sequence numbers.
LEMMA BoundedInv == IInv => Bounded
  <1> SUFFICES ASSUME IInv PROVE Bounded
    BY Zenon
  <1>1. Len(worklist) \in Nat /\ Len(worklist) + MaxDepth < Width \div 2
    BY ListBounded, Zenon DEF IInv, TypeOK
  <1>2. Len(running) \in Nat /\ Len(running) <= MaxDepth
    BY DEF IInv, TypeOK, RunInv
  <1>3. Width \div 2 \in Int /\ MaxDepth \in Nat
    BY WorkqueueAssumption
  <1> QED
    BY <1>1, <1>2, <1>3 DEF Bounded

-----------------------------------------------------------------------------
(* The invariant holds.                                                    *)

LEMMA InitInv == Init => IInv
  <1> SUFFICES ASSUME Init PROVE IInv
    BY Zenon
  <1> USE WorkqueueAssumption DEF Init, SchedInit
  <1>a. /\ pc[Worker] = "set_state" /\ \A t \in User : pc[t] = "out"
        /\ Len(worklist) = 0 /\ Len(running) = 0 /\ DOMAIN worklist = {} /\ DOMAIN running = {}
    BY DEF User
  <1>b. \A w \in Work : (pending[w] <=> w \in Rearming) /\ (timer[w] <=> w \in Rearming)
    BY Zenon
  <1>0. /\ pc[Worker] = "set_state" /\ \A t \in User : pc[t] = "out"
        /\ Len(worklist) = 0 /\ Len(running) = 0 /\ DOMAIN worklist = {} /\ DOMAIN running = {}
        /\ \A w \in Work : (pending[w] <=> w \in Rearming) /\ (timer[w] <=> w \in Rearming)
    BY <1>a, <1>b, Zenon
  <1>1. TypeOK
    <2>1. pending \in [Work -> BOOLEAN] /\ timer \in [Work -> BOOLEAN]
      <3>1. \A w \in Work : (w \in Rearming) \in BOOLEAN
        OBVIOUS
      <3>2. [w \in Work |-> w \in Rearming] \in [Work -> BOOLEAN]
        BY <3>1, Zenon
      <3> QED
        BY <3>2, Zenon
    <2>2. SchedTypeOK
      BY Zenon DEF SchedTypeOK, TaskStates
    <2>3. worklist \in Seq(Entry) /\ running \in Seq(Entry)
      OBVIOUS
    <2> QED
      BY <2>1, <2>2, <2>3, Resets, Zenon DEF TypeOK, UserLabels, WorkerLabels
  <1>2. LabelInv /\ FnInv /\ OnceInv /\ KillInv /\ NeededInv /\ RunInv
    <2>1. LabelInv /\ FnInv /\ OnceInv /\ NeededInv
      BY <1>0, Zenon DEF LabelInv, FnInv, OnceInv, NeededInv, UserLabels, WorkerLabels
    <2>2. KillInv
      BY <1>0, Zenon DEF KillInv
    <2>3. RunInv
      BY <1>0 DEF RunInv
    <2> QED
      BY <2>1, <2>2, <2>3, Zenon
  <1>3. ClaimInv
    BY <1>0, Zenon DEF ClaimInv, OneClaim, UserClaims, WorkerClaims, Queued
  <1>4. SeqInv
    <2>1. (0 - 0) % Width = 0
      BY Resets, Ageing, Zenon
    <2> QED
      BY <1>0, <2>1 DEF SeqInv, SequencesCountWork
  <1>5. FlusherInv /\ WorkerInv
    BY <1>0, Zenon DEF FlusherInv, WorkerInv, User
  <1>6. DestroyInv
    BY <1>0, Zenon DEF DestroyInv
  <1> QED
    BY <1>1, <1>2, <1>3, <1>4, <1>5, <1>6, Zenon DEF IInv

\* Nothing happens.
LEMMA StutterInv == IInv /\ UNCHANGED vars => IInv'
  <1> SUFFICES ASSUME IInv, UNCHANGED vars PROVE IInv'
    BY Zenon
  <1> USE DEF IInv, vars, cwq_vars, work_vars, wq_vars, user_vars, sched_vars
  <1>1. TypeOK'
    BY Zenon DEF TypeOK, SchedTypeOK
  <1>2. LabelInv' /\ FnInv' /\ OnceInv' /\ KillInv' /\ NeededInv' /\ RunInv' /\ SeqInv'
    BY Zenon DEF LabelInv, FnInv, OnceInv, KillInv, NeededInv, RunInv, SeqInv, SequencesCountWork, Age, Top
  <1>3. ClaimInv'
    BY DEF ClaimInv, OneClaim, UserClaims, WorkerClaims, Queued, Top
  <1>4. FlusherInv' /\ WorkerInv' /\ DestroyInv'
    BY Zenon DEF FlusherInv, WorkerInv, DestroyInv
  <1> QED
    BY <1>1, <1>2, <1>3, <1>4, Zenon

\* The invariant is inductive.
LEMMA NextInv == IInv /\ Bounded /\ [Next]_vars => IInv'
  <1> SUFFICES ASSUME IInv, Bounded, [Next]_vars PROVE IInv'
    BY Zenon
  <1>1. ASSUME NEW t \in User, Request(t) PROVE IInv'
    <2>1. ASSUME NEW w \in Work, queue_work(t, w, "add") \/ queue_work(t, w, "arm") PROVE IInv'
      BY <2>1, Queue_workInv, Zenon
    <2>2. ASSUME NEW w \in Work, cancel_delayed_work(t, w) PROVE IInv'
      BY <2>2, Cancel_delayed_workInv, Zenon
    <2> QED
      BY <1>1, <2>1, <2>2, Flush_workqueueInv, Destroy_workqueueInv, Create_workqueueInv, Zenon DEF Request
  <1>2. ASSUME NEW t \in User, UserStep(t) PROVE IInv'
    BY <1>2, QueueAddInv, ArmTimerInv, CancelTimerInv, CancelClearInv, CancelFailedInv, FlushMutexInv,
       FlushInv, FlushScheduleInv, FlushAgainInv, CleanupInv, StopStoreInv, StopWakeInv, StopWaitInv, ZenonT(40)
       DEF UserStep
  <1>3. ASSUME WorkerStep PROVE IInv'
    BY <1>3, WorkerSetStateInv, WorkerShouldStopInv, WorkerAddWaitInv, WorkerTestInv, WorkerScheduleInv,
       WorkerRemoveWaitInv, WorkerRetestInv, Run_workqueueInv, WorkerClearInv, FuncRearmInv, FuncOtherInv,
       FuncFlushInv, FuncMutexInv, FuncEndInv, ZenonT(40)
       DEF WorkerStep
  <1> QED
    BY <1>1, <1>2, <1>3, Delayed_work_timer_fnInv, StutterInv, Zenon DEF Next


-----------------------------------------------------------------------------
(* The end of a flush.                                                     *)

\* The sequence number a flusher that looks now waits for.
Target(t) == IF pc[t] = "flush" THEN insert_sequence ELSE needed[t]

Leaves(t) == pc[t] \in {"flush", "flush_again"} /\ pc'[t] \in {"out", "cancel", "cleanup"}

\* Only the flusher itself ends its flush, and only when what it waits for has been
\* removed.
LEMMA FlushEnds ==
  ASSUME IInv, Next, NEW t \in User, Leaves(t)
  PROVE  ~Ahead(Target(t), remove_sequence)
  <1> USE DEF At, Goto
  <1>1. /\ pc \in [Task -> UserLabels \union WorkerLabels] /\ t \in Task /\ t # Worker /\ pc'[t] # pc[t]
        /\ pc[t] \in {"flush", "flush_again"}
    BY Zenon DEF IInv, TypeOK, User, Leaves
  <1>2. ASSUME NEW u \in User, Request(u) PROVE FALSE
    <2>1. \A w \in Work : ~queue_work(u, w, "add") /\ ~queue_work(u, w, "arm") /\ ~cancel_delayed_work(u, w)
      BY <1>1, Zenon DEF queue_work, cancel_delayed_work, Begin
    <2>2. ~flush_workqueue(u) /\ ~destroy_workqueue(u)
      BY <1>1, Zenon DEF flush_workqueue, destroy_workqueue, Begin
    <2>3. ~create_workqueue(u)
      BY <1>1, Zenon DEF create_workqueue
    <2> QED
      BY <1>2, <2>1, <2>2, <2>3, Zenon DEF Request
  <1>3. ASSUME NEW u \in User, UserStep(u) PROVE u = t /\ (Flush(t) \/ FlushAgain(t))
    <2>1. ~QueueAdd(u) /\ ~ArmTimer(u) /\ ~CancelTimer(u) /\ ~CancelClear(u)
      BY <1>1, Zenon DEF QueueAdd, ArmTimer, CancelTimer, CancelClear, Return
    <2>2. ~CancelFailed(u)
      BY <1>1, Zenon DEF CancelFailed, Return
    <2>3. ~FlushMutex(u) /\ ~FlushSchedule(u) /\ ~Cleanup(u)
      BY <1>1, Zenon DEF FlushMutex, FlushSchedule, Cleanup
    <2>4. ~StopStore(u) /\ ~StopWake(u) /\ ~StopWait(u)
      BY <1>1, Zenon DEF StopStore, StopWake, StopWait, Return
    <2>5. ASSUME Flush(u) \/ FlushAgain(u) PROVE u = t
      <3>1. PICK s : FlushWait(u, s)
        BY <2>5, Zenon DEF Flush, FlushAgain
      <3>2. fn[u] \in {"flush", "cancel_rearming", "destroy"}
        BY <2>5, Zenon DEF IInv, FnInv, Flush, FlushAgain
      <3>3. \E l : pc' = [pc EXCEPT ![u] = l]
        BY <3>1, <3>2, Zenon DEF FlushWait, FlushReturn, Return
      <3> QED
        BY <1>1, <3>3, Zenon
    <2> QED
      BY <1>3, <2>1, <2>2, <2>3, <2>4, <2>5, Zenon DEF UserStep
  <1>4. ASSUME NEW w \in Work, delayed_work_timer_fn(w) PROVE FALSE
    BY <1>1, <1>4, Zenon DEF delayed_work_timer_fn
  <1>5. ASSUME WorkerStep PROVE FALSE
    <2>1. \A l : ~(pc' = [pc EXCEPT ![Worker] = l])
      BY <1>1, Zenon
    <2>2. ~WorkerSetState /\ ~WorkerShouldStop /\ ~WorkerAddWait /\ ~WorkerTest /\ ~WorkerSchedule
      BY <2>1, Zenon DEF WorkerSetState, WorkerShouldStop, WorkerAddWait, WorkerTest, WorkerSchedule
    <2>3. ~WorkerRemoveWait /\ ~WorkerRetest /\ ~WorkerClear /\ ~FuncRearm /\ ~FuncOther /\ ~FuncFlush /\ ~FuncMutex
      BY <2>1, Zenon DEF WorkerRemoveWait, WorkerRetest, WorkerClear, FuncRearm, FuncOther, FuncFlush, FuncMutex
    <2>4. ~run_workqueue /\ ~FuncEnd
      BY <2>1, Zenon DEF run_workqueue, FuncEnd, TakeNext
    <2> QED
      BY <1>5, <2>2, <2>3, <2>4, Zenon DEF WorkerStep
  <1>6. FlushWait(t, Target(t))
    BY <1>2, <1>3, <1>4, <1>5, Zenon DEF Next, Flush, FlushAgain, Target
  <1>7. ~(pc'[t] = "flush_schedule")
    BY Zenon DEF Leaves
  <1> QED
    BY <1>1, <1>6, <1>7, Zenon DEF FlushWait

\* When remove_sequence has reached seq, so have the numbers of all the works that
\* are still queued or, where functions do not flush, being run.
LEMMA FlushCovers ==
  ASSUME IInv, Bounded, NEW seq \in 0 .. Width - 1, Age(seq) < Width \div 2, ~Ahead(seq, remove_sequence)
  PROVE  /\ \A i \in DOMAIN worklist : ~Ahead(seq, worklist[i].seq)
         /\ ~NESTED => \A i \in DOMAIN running : ~Ahead(seq, running[i].seq)
  <1> USE DEF IInv
  <1>1. /\ insert_sequence \in 0 .. Width - 1 /\ remove_sequence \in 0 .. Width - 1 /\ Width \in Nat
        /\ worklist \in Seq(Entry) /\ running \in Seq(Entry)
    BY WorkqueueAssumption, Zenon DEF TypeOK
  <1>2. /\ Age(remove_sequence) = Len(worklist) + Len(running) /\ Age(remove_sequence) < Width \div 2
        /\ Len(worklist) \in Nat /\ Len(running) \in Nat
    BY DEF TypeOK, SeqInv, SequencesCountWork, Age, Bounded
  <1>3. Age(seq) \in 0 .. Width - 1 /\ Age(remove_sequence) <= Age(seq)
    <2>1. Age(seq) \in 0 .. Width - 1 /\ Age(remove_sequence) \in 0 .. Width - 1
      BY <1>1, Ageing, Zenon DEF Age
    <2>2. ~(Age(remove_sequence) > Age(seq))
      BY <1>1, <1>2, Comparing, Zenon DEF Age
    <2> QED
      BY <2>1, <2>2
  <1>4. ASSUME NEW s \in 0 .. Width - 1, Age(s) <= Age(remove_sequence) PROVE ~Ahead(seq, s)
    <2>1. Age(s) \in 0 .. Width - 1
      BY <1>1, Ageing, Zenon DEF Age
    <2> QED
      BY <1>1, <1>2, <1>3, <1>4, <2>1, Comparing DEF Age
  <1>5. ASSUME NEW i \in DOMAIN worklist PROVE ~Ahead(seq, worklist[i].seq)
    <2>1. i \in 1 .. Len(worklist) /\ worklist[i] \in Entry /\ Age(worklist[i].seq) = Len(worklist) - i + 1
      BY <1>1 DEF SeqInv
    <2>2. worklist[i].seq \in 0 .. Width - 1 /\ Age(worklist[i].seq) <= Age(remove_sequence)
      BY <1>2, <2>1 DEF Entry
    <2> QED
      BY <1>4, <2>2, Zenon
  <1>6. ASSUME ~NESTED, NEW i \in DOMAIN running PROVE ~Ahead(seq, running[i].seq)
    <2>1. i \in 1 .. Len(running) /\ running[i] \in Entry /\ Age(running[i].seq) = Len(worklist) + 1
      BY <1>1, <1>6 DEF SeqInv
    <2>2. running[i].seq \in 0 .. Width - 1 /\ Age(running[i].seq) <= Age(remove_sequence)
      BY <1>2, <2>1 DEF Entry
    <2> QED
      BY <1>4, <2>2, Zenon
  <1> QED
    BY <1>5, <1>6, Zenon

-----------------------------------------------------------------------------
(* The theorems.                                                           *)

\* The inductive invariant holds in every behaviour of the workqueue.
THEOREM Invariance == Spec => []IInv
  BY InitInv, NextInv, BoundedInv, PTL DEF Spec

\* The state of the workqueue keeps its type.
THEOREM TypeCorrect == Spec => []TypeOK
  <1>1. IInv => TypeOK
    BY Zenon DEF IInv
  <1> QED
    BY <1>1, Invariance, PTL

\* The pending bit of a work is set exactly while one party, and no more, is
\* bound to queue or to run it: a caller of queue_work() or queue_delayed_work(), a
\* canceller, the timer, the list or the worker.
THEOREM PendingIsOwned == Spec => []PendingHasOneOwner
  <1>1. ASSUME IInv, NEW w \in Work
        PROVE  IF pending[w] THEN \E c \in Claims(w) : Claims(w) = {c} ELSE Claims(w) = {}
    <2>1. OneClaim(w)
      BY <1>1, Zenon DEF IInv, ClaimInv
    <2>2. Claims(w) = {t \in User : UserClaims(t, w)}
                        \union (IF Queued(w) THEN {"list"} ELSE {})
                        \union (IF timer[w] THEN {"timer"} ELSE {})
                        \union (IF WorkerClaims(w) THEN {"worker"} ELSE {})
      BY Zenon DEF Claims, UserClaims, WorkerClaims
    <2>3. CASE pending[w]
      <3>1. CASE \E t \in User : UserClaims(t, w)
        <4>1. PICK t \in User : UserClaims(t, w)
          BY <3>1, Zenon
        <4>2. Claims(w) = {t}
          BY <2>1, <2>2, <4>1, Zenon DEF OneClaim
        <4> QED
          BY <2>3, <4>2, Zenon
      <3>2. CASE \A t \in User : ~UserClaims(t, w)
        <4>1. Claims(w) = {"list"} \/ Claims(w) = {"timer"} \/ Claims(w) = {"worker"}
          BY <2>1, <2>2, <2>3, <3>2, Zenon DEF OneClaim
        <4> QED
          BY <2>3, <4>1, Zenon
      <3> QED
        BY <3>1, <3>2, Zenon
    <2>4. CASE ~pending[w]
      BY <2>1, <2>2, <2>4, Zenon DEF OneClaim
    <2> QED
      BY <2>3, <2>4, Zenon
  <1>2. IInv => PendingHasOneOwner
    BY <1>1, Zenon DEF PendingHasOneOwner
  <1> QED
    BY <1>2, Invariance, PTL

\* insert_sequence - remove_sequence is the number of works that are queued or
\* being run, across every wrap of the two and however deep the functions nest.
THEOREM SequencesAgree == Spec => []SequencesCountWork
  <1>1. IInv => SequencesCountWork
    BY Zenon DEF IInv, SeqInv
  <1> QED
    BY <1>1, Invariance, PTL

\* worker_thread() looks at the list and at kthread_should_stop() without the lock;
\* it does not sleep through a work or through kthread_stop().
THEOREM WorkerIsWoken == Spec => []WorkerNotForgotten
  <1>1. IInv => WorkerNotForgotten
    BY Zenon DEF IInv, WorkerInv, WorkerNotForgotten
  <1> QED
    BY <1>1, Invariance, PTL

\* Who sleeps in flush_cpu_workqueue() is on work_done, and what it waits for has
\* not been done.
THEOREM FlusherIsWoken == Spec => []FlusherNotForgotten
  <1>1. IInv => FlusherNotForgotten
    BY Zenon DEF IInv, FlusherInv, FlusherNotForgotten
  <1> QED
    BY <1>1, Invariance, PTL

\* A workqueue is empty when destroy_workqueue() frees it.
THEOREM DestroyedIsEmpty == Spec => []DestroyedEmpty
  <1>1. ASSUME IInv, NEW t \in User, pc[t] = "stop_wait", pc[Worker] = "exited"
        PROVE  worklist = <<>> /\ running = <<>> /\ \A w \in Work : ~pending[w]
    <2>1. fn[t] = "destroy" /\ ~live /\ worklist = <<>> /\ running = <<>>
      BY <1>1, Zenon DEF IInv, FnInv, DestroyInv
    <2>2. \A w \in Work : ~Queued(w) /\ ~WorkerClaims(w) /\ ~timer[w]
      BY <1>1, <2>1 DEF IInv, DestroyInv, Queued, WorkerClaims
    <2>3. \A u \in User, w \in Work : ~UserClaims(u, w)
      BY <1>1, <2>1, Zenon DEF IInv, DestroyInv, FnInv, UserClaims
    <2> QED
      BY <1>1, <2>1, <2>2, <2>3, Zenon DEF IInv, ClaimInv, OneClaim
  <1>2. IInv => DestroyedEmpty
    BY <1>1, Zenon DEF DestroyedEmpty
  <1> QED
    BY <1>2, Invariance, PTL

\* cancel_rearming_delayed_work() has the last word, also against a function that
\* is running and rearms its work.
THEOREM KilledStaysDead == Spec => []CancelIsFinal
  <1>1. ASSUME IInv, NEW w \in killed PROVE ~pending[w] /\ Claims(w) = {} /\ (pc[Worker] = "func" => Top.work # w)
    <2>1. w \in Work /\ ~pending[w] /\ (pc[Worker] = "func" => Top.work # w)
      BY <1>1, WorkqueueAssumption, Zenon DEF IInv, TypeOK, KillInv
    <2>2. OneClaim(w)
      BY <1>1, <2>1, Zenon DEF IInv, ClaimInv
    <2> QED
      BY <2>1, <2>2, Zenon DEF OneClaim, Claims, UserClaims, WorkerClaims
  <1>2. IInv => CancelIsFinal
    BY <1>1, Zenon DEF CancelIsFinal
  <1> QED
    BY <1>2, Invariance, PTL

\* "we sleep until all works which were queued on entry have been handled": so it
\* is on every workqueue whose functions do not flush it, whatever is queued
\* meanwhile and wherever the sequence numbers wrap.
THEOREM FlushIsComplete ==
  ASSUME ~NESTED
  PROVE  Spec => FlushWaitsForQueued
  <1>1. ASSUME IInv, [Next]_vars
        PROVE  [\A t \in User : pc[t] \in {"flush", "flush_again"} /\ pc'[t] \in {"out", "cancel", "cleanup"} =>
                  \A q \in {worklist, running} : \A i \in DOMAIN q :
                    ~Ahead(IF pc[t] = "flush" THEN insert_sequence ELSE needed[t], q[i].seq)]_vars
    <2> SUFFICES ASSUME Next, NEW t \in User, Leaves(t),
                        NEW q \in {worklist, running}, NEW i \in DOMAIN q
                 PROVE  ~Ahead(Target(t), q[i].seq)
      BY <1>1, Zenon DEF Leaves, Target
    <2>1. ~Ahead(Target(t), remove_sequence)
      BY <1>1, FlushEnds, Zenon
    <2>2. Target(t) \in 0 .. Width - 1 /\ Age(Target(t)) < Width \div 2
      <3>1. CASE pc[t] = "flush"
        <4>1. insert_sequence \in 0 .. Width - 1 /\ Age(insert_sequence) = 0
          BY <1>1, Ageing, Zenon DEF IInv, TypeOK, Age
        <4>2. 0 < Width \div 2
          BY WorkqueueAssumption
        <4> QED
          BY <3>1, <4>1, <4>2, Zenon DEF Target
      <3>2. CASE pc[t] = "flush_again"
        BY <1>1, <3>2, Zenon DEF Target, IInv, TypeOK, NeededInv
      <3> QED
        BY <3>1, <3>2, Zenon DEF Leaves
    <2> QED
      BY <1>1, <2>1, <2>2, BoundedInv, FlushCovers, Zenon
  <1> QED
    BY <1>1, Invariance, PTL DEF Spec, FlushWaitsForQueued

=============================================================================
