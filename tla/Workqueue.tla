----------------------------- MODULE Workqueue -----------------------------
(***************************************************************************)
(* kernel/workqueue.c: one cpu_workqueue_struct with its worker thread,    *)
(* and the tasks that queue, delay, cancel and flush work, create and      *)
(* destroy the queue.  The target has one CPU, hence one cwq for a         *)
(* workqueue, single-threaded or not; the two differ in that flushing the  *)
(* latter takes workqueue_mutex.                                           *)
(*                                                                         *)
(* A section under cwq->lock is one step; the pending bit, the timer, the  *)
(* worker's unlocked looks at the list and its own state are steps of      *)
(* their own.  The sequence numbers are signed integers of finite width    *)
(* that wrap, as the code's longs do.                                      *)
(***************************************************************************)
EXTENDS WaitQueue

CONSTANTS Worker,         \* the worker thread, one of Task
          Work,           \* the work_structs
          Rearming,       \* the delayed works whose function rearms them
          SINGLETHREAD,   \* created by create_singlethread_workqueue()
          NESTED,         \* the functions may flush their own queue
          Width,          \* sequence numbers are integers mod Width
          MaxDepth        \* bound: run_workqueue() recursion

ASSUME WorkqueueAssumption ==
  /\ Worker \in Task
  /\ Work # {} /\ Rearming \subseteq Work
  /\ SINGLETHREAD \in BOOLEAN /\ NESTED \in BOOLEAN
  /\ Width \in Nat \ {0, 1} /\ MaxDepth \in Nat \ {0}

\* The longs do not wrap around the works there are: n different works on the list
\* and one per level of run_workqueue() are less than half of the numbers.
ASSUME WidthAssumption ==
  \A n \in 0 .. Width :
    (\E f \in [1 .. n -> Work] : \A i, j \in 1 .. n : f[i] = f[j] => i = j)
      => n + MaxDepth < Width \div 2

User == Task \ {Worker}

VARIABLES insert_sequence, remove_sequence,
          worklist,       \* entries [work, seq], seq being the insert_sequence
          more_work,      \* the worker's entry is on cwq->more_work
          work_done,      \* the flushers on cwq->work_done
          running,        \* the entries being run, the innermost last
          pending,        \* pending[w]: bit 0 of work->pending
          timer,          \* timer[w]: work->timer is pending
          mutex,          \* the owner of workqueue_mutex, or NoTask
          stop,           \* kthread_stop_info.k is the worker
          live,           \* the queue exists and nobody is destroying it
          killed,         \* what cancel_rearming_delayed_work() has killed
          fn, arg,        \* what a user does, and with which work
          needed,         \* needed[t]: sequence_needed of a flusher
          pc

cwq_vars == <<insert_sequence, remove_sequence, worklist, more_work, work_done, running>>
work_vars == <<pending, timer, killed>>
wq_vars == <<mutex, stop, live>>
user_vars == <<fn, arg, needed>>
vars == <<cwq_vars, work_vars, wq_vars, user_vars, pc, sched_vars>>

SomeWork == CHOOSE w \in Work : TRUE

Entry == [work : Work, seq : 0 .. Width - 1]

UserLabels == {"out", "add", "arm", "clear", "cancel", "flush_mutex", "flush", "flush_schedule",
               "flush_again", "cleanup", "stop_store", "stop_wake", "stop_wait"}

WorkerLabels == {"set_state", "should_stop", "add_wait", "test", "schedule", "remove_wait", "retest",
                 "run", "clear_pending", "func", "func_mutex", "func_end", "exited"}

TypeOK == /\ SchedTypeOK
          /\ insert_sequence \in 0 .. Width - 1 /\ remove_sequence \in 0 .. Width - 1
          /\ worklist \in Seq(Entry) /\ running \in Seq(Entry)
          /\ more_work \in BOOLEAN
          /\ work_done \subseteq User
          /\ pending \in [Work -> BOOLEAN]
          /\ timer \in [Work -> BOOLEAN]
          /\ mutex \in Task \union {NoTask}
          /\ stop \in BOOLEAN /\ live \in BOOLEAN
          /\ killed \subseteq Rearming
          /\ fn \in [User -> {"none", "queue", "cancel", "cancel_rearming", "flush", "destroy"}]
          /\ arg \in [User -> Work]
          /\ needed \in [User -> 0 .. Width - 1]
          /\ pc \in [Task -> UserLabels \union WorkerLabels]

\* A workqueue create_workqueue_thread() has just made and started, in which the
\* works that rearm themselves have been started.
Init == /\ SchedInit
        /\ insert_sequence = 0 /\ remove_sequence = 0
        /\ worklist = <<>> /\ running = <<>>
        /\ more_work = FALSE /\ work_done = {}
        /\ pending = [w \in Work |-> w \in Rearming]
        /\ timer = [w \in Work |-> w \in Rearming]
        /\ mutex = NoTask
        /\ stop = FALSE /\ live = TRUE
        /\ killed = {}
        /\ fn = [t \in User |-> "none"]
        /\ arg = [t \in User |-> SomeWork]
        /\ needed = [t \in User |-> 0]
        /\ pc = [t \in Task |-> IF t = Worker THEN "set_state" ELSE "out"]

At(t, l) == onrq[t] /\ pc[t] = l

Goto(t, l) == pc' = [pc EXCEPT ![t] = l]

\* A user's function returns.
Return(t) == /\ Goto(t, "out")
             /\ fn' = [fn EXCEPT ![t] = "none"]
             /\ arg' = [arg EXCEPT ![t] = SomeWork]
             /\ needed' = [needed EXCEPT ![t] = 0]

Incremented(seq) == (seq + 1) % Width

\* a - b > 0, in integers of finite width.
Ahead(a, b) == (a - b) % Width \in 1 .. Width \div 2 - 1

-----------------------------------------------------------------------------
(* Queueing.                                                               *)

\* Bound: no flusher is overtaken by half of the sequence numbers.
RoomFor(seq) == \A t \in User : pc[t] \in {"flush_schedule", "flush_again"} =>
                                 (seq - needed[t]) % Width < Width \div 2 - 1

\* Mutant: list_add() for list_add_tail().
queue_work_lockedAtHead(w) ==
  /\ RoomFor(insert_sequence)
  /\ worklist' = <<[work |-> w, seq |-> insert_sequence]>> \o worklist
  /\ insert_sequence' = Incremented(insert_sequence)
  /\ wake_up_entries(IF more_work THEN {Worker} ELSE {})
  /\ UNCHANGED <<remove_sequence, more_work, work_done, running>>

\* __queue_work(): the list, insert_sequence and the wake-up of the worker.
queue_work_locked(w) ==
  /\ RoomFor(insert_sequence)
  /\ worklist' = Append(worklist, [work |-> w, seq |-> insert_sequence])
  /\ insert_sequence' = Incremented(insert_sequence)
  /\ wake_up_entries(IF more_work THEN {Worker} ELSE {})
  /\ UNCHANGED <<remove_sequence, more_work, work_done, running>>

\* Mutant: the bit is only tested here and set with the insertion.
test_and_set_pendingLate(w) == ~pending[w] /\ UNCHANGED pending

\* test_and_set_bit(0, &work->pending), for a caller that goes on.
test_and_set_pending(w) == ~pending[w] /\ pending' = [pending EXCEPT ![w] = TRUE]

Begin(t, f, w) == /\ At(t, "out") /\ live
                  /\ fn' = [fn EXCEPT ![t] = f]
                  /\ arg' = [arg EXCEPT ![t] = w]
                  /\ UNCHANGED needed

\* queue_work(), and queue_delayed_work() with l = "arm".
queue_work(t, w, l) ==
  /\ Begin(t, "queue", w) /\ w \notin Rearming
  /\ test_and_set_pending(w)
  /\ Goto(t, l)
  /\ UNCHANGED <<cwq_vars, timer, killed, wq_vars, sched_vars>>

QueueAdd(t) ==
  /\ At(t, "add")
  /\ queue_work_locked(arg[t])
  /\ Return(t)
  /\ UNCHANGED <<work_vars, wq_vars>>

\* add_timer(&work->timer)
ArmTimer(t) ==
  /\ At(t, "arm")
  /\ timer' = [timer EXCEPT ![arg[t]] = TRUE]
  /\ Return(t)
  /\ UNCHANGED <<cwq_vars, pending, killed, wq_vars, sched_vars>>

delayed_work_timer_fn(w) ==
  /\ timer[w]
  /\ timer' = [timer EXCEPT ![w] = FALSE]
  /\ queue_work_locked(w)
  /\ UNCHANGED <<pending, killed, wq_vars, user_vars, pc>>

-----------------------------------------------------------------------------
(* Cancelling.                                                             *)

\* cancel_delayed_work(), and cancel_rearming_delayed_workqueue() on a work
\* that rearms itself.
cancel_delayed_work(t, w) ==
  /\ Begin(t, IF w \in Rearming THEN "cancel_rearming" ELSE "cancel", w)
  /\ w \notin killed
  /\ Goto(t, "cancel")
  /\ UNCHANGED <<cwq_vars, work_vars, wq_vars, sched_vars>>

\* del_timer_sync() finds the timer pending.
CancelTimer(t) ==
  /\ At(t, "cancel") /\ timer[arg[t]]
  /\ timer' = [timer EXCEPT ![arg[t]] = FALSE]
  /\ Goto(t, "clear")
  /\ UNCHANGED <<cwq_vars, pending, killed, wq_vars, user_vars, sched_vars>>

\* clear_bit(0, &work->pending)
CancelClear(t) ==
  /\ At(t, "clear")
  /\ pending' = [pending EXCEPT ![arg[t]] = FALSE]
  /\ killed' = IF fn[t] = "cancel_rearming" THEN killed \union {arg[t]} ELSE killed
  /\ Return(t)
  /\ UNCHANGED <<cwq_vars, timer, wq_vars, sched_vars>>

\* Mutant: a work that is not on its timer is taken to be dead.
CancelFailedReturns(t) ==
  /\ At(t, "cancel") /\ ~timer[arg[t]]
  /\ killed' = IF fn[t] = "cancel_rearming" THEN killed \union {arg[t]} ELSE killed
  /\ Return(t)
  /\ UNCHANGED <<cwq_vars, pending, timer, wq_vars, sched_vars>>

\* It does not: cancel_delayed_work() fails, cancel_rearming...() flushes and
\* tries again.
CancelFailed(t) ==
  /\ At(t, "cancel") /\ ~timer[arg[t]]
  /\ IF fn[t] = "cancel" THEN Return(t) ELSE Goto(t, "flush_mutex") /\ UNCHANGED user_vars
  /\ UNCHANGED <<cwq_vars, work_vars, wq_vars, sched_vars>>

-----------------------------------------------------------------------------
(* Flushing and destroying.                                                *)

flush_workqueue(t) ==
  /\ Begin(t, "flush", SomeWork)
  /\ Goto(t, "flush_mutex")
  /\ UNCHANGED <<cwq_vars, work_vars, wq_vars, sched_vars>>

\* Mutant: the worker is stopped without a flush.
destroy_workqueueNoFlush(t) ==
  /\ Begin(t, "destroy", SomeWork)
  /\ \A u \in User \ {t} : pc[u] = "out"
  /\ Rearming \subseteq killed /\ \A w \in Work : ~timer[w]
  /\ live' = FALSE
  /\ Goto(t, "cleanup")
  /\ UNCHANGED <<cwq_vars, work_vars, mutex, stop, sched_vars>>

\* destroy_workqueue(), called as it has to be: by then nobody else uses the
\* queue and no timer will add to it.
destroy_workqueue(t) ==
  /\ Begin(t, "destroy", SomeWork)
  /\ \A u \in User \ {t} : pc[u] = "out"
  /\ Rearming \subseteq killed /\ \A w \in Work : ~timer[w]
  /\ live' = FALSE
  /\ Goto(t, "flush_mutex")
  /\ UNCHANGED <<cwq_vars, work_vars, mutex, stop, sched_vars>>

\* mutex_lock(&workqueue_mutex), unless the queue is single-threaded.
FlushMutex(t) ==
  /\ At(t, "flush_mutex")
  /\ IF SINGLETHREAD THEN UNCHANGED mutex ELSE mutex = NoTask /\ mutex' = t
  /\ Goto(t, "flush")
  /\ UNCHANGED <<cwq_vars, work_vars, stop, live, user_vars, sched_vars>>

\* flush_cpu_workqueue() and flush_workqueue() are done.
FlushReturn(t) ==
  /\ work_done' = Finished(work_done, t)
  /\ set_task_state(t, RUNNING)
  /\ mutex' = IF SINGLETHREAD THEN mutex ELSE NoTask
  /\ CASE fn[t] = "flush"           -> Return(t)
       [] fn[t] = "cancel_rearming" -> Goto(t, "cancel") /\ needed' = [needed EXCEPT ![t] = 0] /\ UNCHANGED <<fn, arg>>
       [] fn[t] = "destroy"         -> Goto(t, "cleanup") /\ needed' = [needed EXCEPT ![t] = 0] /\ UNCHANGED <<fn, arg>>

\* The loop of flush_cpu_workqueue() under cwq->lock, with seq needed.
FlushWait(t, seq) ==
  IF Ahead(seq, remove_sequence)
  THEN /\ work_done' = Prepared(work_done, t)
       /\ set_task_state(t, UNINTERRUPTIBLE)
       /\ needed' = [needed EXCEPT ![t] = seq]
       /\ Goto(t, "flush_schedule")
       /\ UNCHANGED <<mutex, fn, arg>>
  ELSE FlushReturn(t)

Flush(t) ==
  /\ At(t, "flush")
  /\ FlushWait(t, insert_sequence)
  /\ UNCHANGED <<insert_sequence, remove_sequence, worklist, more_work, running, work_vars, stop, live>>

\* Mutant: the state is stored with the lock released, right before schedule().
FlushScheduleLateState(t) ==
  /\ At(t, "flush_schedule")
  /\ state' = [state EXCEPT ![t] = UNINTERRUPTIBLE]
  /\ onrq' = [onrq EXCEPT ![t] = FALSE]
  /\ Goto(t, "flush_again")
  /\ UNCHANGED <<cwq_vars, work_vars, wq_vars, user_vars>>

FlushSchedule(t) ==
  /\ At(t, "flush_schedule")
  /\ schedule(t, FALSE)
  /\ Goto(t, "flush_again")
  /\ UNCHANGED <<cwq_vars, work_vars, wq_vars, user_vars>>

\* Mutant: insert_sequence is sampled again on every round.
FlushAgainResample(t) ==
  /\ At(t, "flush_again")
  /\ FlushWait(t, insert_sequence)
  /\ UNCHANGED <<insert_sequence, remove_sequence, worklist, more_work, running, work_vars, stop, live>>

FlushAgain(t) ==
  /\ At(t, "flush_again")
  /\ FlushWait(t, needed[t])
  /\ UNCHANGED <<insert_sequence, remove_sequence, worklist, more_work, running, work_vars, stop, live>>

\* The rest of destroy_workqueue(), with kthread_stop() in its three steps.  cwq->thread,
\* which it clears, tells a flush whether its caller is the worker: no variable stands for
\* it, as nobody flushes a queue that is being freed.
Cleanup(t) ==
  /\ At(t, "cleanup") /\ mutex = NoTask
  /\ mutex' = t
  /\ Goto(t, "stop_store")
  /\ UNCHANGED <<cwq_vars, work_vars, stop, live, user_vars, sched_vars>>

StopStore(t) ==
  /\ At(t, "stop_store")
  /\ stop' = TRUE
  /\ Goto(t, "stop_wake")
  /\ UNCHANGED <<cwq_vars, work_vars, mutex, live, user_vars, sched_vars>>

StopWake(t) ==
  /\ At(t, "stop_wake")
  /\ wake_up_process(Worker)
  /\ Goto(t, "stop_wait")
  /\ UNCHANGED <<cwq_vars, work_vars, wq_vars, user_vars>>

StopWait(t) ==
  /\ At(t, "stop_wait") /\ pc[Worker] = "exited"
  /\ stop' = FALSE
  /\ mutex' = NoTask
  /\ Return(t)
  /\ UNCHANGED <<cwq_vars, work_vars, live, sched_vars>>

\* create_workqueue() by a later user, the same worker standing for the new one.
create_workqueue(t) ==
  /\ At(t, "out") /\ ~live /\ (\A u \in User : pc[u] = "out") /\ mutex = NoTask
  /\ insert_sequence' = 0 /\ remove_sequence' = 0
  /\ worklist' = <<>> /\ more_work' = FALSE /\ work_done' = {}
  /\ live' = TRUE
  /\ Goto(Worker, "set_state")
  /\ UNCHANGED <<running, work_vars, mutex, stop, user_vars, sched_vars>>

-----------------------------------------------------------------------------
(* The worker.                                                             *)

Top == running[Len(running)]

\* set_current_state(TASK_INTERRUPTIBLE)
WorkerSetState ==
  /\ At(Worker, "set_state")
  /\ set_task_state(Worker, INTERRUPTIBLE)
  /\ Goto(Worker, "should_stop")
  /\ UNCHANGED <<cwq_vars, work_vars, wq_vars, user_vars>>

\* while (!kthread_should_stop())
WorkerShouldStop ==
  /\ At(Worker, "should_stop")
  /\ IF stop THEN set_task_state(Worker, RUNNING) /\ Goto(Worker, "exited")
             ELSE UNCHANGED sched_vars /\ Goto(Worker, "add_wait")
  /\ UNCHANGED <<cwq_vars, work_vars, wq_vars, user_vars>>

\* add_wait_queue(&cwq->more_work, &wait)
WorkerAddWait ==
  /\ At(Worker, "add_wait")
  /\ more_work' = TRUE
  /\ Goto(Worker, "test")
  /\ UNCHANGED <<insert_sequence, remove_sequence, worklist, work_done, running,
                 work_vars, wq_vars, user_vars, sched_vars>>

\* Mutant: the worker declares itself sleeping after it has seen the list empty.
WorkerTestThenSleep ==
  /\ At(Worker, "test")
  /\ IF worklist = <<>> THEN Goto(Worker, "schedule") /\ set_task_state(Worker, INTERRUPTIBLE)
                        ELSE Goto(Worker, "remove_wait") /\ set_task_state(Worker, RUNNING)
  /\ UNCHANGED <<cwq_vars, work_vars, wq_vars, user_vars>>

\* if (list_empty(&cwq->worklist)) schedule(); else ...
WorkerTest ==
  /\ At(Worker, "test")
  /\ IF worklist = <<>> THEN Goto(Worker, "schedule") /\ UNCHANGED sched_vars
                        ELSE Goto(Worker, "remove_wait") /\ set_task_state(Worker, RUNNING)
  /\ UNCHANGED <<cwq_vars, work_vars, wq_vars, user_vars>>

WorkerSchedule ==
  /\ At(Worker, "schedule")
  /\ schedule(Worker, FALSE)
  /\ Goto(Worker, "remove_wait")
  /\ UNCHANGED <<cwq_vars, work_vars, wq_vars, user_vars>>

WorkerRemoveWait ==
  /\ At(Worker, "remove_wait")
  /\ more_work' = FALSE
  /\ Goto(Worker, "retest")
  /\ UNCHANGED <<insert_sequence, remove_sequence, worklist, work_done, running,
                 work_vars, wq_vars, user_vars, sched_vars>>

\* Mutant: the test is negated, and run_workqueue() called for an empty list only.
WorkerRetestNegated ==
  /\ At(Worker, "retest")
  /\ Goto(Worker, IF worklist = <<>> THEN "run" ELSE "set_state")
  /\ UNCHANGED <<cwq_vars, work_vars, wq_vars, user_vars, sched_vars>>

WorkerRetest ==
  /\ At(Worker, "retest")
  /\ Goto(Worker, IF worklist # <<>> THEN "run" ELSE "set_state")
  /\ UNCHANGED <<cwq_vars, work_vars, wq_vars, user_vars, sched_vars>>

\* The head of the loop of run_workqueue(), with outer the entries that are being
\* run further up the stack: take the next work, or return to worker_thread() or
\* to the function that flushes.
TakeNext(outer) ==
  IF worklist # <<>>
  THEN /\ running' = Append(outer, Head(worklist))
       /\ worklist' = Tail(worklist)
       /\ Goto(Worker, "clear_pending")
       /\ UNCHANGED mutex
  ELSE /\ running' = outer
       /\ Goto(Worker, IF outer = <<>> THEN "set_state" ELSE "func_end")
       /\ mutex' = IF SINGLETHREAD \/ outer = <<>> THEN mutex ELSE NoTask
       /\ UNCHANGED worklist

run_workqueue ==
  /\ At(Worker, "run")
  /\ TakeNext(running)
  /\ UNCHANGED <<insert_sequence, remove_sequence, more_work, work_done,
                 work_vars, stop, live, user_vars, sched_vars>>

\* clear_bit(0, &work->pending)
WorkerClear ==
  /\ At(Worker, "clear_pending")
  /\ pending' = [pending EXCEPT ![Top.work] = FALSE]
  /\ Goto(Worker, "func")
  /\ UNCHANGED <<cwq_vars, timer, killed, wq_vars, user_vars, sched_vars>>

\* f(data): one that rearms its work (one step: until the timer is armed nobody
\* but the worker can tell the claimed work from one whose function runs) ...
FuncRearm ==
  /\ At(Worker, "func") /\ Top.work \in Rearming
  /\ IF pending[Top.work] THEN UNCHANGED <<pending, timer>>
     ELSE /\ pending' = [pending EXCEPT ![Top.work] = TRUE]
          /\ timer' = [timer EXCEPT ![Top.work] = TRUE]
  /\ Goto(Worker, "func_end")
  /\ UNCHANGED <<cwq_vars, killed, wq_vars, user_vars, sched_vars>>

\* ... one that does not ...
FuncOther ==
  /\ At(Worker, "func") /\ Top.work \notin Rearming
  /\ Goto(Worker, "func_end")
  /\ UNCHANGED <<cwq_vars, work_vars, wq_vars, user_vars, sched_vars>>

\* ... and one that flushes the queue it runs on: flush_cpu_workqueue() finds
\* cwq->thread == current.
FuncFlush ==
  /\ NESTED /\ At(Worker, "func") /\ Top.work \notin Rearming /\ Len(running) < MaxDepth
  /\ Goto(Worker, "func_mutex")
  /\ UNCHANGED <<cwq_vars, work_vars, wq_vars, user_vars, sched_vars>>

FuncMutex ==
  /\ At(Worker, "func_mutex")
  /\ IF SINGLETHREAD THEN UNCHANGED mutex ELSE mutex = NoTask /\ mutex' = Worker
  /\ Goto(Worker, "run")
  /\ UNCHANGED <<cwq_vars, work_vars, stop, live, user_vars, sched_vars>>

\* Mutant: the flushers are woken, and remove_sequence counted, by the last work.
FuncEndBatched ==
  /\ At(Worker, "func_end")
  /\ remove_sequence' = IF worklist = <<>> THEN insert_sequence ELSE remove_sequence
  /\ IF worklist = <<>> THEN wake_up_entries(work_done) /\ work_done' = Autoremoved(work_done)
                        ELSE UNCHANGED <<work_done, sched_vars>>
  /\ TakeNext(SubSeq(running, 1, Len(running) - 1))
  /\ UNCHANGED <<insert_sequence, more_work, work_vars, stop, live, user_vars>>

\* The function has returned: remove_sequence, the flushers, and the next work.
FuncEnd ==
  /\ At(Worker, "func_end")
  /\ remove_sequence' = Incremented(remove_sequence)
  /\ wake_up_entries(work_done)
  /\ work_done' = Autoremoved(work_done)
  /\ TakeNext(SubSeq(running, 1, Len(running) - 1))
  /\ UNCHANGED <<insert_sequence, more_work, work_vars, stop, live, user_vars>>

-----------------------------------------------------------------------------
\* What a user starts.
Request(t) == \/ \E w \in Work : \/ queue_work(t, w, "add") \/ queue_work(t, w, "arm")
                                 \/ cancel_delayed_work(t, w)
              \/ flush_workqueue(t) \/ destroy_workqueue(t) \/ create_workqueue(t)

UserStep(t) == \/ QueueAdd(t) \/ ArmTimer(t)
               \/ CancelTimer(t) \/ CancelClear(t) \/ CancelFailed(t)
               \/ FlushMutex(t) \/ Flush(t) \/ FlushSchedule(t) \/ FlushAgain(t)
               \/ Cleanup(t) \/ StopStore(t) \/ StopWake(t) \/ StopWait(t)

WorkerStep == \/ WorkerSetState \/ WorkerShouldStop \/ WorkerAddWait \/ WorkerTest
              \/ WorkerSchedule \/ WorkerRemoveWait \/ WorkerRetest
              \/ run_workqueue \/ WorkerClear
              \/ FuncRearm \/ FuncOther \/ FuncFlush \/ FuncMutex \/ FuncEnd

Next == \/ \E t \in User : Request(t) \/ UserStep(t)
        \/ \E w \in Work : delayed_work_timer_fn(w)
        \/ WorkerStep

Spec == Init /\ [][Next]_vars

\* A task on the run queue runs, and a pending timer expires.  This says nothing
\* of who gets workqueue_mutex, so the liveness properties are about queues that
\* are single-threaded.
Fairness == /\ \A t \in User : WF_vars(UserStep(t))
            /\ WF_vars(WorkerStep)
            /\ \A w \in Work : WF_vars(delayed_work_timer_fn(w))

FairSpec == Spec /\ Fairness

-----------------------------------------------------------------------------
(* Properties.                                                             *)

Queued(w) == \E i \in DOMAIN worklist : worklist[i].work = w

\* The parties that have claimed w by setting its pending bit and have not
\* passed it on or released it yet.
Claims(w) == {t \in User : pc[t] \in {"add", "arm", "clear"} /\ arg[t] = w}
               \union (IF Queued(w) THEN {"list"} ELSE {})
               \union (IF timer[w] THEN {"timer"} ELSE {})
               \union (IF pc[Worker] = "clear_pending" /\ Top.work = w THEN {"worker"} ELSE {})

\* The pending bit is a lock on the work: it is set exactly while one party (a
\* caller, the timer, the list or the worker) is bound to queue or run it.  The
\* BUG_ON()s of queue_work(), queue_delayed_work() and run_workqueue() follow.
PendingHasOneOwner ==
  \A w \in Work : IF pending[w] THEN \E c \in Claims(w) : Claims(w) = {c} ELSE Claims(w) = {}

\* The sequence numbers count the works that are queued or being run, which is
\* what flush_cpu_workqueue() takes their difference for, also across a wrap.
SequencesCountWork ==
  (insert_sequence - remove_sequence) % Width = Len(worklist) + Len(running)

\* The worker does not sleep while there is work or it has been told to stop:
\* it looks at the list, and at kthread_should_stop(), without the lock.
WorkerNotForgotten ==
  ~onrq[Worker] => /\ worklist = <<>> /\ more_work
                   /\ stop => \E t \in User : pc[t] = "stop_wake"

\* A flusher on work_done is asleep only as long as what it waits for is not done.
FlusherNotForgotten ==
  \A t \in User : ~onrq[t] => t \in work_done /\ Ahead(needed[t], remove_sequence)

\* "we sleep until all works which were queued on entry have been handled": when a
\* flush ends, no work with an earlier sequence number is queued or being run.
FlushWaitsForQueued ==
  [][\A t \in User : pc[t] \in {"flush", "flush_again"} /\ pc'[t] \in {"out", "cancel", "cleanup"} =>
       \A q \in {worklist, running} : \A i \in DOMAIN q :
         ~Ahead(IF pc[t] = "flush" THEN insert_sequence ELSE needed[t], q[i].seq)]_vars

\* "All work currently pending will be done first": nothing is queued, running or
\* on its way to the queue when destroy_workqueue() frees it.
DestroyedEmpty ==
  \A t \in User : pc[t] = "stop_wait" /\ pc[Worker] = "exited" =>
     worklist = <<>> /\ running = <<>> /\ \A w \in Work : ~pending[w]

\* A delayed work that cancel_rearming_delayed_work() has killed is not armed or
\* queued again, although its function may still be running and rearms it.
CancelIsFinal ==
  \A w \in killed : /\ ~pending[w] /\ Claims(w) = {}
                    /\ pc[Worker] = "func" => Top.work # w

\* "rather than deadlocking": a function that flushes its own queue is not held up
\* by a task that waits for that very function.
NestedFlushNotHeldUp ==
  ~(pc[Worker] = "func_mutex" /\ \E t \in User : mutex = t /\ ~onrq[t])

\* Every queued work is run, whatever is queued behind it.
QueuedWorkRuns == \A w \in Work : Queued(w) ~> (pc[Worker] = "func" /\ Top.work = w)

\* Every flush ends: "we are not livelocked by new incoming ones".
FlushReturns == \A t \in User : fn[t] \in {"flush", "destroy"} ~> pc[t] = "out"

=============================================================================
