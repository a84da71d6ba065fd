-------------------------------- MODULE Rcu --------------------------------
(***************************************************************************)
(* Classic RCU, kernel/rcupdate.c: grace periods counted in batches, per-  *)
(* CPU lists of callbacks, and rcu_barrier().  One flavour is modelled;    *)
(* rcu_bh runs the same code over a second set of variables.               *)
(*                                                                         *)
(* A read-side critical section is code that does not let its CPU pass     *)
(* through a quiescent state, so the sections are named by their CPUs.     *)
(* The tasklet of a CPU (rcu_process_callbacks()) may interrupt a section. *)
(* It reads rcp->cur, completed and next_pending without rcp->lock, in     *)
(* steps of their own; sections under the lock are split where their       *)
(* writes can be seen from outside.  The tick that finds rcu_pending() and *)
(* the tasklet it schedules are one step, for a tasklet that runs later is *)
(* one that was scheduled later.  rcu_do_batch() may stop after any        *)
(* callback, which leaves open what blimit is at the time.  CPUs do not    *)
(* come or go, and none is in nohz_cpu_mask.                               *)
(***************************************************************************)
EXTENDS Integers, Sequences, FiniteSets

CONSTANTS RcuCPU,
          NoCPU,          \* nobody holds rcp->lock, or is inside on_each_cpu()
          RcuHead,        \* the struct rcu_heads of callers of call_rcu()
          BatchMod        \* batch numbers are longs: they wrap at this modulus

ASSUME RcuAssumption == /\ NoCPU \notin RcuCPU /\ RcuCPU \intersect RcuHead = {}
                        /\ BatchMod \in Nat /\ BatchMod >= 4 /\ BatchMod % 2 = 0

VARIABLES rcp,            \* rcu_ctrlblk: cur, completed, next_pending, cpumask
          rlock,          \* the CPU inside rcp->lock, or NoCPU
          rdp,            \* rdp[c]: the struct rcu_data of CPU c
          tpc,            \* tpc[c]: where c is in its rcu_tasklet; "idle" outside
          reading,        \* the CPUs inside a read-side critical section
          rcu_before,     \* history: see GracePeriod
          barrier         \* rcu_barrier(): where it is, and its variables

rcu_vars == <<rcp, rlock, rdp, tpc, reading, rcu_before, barrier>>

\* The heads of rcu_barrier(), rdp->barrier, are named by their CPUs.
AllHeads == RcuHead \union RcuCPU

Batches == 0 .. BatchMod - 1

TaskletLabels == {"idle", "number", "register", "lock", "start", "cur", "check", "quiet",
                  "restart", "recur", "invoke"}

RcuTypeOK ==
  /\ rcp \in [cur : Batches, completed : Batches, next_pending : BOOLEAN, cpumask : SUBSET RcuCPU]
  /\ rlock \in RcuCPU \union {NoCPU}
  /\ rdp \in [RcuCPU -> [quiescbatch : Batches, passed_quiesc : BOOLEAN, qs_pending : BOOLEAN,
                         batch : Batches, nxtlist : Seq(AllHeads), curlist : Seq(AllHeads),
                         donelist : Seq(AllHeads)]]
  /\ tpc \in [RcuCPU -> TaskletLabels]
  /\ reading \subseteq RcuCPU
  /\ rcu_before \in [RcuHead -> SUBSET RcuCPU]
  /\ barrier \in [at : {"out", "ipi", "wait"}, cpu : RcuCPU \union {NoCPU}, todo : SUBSET RcuCPU,
                  count : Nat, completion : BOOLEAN, covers : SUBSET RcuHead]

Minus300 == (-300) % BatchMod

RcuInit ==
  /\ rcp = [cur |-> Minus300, completed |-> Minus300, next_pending |-> FALSE, cpumask |-> {}]
  /\ rlock = NoCPU
  /\ rdp = [c \in RcuCPU |-> [quiescbatch |-> Minus300, passed_quiesc |-> FALSE, qs_pending |-> FALSE,
                              batch |-> 0, nxtlist |-> <<>>, curlist |-> <<>>, donelist |-> <<>>]]
  /\ tpc = [c \in RcuCPU |-> "idle"]
  /\ reading = {}
  /\ rcu_before = [h \in RcuHead |-> {}]
  /\ barrier = [at |-> "out", cpu |-> NoCPU, todo |-> {}, count |-> 0, completion |-> FALSE,
                covers |-> {}]

\* (a - b) < 0 in signed arithmetic of the width of a long.
rcu_batch_before(a, b) == (a - b + BatchMod) % BatchMod >= BatchMod \div 2

NextBatch(n) == (n + 1) % BatchMod

HeadsOf(s) == {s[i] : i \in DOMAIN s}

QueuedOn(c) == HeadsOf(rdp[c].nxtlist) \union HeadsOf(rdp[c].curlist) \union HeadsOf(rdp[c].donelist)

\* The heads whose callbacks have not been invoked yet.
QueuedHeads == UNION {QueuedOn(c) : c \in RcuCPU}

TGoto(c, l) == tpc' = [tpc EXCEPT ![c] = l]

\* if (rdp->donelist) rcu_do_batch(rdp)
Last(c) == IF rdp[c].donelist # <<>> THEN "invoke" ELSE "idle"

-----------------------------------------------------------------------------
(* Readers and quiescent states.                                           *)

\* Task code that may be preempted runs on c: no tasklet, no section, and no
\* rcu_barrier() inside on_each_cpu(), which keeps preemption off.
Preemptible(c) == tpc[c] = "idle" /\ c \notin reading /\ barrier.cpu # c

rcu_read_lock(c) ==
  /\ Preemptible(c)
  /\ reading' = reading \union {c}
  /\ UNCHANGED <<rcp, rlock, rdp, tpc, rcu_before, barrier>>

rcu_read_unlock(c) ==
  /\ tpc[c] = "idle" /\ c \in reading
  /\ reading' = reading \ {c}
  /\ rcu_before' = [h \in RcuHead |-> rcu_before[h] \ {c}]
  /\ UNCHANGED <<rcp, rlock, rdp, tpc, barrier>>

\* rcu_qsctr_inc(), by schedule() or by a tick in user mode or in the idle task.
\* While no quiescent state is waited for the flag is of no use: whoever sets
\* qs_pending clears it.
rcu_qsctr_inc(c) ==
  /\ Preemptible(c) /\ rdp[c].qs_pending
  /\ rdp' = [rdp EXCEPT ![c].passed_quiesc = TRUE]
  /\ UNCHANGED <<rcp, rlock, tpc, reading, rcu_before, barrier>>

\* __rcu_pending()
rcu_pending(c) ==
  LET d == rdp[c]
  IN  \/ d.curlist # <<>> /\ ~rcu_batch_before(rcp.completed, d.batch)
      \/ d.curlist = <<>> /\ d.nxtlist # <<>>
      \/ d.donelist # <<>>
      \/ d.quiescbatch # rcp.cur \/ d.qs_pending

\* The tasklet would change nothing: all that is pending is a quiescent state that
\* has not happened.  Such runs of it are left out.
Fruitless(c) ==
  LET d == rdp[c]
  IN  /\ d.qs_pending /\ ~d.passed_quiesc /\ d.quiescbatch = rcp.cur /\ d.donelist = <<>>
      /\ IF d.curlist = <<>> THEN d.nxtlist = <<>> ELSE rcu_batch_before(rcp.completed, d.batch)

-----------------------------------------------------------------------------
(* call_rcu(), from any context of the CPU that leaves interrupts on.      *)

Enqueue(c, h) == rdp' = [rdp EXCEPT ![c].nxtlist = Append(@, h)]

call_rcu(c, h) ==
  /\ h \notin QueuedHeads
  /\ Enqueue(c, h)
  /\ rcu_before' = [rcu_before EXCEPT ![h] = reading]
  /\ UNCHANGED <<rcp, rlock, tpc, reading, barrier>>

-----------------------------------------------------------------------------
(* __rcu_process_callbacks()                                               *)

\* The tick with rcu_check_callbacks(), and the tasklet up to the reading of
\* rcp->cur: callbacks whose batch has completed (rcp->completed, read without
\* the lock) move on to donelist, and new ones become the next batch.  The number
\* of a batch that is over, which nobody reads again, is forgotten.
rcu_process_callbacks(c) ==
  LET d == rdp[c]
      done == d.curlist # <<>> /\ ~rcu_batch_before(rcp.completed, d.batch)
      cur == IF done THEN <<>> ELSE d.curlist
      new == d.nxtlist # <<>> /\ cur = <<>>
  IN  /\ tpc[c] = "idle" /\ rcu_pending(c) /\ ~Fruitless(c)
      /\ rdp' = [rdp EXCEPT ![c].donelist = IF done THEN @ \o d.curlist ELSE @,
                            ![c].curlist = IF new THEN d.nxtlist ELSE cur,
                            ![c].nxtlist = IF new THEN <<>> ELSE @,
                            ![c].batch = IF done THEN 0 ELSE @]
      /\ TGoto(c, IF new THEN "number" ELSE "check")
      /\ UNCHANGED <<rcp, rlock, reading, rcu_before, barrier>>

\* rdp->batch = rcp->cur + 1, read without the lock
NumberBatch(c) ==
  /\ tpc[c] = "number"
  /\ rdp' = [rdp EXCEPT ![c].batch = NextBatch(rcp.cur)]
  /\ TGoto(c, "register")
  /\ UNCHANGED <<rcp, rlock, reading, rcu_before, barrier>>

\* if (!rcp->next_pending), read after cur and without the lock
TestPending(c) ==
  /\ tpc[c] = "register"
  /\ TGoto(c, IF rcp.next_pending THEN "check" ELSE "lock")
  /\ UNCHANGED <<rcp, rlock, rdp, reading, rcu_before, barrier>>

\* spin_lock(&rcp->lock); rcp->next_pending = 1; and the test of rcu_start_batch(),
\* which sets next_pending back in the next step if it starts a batch.
RegisterBatch(c) ==
  /\ tpc[c] = "lock" /\ rlock = NoCPU
  /\ rcp' = [rcp EXCEPT !.next_pending = TRUE]
  /\ IF rcp.completed = rcp.cur
     THEN rlock' = c /\ TGoto(c, "start")
     ELSE TGoto(c, "check") /\ UNCHANGED rlock
  /\ UNCHANGED <<rdp, reading, rcu_before, barrier>>

\* The body of rcu_start_batch(), up to its smp_wmb().
StartBatch(c, at, cur) ==
  /\ tpc[c] = at
  /\ rcp' = [rcp EXCEPT !.next_pending = FALSE]
  /\ TGoto(c, cur)
  /\ UNCHANGED <<rlock, rdp, reading, rcu_before, barrier>>

\* The rest of it: rcp->cur++, the cpumask, which is only read under the lock,
\* and the spin_unlock() of the caller.
AdvanceCur(c, at, return) ==
  /\ tpc[c] = at
  /\ rcp' = [rcp EXCEPT !.cur = NextBatch(@), !.cpumask = RcuCPU]
  /\ rlock' = NoCPU
  /\ TGoto(c, return)
  /\ UNCHANGED <<rdp, reading, rcu_before, barrier>>

\* Mutant: the quiescent state of an earlier batch is not forgotten.
CheckQuiescentKeep(c) ==
  LET d == rdp[c]
      report == d.qs_pending /\ d.passed_quiesc
  IN  /\ tpc[c] = "check"
      /\ IF d.quiescbatch # rcp.cur
         THEN /\ rdp' = [rdp EXCEPT ![c].qs_pending = TRUE, ![c].quiescbatch = rcp.cur]
              /\ TGoto(c, Last(c))
         ELSE /\ TGoto(c, IF report THEN "quiet" ELSE Last(c))
              /\ rdp' = [rdp EXCEPT ![c].qs_pending = @ /\ ~report]
      /\ UNCHANGED <<rcp, rlock, reading, rcu_before, barrier>>

\* rcu_check_quiescent_state(), up to its spin_lock().  The second reading of
\* rcp->cur gives what the first did, as the batch waits for this CPU.
CheckQuiescent(c) ==
  LET d == rdp[c]
      report == d.qs_pending /\ d.passed_quiesc
  IN  /\ tpc[c] = "check"
      /\ IF d.quiescbatch # rcp.cur
         THEN /\ rdp' = [rdp EXCEPT ![c].qs_pending = TRUE, ![c].passed_quiesc = FALSE,
                                    ![c].quiescbatch = rcp.cur]
              /\ TGoto(c, Last(c))
         ELSE /\ TGoto(c, IF report THEN "quiet" ELSE Last(c))
              /\ rdp' = [rdp EXCEPT ![c].qs_pending = @ /\ ~report]
      /\ UNCHANGED <<rcp, rlock, reading, rcu_before, barrier>>

\* Mutant: the batch that is waiting is not started.
cpu_quietNoStart(c) ==
  LET mask == rcp.cpumask \ {c}
  IN  /\ tpc[c] = "quiet" /\ rlock = NoCPU
      /\ IF rdp[c].quiescbatch = rcp.cur
         THEN rcp' = [rcp EXCEPT !.cpumask = mask, !.completed = IF mask = {} THEN rcp.cur ELSE @]
         ELSE UNCHANGED rcp
      /\ TGoto(c, Last(c))
      /\ UNCHANGED <<rlock, rdp, reading, rcu_before, barrier>>

\* spin_lock(&rcp->lock) and cpu_quiet(), with the test of its rcu_start_batch()
cpu_quiet(c) ==
  LET mask == rcp.cpumask \ {c}
      start == mask = {} /\ rcp.next_pending
  IN  /\ tpc[c] = "quiet" /\ rlock = NoCPU
      /\ IF rdp[c].quiescbatch = rcp.cur
         THEN /\ rcp' = [rcp EXCEPT !.cpumask = mask, !.completed = IF mask = {} THEN rcp.cur ELSE @]
              /\ rlock' = IF start THEN c ELSE NoCPU
              /\ TGoto(c, IF start THEN "restart" ELSE Last(c))
         ELSE TGoto(c, Last(c)) /\ UNCHANGED <<rcp, rlock>>
      /\ UNCHANGED <<rdp, reading, rcu_before, barrier>>

\* One turn of the loop of rcu_do_batch(), after which it may stop.  The callback
\* of a barrier head is rcu_barrier_callback(); any other does nothing here.
rcu_do_batch(c) ==
  LET h == Head(rdp[c].donelist)
      rest == Tail(rdp[c].donelist)
  IN  /\ tpc[c] = "invoke"
      /\ rdp' = [rdp EXCEPT ![c].donelist = rest]
      /\ barrier' = IF h \in RcuCPU
                    THEN [barrier EXCEPT !.count = @ - 1, !.completion = @ \/ barrier.count = 1]
                    ELSE [barrier EXCEPT !.covers = @ \ {h}]
      /\ \E l \in {"idle", IF rest = <<>> THEN "idle" ELSE "invoke"} : TGoto(c, l)
      /\ UNCHANGED <<rcp, rlock, reading, rcu_before>>

-----------------------------------------------------------------------------
(* rcu_barrier(), by a task on CPU c; rcu_barrier_mutex lets one task in.  *)

\* Up to on_each_cpu(), which disables preemption.
rcu_barrier(c) ==
  /\ barrier.at = "out" /\ Preemptible(c)
  /\ barrier' = [at |-> "ipi", cpu |-> c, todo |-> RcuCPU, count |-> 0, completion |-> FALSE,
                 covers |-> QueuedHeads \intersect RcuHead]
  /\ UNCHANGED <<rcp, rlock, rdp, tpc, reading, rcu_before>>

\* Mutant: the count reaches 0 as soon as the first head's callback has run.
rcu_barrier_funcOnce(c) ==
  /\ barrier.at = "ipi" /\ c \in barrier.todo
  /\ c = barrier.cpu => barrier.todo = {c} /\ tpc[c] = "idle"
  /\ Enqueue(c, c)
  /\ barrier' = [barrier EXCEPT !.todo = @ \ {c}, !.count = 1,
                                !.at = IF c = barrier.cpu THEN "wait" ELSE @,
                                !.cpu = IF c = barrier.cpu THEN NoCPU ELSE @]
  /\ UNCHANGED <<rcp, rlock, tpc, reading, rcu_before>>

\* on_each_cpu() runs rcu_barrier_func() on the other CPUs in interrupts, waits for
\* them, runs it here and enables preemption again.
rcu_barrier_func(c) ==
  /\ barrier.at = "ipi" /\ c \in barrier.todo
  /\ c = barrier.cpu => barrier.todo = {c} /\ tpc[c] = "idle"
  /\ Enqueue(c, c)
  /\ barrier' = [barrier EXCEPT !.todo = @ \ {c}, !.count = @ + 1,
                                !.at = IF c = barrier.cpu THEN "wait" ELSE @,
                                !.cpu = IF c = barrier.cpu THEN NoCPU ELSE @]
  /\ UNCHANGED <<rcp, rlock, tpc, reading, rcu_before>>

\* wait_for_completion() returns.
BarrierReturn ==
  /\ barrier.at = "wait" /\ barrier.completion
  /\ barrier' = [barrier EXCEPT !.at = "out", !.completion = FALSE]
  /\ UNCHANGED <<rcp, rlock, rdp, tpc, reading, rcu_before>>

-----------------------------------------------------------------------------
\* A step of c's tasklet.
TaskletStep(c) == \/ NumberBatch(c) \/ TestPending(c) \/ CheckQuiescent(c) \/ rcu_do_batch(c)
                  \/ StartBatch(c, "start", "cur") \/ AdvanceCur(c, "cur", "check")
                  \/ StartBatch(c, "restart", "recur") \/ AdvanceCur(c, "recur", Last(c))

\* One that takes rcp->lock.
TaskletLock(c) == RegisterBatch(c) \/ cpu_quiet(c)

RcuNext == \/ \E c \in RcuCPU : \/ rcu_read_lock(c) \/ rcu_read_unlock(c) \/ rcu_qsctr_inc(c)
                                \/ (\E h \in RcuHead : call_rcu(c, h))
                                \/ rcu_process_callbacks(c) \/ TaskletStep(c) \/ TaskletLock(c)
                                \/ rcu_barrier(c) \/ rcu_barrier_func(c)
           \/ BarrierReturn

RcuSpec == RcuInit /\ [][RcuNext]_rcu_vars

(***************************************************************************)
(* Fairness: the timer interrupt and the tasklets run, spinlocks are       *)
(* obtained, sections end, the interrupts of on_each_cpu() arrive; a CPU   *)
(* goes through a quiescent state again and again, however often it enters *)
(* a section (strong).  Nobody has to call anything.                       *)
(***************************************************************************)
RcuFairness ==
  /\ \A c \in RcuCPU : /\ WF_rcu_vars(rcu_process_callbacks(c) \/ TaskletStep(c) \/ TaskletLock(c))
                       /\ WF_rcu_vars(rcu_read_unlock(c))
                       /\ SF_rcu_vars(rcu_qsctr_inc(c))
  /\ WF_rcu_vars((\E c \in RcuCPU : rcu_barrier_func(c)) \/ BarrierReturn)

-----------------------------------------------------------------------------
(* Properties.                                                             *)

\* A callback is invoked "after all currently executing RCU read-side critical
\* sections have completed": call_rcu() implements a grace period.
RcuGP == INSTANCE GracePeriod WITH
           Section <- RcuCPU, Request <- RcuHead, inside <- reading,
           waiting <- QueuedHeads \intersect RcuHead, before <- rcu_before

RcuImplementsGracePeriod == RcuGP!GPSpec

\* rcu_barrier() waits "until all the in-flight RCUs are complete": when it
\* returns, every callback that was queued, on any CPU, when it was called has
\* been invoked, and its own heads are free again.
BarrierCoversQueued ==
  [][BarrierReturn => barrier.covers = {} /\ QueuedHeads \intersect RcuCPU = {}]_rcu_vars

\* rcu_barrier() returns: the callbacks it queues on all CPUs, each of which may
\* miss the batch that is being started and has to register the next one with
\* next_pending, are all invoked.
BarrierReturns == barrier.at # "out" ~> barrier.at = "out"

=============================================================================
