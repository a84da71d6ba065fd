--------------------------- MODULE TaskletProofs ---------------------------
(***************************************************************************)
(* For any number of CPUs, softirqs and tasklets: a raised softirq is not  *)
(* forgotten, a tasklet has one owner and one runner, and tasklet_kill()   *)
(* and tasklet_disable() keep their promises.                              *)
(***************************************************************************)
EXTENDS Tasklet, FiniteSetTheorems, TLAPS

-----------------------------------------------------------------------------
(* Softirqs.                                                               *)

\* What is true of one CPU at any time: a ksoftirqd that is TASK_RUNNING is on the
\* run queue, so that __do_softirq() may rely on it, and pending softirqs are looked
\* at again.
CpuInv(c) == /\ state[c] = RUNNING => onrq[c]
             /\ pending[c] # {} => \/ in_interrupt(c)
                                   \/ onrq[c] /\ (kpc[c] = "schedule" => state[c] = RUNNING)

SoftirqInv == SoftirqTypeOK(TaskletLabels) /\ \A c \in CPU : CpuInv(c)

\* A step on one CPU.
LEMMA OneCpu ==
  ASSUME SoftirqInv, NEW c \in CPU, SoftirqTypeOK(TaskletLabels)',
         \A d \in CPU \ {c} : /\ pending'[d] = pending[d] /\ bh'[d] = bh[d] /\ sirq'[d] = sirq[d]
                              /\ kpc'[d] = kpc[d] /\ state'[d] = state[d] /\ onrq'[d] = onrq[d],
         CpuInv(c)'
  PROVE  SoftirqInv'
BY ZenonT(40) DEF SoftirqInv, CpuInv, in_interrupt

\* The steps that stay inside or outside of the action of TASKLET_SOFTIRQ.
Quiet == \A c \in CPU : \/ sirq'[c].at = sirq[c].at
                        \/ sirq[c].at \in {"none", "run"} /\ sirq'[c].at \in {"none", "run"}

\* __do_softirq() with any bits, where the rest of the CPU's state stays.
LEMMA DoSoftirqInv ==
  ASSUME SoftirqInv, NEW c \in CPU, NEW bits \in SUBSET Nr, __do_softirq(c, bits),
         sirq[c].at = "none", bh' \in [CPU -> BOOLEAN], \A d \in CPU \ {c} : bh'[d] = bh[d],
         UNCHANGED <<kpc, sched_vars>>
  PROVE  SoftirqInv' /\ Quiet
<1> USE DEF SoftirqInv, SoftirqTypeOK, SchedTypeOK, CPU
<1>1. CASE bits # {} /\ ~softirqd_is_waken(c)
  <2>1. /\ pending' = [pending EXCEPT ![c] = {}]
        /\ sirq' = [sirq EXCEPT ![c] = [at |-> "run", todo |-> bits, max_restart |-> MAX_SOFTIRQ_RESTART]]
    BY <1>1, Zenon DEF __do_softirq, Activate
  <2>2. SoftirqTypeOK(TaskletLabels)'
    BY <2>1, SoftirqAssumption DEF sched_vars, TaskletLabels
  <2>3. CpuInv(c)'
    BY <2>1, Zenon DEF CpuInv, in_interrupt, sched_vars
  <2>4. SoftirqInv'
    BY ZenonT(30), <2>1, <2>2, <2>3, OneCpu DEF sched_vars
  <2> QED
    BY <2>1, <2>4, Zenon DEF Quiet
<1>2. CASE ~(bits # {} /\ ~softirqd_is_waken(c))
  <2>1. pending' = [pending EXCEPT ![c] = bits] /\ UNCHANGED sirq
    BY <1>2, Zenon DEF __do_softirq
  <2>2. SoftirqTypeOK(TaskletLabels)'
    BY <2>1, Zenon DEF sched_vars
  <2>3. CpuInv(c)'
    BY <1>2, <2>1, Zenon DEF CpuInv, in_interrupt, sched_vars, softirqd_is_waken
  <2>4. SoftirqInv'
    BY <2>1, <2>2, <2>3, OneCpu, Zenon DEF sched_vars
  <2> QED
    BY <2>1, <2>4, Zenon DEF Quiet
<1> QED
  BY <1>1, <1>2, Zenon

\* The end of an interrupt.
LEMMA IrqExitInv ==
  ASSUME SoftirqInv, NEW c \in CPU, NEW nrs \in SUBSET Nr, irq_exit(c, nrs)
  PROVE  SoftirqInv' /\ Quiet
<1>1. CASE in_interrupt(c)
  <2>1. pending' = [pending EXCEPT ![c] = @ \union nrs] /\ UNCHANGED <<sirq, bh, kpc, sched_vars>>
    BY <1>1, Zenon DEF irq_exit
  <2>2. SoftirqTypeOK(TaskletLabels)'
    BY <2>1, Zenon DEF SoftirqInv, SoftirqTypeOK, SchedTypeOK, sched_vars
  <2>3. CpuInv(c)'
    BY <1>1, <2>1, Zenon DEF CpuInv, in_interrupt, sched_vars, SoftirqInv
  <2>4. SoftirqInv'
    BY <2>1, <2>2, <2>3, OneCpu, Zenon DEF sched_vars, SoftirqInv, SoftirqTypeOK
  <2> QED
    BY <2>1, <2>4, Zenon DEF Quiet
<1>2. CASE ~in_interrupt(c)
  <2>1. __do_softirq(c, pending[c] \union nrs) /\ UNCHANGED <<bh, kpc, sched_vars>> /\ sirq[c].at = "none"
    BY <1>2, Zenon DEF irq_exit, in_interrupt
  <2>2. pending[c] \union nrs \in SUBSET Nr /\ bh \in [CPU -> BOOLEAN]
    BY Zenon DEF SoftirqInv, SoftirqTypeOK
  <2> QED
    BY <2>1, <2>2, DoSoftirqInv, Zenon
<1> QED
  BY <1>1, <1>2, Zenon

\* A ksoftirqd that has been woken is TASK_RUNNING and on the run queue.
LEMMA Woken ==
  ASSUME SoftirqInv, NEW c \in CPU, wakeup_softirqd(c)
  PROVE  /\ SchedTypeOK' /\ state'[c] = RUNNING /\ onrq'[c]
         /\ \A d \in CPU \ {c} : state'[d] = state[d] /\ onrq'[d] = onrq[d]
<1>1. SchedTypeOK /\ (state[c] = RUNNING => onrq[c]) /\ c \in Task
  BY Zenon DEF SoftirqInv, SoftirqTypeOK, CpuInv, CPU
<1>2. CASE state[c] \in SleepStates
  BY ZenonT(30), <1>1, <1>2 DEF wakeup_softirqd, wake_up_process, try_to_wake_up, SchedTypeOK, TaskStates, CPU
<1>3. CASE state[c] \notin SleepStates
  BY <1>1, <1>3, Zenon DEF wakeup_softirqd, wake_up_process, try_to_wake_up, SchedTypeOK, TaskStates, SleepStates,
                    sched_vars, CPU
<1> QED
  BY <1>2, <1>3, Zenon

\* raise_softirq() from a task wakes ksoftirqd.
LEMMA RaiseInv ==
  ASSUME SoftirqInv, NEW c \in CPU, NEW nr \in Nr, raise_softirq(c, nr)
  PROVE  SoftirqInv' /\ Quiet
<1>1. /\ pending' = [pending EXCEPT ![c] = @ \union {nr}] /\ wakeup_softirqd(c)
      /\ UNCHANGED <<bh, sirq, kpc>>
  BY Zenon DEF raise_softirq
<1>2. SoftirqTypeOK(TaskletLabels)'
  BY <1>1, Woken, Zenon DEF SoftirqInv, SoftirqTypeOK
<1>3. CpuInv(c)'
  BY <1>1, Woken, Zenon DEF CpuInv
<1>4. SoftirqInv'
  BY <1>1, <1>2, <1>3, Woken, OneCpu, Zenon DEF SoftirqInv, SoftirqTypeOK
<1> QED
  BY <1>1, <1>4, Zenon DEF Quiet

\* Sections with softirqs disabled.
LEMMA BhInv ==
  ASSUME SoftirqInv, NEW c \in CPU, local_bh_disable(c) \/ local_bh_enable(c)
  PROVE  SoftirqInv' /\ Quiet
<1>1. CASE local_bh_disable(c)
  <2>1. bh' = [bh EXCEPT ![c] = TRUE] /\ UNCHANGED <<pending, sirq, kpc, sched_vars>>
    BY <1>1, Zenon DEF local_bh_disable
  <2>2. SoftirqTypeOK(TaskletLabels)'
    BY <2>1, Zenon DEF SoftirqInv, SoftirqTypeOK, SchedTypeOK, sched_vars
  <2>3. CpuInv(c)'
    BY <2>1, Zenon DEF CpuInv, in_interrupt, sched_vars, SoftirqInv, SoftirqTypeOK
  <2>4. SoftirqInv'
    BY ZenonT(30), <2>1, <2>2, <2>3, OneCpu DEF sched_vars, SoftirqInv, SoftirqTypeOK
  <2> QED
    BY <2>1, <2>4, Zenon DEF Quiet
<1>2. CASE local_bh_enable(c)
  <2>1. /\ bh' = [bh EXCEPT ![c] = FALSE] /\ sirq[c].at = "none"
        /\ __do_softirq(c, pending[c]) /\ UNCHANGED <<kpc, sched_vars>>
    BY <1>2, Zenon DEF local_bh_enable
  <2>2. pending[c] \in SUBSET Nr /\ bh' \in [CPU -> BOOLEAN] /\ \A d \in CPU \ {c} : bh'[d] = bh[d]
    BY <2>1, Zenon DEF SoftirqInv, SoftirqTypeOK
  <2> QED
    BY ZenonT(30), <2>1, <2>2, DoSoftirqInv
<1> QED
  BY <1>1, <1>2, Zenon

\* ksoftirqd() does not go to sleep on a softirq that has been left to it.
LEMMA KsoftirqdInv ==
  ASSUME SoftirqInv, NEW c \in CPU, ksoftirqd(c)
  PROVE  SoftirqInv' /\ Quiet
<1> USE DEF CPU
<1>0. /\ SchedTypeOK /\ pending \in [CPU -> SUBSET Nr] /\ kpc \in [CPU -> {"test", "schedule", "loop", "set"}]
      /\ CpuInv(c) /\ onrq[c] /\ ~in_interrupt(c)
  BY ZenonT(30) DEF SoftirqInv, SoftirqTypeOK, ksoftirqd, KSet, KTest, KSchedule, KLoop, KAt
<1>1. ASSUME NEW l \in {"test", "schedule", "loop", "set"}, kpc' = [kpc EXCEPT ![c] = l],
             UNCHANGED <<pending, bh, sirq>>, SchedTypeOK',
             \A d \in CPU \ {c} : state'[d] = state[d] /\ onrq'[d] = onrq[d],
             state'[c] = RUNNING => onrq'[c],
             pending[c] # {} => onrq'[c] /\ (l = "schedule" => state'[c] = RUNNING)
      PROVE  SoftirqInv' /\ Quiet
  <2>1. SoftirqTypeOK(TaskletLabels)'
    BY <1>1, Zenon DEF SoftirqInv, SoftirqTypeOK
  <2>2. CpuInv(c)'
    BY <1>0, <1>1, Zenon DEF CpuInv
  <2>3. \A d \in CPU \ {c} : kpc'[d] = kpc[d]
    BY <1>0, <1>1, Zenon
  <2> QED
    BY <1>1, <2>1, <2>2, <2>3, OneCpu, Zenon DEF Quiet
<1>2. CASE KSet(c)
  <2>1. /\ state' = [state EXCEPT ![c] = INTERRUPTIBLE] /\ UNCHANGED onrq
        /\ kpc' = [kpc EXCEPT ![c] = "test"] /\ UNCHANGED <<pending, bh, sirq>>
    BY <1>2, Zenon DEF KSet, KGoto, set_task_state
  <2>2. SchedTypeOK' /\ state'[c] = INTERRUPTIBLE /\ \A d \in CPU \ {c} : state'[d] = state[d]
    BY <1>0, <2>1, Zenon DEF SchedTypeOK, TaskStates
  <2> QED
    BY <1>0, <1>1, <2>1, <2>2, Zenon DEF RUNNING, INTERRUPTIBLE
<1>3. CASE KTest(c) /\ pending[c] = {}
  <2>1. kpc' = [kpc EXCEPT ![c] = "schedule"] /\ UNCHANGED <<pending, bh, sirq, state, onrq>>
    BY <1>3, Zenon DEF KTest, KGoto, sched_vars
  <2>2. SchedTypeOK'
    BY <1>0, <2>1, Zenon DEF SchedTypeOK
  <2> QED
    BY <1>0, <1>1, <1>3, <2>1, <2>2, Zenon DEF CpuInv
<1>4. CASE KTest(c) /\ pending[c] # {}
  <2>1. /\ state' = [state EXCEPT ![c] = RUNNING] /\ UNCHANGED onrq
        /\ kpc' = [kpc EXCEPT ![c] = "loop"] /\ UNCHANGED <<pending, bh, sirq>>
    BY <1>4, Zenon DEF KTest, KGoto, set_task_state
  <2>2. SchedTypeOK' /\ state'[c] = RUNNING /\ \A d \in CPU \ {c} : state'[d] = state[d]
    BY <1>0, <2>1, Zenon DEF SchedTypeOK, TaskStates
  <2> QED
    BY <1>0, <1>1, <2>1, <2>2, Zenon
<1>5. CASE KSchedule(c)
  <2>1. /\ onrq' = [onrq EXCEPT ![c] = (state[c] = RUNNING)] /\ UNCHANGED state
        /\ kpc' = [kpc EXCEPT ![c] = "loop"] /\ UNCHANGED <<pending, bh, sirq>> /\ kpc[c] = "schedule"
    BY <1>5, Zenon DEF KSchedule, KGoto, schedule, KAt
  <2>2. SchedTypeOK' /\ onrq'[c] = (state[c] = RUNNING) /\ \A d \in CPU \ {c} : onrq'[d] = onrq[d]
    BY <1>0, <2>1, Zenon DEF SchedTypeOK
  <2>3. pending[c] # {} => state[c] = RUNNING
    BY <1>0, <2>1, Zenon DEF CpuInv
  <2> QED
    BY ZenonT(30), <1>1, <2>1, <2>2, <2>3
<1>6. CASE KLoop(c) /\ pending[c] # {}
  <2>1. /\ pending' = [pending EXCEPT ![c] = {}] /\ UNCHANGED <<kpc, bh, sched_vars>>
        /\ sirq' = [sirq EXCEPT ![c] = [at |-> "run", todo |-> pending[c], max_restart |-> MAX_SOFTIRQ_RESTART]]
    BY <1>6, Zenon DEF KLoop, Activate
  <2>2. SoftirqTypeOK(TaskletLabels)'
    BY <2>1, SoftirqAssumption DEF SoftirqInv, SoftirqTypeOK, SchedTypeOK, sched_vars, TaskletLabels
  <2>3. CpuInv(c)'
    BY <1>0, <2>1, Zenon DEF CpuInv, sched_vars
  <2>4. SoftirqInv'
    BY <2>1, <2>2, <2>3, OneCpu, Zenon DEF sched_vars, SoftirqInv, SoftirqTypeOK
  <2>5. sirq[c].at = "none"
    BY <1>0, Zenon DEF in_interrupt
  <2> QED
    BY <2>1, <2>4, <2>5, Zenon DEF Quiet, SoftirqInv, SoftirqTypeOK
<1>7. CASE KLoop(c) /\ pending[c] = {}
  <2>1. kpc' = [kpc EXCEPT ![c] = "set"] /\ UNCHANGED <<pending, bh, sirq, state, onrq>>
    BY <1>7, Zenon DEF KLoop, KGoto, sched_vars
  <2>2. SchedTypeOK'
    BY <1>0, <2>1, Zenon DEF SchedTypeOK
  <2> QED
    BY <1>0, <1>1, <1>7, <2>1, <2>2, Zenon DEF CpuInv
<1> QED
  BY <1>2, <1>3, <1>4, <1>5, <1>6, <1>7, Zenon DEF ksoftirqd

\* The end of __do_softirq2() starts again or wakes ksoftirqd.
LEMMA SoftirqEndInv ==
  ASSUME SoftirqInv, NEW c \in CPU, SoftirqEnd(c)
  PROVE  SoftirqInv' /\ Quiet
<1>0. sirq[c].at = "run" /\ UNCHANGED <<bh, kpc>> /\ sirq[c].max_restart \in 0 .. MAX_SOFTIRQ_RESTART
  BY Zenon DEF SoftirqEnd, SoftirqInv, SoftirqTypeOK
<1>1. CASE pending[c] # {} /\ sirq[c].max_restart > 1
  <2>1. /\ pending' = [pending EXCEPT ![c] = {}] /\ UNCHANGED sched_vars
        /\ sirq' = [sirq EXCEPT ![c] = [at |-> "run", todo |-> pending[c],
                                        max_restart |-> sirq[c].max_restart - 1]]
    BY <1>1, Zenon DEF SoftirqEnd, Activate
  <2>2. sirq[c].max_restart - 1 \in 0 .. MAX_SOFTIRQ_RESTART
    BY <1>0, <1>1, SoftirqAssumption
  <2>3. SoftirqTypeOK(TaskletLabels)'
    BY <1>0, <2>1, <2>2, Zenon DEF SoftirqInv, SoftirqTypeOK, SchedTypeOK, sched_vars, TaskletLabels
  <2>4. CpuInv(c)'
    BY <2>1, Zenon DEF CpuInv, sched_vars, SoftirqInv, SoftirqTypeOK
  <2>5. SoftirqInv'
    BY <1>0, <2>1, <2>3, <2>4, OneCpu, Zenon DEF sched_vars, SoftirqInv, SoftirqTypeOK
  <2> QED
    BY <1>0, <2>1, <2>5, Zenon DEF Quiet, SoftirqInv, SoftirqTypeOK
<1>2. CASE ~(pending[c] # {} /\ sirq[c].max_restart > 1)
  <2>1. /\ UNCHANGED pending /\ sirq' = [sirq EXCEPT ![c] = NoActivation]
        /\ IF pending[c] # {} THEN wakeup_softirqd(c) ELSE UNCHANGED sched_vars
    BY <1>2, Zenon DEF SoftirqEnd
  <2>2. SchedTypeOK' /\ \A d \in CPU \ {c} : state'[d] = state[d] /\ onrq'[d] = onrq[d]
    BY <2>1, Woken, Zenon DEF SoftirqInv, SoftirqTypeOK, SchedTypeOK, sched_vars
  <2>3. SoftirqTypeOK(TaskletLabels)'
    BY <1>0, <2>1, <2>2, SoftirqAssumption
       DEF SoftirqInv, SoftirqTypeOK, TaskletLabels, NoActivation
  <2>4. CpuInv(c)'
    BY <2>1, Woken DEF CpuInv, sched_vars, SoftirqInv
  <2>5. SoftirqInv'
    BY <1>0, <2>1, <2>2, <2>3, <2>4, OneCpu, Zenon DEF SoftirqInv, SoftirqTypeOK
  <2> QED
    BY <1>0, <2>1, <2>5, Zenon DEF Quiet, NoActivation, SoftirqInv, SoftirqTypeOK
<1> QED
  BY <1>1, <1>2, Zenon

\* The steps of a softirq action only set bits, and the activation is not over.
LEMMA ActionInv ==
  ASSUME SoftirqInv, NEW c \in CPU, NEW bits \in SUBSET Nr,
         NEW l \in TaskletLabels \ {"none"}, NEW todo \in SUBSET Nr, sirq[c].at # "none",
         pending' = [pending EXCEPT ![c] = @ \union bits],
         sirq' = [sirq EXCEPT ![c] = [at |-> l, todo |-> todo, max_restart |-> sirq[c].max_restart]],
         UNCHANGED <<bh, kpc, sched_vars>>
  PROVE  SoftirqInv'
<1>1. SoftirqTypeOK(TaskletLabels)'
  BY Zenon DEF SoftirqInv, SoftirqTypeOK, SchedTypeOK, sched_vars
<1>2. CpuInv(c)'
  BY Zenon DEF CpuInv, in_interrupt, sched_vars, SoftirqInv, SoftirqTypeOK
<1> QED
  BY <1>1, <1>2, OneCpu, Zenon DEF SoftirqInv, SoftirqTypeOK, sched_vars

-----------------------------------------------------------------------------
(* Lists of tasklets.                                                      *)

Elem(t, s) == \E i \in DOMAIN s : s[i] = t

Distinct(s) == \A i, j \in DOMAIN s : s[i] = s[j] => i = j

\* Linking at the front, as Push does.
LEMMA PushFacts ==
  ASSUME NEW S, NEW s \in Seq(S), NEW t \in S, NEW r, r = <<t>> \o s
  PROVE  /\ r \in Seq(S)
         /\ Distinct(s) /\ ~Elem(t, s) => Distinct(r)
         /\ \A x : Elem(x, r) <=> x = t \/ Elem(x, s)
<1>1. r \in Seq(S) /\ Len(r) = Len(s) + 1 /\ r[1] = t /\ \A i \in 1 .. Len(s) : r[i + 1] = s[i]
  OBVIOUS
<1>2. \A i \in 2 .. Len(r) : i - 1 \in 1 .. Len(s) /\ r[i] = s[i - 1]
  BY <1>1
<1>3. DOMAIN s = 1 .. Len(s) /\ DOMAIN r = 1 .. Len(r) /\ Len(s) \in Nat
  BY <1>1
<1>4. ASSUME Distinct(s), ~Elem(t, s) PROVE Distinct(r)
  <2> SUFFICES ASSUME NEW i \in 1 .. Len(r), NEW j \in 1 .. Len(r), r[i] = r[j] PROVE i = j
    BY <1>3, Zenon DEF Distinct
  <2>1. CASE i = 1 /\ j # 1
    BY <1>1, <1>2, <1>3, <1>4, <2>1 DEF Elem
  <2>2. CASE i # 1 /\ j = 1
    BY <1>1, <1>2, <1>3, <1>4, <2>2 DEF Elem
  <2>3. CASE i # 1 /\ j # 1
    <3>1. i \in 2 .. Len(r) /\ j \in 2 .. Len(r)
      BY <1>1, <1>3, <2>3
    <3>2. i - 1 \in DOMAIN s /\ j - 1 \in DOMAIN s /\ s[i - 1] = s[j - 1]
      BY <1>2, <1>3, <3>1, Zenon
    <3>3. i - 1 = j - 1
      BY <1>4, <3>2, Zenon DEF Distinct
    <3> QED
      BY <1>1, <1>3, <3>3
  <2> QED
    BY <2>1, <2>2, <2>3, Zenon
<1>5. ASSUME NEW x, Elem(x, r) PROVE x = t \/ Elem(x, s)
  BY <1>1, <1>2, <1>3, <1>5 DEF Elem
<1>6. ASSUME NEW x, x = t \/ Elem(x, s) PROVE Elem(x, r)
  <2>1. 1 \in DOMAIN r /\ \A i \in DOMAIN s : i + 1 \in DOMAIN r
    BY <1>1, <1>3
  <2>2. CASE x = t
    BY SMTT(30), <1>1, <2>1, <2>2 DEF Elem
  <2>3. CASE Elem(x, s)
    <3>1. PICK i \in DOMAIN s : s[i] = x
      BY <2>3, Zenon DEF Elem
    <3>2. r[i + 1] = x
      BY <1>1, <1>3, <3>1, Zenon
    <3> QED
      BY <2>1, <3>2, Zenon DEF Elem
  <2> QED
    BY <1>6, <2>2, <2>3, Zenon
<1> QED
  BY <1>1, <1>4, <1>5, <1>6, Zenon

\* Taking the first tasklet off a list.
LEMMA TailFacts ==
  ASSUME NEW S, NEW s \in Seq(S), s # <<>>
  PROVE  /\ Tail(s) \in Seq(S) /\ Head(s) \in S
         /\ Distinct(s) => Distinct(Tail(s)) /\ ~Elem(Head(s), Tail(s))
         /\ \A x : Elem(x, s) <=> x = Head(s) \/ Elem(x, Tail(s))
<1>1. /\ Tail(s) \in Seq(S) /\ Len(s) = Len(Tail(s)) + 1 /\ Head(s) = s[1] /\ Head(s) \in S
      /\ \A i \in 1 .. Len(Tail(s)) : Tail(s)[i] = s[i + 1]
  OBVIOUS
<1>2. \A i \in 2 .. Len(s) : i - 1 \in 1 .. Len(Tail(s)) /\ s[i] = Tail(s)[i - 1]
  BY <1>1
<1>3. DOMAIN s = 1 .. Len(s) /\ DOMAIN Tail(s) = 1 .. Len(Tail(s)) /\ Len(Tail(s)) \in Nat
  BY <1>1
<1>4. 1 \in DOMAIN s /\ \A i \in DOMAIN Tail(s) : i + 1 \in DOMAIN s /\ i + 1 # 1
  BY <1>1, <1>3
<1>5. ASSUME Distinct(s) PROVE Distinct(Tail(s)) /\ ~Elem(Head(s), Tail(s))
  <2>1. ASSUME NEW i \in DOMAIN Tail(s), NEW j \in DOMAIN Tail(s), Tail(s)[i] = Tail(s)[j] PROVE i = j
    BY <1>1, <1>3, <1>4, <1>5, <2>1 DEF Distinct
  <2>2. \A i \in DOMAIN Tail(s) : Tail(s)[i] # Head(s)
    BY <1>1, <1>3, <1>4, <1>5, Zenon DEF Distinct
  <2> QED
    BY <2>1, <2>2, Zenon DEF Distinct, Elem
<1>6. ASSUME NEW x, Elem(x, s) PROVE x = Head(s) \/ Elem(x, Tail(s))
  <2>1. PICK i \in 1 .. Len(s) : s[i] = x
    BY <1>3, <1>6, Zenon DEF Elem
  <2>2. CASE i = 1
    BY <1>1, <2>1, <2>2, Zenon
  <2>3. CASE i # 1
    <3>1. i \in 2 .. Len(s)
      BY <2>1, <2>3
    <3>2. i - 1 \in DOMAIN Tail(s) /\ Tail(s)[i - 1] = x
      BY <1>2, <1>3, <2>1, <3>1, Zenon
    <3> QED
      BY ZenonT(30), <3>2 DEF Elem
  <2> QED
    BY <2>2, <2>3, Zenon
<1>7. ASSUME NEW x, x = Head(s) \/ Elem(x, Tail(s)) PROVE Elem(x, s)
  <2>1. CASE x = Head(s)
    BY <1>1, <1>4, <2>1, Zenon DEF Elem
  <2>2. CASE Elem(x, Tail(s))
    <3>1. PICK i \in DOMAIN Tail(s) : Tail(s)[i] = x
      BY <2>2, Zenon DEF Elem
    <3>2. s[i + 1] = x
      BY <1>1, <1>3, <3>1, Zenon
    <3> QED
      BY <1>4, <3>1, <3>2, Zenon DEF Elem
  <2> QED
    BY <1>7, <2>1, <2>2, Zenon
<1> QED
  BY <1>1, <1>5, <1>6, <1>7, Zenon

\* An empty list links nothing.
LEMMA EmptyFacts == Distinct(<<>>) /\ \A x : ~Elem(x, <<>>)
BY DEF Distinct, Elem

-----------------------------------------------------------------------------
(* Tasklets.                                                               *)

TaskletTypeOK ==
  /\ sched \subseteq TaskletStruct /\ run \subseteq TaskletStruct
  /\ count \in [TaskletStruct -> 0 .. 1]
  /\ vec \in [CPU -> Seq(TaskletStruct)] /\ list \in [CPU -> Seq(TaskletStruct)]
  /\ cur \in [CPU -> TaskletStruct \union {NoTasklet}]
  /\ ctl \in [at : ControlLabels, t : TaskletStruct \union {NoTasklet}]
  /\ wanted \subseteq TaskletStruct

\* TASKLET_STATE_RUN is a lock: the tasklets that CPUs have locked are different.
RunInv ==
  /\ \A c \in CPU : cur[c] # NoTasklet <=> sirq[c].at \in {"locked", "func"}
  /\ \A c \in CPU : cur[c] # NoTasklet => cur[c] \in run
  /\ \A c, d \in CPU : cur[c] # NoTasklet /\ cur[c] = cur[d] => c = d

\* t->count of a tasklet is that of the only controlling task, and a tasklet it has
\* found unlocked after raising the count does not get past the test of the count.
Disabling == {"disable_wait", "disabled"}

ControlInv ==
  /\ ctl.at # "out" => ctl.t \in TaskletStruct
  /\ \A t \in TaskletStruct : count[t] = IF ctl.at \in Disabling /\ ctl.t = t THEN 1 ELSE 0
  /\ ctl.at = "disabled" => \A c \in CPU : sirq[c].at = "func" => cur[c] # ctl.t

\* A tasklet is linked at one place at most ...
Locked(c, t) == sirq[c].at = "locked" /\ cur[c] = t

LinkInv ==
  /\ \A c \in CPU : Distinct(vec[c]) /\ Distinct(list[c])
  /\ \A c, d \in CPU : \A t \in TaskletStruct :
       /\ Elem(t, vec[c]) => ~Elem(t, list[d]) /\ ~Locked(d, t)
       /\ Elem(t, list[c]) => ~Locked(d, t)
       /\ Elem(t, vec[c]) /\ Elem(t, vec[d]) => c = d
       /\ Elem(t, list[c]) /\ Elem(t, list[d]) => c = d
  /\ \A c \in CPU : sirq[c].at \in {"none", "run"} => list[c] = <<>>

\* ... and it is linked if TASKLET_STATE_SCHED is set, unless tasklet_kill() set it.
Held(t) == \E c \in CPU : Elem(t, vec[c]) \/ Elem(t, list[c]) \/ Locked(c, t)

SchedInv == \A t \in TaskletStruct : /\ Held(t) <=> t \in sched /\ ~Killed(t)
                                     /\ Killed(t) => t \in sched
                                     /\ t \in wanted => Held(t)

TaskletInv == TaskletTypeOK /\ RunInv /\ ControlInv /\ LinkInv /\ SchedInv

Inv == SoftirqInv /\ TaskletInv

-----------------------------------------------------------------------------
\* The state at boot satisfies the invariant.
LEMMA InitInv == Init => Inv
<1> SUFFICES ASSUME Init PROVE Inv
  BY Zenon
<1> USE DEF Init, SoftirqInit, SchedInit, NoActivation, NoControl
<1>1. SoftirqTypeOK(TaskletLabels)
  BY SoftirqAssumption DEF SoftirqTypeOK, SchedTypeOK, TaskStates, TaskletLabels, CPU
<1>2. \A c \in CPU : CpuInv(c)
  BY Zenon DEF CpuInv, CPU
<1>3. TaskletTypeOK
  BY DEF TaskletTypeOK, ControlLabels
<1>4. RunInv
  BY Zenon DEF RunInv
<1>5. ControlInv
  BY Zenon DEF ControlInv, Disabling
<1>6. LinkInv
  BY EmptyFacts, Zenon DEF LinkInv, Locked
<1>7. SchedInv
  BY EmptyFacts, Zenon DEF SchedInv, Held, Locked, Killed
<1> QED
  BY <1>1, <1>2, <1>3, <1>4, <1>5, <1>6, <1>7, Zenon DEF Inv, SoftirqInv, TaskletInv

\* Softirq steps that leave the tasklets alone.
LEMMA QuietTasklets ==
  ASSUME TaskletInv, Quiet, UNCHANGED tasklet_vars
  PROVE  TaskletInv'
<1> USE DEF TaskletInv, tasklet_vars
<1>1. \A c \in CPU, l \in {"list", "locked", "func"} : sirq'[c].at = l <=> sirq[c].at = l
  BY Zenon DEF Quiet
<1>2. \A c \in CPU, t \in TaskletStruct : Locked(c, t)' <=> Locked(c, t)
  BY <1>1, Zenon DEF Locked
<1>3. TaskletTypeOK'
  BY Zenon DEF TaskletTypeOK
<1>4. RunInv'
  BY <1>1, Zenon DEF RunInv
<1>5. ControlInv'
  BY <1>1, Zenon DEF ControlInv
<1>6. \A c \in CPU : sirq'[c].at \in {"none", "run"} => sirq[c].at \in {"none", "run"}
  BY Zenon DEF Quiet
<1>7. LinkInv'
  BY SMTT(30), <1>2, <1>6 DEF LinkInv
<1>8. SchedInv'
  BY <1>2, Zenon DEF SchedInv, Held, Killed
<1> QED
  BY <1>3, <1>4, <1>5, <1>7, <1>8, Zenon

\* A tasklet that is linked nowhere is put on the list of a CPU.
LEMMA PushInv ==
  ASSUME TaskletInv, NEW c \in CPU, NEW t \in TaskletStruct, ~Held(t), Push(c, t)
  PROVE  /\ vec' \in [CPU -> Seq(TaskletStruct)]
         /\ \A d \in CPU : Distinct(vec'[d])
         /\ \A d \in CPU, u \in TaskletStruct : Elem(u, vec'[d]) <=> Elem(u, vec[d]) \/ (d = c /\ u = t)
<1>t. TaskletTypeOK
  BY Zenon DEF TaskletInv
<1>l. LinkInv
  BY Zenon DEF TaskletInv
<1>1. vec \in [CPU -> Seq(TaskletStruct)] /\ Distinct(vec[c]) /\ ~Elem(t, vec[c])
  BY <1>t, <1>l, Zenon DEF TaskletTypeOK, LinkInv, Held
<1>2. vec' = [vec EXCEPT ![c] = <<t>> \o vec[c]] /\ vec[c] \in Seq(TaskletStruct)
  BY <1>1, Zenon DEF Push
<1>3. vec'[c] = <<t>> \o vec[c] /\ \A d \in CPU \ {c} : vec'[d] = vec[d]
  BY <1>1, <1>2, Zenon
<1>4. /\ vec'[c] \in Seq(TaskletStruct) /\ Distinct(vec'[c])
      /\ \A x : Elem(x, vec'[c]) <=> x = t \/ Elem(x, vec[c])
  BY ZenonT(30), <1>1, <1>2, <1>3, PushFacts
<1>5. <<t>> \o vec[c] \in Seq(TaskletStruct)
  BY <1>3, <1>4, Zenon
<1> QED
  BY <1>1, <1>2, <1>3, <1>4, <1>5, <1>l, Zenon DEF LinkInv

\* tasklet_schedule()
LEMMA RequestInv ==
  ASSUME TaskletInv, NEW c \in CPU, NEW t \in TaskletStruct, Request(c, t), Quiet
  PROVE  TaskletInv'
<1>t. TaskletTypeOK
  BY Zenon DEF TaskletInv
<1>r. RunInv
  BY Zenon DEF TaskletInv
<1>c. ControlInv
  BY Zenon DEF TaskletInv
<1>l. LinkInv
  BY Zenon DEF TaskletInv
<1>s. SchedInv
  BY Zenon DEF TaskletInv
<1>0. /\ sched' = sched \union {t} /\ wanted' = (IF Killed(t) THEN wanted ELSE wanted \union {t})
      /\ UNCHANGED <<run, count, list, cur, ctl>>
  BY Zenon DEF Request
<1>1. \A d \in CPU, l \in {"list", "locked", "func"} : sirq'[d].at = l <=> sirq[d].at = l
  BY Zenon DEF Quiet
<1>2. \A d \in CPU, u \in TaskletStruct : Locked(d, u)' <=> Locked(d, u)
  BY <1>0, <1>1, Zenon DEF Locked
<1>3. \A d \in CPU : sirq'[d].at \in {"none", "run"} => sirq[d].at \in {"none", "run"}
  BY Zenon DEF Quiet
<1>4. RunInv' /\ ControlInv'
  BY <1>0, <1>1, <1>r, <1>c, Zenon DEF RunInv, ControlInv
<1>5. \A u \in TaskletStruct : Killed(u)' <=> Killed(u)
  BY <1>0, Zenon DEF Killed
<1>6. CASE t \in sched
  <2>1. UNCHANGED vec /\ UNCHANGED sched
    BY <1>0, <1>6, Zenon DEF Request
  <2>2. TaskletTypeOK'
    BY SMTT(30), <1>0, <2>1, <1>t DEF TaskletTypeOK
  <2>3. LinkInv'
    BY SMTT(30), <1>0, <1>2, <1>3, <2>1, <1>l DEF LinkInv
  <2>4. \A u \in TaskletStruct : Held(u)' <=> Held(u)
    BY <1>0, <1>2, <2>1, Zenon DEF Held
  <2>5. SchedInv'
    BY <1>0, <1>5, <1>6, <2>1, <2>4, <1>s, Zenon DEF SchedInv
  <2> QED
    BY <1>4, <2>2, <2>3, <2>5, Zenon DEF TaskletInv
<1>7. CASE t \notin sched
  <2>1. Push(c, t) /\ ~Held(t) /\ ~Killed(t)
    BY <1>7, <1>s, Zenon DEF Request, SchedInv
  <2>2. TaskletTypeOK'
    BY SMTT(30), <1>0, <2>1, PushInv, <1>t DEF TaskletTypeOK
  <2>3. LinkInv'
    <3>1. \A d \in CPU : ~Elem(t, vec[d]) /\ ~Elem(t, list[d]) /\ ~Locked(d, t)
      BY SMTT(30), <2>1 DEF Held
    <3>2. ASSUME NEW d \in CPU, NEW e \in CPU, NEW u \in TaskletStruct
          PROVE  /\ Elem(u, vec'[d]) => ~Elem(u, list'[e]) /\ ~Locked(e, u)'
                 /\ Elem(u, vec'[d]) /\ Elem(u, vec'[e]) => d = e
      BY SMTT(30), <1>0, <1>2, <2>1, <3>1, PushInv, <1>l DEF LinkInv
    <3> QED
      BY SMTT(30), <1>0, <1>2, <1>3, <2>1, <3>2, PushInv, <1>l DEF LinkInv
  <2>4. \A u \in TaskletStruct : Held(u)' <=> Held(u) \/ u = t
    BY <1>0, <1>2, <2>1, PushInv DEF Held
  <2>5. SchedInv'
    BY <1>0, <1>5, <2>1, <2>4, <1>s, Zenon DEF SchedInv
  <2> QED
    BY <1>4, <2>2, <2>3, <2>5, Zenon DEF TaskletInv
<1> QED
  BY <1>6, <1>7, Zenon

-----------------------------------------------------------------------------
(* tasklet_action()                                                        *)

\* AGoto changes where one activation is, and nothing else.
LEMMA AGotoFacts ==
  ASSUME SoftirqInv, NEW c \in CPU, NEW l \in TaskletLabels, AGoto(c, l)
  PROVE  /\ sirq'[c].at = l /\ \A d \in CPU \ {c} : sirq'[d] = sirq[d]
         /\ sirq' = [sirq EXCEPT ![c] = [at |-> l, todo |-> sirq[c].todo, max_restart |-> sirq[c].max_restart]]
<1>1. sirq \in [CPU -> [at : TaskletLabels, todo : SUBSET Nr, max_restart : 0 .. MAX_SOFTIRQ_RESTART]]
  BY Zenon DEF SoftirqInv, SoftirqTypeOK
<1>2. sirq' = [sirq EXCEPT ![c] = [sirq[c] EXCEPT !.at = l]]
  BY <1>1, Zenon DEF AGoto
<1>3. [sirq[c] EXCEPT !.at = l] = [at |-> l, todo |-> sirq[c].todo, max_restart |-> sirq[c].max_restart]
  BY <1>1
<1> QED
  BY ZenonT(30), <1>1, <1>2, <1>3

\* Such a step of tasklet_action() that may raise TASKLET_SOFTIRQ again.
LEMMA AGotoInv ==
  ASSUME SoftirqInv, NEW c \in CPU, NEW l \in TaskletLabels \ {"none"}, AGoto(c, l), sirq[c].at # "none",
         \/ UNCHANGED pending
         \/ pending' = [pending EXCEPT ![c] = @ \union {TASKLET_SOFTIRQ}],
         UNCHANGED <<bh, kpc, sched_vars>>
  PROVE  SoftirqInv'
<1>1. pending \in [CPU -> SUBSET Nr] /\ sirq[c].todo \in SUBSET Nr
  BY Zenon DEF SoftirqInv, SoftirqTypeOK
<1>2. PICK bits \in {{}, {TASKLET_SOFTIRQ}} : pending' = [pending EXCEPT ![c] = @ \union bits]
  BY <1>1, Zenon
<1>3. bits \in SUBSET Nr
  BY TaskletAssumption, Zenon
<1>4. sirq' = [sirq EXCEPT ![c] = [at |-> l, todo |-> sirq[c].todo, max_restart |-> sirq[c].max_restart]]
  BY AGotoFacts, Zenon
<1> QED
  BY ZenonT(30), <1>1, <1>2, <1>3, <1>4, ActionInv

\* The CPU's list becomes the list of this activation.
LEMMA TakeListInv ==
  ASSUME Inv, NEW c \in CPU, TakeList(c)
  PROVE  Inv'
<1>t. TaskletTypeOK
  BY Zenon DEF Inv, TaskletInv
<1>r. RunInv
  BY Zenon DEF Inv, TaskletInv
<1>c. ControlInv
  BY Zenon DEF Inv, TaskletInv
<1>l. LinkInv
  BY Zenon DEF Inv, TaskletInv
<1>s. SchedInv
  BY Zenon DEF Inv, TaskletInv
<1>0. /\ list' = [list EXCEPT ![c] = vec[c]] /\ vec' = [vec EXCEPT ![c] = <<>>]
      /\ AGoto(c, "list") /\ sirq[c].at = "run"
      /\ UNCHANGED <<pending, bh, kpc, sched_vars, sched, run, count, cur, ctl, wanted>>
  BY Zenon DEF TakeList, NextAction
<1>1. SoftirqInv'
  BY <1>0, AGotoInv, Zenon DEF Inv, TaskletLabels
<1>2. sirq'[c].at = "list" /\ \A d \in CPU \ {c} : sirq'[d] = sirq[d]
  BY <1>0, AGotoFacts, Zenon DEF Inv, TaskletLabels
<1>3. TaskletTypeOK'
  BY <1>0, <1>t DEF TaskletTypeOK
<1>4. RunInv'
  BY <1>0, <1>2, <1>r, Zenon DEF RunInv
<1>5. ControlInv'
  BY <1>0, <1>2, <1>c, Zenon DEF ControlInv
<1>6. \A d \in CPU, t \in TaskletStruct : Locked(d, t)' <=> Locked(d, t)
  BY SMTT(30), <1>0, <1>2 DEF Locked
<1>7. /\ list'[c] = vec[c] /\ vec'[c] = <<>> /\ list[c] = <<>>
      /\ \A d \in CPU \ {c} : list'[d] = list[d] /\ vec'[d] = vec[d]
  BY <1>0, <1>t, <1>l, Zenon DEF TaskletTypeOK, LinkInv
<1>8. /\ \A t \in TaskletStruct : ~Elem(t, vec'[c]) /\ ~Elem(t, list[c])
      /\ Distinct(vec'[c])
  BY <1>7, EmptyFacts, Zenon
<1>9. LinkInv'
  <2>1. ASSUME NEW d \in CPU, NEW e \in CPU, NEW t \in TaskletStruct
        PROVE  /\ Elem(t, vec'[d]) => ~Elem(t, list'[e]) /\ ~Locked(e, t)'
               /\ Elem(t, list'[d]) => ~Locked(e, t)'
               /\ Elem(t, vec'[d]) /\ Elem(t, vec'[e]) => d = e
               /\ Elem(t, list'[d]) /\ Elem(t, list'[e]) => d = e
    BY SMTT(30), <1>6, <1>7, <1>8, <1>l DEF LinkInv
  <2>2. \A d \in CPU : Distinct(vec'[d]) /\ Distinct(list'[d])
    BY <1>7, <1>8, <1>l, Zenon DEF LinkInv
  <2>3. \A d \in CPU : sirq'[d].at \in {"none", "run"} => list'[d] = <<>>
    BY SMTT(30), <1>2, <1>7, <1>l DEF LinkInv
  <2> QED
    BY SMTT(30), <2>1, <2>2, <2>3 DEF LinkInv
<1>10. \A t \in TaskletStruct : Held(t)' <=> Held(t)
  BY <1>6, <1>7, <1>8, Zenon DEF Held
<1>11. SchedInv'
  BY SMTT(30), <1>0, <1>10, <1>s DEF SchedInv, Killed
<1> QED
  BY <1>1, <1>3, <1>4, <1>5, <1>9, <1>11, Zenon DEF Inv, TaskletInv

\* What taking the head off the list of an activation does to the lists.
LEMMA PopFacts ==
  ASSUME TaskletInv, NEW c \in CPU, list[c] # <<>>, list' = [list EXCEPT ![c] = Tail(@)]
  PROVE  /\ Head(list[c]) \in TaskletStruct /\ list' \in [CPU -> Seq(TaskletStruct)]
         /\ \A d \in CPU : Distinct(list'[d])
         /\ \A d \in CPU, u \in TaskletStruct :
              Elem(u, list'[d]) <=> Elem(u, list[d]) /\ ~(d = c /\ u = Head(list[c]))
         /\ Elem(Head(list[c]), list[c])
         /\ \A d \in CPU : list[d] = <<>> => list'[d] = <<>>
<1>t. TaskletTypeOK
  BY Zenon DEF TaskletInv
<1>l. LinkInv
  BY Zenon DEF TaskletInv
<1>1. list \in [CPU -> Seq(TaskletStruct)] /\ Distinct(list[c]) /\ list[c] \in Seq(TaskletStruct)
  BY <1>t, <1>l, Zenon DEF TaskletTypeOK, LinkInv
<1>2. list'[c] = Tail(list[c]) /\ \A d \in CPU \ {c} : list'[d] = list[d]
  BY <1>1, Zenon
<1>3. /\ Tail(list[c]) \in Seq(TaskletStruct) /\ Head(list[c]) \in TaskletStruct
      /\ Distinct(Tail(list[c])) /\ ~Elem(Head(list[c]), Tail(list[c]))
      /\ \A x : Elem(x, list[c]) <=> x = Head(list[c]) \/ Elem(x, Tail(list[c]))
  BY <1>1, TailFacts, Zenon
<1>4. list' \in [CPU -> Seq(TaskletStruct)]
  BY <1>1, <1>3, Zenon
<1> QED
  BY <1>2, <1>3, <1>4, <1>l, Zenon DEF LinkInv

\* tasklet_trylock(): the head of the list is locked, or put back.
LEMMA TrylockInv ==
  ASSUME Inv, NEW c \in CPU, TaskletTrylock(c)
  PROVE  Inv'
<1>t. TaskletTypeOK
  BY Zenon DEF Inv, TaskletInv
<1>r. RunInv
  BY Zenon DEF Inv, TaskletInv
<1>c. ControlInv
  BY Zenon DEF Inv, TaskletInv
<1>l. LinkInv
  BY Zenon DEF Inv, TaskletInv
<1>s. SchedInv
  BY Zenon DEF Inv, TaskletInv
<1> DEFINE t == Head(list[c])
<1>0. /\ sirq[c].at = "list" /\ list[c] # <<>> /\ list' = [list EXCEPT ![c] = Tail(@)]
      /\ UNCHANGED <<bh, kpc, sched_vars, sched, count, ctl, wanted>>
  BY Zenon DEF TaskletTrylock
<1>1. /\ t \in TaskletStruct /\ list' \in [CPU -> Seq(TaskletStruct)] /\ Elem(t, list[c])
      /\ \A d \in CPU : Distinct(list'[d]) /\ (list[d] = <<>> => list'[d] = <<>>)
      /\ \A d \in CPU, u \in TaskletStruct : Elem(u, list'[d]) <=> Elem(u, list[d]) /\ ~(d = c /\ u = t)
  BY ZenonT(30), <1>0, PopFacts DEF Inv
<1>2. \A d \in CPU : ~Elem(t, vec[d]) /\ ~Elem(t, list'[d]) /\ ~Locked(d, t)
  BY SMTT(30), <1>1, <1>l DEF LinkInv
<1>4. CASE t \notin run
  <2>1. /\ run' = run \union {t} /\ cur' = [cur EXCEPT ![c] = t] /\ AGoto(c, "locked")
        /\ UNCHANGED <<pending, vec>>
    BY <1>4, Zenon DEF TaskletTrylock
  <2>2. SoftirqInv'
    BY <1>0, <2>1, AGotoInv, Zenon DEF Inv, TaskletLabels
  <2>3. sirq'[c].at = "locked" /\ \A d \in CPU \ {c} : sirq'[d] = sirq[d]
    BY <2>1, AGotoFacts, Zenon DEF Inv, TaskletLabels
  <2>4. cur'[c] = t /\ \A d \in CPU \ {c} : cur'[d] = cur[d]
    BY SMTT(30), <2>1, <1>t DEF TaskletTypeOK
  <2>5. TaskletTypeOK'
    BY SMTT(30), <1>0, <1>1, <2>1, <1>t DEF TaskletTypeOK
  <2>6. RunInv'
    BY SMTT(30), <1>0, <1>1, <1>4, <2>1, <2>3, <2>4, TaskletAssumption, <1>r DEF RunInv
  <2>7. ControlInv'
    BY SMTT(30), <1>0, <2>3, <2>4, <1>c DEF ControlInv
  <2>8. \A d \in CPU, u \in TaskletStruct : Locked(d, u)' <=> Locked(d, u) \/ (d = c /\ u = t)
    BY <1>0, <2>3, <2>4, Zenon DEF Locked
  <2>9. LinkInv'
    <3>1. ASSUME NEW d \in CPU, NEW e \in CPU, NEW u \in TaskletStruct
          PROVE  /\ Elem(u, vec'[d]) => ~Elem(u, list'[e]) /\ ~Locked(e, u)'
                 /\ Elem(u, list'[d]) => ~Locked(e, u)'
                 /\ Elem(u, vec'[d]) /\ Elem(u, vec'[e]) => d = e
                 /\ Elem(u, list'[d]) /\ Elem(u, list'[e]) => d = e
      <4>1. /\ Elem(u, vec[d]) => ~Elem(u, list[e]) /\ ~Locked(e, u)
            /\ Elem(u, list[d]) => ~Locked(e, u)
            /\ Elem(u, vec[d]) /\ Elem(u, vec[e]) => d = e
            /\ Elem(u, list[d]) /\ Elem(u, list[e]) => d = e
        BY ZenonT(30), <1>l DEF LinkInv
      <4>2. /\ Locked(e, u)' => Locked(e, u) \/ u = t
            /\ Elem(u, list'[d]) => Elem(u, list[d]) /\ u # t
            /\ Elem(u, list'[e]) => Elem(u, list[e])
        BY ZenonT(30), <1>1, <1>2, <2>8
      <4>3. vec' = vec /\ (Elem(u, vec[d]) => u # t)
        BY ZenonT(30), <1>2, <2>1
      <4> HIDE DEF t
      <4> QED
        BY ZenonT(30), <4>1, <4>2, <4>3
    <3>2. \A d \in CPU : sirq'[d].at \in {"none", "run"} => list'[d] = <<>>
      BY SMTT(30), <1>1, <2>3, <1>l DEF LinkInv
    <3> QED
      BY ZenonT(30), <1>1, <2>1, <3>1, <3>2, <1>l DEF LinkInv
  <2>10. \A u \in TaskletStruct : Held(u)' <=> Held(u)
    BY SMTT(30), <1>1, <2>1, <2>8 DEF Held
  <2>11. SchedInv'
    BY <1>0, <2>10, <1>s, Zenon DEF SchedInv, Killed
  <2> QED
    BY <2>2, <2>5, <2>6, <2>7, <2>9, <2>11, Zenon DEF Inv, TaskletInv
<1>5. CASE t \in run
  <2>1. /\ Push(c, t) /\ pending' = [pending EXCEPT ![c] = @ \union {TASKLET_SOFTIRQ}]
        /\ UNCHANGED <<sirq, run, cur>>
    BY ZenonT(30), <1>5 DEF TaskletTrylock
  <2>2. SoftirqInv'
    <3>1. AGoto(c, "list")
      <4>1. sirq = [sirq EXCEPT ![c] = [sirq[c] EXCEPT !.at = "list"]]
        BY SMTT(30), <1>0 DEF Inv, SoftirqInv, SoftirqTypeOK
      <4> QED
        BY <2>1, <4>1, Zenon DEF AGoto
    <3> QED
      BY ZenonT(30), <1>0, <2>1, <3>1, AGotoInv DEF Inv, TaskletLabels
  <2>3. vec \in [CPU -> Seq(TaskletStruct)] /\ vec[c] \in Seq(TaskletStruct) /\ Distinct(vec[c])
    BY <1>t, <1>l, Zenon DEF TaskletTypeOK, LinkInv
  <2>4. vec'[c] = <<t>> \o vec[c] /\ (\A d \in CPU \ {c} : vec'[d] = vec[d])
    BY <2>1, <2>3, Zenon DEF Push
  <2>5. /\ vec'[c] \in Seq(TaskletStruct) /\ Distinct(vec'[c])
        /\ \A x : Elem(x, vec'[c]) <=> x = t \/ Elem(x, vec[c])
    <3>1. ~Elem(t, vec[c]) /\ t \in TaskletStruct
      BY <1>1, <1>2, Zenon
    <3> HIDE DEF t
    <3> QED
      BY ZenonT(30), <2>3, <2>4, <3>1, PushFacts
  <2>6. vec' \in [CPU -> Seq(TaskletStruct)]
    BY <2>1, <2>3, <2>4, <2>5, Zenon DEF Push
  <2>7. \A d \in CPU, u \in TaskletStruct : Elem(u, vec'[d]) <=> Elem(u, vec[d]) \/ (d = c /\ u = t)
    BY ZenonT(30), <2>4, <2>5
  <2>8. \A d \in CPU, u \in TaskletStruct : Locked(d, u)' <=> Locked(d, u)
    BY <2>1, Zenon DEF Locked
  <2>9. TaskletTypeOK' /\ RunInv' /\ ControlInv'
    BY ZenonT(30), <1>0, <1>1, <2>1, <2>6, <1>t, <1>r, <1>c DEF TaskletTypeOK, RunInv, ControlInv
  <2>10. LinkInv'
    <3>1. ASSUME NEW d \in CPU, NEW e \in CPU, NEW u \in TaskletStruct
          PROVE  /\ Elem(u, vec'[d]) => ~Elem(u, list'[e]) /\ ~Locked(e, u)'
                 /\ Elem(u, list'[d]) => ~Locked(e, u)'
                 /\ Elem(u, vec'[d]) /\ Elem(u, vec'[e]) => d = e
                 /\ Elem(u, list'[d]) /\ Elem(u, list'[e]) => d = e
      <4>1. /\ Elem(u, vec[d]) => ~Elem(u, list[e]) /\ ~Locked(e, u)
            /\ Elem(u, list[d]) => ~Locked(e, u)
            /\ Elem(u, vec[d]) /\ Elem(u, vec[e]) => d = e
            /\ Elem(u, list[d]) /\ Elem(u, list[e]) => d = e
        BY ZenonT(30), <1>l DEF LinkInv
      <4>2. /\ Locked(e, u)' => Locked(e, u) /\ u # t
            /\ Elem(u, list'[d]) => Elem(u, list[d])
            /\ Elem(u, list'[e]) => Elem(u, list[e]) /\ u # t
        BY ZenonT(30), <1>1, <1>2, <2>8
      <4>3. /\ Elem(u, vec'[d]) => Elem(u, vec[d]) \/ (d = c /\ u = t)
            /\ Elem(u, vec'[e]) => Elem(u, vec[e]) \/ (e = c /\ u = t)
            /\ u = t => ~Elem(u, vec[d]) /\ ~Elem(u, vec[e])
        BY ZenonT(30), <1>2, <2>7
      <4> HIDE DEF t
      <4> QED
        BY ZenonT(30), <4>1, <4>2, <4>3
    <3>2. \A d \in CPU : Distinct(vec'[d])
      BY ZenonT(30), <2>4, <2>5, <1>l DEF LinkInv
    <3>3. \A d \in CPU : sirq'[d].at \in {"none", "run"} => list'[d] = <<>>
      BY ZenonT(30), <1>1, <2>1, <1>l DEF LinkInv
    <3> QED
      BY <1>1, <3>1, <3>2, <3>3, Zenon DEF LinkInv
  <2>11. \A u \in TaskletStruct : Held(u)' <=> Held(u)
    BY <1>1, <2>7, <2>8, Zenon DEF Held
  <2>12. SchedInv'
    BY <1>0, <2>11, <1>s, Zenon DEF SchedInv, Killed
  <2> QED
    BY <2>2, <2>9, <2>10, <2>12, Zenon DEF Inv, TaskletInv
<1> QED
  BY <1>4, <1>5, Zenon

\* The tasklet that a CPU has locked begins to run, or is put back because it is
\* disabled.
LEMMA TestInv ==
  ASSUME Inv, NEW c \in CPU, TaskletTest(c)
  PROVE  Inv'
<1>t. TaskletTypeOK
  BY Zenon DEF Inv, TaskletInv
<1>r. RunInv
  BY Zenon DEF Inv, TaskletInv
<1>c. ControlInv
  BY Zenon DEF Inv, TaskletInv
<1>l. LinkInv
  BY Zenon DEF Inv, TaskletInv
<1>s. SchedInv
  BY Zenon DEF Inv, TaskletInv
<1>0. /\ sirq[c].at = "locked" /\ UNCHANGED <<bh, kpc, sched_vars, count, list, ctl>>
  BY Zenon DEF TaskletTest
<1>1. PICK t \in TaskletStruct : t = cur[c]
  BY SMTT(30), <1>0, <1>t, <1>r DEF TaskletTypeOK, RunInv
<1>2. Locked(c, t) /\ \A d \in CPU : ~Elem(t, vec[d]) /\ ~Elem(t, list[d]) /\ (Locked(d, t) => d = c)
  BY <1>0, <1>1, TaskletAssumption, <1>l, <1>r, Zenon DEF LinkInv, RunInv, Locked
<1>3. CASE count[t] = 0
  <2>1. /\ sched' = sched \ {t} /\ wanted' = wanted \ {t} /\ AGoto(c, "func")
        /\ UNCHANGED <<pending, run, vec, cur>>
    BY ZenonT(30), <1>1, <1>3 DEF TaskletTest
  <2>2. SoftirqInv'
    BY <1>0, <2>1, AGotoInv, Zenon DEF Inv, TaskletLabels
  <2>3. sirq'[c].at = "func" /\ \A d \in CPU \ {c} : sirq'[d] = sirq[d]
    BY SMTT(30), <2>1, AGotoFacts DEF Inv, TaskletLabels
  <2>4. TaskletTypeOK'
    BY <1>0, <2>1, <1>t, Zenon DEF TaskletTypeOK
  <2>5. RunInv'
    BY <1>0, <2>1, <2>3, <1>r, Zenon DEF RunInv
  <2>6. ControlInv'
    <3>1. ctl.at = "disabled" => t # ctl.t
      BY <1>3, <1>c DEF ControlInv, Disabling
    <3> QED
      BY <1>0, <1>1, <2>1, <2>3, <3>1, <1>c, Zenon DEF ControlInv
  <2>7. \A d \in CPU, u \in TaskletStruct : Locked(d, u)' <=> Locked(d, u) /\ d # c
    BY SMTT(30), <2>1, <2>3 DEF Locked
  <2>8. LinkInv'
    <3>1. \A d \in CPU : sirq'[d].at \in {"none", "run"} => list'[d] = <<>>
      BY ZenonT(30), <1>0, <2>3, <1>l DEF LinkInv
    <3> QED
      BY ZenonT(30), <1>0, <2>1, <2>7, <3>1, <1>l DEF LinkInv
  <2>9. ~Held(t)'
    BY ZenonT(30), <1>0, <1>2, <2>1, <2>7 DEF Held
  <2>10. \A u \in TaskletStruct \ {t} : Held(u)' <=> Held(u)
    BY SMTT(30), <1>0, <1>1, <2>1, <2>7 DEF Held, Locked
  <2>11. ~Killed(t)
    BY <1>2, <1>s, Zenon DEF SchedInv, Held
  <2>12. SchedInv'
    BY SMTT(30), <1>0, <2>1, <2>9, <2>10, <2>11, <1>s DEF SchedInv, Killed
  <2> QED
    BY <2>2, <2>4, <2>5, <2>6, <2>8, <2>12, Zenon DEF Inv, TaskletInv
<1>4. CASE count[t] # 0
  <2>1. /\ run' = run \ {t} /\ cur' = [cur EXCEPT ![c] = NoTasklet] /\ Push(c, t)
        /\ pending' = [pending EXCEPT ![c] = @ \union {TASKLET_SOFTIRQ}]
        /\ AGoto(c, "list") /\ UNCHANGED <<sched, wanted>>
    BY <1>1, <1>4, Zenon DEF TaskletTest
  <2>2. SoftirqInv'
    BY ZenonT(30), <1>0, <2>1, AGotoInv DEF Inv, TaskletLabels
  <2>3. sirq'[c].at = "list" /\ \A d \in CPU \ {c} : sirq'[d] = sirq[d]
    BY <2>1, AGotoFacts, Zenon DEF Inv, TaskletLabels
  <2>4. cur'[c] = NoTasklet /\ \A d \in CPU \ {c} : cur'[d] = cur[d]
    BY SMTT(30), <2>1, <1>t DEF TaskletTypeOK
  <2>5. vec \in [CPU -> Seq(TaskletStruct)] /\ vec[c] \in Seq(TaskletStruct) /\ Distinct(vec[c])
    BY <1>t, <1>l, Zenon DEF TaskletTypeOK, LinkInv
  <2>6. vec'[c] = <<t>> \o vec[c] /\ (\A d \in CPU \ {c} : vec'[d] = vec[d])
    BY <2>1, <2>5, Zenon DEF Push
  <2>7. /\ vec'[c] \in Seq(TaskletStruct) /\ Distinct(vec'[c])
        /\ \A x : Elem(x, vec'[c]) <=> x = t \/ Elem(x, vec[c])
    BY ZenonT(30), <1>2, <2>5, <2>6, PushFacts
  <2>8. vec' \in [CPU -> Seq(TaskletStruct)]
    BY <2>1, <2>5, <2>6, <2>7, Zenon DEF Push
  <2>9. \A d \in CPU, u \in TaskletStruct : Elem(u, vec'[d]) <=> Elem(u, vec[d]) \/ (d = c /\ u = t)
    BY ZenonT(30), <2>6, <2>7
  <2>10. \A d \in CPU, u \in TaskletStruct : Locked(d, u)' <=> Locked(d, u) /\ d # c
    BY SMTT(30), <2>3, <2>4 DEF Locked
  <2>11. TaskletTypeOK'
    BY <1>0, <2>1, <2>8, <1>t, Zenon DEF TaskletTypeOK
  <2>12. RunInv'
    <3>1. \A d \in CPU : cur'[d] # NoTasklet <=> sirq'[d].at \in {"locked", "func"}
      BY <2>3, <2>4, <1>r, Zenon DEF RunInv
    <3>2. t # NoTasklet /\ cur[c] = t
      BY <1>1, TaskletAssumption, Zenon
    <3>3. \A d \in CPU : cur'[d] # NoTasklet => d # c /\ cur'[d] = cur[d] /\ cur[d] # t
      BY SMTT(30), <2>4, <3>2, <1>r DEF RunInv
    <3>4. \A d \in CPU : cur'[d] # NoTasklet => cur'[d] \in run'
      BY <2>1, <3>3, <1>r DEF RunInv
    <3>5. \A d, e \in CPU : cur'[d] # NoTasklet /\ cur'[d] = cur'[e] => d = e
      BY <3>3, <1>r, Zenon DEF RunInv
    <3> QED
      BY <3>1, <3>4, <3>5, Zenon DEF RunInv
  <2>13. ControlInv'
    BY SMTT(30), <1>0, <2>3, <2>4, <1>c DEF ControlInv
  <2>14. LinkInv'
    <3>1. ASSUME NEW d \in CPU, NEW e \in CPU, NEW u \in TaskletStruct
          PROVE  /\ Elem(u, vec'[d]) => ~Elem(u, list'[e]) /\ ~Locked(e, u)'
                 /\ Elem(u, list'[d]) => ~Locked(e, u)'
                 /\ Elem(u, vec'[d]) /\ Elem(u, vec'[e]) => d = e
                 /\ Elem(u, list'[d]) /\ Elem(u, list'[e]) => d = e
      <4>1. /\ Elem(u, vec[d]) => ~Elem(u, list[e]) /\ ~Locked(e, u)
            /\ Elem(u, list[d]) => ~Locked(e, u)
            /\ Elem(u, vec[d]) /\ Elem(u, vec[e]) => d = e
            /\ Elem(u, list[d]) /\ Elem(u, list[e]) => d = e
        BY ZenonT(30), <1>l DEF LinkInv
      <4>2. list' = list /\ (Locked(e, u)' => Locked(e, u) /\ u # t)
        BY ZenonT(30), <1>0, <1>2, <2>10
      <4>3. /\ Elem(u, vec'[d]) => Elem(u, vec[d]) \/ (d = c /\ u = t)
            /\ Elem(u, vec'[e]) => Elem(u, vec[e]) \/ (e = c /\ u = t)
            /\ u = t => ~Elem(u, vec[d]) /\ ~Elem(u, vec[e]) /\ ~Elem(u, list[e])
        BY ZenonT(30), <1>2, <2>9
      <4> QED
        BY ZenonT(30), <4>1, <4>2, <4>3
    <3>2. \A d \in CPU : Distinct(vec'[d]) /\ Distinct(list'[d])
      BY ZenonT(30), <1>0, <2>6, <2>7, <1>l DEF LinkInv
    <3>3. \A d \in CPU : sirq'[d].at \in {"none", "run"} => list'[d] = <<>>
      BY ZenonT(30), <1>0, <2>3, <1>l DEF LinkInv
    <3> QED
      BY <3>1, <3>2, <3>3, Zenon DEF LinkInv
  <2>15. \A u \in TaskletStruct : Held(u)' <=> Held(u)
    <3>1. Held(t) /\ Held(t)'
      BY <1>2, <2>9, Zenon DEF Held
    <3>2. \A u \in TaskletStruct \ {t} : Held(u)' <=> Held(u)
      BY SMTT(30), <1>0, <1>1, <2>9, <2>10 DEF Held, Locked
    <3> QED
      BY SMTT(30), <3>1, <3>2
  <2>16. SchedInv'
    BY <1>0, <2>1, <2>15, <1>s, Zenon DEF SchedInv, Killed
  <2> QED
    BY <2>2, <2>11, <2>12, <2>13, <2>14, <2>16, Zenon DEF Inv, TaskletInv
<1> QED
  BY <1>3, <1>4, Zenon

\* The function of a tasklet has ended.
LEMMA UnlockInv ==
  ASSUME Inv, NEW c \in CPU, TaskletUnlock(c)
  PROVE  Inv'
<1>t. TaskletTypeOK
  BY Zenon DEF Inv, TaskletInv
<1>r. RunInv
  BY Zenon DEF Inv, TaskletInv
<1>c. ControlInv
  BY Zenon DEF Inv, TaskletInv
<1>l. LinkInv
  BY Zenon DEF Inv, TaskletInv
<1>s. SchedInv
  BY Zenon DEF Inv, TaskletInv
<1>0. /\ sirq[c].at = "func" /\ run' = run \ {cur[c]} /\ cur' = [cur EXCEPT ![c] = NoTasklet]
      /\ AGoto(c, "list")
      /\ UNCHANGED <<pending, bh, kpc, sched_vars, sched, count, vec, list, ctl, wanted>>
  BY Zenon DEF TaskletUnlock
<1>1. SoftirqInv'
  BY <1>0, AGotoInv, Zenon DEF Inv, TaskletLabels
<1>2. sirq'[c].at = "list" /\ \A d \in CPU \ {c} : sirq'[d] = sirq[d]
  BY SMTT(30), <1>0, AGotoFacts DEF Inv, TaskletLabels
<1>3. cur'[c] = NoTasklet /\ \A d \in CPU \ {c} : cur'[d] = cur[d]
  BY <1>0, <1>t, Zenon DEF TaskletTypeOK
<1>4. \A d \in CPU, u \in TaskletStruct : Locked(d, u)' <=> Locked(d, u)
  BY SMTT(30), <1>0, <1>2, <1>3 DEF Locked
<1>5. TaskletTypeOK'
  BY SMTT(30), <1>0, <1>t DEF TaskletTypeOK
<1>6. RunInv'
  BY <1>0, <1>2, <1>3, TaskletAssumption, <1>r DEF RunInv
<1>7. ControlInv'
  BY SMTT(30), <1>0, <1>2, <1>3, <1>c DEF ControlInv
<1>8. \A d \in CPU : sirq'[d].at \in {"none", "run"} => list'[d] = <<>>
  BY <1>0, <1>2, <1>l, Zenon DEF LinkInv
<1>9. LinkInv'
  BY ZenonT(30), <1>0, <1>4, <1>8, <1>l DEF LinkInv
<1>10. SchedInv'
  BY ZenonT(30), <1>0, <1>4, <1>s DEF SchedInv, Held, Killed
<1> QED
  BY <1>1, <1>5, <1>6, <1>7, <1>9, <1>10, Zenon DEF Inv, TaskletInv

\* Updating the record of an activation.
LEMMA ActivationRecord ==
  ASSUME NEW A, NEW B, NEW M, NEW r \in [at : A, todo : B, max_restart : M], NEW T \in B
  PROVE  [r EXCEPT !.todo = T] = [at |-> r.at, todo |-> T, max_restart |-> r.max_restart]
OBVIOUS

\* The end of tasklet_action(), and the actions of other softirqs.
LEMMA ActionEndInv ==
  ASSUME Inv, NEW c \in CPU, TaskletActionEnd(c) \/ \E nr \in Nr : OtherAction(c, nr)
  PROVE  Inv'
<1>t. TaskletTypeOK
  BY Zenon DEF Inv, TaskletInv
<1>r. RunInv
  BY Zenon DEF Inv, TaskletInv
<1>c. ControlInv
  BY Zenon DEF Inv, TaskletInv
<1>l. LinkInv
  BY Zenon DEF Inv, TaskletInv
<1>s. SchedInv
  BY Zenon DEF Inv, TaskletInv
<1>0. /\ sirq \in [CPU -> [at : TaskletLabels, todo : SUBSET Nr, max_restart : 0 .. MAX_SOFTIRQ_RESTART]]
      /\ pending \in [CPU -> SUBSET Nr]
  BY Zenon DEF Inv, SoftirqInv, SoftirqTypeOK
<1>1. PICK todo \in SUBSET Nr :
        sirq' = [sirq EXCEPT ![c] = [at |-> "run", todo |-> todo, max_restart |-> sirq[c].max_restart]]
  <2>1. CASE TaskletActionEnd(c)
    <3>1. sirq' = [sirq EXCEPT ![c] = [at |-> "run", todo |-> sirq[c].todo \ {TASKLET_SOFTIRQ},
                                       max_restart |-> sirq[c].max_restart]]
      BY <1>0, <2>1, Zenon DEF TaskletActionEnd
    <3>2. sirq[c].todo \ {TASKLET_SOFTIRQ} \in SUBSET Nr
      BY <1>0, Zenon
    <3> QED
      BY <3>1, <3>2, Zenon
  <2>2. CASE \E nr \in Nr : OtherAction(c, nr)
    <3>1. PICK nr \in Nr : OtherAction(c, nr)
      BY <2>2, Zenon
    <3>2. PICK T \in SUBSET Nr : T = sirq[c].todo \ {nr}
      BY ZenonT(30), <1>0
    <3>3. sirq' = [sirq EXCEPT ![c] = [sirq[c] EXCEPT !.todo = T]] /\ sirq[c].at = "run"
      BY <1>0, <3>1, <3>2, Zenon DEF OtherAction, NextAction
    <3>4. sirq[c] \in [at : TaskletLabels, todo : SUBSET Nr, max_restart : 0 .. MAX_SOFTIRQ_RESTART]
      BY <1>0, Zenon
    <3>5. [sirq[c] EXCEPT !.todo = T] = [at |-> "run", todo |-> T, max_restart |-> sirq[c].max_restart]
      BY <3>3, <3>4, ActivationRecord
    <3> QED
      BY <3>3, <3>5, Zenon
  <2> QED
    BY <2>1, <2>2, Zenon
<1>2. /\ sirq[c].at \in {"run", "list"} /\ list[c] = <<>>
      /\ UNCHANGED <<pending, bh, kpc, sched_vars, tasklet_vars>>
  BY <1>l, Zenon DEF TaskletActionEnd, OtherAction, NextAction, LinkInv
<1>3. SoftirqInv'
  <2>1. pending' = [pending EXCEPT ![c] = @ \union {}] /\ {} \in SUBSET Nr
    BY <1>0, <1>2, Zenon
  <2> QED
    BY ZenonT(30), <1>1, <1>2, <2>1, ActionInv DEF Inv, TaskletLabels
<1>4. sirq'[c].at = "run" /\ \A d \in CPU \ {c} : sirq'[d] = sirq[d]
  BY <1>0, <1>1, Zenon
<1>5. UNCHANGED <<sched, run, count, vec, list, cur, ctl, wanted>>
  BY <1>2, Zenon DEF tasklet_vars
<1>6. \A d \in CPU, u \in TaskletStruct : Locked(d, u)' <=> Locked(d, u)
  BY <1>2, <1>4, <1>5, Zenon DEF Locked
<1>7. TaskletTypeOK'
  BY <1>5, <1>t, Zenon DEF TaskletTypeOK
<1>8. RunInv'
  BY SMTT(30), <1>2, <1>4, <1>5, <1>r DEF RunInv
<1>9. ControlInv'
  BY SMTT(30), <1>2, <1>4, <1>5, <1>c DEF ControlInv
<1>10. \A d \in CPU : sirq'[d].at \in {"none", "run"} => list'[d] = <<>>
  BY <1>2, <1>4, <1>5, <1>l, Zenon DEF LinkInv
<1>11. LinkInv'
  BY ZenonT(30), <1>5, <1>6, <1>10, <1>l DEF LinkInv
<1>12. SchedInv'
  BY ZenonT(30), <1>5, <1>6, <1>s DEF SchedInv, Held, Killed
<1> QED
  BY <1>3, <1>7, <1>8, <1>9, <1>11, <1>12, Zenon DEF Inv, TaskletInv

-----------------------------------------------------------------------------
(* The controlling task.                                                   *)

\* What the steps of the controlling task have in common.
LEMMA ControlCommon ==
  ASSUME Inv, UNCHANGED <<softirq_vars, run, vec, list, cur, wanted>>
  PROVE  /\ SoftirqInv' /\ RunInv' /\ LinkInv'
         /\ \A t \in TaskletStruct : Held(t)' <=> Held(t)
<1>r. RunInv
  BY Zenon DEF Inv, TaskletInv
<1>l. LinkInv
  BY Zenon DEF Inv, TaskletInv
<1>1. UNCHANGED <<pending, bh, sirq, kpc, state, onrq>>
  BY Zenon DEF softirq_vars, sched_vars
<1>2. SoftirqTypeOK(TaskletLabels)' /\ \A c \in CPU : CpuInv(c)'
  BY <1>1, Zenon DEF Inv, SoftirqInv, SoftirqTypeOK, SchedTypeOK, CpuInv, in_interrupt
<1>3. \A d \in CPU, u \in TaskletStruct : Locked(d, u)' <=> Locked(d, u)
  BY <1>1, Zenon DEF Locked
<1>4. RunInv'
  BY SMTT(30), <1>1, <1>r DEF RunInv
<1>5. LinkInv'
  BY <1>1, <1>3, <1>l, Zenon DEF LinkInv
<1> QED
  BY <1>2, <1>3, <1>4, <1>5, Zenon DEF SoftirqInv, Held

\* tasklet_kill()
LEMMA KillInv ==
  ASSUME Inv, (\E t \in TaskletStruct : tasklet_kill(t)) \/ KillSet \/ KillClear
  PROVE  Inv'
<1>t. TaskletTypeOK
  BY Zenon DEF Inv, TaskletInv
<1>c. ControlInv
  BY Zenon DEF Inv, TaskletInv
<1>s. SchedInv
  BY Zenon DEF Inv, TaskletInv
<1>0. /\ UNCHANGED <<softirq_vars, run, vec, list, cur, wanted, count>>
      /\ ctl \in [at : ControlLabels, t : TaskletStruct \union {NoTasklet}]
      /\ sched \subseteq TaskletStruct
  BY SMTT(30), <1>t DEF tasklet_kill, KillSet, KillClear, Control, TaskletTypeOK
<1>1. ctl.at \in {"out", "kill", "kill_wait"} /\ ctl'.at \in {"out", "kill", "kill_wait"}
  BY SMTT(30) DEF tasklet_kill, KillSet, KillClear, Control, NoControl
<1>2. /\ ctl' \in [at : ControlLabels, t : TaskletStruct \union {NoTasklet}]
      /\ ctl'.at # "out" => ctl'.t \in TaskletStruct
      /\ sched' \subseteq TaskletStruct
  BY <1>0, <1>c DEF tasklet_kill, KillSet, KillClear, Control, NoControl, ControlLabels, ControlInv
<1>3. TaskletTypeOK'
  BY <1>0, <1>2, <1>t, Zenon DEF TaskletTypeOK
<1>4. ControlInv'
  BY <1>0, <1>1, <1>2, <1>c, Zenon DEF ControlInv, Disabling
<1>5. SchedInv'
  <2>1. \A t \in TaskletStruct : (Held(t)' <=> Held(t)) /\ (Held(t) <=> t \in sched /\ ~Killed(t))
                                 /\ (Killed(t) => t \in sched) /\ (t \in wanted' => Held(t))
    BY <1>0, ControlCommon, <1>s, Zenon DEF SchedInv
  <2>2. CASE \E t \in TaskletStruct : tasklet_kill(t)
    BY <2>1, <2>2 DEF tasklet_kill, Control, SchedInv, Killed
  <2>3. CASE KillSet
    BY <2>1, <2>3, Zenon DEF KillSet, Control, SchedInv, Killed
  <2>4. CASE KillClear
    BY <2>1, <2>4, Zenon DEF KillClear, NoControl, SchedInv, Killed
  <2> QED
    BY <2>2, <2>3, <2>4, Zenon
<1>6. SoftirqInv' /\ RunInv' /\ LinkInv'
  BY ZenonT(30), <1>0, ControlCommon
<1> QED
  BY ZenonT(30), <1>3, <1>4, <1>5, <1>6 DEF Inv, TaskletInv

\* tasklet_disable() and tasklet_enable()
LEMMA DisableInv ==
  ASSUME Inv, (\E t \in TaskletStruct : tasklet_disable(t)) \/ DisableWait \/ tasklet_enable
  PROVE  Inv'
<1>t. TaskletTypeOK
  BY Zenon DEF Inv, TaskletInv
<1>r. RunInv
  BY Zenon DEF Inv, TaskletInv
<1>s. SchedInv
  BY Zenon DEF Inv, TaskletInv
<1>0. /\ UNCHANGED <<softirq_vars, run, vec, list, cur, wanted, sched>>
      /\ ctl \in [at : ControlLabels, t : TaskletStruct \union {NoTasklet}]
      /\ count \in [TaskletStruct -> 0 .. 1] /\ ControlInv
  <2>1. UNCHANGED <<softirq_vars, run, vec, list, cur, wanted, sched>>
    BY Zenon DEF tasklet_disable, DisableWait, tasklet_enable, Control
  <2>2. ControlInv
    BY Zenon DEF Inv, TaskletInv
  <2> QED
    BY <2>1, <2>2, <1>t, Zenon DEF TaskletTypeOK
<1>1. ctl' \in [at : ControlLabels, t : TaskletStruct \union {NoTasklet}]
  BY <1>0 DEF tasklet_disable, DisableWait, tasklet_enable, Control, NoControl, ControlLabels
<1>2. count' \in [TaskletStruct -> 0 .. 1] /\ ControlInv'
  <2>1. CASE \E t \in TaskletStruct : tasklet_disable(t)
    <3>1. PICK t \in TaskletStruct : tasklet_disable(t)
      BY <2>1, Zenon
    <3>2. ctl.at = "out" /\ ctl' = [at |-> "disable_wait", t |-> t] /\ count' = [count EXCEPT ![t] = @ + 1]
      BY <3>1, Zenon DEF tasklet_disable, Control
    <3>3. \A u \in TaskletStruct : count[u] = 0
      BY <1>0, <3>2, Zenon DEF ControlInv, Disabling
    <3>4. /\ count' \in [TaskletStruct -> 0 .. 1]
          /\ \A u \in TaskletStruct : count'[u] = IF u = t THEN 1 ELSE 0
      BY <1>0, <3>2, <3>3
    <3>5. ctl'.at = "disable_wait" /\ ctl'.t = t
      BY <3>2, Zenon
    <3> QED
      BY <3>4, <3>5, Zenon DEF ControlInv, Disabling
  <2>2. CASE DisableWait
    <3>1. /\ ctl.at = "disable_wait" /\ ctl.t \notin run /\ ctl' = [at |-> "disabled", t |-> ctl.t]
          /\ UNCHANGED <<count, sirq, cur>>
      BY SMTT(30), <2>2 DEF DisableWait, Control, softirq_vars
    <3>2. \A c \in CPU : sirq[c].at = "func" => cur[c] # ctl.t
      <4>1. \A c \in CPU : sirq[c].at = "func" => cur[c] \in run
        BY <1>r, Zenon DEF RunInv
      <4>2. ctl.t \notin run
        BY <3>1, Zenon
      <4> QED
        BY <4>1, <4>2, Zenon
    <3> QED
      BY ZenonT(30), <1>0, <3>1, <3>2 DEF ControlInv, Disabling
  <2>3. CASE tasklet_enable
    <3>1. ctl.at = "disabled" /\ ctl' = NoControl /\ count' = [count EXCEPT ![ctl.t] = @ - 1]
      BY <2>3, Zenon DEF tasklet_enable
    <3>2. /\ ctl.t \in TaskletStruct /\ count[ctl.t] = 1
          /\ \A u \in TaskletStruct \ {ctl.t} : count[u] = 0
      BY <1>0, <3>1, Zenon DEF ControlInv, Disabling
    <3>3. /\ count' \in [TaskletStruct -> 0 .. 1]
          /\ \A u \in TaskletStruct : count'[u] = 0
      BY SMTT(30), <1>0, <3>1, <3>2
    <3>4. ctl'.at = "out"
      BY <3>1, Zenon DEF NoControl
    <3> QED
      BY <3>3, <3>4, Zenon DEF ControlInv, Disabling
  <2> QED
    BY <2>1, <2>2, <2>3, Zenon
<1>3. TaskletTypeOK'
  BY <1>0, <1>1, <1>2, <1>t, Zenon DEF TaskletTypeOK
<1>4. \A t \in TaskletStruct : ~Killed(t) /\ ~Killed(t)'
  BY DEF tasklet_disable, DisableWait, tasklet_enable, Control, NoControl, Killed
<1>5. SchedInv'
  BY <1>0, <1>4, ControlCommon, <1>s, Zenon DEF SchedInv
<1> QED
  BY <1>0, <1>2, <1>3, <1>5, ControlCommon, Zenon DEF Inv, TaskletInv

-----------------------------------------------------------------------------
\* Nothing happens to the softirqs.
LEMMA SoftirqUnchanged ==
  ASSUME SoftirqInv, UNCHANGED softirq_vars
  PROVE  SoftirqInv' /\ Quiet
<1>1. UNCHANGED <<pending, bh, sirq, kpc, state, onrq>>
  BY Zenon DEF softirq_vars, sched_vars
<1>2. SoftirqTypeOK(TaskletLabels)' /\ \A c \in CPU : CpuInv(c)'
  BY <1>1, Zenon DEF SoftirqInv, SoftirqTypeOK, SchedTypeOK, CpuInv, in_interrupt
<1> QED
  BY <1>1, <1>2, Zenon DEF SoftirqInv, Quiet

\* tasklet_schedule(), from an interrupt or from a task.
LEMMA ScheduleInv ==
  ASSUME Inv, NEW c \in CPU, NEW t \in TaskletStruct, ScheduleInIrq(c, t) \/ ScheduleInTask(c, t)
  PROVE  Inv'
<1>1. Request(c, t)
  BY Zenon DEF ScheduleInIrq, ScheduleInTask
<1>2. CASE ScheduleInIrq(c, t)
  <2>1. PICK nrs \in SUBSET Nr : irq_exit(c, nrs)
    BY <1>2, TaskletAssumption, Zenon DEF ScheduleInIrq
  <2> QED
    BY <1>1, <2>1, IrqExitInv, RequestInv, Zenon DEF Inv
<1>3. CASE ScheduleInTask(c, t)
  <2>1. UNCHANGED softirq_vars \/ raise_softirq(c, TASKLET_SOFTIRQ)
    BY <1>3, Zenon DEF ScheduleInTask
  <2>2. SoftirqInv' /\ Quiet
    BY <2>1, TaskletAssumption, RaiseInv, SoftirqUnchanged, Zenon DEF Inv
  <2> QED
    BY <1>1, <2>2, RequestInv, Zenon DEF Inv
<1> QED
  BY <1>2, <1>3, Zenon

\* Steps of a CPU that do not concern tasklets.
LEMMA OnCpuInv ==
  ASSUME Inv, NEW c \in CPU, OnCPU(c) \/ SoftirqEnd(c), UNCHANGED tasklet_vars
  PROVE  Inv'
<1>1. ASSUME SoftirqInv', Quiet PROVE Inv'
  BY <1>1, QuietTasklets, Zenon DEF Inv
<1>2. CASE ksoftirqd(c)
  BY <1>1, <1>2, KsoftirqdInv, Zenon DEF Inv
<1>3. CASE local_bh_disable(c) \/ local_bh_enable(c)
  BY <1>1, <1>3, BhInv, Zenon DEF Inv
<1>4. CASE \E nrs \in SUBSET (Nr \ {TASKLET_SOFTIRQ}) : irq_exit(c, nrs)
  <2>1. PICK nrs \in SUBSET Nr : irq_exit(c, nrs)
    BY <1>4, Zenon
  <2> QED
    BY <1>1, <2>1, IrqExitInv, Zenon DEF Inv
<1>5. CASE \E nr \in Nr \ {TASKLET_SOFTIRQ} : raise_softirq(c, nr)
  BY <1>1, <1>5, RaiseInv, Zenon DEF Inv
<1>6. CASE SoftirqEnd(c)
  BY <1>1, <1>6, SoftirqEndInv, Zenon DEF Inv
<1> QED
  BY <1>2, <1>3, <1>4, <1>5, <1>6, Zenon DEF OnCPU

\* Every step preserves the invariant.
LEMMA StepInv == Inv /\ [Next]_vars => Inv'
<1> SUFFICES ASSUME Inv, [Next]_vars PROVE Inv'
  BY Zenon
<1>1. CASE UNCHANGED vars
  BY <1>1, SoftirqUnchanged, QuietTasklets, Zenon DEF Inv, vars
<1>2. ASSUME NEW c \in CPU, SoftirqStep(c) PROVE Inv'
  BY <1>2, TakeListInv, TrylockInv, TestInv, UnlockInv, ActionEndInv, OnCpuInv, Zenon DEF SoftirqStep
<1>3. ASSUME NEW c \in CPU, NEW t \in TaskletStruct, ScheduleInIrq(c, t) \/ ScheduleInTask(c, t) PROVE Inv'
  BY <1>3, ScheduleInv, Zenon
<1>4. ASSUME NEW c \in CPU, OnCPU(c), UNCHANGED tasklet_vars PROVE Inv'
  BY <1>4, OnCpuInv, Zenon
<1>5. ASSUME \/ (\E t \in TaskletStruct : tasklet_kill(t) \/ tasklet_disable(t)) \/ ControlStep PROVE Inv'
  BY <1>5, KillInv, DisableInv, Zenon DEF ControlStep
<1> QED
  BY <1>1, <1>2, <1>3, <1>4, <1>5, Zenon DEF Next

\* The inductive invariant holds at all times.
THEOREM Invariant == Spec => []Inv
BY InitInv, StepInv, PTL DEF Spec

\* Where a tasklet can be, as a set of places, has one element if it is held by a
\* list or by the activation that has just locked it, and none otherwise.
LEMMA PlacesFacts ==
  ASSUME Inv, NEW t \in TaskletStruct
  PROVE  /\ Places(t) # {} <=> Held(t)
         /\ \A p, q \in Places(t) : p = q
<1>r. RunInv
  BY Zenon DEF Inv, TaskletInv
<1>l. LinkInv
  BY Zenon DEF Inv, TaskletInv
<1>1. ASSUME NEW p \in Places(t)
      PROVE  \E c \in CPU : \/ \E i \in DOMAIN vec[c] : vec[c][i] = t /\ p = <<"vec", c, i>>
                            \/ \E i \in DOMAIN list[c] : list[c][i] = t /\ p = <<"list", c, i>>
                            \/ Locked(c, t) /\ p = <<"cur", c, 0>>
  BY <1>1, Zenon DEF Places, Locked
<1>2. ASSUME NEW c \in CPU
      PROVE  /\ \A i \in DOMAIN vec[c] : vec[c][i] = t => <<"vec", c, i>> \in Places(t)
             /\ \A i \in DOMAIN list[c] : list[c][i] = t => <<"list", c, i>> \in Places(t)
             /\ Locked(c, t) => <<"cur", c, 0>> \in Places(t)
  BY <1>2 DEF Places, Locked
<1>3. Places(t) # {} => Held(t)
  BY <1>1, Zenon DEF Held, Elem
<1>4. Held(t) => Places(t) # {}
  BY ZenonT(30), <1>2 DEF Held, Elem
<1>5. ASSUME NEW p \in Places(t), NEW q \in Places(t) PROVE p = q
  <2>1. PICK c \in CPU : \/ \E i \in DOMAIN vec[c] : vec[c][i] = t /\ p = <<"vec", c, i>>
                         \/ \E i \in DOMAIN list[c] : list[c][i] = t /\ p = <<"list", c, i>>
                         \/ Locked(c, t) /\ p = <<"cur", c, 0>>
    BY <1>1, Zenon
  <2>2. PICK d \in CPU : \/ \E i \in DOMAIN vec[d] : vec[d][i] = t /\ q = <<"vec", d, i>>
                         \/ \E i \in DOMAIN list[d] : list[d][i] = t /\ q = <<"list", d, i>>
                         \/ Locked(d, t) /\ q = <<"cur", d, 0>>
    BY <1>1, Zenon
  <2>3. /\ Elem(t, vec[c]) => ~Elem(t, list[d]) /\ ~Locked(d, t)
        /\ Elem(t, list[c]) => ~Locked(d, t) /\ ~Elem(t, vec[d])
        /\ Locked(c, t) => ~Elem(t, vec[d]) /\ ~Elem(t, list[d])
    BY <1>l, Zenon DEF LinkInv
  <2>4. CASE Elem(t, vec[c])
    <3>1. Elem(t, vec[d]) /\ c = d /\ Distinct(vec[c])
      BY <2>2, <2>3, <2>4, <1>l, Zenon DEF LinkInv, Elem
    <3>2. ~Elem(t, list[c]) /\ ~Locked(c, t)
      BY <2>3, <2>4, <3>1, Zenon
    <3> QED
      BY <2>1, <2>2, <3>1, <3>2, Zenon DEF Elem, Distinct
  <2>5. CASE Elem(t, list[c])
    <3>1. Elem(t, list[d]) /\ c = d /\ Distinct(list[c])
      BY <2>2, <2>3, <2>5, <1>l, Zenon DEF LinkInv, Elem
    <3>2. ~Elem(t, vec[c]) /\ ~Locked(c, t)
      BY <2>3, <2>5, <3>1, Zenon
    <3> QED
      BY <2>1, <2>2, <3>1, <3>2, Zenon DEF Elem, Distinct
  <2>6. CASE Locked(c, t)
    <3>1. Locked(d, t)
      BY <2>2, <2>3, <2>6, Zenon DEF Elem
    <3>2. c = d
      BY <2>6, <3>1, TaskletAssumption, <1>r, Zenon DEF RunInv, Locked
    <3>3. ~Elem(t, vec[c]) /\ ~Elem(t, list[c])
      BY <2>3, <2>6, <3>2, Zenon
    <3> QED
      BY <2>1, <2>2, <3>2, <3>3, Zenon DEF Elem
  <2> QED
    BY <2>1, <2>4, <2>5, <2>6, Zenon DEF Elem
<1> QED
  BY <1>3, <1>4, <1>5, Zenon

-----------------------------------------------------------------------------
\* No raised softirq is forgotten: irq_exit(), local_bh_enable(), the end of
\* __do_softirq2(), raise_softirq() and the sleep of ksoftirqd() fit together.
THEOREM SoftirqsNotForgotten == Spec => []PendingNotForgotten
<1>1. Inv => PendingNotForgotten
  BY Zenon DEF Inv, SoftirqInv, CpuInv, PendingNotForgotten
<1> QED
  BY <1>1, Invariant, PTL

\* The bit TASKLET_STATE_SCHED has exactly one owner: one link, one activation of
\* tasklet_action() or tasklet_kill().
THEOREM SchedOwnership == Spec => []SchedHasOneOwner
<1>1. Inv => SchedHasOneOwner
  <2> SUFFICES ASSUME Inv, NEW t \in TaskletStruct
               PROVE  Cardinality(Places(t)) + (IF Killed(t) THEN 1 ELSE 0) = (IF t \in sched THEN 1 ELSE 0)
    BY Zenon DEF SchedHasOneOwner
  <2>1. (Held(t) <=> t \in sched /\ ~Killed(t)) /\ (Killed(t) => t \in sched)
    BY Zenon DEF Inv, TaskletInv, SchedInv
  <2>2. CASE Held(t)
    <3>1. PICK p \in Places(t) : Places(t) = {p}
      BY <2>2, PlacesFacts, Zenon
    <3>2. Cardinality(Places(t)) = 1
      BY <3>1, FS_Singleton, Zenon
    <3> QED
      BY <2>1, <2>2, <3>2
  <2>3. CASE ~Held(t)
    <3>1. Cardinality(Places(t)) = 0
      BY <2>3, PlacesFacts, FS_EmptySet, Zenon
    <3> QED
      BY <2>1, <2>3, <3>1
  <2> QED
    BY <2>2, <2>3, Zenon
<1> QED
  BY <1>1, Invariant, PTL

\* The function of a tasklet never runs on two CPUs at a time.
THEOREM TaskletsSerialized == Spec => []TaskletSerialized
<1>1. Inv => TaskletSerialized
  <2> SUFFICES ASSUME Inv, NEW t \in TaskletStruct PROVE Cardinality(Executing(t)) <= 1
    BY Zenon DEF TaskletSerialized
  <2>1. \A c, d \in Executing(t) : c = d
    BY TaskletAssumption, Zenon DEF Inv, TaskletInv, RunInv, Executing
  <2>2. CASE Executing(t) = {}
    BY <2>2, FS_EmptySet
  <2>3. CASE Executing(t) # {}
    <3>1. PICK c : Executing(t) = {c}
      BY <2>1, <2>3, Zenon
    <3>2. Cardinality(Executing(t)) = 1
      BY <3>1, FS_Singleton, Zenon
    <3> QED
      BY <3>2
  <2> QED
    BY <2>2, <2>3, Zenon
<1> QED
  BY <1>1, Invariant, PTL

\* A call of tasklet_schedule() whose tasklet has not run since is linked somewhere.
THEOREM RequestsNotLost == Spec => []RequestNotLost
<1>1. Inv => RequestNotLost
  BY PlacesFacts, Zenon DEF Inv, TaskletInv, SchedInv, TaskletTypeOK, RequestNotLost
<1> QED
  BY <1>1, Invariant, PTL

\* After tasklet_disable() the tasklet does not run until tasklet_enable().
THEOREM DisabledTaskletsStop == Spec => []DisabledNotRunning
<1>1. Inv => DisabledNotRunning
  BY Zenon DEF Inv, TaskletInv, ControlInv, DisabledNotRunning, Executing
<1> QED
  BY <1>1, Invariant, PTL

\* tasklet_kill() leaves a tasklet that is neither linked nor running.
THEOREM KilledTaskletsGone == Spec => KillIsFinal
<1>1. ASSUME Inv, [Next]_vars, ctl.at = "kill_wait", ctl'.at = "out"
      PROVE  Places(ctl.t) = {} /\ Executing(ctl.t) = {}
  <2>1. ctl.t \in TaskletStruct /\ Killed(ctl.t)
    BY <1>1, Zenon DEF Inv, TaskletInv, ControlInv, Killed
  <2>2. ~Held(ctl.t)
    BY <1>1, <2>1, Zenon DEF Inv, TaskletInv, SchedInv
  <2>3. KillClear
    <3>1. ~UNCHANGED ctl
      BY <1>1, Zenon
    <3>2. \A c \in CPU : ~SoftirqStep(c)
      BY <3>1, Zenon DEF SoftirqStep, TakeList, TaskletTrylock, TaskletTest, TaskletUnlock, TaskletActionEnd,
                  OtherAction, tasklet_vars
    <3>3. \A c \in CPU, t \in TaskletStruct : ~ScheduleInIrq(c, t) /\ ~ScheduleInTask(c, t)
      BY <3>1, Zenon DEF ScheduleInIrq, ScheduleInTask, Request
    <3>4. ~UNCHANGED tasklet_vars /\ ~UNCHANGED vars
      BY <3>1, Zenon DEF tasklet_vars, vars
    <3>5. \A t \in TaskletStruct : ~tasklet_kill(t) /\ ~tasklet_disable(t)
      BY <1>1, Zenon DEF tasklet_kill, tasklet_disable
    <3>6. ~KillSet /\ ~DisableWait /\ ~tasklet_enable
      BY <1>1, Zenon DEF KillSet, DisableWait, tasklet_enable
    <3> QED
      BY <1>1, <3>2, <3>3, <3>4, <3>5, <3>6, Zenon DEF Next, ControlStep
  <2>4. ctl.t \notin run
    BY <2>3, Zenon DEF KillClear
  <2>5. Executing(ctl.t) = {}
    BY <1>1, <2>1, <2>4, TaskletAssumption, Zenon DEF Inv, TaskletInv, RunInv, Executing
  <2> QED
    BY <1>1, <2>1, <2>2, <2>5, PlacesFacts, Zenon
<1>2. Inv /\ [Next]_vars =>
        [ctl.at = "kill_wait" /\ ctl'.at = "out" => Places(ctl.t) = {} /\ Executing(ctl.t) = {}]_vars
  BY <1>1, Zenon
<1> QED
  BY <1>2, Invariant, PTL DEF Spec, KillIsFinal

=============================================================================
