------------------------------ MODULE Softirq ------------------------------
(***************************************************************************)
(* Softirqs, kernel/softirq.c: who runs a softirq that has been raised.    *)
(* The end of an interrupt and local_bh_enable() do, unless they interrupt *)
(* other softirq work or ksoftirqd is awake; ksoftirqd does otherwise.     *)
(*                                                                         *)
(* Each CPU's ksoftirqd is the task that has the CPU's name.  The bitmask  *)
(* is local to the CPU, so what happens with interrupts off is one step:   *)
(* an interrupt handler with its irq_exit(), the raising of a softirq, the *)
(* gaps between two softirq actions.  Interrupts may come between any two  *)
(* steps.  Other tasks of the CPU may run between any two steps of         *)
(* ksoftirqd, which allows more than a kernel without preemption does.     *)
(* CPUs do not come or go.                                                 *)
(***************************************************************************)
EXTENDS TaskState

CONSTANTS Nr,                   \* the softirqs, by their index in softirq_vec[]
          MAX_SOFTIRQ_RESTART

ASSUME SoftirqAssumption == Nr \subseteq Nat /\ MAX_SOFTIRQ_RESTART \in Nat \ {0}

VARIABLES pending,   \* pending[c]: local_softirq_pending(), the bits that are set
          bh,        \* bh[c]: the current task of c is inside local_bh_disable()
          sirq,      \* sirq[c]: the activation of __do_softirq2() on c, if any
          kpc        \* kpc[c]: where ksoftirqd of c is

softirq_vars == <<pending, bh, sirq, kpc, sched_vars>>

CPU == Task

NoActivation == [at |-> "none", todo |-> {}, max_restart |-> 0]

\* Labels of an activation: "none", "run" between two actions, and those of the
\* action that is running.
SoftirqTypeOK(labels) ==
  /\ SchedTypeOK
  /\ pending \in [CPU -> SUBSET Nr]
  /\ bh \in [CPU -> BOOLEAN]
  /\ sirq \in [CPU -> [at : labels, todo : SUBSET Nr, max_restart : 0 .. MAX_SOFTIRQ_RESTART]]
  /\ kpc \in [CPU -> {"test", "schedule", "loop", "set"}]

SoftirqInit == /\ SchedInit
               /\ pending = [c \in CPU |-> {}]
               /\ bh = [c \in CPU |-> FALSE]
               /\ sirq = [c \in CPU |-> NoActivation]
               /\ kpc = [c \in CPU |-> "set"]

\* In task context, that is without the hardirq count, which is never seen here.
in_interrupt(c) == bh[c] \/ sirq[c].at # "none"

softirqd_is_waken(c) == state[c] = RUNNING

wakeup_softirqd(c) == wake_up_process(c)

\* __do_softirq2(), up to its first action.
Activate(c, bits, max) ==
  /\ pending' = [pending EXCEPT ![c] = {}]
  /\ sirq' = [sirq EXCEPT ![c] = [at |-> "run", todo |-> bits, max_restart |-> max]]

\* do_softirq() outside of interrupts, when bits are pending, and __do_softirq()
__do_softirq(c, bits) ==
  IF bits # {} /\ ~softirqd_is_waken(c)
  THEN Activate(c, bits, MAX_SOFTIRQ_RESTART)
  ELSE pending' = [pending EXCEPT ![c] = bits] /\ UNCHANGED sirq

\* A handler has raised the softirqs nrs, and irq_exit().
irq_exit(c, nrs) ==
  /\ IF in_interrupt(c)
     THEN pending' = [pending EXCEPT ![c] = @ \union nrs] /\ UNCHANGED sirq
     ELSE __do_softirq(c, pending[c] \union nrs)
  /\ UNCHANGED <<bh, kpc, sched_vars>>

\* Mutant: nobody is told.
raise_softirqQuiet(c, nr) ==
  /\ ~in_interrupt(c)
  /\ pending' = [pending EXCEPT ![c] = @ \union {nr}]
  /\ UNCHANGED <<bh, sirq, kpc, sched_vars>>

\* raise_softirq(), from a task.  From a softirq action or with softirqs disabled
\* it is what an interrupt does there.
raise_softirq(c, nr) ==
  /\ ~in_interrupt(c)
  /\ pending' = [pending EXCEPT ![c] = @ \union {nr}]
  /\ wakeup_softirqd(c)
  /\ UNCHANGED <<bh, sirq, kpc>>

local_bh_disable(c) ==
  /\ ~in_interrupt(c)
  /\ bh' = [bh EXCEPT ![c] = TRUE]
  /\ UNCHANGED <<pending, sirq, kpc, sched_vars>>

local_bh_enable(c) ==
  /\ bh[c] /\ sirq[c].at = "none"
  /\ bh' = [bh EXCEPT ![c] = FALSE]
  /\ __do_softirq(c, pending[c])
  /\ UNCHANGED <<kpc, sched_vars>>

-----------------------------------------------------------------------------
(* __do_softirq2()                                                         *)

\* The action of nr comes next.
NextAction(c, nr) == sirq[c].at = "run" /\ nr \in sirq[c].todo /\ \A n \in sirq[c].todo : nr <= n

\* Mutant: what is pending after the last round is left to the next interrupt.
SoftirqEndQuiet(c) ==
  /\ sirq[c].at = "run" /\ sirq[c].todo = {}
  /\ IF pending[c] # {} /\ sirq[c].max_restart > 1
     THEN Activate(c, pending[c], sirq[c].max_restart - 1)
     ELSE sirq' = [sirq EXCEPT ![c] = NoActivation] /\ UNCHANGED pending
  /\ UNCHANGED <<bh, kpc, sched_vars>>

\* After the last action: start again, or leave what is pending to ksoftirqd.
SoftirqEnd(c) ==
  /\ sirq[c].at = "run" /\ sirq[c].todo = {}
  /\ IF pending[c] # {} /\ sirq[c].max_restart > 1
     THEN Activate(c, pending[c], sirq[c].max_restart - 1) /\ UNCHANGED sched_vars
     ELSE /\ sirq' = [sirq EXCEPT ![c] = NoActivation]
          /\ IF pending[c] # {} THEN wakeup_softirqd(c) ELSE UNCHANGED sched_vars
          /\ UNCHANGED pending
  /\ UNCHANGED <<bh, kpc>>

-----------------------------------------------------------------------------
(* ksoftirqd()                                                             *)

KAt(c, l) == onrq[c] /\ kpc[c] = l /\ ~in_interrupt(c)

KGoto(c, l) == kpc' = [kpc EXCEPT ![c] = l]

\* set_current_state(TASK_INTERRUPTIBLE)
KSet(c) == /\ KAt(c, "set")
           /\ set_task_state(c, INTERRUPTIBLE)
           /\ KGoto(c, "test")
           /\ UNCHANGED <<pending, bh, sirq>>

\* if (!local_softirq_pending()) schedule(); and __set_current_state(TASK_RUNNING)
KTest(c) == /\ KAt(c, "test")
            /\ IF pending[c] = {} THEN KGoto(c, "schedule") /\ UNCHANGED sched_vars
               ELSE KGoto(c, "loop") /\ set_task_state(c, RUNNING)
            /\ UNCHANGED <<pending, bh, sirq>>

\* Back from schedule() it is TASK_RUNNING already.
KSchedule(c) == /\ KAt(c, "schedule")
                /\ schedule(c, FALSE)
                /\ KGoto(c, "loop")
                /\ UNCHANGED <<pending, bh, sirq>>

\* while (local_softirq_pending()) __do_softirq2()
KLoop(c) ==
  /\ KAt(c, "loop")
  /\ IF pending[c] # {} THEN Activate(c, pending[c], MAX_SOFTIRQ_RESTART) /\ UNCHANGED kpc
     ELSE KGoto(c, "set") /\ UNCHANGED <<pending, sirq>>
  /\ UNCHANGED <<bh, sched_vars>>

ksoftirqd(c) == KSet(c) \/ KTest(c) \/ KSchedule(c) \/ KLoop(c)

=============================================================================
