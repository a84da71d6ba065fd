------------------------------ MODULE Tasklet ------------------------------
(***************************************************************************)
(* Tasklets, kernel/softirq.c and include/linux/interrupt.h, on top of the *)
(* softirqs that run them.  A tasklet is handed over by its bit            *)
(* TASKLET_STATE_SCHED and serialised by TASKLET_STATE_RUN, both shared by *)
(* all CPUs; the lists are local to a CPU.  A task kills, disables and     *)
(* enables tasklets meanwhile.                                             *)
(***************************************************************************)
EXTENDS Softirq

CONSTANTS TaskletStruct,
          NoTasklet,
          TASKLET_SOFTIRQ

ASSUME TaskletAssumption == TASKLET_SOFTIRQ \in Nr /\ NoTasklet \notin TaskletStruct

VARIABLES sched,         \* the tasklets that have TASKLET_STATE_SCHED
          run,           \* those that have TASKLET_STATE_RUN
          count,         \* count[t]: t->count, 0 if t is enabled
          vec,           \* vec[c]: the list tasklet_vec of c
          list,          \* list[c]: the local list of tasklet_action() on c
          cur,           \* cur[c]: the tasklet it has locked, or NoTasklet
          ctl,           \* the task that controls tasklets: where it is, and with which
          wanted         \* history: scheduled, and not run since

tasklet_vars == <<sched, run, count, vec, list, cur, ctl, wanted>>

vars == <<softirq_vars, tasklet_vars>>

ControlLabels == {"out", "kill", "kill_wait", "disable_wait", "disabled"}

TaskletLabels == {"none", "run", "list", "locked", "func"}

TypeOK == /\ SoftirqTypeOK(TaskletLabels)
          /\ sched \subseteq TaskletStruct /\ run \subseteq TaskletStruct
          /\ count \in [TaskletStruct -> 0 .. 1]
          /\ vec \in [CPU -> Seq(TaskletStruct)] /\ list \in [CPU -> Seq(TaskletStruct)]
          /\ cur \in [CPU -> TaskletStruct \union {NoTasklet}]
          /\ ctl \in [at : ControlLabels, t : TaskletStruct \union {NoTasklet}]
          /\ wanted \subseteq TaskletStruct

NoControl == [at |-> "out", t |-> NoTasklet]

Init == /\ SoftirqInit
        /\ sched = {} /\ run = {} /\ wanted = {}
        /\ count = [t \in TaskletStruct |-> 0]
        /\ vec = [c \in CPU |-> <<>>] /\ list = [c \in CPU |-> <<>>]
        /\ cur = [c \in CPU |-> NoTasklet]
        /\ ctl = NoControl

-----------------------------------------------------------------------------
(* tasklet_schedule(): the caller that sets the bit queues the tasklet.    *)

Push(c, t) == vec' = [vec EXCEPT ![c] = <<t>> \o @]

\* tasklet_kill() owns the bit: nobody can schedule t until it returns.
Killed(t) == ctl.at = "kill_wait" /\ ctl.t = t

\* Mutant: the list is linked without looking at the bit.
RequestTwice(c, t) ==
  /\ sched' = sched \union {t}
  /\ wanted' = IF Killed(t) THEN wanted ELSE wanted \union {t}
  /\ Push(c, t)
  /\ UNCHANGED <<run, count, list, cur, ctl>>

Request(c, t) ==
  /\ sched' = sched \union {t}
  /\ wanted' = IF Killed(t) THEN wanted ELSE wanted \union {t}
  /\ IF t \in sched THEN UNCHANGED vec ELSE Push(c, t)
  /\ UNCHANGED <<run, count, list, cur, ctl>>

\* From an interrupt, a softirq action or with softirqs disabled.
ScheduleInIrq(c, t) ==
  /\ Request(c, t)
  /\ irq_exit(c, IF t \in sched THEN {} ELSE {TASKLET_SOFTIRQ})

ScheduleInTask(c, t) ==
  /\ ~in_interrupt(c)
  /\ Request(c, t)
  /\ IF t \in sched THEN UNCHANGED softirq_vars ELSE raise_softirq(c, TASKLET_SOFTIRQ)

\* Mutant of TaskletTrylock: another CPU may be running the tasklet.
TaskletTrylockAlways(c) ==
  LET t == Head(list[c])
  IN  /\ sirq[c].at = "list" /\ list[c] # <<>>
      /\ list' = [list EXCEPT ![c] = Tail(@)]
      /\ run' = run \union {t}
      /\ cur' = [cur EXCEPT ![c] = t]
      /\ sirq' = [sirq EXCEPT ![c].at = "locked"]
      /\ UNCHANGED <<pending, vec, bh, kpc, sched_vars, sched, count, ctl, wanted>>

-----------------------------------------------------------------------------
(* tasklet_action()                                                        *)

AGoto(c, l) == sirq' = [sirq EXCEPT ![c].at = l]

\* The list is taken with interrupts off.
TakeList(c) ==
  /\ NextAction(c, TASKLET_SOFTIRQ)
  /\ list' = [list EXCEPT ![c] = vec[c]]
  /\ vec' = [vec EXCEPT ![c] = <<>>]
  /\ AGoto(c, "list")
  /\ UNCHANGED <<pending, bh, kpc, sched_vars, sched, run, count, cur, ctl, wanted>>

\* tasklet_trylock(); when it fails the tasklet goes back to the CPU's list.
TaskletTrylock(c) ==
  LET t == Head(list[c])
  IN  /\ sirq[c].at = "list" /\ list[c] # <<>>
      /\ list' = [list EXCEPT ![c] = Tail(@)]
      /\ IF t \notin run
         THEN /\ run' = run \union {t}
              /\ cur' = [cur EXCEPT ![c] = t]
              /\ AGoto(c, "locked")
              /\ UNCHANGED <<pending, vec>>
         ELSE /\ Push(c, t)
              /\ pending' = [pending EXCEPT ![c] = @ \union {TASKLET_SOFTIRQ}]
              /\ UNCHANGED <<sirq, run, cur>>
      /\ UNCHANGED <<bh, kpc, sched_vars, sched, count, ctl, wanted>>

\* An enabled tasklet gives up TASKLET_STATE_SCHED and its function begins; a
\* disabled one goes back to the CPU's list.
TaskletTest(c) ==
  LET t == cur[c]
  IN  /\ sirq[c].at = "locked"
      /\ IF count[t] = 0
         THEN /\ sched' = sched \ {t}
              /\ wanted' = wanted \ {t}
              /\ AGoto(c, "func")
              /\ UNCHANGED <<pending, run, vec, cur>>
         ELSE /\ run' = run \ {t}
              /\ cur' = [cur EXCEPT ![c] = NoTasklet]
              /\ Push(c, t)
              /\ pending' = [pending EXCEPT ![c] = @ \union {TASKLET_SOFTIRQ}]
              /\ AGoto(c, "list")
              /\ UNCHANGED <<sched, wanted>>
      /\ UNCHANGED <<bh, kpc, sched_vars, count, list, ctl>>

\* The function has ended: tasklet_unlock()
TaskletUnlock(c) ==
  /\ sirq[c].at = "func"
  /\ run' = run \ {cur[c]}
  /\ cur' = [cur EXCEPT ![c] = NoTasklet]
  /\ AGoto(c, "list")
  /\ UNCHANGED <<pending, bh, kpc, sched_vars, sched, count, vec, list, ctl, wanted>>

\* The list is done; so is the action.
TaskletActionEnd(c) ==
  /\ sirq[c].at = "list" /\ list[c] = <<>>
  /\ sirq' = [sirq EXCEPT ![c] = [at |-> "run", todo |-> @.todo \ {TASKLET_SOFTIRQ},
                                  max_restart |-> @.max_restart]]
  /\ UNCHANGED <<pending, bh, kpc, sched_vars, tasklet_vars>>

\* The action of another softirq; it may raise softirqs as interrupts do.
OtherAction(c, nr) ==
  /\ nr # TASKLET_SOFTIRQ /\ NextAction(c, nr)
  /\ sirq' = [sirq EXCEPT ![c].todo = @ \ {nr}]
  /\ UNCHANGED <<pending, bh, kpc, sched_vars, tasklet_vars>>

-----------------------------------------------------------------------------
(* The controlling task.                                                   *)

Control(l, t) == ctl' = [at |-> l, t |-> t] /\ UNCHANGED softirq_vars

tasklet_kill(t) ==
  /\ ctl.at = "out"
  /\ Control("kill", t)
  /\ UNCHANGED <<sched, run, count, vec, list, cur, wanted>>

\* test_and_set_bit() finds the bit clear at last.  Until then the loops only yield.
KillSet ==
  /\ ctl.at = "kill" /\ ctl.t \notin sched
  /\ sched' = sched \union {ctl.t}
  /\ Control("kill_wait", ctl.t)
  /\ UNCHANGED <<run, count, vec, list, cur, wanted>>

\* Mutant: no tasklet_unlock_wait().
KillClearNoWait ==
  /\ ctl.at = "kill_wait"
  /\ sched' = sched \ {ctl.t}
  /\ ctl' = NoControl
  /\ UNCHANGED <<softirq_vars, run, count, vec, list, cur, wanted>>

\* Mutant: one tasklet_unlock_wait() for both uses was thought enough.
DisableWaitNot ==
  /\ ctl.at = "disable_wait"
  /\ Control("disabled", ctl.t)
  /\ UNCHANGED <<sched, run, count, vec, list, cur, wanted>>

\* tasklet_unlock_wait() ends; clear_bit()
KillClear ==
  /\ ctl.at = "kill_wait" /\ ctl.t \notin run
  /\ sched' = sched \ {ctl.t}
  /\ ctl' = NoControl
  /\ UNCHANGED <<softirq_vars, run, count, vec, list, cur, wanted>>

\* tasklet_disable_nosync() and, until DisableWait, tasklet_unlock_wait()
tasklet_disable(t) ==
  /\ ctl.at = "out"
  /\ count' = [count EXCEPT ![t] = @ + 1]
  /\ Control("disable_wait", t)
  /\ UNCHANGED <<sched, run, vec, list, cur, wanted>>

DisableWait ==
  /\ ctl.at = "disable_wait" /\ ctl.t \notin run
  /\ Control("disabled", ctl.t)
  /\ UNCHANGED <<sched, run, count, vec, list, cur, wanted>>

tasklet_enable ==
  /\ ctl.at = "disabled"
  /\ count' = [count EXCEPT ![ctl.t] = @ - 1]
  /\ ctl' = NoControl
  /\ UNCHANGED <<softirq_vars, sched, run, vec, list, cur, wanted>>

-----------------------------------------------------------------------------
SoftirqStep(c) == \/ TakeList(c) \/ TaskletTrylock(c) \/ TaskletTest(c) \/ TaskletUnlock(c)
                  \/ TaskletActionEnd(c) \/ \E nr \in Nr : OtherAction(c, nr)
                  \/ SoftirqEnd(c) /\ UNCHANGED tasklet_vars

OnCPU(c) == \/ ksoftirqd(c) \/ local_bh_disable(c) \/ local_bh_enable(c)
            \/ \E nrs \in SUBSET (Nr \ {TASKLET_SOFTIRQ}) : irq_exit(c, nrs)
            \/ \E nr \in Nr \ {TASKLET_SOFTIRQ} : raise_softirq(c, nr)

ControlStep == KillSet \/ KillClear \/ DisableWait \/ tasklet_enable

Next == \/ \E c \in CPU : \/ SoftirqStep(c)
                          \/ (\E t \in TaskletStruct : ScheduleInIrq(c, t) \/ ScheduleInTask(c, t))
                          \/ OnCPU(c) /\ UNCHANGED tasklet_vars
        \/ (\E t \in TaskletStruct : tasklet_kill(t) \/ tasklet_disable(t))
        \/ ControlStep

Spec == Init /\ [][Next]_vars

\* Softirq actions run to their end, tasks enable softirqs again, and ksoftirqd gets
\* the CPU at some point, however often softirqs interrupt it (strong).  Nothing
\* is assumed of interrupts, of the callers and of the controlling task.
FairSpec == /\ Spec
            /\ \A c \in CPU : /\ WF_vars(SoftirqStep(c))
                             /\ WF_vars(local_bh_enable(c) /\ UNCHANGED tasklet_vars)
                             /\ SF_vars(ksoftirqd(c) /\ UNCHANGED tasklet_vars)

-----------------------------------------------------------------------------
(* Properties.                                                             *)

\* A raised softirq is never forgotten: its CPU is inside softirq work or a section
\* with softirqs disabled, whose ends look at the bitmask again, or ksoftirqd is
\* awake and not about to sleep.  In particular when __do_softirq() has left it to a
\* ksoftirqd that was TASK_RUNNING.
PendingNotForgotten ==
  \A c \in CPU : pending[c] # {} =>
    \/ in_interrupt(c)
    \/ onrq[c] /\ (kpc[c] = "schedule" => state[c] = RUNNING)

\* Where t is linked or about to be tested.
Places(t) ==
  UNION {   {<<"vec", c, i>> : i \in {j \in DOMAIN vec[c] : vec[c][j] = t}}
     \union {<<"list", c, i>> : i \in {j \in DOMAIN list[c] : list[c][j] = t}}
     \union (IF sirq[c].at = "locked" /\ cur[c] = t THEN {<<"cur", c, 0>>} ELSE {})
     : c \in CPU}

\* TASKLET_STATE_SCHED has one owner: a list that links the tasklet once, the
\* tasklet_action() that has just locked it, or tasklet_kill().  So no list is
\* corrupted, and the BUG() of tasklet_action() is never reached.
SchedHasOneOwner ==
  \A t \in TaskletStruct :
    Cardinality(Places(t)) + (IF Killed(t) THEN 1 ELSE 0) = (IF t \in sched THEN 1 ELSE 0)

\* The CPUs that execute t's function.
Executing(t) == {c \in CPU : sirq[c].at = "func" /\ cur[c] = t}

\* "Tasklet is strictly serialized wrt itself".
TaskletSerialized == \A t \in TaskletStruct : Cardinality(Executing(t)) <= 1

\* tasklet_schedule() of a tasklet that is running or that is scheduled already is
\* not lost: the tasklet is somewhere where it will be run again.
RequestNotLost == \A t \in wanted : Places(t) # {}

\* Between tasklet_disable() and tasklet_enable() the function does not run.
DisabledNotRunning == ctl.at = "disabled" => Executing(ctl.t) = {}

\* When tasklet_kill() returns the tasklet is neither linked anywhere nor running.
KillIsFinal ==
  [][ctl.at = "kill_wait" /\ ctl'.at = "out" => Places(ctl.t) = {} /\ Executing(ctl.t) = {}]_vars

\* Raised softirqs are taken up, although a disabled tasklet raises its own
\* again and again and the interrupts leave the work to a ksoftirqd that is awake.
PendingTaken == \A c \in CPU : pending[c] # {} ~> pending[c] = {}

\* "If tasklet_schedule() is called, then tasklet is guaranteed to be executed on
\* some cpu at least once after this", if it does not stay disabled.
TaskletRuns == \A t \in TaskletStruct : <>[](count[t] = 0) => (t \in wanted ~> t \notin wanted)

=============================================================================
