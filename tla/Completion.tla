---------------------------- MODULE Completion ----------------------------
(***************************************************************************)
(* Completions: complete(), complete_all() and the wait_for_completion()   *)
(* family of kernel/sched.c.  Everything happens in sections under         *)
(* x->wait.lock, one step each, except that a waiter sleeps without it.    *)
(*                                                                         *)
(* A timed waiter sleeps in schedule_timeout(): the timer may expire at    *)
(* any time until it is deleted, and the remaining time is 0 from then on. *)
(* Each task uses one of the four functions: wait_for_completion(),        *)
(* _timeout(), _interruptible() or _interruptible_timeout().               *)
(***************************************************************************)
EXTENDS WaitQueue

CONSTANTS Interruptible, \* the tasks that call one of the _interruptible functions
          Timed,         \* the tasks that call one of the _timeout functions
          UINT_MAX,      \* done is an unsigned int, 0 .. UINT_MAX
          MaxPosts,      \* bound: complete() and complete_all() calls
          MaxWaits       \* bound: wait_for_completion*() calls

ASSUME FunctionAssumption == Interruptible \subseteq Task /\ Timed \subseteq Task

ASSUME UintAssumption == UINT_MAX \in Nat /\ MaxPosts \in Nat /\ MaxWaits \in Nat

VARIABLES done,          \* x->done
          wait,          \* x->wait.task_list, all of its entries exclusive
          expired,       \* expired[t]: the timer of t's wait has expired
          sigpending,
          posts, waits,  \* calls so far
          abandoned,     \* waits that timed out although done was not 0
          pc

completion_vars == <<done, wait, expired, sigpending, posts, waits, abandoned, pc>>

vars == <<completion_vars, sched_vars>>

TypeOK == /\ SchedTypeOK
          /\ done \in 0 .. UINT_MAX
          /\ wait \in Seq(Task) /\ Distinct(wait)
          /\ expired \in [Task -> BOOLEAN]
          /\ sigpending \in [Task -> BOOLEAN]
          /\ posts \in 0 .. MaxPosts
          /\ waits \in 0 .. MaxWaits
          /\ abandoned \in 0 .. MaxWaits
          /\ pc \in [Task -> {"out", "schedule", "relock"}]

\* init_completion()
Init == /\ SchedInit
        /\ done = 0
        /\ wait = <<>>
        /\ expired = [t \in Task |-> FALSE]
        /\ sigpending = [t \in Task |-> FALSE]
        /\ posts = 0 /\ waits = 0 /\ abandoned = 0
        /\ pc = [t \in Task |-> "out"]

At(t, l) == onrq[t] /\ pc[t] = l

Goto(t, l) == pc' = [pc EXCEPT ![t] = l]

\* The state t sleeps in.
SleepState(t) == IF t \in Interruptible THEN INTERRUPTIBLE ELSE UNINTERRUPTIBLE

Interrupted(t) == t \in Interruptible /\ sigpending[t]

-----------------------------------------------------------------------------
(* Completing.                                                             *)

\* x->done += n.
AddDone(n) == done' = (done + n) % (UINT_MAX + 1)

complete ==
  /\ posts < MaxPosts /\ posts' = posts + 1
  /\ AddDone(1)
  /\ wake_up_common(wait, Task, 1, SleepStates)
  /\ UNCHANGED <<wait, expired, sigpending, waits, abandoned, pc>>

\* Mutant: UINT_MAX/2 waiters are let through but only one is woken.
complete_allWakeOne ==
  /\ posts < MaxPosts /\ posts' = posts + 1
  /\ AddDone(UINT_MAX \div 2)
  /\ wake_up_common(wait, Task, 1, SleepStates)
  /\ UNCHANGED <<wait, expired, sigpending, waits, abandoned, pc>>

complete_all ==
  /\ posts < MaxPosts /\ posts' = posts + 1
  /\ AddDone(UINT_MAX \div 2)
  /\ wake_up_common(wait, Task, 0, SleepStates)
  /\ UNCHANGED <<wait, expired, sigpending, waits, abandoned, pc>>

-----------------------------------------------------------------------------
(* Waiting.                                                                *)

\* A call of any of the four that finds done # 0 takes a unit of it and returns.
WaitTake(t) ==
  /\ At(t, "out") /\ done # 0
  /\ waits < MaxWaits /\ waits' = waits + 1
  /\ done' = done - 1
  /\ UNCHANGED <<wait, expired, sigpending, posts, abandoned, pc, sched_vars>>

\* Any other queues, declares itself sleeping and leaves the lock; one that is
\* interruptible and has a signal pending returns instead, its entry removed.
WaitQueueUp(t) ==
  /\ At(t, "out") /\ done = 0 /\ ~Interrupted(t)
  /\ waits < MaxWaits /\ waits' = waits + 1
  /\ expired' = [expired EXCEPT ![t] = FALSE]
  /\ wait' = Append(wait, t)
  /\ set_task_state(t, SleepState(t))
  /\ Goto(t, "schedule")
  /\ UNCHANGED <<done, sigpending, posts, abandoned>>

WaitSchedule(t) ==
  /\ At(t, "schedule")
  /\ schedule(t, sigpending[t])
  /\ Goto(t, "relock")
  /\ UNCHANGED <<done, wait, expired, sigpending, posts, waits, abandoned>>

\* if (!timeout): the wait ends without a unit, even if there is one.
WaitTimedOut(t) ==
  /\ At(t, "relock") /\ expired[t]
  /\ wait' = Without(wait, t)
  /\ abandoned' = IF done # 0 THEN abandoned + 1 ELSE abandoned
  /\ Goto(t, "out")
  /\ UNCHANGED <<done, expired, sigpending, posts, waits, sched_vars>>

\* Mutant: the signal is looked at before done, and a wake-up goes with it.
WaitInterruptedFirst(t) ==
  /\ At(t, "relock") /\ ~expired[t] /\ Interrupted(t)
  /\ wait' = Without(wait, t)
  /\ Goto(t, "out")
  /\ UNCHANGED <<done, expired, sigpending, posts, waits, abandoned, sched_vars>>

\* -ERESTARTSYS
WaitInterrupted(t) ==
  /\ At(t, "relock") /\ ~expired[t] /\ done = 0 /\ Interrupted(t)
  /\ wait' = Without(wait, t)
  /\ Goto(t, "out")
  /\ UNCHANGED <<done, expired, sigpending, posts, waits, abandoned, sched_vars>>

\* while (!x->done)
WaitAgain(t) ==
  /\ At(t, "relock") /\ ~expired[t] /\ done = 0 /\ ~Interrupted(t)
  /\ set_task_state(t, SleepState(t))
  /\ Goto(t, "schedule")
  /\ UNCHANGED <<done, wait, expired, sigpending, posts, waits, abandoned>>

\* Mutant: the entry stays on the queue.
WaitGotNoRemove(t) ==
  /\ At(t, "relock") /\ ~expired[t] /\ done # 0
  /\ done' = done - 1
  /\ Goto(t, "out")
  /\ UNCHANGED <<wait, expired, sigpending, posts, waits, abandoned, sched_vars>>

WaitGot(t) ==
  /\ At(t, "relock") /\ ~expired[t] /\ done # 0
  /\ wait' = Without(wait, t)
  /\ done' = done - 1
  /\ Goto(t, "out")
  /\ UNCHANGED <<expired, sigpending, posts, waits, abandoned, sched_vars>>

-----------------------------------------------------------------------------
(* Timers and signals.                                                     *)

\* process_timeout(), the timer function of schedule_timeout().
process_timeout(t) ==
  /\ pc[t] # "out" /\ t \in Timed /\ ~expired[t]
  /\ expired' = [expired EXCEPT ![t] = TRUE]
  /\ wake_up_process(t)
  /\ UNCHANGED <<done, wait, sigpending, posts, waits, abandoned, pc>>

\* Only for the tasks that look at the flag.
signal_wake_up(t) ==
  /\ t \in Interruptible /\ ~sigpending[t]
  /\ sigpending' = [sigpending EXCEPT ![t] = TRUE]
  /\ try_to_wake_up(t, {INTERRUPTIBLE})
  /\ UNCHANGED <<done, wait, expired, posts, waits, abandoned, pc>>

SignalHandled(t) ==
  /\ At(t, "out") /\ sigpending[t]
  /\ sigpending' = [sigpending EXCEPT ![t] = FALSE]
  /\ UNCHANGED <<done, wait, expired, posts, waits, abandoned, pc, sched_vars>>

-----------------------------------------------------------------------------
Progress(t) == \/ WaitSchedule(t) \/ WaitTimedOut(t) \/ WaitInterrupted(t)
               \/ WaitAgain(t) \/ WaitGot(t)

Next == \/ complete \/ complete_all
        \/ \E t \in Task : \/ WaitTake(t) \/ WaitQueueUp(t)
                           \/ Progress(t)
                           \/ process_timeout(t) \/ signal_wake_up(t) \/ SignalHandled(t)

Spec == Init /\ [][Next]_vars

\* A task on the run queue runs, and a started timer expires.
Fairness == \A t \in Task : WF_vars(Progress(t)) /\ WF_vars(process_timeout(t))

FairSpec == Spec /\ Fairness

-----------------------------------------------------------------------------
(* Properties.                                                             *)

Queued == {t \in Task : pc[t] # "out"}

\* A queued waiter that will look at done again before it sleeps.
Awake(t) == /\ onrq[t]
            /\ \/ pc[t] = "relock"
               \/ pc[t] = "schedule" /\ (state[t] = RUNNING \/ Interrupted(t))

\* complete() wakes one waiter for every unit it adds to done: while a waiter
\* sleeps (or is about to), as many others are awake as there are units to take,
\* whoever takes them, and whichever waiters are interrupted meanwhile.  What can
\* stay behind is what timed-out waiters were woken for: "if (!timeout)" comes
\* before the test of done, and nobody is woken in their place.
UnitsHaveTakers ==
  (\E t \in Queued : ~Awake(t)) =>
    done <= Cardinality({t \in Queued : Awake(t)}) + abandoned

\* Tasks whose entry is on x->wait are exactly the ones inside a wait: the entry
\* is on the waiter's stack and must not outlive the call.
EntriesMatchWaiters == Elements(wait) = Queued

\* Every wait that can end does: one with a timeout, one with a signal pending,
\* and every one that complete_all() lets through (then done exceeds the number
\* of calls there are to take from it, as it does as long as it does not wrap).
WaitsEnd ==
  \A t \in Task : (pc[t] # "out" /\ (t \in Timed \/ Interrupted(t) \/ done > MaxWaits)) ~> pc[t] = "out"

=============================================================================
