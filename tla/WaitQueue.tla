----------------------------- MODULE WaitQueue -----------------------------
(***************************************************************************)
(* The wake-up side of a wait queue: __wake_up_common() of kernel/sched.c  *)
(* over a wait_queue_head_t whose entries have default_wake_function() or  *)
(* autoremove_wake_function() as their function.  A queue is the sequence  *)
(* of the tasks of its entries.                                            *)
(*                                                                         *)
(* The scan is one step.  It runs under q->lock, so the queue cannot       *)
(* change, and the steps that may come between two of its wake-ups (a      *)
(* waiter stores its own state or calls schedule(), a signal wakes one     *)
(* waiter) concern one task: those for a task the scan has yet to come to  *)
(* may as well come before it, the others after it.                        *)
(***************************************************************************)
EXTENDS TaskState, Lists

\* The number of exclusive waiters among the first i that are really woken.
ExclusiveWoken(q, exclusive, i, mask) ==
  Cardinality({j \in 1 .. i : q[j] \in exclusive /\ WakeSucceeds(q[j], mask)})

\* Where the scan ends: at the nr-th exclusive waiter it has woken, or at the
\* end of the queue (always, if nr = 0).
Reached(q, exclusive, nr, i, mask) ==
  nr = 0 \/ ExclusiveWoken(q, exclusive, i - 1, mask) < nr

\* The tasks whose entries the scan comes to and whose state is in mask.
Woken(q, exclusive, nr, mask) ==
  {q[i] : i \in {j \in DOMAIN q : Reached(q, exclusive, nr, j, mask) /\ state[q[j]] \in mask}}

\* try_to_wake_up() of all of them.
WakeAll(woken) == /\ state' = [t \in Task |-> IF t \in woken THEN RUNNING ELSE state[t]]
                  /\ onrq' = [t \in Task |-> t \in woken \/ onrq[t]]

wake_up_common(q, exclusive, nr, mask) == WakeAll(Woken(q, exclusive, nr, mask))

\* wake_up(): TASK_INTERRUPTIBLE | TASK_UNINTERRUPTIBLE, one exclusive waiter.
wake_up(q, exclusive) == wake_up_common(q, exclusive, 1, SleepStates)

-----------------------------------------------------------------------------
(* Without exclusive entries the scan never ends early and the order of    *)
(* the entries is of no account: such a queue is the set of its tasks.     *)

\* wake_up() of such a queue.
wake_up_entries(q) == WakeAll({t \in q : state[t] \in SleepStates})

\* What autoremove_wake_function() leaves of it: the entries of the tasks it has
\* not woken.
Autoremoved(q) == {t \in q : ~WakeSucceeds(t, SleepStates)}

\* It after prepare_to_wait(), which links an entry unless it is linked already.
Prepared(q, t) == q \union {t}

\* It after finish_wait().
Finished(q, t) == q \ {t}

=============================================================================
