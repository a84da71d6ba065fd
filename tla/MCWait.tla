------------------------------- MODULE MCWait -------------------------------
(***************************************************************************)
(* Three ways to wait until code on other CPUs has finished: rcu_barrier() *)
(* and call_rcu() (Rcu), synchronize_srcu() (Srcu) and del_timer_sync()    *)
(* (TimerSync), side by side.  They share no state here, so a behaviour is *)
(* one of a single module, and the states are the sum and not the product  *)
(* of theirs.                                                              *)
(***************************************************************************)
EXTENDS Rcu, Srcu, TimerSync, TLC

CONSTANTS cpu1, cpu2, task1, task2

\* One task on each CPU.
MCHomeOf == task1 :> cpu1 @@ task2 :> cpu2

VARIABLE part   \* the one that runs

vars == <<rcu_vars, srcu_vars, timer_vars, part>>

RcuRuns == part = "rcu" /\ RcuNext /\ UNCHANGED <<srcu_vars, timer_vars, part>>

SrcuRuns == part = "srcu" /\ SrcuNext /\ UNCHANGED <<rcu_vars, timer_vars, part>>

TimerRuns == part = "timer" /\ TimerNext /\ UNCHANGED <<rcu_vars, srcu_vars, part>>

Init == RcuInit /\ SrcuInit /\ TimerInit /\ part \in {"rcu", "srcu", "timer"}

Spec == Init /\ [][RcuRuns \/ SrcuRuns \/ TimerRuns]_vars

FairSpec == Spec /\ RcuFairness /\ SrcuFairness /\ TimerFairness

\* For safety: CPUs of RCU are alike, and so are readers and updaters of SRCU.
Symmetry == Permutations(RcuCPU) \union Permutations(Reader) \union Permutations(Updater)

=============================================================================
