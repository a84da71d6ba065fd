------------------------------- MODULE Srcu -------------------------------
(***************************************************************************)
(* Sleepable RCU, kernel/srcu.c.  A reader counts itself in one of two     *)
(* ranks of per-CPU counters, chosen by the low bit of sp->completed, and  *)
(* may leave on another CPU than it came in on; synchronize_srcu() flips   *)
(* the rank and waits until the counters of the old one, read one CPU at a *)
(* time and without a lock, add up to 0.                                   *)
(*                                                                         *)
(* Memory is sequentially consistent.  synchronize_sched() waits for the   *)
(* preempt_disable() regions that are running when it is called (the only  *)
(* ones here are those of srcu_read_lock(); that of srcu_read_unlock() is  *)
(* one step); the module Rcu models how.                                   *)
(***************************************************************************)
EXTENDS Integers, FiniteSets, Functions

CONSTANTS Reader,         \* the tasks that read
          Updater,        \* the tasks that call synchronize_srcu()
          NoUpdater,      \* sp->mutex is free
          NR_CPUS,
          CompletedMod,   \* sp->completed wraps at this modulus (2^32)
          CounterMod      \* and the counters c[] at this one (2^32)

ASSUME SrcuAssumption == /\ NR_CPUS \in Nat \ {0}
                         /\ NoUpdater \notin Updater
                         /\ CompletedMod \in Nat /\ CompletedMod > 2 /\ CompletedMod % 2 = 0
                         /\ CounterMod \in Nat
                         /\ IsFiniteSet(Reader) /\ Cardinality(Reader) < CounterMod

VARIABLES completed,      \* sp->completed
          c,              \* c[cpu][idx]: per_cpu_ptr(sp->per_cpu_ref, cpu)->c[idx]
          allocated,      \* sp->per_cpu_ref # NULL
          mutex,          \* the owner of sp->mutex
          rpc,            \* "out", "inc" (in srcu_read_lock(), idx read) or "in"
          ridx, rcpu,     \* the idx of a reader, and the CPU it runs on in "inc"
          upc,
          uidx,           \* the local idx of synchronize_srcu()
          usum, ucpu,     \* the locals of srcu_readers_active_idx()
          usched,         \* usched[u]: the regions u's synchronize_sched() waits for
          srcu_before     \* history: see GracePeriod

reader_vars == <<rpc, ridx, rcpu>>

updater_vars == <<mutex, upc, uidx, usum, ucpu, usched>>

srcu_vars == <<completed, c, allocated, reader_vars, updater_vars, srcu_before>>

SrcuCPU == 0 .. NR_CPUS - 1

UpdaterLabels == {"out", "lock", "sched1", "sched2", "sum", "sched3"}

SrcuTypeOK == /\ completed \in 0 .. CompletedMod - 1
              /\ c \in [SrcuCPU -> [0 .. 1 -> 0 .. CounterMod - 1]]
              /\ allocated \in BOOLEAN
              /\ mutex \in Updater \union {NoUpdater}
              /\ rpc \in [Reader -> {"out", "inc", "in"}]
              /\ ridx \in [Reader -> 0 .. 1]
              /\ rcpu \in [Reader -> SrcuCPU]
              /\ upc \in [Updater -> UpdaterLabels]
              /\ uidx \in [Updater -> 0 .. CompletedMod - 1]
              /\ \A u \in Updater : upc[u] \in {"sched2", "sum", "sched3"} => uidx[u] \in 0 .. 1
              /\ usum \in [Updater -> 0 .. CounterMod - 1]
              /\ ucpu \in [Updater -> SrcuCPU]
              /\ usched \in [Updater -> SUBSET Reader]
              /\ srcu_before \in [Updater -> SUBSET Reader]

\* init_srcu_struct()
SrcuInit == /\ completed = 0
            /\ c = [cpu \in SrcuCPU |-> [i \in 0 .. 1 |-> 0]]
            /\ allocated = TRUE
            /\ mutex = NoUpdater
            /\ rpc = [r \in Reader |-> "out"]
            /\ ridx = [r \in Reader |-> 0]
            /\ rcpu = [r \in Reader |-> 0]
            /\ upc = [u \in Updater |-> "out"]
            /\ uidx = [u \in Updater |-> 0]
            /\ usum = [u \in Updater |-> 0]
            /\ ucpu = [u \in Updater |-> 0]
            /\ usched = [u \in Updater |-> {}]
            /\ srcu_before = [u \in Updater |-> {}]

Readers == {r \in Reader : rpc[r] = "in"}

PreemptOff == {r \in Reader : rpc[r] = "inc"}

\* Nobody is in a preempt_disable() region on cpu.
Schedulable(cpu) == \A r \in PreemptOff : rcpu[r] # cpu

\* a - b as a signed integer of the width of sp->completed.
SignedDiff(a, b) ==
  ((a - b + CompletedMod + CompletedMod \div 2) % CompletedMod) - CompletedMod \div 2

Count(cpu, idx, n) == c' = [c EXCEPT ![cpu][idx] = (@ + n + CounterMod) % CounterMod]

-----------------------------------------------------------------------------
(* Readers.                                                                *)

\* preempt_disable(); idx = sp->completed & 0x1
ReadLockIdx(r, cpu) ==
  /\ allocated /\ rpc[r] = "out" /\ Schedulable(cpu)
  /\ rpc' = [rpc EXCEPT ![r] = "inc"]
  /\ ridx' = [ridx EXCEPT ![r] = completed % 2]
  /\ rcpu' = [rcpu EXCEPT ![r] = cpu]
  /\ UNCHANGED <<completed, c, allocated, updater_vars, srcu_before>>

\* c[idx]++; preempt_enable().  The region ends, for every synchronize_sched().
ReadLockInc(r) ==
  /\ rpc[r] = "inc"
  /\ rpc' = [rpc EXCEPT ![r] = "in"]
  /\ rcpu' = [rcpu EXCEPT ![r] = 0]
  /\ Count(rcpu[r], ridx[r], 1)
  /\ usched' = [u \in Updater |-> usched[u] \ {r}]
  /\ UNCHANGED <<completed, allocated, ridx, mutex, upc, uidx, usum, ucpu, srcu_before>>

srcu_read_unlock(r, cpu) ==
  /\ rpc[r] = "in" /\ Schedulable(cpu)
  /\ rpc' = [rpc EXCEPT ![r] = "out"]
  /\ ridx' = [ridx EXCEPT ![r] = 0]
  /\ Count(cpu, ridx[r], -1)
  /\ srcu_before' = [u \in Updater |-> srcu_before[u] \ {r}]
  /\ UNCHANGED <<completed, allocated, rcpu, updater_vars>>

-----------------------------------------------------------------------------
(* synchronize_srcu().  A step that calls synchronize_sched() also records *)
(* what it has to wait for.                                                *)

SyncGoto(u, l) == upc' = [upc EXCEPT ![u] = l]

\* idx = sp->completed, before mutex_lock()
synchronize_srcu(u) ==
  /\ allocated /\ upc[u] = "out"
  /\ uidx' = [uidx EXCEPT ![u] = completed]
  /\ srcu_before' = [srcu_before EXCEPT ![u] = Readers]
  /\ SyncGoto(u, "lock")
  /\ UNCHANGED <<completed, c, allocated, reader_vars, mutex, usum, ucpu, usched>>

\* "someone else did the work for us while we were waiting to acquire the lock"
SyncEarlyExit(u) ==
  /\ upc[u] = "lock" /\ mutex = NoUpdater
  /\ SignedDiff(completed, uidx[u]) >= 2
  /\ uidx' = [uidx EXCEPT ![u] = 0]
  /\ SyncGoto(u, "out")
  /\ UNCHANGED <<completed, c, allocated, reader_vars, mutex, usum, ucpu, usched, srcu_before>>

SyncLock(u) ==
  /\ upc[u] = "lock" /\ mutex = NoUpdater
  /\ SignedDiff(completed, uidx[u]) < 2
  /\ mutex' = u
  /\ usched' = [usched EXCEPT ![u] = PreemptOff]
  /\ SyncGoto(u, "sched1")
  /\ UNCHANGED <<completed, c, allocated, reader_vars, uidx, usum, ucpu, srcu_before>>

\* Mutant: the counter is not flipped.
SyncFlipNot(u) ==
  /\ upc[u] = "sched1" /\ usched[u] = {}
  /\ uidx' = [uidx EXCEPT ![u] = completed % 2]
  /\ usched' = [usched EXCEPT ![u] = PreemptOff]
  /\ SyncGoto(u, "sched2")
  /\ UNCHANGED <<completed, c, allocated, reader_vars, mutex, usum, ucpu, srcu_before>>

\* Mutant: no synchronize_sched() after the flip.
SyncFlipNoWait(u) ==
  /\ upc[u] = "sched1" /\ usched[u] = {}
  /\ uidx' = [uidx EXCEPT ![u] = completed % 2]
  /\ completed' = (completed + 1) % CompletedMod
  /\ SyncGoto(u, "sched2")
  /\ UNCHANGED <<c, allocated, reader_vars, mutex, usum, ucpu, usched, srcu_before>>

\* idx = sp->completed & 0x1; sp->completed++
SyncFlip(u) ==
  /\ upc[u] = "sched1" /\ usched[u] = {}
  /\ uidx' = [uidx EXCEPT ![u] = completed % 2]
  /\ completed' = (completed + 1) % CompletedMod
  /\ usched' = [usched EXCEPT ![u] = PreemptOff]
  /\ SyncGoto(u, "sched2")
  /\ UNCHANGED <<c, allocated, reader_vars, mutex, usum, ucpu, srcu_before>>

\* srcu_readers_active_idx() begins to add up.
SyncSumBegin(u) ==
  /\ upc[u] = "sched2" /\ usched[u] = {}
  /\ SyncGoto(u, "sum")
  /\ UNCHANGED <<completed, c, allocated, reader_vars, mutex, uidx, usum, ucpu, usched, srcu_before>>

\* It adds the counter of one CPU.  After the last one a sum that is not 0 makes
\* the loop sleep and start again.
SyncSum(u) ==
  LET sum == (usum[u] + c[ucpu[u]][uidx[u]]) % CounterMod
      last == ucpu[u] = NR_CPUS - 1
  IN  /\ upc[u] = "sum"
      /\ usum' = [usum EXCEPT ![u] = IF last THEN 0 ELSE sum]
      /\ ucpu' = [ucpu EXCEPT ![u] = IF last THEN 0 ELSE @ + 1]
      /\ IF last /\ sum = 0
         THEN SyncGoto(u, "sched3") /\ usched' = [usched EXCEPT ![u] = PreemptOff]
         ELSE UNCHANGED <<upc, usched>>
      /\ UNCHANGED <<completed, c, allocated, reader_vars, mutex, uidx, srcu_before>>

SyncUnlock(u) ==
  /\ upc[u] = "sched3" /\ usched[u] = {}
  /\ mutex' = NoUpdater
  /\ uidx' = [uidx EXCEPT ![u] = 0]
  /\ SyncGoto(u, "out")
  /\ UNCHANGED <<completed, c, allocated, reader_vars, usum, ucpu, usched, srcu_before>>

-----------------------------------------------------------------------------
(* cleanup_srcu_struct() by the owner of the structure, once no task is    *)
(* inside the functions above ("after you are finished using"); it refuses *)
(* when a reader has not left.  The structure may then be set up again.    *)

srcu_readers_active ==
  SumFunction([cpu \in SrcuCPU |-> c[cpu][0] + c[cpu][1]]) % CounterMod

cleanup_srcu_struct ==
  /\ allocated /\ PreemptOff = {} /\ \A u \in Updater : upc[u] = "out"
  /\ allocated' = (srcu_readers_active # 0)
  /\ UNCHANGED <<completed, c, reader_vars, updater_vars, srcu_before>>

init_srcu_struct ==
  /\ ~allocated
  /\ allocated' = TRUE
  /\ completed' = 0
  /\ c' = [cpu \in SrcuCPU |-> [i \in 0 .. 1 |-> 0]]
  /\ UNCHANGED <<reader_vars, updater_vars, srcu_before>>

-----------------------------------------------------------------------------
ReaderStep(r) == \/ ReadLockInc(r) \/ \E cpu \in SrcuCPU : srcu_read_unlock(r, cpu)

SyncStep(u) == SyncFlip(u) \/ SyncSumBegin(u) \/ SyncSum(u) \/ SyncUnlock(u)

SyncGetMutex(u) == SyncEarlyExit(u) \/ SyncLock(u)

SrcuNext == \/ \E r \in Reader : (\E cpu \in SrcuCPU : ReadLockIdx(r, cpu)) \/ ReaderStep(r)
            \/ \E u \in Updater : synchronize_srcu(u) \/ SyncGetMutex(u) \/ SyncStep(u)
            \/ cleanup_srcu_struct \/ init_srcu_struct

SrcuSpec == SrcuInit /\ [][SrcuNext]_srcu_vars

\* Readers leave their sections, tasks run, and sp->mutex is passed on to every
\* task that waits for it.  Nothing is assumed of new readers and new calls.
SrcuFairness == /\ \A r \in Reader : WF_srcu_vars(ReaderStep(r))
                /\ \A u \in Updater : WF_srcu_vars(SyncStep(u)) /\ SF_srcu_vars(SyncGetMutex(u))

-----------------------------------------------------------------------------
(* Properties.                                                             *)

\* synchronize_srcu() "wait[s] for prior SRCU read-side critical-section
\* completion": it implements a grace period, although it adds up the counters
\* one CPU at a time while readers leave on other CPUs, and even when it returns
\* early because of two flips by others.
SrcuGP == INSTANCE GracePeriod WITH
            Section <- Reader, Request <- Updater, inside <- Readers,
            waiting <- {u \in Updater : upc[u] # "out"}, before <- srcu_before

SrcuImplementsGracePeriod == SrcuGP!GPSpec

\* synchronize_srcu() returns although new readers come in all the time: they
\* count themselves in the other rank.
SynchronizeReturns == \A u \in Updater : upc[u] # "out" ~> upc[u] = "out"

=============================================================================
