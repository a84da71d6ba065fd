----------------------------- MODULE TimerSync -----------------------------
(***************************************************************************)
(* Timers between CPUs, kernel/timer.c: mod_timer(), del_timer() and       *)
(* del_timer_sync() by tasks on several CPUs and by the timer's function,  *)
(* against __run_timers() on the CPU of its base.  A timer is locked by    *)
(* the lock of the base that timer->base names, which is read without it,  *)
(* and belongs to nobody while it moves (timer->base = NULL).              *)
(*                                                                         *)
(* A section under a base's lock is one step.  When a timer expires is the *)
(* business of TimerWheel: here a queued timer may expire at any time.     *)
(***************************************************************************)
EXTENDS Integers

CONSTANTS Base,           \* the CPUs, and their tvec_bases
          NoBase,         \* NULL
          User,           \* the tasks that use the timer
          HomeOf,         \* HomeOf[u]: the CPU u runs on
          Expiry          \* the expiry times in use

ASSUME TimerAssumption == /\ NoBase \notin Base /\ User \intersect Base = {}
                          /\ HomeOf \in [User -> Base]
                          /\ Base # {} /\ Expiry # {}

VARIABLES base,           \* timer->base
          pending,        \* timer_pending(): timer->entry.next # NULL
          expires,        \* timer->expires
          queued,         \* the bases that have the timer on one of their lists
          running,        \* the bases whose running_timer is the timer
          handler,        \* the CPUs that execute its function
          pc,             \* pc[u]: a task, or the function on CPU u, in one of the calls
          lbase,          \* lbase[u]: its local variable base
          arg             \* arg[u]: the new expiry time

timer_vars == <<base, pending, expires, queued, running, handler, pc, lbase, arg>>

\* Who may be inside a call: tasks, and the timer's function, which is named by
\* the CPU it runs on.
Caller == User \union Base

CpuOf(u) == IF u \in Base THEN u ELSE HomeOf[u]

NoExpiry == 0

TimerLabels == {"out", "mod", "test", "lock_mod", "lock_new", "lock_del", "lock_sync"}

TimerTypeOK == /\ base \in Base \union {NoBase}
               /\ pending \in BOOLEAN
               /\ expires \in Expiry
               /\ queued \subseteq Base /\ running \subseteq Base /\ handler \subseteq Base
               /\ pc \in [Caller -> TimerLabels]
               /\ lbase \in [Caller -> Base \union {NoBase}]
               /\ arg \in [Caller -> Expiry \union {NoExpiry}]

\* init_timer(), on some CPU and with some time left over in timer->expires
TimerInit == /\ base = CHOOSE b \in Base : TRUE
             /\ pending = FALSE
             /\ expires = CHOOSE e \in Expiry : TRUE
             /\ queued = {} /\ running = {} /\ handler = {}
             /\ pc = [u \in Caller |-> "out"]
             /\ lbase = [u \in Caller |-> NoBase]
             /\ arg = [u \in Caller |-> NoExpiry]

TimerGoto(u, l) == pc' = [pc EXCEPT ![u] = l]

Return(u) == /\ TimerGoto(u, "out")
             /\ lbase' = [lbase EXCEPT ![u] = NoBase]
             /\ arg' = [arg EXCEPT ![u] = NoExpiry]

\* The timer's function may call too, while it runs.
MayCall(u) == pc[u] = "out" /\ (u \in Base => u \in handler)

Modifying == {u \in User : pc[u] \in {"mod", "test", "lock_mod", "lock_new"}}

Synchronizing == {u \in User : pc[u] = "lock_sync"}

-----------------------------------------------------------------------------
(* lock_timer_base(): timer->base is read without a lock, and read again   *)
(* under the lock of the base it named.                                    *)

ReadBase(u) ==
  /\ pc[u] \in {"lock_mod", "lock_del", "lock_sync"} /\ lbase[u] = NoBase
  /\ base # NoBase
  /\ lbase' = [lbase EXCEPT ![u] = base]
  /\ UNCHANGED <<base, pending, expires, queued, running, handler, pc, arg>>

\* "The timer has migrated to another CPU"
Migrated(u) ==
  /\ pc[u] \in {"lock_mod", "lock_del", "lock_sync"} /\ lbase[u] # NoBase
  /\ lbase[u] # base
  /\ lbase' = [lbase EXCEPT ![u] = NoBase]
  /\ UNCHANGED <<base, pending, expires, queued, running, handler, pc, arg>>

Locked(u, l) == pc[u] = l /\ lbase[u] # NoBase /\ lbase[u] = base

-----------------------------------------------------------------------------
(* mod_timer() and __mod_timer()                                           *)

\* del_timer_sync() demands that nobody else restarts the timer meanwhile.
mod_timer(u, e) ==
  /\ MayCall(u) /\ (u \in User => Synchronizing = {})
  /\ arg' = [arg EXCEPT ![u] = e]
  /\ TimerGoto(u, "mod")
  /\ UNCHANGED <<base, pending, expires, queued, running, handler, lbase>>

\* if (timer->expires == expires && timer_pending(timer)) return 1: two reads
\* without the lock
TestExpires(u) ==
  /\ pc[u] = "mod"
  /\ TimerGoto(u, IF expires = arg[u] THEN "test" ELSE "lock_mod")
  /\ UNCHANGED <<base, pending, expires, queued, running, handler, lbase, arg>>

TestTimerPending(u) ==
  /\ pc[u] = "test"
  /\ IF pending THEN Return(u) ELSE TimerGoto(u, "lock_mod") /\ UNCHANGED <<lbase, arg>>
  /\ UNCHANGED <<base, pending, expires, queued, running, handler>>

\* internal_add_timer() to base b, and out.
AddTo(u, b) == /\ queued' = (queued \ {base}) \union {b}
               /\ pending' = TRUE
               /\ expires' = arg[u]
               /\ Return(u)

\* Mutant: a timer whose function runs elsewhere moves to this CPU all the same.
__mod_timerMoves(u) ==
  LET new == CpuOf(u)
  IN  /\ Locked(u, "lock_mod")
      /\ IF base = new
         THEN AddTo(u, base) /\ UNCHANGED base
         ELSE /\ queued' = queued \ {base}
              /\ base' = NoBase
              /\ TimerGoto(u, "lock_new")
              /\ UNCHANGED <<pending, expires, lbase, arg>>
      /\ UNCHANGED <<running, handler>>

\* Under the lock of the timer's base.  A timer that does not run moves to this
\* CPU's base; it is taken off its list without clearing timer_pending().
__mod_timer(u) ==
  LET new == CpuOf(u)
  IN  /\ Locked(u, "lock_mod")
      /\ IF base = new \/ base \in running
         THEN AddTo(u, base) /\ UNCHANGED base
         ELSE /\ queued' = queued \ {base}
              /\ base' = NoBase
              /\ TimerGoto(u, "lock_new")
              /\ UNCHANGED <<pending, expires, lbase, arg>>
      /\ UNCHANGED <<running, handler>>

\* Under the lock of the new base.
Moved(u) ==
  /\ pc[u] = "lock_new"
  /\ base' = CpuOf(u)
  /\ AddTo(u, CpuOf(u))
  /\ UNCHANGED <<running, handler>>

\* add_timer_on() writes timer->base under the lock of the new base only.  That needs
\* a timer that is not pending (its BUG_ON()) and that nobody else is using.
add_timer_on(u, b) ==
  /\ u \in User /\ ~pending /\ running = {} /\ \A v \in Caller : pc[v] = "out"
  /\ base' = b
  /\ queued' = queued \union {b}
  /\ pending' = TRUE
  /\ UNCHANGED <<expires, running, handler, pc, lbase, arg>>

-----------------------------------------------------------------------------
(* del_timer(), try_to_del_timer_sync() and del_timer_sync()               *)

\* The first timer_pending() is read without the lock; nothing happens if the timer
\* is not pending.
del_timer(u) ==
  /\ MayCall(u) /\ pending
  /\ TimerGoto(u, "lock_del")
  /\ UNCHANGED <<base, pending, expires, queued, running, handler, lbase, arg>>

Detach(u) == /\ queued' = queued \ {base}
             /\ pending' = FALSE
             /\ Return(u)

DelLocked(u) ==
  /\ Locked(u, "lock_del")
  /\ Detach(u)
  /\ UNCHANGED <<base, expires, running, handler>>

del_timer_sync(u) ==
  /\ u \in User /\ MayCall(u) /\ Modifying = {}
  /\ TimerGoto(u, "lock_sync")
  /\ UNCHANGED <<base, pending, expires, queued, running, handler, lbase, arg>>

\* Mutant: only a timer that is not pending can be running.
try_to_del_timer_syncPending(u) ==
  /\ Locked(u, "lock_sync")
  /\ IF base \in running /\ ~pending
     THEN lbase' = [lbase EXCEPT ![u] = NoBase] /\ UNCHANGED <<queued, pending, pc, arg>>
     ELSE Detach(u)
  /\ UNCHANGED <<base, expires, running, handler>>

\* try_to_del_timer_sync(), repeated while the function may be running.
try_to_del_timer_sync(u) ==
  /\ Locked(u, "lock_sync")
  /\ IF base \in running
     THEN lbase' = [lbase EXCEPT ![u] = NoBase] /\ UNCHANGED <<queued, pending, pc, arg>>
     ELSE Detach(u)
  /\ UNCHANGED <<base, expires, running, handler>>

-----------------------------------------------------------------------------
(* __run_timers() on CPU b.                                                *)

\* The timer has expired: running_timer is set and the function called.
Expire(b) ==
  /\ b \in queued /\ b \notin handler
  /\ running' = running \union {b}
  /\ queued' = queued \ {b}
  /\ pending' = FALSE
  /\ handler' = handler \union {b}
  /\ UNCHANGED <<base, expires, pc, lbase, arg>>

FunctionEnds(b) ==
  /\ b \in handler /\ pc[b] = "out"
  /\ handler' = handler \ {b}
  /\ UNCHANGED <<base, pending, expires, queued, running, pc, lbase, arg>>

\* Mutant: running_timer is not reset at the end.
RunTimersEndKeep(b) ==
  /\ b \in running /\ b \notin handler
  /\ UNCHANGED timer_vars

\* The next timer is run, or set_running_timer(base, NULL) at the end.
RunTimersEnd(b) ==
  /\ b \in running /\ b \notin handler
  /\ running' = running \ {b}
  /\ UNCHANGED <<base, pending, expires, queued, handler, pc, lbase, arg>>

-----------------------------------------------------------------------------
CallStep(u) == \/ ReadBase(u) \/ Migrated(u) \/ TestExpires(u) \/ TestTimerPending(u) \/ __mod_timer(u)
               \/ Moved(u) \/ DelLocked(u) \/ try_to_del_timer_sync(u)

RunStep(b) == FunctionEnds(b) \/ RunTimersEnd(b)

TimerNext == \/ \E u \in Caller : \/ (\E e \in Expiry : mod_timer(u, e))
                                  \/ (\E b \in Base : add_timer_on(u, b))
                                  \/ del_timer(u) \/ del_timer_sync(u) \/ CallStep(u)
             \/ \E b \in Base : Expire(b) \/ RunStep(b)

TimerSpec == TimerInit /\ [][TimerNext]_timer_vars

\* Callers and functions run; timers need not expire.
TimerFairness == /\ \A u \in Caller : WF_timer_vars(CallStep(u))
                 /\ \A b \in Base : WF_timer_vars(RunStep(b))

-----------------------------------------------------------------------------
(* Properties.                                                             *)

\* A timer is linked only in the base that timer->base names, so that whoever locks
\* it holds the lock of its list (the BUG_ON() of cascade()), and at most once;
\* timer_pending() is true while it is linked, and otherwise only on its way to
\* another base.
LockedByItsBase ==
  /\ queued \subseteq {base}
  /\ queued # {} => pending
  /\ pending => queued # {} \/ base = NoBase
  /\ base = NoBase <=> \E u \in Caller : pc[u] = "lock_new"

\* "This also guarantees that the timer is serialized wrt itself."
TimerSerialized == \A a, b \in handler : a = b

\* del_timer_sync(): "Upon exit the timer is not queued and the handler is not
\* running on any CPU", although the function may start the timer again.
SyncIsFinal ==
  [][\A u \in User : pc[u] = "lock_sync" /\ pc'[u] = "out" => queued' = {} /\ handler' = {}]_timer_vars

\* With one task on each CPU every call returns once the timer's function has stopped
\* calling mod_timer(): nobody retries lock_timer_base() for ever, and del_timer_sync() sees the function
\* end.  (Two other tasks that keep moving a timer between their CPUs can keep a
\* third one in lock_timer_base().)
CallsReturn ==
  <>[](\A b \in Base : pc[b] = "out") => \A u \in User : pc[u] # "out" ~> pc[u] = "out"

=============================================================================
