-------------------------- MODULE TimerKfifoProofs --------------------------
(***************************************************************************)
(* Timers and kfifo, whose parties work on several CPUs without a common   *)
(* lock and whose counters wrap.  First timers between CPUs: who locks the *)
(* base that timer->base names locks the timer, its function does not run  *)
(* twice at a time, and del_timer_sync() returns when it runs nowhere.     *)
(***************************************************************************)
EXTENDS TimerSync, TimerWheel, Kfifo, TLAPS

Busy == {"mod", "test", "lock_mod", "lock_new"}

\* The inductive invariant.  The reason why it holds is that timer->base does not
\* change while running_timer names the timer: so only the base of a timer can be
\* running it, and del_timer_sync() need not look at the others.
TimerInv == /\ TimerTypeOK
            /\ LockedByItsBase
            /\ running \subseteq {base}
            /\ handler \subseteq running
            /\ \A u \in Caller : pc[u] \in Busy => arg[u] \in Expiry
            /\ \A u, v \in Caller : pc[u] = "lock_new" /\ pc[v] = "lock_new" => u = v

-----------------------------------------------------------------------------
\* The CPU of a caller is a base.
LEMMA CpuOfBase == \A u \in Caller : CpuOf(u) \in Base
BY TimerAssumption DEF CpuOf, Caller

\* A timer that init_timer() has set up satisfies the invariant.
LEMMA TimerInitInv == TimerInit => TimerInv
<1> SUFFICES ASSUME TimerInit PROVE TimerInv
  OBVIOUS
<1>1. base \in Base /\ expires \in Expiry
  BY TimerAssumption DEF TimerInit
<1>2. TimerTypeOK
  BY <1>1 DEF TimerInit, TimerTypeOK, TimerLabels
<1>3. LockedByItsBase
  BY <1>1, TimerAssumption DEF TimerInit, LockedByItsBase
<1> QED
  BY <1>2, <1>3 DEF TimerInit, TimerInv, Busy

\* Steps that neither touch the timer nor enter or leave the move of a timer to
\* another base, and know the time they set.
LEMMA QuietStep ==
  ASSUME TimerInv, NEW u \in Caller, NEW l \in TimerLabels \ {"lock_new"}, pc[u] # "lock_new",
         UNCHANGED <<base, pending, expires, queued, running, handler>>,
         pc' = [pc EXCEPT ![u] = l],
         lbase' \in [Caller -> Base \union {NoBase}],
         arg' \in [Caller -> Expiry \union {NoExpiry}],
         \A v \in Caller \ {u} : arg'[v] = arg[v],
         l \in Busy => arg'[u] \in Expiry
  PROVE  TimerInv'
<1>1. TimerTypeOK'
  BY DEF TimerInv, TimerTypeOK
<1>2. \A v \in Caller : pc'[v] = "lock_new" <=> pc[v] = "lock_new"
  BY DEF TimerInv, TimerTypeOK
<1>3. LockedByItsBase'
  BY <1>2 DEF TimerInv, LockedByItsBase
<1>4. \A v \in Caller : pc'[v] \in Busy => arg'[v] \in Expiry
  BY DEF TimerInv, TimerTypeOK
<1> QED
  BY <1>1, <1>2, <1>3, <1>4 DEF TimerInv

\* Steps that change the timer while timer->base names the base whose lock is held,
\* and keep it there.
LEMMA LockedStep ==
  ASSUME TimerInv, base \in Base, UNCHANGED base,
         pending' \in BOOLEAN, expires' \in Expiry,
         queued' \subseteq {base}, pending' <=> queued' # {},
         running' \subseteq {base}, handler' \subseteq running',
         NEW u \in Caller, pc[u] # "lock_new",
         \/ pc' = [pc EXCEPT ![u] = "out"]
         \/ UNCHANGED pc,
         lbase' \in [Caller -> Base \union {NoBase}],
         arg' \in [Caller -> Expiry \union {NoExpiry}],
         \A v \in Caller \ {u} : arg'[v] = arg[v],
         pc' = pc => arg' = arg
  PROVE  TimerInv'
<1>1. TimerTypeOK'
  BY DEF TimerInv, TimerTypeOK, TimerLabels
<1>2. \A v \in Caller : pc'[v] = "lock_new" <=> pc[v] = "lock_new"
  BY DEF TimerInv, TimerTypeOK
<1>3. LockedByItsBase'
  BY <1>2 DEF TimerInv, LockedByItsBase
<1>4. \A v \in Caller : pc'[v] \in Busy => arg'[v] \in Expiry
  BY DEF TimerInv, TimerTypeOK, Busy
<1> QED
  BY <1>1, <1>2, <1>3, <1>4 DEF TimerInv

\* What Return(u) does to the variables of a caller.
LEMMA ReturnEffect ==
  ASSUME TimerInv, NEW u \in Caller, Return(u)
  PROVE  /\ pc' = [pc EXCEPT ![u] = "out"]
         /\ lbase' \in [Caller -> Base \union {NoBase}]
         /\ arg' \in [Caller -> Expiry \union {NoExpiry}]
         /\ \A v \in Caller \ {u} : arg'[v] = arg[v]
BY DEF Return, TimerGoto, TimerInv, TimerTypeOK

-----------------------------------------------------------------------------
\* Each step of lock_timer_base() and of the calls before the lock is taken.
LEMMA EntryInv ==
  ASSUME TimerInv, NEW u \in Caller,
         \/ ReadBase(u) \/ Migrated(u) \/ TestExpires(u) \/ TestTimerPending(u)
         \/ (\E e \in Expiry : mod_timer(u, e)) \/ del_timer(u) \/ del_timer_sync(u)
  PROVE  TimerInv'
<1> USE DEF TimerGoto
<1>1. CASE ReadBase(u)
  <2>1. pc' = [pc EXCEPT ![u] = pc[u]] /\ pc[u] \in TimerLabels \ {"lock_new"}
    BY <1>1 DEF ReadBase, TimerInv, TimerTypeOK, TimerLabels
  <2>2. pc[u] \in Busy => arg'[u] \in Expiry
    BY <1>1 DEF ReadBase, TimerInv
  <2> QED
    BY <1>1, <2>1, <2>2, QuietStep DEF ReadBase, TimerInv, TimerTypeOK
<1>2. CASE Migrated(u)
  <2>1. pc' = [pc EXCEPT ![u] = pc[u]] /\ pc[u] \in TimerLabels \ {"lock_new"}
    BY <1>2 DEF Migrated, TimerInv, TimerTypeOK, TimerLabels
  <2>2. pc[u] \in Busy => arg'[u] \in Expiry
    BY <1>2 DEF Migrated, TimerInv
  <2> QED
    BY <1>2, <2>1, <2>2, QuietStep DEF Migrated, TimerInv, TimerTypeOK
<1>3. CASE TestExpires(u)
  <2>1. PICK l \in {"test", "lock_mod"} : pc' = [pc EXCEPT ![u] = l]
    BY <1>3 DEF TestExpires
  <2>2. arg'[u] \in Expiry
    BY <1>3 DEF TestExpires, TimerInv, Busy
  <2> QED
    BY <1>3, <2>1, <2>2, QuietStep DEF TestExpires, TimerInv, TimerTypeOK, TimerLabels
<1>4. CASE TestTimerPending(u)
  <2>1. CASE pending
    <3>1. Return(u) /\ pc[u] = "test"
      BY <1>4, <2>1 DEF TestTimerPending
    <3> QED
      BY <1>4, <3>1, ReturnEffect, QuietStep DEF TestTimerPending, TimerLabels, Busy
  <2>2. CASE ~pending
    <3>1. arg'[u] \in Expiry
      BY <1>4, <2>2 DEF TestTimerPending, TimerInv, Busy
    <3> QED
      BY <1>4, <2>2, <3>1, QuietStep DEF TestTimerPending, TimerInv, TimerTypeOK, TimerLabels
  <2> QED
    BY <2>1, <2>2
<1>5. CASE \E e \in Expiry : mod_timer(u, e)
  <2>1. PICK e \in Expiry : mod_timer(u, e)
    BY <1>5
  <2>2. arg' \in [Caller -> Expiry \union {NoExpiry}] /\ arg'[u] \in Expiry
        /\ \A v \in Caller \ {u} : arg'[v] = arg[v]
    BY <2>1 DEF mod_timer, TimerInv, TimerTypeOK
  <2> QED
    BY <2>1, <2>2, QuietStep DEF mod_timer, MayCall, TimerInv, TimerTypeOK, TimerLabels
<1>6. CASE del_timer(u)
  BY <1>6, QuietStep DEF del_timer, MayCall, TimerInv, TimerTypeOK, TimerLabels, Busy
<1>7. CASE del_timer_sync(u)
  BY <1>7, QuietStep DEF del_timer_sync, MayCall, TimerInv, TimerTypeOK, TimerLabels, Busy
<1> QED
  BY <1>1, <1>2, <1>3, <1>4, <1>5, <1>6, <1>7

\* Under the lock of the base: adding the timer there.
LEMMA AddInv ==
  ASSUME TimerInv, NEW u \in Caller, base \in Base, pc[u] \in Busy \ {"lock_new"},
         AddTo(u, base), UNCHANGED <<base, running, handler>>
  PROVE  TimerInv'
<1>1. queued' = {base} /\ pending' = TRUE
  BY DEF AddTo, TimerInv, LockedByItsBase
<1>2. expires' \in Expiry
  BY DEF AddTo, TimerInv
<1>3. Return(u)
  BY DEF AddTo
<1>4. pc' # pc
  BY <1>3, ReturnEffect DEF TimerInv, TimerTypeOK, Busy
<1> QED
  BY <1>1, <1>2, <1>3, <1>4, ReturnEffect, LockedStep DEF TimerInv, Busy

\* Under the lock of the base: taking the timer off its list.
LEMMA DetachInv ==
  ASSUME TimerInv, NEW u \in Caller, base \in Base, pc[u] \in {"lock_del", "lock_sync"},
         Detach(u), UNCHANGED <<base, expires, running, handler>>
  PROVE  TimerInv'
<1>1. queued' = {} /\ pending' = FALSE
  BY DEF Detach, TimerInv, LockedByItsBase
<1>2. Return(u)
  BY DEF Detach
<1>3. pc' # pc
  BY <1>2, ReturnEffect DEF TimerInv, TimerTypeOK
<1> QED
  BY <1>1, <1>2, <1>3, ReturnEffect, LockedStep DEF TimerInv, TimerTypeOK

-----------------------------------------------------------------------------
\* __mod_timer() under the lock of the timer's base.
LEMMA ModTimerInv ==
  ASSUME TimerInv, NEW u \in Caller, __mod_timer(u)
  PROVE  TimerInv'
<1>1. base \in Base /\ pc[u] = "lock_mod"
  BY DEF __mod_timer, Locked, TimerInv, TimerTypeOK
<1>2. CASE base = CpuOf(u) \/ base \in running
  BY <1>1, <1>2, AddInv DEF __mod_timer, Busy
<1>3. CASE ~(base = CpuOf(u) \/ base \in running)
  <2>1. /\ queued' = queued \ {base} /\ base' = NoBase
        /\ pc' = [pc EXCEPT ![u] = "lock_new"]
        /\ UNCHANGED <<pending, expires, lbase, arg, running, handler>>
    BY <1>3 DEF __mod_timer, TimerGoto
  <2>2. queued' = {} /\ running' = {} /\ handler' = {}
    BY <1>3, <2>1 DEF TimerInv, LockedByItsBase
  <2>3. \A v \in Caller : pc[v] # "lock_new"
    BY <1>1, TimerAssumption DEF TimerInv, LockedByItsBase
  <2>4. pc'[u] = "lock_new" /\ \A v \in Caller \ {u} : pc'[v] = pc[v]
    BY <2>1 DEF TimerInv, TimerTypeOK
  <2>5. TimerTypeOK'
    BY <2>1, <2>2 DEF TimerInv, TimerTypeOK, TimerLabels
  <2>6. LockedByItsBase'
    BY <2>1, <2>2, <2>4 DEF LockedByItsBase
  <2>7. \A v \in Caller : pc'[v] \in Busy => arg'[v] \in Expiry
    BY <1>1, <2>1, <2>4 DEF TimerInv, Busy
  <2> QED
    BY <2>2, <2>3, <2>4, <2>5, <2>6, <2>7 DEF TimerInv
<1> QED
  BY <1>2, <1>3

\* The second half of __mod_timer(): the timer arrives at its new base.
LEMMA MovedInv ==
  ASSUME TimerInv, NEW u \in Caller, Moved(u)
  PROVE  TimerInv'
<1>1. pc[u] = "lock_new" /\ base = NoBase /\ base' = CpuOf(u) /\ CpuOf(u) \in Base
  BY CpuOfBase DEF Moved, TimerInv, LockedByItsBase
<1>2. queued = {} /\ running = {} /\ handler = {}
  BY <1>1, TimerAssumption DEF TimerInv, TimerTypeOK, LockedByItsBase
<1>3. queued' = {base'} /\ pending' = TRUE /\ expires' = arg[u] /\ Return(u)
      /\ running' = {} /\ handler' = {}
  BY <1>1, <1>2 DEF Moved, AddTo
<1>4. \A v \in Caller : pc'[v] # "lock_new"
  BY <1>1, <1>3, ReturnEffect DEF TimerInv, TimerTypeOK
<1>5. TimerTypeOK'
  BY <1>1, <1>3, ReturnEffect DEF TimerInv, TimerTypeOK, TimerLabels, Busy
<1>6. LockedByItsBase'
  BY <1>1, <1>3, <1>4, TimerAssumption DEF LockedByItsBase
<1>7. \A v \in Caller : pc'[v] \in Busy => arg'[v] \in Expiry
  BY <1>3, ReturnEffect DEF TimerInv, TimerTypeOK, Busy
<1> QED
  BY <1>3, <1>4, <1>5, <1>6, <1>7 DEF TimerInv

\* add_timer_on() of an unused timer.
LEMMA AddTimerOnInv ==
  ASSUME TimerInv, NEW u \in User, NEW b \in Base, add_timer_on(u, b)
  PROVE  TimerInv'
<1>1. queued = {} /\ handler = {}
  BY DEF add_timer_on, TimerInv, LockedByItsBase
<1>2. /\ base' = b /\ queued' = {b} /\ pending' = TRUE /\ running' = {} /\ handler' = {}
      /\ \A v \in Caller : pc'[v] = "out"
      /\ UNCHANGED <<expires, pc, lbase, arg>>
  BY <1>1 DEF add_timer_on
<1>3. TimerTypeOK'
  BY <1>2 DEF TimerInv, TimerTypeOK
<1>4. LockedByItsBase'
  BY <1>2, TimerAssumption DEF LockedByItsBase
<1> QED
  BY <1>2, <1>3, <1>4 DEF TimerInv, Busy

\* del_timer() and try_to_del_timer_sync() under the lock.
LEMMA DelInv ==
  ASSUME TimerInv, NEW u \in Caller, DelLocked(u) \/ try_to_del_timer_sync(u)
  PROVE  TimerInv'
<1>1. base \in Base
  BY DEF DelLocked, try_to_del_timer_sync, Locked, TimerInv, TimerTypeOK
<1>2. CASE DelLocked(u)
  BY <1>1, <1>2, DetachInv DEF DelLocked, Locked
<1>3. CASE try_to_del_timer_sync(u) /\ base \in running
  <2>1. UNCHANGED <<base, pending, expires, queued, running, handler, pc, arg>> /\ pc[u] = "lock_sync"
    BY <1>3 DEF try_to_del_timer_sync, Locked
  <2>2. pc' = [pc EXCEPT ![u] = "lock_sync"]
    BY <2>1 DEF TimerInv, TimerTypeOK
  <2>3. lbase' \in [Caller -> Base \union {NoBase}]
    BY <1>3 DEF try_to_del_timer_sync, TimerInv, TimerTypeOK
  <2> QED
    BY <2>1, <2>2, <2>3, QuietStep DEF TimerInv, TimerTypeOK, TimerLabels, Busy
<1>4. CASE try_to_del_timer_sync(u) /\ base \notin running
  BY <1>1, <1>4, DetachInv DEF try_to_del_timer_sync, Locked
<1> QED
  BY <1>2, <1>3, <1>4

\* __run_timers() on one CPU.
LEMMA RunInv ==
  ASSUME TimerInv, NEW b \in Base, Expire(b) \/ RunStep(b)
  PROVE  TimerInv'
<1> USE DEF Caller
<1>1. CASE Expire(b)
  <2>1. b = base
    BY <1>1 DEF Expire, TimerInv, LockedByItsBase
  <2>2. queued' = {} /\ pending' = FALSE /\ running' = {base} /\ handler' \subseteq running'
    BY <1>1, <2>1 DEF Expire, TimerInv, LockedByItsBase
  <2>3. pc[b] # "lock_new"
    BY <2>1, TimerAssumption DEF TimerInv, LockedByItsBase
  <2> QED
    BY <1>1, <2>1, <2>2, <2>3, LockedStep DEF Expire, TimerInv, TimerTypeOK
<1>2. CASE RunStep(b)
  <2>1. b \in running /\ UNCHANGED <<base, pending, expires, queued, pc, lbase, arg>>
    BY <1>2 DEF RunStep, FunctionEnds, RunTimersEnd, TimerInv
  <2>2. running' \subseteq running /\ handler' \subseteq running'
    BY <1>2 DEF RunStep, FunctionEnds, RunTimersEnd, TimerInv
  <2>3. TimerTypeOK' /\ LockedByItsBase'
    BY <2>1, <2>2 DEF TimerInv, TimerTypeOK, LockedByItsBase
  <2> QED
    BY <2>1, <2>2, <2>3 DEF TimerInv
<1> QED
  BY <1>1, <1>2

-----------------------------------------------------------------------------
\* Every step preserves the invariant.
LEMMA TimerStepInv == TimerInv /\ [TimerNext]_timer_vars => TimerInv'
<1> SUFFICES ASSUME TimerInv, [TimerNext]_timer_vars PROVE TimerInv'
  OBVIOUS
<1>1. CASE UNCHANGED timer_vars
  <2>1. TimerTypeOK' /\ LockedByItsBase'
    BY <1>1 DEF timer_vars, TimerInv, TimerTypeOK, LockedByItsBase
  <2> QED
    BY <1>1, <2>1 DEF timer_vars, TimerInv
<1>2. ASSUME NEW u \in Caller,
             \/ (\E e \in Expiry : mod_timer(u, e)) \/ del_timer(u) \/ del_timer_sync(u)
             \/ ReadBase(u) \/ Migrated(u) \/ TestExpires(u) \/ TestTimerPending(u)
      PROVE  TimerInv'
  BY <1>2, EntryInv
<1>3. ASSUME NEW u \in Caller,
             __mod_timer(u) \/ Moved(u) \/ DelLocked(u) \/ try_to_del_timer_sync(u)
      PROVE  TimerInv'
  BY <1>3, ModTimerInv, MovedInv, DelInv
<1>4. ASSUME NEW u \in Caller, NEW b \in Base, add_timer_on(u, b) PROVE TimerInv'
  BY <1>4, AddTimerOnInv DEF add_timer_on
<1>5. ASSUME NEW b \in Base, Expire(b) \/ RunStep(b) PROVE TimerInv'
  BY <1>5, RunInv
<1> QED
  BY <1>1, <1>2, <1>3, <1>4, <1>5 DEF TimerNext, CallStep

\* The inductive invariant holds at all times.
LEMMA TimerInvariant == TimerSpec => []TimerInv
BY TimerInitInv, TimerStepInv, PTL DEF TimerSpec

\* Locking the base that timer->base names locks the timer and the list it is on,
\* whatever calls and expirations overlap: what the comment before lock_timer_base()
\* calls hashed locking.
THEOREM TimerLocking == TimerSpec => []LockedByItsBase
<1>1. TimerInv => LockedByItsBase
  BY DEF TimerInv
<1> QED
  BY <1>1, TimerInvariant, PTL

\* The function of a timer never runs on two CPUs at a time: __mod_timer() leaves a
\* running timer on its base.
THEOREM TimerIsSerialized == TimerSpec => []TimerSerialized
<1>1. TimerInv => TimerSerialized
  <2> SUFFICES ASSUME TimerInv PROVE TimerSerialized
    OBVIOUS
  <2>1. handler \subseteq {base}
    BY DEF TimerInv
  <2> QED
    BY <2>1 DEF TimerSerialized
<1> QED
  BY <1>1, TimerInvariant, PTL

\* When del_timer_sync() returns, the timer is on no list and its function runs on no
\* CPU, although it looks at the running_timer of one base only.
THEOREM SyncLeavesNothing == TimerSpec => SyncIsFinal
<1>1. ASSUME TimerInv, [TimerNext]_timer_vars, NEW u \in User,
             pc[u] = "lock_sync", pc'[u] = "out"
      PROVE  queued' = {} /\ handler' = {}
  <2>1. u \in Caller /\ u \notin Base
    BY TimerAssumption DEF Caller
  <2>2. pc \in [Caller -> TimerLabels]
    BY <1>1 DEF TimerInv, TimerTypeOK
  <2>3. ASSUME NEW v \in Caller, UNCHANGED pc \/ \E l \in TimerLabels \ {"out"} : pc' = [pc EXCEPT ![v] = l]
        PROVE  FALSE
    BY <1>1, <2>1, <2>2, <2>3
  <2>4. ASSUME NEW v \in Caller, pc[v] # "lock_sync", Return(v)
        PROVE  FALSE
    BY <1>1, <2>1, <2>2, <2>4 DEF Return, TimerGoto
  <2>5. CASE try_to_del_timer_sync(u)
    <3>1. base \notin running
      BY <1>1, <2>5 DEF try_to_del_timer_sync
    <3> QED
      BY <1>1, <2>5, <3>1 DEF try_to_del_timer_sync, Detach, TimerInv, LockedByItsBase
  <2>6. ASSUME NEW v \in Caller \ {u}, try_to_del_timer_sync(v) PROVE FALSE
    BY <1>1, <2>1, <2>2, <2>6 DEF try_to_del_timer_sync, Detach, Return, TimerGoto
  <2>7. ASSUME NEW v \in Caller, __mod_timer(v) \/ Moved(v) \/ DelLocked(v) PROVE FALSE
    <3>1. pc[v] # "lock_sync"
      BY <2>7 DEF __mod_timer, Moved, DelLocked, Locked
    <3>2. Return(v) \/ pc' = [pc EXCEPT ![v] = "lock_new"]
      BY <2>7 DEF __mod_timer, Moved, DelLocked, Detach, AddTo, TimerGoto
    <3> QED
      BY <2>3, <2>4, <3>1, <3>2 DEF TimerLabels
  <2>8. ASSUME NEW v \in Caller, \/ ReadBase(v) \/ Migrated(v) \/ TestExpires(v) \/ TestTimerPending(v)
        PROVE  FALSE
    <3>1. CASE ReadBase(v) \/ Migrated(v)
      BY <2>3, <3>1 DEF ReadBase, Migrated
    <3>2. CASE TestExpires(v)
      BY <2>3, <3>2 DEF TestExpires, TimerGoto, TimerLabels
    <3>3. CASE TestTimerPending(v)
      BY <2>3, <2>4, <3>3 DEF TestTimerPending, TimerGoto, TimerLabels
    <3> QED
      BY <2>8, <3>1, <3>2, <3>3
  <2>9. ASSUME NEW v \in Caller,
               (\E e \in Expiry : mod_timer(v, e)) \/ del_timer(v) \/ del_timer_sync(v)
        PROVE  FALSE
    BY <2>3, <2>9 DEF mod_timer, del_timer, del_timer_sync, TimerGoto, TimerLabels
  <2>10. ASSUME NEW b \in Base, \/ Expire(b) \/ RunStep(b)
                                \/ (\E v \in Caller : add_timer_on(v, b))
         PROVE  FALSE
    BY <1>1, <2>10 DEF Expire, RunStep, FunctionEnds, RunTimersEnd, add_timer_on
  <2>11. ~ UNCHANGED timer_vars
    BY <1>1 DEF timer_vars
  <2>12. CASE \E v \in Caller : CallStep(v)
    <3>1. PICK v \in Caller : CallStep(v)
      BY <2>12
    <3>2. try_to_del_timer_sync(v)
      BY <2>7, <2>8, <3>1 DEF CallStep
    <3> QED
      BY <2>5, <2>6, <3>2
  <2> QED
    BY <1>1, <2>9, <2>10, <2>11, <2>12 DEF TimerNext
<1>2. TimerInv /\ [TimerNext]_timer_vars =>
        [\A u \in User : pc[u] = "lock_sync" /\ pc'[u] = "out" => queued' = {} /\ handler' = {}]_timer_vars
  BY <1>1
<1> QED
  BY <1>2, TimerInvariant, PTL DEF TimerSpec, SyncIsFinal

-----------------------------------------------------------------------------
(***************************************************************************)
(* The timing wheel.  The function of a timer runs at the jiffy it is due, *)
(* as __run_timers() comes to it.                                          *)
(***************************************************************************)

\* Quotient and remainder are unique: the arithmetic of indices, counters and jiffies
\* that wrap.
LEMMA DivisionIsUnique ==
  ASSUME NEW s \in Nat \ {0}, NEW x \in Int, NEW q \in Int, NEW r \in 0 .. s - 1, x = s * q + r
  PROVE  x \div s = q /\ x % s = r
<1>1. /\ x \div s \in Int /\ x % s \in 0 .. s - 1
      /\ x = s * (x \div s) + (x % s)
  OBVIOUS
<1> DEFINE p == x \div s
           m == x % s
<1>2. p \in Int /\ m \in 0 .. s - 1 /\ s * p + m = s * q + r
  BY <1>1
<1> HIDE DEF p, m
<1>3. s * (p - q) = r - m
  BY <1>2
<1>4. p - q >= 1 => s * (p - q) >= s
  BY <1>2
<1>5. p - q <= -1 => s * (p - q) <= -s
  BY <1>2
<1>6. p = q /\ m = r
  BY <1>2, <1>3, <1>4, <1>5
<1> QED
  BY <1>6 DEF p, m

\* What quotient and remainder are.
LEMMA DivisionFacts ==
  ASSUME NEW s \in Nat \ {0}, NEW x \in Nat
  PROVE  x \div s \in Nat /\ x % s \in 0 .. s - 1 /\ x = s * (x \div s) + (x % s)
OBVIOUS

\* The jiffies left until t is due.
Left(t) == Wrap(due[t] - timer_jiffies)

\* t is on the list of tvn for the time it is due at, and that list has not been
\* cascaded since: its turn, due[t] rounded down to the span of a list, is not over.
OnVector(t, n) ==
  /\ vec[t] = <<n, Index(n, due[t])>>
  /\ n = 1 => Left(t) < TVR_SIZE
  /\ n > 1 => wexpires[t] = due[t]
  /\ due[t] % Span(n) <= Left(t) /\ Left(t) < LongMod \div 2

\* The inductive invariant: a pending timer is on time on its vector, or in the list
\* that __run_timers() works through, due at the jiffy it has just moved past.
WheelInv ==
  /\ WheelTypeOK
  /\ \A t \in Timer : \/ vec[t] = NoList
                      \/ vec[t] = work_list /\ due[t] = Wrap(timer_jiffies - 1)
                      \/ \E n \in 1 .. 5 : OnVector(t, n)

-----------------------------------------------------------------------------
\* The spans of the lists grow with the vector and fit twice into an unsigned long.
LEMMA SpanFacts ==
  /\ Span(1) = 1 /\ Span(2) = TVR_SIZE
  /\ \A n \in 1 .. 5 : Span(n) \in Nat \ {0} /\ Span(n) <= Span(5)
  /\ LongMod \in Nat \ {0} /\ Span(5) <= LongMod \div 2
<1>1. /\ Span(1) = 1 /\ Span(2) = TVR_SIZE /\ Span(3) = TVR_SIZE * TVN_SIZE
      /\ Span(4) = TVR_SIZE * TVN_SIZE * TVN_SIZE
      /\ Span(5) = TVR_SIZE * TVN_SIZE * TVN_SIZE * TVN_SIZE
  BY DEF Span
<1>2. \A a \in Nat \ {0} : a * TVN_SIZE \in Nat \ {0} /\ a <= a * TVN_SIZE
  BY WheelAssumption
<1>3. /\ Span(2) \in Nat \ {0} /\ 1 <= Span(2)
  BY <1>1, WheelAssumption
<1>4. /\ Span(3) \in Nat \ {0} /\ Span(2) <= Span(3)
  BY <1>1, <1>2, <1>3
<1>5. /\ Span(4) \in Nat \ {0} /\ Span(3) <= Span(4)
  BY <1>1, <1>2, <1>4
<1>6. /\ Span(5) \in Nat \ {0} /\ Span(4) <= Span(5)
  BY <1>1, <1>2, <1>5
<1>7. \A n \in 1 .. 5 : n = 1 \/ n = 2 \/ n = 3 \/ n = 4 \/ n = 5
  OBVIOUS
<1>8. \A n \in 1 .. 5 : Span(n) \in Nat \ {0} /\ Span(n) <= Span(5)
  BY <1>1, <1>3, <1>4, <1>5, <1>6, <1>7
<1>9. LongMod \in Nat \ {0} /\ Span(5) <= LongMod \div 2
  BY <1>6, WheelAssumption
<1> QED
  BY <1>1, <1>8, <1>9

\* Differences of jiffies, across the wrap.
LEMMA WrapIs ==
  ASSUME NEW a \in Times, NEW b \in Times
  PROVE  /\ Wrap(a - b) = IF a >= b THEN a - b ELSE a - b + LongMod
         /\ Wrap(a + 1) = IF a = LongMod - 1 THEN 0 ELSE a + 1
         /\ Wrap(a - 1) = IF a = 0 THEN LongMod - 1 ELSE a - 1
<1>1. LongMod \in Nat \ {0}
  BY SpanFacts
<1>2. \A x \in Times, k \in {-1, 0, 1} : (x + LongMod * k) % LongMod = x
  <2> TAKE x \in Times, k \in {-1, 0, 1}
  <2>1. x + LongMod * k \in Int /\ x \in 0 .. LongMod - 1
    BY <1>1 DEF Times
  <2> QED
    BY <1>1, <2>1, DivisionIsUnique
<1>3. \A x \in Times : /\ x % LongMod = x /\ (x - LongMod) % LongMod = x
                       /\ (x + LongMod) % LongMod = x
  <2> TAKE x \in Times
  <2>1. x + LongMod * 0 = x /\ x + LongMod * (-1) = x - LongMod /\ x + LongMod * 1 = x + LongMod
    BY <1>1 DEF Times
  <2> QED
    BY <1>2, <2>1
<1> QED
  BY <1>1, <1>3 DEF Times, Wrap

\* A result of unsigned arithmetic is a time.
LEMMA WrapInTimes == \A x \in Int : Wrap(x) \in Times
BY SpanFacts DEF Wrap, Times

\* The index that a time has in a vector names one of its lists.
LEMMA IndexInRange ==
  ASSUME NEW x \in Times, NEW n \in 1 .. 5
  PROVE  /\ <<n, Index(n, x)>> \in Lists
         /\ Index(1, x) = x % TVR_SIZE
         /\ x % Span(n) \in 0 .. Span(n) - 1 /\ x % Span(n) <= x
<1>1. Span(n) \in Nat \ {0} /\ Span(1) = 1 /\ x \in Nat
  BY SpanFacts DEF Times
<1>2. x \div Span(n) \in Nat /\ x \div 1 = x
  BY <1>1
<1>3. /\ n = 1 => Index(n, x) \in 0 .. TVR_SIZE - 1
      /\ n # 1 => Index(n, x) \in 0 .. TVN_SIZE - 1
  BY <1>2, WheelAssumption DEF Index
<1>4. <<n, Index(n, x)>> \in Lists
  BY <1>3 DEF Lists
<1>5. Index(1, x) = x % TVR_SIZE
  BY <1>1, <1>2 DEF Index
<1>6. x % Span(n) \in 0 .. Span(n) - 1 /\ x % Span(n) <= x
  BY <1>1
<1> QED
  BY <1>4, <1>5, <1>6

\* The turn of the list of due: when as much is left as the rest of due in the span of
\* the list, the hand is at its first jiffy.
LEMMA TurnOfList ==
  ASSUME NEW x \in Times, NEW h \in Times, NEW n \in 1 .. 5, Wrap(x - h) = x % Span(n)
  PROVE  h % Span(n) = 0 /\ Index(n, h) = Index(n, x)
<1> DEFINE s == Span(n)
           q == x \div s
           r == x % s
<1>1. s \in Nat \ {0} /\ x \in Nat /\ x < LongMod /\ h \in Nat /\ h < LongMod /\ LongMod \in Nat
  BY SpanFacts DEF Times
<1>2. q \in Nat /\ r \in Nat /\ x = s * q + r
  <2> HIDE DEF s
  <2>1. q \in Nat /\ r \in 0 .. s - 1 /\ x = s * q + r
    BY <1>1, DivisionFacts, Zenon
  <2> QED
    BY <1>1, <2>1
<1>3. Wrap(x - h) = IF x >= h THEN x - h ELSE x - h + LongMod
  BY WrapIs
<1>4. h = s * q + 0
  <2> HIDE DEF s, q, r
  <2>1. s * q \in Nat
    BY <1>1, <1>2
  <2>2. Wrap(x - h) = r
    BY DEF s, r
  <2> QED
    BY <1>1, <1>2, <1>3, <2>1, <2>2
<1>5. h \div s = q /\ h % s = 0
  <2> HIDE DEF s, q
  <2>1. 0 \in 0 .. s - 1 /\ h \in Int /\ q \in Int
    BY <1>1, <1>2
  <2> QED
    BY <1>1, <1>4, <2>1, DivisionIsUnique
<1> QED
  BY <1>5 DEF Index

\* At the first jiffy of a list of tvn the indices of all vectors below are 0.
LEMMA LowerIndices ==
  ASSUME NEW h \in Times, NEW m \in 1 .. 5, h % Span(m) = 0
  PROVE  \A n \in 1 .. m - 1 : Index(n, h) = 0
<1>1. ASSUME NEW n \in 1 .. 4, h % Span(n + 1) = 0
      PROVE  Index(n, h) = 0 /\ h % Span(n) = 0
  <2> DEFINE s == Span(n)
             k == IF n = 1 THEN TVR_SIZE ELSE TVN_SIZE
             q == h \div (s * k)
  <2>1. Span(n + 1) = s * k
    BY WheelAssumption DEF Span
  <2>2. s \in Nat \ {0} /\ k \in Nat \ {0} /\ s * k \in Nat \ {0} /\ h \in Nat
    BY <2>1, SpanFacts, WheelAssumption DEF Times
  <2>3. q \in Nat /\ h = (s * k) * q + (h % (s * k))
    <3> HIDE DEF s, k
    <3> QED
      BY <2>2, DivisionFacts, Zenon
  <2>4. h % (s * k) = 0
    BY <1>1, <2>1, Zenon
  <2>5. h = s * (k * q) + 0 /\ k * q \in Nat /\ k * q = k * q + 0
    <3> HIDE DEF s, k, q
    <3> QED
      BY <2>2, <2>3, <2>4
  <2>6. h \div s = k * q /\ h % s = 0
    <3> HIDE DEF s, k, q
    <3>1. 0 \in 0 .. s - 1 /\ h \in Int /\ k * q \in Int
      BY <2>2, <2>5
    <3> QED
      BY <2>2, <2>5, <3>1, DivisionIsUnique, Zenon
  <2>7. (k * q) % k = 0
    <3> HIDE DEF s, k, q
    <3>1. 0 \in 0 .. k - 1 /\ q \in Int /\ k * q \in Int
      BY <2>2, <2>3, <2>5
    <3> QED
      BY <2>2, <2>5, <3>1, DivisionIsUnique, Zenon
  <2> QED
    BY <2>6, <2>7, Zenon DEF Index
<1>2. ASSUME NEW n \in 1 .. 4
      PROVE  h % Span(n + 1) = 0 => Index(n, h) = 0 /\ h % Span(n) = 0
  BY <1>1, Zenon
<1>3. /\ h % Span(5) = 0 => Index(4, h) = 0 /\ h % Span(4) = 0
      /\ h % Span(4) = 0 => Index(3, h) = 0 /\ h % Span(3) = 0
      /\ h % Span(3) = 0 => Index(2, h) = 0 /\ h % Span(2) = 0
      /\ h % Span(2) = 0 => Index(1, h) = 0
  <2>1. /\ 1 \in 1 .. 4 /\ 2 \in 1 .. 4 /\ 3 \in 1 .. 4 /\ 4 \in 1 .. 4
        /\ 1 + 1 = 2 /\ 2 + 1 = 3 /\ 3 + 1 = 4 /\ 4 + 1 = 5
    OBVIOUS
  <2> QED
    BY <1>2, <2>1, Zenon
<1>4. m = 1 \/ m = 2 \/ m = 3 \/ m = 4 \/ m = 5
  OBVIOUS
<1>5. ASSUME NEW n \in 1 .. m - 1
      PROVE  \/ n = 1 /\ m \in {2, 3, 4, 5}
             \/ n = 2 /\ m \in {3, 4, 5}
             \/ n = 3 /\ m \in {4, 5}
             \/ n = 4 /\ m = 5
  <2>1. n \in Int /\ n < m /\ (n = 1 \/ n = 2 \/ n = 3 \/ n = 4)
    OBVIOUS
  <2> QED
    BY <1>4, <2>1
<1> QED
  BY <1>3, <1>5, Zenon

\* Two jiffies on the same list of tv1 that are less than a turn of it apart are one.
LEMMA SameSlot ==
  ASSUME NEW x \in Times, NEW h \in Times, Index(1, x) = Index(1, h), Wrap(x - h) < TVR_SIZE
  PROVE  x = h
<1> DEFINE R == TVR_SIZE
           a == x \div R
           b == h \div R
           K == LongMod \div R
           c == x % R
<1>1. R \in Nat \ {0} /\ x \in Nat /\ x < LongMod /\ h \in Nat /\ h < LongMod /\ LongMod \in Nat
  BY SpanFacts, WheelAssumption DEF Times
<1>2. /\ a \in Nat /\ b \in Nat /\ K \in Nat /\ c \in Nat
      /\ x = R * a + c /\ LongMod = R * K
      /\ h = R * b + (h % R)
  BY <1>1, WheelAssumption
<1>3. h % R = c
  <2>1. 1 \in 1 .. 5
    OBVIOUS
  <2>2. Index(1, x) = x % TVR_SIZE /\ Index(1, h) = h % TVR_SIZE
    BY <2>1, IndexInRange
  <2> QED
    BY <2>2
<1>4. Wrap(x - h) = IF x >= h THEN x - h ELSE x - h + LongMod
  BY WrapIs
<1>5. Wrap(x - h) < R
  OBVIOUS
<1> HIDE DEF R, a, b, K, c
<1>6. h = R * b + c
  BY <1>2, <1>3
<1>7. CASE x >= h
  <2>1. x - h = R * (a - b) /\ x - h < R
    BY <1>1, <1>2, <1>4, <1>5, <1>6, <1>7
  <2>2. a - b >= 1 => R * (a - b) >= R
    BY <1>1, <1>2
  <2>3. a - b <= -1 => R * (a - b) <= -R
    BY <1>1, <1>2
  <2>4. a = b
    BY <1>1, <1>2, <1>7, <2>1, <2>2, <2>3
  <2> QED
    BY <1>2, <1>6, <2>4
<1>8. CASE x < h
  <2>1. x - h + LongMod = R * (a - b + K) /\ x - h + LongMod < R /\ x - h + LongMod > 0
    BY <1>1, <1>2, <1>4, <1>5, <1>6, <1>8
  <2>2. a - b + K >= 1 => R * (a - b + K) >= R
    BY <1>1, <1>2
  <2>3. a - b + K <= 0 => R * (a - b + K) <= 0
    BY <1>1, <1>2
  <2> QED
    BY <1>1, <1>2, <2>1, <2>2, <2>3
<1> QED
  BY <1>1, <1>7, <1>8

\* The list that internal_add_timer() finds for a time e, d being when it is due.
LEMMA AddTimer ==
  ASSUME NEW e \in Times, timer_jiffies \in Times, NEW d,
         d = IF time_after_eq(e, timer_jiffies) THEN e ELSE timer_jiffies
  PROVE  /\ d \in Times /\ Wrap(d - timer_jiffies) \in Nat /\ Wrap(d - timer_jiffies) < LongMod \div 2
         /\ \E n \in 1 .. 5 : /\ internal_add_timer(e) = <<n, Index(n, d)>>
                              /\ n = 1 => Wrap(d - timer_jiffies) < TVR_SIZE
                              /\ n > 1 => e = d /\ Span(n) <= Wrap(d - timer_jiffies)
<1> DEFINE idx == Wrap(e - timer_jiffies)
           fits == {n \in 1 .. 4 : idx < Span(n + 1)}
<1>1. /\ idx \in Nat /\ LongMod \div 2 \in Nat /\ LongMod \div 2 > 0 /\ TVR_SIZE > 0
      /\ Wrap(timer_jiffies - timer_jiffies) = 0
      /\ Span(2) = TVR_SIZE
      /\ \A n \in 1 .. 5 : Span(n) \in Nat /\ Span(n) <= LongMod \div 2
  <2>1. LongMod \in Nat \ {0} /\ Span(5) <= LongMod \div 2 /\ Span(5) \in Nat \ {0}
    BY SpanFacts
  <2>2. idx \in Times
    BY WrapInTimes DEF Times
  <2> QED
    BY <2>1, <2>2, WrapIs, SpanFacts, WheelAssumption DEF Times
<1>2. time_after_eq(e, timer_jiffies) <=> idx < LongMod \div 2
  BY DEF time_after_eq
<1>3. internal_add_timer(e) =
        IF fits # {} THEN LET n == CHOOSE m \in fits : \A k \in fits : m <= k IN <<n, Index(n, e)>>
        ELSE IF idx >= LongMod \div 2 THEN <<1, Index(1, timer_jiffies)>>
        ELSE <<5, Index(5, e)>>
  BY Zenon DEF internal_add_timer
<1>4. CASE fits # {}
  <2>1. \E m \in fits : \A k \in fits : m <= k
    <3>1. fits \subseteq {1, 2, 3, 4}
      OBVIOUS
    <3> HIDE DEF fits
    <3>2. CASE 1 \in fits
      BY <3>1, <3>2
    <3>3. CASE 1 \notin fits /\ 2 \in fits
      BY <3>1, <3>3
    <3>4. CASE 1 \notin fits /\ 2 \notin fits /\ 3 \in fits
      BY <3>1, <3>4
    <3>5. CASE 1 \notin fits /\ 2 \notin fits /\ 3 \notin fits
      <4>1. PICK m \in fits : m = 4
        BY <1>4, <3>1, <3>5, Zenon
      <4> QED
        BY <3>1, <3>5, <4>1
    <3> QED
      BY <3>2, <3>3, <3>4, <3>5
  <2> DEFINE n == CHOOSE m \in fits : \A k \in fits : m <= k
  <2>2. n \in fits /\ \A k \in fits : n <= k
    BY <2>1, Zenon
  <2>3. internal_add_timer(e) = <<n, Index(n, e)>>
    BY <1>3, <1>4, Zenon
  <2> HIDE DEF n
  <2>4. n \in 1 .. 4 /\ idx < Span(n + 1) /\ n + 1 \in 1 .. 5
    BY <2>2
  <2>5. idx < LongMod \div 2
    BY <1>1, <2>4
  <2>6. d = e
    BY <1>2, <2>5, Zenon
  <2>7. n = 1 => idx < TVR_SIZE
    BY <1>1, <2>4
  <2>8. n > 1 => Span(n) <= idx
    <3> SUFFICES ASSUME n > 1 PROVE Span(n) <= idx
      OBVIOUS
    <3>1. n - 1 \in 1 .. 4 /\ n - 1 \notin fits /\ (n - 1) + 1 = n
      <4> HIDE DEF fits
      <4> QED
        BY <2>2, <2>4
    <3>2. ~(idx < Span((n - 1) + 1))
      BY <3>1
    <3> QED
      BY <1>1, <2>4, <3>1, <3>2
  <2> QED
    BY <1>1, <2>3, <2>4, <2>5, <2>6, <2>7, <2>8
<1>5. CASE fits = {} /\ idx >= LongMod \div 2
  <2>1. d = timer_jiffies
    BY <1>1, <1>2, <1>5
  <2>2. internal_add_timer(e) = <<1, Index(1, d)>>
    BY <1>3, <1>5, <2>1, Zenon
  <2> QED
    BY <1>1, <2>1, <2>2, WheelAssumption
<1>6. CASE fits = {} /\ idx < LongMod \div 2
  <2>1. d = e
    BY <1>2, <1>6, Zenon
  <2>2. internal_add_timer(e) = <<5, Index(5, d)>>
    BY <1>1, <1>3, <1>6, <2>1
  <2>3. ~(idx < Span(5))
    <3>1. 4 \in 1 .. 4 /\ 4 + 1 = 5
      OBVIOUS
    <3> QED
      BY <1>6, <3>1
  <2> QED
    BY <1>1, <1>6, <2>1, <2>2, <2>3
<1> QED
  BY <1>1, <1>4, <1>5, <1>6

-----------------------------------------------------------------------------
\* The wheel that init_timers_cpu() has set up satisfies the invariant.
LEMMA WheelInitInv == WheelInit => WheelInv
<1> SUFFICES ASSUME WheelInit PROVE WheelInv
  OBVIOUS
<1>1. Wrap(-5) \in Times /\ 0 \in Times
  BY WrapInTimes, SpanFacts DEF Times
<1>2. WheelTypeOK
  BY <1>1 DEF WheelInit, WheelTypeOK, Lists
<1> QED
  BY <1>2, Zenon DEF WheelInit, WheelInv

\* A timer that is not touched, while the hand stays.
LEMMA UntouchedInv ==
  ASSUME NEW t \in Timer, UNCHANGED timer_jiffies,
         vec'[t] = vec[t], wexpires'[t] = wexpires[t], due'[t] = due[t]
  PROVE  \A n \in 1 .. 5 : OnVector(t, n) => OnVector(t, n)'
BY Zenon DEF OnVector, Left

\* __mod_timer() puts the timer where internal_add_timer() says, on time.
LEMMA ModTimerKeeps ==
  ASSUME WheelInv, NEW t \in Timer, NEW d \in Delays, wheel_mod_timer(t, d)
  PROVE  WheelInv'
<1> DEFINE e == Wrap(jiffies + d)
           D == IF time_after_eq(e, timer_jiffies) THEN e ELSE timer_jiffies
<1>1. /\ timer_jiffies \in Times /\ jiffies \in Times /\ vec \in [Timer -> Lists]
      /\ wexpires \in [Timer -> Times] /\ due \in [Timer -> Times]
  BY Zenon DEF WheelInv, WheelTypeOK
<1>2. /\ UNCHANGED <<jiffies, timer_jiffies>>
      /\ vec' = [vec EXCEPT ![t] = internal_add_timer(e)]
      /\ wexpires' = [wexpires EXCEPT ![t] = e] /\ due' = [due EXCEPT ![t] = D]
  BY Zenon DEF wheel_mod_timer
<1>3. e \in Times
  <2>1. jiffies + d \in Int
    BY <1>1, WheelAssumption, SpanFacts DEF Times
  <2> QED
    BY <2>1, WrapInTimes
<1> HIDE DEF e
<1>4. D = IF time_after_eq(e, timer_jiffies) THEN e ELSE timer_jiffies
  OBVIOUS
<1> HIDE DEF D
<1>5. /\ D \in Times /\ Wrap(D - timer_jiffies) \in Nat /\ Wrap(D - timer_jiffies) < LongMod \div 2
  BY <1>1, <1>3, <1>4, AddTimer, Zenon
<1>6. PICK n \in 1 .. 5 : /\ internal_add_timer(e) = <<n, Index(n, D)>>
                          /\ n = 1 => Wrap(D - timer_jiffies) < TVR_SIZE
                          /\ n > 1 => e = D /\ Span(n) <= Wrap(D - timer_jiffies)
  BY <1>1, <1>3, <1>4, AddTimer, Zenon
<1>7. <<n, Index(n, D)>> \in Lists
  BY <1>5, IndexInRange, Zenon
<1>8. WheelTypeOK'
  BY <1>1, <1>2, <1>3, <1>5, <1>6, <1>7, Zenon DEF WheelTypeOK
<1>9. vec'[t] = <<n, Index(n, D)>> /\ wexpires'[t] = e /\ due'[t] = D
  BY <1>1, <1>2, <1>6, Zenon
<1>10. D % Span(n) <= Wrap(D - timer_jiffies)
  <2>1. D % Span(n) \in 0 .. Span(n) - 1 /\ Span(n) \in Nat /\ Span(1) = 1
    BY <1>5, IndexInRange, SpanFacts
  <2> QED
    BY <1>5, <1>6, <2>1
<1>11. OnVector(t, n)'
  BY <1>2, <1>5, <1>6, <1>9, <1>10, Zenon DEF OnVector, Left
<1>12. ASSUME NEW u \in Timer, u # t
       PROVE  /\ vec'[u] = vec[u] /\ wexpires'[u] = wexpires[u] /\ due'[u] = due[u]
  BY <1>1, <1>2, <1>12, Zenon
<1> QED
  BY <1>2, <1>8, <1>11, <1>12, UntouchedInv, Zenon DEF WheelInv

\* del_timer(), and the loop of __run_timers() that takes a timer off its work list.
LEMMA DetachedKeeps ==
  ASSUME WheelInv, NEW t \in Timer, Detached(t)
  PROVE  WheelInv'
<1>1. /\ vec \in [Timer -> Lists] /\ wexpires \in [Timer -> Times] /\ due \in [Timer -> Times]
      /\ 0 \in Times /\ NoList \in Lists
  BY SpanFacts DEF WheelInv, WheelTypeOK, Times, Lists
<1>2. WheelTypeOK'
  BY <1>1, Zenon DEF WheelInv, WheelTypeOK, Detached
<1>3. vec'[t] = NoList
  BY <1>1, Zenon DEF Detached
<1>4. ASSUME NEW u \in Timer, u # t
      PROVE  /\ vec'[u] = vec[u] /\ wexpires'[u] = wexpires[u] /\ due'[u] = due[u]
  BY <1>1, <1>4, Zenon DEF Detached
<1> QED
  BY <1>2, <1>3, <1>4, UntouchedInv, Zenon DEF WheelInv, Detached

\* do_timer() increments jiffies, which no list depends on.
LEMMA TickKeeps == ASSUME WheelInv, tick PROVE WheelInv'
<1>1. jiffies' \in Times
  <2>1. jiffies + 1 \in Int
    BY SpanFacts DEF WheelInv, WheelTypeOK, Times
  <2> QED
    BY <2>1, WrapInTimes DEF tick
<1>2. WheelTypeOK'
  BY <1>1, Zenon DEF WheelInv, WheelTypeOK, tick
<1> QED
  BY <1>2, UntouchedInv, Zenon DEF WheelInv, tick

\* The hand moves on: a timer that is not due now stays on time.
LEMMA HandMoves ==
  ASSUME NEW x \in Times, NEW h \in Times, NEW r \in Nat, r < Wrap(x - h),
         Wrap(x - h) < LongMod \div 2
  PROVE  /\ Wrap(x - Wrap(h + 1)) = Wrap(x - h) - 1
         /\ r <= Wrap(x - Wrap(h + 1)) /\ Wrap(x - Wrap(h + 1)) < LongMod \div 2
<1>1. LongMod \in Nat \ {0} /\ x \in Nat /\ x < LongMod /\ h \in Nat /\ h < LongMod
  BY SpanFacts DEF Times
<1>2. Wrap(x - h) = IF x >= h THEN x - h ELSE x - h + LongMod
  BY WrapIs
<1> DEFINE g == Wrap(h + 1)
<1>3. g = IF h = LongMod - 1 THEN 0 ELSE h + 1
  BY WrapIs
<1>4. g \in Times
  BY <1>1, <1>3 DEF Times
<1> HIDE DEF g
<1>5. Wrap(x - g) = IF x >= g THEN x - g ELSE x - g + LongMod
  BY <1>4, WrapIs
<1>6. Wrap(x - g) = Wrap(x - h) - 1
  BY <1>1, <1>2, <1>3, <1>5
<1>7. Wrap(x - h) \in Nat /\ LongMod \div 2 \in Nat
  BY <1>1, <1>2
<1> QED
  BY <1>6, <1>7 DEF g

\* One round of __run_timers(): cascade() of the vectors whose turn it is, the hand
\* moves on, and the list of tv1 becomes the work list.  A timer due now is on that
\* list: at its due time every vector above tv1 has been cascaded down to it.
LEMMA RunRoundKeeps == ASSUME WheelInv, RunRound PROVE WheelInv'
<1> DEFINE h == timer_jiffies
           cascaded == [t \in Timer |-> IF Cascaded(vec[t]) THEN internal_add_timer(wexpires[t])
                                        ELSE vec[t]]
<1>1. /\ h \in Times /\ jiffies \in Times /\ vec \in [Timer -> Lists]
      /\ wexpires \in [Timer -> Times] /\ due \in [Timer -> Times]
  BY Zenon DEF WheelInv, WheelTypeOK
<1>2. /\ UNCHANGED <<jiffies, wexpires, due>> /\ timer_jiffies' = Wrap(h + 1)
      /\ \A t \in Timer : vec[t] # work_list
      /\ vec' = [t \in Timer |-> IF cascaded[t] = <<1, Index(1, h)>> THEN work_list ELSE cascaded[t]]
  BY Zenon DEF RunRound
<1>3. timer_jiffies' \in Times /\ Wrap(timer_jiffies' - 1) = h
  <2> DEFINE g == Wrap(h + 1)
  <2>1. g = (IF h = LongMod - 1 THEN 0 ELSE h + 1) /\ LongMod \in Nat \ {0}
    BY <1>1, WrapIs, SpanFacts
  <2>2. g \in Times
    BY <1>1, <2>1 DEF Times
  <2> HIDE DEF g
  <2>3. Wrap(g - 1) = IF g = 0 THEN LongMod - 1 ELSE g - 1
    BY <2>2, WrapIs
  <2>4. Wrap(g - 1) = h
    BY <1>1, <2>1, <2>2, <2>3 DEF Times
  <2> QED
    BY <1>2, <2>2, <2>4 DEF g
<1>4. ASSUME NEW t \in Timer, vec[t] # NoList
      PROVE  \E n \in 1 .. 5 : /\ cascaded[t] = <<n, Index(n, due[t])>>
                               /\ n = 1 => Left(t) < TVR_SIZE
                               /\ n > 1 => wexpires[t] = due[t] /\ due[t] % Span(n) < Left(t)
                               /\ Left(t) \in Nat /\ Left(t) < LongMod \div 2
  <2>1. PICK m \in 1 .. 5 : OnVector(t, m)
    BY <1>2, <1>4, Zenon DEF WheelInv
  <2>2. /\ due[t] \in Times /\ wexpires[t] \in Times
        /\ Left(t) \in Nat /\ Left(t) < LongMod \div 2
    <3>1. due[t] \in Times /\ due[t] - h \in Int
      BY <1>1, SpanFacts DEF Times
    <3>2. Left(t) \in Times
      BY <3>1, WrapInTimes DEF Left
    <3> QED
      BY <1>1, <2>1, <3>1, <3>2 DEF OnVector, Times
  <2>3. /\ Span(m) \in Nat \ {0} /\ due[t] % Span(m) \in 0 .. Span(m) - 1
        /\ due[t] % Span(m) <= Left(t)
    BY <2>1, <2>2, SpanFacts, IndexInRange DEF OnVector
  <2>4. CASE Cascaded(vec[t])
    <3>1. m > 1
      <4>1. vec[t][1] = m
        BY <2>1 DEF OnVector
      <4> QED
        BY <2>4, <4>1 DEF Cascaded
    <3>2. wexpires[t] = due[t] /\ time_after_eq(due[t], h)
      BY <2>1, <2>2, <3>1, Zenon DEF OnVector, time_after_eq, Left
    <3>3. cascaded[t] = internal_add_timer(due[t])
      BY <2>4, <3>2, Zenon
    <3>4. PICK n \in 1 .. 5 : /\ internal_add_timer(due[t]) = <<n, Index(n, due[t])>>
                              /\ n = 1 => Wrap(due[t] - h) < TVR_SIZE
                              /\ n > 1 => Span(n) <= Wrap(due[t] - h)
      BY <1>1, <2>2, <3>2, AddTimer, Zenon
    <3>5. n > 1 => due[t] % Span(n) < Left(t)
      <4>1. due[t] % Span(n) \in 0 .. Span(n) - 1 /\ Span(n) \in Nat
        BY <2>2, IndexInRange, SpanFacts
      <4>2. n > 1 => Span(n) <= Left(t)
        BY <3>4, Zenon DEF Left
      <4> QED
        BY <2>2, <4>1, <4>2
    <3>6. n = 1 => Left(t) < TVR_SIZE
      BY <3>4, Zenon DEF Left
    <3> HIDE DEF cascaded
    <3> QED
      BY <2>2, <3>2, <3>3, <3>4, <3>5, <3>6, Zenon
  <2>5. CASE ~Cascaded(vec[t])
    <3>1. cascaded[t] = vec[t]
      BY <2>5, Zenon
    <3>2. m > 1 => due[t] % Span(m) # Left(t)
      <4> SUFFICES ASSUME m > 1, due[t] % Span(m) = Left(t) PROVE FALSE
        OBVIOUS
      <4>1. h % Span(m) = 0 /\ Index(m, h) = Index(m, due[t])
        BY <1>1, <2>2, TurnOfList DEF Left
      <4>2. vec[t] # NoList /\ vec[t][1] = m /\ vec[t][2] = Index(m, h)
        BY <1>4, <2>1, <4>1 DEF OnVector
      <4>3. \A n \in 1 .. m - 1 : Index(n, h) = 0
        BY <1>1, <4>1, LowerIndices, Zenon
      <4> QED
        BY <2>5, <4>2, <4>3 DEF Cascaded
    <3>3. m > 1 => due[t] % Span(m) < Left(t)
      BY <2>2, <2>3, <3>2
    <3> HIDE DEF cascaded
    <3> QED
      BY <2>1, <2>2, <3>1, <3>3, Zenon DEF OnVector
  <2> QED
    BY <2>4, <2>5
<1>5. ASSUME NEW t \in Timer, vec[t] # NoList
      PROVE  /\ vec'[t] \in Lists
             /\ \/ vec'[t] = work_list /\ due[t] = h
                \/ \E n \in 1 .. 5 : OnVector(t, n)'
  <2>1. PICK n \in 1 .. 5 : /\ cascaded[t] = <<n, Index(n, due[t])>>
                            /\ n = 1 => Left(t) < TVR_SIZE
                            /\ n > 1 => wexpires[t] = due[t] /\ due[t] % Span(n) < Left(t)
                            /\ Left(t) \in Nat /\ Left(t) < LongMod \div 2
    BY <1>4, <1>5, Zenon
  <2>2. due[t] \in Times
    BY <1>1, Zenon
  <2>3. cascaded[t] \in Lists /\ work_list \in Lists
    BY <2>1, <2>2, IndexInRange, Zenon DEF Lists
  <2>4. vec'[t] = IF cascaded[t] = <<1, Index(1, h)>> THEN work_list ELSE cascaded[t]
    BY <1>2, Zenon
  <2> HIDE DEF cascaded
  <2>5. CASE cascaded[t] = <<1, Index(1, h)>>
    <3>1. n = 1 /\ Index(1, due[t]) = Index(1, h)
      BY <2>1, <2>5
    <3>2. due[t] = h
      BY <1>1, <2>1, <2>2, <3>1, SameSlot DEF Left
    <3> QED
      BY <2>3, <2>4, <2>5, <3>2, Zenon
  <2>6. CASE cascaded[t] # <<1, Index(1, h)>>
    <3> DEFINE r == due[t] % Span(n)
    <3>1. r \in Nat
      <4>1. r \in 0 .. Span(n) - 1 /\ Span(n) \in Nat
        BY <2>2, IndexInRange, SpanFacts
      <4> QED
        BY <4>1
    <3>2. r < Left(t)
      <4>1. CASE n > 1
        BY <2>1, <4>1, Zenon
      <4>2. CASE n = 1
        <5>1. due[t] # h
          BY <2>1, <2>6, <4>2, Zenon
        <5>2. Left(t) # 0
          <6>1. Wrap(due[t] - h) = IF due[t] >= h THEN due[t] - h ELSE due[t] - h + LongMod
            BY <1>1, <2>2, WrapIs
          <6> QED
            BY <1>1, <2>2, <5>1, <6>1, SpanFacts DEF Times, Left
        <5>3. r = 0
          <6>1. r \in 0 .. Span(n) - 1 /\ Span(n) = 1
            BY <2>2, <4>2, IndexInRange, SpanFacts
          <6> HIDE DEF r
          <6> QED
            BY <6>1
        <5> HIDE DEF r
        <5> QED
          BY <2>1, <5>2, <5>3
      <4> QED
        BY <4>1, <4>2
    <3>3. /\ Wrap(due[t] - timer_jiffies') = Left(t) - 1
          /\ r <= Wrap(due[t] - timer_jiffies') /\ Wrap(due[t] - timer_jiffies') < LongMod \div 2
      <4> HIDE DEF r
      <4> QED
        BY <1>1, <1>2, <2>1, <2>2, <3>1, <3>2, HandMoves DEF Left
    <3>4. n = 1 => Wrap(due[t] - timer_jiffies') < TVR_SIZE
      BY <2>1, <3>3, WheelAssumption
    <3>5. vec'[t] = <<n, Index(n, due[t])>>
      BY <2>1, <2>4, <2>6, Zenon
    <3>6. OnVector(t, n)'
      BY <1>2, <2>1, <3>3, <3>4, <3>5, Zenon DEF OnVector, Left
    <3> QED
      BY <2>3, <2>4, <2>6, <3>6, Zenon
  <2> QED
    BY <2>5, <2>6
<1>6. ASSUME NEW t \in Timer, vec[t] = NoList PROVE vec'[t] = NoList
  <2>1. ~Cascaded(vec[t])
    BY <1>6, Zenon DEF Cascaded
  <2>2. cascaded[t] = NoList
    BY <1>6, <2>1, Zenon
  <2>3. NoList # <<1, Index(1, h)>>
    BY DEF NoList
  <2> HIDE DEF cascaded
  <2> QED
    BY <1>2, <2>2, <2>3, Zenon
<1>7. WheelTypeOK'
  <2>1. \A t \in Timer : vec'[t] \in Lists
    BY <1>5, <1>6, Zenon DEF Lists
  <2>2. vec' \in [Timer -> Lists]
    <3>1. vec' = [t \in Timer |-> vec'[t]]
      BY <1>2, Zenon
    <3> QED
      BY <2>1, <3>1, Zenon
  <2> QED
    BY <1>1, <1>2, <1>3, <2>2, Zenon DEF WheelTypeOK
<1> QED
  BY <1>2, <1>3, <1>5, <1>6, <1>7, Zenon DEF WheelInv

\* The invariant holds in every reachable state.
LEMMA WheelInvariant == WheelSpec => []WheelInv
<1>1. WheelInv /\ [WheelNext]_wheel_vars => WheelInv'
  <2> SUFFICES ASSUME WheelInv, [WheelNext]_wheel_vars PROVE WheelInv'
    OBVIOUS
  <2>1. CASE UNCHANGED wheel_vars
    <3>1. WheelTypeOK'
      BY <2>1, Zenon DEF WheelInv, WheelTypeOK, wheel_vars
    <3> QED
      BY <2>1, <3>1, UntouchedInv, Zenon DEF WheelInv, wheel_vars
  <2>2. ASSUME NEW t \in Timer, wheel_del_timer(t) \/ RunTimer(t) PROVE WheelInv'
    BY <2>2, DetachedKeeps, Zenon DEF wheel_del_timer, RunTimer
  <2> QED
    BY <2>1, <2>2, ModTimerKeeps, TickKeeps, RunRoundKeeps, Zenon DEF WheelNext
<1> QED
  BY <1>1, WheelInitInv, PTL DEF WheelSpec

\* Whatever the sizes of the vectors, however late the softirq is, and across the wrap of
\* jiffies, __run_timers() runs a timer in the round of the jiffy it is due at.
THEOREM WheelKeepsItsTime == WheelSpec => []WheelKeepsTime
<1>1. WheelInv => WheelKeepsTime
  <2> SUFFICES ASSUME WheelInv, NEW t \in Timer, vec[t] # NoList
               PROVE  IF vec[t] = work_list THEN due[t] = Wrap(timer_jiffies - 1)
                      ELSE time_after_eq(due[t], timer_jiffies)
    BY Zenon DEF WheelKeepsTime
  <2>1. ASSUME NEW n \in 1 .. 5, OnVector(t, n)
        PROVE  vec[t] # work_list /\ time_after_eq(due[t], timer_jiffies)
    BY <2>1 DEF OnVector, Left, time_after_eq, work_list
  <2> QED
    BY <2>1, Zenon DEF WheelInv
<1> QED
  BY <1>1, WheelInvariant, PTL

-----------------------------------------------------------------------------
(***************************************************************************)
(* The ring buffer.  In both ways it is used, it is a queue of bytes.      *)
(***************************************************************************)

\* Two strings of bytes are the same when they agree at every place.
LEMMA BytesEqual ==
  ASSUME NEW x \in Seq(Byte), NEW y \in Seq(Byte), Len(x) = Len(y),
         \A k \in 1 .. Len(x) : x[k] = y[k]
  PROVE  x = y
OBVIOUS

\* What the bytes of one string followed by another are.
LEMMA ConcatBytes ==
  ASSUME NEW x \in Seq(Byte), NEW y \in Seq(Byte)
  PROVE  /\ x \o y \in Seq(Byte) /\ Len(x \o y) = Len(x) + Len(y)
         /\ \A k \in 1 .. Len(x) + Len(y) : (x \o y)[k] = IF k <= Len(x) THEN x[k] ELSE y[k - Len(x)]
OBVIOUS

-----------------------------------------------------------------------------
\* The byte of the buffer that is k bytes behind index i.
Place(i, k) == (i + k) % size

\* A copy by the lockless writer is under way: there is room for it, and what it has
\* copied is behind the bytes of the FIFO.
PutInv ==
  put.active =>
    /\ put.bytes \in Seq(Byte) /\ put.done \in 0 .. Len(put.bytes)
    /\ kfifo_len + Len(put.bytes) <= size
    /\ put.l = MinOf(Len(put.bytes), ToEnd(in))
    /\ \A k \in 1 .. put.done : buffer[Place(in, k - 1)] = put.bytes[k]

\* One by the lockless reader: it takes bytes that are in the FIFO, the first ones.
GetInv ==
  get.active =>
    /\ get.bytes \in Seq(Byte) /\ get.len \in 0 .. kfifo_len /\ Len(get.bytes) <= get.len
    /\ get.l = MinOf(get.len, ToEnd(out))
    /\ \A k \in 1 .. Len(get.bytes) : get.bytes[k] = buffer[Place(out, k - 1)]

\* The types of put and get.
PutRec == [active : BOOLEAN, bytes : Seq(Byte), done : Nat, l : Int]

GetRec == [active : BOOLEAN, bytes : Seq(Byte), len : Nat, l : Int]

\* The inductive invariant.
KfifoInv ==
  /\ buffer \in [0 .. size - 1 -> Byte] /\ in \in Uint /\ out \in Uint /\ locked \in BOOLEAN
  /\ kfifo_len \in 0 .. size
  /\ put \in PutRec /\ get \in GetRec
  /\ locked => ~put.active /\ ~get.active
  /\ PutInv /\ GetInv

-----------------------------------------------------------------------------
\* The buffer's size divides the range of the indices, which are two buffers wide at
\* least: a full FIFO and an empty one are told apart.
LEMMA KfifoFacts == /\ size \in Nat \ {0} /\ UintMod \in Nat \ {0} /\ UintMod >= 2 * size
                    /\ UintMod = size * (UintMod \div size) /\ UintMod \div size \in Nat
<1>1. size \in Nat \ {0} /\ UintMod \in Nat \ {0} /\ UintMod >= 2 * size /\ UintMod % size = 0
  BY KfifoAssumption
<1>2. UintMod \div size \in Nat /\ UintMod = size * (UintMod \div size) + (UintMod % size)
  BY <1>1, DivisionFacts, Zenon
<1>3. size * (UintMod \div size) \in Nat
  BY <1>1, <1>2
<1> QED
  BY <1>1, <1>2, <1>3

\* Unsigned wrapping of a sum, and that it moves no place of the buffer.
LEMMA UintWrap ==
  ASSUME NEW x \in Nat, x < 2 * UintMod
  PROVE  /\ x % UintMod = IF x < UintMod THEN x ELSE x - UintMod
         /\ x % UintMod \in Uint
         /\ (x % UintMod) % size = x % size
<1>1. /\ size \in Nat \ {0} /\ UintMod \in Nat \ {0}
  BY KfifoFacts
<1>2. CASE x < UintMod
  <2>1. x = UintMod * 0 + x /\ x \in 0 .. UintMod - 1 /\ x \in Int /\ 0 \in Int
    BY <1>1, <1>2
  <2>2. x % UintMod = x
    BY <1>1, <2>1, DivisionIsUnique, Zenon
  <2> QED
    BY <1>1, <1>2, <2>2 DEF Uint
<1>3. CASE x >= UintMod
  <2> DEFINE y == x - UintMod
             m == UintMod \div size
             q == y \div size
             r == y % size
  <2>1. y \in Nat /\ y \in 0 .. UintMod - 1 /\ x = UintMod * 1 + y
    BY <1>1, <1>3
  <2>2. x % UintMod = y
    <3> HIDE DEF y
    <3>1. 1 \in Int /\ x \in Int
      OBVIOUS
    <3> QED
      BY <1>1, <2>1, <3>1, DivisionIsUnique, Zenon
  <2>3. /\ q \in Nat /\ r \in 0 .. size - 1 /\ y = size * q + r
        /\ m \in Nat /\ UintMod = size * m
    <3> HIDE DEF y
    <3> QED
      BY <1>1, <2>1, DivisionFacts, KfifoFacts, Zenon
  <2>4. x = size * (q + m) + r /\ q + m \in Int /\ x \in Int
    <3>1. x = y + UintMod
      BY <1>1
    <3> HIDE DEF y, m, q, r
    <3> QED
      BY <1>1, <2>3, <3>1
  <2>5. x % size = r
    <3> HIDE DEF y, m, q, r
    <3> QED
      BY <1>1, <2>3, <2>4, DivisionIsUnique, Zenon
  <2> QED
    BY <1>1, <1>3, <2>1, <2>2, <2>5 DEF Uint
<1> QED
  BY <1>1, <1>2, <1>3

\* Every place is in the buffer.
LEMMA PlaceInBuffer == ASSUME NEW i \in Nat, NEW k \in Nat PROVE Place(i, k) \in 0 .. size - 1
BY KfifoFacts DEF Place

\* The two memcpy() of __kfifo_put() and __kfifo_get() put byte k of a copy that starts
\* at index i at the place k behind i, before the end of the buffer and from its start.
LEMMA OffsetIs ==
  ASSUME NEW i \in Nat, NEW len \in 0 .. size, NEW l, l = MinOf(len, ToEnd(i)), NEW k \in 0 .. len - 1
  PROVE  Offset(i, l, k) = Place(i, k)
<1> DEFINE q == i \div size
           r == i % size
<1>1. size \in Nat \ {0}
  BY KfifoFacts
<1>2. q \in Nat /\ r \in 0 .. size - 1 /\ i = size * q + r
  BY <1>1, DivisionFacts, Zenon
<1>3. l = MinOf(len, size - r) /\ Offset(i, l, k) = IF k < l THEN r + k ELSE k - l
  BY Zenon DEF ToEnd, Offset
<1> HIDE DEF q, r
<1>4. CASE r + k < size
  <2>1. k < l
    BY <1>1, <1>2, <1>3, <1>4 DEF MinOf
  <2>2. r + k \in 0 .. size - 1 /\ i + k = size * q + (r + k) /\ i + k \in Int /\ q \in Int
    BY <1>1, <1>2, <1>4
  <2>3. (i + k) % size = r + k
    BY <1>1, <2>2, DivisionIsUnique, Zenon
  <2> QED
    BY <1>3, <2>1, <2>3, Zenon DEF Place
<1>5. CASE r + k >= size
  <2>1. l = size - r /\ ~(k < l)
    BY <1>1, <1>2, <1>3, <1>5 DEF MinOf
  <2>2. /\ k - l \in 0 .. size - 1 /\ i + k = size * (q + 1) + (k - l)
        /\ i + k \in Int /\ q + 1 \in Int
    BY <1>1, <1>2, <1>5, <2>1
  <2>3. (i + k) % size = k - l
    BY <1>1, <2>2, DivisionIsUnique, Zenon
  <2> QED
    BY <1>3, <2>1, <2>3, Zenon DEF Place
<1> QED
  BY <1>1, <1>2, <1>4, <1>5

\* Fewer than size bytes apart, two bytes have two places.
LEMMA PlacesDiffer ==
  ASSUME NEW i \in Nat, NEW j \in 0 .. size - 1, NEW k \in 0 .. size - 1, Place(i, j) = Place(i, k)
  PROVE  j = k
<1> DEFINE x == i + j
           y == i + k
           a == x \div size
           b == y \div size
           r == x % size
<1>1. size \in Nat \ {0} /\ x \in Nat /\ y \in Nat
  BY KfifoFacts
<1>2. /\ a \in Nat /\ r \in 0 .. size - 1 /\ x = size * a + r
      /\ b \in Nat /\ y = size * b + (y % size)
  <2> HIDE DEF x, y
  <2> QED
    BY <1>1, DivisionFacts, Zenon
<1>3. y % size = r
  BY Zenon DEF Place
<1>4. j - k = x - y
  BY KfifoFacts
<1> HIDE DEF x, y, a, b, r
<1>5. y = size * b + r
  BY <1>2, <1>3
<1>6. j - k = size * (a - b) /\ j - k < size /\ k - j < size
  BY <1>1, <1>2, <1>4, <1>5
<1>7. /\ a - b >= 1 => size * (a - b) >= size
      /\ a - b <= -1 => size * (a - b) <= -size
      /\ a - b = 0 => size * (a - b) = 0
  BY <1>1, <1>2
<1> QED
  BY <1>1, <1>2, <1>6, <1>7

\* An index advanced by k bytes.
Plus(i, k) == (i + k) % UintMod

\* fifo->in += len and fifo->out += len, across the wrap.
LEMMA PlusIs ==
  ASSUME NEW i \in Uint, NEW k \in 0 .. UintMod
  PROVE  /\ Plus(i, k) \in Uint
         /\ Plus(i, k) = IF i + k < UintMod THEN i + k ELSE i + k - UintMod
         /\ \A h \in Nat : Place(Plus(i, k), h) = Place(i, k + h)
<1>1. /\ size \in Nat \ {0} /\ UintMod \in Nat \ {0} /\ i \in Nat /\ i < UintMod /\ k \in Nat
      /\ i + k \in Nat /\ i + k < 2 * UintMod
  BY KfifoFacts DEF Uint
<1>2. /\ Plus(i, k) \in Uint
      /\ Plus(i, k) = IF i + k < UintMod THEN i + k ELSE i + k - UintMod
  <2> DEFINE x == i + k
  <2>1. x \in Nat /\ x < 2 * UintMod
    BY <1>1
  <2>2. Plus(i, k) = x % UintMod
    BY Zenon DEF Plus
  <2> HIDE DEF x
  <2>3. x % UintMod \in Uint /\ x % UintMod = IF x < UintMod THEN x ELSE x - UintMod
    BY <2>1, UintWrap, Zenon
  <2>4. Plus(i, k) \in Uint /\ Plus(i, k) = IF x < UintMod THEN x ELSE x - UintMod
    BY <2>2, <2>3, Zenon
  <2>5. x = i + k
    BY DEF x
  <2> QED
    BY <1>1, <2>4, <2>5
<1>3. ASSUME NEW h \in Nat PROVE Place(Plus(i, k), h) = Place(i, k + h)
  <2>1. CASE i + k < UintMod
    <3>1. Plus(i, k) + h = i + (k + h)
      BY <1>1, <1>2, <2>1
    <3> QED
      BY <3>1, Zenon DEF Place
  <2>2. CASE ~(i + k < UintMod)
    <3> DEFINE x == i + (k + h)
               y == Plus(i, k) + h
               d == UintMod \div size
               q == y \div size
               r == y % size
    <3>1. y \in Nat /\ x = y + UintMod /\ x \in Int
      BY <1>1, <1>2, <2>2
    <3> HIDE DEF x, y
    <3>2. /\ q \in Nat /\ r \in 0 .. size - 1 /\ y = size * q + r
          /\ d \in Nat /\ UintMod = size * d
      BY <1>1, <3>1, DivisionFacts, KfifoFacts, Zenon
    <3> HIDE DEF d, q, r
    <3>3. x = size * (q + d) + r /\ q + d \in Int
      BY <1>1, <3>1, <3>2
    <3>4. x % size = r
      BY <1>1, <3>1, <3>2, <3>3, DivisionIsUnique, Zenon
    <3> QED
      BY <3>4, Zenon DEF Place, x, y, r
  <2> QED
    BY <2>1, <2>2
<1> QED
  BY <1>2, <1>3

\* __kfifo_len() and the free bytes, for indices i and o.
LenOf(i, o) == (i - o) % UintMod

FreeOf(i, o) == (size - i + o) % UintMod

\* The bytes of a buffer from index o on.
BytesFrom(b, o, n) == [k \in 1 .. n |-> b[(o + k - 1) % size]]

\* The unsigned difference of the indices is the number of bytes, wherever they have
\* wrapped, and the place k behind in is the one len + k behind out.
LEMMA LenIs ==
  ASSUME NEW i \in Uint, NEW o \in Uint
  PROVE  /\ LenOf(i, o) = IF i >= o THEN i - o ELSE i - o + UintMod
         /\ LenOf(i, o) \in Nat
         /\ LenOf(i, o) <= size => FreeOf(i, o) = size - LenOf(i, o)
         /\ \A k \in 0 .. size : LenOf(i, o) <= size => Place(i, k) = Place(o, LenOf(i, o) + k)
<1>1. /\ size \in Nat \ {0} /\ UintMod \in Nat \ {0} /\ i \in Nat /\ i < UintMod
      /\ o \in Nat /\ o < UintMod /\ UintMod >= 2 * size
  BY KfifoFacts DEF Uint
<1>2. LenOf(i, o) = IF i >= o THEN i - o ELSE i - o + UintMod
  <2>1. CASE i >= o
    <3>1. i - o \in Nat /\ i - o < UintMod /\ i - o < 2 * UintMod
      BY <1>1, <2>1
    <3> QED
      BY <2>1, <3>1, UintWrap DEF LenOf
  <2>2. CASE i < o
    <3>1. /\ i - o + UintMod \in 0 .. UintMod - 1 /\ i - o \in Int /\ -1 \in Int
          /\ i - o = UintMod * (-1) + (i - o + UintMod)
      BY <1>1, <2>2
    <3>2. (i - o) % UintMod = i - o + UintMod
      BY <1>1, <3>1, DivisionIsUnique, Zenon
    <3> QED
      BY <1>1, <2>2, <3>2 DEF LenOf
  <2> QED
    BY <1>1, <2>1, <2>2
<1>3. LenOf(i, o) \in Nat
  BY <1>1, <1>2
<1>4. ASSUME LenOf(i, o) <= size PROVE FreeOf(i, o) = size - LenOf(i, o)
  <2> DEFINE x == size - i + o
  <2>1. CASE i >= o
    <3>1. x \in Nat /\ x < UintMod /\ x < 2 * UintMod /\ x = size - LenOf(i, o)
      BY <1>1, <1>2, <1>4, <2>1
    <3> QED
      BY <3>1, UintWrap DEF FreeOf
  <2>2. CASE i < o
    <3>1. /\ x \in Nat /\ ~(x < UintMod) /\ x < 2 * UintMod /\ x - UintMod = size - LenOf(i, o)
      BY <1>1, <1>2, <1>4, <2>2
    <3> QED
      BY <3>1, UintWrap DEF FreeOf
  <2> QED
    BY <1>1, <2>1, <2>2
<1>5. ASSUME NEW k \in 0 .. size, LenOf(i, o) <= size PROVE Place(i, k) = Place(o, LenOf(i, o) + k)
  <2> DEFINE x == o + LenOf(i, o) + k
  <2>1. CASE i >= o
    <3>1. i + k = o + (LenOf(i, o) + k)
      BY <1>1, <1>2, <2>1
    <3> QED
      BY <3>1, Zenon DEF Place
  <2>2. CASE i < o
    <3> DEFINE y == i + k
               m == UintMod \div size
               q == y \div size
               r == y % size
    <3>1. /\ y \in Nat /\ o + (LenOf(i, o) + k) = y + UintMod /\ o + (LenOf(i, o) + k) \in Int
      BY <1>1, <1>2, <2>2
    <3>2. /\ q \in Nat /\ r \in 0 .. size - 1 /\ y = size * q + r
          /\ m \in Nat /\ UintMod = size * m
      <4> HIDE DEF y
      <4> QED
        BY <1>1, <3>1, DivisionFacts, KfifoFacts, Zenon
    <3>3. o + (LenOf(i, o) + k) = size * (q + m) + r /\ q + m \in Int
      <4> HIDE DEF y, m, q, r
      <4> QED
        BY <1>1, <3>1, <3>2
    <3>4. (o + (LenOf(i, o) + k)) % size = r
      <4> HIDE DEF y, m, q, r
      <4> QED
        BY <1>1, <3>1, <3>2, <3>3, DivisionIsUnique, Zenon
    <3> QED
      BY <3>4, Zenon DEF Place
  <2> QED
    BY <1>1, <2>1, <2>2
<1> QED
  BY <1>2, <1>3, <1>4, <1>5

\* The model's definitions, in the terms above.
LEMMA Renamed ==
  /\ kfifo_len = LenOf(in, out) /\ kfifo_len' = LenOf(in', out')
  /\ Free = FreeOf(in, out)
  /\ Contents = BytesFrom(buffer, out, LenOf(in, out))
  /\ Contents' = BytesFrom(buffer', out', LenOf(in', out'))
BY Zenon DEF kfifo_len, Free, Contents, LenOf, FreeOf, BytesFrom

\* BytesFrom gives bytes of the buffer, in the order of their places.
LEMMA BytesFromIs ==
  ASSUME NEW b \in [0 .. size - 1 -> Byte], NEW o \in Uint, NEW n \in Nat
  PROVE  /\ BytesFrom(b, o, n) \in Seq(Byte) /\ Len(BytesFrom(b, o, n)) = n
         /\ \A k \in 1 .. n : BytesFrom(b, o, n)[k] = b[Place(o, k - 1)]
<1>1. ASSUME NEW k \in 1 .. n
      PROVE  b[(o + k - 1) % size] \in Byte /\ b[(o + k - 1) % size] = b[Place(o, k - 1)]
  <2>1. o + k - 1 = o + (k - 1) /\ k - 1 \in Nat /\ o \in Nat
    BY KfifoFacts DEF Uint
  <2>2. (o + k - 1) % size = Place(o, k - 1)
    BY <2>1, Zenon DEF Place
  <2>3. Place(o, k - 1) \in 0 .. size - 1
    BY <2>1, PlaceInBuffer, Zenon
  <2> QED
    BY <2>2, <2>3, Zenon
<1> DEFINE f(k) == b[(o + k - 1) % size]
<1>2. BytesFrom(b, o, n) = [k \in 1 .. n |-> f(k)]
  BY Zenon DEF BytesFrom
<1>3. \A k \in 1 .. n : f(k) \in Byte /\ f(k) = b[Place(o, k - 1)]
  BY <1>1, Zenon
<1> HIDE DEF f
<1> QED
  BY <1>2, <1>3

\* A put of s, which turns buffer b into c and index i into j, appends s to the bytes.
Appended(b, c, i, o, n, s, j) ==
  /\ j \in Uint /\ LenOf(j, o) = n + Len(s)
  /\ BytesFrom(c, o, n + Len(s)) = BytesFrom(b, o, n) \o s
  /\ Len(BytesFrom(b, o, n) \o s) <= size

\* A get of g, which turns index o into j, removes the first m bytes.
Removed(b, i, o, n, m, g, j) ==
  /\ j \in Uint /\ LenOf(i, j) = n - m /\ (i = j <=> m = n)
  /\ g = SubSeq(BytesFrom(b, o, n), 1, m)
  /\ BytesFrom(b, j, n - m) = SubSeq(BytesFrom(b, o, n), m + 1, n)

\* What a put makes of the contents: b is the buffer before it, and c after it.
LEMMA PutBytes ==
  ASSUME NEW b \in [0 .. size - 1 -> Byte], NEW c \in [0 .. size - 1 -> Byte],
         NEW i \in Uint, NEW o \in Uint, NEW n, n = LenOf(i, o), NEW s \in Seq(Byte),
         n + Len(s) <= size,
         \A k \in 0 .. n - 1 : c[Place(o, k)] = b[Place(o, k)],
         \A k \in 1 .. Len(s) : c[Place(i, k - 1)] = s[k],
         NEW j, j = Plus(i, Len(s))
  PROVE  Appended(b, c, i, o, n, s, j)
<1>0. \A k \in 0 .. size : n <= size => Place(i, k) = Place(o, n + k)
  BY LenIs, Zenon
<1>1. n \in Nat /\ n = (IF i >= o THEN i - o ELSE i - o + UintMod)
  BY LenIs, Zenon
<1>2. /\ i \in Nat /\ i < UintMod /\ o \in Nat /\ o < UintMod /\ Len(s) \in Nat
      /\ size \in Nat \ {0} /\ UintMod \in Nat \ {0} /\ UintMod >= 2 * size
  BY KfifoFacts DEF Uint
<1>3. j \in Uint /\ j = IF i + Len(s) < UintMod THEN i + Len(s) ELSE i + Len(s) - UintMod
  <2>1. Len(s) \in 0 .. UintMod
    BY <1>1, <1>2
  <2> QED
    BY <2>1, PlusIs, Zenon
<1>4. LenOf(j, o) = n + Len(s)
  <2>1. LenOf(j, o) = IF j >= o THEN j - o ELSE j - o + UintMod
    BY <1>3, LenIs, Zenon
  <2> QED
    BY <1>1, <1>2, <1>3, <2>1
<1> DEFINE x == BytesFrom(c, o, n + Len(s))
           y == BytesFrom(b, o, n)
<1>5. /\ x \in Seq(Byte) /\ Len(x) = n + Len(s)
      /\ \A k \in 1 .. n + Len(s) : x[k] = c[Place(o, k - 1)]
  <2>1. n + Len(s) \in Nat
    BY <1>1, <1>2
  <2> QED
    BY <2>1, BytesFromIs, Zenon
<1>6. /\ y \in Seq(Byte) /\ Len(y) = n /\ \A k \in 1 .. n : y[k] = b[Place(o, k - 1)]
  BY <1>1, BytesFromIs, Zenon
<1> HIDE DEF x, y
<1>7. ASSUME NEW k \in 1 .. n + Len(s)
      PROVE  x[k] = IF k <= n THEN y[k] ELSE s[k - n]
  <2>1. CASE k <= n
    <3>1. k - 1 \in 0 .. n - 1 /\ k \in 1 .. n
      BY <1>1, <1>2, <2>1
    <3> QED
      BY <1>5, <1>6, <2>1, <3>1, Zenon
  <2>2. CASE ~(k <= n)
    <3>1. k - n \in 1 .. Len(s) /\ (k - n) - 1 \in 0 .. size /\ n + ((k - n) - 1) = k - 1 /\ n <= size
      BY <1>1, <1>2, <2>2
    <3>2. Place(i, (k - n) - 1) = Place(o, n + ((k - n) - 1))
      BY <1>0, <3>1, Zenon
    <3>3. Place(i, (k - n) - 1) = Place(o, k - 1)
      BY <3>1, <3>2, Zenon
    <3>4. c[Place(i, (k - n) - 1)] = s[k - n]
      BY <3>1, Zenon
    <3> QED
      BY <1>5, <2>2, <3>3, <3>4, Zenon
  <2> QED
    BY <2>1, <2>2
<1>8. x = y \o s
  <2>1. /\ y \o s \in Seq(Byte) /\ Len(y \o s) = n + Len(s)
        /\ \A k \in 1 .. n + Len(s) : (y \o s)[k] = IF k <= n THEN y[k] ELSE s[k - n]
    <3>1. /\ y \o s \in Seq(Byte) /\ Len(y \o s) = Len(y) + Len(s)
          /\ \A k \in 1 .. Len(y) + Len(s) : (y \o s)[k] = IF k <= Len(y) THEN y[k] ELSE s[k - Len(y)]
      BY <1>6, ConcatBytes
    <3> QED
      BY <1>6, <3>1, Zenon
  <2>2. \A k \in 1 .. n + Len(s) : x[k] = (y \o s)[k]
    BY <1>7, <2>1, Zenon
  <2>3. x \in Seq(Byte) /\ Len(x) = n + Len(s)
    BY <1>5, Zenon
  <2> QED
    BY <2>1, <2>2, <2>3, BytesEqual, Zenon
<1> QED
  BY <1>3, <1>4, <1>5, <1>8 DEF x, y, Appended

\* What a get of m bytes makes of them.
LEMMA GetBytes ==
  ASSUME NEW b \in [0 .. size - 1 -> Byte], NEW i \in Uint, NEW o \in Uint,
         NEW n, n = LenOf(i, o), n <= size, NEW m \in 0 .. n,
         NEW j, j = Plus(o, m),
         NEW g \in Seq(Byte), Len(g) = m, \A k \in 1 .. m : g[k] = b[Place(o, k - 1)]
  PROVE  Removed(b, i, o, n, m, g, j)
<1>1. n \in Nat /\ n = (IF i >= o THEN i - o ELSE i - o + UintMod)
  BY LenIs, Zenon
<1>2. /\ i \in Nat /\ i < UintMod /\ o \in Nat /\ o < UintMod /\ m \in Nat
      /\ size \in Nat \ {0} /\ UintMod \in Nat \ {0} /\ UintMod >= 2 * size
  BY <1>1, KfifoFacts DEF Uint
<1>3. j \in Uint /\ j = (IF o + m < UintMod THEN o + m ELSE o + m - UintMod)
  <2>1. m \in 0 .. UintMod
    BY <1>1, <1>2
  <2> QED
    BY <2>1, PlusIs, Zenon
<1>4. LenOf(i, j) = n - m /\ (i = j <=> m = n)
  <2>1. LenOf(i, j) = IF i >= j THEN i - j ELSE i - j + UintMod
    BY <1>3, LenIs, Zenon
  <2> QED
    BY <1>1, <1>2, <1>3, <2>1
<1> DEFINE x == BytesFrom(b, j, n - m)
           y == BytesFrom(b, o, n)
<1>5. /\ x \in Seq(Byte) /\ Len(x) = n - m /\ n - m \in Nat
      /\ \A k \in 1 .. n - m : x[k] = b[Place(j, k - 1)]
  <2>1. n - m \in Nat
    BY <1>1
  <2> QED
    BY <1>3, <2>1, BytesFromIs, Zenon
<1>6. /\ y \in Seq(Byte) /\ Len(y) = n /\ \A k \in 1 .. n : y[k] = b[Place(o, k - 1)]
  BY <1>1, BytesFromIs, Zenon
<1> HIDE DEF x, y
<1>7. g = SubSeq(y, 1, m)
  <2>1. /\ SubSeq(y, 1, m) \in Seq(Byte) /\ Len(SubSeq(y, 1, m)) = m
        /\ \A k \in 1 .. m : SubSeq(y, 1, m)[k] = y[k] /\ k \in 1 .. n
    <3>1. y \in Seq(Byte) /\ m \in 0 .. Len(y) /\ n = Len(y)
      BY <1>6, Zenon
    <3> QED
      BY <3>1
  <2>2. \A k \in 1 .. Len(g) : g[k] = SubSeq(y, 1, m)[k]
    BY <1>6, <2>1, Zenon
  <2> QED
    BY <2>1, <2>2, BytesEqual, Zenon
<1>8. ASSUME NEW k \in 1 .. n - m PROVE x[k] = y[m + k]
  <2>1. /\ m + k \in 1 .. n /\ k - 1 \in Nat /\ m + (k - 1) = (m + k) - 1 /\ m \in 0 .. UintMod
    BY <1>1, <1>2
  <2>2. Place(j, k - 1) = Place(o, (m + k) - 1)
    <3>1. \A h \in Nat : Place(j, h) = Place(o, m + h)
      BY <2>1, PlusIs, Zenon
    <3>2. Place(j, k - 1) = Place(o, m + (k - 1))
      BY <2>1, <3>1, Zenon
    <3> QED
      BY <2>1, <3>2, Zenon
  <2>3. x[k] = b[Place(j, k - 1)] /\ y[m + k] = b[Place(o, (m + k) - 1)]
    BY <1>5, <1>6, <2>1, Zenon
  <2> QED
    BY <2>2, <2>3, Zenon
<1>9. x = SubSeq(y, m + 1, n)
  BY <1>1, <1>2, <1>5, <1>6, <1>8
<1> QED
  BY <1>3, <1>4, <1>7, <1>9 DEF x, y, Removed

-----------------------------------------------------------------------------
\* A step of the abstract queue, or none.
Moves == Queue!Put \/ Queue!Get \/ Queue!Reset \/ UNCHANGED <<Contents, moved>>

\* What the invariant says of the indices.
LEMMA InvFacts ==
  ASSUME KfifoInv
  PROVE  /\ buffer \in [0 .. size - 1 -> Byte] /\ in \in Uint /\ out \in Uint
         /\ in \in Nat /\ out \in Nat /\ size \in Nat \ {0} /\ UintMod \in Nat \ {0}
         /\ kfifo_len \in Nat /\ kfifo_len <= size /\ Free = size - kfifo_len
         /\ kfifo_len = LenOf(in, out)
         /\ \A k \in 0 .. size : Place(in, k) = Place(out, kfifo_len + k)
<1>1. /\ buffer \in [0 .. size - 1 -> Byte] /\ in \in Uint /\ out \in Uint
      /\ kfifo_len \in 0 .. size
  BY Zenon DEF KfifoInv
<1>2. /\ size \in Nat \ {0} /\ UintMod \in Nat \ {0}
  BY KfifoFacts
<1>3. in \in Nat /\ out \in Nat /\ kfifo_len \in Nat /\ kfifo_len <= size
  BY <1>1, <1>2 DEF Uint
<1>4. kfifo_len = LenOf(in, out) /\ Free = FreeOf(in, out)
  BY Renamed, Zenon
<1>5. /\ Free = size - kfifo_len
      /\ \A k \in 0 .. size : Place(in, k) = Place(out, kfifo_len + k)
  BY <1>1, <1>3, <1>4, LenIs, Zenon
<1> QED
  BY <1>1, <1>2, <1>3, <1>4, <1>5, Zenon

\* The reader only makes room: a copy by the writer stays valid.
LEMMA PutKept ==
  ASSUME KfifoInv, UNCHANGED <<put, in, buffer>>, kfifo_len' \in Nat, kfifo_len' <= kfifo_len
  PROVE  PutInv'
<1> SUFFICES ASSUME put.active PROVE PutInv'
  BY Zenon DEF PutInv
<1>1. /\ put.bytes \in Seq(Byte) /\ put.done \in 0 .. Len(put.bytes)
      /\ put.l = MinOf(Len(put.bytes), ToEnd(in))
      /\ \A k \in 1 .. put.done : buffer[Place(in, k - 1)] = put.bytes[k]
  BY Zenon DEF KfifoInv, PutInv
<1>2. kfifo_len' + Len(put.bytes) <= size
  <2> DEFINE l == Len(put.bytes)
  <2>1. l \in Nat
    BY <1>1
  <2>2. kfifo_len + l <= size
    BY Zenon DEF KfifoInv, PutInv
  <2> HIDE DEF l
  <2>3. kfifo_len' + l <= size
    BY <2>1, <2>2, InvFacts
  <2> QED
    BY <2>3, Zenon DEF l
<1> QED
  BY <1>1, <1>2, Zenon DEF PutInv, Place, MinOf, ToEnd

\* The writer only adds bytes behind: a copy by the reader stays valid.
LEMMA GetKept ==
  ASSUME KfifoInv, UNCHANGED <<get, out>>, kfifo_len' \in Nat, kfifo_len <= kfifo_len',
         \A k \in 0 .. kfifo_len - 1 : buffer'[Place(out, k)] = buffer[Place(out, k)]
  PROVE  GetInv'
<1> SUFFICES ASSUME get.active PROVE GetInv'
  BY Zenon DEF GetInv
<1>1. /\ get.bytes \in Seq(Byte) /\ get.len \in 0 .. kfifo_len /\ Len(get.bytes) <= get.len
      /\ get.l = MinOf(get.len, ToEnd(out))
      /\ \A k \in 1 .. Len(get.bytes) : get.bytes[k] = buffer[Place(out, k - 1)]
  BY Zenon DEF KfifoInv, GetInv
<1>2. get.len \in 0 .. kfifo_len'
  BY <1>1, InvFacts
<1>3. ASSUME NEW k \in 1 .. Len(get.bytes) PROVE get.bytes[k] = buffer'[Place(out, k - 1)]
  <2>1. k - 1 \in 0 .. kfifo_len - 1
    <3> DEFINE z == Len(get.bytes)
               w == get.len
    <3>1. z \in Nat
      BY <1>1
    <3>2. z <= w /\ w \in 0 .. kfifo_len /\ k \in 1 .. z
      BY <1>1, Zenon
    <3>3. kfifo_len \in Nat
      BY InvFacts
    <3> HIDE DEF z, w
    <3> QED
      BY <3>1, <3>2, <3>3
  <2> QED
    BY <1>1, <2>1, Zenon
<1> QED
  BY <1>1, <1>2, <1>3, Zenon DEF GetInv, Place, MinOf, ToEnd

\* A step that leaves the indices and the bytes between them alone is none of the queue.
LEMMA SameBytes ==
  ASSUME KfifoInv, UNCHANGED <<in, out, moved>>, buffer' \in [0 .. size - 1 -> Byte],
         \A k \in 0 .. kfifo_len - 1 : buffer'[Place(out, k)] = buffer[Place(out, k)]
  PROVE  Moves /\ kfifo_len' = kfifo_len
<1>1. kfifo_len' = kfifo_len
  BY Zenon DEF kfifo_len
<1> DEFINE n == kfifo_len
           x == BytesFrom(buffer, out, n)
           y == BytesFrom(buffer', out, n)
<1>2. Contents = x /\ Contents' = y
  BY <1>1, Renamed, Zenon
<1>3. n \in Nat
  BY InvFacts
<1>4. /\ x \in Seq(Byte) /\ Len(x) = n /\ \A k \in 1 .. n : x[k] = buffer[Place(out, k - 1)]
      /\ y \in Seq(Byte) /\ Len(y) = n /\ \A k \in 1 .. n : y[k] = buffer'[Place(out, k - 1)]
  BY <1>3, InvFacts, BytesFromIs, Zenon
<1> HIDE DEF x, y
<1>5. ASSUME NEW k \in 1 .. n PROVE x[k] = y[k]
  <2>1. k - 1 \in 0 .. n - 1
    BY <1>3
  <2> QED
    BY <1>4, <2>1, Zenon
<1>6. x = y
  BY <1>4, <1>5, BytesEqual, Zenon
<1> QED
  BY <1>1, <1>2, <1>6, Zenon DEF Moves

\* The l of __kfifo_put() and __kfifo_get() is a number.
LEMMA ToEndType == ASSUME NEW i \in Nat, NEW n \in Nat PROVE MinOf(n, ToEnd(i)) \in Int
<1>1. i % size \in Int /\ size \in Int
  BY KfifoFacts
<1> QED
  BY <1>1 DEF MinOf, ToEnd

\* __kfifo_put() reads fifo->out: there is room for what it is about to copy.
LEMMA PutBegins ==
  ASSUME KfifoInv, NEW bytes \in BytesUpTo(MaxLen), __kfifo_put(bytes)
  PROVE  KfifoInv' /\ Moves
<1> DEFINE len == MinOf(Len(bytes), Free)
           s == SubSeq(bytes, 1, len)
<1>1. /\ ~locked /\ UNCHANGED <<buffer, in, out, locked, get, moved>>
      /\ put' = [active |-> TRUE, bytes |-> s, done |-> 0, l |-> MinOf(len, ToEnd(in))]
  BY Zenon DEF __kfifo_put
<1>2. bytes \in Seq(Byte) /\ Len(bytes) \in Nat
  BY DEF BytesUpTo
<1>3. len \in 0 .. Len(bytes) /\ kfifo_len + len <= size
  BY <1>2, InvFacts DEF MinOf
<1> HIDE DEF len
<1>4. s \in Seq(Byte) /\ Len(s) = len
  BY <1>2, <1>3
<1> HIDE DEF s
<1>5. Moves /\ kfifo_len' = kfifo_len
  BY <1>1, InvFacts, SameBytes, Zenon
<1>6. PutInv'
  <2>1. /\ put'.active = TRUE /\ put'.bytes = s /\ put'.done = 0 /\ put'.l = MinOf(len, ToEnd(in))
    BY <1>1
  <2>2. put'.done \in 0 .. Len(put'.bytes) /\ 1 .. put'.done = {} /\ Len(put'.bytes) = len
    BY <1>2, <1>3, <1>4, <2>1
  <2>3. kfifo_len' + Len(put'.bytes) <= size /\ put'.l = MinOf(Len(put'.bytes), ToEnd(in'))
    BY <1>1, <1>3, <1>5, <2>1, <2>2, Zenon
  <2> QED
    BY <1>4, <2>1, <2>2, <2>3, Zenon DEF PutInv, MinOf, ToEnd
<1>7. GetInv'
  BY <1>1, <1>5, InvFacts, GetKept
<1>8. put' \in PutRec /\ put'.active = TRUE
  <2>1. MinOf(len, ToEnd(in)) \in Int
    <3>1. len \in Nat
      BY <1>2, <1>3
    <3> QED
      BY <3>1, InvFacts, ToEndType, Zenon
  <2> QED
    BY <1>1, <1>4, <2>1 DEF PutRec
<1> QED
  BY <1>1, <1>5, <1>6, <1>7, <1>8, Zenon DEF KfifoInv

\* __kfifo_get() reads fifo->in: there are the bytes it is about to copy.
LEMMA GetBegins ==
  ASSUME KfifoInv, NEW n \in 1 .. MaxLen, __kfifo_get(n)
  PROVE  KfifoInv' /\ Moves
<1> DEFINE len == MinOf(n, kfifo_len)
<1>1. /\ ~locked /\ UNCHANGED <<buffer, in, out, locked, put, moved>>
      /\ get' = [active |-> TRUE, bytes |-> <<>>, len |-> len, l |-> MinOf(len, ToEnd(out))]
  BY Zenon DEF __kfifo_get
<1>2. len \in 0 .. kfifo_len
  BY InvFacts, KfifoAssumption DEF MinOf
<1> HIDE DEF len
<1>3. Moves /\ kfifo_len' = kfifo_len
  BY <1>1, InvFacts, SameBytes, Zenon
<1>4. GetInv'
  <2>1. /\ get'.active = TRUE /\ get'.bytes = <<>> /\ get'.len = len /\ get'.l = MinOf(len, ToEnd(out))
    BY <1>1
  <2>2. /\ get'.bytes \in Seq(Byte) /\ Len(get'.bytes) <= get'.len /\ 1 .. Len(get'.bytes) = {}
    BY <1>2, <2>1, InvFacts
  <2>3. get'.len \in 0 .. kfifo_len' /\ get'.l = MinOf(get'.len, ToEnd(out'))
    BY <1>1, <1>2, <1>3, <2>1, Zenon
  <2> QED
    BY <2>1, <2>2, <2>3, Zenon DEF GetInv, MinOf, ToEnd
<1>5. PutInv'
  <2>1. kfifo_len' \in Nat /\ kfifo_len' <= kfifo_len
    BY <1>3, InvFacts
  <2> QED
    BY <1>1, <2>1, PutKept, Zenon
<1>6. get' \in GetRec /\ get'.active = TRUE
  <2>1. len \in Nat
    BY <1>2, InvFacts
  <2>2. MinOf(len, ToEnd(out)) \in Int
    BY <2>1, InvFacts, ToEndType, Zenon
  <2> QED
    BY <1>1, <2>1, <2>2 DEF GetRec
<1> QED
  BY <1>1, <1>3, <1>4, <1>5, <1>6, Zenon DEF KfifoInv

\* The writer's memcpy() touches no byte that is in the FIFO.
LEMMA PutByteKeeps == ASSUME KfifoInv, PutByte PROVE KfifoInv' /\ Moves
<1> DEFINE d == put.done
           b == put.bytes
           n == kfifo_len
           p == Place(in, d)
<1>1. /\ put.active /\ UNCHANGED <<in, out, locked, get, moved>>
      /\ buffer' = [buffer EXCEPT ![Offset(in, put.l, d)] = b[d + 1]]
  BY Zenon DEF PutByte
<1>2. /\ b \in Seq(Byte) /\ put.l = MinOf(Len(b), ToEnd(in))
      /\ \A k \in 1 .. d : buffer[Place(in, k - 1)] = b[k]
  BY <1>1, Zenon DEF KfifoInv, PutInv
<1>3. /\ Len(b) \in 0 .. size /\ d \in 0 .. Len(b) - 1 /\ d \in Nat /\ d + 1 \in 1 .. Len(b)
      /\ n \in Nat /\ n + d \in 0 .. size - 1 /\ d \in 0 .. size /\ d \in 0 .. size - 1
      /\ n + Len(b) <= size /\ size \in Nat
  <2>1. Len(b) \in Nat
    BY <1>2
  <2>2. d < Len(b) /\ d \in 0 .. Len(b) /\ n + Len(b) <= size
    BY <1>1, Zenon DEF PutByte, KfifoInv, PutInv
  <2>3. n \in Nat /\ size \in Nat
    BY InvFacts
  <2> HIDE DEF d, b, n
  <2> QED
    BY <2>1, <2>2, <2>3
<1>4. Offset(in, put.l, d) = p
  <2>1. in \in Nat
    BY InvFacts
  <2> QED
    BY <1>2, <1>3, <2>1, OffsetIs, Zenon
<1>5. p \in 0 .. size - 1 /\ p = Place(out, n + d)
  BY <1>3, InvFacts, PlaceInBuffer, Zenon
<1>6. b[d + 1] \in Byte
  <2>1. b \in Seq(Byte) /\ d + 1 \in 1 .. Len(b)
    BY <1>2, <1>3, Zenon
  <2> HIDE DEF b, d
  <2> QED
    BY <2>1
<1> HIDE DEF p
<1>7. /\ buffer' \in [0 .. size - 1 -> Byte] /\ buffer'[p] = b[d + 1]
      /\ \A x \in 0 .. size - 1 : x # p => buffer'[x] = buffer[x]
  BY <1>1, <1>4, <1>5, <1>6, InvFacts, Zenon
<1>8. ASSUME NEW k \in 0 .. n - 1 PROVE buffer'[Place(out, k)] = buffer[Place(out, k)]
  <2>1. k \in Nat /\ k \in 0 .. size - 1 /\ k # n + d
    <3> HIDE DEF d, n, b
    <3> QED
      BY <1>3
  <2>2. Place(out, k) # p
    BY <1>3, <1>5, <2>1, InvFacts, PlacesDiffer, Zenon
  <2>3. Place(out, k) \in 0 .. size - 1
    BY <2>1, InvFacts, PlaceInBuffer, Zenon
  <2> QED
    BY <1>7, <2>2, <2>3, Zenon
<1>9. Moves /\ kfifo_len' = kfifo_len
  BY <1>1, <1>7, <1>8, SameBytes, Zenon
<1>10. GetInv'
  <2>1. kfifo_len' \in Nat /\ kfifo_len <= kfifo_len'
    BY <1>9, InvFacts
  <2> QED
    BY <1>1, <1>8, <2>1, GetKept, Zenon
<1>11. /\ put' \in PutRec
       /\ put'.active = put.active /\ put'.bytes = b /\ put'.done = d + 1 /\ put'.l = put.l
  <2>1. put \in PutRec /\ put' = [put EXCEPT !.done = d + 1]
    BY Zenon DEF KfifoInv, PutByte
  <2>2. d + 1 \in Nat
    <3> HIDE DEF d
    <3> QED
      BY <1>3
  <2> DEFINE e == d + 1
  <2> HIDE DEF e
  <2>3. put' = [put EXCEPT !.done = e] /\ e \in Nat
    BY <2>1, <2>2 DEF e
  <2>4. /\ put' \in PutRec
        /\ put'.active = put.active /\ put'.bytes = put.bytes /\ put'.done = e /\ put'.l = put.l
    BY <2>1, <2>3 DEF PutRec
  <2> QED
    BY <2>4, Zenon DEF e
<1>12. ASSUME NEW k \in 1 .. d + 1 PROVE buffer'[Place(in, k - 1)] = b[k]
  <2>1. CASE k = d + 1
    <3>1. k - 1 = d
      BY <1>3, <2>1
    <3> QED
      BY <1>7, <2>1, <3>1, Zenon DEF p
  <2>2. CASE k # d + 1
    <3>1. k \in 1 .. d /\ k - 1 \in Nat /\ k - 1 \in 0 .. size - 1 /\ k - 1 # d
      <4> HIDE DEF d, n, b
      <4> QED
        BY <1>3, <2>2
    <3>2. Place(in, k - 1) # p
      BY <1>3, <3>1, InvFacts, PlacesDiffer, Zenon DEF p
    <3>3. Place(in, k - 1) \in 0 .. size - 1
      BY <3>1, InvFacts, PlaceInBuffer, Zenon
    <3> QED
      BY <1>2, <1>7, <3>1, <3>2, <3>3, Zenon
  <2> QED
    BY <2>1, <2>2
<1>13. PutInv'
  <2>1. d + 1 \in 0 .. Len(b)
    BY <1>2, <1>3
  <2>2. in' = in /\ put'.bytes = b /\ put'.done = d + 1
    BY <1>1, <1>11, Zenon
  <2>3. put'.done \in 0 .. Len(put'.bytes) /\ put'.bytes \in Seq(Byte)
    BY <1>2, <2>1, <2>2, Zenon
  <2>4. kfifo_len' + Len(put'.bytes) <= size
    BY <1>3, <1>9, <2>2, Zenon
  <2>5. put'.l = MinOf(Len(put'.bytes), ToEnd(in'))
    BY <1>2, <1>11, <2>2, Zenon
  <2>6. \A k \in 1 .. put'.done : buffer'[Place(in', k - 1)] = put'.bytes[k]
    BY <1>12, <2>2, Zenon
  <2> QED
    BY <2>3, <2>4, <2>5, <2>6, Zenon DEF PutInv, Place, MinOf, ToEnd
<1> QED
  BY <1>1, <1>7, <1>9, <1>10, <1>11, <1>13, Zenon DEF KfifoInv

\* The new contents are those of a put of the abstract queue.
LEMMA PutMoves ==
  ASSUME KfifoInv, buffer' \in [0 .. size - 1 -> Byte], UNCHANGED out,
         NEW s \in Seq(Byte), kfifo_len + Len(s) <= size, moved' = s, in' = Plus(in, Len(s)),
         \A k \in 0 .. kfifo_len - 1 : buffer'[Place(out, k)] = buffer[Place(out, k)],
         \A k \in 1 .. Len(s) : buffer'[Place(in, k - 1)] = s[k]
  PROVE  Moves /\ in' \in Uint /\ kfifo_len' = kfifo_len + Len(s)
<1>1. /\ in' \in Uint /\ LenOf(in', out) = kfifo_len + Len(s)
      /\ BytesFrom(buffer', out, kfifo_len + Len(s)) = BytesFrom(buffer, out, kfifo_len) \o s
      /\ Len(BytesFrom(buffer, out, kfifo_len) \o s) <= size
  <2>1. /\ buffer \in [0 .. size - 1 -> Byte] /\ in \in Uint /\ out \in Uint
        /\ kfifo_len = LenOf(in, out)
    BY InvFacts, Zenon
  <2> DEFINE n == kfifo_len
             c == buffer'
             j == in'
  <2>2. /\ c \in [0 .. size - 1 -> Byte] /\ n + Len(s) <= size /\ j = Plus(in, Len(s))
        /\ n = LenOf(in, out)
    BY <2>1, Zenon
  <2>3. /\ \A k \in 0 .. n - 1 : c[Place(out, k)] = buffer[Place(out, k)]
        /\ \A k \in 1 .. Len(s) : c[Place(in, k - 1)] = s[k]
    OBVIOUS
  <2>4. Appended(buffer, c, in, out, n, s, j)
    <3> HIDE DEF n, c, j
    <3> QED
      BY <2>1, <2>2, <2>3, PutBytes, Zenon
  <2> QED
    BY <2>4, Zenon DEF Appended
<1>2. kfifo_len' = kfifo_len + Len(s)
  BY <1>1, Renamed, Zenon
<1>3. Contents' = Contents \o s /\ Len(Contents') <= size
  BY <1>1, InvFacts, Renamed, Zenon
<1> QED
  BY <1>1, <1>2, <1>3, Zenon DEF Moves, Queue!Put

\* fifo->in += len is the put of the queue.
LEMMA PutPublishKeeps == ASSUME KfifoInv, PutPublish PROVE KfifoInv' /\ Moves
<1> DEFINE b == put.bytes
           n == kfifo_len
<1>1. /\ put.active /\ put.done = Len(b) /\ UNCHANGED <<buffer, out, locked, get>>
      /\ in' = Plus(in, Len(b)) /\ put' = NoPut /\ moved' = b
  BY Zenon DEF PutPublish, Plus
<1>2. /\ b \in Seq(Byte) /\ n + Len(b) <= size
      /\ \A k \in 1 .. Len(b) : buffer[Place(in, k - 1)] = b[k]
  BY <1>1, Zenon DEF KfifoInv, PutInv
<1>3. Moves /\ in' \in Uint /\ kfifo_len' = n + Len(b)
  BY <1>1, <1>2, InvFacts, PutMoves, Zenon
<1>4. kfifo_len' \in Nat /\ kfifo_len <= kfifo_len' /\ kfifo_len' \in 0 .. size
  <2>1. Len(b) \in Nat
    BY <1>2
  <2> HIDE DEF b
  <2> QED
    BY <1>2, <1>3, <2>1, InvFacts
<1>5. GetInv'
  BY <1>1, <1>4, GetKept, Zenon
<1>6. put' \in PutRec /\ put'.active = FALSE
  BY <1>1 DEF NoPut, PutRec
<1>7. PutInv'
  BY <1>6, Zenon DEF PutInv
<1> QED
  BY <1>1, <1>3, <1>4, <1>5, <1>6, <1>7, Zenon DEF KfifoInv

\* The reader's memcpy() gets the first bytes of the FIFO in order.
LEMMA GetByteKeeps == ASSUME KfifoInv, GetByte PROVE KfifoInv' /\ Moves
<1> DEFINE g == get.bytes
           m == Len(g)
<1>1. /\ get.active /\ m < get.len /\ UNCHANGED <<buffer, in, out, locked, put, moved>>
      /\ get' = [get EXCEPT !.bytes = Append(g, buffer[Offset(out, get.l, m)])]
  BY Zenon DEF GetByte
<1>2. /\ g \in Seq(Byte) /\ get.len \in 0 .. kfifo_len
      /\ get.l = MinOf(get.len, ToEnd(out))
      /\ \A k \in 1 .. m : g[k] = buffer[Place(out, k - 1)]
  BY <1>1, Zenon DEF KfifoInv, GetInv
<1>3. m \in Nat
  BY <1>2
<1>4. m \in 0 .. get.len - 1 /\ get.len \in 0 .. size /\ m + 1 <= get.len
  <2> HIDE DEF g, m
  <2> QED
    BY <1>1, <1>2, <1>3, InvFacts
<1>5. Offset(out, get.l, m) = Place(out, m) /\ Place(out, m) \in 0 .. size - 1
  <2>1. out \in Nat
    BY InvFacts
  <2> QED
    BY <1>2, <1>3, <1>4, <2>1, OffsetIs, PlaceInBuffer, Zenon
<1> DEFINE y == buffer[Place(out, m)]
           h == Append(g, y)
<1>6. y \in Byte
  BY <1>5, InvFacts, Zenon
<1> HIDE DEF y
<1>7. /\ h \in Seq(Byte) /\ Len(h) = m + 1 /\ h[m + 1] = y
      /\ \A k \in 1 .. m : h[k] = g[k]
  BY <1>2, <1>6
<1>8. ASSUME NEW k \in 1 .. m + 1 PROVE h[k] = buffer[Place(out, k - 1)]
  <2> HIDE DEF h
  <2>1. CASE k = m + 1
    <3>1. k - 1 = m
      BY <1>3, <2>1
    <3> QED
      BY <1>7, <2>1, <3>1, Zenon DEF y
  <2>2. CASE k # m + 1
    <3>1. k \in 1 .. m
      BY <1>3, <2>2
    <3> QED
      BY <1>2, <1>7, <3>1, Zenon
  <2> QED
    BY <2>1, <2>2
<1> HIDE DEF h
<1>9. /\ get' \in GetRec
      /\ get'.active = get.active /\ get'.len = get.len /\ get'.l = get.l /\ get'.bytes = h
  <2>1. get \in GetRec
    BY Zenon DEF KfifoInv
  <2>2. get' = [get EXCEPT !.bytes = h]
    BY <1>1, <1>5, Zenon DEF h, y
  <2> QED
    BY <1>7, <2>1, <2>2 DEF GetRec
<1>10. Moves /\ kfifo_len' = kfifo_len
  BY <1>1, InvFacts, SameBytes, Zenon
<1>11. GetInv'
  <2>1. /\ get'.bytes \in Seq(Byte) /\ get'.len \in 0 .. kfifo_len' /\ Len(get'.bytes) <= get'.len
        /\ get'.l = MinOf(get'.len, ToEnd(out'))
        /\ \A k \in 1 .. Len(get'.bytes) : get'.bytes[k] = buffer'[Place(out', k - 1)]
    BY <1>1, <1>2, <1>4, <1>7, <1>8, <1>9, <1>10, Zenon
  <2> QED
    BY <2>1, Zenon DEF GetInv, Place, MinOf, ToEnd
<1>12. PutInv'
  <2>1. kfifo_len' \in Nat /\ kfifo_len' <= kfifo_len
    BY <1>10, InvFacts
  <2> QED
    BY <1>1, <2>1, PutKept, Zenon
<1> QED
  BY <1>1, <1>9, <1>10, <1>11, <1>12, Zenon DEF KfifoInv

\* An empty FIFO, wherever its indices are.
LEMMA NoBytes ==
  ASSUME NEW b \in [0 .. size - 1 -> Byte], NEW o \in Uint
  PROVE  BytesFrom(b, o, 0) = <<>> /\ LenOf(0, 0) = 0 /\ 0 \in Uint
<1>1. BytesFrom(b, o, 0) \in Seq(Byte) /\ Len(BytesFrom(b, o, 0)) = 0
  <2>1. 0 \in Nat
    OBVIOUS
  <2> QED
    BY <2>1, BytesFromIs, Zenon
<1>2. BytesFrom(b, o, 0) = <<>>
  BY <1>1
<1>3. 0 \in Uint
  BY KfifoFacts DEF Uint
<1>4. LenOf(0, 0) = IF 0 >= 0 THEN 0 - 0 ELSE 0 - 0 + UintMod
  BY <1>3, LenIs, Zenon
<1> QED
  BY <1>2, <1>3, <1>4

\* The new contents are those of a get of the abstract queue, also when kfifo_get() then
\* sets the indices of the empty FIFO back to 0.
LEMMA GetMoves ==
  ASSUME KfifoInv, UNCHANGED buffer, NEW m \in 0 .. kfifo_len, NEW g \in Seq(Byte), Len(g) = m,
         moved' = g, \A k \in 1 .. m : g[k] = buffer[Place(out, k - 1)],
         NEW w, w = Plus(out, m),
         \/ in' = in /\ out' = w
         \/ in = w /\ in' = 0 /\ out' = 0
  PROVE  Moves /\ in' \in Uint /\ out' \in Uint /\ kfifo_len' = kfifo_len - m
<1> DEFINE n == kfifo_len
           x == BytesFrom(buffer, out, n)
<1>1. /\ buffer \in [0 .. size - 1 -> Byte] /\ in \in Uint /\ out \in Uint
      /\ n = LenOf(in, out) /\ n <= size /\ n \in Nat /\ m \in 0 .. n
  BY InvFacts, Zenon
<1>2. Removed(buffer, in, out, n, m, g, w)
  <2> HIDE DEF n
  <2> QED
    BY <1>1, GetBytes, Zenon
<1>3. /\ w \in Uint /\ LenOf(in, w) = n - m /\ (in = w <=> m = n)
      /\ g = SubSeq(x, 1, m) /\ BytesFrom(buffer, w, n - m) = SubSeq(x, m + 1, n)
  BY <1>2, Zenon DEF Removed
<1>4. Contents = x /\ Len(x) = n
  BY <1>1, Renamed, BytesFromIs, Zenon
<1>5. /\ in' \in Uint /\ out' \in Uint /\ LenOf(in', out') = n - m
      /\ BytesFrom(buffer', out', n - m) = SubSeq(x, m + 1, n)
  <2>1. CASE in' = in /\ out' = w
    BY <1>1, <1>3, <2>1, Zenon
  <2>2. CASE in = w /\ in' = 0 /\ out' = 0
    <3>1. m = n /\ n - m = 0
      <4>1. m = n
        BY <1>3, <2>2, Zenon
      <4> HIDE DEF n
      <4> QED
        BY <1>1, <4>1
    <3>2. /\ LenOf(0, 0) = 0 /\ 0 \in Uint /\ BytesFrom(buffer, 0, 0) = <<>>
          /\ BytesFrom(buffer, w, 0) = <<>>
      BY <1>1, <1>3, NoBytes, Zenon
    <3> HIDE DEF n, x
    <3> QED
      BY <1>3, <2>2, <3>1, <3>2, Zenon
  <2> QED
    BY <2>1, <2>2, Zenon
<1>6. kfifo_len' = n - m /\ Contents' = SubSeq(x, m + 1, n)
  BY <1>5, Renamed, Zenon
<1>7. Queue!Get
  <2>1. m \in 0 .. Len(Contents) /\ moved' = SubSeq(Contents, 1, m)
        /\ Contents' = SubSeq(Contents, m + 1, Len(Contents))
    BY <1>1, <1>3, <1>4, <1>6, Zenon
  <2> QED
    BY <2>1, Zenon DEF Queue!Get
<1> QED
  BY <1>5, <1>6, <1>7, Zenon DEF Moves

\* fifo->out += len is the get of the queue.
LEMMA GetPublishKeeps == ASSUME KfifoInv, GetPublish PROVE KfifoInv' /\ Moves
<1> DEFINE g == get.bytes
           m == get.len
<1>1. /\ get.active /\ Len(g) = m /\ UNCHANGED <<buffer, in, locked, put>>
      /\ out' = Plus(out, m) /\ get' = NoGet /\ moved' = g
  BY Zenon DEF GetPublish, Plus
<1>2. /\ g \in Seq(Byte) /\ m \in 0 .. kfifo_len
      /\ \A k \in 1 .. m : g[k] = buffer[Place(out, k - 1)]
  BY <1>1, Zenon DEF KfifoInv, GetInv
<1> HIDE DEF g, m
<1>3. Moves /\ in' \in Uint /\ out' \in Uint /\ kfifo_len' = kfifo_len - m
  BY <1>1, <1>2, GetMoves, Zenon
<1>4. kfifo_len' \in Nat /\ kfifo_len' <= kfifo_len /\ kfifo_len' \in 0 .. size
  <2>1. kfifo_len \in Nat /\ size \in Nat /\ kfifo_len <= size
    BY InvFacts
  <2> QED
    BY <1>2, <1>3, <2>1
<1>5. PutInv'
  BY <1>1, <1>4, PutKept, Zenon
<1>6. get' \in GetRec /\ get'.active = FALSE
  BY <1>1 DEF NoGet, GetRec
<1>7. GetInv'
  BY <1>6, Zenon DEF GetInv
<1>8. buffer \in [0 .. size - 1 -> Byte] /\ locked \in BOOLEAN /\ put \in PutRec
      /\ (locked => ~put.active)
  BY Zenon DEF KfifoInv
<1> QED
  BY <1>1, <1>3, <1>4, <1>5, <1>6, <1>7, <1>8, Zenon DEF KfifoInv

\* Under fifo->lock no copy is under way between two calls.
LEMMA LockedKeeps ==
  ASSUME KfifoInv, locked, UNCHANGED <<locked, put, get>>,
         buffer' \in [0 .. size - 1 -> Byte], in' \in Uint, out' \in Uint, kfifo_len' \in 0 .. size
  PROVE  KfifoInv'
<1>1. /\ locked \in BOOLEAN /\ put \in PutRec /\ get \in GetRec /\ ~put.active /\ ~get.active
  BY Zenon DEF KfifoInv
<1>2. PutInv' /\ GetInv'
  BY <1>1, Zenon DEF PutInv, GetInv
<1> QED
  BY <1>1, <1>2, Zenon DEF KfifoInv

\* kfifo_put() under fifo->lock is a put of the queue.
LEMMA LockedPutKeeps ==
  ASSUME KfifoInv, NEW bytes \in BytesUpTo(MaxLen), kfifo_put(bytes)
  PROVE  KfifoInv' /\ Moves
<1> DEFINE n == kfifo_len
           len == MinOf(Len(bytes), Free)
           s == SubSeq(bytes, 1, len)
           l == MinOf(len, ToEnd(in))
           Hit(i) == \E k \in 0 .. len - 1 : Offset(in, l, k) = i
           new(i) == IF Hit(i) THEN bytes[(CHOOSE k \in 0 .. len - 1 : Offset(in, l, k) = i) + 1]
                     ELSE buffer[i]
<1>1. /\ locked /\ UNCHANGED <<out, locked, put, get>>
      /\ in' = Plus(in, len) /\ moved' = s
      /\ buffer' = [i \in 0 .. size - 1 |-> new(i)]
  BY Zenon DEF kfifo_put, Plus
<1>2. bytes \in Seq(Byte) /\ Len(bytes) \in Nat
  BY DEF BytesUpTo
<1>3. /\ len \in 0 .. Len(bytes) /\ n + len <= size /\ len \in 0 .. size
      /\ n \in Nat /\ size \in Nat
  BY <1>2, InvFacts DEF MinOf
<1>4. \A k \in 0 .. len - 1 : Offset(in, l, k) = Place(in, k)
  <2>1. in \in Nat
    BY InvFacts
  <2> HIDE DEF len
  <2> QED
    BY <1>3, <2>1, OffsetIs, Zenon
<1> HIDE DEF len, l, n
<1>5. s \in Seq(Byte) /\ Len(s) = len /\ \A k \in 1 .. len : s[k] = bytes[k] /\ s[k] \in Byte
  BY <1>2, <1>3
<1> HIDE DEF s
<1>6. ASSUME NEW k \in 1 .. len
      PROVE  Place(in, k - 1) \in 0 .. size - 1 /\ new(Place(in, k - 1)) = s[k]
  <2>1. k - 1 \in 0 .. len - 1 /\ k - 1 \in Nat /\ k - 1 \in 0 .. size - 1 /\ (k - 1) + 1 = k
    BY <1>3
  <2> DEFINE h == CHOOSE h \in 0 .. len - 1 : Offset(in, l, h) = Place(in, k - 1)
  <2>2. Hit(Place(in, k - 1))
    BY <1>4, <2>1, Zenon
  <2>3. h \in 0 .. len - 1 /\ Offset(in, l, h) = Place(in, k - 1)
    BY <2>2, Zenon
  <2>4. new(Place(in, k - 1)) = bytes[h + 1]
    BY <2>2, Zenon
  <2> HIDE DEF h
  <2>5. h \in 0 .. size - 1 /\ Place(in, h) = Place(in, k - 1)
    <3>1. h \in 0 .. size - 1
      BY <1>3, <2>3
    <3> QED
      BY <1>4, <2>3, <3>1, Zenon
  <2>6. h = k - 1
    BY <2>1, <2>5, InvFacts, PlacesDiffer, Zenon
  <2>7. Place(in, k - 1) \in 0 .. size - 1
    BY <2>1, InvFacts, PlaceInBuffer, Zenon
  <2> QED
    BY <1>5, <2>1, <2>4, <2>6, <2>7, Zenon
<1>7. ASSUME NEW k \in 0 .. n - 1
      PROVE  Place(out, k) \in 0 .. size - 1 /\ new(Place(out, k)) = buffer[Place(out, k)]
  <2>1. k \in Nat /\ k \in 0 .. size - 1
    BY <1>3
  <2>2. ASSUME NEW h \in 0 .. len - 1, Offset(in, l, h) = Place(out, k) PROVE FALSE
    <3>1. h \in 0 .. size /\ n + h \in 0 .. size - 1 /\ n + h # k
      BY <1>3
    <3>2. Place(in, h) = Place(out, n + h)
      BY <3>1, InvFacts, Zenon DEF n
    <3>3. Place(out, n + h) = Place(out, k)
      BY <1>4, <2>2, <3>2, Zenon
    <3>4. out \in Nat
      BY InvFacts
    <3> QED
      BY <2>1, <3>1, <3>3, <3>4, PlacesDiffer, Zenon
  <2>3. Place(out, k) \in 0 .. size - 1
    BY <2>1, InvFacts, PlaceInBuffer, Zenon
  <2> QED
    BY <2>2, <2>3, Zenon
<1>8. ASSUME NEW i \in 0 .. size - 1 PROVE new(i) \in Byte
  <2>1. CASE Hit(i)
    <3>1. PICK k \in 0 .. len - 1 : Offset(in, l, k) = i
      BY <2>1, Zenon
    <3>2. k + 1 \in 1 .. len /\ (k + 1) - 1 = k
      BY <1>3, <3>1
    <3>3. Place(in, k) = i
      BY <1>4, <3>1, Zenon
    <3>4. new(i) = s[k + 1]
      BY <1>6, <3>2, <3>3, Zenon
    <3> QED
      BY <1>5, <3>2, <3>4, Zenon
  <2>2. CASE ~Hit(i)
    <3>1. buffer \in [0 .. size - 1 -> Byte]
      BY InvFacts
    <3>2. buffer[i] \in Byte
      BY <3>1, Zenon
    <3> QED
      BY <2>2, <3>2, Zenon
  <2> QED
    BY <2>1, <2>2, Zenon
<1> HIDE DEF new
<1>9. /\ buffer' \in [0 .. size - 1 -> Byte]
      /\ \A k \in 1 .. len : buffer'[Place(in, k - 1)] = s[k]
      /\ \A k \in 0 .. n - 1 : buffer'[Place(out, k)] = buffer[Place(out, k)]
  BY <1>1, <1>6, <1>7, <1>8, Zenon
<1>10. Moves /\ in' \in Uint /\ kfifo_len' = n + len
  <2>1. Moves /\ in' \in Uint /\ kfifo_len' = kfifo_len + Len(s)
    BY <1>1, <1>3, <1>5, <1>9, PutMoves, Zenon DEF n
  <2> QED
    BY <1>5, <2>1, Zenon DEF n
<1>11. kfifo_len' \in 0 .. size /\ out' \in Uint
  <2>1. out' \in Uint
    BY <1>1, InvFacts, Zenon
  <2> QED
    BY <1>3, <1>10, <2>1
<1> QED
  BY <1>1, <1>9, <1>10, <1>11, LockedKeeps, Zenon

\* kfifo_get() under fifo->lock is a get of the queue.
LEMMA LockedGetKeeps ==
  ASSUME KfifoInv, NEW n \in 1 .. MaxLen, kfifo_get(n)
  PROVE  KfifoInv' /\ Moves
<1> DEFINE len == MinOf(n, kfifo_len)
           l == MinOf(len, ToEnd(out))
           w == Plus(out, len)
           g == [k \in 1 .. len |-> buffer[Offset(out, l, k - 1)]]
<1>1. /\ locked /\ UNCHANGED <<buffer, locked, put, get>>
      /\ moved' = g
      /\ out' = (IF in = w THEN 0 ELSE w)
      /\ in' = (IF in = w THEN 0 ELSE in)
  BY Zenon DEF kfifo_get, Plus
<1>2. len \in 0 .. kfifo_len /\ len \in 0 .. size /\ kfifo_len \in Nat /\ size \in Nat /\ len \in Nat
      /\ kfifo_len <= size
  BY InvFacts, KfifoAssumption DEF MinOf
<1>3. out \in Nat /\ buffer \in [0 .. size - 1 -> Byte]
  BY InvFacts
<1> HIDE DEF len
<1>4. ASSUME NEW k \in 1 .. len
      PROVE  /\ buffer[Offset(out, l, k - 1)] = buffer[Place(out, k - 1)]
             /\ buffer[Offset(out, l, k - 1)] \in Byte
  <2>1. k - 1 \in 0 .. len - 1 /\ k - 1 \in Nat
    BY <1>2
  <2>2. Offset(out, l, k - 1) = Place(out, k - 1)
    BY <1>2, <1>3, <2>1, OffsetIs, Zenon
  <2>3. Place(out, k - 1) \in 0 .. size - 1
    BY <1>3, <2>1, PlaceInBuffer, Zenon
  <2> QED
    BY <1>3, <2>2, <2>3, Zenon
<1> HIDE DEF l
<1>5. g \in Seq(Byte) /\ Len(g) = len /\ \A k \in 1 .. len : g[k] = buffer[Place(out, k - 1)]
  <2> DEFINE f(k) == buffer[Offset(out, l, k - 1)]
  <2>1. \A k \in 1 .. len : f(k) = buffer[Place(out, k - 1)] /\ f(k) \in Byte
    BY <1>4, Zenon
  <2>2. g = [k \in 1 .. len |-> f(k)]
    BY Zenon
  <2> HIDE DEF f, g
  <2> QED
    BY <1>2, <2>1, <2>2
<1> HIDE DEF g, w
<1>6. \/ in' = in /\ out' = w
      \/ in = w /\ in' = 0 /\ out' = 0
  BY <1>1, Zenon
<1>7. Moves /\ in' \in Uint /\ out' \in Uint /\ kfifo_len' = kfifo_len - len
  <2>1. w = Plus(out, len)
    BY Zenon DEF w
  <2> QED
    BY <1>1, <1>2, <1>5, <1>6, <2>1, GetMoves, Zenon
<1>8. kfifo_len' \in 0 .. size
  BY <1>2, <1>7
<1> QED
  BY <1>1, <1>3, <1>7, <1>8, LockedKeeps, Zenon

\* kfifo_reset() empties the queue.
LEMMA ResetKeeps == ASSUME KfifoInv, kfifo_reset PROVE KfifoInv' /\ Moves
<1>1. /\ locked /\ in' = 0 /\ out' = 0 /\ UNCHANGED <<buffer, locked, put, get, moved>>
  BY Zenon DEF kfifo_reset
<1>2. buffer \in [0 .. size - 1 -> Byte] /\ size \in Nat
  BY InvFacts
<1>3. 0 \in Uint
  BY KfifoFacts DEF Uint
<1>4. BytesFrom(buffer, 0, 0) = <<>> /\ LenOf(0, 0) = 0
  BY <1>2, <1>3, NoBytes, Zenon
<1>5. kfifo_len' = 0 /\ Contents' = <<>>
  BY <1>1, <1>4, Renamed, Zenon
<1>6. Moves
  BY <1>1, <1>5, Zenon DEF Moves, Queue!Reset
<1>7. kfifo_len' \in 0 .. size
  BY <1>2, <1>5
<1> QED
  BY <1>1, <1>2, <1>3, <1>6, <1>7, LockedKeeps, Zenon

\* The FIFO that kfifo_init() has set up is an empty queue.
LEMMA KfifoInitInv == ASSUME KfifoInit PROVE KfifoInv /\ Queue!FifoInit
<1>1. /\ buffer = [i \in 0 .. size - 1 |-> CHOOSE b \in Byte : TRUE] /\ locked \in BOOLEAN
      /\ in = 0 /\ out = 0 /\ put = NoPut /\ get = NoGet /\ moved = <<>>
  BY Zenon DEF KfifoInit
<1>2. buffer \in [0 .. size - 1 -> Byte]
  <2>1. Byte # {}
    BY KfifoAssumption
  <2>2. (CHOOSE b \in Byte : TRUE) \in Byte
    BY <2>1, Zenon
  <2> QED
    BY <1>1, <2>2, Zenon
<1>3. 0 \in Uint /\ 0 \in 0 .. size
  BY KfifoFacts DEF Uint
<1>4. BytesFrom(buffer, 0, 0) = <<>> /\ LenOf(0, 0) = 0
  BY <1>2, <1>3, NoBytes, Zenon
<1>5. kfifo_len = 0 /\ Contents = <<>>
  BY <1>1, <1>4, Renamed, Zenon
<1>6. put \in PutRec /\ get \in GetRec /\ put.active = FALSE /\ get.active = FALSE
  BY <1>1 DEF NoPut, NoGet, PutRec, GetRec
<1> QED
  BY <1>1, <1>2, <1>3, <1>5, <1>6, Zenon DEF KfifoInv, PutInv, GetInv, Queue!FifoInit

\* Every step keeps the invariant and is a step of the queue or none.
LEMMA KfifoStep == ASSUME KfifoInv, [KfifoNext]_kfifo_vars PROVE KfifoInv' /\ Moves
<1>1. CASE UNCHANGED kfifo_vars
  BY <1>1, Zenon DEF KfifoInv, PutInv, GetInv, MinOf, ToEnd, Place, kfifo_len, Contents, Moves, kfifo_vars
<1>2. CASE KfifoNext
  <2>1. ASSUME NEW bytes \in BytesUpTo(MaxLen), __kfifo_put(bytes) \/ kfifo_put(bytes)
        PROVE  KfifoInv' /\ Moves
    BY <2>1, PutBegins, LockedPutKeeps, Zenon
  <2>2. ASSUME NEW n \in 1 .. MaxLen, __kfifo_get(n) \/ kfifo_get(n)
        PROVE  KfifoInv' /\ Moves
    BY <2>2, GetBegins, LockedGetKeeps, Zenon
  <2> QED
    BY <1>2, <2>1, <2>2, PutByteKeeps, PutPublishKeeps, GetByteKeeps, GetPublishKeeps, ResetKeeps, Zenon
       DEF KfifoNext
<1> QED
  BY <1>1, <1>2

\* "With only one concurrent reader and one concurrent writer, you don't need extra
\* locking" (kernel/kfifo.c): whatever the size of the buffer and the width of the
\* indices, a FIFO used in one of the two ways is a queue, and every step of a copy, also
\* one that wraps around the buffer or the unsigned int, is a put, a get, a reset or no
\* step of that queue.
THEOREM KfifoIsAFifo == KfifoSpec => KfifoImplementsFifo
<1>1. KfifoInit => KfifoInv /\ Queue!FifoInit
  BY KfifoInitInv
<1>2. KfifoInv /\ [KfifoNext]_kfifo_vars => KfifoInv'
  BY KfifoStep
<1>3. KfifoInv /\ [KfifoNext]_kfifo_vars
      => [Queue!Put \/ Queue!Get \/ Queue!Reset]_<<Contents, moved>>
  BY KfifoStep, Zenon DEF Moves
<1> QED
  BY <1>1, <1>2, <1>3, PTL DEF KfifoSpec, KfifoImplementsFifo, Queue!FifoSpec

=============================================================================
