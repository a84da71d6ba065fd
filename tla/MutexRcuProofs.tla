--------------------------- MODULE MutexRcuProofs ---------------------------
(***************************************************************************)
(* Mutexes and RCU, on any number of CPUs and with any number of tasks and *)
(* callbacks.  First classic RCU, wherever the batch numbers wrap: a       *)
(* callback runs when the read-side sections open at its call_rcu() have   *)
(* ended, and rcu_barrier() returns when all callbacks queued before it    *)
(* have run.                                                               *)
(***************************************************************************)
EXTENDS Rcu, Mutex, WaitQueueProofs

\* The callbacks queued on c, the one to be invoked first in front.
QueueOf(c) == rdp[c].donelist \o rdp[c].curlist \o rdp[c].nxtlist

\* The CPUs that must pass through a quiescent state before h's callback may run.
WaitsFor(h) == IF h \in RcuHead THEN rcu_before[h]
               ELSE IF barrier.at = "ipi" THEN {barrier.cpu} ELSE {}

\* In rcu_start_batch(), past its test; and from the numbering of a batch to the end of
\* the rcu_start_batch() that may start it.
Starting == {"start", "cur", "restart", "recur"}
Registering == {"register", "lock", "start", "cur"}

\* Who is in rcu_start_batch() past its test holds the lock and has found no grace
\* period under way; rcu_do_batch() is called for a donelist that is not empty.
RcuLockInv == \A c \in RcuCPU : /\ tpc[c] \in Starting => rlock = c /\ rcp.completed = rcp.cur
                                /\ tpc[c] = "invoke" => rdp[c].donelist # <<>>

\* What a CPU knows of the current grace period: it has yet to notice it, watches for
\* a quiescent state of its own, has seen one and is about to clear its bit of
\* cpumask, or has cleared it.
Unaware(c) == c \in rcp.cpumask /\ rdp[c].quiescbatch # rcp.cur /\ ~rdp[c].qs_pending /\ tpc[c] # "quiet"
Watching(c) == c \in rcp.cpumask /\ rdp[c].quiescbatch = rcp.cur /\ rdp[c].qs_pending /\ tpc[c] # "quiet"
Reporting(c) == c \in rcp.cpumask /\ rdp[c].quiescbatch = rcp.cur /\ ~rdp[c].qs_pending /\ tpc[c] = "quiet"
Through(c) == c \notin rcp.cpumask /\ rdp[c].quiescbatch = rcp.cur /\ ~rdp[c].qs_pending /\ tpc[c] # "quiet"

\* A grace period is under way while cpumask is not empty, completed is at most one
\* behind cur, and every CPU is at one of the four stages.
QuietInv == /\ rcp.cpumask = {} <=> rcp.completed = rcp.cur
            /\ rcp.completed = rcp.cur \/ rcp.cur = NextBatch(rcp.completed)
            /\ \A c \in RcuCPU : Unaware(c) \/ Watching(c) \/ Reporting(c) \/ Through(c)

\* The callbacks of curlist have the number of the grace period they wait for.
Numbered(c) == rdp[c].curlist # <<>> /\ tpc[c] # "number"

\* That number is at most one away from cur: so it can never be mistaken, after a wrap,
\* for one that lies ahead or behind.  It may be one behind only where the CPU has not
\* reported in the current grace period, which keeps that one from being completed.
InBounds(c) ==
  \/ rdp[c].batch = NextBatch(rcp.cur)
  \/ rdp[c].batch = rcp.cur /\ (tpc[c] \in Registering => Unaware(c))
  \/ /\ rcp.cur = NextBatch(rdp[c].batch) /\ tpc[c] \notin Registering
     /\ Unaware(c) \/ (Watching(c) /\ tpc[c] # "check")

NumberInv == \A c \in RcuCPU : Numbered(c) => InBounds(c)

\* c has been through no quiescent state that counts for the current grace period.
Owes(c) == Unaware(c) \/ (Watching(c) /\ ~rdp[c].passed_quiesc)

\* Nobody is left to wait for when h is on donelist, or its grace period is over; and
\* while it is under way, everyone h waits for still owes a quiescent state.
Safe(c, h) ==
  /\ h \in HeadsOf(rdp[c].donelist) => WaitsFor(h) = {}
  /\ h \in HeadsOf(rdp[c].curlist) /\ Numbered(c) =>
       /\ rdp[c].batch = rcp.cur => \A b \in WaitsFor(h) : Owes(b)
       /\ rcp.cur = NextBatch(rdp[c].batch) => WaitsFor(h) = {}

\* Sections that h waits for are still open, and every queued callback is safe.
GraceInv == /\ \A h \in RcuHead : rcu_before[h] \subseteq reading
            /\ \A c \in RcuCPU, h \in AllHeads : Safe(c, h)

\* The CPUs whose callback of rcu_barrier() is queued.
Posted == {c \in RcuCPU : c \in HeadsOf(QueueOf(c))}

\* The set S has n elements.
Counts(n, S) == \E f \in [1 .. n -> S] : /\ \A i, j \in 1 .. n : f[i] = f[j] => i = j
                                         /\ \A x \in S : \E i \in 1 .. n : f[i] = x

\* The stages of rcu_barrier(): on_each_cpu() posts one callback per CPU, the count is
\* that of the callbacks still queued, and the last of them completes the barrier.
PhaseInv ==
  /\ barrier.at = "ipi" => barrier.cpu \in barrier.todo /\ Posted = RcuCPU \ barrier.todo
  /\ barrier.at # "ipi" => barrier.cpu = NoCPU /\ barrier.todo = {}
  /\ barrier.at = "out" => Posted = {} /\ barrier.covers = {}
  /\ Counts(barrier.count, Posted)
  /\ barrier.completion <=> barrier.at = "wait" /\ Posted = {}

\* A CPU queues callers' heads and its own rdp->barrier, the latter once at most.
OwnHead(c, q) == /\ \A i \in DOMAIN q : q[i] \in RcuHead \union {c}
                 /\ \A i, j \in DOMAIN q : q[i] = c /\ q[j] = c => i = j

\* h is queued on c ahead of the barrier's callback, or that is still to be posted.
Covered(h, c, q, todo) ==
  \E i \in DOMAIN q : q[i] = h /\ (c \in todo \/ \E j \in DOMAIN q : i < j /\ q[j] = c)

\* Everything that rcu_barrier() must wait for is ahead of one of its callbacks.
BarrierInv ==
  /\ PhaseInv
  /\ \A c \in RcuCPU : OwnHead(c, QueueOf(c))
  /\ \A h \in barrier.covers : \E c \in RcuCPU : Covered(h, c, QueueOf(c), barrier.todo)

\* The type of struct rcu_data.
RcuData == [quiescbatch : Batches, passed_quiesc : BOOLEAN, qs_pending : BOOLEAN,
            batch : Batches, nxtlist : Seq(AllHeads), curlist : Seq(AllHeads),
            donelist : Seq(AllHeads)]

\* A step that leaves the lists of c and their number alone.
SameLists(c) == /\ rdp'[c].nxtlist = rdp[c].nxtlist /\ rdp'[c].curlist = rdp[c].curlist
                /\ rdp'[c].donelist = rdp[c].donelist /\ rdp'[c].batch = rdp[c].batch

\* The inductive invariant of classic RCU.
RcuInv == RcuTypeOK /\ RcuLockInv /\ QuietInv /\ NumberInv /\ GraceInv /\ BarrierInv

-----------------------------------------------------------------------------
\* Batch numbers are their own remainders.
LEMMA BatchModulus == \A x \in Batches : x % BatchMod = x /\ (x + BatchMod) % BatchMod = x
BY RcuAssumption DEF Batches

\* rcp->cur++ is an increment or a wrap to 0.
LEMMA NextBatchIs == \A n \in Batches : NextBatch(n) = IF n = BatchMod - 1 THEN 0 ELSE n + 1
<1> TAKE n \in Batches
<1>1. CASE n = BatchMod - 1
  <2>1. 0 \in Batches /\ n + 1 = 0 + BatchMod
    BY <1>1, RcuAssumption DEF Batches
  <2> QED
    BY <1>1, <2>1, BatchModulus DEF NextBatch
<1>2. CASE n # BatchMod - 1
  <2>1. n + 1 \in Batches
    BY <1>2, RcuAssumption DEF Batches
  <2> QED
    BY <1>2, <2>1, BatchModulus DEF NextBatch
<1> QED
  BY <1>1, <1>2

\* Three batch numbers in a row differ, and incrementing loses nothing.
LEMMA BatchesDiffer ==
  ASSUME NEW n \in Batches, NEW m \in Batches
  PROVE  /\ NextBatch(n) \in Batches
         /\ NextBatch(n) # n /\ NextBatch(NextBatch(n)) # n
         /\ NextBatch(n) = NextBatch(m) => n = m
<1>1. /\ NextBatch(n) = IF n = BatchMod - 1 THEN 0 ELSE n + 1
      /\ NextBatch(m) = IF m = BatchMod - 1 THEN 0 ELSE m + 1
  BY NextBatchIs
<1>2. NextBatch(n) \in Batches
  BY <1>1, RcuAssumption DEF Batches
<1>3. NextBatch(NextBatch(n)) = IF NextBatch(n) = BatchMod - 1 THEN 0 ELSE NextBatch(n) + 1
  BY <1>2, NextBatchIs
<1> QED
  BY <1>1, <1>2, <1>3, RcuAssumption DEF Batches

\* rcu_batch_before() orders a number and the two after it, across the wrap.
LEMMA BatchOrder ==
  ASSUME NEW n \in Batches
  PROVE  /\ ~rcu_batch_before(n, n)
         /\ rcu_batch_before(n, NextBatch(n))
         /\ rcu_batch_before(n, NextBatch(NextBatch(n)))
<1> DEFINE a == NextBatch(n)
           b == NextBatch(a)
<1>1. a \in Batches /\ a = (IF n = BatchMod - 1 THEN 0 ELSE n + 1)
  BY BatchesDiffer, NextBatchIs
<1>2. b \in Batches /\ b = (IF a = BatchMod - 1 THEN 0 ELSE a + 1)
  BY <1>1, BatchesDiffer, NextBatchIs
<1> HIDE DEF a, b
<1>3. (n - n + BatchMod) % BatchMod = 0
  <2>1. 0 \in Batches /\ n - n + BatchMod = 0 + BatchMod
    BY RcuAssumption DEF Batches
  <2> QED
    BY <2>1, BatchModulus
<1>4. (n - a + BatchMod) % BatchMod = BatchMod - 1
  <2>1. BatchMod - 1 \in Batches
    BY RcuAssumption DEF Batches
  <2>2. \/ n - a + BatchMod = BatchMod - 1 \/ n - a + BatchMod = (BatchMod - 1) + BatchMod
    BY <1>1, RcuAssumption DEF Batches
  <2> QED
    BY <2>1, <2>2, BatchModulus
<1>5. (n - b + BatchMod) % BatchMod = BatchMod - 2
  <2>1. BatchMod - 2 \in Batches
    BY RcuAssumption DEF Batches
  <2>2. \/ n - b + BatchMod = BatchMod - 2 \/ n - b + BatchMod = (BatchMod - 2) + BatchMod
    BY <1>1, <1>2, RcuAssumption DEF Batches
  <2> QED
    BY <2>1, <2>2, BatchModulus
<1>6. 0 < BatchMod \div 2 /\ BatchMod - 2 >= BatchMod \div 2
  BY RcuAssumption
<1> QED
  BY <1>3, <1>4, <1>5, <1>6, RcuAssumption DEF rcu_batch_before, a, b

-----------------------------------------------------------------------------
\* What is on a list after *rdp->nxttail = head.
LEMMA HeadsOfAppend ==
  ASSUME NEW s \in Seq(AllHeads), NEW h \in AllHeads
  PROVE  HeadsOf(Append(s, h)) = HeadsOf(s) \union {h}
<1>1. \A x \in HeadsOf(s) \union {h} : x \in HeadsOf(Append(s, h))
  <2>1. Append(s, h)[Len(s) + 1] = h /\ Len(s) + 1 \in DOMAIN Append(s, h)
    OBVIOUS
  <2>2. \A i \in DOMAIN s : i \in DOMAIN Append(s, h) /\ Append(s, h)[i] = s[i]
    OBVIOUS
  <2> QED
    BY <2>1, <2>2, Zenon DEF HeadsOf
<1>2. \A x \in HeadsOf(Append(s, h)) : x \in HeadsOf(s) \union {h}
  <2>1. \A i \in DOMAIN Append(s, h) : \/ Append(s, h)[i] = h
                                       \/ i \in DOMAIN s /\ Append(s, h)[i] = s[i]
    OBVIOUS
  <2> QED
    BY <2>1, Zenon DEF HeadsOf
<1> QED
  BY <1>1, <1>2, Zenon

\* What is on a list after another has been appended to it.
LEMMA HeadsOfConcat ==
  ASSUME NEW s \in Seq(AllHeads), NEW t \in Seq(AllHeads)
  PROVE  HeadsOf(s \o t) = HeadsOf(s) \union HeadsOf(t)
<1>1. \A x \in HeadsOf(s) \union HeadsOf(t) : x \in HeadsOf(s \o t)
  <2>1. \A i \in DOMAIN s : i \in DOMAIN (s \o t) /\ (s \o t)[i] = s[i]
    OBVIOUS
  <2>2. \A i \in DOMAIN t : Len(s) + i \in DOMAIN (s \o t) /\ (s \o t)[Len(s) + i] = t[i]
    OBVIOUS
  <2> QED
    BY <2>1, <2>2, Zenon DEF HeadsOf
<1>2. \A x \in HeadsOf(s \o t) : x \in HeadsOf(s) \union HeadsOf(t)
  <2>1. \A i \in DOMAIN (s \o t) : \/ i \in DOMAIN s /\ (s \o t)[i] = s[i]
                                   \/ i - Len(s) \in DOMAIN t /\ (s \o t)[i] = t[i - Len(s)]
    OBVIOUS
  <2> QED
    BY <2>1, Zenon DEF HeadsOf
<1> QED
  BY <1>1, <1>2, Zenon

\* What is on a list after its first element has been taken off.
LEMMA HeadsOfTail ==
  ASSUME NEW s \in Seq(AllHeads), s # <<>>
  PROVE  Head(s) \in HeadsOf(s) /\ HeadsOf(s) = {Head(s)} \union HeadsOf(Tail(s))
<1>1. 1 \in DOMAIN s /\ s[1] = Head(s)
  OBVIOUS
<1>2. \A i \in DOMAIN Tail(s) : i + 1 \in DOMAIN s /\ Tail(s)[i] = s[i + 1]
  OBVIOUS
<1>3. \A i \in DOMAIN s : i = 1 \/ (i - 1 \in DOMAIN Tail(s) /\ Tail(s)[i - 1] = s[i])
  OBVIOUS
<1>4. \A x \in {Head(s)} \union HeadsOf(Tail(s)) : x \in HeadsOf(s)
  BY <1>1, <1>2, ZenonT(40) DEF HeadsOf
<1>5. \A x \in HeadsOf(s) : x \in {Head(s)} \union HeadsOf(Tail(s))
  <2> TAKE x \in HeadsOf(s)
  <2>1. PICK i \in DOMAIN s : x = s[i]
    BY Zenon DEF HeadsOf
  <2>2. CASE i = 1
    BY <1>1, <2>1, <2>2, Zenon
  <2>3. CASE i # 1
    BY <1>3, <2>1, <2>3, Zenon DEF HeadsOf
  <2> QED
    BY <2>2, <2>3
<1> QED
  BY <1>1, <1>4, <1>5, Zenon DEF HeadsOf

-----------------------------------------------------------------------------
\* Steps that change no queue and no variable of rcu_barrier() keep its invariant.
LEMMA BarrierFrame ==
  ASSUME BarrierInv, UNCHANGED barrier, \A k \in RcuCPU : QueueOf(k)' = QueueOf(k)
  PROVE  BarrierInv'
<1>1. Posted' = Posted
  BY Zenon DEF Posted, HeadsOf
<1> QED
  <2>1. PhaseInv'
    BY <1>1, Zenon DEF BarrierInv, PhaseInv
  <2>2. \A k \in RcuCPU : OwnHead(k, QueueOf(k))'
    BY Zenon DEF BarrierInv, OwnHead
  <2>3. \A h \in barrier.covers : \A k \in RcuCPU : Covered(h, k, QueueOf(k), barrier.todo)
                                                     => Covered(h, k, QueueOf(k), barrier.todo)' 
    BY Zenon DEF Covered
  <2> QED
    BY <2>1, <2>2, <2>3, Zenon DEF BarrierInv

\* A callback waits for CPUs, and each of them is reading or is inside on_each_cpu().
LEMMA WaitsForReaders ==
  ASSUME RcuInv, NEW h \in AllHeads
  PROVE  /\ WaitsFor(h) \subseteq RcuCPU
         /\ \A b \in WaitsFor(h) : b \in reading \/ b = barrier.cpu
<1>1. barrier.todo \subseteq RcuCPU /\ \A r \in RcuHead : rcu_before[r] \subseteq RcuCPU
  BY DEF RcuInv, RcuTypeOK
<1> QED
  BY <1>1, Zenon DEF RcuInv, WaitsFor, GraceInv, BarrierInv, PhaseInv

\* The three lists of a CPU hold what its queue holds.
LEMMA ListedHeads ==
  ASSUME RcuInv, NEW k \in RcuCPU
  PROVE  /\ HeadsOf(rdp[k].curlist) \subseteq AllHeads
         /\ HeadsOf(rdp[k].donelist) \subseteq AllHeads
         /\ HeadsOf(rdp[k].nxtlist) \subseteq AllHeads
         /\ HeadsOf(QueueOf(k)) = QueuedOn(k)
<1>1. /\ rdp[k].curlist \in Seq(AllHeads) /\ rdp[k].donelist \in Seq(AllHeads)
      /\ rdp[k].nxtlist \in Seq(AllHeads)
      /\ rdp[k].donelist \o rdp[k].curlist \in Seq(AllHeads)
  BY DEF RcuInv, RcuTypeOK
<1>2. /\ HeadsOf(rdp[k].donelist \o rdp[k].curlist)
           = HeadsOf(rdp[k].donelist) \union HeadsOf(rdp[k].curlist)
      /\ HeadsOf((rdp[k].donelist \o rdp[k].curlist) \o rdp[k].nxtlist)
           = HeadsOf(rdp[k].donelist \o rdp[k].curlist) \union HeadsOf(rdp[k].nxtlist)
  BY <1>1, HeadsOfConcat, Zenon
<1>3. HeadsOf(QueueOf(k)) = QueuedOn(k)
  BY <1>2, Zenon DEF QueueOf, QueuedOn
<1>4. \A s \in Seq(AllHeads) : HeadsOf(s) \subseteq AllHeads
  BY DEF HeadsOf
<1> QED
  BY <1>1, <1>3, <1>4

\* Callbacks stay safe in a step that moves none of them towards donelist and lets no
\* CPU through.
LEMMA GraceFrame ==
  ASSUME RcuInv, rcp'.cur = rcp.cur,
         \A k \in RcuCPU : /\ rdp'[k].batch = rdp[k].batch /\ rdp'[k].curlist = rdp[k].curlist
                           /\ HeadsOf(rdp'[k].donelist) \subseteq HeadsOf(rdp[k].donelist)
                           /\ Numbered(k)' => Numbered(k),
         \A h \in RcuHead : rcu_before'[h] \subseteq reading',
         \A k \in RcuCPU : \A h \in HeadsOf(rdp[k].curlist) \union HeadsOf(rdp[k].donelist) :
            WaitsFor(h)' \subseteq WaitsFor(h) /\ \A b \in WaitsFor(h)' : Owes(b) => Owes(b)'
  PROVE  GraceInv'
<1> SUFFICES ASSUME NEW k \in RcuCPU, NEW h \in AllHeads PROVE Safe(k, h)'
  BY Zenon DEF GraceInv
<1>1. Safe(k, h)
  BY Zenon DEF RcuInv, GraceInv
<1>2. h \in HeadsOf(rdp'[k].donelist) => WaitsFor(h)' = {}
  BY <1>1, Zenon DEF Safe
<1>3. ASSUME h \in HeadsOf(rdp'[k].curlist), Numbered(k)'
      PROVE  /\ rdp'[k].batch = rcp'.cur => \A b \in WaitsFor(h)' : Owes(b)'
             /\ rcp'.cur = NextBatch(rdp'[k].batch) => WaitsFor(h)' = {}
  BY <1>1, <1>3, Zenon DEF Safe
<1> QED
  BY <1>2, <1>3, Zenon DEF Safe, HeadsOf, NextBatch

\* A CPU that goes to a place outside rcu_start_batch() keeps RcuLockInv.
LEMMA LockFrame ==
  ASSUME RcuLockInv, NEW c \in RcuCPU, UNCHANGED rlock,
         rcp'.cur = rcp.cur /\ rcp'.completed = rcp.completed,
         \A k \in RcuCPU \ {c} : tpc'[k] = tpc[k] /\ rdp'[k].donelist = rdp[k].donelist,
         tpc'[c] \notin Starting,
         tpc'[c] = "invoke" => rdp'[c].donelist # <<>>
  PROVE  RcuLockInv'
BY Zenon DEF RcuLockInv

\* Steps of the tasklet that only change its place, the lock and next_pending.
LEMMA TaskletMoves ==
  ASSUME RcuInv, NEW c \in RcuCPU, NEW l \in TaskletLabels \ {"number", "quiet"},
         tpc[c] \notin {"number", "quiet"}, tpc' = [tpc EXCEPT ![c] = l],
         l \in Registering \union {"check"} => tpc[c] \in Registering,
         UNCHANGED <<rdp, reading, rcu_before, barrier>>,
         NEW np \in BOOLEAN, rcp' = [rcp EXCEPT !.next_pending = np],
         rlock' \in RcuCPU \union {NoCPU}, RcuLockInv'
  PROVE  RcuInv'
<1> USE DEF RcuInv
<1>1. /\ rcp'.cur = rcp.cur /\ rcp'.completed = rcp.completed /\ rcp'.cpumask = rcp.cpumask
      /\ rcp' \in [cur : Batches, completed : Batches, next_pending : BOOLEAN, cpumask : SUBSET RcuCPU]
  BY DEF RcuTypeOK
<1>2. \A k \in RcuCPU : tpc'[k] = IF k = c THEN l ELSE tpc[k]
  BY Zenon DEF RcuTypeOK
<1>3. RcuTypeOK'
  BY <1>1, Zenon DEF RcuTypeOK
<1>4. \A k \in RcuCPU : /\ Unaware(k)' <=> Unaware(k)
                        /\ Watching(k)' <=> Watching(k)
                        /\ Reporting(k)' <=> Reporting(k)
                        /\ Through(k)' <=> Through(k)
                        /\ Numbered(k)' <=> Numbered(k)
  BY <1>1, <1>2, Zenon DEF Unaware, Watching, Reporting, Through, Numbered
<1>5. QuietInv'
  BY <1>1, <1>4, Zenon DEF QuietInv, NextBatch
<1>6. NumberInv'
  <2> SUFFICES ASSUME NEW k \in RcuCPU, Numbered(k)' PROVE InBounds(k)'
    BY Zenon DEF NumberInv
  <2>1. InBounds(k)
    BY <1>4, Zenon DEF NumberInv
  <2> QED
    BY <1>1, <1>2, <1>4, <2>1, Zenon DEF InBounds, NextBatch
<1>7. GraceInv'
  <2>1. \A k \in RcuCPU : Owes(k)' <=> Owes(k)
    BY <1>4, Zenon DEF Owes
  <2>2. \A h \in AllHeads : WaitsFor(h)' = WaitsFor(h) /\ WaitsFor(h) \subseteq RcuCPU
    BY WaitsForReaders, Zenon DEF WaitsFor
  <2> QED
    <3>1. \A h \in RcuHead : rcu_before'[h] \subseteq reading'
      BY Zenon DEF GraceInv
    <3> SUFFICES ASSUME NEW k \in RcuCPU, NEW h \in AllHeads
                 PROVE  Safe(k, h)'
      BY <3>1, Zenon DEF GraceInv
    <3>2. Safe(k, h)
      BY Zenon DEF GraceInv
    <3> QED
      BY <1>1, <1>4, <2>1, <2>2, <3>2, Zenon DEF Safe, NextBatch, HeadsOf
<1>8. BarrierInv'
  BY BarrierFrame, Zenon DEF QueueOf
<1> QED
  BY <1>3, <1>5, <1>6, <1>7, <1>8, Zenon

\* The test of next_pending, without rcp->lock.
LEMMA TestPendingInv == ASSUME RcuInv, NEW c \in RcuCPU, TestPending(c) PROVE RcuInv'
<1>1. RcuLockInv'
  BY SMT DEF RcuInv, RcuLockInv, TestPending, TGoto, Starting, RcuTypeOK
<1>2. PICK l \in {"check", "lock"} : tpc' = [tpc EXCEPT ![c] = l]
  BY Zenon DEF TestPending, TGoto
<1>3. rcp' = [rcp EXCEPT !.next_pending = rcp.next_pending] /\ rcp.next_pending \in BOOLEAN
  BY DEF RcuInv, RcuTypeOK, TestPending
<1> QED
  BY <1>1, <1>2, <1>3, TaskletMoves, Zenon DEF TestPending, Registering, TaskletLabels, RcuInv, RcuTypeOK

\* Taking rcp->lock, setting next_pending, and the test of rcu_start_batch().
LEMMA RegisterBatchInv == ASSUME RcuInv, NEW c \in RcuCPU, RegisterBatch(c) PROVE RcuInv'
<1>1. RcuLockInv'
  <2>1. rcp'.completed = rcp.completed /\ rcp'.cur = rcp.cur
    BY DEF RcuInv, RcuTypeOK, RegisterBatch
  <2>2. \A k \in RcuCPU \ {c} : tpc'[k] = tpc[k] /\ tpc[k] \notin Starting
    BY RcuAssumption, Zenon DEF RcuInv, RcuTypeOK, RcuLockInv, RegisterBatch, TGoto
  <2>3. \/ tpc'[c] = "start" /\ rlock' = c /\ rcp.completed = rcp.cur
        \/ tpc'[c] = "check"
    BY Zenon DEF RcuInv, RcuTypeOK, RegisterBatch, TGoto
  <2> QED
    BY <2>1, <2>2, <2>3, Zenon DEF RcuInv, RcuLockInv, RegisterBatch, Starting
<1>2. PICK l \in {"check", "start"} : tpc' = [tpc EXCEPT ![c] = l]
  BY Zenon DEF RegisterBatch, TGoto
<1>3. rlock' \in RcuCPU \union {NoCPU}
  BY Zenon DEF RegisterBatch, RcuInv, RcuTypeOK
<1> QED
  BY <1>1, <1>2, <1>3, TaskletMoves, Zenon DEF RegisterBatch, Registering, TaskletLabels

\* rcu_start_batch() clears next_pending before rcp->cur++.
LEMMA StartBatchInv ==
  ASSUME RcuInv, NEW c \in RcuCPU, StartBatch(c, "start", "cur") \/ StartBatch(c, "restart", "recur")
  PROVE  RcuInv'
<1>1. RcuLockInv'
  <2>1. rcp'.completed = rcp.completed /\ rcp'.cur = rcp.cur
    BY DEF RcuInv, RcuTypeOK, StartBatch
  <2>2. \A k \in RcuCPU \ {c} : tpc'[k] = tpc[k]
    BY Zenon DEF RcuInv, RcuTypeOK, StartBatch, TGoto
  <2>3. tpc[c] \in Starting /\ tpc'[c] \in {"cur", "recur"}
    BY Zenon DEF RcuInv, RcuTypeOK, StartBatch, TGoto, Starting
  <2> QED
    BY <2>1, <2>2, <2>3, Zenon DEF RcuInv, RcuLockInv, StartBatch, Starting
<1>2. rlock' \in RcuCPU \union {NoCPU}
  BY Zenon DEF StartBatch, RcuInv, RcuTypeOK
<1>3. CASE StartBatch(c, "start", "cur")
  BY <1>1, <1>2, <1>3, TaskletMoves, Zenon DEF StartBatch, TGoto, Registering, TaskletLabels
<1>4. CASE StartBatch(c, "restart", "recur")
  BY <1>1, <1>2, <1>4, TaskletMoves, Zenon DEF StartBatch, TGoto, Registering, TaskletLabels
<1> QED
  BY <1>3, <1>4

\* rcp->cur++ and the new cpumask.  Every CPU that is reading now owes a quiescent
\* state again, and numbers that were one ahead are now current.
LEMMA AdvanceCurInv ==
  ASSUME RcuInv, NEW c \in RcuCPU,
         AdvanceCur(c, "cur", "check") \/ AdvanceCur(c, "recur", Last(c))
  PROVE  RcuInv'
<1> USE DEF RcuInv
<1>1. /\ rcp'.cur = NextBatch(rcp.cur) /\ rcp'.completed = rcp.completed /\ rcp'.cpumask = RcuCPU
      /\ rcp'.next_pending \in BOOLEAN
      /\ rcp.cur \in Batches /\ rcp.completed \in Batches
  BY DEF RcuTypeOK, AdvanceCur
<1>2. /\ rlock' = NoCPU /\ UNCHANGED <<rdp, reading, rcu_before, barrier>>
      /\ tpc[c] \in {"cur", "recur"}
  BY Zenon DEF AdvanceCur
<1>3. PICK l \in {"check", "idle", "invoke"} : /\ tpc' = [tpc EXCEPT ![c] = l]
                                               /\ l = "invoke" => rdp[c].donelist # <<>>
  BY Zenon DEF AdvanceCur, TGoto, Last
<1>4. \A k \in RcuCPU : tpc'[k] = IF k = c THEN l ELSE tpc[k]
  BY <1>3, Zenon DEF RcuTypeOK
<1>5. rlock = c /\ rcp.completed = rcp.cur /\ rcp.cpumask = {}
  BY <1>2, Zenon DEF RcuLockInv, Starting, QuietInv
<1>6. RcuTypeOK'
  <2>1. rcp' \in [cur : Batches, completed : Batches, next_pending : BOOLEAN, cpumask : SUBSET RcuCPU]
    BY <1>1, BatchesDiffer DEF RcuTypeOK, AdvanceCur
  <2>2. tpc' \in [RcuCPU -> TaskletLabels]
    BY <1>3, Zenon DEF RcuTypeOK, TaskletLabels
  <2> QED
    BY <1>2, <2>1, <2>2, Zenon DEF RcuTypeOK
<1>7. RcuLockInv'
  BY <1>2, <1>3, <1>4, <1>5, Zenon DEF RcuLockInv, Starting
<1>8. \A k \in RcuCPU : Through(k) /\ Unaware(k)'
  <2> TAKE k \in RcuCPU
  <2>1. Through(k)
    BY <1>5, Zenon DEF QuietInv, Unaware, Watching, Reporting
  <2>2. NextBatch(rcp.cur) # rcp.cur
    BY <1>1, BatchesDiffer, Zenon
  <2> QED
    BY <1>1, <1>2, <1>4, <2>1, <2>2, Zenon DEF Through, Unaware
<1>9. QuietInv'
  <2>1. rcp'.cpumask # {} /\ rcp'.completed # rcp'.cur /\ rcp'.cur = NextBatch(rcp'.completed)
    BY <1>1, <1>5, BatchesDiffer, Zenon
  <2> QED
    BY <1>8, <2>1, Zenon DEF QuietInv, NextBatch
<1>10. \A k \in RcuCPU : Numbered(k)' => /\ Numbered(k)
                                         /\ rdp[k].batch = rcp'.cur \/ rdp[k].batch = rcp.cur
                                         /\ rdp[k].batch = rcp.cur => tpc'[k] \notin Registering
  <2> TAKE k \in RcuCPU
  <2> HAVE Numbered(k)'
  <2>1. Numbered(k)
    BY <1>2, <1>4, Zenon DEF Numbered
  <2>2. ~Unaware(k) /\ ~Watching(k)
    BY <1>8, Zenon DEF Through, Unaware, Watching
  <2>3. rdp[k].batch = rcp'.cur \/ (rdp[k].batch = rcp.cur /\ tpc[k] \notin Registering)
    BY <1>1, <2>1, <2>2, Zenon DEF NumberInv, InBounds
  <2>4. rcp'.cur # rcp.cur
    BY <1>1, BatchesDiffer, Zenon
  <2> QED
    BY <1>3, <1>4, <2>1, <2>3, <2>4, Zenon DEF Registering
<1>11. NumberInv'
  BY <1>1, <1>2, <1>8, <1>10, Zenon DEF NumberInv, InBounds, NextBatch
<1>12. GraceInv'
  <2>1. \A h \in AllHeads : WaitsFor(h)' = WaitsFor(h) /\ WaitsFor(h) \subseteq RcuCPU
    BY <1>2, WaitsForReaders, Zenon DEF WaitsFor
  <2>2. \A k \in RcuCPU : Owes(k)' /\ ~Owes(k)
    BY <1>8, Zenon DEF Owes, Through, Unaware, Watching
  <2>3. \A h \in RcuHead : rcu_before'[h] \subseteq reading'
    BY <1>2, Zenon DEF GraceInv
  <2> SUFFICES ASSUME NEW k \in RcuCPU, NEW h \in AllHeads PROVE Safe(k, h)'
    BY <2>3, Zenon DEF GraceInv
  <2>4. Safe(k, h)
    BY Zenon DEF GraceInv
  <2>5. h \in HeadsOf(rdp'[k].donelist) => WaitsFor(h)' = {}
    BY <1>2, <2>1, <2>4, Zenon DEF Safe
  <2>6. \A b \in WaitsFor(h)' : Owes(b)'
    BY <2>1, <2>2, Zenon
  <2>7. ASSUME h \in HeadsOf(rdp'[k].curlist), Numbered(k)', rcp'.cur = NextBatch(rdp'[k].batch)
        PROVE  WaitsFor(h)' = {}
    <3>1. rdp[k].batch # rcp'.cur
      BY <1>1, <1>2, <2>7, BatchesDiffer, Zenon
    <3>2. Numbered(k) /\ rdp[k].batch = rcp.cur
      BY <1>10, <2>7, <3>1, Zenon
    <3> QED
      BY <1>2, <2>1, <2>2, <2>4, <2>7, <3>2, Zenon DEF Safe
  <2> QED
    BY <2>5, <2>6, <2>7, Zenon DEF Safe, HeadsOf, NextBatch
<1>13. BarrierInv'
  BY <1>2, BarrierFrame, Zenon DEF QueueOf
<1> QED
  BY <1>6, <1>7, <1>9, <1>11, <1>12, <1>13, Zenon

\* cpu_quiet() clears a bit of cpumask; the last one to do so completes the batch, at
\* which nobody owes a quiescent state and so no callback of that batch waits.
LEMMA CpuQuietInv == ASSUME RcuInv, NEW c \in RcuCPU, cpu_quiet(c) PROVE RcuInv'
<1> DEFINE mask == rcp.cpumask \ {c}
<1> USE DEF RcuInv
<1>1. Reporting(c)
  BY Zenon DEF cpu_quiet, QuietInv, Unaware, Watching, Through
<1>2. /\ rcp' = [rcp EXCEPT !.cpumask = mask, !.completed = IF mask = {} THEN rcp.cur ELSE @]
      /\ UNCHANGED <<rdp, reading, rcu_before, barrier>>
  BY <1>1, Zenon DEF cpu_quiet, Reporting
<1>3. /\ rcp'.cur = rcp.cur /\ rcp'.cpumask = mask
      /\ rcp'.completed = IF mask = {} THEN rcp.cur ELSE rcp.completed
      /\ rcp' \in [cur : Batches, completed : Batches, next_pending : BOOLEAN, cpumask : SUBSET RcuCPU]
  BY <1>2 DEF RcuTypeOK
<1>4. PICK l \in {"restart", "idle", "invoke"} : /\ tpc' = [tpc EXCEPT ![c] = l]
                                                 /\ l = "invoke" => rdp[c].donelist # <<>>
                                                 /\ l = "restart" => rlock' = c /\ mask = {}
  BY <1>1, Zenon DEF cpu_quiet, TGoto, Last, Reporting
<1>5. \A k \in RcuCPU : tpc'[k] = IF k = c THEN l ELSE tpc[k]
  BY <1>4, Zenon DEF RcuTypeOK
<1>6. rlock' \in RcuCPU \union {NoCPU} /\ rlock = NoCPU
  BY <1>1, Zenon DEF cpu_quiet, Reporting
<1>7. RcuTypeOK'
  <2>1. tpc' \in [RcuCPU -> TaskletLabels]
    BY <1>4, Zenon DEF RcuTypeOK, TaskletLabels
  <2> QED
    BY <1>2, <1>3, <1>6, <2>1, Zenon DEF RcuTypeOK
<1>8. RcuLockInv'
  <2>1. \A k \in RcuCPU : tpc[k] \notin Starting
    BY <1>6, RcuAssumption, Zenon DEF RcuLockInv
  <2>2. tpc'[c] \in Starting => rlock' = c /\ rcp'.completed = rcp'.cur
    BY <1>3, <1>4, <1>5, Zenon DEF Starting
  <2> QED
    BY <1>2, <1>4, <1>5, <2>1, <2>2, Zenon DEF RcuLockInv
<1>9. /\ Through(c)'
      /\ \A k \in RcuCPU \ {c} : /\ Unaware(k)' <=> Unaware(k)
                                 /\ Watching(k)' <=> Watching(k)
                                 /\ Reporting(k)' <=> Reporting(k)
                                 /\ Through(k)' <=> Through(k)
                                 /\ Numbered(k)' <=> Numbered(k)
  BY <1>1, <1>2, <1>3, <1>4, <1>5, Zenon DEF Unaware, Watching, Reporting, Through, Numbered
<1>10. QuietInv'
  <2>1. rcp.completed # rcp.cur
    BY <1>1, Zenon DEF QuietInv, Reporting
  <2> QED
    BY <1>3, <1>9, <2>1, Zenon DEF QuietInv, NextBatch
<1>11. NumberInv'
  <2> SUFFICES ASSUME NEW k \in RcuCPU, Numbered(k)' PROVE InBounds(k)'
    BY Zenon DEF NumberInv
  <2>1. CASE k = c
    <3>1. Numbered(c) /\ ~Unaware(c) /\ ~Watching(c)
      BY <1>1, <1>2, <2>1, Zenon DEF Numbered, Unaware, Watching, Reporting
    <3>2. rdp[c].batch = NextBatch(rcp.cur) \/ rdp[c].batch = rcp.cur
      BY <3>1, Zenon DEF NumberInv, InBounds
    <3> QED
      BY <1>2, <1>3, <1>4, <1>5, <2>1, <3>2, Zenon DEF InBounds, Registering, NextBatch
  <2>2. CASE k # c
    <3>1. InBounds(k)
      BY <1>9, <2>2, Zenon DEF NumberInv
    <3> QED
      BY <1>2, <1>3, <1>5, <1>9, <2>2, <3>1, Zenon DEF InBounds, NextBatch
  <2> QED
    BY <2>1, <2>2
<1>12. GraceInv'
  <2>1. \A h \in AllHeads : WaitsFor(h)' = WaitsFor(h) /\ WaitsFor(h) \subseteq RcuCPU
    BY <1>2, WaitsForReaders, Zenon DEF WaitsFor
  <2>2. \A k \in RcuCPU : Owes(k) => Owes(k)'
    BY <1>1, <1>2, <1>9, Zenon DEF Owes, Reporting, Unaware, Watching
  <2>3. \A k \in RcuCPU : Numbered(k)' => Numbered(k)
    BY <1>1, <1>2, <1>5, Zenon DEF Numbered, Reporting
  <2>4. \A h \in RcuHead : rcu_before'[h] \subseteq reading'
    BY <1>2, Zenon DEF GraceInv
  <2>5. \A k \in RcuCPU : \A h \in HeadsOf(rdp[k].curlist) \union HeadsOf(rdp[k].donelist) :
           WaitsFor(h)' \subseteq WaitsFor(h) /\ \A b \in WaitsFor(h)' : Owes(b) => Owes(b)'
    BY <2>1, <2>2, ListedHeads, Zenon
  <2> QED
    BY <1>2, <1>3, <2>3, <2>4, <2>5, GraceFrame, Zenon
<1>13. BarrierInv'
  BY <1>2, BarrierFrame, Zenon DEF QueueOf
<1> QED
  BY <1>7, <1>8, <1>10, <1>11, <1>12, <1>13, Zenon

\* rcu_check_quiescent_state(): noticing a new grace period throws away an old
\* passed_quiesc, and only a CPU that has watched this one goes on to cpu_quiet().
LEMMA CheckQuiescentInv ==
  ASSUME RcuInv, NEW c \in RcuCPU, CheckQuiescent(c)
  PROVE  RcuInv' /\ (\A k \in RcuCPU : QueueOf(k)' = QueueOf(k))
<1> USE DEF RcuInv
<1>1. UNCHANGED <<rcp, rlock, reading, rcu_before, barrier>> /\ tpc[c] = "check"
  BY Zenon DEF CheckQuiescent
<1>2. /\ rdp' \in [RcuCPU -> RcuData]
      /\ \A k \in RcuCPU : SameLists(k)
      /\ \A k \in RcuCPU \ {c} : rdp'[k] = rdp[k]
      /\ rdp[c].quiescbatch # rcp.cur =>
           rdp'[c].quiescbatch = rcp.cur /\ rdp'[c].qs_pending /\ ~rdp'[c].passed_quiesc
      /\ rdp[c].quiescbatch = rcp.cur =>
           /\ rdp'[c].quiescbatch = rcp.cur /\ rdp'[c].passed_quiesc = rdp[c].passed_quiesc
           /\ rdp'[c].qs_pending <=> rdp[c].qs_pending /\ ~rdp[c].passed_quiesc
  <2>1. CASE rdp[c].quiescbatch # rcp.cur
    <3>1. rdp' = [rdp EXCEPT ![c].qs_pending = TRUE, ![c].passed_quiesc = FALSE,
                             ![c].quiescbatch = rcp.cur]
      BY <2>1, Zenon DEF CheckQuiescent
    <3>2. rcp.cur \in Batches /\ rdp \in [RcuCPU -> RcuData]
      BY DEF RcuTypeOK, RcuData
    <3> QED
      BY <2>1, <3>1, <3>2 DEF RcuData, SameLists
  <2>2. CASE rdp[c].quiescbatch = rcp.cur
    <3> DEFINE q == rdp[c].qs_pending /\ ~(rdp[c].qs_pending /\ rdp[c].passed_quiesc)
    <3>1. rdp' = [rdp EXCEPT ![c].qs_pending = q]
      BY <2>2, Zenon DEF CheckQuiescent
    <3>2. q \in BOOLEAN /\ rdp \in [RcuCPU -> RcuData]
      BY DEF RcuTypeOK, RcuData
    <3>3. q <=> rdp[c].qs_pending /\ ~rdp[c].passed_quiesc
      BY Zenon
    <3> HIDE DEF q
    <3>4. /\ rdp' \in [RcuCPU -> RcuData]
          /\ \A k \in RcuCPU : SameLists(k)
          /\ \A k \in RcuCPU \ {c} : rdp'[k] = rdp[k]
          /\ rdp'[c].quiescbatch = rdp[c].quiescbatch /\ rdp'[c].passed_quiesc = rdp[c].passed_quiesc
          /\ rdp'[c].qs_pending = q
      BY <3>1, <3>2 DEF RcuData, SameLists
    <3> QED
      BY <2>2, <3>3, <3>4, Zenon
  <2> QED
    BY <2>1, <2>2
<1>3. PICK l \in {"quiet", "idle", "invoke"} : /\ tpc' = [tpc EXCEPT ![c] = l]
                                               /\ l = "invoke" => rdp[c].donelist # <<>>
  BY Zenon DEF CheckQuiescent, TGoto, Last
<1>4. \A k \in RcuCPU : tpc'[k] = IF k = c THEN l ELSE tpc[k]
  BY <1>3, Zenon DEF RcuTypeOK
<1>6. RcuTypeOK'
  <2>1. tpc' \in [RcuCPU -> TaskletLabels]
    BY <1>3, Zenon DEF RcuTypeOK, TaskletLabels
  <2> QED
    BY <1>1, <1>2, <2>1, Zenon DEF RcuTypeOK, RcuData
<1>7. RcuLockInv'
  <2>1. tpc'[c] \notin Starting
    BY <1>3, <1>4, Zenon DEF Starting
  <2> QED
    BY <1>1, <1>2, <1>3, <1>4, <2>1, LockFrame, ZenonT(40) DEF SameLists
<1>8. \/ Unaware(c) /\ Watching(c)' /\ ~rdp'[c].passed_quiesc
      \/ Watching(c) /\ rdp[c].passed_quiesc /\ Reporting(c)'
      \/ Watching(c) /\ ~rdp[c].passed_quiesc /\ Watching(c)' /\ ~rdp'[c].passed_quiesc
      \/ Through(c) /\ Through(c)'
  <2>1. CASE rdp[c].quiescbatch # rcp.cur
    <3>1. tpc'[c] # "quiet"
      BY <2>1, Zenon DEF CheckQuiescent, RcuTypeOK, TGoto, Last
    <3>2. Unaware(c)
      BY <2>1, Zenon DEF QuietInv, Watching, Reporting, Through
    <3> QED
      BY <1>1, <1>2, <2>1, <3>1, <3>2, Zenon DEF Unaware, Watching
  <2>2. CASE rdp[c].quiescbatch = rcp.cur
    <3>2. tpc'[c] = "quiet" <=> rdp[c].qs_pending /\ rdp[c].passed_quiesc
      BY <2>2, Zenon DEF CheckQuiescent, RcuTypeOK, TGoto, Last
    <3>3. Watching(c) \/ Through(c)
      BY <1>1, <2>2, Zenon DEF QuietInv, Unaware, Reporting
    <3> QED
      BY <1>1, <1>2, <2>2, <3>2, <3>3, Zenon DEF Watching, Through, Reporting
  <2> QED
    BY <2>1, <2>2
<1>9. \A k \in RcuCPU \ {c} : /\ Unaware(k)' <=> Unaware(k)
                              /\ Watching(k)' <=> Watching(k)
                              /\ Reporting(k)' <=> Reporting(k)
                              /\ Through(k)' <=> Through(k)
                              /\ Numbered(k)' <=> Numbered(k)
  BY <1>1, <1>2, <1>4, Zenon DEF Unaware, Watching, Reporting, Through, Numbered
<1>10. QuietInv'
  BY <1>1, <1>8, <1>9, Zenon DEF QuietInv, NextBatch
<1>11. NumberInv'
  <2> SUFFICES ASSUME NEW k \in RcuCPU, Numbered(k)' PROVE InBounds(k)'
    BY Zenon DEF NumberInv
  <2>1. CASE k = c
    <3>1. Numbered(c)
      BY <1>1, <1>2, <2>1, Zenon DEF Numbered, SameLists
    <3>2. InBounds(c)
      BY <3>1, Zenon DEF NumberInv
    <3>3. tpc'[c] \notin Registering /\ tpc'[c] # "check"
      BY <1>3, <1>4, Zenon DEF Registering
    <3>4. ~Unaware(c) => rdp[c].batch = NextBatch(rcp.cur) \/ rdp[c].batch = rcp.cur
      BY <1>1, <3>2, Zenon DEF InBounds
    <3>5. Unaware(c) => Watching(c)'
      BY <1>8, Zenon DEF Unaware, Watching, Through
    <3> QED
      BY <1>1, <1>2, <2>1, <3>2, <3>3, <3>4, <3>5, Zenon DEF InBounds, NextBatch, SameLists
  <2>2. CASE k # c
    <3>1. InBounds(k)
      BY <1>9, <2>2, Zenon DEF NumberInv
    <3> QED
      BY <1>1, <1>2, <1>4, <1>9, <2>2, <3>1, Zenon DEF InBounds, NextBatch, SameLists
  <2> QED
    BY <2>1, <2>2
<1>12. GraceInv'
  <2>1. \A h \in AllHeads : WaitsFor(h)' = WaitsFor(h) /\ WaitsFor(h) \subseteq RcuCPU
    BY <1>1, WaitsForReaders, Zenon DEF WaitsFor
  <2>2. \A k \in RcuCPU : Owes(k) => Owes(k)'
    <3>1. Owes(c) => Owes(c)'
      BY <1>8, Zenon DEF Owes, Reporting, Unaware, Watching, Through
    <3>2. \A k \in RcuCPU \ {c} : Owes(k) => Owes(k)'
      BY <1>2, <1>9, Zenon DEF Owes
    <3> QED
      BY <3>1, <3>2
  <2>3. \A k \in RcuCPU : Numbered(k)' => Numbered(k)
    BY <1>1, <1>2, <1>3, <1>4, Zenon DEF Numbered, SameLists
  <2>4. \A h \in RcuHead : rcu_before'[h] \subseteq reading'
    BY <1>1, Zenon DEF GraceInv
  <2>5. \A k \in RcuCPU : \A h \in HeadsOf(rdp[k].curlist) \union HeadsOf(rdp[k].donelist) :
           WaitsFor(h)' \subseteq WaitsFor(h) /\ \A b \in WaitsFor(h)' : Owes(b) => Owes(b)'
    BY <2>1, <2>2, ListedHeads, Zenon
  <2>6. \A k \in RcuCPU : SameLists(k)
    BY <1>2
  <2> QED
    BY <1>1, <2>3, <2>4, <2>5, <2>6, GraceFrame, Zenon DEF SameLists
<1>13. \A k \in RcuCPU : QueueOf(k)' = QueueOf(k)
  BY <1>2, Zenon DEF QueueOf, SameLists
<1>14. BarrierInv'
  BY <1>1, <1>13, BarrierFrame, Zenon
<1> QED
  BY <1>6, <1>7, <1>10, <1>11, <1>12, <1>13, <1>14, Zenon

\* rdp->batch = rcp->cur + 1, read without rcp->lock.
LEMMA NumberBatchInv ==
  ASSUME RcuInv, NEW c \in RcuCPU, NumberBatch(c)
  PROVE  RcuInv' /\ (\A k \in RcuCPU : QueueOf(k)' = QueueOf(k))
<1> USE DEF RcuInv
<1>1. UNCHANGED <<rcp, rlock, reading, rcu_before, barrier>> /\ tpc[c] = "number"
  BY Zenon DEF NumberBatch
<1>2. rcp.cur \in Batches /\ NextBatch(rcp.cur) \in Batches
  BY BatchesDiffer DEF RcuTypeOK
<1>3. /\ rdp' \in [RcuCPU -> RcuData]
      /\ \A k \in RcuCPU \ {c} : rdp'[k] = rdp[k]
      /\ rdp'[c].batch = NextBatch(rcp.cur)
      /\ rdp'[c].nxtlist = rdp[c].nxtlist /\ rdp'[c].curlist = rdp[c].curlist
      /\ rdp'[c].donelist = rdp[c].donelist /\ rdp'[c].quiescbatch = rdp[c].quiescbatch
      /\ rdp'[c].qs_pending = rdp[c].qs_pending /\ rdp'[c].passed_quiesc = rdp[c].passed_quiesc
  <2>1. rdp \in [RcuCPU -> RcuData] /\ rdp' = [rdp EXCEPT ![c].batch = NextBatch(rcp.cur)]
    BY Zenon DEF RcuTypeOK, RcuData, NumberBatch
  <2> QED
    BY <1>2, <2>1 DEF RcuData
<1>4. \A k \in RcuCPU : /\ tpc'[k] = IF k = c THEN "register" ELSE tpc[k]
                        /\ tpc'[k] \in TaskletLabels
  BY Zenon DEF RcuTypeOK, NumberBatch, TGoto, TaskletLabels
<1>5. RcuTypeOK'
  <2>1. tpc' \in [RcuCPU -> TaskletLabels]
    BY <1>4, Zenon DEF RcuTypeOK, NumberBatch, TGoto, TaskletLabels
  <2> QED
    BY <1>1, <1>3, <2>1, Zenon DEF RcuTypeOK, RcuData
<1>6. RcuLockInv'
  <2>1. tpc'[c] \notin Starting /\ tpc'[c] # "invoke"
    BY <1>4, Zenon DEF Starting
  <2> QED
    BY <1>1, <1>3, <1>4, <2>1, LockFrame, Zenon
<1>7. \A k \in RcuCPU : /\ Unaware(k)' <=> Unaware(k)
                        /\ Watching(k)' <=> Watching(k)
                        /\ Reporting(k)' <=> Reporting(k)
                        /\ Through(k)' <=> Through(k)
                        /\ Owes(k)' <=> Owes(k)
  <2> TAKE k \in RcuCPU
  <2>1. /\ rdp'[k].quiescbatch = rdp[k].quiescbatch /\ rdp'[k].qs_pending = rdp[k].qs_pending
        /\ rdp'[k].passed_quiesc = rdp[k].passed_quiesc
        /\ tpc'[k] = "quiet" <=> tpc[k] = "quiet"
    BY <1>1, <1>3, <1>4, Zenon
  <2> QED
    BY <1>1, <2>1, Zenon DEF Unaware, Watching, Reporting, Through, Owes
<1>8. QuietInv'
  BY <1>1, <1>7, Zenon DEF QuietInv, NextBatch
<1>9. NumberInv'
  <2> SUFFICES ASSUME NEW k \in RcuCPU, Numbered(k)' PROVE InBounds(k)'
    BY Zenon DEF NumberInv
  <2>1. CASE k = c
    BY <1>1, <1>3, <2>1, Zenon DEF InBounds, NextBatch
  <2>2. CASE k # c
    <3>1. InBounds(k)
      BY <1>3, <1>4, <2>2, Zenon DEF NumberInv, Numbered
    <3> QED
      BY <1>1, <1>3, <1>4, <1>7, <2>2, <3>1, Zenon DEF InBounds, NextBatch
  <2> QED
    BY <2>1, <2>2
<1>10. GraceInv'
  <2>1. \A h \in AllHeads : WaitsFor(h)' = WaitsFor(h) /\ WaitsFor(h) \subseteq RcuCPU
    BY <1>1, WaitsForReaders, Zenon DEF WaitsFor
  <2>2. \A h \in RcuHead : rcu_before'[h] \subseteq reading'
    BY <1>1, Zenon DEF GraceInv
  <2> SUFFICES ASSUME NEW k \in RcuCPU, NEW h \in AllHeads PROVE Safe(k, h)'
    BY <2>2, Zenon DEF GraceInv
  <2>3. Safe(k, h)
    BY Zenon DEF GraceInv
  <2>4. CASE k = c
    <3>1. rdp'[c].batch # rcp'.cur /\ rcp'.cur # NextBatch(rdp'[c].batch)
      BY <1>1, <1>2, <1>3, BatchesDiffer, Zenon
    <3> QED
      BY <1>3, <2>1, <2>3, <2>4, <3>1, Zenon DEF Safe, HeadsOf, NextBatch
  <2>5. CASE k # c
    <3>1. rdp'[k] = rdp[k] /\ (Numbered(k)' <=> Numbered(k))
      BY <1>3, <1>4, <2>5, Zenon DEF Numbered
    <3> QED
      BY <1>1, <1>7, <2>1, <2>3, <3>1, Zenon DEF Safe, HeadsOf, NextBatch
  <2> QED
    BY <2>4, <2>5
<1>11. \A k \in RcuCPU : QueueOf(k)' = QueueOf(k)
  BY <1>3, Zenon DEF QueueOf
<1>12. BarrierInv'
  BY <1>1, <1>11, BarrierFrame, Zenon
<1> QED
  BY <1>5, <1>6, <1>8, <1>9, <1>10, <1>11, <1>12, Zenon

-----------------------------------------------------------------------------
\* Steps outside the tasklet that leave grace periods alone.
LEMMA QuietFrame ==
  ASSUME RcuInv, UNCHANGED <<rcp, rlock, tpc>>,
         \A k \in RcuCPU : /\ rdp'[k].quiescbatch = rdp[k].quiescbatch
                           /\ rdp'[k].qs_pending = rdp[k].qs_pending
                           /\ rdp'[k].batch = rdp[k].batch /\ rdp'[k].curlist = rdp[k].curlist
                           /\ rdp'[k].donelist = rdp[k].donelist
  PROVE  /\ RcuLockInv' /\ QuietInv' /\ NumberInv'
         /\ \A k \in RcuCPU : /\ Unaware(k)' <=> Unaware(k)
                              /\ Watching(k)' <=> Watching(k)
                              /\ Numbered(k)' <=> Numbered(k)
<1>1. RcuLockInv'
  BY Zenon DEF RcuInv, RcuLockInv
<1>2. \A k \in RcuCPU : /\ Unaware(k)' <=> Unaware(k)
                        /\ Watching(k)' <=> Watching(k)
                        /\ Reporting(k)' <=> Reporting(k)
                        /\ Through(k)' <=> Through(k)
                        /\ Numbered(k)' <=> Numbered(k)
  BY Zenon DEF Unaware, Watching, Reporting, Through, Numbered
<1>3. QuietInv'
  BY <1>2, Zenon DEF RcuInv, QuietInv, NextBatch
<1>4. NumberInv'
  <2> SUFFICES ASSUME NEW k \in RcuCPU, Numbered(k)' PROVE InBounds(k)'
    BY Zenon DEF NumberInv
  <2>1. InBounds(k)
    BY <1>2, Zenon DEF RcuInv, NumberInv
  <2> QED
    BY <1>2, <2>1, Zenon DEF InBounds, NextBatch
<1> QED
  BY <1>1, <1>2, <1>3, <1>4, Zenon

\* Entering a read-side section: nobody waits for it.
LEMMA ReadLockInv == ASSUME RcuInv, NEW c \in RcuCPU, rcu_read_lock(c) PROVE RcuInv'
<1>1. UNCHANGED <<rcp, rlock, rdp, tpc, rcu_before, barrier>> /\ reading' = reading \union {c}
  BY Zenon DEF rcu_read_lock
<1>2. RcuTypeOK'
  BY <1>1, Zenon DEF RcuInv, RcuTypeOK
<1>3. /\ RcuLockInv' /\ QuietInv' /\ NumberInv'
      /\ \A k \in RcuCPU : /\ Unaware(k)' <=> Unaware(k)
                           /\ Watching(k)' <=> Watching(k)
                           /\ Numbered(k)' <=> Numbered(k)
  BY <1>1, QuietFrame, Zenon
<1>4. GraceInv'
  <2>1. \A h : WaitsFor(h)' = WaitsFor(h)
    BY <1>1, Zenon DEF WaitsFor
  <2>2. \A h \in RcuHead : rcu_before'[h] \subseteq reading'
    BY <1>1, Zenon DEF RcuInv, GraceInv
  <2>3. \A k \in RcuCPU : Owes(k) => Owes(k)'
    BY <1>1, <1>3, Zenon DEF Owes
  <2>4. \A k \in RcuCPU : \A h \in HeadsOf(rdp[k].curlist) \union HeadsOf(rdp[k].donelist) :
           WaitsFor(h)' \subseteq WaitsFor(h) /\ \A b \in WaitsFor(h)' : Owes(b) => Owes(b)'
    BY <2>1, <2>3, WaitsForReaders, ListedHeads, Zenon
  <2> QED
    BY <1>1, <1>3, <2>2, <2>4, GraceFrame, Zenon
<1>5. BarrierInv'
  BY <1>1, BarrierFrame, Zenon DEF RcuInv, QueueOf
<1> QED
  BY <1>2, <1>3, <1>4, <1>5, Zenon DEF RcuInv

\* Leaving one: it is waited for no more.
LEMMA ReadUnlockInv == ASSUME RcuInv, NEW c \in RcuCPU, rcu_read_unlock(c) PROVE RcuInv'
<1>1. /\ UNCHANGED <<rcp, rlock, rdp, tpc, barrier>> /\ reading' = reading \ {c}
      /\ rcu_before' = [h \in RcuHead |-> rcu_before[h] \ {c}]
  BY Zenon DEF rcu_read_unlock
<1>2. \A h \in RcuHead : rcu_before'[h] = rcu_before[h] \ {c}
  BY <1>1, Zenon
<1>3. RcuTypeOK'
  <2>1. rcu_before' \in [RcuHead -> SUBSET RcuCPU] /\ reading' \subseteq RcuCPU
    BY <1>1 DEF RcuInv, RcuTypeOK
  <2> QED
    BY <1>1, <2>1, Zenon DEF RcuInv, RcuTypeOK
<1>4. /\ RcuLockInv' /\ QuietInv' /\ NumberInv'
      /\ \A k \in RcuCPU : /\ Unaware(k)' <=> Unaware(k)
                           /\ Watching(k)' <=> Watching(k)
                           /\ Numbered(k)' <=> Numbered(k)
  BY <1>1, QuietFrame, Zenon
<1>5. GraceInv'
  <2>1. \A h : WaitsFor(h)' \subseteq WaitsFor(h)
    BY <1>1, <1>2, Zenon DEF WaitsFor
  <2>2. \A h \in RcuHead : rcu_before'[h] \subseteq reading'
    BY <1>1, <1>2, Zenon DEF RcuInv, GraceInv
  <2>3. \A k \in RcuCPU : Owes(k) => Owes(k)'
    BY <1>1, <1>4, Zenon DEF Owes
  <2>4. \A k \in RcuCPU : \A h \in HeadsOf(rdp[k].curlist) \union HeadsOf(rdp[k].donelist) :
           WaitsFor(h)' \subseteq WaitsFor(h) /\ \A b \in WaitsFor(h)' : Owes(b) => Owes(b)'
    BY <2>1, <2>3, WaitsForReaders, ListedHeads, Zenon
  <2> QED
    BY <1>1, <1>4, <2>2, <2>4, GraceFrame, Zenon
<1>6. BarrierInv'
  BY <1>1, BarrierFrame, Zenon DEF RcuInv, QueueOf
<1> QED
  BY <1>3, <1>4, <1>5, <1>6, Zenon DEF RcuInv

\* A quiescent state: this CPU is neither reading nor inside on_each_cpu(), so that no
\* callback waits for it.
LEMMA QsctrIncInv ==
  ASSUME RcuInv, NEW c \in RcuCPU, rcu_qsctr_inc(c)
  PROVE  RcuInv' /\ (\A k \in RcuCPU : QueueOf(k)' = QueueOf(k))
<1>1. UNCHANGED <<rcp, rlock, tpc, reading, rcu_before, barrier>> /\ c \notin reading /\ barrier.cpu # c
  BY Zenon DEF rcu_qsctr_inc, Preemptible
<1>2. /\ rdp' \in [RcuCPU -> RcuData]
      /\ \A k \in RcuCPU : /\ SameLists(k) /\ rdp'[k].quiescbatch = rdp[k].quiescbatch
                           /\ rdp'[k].qs_pending = rdp[k].qs_pending
                           /\ k # c => rdp'[k].passed_quiesc = rdp[k].passed_quiesc
  <2>1. rdp \in [RcuCPU -> RcuData] /\ rdp' = [rdp EXCEPT ![c].passed_quiesc = TRUE]
    BY Zenon DEF RcuInv, RcuTypeOK, RcuData, rcu_qsctr_inc
  <2> QED
    BY <2>1 DEF RcuData, SameLists
<1>3. RcuTypeOK'
  BY <1>1, <1>2, Zenon DEF RcuInv, RcuTypeOK, RcuData
<1>4. /\ RcuLockInv' /\ QuietInv' /\ NumberInv'
      /\ \A k \in RcuCPU : /\ Unaware(k)' <=> Unaware(k)
                           /\ Watching(k)' <=> Watching(k)
                           /\ Numbered(k)' <=> Numbered(k)
  BY <1>1, <1>2, QuietFrame, Zenon DEF SameLists
<1>5. GraceInv'
  <2>1. \A h : WaitsFor(h)' = WaitsFor(h)
    BY <1>1, Zenon DEF WaitsFor
  <2>2. \A h \in RcuHead : rcu_before'[h] \subseteq reading'
    BY <1>1, Zenon DEF RcuInv, GraceInv
  <2>3. \A k \in RcuCPU \ {c} : Owes(k) => Owes(k)'
    BY <1>2, <1>4, Zenon DEF Owes
  <2>4. \A h \in AllHeads : WaitsFor(h) \subseteq RcuCPU \ {c}
    BY <1>1, WaitsForReaders, Zenon
  <2>5. \A k \in RcuCPU : \A h \in HeadsOf(rdp[k].curlist) \union HeadsOf(rdp[k].donelist) :
           WaitsFor(h)' \subseteq WaitsFor(h) /\ \A b \in WaitsFor(h)' : Owes(b) => Owes(b)'
    BY <2>1, <2>3, <2>4, ListedHeads, Zenon
  <2> QED
    BY <1>1, <1>2, <1>4, <2>2, <2>5, GraceFrame, Zenon DEF SameLists
<1>6. \A k \in RcuCPU : QueueOf(k)' = QueueOf(k)
  BY <1>2, Zenon DEF QueueOf, SameLists
<1>7. BarrierInv'
  BY <1>1, <1>6, BarrierFrame, Zenon DEF RcuInv
<1> QED
  BY <1>3, <1>4, <1>5, <1>6, <1>7, Zenon DEF RcuInv

-----------------------------------------------------------------------------
\* A callback queued last leaves the others ahead of the barrier's, and the barrier's
\* own, queued last, has all of them ahead.
LEMMA QueueAppend ==
  ASSUME NEW c \in RcuCPU, NEW q \in Seq(AllHeads), NEW x \in AllHeads, OwnHead(c, q),
         x \in RcuHead \/ (x = c /\ c \notin HeadsOf(q))
  PROVE  /\ OwnHead(c, Append(q, x))
         /\ \A h, todo : Covered(h, c, q, todo) =>
               /\ Covered(h, c, Append(q, x), todo)
               /\ x = c => Covered(h, c, Append(q, x), todo \ {c})
<1> DEFINE r == Append(q, x)
<1>1. /\ \A i \in DOMAIN q : i \in DOMAIN r /\ r[i] = q[i] /\ i < Len(q) + 1
      /\ Len(q) + 1 \in DOMAIN r /\ r[Len(q) + 1] = x
      /\ \A i \in DOMAIN r : i \in DOMAIN q \/ i = Len(q) + 1
  OBVIOUS
<1> HIDE DEF r
<1>2. x = c => \A i \in DOMAIN q : q[i] # c
  BY RcuAssumption, Zenon DEF HeadsOf
<1>3. OwnHead(c, r)
  <2>1. \A i \in DOMAIN r : r[i] \in RcuHead \union {c}
    BY <1>1, Zenon DEF OwnHead
  <2>2. ASSUME NEW i \in DOMAIN r, NEW j \in DOMAIN r, r[i] = c, r[j] = c PROVE i = j
    <3>1. CASE x = c
      BY <1>1, <1>2, <2>2, <3>1, Zenon
    <3>2. CASE x # c
      BY <1>1, <2>2, <3>2, Zenon DEF OwnHead
    <3> QED
      BY <3>1, <3>2
  <2> QED
    BY <2>1, <2>2, Zenon DEF OwnHead
<1>4. ASSUME NEW h, NEW todo, Covered(h, c, q, todo)
      PROVE  Covered(h, c, r, todo) /\ (x = c => Covered(h, c, r, todo \ {c}))
  <2>1. PICK i \in DOMAIN q : q[i] = h /\ (c \in todo \/ \E j \in DOMAIN q : i < j /\ q[j] = c)
    BY <1>4, Zenon DEF Covered
  <2>2. Covered(h, c, r, todo)
    BY <1>1, <2>1, Zenon DEF Covered
  <2>3. x = c => Covered(h, c, r, todo \ {c})
    BY <1>1, <2>1, Zenon DEF Covered
  <2> QED
    BY <2>2, <2>3
<1> QED
  BY <1>3, <1>4, Zenon DEF r

\* Invoking the first callback leaves what else was ahead of the barrier's ahead.
LEMMA QueueTail ==
  ASSUME NEW c \in RcuCPU, NEW q \in Seq(AllHeads), q # <<>>, OwnHead(c, q)
  PROVE  /\ OwnHead(c, Tail(q))
         /\ Head(q) \in RcuHead \union {c}
         /\ Head(q) = c => c \notin HeadsOf(Tail(q))
         /\ \A h, todo : Covered(h, c, q, todo) /\ h # Head(q) => Covered(h, c, Tail(q), todo)
<1> DEFINE r == Tail(q)
<1>1. /\ \A i \in DOMAIN r : i + 1 \in DOMAIN q /\ r[i] = q[i + 1]
      /\ \A i \in DOMAIN q : i # 1 => i - 1 \in DOMAIN r /\ r[i - 1] = q[i]
      /\ \A i, j \in DOMAIN r : i + 1 = j + 1 => i = j
      /\ \A i, j \in DOMAIN q : i < j => i - 1 < j - 1 /\ j # 1
      /\ \A i \in DOMAIN r : i + 1 # 1
      /\ 1 \in DOMAIN q /\ q[1] = Head(q)
  OBVIOUS
<1> HIDE DEF r
<1>2. OwnHead(c, r)
  <2>1. \A i \in DOMAIN r : r[i] \in RcuHead \union {c}
    BY <1>1, Zenon DEF OwnHead
  <2>2. ASSUME NEW i \in DOMAIN r, NEW j \in DOMAIN r, r[i] = c, r[j] = c PROVE i = j
    <3>1. i + 1 \in DOMAIN q /\ j + 1 \in DOMAIN q /\ q[i + 1] = c /\ q[j + 1] = c
      BY <1>1, <2>2
    <3>2. i + 1 = j + 1
      BY <3>1, Zenon DEF OwnHead
    <3> QED
      BY <1>1, <3>2
  <2> QED
    BY <2>1, <2>2, Zenon DEF OwnHead
<1>3. Head(q) \in RcuHead \union {c}
  BY <1>1, Zenon DEF OwnHead
<1>4. Head(q) = c => c \notin HeadsOf(r)
  <2> SUFFICES ASSUME Head(q) = c, NEW i \in DOMAIN r, r[i] = c PROVE FALSE
    BY Zenon DEF HeadsOf
  <2>1. i + 1 \in DOMAIN q /\ q[i + 1] = c /\ i + 1 # 1
    BY <1>1
  <2> QED
    BY <1>1, <2>1, Zenon DEF OwnHead
<1>5. ASSUME NEW h, NEW todo, Covered(h, c, q, todo), h # Head(q)
      PROVE  Covered(h, c, r, todo)
  <2>1. PICK i \in DOMAIN q : q[i] = h /\ (c \in todo \/ \E j \in DOMAIN q : i < j /\ q[j] = c)
    BY <1>5, Zenon DEF Covered
  <2>2. i - 1 \in DOMAIN r /\ r[i - 1] = h
    BY <1>1, <1>5, <2>1, Zenon
  <2>3. CASE c \in todo
    BY <2>2, <2>3, Zenon DEF Covered
  <2>4. CASE c \notin todo
    <3>1. PICK j \in DOMAIN q : i < j /\ q[j] = c
      BY <2>1, <2>4, Zenon
    <3>2. j - 1 \in DOMAIN r /\ r[j - 1] = c /\ i - 1 < j - 1
      BY <1>1, <3>1, Zenon
    <3> QED
      BY <2>2, <3>2, Zenon DEF Covered
  <2> QED
    BY <2>3, <2>4
<1> QED
  BY <1>2, <1>3, <1>4, <1>5, Zenon DEF r

\* What call_rcu() does to the lists.
LEMMA EnqueueStep ==
  ASSUME RcuInv, NEW c \in RcuCPU, NEW x \in AllHeads, Enqueue(c, x)
  PROVE  /\ rdp' \in [RcuCPU -> RcuData]
         /\ \A k \in RcuCPU : /\ rdp'[k].quiescbatch = rdp[k].quiescbatch
                              /\ rdp'[k].qs_pending = rdp[k].qs_pending
                              /\ rdp'[k].passed_quiesc = rdp[k].passed_quiesc
                              /\ rdp'[k].batch = rdp[k].batch /\ rdp'[k].curlist = rdp[k].curlist
                              /\ rdp'[k].donelist = rdp[k].donelist
         /\ \A k \in RcuCPU \ {c} : QueueOf(k)' = QueueOf(k)
         /\ QueueOf(c)' = Append(QueueOf(c), x) /\ QueueOf(c) \in Seq(AllHeads)
<1>1. rdp \in [RcuCPU -> RcuData] /\ rdp' = [rdp EXCEPT ![c].nxtlist = Append(@, x)]
  BY Zenon DEF RcuInv, RcuTypeOK, RcuData, Enqueue
<1>2. rdp[c].nxtlist \in Seq(AllHeads) /\ Append(rdp[c].nxtlist, x) \in Seq(AllHeads)
  BY <1>1 DEF RcuData
<1>3. /\ rdp' \in [RcuCPU -> RcuData]
      /\ \A k \in RcuCPU : /\ rdp'[k].quiescbatch = rdp[k].quiescbatch
                           /\ rdp'[k].qs_pending = rdp[k].qs_pending
                           /\ rdp'[k].passed_quiesc = rdp[k].passed_quiesc
                           /\ rdp'[k].batch = rdp[k].batch /\ rdp'[k].curlist = rdp[k].curlist
                           /\ rdp'[k].donelist = rdp[k].donelist
      /\ \A k \in RcuCPU \ {c} : rdp'[k] = rdp[k]
      /\ rdp'[c].nxtlist = Append(rdp[c].nxtlist, x)
  BY <1>1, <1>2 DEF RcuData
<1>4. \A k \in RcuCPU \ {c} : QueueOf(k)' = QueueOf(k)
  BY <1>3, Zenon DEF QueueOf
<1>5. QueueOf(c)' = rdp[c].donelist \o rdp[c].curlist \o Append(rdp[c].nxtlist, x)
  BY <1>3, Zenon DEF QueueOf
<1>6. rdp[c].donelist \in Seq(AllHeads) /\ rdp[c].curlist \in Seq(AllHeads)
  BY <1>1 DEF RcuData
<1>7. QueueOf(c)' = Append(QueueOf(c), x) /\ QueueOf(c) \in Seq(AllHeads)
  <2> DEFINE w == rdp[c].donelist \o rdp[c].curlist
             n == rdp[c].nxtlist
  <2>1. w \in Seq(AllHeads) /\ n \in Seq(AllHeads)
    BY <1>2, <1>6
  <2>2. QueueOf(c)' = w \o Append(n, x) /\ QueueOf(c) = w \o n
    BY <1>5, Zenon DEF QueueOf
  <2> HIDE DEF w, n
  <2>3. w \o Append(n, x) = Append(w \o n, x) /\ w \o n \in Seq(AllHeads)
    BY <2>1
  <2> QED
    BY <2>2, <2>3
<1> QED
  BY <1>3, <1>4, <1>7, Zenon

\* The invariant of rcu_barrier() after a step, from the queues after that step.
LEMMA BarrierNext ==
  ASSUME PhaseInv', \A k \in RcuCPU : OwnHead(k, QueueOf(k)'),
         \A h \in barrier'.covers : \E k \in RcuCPU : Covered(h, k, QueueOf(k)', barrier'.todo)
  PROVE  BarrierInv'
<1>1. \A k \in RcuCPU : OwnHead(k, QueueOf(k))'
  BY Zenon DEF OwnHead
<1>2. \A h : \A k \in RcuCPU : Covered(h, k, QueueOf(k)', barrier'.todo)
                               => Covered(h, k, QueueOf(k), barrier.todo)'
  BY Zenon DEF Covered
<1> QED
  BY <1>1, <1>2, Zenon DEF BarrierInv

\* call_rcu(): the new callback waits for the sections open now and has no number yet.
LEMMA CallRcuInv ==
  ASSUME RcuInv, NEW c \in RcuCPU, NEW h \in RcuHead, call_rcu(c, h)
  PROVE  RcuInv'
<1>1. /\ UNCHANGED <<rcp, rlock, tpc, reading, barrier>> /\ Enqueue(c, h)
      /\ rcu_before' = [rcu_before EXCEPT ![h] = reading]
      /\ h \notin QueuedHeads /\ h \in AllHeads /\ h # c
  BY RcuAssumption, Zenon DEF call_rcu, AllHeads
<1>2. \A g \in RcuHead : rcu_before'[g] = IF g = h THEN reading ELSE rcu_before[g]
  BY <1>1, Zenon DEF RcuInv, RcuTypeOK
<1>3. RcuTypeOK'
  <2>1. rcu_before' \in [RcuHead -> SUBSET RcuCPU]
    BY <1>1 DEF RcuInv, RcuTypeOK
  <2>2. rdp' \in [RcuCPU -> RcuData]
    BY <1>1, EnqueueStep, Zenon
  <2> QED
    BY <1>1, <2>1, <2>2, Zenon DEF RcuInv, RcuTypeOK, RcuData
<1>4. \A k \in RcuCPU : /\ rdp'[k].quiescbatch = rdp[k].quiescbatch
                        /\ rdp'[k].qs_pending = rdp[k].qs_pending
                        /\ rdp'[k].passed_quiesc = rdp[k].passed_quiesc
                        /\ rdp'[k].batch = rdp[k].batch /\ rdp'[k].curlist = rdp[k].curlist
                        /\ rdp'[k].donelist = rdp[k].donelist
  BY <1>1, EnqueueStep, Zenon
<1>5. /\ RcuLockInv' /\ QuietInv' /\ NumberInv'
      /\ \A k \in RcuCPU : /\ Unaware(k)' <=> Unaware(k)
                           /\ Watching(k)' <=> Watching(k)
                           /\ Numbered(k)' <=> Numbered(k)
  BY <1>1, <1>4, QuietFrame, Zenon
<1>6. GraceInv'
  <2>1. \A g \in AllHeads : g # h => WaitsFor(g)' = WaitsFor(g)
    BY <1>1, <1>2, Zenon DEF WaitsFor
  <2>2. \A g \in RcuHead : rcu_before'[g] \subseteq reading'
    BY <1>1, <1>2, Zenon DEF RcuInv, GraceInv
  <2>3. \A k \in RcuCPU : Owes(k) => Owes(k)'
    BY <1>4, <1>5, Zenon DEF Owes
  <2>4. \A k \in RcuCPU : \A g \in HeadsOf(rdp[k].curlist) \union HeadsOf(rdp[k].donelist) :
           g \in AllHeads /\ g # h
    <3> TAKE k \in RcuCPU
    <3> TAKE g \in HeadsOf(rdp[k].curlist) \union HeadsOf(rdp[k].donelist)
    <3>1. g \in AllHeads
      BY ListedHeads, Zenon
    <3>2. g \in QueuedOn(k)
      BY Zenon DEF QueuedOn
    <3> QED
      BY <1>1, <3>1, <3>2, Zenon DEF QueuedHeads
  <2>5. \A k \in RcuCPU : \A g \in HeadsOf(rdp[k].curlist) \union HeadsOf(rdp[k].donelist) :
           WaitsFor(g)' \subseteq WaitsFor(g) /\ \A b \in WaitsFor(g)' : Owes(b) => Owes(b)'
    BY <2>1, <2>3, <2>4, WaitsForReaders, Zenon
  <2> QED
    BY <1>1, <1>4, <1>5, <2>2, <2>5, GraceFrame, Zenon
<1>7. BarrierInv'
  <2> USE DEF RcuInv
  <2>1. /\ \A k \in RcuCPU \ {c} : QueueOf(k)' = QueueOf(k)
        /\ QueueOf(c)' = Append(QueueOf(c), h) /\ QueueOf(c) \in Seq(AllHeads)
    BY <1>1, EnqueueStep, Zenon
  <2>2. /\ OwnHead(c, QueueOf(c)')
        /\ \A g, todo : Covered(g, c, QueueOf(c), todo) => Covered(g, c, QueueOf(c)', todo)
    <3>1. OwnHead(c, QueueOf(c))
      BY Zenon DEF BarrierInv
    <3>2. /\ OwnHead(c, Append(QueueOf(c), h))
          /\ \A g, todo : Covered(g, c, QueueOf(c), todo) => Covered(g, c, Append(QueueOf(c), h), todo)
      BY <1>1, <2>1, <3>1, QueueAppend, Zenon
    <3> QED
      BY <2>1, <3>2, Zenon
  <2>3. Posted' = Posted
    <3>1. HeadsOf(QueueOf(c)') = HeadsOf(QueueOf(c)) \union {h}
      BY <1>1, <2>1, HeadsOfAppend, Zenon
    <3>2. \A k \in RcuCPU : k \in HeadsOf(QueueOf(k)') <=> k \in HeadsOf(QueueOf(k))
      BY <1>1, <2>1, <3>1, Zenon
    <3> QED
      BY <3>2, Zenon DEF Posted, HeadsOf
  <2>4. PhaseInv'
    BY <1>1, <2>3, Zenon DEF BarrierInv, PhaseInv
  <2>5. \A k \in RcuCPU : OwnHead(k, QueueOf(k)')
    BY <2>1, <2>2, Zenon DEF BarrierInv
  <2>6. \A g \in barrier.covers : \E k \in RcuCPU : Covered(g, k, QueueOf(k)', barrier.todo)
    BY <2>1, <2>2, Zenon DEF BarrierInv
  <2> QED
    BY <1>1, <2>4, <2>5, <2>6, BarrierNext, Zenon
<1> QED
  BY <1>3, <1>5, <1>6, <1>7, Zenon DEF RcuInv

\* A barrier whose count is 0, atomic_dec_and_test(), has no callback left, and one with
\* a callback left has not reached 0.
LEMMA CountsNone ==
  /\ Counts(0, {})
  /\ \A n \in Nat : \A S : Counts(n, S) => (n = 0 <=> S = {})
<1>1. Counts(0, {})
  <2>1. [i \in 1 .. 0 |-> i] \in [1 .. 0 -> {}]
    OBVIOUS
  <2> QED
    BY <2>1 DEF Counts
<1>2. ASSUME NEW n \in Nat, NEW S, Counts(n, S) PROVE n = 0 <=> S = {}
  BY <1>2 DEF Counts
<1> QED
  BY <1>1, <1>2

\* atomic_inc() in rcu_barrier_func(): one callback more.
LEMMA CountsAdd ==
  ASSUME NEW n \in Nat, NEW S, NEW x, x \notin S, Counts(n, S)
  PROVE  Counts(n + 1, S \union {x})
<1>1. PICK f \in [1 .. n -> S] : /\ \A i, j \in 1 .. n : f[i] = f[j] => i = j
                               /\ \A y \in S : \E i \in 1 .. n : f[i] = y
  BY DEF Counts
<1> DEFINE g == [i \in 1 .. n + 1 |-> IF i = n + 1 THEN x ELSE f[i]]
<1>2. /\ g \in [1 .. n + 1 -> S \union {x}]
      /\ g[n + 1] = x
      /\ \A i \in 1 .. n : i \in 1 .. n + 1 /\ g[i] = f[i]
  OBVIOUS
<1> HIDE DEF g
<1>3. \A i, j \in 1 .. n + 1 : g[i] = g[j] => i = j
  BY <1>1, <1>2
<1>4. \A y \in S \union {x} : \E i \in 1 .. n + 1 : g[i] = y
  BY <1>1, <1>2
<1> QED
  BY <1>2, <1>3, <1>4 DEF Counts

\* atomic_dec_and_test() in rcu_barrier_callback(): one callback less.
LEMMA CountsRemove ==
  ASSUME NEW n \in Nat, NEW S, NEW x \in S, Counts(n, S)
  PROVE  n - 1 \in Nat /\ Counts(n - 1, S \ {x})
<1>1. PICK f \in [1 .. n -> S] : /\ \A i, j \in 1 .. n : f[i] = f[j] => i = j
                               /\ \A y \in S : \E i \in 1 .. n : f[i] = y
  BY DEF Counts
<1>2. PICK k \in 1 .. n : f[k] = x
  BY <1>1
<1> DEFINE g == [i \in 1 .. n - 1 |-> IF i = k THEN f[n] ELSE f[i]]
<1>3. n - 1 \in Nat /\ n \in 1 .. n
  BY <1>2
<1>4. \A i \in 1 .. n - 1 : i \in 1 .. n /\ i # n /\ g[i] = IF i = k THEN f[n] ELSE f[i]
  BY <1>3
<1>5. g \in [1 .. n - 1 -> S \ {x}]
  BY <1>1, <1>2, <1>3
<1> HIDE DEF g
<1>6. \A i, j \in 1 .. n - 1 : g[i] = g[j] => i = j
  BY <1>1, <1>2, <1>3, <1>4
<1>7. \A y \in S \ {x} : \E i \in 1 .. n - 1 : g[i] = y
  <2> TAKE y \in S \ {x}
  <2>1. PICK i \in 1 .. n : f[i] = y
    BY <1>1
  <2>2. CASE i = n
    <3>1. k \in 1 .. n - 1
      BY <1>2, <2>1, <2>2
    <3> QED
      BY <1>4, <2>1, <2>2, <3>1
  <2>3. CASE i # n
    <3>1. i \in 1 .. n - 1 /\ i # k
      BY <1>2, <2>1, <2>3
    <3> QED
      BY <1>4, <2>1, <3>1
  <2> QED
    BY <2>2, <2>3
<1> QED
  BY <1>3, <1>5, <1>6, <1>7 DEF Counts

\* rcu_barrier_func(), on each CPU: the callback is posted and counted, and with the
\* last of them the caller of on_each_cpu() is inside no more.
LEMMA BarrierFuncInv == ASSUME RcuInv, NEW c \in RcuCPU, rcu_barrier_func(c) PROVE RcuInv'
<1> DEFINE last == c = barrier.cpu
<1>1. /\ UNCHANGED <<rcp, rlock, tpc, reading, rcu_before>> /\ Enqueue(c, c)
      /\ barrier.at = "ipi" /\ c \in barrier.todo /\ (last => barrier.todo = {c})
      /\ c \in AllHeads
  BY Zenon DEF rcu_barrier_func, AllHeads
<1>2. /\ barrier' = [barrier EXCEPT !.todo = @ \ {c}, !.count = @ + 1,
                                    !.at = IF c = barrier.cpu THEN "wait" ELSE @,
                                    !.cpu = IF c = barrier.cpu THEN NoCPU ELSE @]
      /\ barrier \in [at : {"out", "ipi", "wait"}, cpu : RcuCPU \union {NoCPU}, todo : SUBSET RcuCPU,
                      count : Nat, completion : BOOLEAN, covers : SUBSET RcuHead]
  BY Zenon DEF rcu_barrier_func, RcuInv, RcuTypeOK
<1>3. /\ barrier'.todo = barrier.todo \ {c} /\ barrier'.count = barrier.count + 1
      /\ barrier'.at = (IF last THEN "wait" ELSE "ipi")
      /\ barrier'.cpu = (IF last THEN NoCPU ELSE barrier.cpu)
      /\ barrier'.completion = barrier.completion /\ barrier'.covers = barrier.covers
      /\ barrier' \in [at : {"out", "ipi", "wait"}, cpu : RcuCPU \union {NoCPU}, todo : SUBSET RcuCPU,
                       count : Nat, completion : BOOLEAN, covers : SUBSET RcuHead]
  <2> DEFINE a == IF c = barrier.cpu THEN "wait" ELSE barrier.at
             p == IF c = barrier.cpu THEN NoCPU ELSE barrier.cpu
             n == barrier.count + 1
             T == barrier.todo \ {c}
  <2>1. barrier' = [barrier EXCEPT !.todo = T, !.count = n, !.at = a, !.cpu = p]
    BY <1>2, Zenon
  <2>2. /\ barrier.count \in Nat /\ barrier.todo \subseteq RcuCPU /\ barrier.cpu \in RcuCPU \union {NoCPU}
        /\ n = barrier.count + 1 /\ T = barrier.todo \ {c}
    BY <1>2
  <2>3. a = (IF last THEN "wait" ELSE "ipi") /\ p = (IF last THEN NoCPU ELSE barrier.cpu)
    BY <1>1, Zenon
  <2>4. a \in {"out", "ipi", "wait"} /\ p \in RcuCPU \union {NoCPU}
    BY <1>1, <2>2, Zenon
  <2>5. n \in Nat /\ T \in SUBSET RcuCPU
    BY <2>2
  <2> HIDE DEF a, p, n, T, last
  <2>6. /\ barrier'.todo = T /\ barrier'.count = n /\ barrier'.at = a /\ barrier'.cpu = p
        /\ barrier'.completion = barrier.completion /\ barrier'.covers = barrier.covers
        /\ barrier' \in [at : {"out", "ipi", "wait"}, cpu : RcuCPU \union {NoCPU}, todo : SUBSET RcuCPU,
                         count : Nat, completion : BOOLEAN, covers : SUBSET RcuHead]
    BY <1>2, <2>1, <2>4, <2>5
  <2> QED
    BY <2>2, <2>3, <2>6, Zenon
<1> HIDE DEF last
<1>4. RcuTypeOK'
  <2>1. rdp' \in [RcuCPU -> RcuData]
    BY <1>1, EnqueueStep, Zenon
  <2> QED
    BY <1>1, <1>3, <2>1, Zenon DEF RcuInv, RcuTypeOK, RcuData
<1>5. \A k \in RcuCPU : /\ rdp'[k].quiescbatch = rdp[k].quiescbatch
                        /\ rdp'[k].qs_pending = rdp[k].qs_pending
                        /\ rdp'[k].passed_quiesc = rdp[k].passed_quiesc
                        /\ rdp'[k].batch = rdp[k].batch /\ rdp'[k].curlist = rdp[k].curlist
                        /\ rdp'[k].donelist = rdp[k].donelist
  BY <1>1, EnqueueStep, Zenon
<1>6. /\ RcuLockInv' /\ QuietInv' /\ NumberInv'
      /\ \A k \in RcuCPU : /\ Unaware(k)' <=> Unaware(k)
                           /\ Watching(k)' <=> Watching(k)
                           /\ Numbered(k)' <=> Numbered(k)
  BY <1>1, <1>5, QuietFrame, Zenon
<1>7. GraceInv'
  <2>1. \A h : WaitsFor(h)' \subseteq WaitsFor(h)
    BY <1>1, <1>3, Zenon DEF WaitsFor
  <2>2. \A h \in RcuHead : rcu_before'[h] \subseteq reading'
    BY <1>1, Zenon DEF RcuInv, GraceInv
  <2>3. \A k \in RcuCPU : Owes(k) => Owes(k)'
    BY <1>5, <1>6, Zenon DEF Owes
  <2>4. \A k \in RcuCPU : \A h \in HeadsOf(rdp[k].curlist) \union HeadsOf(rdp[k].donelist) :
           WaitsFor(h)' \subseteq WaitsFor(h) /\ \A b \in WaitsFor(h)' : Owes(b) => Owes(b)'
    BY <2>1, <2>3, WaitsForReaders, ListedHeads, Zenon
  <2> QED
    BY <1>1, <1>5, <1>6, <2>2, <2>4, GraceFrame, Zenon
<1>8. BarrierInv'
  <2> USE DEF RcuInv
  <2>1. /\ \A k \in RcuCPU \ {c} : QueueOf(k)' = QueueOf(k)
        /\ QueueOf(c)' = Append(QueueOf(c), c) /\ QueueOf(c) \in Seq(AllHeads)
    BY <1>1, EnqueueStep, Zenon
  <2>2. c \notin Posted /\ c \notin HeadsOf(QueueOf(c))
    BY <1>1, Zenon DEF BarrierInv, PhaseInv, Posted
  <2>3. /\ OwnHead(c, QueueOf(c)')
        /\ \A g : Covered(g, c, QueueOf(c), barrier.todo) => Covered(g, c, QueueOf(c)', barrier'.todo)
    <3>1. OwnHead(c, QueueOf(c))
      BY Zenon DEF BarrierInv
    <3>2. /\ OwnHead(c, Append(QueueOf(c), c))
          /\ \A g, todo : Covered(g, c, QueueOf(c), todo)
                             => Covered(g, c, Append(QueueOf(c), c), todo \ {c})
      BY <1>1, <2>1, <2>2, <3>1, QueueAppend, Zenon
    <3>3. barrier'.todo = barrier.todo \ {c}
      BY <1>3
    <3> QED
      BY <2>1, <3>2, <3>3, Zenon
  <2>4. Posted' = Posted \union {c}
    <3>1. HeadsOf(QueueOf(c)') = HeadsOf(QueueOf(c)) \union {c}
      BY <1>1, <2>1, HeadsOfAppend, Zenon
    <3>2. \A k \in RcuCPU : k \in HeadsOf(QueueOf(k)') <=> k \in HeadsOf(QueueOf(k)) \/ k = c
      BY <1>1, <2>1, <3>1, Zenon
    <3> QED
      BY <3>2, Zenon DEF Posted, HeadsOf
  <2>5. Counts(barrier.count + 1, Posted')
    <3>1. barrier.count \in Nat /\ Counts(barrier.count, Posted)
      BY Zenon DEF RcuInv, RcuTypeOK, BarrierInv, PhaseInv
    <3> QED
      BY <2>2, <2>4, <3>1, CountsAdd, Zenon
  <2>6. PhaseInv'
    <3>1. barrier.cpu \in barrier.todo /\ Posted = RcuCPU \ barrier.todo /\ ~barrier.completion
      BY <1>1, Zenon DEF BarrierInv, PhaseInv
    <3>3. Counts(barrier'.count, Posted')
      BY <1>3, <2>5, Zenon
    <3>4. Posted' # {} /\ Posted' = RcuCPU \ barrier'.todo
      BY <1>3, <2>4, <3>1, Zenon
    <3>5. ~barrier'.completion
      BY <1>3, <3>1, Zenon
    <3>6. CASE last
      BY <1>1, <1>3, <3>3, <3>4, <3>5, <3>6, Zenon DEF PhaseInv
    <3>7. CASE ~last
      <4>1. barrier'.at = "ipi" /\ barrier'.cpu \in barrier'.todo
        BY <1>3, <3>1, <3>7, Zenon DEF last
      <4> QED
        BY <3>3, <3>4, <3>5, <4>1, Zenon DEF PhaseInv
    <3> QED
      BY <3>6, <3>7
  <2>7. \A k \in RcuCPU : OwnHead(k, QueueOf(k)')
    BY <2>1, <2>3, Zenon DEF BarrierInv
  <2>8. \A g \in barrier'.covers : \E k \in RcuCPU : Covered(g, k, QueueOf(k)', barrier'.todo)
    <3> TAKE g \in barrier'.covers
    <3>1. PICK k \in RcuCPU : Covered(g, k, QueueOf(k), barrier.todo)
      BY <1>3, Zenon DEF BarrierInv
    <3>2. CASE k = c
      BY <2>3, <3>1, <3>2, Zenon
    <3>3. CASE k # c
      BY <1>3, <2>1, <3>1, <3>3, Zenon DEF Covered
    <3> QED
      BY <3>2, <3>3
  <2> QED
    BY <2>6, <2>7, <2>8, BarrierNext, Zenon
<1> QED
  BY <1>4, <1>6, <1>7, <1>8, Zenon DEF RcuInv

\* When the completion of rcu_barrier() is done, nothing it covers is queued.
LEMMA BarrierDone ==
  ASSUME RcuInv, barrier.completion
  PROVE  barrier.covers = {} /\ QueuedHeads \intersect RcuCPU = {} /\ barrier.at = "wait" /\ Posted = {}
<1>1. barrier.at = "wait" /\ Posted = {} /\ barrier.todo = {}
  BY Zenon DEF RcuInv, BarrierInv, PhaseInv
<1>2. \A k \in RcuCPU : k \notin HeadsOf(QueueOf(k))
  BY <1>1, Zenon DEF Posted
<1>3. ASSUME NEW h \in barrier.covers PROVE FALSE
  <2>1. PICK k \in RcuCPU : Covered(h, k, QueueOf(k), {})
    BY <1>1, Zenon DEF RcuInv, BarrierInv
  <2> QED
    BY <1>2, <2>1, Zenon DEF Covered, HeadsOf
<1>4. ASSUME NEW h \in RcuCPU, h \in QueuedHeads PROVE FALSE
  <2>1. PICK k \in RcuCPU : h \in QueuedOn(k)
    BY <1>4, Zenon DEF QueuedHeads
  <2>2. h \in HeadsOf(QueueOf(k)) /\ OwnHead(k, QueueOf(k))
    BY <2>1, ListedHeads, Zenon DEF RcuInv, BarrierInv
  <2>3. h \in RcuHead \union {k}
    BY <2>2, Zenon DEF HeadsOf, OwnHead
  <2> QED
    BY <1>2, <2>2, <2>3, RcuAssumption, Zenon
<1> QED
  BY <1>1, <1>3, <1>4, Zenon

\* rcu_barrier() returns.
LEMMA BarrierReturnInv == ASSUME RcuInv, BarrierReturn PROVE RcuInv'
<1>1. /\ UNCHANGED <<rcp, rlock, rdp, tpc, reading, rcu_before>>
      /\ barrier.at = "wait" /\ barrier.completion
      /\ barrier' = [barrier EXCEPT !.at = "out", !.completion = FALSE]
  BY Zenon DEF BarrierReturn
<1>2. /\ barrier'.at = "out" /\ barrier'.completion = FALSE
      /\ barrier'.cpu = barrier.cpu /\ barrier'.todo = barrier.todo /\ barrier'.count = barrier.count
      /\ barrier'.covers = barrier.covers
      /\ barrier' \in [at : {"out", "ipi", "wait"}, cpu : RcuCPU \union {NoCPU}, todo : SUBSET RcuCPU,
                       count : Nat, completion : BOOLEAN, covers : SUBSET RcuHead]
  BY <1>1 DEF RcuInv, RcuTypeOK
<1>3. RcuTypeOK'
  BY <1>1, <1>2, Zenon DEF RcuInv, RcuTypeOK
<1>4. /\ RcuLockInv' /\ QuietInv' /\ NumberInv'
      /\ \A k \in RcuCPU : /\ Unaware(k)' <=> Unaware(k)
                           /\ Watching(k)' <=> Watching(k)
                           /\ Numbered(k)' <=> Numbered(k)
  BY <1>1, QuietFrame, Zenon
<1>5. GraceInv'
  <2>1. \A h : WaitsFor(h)' = WaitsFor(h)
    BY <1>1, <1>2, Zenon DEF WaitsFor
  <2>2. \A h \in RcuHead : rcu_before'[h] \subseteq reading'
    BY <1>1, Zenon DEF RcuInv, GraceInv
  <2>3. \A k \in RcuCPU : Owes(k) => Owes(k)'
    BY <1>1, <1>4, Zenon DEF Owes
  <2>4. \A k \in RcuCPU : \A h \in HeadsOf(rdp[k].curlist) \union HeadsOf(rdp[k].donelist) :
           WaitsFor(h)' \subseteq WaitsFor(h) /\ \A b \in WaitsFor(h)' : Owes(b) => Owes(b)'
    BY <2>1, <2>3, WaitsForReaders, ListedHeads, Zenon
  <2> QED
    BY <1>1, <1>4, <2>2, <2>4, GraceFrame, Zenon
<1>6. BarrierInv'
  <2>1. /\ \A k \in RcuCPU : QueueOf(k)' = QueueOf(k)
        /\ Posted' = Posted
    BY <1>1, Zenon DEF QueueOf, Posted, HeadsOf
  <2>2. PhaseInv'
    BY <1>1, <1>2, <2>1, BarrierDone, Zenon DEF RcuInv, BarrierInv, PhaseInv
  <2>3. \A k \in RcuCPU : OwnHead(k, QueueOf(k)')
    BY <2>1, Zenon DEF RcuInv, BarrierInv
  <2>4. \A h \in barrier'.covers : \E k \in RcuCPU : Covered(h, k, QueueOf(k)', barrier'.todo)
    BY <1>1, <1>2, BarrierDone, Zenon
  <2> QED
    BY <2>2, <2>3, <2>4, BarrierNext, Zenon
<1> QED
  BY <1>3, <1>4, <1>5, <1>6, Zenon DEF RcuInv

\* rcu_barrier() is called: all that is queued is to be covered.
LEMMA BarrierCallInv == ASSUME RcuInv, NEW c \in RcuCPU, rcu_barrier(c) PROVE RcuInv'
<1> DEFINE covers == QueuedHeads \intersect RcuHead
<1>1. /\ UNCHANGED <<rcp, rlock, rdp, tpc, reading, rcu_before>> /\ barrier.at = "out"
      /\ barrier' = [at |-> "ipi", cpu |-> c, todo |-> RcuCPU, count |-> 0, completion |-> FALSE,
                     covers |-> covers]
  BY Zenon DEF rcu_barrier
<1>2. Posted = {} /\ \A k \in RcuCPU : HeadsOf(QueueOf(k)) \subseteq RcuHead
  <2>1. Posted = {}
    BY <1>1, Zenon DEF RcuInv, BarrierInv, PhaseInv
  <2>2. \A k \in RcuCPU : OwnHead(k, QueueOf(k)) /\ k \notin HeadsOf(QueueOf(k))
    BY <2>1, Zenon DEF RcuInv, BarrierInv, Posted
  <2>3. ASSUME NEW k \in RcuCPU, NEW i \in DOMAIN QueueOf(k) PROVE QueueOf(k)[i] \in RcuHead
    <3>1. QueueOf(k)[i] \in RcuHead \union {k}
      BY <2>2, Zenon DEF OwnHead
    <3>2. QueueOf(k)[i] \in HeadsOf(QueueOf(k))
      BY Zenon DEF HeadsOf
    <3>3. QueueOf(k)[i] # k
      BY <2>2, <3>2, Zenon
    <3> QED
      BY <3>1, <3>3, Zenon
  <2> QED
    BY <2>1, <2>3, Zenon DEF HeadsOf
<1>3. covers \subseteq RcuHead
  BY Zenon
<1> HIDE DEF covers
<1>4. /\ barrier'.at = "ipi" /\ barrier'.cpu = c /\ barrier'.todo = RcuCPU /\ barrier'.count = 0
      /\ barrier'.completion = FALSE /\ barrier'.covers = covers
      /\ barrier' \in [at : {"out", "ipi", "wait"}, cpu : RcuCPU \union {NoCPU}, todo : SUBSET RcuCPU,
                       count : Nat, completion : BOOLEAN, covers : SUBSET RcuHead]
  BY <1>1, <1>3
<1>5. RcuTypeOK'
  BY <1>1, <1>4, Zenon DEF RcuInv, RcuTypeOK
<1>6. /\ RcuLockInv' /\ QuietInv' /\ NumberInv'
      /\ \A k \in RcuCPU : /\ Unaware(k)' <=> Unaware(k)
                           /\ Watching(k)' <=> Watching(k)
                           /\ Numbered(k)' <=> Numbered(k)
  BY <1>1, QuietFrame, Zenon
<1>7. GraceInv'
  <2>1. \A h \in RcuHead : WaitsFor(h)' = WaitsFor(h)
    BY <1>1, Zenon DEF WaitsFor
  <2>2. \A h \in RcuHead : rcu_before'[h] \subseteq reading'
    BY <1>1, Zenon DEF RcuInv, GraceInv
  <2>3. \A k \in RcuCPU : Owes(k) => Owes(k)'
    BY <1>1, <1>6, Zenon DEF Owes
  <2>4. \A k \in RcuCPU : \A h \in HeadsOf(rdp[k].curlist) \union HeadsOf(rdp[k].donelist) :
           h \in RcuHead /\ h \in AllHeads
    <3> TAKE k \in RcuCPU
    <3>1. HeadsOf(rdp[k].curlist) \union HeadsOf(rdp[k].donelist) \subseteq HeadsOf(QueueOf(k))
      BY ListedHeads, Zenon DEF QueuedOn
    <3> QED
      BY <1>2, <3>1, Zenon DEF AllHeads
  <2>5. \A k \in RcuCPU : \A h \in HeadsOf(rdp[k].curlist) \union HeadsOf(rdp[k].donelist) :
           WaitsFor(h)' \subseteq WaitsFor(h) /\ \A b \in WaitsFor(h)' : Owes(b) => Owes(b)'
    BY <2>1, <2>3, <2>4, WaitsForReaders, Zenon
  <2> QED
    BY <1>1, <1>6, <2>2, <2>5, GraceFrame, Zenon
<1>8. BarrierInv'
  <2>1. /\ \A k \in RcuCPU : QueueOf(k)' = QueueOf(k)
        /\ Posted' = Posted
    BY <1>1, Zenon DEF QueueOf, Posted, HeadsOf
  <2>2. PhaseInv'
    BY <1>2, <1>4, <2>1, CountsNone, Zenon DEF PhaseInv
  <2>3. \A k \in RcuCPU : OwnHead(k, QueueOf(k)')
    BY <2>1, Zenon DEF RcuInv, BarrierInv
  <2>4. \A h \in barrier'.covers : \E k \in RcuCPU : Covered(h, k, QueueOf(k)', barrier'.todo)
    <3> TAKE h \in barrier'.covers
    <3>1. PICK k \in RcuCPU : h \in QueuedOn(k)
      <4>1. h \in covers
        BY <1>4
      <4>2. h \in QueuedHeads
        BY <4>1, Zenon DEF covers
      <4> QED
        BY <4>2, Zenon DEF QueuedHeads
    <3>2. h \in HeadsOf(QueueOf(k)')
      BY <2>1, <3>1, ListedHeads, Zenon
    <3> QED
      BY <1>4, <3>2, Zenon DEF Covered, HeadsOf
  <2> QED
    BY <2>2, <2>3, <2>4, BarrierNext, Zenon
<1> QED
  BY <1>5, <1>6, <1>7, <1>8, Zenon DEF RcuInv

-----------------------------------------------------------------------------
\* What rcu_process_callbacks() learns from comparing rdp->batch with completed: a batch
\* that is not after it waits for nobody.
LEMMA BatchStatus ==
  ASSUME RcuInv, NEW c \in RcuCPU, Numbered(c)
  PROVE  /\ rcu_batch_before(rcp.completed, rdp[c].batch) =>
              rdp[c].batch = NextBatch(rcp.cur) \/ rdp[c].batch = rcp.cur
         /\ ~rcu_batch_before(rcp.completed, rdp[c].batch) =>
              \A h \in HeadsOf(rdp[c].curlist) : WaitsFor(h) = {}
<1>1. /\ rcp.cur \in Batches /\ rcp.completed \in Batches /\ rdp[c].batch \in Batches
  BY DEF RcuInv, RcuTypeOK
<1>2. InBounds(c)
  BY Zenon DEF RcuInv, NumberInv
<1>3. rcp.completed = rcp.cur \/ rcp.cur = NextBatch(rcp.completed)
  BY Zenon DEF RcuInv, QuietInv
<1>4. CASE rdp[c].batch = NextBatch(rcp.cur)
  <2>1. rcu_batch_before(rcp.completed, rdp[c].batch)
    BY <1>1, <1>3, <1>4, BatchOrder, Zenon
  <2> QED
    BY <1>4, <2>1, Zenon
<1>5. CASE rdp[c].batch = rcp.cur
  <2> SUFFICES ASSUME ~rcu_batch_before(rcp.completed, rdp[c].batch), NEW h \in HeadsOf(rdp[c].curlist)
               PROVE  WaitsFor(h) = {}
    BY <1>5, Zenon
  <2>1. rcp.completed = rcp.cur
    BY <1>1, <1>3, <1>5, BatchOrder, Zenon
  <2>2. rcp.cpumask = {}
    BY <2>1, Zenon DEF RcuInv, QuietInv
  <2>3. h \in AllHeads /\ WaitsFor(h) \subseteq RcuCPU
    BY ListedHeads, WaitsForReaders, Zenon
  <2>4. \A b \in WaitsFor(h) : Owes(b)
    BY <1>5, <2>3, Zenon DEF RcuInv, GraceInv, Safe
  <2> QED
    BY <2>2, <2>4, Zenon DEF Owes, Unaware, Watching
<1>6. CASE rcp.cur = NextBatch(rdp[c].batch) /\ rdp[c].batch # NextBatch(rcp.cur) /\ rdp[c].batch # rcp.cur
  <2>1. Unaware(c) \/ Watching(c)
    BY <1>2, <1>6, Zenon DEF InBounds
  <2>2. rcp.completed # rcp.cur
    BY <2>1, Zenon DEF RcuInv, QuietInv, Unaware, Watching
  <2>3. rcp.completed = rdp[c].batch
    BY <1>1, <1>3, <1>6, <2>2, BatchesDiffer, Zenon
  <2>4. ~rcu_batch_before(rcp.completed, rdp[c].batch)
    BY <1>1, <2>3, BatchOrder, Zenon
  <2>5. \A h \in HeadsOf(rdp[c].curlist) : h \in AllHeads
    BY ListedHeads, Zenon
  <2>6. \A h \in HeadsOf(rdp[c].curlist) : WaitsFor(h) = {}
    BY <1>6, <2>5, Zenon DEF RcuInv, GraceInv, Safe
  <2> QED
    BY <2>4, <2>6, Zenon
<1> QED
  BY <1>2, <1>4, <1>5, <1>6, Zenon DEF InBounds

\* Steps of the tasklet that leave grace periods alone.
LEMMA TaskletFrame ==
  ASSUME RcuInv, UNCHANGED rcp,
         \A k \in RcuCPU : /\ rdp'[k].quiescbatch = rdp[k].quiescbatch
                           /\ rdp'[k].qs_pending = rdp[k].qs_pending
                           /\ rdp'[k].passed_quiesc = rdp[k].passed_quiesc
                           /\ tpc'[k] = "quiet" <=> tpc[k] = "quiet"
  PROVE  /\ QuietInv'
         /\ \A k \in RcuCPU : /\ Unaware(k)' <=> Unaware(k)
                              /\ Watching(k)' <=> Watching(k)
                              /\ Owes(k)' <=> Owes(k)
<1>1. \A k \in RcuCPU : /\ Unaware(k)' <=> Unaware(k)
                        /\ Watching(k)' <=> Watching(k)
                        /\ Reporting(k)' <=> Reporting(k)
                        /\ Through(k)' <=> Through(k)
  BY Zenon DEF Unaware, Watching, Reporting, Through
<1>2. \A k \in RcuCPU : Owes(k)' <=> Owes(k)
  BY <1>1, Zenon DEF Owes
<1>3. QuietInv'
  BY <1>1, Zenon DEF RcuInv, QuietInv, NextBatch
<1> QED
  BY <1>1, <1>2, <1>3, Zenon

\* The start of rcu_process_callbacks(): a list whose batch is completed moves on to
\* donelist, and nxtlist to curlist when that is empty; the queue as a whole stays.
LEMMA ProcessCallbacksInv ==
  ASSUME RcuInv, NEW c \in RcuCPU, rcu_process_callbacks(c)
  PROVE  RcuInv' /\ (\A k \in RcuCPU : QueueOf(k)' = QueueOf(k))
<1> DEFINE d == rdp[c]
           done == d.curlist # <<>> /\ ~rcu_batch_before(rcp.completed, d.batch)
           cur == IF done THEN <<>> ELSE d.curlist
           new == d.nxtlist # <<>> /\ cur = <<>>
           done1 == IF done THEN d.donelist \o d.curlist ELSE d.donelist
           cur1 == IF new THEN d.nxtlist ELSE cur
           nxt1 == IF new THEN <<>> ELSE d.nxtlist
           batch1 == IF done THEN 0 ELSE d.batch
<1>1. /\ UNCHANGED <<rcp, rlock, reading, rcu_before, barrier>> /\ tpc[c] = "idle"
      /\ tpc' = [tpc EXCEPT ![c] = IF new THEN "number" ELSE "check"]
      /\ rdp' = [rdp EXCEPT ![c].donelist = done1, ![c].curlist = cur1,
                            ![c].nxtlist = nxt1, ![c].batch = batch1]
  BY Zenon DEF rcu_process_callbacks, TGoto
<1>2. /\ rdp \in [RcuCPU -> RcuData]
      /\ d.donelist \in Seq(AllHeads) /\ d.curlist \in Seq(AllHeads) /\ d.nxtlist \in Seq(AllHeads)
      /\ d.batch \in Batches
  BY DEF RcuInv, RcuTypeOK, RcuData
<1>3. /\ done1 \in Seq(AllHeads) /\ cur1 \in Seq(AllHeads) /\ nxt1 \in Seq(AllHeads)
      /\ batch1 \in Batches
  <2>1. d.donelist \o d.curlist \in Seq(AllHeads) /\ <<>> \in Seq(AllHeads) /\ 0 \in Batches
    BY <1>2, RcuAssumption DEF Batches
  <2> QED
    BY <1>2, <2>1, Zenon
<1>4. \A k \in RcuCPU : tpc'[k] = IF k = c THEN (IF new THEN "number" ELSE "check") ELSE tpc[k]
  BY <1>1, Zenon DEF RcuInv, RcuTypeOK
<1>5. /\ rdp' \in [RcuCPU -> RcuData]
      /\ \A k \in RcuCPU \ {c} : rdp'[k] = rdp[k]
      /\ rdp'[c].donelist = done1 /\ rdp'[c].curlist = cur1 /\ rdp'[c].nxtlist = nxt1
      /\ rdp'[c].batch = batch1 /\ rdp'[c].quiescbatch = d.quiescbatch
      /\ rdp'[c].qs_pending = d.qs_pending /\ rdp'[c].passed_quiesc = d.passed_quiesc
  <2>1. rdp' = [rdp EXCEPT ![c].donelist = done1, ![c].curlist = cur1,
                           ![c].nxtlist = nxt1, ![c].batch = batch1]
    BY <1>1, Zenon
  <2> HIDE DEF done, cur, new, done1, cur1, nxt1, batch1
  <2>2. /\ rdp \in [RcuCPU -> RcuData] /\ rdp' = [rdp EXCEPT ![c] = rdp'[c]]
        /\ rdp'[c] = [d EXCEPT !.donelist = done1, !.curlist = cur1, !.nxtlist = nxt1, !.batch = batch1]
    BY <1>2, <2>1, Zenon
  <2>3. /\ rdp'[c] \in RcuData
        /\ rdp'[c].donelist = done1 /\ rdp'[c].curlist = cur1 /\ rdp'[c].nxtlist = nxt1
        /\ rdp'[c].batch = batch1 /\ rdp'[c].quiescbatch = d.quiescbatch
        /\ rdp'[c].qs_pending = d.qs_pending /\ rdp'[c].passed_quiesc = d.passed_quiesc
    <3> DEFINE B == BOOLEAN
               S == Seq(AllHeads)
    <3>1. RcuData = [quiescbatch : Batches, passed_quiesc : B, qs_pending : B,
                     batch : Batches, nxtlist : S, curlist : S, donelist : S]
      BY Zenon DEF RcuData
    <3>2. d \in RcuData /\ done1 \in S /\ cur1 \in S /\ nxt1 \in S
      BY <1>2, <1>3, Zenon
    <3> HIDE DEF d, B, S
    <3> DEFINE r == [quiescbatch |-> d.quiescbatch, passed_quiesc |-> d.passed_quiesc,
                     qs_pending |-> d.qs_pending, batch |-> batch1, nxtlist |-> nxt1,
                     curlist |-> cur1, donelist |-> done1]
    <3>3. rdp'[c] = r
      BY <2>2, <3>1, <3>2, Zenon
    <3>4. /\ d.quiescbatch \in Batches /\ d.passed_quiesc \in B /\ d.qs_pending \in B
      BY <3>1, <3>2
    <3>5. /\ r.donelist = done1 /\ r.curlist = cur1 /\ r.nxtlist = nxt1
          /\ r.batch = batch1 /\ r.quiescbatch = d.quiescbatch
          /\ r.qs_pending = d.qs_pending /\ r.passed_quiesc = d.passed_quiesc
      BY Zenon
    <3>6. r \in RcuData
      BY <1>3, <3>1, <3>2, <3>4, Zenon
    <3> HIDE DEF r
    <3> QED
      BY <3>3, <3>5, <3>6, Zenon
  <2> QED
    BY <2>2, <2>3, Zenon
<1>6. done1 \o cur1 \o nxt1 = QueueOf(c)
  <2>1. \A s \in Seq(AllHeads), t \in Seq(AllHeads) : s \o <<>> \o t = s \o t /\ s \o t \o <<>> = s \o t
                                                      /\ s \o t \in Seq(AllHeads)
    OBVIOUS
  <2>2. d.donelist \o d.curlist \in Seq(AllHeads)
    BY <1>2, <2>1, Zenon
  <2>3. CASE done
    BY <1>2, <2>1, <2>2, <2>3, Zenon DEF QueueOf
  <2>4. CASE ~done /\ new
    <3>1. d.curlist = <<>> /\ done1 = d.donelist /\ cur1 = d.nxtlist /\ nxt1 = <<>>
      BY <2>4, Zenon
    <3>2. QueueOf(c) = d.donelist \o <<>> \o d.nxtlist
      BY <3>1, Zenon DEF QueueOf
    <3>3. /\ d.donelist \o <<>> \o d.nxtlist = d.donelist \o d.nxtlist
          /\ d.donelist \o d.nxtlist \o <<>> = d.donelist \o d.nxtlist
      BY <1>2, <2>1
    <3> HIDE DEF d, done1, cur1, nxt1
    <3> QED
      BY <3>1, <3>2, <3>3
  <2>5. CASE ~done /\ ~new
    BY <1>2, <2>5, Zenon DEF QueueOf
  <2> QED
    BY <2>3, <2>4, <2>5
<1>7. RcuTypeOK'
  <2>1. tpc' \in [RcuCPU -> TaskletLabels]
    BY <1>1, Zenon DEF RcuInv, RcuTypeOK, TaskletLabels
  <2> QED
    BY <1>1, <1>5, <2>1, Zenon DEF RcuInv, RcuTypeOK, RcuData
<1>8. RcuLockInv'
  <2>1. tpc'[c] \notin Starting /\ tpc'[c] # "invoke"
    BY <1>4, Zenon DEF Starting
  <2>2. \A k \in RcuCPU \ {c} : tpc'[k] = tpc[k] /\ rdp'[k].donelist = rdp[k].donelist
    BY <1>4, <1>5, Zenon
  <2> QED
    BY <1>1, <2>1, <2>2, LockFrame, Zenon DEF RcuInv
<1>9. /\ QuietInv'
      /\ \A k \in RcuCPU : /\ Unaware(k)' <=> Unaware(k)
                           /\ Watching(k)' <=> Watching(k)
                           /\ Owes(k)' <=> Owes(k)
  <2>1. \A k \in RcuCPU : /\ rdp'[k].quiescbatch = rdp[k].quiescbatch
                          /\ rdp'[k].qs_pending = rdp[k].qs_pending
                          /\ rdp'[k].passed_quiesc = rdp[k].passed_quiesc
                          /\ tpc'[k] = "quiet" <=> tpc[k] = "quiet"
    <3> TAKE k \in RcuCPU
    <3>1. tpc'[k] = "quiet" <=> tpc[k] = "quiet"
      <4>1. tpc'[c] \in {"number", "check"} /\ tpc[c] = "idle"
        BY <1>1, <1>4, Zenon
      <4>2. k # c => tpc'[k] = tpc[k]
        BY <1>4, Zenon
      <4> QED
        BY <4>1, <4>2, Zenon
    <3>2. CASE k = c
      BY <1>5, <3>1, <3>2, Zenon
    <3>3. CASE k # c
      BY <1>5, <3>1, <3>3, Zenon
    <3> QED
      BY <3>2, <3>3
  <2> QED
    BY <1>1, <2>1, TaskletFrame, Zenon
<1>10. Numbered(c)' => /\ Numbered(c) /\ rcu_batch_before(rcp.completed, d.batch)
                       /\ tpc'[c] = "check" /\ cur1 = d.curlist /\ batch1 = d.batch
  <2> HAVE Numbered(c)'
  <2>1. ~new /\ cur1 # <<>> /\ tpc'[c] = "check"
    BY <1>4, <1>5, Zenon DEF Numbered
  <2>2. ~done /\ d.curlist # <<>>
    BY <2>1, Zenon
  <2> QED
    BY <1>1, <2>1, <2>2, Zenon DEF Numbered
<1>11. NumberInv'
  <2> SUFFICES ASSUME NEW k \in RcuCPU, Numbered(k)' PROVE InBounds(k)'
    BY Zenon DEF NumberInv
  <2>1. CASE k = c
    <3>1. d.batch = NextBatch(rcp.cur) \/ d.batch = rcp.cur
      BY <1>10, <2>1, BatchStatus, Zenon
    <3>2. tpc'[c] \notin Registering
      BY <1>10, <2>1, Zenon DEF Registering
    <3>3. rdp'[c].batch = d.batch /\ rcp' = rcp
      BY <1>1, <1>5, <1>10, <2>1, Zenon
    <3> QED
      BY <2>1, <3>1, <3>2, <3>3, Zenon DEF InBounds, NextBatch
  <2>2. CASE k # c
    <3>1. rdp'[k] = rdp[k] /\ tpc'[k] = tpc[k]
      BY <1>4, <1>5, <2>2, Zenon
    <3>2. InBounds(k)
      BY <3>1, Zenon DEF RcuInv, NumberInv, Numbered
    <3> QED
      BY <1>1, <1>9, <3>1, <3>2, Zenon DEF InBounds, NextBatch
  <2> QED
    BY <2>1, <2>2
<1>12. GraceInv'
  <2>1. \A h \in AllHeads : WaitsFor(h)' = WaitsFor(h) /\ WaitsFor(h) \subseteq RcuCPU
    BY <1>1, WaitsForReaders, Zenon DEF WaitsFor
  <2>2. \A h \in RcuHead : rcu_before'[h] \subseteq reading'
    BY <1>1, Zenon DEF RcuInv, GraceInv
  <2> SUFFICES ASSUME NEW k \in RcuCPU, NEW h \in AllHeads PROVE Safe(k, h)'
    BY <2>2, Zenon DEF GraceInv
  <2>3. Safe(k, h)
    BY Zenon DEF RcuInv, GraceInv
  <2>4. CASE k = c
    <3>1. h \in HeadsOf(rdp'[c].donelist) => WaitsFor(h)' = {}
      <4> SUFFICES ASSUME h \in HeadsOf(done1) PROVE WaitsFor(h) = {}
        BY <1>5, <2>1, Zenon
      <4>1. CASE done
        <5>1. h \in HeadsOf(d.donelist) \/ h \in HeadsOf(d.curlist)
          BY <1>2, <4>1, HeadsOfConcat, Zenon
        <5>2. Numbered(c)
          BY <1>1, <4>1, Zenon DEF Numbered
        <5>3. h \in HeadsOf(d.curlist) => WaitsFor(h) = {}
          BY <4>1, <5>2, BatchStatus, Zenon
        <5>4. h \in HeadsOf(d.donelist) => WaitsFor(h) = {}
          BY <2>3, <2>4, Zenon DEF Safe
        <5> QED
          BY <5>1, <5>3, <5>4
      <4>2. CASE ~done
        BY <2>3, <2>4, <4>2, Zenon DEF Safe
      <4> QED
        BY <4>1, <4>2
    <3>2. ASSUME Numbered(c)'
          PROVE  /\ rdp'[c].curlist = d.curlist /\ rdp'[c].batch = d.batch /\ Numbered(c)
      BY <1>5, <1>10, <3>2, Zenon
    <3>3. ASSUME h \in HeadsOf(rdp'[c].curlist), Numbered(c)'
          PROVE  /\ rdp'[c].batch = rcp'.cur => \A b \in WaitsFor(h)' : Owes(b)'
                 /\ rcp'.cur = NextBatch(rdp'[c].batch) => WaitsFor(h)' = {}
      <4>1. h \in HeadsOf(d.curlist) /\ rdp'[c].batch = d.batch /\ Numbered(c) /\ rcp'.cur = rcp.cur
        BY <1>1, <3>2, <3>3, Zenon
      <4> QED
        BY <1>9, <2>1, <2>3, <2>4, <4>1, Zenon DEF Safe
    <3> QED
      BY <2>4, <3>1, <3>3, Zenon DEF Safe, HeadsOf, NextBatch
  <2>5. CASE k # c
    <3>1. rdp'[k] = rdp[k] /\ (Numbered(k)' <=> Numbered(k))
      BY <1>4, <1>5, <2>5, Zenon DEF Numbered
    <3> QED
      BY <1>1, <1>9, <2>1, <2>3, <3>1, Zenon DEF Safe, HeadsOf, NextBatch
  <2> QED
    BY <2>4, <2>5
<1>13. \A k \in RcuCPU : QueueOf(k)' = QueueOf(k)
  <2>1. QueueOf(c)' = QueueOf(c)
    <3>1. QueueOf(c)' = done1 \o cur1 \o nxt1
      BY <1>5, Zenon DEF QueueOf
    <3> HIDE DEF done1, cur1, nxt1
    <3> QED
      BY <1>6, <3>1, Zenon
  <2> QED
    BY <1>5, <2>1, Zenon DEF QueueOf
<1>14. BarrierInv'
  BY <1>1, <1>13, BarrierFrame, Zenon DEF RcuInv
<1> QED
  BY <1>7, <1>8, <1>9, <1>11, <1>12, <1>13, <1>14, Zenon DEF RcuInv

\* rcu_do_batch() invokes the callback in front: it waits for nobody.
LEMMA DoBatchInv ==
  ASSUME RcuInv, NEW c \in RcuCPU, rcu_do_batch(c)
  PROVE  /\ RcuInv'
         /\ \A k \in RcuCPU \ {c} : QueueOf(k)' = QueueOf(k)
         /\ \E h \in AllHeads : /\ WaitsFor(h) = {}
                                /\ HeadsOf(QueueOf(c)) = {h} \union HeadsOf(QueueOf(c)')
<1> DEFINE h == Head(rdp[c].donelist)
           rest == Tail(rdp[c].donelist)
<1>1. /\ UNCHANGED <<rcp, rlock, reading, rcu_before>> /\ tpc[c] = "invoke"
      /\ rdp' = [rdp EXCEPT ![c].donelist = rest]
      /\ barrier' = IF h \in RcuCPU
                    THEN [barrier EXCEPT !.count = @ - 1, !.completion = @ \/ barrier.count = 1]
                    ELSE [barrier EXCEPT !.covers = @ \ {h}]
      /\ rdp[c].donelist # <<>>
  BY Zenon DEF rcu_do_batch, RcuInv, RcuLockInv
<1>2. PICK l \in {"idle", "invoke"} : tpc' = [tpc EXCEPT ![c] = l] /\ (l = "invoke" => rest # <<>>)
  BY Zenon DEF rcu_do_batch, TGoto
<1>3. \A k \in RcuCPU : tpc'[k] = IF k = c THEN l ELSE tpc[k]
  BY <1>2, Zenon DEF RcuInv, RcuTypeOK
<1>4. /\ rdp \in [RcuCPU -> RcuData]
      /\ rdp[c].donelist \in Seq(AllHeads) /\ rdp[c].curlist \in Seq(AllHeads)
      /\ rdp[c].nxtlist \in Seq(AllHeads)
  BY DEF RcuInv, RcuTypeOK, RcuData
<1>5. rest \in Seq(AllHeads) /\ h \in AllHeads /\ h \in HeadsOf(rdp[c].donelist)
      /\ HeadsOf(rdp[c].donelist) = {h} \union HeadsOf(rest)
  <2>1. rest \in Seq(AllHeads) /\ h \in AllHeads
    BY <1>1, <1>4
  <2> QED
    BY <1>1, <1>4, <2>1, HeadsOfTail, Zenon
<1>6. QueueOf(c) \in Seq(AllHeads) /\ QueueOf(c) # <<>> /\ Head(QueueOf(c)) = h
      /\ Tail(QueueOf(c)) = rest \o rdp[c].curlist \o rdp[c].nxtlist
  <2>1. \A s, t \in Seq(AllHeads) : s \o t \in Seq(AllHeads)
    OBVIOUS
  <2>2. \A s, t \in Seq(AllHeads) : s # <<>> => s \o t # <<>> /\ Head(s \o t) = Head(s)
    OBVIOUS
  <2>3. \A s, t \in Seq(AllHeads) : s # <<>> => Tail(s \o t) = Tail(s) \o t
    OBVIOUS
  <2>4. rdp[c].donelist \o rdp[c].curlist \in Seq(AllHeads) /\ rdp[c].donelist \o rdp[c].curlist # <<>>
    BY <1>1, <1>4, <2>1, <2>2, Zenon
  <2>5. /\ QueueOf(c) \in Seq(AllHeads) /\ QueueOf(c) # <<>>
        /\ Head(QueueOf(c)) = h
    <3> DEFINE a == rdp[c].donelist \o rdp[c].curlist
    <3>1. QueueOf(c) = a \o rdp[c].nxtlist
      BY Zenon DEF QueueOf
    <3>2. a \in Seq(AllHeads) /\ a # <<>> /\ Head(a) = h
      BY <1>1, <1>4, <2>2, <2>4, Zenon
    <3> HIDE DEF a
    <3> QED
      BY <1>4, <2>1, <2>2, <3>1, <3>2, Zenon
  <2>6. Tail(QueueOf(c)) = Tail(rdp[c].donelist \o rdp[c].curlist) \o rdp[c].nxtlist
    BY <1>4, <2>3, <2>4, Zenon DEF QueueOf
  <2>7. Tail(rdp[c].donelist \o rdp[c].curlist) = rest \o rdp[c].curlist
    BY <1>1, <1>4, <2>3, Zenon
  <2> QED
    BY <2>5, <2>6, <2>7, Zenon
<1> HIDE DEF h, rest
<1>7. /\ rdp' \in [RcuCPU -> RcuData]
      /\ \A k \in RcuCPU \ {c} : rdp'[k] = rdp[k]
      /\ rdp'[c].donelist = rest /\ rdp'[c].curlist = rdp[c].curlist /\ rdp'[c].nxtlist = rdp[c].nxtlist
      /\ rdp'[c].batch = rdp[c].batch /\ rdp'[c].quiescbatch = rdp[c].quiescbatch
      /\ rdp'[c].qs_pending = rdp[c].qs_pending /\ rdp'[c].passed_quiesc = rdp[c].passed_quiesc
  BY <1>1, <1>4, <1>5 DEF RcuData
<1>8. RcuLockInv'
  <2>1. tpc'[c] \notin Starting /\ (tpc'[c] = "invoke" => rdp'[c].donelist # <<>>)
    BY <1>2, <1>3, <1>7, Zenon DEF Starting
  <2>2. \A k \in RcuCPU \ {c} : tpc'[k] = tpc[k] /\ rdp'[k].donelist = rdp[k].donelist
    BY <1>3, <1>7, Zenon
  <2> QED
    BY <1>1, <2>1, <2>2, LockFrame, Zenon DEF RcuInv
<1>9. /\ QuietInv'
      /\ \A k \in RcuCPU : /\ Unaware(k)' <=> Unaware(k)
                           /\ Watching(k)' <=> Watching(k)
                           /\ Owes(k)' <=> Owes(k)
  <2>1. \A k \in RcuCPU : /\ rdp'[k].quiescbatch = rdp[k].quiescbatch
                          /\ rdp'[k].qs_pending = rdp[k].qs_pending
                          /\ rdp'[k].passed_quiesc = rdp[k].passed_quiesc
    BY <1>7, Zenon
  <2>2. \A k \in RcuCPU : tpc'[k] = "quiet" <=> tpc[k] = "quiet"
    BY <1>1, <1>2, <1>3, Zenon
  <2> QED
    BY <1>1, <2>1, <2>2, TaskletFrame, Zenon
<1>10. \A k \in RcuCPU : /\ rdp'[k].batch = rdp[k].batch /\ rdp'[k].curlist = rdp[k].curlist
                         /\ Numbered(k)' <=> Numbered(k)
  <2>1. \A k \in RcuCPU : rdp'[k].batch = rdp[k].batch /\ rdp'[k].curlist = rdp[k].curlist
    BY <1>7, Zenon
  <2>2. \A k \in RcuCPU : tpc'[k] = "number" <=> tpc[k] = "number"
    BY <1>1, <1>2, <1>3, Zenon
  <2> QED
    BY <2>1, <2>2, Zenon DEF Numbered
<1>11. NumberInv'
  <2> SUFFICES ASSUME NEW k \in RcuCPU, Numbered(k)' PROVE InBounds(k)'
    BY Zenon DEF NumberInv
  <2>1. InBounds(k)
    BY <1>10, Zenon DEF RcuInv, NumberInv
  <2>2. tpc'[k] \in Registering => tpc[k] \in Registering
    BY <1>2, <1>3, Zenon DEF Registering
  <2>3. tpc'[k] = "check" => tpc[k] = "check"
    BY <1>2, <1>3, Zenon
  <2> QED
    BY <1>1, <1>9, <1>10, <2>1, <2>2, <2>3, Zenon DEF InBounds, NextBatch
<1>12. WaitsFor(h) = {}
  BY <1>5, Zenon DEF RcuInv, GraceInv, Safe
<1>13. /\ OwnHead(c, Tail(QueueOf(c))) /\ h \in RcuHead \union {c}
       /\ h = c => c \notin HeadsOf(Tail(QueueOf(c)))
       /\ \A g, todo : Covered(g, c, QueueOf(c), todo) /\ g # h => Covered(g, c, Tail(QueueOf(c)), todo)
       /\ HeadsOf(QueueOf(c)) = {h} \union HeadsOf(Tail(QueueOf(c)))
  <2>1. OwnHead(c, QueueOf(c))
    BY Zenon DEF RcuInv, BarrierInv
  <2>2. HeadsOf(QueueOf(c)) = {h} \union HeadsOf(Tail(QueueOf(c)))
    BY <1>6, HeadsOfTail, Zenon
  <2> QED
    BY <1>6, <2>1, <2>2, QueueTail, Zenon
<1>14. /\ QueueOf(c)' = Tail(QueueOf(c))
       /\ \A k \in RcuCPU \ {c} : QueueOf(k)' = QueueOf(k)
  BY <1>6, <1>7, Zenon DEF QueueOf
<1>15. h \in RcuCPU => h = c /\ c \in Posted /\ Posted' = Posted \ {c} /\ barrier.at = "wait"
                       /\ ~barrier.completion
  <2> HAVE h \in RcuCPU
  <2>1. h = c /\ c \in Posted
    BY <1>13, RcuAssumption, Zenon DEF Posted
  <2>2. Posted' = Posted \ {c}
    <3>1. \A k \in RcuCPU : k \in HeadsOf(QueueOf(k)') <=> k \in HeadsOf(QueueOf(k)) /\ k # c
      BY <1>13, <1>14, <2>1, Zenon
    <3> QED
      BY <3>1, Zenon DEF Posted, HeadsOf
  <2>3. barrier.at # "ipi"
    BY <1>12, RcuAssumption, Zenon DEF WaitsFor
  <2>4. barrier.at # "out" /\ ~barrier.completion
    BY <2>1, Zenon DEF RcuInv, BarrierInv, PhaseInv
  <2>5. barrier.at \in {"out", "ipi", "wait"}
    BY DEF RcuInv, RcuTypeOK
  <2> QED
    BY <2>1, <2>2, <2>3, <2>4, <2>5, Zenon
<1>16. h \notin RcuCPU => Posted' = Posted
  <2> HAVE h \notin RcuCPU
  <2>1. \A k \in RcuCPU : k \in HeadsOf(QueueOf(k)') <=> k \in HeadsOf(QueueOf(k))
    BY <1>13, <1>14, Zenon
  <2> QED
    BY <2>1, Zenon DEF Posted, HeadsOf
<1>17. /\ barrier' \in [at : {"out", "ipi", "wait"}, cpu : RcuCPU \union {NoCPU}, todo : SUBSET RcuCPU,
                        count : Nat, completion : BOOLEAN, covers : SUBSET RcuHead]
       /\ barrier'.at = barrier.at /\ barrier'.cpu = barrier.cpu /\ barrier'.todo = barrier.todo
       /\ barrier'.covers \subseteq barrier.covers /\ h \notin barrier'.covers
       /\ PhaseInv'
  <2>1. barrier \in [at : {"out", "ipi", "wait"}, cpu : RcuCPU \union {NoCPU}, todo : SUBSET RcuCPU,
                     count : Nat, completion : BOOLEAN, covers : SUBSET RcuHead]
    BY Zenon DEF RcuInv, RcuTypeOK
  <2>2. barrier.count \in Nat /\ Counts(barrier.count, Posted)
    BY Zenon DEF RcuInv, RcuTypeOK, BarrierInv, PhaseInv
  <2>3. CASE h \in RcuCPU
    <3> DEFINE n == barrier.count - 1
               z == barrier.completion \/ barrier.count = 1
    <3>1. barrier' = [barrier EXCEPT !.count = n, !.completion = z]
      BY <1>1, <2>3, Zenon
    <3>2. n \in Nat /\ Counts(n, Posted')
      <4>1. c \in Posted /\ Posted' = Posted \ {c}
        BY <1>15, <2>3
      <4> QED
        BY <2>2, <4>1, CountsRemove, Zenon
    <3>3. n = 0 <=> Posted' = {}
      BY <3>2, CountsNone, Zenon
    <3>4. barrier.count = 1 <=> n = 0
      BY <2>2
    <3>5. z \in BOOLEAN /\ (z <=> Posted' = {})
      BY <1>15, <2>3, <3>3, <3>4, Zenon
    <3> HIDE DEF n, z
    <3>6. /\ barrier' \in [at : {"out", "ipi", "wait"}, cpu : RcuCPU \union {NoCPU}, todo : SUBSET RcuCPU,
                           count : Nat, completion : BOOLEAN, covers : SUBSET RcuHead]
          /\ barrier'.at = barrier.at /\ barrier'.cpu = barrier.cpu /\ barrier'.todo = barrier.todo
          /\ barrier'.covers = barrier.covers /\ barrier'.count = n /\ barrier'.completion = z
      BY <2>1, <3>1, <3>2, <3>5
    <3>7. h \notin barrier'.covers
      BY <2>3, <3>6, RcuAssumption
    <3>8. PhaseInv'
      <4>1. barrier.at = "wait" /\ barrier.cpu = NoCPU /\ barrier.todo = {}
        BY <1>15, <2>3, Zenon DEF RcuInv, BarrierInv, PhaseInv
      <4> QED
        BY <3>2, <3>5, <3>6, <4>1, Zenon DEF PhaseInv
    <3> QED
      BY <3>6, <3>7, <3>8, Zenon
  <2>4. CASE h \notin RcuCPU
    <3>1. barrier' = [barrier EXCEPT !.covers = @ \ {h}]
      BY <1>1, <2>4, Zenon
    <3>2. /\ barrier' \in [at : {"out", "ipi", "wait"}, cpu : RcuCPU \union {NoCPU}, todo : SUBSET RcuCPU,
                           count : Nat, completion : BOOLEAN, covers : SUBSET RcuHead]
          /\ barrier'.at = barrier.at /\ barrier'.cpu = barrier.cpu /\ barrier'.todo = barrier.todo
          /\ barrier'.covers = barrier.covers \ {h} /\ barrier'.count = barrier.count
          /\ barrier'.completion = barrier.completion
      BY <2>1, <3>1
    <3>3. PhaseInv'
      BY <1>16, <2>4, <3>2, Zenon DEF RcuInv, BarrierInv, PhaseInv
    <3> QED
      BY <3>2, <3>3, Zenon
  <2> QED
    BY <2>3, <2>4
<1>18. RcuTypeOK'
  <2>1. tpc' \in [RcuCPU -> TaskletLabels]
    BY <1>2, Zenon DEF RcuInv, RcuTypeOK, TaskletLabels
  <2> QED
    BY <1>1, <1>7, <1>17, <2>1, Zenon DEF RcuInv, RcuTypeOK, RcuData
<1>19. GraceInv'
  <2>1. \A g : WaitsFor(g)' = WaitsFor(g)
    BY <1>1, <1>17, Zenon DEF WaitsFor
  <2>2. \A g \in RcuHead : rcu_before'[g] \subseteq reading'
    BY <1>1, Zenon DEF RcuInv, GraceInv
  <2>3. \A k \in RcuCPU : \A g \in HeadsOf(rdp[k].curlist) \union HeadsOf(rdp[k].donelist) :
           WaitsFor(g)' \subseteq WaitsFor(g) /\ \A b \in WaitsFor(g)' : Owes(b) => Owes(b)'
    BY <1>9, <2>1, WaitsForReaders, ListedHeads, Zenon
  <2>4. \A k \in RcuCPU : HeadsOf(rdp'[k].donelist) \subseteq HeadsOf(rdp[k].donelist)
    BY <1>5, <1>7, Zenon
  <2> QED
    BY <1>1, <1>10, <2>2, <2>3, <2>4, GraceFrame, Zenon
<1>20. BarrierInv'
  <2>1. \A k \in RcuCPU : OwnHead(k, QueueOf(k)')
    BY <1>13, <1>14, Zenon DEF RcuInv, BarrierInv
  <2>2. \A g \in barrier'.covers : \E k \in RcuCPU : Covered(g, k, QueueOf(k)', barrier'.todo)
    <3> TAKE g \in barrier'.covers
    <3>1. g \in barrier.covers /\ g # h /\ barrier'.todo = barrier.todo
      BY <1>17, Zenon
    <3>2. PICK k \in RcuCPU : Covered(g, k, QueueOf(k), barrier.todo)
      BY <3>1, Zenon DEF RcuInv, BarrierInv
    <3> QED
      BY <1>13, <1>14, <3>1, <3>2, Zenon
  <2> QED
    BY <1>17, <2>1, <2>2, BarrierNext, Zenon
<1>21. RcuInv'
  BY <1>8, <1>9, <1>11, <1>18, <1>19, <1>20, Zenon DEF RcuInv
<1> QED
  BY <1>5, <1>12, <1>13, <1>14, <1>21, Zenon

-----------------------------------------------------------------------------
\* The state after rcu_init() satisfies the invariant.
LEMMA RcuInitInv == RcuInit => RcuInv
<1> SUFFICES ASSUME RcuInit PROVE RcuInv
  OBVIOUS
<1>1. Minus300 \in Batches /\ 0 \in Batches
  BY RcuAssumption DEF Minus300, Batches
<1>2. /\ rcp.cur = Minus300 /\ rcp.completed = Minus300 /\ rcp.cpumask = {}
      /\ rcp \in [cur : Batches, completed : Batches, next_pending : BOOLEAN, cpumask : SUBSET RcuCPU]
  BY <1>1 DEF RcuInit
<1>3. /\ rdp \in [RcuCPU -> RcuData]
      /\ \A k \in RcuCPU : /\ rdp[k].quiescbatch = Minus300 /\ rdp[k].qs_pending = FALSE
                           /\ rdp[k].nxtlist = <<>> /\ rdp[k].curlist = <<>> /\ rdp[k].donelist = <<>>
  <2> DEFINE r == [quiescbatch |-> Minus300, passed_quiesc |-> FALSE, qs_pending |-> FALSE,
                   batch |-> 0, nxtlist |-> <<>>, curlist |-> <<>>, donelist |-> <<>>]
             S == Seq(AllHeads)
  <2>1. <<>> \in S
    OBVIOUS
  <2>2. RcuData = [quiescbatch : Batches, passed_quiesc : BOOLEAN, qs_pending : BOOLEAN,
                   batch : Batches, nxtlist : S, curlist : S, donelist : S]
    BY Zenon DEF RcuData
  <2> HIDE DEF S
  <2>3. r \in RcuData
    BY <1>1, <2>1, <2>2, Zenon
  <2>4. /\ r.quiescbatch = Minus300 /\ r.qs_pending = FALSE
        /\ r.nxtlist = <<>> /\ r.curlist = <<>> /\ r.donelist = <<>>
    BY Zenon
  <2>5. rdp = [c \in RcuCPU |-> r]
    BY Zenon DEF RcuInit
  <2> HIDE DEF r
  <2> QED
    BY <2>3, <2>4, <2>5, Zenon
<1>4. /\ barrier.at = "out" /\ barrier.cpu = NoCPU /\ barrier.todo = {} /\ barrier.count = 0
      /\ barrier.completion = FALSE /\ barrier.covers = {}
      /\ barrier \in [at : {"out", "ipi", "wait"}, cpu : RcuCPU \union {NoCPU}, todo : SUBSET RcuCPU,
                      count : Nat, completion : BOOLEAN, covers : SUBSET RcuHead]
  BY DEF RcuInit
<1>5. \A k \in RcuCPU : tpc[k] = "idle"
  BY Zenon DEF RcuInit
<1>6. RcuTypeOK
  <2>1. tpc \in [RcuCPU -> TaskletLabels] /\ rcu_before \in [RcuHead -> SUBSET RcuCPU]
    BY DEF RcuInit, TaskletLabels
  <2>2. reading \subseteq RcuCPU /\ rlock \in RcuCPU \union {NoCPU}
    BY Zenon DEF RcuInit
  <2> QED
    BY <1>2, <1>3, <1>4, <2>1, <2>2, Zenon DEF RcuTypeOK, RcuData
<1>7. RcuLockInv
  BY <1>5, Zenon DEF RcuLockInv, Starting
<1>8. QuietInv
  BY <1>2, <1>3, <1>5, Zenon DEF QuietInv, Through
<1>9. NumberInv
  BY <1>3, Zenon DEF NumberInv, Numbered
<1>10. \A k \in RcuCPU : QueueOf(k) = <<>> /\ HeadsOf(QueueOf(k)) = {}
  <2>1. <<>> \o <<>> \o <<>> = <<>> /\ HeadsOf(<<>>) = {}
    BY DEF HeadsOf
  <2> QED
    BY <1>3, <2>1, Zenon DEF QueueOf
<1>11. GraceInv
  <2>1. HeadsOf(<<>>) = {}
    BY DEF HeadsOf
  <2>2. \A h \in RcuHead : rcu_before[h] = {}
    BY Zenon DEF RcuInit
  <2> QED
    BY <1>3, <2>1, <2>2, Zenon DEF GraceInv, Safe
<1>12. BarrierInv
  <2>1. Posted = {}
    BY <1>10, Zenon DEF Posted
  <2>2. PhaseInv
    BY <1>4, <2>1, CountsNone, Zenon DEF PhaseInv
  <2>3. \A k \in RcuCPU : OwnHead(k, <<>>)
    BY DEF OwnHead
  <2> QED
    BY <1>4, <1>10, <2>2, <2>3, Zenon DEF BarrierInv
<1> QED
  BY <1>6, <1>7, <1>8, <1>9, <1>11, <1>12, Zenon DEF RcuInv

\* A step of something else keeps the invariant.
LEMMA RcuStutterInv == ASSUME RcuInv, UNCHANGED rcu_vars PROVE RcuInv'
<1>1. UNCHANGED <<rcp, rlock, rdp, tpc, reading, rcu_before, barrier>>
  BY Zenon DEF rcu_vars
<1>2. RcuTypeOK'
  BY <1>1, Zenon DEF RcuInv, RcuTypeOK
<1>3. /\ RcuLockInv' /\ QuietInv' /\ NumberInv'
      /\ \A k \in RcuCPU : /\ Unaware(k)' <=> Unaware(k)
                           /\ Watching(k)' <=> Watching(k)
                           /\ Numbered(k)' <=> Numbered(k)
  BY <1>1, QuietFrame, Zenon
<1>4. GraceInv'
  <2>1. \A h : WaitsFor(h)' = WaitsFor(h)
    BY <1>1, Zenon DEF WaitsFor
  <2>2. \A h \in RcuHead : rcu_before'[h] \subseteq reading'
    BY <1>1, Zenon DEF RcuInv, GraceInv
  <2>3. \A k \in RcuCPU : Owes(k) => Owes(k)'
    BY <1>1, <1>3, Zenon DEF Owes
  <2>4. \A k \in RcuCPU : \A h \in HeadsOf(rdp[k].curlist) \union HeadsOf(rdp[k].donelist) :
           WaitsFor(h)' \subseteq WaitsFor(h) /\ \A b \in WaitsFor(h)' : Owes(b) => Owes(b)'
    BY <2>1, <2>3, WaitsForReaders, ListedHeads, Zenon
  <2> QED
    BY <1>1, <1>3, <2>2, <2>4, GraceFrame, Zenon
<1>5. BarrierInv'
  BY <1>1, BarrierFrame, Zenon DEF RcuInv, QueueOf
<1> QED
  BY <1>2, <1>3, <1>4, <1>5, Zenon DEF RcuInv

\* Every behaviour of kernel/rcupdate.c, with any finite number of CPUs and any number of
\* callbacks, and at every wrap of the batch numbers, satisfies the invariant: in
\* particular a callback on donelist, which rcu_do_batch() may invoke at once, has no
\* read-side section left to wait for.
THEOREM RcuInvariance == RcuSpec => []RcuInv
<1>1. RcuInit => RcuInv
  BY RcuInitInv
<1>2. RcuInv /\ [RcuNext]_rcu_vars => RcuInv'
  <2> SUFFICES ASSUME RcuInv, [RcuNext]_rcu_vars PROVE RcuInv'
    OBVIOUS
  <2>1. CASE UNCHANGED rcu_vars
    BY <2>1, RcuStutterInv
  <2>2. CASE BarrierReturn
    BY <2>2, BarrierReturnInv
  <2>3. ASSUME NEW c \in RcuCPU,
               \/ rcu_read_lock(c) \/ rcu_read_unlock(c) \/ rcu_qsctr_inc(c)
               \/ (\E h \in RcuHead : call_rcu(c, h)) \/ rcu_barrier(c) \/ rcu_barrier_func(c)
        PROVE  RcuInv'
    BY <2>3, ReadLockInv, ReadUnlockInv, QsctrIncInv, CallRcuInv, BarrierCallInv, BarrierFuncInv, Zenon
  <2>4. ASSUME NEW c \in RcuCPU, rcu_process_callbacks(c) \/ TaskletStep(c) \/ TaskletLock(c)
        PROVE  RcuInv'
    BY <2>4, ProcessCallbacksInv, NumberBatchInv, TestPendingInv, CheckQuiescentInv, DoBatchInv,
       StartBatchInv, AdvanceCurInv, RegisterBatchInv, CpuQuietInv, Zenon DEF TaskletStep, TaskletLock
  <2> QED
    BY <2>1, <2>2, <2>3, <2>4, Zenon DEF RcuNext
<1> QED
  BY <1>1, <1>2, PTL DEF RcuSpec

\* When rcu_barrier() returns, every callback queued on any CPU when it was called has
\* been invoked.
THEOREM BarrierCovers == RcuSpec => BarrierCoversQueued
<1>1. RcuInv /\ [RcuNext]_rcu_vars
        => [BarrierReturn => barrier.covers = {} /\ QueuedHeads \intersect RcuCPU = {}]_rcu_vars
  BY BarrierDone, Zenon DEF BarrierReturn
<1> QED
  BY <1>1, RcuInvariance, PTL DEF RcuSpec, BarrierCoversQueued

\* The heads queued anywhere, by the queues of the CPUs.
LEMMA QueuedBefore ==
  ASSUME RcuInv
  PROVE  \A x : x \in QueuedHeads <=> \E k \in RcuCPU : x \in HeadsOf(QueueOf(k))
BY ListedHeads, Zenon DEF QueuedHeads

\* The same after a step.
LEMMA QueuedAfter ==
  ASSUME RcuInv'
  PROVE  \A x : x \in QueuedHeads' <=> \E k \in RcuCPU : x \in HeadsOf(QueueOf(k)')
<1>1. ASSUME NEW k \in RcuCPU PROVE HeadsOf(QueueOf(k)') = QueuedOn(k)'
  <2>1. /\ rdp'[k].curlist \in Seq(AllHeads) /\ rdp'[k].donelist \in Seq(AllHeads)
        /\ rdp'[k].nxtlist \in Seq(AllHeads)
        /\ rdp'[k].donelist \o rdp'[k].curlist \in Seq(AllHeads)
    BY DEF RcuInv, RcuTypeOK
  <2>2. /\ HeadsOf(rdp'[k].donelist \o rdp'[k].curlist)
             = HeadsOf(rdp'[k].donelist) \union HeadsOf(rdp'[k].curlist)
        /\ HeadsOf((rdp'[k].donelist \o rdp'[k].curlist) \o rdp'[k].nxtlist)
             = HeadsOf(rdp'[k].donelist \o rdp'[k].curlist) \union HeadsOf(rdp'[k].nxtlist)
    BY <2>1, HeadsOfConcat, Zenon
  <2>3. QueuedOn(k)' = HeadsOf(rdp'[k].nxtlist) \union HeadsOf(rdp'[k].curlist)
                         \union HeadsOf(rdp'[k].donelist)
    BY Zenon DEF QueuedOn, HeadsOf
  <2> QED
    BY <2>2, <2>3, Zenon DEF QueueOf
<1> QED
  BY <1>1, Zenon DEF QueuedHeads

\* Steps that change no queue and no reader are no steps of GracePeriod.
LEMMA SameQueues ==
  ASSUME RcuInv, RcuInv', UNCHANGED <<reading, rcu_before>>,
         \A k \in RcuCPU : QueueOf(k)' = QueueOf(k)
  PROVE  UNCHANGED RcuGP!gp_vars
<1>1. QueuedHeads' = QueuedHeads
  BY QueuedBefore, QueuedAfter, Zenon
<1> QED
  BY <1>1, Zenon DEF RcuGP!gp_vars

\* call_rcu() asks for a grace period.
LEMMA CallRcuSimulation ==
  ASSUME RcuInv, RcuInv', NEW c \in RcuCPU, NEW h \in RcuHead, call_rcu(c, h)
  PROVE  RcuGP!Ask(h)
<1>1. /\ UNCHANGED reading /\ Enqueue(c, h) /\ rcu_before' = [rcu_before EXCEPT ![h] = reading]
      /\ h \notin QueuedHeads /\ h \in AllHeads
  BY Zenon DEF call_rcu, AllHeads
<1>2. /\ \A k \in RcuCPU \ {c} : QueueOf(k)' = QueueOf(k)
      /\ HeadsOf(QueueOf(c)') = HeadsOf(QueueOf(c)) \union {h}
  BY <1>1, EnqueueStep, HeadsOfAppend, Zenon
<1>3. QueuedHeads' = QueuedHeads \union {h}
  <2>1. ASSUME NEW x PROVE x \in QueuedHeads' <=> x \in QueuedHeads \union {h}
    <3>1. ASSUME NEW k \in RcuCPU, k # c
          PROVE  x \in HeadsOf(QueueOf(k)') <=> x \in HeadsOf(QueueOf(k))
      BY <1>2, <3>1, Zenon
    <3> QED
      BY <1>2, <3>1, QueuedBefore, QueuedAfter, Zenon
  <2> QED
    BY <2>1, Zenon
<1> QED
  BY <1>1, <1>3, Zenon DEF RcuGP!Ask

\* rcu_barrier_func() queues a head of its own, which is no request of a caller.
LEMMA BarrierFuncSimulation ==
  ASSUME RcuInv, RcuInv', NEW c \in RcuCPU, rcu_barrier_func(c)
  PROVE  UNCHANGED RcuGP!gp_vars
<1>1. UNCHANGED <<reading, rcu_before>> /\ Enqueue(c, c) /\ c \in AllHeads
  BY Zenon DEF rcu_barrier_func, AllHeads
<1>2. /\ \A k \in RcuCPU \ {c} : QueueOf(k)' = QueueOf(k)
      /\ HeadsOf(QueueOf(c)') = HeadsOf(QueueOf(c)) \union {c}
  BY <1>1, EnqueueStep, HeadsOfAppend, Zenon
<1>3. QueuedHeads' = QueuedHeads \union {c}
  <2>1. ASSUME NEW x PROVE x \in QueuedHeads' <=> x \in QueuedHeads \union {c}
    <3>1. ASSUME NEW k \in RcuCPU, k # c
          PROVE  x \in HeadsOf(QueueOf(k)') <=> x \in HeadsOf(QueueOf(k))
      BY <1>2, <3>1, Zenon
    <3> QED
      BY <1>2, <3>1, QueuedBefore, QueuedAfter, Zenon
  <2> QED
    BY <2>1, Zenon
<1>4. (QueuedHeads \intersect RcuHead)' = QueuedHeads \intersect RcuHead
  BY <1>3, RcuAssumption, Zenon
<1> QED
  BY <1>1, <1>4, Zenon DEF RcuGP!gp_vars

\* rcu_do_batch() answers a request whose sections have all ended, or invokes a callback
\* of rcu_barrier().
LEMMA DoBatchSimulation ==
  ASSUME RcuInv, RcuInv', NEW c \in RcuCPU, rcu_do_batch(c)
  PROVE  (\E h \in RcuHead : RcuGP!Answer(h)) \/ UNCHANGED RcuGP!gp_vars
<1>1. UNCHANGED <<reading, rcu_before>>
  BY Zenon DEF rcu_do_batch
<1>2. PICK h \in AllHeads : /\ WaitsFor(h) = {}
                            /\ HeadsOf(QueueOf(c)) = {h} \union HeadsOf(QueueOf(c)')
                            /\ \A k \in RcuCPU \ {c} : QueueOf(k)' = QueueOf(k)
  BY DoBatchInv, Zenon
<1>3. QueuedHeads = {h} \union QueuedHeads'
  <2>1. ASSUME NEW x PROVE x \in QueuedHeads <=> x \in {h} \union QueuedHeads'
    <3>1. ASSUME NEW k \in RcuCPU, k # c
          PROVE  x \in HeadsOf(QueueOf(k)') <=> x \in HeadsOf(QueueOf(k))
      BY <1>2, <3>1, Zenon
    <3> QED
      BY <1>2, <3>1, QueuedBefore, QueuedAfter, Zenon
  <2> QED
    BY <2>1, Zenon
<1>4. CASE h \in RcuHead /\ h \notin QueuedHeads'
  <2>1. RcuGP!Answer(h)
    BY <1>1, <1>2, <1>3, <1>4, Zenon DEF RcuGP!Answer, WaitsFor
  <2> QED
    BY <1>4, <2>1, Zenon
<1>5. CASE ~(h \in RcuHead /\ h \notin QueuedHeads')
  <2>1. (QueuedHeads \intersect RcuHead)' = QueuedHeads \intersect RcuHead
    BY <1>3, <1>5, Zenon
  <2> QED
    BY <1>1, <2>1, Zenon DEF RcuGP!gp_vars
<1> QED
  BY <1>4, <1>5

\* Read-side sections begin and end.
LEMMA ReaderSimulation ==
  ASSUME RcuInv, RcuInv', NEW c \in RcuCPU
  PROVE  /\ rcu_read_lock(c) => RcuGP!Enter(c)
         /\ rcu_read_unlock(c) => RcuGP!Leave(c)
<1>1. UNCHANGED rdp => QueuedHeads' = QueuedHeads
  <2> HAVE UNCHANGED rdp
  <2>1. \A k \in RcuCPU : QueueOf(k)' = QueueOf(k)
    BY Zenon DEF QueueOf
  <2> QED
    BY <2>1, QueuedBefore, QueuedAfter, Zenon
<1>2. rcu_read_lock(c) => RcuGP!Enter(c)
  BY <1>1, Zenon DEF rcu_read_lock, Preemptible, RcuGP!Enter
<1>3. rcu_read_unlock(c) => RcuGP!Leave(c)
  BY <1>1, Zenon DEF rcu_read_unlock, RcuGP!Leave
<1> QED
  BY <1>2, <1>3

\* Classic RCU implements the abstract grace period: a callback is invoked only after
\* every read-side section open at its call_rcu() has ended.
THEOREM RcuGracePeriod == RcuSpec => RcuImplementsGracePeriod
<1>1. RcuInit => RcuGP!GPInit
  <2> SUFFICES ASSUME RcuInit PROVE RcuGP!GPInit
    OBVIOUS
  <2>1. \A k \in RcuCPU : rdp[k].nxtlist = <<>> /\ rdp[k].curlist = <<>> /\ rdp[k].donelist = <<>>
    BY DEF RcuInit
  <2>2. HeadsOf(<<>>) = {}
    BY DEF HeadsOf
  <2>3. QueuedHeads = {}
    BY <2>1, <2>2, Zenon DEF QueuedHeads, QueuedOn
  <2> QED
    BY <2>3, Zenon DEF RcuInit, RcuGP!GPInit
<1>2. RcuInv /\ RcuInv' /\ [RcuNext]_rcu_vars => [RcuGP!GPNext]_(RcuGP!gp_vars)
  <2> SUFFICES ASSUME RcuInv, RcuInv', [RcuNext]_rcu_vars
               PROVE  RcuGP!GPNext \/ UNCHANGED RcuGP!gp_vars
    BY Zenon
  <2>1. ASSUME UNCHANGED <<rdp, reading, rcu_before>> PROVE UNCHANGED RcuGP!gp_vars
    BY <2>1, SameQueues, Zenon DEF QueueOf
  <2>2. CASE UNCHANGED rcu_vars \/ BarrierReturn
    BY <2>1, <2>2, Zenon DEF rcu_vars, BarrierReturn
  <2>3. ASSUME NEW c \in RcuCPU, rcu_read_lock(c) \/ rcu_read_unlock(c)
        PROVE  RcuGP!GPNext
    BY <2>3, ReaderSimulation, Zenon DEF RcuGP!GPNext
  <2>4. ASSUME NEW c \in RcuCPU, NEW h \in RcuHead, call_rcu(c, h)
        PROVE  RcuGP!GPNext
    BY <2>4, CallRcuSimulation, Zenon DEF RcuGP!GPNext
  <2>5. ASSUME NEW c \in RcuCPU, rcu_do_batch(c)
        PROVE  RcuGP!GPNext \/ UNCHANGED RcuGP!gp_vars
    BY <2>5, DoBatchSimulation, Zenon DEF RcuGP!GPNext
  <2>6. ASSUME NEW c \in RcuCPU, \/ rcu_qsctr_inc(c) \/ rcu_process_callbacks(c)
                                 \/ NumberBatch(c) \/ CheckQuiescent(c)
        PROVE  UNCHANGED RcuGP!gp_vars
    <3>1. UNCHANGED <<reading, rcu_before>>
      BY <2>6, Zenon DEF rcu_qsctr_inc, rcu_process_callbacks, NumberBatch, CheckQuiescent
    <3>2. \A k \in RcuCPU : QueueOf(k)' = QueueOf(k)
      BY <2>6, QsctrIncInv, ProcessCallbacksInv, NumberBatchInv, CheckQuiescentInv, Zenon
    <3> QED
      BY <3>1, <3>2, SameQueues, Zenon
  <2>7. ASSUME NEW c \in RcuCPU,
               \/ TestPending(c) \/ StartBatch(c, "start", "cur") \/ AdvanceCur(c, "cur", "check")
               \/ StartBatch(c, "restart", "recur") \/ AdvanceCur(c, "recur", Last(c))
               \/ TaskletLock(c) \/ rcu_barrier(c)
        PROVE  UNCHANGED RcuGP!gp_vars
    BY <2>1, <2>7, Zenon DEF TestPending, StartBatch, AdvanceCur, TaskletLock, RegisterBatch, cpu_quiet,
                            rcu_barrier
  <2>8. ASSUME NEW c \in RcuCPU, rcu_barrier_func(c) PROVE UNCHANGED RcuGP!gp_vars
    BY <2>8, BarrierFuncSimulation, Zenon
  <2> QED
    BY <2>2, <2>3, <2>4, <2>5, <2>6, <2>7, <2>8, Zenon DEF RcuNext, TaskletStep
<1> QED
  BY <1>1, <1>2, RcuInvariance, PTL DEF RcuSpec, RcuImplementsGracePeriod, RcuGP!GPSpec

-----------------------------------------------------------------------------
(***************************************************************************)
(* The mutex, for any finite set of tasks and both variants of             *)
(* mutex_trylock().                                                        *)
(***************************************************************************)

\* The labels of a task inside the wait_lock section.
SectionLabels == {"xchg", "check", "set_state", "got", "trylock_slow", "trylock_fix", "unlock_wake"}

LockInv == \A t \in Task : wait_lock = t <=> pc[t] \in SectionLabels

\* wait_list holds exactly the tasks that have a waiter on their stack.
QueueInv == /\ Distinct(wait_list)
            /\ \A t \in Task : t \in Elements(wait_list) <=> pc[t] \in QueuedLabels

\* A task is off the run queue, or not TASK_RUNNING, only around schedule().
SleepInv == \A t \in Task :
              /\ ~onrq[t] => pc[t] = "relock" /\ state[t] # RUNNING
              /\ state[t] # RUNNING => pc[t] = "schedule" \/ ~onrq[t]

\* t owns the mutex or is about to make it available in the slow path.
Owns(t) == holds[t] \/ pc[t] = "unlock_slow"

\* The mutex is available (count = 1) or owned by exactly one task.
TokenInv == /\ \A t, u \in Task : Owns(t) /\ Owns(u) => t = u
            /\ count = 1 <=> ~\E t \in Task : Owns(t)
            /\ \A t \in Task : holds[t] => pc[t] \in {"out", "got", "trylock_fix"}
            /\ \A t \in Task : pc[t] = "got" => holds[t]

\* A failed trylock probe is repaired before the mutex can become available.
FixInv == \A t \in Task : pc[t] = "trylock_fix" => count < 0 \/ \E u \in Task : pc[u] = "unlock_slow"

\* When the next release would take the fast path, somebody sees to the waiters.
WakeInv == wait_list # <<>> /\ count >= 0
             => \E t \in Task : pc[t] \in {"unlock_slow", "unlock_wake"} \/ Retrying(t)

IInv == TypeOK /\ LockInv /\ QueueInv /\ SleepInv /\ TokenInv /\ FixInv /\ WakeInv

\* mutex_remove_waiter() takes the caller, and nobody else, off wait_list.
LEMMA RemoveFacts ==
  ASSUME TypeOK, QueueInv, NEW t \in Task, pc[t] \in QueuedLabels, mutex_remove_waiter(t)
  PROVE  /\ wait_list' \in Seq(Task) /\ Distinct(wait_list')
         /\ Elements(wait_list') = Elements(wait_list) \ {t}
         /\ wait_list' # <<>> => wait_list # <<>>
  <1>1. wait_list \in Seq(Task) /\ Distinct(wait_list) /\ t \in Elements(wait_list)
    BY DEF TypeOK, QueueInv
  <1>2. wait_list' = Without(wait_list, t)
    BY DEF mutex_remove_waiter
  <1>3. /\ wait_list' \in Seq(Task) /\ Distinct(wait_list')
        /\ Elements(wait_list') = Elements(wait_list) \ {t}
    BY <1>1, <1>2, ListDel
  <1> QED
    BY <1>1, <1>3, ListHead

\* __mutex_init() establishes the invariant.
LEMMA InitInv == Init => IInv
  <1> SUFFICES ASSUME Init PROVE IInv
    OBVIOUS
  <1>1. TypeOK
    BY DEF Init, SchedInit, TypeOK, SchedTypeOK, TaskStates, SleepStates, Labels
  <1>2. LockInv
    BY TaskAssumption DEF Init, LockInv, SectionLabels
  <1>3. QueueInv
    BY DEF Init, QueueInv, QueuedLabels, Distinct, Elements
  <1>4. SleepInv /\ TokenInv /\ FixInv /\ WakeInv
    BY DEF Init, SchedInit, SleepInv, TokenInv, Owns, FixInv, WakeInv
  <1> QED
    BY <1>1, <1>2, <1>3, <1>4 DEF IInv

\* The fast path of mutex_lock(): only the caller can turn count = 1 into ownership.
LEMMA MutexLockInv ==
  ASSUME IInv, NEW t \in Task, mutex_lock(t)
  PROVE  IInv'
  <1> USE DEF IInv, mutex_lock, At
  <1>1. TypeOK'
    <2>0. holds' \in [Task -> BOOLEAN]
      BY Zenon DEF TypeOK
    <2>1. CASE count - 1 < 0
      BY <2>0, <2>1 DEF TypeOK, SchedTypeOK, Goto, Labels, QueuedLabels, SpinLock, SpinUnlock, sched_vars
    <2>2. CASE ~(count - 1 < 0)
      BY <2>0, <2>2 DEF TypeOK, SchedTypeOK, Goto, Labels, QueuedLabels, SpinLock, SpinUnlock, sched_vars
    <2> QED
      BY <2>1, <2>2
  <1>2. LockInv'
    BY TaskAssumption DEF TypeOK, LockInv, Goto, SpinLock, SpinUnlock, SectionLabels
  <1>3. QueueInv'
    BY DEF TypeOK, QueueInv, Goto, QueuedLabels
  <1>4. SleepInv'
    BY DEF TypeOK, SchedTypeOK, SleepInv, Goto, sched_vars
  <1>5. TokenInv'
    <2>1. CASE count - 1 < 0
      BY <2>1 DEF TypeOK, TokenInv, Owns, Goto
    <2>2. CASE ~(count - 1 < 0)
      BY <2>2 DEF TypeOK, TokenInv, Owns, Goto
    <2> QED
      BY <2>1, <2>2
  <1>6. FixInv'
    BY DEF TypeOK, FixInv, LockInv, SectionLabels, Goto
  <1>7. WakeInv'
    BY DEF TypeOK, SchedTypeOK, WakeInv, Retrying, Goto, sched_vars
  <1> QED
    BY <1>1, <1>2, <1>3, <1>4, <1>5, <1>6, <1>7

\* Joining wait_list: the newcomer is about to execute the xchg.
LEMMA LockQueueInv ==
  ASSUME IInv, NEW t \in Task, LockQueue(t)
  PROVE  IInv'
  <1> USE DEF IInv, LockQueue, At
  <1>0. /\ wait_list' \in Seq(Task) /\ Elements(wait_list') = Elements(wait_list) \union {t}
        /\ Distinct(wait_list')
    BY ListAddTail DEF TypeOK, QueueInv, QueuedLabels
  <1>1. TypeOK'
    BY <1>0 DEF TypeOK, SchedTypeOK, Goto, Labels, QueuedLabels, SpinLock, sched_vars
  <1>2. LockInv'
    BY TaskAssumption DEF TypeOK, LockInv, Goto, SpinLock, SpinUnlock, SectionLabels
  <1>3. QueueInv'
    BY <1>0 DEF TypeOK, QueueInv, Goto, QueuedLabels
  <1>4. SleepInv'
    BY DEF TypeOK, SchedTypeOK, SleepInv, Goto, sched_vars
  <1>5. TokenInv'
    BY DEF TypeOK, TokenInv, Owns, Goto
  <1>6. FixInv'
    BY DEF TypeOK, FixInv, LockInv, SectionLabels, Goto
  <1>7. WakeInv'
    BY DEF TypeOK, SchedTypeOK, WakeInv, Retrying, Goto, sched_vars
  <1> QED
    BY <1>1, <1>2, <1>3, <1>4, <1>5, <1>6, <1>7

\* The xchg: ownership passes to a waiter that reads 1.
LEMMA LockXchgInv ==
  ASSUME IInv, NEW t \in Task, LockXchg(t)
  PROVE  IInv'
  <1> USE DEF IInv, LockXchg, At
  <1>1. TypeOK'
    <2>0. holds' \in [Task -> BOOLEAN]
      BY Zenon DEF TypeOK
    <2>1. CASE count = 1
      BY <2>0, <2>1 DEF TypeOK, SchedTypeOK, Goto, Labels, QueuedLabels, SpinLock, SpinUnlock, sched_vars
    <2>2. CASE ~(count = 1)
      BY <2>0, <2>2 DEF TypeOK, SchedTypeOK, Goto, Labels, QueuedLabels, SpinLock, SpinUnlock, sched_vars
    <2> QED
      BY <2>1, <2>2
  <1>2. LockInv'
    BY TaskAssumption DEF TypeOK, LockInv, Goto, SpinLock, SpinUnlock, SectionLabels
  <1>3. QueueInv'
    BY DEF TypeOK, QueueInv, Goto, QueuedLabels
  <1>4. SleepInv'
    BY DEF TypeOK, SchedTypeOK, SleepInv, Goto, sched_vars
  <1>5. TokenInv'
    <2>1. CASE count = 1
      BY <2>1 DEF TypeOK, TokenInv, Owns, Goto
    <2>2. CASE ~(count = 1)
      BY <2>2 DEF TypeOK, TokenInv, Owns, Goto
    <2> QED
      BY <2>1, <2>2
  <1>6. FixInv'
    BY DEF TypeOK, FixInv, LockInv, SectionLabels, Goto
  <1>7. WakeInv'
    BY DEF TypeOK, SchedTypeOK, WakeInv, Retrying, Goto, sched_vars
  <1> QED
    BY <1>1, <1>2, <1>3, <1>4, <1>5, <1>6, <1>7

\* A waiter that leaves with -EINTR was not the one the others depend on.
LEMMA LockInterruptedInv ==
  ASSUME IInv, NEW t \in Task, LockInterrupted(t)
  PROVE  IInv'
  <1> USE DEF IInv, LockInterrupted, At
  <1>0. /\ wait_list' \in Seq(Task) /\ Distinct(wait_list')
        /\ Elements(wait_list') = Elements(wait_list) \ {t}
        /\ wait_list' # <<>> => wait_list # <<>>
    BY RemoveFacts DEF QueuedLabels
  <1>1. TypeOK'
    BY <1>0 DEF TypeOK, SchedTypeOK, Goto, Labels, SpinUnlock, sched_vars
  <1>2. LockInv'
    BY TaskAssumption DEF TypeOK, LockInv, Goto, SpinLock, SpinUnlock, SectionLabels
  <1>3. QueueInv'
    BY <1>0 DEF TypeOK, QueueInv, Goto, QueuedLabels
  <1>4. SleepInv'
    BY DEF TypeOK, SchedTypeOK, SleepInv, Goto, sched_vars
  <1>5. TokenInv'
    BY DEF TypeOK, TokenInv, Owns, Goto
  <1>6. FixInv'
    BY DEF TypeOK, FixInv, LockInv, SectionLabels, Goto
  <1>7. WakeInv'
    BY <1>0 DEF TypeOK, SchedTypeOK, WakeInv, Retrying, Goto, sched_vars
  <1> QED
    BY <1>1, <1>2, <1>3, <1>4, <1>5, <1>6, <1>7

\* A waiter that sees no signal stays in the section: only its label changes.
LEMMA LockNoSignalInv ==
  ASSUME IInv, NEW t \in Task, LockNoSignal(t)
  PROVE  IInv'
  <1> USE DEF IInv, LockNoSignal, At
  <1>1. TypeOK'
    BY DEF TypeOK, SchedTypeOK, Goto, Labels, QueuedLabels, SpinLock, SpinUnlock, sched_vars
  <1>2. LockInv'
    BY TaskAssumption DEF TypeOK, LockInv, Goto, SpinLock, SpinUnlock, SectionLabels
  <1>3. QueueInv'
    BY DEF TypeOK, QueueInv, Goto, QueuedLabels
  <1>4. SleepInv'
    BY DEF TypeOK, SchedTypeOK, SleepInv, Goto, sched_vars
  <1>5. TokenInv'
    BY DEF TypeOK, TokenInv, Owns, Goto
  <1>6. FixInv'
    BY DEF TypeOK, FixInv, LockInv, SectionLabels, Goto
  <1>7. WakeInv'
    BY DEF TypeOK, SchedTypeOK, WakeInv, Retrying, Goto, sched_vars
  <1> QED
    BY <1>1, <1>2, <1>3, <1>4, <1>5, <1>6, <1>7

\* No wake-up can come between the declaration and the unlock.
LEMMA LockSetStateInv ==
  ASSUME IInv, NEW t \in Task, LockSetState(t)
  PROVE  IInv'
  <1> USE DEF IInv, LockSetState, At
  <1>1. TypeOK'
    <2>1. SleepState(t) \in TaskStates
      BY DEF SleepState, TaskStates
    <2> QED
      BY <2>1 DEF TypeOK, SchedTypeOK, Goto, Labels, QueuedLabels, SpinUnlock, set_task_state
  <1>2. LockInv'
    BY TaskAssumption DEF TypeOK, LockInv, Goto, SpinLock, SpinUnlock, SectionLabels
  <1>3. QueueInv'
    BY DEF TypeOK, QueueInv, Goto, QueuedLabels
  <1>4. SleepInv'
    BY DEF TypeOK, SchedTypeOK, SleepInv, Goto, sched_vars, set_task_state
  <1>5. TokenInv'
    BY DEF TypeOK, TokenInv, Owns, Goto
  <1>6. FixInv'
    BY DEF TypeOK, FixInv, LockInv, SectionLabels, Goto
  <1>7. WakeInv'
    BY DEF TypeOK, SchedTypeOK, WakeInv, Retrying, Goto, sched_vars, set_task_state
  <1> QED
    BY <1>1, <1>2, <1>3, <1>4, <1>5, <1>6, <1>7

\* schedule() keeps a task that has been woken meanwhile on the run queue.
LEMMA LockScheduleInv ==
  ASSUME IInv, NEW t \in Task, LockSchedule(t)
  PROVE  IInv'
  <1> USE DEF IInv, LockSchedule, At
  <1>1. TypeOK'
    BY ZenonT(30) DEF TypeOK, SchedTypeOK, Goto, Labels, QueuedLabels, SpinLock, SpinUnlock, sched_vars, schedule, set_task_state, RUNNING, INTERRUPTIBLE, TaskStates
  <1>2. LockInv'
    BY TaskAssumption DEF TypeOK, LockInv, Goto, SpinLock, SpinUnlock, SectionLabels
  <1>3. QueueInv'
    BY DEF TypeOK, QueueInv, Goto, QueuedLabels
  <1>4. SleepInv'
    BY ZenonT(30) DEF TypeOK, SchedTypeOK, SleepInv, Goto, sched_vars, schedule, set_task_state, RUNNING, INTERRUPTIBLE
  <1>5. TokenInv'
    BY DEF TypeOK, TokenInv, Owns, Goto
  <1>6. FixInv'
    BY DEF TypeOK, FixInv, LockInv, SectionLabels, Goto
  <1>7. WakeInv'
    BY DEF TypeOK, SchedTypeOK, WakeInv, Retrying, Goto, sched_vars, schedule, set_task_state, RUNNING, INTERRUPTIBLE
  <1> QED
    BY <1>1, <1>2, <1>3, <1>4, <1>5, <1>6, <1>7

\* A waiter that retakes wait_lock after schedule() runs and is about to try again.
LEMMA LockRelockInv ==
  ASSUME IInv, NEW t \in Task, LockRelock(t)
  PROVE  IInv'
  <1> USE DEF IInv, LockRelock, At
  <1>1. TypeOK'
    BY DEF TypeOK, SchedTypeOK, Goto, Labels, QueuedLabels, SpinLock, SpinUnlock, sched_vars
  <1>2. LockInv'
    BY TaskAssumption DEF TypeOK, LockInv, Goto, SpinLock, SpinUnlock, SectionLabels
  <1>3. QueueInv'
    BY DEF TypeOK, QueueInv, Goto, QueuedLabels
  <1>4. SleepInv'
    BY DEF TypeOK, SchedTypeOK, SleepInv, Goto, sched_vars
  <1>5. TokenInv'
    BY DEF TypeOK, TokenInv, Owns, Goto
  <1>6. FixInv'
    BY DEF TypeOK, FixInv, LockInv, SectionLabels, Goto
  <1>7. WakeInv'
    BY DEF TypeOK, SchedTypeOK, WakeInv, Retrying, Goto, sched_vars
  <1> QED
    BY <1>1, <1>2, <1>3, <1>4, <1>5, <1>6, <1>7

\* The new owner leaves wait_list; with waiters left, count keeps saying so.
LEMMA LockGotInv ==
  ASSUME IInv, NEW t \in Task, LockGot(t)
  PROVE  IInv'
  <1> USE DEF IInv, LockGot, At
  <1>0. /\ wait_list' \in Seq(Task) /\ Distinct(wait_list')
        /\ Elements(wait_list') = Elements(wait_list) \ {t}
        /\ wait_list' # <<>> => wait_list # <<>>
    BY RemoveFacts DEF QueuedLabels
  <1>1. TypeOK'
    BY <1>0 DEF TypeOK, SchedTypeOK, Goto, Labels, SpinUnlock, sched_vars
  <1>2. LockInv'
    BY TaskAssumption DEF TypeOK, LockInv, Goto, SpinLock, SpinUnlock, SectionLabels
  <1>3. QueueInv'
    BY <1>0 DEF TypeOK, QueueInv, Goto, QueuedLabels
  <1>4. SleepInv'
    BY DEF TypeOK, SchedTypeOK, SleepInv, Goto, sched_vars
  <1>5. TokenInv'
    BY DEF TypeOK, TokenInv, Owns, Goto
  <1>6. FixInv'
    BY DEF TypeOK, FixInv, LockInv, SectionLabels, Goto
  <1>7. WakeInv'
    BY <1>0 DEF TypeOK, SchedTypeOK, WakeInv, Retrying, Goto, sched_vars
  <1> QED
    BY <1>1, <1>2, <1>3, <1>4, <1>5, <1>6, <1>7

\* mutex_trylock() with cmpxchg.
LEMMA TrylockCmpxchgInv ==
  ASSUME IInv, NEW t \in Task, TrylockCmpxchg(t)
  PROVE  IInv'
  <1> USE DEF IInv, TrylockCmpxchg, At
  <1>1. TypeOK'
    BY DEF TypeOK, SchedTypeOK, Goto, Labels, QueuedLabels, SpinLock, SpinUnlock, sched_vars
  <1>2. LockInv'
    BY TaskAssumption DEF TypeOK, LockInv, Goto, SpinLock, SpinUnlock, SectionLabels
  <1>3. QueueInv'
    BY DEF TypeOK, QueueInv, Goto, QueuedLabels
  <1>4. SleepInv'
    BY DEF TypeOK, SchedTypeOK, SleepInv, Goto, sched_vars
  <1>5. TokenInv'
    BY DEF TypeOK, TokenInv, Owns, Goto
  <1>6. FixInv'
    BY DEF TypeOK, FixInv, LockInv, SectionLabels, Goto
  <1>7. WakeInv'
    BY DEF TypeOK, SchedTypeOK, WakeInv, Retrying, Goto, sched_vars
  <1> QED
    BY <1>1, <1>2, <1>3, <1>4, <1>5, <1>6, <1>7

\* __mutex_trylock_slowpath() enters the wait_lock section.
LEMMA TrylockSlowInv ==
  ASSUME IInv, NEW t \in Task, TrylockSlow(t)
  PROVE  IInv'
  <1> USE DEF IInv, TrylockSlow, At
  <1>1. TypeOK'
    BY DEF TypeOK, SchedTypeOK, Goto, Labels, QueuedLabels, SpinLock, SpinUnlock, sched_vars
  <1>2. LockInv'
    BY TaskAssumption DEF TypeOK, LockInv, Goto, SpinLock, SpinUnlock, SectionLabels
  <1>3. QueueInv'
    BY DEF TypeOK, QueueInv, Goto, QueuedLabels
  <1>4. SleepInv'
    BY DEF TypeOK, SchedTypeOK, SleepInv, Goto, sched_vars
  <1>5. TokenInv'
    BY DEF TypeOK, TokenInv, Owns, Goto
  <1>6. FixInv'
    BY DEF TypeOK, FixInv, LockInv, SectionLabels, Goto
  <1>7. WakeInv'
    BY DEF TypeOK, SchedTypeOK, WakeInv, Retrying, Goto, sched_vars
  <1> QED
    BY <1>1, <1>2, <1>3, <1>4, <1>5, <1>6, <1>7

\* mutex_trylock() without cmpxchg: the probe and its repair.
LEMMA TrylockXchgInv ==
  ASSUME IInv, NEW t \in Task, TrylockXchg(t)
  PROVE  IInv'
  <1> USE DEF IInv, TrylockXchg, At
  <1>1. TypeOK'
    BY DEF TypeOK, SchedTypeOK, Goto, Labels, QueuedLabels, SpinLock, SpinUnlock, sched_vars
  <1>2. LockInv'
    BY TaskAssumption DEF TypeOK, LockInv, Goto, SpinLock, SpinUnlock, SectionLabels
  <1>3. QueueInv'
    BY DEF TypeOK, QueueInv, Goto, QueuedLabels
  <1>4. SleepInv'
    BY DEF TypeOK, SchedTypeOK, SleepInv, Goto, sched_vars
  <1>5. TokenInv'
    <2>0. /\ \A u \in Task \ {t} : holds'[u] = holds[u] /\ pc'[u] = pc[u]
          /\ pc'[t] = "trylock_fix" /\ count' = -1
      BY DEF TypeOK, Goto
    <2>1. CASE count = 1
      <3>1. holds'[t] /\ \A u \in Task : ~Owns(u)
        BY <2>1, ZenonT(30) DEF TypeOK, TokenInv
      <3> QED
        BY <2>0, <3>1 DEF TokenInv, Owns
    <2>2. CASE ~(count = 1)
      <3>1. ~holds'[t] /\ ~Owns(t) /\ \E u \in Task : Owns(u)
        BY <2>2 DEF TypeOK, TokenInv, Owns
      <3> QED
        BY <2>0, <3>1 DEF TokenInv, Owns
    <2> QED
      BY <2>1, <2>2
  <1>6. FixInv'
    BY DEF TypeOK, FixInv, LockInv, SectionLabels, Goto
  <1>7. WakeInv'
    BY DEF TypeOK, SchedTypeOK, WakeInv, Retrying, Goto, sched_vars
  <1> QED
    BY <1>1, <1>2, <1>3, <1>4, <1>5, <1>6, <1>7

\* Setting count back to 0 on an empty list makes nobody an owner and strands nobody.
LEMMA TrylockFixInv ==
  ASSUME IInv, NEW t \in Task, TrylockFix(t)
  PROVE  IInv'
  <1> USE DEF IInv, TrylockFix, At
  <1>1. TypeOK'
    BY DEF TypeOK, SchedTypeOK, Goto, Labels, QueuedLabels, SpinLock, SpinUnlock, sched_vars
  <1>2. LockInv'
    BY TaskAssumption DEF TypeOK, LockInv, Goto, SpinLock, SpinUnlock, SectionLabels
  <1>3. QueueInv'
    BY DEF TypeOK, QueueInv, Goto, QueuedLabels
  <1>4. SleepInv'
    BY DEF TypeOK, SchedTypeOK, SleepInv, Goto, sched_vars
  <1>5. TokenInv'
    BY DEF TypeOK, TokenInv, FixInv, Owns, Goto
  <1>6. FixInv'
    BY DEF TypeOK, FixInv, LockInv, SectionLabels, Goto
  <1>7. WakeInv'
    BY DEF TypeOK, SchedTypeOK, WakeInv, Retrying, Goto, sched_vars
  <1> QED
    BY <1>1, <1>2, <1>3, <1>4, <1>5, <1>6, <1>7

\* The fast path of mutex_unlock() releases a mutex nobody waits for.
LEMMA MutexUnlockInv ==
  ASSUME IInv, NEW t \in Task, mutex_unlock(t)
  PROVE  IInv'
  <1> USE DEF IInv, mutex_unlock, At
  <1>1. TypeOK'
    <2>0. holds' \in [Task -> BOOLEAN]
      BY Zenon DEF TypeOK
    <2>1. CASE count + 1 <= 0
      BY <2>0, <2>1 DEF TypeOK, SchedTypeOK, Goto, Labels, QueuedLabels, SpinLock, SpinUnlock, sched_vars, TokenInv, Owns
    <2>2. CASE ~(count + 1 <= 0)
      BY <2>0, <2>2 DEF TypeOK, SchedTypeOK, Goto, Labels, QueuedLabels, SpinLock, SpinUnlock, sched_vars, TokenInv, Owns
    <2> QED
      BY <2>1, <2>2
  <1>2. LockInv'
    BY TaskAssumption DEF TypeOK, LockInv, Goto, SpinLock, SpinUnlock, SectionLabels
  <1>3. QueueInv'
    BY DEF TypeOK, QueueInv, Goto, QueuedLabels
  <1>4. SleepInv'
    BY DEF TypeOK, SchedTypeOK, SleepInv, Goto, sched_vars
  <1>5. TokenInv'
    <2>1. CASE count + 1 <= 0
      BY <2>1 DEF TypeOK, TokenInv, Owns, Goto
    <2>2. CASE ~(count + 1 <= 0)
      BY <2>2 DEF TypeOK, TokenInv, Owns, Goto
    <2> QED
      BY <2>1, <2>2
  <1>6. FixInv'
    BY DEF TypeOK, FixInv, LockInv, SectionLabels, Goto
  <1>7. WakeInv'
    BY DEF TypeOK, SchedTypeOK, WakeInv, Retrying, Goto, sched_vars
  <1> QED
    BY <1>1, <1>2, <1>3, <1>4, <1>5, <1>6, <1>7

\* The slow path makes the mutex available ...
LEMMA UnlockSetInv ==
  ASSUME IInv, NEW t \in Task, UnlockSet(t)
  PROVE  IInv'
  <1> USE DEF IInv, UnlockSet, At
  <1>1. TypeOK'
    BY DEF TypeOK, SchedTypeOK, Goto, Labels, QueuedLabels, SpinLock, SpinUnlock, sched_vars
  <1>2. LockInv'
    BY TaskAssumption DEF TypeOK, LockInv, Goto, SpinLock, SpinUnlock, SectionLabels
  <1>3. QueueInv'
    BY DEF TypeOK, QueueInv, Goto, QueuedLabels
  <1>4. SleepInv'
    BY DEF TypeOK, SchedTypeOK, SleepInv, Goto, sched_vars
  <1>5. TokenInv'
    BY DEF TypeOK, TokenInv, Owns, Goto
  <1>6. FixInv'
    BY TaskAssumption DEF TypeOK, FixInv, LockInv, SectionLabels, SpinLock, Goto
  <1>7. WakeInv'
    BY DEF TypeOK, SchedTypeOK, WakeInv, Retrying, Goto, sched_vars
  <1> QED
    BY <1>1, <1>2, <1>3, <1>4, <1>5, <1>6, <1>7

\* ... and leaves its first waiter about to retry.
LEMMA UnlockWakeInv ==
  ASSUME IInv, NEW t \in Task, UnlockWake(t)
  PROVE  IInv'
  <1> USE DEF IInv, UnlockWake, At
  <1>0. ASSUME wait_list # <<>>
        PROVE  \E h \in Task : /\ h # t /\ pc[h] \in {"schedule", "relock"}
                                /\ SchedTypeOK' /\ state'[h] = RUNNING /\ onrq'[h]
                                /\ \A u \in Task \ {h} : state'[u] = state[u] /\ onrq'[u] = onrq[u]
    <2> DEFINE h == Head(wait_list)
    <2>1. h \in Task /\ pc[h] \in QueuedLabels /\ wake_up_process(h)
      BY <1>0, ListHead DEF TypeOK, QueueInv
    <2>2. h # t /\ pc[h] \in {"schedule", "relock"}
      BY <2>1, TaskAssumption DEF LockInv, QueuedLabels, SectionLabels
    <2>3. ~onrq[h] => state[h] # RUNNING
      BY <2>1 DEF SleepInv
    <2> QED
      BY <2>1, <2>2, <2>3, WakeUpFacts DEF TypeOK
  <1>00. wait_list = <<>> => UNCHANGED sched_vars
    OBVIOUS
  <1>1. TypeOK'
    <2>1. CASE wait_list # <<>>
      BY <1>0, <2>1 DEF TypeOK, SchedTypeOK, Goto, Labels, QueuedLabels, SpinLock, SpinUnlock, sched_vars
    <2>2. CASE wait_list = <<>>
      BY <1>00, <2>2 DEF TypeOK, SchedTypeOK, Goto, Labels, QueuedLabels, SpinLock, SpinUnlock, sched_vars
    <2> QED
      BY <2>1, <2>2
  <1>2. LockInv'
    BY TaskAssumption DEF TypeOK, LockInv, Goto, SpinLock, SpinUnlock, SectionLabels
  <1>3. QueueInv'
    BY DEF TypeOK, QueueInv, Goto, QueuedLabels
  <1>4. SleepInv'
    <2>1. CASE wait_list # <<>>
      BY <1>0, <2>1 DEF TypeOK, SchedTypeOK, SleepInv, Goto
    <2>2. CASE wait_list = <<>>
      BY <1>00, <2>2 DEF TypeOK, SchedTypeOK, SleepInv, Goto, sched_vars
    <2> QED
      BY <2>1, <2>2
  <1>5. TokenInv'
    BY DEF TypeOK, TokenInv, Owns, Goto
  <1>6. FixInv'
    BY DEF TypeOK, FixInv, LockInv, SectionLabels, Goto
  <1>7. WakeInv'
    <2>1. CASE wait_list # <<>>
      BY <1>0, <2>1 DEF TypeOK, SchedTypeOK, WakeInv, Retrying, Goto
    <2>2. CASE wait_list = <<>>
      BY <1>00, <2>2 DEF TypeOK, SchedTypeOK, WakeInv, Retrying, Goto, sched_vars
    <2> QED
      BY <2>1, <2>2
  <1> QED
    BY <1>1, <1>2, <1>3, <1>4, <1>5, <1>6, <1>7

\* A signal wakes, it never puts to sleep.
LEMMA SignalWakeUpInv ==
  ASSUME IInv, NEW t \in Task, signal_wake_up(t)
  PROVE  IInv'
  <1> USE DEF IInv, signal_wake_up, At
  <1>0. /\ SchedTypeOK'
        /\ UNCHANGED sched_vars \/ (state'[t] = RUNNING /\ onrq'[t])
        /\ \A u \in Task \ {t} : state'[u] = state[u] /\ onrq'[u] = onrq[u]
    BY TryToWakeUpFacts DEF TypeOK
  <1>1. TypeOK'
    <2>0. sigpending' \in [Task -> BOOLEAN]
      BY Zenon DEF TypeOK
    <2> QED
      BY <1>0, <2>0 DEF TypeOK
  <1>2. LockInv'
    BY TaskAssumption DEF TypeOK, LockInv, Goto, SpinLock, SpinUnlock, SectionLabels
  <1>3. QueueInv'
    BY DEF TypeOK, QueueInv, Goto, QueuedLabels
  <1>4. SleepInv'
    BY <1>0 DEF SleepInv, sched_vars
  <1>5. TokenInv'
    BY DEF TypeOK, TokenInv, Owns, Goto
  <1>6. FixInv'
    BY DEF TypeOK, FixInv, LockInv, SectionLabels, Goto
  <1>7. WakeInv'
    BY <1>0 DEF WakeInv, Retrying, sched_vars
  <1> QED
    BY <1>1, <1>2, <1>3, <1>4, <1>5, <1>6, <1>7

\* Clearing a signal outside the mutex code touches nothing the invariant is about.
LEMMA SignalHandledInv ==
  ASSUME IInv, NEW t \in Task, SignalHandled(t)
  PROVE  IInv'
  <1> USE DEF IInv, SignalHandled, At
  <1>1. TypeOK'
    BY DEF TypeOK, SchedTypeOK, Goto, Labels, QueuedLabels, SpinLock, SpinUnlock, sched_vars
  <1>2. LockInv'
    BY TaskAssumption DEF TypeOK, LockInv, Goto, SpinLock, SpinUnlock, SectionLabels
  <1>3. QueueInv'
    BY DEF TypeOK, QueueInv, Goto, QueuedLabels
  <1>4. SleepInv'
    BY DEF TypeOK, SchedTypeOK, SleepInv, Goto, sched_vars
  <1>5. TokenInv'
    BY DEF TypeOK, TokenInv, Owns, Goto
  <1>6. FixInv'
    BY DEF TypeOK, FixInv, LockInv, SectionLabels, Goto
  <1>7. WakeInv'
    BY DEF TypeOK, SchedTypeOK, WakeInv, Retrying, Goto, sched_vars
  <1> QED
    BY <1>1, <1>2, <1>3, <1>4, <1>5, <1>6, <1>7

\* Every step of the mutex code preserves the invariant.
LEMMA NextInv == IInv /\ [Next]_vars => IInv'
  <1> SUFFICES ASSUME IInv, [Next]_vars PROVE IInv'
    OBVIOUS
  <1>1. CASE Next
    <2>1. PICK t \in Task : \/ Request(t) \/ SpinStep(t) \/ Progress(t) \/ mutex_unlock(t)
                            \/ signal_wake_up(t) \/ SignalHandled(t)
      BY <1>1 DEF Next
    <2>2. CASE Request(t)
      BY <2>2, MutexLockInv, TrylockCmpxchgInv, TrylockSlowInv DEF Request
    <2>3. CASE SpinStep(t)
      BY <2>3, LockQueueInv, LockRelockInv, UnlockSetInv DEF SpinStep
    <2>4. CASE Progress(t)
      BY <2>4, LockXchgInv, LockInterruptedInv, LockNoSignalInv, LockSetStateInv, LockScheduleInv,
         LockGotInv, TrylockXchgInv, TrylockFixInv, UnlockWakeInv DEF Progress
    <2> QED
      BY <2>1, <2>2, <2>3, <2>4, MutexUnlockInv, SignalWakeUpInv, SignalHandledInv
  <1>2. CASE UNCHANGED vars
    BY <1>2 DEF vars, mutex_vars, sched_vars, IInv, TypeOK, SchedTypeOK, LockInv, QueueInv, SleepInv,
       TokenInv, Owns, FixInv, WakeInv, Retrying
  <1> QED
    BY <1>1, <1>2

\* The inductive invariant holds in every behaviour of the mutex.
THEOREM Invariance == Spec => []IInv
  BY InitInv, NextInv, PTL DEF Spec

\* Type correctness; in particular count never exceeds 1, however the fast and
\* the slow paths interleave.
THEOREM TypeCorrect == Spec => []TypeOK
  <1>1. IInv => TypeOK
    BY DEF IInv
  <1> QED
    BY <1>1, Invariance, PTL

\* At most one task holds the mutex, for any number of tasks and whichever way
\* (fast path, slow path, either trylock) they ask for it.
THEOREM Exclusion == Spec => []MutualExclusion
  <1>1. IInv => MutualExclusion
    BY DEF IInv, TokenInv, Owns, MutualExclusion
  <1> QED
    BY <1>1, Invariance, PTL

\* No waiter is forgotten by the fast paths.
THEOREM WakeupNotLost == Spec => []NoLostWakeup
  <1>1. IInv => NoLostWakeup
    <2> SUFFICES ASSUME IInv, wait_list # <<>>
                 PROVE  \/ \E t \in Task : pc[t] \in {"unlock_slow", "unlock_wake"}
                        \/ count < 0 /\ \E t \in Task : holds[t]
                        \/ \E i \in DOMAIN wait_list : Retrying(wait_list[i])
      BY DEF NoLostWakeup
    <2>1. CASE count < 0
      BY <2>1 DEF IInv, TypeOK, TokenInv, Owns
    <2>2. CASE ~(count < 0)
      <3>1. PICK t \in Task : pc[t] \in {"unlock_slow", "unlock_wake"} \/ Retrying(t)
        BY <2>2 DEF IInv, TypeOK, WakeInv
      <3>2. CASE Retrying(t)
        <4>1. t \in Elements(wait_list)
          BY <3>2 DEF IInv, QueueInv, Retrying, QueuedLabels
        <4> QED
          BY <3>2, <4>1 DEF Elements
      <3> QED
        BY <3>1, <3>2
    <2> QED
      BY <2>1, <2>2
  <1> QED
    BY <1>1, Invariance, PTL

\* A caller leaves mutex_lock(), with the mutex or with -EINTR, as TASK_RUNNING.
THEOREM ReturnsRunningCorrect == Spec => []ReturnsRunning
  <1>1. IInv => ReturnsRunning
    BY DEF IInv, SleepInv, ReturnsRunning
  <1> QED
    BY <1>1, Invariance, PTL

=============================================================================
