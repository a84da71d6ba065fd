# The kernel's sleeping locks and deferred work, in TLA+

The repository is a uClinux distribution for MIPS under QEMU: a Linux
2.6.19-uc1 kernel (`src/linux-2.6.x`), a C library, user programs and a build
system. This project specifies and verifies the kernel's concurrency core: what
the rest of the kernel sleeps on (read/write semaphores, mutexes, counting
semaphores, completions, wait queues), what it defers work to (work queues,
softirqs, tasklets, timers), how it waits for readers (RCU, SRCU), and the
lock-free ring buffer. The
configuration is `src/vendors/qemu/sim/config.linux-2.6.x`.

Paths below are relative to `src/linux-2.6.x`.

## Inventory

| Part | State | Operations | What is hard | Correct means |
|---|---|---|---|---|
| Task states and wake-ups (`kernel/sched.c`, `kernel/wait.c`) | `p->state`, run-queue membership, wait queues | `schedule`, `try_to_wake_up`, `__wake_up_common`, `prepare_to_wait`, `finish_wait` | a task declares itself asleep before it is | a wake-up ends the sleep whichever comes first |
| Read/write semaphore (`lib/rwsem-spinlock.c`) | `activity`, `wait_list`, `waiter.task` | `down_*`, `up_*`, `downgrade_write`, trylocks | waiters poll without the lock; ownership is handed to sleepers | exclusion, first come first served, no granted waiter asleep |
| Mutex (`kernel/mutex.c`, `include/asm-generic/mutex-dec.h`) | `count`, `wait_list` | lock, lock_interruptible, trylock, unlock | fast paths change `count` inside the slow paths' sections; signals | exclusion, no forgotten waiter |
| Semaphore (`arch/mips/kernel/semaphore.c`) | `count`, wait queue | down, down_interruptible, down_trylock, up | increments and decrements of a negative count have no effect and are made good later | units conserved, no forgotten waiter |
| Completion (`kernel/sched.c`) | `done`, wait queue | `complete`, `complete_all`, four waits | timeouts and signals racing a completion | one taker awake for each unit |
| Work queue (`kernel/workqueue.c`) | list, sequence numbers, `pending`, timers, `workqueue_mutex` | queue, delay, cancel, flush, destroy, the worker | unlocked tests, wrap-around, re-queueing, nested flush | each claim has one owner, flush waits for what was queued |
| RCU (`kernel/rcupdate.c`) | batch numbers, per-CPU lists, quiescent states | read sections, `call_rcu`, the tasklet, `rcu_barrier` | batches are numbered and tested without the lock; numbers wrap | no callback before its readers end; barrier covers all CPUs |
| SRCU (`kernel/srcu.c`) | `completed`, two counters per CPU | read sections, `synchronize_srcu`, cleanup | counters are added up one CPU at a time while readers move | a grace period |
| Softirqs, tasklets (`kernel/softirq.c`) | pending bits, per-CPU lists, SCHED and RUN bits, `count` | raise, run, `ksoftirqd`; schedule, action, disable, kill | work is left to a thread that may be about to sleep; tasklets are rescheduled while they run | no softirq forgotten, one owner, one runner, kill is final |
| Timers (`kernel/timer.c`) | `timer->base`, `running_timer`, the vectors | `mod_timer`, `del_timer`, `del_timer_sync`, `__run_timers`, `cascade` | the base is read before it is locked; times wrap | serialized, sync waits, on time |
| kfifo (`kernel/kfifo.c`) | `in`, `out`, the buffer | put, get, reset | reader and writer without a lock; indices wrap | first in, first out |
| Kernel threads, stop_machine | stop request; a state word and acks | create, stop; the stop sequence | handshakes | not modelled |
| RT mutexes, plists, futexes | priority chains, hash queues | lock, wait, wake, requeue | chain walks dropping locks | not modelled |
| Pipes, JBD | ring of buffers; transactions | read, write; commit | partial transfers; crash between steps | not modelled |

The rest of the kernel, the C library, the user programs and the build system
are not modelled; `PROJECT.json` gives the reason for each.

## Modules and how they correspond to the code

| Module | Code | Remarks |
|---|---|---|
| `TaskState` | `schedule()`, `try_to_wake_up()` | extended by all models: `state[t]` is `p->state`, `onrq[t]` is `p->array # NULL` |
| `WaitQueue` | `__wake_up_common()`, `prepare_to_wait()`, `finish_wait()`, `autoremove_wake_function()` | a queue with exclusive entries is the sequence of its tasks, any other the set of them |
| `Lists` | | elements, distinctness and removal on sequences |
| `RwSem`, `RwLock` | `lib/rwsem-spinlock.c` | `RwLock` is the abstract lock `RwSem` implements |
| `Mutex` | `kernel/mutex.c`, `mutex-dec.h` | both variants of trylock |
| `Semaphore` | `arch/mips/kernel/semaphore.c`, `asm-mips/semaphore.h` | |
| `Completion` | `kernel/sched.c:3652-3795` | |
| `Workqueue` | `kernel/workqueue.c`, parts of `kthread_stop()` | one `cpu_workqueue_struct` |
| `GracePeriod` | | abstract: a request is answered after the sections that were open when it was made |
| `Srcu` | `kernel/srcu.c` | implements `GracePeriod` |
| `Rcu` | `kernel/rcupdate.c` | implements `GracePeriod`; read sections are named by their CPUs |
| `TimerSync` | `kernel/timer.c` | one timer between CPUs; when it expires is left open |
| `TimerWheel` | `kernel/timer.c` | one base: the five vectors, `cascade()`, wrapping times |
| `Softirq`, `Tasklet` | `kernel/softirq.c`, `interrupt.h` | `Tasklet` extends `Softirq`; a CPU's `ksoftirqd` has the CPU's name |
| `Kfifo`, `Fifo` | `kernel/kfifo.c`, `kfifo.h` | `Fifo` is the abstract queue `Kfifo` implements |
| `MCWait`, `MCWrap` | | put components that do not interact in one run: each step belongs to one of them while the others stay in their initial states |
| `RwSemProofs`, `SemaphoreProofs`, `CompletionProofs`, `WorkqueueProofs`, `TaskletProofs` | | each extends its component: inductive invariant, one lemma per action, theorems |
| `MutexRcuProofs`, `TimerKfifoProofs` | | the same for `Rcu` and `Mutex`, and for `TimerSync`, `TimerWheel` and `Kfifo`, one after the other; the components of a module share nothing but lemmas about lists and arithmetic |
| `WaitQueueProofs` | | the facts about wake-ups, lists and scans that the proofs of the sleeping primitives share |

In every model of a lock or queue `pc[t]` says where in the function task `t` is, and an action
named after a function is its first step. A step is what happens between two
points where another task can look: an atomic operation, a store that is read
without a lock, or a whole section under a spinlock that protects everything
it touches. Where fast paths change a variable without the lock (`count` of
the mutex), the section is several steps and the lock is a variable.

The target is a uniprocessor without kernel preemption. The models allow the
interleavings of a multiprocessor with sequentially consistent memory, which
include those of the target; memory reordering is not modelled. A property
that holds here therefore holds on the target, and a violation is stated for
the source, not for that one configuration.

Simplifications that a reader should know:

- `__wake_up_common()` is one step. It holds the queue's lock, and what can
  come between two of its wake-ups concerns a single task, so it can be moved
  before or after the scan.
- A signal is a flag and a wake-up; it is cleared when the task is outside the
  primitive. `Semaphore` delivers signals only where they are looked at.
- A timer is a flag that may fire. `delayed_work_timer_fn()` runs in the step
  that clears it: `del_timer_sync()` waits for a timer function that has begun.
- Users follow the rules of the interfaces: only owners release, mutexes are
  not taken recursively, a queue is destroyed when nobody uses it and no timer
  will add to it. These rules are guards, and the comments at them say so.
- MIPS defines `__HAVE_ARCH_CMPXCHG`, so the spinlock-based trylock is not
  compiled for the target. It is modelled all the same: `have_cmpxchg` is
  chosen in the initial state.
- `Rcu` takes the tick and the tasklet it schedules as one step, and leaves out
  runs of the tasklet that change nothing. `Srcu` takes `synchronize_sched()`
  at its word.
- `TimerSync` and `TimerWheel` split one file: the first has all the callers and
  no times, the second has the times and one lock. `add_timer_on()` needs a
  timer that nobody else is using, which is its guard.
- `Tasklet` has one controlling task that kills, disables and enables; other
  tasks and interrupts only schedule.

## Runs

| Run | Instance | Shows |
|---|---|---|
| `rwsem` | 3 tasks, fair | `__rwsem_wake_one_writer()` finds a writer, no granted waiter asleep; implements `RwLock`; every waiter is served |
| `mutex` | 3 tasks, both trylocks, fair | exclusion, no forgotten waiter, a signalled `mutex_lock_interruptible()` returns, every waiter returns once newcomers stop |
| `semaphore` | 3 tasks, 1 unit, fair | units conserved, no unit left with everyone asleep, the chain of wake-ups reaches every waiter if units are returned, a signalled `down_interruptible()` returns even if they are not |
| `completion` | 3 tasks, 2 posts, 4 waits, fair | a taker awake for each unit, entries off the queue on each way out; timed, signalled and `complete_all()`ed waits end |
| `workqueue_safety` | worker, 2 users, a plain and a rearming work | one owner of each pending bit, no sleeper forgotten, a flush waits for all that was queued before it, a killed work stays dead, destroyed queues are empty |
| `workqueue_live` | worker, 1 user, a plain and a rearming work, nesting 2, fair | sequence numbers count works across wrap-around; queued works run and flushes end on a queue that never rests |
| `workqueue_nested_flush` | worker, 2 users, 2 works, nesting 2 | violation, see Findings |
| `workqueue_flush_deadlock` | the same, with `workqueue_mutex` | violation, see Findings |
| `wait_safety` | RCU: 2 CPUs, 1 callback, the barrier; SRCU: 2 readers, 2 updaters, 2 CPUs; a timer: 2 tasks on 2 CPUs | RCU and SRCU implement `GracePeriod`; the barrier covers what was queued; the timer's function runs once at a time, `del_timer_sync()` leaves nothing |
| `wait_live` | the same with 1 SRCU reader, no callback but the barrier's, fair | `rcu_barrier()`, `synchronize_srcu()` and the timer calls return |
| `tasklet` | 2 CPUs, 2 softirqs, 1 tasklet, 2 restarts, fair | the bits SCHED and RUN, disable and kill; pending softirqs are taken and the tasklet runs |
| `wrapping` | wheel of 9-bit times, 1 timer; FIFO of 4 bytes, indices modulo 8 | timers run at their time; the FIFO implements `Fifo` |

What a stronger property of the same run implies, or a proof establishes for
every instance, is not checked a second time: exclusion and `activity` of the
read/write semaphore, `ReturnsRunning`, `LockedByItsBase`, `PendingNotForgotten`
and `RequestNotLost` are theorems only (see Proofs). Every module states a type
invariant. They are not among the properties of the runs; all but those of `Srcu` and
`Kfifo` are proved, most as parts of the inductive invariants.

A component with a run of its own is its own root module: the configuration
alone gives its constants their values.

### Bounds

- Tasks. Three tasks give an owner, a waiter and a newcomer, the cast of every
  race in the lock code, or a writer with a batch of two readers behind it; the
  safety of the locks, of completions and of work queues is proved for any number.
- `MaxPosts`, `MaxWaits` (completions). Two posts mix `complete()` with
  `complete_all()`; four waits are more than the posts of `complete()` satisfy.
  `UINT_MAX = 15` keeps `UINT_MAX/2` above the number of waits. `done` does not
  wrap within two posts.
- `Width = 8`, or 10 with nested calls (work queues): the least that
  `WidthAssumption` allows. The sequence numbers wrap often; `RoomFor` keeps a
  flusher from being overtaken by half their range, which with the code's
  `long` would take 2^31 works during one flush. `MaxDepth = 2` is one nested
  `run_workqueue()`.
- `BatchMod = 4` (RCU). `completed` is at most two behind a batch number, and 4 is
  the least modulus in which that difference is negative; they start at -300
  and wrap at once. `CompletedMod = 6` is the least for which SRCU's difference
  of 2 is not negative. The counters wrap at one more than the readers.
- `TVR_SIZE = 2`, `TVN_SIZE = 4`, `LongMod = 512`: the code's proportions, five
  vectors whose ranges fill a `long`.
  `Delays` has both sides of each vector's limit, 0 and -1 (in the past), and
  jiffies go all the way round. One timer is enough, as timers do not interact.
  `MaxLag = 1` bounds how late the softirq may be.
- `UintMod = 8` is twice the size of the FIFO, so that a full one and an empty one
  differ; puts and gets of up to 3 bytes meet the end of the buffer.
- Two CPUs and one tasklet, one timer or one callback are the cast of the races
  between scheduling, running and waiting; safety is proved for any number, and for
  any moduli and sizes that the assumptions allow.
- Symmetry is used only in `wait_safety`, whose properties are all safety.

`CHECK_DEADLOCK FALSE` is set in `completion`, which really stops when its
requests are used up.

### Fairness

A task on the run queue is run (weak fairness of its own steps): the scheduler
does not starve runnable tasks of equal standing, and priorities are not
modelled. Where a step takes a spinlock others keep taking (`RwSem` releases,
`Mutex` `SpinStep`), fairness is strong: on the uniprocessor nobody spins, and
the lock is free whenever the task runs. Started timers expire. Owners of a
read/write semaphore or mutex release it; for the semaphore this is the premise
of `EveryWaiterReturns`. Nothing is assumed of signals, of new
requests, or of `workqueue_mutex`, so the liveness of work queues is stated
for single-threaded queues.

RCU: the tick and the tasklet run, sections end, interrupts of `on_each_cpu()`
arrive; a CPU passes a quiescent state again and again however often it enters
a section, so that fairness is strong. SRCU: readers and updaters run, and the
mutex is obtained (strong: the mutex lets newcomers overtake, and does not promise
this while they keep coming). Timers: callers and functions run, and need not
expire; `CallsReturn` is stated for functions that stop calling `mod_timer()`.
Softirqs: actions end, softirqs are enabled again, and `ksoftirqd`, which has
nice 19, gets the CPU in the end however often softirqs interrupt it (strong).

Mutexes and semaphores let newcomers overtake woken waiters, so starvation
freedom does not hold for them in general and is checked for behaviours in
which newcomers stop. `cancel_rearming_delayed_workqueue()` is not claimed to terminate.

## Proofs

For every finite set of tasks, CPUs, tasklets or users, every number of works,
units and calls, for both trylocks and both kinds of work queue:

- `RwSem`: `TypeOK`, `MutualExclusion`, `ActivityCountsOwners`,
  `FirstWaiterIsWriter`, `NoLostWakeup`, and that `RwSem` implements `RwLock`;
- `Mutex`: `TypeOK`, `MutualExclusion`, `NoLostWakeup`, `ReturnsRunning`;
- `Semaphore`: `TypeOK`, `UnitsConserved`, `NoLostWakeup`;
- `Completion`: `TypeOK`, `UnitsHaveTakers`, `EntriesMatchWaiters`;
- `Workqueue`: `TypeOK`, `PendingHasOneOwner`, `SequencesCountWork`,
  `WorkerNotForgotten`, `FlusherNotForgotten`, `DestroyedEmpty`, `CancelIsFinal`,
  also with functions that flush their own queue; and, without such functions
  (with them it is false, see Findings), `FlushWaitsForQueued`;
- `Rcu`: that it implements `GracePeriod`, and `BarrierCoversQueued`;
- `TimerSync`: `LockedByItsBase`, `TimerSerialized`, `SyncIsFinal`;
- `TimerWheel`: `WheelKeepsTime`; `Kfifo`: that it implements `Fifo`;
- `Tasklet`: `PendingNotForgotten`, `SchedHasOneOwner`, `TaskletSerialized`,
  `RequestNotLost`, `DisabledNotRunning`, `KillIsFinal`.

The assumptions are the `ASSUME`s of the modules: `Task` is finite, null values
are not members of what they are null for, bases and users are distinct, the
tasklet softirq is one of the softirqs, and the sequence numbers of a work queue
are wide enough for its works (`WidthAssumption`: fewer works and nested calls
than half of their range, 2^31 in the code). For the wrapping counters: RCU's batch
numbers have an even modulus of at least 4 (`RcuAssumption`); the vectors of the wheel span
at most half of a `long` per list of the last one, and the size of the first divides
the range (`WheelAssumption`); the size of a FIFO divides the range of its indices,
which is at least twice as large (`KfifoAssumption`). The source's 2^32, 256 and 64, and
FIFOs whose size is a power of two, satisfy them.

None of the properties is inductive. For `RwSem`, exclusion depends on
`activity`, which is wrong in the middle of a batch of readers: `CountInv`
adds those granted but not counted yet (`Uncounted`), and `SectionInv` says
what a releasing task knows at each label. `FirstWaiterIsWriter` is preserved
because a reader queues only behind a writer, or while a writer owns the
semaphore, whose release grants the readers. `WakeInv` covers, besides
sleepers, those about to sleep.

For `Mutex`, `TokenInv` makes the mutex a token: `count = 1`, or exactly one
task owns it, a task that has begun a slow release (`"unlock_slow"`) counting
as owner until it stores 1. `WakeInv` says that a count the next release would
take for uncontended comes with somebody who will see to the waiters; `FixInv`
carries this through the window of the slow trylock. `NoLostWakeup` follows
from `WakeInv` when `count >= 0` and from `TokenInv` otherwise.

For `Semaphore`, `UnitsConserved` is inductive only with the labels at which a task
holds a unit (`HoldInv`) and with a bound from below on a negative count: every
decrement below 0 is owed to a task that still waits (`CountInv`). `WakeInv`
extends `NoLostWakeup` to the tasks that have seen no unit and are about to
sleep. Who is woken comes from `WaitQueueProofs`: the scan of `wake_up()` ends
somebody's sleep if anybody sleeps, and otherwise makes everybody `TASK_RUNNING`.

For `Completion`, `UnitsHaveTakers` is kept because `complete()` adds at most one
unit (fewer when `done` wraps) and one taker, or finds nobody asleep; a waiter goes
to sleep only under the lock with `done = 0`; and whoever leaves takes a unit along,
leaves none behind, or is counted in `abandoned`. `SleepInv` ties the states to the
labels, `AbandonedInv` bounds `abandoned` by the waits that have ended.

For `Workqueue` the invariant has eleven parts besides the types. `ClaimInv` and
`OnceInv` say that a pending work has one claimant: a caller past
`test_and_set_bit()`, the timer, one entry of the list, or the worker before it
clears the bit; `KillInv` that a killed work has none, and `FnInv` which function is
at which label. `SeqInv` gives every queued work its age, the distance of its number
from `insert_sequence`: the list is consecutive and ends at age 1, so the
difference of the two sequences counts what is queued or running (`RunInv` covers
nested calls). `NeededInv` keeps what a flusher waits for within half of the range,
`FlusherInv` and `WorkerInv` say what those about to sleep have seen, `DestroyInv`
that a queue that is being destroyed has been flushed and gets nothing new.
`WidthAssumption` is used once, to bound the length of the list by the number of
works (`ListBounded`: the works on it are distinct).

For `TimerSync` the key is that `timer->base` does not change while
`running_timer` names the timer, so only the timer's own base can be running it
(`running \subseteq {base}`) and one look at that base is enough for
`del_timer_sync()`; a timer in transit belongs to exactly one caller.

For `Tasklet`, `CpuInv` says that a `TASK_RUNNING`
`ksoftirqd` is on the run queue and that pending bits will be looked at;
`RunInv` that the RUN bit is a lock, held by one activation; `LinkInv` that a
tasklet is linked, or has just been locked, at one place at most; `SchedInv` that
the SCHED bit is set exactly if it is at such a place or `tasklet_kill()` has set
it; `ControlInv` what the controlling task knows about `count` while it waits.
`PlacesFacts` turns this into counts of places.

For `Rcu` the invariant has to say what batch numbers mean although they wrap.
`completed` is `cur` or one behind it, a CPU is at one of four stages of the current
grace period (it has not noticed it, watches for a quiescent state, has seen one, has
reported it: `QuietInv`), and the number of a batch of callbacks is at most one away
from `cur` (`NumberInv`), so that it is never mistaken for another after a wrap: it may
be one behind only while its CPU has not reported, which holds the current grace period
up. `GraceInv` is the point: while the grace period of a batch is under way, every CPU
that its callbacks wait for still owes a quiescent state to it, and once it is over
there is none. The CPU that calls
`rcu_barrier()` counts as waited for while it posts, which is why no callback of the
barrier can run before the last is posted. `BarrierInv` says that callbacks leave a
CPU's lists in the order they joined them, so what was queued before the barrier is
ahead of the barrier's own callback, and that `count` is the number of those still
queued; it is stated with a bijection (`Counts`), which needs no theory of cardinality.

For `TimerWheel`, `OnVector` says that a timer on a list of a vector has not missed the
turn of that list: the time left is at least the distance of its due time from the
start of the list's span. `internal_add_timer()` establishes it since it picks a vector
whose spans do not exceed the time left; a round of `__run_timers()` keeps it because
the turn ends only in the round that cascades the list. A timer on the first vector is
less than its size away, so the list that is run holds only timers due now.

For `Kfifo`, places `k` behind an index are distinct within one `size`, the unsigned
difference of the indices is the number of bytes wherever they have wrapped (`LenIs`),
and a copy under way stays valid: the reader only makes room, the writer only adds
bytes behind those of the FIFO (`PutKept`, `GetKept`).

Each action has a lemma that it preserves the invariant. The refinement of `RwSem` maps
the owner of a waiter to what it has been granted (before it has run) and the
queue to `wait_list` with its flags; that of `Rcu` maps a request to the sections that
were open at its `call_rcu()` and still are; that of `Kfifo` maps the queue to the bytes
between the two indices, which move when an index is published.

Only model-checked: `Srcu`, whose correctness is about sums over all CPUs, which need
induction over data; and all liveness. Both are out of the prover's reach.

## Findings

1. `workqueue_nested_flush`. `kernel/workqueue.c:313` says a flush waits for
   all works queued on entry. When a function flushes its own queue, the works
   behind it end first and are counted in its place, and another task's flush
   can return while that function still runs.
2. `workqueue_flush_deadlock`. `kernel/workqueue.c:282` says the worker's own
   flush runs the queue by hand "rather than deadlocking". On a queue that is
   not single-threaded it first waits for `workqueue_mutex`, whose owner may
   be waiting for the function that flushes.

Three observations without a run:

- `include/asm-generic/mutex-dec.h:82` demands that a failed trylock not turn a
  negative count into 0. The spinlock-based one does when a newcomer has
  decremented the count and not queued yet. The proofs show it harmless, and it
  is not compiled for MIPS.
- The comment "Timers are FIFO" (`kernel/timer.c:128`) is about one list: a timer
  that is cascaded joins its list behind one of the same time that was added
  directly. `TimerWheel` leaves the order in a list out.
- Two tasks that keep moving a timer between their CPUs can keep a third one in
  `lock_timer_base()` for ever.

## Coverage and what is not modelled

The files of the modelled parts are largely covered, the rest of them being
comments, wrappers and debugging; of `kernel/timer.c` the timers are, and not
timekeeping and the system calls; of `kernel/sched.c` and `kernel/signal.c` only
the functions the primitives call. Against the whole kernel, 1.9 million lines,
this is about a tenth of a percent: the project is about the core that the rest
relies on, and does not pretend to be about the rest.

Not modelled:

- CPU hotplug, memory reordering, priorities and preemption points: not
  configured, or not part of what the properties tell apart.
- The `rcu_bh` flavour and the `tasklet_hi_` functions, which are the same code
  over other variables; `force_quiescent_state()`, which only hurries.
- `complete_all()` overflowing `done`, and the termination of
  `cancel_rearming_delayed_workqueue()`: the hazards without a property, with their
  reasons in `PROJECT.json`.
- `schedule_on_each_cpu()`, which queues works of its own without their pending bits:
  `PendingHasOneOwner` says nothing of such works.
- A unit that a timed-out waiter leaves behind while others sleep: the code does this,
  `UnitsHaveTakers` counts it in `abandoned` and says that nothing else is left behind.
- Kernel threads and `stop_machine()`: within reach, and composed of parts that
  are modelled.
- RT mutexes and futexes: priority chains and user-space memory need a state
  space of their own.
- Pipes, the journal, memory management, the VFS, networking, drivers and
  architecture code, the C library, user programs, the build system.
