---------------------------- MODULE TimerWheel ----------------------------
(***************************************************************************)
(* The timing wheel of kernel/timer.c: one tvec_base_t with its five       *)
(* vectors, timers that are added, moved and deleted while __run_timers()  *)
(* catches up with jiffies, and the arithmetic on times that wrap.         *)
(*                                                                         *)
(* base->lock makes each step atomic; it is dropped for the functions of   *)
(* timers, between two steps here.  The order of the timers in one list is *)
(* left out.                                                               *)
(***************************************************************************)
EXTENDS Integers, FiniteSets

CONSTANTS Timer,
          TVR_SIZE, TVN_SIZE,   \* 1 << TVR_BITS, 1 << TVN_BITS: 256 and 64, or 64 and 16
          LongMod,              \* 2^32: an unsigned long has 32 bits
          Delays,               \* mod_timer() is called with jiffies + one of these
          MaxLag                \* bound: ticks by which the softirq may be late

\* The number of jiffies that one list of tvn spans: the shift of its index.
Span(n) == <<1, TVR_SIZE, TVR_SIZE * TVN_SIZE, TVR_SIZE * TVN_SIZE * TVN_SIZE,
             TVR_SIZE * TVN_SIZE * TVN_SIZE * TVN_SIZE>>[n]

ASSUME WheelAssumption == /\ TVR_SIZE \in Nat \ {0} /\ TVN_SIZE \in Nat \ {0}
                          /\ LongMod \in Nat /\ LongMod % TVR_SIZE = 0 /\ LongMod >= 2 * Span(5)
                          /\ Delays \subseteq Int /\ MaxLag \in Nat

VARIABLES jiffies,
          timer_jiffies,  \* base->timer_jiffies
          vec,            \* vec[t]: the list t is on: <<n, i>> is tvn.vec[i],
                          \* <<0, 0>> the work_list of __run_timers(), <<>> none
          wexpires,       \* wexpires[t]: timer->expires
          due             \* history: the time t has to run at

wheel_vars == <<jiffies, timer_jiffies, vec, wexpires, due>>

Times == 0 .. LongMod - 1

Wrap(x) == x % LongMod

\* (long)(a) - (long)(b) >= 0
time_after_eq(a, b) == Wrap(a - b) < LongMod \div 2

NoList == <<>>

work_list == <<0, 0>>

Lists == {NoList, work_list} \union ({1} \X (0 .. TVR_SIZE - 1)) \union ((2 .. 5) \X (0 .. TVN_SIZE - 1))

WheelTypeOK == /\ jiffies \in Times /\ timer_jiffies \in Times
               /\ vec \in [Timer -> Lists]
               /\ wexpires \in [Timer -> Times]
               /\ due \in [Timer -> Times]

\* init_timers_cpu().  INITIAL_JIFFIES is 5 minutes before the wrap.
WheelInit == /\ jiffies = Wrap(-5) /\ timer_jiffies = Wrap(-5)
             /\ vec = [t \in Timer |-> NoList]
             /\ wexpires = [t \in Timer |-> 0]
             /\ due = [t \in Timer |-> 0]

\* (x >> shift) & mask for vector tvn
Index(n, x) == (x \div Span(n)) % (IF n = 1 THEN TVR_SIZE ELSE TVN_SIZE)

\* The list for a timer that expires at e.  The clamp of times beyond 32 bits
\* has no effect where a long has 32 bits.
internal_add_timer(e) ==
  LET idx == Wrap(e - timer_jiffies)
      fits == {n \in 1 .. 4 : idx < Span(n + 1)}
  IN  IF fits # {} THEN LET n == CHOOSE m \in fits : \A k \in fits : m <= k IN <<n, Index(n, e)>>
      ELSE IF idx >= LongMod \div 2 THEN <<1, Index(1, timer_jiffies)>>
      ELSE <<5, Index(5, e)>>

-----------------------------------------------------------------------------
\* mod_timer() and add_timer(), on this CPU.  A pending timer with the same time
\* stays where it is.  A time that has passed is as good as the next tick.
wheel_mod_timer(t, d) ==
  LET e == Wrap(jiffies + d)
  IN  /\ ~(wexpires[t] = e /\ vec[t] # NoList)
      /\ vec' = [vec EXCEPT ![t] = internal_add_timer(e)]
      /\ wexpires' = [wexpires EXCEPT ![t] = e]
      /\ due' = [due EXCEPT ![t] = IF time_after_eq(e, timer_jiffies) THEN e ELSE timer_jiffies]
      /\ UNCHANGED <<jiffies, timer_jiffies>>

\* The fields of a timer that is not pending do not matter.
Detached(t) == /\ vec' = [vec EXCEPT ![t] = NoList]
               /\ wexpires' = [wexpires EXCEPT ![t] = 0]
               /\ due' = [due EXCEPT ![t] = 0]
               /\ UNCHANGED <<jiffies, timer_jiffies>>

wheel_del_timer(t) == vec[t] # NoList /\ Detached(t)

\* do_timer()
tick == /\ Wrap(jiffies - timer_jiffies + 1) <= MaxLag
        /\ jiffies' = Wrap(jiffies + 1)
        /\ UNCHANGED <<timer_jiffies, vec, wexpires, due>>

\* Mutant: only tv2 is cascaded, tv3 to tv5 never are.
CascadedTv2(l) ==
  /\ l # NoList /\ l[1] = 2
  /\ l[2] = Index(2, timer_jiffies)
  /\ Index(1, timer_jiffies) = 0

\* The list of tvn, n > 1, that __run_timers() cascades, if it does: its index is
\* reached and the indices of all vectors below are 0.
Cascaded(l) ==
  /\ l # NoList /\ l[1] > 1
  /\ l[2] = Index(l[1], timer_jiffies)
  /\ \A n \in 1 .. l[1] - 1 : Index(n, timer_jiffies) = 0

\* One round of the loop of __run_timers(): cascade, advance, and take the list
\* of the tick.
RunRound ==
  LET cascaded == [t \in Timer |-> IF Cascaded(vec[t]) THEN internal_add_timer(wexpires[t]) ELSE vec[t]]
  IN  /\ time_after_eq(jiffies, timer_jiffies)
      /\ \A t \in Timer : vec[t] # work_list
      /\ vec' = [t \in Timer |-> IF cascaded[t] = <<1, Index(1, timer_jiffies)>> THEN work_list
                                  ELSE cascaded[t]]
      /\ timer_jiffies' = Wrap(timer_jiffies + 1)
      /\ UNCHANGED <<jiffies, wexpires, due>>

\* detach_timer() and the call of its function, which may do anything to timers.
RunTimer(t) == vec[t] = work_list /\ Detached(t)

WheelNext == \/ \E t \in Timer : (\E d \in Delays : wheel_mod_timer(t, d)) \/ wheel_del_timer(t)
                                 \/ RunTimer(t)
             \/ tick \/ RunRound

WheelSpec == WheelInit /\ [][WheelNext]_wheel_vars

-----------------------------------------------------------------------------
\* The wheel keeps time: a timer runs in the round of the very jiffy it expires
\* at (of the next tick, if that had passed when it was added), and the hand never
\* goes past a timer that is still in a vector, however many times it was cascaded
\* and wherever the times wrap.
WheelKeepsTime ==
  \A t \in Timer : vec[t] # NoList =>
    IF vec[t] = work_list THEN due[t] = Wrap(timer_jiffies - 1)
    ELSE time_after_eq(due[t], timer_jiffies)

=============================================================================
