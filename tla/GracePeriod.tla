---------------------------- MODULE GracePeriod ----------------------------
(***************************************************************************)
(* What read-copy update promises, whatever the implementation: a request  *)
(* (a call_rcu() callback, a synchronize_srcu() call) is answered only     *)
(* after every read-side critical section that was running when it was     *)
(* made has ended.  Sections that begin later do not hold it up.           *)
(***************************************************************************)
CONSTANTS Section,     \* whoever may be inside a read-side critical section
          Request      \* the requests there can be at a time

VARIABLES inside,      \* the members of Section that are inside
          waiting,     \* the requests not yet answered
          before       \* before[q]: the sections q still has to wait for

gp_vars == <<inside, waiting, before>>

GPInit == /\ inside = {}
          /\ waiting = {}
          /\ before = [q \in Request |-> {}]

Enter(s) == /\ s \notin inside
            /\ inside' = inside \union {s}
            /\ UNCHANGED <<waiting, before>>

Leave(s) == /\ s \in inside
            /\ inside' = inside \ {s}
            /\ before' = [q \in Request |-> before[q] \ {s}]
            /\ UNCHANGED waiting

Ask(q) == /\ q \notin waiting
          /\ waiting' = waiting \union {q}
          /\ before' = [before EXCEPT ![q] = inside]
          /\ UNCHANGED inside

Answer(q) == /\ q \in waiting
             /\ before[q] = {}
             /\ waiting' = waiting \ {q}
             /\ UNCHANGED <<inside, before>>

GPNext == \/ \E s \in Section : Enter(s) \/ Leave(s)
          \/ \E q \in Request : Ask(q) \/ Answer(q)

GPSpec == GPInit /\ [][GPNext]_gp_vars

=============================================================================
