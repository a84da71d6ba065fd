------------------------------- MODULE MCWrap -------------------------------
(***************************************************************************)
(* The two data structures that live on wrapping unsigned arithmetic, the  *)
(* timing wheel and the kfifo ring buffer, for one run of TLC.  They do    *)
(* not interact: a behavior is one of the wheel or one of the FIFO.        *)
(***************************************************************************)
EXTENDS TimerWheel, Kfifo

VARIABLE part   \* the one that runs

WheelRuns == part = "wheel" /\ WheelNext /\ UNCHANGED <<kfifo_vars, part>>

KfifoRuns == part = "kfifo" /\ KfifoNext /\ UNCHANGED <<wheel_vars, part>>

Init == /\ WheelInit /\ KfifoInit
        /\ part \in {"wheel", "kfifo"}
        /\ part = "wheel" => ~locked

Spec == Init /\ [][WheelRuns \/ KfifoRuns]_<<wheel_vars, kfifo_vars, part>>

=============================================================================
