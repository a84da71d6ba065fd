-------------------------------- MODULE Fifo --------------------------------
(***************************************************************************)
(* What include/linux/kfifo.h promises: a queue of at most Capacity bytes. *)
(* A put appends the bytes it takes from its caller, a get hands the first *)
(* bytes to its caller and removes them, and a reset removes everything.   *)
(***************************************************************************)
EXTENDS Naturals, Sequences

CONSTANTS Byte, Capacity

VARIABLES queue,   \* the bytes in the FIFO
          moved    \* the bytes the last put took, or the last get returned

FifoInit == queue = <<>> /\ moved = <<>>

Put == /\ moved' \in Seq(Byte)
       /\ queue' = queue \o moved'
       /\ Len(queue') <= Capacity

Get == \E n \in 0 .. Len(queue) : /\ moved' = SubSeq(queue, 1, n)
                                  /\ queue' = SubSeq(queue, n + 1, Len(queue))

Reset == queue' = <<>> /\ UNCHANGED moved

FifoSpec == FifoInit /\ [][Put \/ Get \/ Reset]_<<queue, moved>>

=============================================================================
