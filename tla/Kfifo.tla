------------------------------- MODULE Kfifo -------------------------------
(***************************************************************************)
(* The ring buffer of kernel/kfifo.c and include/linux/kfifo.h, whose      *)
(* indices run freely and wrap with the unsigned int.  It is used in one   *)
(* of two ways: by any number of tasks through the functions that take     *)
(* fifo->lock, or without a lock by one writer and one reader, who then    *)
(* copy byte by byte while the other one is at work.                       *)
(***************************************************************************)
EXTENDS Integers, Sequences

CONSTANTS Byte,
          size,         \* fifo->size, a power of 2
          UintMod,      \* 2^32 in the source
          MaxLen        \* bound: the longest put and get

ASSUME KfifoAssumption == /\ Byte # {} /\ size \in Nat \ {0}
                          /\ UintMod \in Nat /\ UintMod >= 2 * size /\ UintMod % size = 0
                          /\ MaxLen \in 1 .. size

VARIABLES buffer,       \* fifo->buffer
          in, out,      \* fifo->in and fifo->out
          locked,       \* the way the FIFO is used; never changes
          put,          \* __kfifo_put(): the bytes to copy, how many are copied, and l
          get,          \* __kfifo_get(): the bytes copied, how many it wants, and l
          moved         \* history: the bytes the last put or get has moved

kfifo_vars == <<buffer, in, out, locked, put, get, moved>>

NoPut == [active |-> FALSE, bytes |-> <<>>, done |-> 0, l |-> 0]

NoGet == [active |-> FALSE, bytes |-> <<>>, len |-> 0, l |-> 0]

Uint == 0 .. UintMod - 1

BytesUpTo(n) == UNION {[1 .. k -> Byte] : k \in 0 .. n}

KfifoTypeOK ==
  /\ buffer \in [0 .. size - 1 -> Byte]
  /\ in \in Uint /\ out \in Uint
  /\ locked \in BOOLEAN
  /\ put \in [active : BOOLEAN, bytes : BytesUpTo(size), done : 0 .. size, l : 0 .. size]
  /\ get \in [active : BOOLEAN, bytes : BytesUpTo(size), len : 0 .. size, l : 0 .. size]
  /\ moved \in BytesUpTo(size)

\* kfifo_init(); the memory of the buffer is not cleared
KfifoInit == /\ buffer = [i \in 0 .. size - 1 |-> CHOOSE b \in Byte : TRUE]
             /\ in = 0 /\ out = 0
             /\ locked \in BOOLEAN
             /\ put = NoPut /\ get = NoGet
             /\ moved = <<>>

MinOf(a, b) == IF a <= b THEN a ELSE b

\* __kfifo_len()
kfifo_len == (in - out) % UintMod

\* fifo->size - fifo->in + fifo->out
Free == (size - in + out) % UintMod

\* fifo->size - (i & (fifo->size - 1)): the bytes from index i to the buffer's end
ToEnd(i) == size - (i % size)

\* Where byte k, from 0, of a copy of which l bytes fit before the buffer's end goes.
Offset(i, l, k) == IF k < l THEN (i % size) + k ELSE k - l

-----------------------------------------------------------------------------
(* One writer and one reader without a lock.                               *)

\* __kfifo_put() samples fifo->out.
__kfifo_put(bytes) ==
  LET len == MinOf(Len(bytes), Free)
  IN  /\ ~locked /\ ~put.active
      /\ put' = [active |-> TRUE, bytes |-> SubSeq(bytes, 1, len), done |-> 0,
                 l |-> MinOf(len, ToEnd(in))]
      /\ UNCHANGED <<buffer, in, out, locked, get, moved>>

PutByte ==
  /\ put.active /\ put.done < Len(put.bytes)
  /\ buffer' = [buffer EXCEPT ![Offset(in, put.l, put.done)] = put.bytes[put.done + 1]]
  /\ put' = [put EXCEPT !.done = @ + 1]
  /\ UNCHANGED <<in, out, locked, get, moved>>

\* Mutant: an off-by-one, fifo->in is advanced although the last byte is not copied.
PutPublishEarly ==
  /\ put.active /\ put.done + 1 >= Len(put.bytes)
  /\ in' = (in + Len(put.bytes)) % UintMod
  /\ put' = NoPut
  /\ moved' = put.bytes
  /\ UNCHANGED <<buffer, out, locked, get>>

\* fifo->in += len
PutPublish ==
  /\ put.active /\ put.done = Len(put.bytes)
  /\ in' = (in + Len(put.bytes)) % UintMod
  /\ put' = NoPut
  /\ moved' = put.bytes
  /\ UNCHANGED <<buffer, out, locked, get>>

\* __kfifo_get() samples fifo->in.
__kfifo_get(n) ==
  LET len == MinOf(n, kfifo_len)
  IN  /\ ~locked /\ ~get.active
      /\ get' = [active |-> TRUE, bytes |-> <<>>, len |-> len, l |-> MinOf(len, ToEnd(out))]
      /\ UNCHANGED <<buffer, in, out, locked, put, moved>>

GetByte ==
  /\ get.active /\ Len(get.bytes) < get.len
  /\ get' = [get EXCEPT !.bytes = Append(@, buffer[Offset(out, get.l, Len(get.bytes))])]
  /\ UNCHANGED <<buffer, in, out, locked, put, moved>>

\* fifo->out += len
GetPublish ==
  /\ get.active /\ Len(get.bytes) = get.len
  /\ out' = (out + get.len) % UintMod
  /\ moved' = get.bytes
  /\ get' = NoGet
  /\ UNCHANGED <<buffer, in, locked, put>>

-----------------------------------------------------------------------------
(* Under fifo->lock.                                                       *)

\* kfifo_put()
kfifo_put(bytes) ==
  LET len == MinOf(Len(bytes), Free)
      l == MinOf(len, ToEnd(in))
  IN  /\ locked
      /\ buffer' = [i \in 0 .. size - 1 |->
                      IF \E k \in 0 .. len - 1 : Offset(in, l, k) = i
                      THEN bytes[(CHOOSE k \in 0 .. len - 1 : Offset(in, l, k) = i) + 1]
                      ELSE buffer[i]]
      /\ in' = (in + len) % UintMod
      /\ moved' = SubSeq(bytes, 1, len)
      /\ UNCHANGED <<out, locked, put, get>>

\* kfifo_get(), which sets the indices of an empty FIFO back to 0
kfifo_get(n) ==
  LET len == MinOf(n, kfifo_len)
      l == MinOf(len, ToEnd(out))
      new == (out + len) % UintMod
  IN  /\ locked
      /\ moved' = [k \in 1 .. len |-> buffer[Offset(out, l, k - 1)]]
      /\ out' = IF in = new THEN 0 ELSE new
      /\ in' = IF in = new THEN 0 ELSE in
      /\ UNCHANGED <<buffer, locked, put, get>>

kfifo_reset == /\ locked
               /\ in' = 0 /\ out' = 0
               /\ UNCHANGED <<buffer, locked, put, get, moved>>

-----------------------------------------------------------------------------
KfifoNext ==
  \/ \E bytes \in BytesUpTo(MaxLen) : Len(bytes) > 0 /\ (__kfifo_put(bytes) \/ kfifo_put(bytes))
  \/ \E n \in 1 .. MaxLen : __kfifo_get(n) \/ kfifo_get(n)
  \/ PutByte \/ PutPublish \/ GetByte \/ GetPublish \/ kfifo_reset

KfifoSpec == KfifoInit /\ [][KfifoNext]_kfifo_vars

-----------------------------------------------------------------------------
(* Properties.                                                             *)

Contents == [k \in 1 .. kfifo_len |-> buffer[(out + k - 1) % size]]

Queue == INSTANCE Fifo WITH Capacity <- size, queue <- Contents

\* "With only one concurrent reader and one concurrent writer, you don't need extra
\* locking": at every step of a copy the FIFO is a queue, to which the writer's own
\* bytes are added and whose first bytes the reader gets.  None is lost, repeated,
\* reordered or overwritten before it is read, also when the indices wrap.
KfifoImplementsFifo == Queue!FifoSpec

=============================================================================
