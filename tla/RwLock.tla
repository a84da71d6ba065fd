------------------------------- MODULE RwLock -------------------------------
(***************************************************************************)
(* What a read/write semaphore promises its callers: any number of readers *)
(* or one writer own it; a request that cannot be met at once queues, and  *)
(* the queue is served strictly in order, so that neither a later reader   *)
(* nor a later writer overtakes a waiting one.                             *)
(***************************************************************************)
EXTENDS Sequences

CONSTANT Task

VARIABLES owner,   \* owner[t]: "none", "read" or "write"
          queue    \* the waiting requests, <<task, "read" or "write">>

lockVars == <<owner, queue>>

Kind == {"read", "write"}

Queued(t) == \E i \in DOMAIN queue : queue[i][1] = t

\* A request of this kind may own the lock beside its present owners.
Compatible(kind) ==
  \A u \in Task : IF kind = "read" THEN owner[u] # "write" ELSE owner[u] = "none"

LockInit == /\ owner = [t \in Task |-> "none"]
            /\ queue = <<>>

Acquire(t, kind) == /\ owner[t] = "none"
                    /\ queue = <<>>
                    /\ Compatible(kind)
                    /\ owner' = [owner EXCEPT ![t] = kind]
                    /\ UNCHANGED queue

Enqueue(t, kind) == /\ owner[t] = "none"
                    /\ ~Queued(t)
                    /\ queue' = Append(queue, <<t, kind>>)
                    /\ UNCHANGED owner

Grant == /\ queue # <<>>
         /\ Compatible(Head(queue)[2])
         /\ owner' = [owner EXCEPT ![Head(queue)[1]] = Head(queue)[2]]
         /\ queue' = Tail(queue)

Release(t) == /\ owner[t] # "none"
              /\ owner' = [owner EXCEPT ![t] = "none"]
              /\ UNCHANGED queue

Downgrade(t) == /\ owner[t] = "write"
                /\ owner' = [owner EXCEPT ![t] = "read"]
                /\ UNCHANGED queue

LockNext == \/ \E t \in Task, kind \in Kind : Acquire(t, kind) \/ Enqueue(t, kind)
            \/ \E t \in Task : Release(t) \/ Downgrade(t)
            \/ Grant

LockSpec == LockInit /\ [][LockNext]_lockVars

=============================================================================
