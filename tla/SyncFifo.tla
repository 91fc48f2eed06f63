------------------------------ MODULE SyncFifo ------------------------------
(***************************************************************************)
(* What the synchronized queue promises: items come out in the order they  *)
(* went in, each to one consumer, until the queue is closed.               *)
(***************************************************************************)
EXTENDS Sequences

CONSTANTS Items, Consumers,
          None        \* what a consumer holds before its first pop

VARIABLES queue,      \* items pushed and not yet popped
          got,        \* the item each consumer's last pop returned
          closed

syncVars == <<queue, got, closed>>

SyncInit ==
  /\ queue = <<>>
  /\ got = [c \in Consumers |-> None]
  /\ closed = FALSE

Put(i) ==
  /\ ~closed
  /\ queue' = Append(queue, i)
  /\ UNCHANGED <<got, closed>>

Get(c) ==
  /\ ~closed /\ queue # <<>>
  /\ got' = [got EXCEPT ![c] = Head(queue)]
  /\ queue' = Tail(queue)
  /\ UNCHANGED closed

Close ==
  /\ ~closed
  /\ closed' = TRUE
  /\ queue' = <<>>
  /\ UNCHANGED got

SyncNext ==
  \/ \E i \in Items : Put(i)
  \/ \E c \in Consumers : Get(c)
  \/ Close

SyncSpec == SyncInit /\ [][SyncNext]_syncVars
=============================================================================
