------------------------------ MODULE StepFifo ------------------------------
(***************************************************************************)
(* What a workload's step queue promises its two users: the feeder that    *)
(* offers numbered steps and the control thread that takes one step each   *)
(* quantum.  It is a bounded FIFO of request counts with consecutive step  *)
(* ids; once the control thread finds it empty, the workload is finished   *)
(* and nothing is delivered any more.                                      *)
(***************************************************************************)
EXTENDS Integers, Sequences

CONSTANTS Capacity,   \* steps that may wait at the same time
          StepIds,    \* step ids a feeder may send
          Counts      \* request counts a step may carry

VARIABLES waiting,    \* counts of the accepted steps not yet taken, in order
          next,       \* id of the next step that would be accepted
          finished,   \* the control thread found no step
          taken,      \* the count handed over by the last Take
          reply       \* the answer to the last Offer

fifoVars == <<waiting, next, finished, taken, reply>>

NoCount == -1
Replies == {"NONE", "OK", "QUEUE_FULL", "INVALID"}

FifoInit ==
  /\ waiting = <<>>
  /\ next = 0
  /\ finished = FALSE
  /\ taken = NoCount
  /\ reply = "NONE"

Accept(id, n) ==
  /\ ~finished /\ Len(waiting) # Capacity /\ id = next
  /\ waiting' = Append(waiting, n)
  /\ next' = next + 1
  /\ reply' = "OK"
  /\ UNCHANGED <<finished, taken>>

(* A full queue is reported before a wrong id is.                          *)
Refuse(id) ==
  /\ ~finished
  /\ reply' = IF Len(waiting) = Capacity THEN "QUEUE_FULL" ELSE "INVALID"
  /\ Len(waiting) = Capacity \/ id # next
  /\ UNCHANGED <<waiting, next, finished, taken>>

(* A finished workload answers like any other, but promises nothing.       *)
TooLate ==
  /\ finished
  /\ next' \in {next, next + 1}
  /\ reply' \in Replies \ {"NONE"}
  /\ UNCHANGED <<waiting, finished, taken>>

Take ==
  /\ ~finished /\ waiting # <<>>
  /\ taken' = Head(waiting)
  /\ waiting' = Tail(waiting)
  /\ UNCHANGED <<next, finished, reply>>

Finish ==
  /\ ~finished /\ waiting = <<>>
  /\ finished' = TRUE
  /\ UNCHANGED <<waiting, next, taken, reply>>

FifoNext ==
  \/ \E id \in StepIds, n \in Counts : Accept(id, n)
  \/ \E id \in StepIds : Refuse(id)
  \/ TooLate
  \/ Take
  \/ Finish

FifoSpec == FifoInit /\ [][FifoNext]_fifoVars
=============================================================================
