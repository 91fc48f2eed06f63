------------------------------ MODULE StepRing ------------------------------
(***************************************************************************)
(* The arithmetic of a workload's step queue (libtsload/src/workload.c):   *)
(* which slot a step id has, when the queue is full, which id comes next,  *)
(* and when no step is left.                                               *)
(***************************************************************************)
EXTENDS Integers

CONSTANT QSIZE             \* WLSTEPQSIZE, a power of two (16)

ASSUME QSizeAssumption == QSIZE \in Nat \ {0}

Unset == -1                \* a slot of the ring that was never written

(* Slips the runs must notice.                                             *)
SlipFullOneLate(last, current) == last - current = QSIZE + 1
SlipStarveEarly(last, current) == current >= last
SlipStarveLate(last, current) == current > last + 1
SlipHalfRing(step) == step % ((QSIZE + 1) \div 2)
SlipAnyStep(last, id) == TRUE

(* step & WLSTEPQMASK: the ring slot of a step.                            *)
Slot(step) == step % QSIZE

Slots == 0 .. QSIZE - 1

IsFull(last, current) == last - current = QSIZE

IsNext(last, id) == id = last + 1

NoSteps(last, current) == current > last

ProvideResult(last, current, id) ==
  CASE IsFull(last, current) -> "QUEUE_FULL"
    [] ~IsFull(last, current) /\ ~IsNext(last, id) -> "INVALID"
    [] OTHER -> "OK"
=============================================================================
