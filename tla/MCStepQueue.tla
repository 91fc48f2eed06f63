---------------------------- MODULE MCStepQueue -----------------------------
(* Instance of StepQueue for TLC: ids below the first, repeated, skipped   *)
(* and up to one past two turns of the ring.                               *)
EXTENDS StepQueue

CONSTANT MaxStep           \* bound on the step ids a feeder sends

MCStepIds == -2 .. MaxStep
=============================================================================
