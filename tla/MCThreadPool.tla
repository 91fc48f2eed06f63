---------------------------- MODULE MCThreadPool ----------------------------
(* Instances of ThreadPool for TLC.                                        *)
EXTENDS ThreadPool

CONSTANTS w1, w2

OneWorkload == {w1}
TwoWorkloads == {w1, w2}
OnlyW2 == {w2}

OneStep == [w \in Workloads |-> 1]
TwoSteps == [w \in Workloads |-> 2]
StepForW2 == [w \in Workloads |-> IF w = w2 THEN 1 ELSE 0]
=============================================================================
