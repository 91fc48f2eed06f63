---------------------------- MODULE MCLoadServer ----------------------------
(* Instances of LoadServer for TLC.                                        *)
EXTENDS LoadServer, TLC

CONSTANTS h1, k1, k2

OneHost == {h1}
TwoCallers == {k1, k2}
AnyCaller == Permutations(TwoCallers)
=============================================================================
