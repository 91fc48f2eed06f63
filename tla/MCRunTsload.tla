----------------------------- MODULE MCRunTsload -----------------------------
(* Instances of RunTsload for TLC.                                         *)
EXTENDS RunTsload

(* An empty file, one as long as the step queue of two, and one that is    *)
(* longer, whose last read finds no line.                                  *)
SomeFiles ==
  {[lines |-> <<>>, newline |-> FALSE],
   [lines |-> <<"ok", "ok">>, newline |-> FALSE],
   [lines |-> <<"ok", "ok">>, newline |-> TRUE]}
=============================================================================
