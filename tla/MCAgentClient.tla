--------------------------- MODULE MCAgentClient ---------------------------
(* Instances of AgentClient for TLC: one thread that reports, beside the   *)
(* connect thread that says hello.                                         *)
EXTENDS AgentClient, TLC

CONSTANTS i1

OneInvoker == {i1}

(* Two calls, or one call among two commands. *)
CallsOrCommands == {<<2, 0>>, <<1, 2>>}
CallsOnly == {<<3, 0>>}
=============================================================================
