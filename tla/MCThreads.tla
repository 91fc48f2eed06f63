----------------------------- MODULE MCThreads -----------------------------
(* An instance of Threads for TLC: one creator with a pool thread, one with*)
(* the client's receive thread.                                            *)
EXTENDS Threads

TwoCreators == <<{1}, {2}>>
=============================================================================
