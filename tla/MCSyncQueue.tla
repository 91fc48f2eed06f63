---------------------------- MODULE MCSyncQueue -----------------------------
(* Instances of SyncQueue for TLC: one consumer, as in the program, or two,*)
(* as the comment of squeue_pop allows.                                    *)
EXTENDS SyncQueue, TLC

CONSTANTS i1, i2, i3, i4, c1, c2

Elements == {i1, i2, i3, i4}
TwoConsumers == {c1, c2}
OneConsumer == {c1}
=============================================================================
