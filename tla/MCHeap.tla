------------------------------- MODULE MCHeap -------------------------------
EXTENDS HeapPages, TLC
CONSTANTS t1, t2, p1, p2
TwoThreads == {t1, t2}
TwoPages == {p1, p2}
AnyName == Permutations(Threads) \cup Permutations(Pages)
=============================================================================
