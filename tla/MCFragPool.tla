----------------------------- MODULE MCFragPool -----------------------------
EXTENDS FragPool, TLC
CONSTANTS t1, t2, t3
TwoThreads == {t1, t2}
ThreeThreads == {t1, t2, t3}
AnyThread == Permutations(Threads)
=============================================================================
