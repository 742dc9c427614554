------------------------------ MODULE MCPoolSlot ------------------------------
(* Instances of PoolSlot for TLC.                                          *)
EXTENDS PoolSlot, TLC

CONSTANTS t1, t2, t3, p1, p2, p3

ThreeThreads == {t1, t2, t3}
ThreePools == {p1, p2, p3}

\* Threads and blocks are interchangeable; all properties are safety.
Symmetry == Permutations(ThreeThreads) \union Permutations(ThreePools)
=============================================================================
