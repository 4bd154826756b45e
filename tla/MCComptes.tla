------------------------------ MODULE MCComptes ------------------------------
EXTENDS Comptes, TLC
CONSTANTS r1, r2, r3, r4
\* Requests differ by their names alone, and only safety is checked.
Symetrie == Permutations(Requetes)
=============================================================================
