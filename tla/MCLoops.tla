------------------------------- MODULE MCLoops -------------------------------
EXTENDS Loops, TLC

CONSTANTS c1, c2, c3

Interchangeable == Permutations(Charges)
=============================================================================
