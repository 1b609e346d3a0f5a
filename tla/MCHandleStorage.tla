-------------------------- MODULE MCHandleStorage ---------------------------
EXTENDS HandleStorage, TLC

CONSTANTS c1, c2, c3, c4, c5, n1, n2

Symmetry == Permutations(Context) \cup Permutations(Name)
=============================================================================
