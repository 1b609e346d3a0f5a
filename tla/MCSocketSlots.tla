---------------------------- MODULE MCSocketSlots ---------------------------
EXTENDS SocketSlots, TLC

Symmetry == Permutations(Service)
=============================================================================
