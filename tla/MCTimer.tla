------------------------------- MODULE MCTimer ------------------------------
(* The wheel scaled down to 16 near lists and levels of 4: the second      *)
(* window boundary that matters, TIME_NEAR * TIME_LEVEL, is at tick 64.    *)
EXTENDS Timer, TLC

Symmetry == Permutations(TimerId)
=============================================================================
