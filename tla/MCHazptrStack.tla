--------------------------- MODULE MCHazptrStack ---------------------------
(* Threads over a few addresses, so that those of deleted nodes are reused. *)
EXTENDS HazptrStack, TLC
CONSTANTS p1, p2, p3, a, b
MCCells   == {p1, p2, p3}
MCValues  == {a, b}
Symmetry  == Permutations(MCCells) \cup Permutations(MCValues)
=============================================================================
