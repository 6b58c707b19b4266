----------------------------- MODULE MCWSDeque -----------------------------
(* Two thieves against an owner of a four-slot deque.                      *)
EXTENDS WSDeque, TLC

CONSTANTS t1, t2
MCThieves == {t1, t2}
Symmetry == Permutations(MCThieves)
=============================================================================
