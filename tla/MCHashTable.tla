----------------------------- MODULE MCHashTable -----------------------------
(* Two threads, three keys, seven cells: all keys in one place, around the  *)
(* end of the table, in the order of their priorities and against it.       *)
EXTENDS HashTable, TLC
CONSTANTS w1, w2
MCThreads == {w1, w2}
MCHashes  == {<<6, 6, 6>>, <<6, 6, 0>>, <<0, 6, 6>>, <<2, 3, 2>>}
Symmetry  == Permutations(MCThreads)
=============================================================================
