---------------------------- MODULE MCAllocators ----------------------------
(* Two workers and lists of two blocks, six blocks in all, so that a list   *)
(* fills up to twice its length and is cut; and pools of 16 to 512 bytes of *)
(* which those from 256 up are large.                                       *)
EXTENDS PoolAllocator, TLC
CONSTANTS w1, w2
MCThreads  == {w1, w2}
Symmetry   == Permutations(MCThreads)

\* <<bytes, alignment>>: what fits a pool exactly, what does not, and more than
\* the largest pool has.
MCRequests == {<<0, 16>>, <<8, 8>>, <<128, 128>>, <<384, 128>>, <<512, 64>>, <<520, 8>>}
MCMallocs  == {<<0, 16>>, <<20, 16>>, <<64, 16>>, <<100, 32>>, <<200, 256>>,
               <<240, 16>>, <<1030, 16>>}
MCPlaces   == {0, 1, 3}
MCSlots    == 1 .. 2

\* What a step may depend on: a mid is written before it is read when the list
\* is no longer than this, a head when it is empty, a next when the block is
\* not in any buffer.
NoCut(l)  == [l EXCEPT !.mid = IF l.sz <= list_length + 1 THEN nullptr ELSE @,
                       !.head = IF l.sz = 0 THEN nullptr ELSE @]
Read ==
  <<[b \in Blocks |-> IF b \in InBuffers THEN next[b] ELSE nullptr],
    [w \in Threads |-> NoCut(local_lists[w])], global_stack, allocated_buffers,
    blocks_allocated, used, pc, new_lists, poolvars, machine>>
=============================================================================
