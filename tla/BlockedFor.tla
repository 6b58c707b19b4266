----------------------------- MODULE BlockedFor -----------------------------
(***************************************************************************)
(* blocked_for (parlay/parallel.h): a range cut into blocks of one size,   *)
(* each handled by one call of the body in a parallel_for over the blocks. *)
(***************************************************************************)
EXTENDS ParFor

CONSTANT Ranged  \* the <<start, end, block_size>> a caller may pass

VARIABLE blocked  \* the arguments of the call

bvars == <<vars, blocked>>

first      == blocked[1]
last       == blocked[2]
block_size == blocked[3]

\* Mutant: the last, shorter block is not counted.
WholeBlocks(b) == ((b[2] - b[1]) % SizeMod) \div b[3]

n_blocks(b) == ((b[2] - b[1] + b[3] - 1) % SizeMod) \div b[3]

\* assert(block_size > 0), and no range ends so near the limit of size_t that
\* a block more overflows.  Loops holds the calls of parallel_for made here.
ASSUME RangedAssumption ==
  \A b \in Ranged :
    /\ b \in Nat \X Nat \X (Nat \ {0})
    /\ b[2] + b[3] - 1 < SizeMod
    /\ <<0, IF b[1] < b[2] THEN n_blocks(b) ELSE 0, 0>> \in Loops

\* The elements s .. e - 1 of block i.
Block(i) ==
  LET s == first + i * block_size
      e == IF s + block_size <= last THEN s + block_size ELSE last
  IN  s .. e - 1

blocked_for(b) ==
  /\ blocked = b
  /\ IF b[1] < b[2]
     THEN parallel_for(0, n_blocks(b), 0)
     ELSE parallel_for(0, 0, 0)

\* A caller of parallel_for itself has no blocks.
BlockedInit ==
  \/ Init /\ blocked = <<0, 0, 1>>
  \/ \E b \in Ranged : blocked_for(b)

BlockedNext == Next /\ UNCHANGED blocked

BlockedSpec ==
  BlockedInit /\ [][BlockedNext]_bvars /\ WF_bvars(Step /\ UNCHANGED blocked)

---------------------------------------------------------------------------
\* Every element of the range is in one block, whose call of the body has run
\* at most once, and has run when blocked_for has returned; no call gets an
\* element outside the range or an empty block.
BlocksCover ==
  first < last =>
  /\ \A x \in first .. last - 1 : \E i \in Indices :
       /\ \A j \in Indices : x \in Block(j) <=> j = i
       /\ runs[i] \in {0, 1} /\ (Returned => runs[i] = 1)
  /\ \A i \in Indices : Block(i) # {} /\ Block(i) \subseteq first .. last - 1

\* What BlocksCover rests on besides ParFor's invariant: the loop is the one
\* over the blocks of the range.
OverBlocks ==
  first < last => blocked \in Ranged /\ loop = <<0, n_blocks(blocked), 0>>
=============================================================================
