------------------------------- MODULE MCHLD -------------------------------
(***************************************************************************)
(* The programs on small inputs: a behaviour is a run of serial_hld.cpp on *)
(* a tree, as HLD has it; of the parallel passes of parallel_hld.cpp, as   *)
(* ParHLD has them, on the same tables; or of calls on a segment tree by   *)
(* itself (serial_st_test.cpp), as SegTreeObject has them.                 *)
(***************************************************************************)
EXTENDS HLD

CONSTANTS ParTrees, Granularity,
          ObjBits, MaxN, Vals    \* of the segment tree by itself

VARIABLES
  program,                       \* which one is run
  at, tmp,                       \* of the parallel passes
  obj_n, obj_tree, obj_answer    \* of the segment tree by itself

parvars == <<at, tmp>>
objvars == <<obj_n, obj_tree, obj_answer>>

\* <<n, k, h>>: chains, a full binary tree, leaves of different depth, a star.
MCInputs == {<<1, 2, 1>>, <<2, 2, 1>>, <<3, 2, 2>>, <<4, 2, 2>>, <<5, 2, 3>>,
             <<7, 2, 3>>, <<8, 2, 3>>, <<7, 3, 2>>, <<5, 4, 2>>}

\* The tree of n = Len(p) + 1 nodes in which v has the parent p[v].
TreeOf(p) ==
  FoldLeft(LAMBDA a, v : add_child(a, p[v], v), NoEdges(Len(p) + 1), Times(Len(p)))

\* Every tree of five nodes: a heavy child at any place among its siblings, a
\* chain with nodes 2^log_n levels apart.  A chain of eight needs the jump of
\* four.  Two long branches, the second the heavier.  A leaf next to a chain of
\* nine, which lca(10, 1) does not climb.
MCTrees ==
  {TreeOf(p) : p \in {q \in [1 .. 4 -> 0 .. 3] : \A v \in 1 .. 4 : q[v] < v}}
  \cup {TreeOf(<<0, 1, 2, 3, 4, 5, 6>>),
        TreeOf(<<0, 0, 1, 2, 3, 4, 6, 7>>),
        TreeOf(<<0, 0, 2, 3, 4, 5, 6, 7, 8, 9>>)}

\* For the parallel passes: loops with more than Granularity iterations at the
\* root, below it, and with the largest child last; and trees without any, one
\* with a light child before the heavy one.
MCParTrees ==
  {generate_tree(i[1], i[2], i[3]) :
     i \in {<<1, 2, 1>>, <<2, 2, 1>>, <<4, 2, 2>>, <<5, 2, 3>>, <<7, 2, 3>>,
            <<7, 3, 2>>, <<9, 3, 2>>, <<5, 4, 1>>}}
  \cup {generate_simple_tree, TreeOf(<<0, 0, 0, 0, 4, 4>>), TreeOf(<<0, 0, 0, 2>>)}

\* Digits to the base of 4, from the second on: a path sum shows which nodes
\* were added up and how often.  The updates set the first.
MCValues(m) == {[v \in 0 .. m - 1 |-> 4^(v + 1)]}

\* The passing run takes kth[0][0] for 0, as fresh memory is, and puts nodes of
\* every level in the next entry, where the code's answers must not depend on
\* what is there.  The third is the last and never compared.
MCRootKth(i)  == CASE i = 0 -> {0} [] i = 1 -> (0 .. 4) \cup {10} [] OTHER -> {1}
MCRootDepth == {7}

\* The elements of 4-bit arrays: whole ranges overflow.
MCVals == {-2, 5}

\* For the runs that look for a single disagreement.
FewInputs == {<<4, 2, 2>>}
NoTrees   == {}
FewValues(m) == {[v \in 0 .. m - 1 |-> IF v = w THEN 3 ELSE 0] : w \in 0 .. m - 1}

---------------------------------------------------------------------------
Parallel == INSTANCE ParHLD WITH Trees <- ParTrees
Object == INSTANCE SegTreeObject WITH
            IntBits <- ObjBits, n <- obj_n, tree <- obj_tree, answer <- obj_answer

\* What is not run stands still.
NoPasses == at = <<>> /\ tmp = <<>>
NoObject == /\ obj_n = 1 /\ obj_answer = Object!NoAnswer
            /\ obj_tree = Object!Construct(1, [i \in {0} |-> CHOOSE x \in Vals : TRUE])
NoQueries == tree = <<>> /\ round = 0 /\ updates = 0 /\ current = values /\ ans = NoAnswer

AllInit ==
  \/ program = "serial" /\ Init /\ NoPasses /\ NoObject
  \/ /\ program = "parallel"
     /\ Parallel!Init
     /\ log_n = Parallel!log_n /\ values = Parallel!AllZero(n) /\ NoQueries /\ NoObject
  \/ /\ program = "object"
     /\ Object!Init
     /\ alloc_all(1) /\ adj = generate_tree(1, 2, 1) /\ values = [v \in {0} |-> 0]
     /\ NoQueries /\ NoPasses

AllNext ==
  /\ UNCHANGED program
  /\ \/ program = "serial" /\ Next /\ UNCHANGED <<parvars, objvars>>
     \/ /\ program = "parallel" /\ Parallel!Next
        /\ UNCHANGED <<log_n, values, tree, round, history, ans, objvars>>
     \/ program = "object" /\ Object!Next /\ UNCHANGED <<vars, parvars>>

All == AllInit /\ [][AllNext]_<<vars, program, parvars, objvars>>

\* What the parallel passes leave is what their comments promise: see
\* PassesRight in ParHLD.
ParallelPassesRight == program = "parallel" => Parallel!PassesRight

\* A segment tree is always rebuilt by its updates and implements an array
\* with range sums: see Rebuilt and ImplementsArray in SegTreeObject.
TreeRebuilt     == Object!Rebuilt
ImplementsArray == Object!ImplementsArray
=============================================================================
