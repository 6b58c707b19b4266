--------------------------- MODULE SegTreeObject ---------------------------
(***************************************************************************)
(* A SegmentTree object (serial_st.cpp, serial_st.hpp): constructed from   *)
(* an array, then queried and updated through its public methods.          *)
(***************************************************************************)
EXTENDS SegTree

CONSTANTS MaxN,   \* bound: length of the array
          Vals    \* bound: the values of its elements, ints

VARIABLES n,      \* number of elements
          tree,   \* the sums
          answer  \* the last query and what it returned

vars == <<n, tree, answer>>

NoAnswer == [l |-> 0, r |-> 0, sum |-> 0]

\* SegmentTree(arr), for arrays of at least one element: build does not end
\* for none.
Init ==
  /\ n \in 1 .. MaxN
  /\ \E arr \in [0 .. n - 1 -> Vals] : tree = Construct(n, arr)
  /\ answer = NoAnswer

query(l, r) ==
  /\ answer' = [l |-> l, r |-> r, sum |-> Query(tree, n, l, r)]
  /\ UNCHANGED <<n, tree>>

update(idx, val) ==
  /\ tree' = Update(tree, n, idx, val)
  /\ answer' = NoAnswer
  /\ UNCHANGED n

Next == \E i, j \in 0 .. n - 1 :
          \/ query(i, j)
          \/ \E val \in Vals : update(i, val)

Spec == Init /\ [][Next]_vars

---------------------------------------------------------------------------
\* tree keeps its 4 * n ints: no call writes past the end of the vector.
TypeOK ==
  /\ n \in 1 .. MaxN
  /\ tree \in [0 .. 4 * n - 1 -> -2^(IntBits - 1) .. 2^(IntBits - 1) - 1]
  /\ answer.sum \in Int

\* Refinement: query(l, r) is the sum of the elements l .. r as the last
\* calls of update left them, in either order of l and r, although the sums
\* higher up in the tree may have overflowed.
Array == INSTANCE ArraySum WITH
           arr <- [i \in 0 .. n - 1 |-> tree[Leaf(n, i)]], ToInt <- Wrap
ImplementsArray == Array!Spec

\* An update leaves every element but its own as it was, and a tree is the
\* one the constructor would build from its elements, in the 4 * n ints it has.
Rebuilt ==
  /\ TypeOK
  /\ tree = Construct(n, [i \in 0 .. n - 1 |-> tree[Leaf(n, i)]])
=============================================================================
