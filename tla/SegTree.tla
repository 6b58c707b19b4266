------------------------------ MODULE SegTree ------------------------------
(***************************************************************************)
(* The algorithms of SegmentTree (serial_st.cpp) as operators on the       *)
(* object's state: n elements and the array tree of 4 * n partial sums,    *)
(* node 1 covering the elements 0 .. n - 1 and node v halving its range    *)
(* between the nodes 2 v and 2 v + 1.                                      *)
(*                                                                         *)
(* An int has IntBits bits.  The code adds ints that can run past their    *)
(* width (README's own example adds a million values of up to 46339); the  *)
(* build wraps, so Plus does.                                              *)
(***************************************************************************)
EXTENDS Integers, Sequences

CONSTANT IntBits
ASSUME IntBitsAssumption == IntBits \in Nat /\ IntBits >= 2

Least(a, b)    == IF a <= b THEN a ELSE b
Greatest(a, b) == IF a >= b THEN a ELSE b
Mid(tl, tr)    == (tl + tr) \div 2

\* The int with the value of x modulo 2^IntBits.
Wrap(x) == ((x + 2^(IntBits - 1)) % 2^IntBits) - 2^(IntBits - 1)

Plus(a, b) == Wrap(a + b)

\* build(arr, v, tl, tr), writing into the array t
RECURSIVE Build(_, _, _, _, _)
Build(t, arr, v, tl, tr) ==
  IF tl = tr THEN [t EXCEPT ![v] = arr[tl]]
  ELSE LET left == Build(t, arr, 2 * v, tl, Mid(tl, tr))
           both == Build(left, arr, 2 * v + 1, Mid(tl, tr) + 1, tr)
       IN  [both EXCEPT ![v] = Plus(both[2 * v], both[2 * v + 1])]

\* The constructor: resize fills the array with zeros.
Construct(n, arr) == Build([v \in 0 .. 4 * n - 1 |-> 0], arr, 1, 0, n - 1)

\* Mutant: the right half is not cut to its own range.
RECURSIVE QueryUncut(_, _, _, _, _, _)
QueryUncut(t, v, tl, tr, l, r) ==
  CASE l > r -> 0
    [] l = tl /\ r = tr -> t[v]
    [] tl = tr -> 0
    [] OTHER -> Plus(QueryUncut(t, 2 * v, tl, Mid(tl, tr),
                                l, Least(r, Mid(tl, tr))),
                     QueryUncut(t, 2 * v + 1, Mid(tl, tr) + 1, tr, l, r))

\* query(v, tl, tr, l, r) for tl <= l and r <= tr
RECURSIVE QueryFrom(_, _, _, _, _, _)
QueryFrom(t, v, tl, tr, l, r) ==
  CASE l > r -> 0
    [] l <= r /\ l = tl /\ r = tr -> t[v]
    [] OTHER -> Plus(QueryFrom(t, 2 * v, tl, Mid(tl, tr),
                               l, Least(r, Mid(tl, tr))),
                     QueryFrom(t, 2 * v + 1, Mid(tl, tr) + 1, tr,
                               Greatest(l, Mid(tl, tr) + 1), r))

\* query(l, r): the bounds may come in either order.
Query(t, n, l, r) == QueryFrom(t, 1, 0, n - 1, Least(l, r), Greatest(l, r))

\* Mutant: the way to the leaf is taken, the sums above it are left alone.
RECURSIVE UpdateLeafOnly(_, _, _, _, _, _)
UpdateLeafOnly(t, v, tl, tr, idx, val) ==
  CASE tl = tr -> [t EXCEPT ![v] = val]
    [] idx <= Mid(tl, tr) /\ tl # tr ->
         UpdateLeafOnly(t, 2 * v, tl, Mid(tl, tr), idx, val)
    [] OTHER -> UpdateLeafOnly(t, 2 * v + 1, Mid(tl, tr) + 1, tr, idx, val)

\* update(v, tl, tr, idx, val)
RECURSIVE UpdateFrom(_, _, _, _, _, _)
UpdateFrom(t, v, tl, tr, idx, val) ==
  IF tl = tr THEN [t EXCEPT ![v] = val]
  ELSE LET u == IF idx <= Mid(tl, tr)
                THEN UpdateFrom(t, 2 * v, tl, Mid(tl, tr), idx, val)
                ELSE UpdateFrom(t, 2 * v + 1, Mid(tl, tr) + 1, tr, idx, val)
       IN  [u EXCEPT ![v] = Plus(u[2 * v], u[2 * v + 1])]

\* update(idx, val)
Update(t, n, idx, val) == UpdateFrom(t, 1, 0, n - 1, idx, val)

\* The node that holds element i, on its own.
RECURSIVE LeafFrom(_, _, _, _)
LeafFrom(v, tl, tr, i) ==
  CASE tl = tr -> v
    [] tl # tr /\ i <= Mid(tl, tr) -> LeafFrom(2 * v, tl, Mid(tl, tr), i)
    [] OTHER -> LeafFrom(2 * v + 1, Mid(tl, tr) + 1, tr, i)
Leaf(n, i) == LeafFrom(1, 0, n - 1, i)
=============================================================================
