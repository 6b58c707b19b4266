------------------------------ MODULE ArraySum ------------------------------
(***************************************************************************)
(* What a segment tree promises: an array whose elements can be set and    *)
(* whose ranges can be summed, sums being ints.                            *)
(***************************************************************************)
EXTENDS Integers, Functions

CONSTANTS Vals,       \* values an element can be set to
          ToInt(_)    \* what a sum becomes when it is stored in an int

VARIABLES arr,        \* the array, indexed from 0
          answer      \* the last query and what it returned

avars == <<arr, answer>>
Nothing == [l |-> 0, r |-> 0, sum |-> 0]

Elements(l, r) == {i \in DOMAIN arr : (l <= i /\ i <= r) \/ (r <= i /\ i <= l)}

Start == (\A i \in DOMAIN arr : arr[i] \in Vals) /\ answer = Nothing

Set(i, x) ==
  /\ arr' = [arr EXCEPT ![i] = x]
  /\ answer' = Nothing

Sum(l, r) ==
  /\ answer' = [l |-> l, r |-> r,
                sum |-> ToInt(FoldFunctionOnSet(+, 0, arr, Elements(l, r)))]
  /\ UNCHANGED arr

Do == \E i, j \in DOMAIN arr :
        \/ Sum(i, j)
        \/ \E x \in Vals : Set(i, x)

Spec == Start /\ [][Do]_avars
=============================================================================
