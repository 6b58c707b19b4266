------------------------------- MODULE Arrays -------------------------------
(* Arrays, slices and parallel writes, as the algorithms of parlay see them.  *)
(* An array is a function on 0 .. n-1; a slice of it is the array renumbered. *)
(* A parallel loop is the set of the writes its iterations make: the order in *)
(* which they land is then immaterial exactly when no two go to the same      *)
(* cell, and Stored shows the cells where they do, or that none writes, as    *)
(* Junk: what an uninitialized or racily written cell holds. A predicate is    *)
(* the set of what satisfies it, and a function of the caller a function.      *)
EXTENDS Integers, FiniteSets, SequencesExt

CONSTANT Junk           \* what is in a cell no one, or more than one, wrote

Size(A) == Cardinality(DOMAIN A)
Indices(A) == 0 .. Size(A) - 1

\* A function with all its values computed, which TLC else repeats at each use.
Filled(f) == f @@ <<>>

\* slice::cut: positions s to e-1.
Cut(A, s, e) == Filled([i \in 0 .. e - s - 1 |-> A[s + i]])

Array(s) == Filled([i \in 0 .. Len(s) - 1 |-> s[i + 1]])
Listed(A) == Filled([i \in 1 .. Size(A) |-> A[i - 1]])
Joined(A, B) == Array(Listed(A) \o Listed(B))

Fold(op(_, _), base, A) == FoldLeft(op, base, Listed(A))
Count(A, P(_)) == Cardinality({i \in Indices(A) : P(A[i])})

\* One write of a parallel loop: to which cell, and what.
Write(at, val) == [at |-> at, val |-> val]

\* Writes is a function from loop iterations to the sets of their writes. All
\* cells hold Junk if one of them is outside the array.
Landing(Writes) == UNION {{<<i, w>> : w \in Writes[i]} : i \in DOMAIN Writes}

\* The n uninitialized cells after the loop.
Stored(n, Writes) ==
    LET landing == Landing(Writes)
        inBounds == \A w \in landing : w[2].at \in 0 .. n - 1
        here(p) == {w \in landing : w[2].at = p}
    IN Filled([p \in 0 .. n - 1 |->
          IF inBounds /\ Cardinality(here(p)) = 1
          THEN (CHOOSE w \in here(p) : TRUE)[2].val ELSE Junk])

\* The cells of A after the loop overwrote some of them.
Overwritten(A, Writes) ==
    LET at == {w[2].at : w \in Landing(Writes)}
        new == Stored(Size(A), Writes)
    IN Filled([p \in Indices(A) |-> IF p \in at THEN new[p] ELSE A[p]])

-----------------------------------------------------------------------------
(* What the results are compared with.                                        *)

Ordered(A, less(_, _)) ==
    \A i, j \in Indices(A) : i < j => ~ less(A[j], A[i])

\* Every element comes from A, and as often as in A.
SameElements(A, B) ==
    /\ Size(A) = Size(B)
    /\ \A x \in {A[i] : i \in Indices(A)} \cup {B[i] : i \in Indices(B)} :
          Count(A, LAMBDA y : y = x) = Count(B, LAMBDA y : y = x)

Reversed(A) == Filled([i \in Indices(A) |-> A[Size(A) - 1 - i]])
Kept(A, P(_)) == Array(SelectSeq(Listed(A), P))
Least(S) == CHOOSE x \in S : \A y \in S : x <= y
Greatest(S) == CHOOSE x \in S : \A y \in S : x >= y
\* The first position of 0 .. n-1 with P, or n.
FirstOf(n, P(_)) == Least({i \in 0 .. n - 1 : P(i)} \cup {n})
=============================================================================
