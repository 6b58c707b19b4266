-------------------------- MODULE AllocatorProofs --------------------------
(***************************************************************************)
(* Proofs about BlockAllocator within PoolAllocator's specification, for   *)
(* any number of workers, any list length and any number of blocks: every  *)
(* block is in one hand or in one list, and the count of used blocks is    *)
(* right, which is what clear() goes by.  And about the pools, for any     *)
(* sizes and alignments: what is held is large enough, in place and goes   *)
(* back to the pool it came from.                                          *)
(***************************************************************************)
EXTENDS PoolAllocator, FiniteSetTheorems, WellFoundedInduction, TLAPS

USE BlocksAssumption

---------------------------------------------------------------------------
(* Induction on a bounded counter, with the claim as a set.                *)

LEMMA LeastNat ==
  ASSUME NEW S \in SUBSET Nat, S # {} PROVE \E m \in S : \A k \in S : m <= k
<1>1. PICK m \in S : \A y \in S : <<y, m>> \notin OpToRel(<, Nat)
  BY NatLessThanWellFounded, WFMin, Zenon
<1>2. \A y \in S : ~(y < m)
  BY <1>1, Zenon DEF OpToRel
<1> QED
  BY <1>2

LEMMA UpTo ==
  ASSUME NEW n \in Nat, NEW S, 0 \in S, \A k \in 1 .. n : k - 1 \in S => k \in S
  PROVE  0 .. n \subseteq S
<1> SUFFICES ASSUME (0 .. n) \ S # {} PROVE FALSE
  OBVIOUS
<1> DEFINE T == (0 .. n) \ S
<1>1. PICK m \in T : \A k \in T : m <= k
  <2>1. T \in SUBSET Nat /\ T # {}
    OBVIOUS
  <2> HIDE DEF T
  <2> QED
    BY <2>1, LeastNat
<1>2. m \in 1 .. n /\ m - 1 \in 0 .. n /\ m - 1 \in S
  BY <1>1
<1> QED
  BY <1>1, <1>2

---------------------------------------------------------------------------
(* Chains: the blocks that a first one and the next pointers lead to.      *)

Follow(nx, x) == IF x \in Blocks THEN nx[x] ELSE nullptr

\* s is what k steps from b lead to.
Leads(nx, s, b, k) ==
  /\ s \in [1 .. k -> Words]
  /\ k > 0 => s[1] = b
  /\ \A i \in 1 .. k - 1 : s[i + 1] = Follow(nx, s[i])

LEMMA FollowType == ASSUME NEW nx \in [Blocks -> Words], NEW x PROVE Follow(nx, x) \in Words
  BY DEF Follow, Words

\* The recursion of Chain has a solution.
LEMMA ChainLeads ==
  ASSUME NEW nx \in [Blocks -> Words], NEW b \in Words, NEW k \in Nat
  PROVE  Leads(nx, Chain(nx, b, k), b, k)
<1> DEFINE F(g) == [i \in 0 .. k |-> IF i = 0 THEN b
                                     ELSE IF g[i - 1] \in Blocks THEN nx[g[i - 1]]
                                     ELSE nullptr]
           nth  == CHOOSE g : g = F(g)
           P(n) == \E g \in [0 .. n -> Words] :
                     /\ g[0] = b
                     /\ \A i \in 1 .. n : g[i] = Follow(nx, g[i - 1])
           S    == {n \in 0 .. k : P(n)}
<1>1. 0 \in S
  <2> DEFINE g == [i \in 0 .. 0 |-> b]
  <2>1. g \in [0 .. 0 -> Words] /\ g[0] = b /\ \A i \in 1 .. 0 : g[i] = Follow(nx, g[i - 1])
    OBVIOUS
  <2>2. P(0)
    <3> HIDE DEF g
    <3> QED
      BY <2>1
  <2> QED
    BY <2>2
<1>2. \A n \in 1 .. k : n - 1 \in S => n \in S
  <2> SUFFICES ASSUME NEW n \in 1 .. k, P(n - 1) PROVE P(n)
    OBVIOUS
  <2>1. PICK g \in [0 .. n - 1 -> Words] :
          /\ g[0] = b
          /\ \A i \in 1 .. n - 1 : g[i] = Follow(nx, g[i - 1])
    OBVIOUS
  <2> DEFINE h == [i \in 0 .. n |-> IF i = n THEN Follow(nx, g[n - 1]) ELSE g[i]]
  <2>2. h \in [0 .. n -> Words]
    BY <2>1, FollowType
  <2>3. h[0] = b /\ \A i \in 1 .. n : h[i] = Follow(nx, h[i - 1])
    BY <2>1
  <2> QED
    BY <2>2, <2>3
<1>3. PICK g \in [0 .. k -> Words] :
        /\ g[0] = b
        /\ \A i \in 1 .. k : g[i] = Follow(nx, g[i - 1])
  <2>1. 0 .. k \subseteq S
    <3> HIDE DEF S
    <3> QED
      BY <1>1, <1>2, UpTo
  <2>2. P(k)
    BY <2>1
  <2> QED
    BY <2>2
<1>4. g = F(g)
  BY <1>3 DEF Follow
<1>5. nth = F(nth)
  <2> HIDE DEF F
  <2> QED
    BY <1>4, Zenon
<1>6. Chain(nx, b, k) = [i \in 1 .. k |-> nth[i - 1]]
  BY DEF Chain
<1> HIDE DEF nth
<1>7. \A i \in 0 .. k : nth[i] = IF i = 0 THEN b ELSE Follow(nx, nth[i - 1])
  BY <1>5 DEF Follow
<1>8. \A i \in 0 .. k : nth[i] \in Words
  BY <1>7, FollowType
<1> QED
  BY <1>6, <1>7, <1>8 DEF Leads

\* It has one.
LEMMA LeadsUnique ==
  ASSUME NEW nx \in [Blocks -> Words], NEW b \in Words, NEW k \in Nat,
         NEW s, NEW c, Leads(nx, s, b, k), Leads(nx, c, b, k)
  PROVE  s = c
<1> DEFINE S == {i \in 0 .. k : i = 0 \/ s[i] = c[i]}
<1>1. Leads(nx, s, b, k) /\ Leads(nx, c, b, k)
  OBVIOUS
<1>2. 0 \in S
  OBVIOUS
<1>3. \A i \in 1 .. k : i - 1 \in S => i \in S
  <2> SUFFICES ASSUME NEW i \in 1 .. k, i - 1 \in S PROVE s[i] = c[i]
    OBVIOUS
  <2>1. CASE i = 1
    BY <1>1, <2>1 DEF Leads
  <2>2. CASE i # 1
    <3>1. i - 1 \in 1 .. k - 1 /\ s[i - 1] = c[i - 1] /\ (i - 1) + 1 = i
      BY <2>2
    <3>2. s[i] = Follow(nx, s[i - 1]) /\ c[i] = Follow(nx, c[i - 1])
      BY <1>1, <3>1 DEF Leads
    <3> QED
      BY <3>1, <3>2
  <2> QED
    BY <2>1, <2>2
<1>4. 0 .. k \subseteq S
  <2> HIDE DEF S
  <2> QED
    BY <1>2, <1>3, UpTo
<1>5. \A i \in 1 .. k : s[i] = c[i]
  BY <1>4
<1> QED
  BY <1>1, <1>5 DEF Leads

Prefix(c, p)       == [i \in 1 .. p |-> c[i]]
Suffix(c, p, n)    == [i \in 1 .. n |-> c[i + p]]
Prepended(x, c, k) == [i \in 1 .. k + 1 |-> IF i = 1 THEN x ELSE c[i - 1]]

\* The first p of k blocks are a chain, whatever is behind the last of them.
LEMMA LeadsPrefix ==
  ASSUME NEW nx \in [Blocks -> Words], NEW ny \in [Blocks -> Words], NEW b \in Words,
         NEW k \in Nat, NEW p \in 0 .. k, NEW c, Leads(nx, c, b, k),
         \A i \in 1 .. p - 1 : c[i] \in Blocks => ny[c[i]] = nx[c[i]]
  PROVE  Leads(ny, Prefix(c, p), b, p)
<1> DEFINE s == [i \in 1 .. p |-> c[i]]
<1>1. s \in [1 .. p -> Words] /\ (p > 0 => s[1] = b)
  BY DEF Leads
<1>2. ASSUME NEW i \in 1 .. p - 1 PROVE s[i + 1] = Follow(ny, s[i])
  <2>1. i \in 1 .. k - 1 /\ i \in 1 .. p /\ i + 1 \in 1 .. p
    OBVIOUS
  <2>2. c[i + 1] = Follow(nx, c[i])
    BY <2>1 DEF Leads
  <2>3. Follow(ny, c[i]) = Follow(nx, c[i])
    BY DEF Follow
  <2> QED
    BY <2>1, <2>2, <2>3
<1> QED
  BY <1>1, <1>2 DEF Leads, Prefix

\* So are those behind the p-th.
LEMMA LeadsSuffix ==
  ASSUME NEW nx \in [Blocks -> Words], NEW ny \in [Blocks -> Words], NEW b \in Words,
         NEW k \in Nat, NEW p \in 1 .. k, NEW c, Leads(nx, c, b, k),
         c[p] \in Blocks,
         \A i \in p + 1 .. k - 1 : c[i] \in Blocks => ny[c[i]] = nx[c[i]]
  PROVE  Leads(ny, Suffix(c, p, k - p), nx[c[p]], k - p)
<1> DEFINE s == [i \in 1 .. k - p |-> c[i + p]]
<1>1. s \in [1 .. k - p -> Words]
  BY DEF Leads
<1>2. k - p > 0 => s[1] = nx[c[p]]
  <2> SUFFICES ASSUME k - p > 0 PROVE s[1] = nx[c[p]]
    OBVIOUS
  <2>1. p \in 1 .. k - 1 /\ 1 \in 1 .. k - p
    OBVIOUS
  <2>2. c[p + 1] = Follow(nx, c[p])
    BY <2>1 DEF Leads
  <2> QED
    BY <2>1, <2>2 DEF Follow
<1>3. ASSUME NEW i \in 1 .. k - p - 1 PROVE s[i + 1] = Follow(ny, s[i])
  <2>1. i + p \in 1 .. k - 1 /\ i \in 1 .. k - p /\ i + 1 \in 1 .. k - p /\ i + p \in p + 1 .. k - 1
    OBVIOUS
  <2>2. c[(i + p) + 1] = Follow(nx, c[i + p])
    BY <2>1 DEF Leads
  <2>3. Follow(ny, c[i + p]) = Follow(nx, c[i + p])
    BY <2>1 DEF Follow
  <2> QED
    BY <2>1, <2>2, <2>3
<1> QED
  BY <1>1, <1>2, <1>3 DEF Leads, Suffix

\* A block put in front.
LEMMA LeadsFront ==
  ASSUME NEW nx \in [Blocks -> Words], NEW ny \in [Blocks -> Words], NEW b \in Words,
         NEW k \in Nat, NEW c, Leads(nx, c, b, k), NEW x \in Blocks, ny[x] = b,
         \A i \in 1 .. k - 1 : c[i] \in Blocks => ny[c[i]] = nx[c[i]]
  PROVE  Leads(ny, Prepended(x, c, k), x, k + 1)
<1> DEFINE s == [i \in 1 .. k + 1 |-> IF i = 1 THEN x ELSE c[i - 1]]
<1>1. s \in [1 .. k + 1 -> Words] /\ s[1] = x
  BY DEF Leads, Words
<1>2. ASSUME NEW i \in 1 .. (k + 1) - 1 PROVE s[i + 1] = Follow(ny, s[i])
  <2>1. CASE i = 1
    <3>1. s[i + 1] = c[1] /\ s[i] = x /\ c[1] = b
      BY <2>1 DEF Leads
    <3> QED
      BY <3>1 DEF Follow
  <2>2. CASE i # 1
    <3>1. i - 1 \in 1 .. k - 1 /\ s[i + 1] = c[i] /\ s[i] = c[i - 1] /\ (i - 1) + 1 = i
      BY <2>2
    <3>2. c[i] = Follow(nx, c[i - 1])
      BY <3>1 DEF Leads
    <3>3. Follow(ny, c[i - 1]) = Follow(nx, c[i - 1])
      BY <3>1 DEF Follow
    <3> QED
      BY <3>1, <3>2, <3>3
  <2> QED
    BY <2>1, <2>2
<1> QED
  BY <1>1, <1>2 DEF Leads, Prepended

---------------------------------------------------------------------------
(* Totals over the workers.                                                *)

\* How SumFunctionOnSet sums: one chosen element after the other.
Sums(g, f) ==
  \A s \in SUBSET Threads :
    g[s] = IF s = {} THEN 0
           ELSE f[CHOOSE x \in s : TRUE] + g[s \ {CHOOSE x \in s : TRUE}]

LEMMA SmallerSet ==
  ASSUME NEW s \in SUBSET Threads, s # {}
  PROVE  LET x == CHOOSE y \in s : TRUE IN
           /\ x \in s /\ s \ {x} \in SUBSET Threads
           /\ Cardinality(s) \in Nat \ {0}
           /\ Cardinality(s \ {x}) = Cardinality(s) - 1
<1> DEFINE x == CHOOSE y \in s : TRUE
<1>1. x \in s
  BY Zenon
<1>2. IsFiniteSet(s)
  BY FS_Subset
<1>3. Cardinality(s) \in Nat /\ Cardinality(s) # 0
  BY <1>2, FS_CardinalityType, FS_EmptySet
<1>4. Cardinality(s \ {x}) = Cardinality(s) - 1
  BY <1>1, <1>2, FS_RemoveElement
<1> QED
  BY <1>1, <1>3, <1>4

LEMMA SubsetSizes ==
  /\ Cardinality(Threads) \in Nat
  /\ \A s \in SUBSET Threads : Cardinality(s) \in 0 .. Cardinality(Threads)
  /\ Cardinality({}) = 0
  /\ \A s \in SUBSET Threads : Cardinality(s) = 0 => s = {}
<1>1. \A s \in SUBSET Threads : /\ IsFiniteSet(s) /\ Cardinality(s) \in Nat
                                /\ Cardinality(s) <= Cardinality(Threads)
  BY FS_Subset, FS_CardinalityType
<1>2. Cardinality(Threads) \in Nat
  BY FS_CardinalityType
<1> QED
  BY <1>1, <1>2, FS_EmptySet

LEMMA TotalSums ==
  ASSUME NEW f \in [Threads -> Int]
  PROVE  \E g : Sums(g, f) /\ Total(f) = g[Threads]
<1> DEFINE pick(s) == CHOOSE x \in s : TRUE
           F(g) == [s \in SUBSET Threads |->
                      IF s = {} THEN 0 ELSE f[pick(s)] + g[s \ {pick(s)}]]
           iter == CHOOSE g : g = F(g)
           n    == Cardinality(Threads)
           Of(i) == {s \in SUBSET Threads : Cardinality(s) <= i}
           P(i) == \E g \in [Of(i) -> Int] :
                     \A s \in Of(i) : g[s] = IF s = {} THEN 0
                                            ELSE f[pick(s)] + g[s \ {pick(s)}]
           S    == {i \in 0 .. n : P(i)}
<1>1. n \in Nat
  BY SubsetSizes
<1>2. 0 \in S
  <2> DEFINE g == [s \in Of(0) |-> 0]
  <2>1. \A s \in Of(0) : s = {}
    BY SubsetSizes
  <2>2. g \in [Of(0) -> Int] /\ \A s \in Of(0) : g[s] = 0
    OBVIOUS
  <2>3. P(0)
    <3> HIDE DEF g, Of
    <3> QED
      BY <2>1, <2>2
  <2> HIDE DEF P
  <2> QED
    BY <1>1, <2>3
<1>3. ASSUME NEW i \in 1 .. n, P(i - 1) PROVE P(i)
  <2>1. PICK g \in [Of(i - 1) -> Int] :
          \A s \in Of(i - 1) : g[s] = IF s = {} THEN 0
                                     ELSE f[pick(s)] + g[s \ {pick(s)}]
    BY <1>3
  <2> DEFINE h == [s \in Of(i) |-> IF s \in Of(i - 1) THEN g[s]
                                   ELSE f[pick(s)] + g[s \ {pick(s)}]]
  <2>2. ASSUME NEW s \in Of(i), s # {}
        PROVE  pick(s) \in Threads /\ s \ {pick(s)} \in Of(i - 1) /\ s \ {pick(s)} \in Of(i)
    <3>1. /\ pick(s) \in s /\ s \ {pick(s)} \in SUBSET Threads
          /\ Cardinality(s) \in Nat \ {0}
          /\ Cardinality(s \ {pick(s)}) = Cardinality(s) - 1
      BY <2>2, SmallerSet
    <3> HIDE DEF pick
    <3> QED
      BY <2>2, <3>1, <1>1
  <2> HIDE DEF pick
  <2>3. ASSUME NEW s \in Of(i), s \notin Of(i - 1) PROVE s # {}
    <3>1. {} \in Of(i - 1)
      BY SubsetSizes, <1>1
    <3> HIDE DEF Of
    <3> QED
      BY <2>3, <3>1
  <2>4. h \in [Of(i) -> Int]
    <3> SUFFICES ASSUME NEW s \in Of(i) PROVE h[s] \in Int
      OBVIOUS
    <3>1. CASE s \in Of(i - 1)
      <4> HIDE DEF Of
      <4> QED
        BY <2>1, <3>1
    <3>2. CASE s \notin Of(i - 1)
      <4>1. pick(s) \in Threads /\ s \ {pick(s)} \in Of(i - 1)
        BY <2>2, <2>3, <3>2
      <4> HIDE DEF Of
      <4> QED
        BY <2>1, <3>2, <4>1
    <3> QED
      BY <3>1, <3>2
  <2>5. ASSUME NEW s \in Of(i)
        PROVE  h[s] = IF s = {} THEN 0 ELSE f[pick(s)] + h[s \ {pick(s)}]
    <3>1. s # {} => s \ {pick(s)} \in Of(i - 1) /\ s \ {pick(s)} \in Of(i)
      BY <2>2
    <3>2. s \notin Of(i - 1) => s # {}
      BY <2>3
    <3> HIDE DEF Of
    <3>3. CASE s \in Of(i - 1)
      BY <2>1, <3>1, <3>3
    <3>4. CASE s \notin Of(i - 1)
      BY <3>1, <3>2, <3>4
    <3> QED
      BY <3>3, <3>4
  <2> QED
    BY <2>4, <2>5
<1>4. P(n)
  <2> HIDE DEF P, n
  <2>1. \A i \in 1 .. n : i - 1 \in S => i \in S
    BY <1>1, <1>3
  <2>2. 0 .. n \subseteq S
    <3> HIDE DEF S
    <3> QED
      BY <1>1, <1>2, <2>1, UpTo
  <2> QED
    BY <1>1, <2>2
<1>5. Of(n) = SUBSET Threads
  BY SubsetSizes
<1>6. PICK g \in [SUBSET Threads -> Int] :
        \A s \in SUBSET Threads : g[s] = IF s = {} THEN 0
                                        ELSE f[pick(s)] + g[s \ {pick(s)}]
  BY <1>4, <1>5
<1>7. g = F(g)
  <2> HIDE DEF pick
  <2> QED
    BY <1>6
<1>8. iter = F(iter)
  <2> HIDE DEF F
  <2> QED
    BY <1>7, Zenon
<1>9. Total(f) = iter[Threads]
  BY DEF Total, SumFunctionOnSet, FoldFunctionOnSet, MapThenFoldSet
<1>10. Sums(iter, f)
  <2> HIDE DEF iter
  <2> QED
    BY <1>8 DEF Sums
<1> HIDE DEF iter
<1> QED
  BY <1>9, <1>10

\* A claim about the sums of all subsets, by the number of their elements.
LEMMA BySize ==
  ASSUME NEW R, R \subseteq SUBSET Threads, {} \in R,
         \A s \in SUBSET Threads : s # {} /\ s \ {CHOOSE x \in s : TRUE} \in R => s \in R
  PROVE  Threads \in R
<1> DEFINE n == Cardinality(Threads)
           S == {i \in 0 .. n : \A s \in SUBSET Threads : Cardinality(s) = i => s \in R}
<1>1. n \in Nat
  BY SubsetSizes
<1>2. 0 \in S
  BY <1>1, SubsetSizes
<1>3. ASSUME NEW i \in 1 .. n, i - 1 \in S PROVE i \in S
  <2> SUFFICES ASSUME NEW s \in SUBSET Threads, Cardinality(s) = i PROVE s \in R
    OBVIOUS
  <2>0. i # 0
    BY <1>1, <1>3
  <2>1. s # {}
    BY <2>0, FS_EmptySet, Zenon
  <2>2. PICK x : x = CHOOSE y \in s : TRUE
    OBVIOUS
  <2>3. s \ {x} \in SUBSET Threads /\ Cardinality(s \ {x}) = i - 1
    BY <2>1, <2>2, SmallerSet
  <2>4. s \ {x} \in R
    BY <1>3, <2>3
  <2> QED
    BY <2>1, <2>2, <2>4
<1>4. 0 .. n \subseteq S
  <2> HIDE DEF S, n
  <2>1. \A i \in 1 .. n : i - 1 \in S => i \in S
    BY <1>3
  <2> QED
    BY <1>1, <1>2, <2>1, UpTo
<1> QED
  BY <1>1, <1>4

\* A total changes by what one of its parts does.
LEMMA TotalChange ==
  ASSUME NEW f \in [Threads -> Int], NEW w \in Threads, NEW x \in Int,
         NEW e, e = [f EXCEPT ![w] = x]
  PROVE  /\ Total(f) \in Int /\ Total(e) \in Int
         /\ Total(e) = Total(f) - f[w] + x
<1>0. e \in [Threads -> Int]
  OBVIOUS
<1>1. PICK g : Sums(g, f) /\ Total(f) = g[Threads]
  BY TotalSums
<1>2. PICK h : Sums(h, e) /\ Total(e) = h[Threads]
  BY <1>0, TotalSums
<1> DEFINE R == {s \in SUBSET Threads :
                   /\ g[s] \in Int
                   /\ h[s] = g[s] + (IF w \in s THEN x - f[w] ELSE 0)}
<1>3. {} \in R
  <2>1. {} \in SUBSET Threads
    OBVIOUS
  <2>2. g[{}] = 0 /\ h[{}] = 0
    BY <1>1, <1>2, <2>1 DEF Sums
  <2> QED
    BY <2>1, <2>2
<1>4. ASSUME NEW s \in SUBSET Threads, s # {}, s \ {CHOOSE y \in s : TRUE} \in R
      PROVE  s \in R
  <2>1. PICK y : y = CHOOSE z \in s : TRUE
    OBVIOUS
  <2>2. y \in s /\ y \in Threads /\ s \ {y} \in R
    BY <1>4, <2>1
  <2>3. g[s] = f[y] + g[s \ {y}] /\ h[s] = e[y] + h[s \ {y}]
    <3>1. g[s] = f[CHOOSE z \in s : TRUE] + g[s \ {CHOOSE z \in s : TRUE}]
      BY <1>1, <1>4 DEF Sums
    <3>2. h[s] = e[CHOOSE z \in s : TRUE] + h[s \ {CHOOSE z \in s : TRUE}]
      BY <1>2, <1>4 DEF Sums
    <3> HIDE DEF R
    <3> QED
      BY <2>1, <3>1, <3>2
  <2>4. /\ g[s \ {y}] \in Int
        /\ h[s \ {y}] = g[s \ {y}] + (IF w \in s \ {y} THEN x - f[w] ELSE 0)
    BY <2>2
  <2>5. f[y] \in Int /\ f[w] \in Int /\ e[y] = IF y = w THEN x ELSE f[y]
    BY <2>2
  <2>6. CASE y = w
    <3>1. w \in s /\ w \notin s \ {y}
      BY <2>2, <2>6
    <3> QED
      BY <2>3, <2>4, <2>5, <2>6, <3>1
  <2>7. CASE y # w
    <3>1. w \in s <=> w \in s \ {y}
      BY <2>7
    <3> QED
      BY <2>3, <2>4, <2>5, <2>7, <3>1
  <2> QED
    BY <2>6, <2>7
<1>5. Threads \in R
  <2> HIDE DEF R
  <2>1. R \subseteq SUBSET Threads
    BY DEF R
  <2> QED
    BY <1>3, <1>4, <2>1, BySize
<1>6. f[w] \in Int
  OBVIOUS
<1> QED
  BY <1>1, <1>2, <1>5, <1>6

LEMMA TotalTyped == ASSUME NEW f \in [Threads -> Int] PROVE Total(f) \in Int
<1>1. PICK g : Sums(g, f) /\ Total(f) = g[Threads]
  BY TotalSums
<1> DEFINE R == {s \in SUBSET Threads : g[s] \in Int}
<1>2. {} \in R
  <2>1. {} \in SUBSET Threads
    OBVIOUS
  <2>2. g[{}] = 0
    BY <1>1, <2>1 DEF Sums
  <2> QED
    BY <2>1, <2>2
<1>3. ASSUME NEW s \in SUBSET Threads, s # {}, s \ {CHOOSE y \in s : TRUE} \in R
      PROVE  s \in R
  <2>1. PICK y : y = CHOOSE z \in s : TRUE
    OBVIOUS
  <2>2. y \in s /\ y \in Threads /\ g[s \ {y}] \in Int
    BY <1>3, <2>1
  <2>3. g[s] = f[y] + g[s \ {y}]
    BY <1>1, <1>3, <2>1 DEF Sums
  <2> QED
    BY <2>2, <2>3
<1>4. Threads \in R
  <2>1. R \subseteq SUBSET Threads
    OBVIOUS
  <2> HIDE DEF R
  <2> QED
    BY <1>2, <1>3, <2>1, BySize
<1> QED
  BY <1>1, <1>4

LEMMA TotalOfNothing ==
  ASSUME NEW f \in [Threads -> Int], \A w \in Threads : f[w] = 0 PROVE Total(f) = 0
<1>1. PICK g : Sums(g, f) /\ Total(f) = g[Threads]
  BY TotalSums
<1> DEFINE R == {s \in SUBSET Threads : g[s] = 0}
<1>2. {} \in R
  BY <1>1 DEF Sums
<1>3. ASSUME NEW s \in SUBSET Threads, s # {}, s \ {CHOOSE y \in s : TRUE} \in R
      PROVE  s \in R
  <2>1. PICK y : y = CHOOSE z \in s : TRUE
    OBVIOUS
  <2>2. y \in s /\ y \in Threads /\ g[s \ {y}] = 0
    BY <1>3, <2>1
  <2>3. g[s] = f[y] + g[s \ {y}]
    BY <1>1, <1>3, <2>1 DEF Sums
  <2> QED
    BY <2>2, <2>3
<1>4. Threads \in R
  <2>1. R \subseteq SUBSET Threads
    OBVIOUS
  <2> HIDE DEF R
  <2> QED
    BY <1>2, <1>3, <2>1, BySize
<1> QED
  BY <1>1, <1>4

---------------------------------------------------------------------------
(* What the calls do to a list of distinct blocks.                         *)

\* Others' words do not matter to a list.
LEMMA ChainSame ==
  ASSUME NEW nx \in [Blocks -> Words], NEW ny \in [Blocks -> Words],
         NEW b \in Words, NEW k \in Nat,
         \A x \in ToSet(Chain(nx, b, k)) : x \in Blocks => ny[x] = nx[x]
  PROVE  Chain(ny, b, k) = Chain(nx, b, k)
<1>1. PICK c, e : /\ c = Chain(nx, b, k) /\ e = Chain(ny, b, k)
                  /\ Leads(nx, c, b, k) /\ Leads(ny, e, b, k)
  BY ChainLeads
<1>2. c \in [1 .. k -> Words]
  BY <1>1 DEF Leads
<1>3. \A i \in 1 .. k : c[i] \in Blocks => ny[c[i]] = nx[c[i]]
  BY <1>1, <1>2 DEF ToSet
<1>4. Prefix(c, k) = c
  BY <1>2 DEF Prefix
<1>5. Leads(ny, c, b, k)
  <2>1. k \in 0 .. k /\ \A i \in 1 .. k - 1 : c[i] \in Blocks => ny[c[i]] = nx[c[i]]
    BY <1>3
  <2>2. Leads(ny, Prefix(c, k), b, k)
    BY <1>1, <2>1, LeadsPrefix
  <2> QED
    BY <1>4, <2>2
<1> QED
  BY <1>1, <1>5, LeadsUnique

LEMMA EmptyChain == \A nx, b : Chain(nx, b, 0) = <<>>
  BY DEF Chain

\* p = head; head = head->next; sz--
Tailed(nx, c, h, k, ny, d, j) ==
  /\ nx \in [Blocks -> Words] /\ ny \in [Blocks -> Words] /\ h \in Words
  /\ k \in Nat /\ k > 0 /\ j = k - 1
  /\ Leads(nx, c, h, k) /\ IsInjective(c) /\ ToSet(c) \subseteq Blocks
  /\ \A x \in Blocks \ {h} : ny[x] = nx[x]
  /\ Leads(ny, d, nx[h], j)

LEMMA ChainTail ==
  ASSUME NEW nx, NEW c, NEW h, NEW k, NEW ny, NEW d, NEW j, Tailed(nx, c, h, k, ny, d, j)
  PROVE  /\ h \in ToSet(c) /\ h \in Blocks
         /\ d = Suffix(c, 1, j)
         /\ IsInjective(d) /\ ToSet(d) = ToSet(c) \ {h}
<1> USE DEF Tailed
<1>0. j = k - 1
  OBVIOUS
<1>1. c \in [1 .. k -> Words] /\ c[1] = h
  BY DEF Leads
<1>2. \A i \in 1 .. k : c[i] \in ToSet(c)
  BY <1>1 DEF ToSet
<1>3. h \in ToSet(c) /\ h \in Blocks
  BY <1>1, <1>2
<1>4. \A i, q \in 1 .. k : c[i] = c[q] => i = q
  BY <1>1 DEF IsInjective
<1>5. d = [i \in 1 .. k - 1 |-> c[i + 1]]
  <2>1. ny \in [Blocks -> Words] /\ 1 \in 1 .. k
    OBVIOUS
  <2>2. \A i \in 1 + 1 .. k - 1 : c[i] \in Blocks => ny[c[i]] = nx[c[i]]
    BY <1>1, <1>4
  <2>3. c[1] \in Blocks /\ nx[c[1]] = nx[h]
    BY <1>1, <1>3
  <2>4. Leads(ny, Suffix(c, 1, k - 1), nx[h], k - 1)
    <3>1. k \in Nat
      OBVIOUS
    <3>2. Leads(ny, Suffix(c, 1, k - 1), nx[c[1]], k - 1)
      BY <2>1, <2>2, <2>3, <3>1, LeadsSuffix
    <3> QED
      BY <2>3, <3>2
  <2>5. nx[h] \in Words /\ k - 1 \in Nat
    BY <1>3
  <2> QED
    BY <1>0, <2>1, <2>4, <2>5, LeadsUnique DEF Suffix
<1>6. IsInjective(d)
  BY <1>4, <1>5 DEF IsInjective
<1>7. ToSet(d) = ToSet(c) \ {h}
  <2>1. ToSet(c) = {c[i] : i \in 1 .. k} /\ ToSet(d) = {c[i + 1] : i \in 1 .. k - 1}
    BY <1>1, <1>5 DEF ToSet
  <2>2. \A i \in 1 .. k - 1 : c[i + 1] \in ToSet(c) /\ c[i + 1] # h
    BY <1>1, <1>2, <1>4
  <2>3. \A i \in 1 .. k : c[i] # h => i - 1 \in 1 .. k - 1 /\ c[(i - 1) + 1] = c[i]
    BY <1>1
  <2>4. ToSet(d) \subseteq ToSet(c) \ {h}
    BY <2>1, <2>2
  <2>5. ToSet(c) \ {h} \subseteq ToSet(d)
    <3> SUFFICES ASSUME NEW i \in 1 .. k, c[i] # h PROVE c[i] \in ToSet(d)
      BY <2>1
    <3> QED
      BY <2>1, <2>3
  <2> QED
    BY <2>4, <2>5
<1> QED
  BY <1>0, <1>3, <1>5, <1>6, <1>7 DEF Suffix

\* new (ptr) block{head}; head = ptr; sz++
Fronted(nx, c, h, k, x, ny, d, j) ==
  /\ nx \in [Blocks -> Words] /\ ny \in [Blocks -> Words] /\ h \in Words
  /\ k \in Nat /\ j = k + 1
  /\ Leads(nx, c, h, k) /\ IsInjective(c) /\ ToSet(c) \subseteq Blocks
  /\ x \in Blocks /\ x \notin ToSet(c)
  /\ ny[x] = h /\ \A y \in Blocks \ {x} : ny[y] = nx[y]
  /\ Leads(ny, d, x, j)

LEMMA ChainFront ==
  ASSUME NEW nx, NEW c, NEW h, NEW k, NEW x, NEW ny, NEW d, NEW j,
         Fronted(nx, c, h, k, x, ny, d, j)
  PROVE  /\ d = Prepended(x, c, k)
         /\ IsInjective(d) /\ ToSet(d) = ToSet(c) \cup {x}
<1> USE DEF Fronted
<1>1. c \in [1 .. k -> Words]
  BY DEF Leads
<1>2. \A i \in 1 .. k : c[i] \in ToSet(c) /\ c[i] # x
  BY <1>1 DEF ToSet
<1>3. \A i, q \in 1 .. k : c[i] = c[q] => i = q
  BY <1>1 DEF IsInjective
<1>4. d = [i \in 1 .. k + 1 |-> IF i = 1 THEN x ELSE c[i - 1]]
  <2>1. ny \in [Blocks -> Words] /\ ny[x] = h
    OBVIOUS
  <2>2. \A i \in 1 .. k - 1 : c[i] \in Blocks => ny[c[i]] = nx[c[i]]
    BY <1>2
  <2>3. Leads(ny, Prepended(x, c, k), x, k + 1)
    BY <2>1, <2>2, LeadsFront
  <2>4. x \in Words /\ k + 1 \in Nat
    BY DEF Words
  <2> QED
    BY <2>1, <2>3, <2>4, LeadsUnique DEF Prepended
<1>5. IsInjective(d)
  <2> SUFFICES ASSUME NEW i \in 1 .. k + 1, NEW q \in 1 .. k + 1, d[i] = d[q] PROVE i = q
    BY <1>4 DEF IsInjective
  <2>1. CASE i = 1 \/ q = 1
    BY <1>2, <1>4, <2>1
  <2>2. CASE i # 1 /\ q # 1
    <3>1. i - 1 \in 1 .. k /\ q - 1 \in 1 .. k /\ c[i - 1] = c[q - 1]
      BY <1>4, <2>2
    <3>2. i - 1 = q - 1
      BY <1>3, <3>1
    <3> QED
      BY <3>2
  <2> QED
    BY <2>1, <2>2
<1>6. ToSet(d) = ToSet(c) \cup {x}
  <2>1. ToSet(c) = {c[i] : i \in 1 .. k} /\ ToSet(d) = {d[i] : i \in 1 .. k + 1}
    BY <1>1, <1>4 DEF ToSet
  <2>2. d[1] = x /\ \A i \in 1 .. k : i + 1 \in 1 .. k + 1 /\ d[i + 1] = c[i]
    BY <1>4
  <2>3. ToSet(c) \cup {x} \subseteq ToSet(d)
    BY <2>1, <2>2
  <2>4. ToSet(d) \subseteq ToSet(c) \cup {x}
    <3> SUFFICES ASSUME NEW i \in 1 .. k + 1 PROVE d[i] \in ToSet(c) \cup {x}
      BY <2>1
    <3>1. i # 1 => i - 1 \in 1 .. k /\ d[i] = c[i - 1]
      BY <1>4
    <3> QED
      BY <1>2, <2>2, <3>1
  <2> QED
    BY <2>3, <2>4
<1> QED
  BY <1>4, <1>5, <1>6 DEF Prepended

\* push(mid->next); mid->next = nullptr; sz = p
Severed(nx, c, h, k, p, ny, d, e, n) ==
  /\ nx \in [Blocks -> Words] /\ ny \in [Blocks -> Words] /\ h \in Words
  /\ k \in Nat /\ p \in 1 .. k - 1 /\ n = k - p
  /\ Leads(nx, c, h, k) /\ IsInjective(c) /\ ToSet(c) \subseteq Blocks
  /\ \A y \in Blocks \ {c[p]} : ny[y] = nx[y]
  /\ Leads(ny, d, h, p) /\ Leads(ny, e, nx[c[p]], n)

LEMMA ChainCut ==
  ASSUME NEW nx, NEW c, NEW h, NEW k, NEW p, NEW ny, NEW d, NEW e, NEW n,
         Severed(nx, c, h, k, p, ny, d, e, n)
  PROVE  /\ c[p] \in Blocks /\ nx[c[p]] = c[p + 1] /\ c[p + 1] \in ToSet(c)
         /\ IsInjective(d) /\ IsInjective(e)
         /\ ToSet(d) \cup ToSet(e) \subseteq ToSet(c) /\ ToSet(d) \cap ToSet(e) = {}
<1> USE DEF Severed
<1>1. c \in [1 .. k -> Words] /\ \A i \in 1 .. k - 1 : c[i + 1] = Follow(nx, c[i])
  BY DEF Leads
<1>2. \A i \in 1 .. k : c[i] \in ToSet(c) /\ c[i] \in Blocks
  BY <1>1 DEF ToSet
<1>3. \A i, j \in 1 .. k : c[i] = c[j] => i = j
  BY <1>1 DEF IsInjective
<1>4. p \in 1 .. k /\ p \in 0 .. k /\ p + 1 \in 1 .. k
  OBVIOUS
<1>5. ny \in [Blocks -> Words]
  BY DEF Words
<1>6. \A i \in 1 .. k : i # p => ny[c[i]] = nx[c[i]]
  BY <1>2, <1>3, <1>4
<1>7. d = [i \in 1 .. p |-> c[i]]
  <2>1. \A i \in 1 .. p - 1 : c[i] \in Blocks => ny[c[i]] = nx[c[i]]
    BY <1>6
  <2>2. Leads(ny, Prefix(c, p), h, p)
    BY <1>4, <1>5, <2>1, LeadsPrefix
  <2>3. p \in Nat
    OBVIOUS
  <2> QED
    BY <1>5, <2>2, <2>3, LeadsUnique DEF Prefix
<1>8. e = [i \in 1 .. k - p |-> c[i + p]]
  <2>1. \A i \in p + 1 .. k - 1 : c[i] \in Blocks => ny[c[i]] = nx[c[i]]
    BY <1>6
  <2>2. c[p] \in Blocks
    BY <1>2, <1>4
  <2>3. Leads(ny, Suffix(c, p, k - p), nx[c[p]], k - p)
    BY <1>4, <1>5, <2>1, <2>2, LeadsSuffix
  <2>4. nx[c[p]] \in Words /\ k - p \in Nat
    BY <2>2
  <2> QED
    BY <1>5, <2>3, <2>4, LeadsUnique DEF Suffix
<1>9. IsInjective(d) /\ IsInjective(e)
  <2>1. IsInjective(d)
    BY <1>3, <1>7 DEF IsInjective
  <2>2. IsInjective(e)
    <3> SUFFICES ASSUME NEW i \in 1 .. k - p, NEW j \in 1 .. k - p, e[i] = e[j] PROVE i = j
      BY <1>8 DEF IsInjective
    <3>1. i + p \in 1 .. k /\ j + p \in 1 .. k /\ c[i + p] = c[j + p]
      BY <1>8
    <3>2. i + p = j + p
      BY <1>3, <3>1
    <3> QED
      BY <3>2
  <2> QED
    BY <2>1, <2>2
<1>10. ToSet(d) = {c[i] : i \in 1 .. p} /\ ToSet(e) = {c[i + p] : i \in 1 .. k - p}
  BY <1>7, <1>8 DEF ToSet
<1>11. ToSet(d) \cup ToSet(e) \subseteq ToSet(c)
  BY <1>2, <1>10
<1>12. ToSet(d) \cap ToSet(e) = {}
  <2> SUFFICES ASSUME NEW i \in 1 .. p, NEW j \in 1 .. k - p, c[i] = c[j + p] PROVE FALSE
    BY <1>10
  <2>1. i \in 1 .. k /\ j + p \in 1 .. k /\ i # j + p
    OBVIOUS
  <2> QED
    BY <1>3, <2>1
<1>13. nx[c[p]] = c[p + 1]
  BY <1>1, <1>2, <1>4 DEF Follow
<1> QED
  BY <1>2, <1>4, <1>9, <1>11, <1>12, <1>13

---------------------------------------------------------------------------
(* A buffer of blocks that initialize_list has linked up.                  *)

LEMMA ChainInRow ==
  ASSUME NEW ny \in [Blocks -> Words], NEW a \in Nat, NEW k \in Nat \ {0},
         a .. a + k - 1 \subseteq Blocks,
         \A x \in a .. a + k - 2 : ny[x] = x + 1,
         NEW c, Leads(ny, c, a, k)
  PROVE  IsInjective(c) /\ ToSet(c) = a .. a + k - 1
<1> DEFINE s == [i \in 1 .. k |-> a + i - 1]
<1>1. Leads(ny, s, a, k)
  <2>1. s \in [1 .. k -> Words] /\ s[1] = a
    BY DEF Words
  <2>2. ASSUME NEW i \in 1 .. k - 1 PROVE s[i + 1] = Follow(ny, s[i])
    <3>1. s[i] \in a .. a + k - 2 /\ s[i] \in a .. a + k - 1 /\ s[i + 1] = s[i] + 1
      OBVIOUS
    <3> HIDE DEF s
    <3> QED
      BY <3>1 DEF Follow
  <2> HIDE DEF s
  <2> QED
    BY <2>1, <2>2 DEF Leads
<1>2. c = s
  <2>1. a \in Words /\ k \in Nat
    BY DEF Words
  <2> HIDE DEF s
  <2> QED
    BY <1>1, <2>1, LeadsUnique
<1>3. ToSet(c) = {a + i - 1 : i \in 1 .. k}
  BY <1>2 DEF ToSet
<1>4. \A x \in a .. a + k - 1 : x - a + 1 \in 1 .. k /\ x = a + (x - a + 1) - 1
  OBVIOUS
<1>5. ToSet(c) = a .. a + k - 1
  <2>1. \A i \in 1 .. k : a + i - 1 \in a .. a + k - 1
    OBVIOUS
  <2>2. a .. a + k - 1 \subseteq ToSet(c)
    BY <1>3, <1>4
  <2> QED
    BY <1>3, <2>1, <2>2
<1> QED
  BY <1>2, <1>5 DEF IsInjective

\* The i-th list of a buffer lies between the end of the one before and the
\* buffer's end.
LEMMA ListInBuffer ==
  ASSUME NEW m \in Nat, NEW i \in 0 .. m - 1
  PROVE  /\ i * list_length \in Nat /\ m * list_length \in Nat
         /\ i * list_length + list_length <= m * list_length
         /\ \A j \in 0 .. i - 1 : /\ j * list_length \in Nat
                                  /\ j * list_length + list_length <= i * list_length
<1>1. ASSUME NEW p \in Nat, NEW q \in Nat, p < q
      PROVE  /\ p * list_length \in Nat /\ q * list_length \in Nat
             /\ p * list_length + list_length <= q * list_length
  <2>1. PICK d \in Nat : q = (p + 1) + d
    BY <1>1
  <2>2. q * list_length = (p * list_length + list_length) + d * list_length
    BY <2>1
  <2>3. p * list_length \in Nat /\ d * list_length \in Nat
    BY <2>1
  <2> QED
    BY <2>2, <2>3
<1>2. i \in Nat /\ i < m
  OBVIOUS
<1>3. \A j \in 0 .. i - 1 : j \in Nat /\ j < i
  OBVIOUS
<1> QED
  BY <1>1, <1>2, <1>3

\* Of its blocks only the last is at a multiple of the length.
LEMMA LastOfList ==
  ASSUME NEW i \in Nat, NEW j \in 1 .. list_length - 1
  PROVE  (i * list_length + j) % list_length # 0
<1>2. i * list_length \in Nat
  OBVIOUS
<1>1. PICK a, q : /\ a = i * list_length + j /\ a \in Nat
                  /\ q = a \div list_length /\ q \in Nat
  BY <1>2
<1>3. q \in Nat /\ a = q * list_length + (a % list_length)
  BY <1>1
<1>4. SUFFICES ASSUME i * list_length + j = q * list_length PROVE FALSE
  <2>1. q * list_length \in Nat
    BY <1>3
  <2> QED
    BY <1>1, <1>3, <2>1
<1>5. CASE q <= i
  <2>1. PICK d \in Nat : i = q + d
    BY <1>3, <1>5
  <2>2. i * list_length = q * list_length + d * list_length
    BY <1>3, <2>1
  <2>3. d * list_length \in Nat /\ q * list_length \in Nat
    BY <1>3, <2>1
  <2> QED
    BY <1>2, <1>4, <2>2, <2>3
<1>6. CASE q > i
  <2>1. q * list_length \in Nat /\ i * list_length + list_length <= q * list_length
    BY <1>3, <1>6, ListInBuffer
  <2> QED
    BY <1>2, <1>4, <2>1
<1> QED
  BY <1>3, <1>5, <1>6

LEMMA WholeLists == ASSUME NEW m \in Nat PROVE (m * list_length) % list_length = 0
<1>1. PICK a, q, r : /\ a = m * list_length /\ a \in Nat
                     /\ q = a \div list_length /\ q \in Nat
                     /\ r = a % list_length /\ r \in 0 .. list_length - 1
  OBVIOUS
<1>2. a = q * list_length + r
  BY <1>1
<1>3. CASE m <= q
  <2>1. PICK d \in Nat : q = m + d
    BY <1>1, <1>3
  <2>2. q * list_length = a + d * list_length /\ d * list_length \in Nat
    BY <1>1, <2>1
  <2> QED
    BY <1>1, <1>2, <2>2
<1>4. CASE q < m
  <2>1. q \in 0 .. m - 1
    BY <1>1, <1>4
  <2>2. q * list_length \in Nat /\ q * list_length + list_length <= m * list_length
    BY <2>1, ListInBuffer
  <2> QED
    BY <1>1, <1>2, <2>2
<1> QED
  BY <1>1, <1>3, <1>4

---------------------------------------------------------------------------
(* The state of the block allocator.                                       *)

\* No two lists share a block, and none has a block twice or one in use.
ListsSound ==
  /\ \A l \in Lists : /\ IsInjective(FreeList(l))
                      /\ ToSet(FreeList(l)) \subseteq InBuffers \ used
  /\ \A l, p \in Lists : l # p => ToSet(FreeList(l)) \cap ToSet(FreeList(p)) = {}

NoHoard  == list_length > 1 => \A w \in Threads : local_lists[w].sz <= 2 * list_length
AllCount == Cardinality(InBuffers) =
              Cardinality(used) + LocallyFree + list_length * (Len(global_stack) + ListsInHand)

LEMMA Accounted == BlocksAccounted <=> /\ used \subseteq InBuffers /\ ListsSound
                                       /\ NoHoard /\ AllCount
  BY DEF BlocksAccounted, ListsSound, NoHoard, AllCount

LocalList == [sz : Nat, head : Words, mid : Words]

LEMMA Finite ==
  /\ IsFiniteSet(Blocks)
  /\ \A S \in SUBSET Blocks : IsFiniteSet(S) /\ Cardinality(S) \in Nat
<1>1. max_blocks - 1 \in Int /\ 0 \in Int
  OBVIOUS
<1>2. IsFiniteSet(Blocks)
  BY <1>1, FS_Interval DEF Blocks
<1> QED
  BY <1>2, FS_Subset, FS_CardinalityType

LEMMA BufferBlocks == BlockTypes => InBuffers \subseteq Blocks
  BY DEF BlockTypes, InBuffers

LEMMA ListFacts ==
  ASSUME BlockTypes, ListsSound, NEW l \in Lists
  PROVE  /\ HeadOf(l) \in Words /\ LenOf(l) \in Nat
         /\ Leads(next, FreeList(l), HeadOf(l), LenOf(l))
         /\ FreeList(l) \in [1 .. LenOf(l) -> Words]
         /\ IsInjective(FreeList(l))
         /\ ToSet(FreeList(l)) \subseteq InBuffers \ used /\ ToSet(FreeList(l)) \subseteq Blocks
<1>1. HeadOf(l) \in Words /\ LenOf(l) \in Nat
  <2>1. CASE l \in {"local"} \X Threads
    BY <2>1 DEF HeadOf, LenOf, BlockTypes
  <2>2. CASE l \in {"full"} \X FullHeads
    <3>1. FullHeads \subseteq Blocks
      BY DEF BlockTypes, FullHeads, ToSet
    <3> QED
      BY <2>2, <3>1 DEF HeadOf, LenOf, Words
  <2> QED
    BY <2>1, <2>2 DEF Lists
<1>2. next \in [Blocks -> Words]
  BY DEF BlockTypes
<1>3. Leads(next, FreeList(l), HeadOf(l), LenOf(l))
  BY <1>1, <1>2, ChainLeads DEF FreeList
<1>4. FreeList(l) \in [1 .. LenOf(l) -> Words]
  BY <1>3 DEF Leads
<1>5. IsInjective(FreeList(l)) /\ ToSet(FreeList(l)) \subseteq InBuffers \ used
  BY DEF ListsSound
<1> QED
  BY <1>1, <1>3, <1>4, <1>5, BufferBlocks

\* A list that a step does not write to.
LEMMA ListKept ==
  ASSUME BlockTypes, ListsSound, next' \in [Blocks -> Words], NEW l \in Lists,
         HeadOf(l)' = HeadOf(l), LenOf(l)' = LenOf(l),
         \A x \in ToSet(FreeList(l)) : next'[x] = next[x]
  PROVE  FreeList(l)' = FreeList(l)
<1>1. HeadOf(l) \in Words /\ LenOf(l) \in Nat /\ next \in [Blocks -> Words]
  BY ListFacts DEF BlockTypes
<1>2. \A x \in ToSet(Chain(next, HeadOf(l), LenOf(l))) : x \in Blocks => next'[x] = next[x]
  BY DEF FreeList
<1>3. Chain(next', HeadOf(l), LenOf(l)) = Chain(next, HeadOf(l), LenOf(l))
  BY <1>1, <1>2, ChainSame
<1> QED
  BY <1>3 DEF FreeList

Relist(l, n, b) == [l EXCEPT !.sz = n, !.head = b]

LEMMA NewLocal ==
  ASSUME NEW l \in LocalList, NEW n \in Nat, NEW b \in Words
  PROVE  /\ Relist(l, n, b) \in LocalList
         /\ Relist(l, n, b).sz = n /\ Relist(l, n, b).head = b /\ Relist(l, n, b).mid = l.mid
  BY DEF LocalList, Relist

\* The lists of other workers and the full lists keep their heads and lengths.
LEMMA OtherHeads ==
  ASSUME BlockTypes, NEW w \in Threads, NEW r,
         local_lists' = [local_lists EXCEPT ![w] = r],
         NEW l \in Lists, l # <<"local", w>>
  PROVE  HeadOf(l)' = HeadOf(l) /\ LenOf(l)' = LenOf(l)
<1>1. CASE l \in {"local"} \X Threads
  <2>1. l[1] = "local" /\ l[2] \in Threads /\ l[2] # w
    BY <1>1
  <2>2. local_lists'[l[2]] = local_lists[l[2]]
    BY <2>1 DEF BlockTypes
  <2> QED
    BY <2>1, <2>2 DEF HeadOf, LenOf
<1>2. CASE l \in {"full"} \X FullHeads
  BY <1>2 DEF HeadOf, LenOf
<1> QED
  BY <1>1, <1>2 DEF Lists

\* What one worker's list or hand adds to the totals.
LEMMA LocalChange ==
  ASSUME BlockTypes, NEW w \in Threads, NEW r \in LocalList,
         local_lists' = [local_lists EXCEPT ![w] = r]
  PROVE  /\ local_lists' \in [Threads -> LocalList]
         /\ LocallyFree \in Int /\ LocallyFree' \in Int
         /\ LocallyFree' = LocallyFree - local_lists[w].sz + r.sz
<1> DEFINE f == [v \in Threads |-> local_lists[v].sz]
           e == [v \in Threads |-> local_lists'[v].sz]
<1>1. local_lists \in [Threads -> LocalList]
  BY DEF BlockTypes, LocalList
<1>2. local_lists' \in [Threads -> LocalList]
  BY <1>1
<1>3. f \in [Threads -> Int] /\ r.sz \in Int
  BY <1>1 DEF LocalList
<1>4. e = [f EXCEPT ![w] = r.sz]
  BY <1>1, <1>2
<1>5. f[w] = local_lists[w].sz
  OBVIOUS
<1>6. LocallyFree = Total(f) /\ LocallyFree' = Total(e)
  BY DEF LocallyFree
<1> HIDE DEF f, e
<1>7. Total(f) \in Int /\ Total(e) \in Int /\ Total(e) = Total(f) - f[w] + r.sz
  BY <1>3, <1>4, TotalChange
<1> QED
  BY <1>2, <1>5, <1>6, <1>7

LEMMA HandChange ==
  ASSUME BlockTypes, NEW w \in Threads, NEW T \in SUBSET Blocks,
         new_lists' = [new_lists EXCEPT ![w] = T]
  PROVE  /\ new_lists' \in [Threads -> SUBSET Blocks]
         /\ ListsInHand \in Int /\ ListsInHand' \in Int
         /\ ListsInHand' = ListsInHand - Cardinality(new_lists[w]) + Cardinality(T)
<1> DEFINE f == [v \in Threads |-> Cardinality(new_lists[v])]
           e == [v \in Threads |-> Cardinality(new_lists'[v])]
<1>1. new_lists \in [Threads -> SUBSET Blocks]
  BY DEF BlockTypes
<1>2. new_lists' \in [Threads -> SUBSET Blocks]
  BY <1>1
<1>3. f \in [Threads -> Int] /\ Cardinality(T) \in Int
  BY <1>1, Finite
<1>4. e = [f EXCEPT ![w] = Cardinality(T)]
  BY <1>1, <1>2
<1>5. f[w] = Cardinality(new_lists[w])
  OBVIOUS
<1>6. ListsInHand = Total(f) /\ ListsInHand' = Total(e)
  BY DEF ListsInHand
<1> HIDE DEF f, e
<1>7. Total(f) \in Int /\ Total(e) \in Int /\ Total(e) = Total(f) - f[w] + Cardinality(T)
  BY <1>3, <1>4, TotalChange
<1> QED
  BY <1>2, <1>5, <1>6, <1>7

LEMMA StackFront ==
  ASSUME NEW q \in Seq(Blocks), IsInjective(q), NEW b \in Blocks, b \notin ToSet(q)
  PROVE  /\ <<b>> \o q \in Seq(Blocks) /\ Len(<<b>> \o q) = Len(q) + 1
         /\ IsInjective(<<b>> \o q) /\ ToSet(<<b>> \o q) = ToSet(q) \cup {b}
<1>1. PICK s : s = <<b>> \o q
  OBVIOUS
<1>2. /\ s \in Seq(Blocks) /\ Len(s) = Len(q) + 1 /\ Len(q) \in Nat
      /\ \A i \in 1 .. Len(q) + 1 : s[i] = IF i = 1 THEN b ELSE q[i - 1]
  BY <1>1
<1>3. \A i \in 1 .. Len(q) : q[i] \in ToSet(q) /\ q[i] # b
  BY DEF ToSet
<1>4. \A i, j \in 1 .. Len(q) : q[i] = q[j] => i = j
  BY DEF IsInjective
<1>5. IsInjective(s)
  <2> SUFFICES ASSUME NEW i \in 1 .. Len(q) + 1, NEW j \in 1 .. Len(q) + 1, s[i] = s[j]
               PROVE  i = j
    BY <1>2 DEF IsInjective
  <2>1. CASE i = 1 \/ j = 1
    BY <1>2, <1>3, <2>1
  <2>2. CASE i # 1 /\ j # 1
    <3>1. i - 1 \in 1 .. Len(q) /\ j - 1 \in 1 .. Len(q) /\ q[i - 1] = q[j - 1]
      BY <1>2, <2>2
    <3>2. i - 1 = j - 1
      BY <1>4, <3>1
    <3> QED
      BY <3>2
  <2> QED
    BY <2>1, <2>2
<1>6. ToSet(s) = ToSet(q) \cup {b}
  <2>1. ToSet(q) = {q[i] : i \in 1 .. Len(q)} /\ ToSet(s) = {s[i] : i \in 1 .. Len(q) + 1}
    BY <1>2 DEF ToSet
  <2>2. s[1] = b /\ \A i \in 1 .. Len(q) : i + 1 \in 1 .. Len(q) + 1 /\ s[i + 1] = q[i]
    BY <1>2
  <2>3. ToSet(q) \cup {b} \subseteq ToSet(s)
    <3>1. 1 \in 1 .. Len(q) + 1
      BY <1>2
    <3> QED
      BY <2>1, <2>2, <3>1
  <2>4. ToSet(s) \subseteq ToSet(q) \cup {b}
    <3> SUFFICES ASSUME NEW i \in 1 .. Len(q) + 1 PROVE s[i] \in ToSet(q) \cup {b}
      BY <2>1
    <3>1. i # 1 => i - 1 \in 1 .. Len(q) /\ s[i] = q[i - 1]
      BY <1>2
    <3> QED
      BY <1>3, <2>2, <3>1
  <2> QED
    BY <2>3, <2>4
<1> QED
  BY <1>1, <1>2, <1>5, <1>6

LEMMA StackTail ==
  ASSUME NEW q \in Seq(Blocks), IsInjective(q), q # <<>>
  PROVE  /\ Head(q) \in Blocks /\ Head(q) \in ToSet(q)
         /\ Tail(q) \in Seq(Blocks) /\ Len(Tail(q)) = Len(q) - 1
         /\ IsInjective(Tail(q)) /\ ToSet(Tail(q)) = ToSet(q) \ {Head(q)}
<1>1. PICK t : t = Tail(q)
  OBVIOUS
<1>2. /\ Len(q) \in Nat \ {0} /\ Head(q) = q[1] /\ 1 \in 1 .. Len(q)
      /\ t \in Seq(Blocks) /\ Len(t) = Len(q) - 1
      /\ \A i \in 1 .. Len(q) - 1 : t[i] = q[i + 1]
  BY <1>1
<1>3. \A i \in 1 .. Len(q) : q[i] \in ToSet(q)
  BY DEF ToSet
<1>4. \A i, j \in 1 .. Len(q) : q[i] = q[j] => i = j
  BY DEF IsInjective
<1>5. IsInjective(t)
  <2> SUFFICES ASSUME NEW i \in 1 .. Len(q) - 1, NEW j \in 1 .. Len(q) - 1, t[i] = t[j]
               PROVE  i = j
    BY <1>2 DEF IsInjective
  <2>1. i + 1 \in 1 .. Len(q) /\ j + 1 \in 1 .. Len(q) /\ q[i + 1] = q[j + 1]
    BY <1>2
  <2>2. i + 1 = j + 1
    BY <1>4, <2>1
  <2> QED
    BY <2>2
<1>6. ToSet(t) = ToSet(q) \ {Head(q)}
  <2>1. ToSet(q) = {q[i] : i \in 1 .. Len(q)} /\ ToSet(t) = {t[i] : i \in 1 .. Len(q) - 1}
    BY <1>2 DEF ToSet
  <2>2. \A i \in 1 .. Len(q) - 1 : i + 1 \in 1 .. Len(q) /\ t[i] = q[i + 1] /\ q[i + 1] # q[1]
    BY <1>2, <1>4
  <2>3. ToSet(t) \subseteq ToSet(q) \ {Head(q)}
    BY <1>2, <1>3, <2>1, <2>2
  <2>4. ToSet(q) \ {Head(q)} \subseteq ToSet(t)
    <3> SUFFICES ASSUME NEW i \in 1 .. Len(q), q[i] # q[1] PROVE q[i] \in ToSet(t)
      BY <1>2, <2>1
    <3>1. i - 1 \in 1 .. Len(q) - 1 /\ t[i - 1] = q[i]
      BY <1>2
    <3> QED
      BY <2>1, <3>1
  <2> QED
    BY <2>3, <2>4
<1> QED
  BY <1>1, <1>2, <1>3, <1>5, <1>6

---------------------------------------------------------------------------
(* Every step preserves the invariant.                                     *)

Local(w) == <<"local", w>>

LEMMA LocalIsList ==
  ASSUME NEW w \in Threads
  PROVE  /\ Local(w) \in Lists /\ HeadOf(Local(w)) = local_lists[w].head
         /\ LenOf(Local(w)) = local_lists[w].sz
         /\ FreeList(Local(w)) = Chain(next, local_lists[w].head, local_lists[w].sz)
  BY DEF Local, Lists, HeadOf, LenOf, FreeList

LEMMA LocalTypes ==
  ASSUME BlockTypes
  PROVE  /\ next \in [Blocks -> Words]
         /\ local_lists \in [Threads -> LocalList]
         /\ \A w \in Threads : /\ local_lists[w] \in LocalList /\ local_lists[w].sz \in Nat
                             /\ local_lists[w].head \in Words /\ local_lists[w].mid \in Words
  BY DEF BlockTypes, LocalList

\* With one worker's list changed, mid need only be looked at there.
LEMMA MarkedKept ==
  ASSUME Marked, NEW w \in Threads,
         \A v \in Threads \ {w} : /\ local_lists'[v] = local_lists[v]
                                  /\ FreeList(Local(v))' = FreeList(Local(v)),
         list_length > 1 /\ local_lists'[w].sz >= list_length + 2 =>
           local_lists'[w].mid = FreeList(Local(w))'[local_lists'[w].sz - list_length]
  PROVE  Marked'
<1> SUFFICES ASSUME list_length > 1, NEW v \in Threads,
                    local_lists'[v].sz >= list_length + 2
             PROVE  local_lists'[v].mid = FreeList(Local(v))'[local_lists'[v].sz - list_length]
  <2>1. \A v \in Threads : FreeList(Local(v))' =
                          Chain(next', local_lists'[v].head, local_lists'[v].sz)
    BY DEF Local, FreeList, HeadOf, LenOf
  <2> QED
    BY <2>1 DEF Marked
<1>1. CASE v = w
  BY <1>1
<1>2. CASE v # w
  <2>1. local_lists'[v] = local_lists[v] /\ FreeList(Local(v))' = FreeList(Local(v))
    BY <1>2
  <2>2. local_lists[v].mid = FreeList(Local(v))[local_lists[v].sz - list_length]
    BY <2>1, LocalIsList DEF Marked
  <2> QED
    BY <2>1, <2>2
<1> QED
  BY <1>1, <1>2

\* A block in use more, or fewer.
LEMMA UsedChange ==
  ASSUME BlockTypes, used \subseteq InBuffers, NEW x \in Blocks
  PROVE  /\ Cardinality(used) \in Nat
         /\ x \notin used => Cardinality(used \cup {x}) = Cardinality(used) + 1
         /\ x \in used => Cardinality(used \ {x}) = Cardinality(used) - 1
<1>1. used \in SUBSET Blocks
  BY BufferBlocks
<1>2. IsFiniteSet(used) /\ Cardinality(used) \in Nat
  BY <1>1, Finite
<1> QED
  BY <1>2, FS_AddElement, FS_RemoveElement

\* A block is taken from a list that is not empty, a worker's own or one that
\* becomes its own.
LEMMA TakeList ==
  ASSUME BlockInv, NEW w \in Threads, NEW me \in Lists, LenOf(me) > 0,
         me = Local(w) \/ (me \notin Lists' /\ LenOf(me) = list_length),
         Lists' \subseteq Lists,
         local_lists' = [local_lists EXCEPT
                           ![w] = Relist(local_lists[w], LenOf(me) - 1, next[HeadOf(me)])],
         used' = used \cup {HeadOf(me)},
         next' = [next EXCEPT ![HeadOf(me)] = data],
         UNCHANGED allocated_buffers
  PROVE  /\ next' \in [Blocks -> Words] /\ local_lists' \in [Threads -> LocalList]
         /\ InBuffers' = InBuffers /\ used' \subseteq InBuffers'
         /\ ListsSound' /\ Marked' /\ NoHoard'
         /\ Cardinality(used) \in Nat /\ Cardinality(used') = Cardinality(used) + 1
         /\ LocallyFree \in Int
         /\ LocallyFree' = LocallyFree - local_lists[w].sz + LenOf(me) - 1
<1>1. BlockTypes /\ Marked /\ ListsSound /\ NoHoard /\ used \subseteq InBuffers
  BY Accounted DEF BlockInv
<1>2. PICK h, k, l0, c : /\ h = HeadOf(me) /\ k = LenOf(me)
                         /\ l0 = local_lists[w] /\ c = FreeList(me)
  OBVIOUS
<1>3. /\ k \in Nat /\ k > 0 /\ h \in Words /\ next \in [Blocks -> Words]
      /\ l0 \in LocalList /\ l0.mid \in Words /\ l0.sz \in Nat
  BY <1>1, <1>2, LocalTypes, ListFacts
<1>4. /\ Leads(next, c, h, k) /\ IsInjective(c)
      /\ ToSet(c) \subseteq Blocks /\ ToSet(c) \subseteq InBuffers \ used
  BY <1>1, <1>2, ListFacts
<1>5. next' = [next EXCEPT ![h] = data] /\ next' \in [Blocks -> Words] /\ data \in Words
  BY <1>2, <1>3 DEF Words
<1>6. PICK r : /\ r = Relist(l0, k - 1, next[h])
               /\ local_lists' = [local_lists EXCEPT ![w] = r]
  BY <1>2
<1>7. h \in ToSet(c) /\ h \in Blocks
  BY <1>3, <1>4 DEF Leads, ToSet
<1>8. r \in LocalList /\ r.sz = k - 1 /\ r.head = next[h] /\ r.mid = l0.mid
  <2>1. PICK j, b : j = k - 1 /\ b = next[h] /\ j \in Nat /\ b \in Words
    BY <1>3, <1>7
  <2>2. r = Relist(l0, j, b) /\ l0 \in LocalList /\ j \in Nat /\ b \in Words
    BY <1>3, <1>6, <2>1
  <2>3. r \in LocalList /\ r.sz = j /\ r.head = b /\ r.mid = l0.mid
    BY <2>2, NewLocal
  <2> QED
    BY <2>1, <2>3
<1>9. local_lists'[w] = r /\ \A v \in Threads \ {w} : local_lists'[v] = local_lists[v]
  BY <1>1, <1>6, LocalTypes
<1>10. PICK d : d = FreeList(Local(w))' /\ Leads(next', d, next[h], k - 1)
  <2>1. FreeList(Local(w))' = Chain(next', next[h], k - 1)
    BY <1>8, <1>9 DEF Local, FreeList, HeadOf, LenOf
  <2>2. next[h] \in Words /\ k - 1 \in Nat
    BY <1>3, <1>7
  <2> QED
    BY <1>5, <2>1, <2>2, ChainLeads
<1>11. /\ d = Suffix(c, 1, k - 1) /\ IsInjective(d)
       /\ ToSet(d) = ToSet(c) \ {h}
  <2>1. \A x \in Blocks \ {h} : next'[x] = next[x]
    BY <1>3, <1>5
  <2>2. PICK j : j = k - 1
    OBVIOUS
  <2>3. Leads(next', d, next[h], j)
    BY <1>10, <2>2
  <2>4. Tailed(next, c, h, k, next', d, j)
    BY <1>3, <1>4, <1>5, <2>1, <2>2, <2>3 DEF Tailed
  <2> QED
    BY <2>2, <2>4, ChainTail
<1>12. \A l \in Lists : l # me /\ l # Local(w) => FreeList(l)' = FreeList(l)
  <2> SUFFICES ASSUME NEW l \in Lists, l # me, l # Local(w) PROVE FreeList(l)' = FreeList(l)
    OBVIOUS
  <2>1. HeadOf(l)' = HeadOf(l) /\ LenOf(l)' = LenOf(l)
    BY <1>1, <1>6, OtherHeads DEF Local
  <2>2. ToSet(FreeList(l)) \cap ToSet(c) = {} /\ ToSet(FreeList(l)) \subseteq Blocks
    BY <1>1, <1>2, ListFacts DEF ListsSound
  <2>3. \A x \in ToSet(FreeList(l)) : next'[x] = next[x]
    BY <1>3, <1>5, <1>7, <2>2
  <2> QED
    BY <1>1, <1>5, <2>1, <2>3, ListKept
<1>13. used' = used \cup {h} /\ InBuffers' = InBuffers
  BY <1>2 DEF InBuffers
<1>14. used' \subseteq InBuffers'
  BY <1>1, <1>4, <1>7, <1>13
<1>15. ListsSound'
  \* What was in a list now is, in the one it was in or, if it was in me, in w's.
  <2> DEFINE Was(l) == IF l = Local(w) THEN me ELSE l
  <2>1. ASSUME NEW l \in Lists'
        PROVE  /\ Was(l) \in Lists
               /\ IsInjective(FreeList(l)') /\ ToSet(FreeList(l)') \subseteq ToSet(FreeList(Was(l)))
               /\ h \notin ToSet(FreeList(l)')
    <3>1. CASE l = Local(w)
      BY <1>2, <1>10, <1>11, <3>1
    <3>2. CASE l # Local(w)
      <4>0. l \in Lists /\ l # me
        BY <3>2
      <4>1. FreeList(l)' = FreeList(l)
        BY <1>12, <3>2, <4>0
      <4>2. ToSet(FreeList(l)) \cap ToSet(c) = {} /\ IsInjective(FreeList(l))
        BY <1>1, <1>2, <4>0 DEF ListsSound
      <4> QED
        BY <1>7, <3>2, <4>0, <4>1, <4>2
    <3> QED
      BY <3>1, <3>2
  <2>2. \A l \in Lists : ToSet(FreeList(l)) \subseteq InBuffers \ used
    BY <1>1 DEF ListsSound
  <2>3. \A l, q \in Lists : l # q => ToSet(FreeList(l)) \cap ToSet(FreeList(q)) = {}
    BY <1>1 DEF ListsSound
  <2>4. \A l \in Lists' : /\ IsInjective(FreeList(l)')
                          /\ ToSet(FreeList(l)') \subseteq InBuffers' \ used'
    <3> HIDE DEF Was
    <3> QED
      BY <1>13, <2>1, <2>2
  <2>5. \A l, q \in Lists' : l # q => Was(l) # Was(q)
    OBVIOUS
  <2>6. \A l, q \in Lists' : l # q => ToSet(FreeList(l)') \cap ToSet(FreeList(q)') = {}
    <3> HIDE DEF Was
    <3> QED
      BY <2>1, <2>3, <2>5
  <2> QED
    BY <2>4, <2>6 DEF ListsSound
<1>16. Marked'
  <2>1. \A v \in Threads \ {w} : /\ local_lists'[v] = local_lists[v]
                               /\ FreeList(Local(v))' = FreeList(Local(v))
    <3> SUFFICES ASSUME NEW v \in Threads \ {w} PROVE FreeList(Local(v))' = FreeList(Local(v))
      BY <1>9
    <3>1. Local(v) \in Lists /\ Local(v) \in Lists' /\ Local(v) # Local(w)
      BY LocalIsList DEF Local, Lists
    <3> QED
      BY <1>12, <3>1
  <2>2. ASSUME list_length > 1, local_lists'[w].sz >= list_length + 2
        PROVE  local_lists'[w].mid = FreeList(Local(w))'[local_lists'[w].sz - list_length]
    <3>1. k - 1 >= list_length + 2
      BY <1>8, <1>9, <2>2
    <3>2. me = Local(w) /\ k = l0.sz
      BY <1>2, <1>3, <3>1, LocalIsList
    <3>3. l0.mid = c[k - list_length]
      <4>1. c = Chain(next, l0.head, l0.sz)
        BY <1>2, <3>2, LocalIsList
      <4>2. l0.sz >= list_length + 2
        BY <1>3, <3>1, <3>2
      <4> QED
        BY <1>1, <1>2, <2>2, <3>2, <4>1, <4>2 DEF Marked
    <3>4. (k - 1) - list_length \in 1 .. k - 1 /\ (k - 1) - list_length + 1 = k - list_length
      BY <1>3, <3>1
    <3>5. d[(k - 1) - list_length] = c[k - list_length]
      BY <1>11, <3>4 DEF Suffix
    <3> QED
      BY <1>8, <1>9, <1>10, <3>3, <3>5
  <2> QED
    BY <1>1, <2>1, <2>2, MarkedKept
<1>17. NoHoard'
  <2> SUFFICES ASSUME list_length > 1, NEW v \in Threads
               PROVE  local_lists'[v].sz <= 2 * list_length
    BY DEF NoHoard
  <2>1. local_lists[v].sz <= 2 * list_length /\ local_lists[w].sz <= 2 * list_length
    BY <1>1 DEF NoHoard
  <2>2. CASE v = w
    <3>1. k = l0.sz \/ k = list_length
      BY <1>2, LocalIsList
    <3> QED
      BY <1>2, <1>3, <1>8, <1>9, <2>1, <2>2, <3>1
  <2>3. CASE v # w
    BY <1>9, <2>1, <2>3
  <2> QED
    BY <2>2, <2>3
<1>18. Cardinality(used) \in Nat /\ Cardinality(used') = Cardinality(used) + 1
  BY <1>1, <1>4, <1>7, <1>13, UsedChange
<1>19. /\ LocallyFree \in Int /\ LocallyFree' = LocallyFree - local_lists[w].sz + LenOf(me) - 1
       /\ local_lists' \in [Threads -> LocalList]
  <2>1. /\ local_lists' \in [Threads -> LocalList] /\ LocallyFree \in Int
        /\ LocallyFree' = LocallyFree - local_lists[w].sz + r.sz
    BY <1>1, <1>6, <1>8, LocalChange
  <2> QED
    BY <1>2, <1>3, <1>8, <2>1
<1> QED
  BY <1>5, <1>13, <1>14, <1>15, <1>16, <1>17, <1>18, <1>19

---------------------------------------------------------------------------
(* The count of all blocks.                                                *)

FullCount == Len(global_stack) + ListsInHand
Sizes     == /\ Cardinality(InBuffers) \in Int /\ Cardinality(used) \in Int
             /\ LocallyFree \in Int /\ FullCount \in Int
Elsewhere == Cardinality(InBuffers) - Cardinality(used) - LocallyFree

\* A step that makes n full lists of blocks that were not in one.
Moved(n) == /\ n \in Int /\ Sizes /\ Sizes'
            /\ FullCount' = FullCount + n
            /\ Elsewhere' = Elsewhere + n * list_length

LEMMA Recount == ASSUME AllCount, NEW n, Moved(n) PROVE AllCount'
<1>1. PICK x, y, e, L : /\ x = FullCount /\ y = FullCount' /\ e = Elsewhere /\ L = list_length
  OBVIOUS
<1>2. x \in Int /\ n \in Int /\ L \in Int /\ y = x + n
  BY <1>1 DEF Moved, Sizes
<1>3. L * y = L * x + n * L
  BY <1>2
<1>4. e = L * x
  <2>1. L * x \in Int
    BY <1>2
  <2>2. Cardinality(InBuffers) = Cardinality(used) + LocallyFree + L * x
    BY <1>1 DEF AllCount, FullCount
  <2> QED
    BY <1>1, <2>1, <2>2 DEF Moved, Sizes, Elsewhere
<1>5. Elsewhere' = L * y
  BY <1>1, <1>3, <1>4 DEF Moved
<1>6. L * y \in Int
  BY <1>2
<1>7. Cardinality(InBuffers') = Cardinality(used') + LocallyFree' + L * y
  BY <1>5, <1>6 DEF Moved, Sizes, Elsewhere
<1> QED
  BY <1>1, <1>7 DEF AllCount, FullCount

\* What the count is made of is a number.
Numbers == /\ Sizes /\ Len(global_stack) \in Nat /\ ListsInHand \in Int
           /\ \A w \in Threads : /\ local_lists[w].sz \in Nat
                               /\ Cardinality(new_lists[w]) \in Nat

LEMMA SizesTyped == BlockTypes /\ used \subseteq InBuffers => Numbers
<1> SUFFICES ASSUME BlockTypes, used \subseteq InBuffers PROVE Numbers
  OBVIOUS
<1>1. Cardinality(InBuffers) \in Int /\ Cardinality(used) \in Int
  <2>1. InBuffers \in SUBSET Blocks /\ used \in SUBSET Blocks
    BY BufferBlocks
  <2> QED
    BY <2>1, Finite
<1>2. LocallyFree \in Int
  <2> DEFINE f == [w \in Threads |-> local_lists[w].sz]
  <2>1. f \in [Threads -> Int] /\ LocallyFree = Total(f)
    BY LocalTypes DEF LocallyFree
  <2> QED
    BY <2>1, TotalTyped
<1>3. ListsInHand \in Int /\ \A w \in Threads : Cardinality(new_lists[w]) \in Nat
  <2> DEFINE f == [w \in Threads |-> Cardinality(new_lists[w])]
  <2>1. \A w \in Threads : Cardinality(new_lists[w]) \in Nat
    BY Finite DEF BlockTypes
  <2>2. f \in [Threads -> Int] /\ ListsInHand = Total(f)
    BY <2>1 DEF ListsInHand
  <2> QED
    BY <2>1, <2>2, TotalTyped
<1>4. Len(global_stack) \in Nat
  BY DEF BlockTypes
<1> QED
  BY <1>1, <1>2, <1>3, <1>4, LocalTypes DEF Numbers, Sizes, FullCount

LEMMA SizesNext == BlockTypes' /\ used' \subseteq InBuffers' => Numbers'
<1>1. (BlockTypes /\ used \subseteq InBuffers)' => Numbers'
  BY SizesTyped, PTL
<1> QED
  BY <1>1

---------------------------------------------------------------------------
(* One lemma for each action.                                              *)

\* Invariants of the next state, put together.
LEMMA Together ==
  BlockTypes' /\ HandsApart' /\ Marked' /\ used' \subseteq InBuffers'
    /\ ListsSound' /\ NoHoard' /\ AllCount' => BlockInv'
  BY DEF BlockInv, BlocksAccounted, ListsSound, NoHoard, AllCount

LEMMA AllocInv == ASSUME BlockInv, NEW w \in Threads, alloc(w) PROVE BlockInv'
<1>1. PICK me : me = Local(w)
  OBVIOUS
<1>2. /\ me \in Lists /\ HeadOf(me) = local_lists[w].head /\ LenOf(me) = local_lists[w].sz
  BY <1>1, LocalIsList
<1>3. /\ UNCHANGED <<global_stack, allocated_buffers, blocks_allocated, pc, new_lists>>
      /\ used' = used \cup {HeadOf(me)} /\ next' = [next EXCEPT ![HeadOf(me)] = data]
      /\ local_lists' = [local_lists EXCEPT
                           ![w] = Relist(local_lists[w], LenOf(me) - 1, next[HeadOf(me)])]
      /\ LenOf(me) > 0
  BY <1>2 DEF alloc, TakeFrom, Relist
<1>4. Lists' = Lists
  BY <1>3 DEF Lists, FullHeads
<1>5. /\ next' \in [Blocks -> Words] /\ local_lists' \in [Threads -> LocalList]
      /\ InBuffers' = InBuffers /\ used' \subseteq InBuffers'
      /\ ListsSound' /\ Marked' /\ NoHoard'
      /\ Cardinality(used) \in Nat /\ Cardinality(used') = Cardinality(used) + 1
      /\ LocallyFree \in Int
      /\ LocallyFree' = LocallyFree - local_lists[w].sz + LenOf(me) - 1
  <2>1. me = Local(w) \/ (me \notin Lists' /\ LenOf(me) = list_length)
    BY <1>1
  <2>2. Lists' \subseteq Lists /\ UNCHANGED allocated_buffers
    BY <1>3, <1>4
  <2> QED
    BY <1>2, <1>3, <2>1, <2>2, TakeList
<1>6. BlockTypes'
  BY <1>3, <1>5 DEF BlockInv, BlockTypes, LocalList
<1>7. HandsApart'
  BY <1>3 DEF BlockInv, HandsApart
<1>8. AllCount'
  <2>1. /\ Sizes /\ Sizes' /\ local_lists[w].sz \in Nat
    BY <1>5, <1>6, SizesTyped, SizesNext DEF Numbers, BlockInv, BlocksAccounted
  <2>2. ListsInHand' = ListsInHand
    BY <1>3 DEF ListsInHand
  <2>3. Moved(0)
    <3>1. FullCount' = FullCount
      BY <1>3, <2>2 DEF FullCount
    <3>2. Elsewhere' = Elsewhere
      BY <1>2, <1>5, <2>1 DEF Elsewhere, Sizes
    <3> QED
      BY <2>1, <3>1, <3>2 DEF Moved, Sizes, Elsewhere
  <2> QED
    BY <2>3, Recount, Accounted DEF BlockInv
<1> QED
  BY <1>5, <1>6, <1>7, <1>8, Together

\* The same for the lists in hand.
LEMMA HandsNext ==
  ASSUME \A v \in Threads : /\ pc'[v] \in {"idle", "get_list", "make"} => new_lists'[v] = {}
                            /\ pc'[v] = "install" => \E b \in Blocks : new_lists'[v] = {b}
                            /\ new_lists'[v] \cap ToSet(global_stack') = {},
         \A u, v \in Threads : u # v => new_lists'[u] \cap new_lists'[v] = {},
         IsInjective(global_stack')
  PROVE  HandsApart'
<1>1. (\A w \in Threads : pc[w] \in {"idle", "get_list", "make"} => new_lists[w] = {})'
  BY Zenon
<1>2. (\A w \in Threads : pc[w] = "install" => \E b \in Blocks : new_lists[w] = {b})'
  BY Zenon
<1>3. (\A w \in Threads : new_lists[w] \cap ToSet(global_stack) = {})'
  BY Zenon
<1>4. (\A v, w \in Threads : v # w => new_lists[v] \cap new_lists[w] = {})'
  OBVIOUS
<1>5. IsInjective(global_stack)'
  OBVIOUS
<1> QED
  BY <1>1, <1>2, <1>3, <1>4, <1>5, Zenon DEF HandsApart

\* A step that hands full lists around and touches no block.
LEMMA ListsHandedOn ==
  ASSUME BlockInv, FullHeads' = FullHeads,
         UNCHANGED <<next, local_lists, used, allocated_buffers, blocks_allocated>>
  PROVE  /\ used' \subseteq InBuffers' /\ ListsSound' /\ Marked' /\ NoHoard'
         /\ (Numbers' /\ FullCount' = FullCount => AllCount')
<1>1. /\ Marked /\ ListsSound /\ NoHoard /\ AllCount /\ used \subseteq InBuffers /\ Numbers
  BY Accounted, SizesTyped DEF BlockInv
<1>2. Lists' = Lists /\ InBuffers' = InBuffers
  BY DEF Lists, InBuffers
<1>3. \A l : FreeList(l)' = FreeList(l)
  BY DEF FreeList, HeadOf, LenOf
<1>4. ListsSound'
  BY <1>1, <1>2, <1>3 DEF ListsSound
<1>5. Marked' /\ NoHoard'
  BY <1>1 DEF Marked, NoHoard
<1>6. Numbers' /\ FullCount' = FullCount => AllCount'
  <2> SUFFICES ASSUME Numbers', FullCount' = FullCount PROVE AllCount'
    OBVIOUS
  <2>1. LocallyFree' = LocallyFree
    BY DEF LocallyFree
  <2>2. Moved(0)
    BY <1>1, <1>2, <2>1 DEF Moved, Numbers, Sizes, Elsewhere
  <2> QED
    BY <1>1, <2>2, Recount
<1> QED
  BY <1>1, <1>2, <1>4, <1>5, <1>6

\* Neither blocks nor lists move.
LEMMA MissInv ==
  ASSUME BlockInv, NEW w \in Threads, allocMiss(w) \/ PopNoList(w) PROVE BlockInv'
<1>1. UNCHANGED <<next, local_lists, global_stack, allocated_buffers,
                  blocks_allocated, used, new_lists>>
  BY DEF allocMiss, PopNoList
<1>2. BlockTypes'
  BY <1>1 DEF BlockInv, BlockTypes, InBuffers, allocMiss, PopNoList
<1>3. HandsApart'
  BY <1>1 DEF BlockInv, BlockTypes, HandsApart, allocMiss, PopNoList, Idle
<1>4. FullHeads' = FullHeads /\ FullCount' = FullCount
  BY <1>1 DEF FullHeads, FullCount, ListsInHand
<1>5. used' \subseteq InBuffers' /\ ListsSound' /\ Marked' /\ NoHoard' /\ (Numbers' => AllCount')
  BY <1>1, <1>4, ListsHandedOn
<1> QED
  BY <1>2, <1>3, <1>5, SizesNext, Together

LEMMA PopInv == ASSUME BlockInv, NEW w \in Threads, PopList(w) PROVE BlockInv'
<1> DEFINE g == Head(global_stack)
<1>1. /\ global_stack' = Tail(global_stack) /\ pc[w] = "get_list"
      /\ new_lists' = [new_lists EXCEPT ![w] = {g}]
      /\ pc' = [pc EXCEPT ![w] = "install"]
      /\ UNCHANGED <<next, local_lists, allocated_buffers, blocks_allocated, used>>
  BY DEF PopList
<1>2. /\ BlockTypes /\ HandsApart /\ new_lists[w] = {} /\ new_lists \in [Threads -> SUBSET Blocks]
      /\ pc \in [Threads -> {"idle", "get_list", "make", "install", "reserve"}]
  BY <1>1 DEF BlockInv, BlockTypes, HandsApart
<1>3. /\ g \in Blocks /\ g \in ToSet(global_stack)
      /\ global_stack' \in Seq(Blocks) /\ Len(global_stack') = Len(global_stack) - 1
      /\ IsInjective(global_stack') /\ ToSet(global_stack') = ToSet(global_stack) \ {g}
  BY <1>1, <1>2, StackTail DEF BlockTypes, HandsApart, PopList
<1> HIDE DEF g
<1>4. /\ new_lists'[w] = {g} /\ pc'[w] = "install"
      /\ \A v \in Threads \ {w} : new_lists'[v] = new_lists[v] /\ pc'[v] = pc[v]
  BY <1>1, <1>2
<1>5. BlockTypes'
  BY <1>1, <1>2, <1>3 DEF BlockTypes, InBuffers
<1>6. \A v \in Threads : g \notin new_lists[v]
  BY <1>2, <1>3 DEF HandsApart
<1>7. HandsApart'
  <2>1. \A v \in Threads : /\ pc'[v] \in {"idle", "get_list", "make"} => new_lists'[v] = {}
                           /\ pc'[v] = "install" => \E b \in Blocks : new_lists'[v] = {b}
    BY <1>2, <1>3, <1>4 DEF HandsApart
  <2>2. \A v \in Threads : new_lists'[v] \cap ToSet(global_stack') = {}
    BY <1>2, <1>3, <1>4 DEF HandsApart
  <2>3. \A u, v \in Threads : u # v => new_lists'[u] \cap new_lists'[v] = {}
    <3> SUFFICES ASSUME NEW u \in Threads, NEW v \in Threads, u # v
                 PROVE  new_lists'[u] \cap new_lists'[v] = {}
      OBVIOUS
    <3>1. CASE u = w \/ v = w
      BY <1>4, <1>6, <3>1
    <3>2. CASE u # w /\ v # w
      BY <1>2, <1>4, <3>2 DEF HandsApart
    <3> QED
      BY <3>1, <3>2
  <2>4. IsInjective(global_stack')
    BY <1>3
  <2> QED
    BY <2>1, <2>2, <2>3, <2>4, HandsNext
<1>8. FullHeads' = FullHeads
  <2>1. UNION {new_lists'[v] : v \in Threads} = (UNION {new_lists[v] : v \in Threads}) \cup {g}
    <3>1. \A x : (\E v \in Threads : x \in new_lists'[v]) <=>
                 (\E v \in Threads : x \in new_lists[v]) \/ x = g
      BY <1>2, <1>4
    <3> QED
      BY <3>1
  <2> QED
    BY <1>3, <2>1 DEF FullHeads
<1>9. FullCount' = FullCount
  <2>1. PICK T : T = {g} /\ T \in SUBSET Blocks /\ Cardinality(T) = 1
    <3>1. Cardinality({g}) = 1
      BY FS_Singleton
    <3> QED
      BY <1>3, <3>1
  <2>2. ListsInHand \in Int /\ ListsInHand' = ListsInHand - Cardinality(new_lists[w]) + 1
    BY <1>1, <1>2, <2>1, HandChange
  <2>3. Cardinality(new_lists[w]) = 0 /\ Len(global_stack) \in Nat
    BY <1>2, FS_EmptySet DEF BlockTypes
  <2> QED
    BY <1>3, <2>2, <2>3 DEF FullCount
<1>10. used' \subseteq InBuffers' /\ ListsSound' /\ Marked' /\ NoHoard' /\ (Numbers' => AllCount')
  BY <1>1, <1>8, <1>9, ListsHandedOn
<1> QED
  BY <1>5, <1>7, <1>10, SizesNext, Together

LEMMA PushInv == ASSUME BlockInv, NEW w \in Threads, NEW g \in Blocks, PushList(w, g) PROVE BlockInv'
<1>1. /\ global_stack' = <<g>> \o global_stack /\ pc[w] = "reserve" /\ g \in new_lists[w]
      /\ new_lists' = [new_lists EXCEPT ![w] = new_lists[w] \ {g}]
      /\ pc' = [pc EXCEPT ![w] = IF new_lists[w] = {g} THEN "idle" ELSE "reserve"]
      /\ UNCHANGED <<next, local_lists, allocated_buffers, blocks_allocated, used>>
  BY DEF PushList
<1>2. /\ BlockTypes /\ HandsApart /\ new_lists \in [Threads -> SUBSET Blocks]
      /\ pc \in [Threads -> {"idle", "get_list", "make", "install", "reserve"}]
  BY DEF BlockInv, BlockTypes
<1>3. /\ global_stack' \in Seq(Blocks) /\ Len(global_stack') = Len(global_stack) + 1
      /\ IsInjective(global_stack') /\ ToSet(global_stack') = ToSet(global_stack) \cup {g}
  <2>1. g \notin ToSet(global_stack) /\ global_stack \in Seq(Blocks) /\ IsInjective(global_stack)
    BY <1>1, <1>2 DEF HandsApart, BlockTypes
  <2> QED
    BY <1>1, <2>1, StackFront
<1>4. /\ new_lists'[w] = new_lists[w] \ {g}
      /\ pc'[w] = IF new_lists[w] = {g} THEN "idle" ELSE "reserve"
      /\ \A v \in Threads \ {w} : new_lists'[v] = new_lists[v] /\ pc'[v] = pc[v]
  BY <1>1, <1>2
<1>5. BlockTypes'
  <2>1. pc' \in [Threads -> {"idle", "get_list", "make", "install", "reserve"}]
    BY <1>1, <1>2
  <2>2. new_lists' \in [Threads -> SUBSET Blocks]
    BY <1>1, <1>2
  <2> QED
    BY <1>1, <1>2, <1>3, <2>1, <2>2 DEF BlockTypes, InBuffers
<1>6. \A v \in Threads : g \notin new_lists'[v]
  BY <1>1, <1>2, <1>4 DEF HandsApart
<1>7. HandsApart'
  <2>1. \A v \in Threads : /\ pc'[v] \in {"idle", "get_list", "make"} => new_lists'[v] = {}
                           /\ pc'[v] = "install" => \E b \in Blocks : new_lists'[v] = {b}
    <3> SUFFICES ASSUME NEW v \in Threads
                 PROVE  /\ pc'[v] \in {"idle", "get_list", "make"} => new_lists'[v] = {}
                        /\ pc'[v] = "install" => \E b \in Blocks : new_lists'[v] = {b}
      OBVIOUS
    <3>1. CASE v = w
      BY <1>4, <3>1
    <3>2. CASE v # w
      BY <1>2, <1>4, <3>2 DEF HandsApart
    <3> QED
      BY <3>1, <3>2
  <2>2. \A v \in Threads : new_lists'[v] \subseteq new_lists[v]
    BY <1>4
  <2>3. \A v \in Threads : new_lists'[v] \cap ToSet(global_stack') = {}
    BY <1>2, <1>3, <1>6, <2>2 DEF HandsApart
  <2>4. \A u, v \in Threads : u # v => new_lists'[u] \cap new_lists'[v] = {}
    BY <1>2, <2>2 DEF HandsApart
  <2>5. IsInjective(global_stack')
    BY <1>3
  <2> QED
    BY <2>1, <2>3, <2>4, <2>5, HandsNext
<1>8. FullHeads' = FullHeads
  <2>1. (UNION {new_lists'[v] : v \in Threads}) \cup {g} = UNION {new_lists[v] : v \in Threads}
    <3>1. \A x : (\E v \in Threads : x \in new_lists'[v]) \/ x = g <=>
                 \E v \in Threads : x \in new_lists[v]
      BY <1>1, <1>4
    <3> QED
      BY <3>1
  <2> QED
    BY <1>3, <2>1 DEF FullHeads
<1>9. FullCount' = FullCount
  <2>1. PICK T : T = new_lists[w] \ {g} /\ T \in SUBSET Blocks
    BY <1>2
  <2>2. /\ ListsInHand \in Int
        /\ ListsInHand' = ListsInHand - Cardinality(new_lists[w]) + Cardinality(T)
    BY <1>1, <1>2, <2>1, HandChange
  <2>3. Cardinality(new_lists[w]) \in Nat /\ Cardinality(T) = Cardinality(new_lists[w]) - 1
    <3>1. IsFiniteSet(new_lists[w]) /\ Cardinality(new_lists[w]) \in Nat
      BY <1>2, Finite
    <3> QED
      BY <1>1, <2>1, <3>1, FS_RemoveElement
  <2>4. Len(global_stack) \in Nat
    BY <1>2 DEF BlockTypes
  <2>5. ListsInHand' = ListsInHand - 1 /\ Len(global_stack') = Len(global_stack) + 1
    BY <1>3, <2>2, <2>3
  <2> QED
    BY <2>2, <2>4, <2>5 DEF FullCount
<1>10. used' \subseteq InBuffers' /\ ListsSound' /\ Marked' /\ NoHoard' /\ (Numbers' => AllCount')
  BY <1>1, <1>8, <1>9, ListsHandedOn
<1> QED
  BY <1>5, <1>7, <1>10, SizesNext, Together

---------------------------------------------------------------------------
(* New buffers.                                                            *)

\* The pointers of m lists in a row from b on.
Rows(ny, b, m) ==
  /\ ny \in [Blocks -> Words] /\ b \in Nat /\ m \in Nat
  /\ b .. b + m * list_length - 1 \subseteq Blocks
  /\ \A x \in b .. b + m * list_length - 1 : (x - b + 1) % list_length # 0 => ny[x] = x + 1

LEMMA HeadCount ==
  ASSUME NEW b \in Nat, NEW m \in Nat
  PROVE  IsFiniteSet(Heads(b, m)) /\ Cardinality(Heads(b, m)) = m
<1> DEFINE S == {n \in 0 .. m : IsFiniteSet(Heads(b, n)) /\ Cardinality(Heads(b, n)) = n}
<1>1. 0 \in S
  <2>1. Heads(b, 0) = {}
    BY DEF Heads
  <2> QED
    BY <2>1, FS_EmptySet
<1>2. ASSUME NEW n \in 1 .. m, n - 1 \in S PROVE n \in S
  <2>1. PICK g, H : g = b + (n - 1) * list_length /\ H = Heads(b, n - 1)
    OBVIOUS
  <2>2. Heads(b, n) = H \cup {g}
    <3>1. 0 .. n - 1 = (0 .. (n - 1) - 1) \cup {n - 1}
      OBVIOUS
    <3> QED
      BY <2>1, <3>1 DEF Heads
  <2>3. g \notin H
    <3> SUFFICES ASSUME NEW i \in 0 .. (n - 1) - 1, g = b + i * list_length PROVE FALSE
      BY <2>1 DEF Heads
    <3>1. n \in Nat /\ n - 1 \in 0 .. n - 1 /\ i \in 0 .. (n - 1) - 1
      OBVIOUS
    <3>2. /\ (n - 1) * list_length \in Nat /\ i * list_length \in Nat
          /\ i * list_length + list_length <= (n - 1) * list_length
      BY <3>1, ListInBuffer
    <3> QED
      BY <2>1, <3>2
  <2>4. IsFiniteSet(H) /\ Cardinality(H) = n - 1
    BY <1>2, <2>1
  <2>5. IsFiniteSet(H \cup {g}) /\ Cardinality(H \cup {g}) = (n - 1) + 1
    BY <2>3, <2>4, FS_AddElement
  <2> QED
    BY <2>2, <2>5
<1>3. 0 .. m \subseteq S
  <2>1. \A n \in 1 .. m : n - 1 \in S => n \in S
    BY <1>2
  <2> HIDE DEF S
  <2> QED
    BY <1>1, <2>1, UpTo
<1> QED
  BY <1>3

LEMMA RowLists ==
  ASSUME NEW ny, NEW b, NEW m, Rows(ny, b, m)
  PROVE  /\ m * list_length \in Nat
         /\ \A g \in Heads(b, m) :
              /\ g \in Blocks /\ IsInjective(Chain(ny, g, list_length))
              /\ ToSet(Chain(ny, g, list_length)) = g .. g + list_length - 1
              /\ g .. g + list_length - 1 \subseteq b .. b + m * list_length - 1
         /\ \A f, g \in Heads(b, m) :
              f # g => (f .. f + list_length - 1) \cap (g .. g + list_length - 1) = {}
<1> USE DEF Rows
<1>1. PICK L, n : L = list_length /\ n = m * L /\ L \in Nat /\ L > 0 /\ n \in Nat
  OBVIOUS
<1>2. ASSUME NEW g \in Heads(b, m)
      PROVE  /\ g \in Blocks /\ IsInjective(Chain(ny, g, L))
             /\ ToSet(Chain(ny, g, L)) = g .. g + L - 1
             /\ g .. g + L - 1 \subseteq b .. b + n - 1
  <2>1. PICK i \in 0 .. m - 1 : g = b + i * L
    BY <1>1 DEF Heads
  <2>2. i * L \in Nat /\ i * L + L <= n /\ i \in Nat
    BY <1>1, ListInBuffer
  <2>3. g \in Nat /\ g .. g + L - 1 \subseteq b .. b + n - 1 /\ g \in g .. g + L - 1
    BY <1>1, <2>1, <2>2
  <2>4. g .. g + L - 1 \subseteq Blocks
    BY <1>1, <2>3
  <2>5. ASSUME NEW x \in g .. g + L - 2 PROVE ny[x] = x + 1
    <3>1. PICK j : j = x - g + 1 /\ j \in 1 .. L - 1
      BY <1>1, <2>3
    <3>2. x - b + 1 = i * L + j
      BY <1>1, <2>1, <2>2, <2>3, <3>1
    <3>3. (x - b + 1) % L # 0
      BY <1>1, <2>2, <3>1, <3>2, LastOfList
    <3>4. x \in b .. b + n - 1
      <4>1. x \in g .. g + L - 1
        BY <1>1, <2>3
      <4> QED
        BY <2>3, <4>1
    <3> QED
      BY <1>1, <3>3, <3>4
  <2>6. PICK c : c = Chain(ny, g, L) /\ Leads(ny, c, g, L)
    BY <1>1, <2>3, <2>4, ChainLeads DEF Words
  <2>7. L \in Nat \ {0} /\ \A x \in g .. g + L - 2 : ny[x] = x + 1
    BY <1>1, <2>5
  <2>8. IsInjective(c) /\ ToSet(c) = g .. g + L - 1
    BY <2>3, <2>4, <2>6, <2>7, ChainInRow
  <2> QED
    BY <2>3, <2>4, <2>6, <2>8
<1>3. ASSUME NEW i \in 0 .. m - 1, NEW j \in 0 .. i - 1, NEW f, NEW g,
             g = b + i * L, f = b + j * L
      PROVE  (f .. f + L - 1) \cap (g .. g + L - 1) = {}
  <2>1. i * L \in Nat /\ j * L \in Nat /\ j * L + L <= i * L
    BY <1>1, ListInBuffer
  <2>2. f \in Nat /\ g \in Nat /\ f + L <= g
    <3>1. PICK p, q : p = i * L /\ q = j * L
      OBVIOUS
    <3>2. b \in Nat /\ p \in Nat /\ q \in Nat /\ q + L <= p /\ g = b + p /\ f = b + q
      BY <1>3, <2>1, <3>1
    <3> QED
      BY <1>1, <3>2
  <2> QED
    BY <1>1, <2>2
<1>4. ASSUME NEW f \in Heads(b, m), NEW g \in Heads(b, m), f # g
      PROVE  (f .. f + L - 1) \cap (g .. g + L - 1) = {}
  <2>1. PICK i \in 0 .. m - 1 : g = b + i * L
    BY <1>1 DEF Heads
  <2>2. PICK j \in 0 .. m - 1 : f = b + j * L
    BY <1>1 DEF Heads
  <2>3. i # j
    BY <1>4, <2>1, <2>2
  <2>4. CASE j \in 0 .. i - 1
    BY <1>3, <2>1, <2>2, <2>4
  <2>5. CASE i \in 0 .. j - 1
    BY <1>3, <2>1, <2>2, <2>5
  <2> QED
    BY <2>3, <2>4, <2>5
<1> QED
  BY <1>1, <1>2, <1>4

Full(g) == <<"full", g>>

LEMMA FullIsList ==
  ASSUME BlockTypes, ListsSound, NEW g \in FullHeads
  PROVE  /\ Full(g) \in Lists /\ HeadOf(Full(g)) = g /\ LenOf(Full(g)) = list_length
         /\ FreeList(Full(g)) = Chain(next, g, list_length)
         /\ g \in ToSet(FreeList(Full(g))) /\ g \in InBuffers /\ g \in Blocks
<1>1. /\ Full(g) \in Lists /\ HeadOf(Full(g)) = g /\ LenOf(Full(g)) = list_length
      /\ FreeList(Full(g)) = Chain(next, g, list_length)
  BY DEF Full, Lists, HeadOf, LenOf, FreeList
<1>2. PICK c : c = FreeList(Full(g))
  OBVIOUS
<1>3. /\ Leads(next, c, g, list_length) /\ ToSet(c) \subseteq InBuffers /\ ToSet(c) \subseteq Blocks
  BY <1>1, <1>2, ListFacts
<1>4. g \in ToSet(c)
  BY <1>3 DEF Leads, ToSet
<1> QED
  BY <1>1, <1>2, <1>3, <1>4

LEMMA FreshStarts ==
  ASSUME BlockTypes, NEW n \in Nat, FreshStart(n) # {}
  PROVE  LET b == Min(FreshStart(n)) IN
           /\ b \in Nat /\ b .. b + n - 1 \subseteq Blocks
           /\ (b .. b + n - 1) \cap InBuffers = {}
<1> DEFINE b == Min(FreshStart(n))
<1>1. FreshStart(n) \in SUBSET Nat
  BY DEF FreshStart, Blocks
<1>2. \E x \in FreshStart(n) : \A y \in FreshStart(n) : x <= y
  <2>1. PICK F : F = FreshStart(n)
    OBVIOUS
  <2> QED
    BY <1>1, <2>1, LeastNat
<1>3. b \in FreshStart(n)
  BY <1>2, Zenon DEF Min
<1> QED
  BY <1>1, <1>3 DEF FreshStart, Blocks

\* A buffer of m lists.
LEMMA NewBuffer ==
  ASSUME BlockInv, NEW m \in Nat, NEW n, n = m * list_length, FreshStart(n) # {},
         NEW b, b = Min(FreshStart(n)), allocate_blocks(b, n),
         next' = initialize_lists(b, m), FullHeads' = FullHeads \cup Heads(b, m),
         UNCHANGED <<local_lists, used>>
  PROVE  /\ next' \in [Blocks -> Words] /\ allocated_buffers' \subseteq SUBSET Blocks
         /\ blocks_allocated' = Cardinality(InBuffers')
         /\ b \in Nat /\ Heads(b, m) \subseteq Blocks /\ Heads(b, m) \cap FullHeads = {}
         /\ used' \subseteq InBuffers' /\ ListsSound' /\ Marked' /\ NoHoard'
         /\ (Numbers' /\ FullCount' = FullCount + m => AllCount')
<1>1. /\ BlockTypes /\ Marked /\ ListsSound /\ NoHoard /\ AllCount /\ used \subseteq InBuffers
      /\ Numbers /\ next \in [Blocks -> Words]
  BY Accounted, SizesTyped DEF BlockInv, BlockTypes
<1>2. PICK B : B = b .. b + n - 1
  OBVIOUS
<1>3. n \in Nat /\ b \in Nat /\ B \subseteq Blocks /\ B \cap InBuffers = {}
  BY <1>1, <1>2, FreshStarts
<1>4. \A x \in Blocks : next'[x] = IF x \in B
                                   THEN IF (x - b + 1) % list_length = 0 THEN nullptr ELSE x + 1
                                   ELSE next[x]
  BY <1>2 DEF initialize_lists
<1>5. next' \in [Blocks -> Words]
  <2>1. next' = [x \in Blocks |-> next'[x]]
    BY DEF initialize_lists
  <2>2. ASSUME NEW x \in Blocks PROVE next'[x] \in Words
    <3>1. CASE x \notin B
      BY <1>1, <1>4, <3>1
    <3>2. CASE x \in B /\ (x - b + 1) % list_length = 0
      BY <1>4, <3>2 DEF Words
    <3>3. CASE x \in B /\ (x - b + 1) % list_length # 0
      <4>1. (n - 1 + 1) % list_length = 0
        <5>1. PICK z : z = m * list_length /\ z % list_length = 0
          BY WholeLists
        <5>2. n - 1 + 1 = n /\ n = z
          BY <1>3, <5>1
        <5> QED
          BY <5>1, <5>2
      <4>2. x # b + n - 1
        <5> SUFFICES ASSUME x = b + n - 1 PROVE FALSE
          OBVIOUS
        <5>1. x - b + 1 = n - 1 + 1
          BY <1>3
        <5> QED
          BY <3>3, <4>1, <5>1
      <4>3. x + 1 \in B
        <5>1. b <= x /\ x <= b + n - 1 /\ x \in Nat
          BY <1>2, <1>3, <3>3
        <5> QED
          BY <1>2, <1>3, <4>2, <5>1
      <4> QED
        BY <1>3, <1>4, <3>3, <4>3 DEF Words
    <3> QED
      BY <3>1, <3>2, <3>3
  <2> QED
    BY <2>1, <2>2
<1>6. Rows(next', b, m)
  BY <1>2, <1>3, <1>4, <1>5 DEF Rows
<1>7. /\ \A g \in Heads(b, m) :
           /\ g \in Blocks /\ IsInjective(Chain(next', g, list_length))
           /\ ToSet(Chain(next', g, list_length)) = g .. g + list_length - 1
           /\ g .. g + list_length - 1 \subseteq B
      /\ \A f, g \in Heads(b, m) :
           f # g => (f .. f + list_length - 1) \cap (g .. g + list_length - 1) = {}
  BY <1>2, <1>6, RowLists
<1>8. InBuffers' = InBuffers \cup B /\ allocated_buffers' \subseteq SUBSET Blocks
  <2>1. allocated_buffers' = allocated_buffers \cup {B}
    BY <1>2 DEF allocate_blocks
  <2>2. InBuffers' = InBuffers \cup B
    BY <2>1, Zenon DEF InBuffers
  <2>3. allocated_buffers \subseteq SUBSET Blocks
    BY <1>1 DEF BlockTypes
  <2> QED
    BY <1>3, <2>1, <2>2, <2>3
<1>9. /\ Cardinality(InBuffers) \in Int /\ Cardinality(InBuffers') = Cardinality(InBuffers) + n
      /\ blocks_allocated' = Cardinality(InBuffers')
  <2>1. InBuffers \in SUBSET Blocks /\ B \in SUBSET Blocks
    BY <1>1, <1>3, BufferBlocks
  <2>2. Cardinality(B) = n
    <3>1. PICK e : e = b + n - 1 /\ e \in Int
      BY <1>3
    <3>2. Cardinality(b .. e) = IF b > e THEN 0 ELSE e - b + 1
      <4>1. b \in Int /\ e \in Int
        BY <1>3, <3>1
      <4> QED
        BY <4>1, FS_Interval, Zenon
    <3> QED
      BY <1>2, <1>3, <3>1, <3>2
  <2>3. Cardinality(InBuffers \cup B) = Cardinality(InBuffers) + Cardinality(B) - Cardinality(InBuffers \cap B)
    BY <2>1, Finite, FS_Union
  <2>4. Cardinality(InBuffers \cap B) = 0
    BY <1>3, FS_EmptySet
  <2>5. Cardinality(InBuffers) \in Int
    BY <2>1, Finite
  <2>6. blocks_allocated' = Cardinality(InBuffers) + n
    BY <1>1 DEF allocate_blocks, BlockTypes
  <2> QED
    BY <1>3, <1>8, <2>2, <2>3, <2>4, <2>5, <2>6
<1>10. Heads(b, m) \cap FullHeads = {}
  <2>1. \A g \in Heads(b, m) : g \in B
    <3> SUFFICES ASSUME NEW g \in Heads(b, m) PROVE g \in B
      OBVIOUS
    <3>1. g \in Nat /\ g .. g + list_length - 1 \subseteq B
      BY <1>7 DEF Blocks
    <3>2. g \in g .. g + list_length - 1
      BY <3>1
    <3> QED
      BY <3>1, <3>2
  <2>2. \A g \in FullHeads : g \in InBuffers
    BY <1>1, FullIsList
  <2> QED
    BY <1>3, <2>1, <2>2
<1>11. \A l \in Lists : FreeList(l)' = FreeList(l)
  <2> SUFFICES ASSUME NEW l \in Lists PROVE FreeList(l)' = FreeList(l)
    OBVIOUS
  <2>1. HeadOf(l)' = HeadOf(l) /\ LenOf(l)' = LenOf(l)
    BY DEF HeadOf, LenOf
  <2>2. ToSet(FreeList(l)) \subseteq InBuffers /\ ToSet(FreeList(l)) \subseteq Blocks
    BY <1>1, ListFacts
  <2>3. \A x \in ToSet(FreeList(l)) : next'[x] = next[x]
    BY <1>3, <1>4, <2>2
  <2> QED
    BY <1>1, <1>5, <2>1, <2>3, ListKept
<1>12. \A g \in Heads(b, m) : FreeList(Full(g))' = Chain(next', g, list_length)
  BY DEF Full, FreeList, HeadOf, LenOf
<1>13. \A l \in Lists' : l \in Lists \/ \E g \in Heads(b, m) : l = Full(g)
  BY DEF Lists, Full
<1>14. ListsSound'
  <2>1. ASSUME NEW g \in Heads(b, m)
        PROVE  /\ IsInjective(FreeList(Full(g))')
               /\ ToSet(FreeList(Full(g))') = g .. g + list_length - 1
               /\ ToSet(FreeList(Full(g))') \subseteq B
    <3>1. PICK c : c = Chain(next', g, list_length) /\ c = FreeList(Full(g))'
      BY <1>12
    <3>2. /\ IsInjective(Chain(next', g, list_length))
          /\ ToSet(Chain(next', g, list_length)) = g .. g + list_length - 1
          /\ g .. g + list_length - 1 \subseteq B
      BY <1>7, Zenon
    <3>3. IsInjective(c) /\ ToSet(c) = g .. g + list_length - 1 /\ ToSet(c) \subseteq B
      BY <3>1, <3>2, Zenon
    <3> QED
      BY <3>1, <3>3, Zenon
  <2>2. ASSUME NEW l \in Lists
        PROVE  /\ IsInjective(FreeList(l)')
               /\ ToSet(FreeList(l)') = ToSet(FreeList(l))
               /\ ToSet(FreeList(l)') \subseteq InBuffers \ used
    BY <1>1, <1>11 DEF ListsSound
  <2>3. ASSUME NEW l \in Lists'
        PROVE  /\ IsInjective(FreeList(l)')
               /\ ToSet(FreeList(l)') \subseteq InBuffers' \ used'
    <3>1. CASE l \in Lists
      BY <1>8, <2>2, <3>1
    <3>2. CASE \E g \in Heads(b, m) : l = Full(g)
      BY <1>1, <1>3, <1>8, <2>1, <3>2
    <3> QED
      BY <1>13, <3>1, <3>2
  <2>4. ASSUME NEW l \in Lists', NEW p \in Lists', l # p
        PROVE  ToSet(FreeList(l)') \cap ToSet(FreeList(p)') = {}
    <3>1. CASE l \in Lists /\ p \in Lists
      BY <1>1, <2>2, <2>4, <3>1 DEF ListsSound
    <3>2. CASE l \in Lists /\ \E g \in Heads(b, m) : p = Full(g)
      BY <1>3, <2>1, <2>2, <3>2
    <3>3. CASE p \in Lists /\ \E g \in Heads(b, m) : l = Full(g)
      BY <1>3, <2>1, <2>2, <3>3
    <3>4. CASE (\E g \in Heads(b, m) : l = Full(g)) /\ (\E g \in Heads(b, m) : p = Full(g))
      <4>1. PICK f \in Heads(b, m) : l = Full(f)
        BY <3>4
      <4>2. PICK g \in Heads(b, m) : p = Full(g)
        BY <3>4
      <4>3. f # g
        BY <2>4, <4>1, <4>2
      <4> QED
        BY <1>7, <2>1, <4>1, <4>2, <4>3
    <3> QED
      BY <1>13, <3>1, <3>2, <3>3, <3>4
  <2> QED
    BY <2>3, <2>4 DEF ListsSound
<1>15. Marked'
  <2>1. \A w \in Threads : FreeList(Local(w))' = FreeList(Local(w))
    BY <1>11, LocalIsList
  <2>2. \A w \in Threads : local_lists'[w] = local_lists[w]
    OBVIOUS
  <2>3. CASE Threads = {}
    BY <2>3 DEF Marked
  <2>4. CASE Threads # {}
    <3>1. PICK w \in Threads : TRUE
      BY <2>4
    <3>2. list_length > 1 /\ local_lists'[w].sz >= list_length + 2 =>
            local_lists'[w].mid = FreeList(Local(w))'[local_lists'[w].sz - list_length]
      BY <1>1, <2>1, <2>2, LocalIsList DEF Marked
    <3> QED
      BY <1>1, <2>1, <2>2, <3>2, MarkedKept
  <2> QED
    BY <2>3, <2>4
<1>16. NoHoard'
  BY <1>1 DEF NoHoard
<1>17. Numbers' /\ FullCount' = FullCount + m => AllCount'
  <2> SUFFICES ASSUME Numbers', FullCount' = FullCount + m PROVE AllCount'
    OBVIOUS
  <2>1. LocallyFree' = LocallyFree
    BY DEF LocallyFree
  <2>2. Elsewhere' = Elsewhere + n
    <3>1. PICK x, u, f : /\ x = Cardinality(InBuffers) /\ u = Cardinality(used) /\ f = LocallyFree
                         /\ x \in Int /\ u \in Int /\ f \in Int
      BY <1>1 DEF Numbers, Sizes
    <3>2. Elsewhere = x - u - f /\ Elsewhere' = (x + n) - u - f
      BY <1>9, <2>1, <3>1 DEF Elsewhere
    <3> QED
      BY <1>3, <3>1, <3>2
  <2>3. Moved(m)
    BY <1>1, <2>2 DEF Moved, Numbers
  <2> QED
    BY <1>1, <2>3, Recount
<1> QED
  BY <1>1, <1>3, <1>5, <1>7, <1>8, <1>9, <1>10, <1>14, <1>15, <1>16, <1>17

\* A worker that had no list in hand has those of T.
LEMMA HandOut ==
  ASSUME BlockInv, NEW v \in Threads, new_lists[v] = {},
         NEW T \in SUBSET Blocks, T \cap FullHeads = {},
         new_lists' = [new_lists EXCEPT ![v] = T], UNCHANGED global_stack
  PROVE  /\ FullHeads' = FullHeads \cup T
         /\ FullCount \in Int /\ FullCount' = FullCount + Cardinality(T)
         /\ new_lists' \in [Threads -> SUBSET Blocks]
         /\ new_lists'[v] = T /\ \A u \in Threads \ {v} : new_lists'[u] = new_lists[u]
         /\ \A u \in Threads : new_lists'[u] \cap ToSet(global_stack') = {}
         /\ \A t, u \in Threads : t # u => new_lists'[t] \cap new_lists'[u] = {}
         /\ IsInjective(global_stack')
<1>1. BlockTypes /\ HandsApart /\ new_lists \in [Threads -> SUBSET Blocks] /\ Numbers
  BY SizesTyped, Accounted DEF BlockInv, BlockTypes
<1>2. new_lists'[v] = T /\ \A u \in Threads \ {v} : new_lists'[u] = new_lists[u]
  BY <1>1
<1>3. FullHeads' = FullHeads \cup T
  <2>1. \A x : (\E u \in Threads : x \in new_lists'[u]) <=>
               (\E u \in Threads : x \in new_lists[u]) \/ x \in T
    BY <1>2
  <2>2. UNION {new_lists'[u] : u \in Threads} = (UNION {new_lists[u] : u \in Threads}) \cup T
    BY <2>1
  <2> QED
    BY <2>2 DEF FullHeads
<1>4. FullCount \in Int /\ FullCount' = FullCount + Cardinality(T)
  <2>1. ListsInHand' = ListsInHand - Cardinality(new_lists[v]) + Cardinality(T)
    BY <1>1, HandChange
  <2>2. Cardinality(new_lists[v]) = 0 /\ Cardinality(T) \in Nat
    BY Finite, FS_EmptySet
  <2>3. PICK i, s, c : /\ i = ListsInHand /\ s = Len(global_stack) /\ c = Cardinality(T)
                       /\ i \in Int /\ s \in Int /\ c \in Int
    BY <1>1, <2>2 DEF Numbers
  <2>4. FullCount = s + i /\ FullCount' = s + (i - 0 + c)
    BY <2>1, <2>2, <2>3 DEF FullCount
  <2>5. FullCount \in Int /\ FullCount' = FullCount + c
    <3>1. PICK x, y : x = FullCount /\ y = FullCount'
      OBVIOUS
    <3>2. i \in Int /\ s \in Int /\ c \in Int /\ x = s + i /\ y = s + (i - 0 + c)
      BY <2>3, <2>4, <3>1
    <3>3. x \in Int /\ y = x + c
      BY <3>2
    <3> QED
      BY <3>1, <3>3
  <2> QED
    BY <2>3, <2>5
<1>5. \A u \in Threads : new_lists'[u] \cap ToSet(global_stack') = {}
  <2>1. T \cap ToSet(global_stack) = {}
    BY DEF FullHeads
  <2> QED
    BY <1>1, <1>2, <2>1 DEF HandsApart
<1>6. \A t, u \in Threads : t # u => new_lists'[t] \cap new_lists'[u] = {}
  <2>1. \A u \in Threads : T \cap new_lists[u] = {}
    BY DEF FullHeads
  <2> SUFFICES ASSUME NEW t \in Threads, NEW u \in Threads, t # u
               PROVE  new_lists'[t] \cap new_lists'[u] = {}
    OBVIOUS
  <2>2. CASE t = v \/ u = v
    BY <1>2, <2>1, <2>2
  <2>3. CASE t # v /\ u # v
    BY <1>1, <1>2, <2>3 DEF HandsApart
  <2> QED
    BY <2>2, <2>3
<1>7. IsInjective(global_stack') /\ new_lists' \in [Threads -> SUBSET Blocks]
  BY <1>1 DEF HandsApart
<1> QED
  BY <1>2, <1>3, <1>4, <1>5, <1>6, <1>7

LEMMA MakeInv ==
  ASSUME BlockInv, NEW w \in Threads, NEW v \in Threads, MakeList(w, v) PROVE BlockInv'
<1> DEFINE b == Min(FreshStart(list_length))
           n == 1 * list_length
<1>1. /\ pc[w] = "make" /\ (v = w \/ pc[v] = "idle") /\ n = list_length
      /\ FreshStart(n) # {} /\ allocate_blocks(b, n)
      /\ next' = initialize_lists(b, 1)
      /\ new_lists' = [new_lists EXCEPT ![v] = {b}]
      /\ pc' = [[pc EXCEPT ![w] = "idle"] EXCEPT ![v] = "install"]
      /\ UNCHANGED <<local_lists, global_stack, used>>
  BY DEF MakeList, Idle
<1>2. /\ BlockTypes /\ HandsApart /\ new_lists[v] = {} /\ new_lists[w] = {}
      /\ pc \in [Threads -> {"idle", "get_list", "make", "install", "reserve"}]
  BY <1>1 DEF BlockInv, BlockTypes, HandsApart
<1>3. b \in Nat /\ b \in Blocks /\ b \notin InBuffers /\ b = Min(FreshStart(n))
  <2>1. /\ b \in Nat /\ b .. b + list_length - 1 \subseteq Blocks
        /\ (b .. b + list_length - 1) \cap InBuffers = {}
    BY <1>1, <1>2, FreshStarts
  <2>2. b \in b .. b + list_length - 1
    BY <2>1
  <2> QED
    BY <1>1, <2>1, <2>2
<1> HIDE DEF b
<1>4. PICK T : T = {b} /\ T = Heads(b, 1) /\ T \in SUBSET Blocks /\ Cardinality(T) = 1
  <2>1. Heads(b, 1) = {b}
    <3>1. 0 .. 1 - 1 = {0} /\ b + 0 * list_length = b
      BY <1>3
    <3> QED
      BY <3>1 DEF Heads
  <2>2. Cardinality({b}) = 1
    BY FS_Singleton
  <2> QED
    BY <1>3, <2>1, <2>2
<1>5. T \cap FullHeads = {}
  <2>1. \A g \in FullHeads : g \in InBuffers
    BY <1>2, FullIsList, Accounted DEF BlockInv
  <2> QED
    BY <1>3, <1>4, <2>1
<1>6. /\ FullHeads' = FullHeads \cup T
      /\ FullCount \in Int /\ FullCount' = FullCount + 1
      /\ new_lists' \in [Threads -> SUBSET Blocks]
      /\ new_lists'[v] = T /\ \A u \in Threads \ {v} : new_lists'[u] = new_lists[u]
      /\ \A u \in Threads : new_lists'[u] \cap ToSet(global_stack') = {}
      /\ \A t, u \in Threads : t # u => new_lists'[t] \cap new_lists'[u] = {}
      /\ IsInjective(global_stack')
  <2>1. new_lists' = [new_lists EXCEPT ![v] = T]
    BY <1>1, <1>4
  <2>2. FullHeads' = FullHeads \cup T /\ FullCount \in Int /\ FullCount' = FullCount + Cardinality(T)
    BY <1>1, <1>2, <1>4, <1>5, <2>1, HandOut
  <2>3. FullCount' = FullCount + 1
    BY <1>4, <2>2
  <2>4. /\ new_lists' \in [Threads -> SUBSET Blocks]
        /\ new_lists'[v] = T /\ \A u \in Threads \ {v} : new_lists'[u] = new_lists[u]
        /\ \A u \in Threads : new_lists'[u] \cap ToSet(global_stack') = {}
        /\ \A t, u \in Threads : t # u => new_lists'[t] \cap new_lists'[u] = {}
        /\ IsInjective(global_stack')
    BY <1>1, <1>2, <1>4, <1>5, <2>1, HandOut
  <2> QED
    BY <2>2, <2>3, <2>4
<1>7. /\ next' \in [Blocks -> Words] /\ allocated_buffers' \subseteq SUBSET Blocks
      /\ blocks_allocated' = Cardinality(InBuffers')
      /\ used' \subseteq InBuffers' /\ ListsSound' /\ Marked' /\ NoHoard'
      /\ (Numbers' /\ FullCount' = FullCount + 1 => AllCount')
  <2>1. /\ FullHeads' = FullHeads \cup Heads(b, 1) /\ 1 \in Nat
        /\ UNCHANGED <<local_lists, used>>
    BY <1>1, <1>4, <1>6
  <2> HIDE DEF n
  <2>2. n = 1 * list_length
    BY DEF n
  <2> QED
    BY <1>1, <1>3, <2>1, <2>2, NewBuffer
<1>8. /\ pc' \in [Threads -> {"idle", "get_list", "make", "install", "reserve"}]
      /\ pc'[v] = "install" /\ (w # v => pc'[w] = "idle")
      /\ \A u \in Threads \ {v, w} : pc'[u] = pc[u]
  BY <1>1, <1>2
<1>9. BlockTypes'
  BY <1>1, <1>2, <1>6, <1>7, <1>8 DEF BlockTypes
<1>10. HandsApart'
  <2>1. \A u \in Threads : /\ pc'[u] \in {"idle", "get_list", "make"} => new_lists'[u] = {}
                           /\ pc'[u] = "install" => \E g \in Blocks : new_lists'[u] = {g}
    <3> SUFFICES ASSUME NEW u \in Threads
                 PROVE  /\ pc'[u] \in {"idle", "get_list", "make"} => new_lists'[u] = {}
                        /\ pc'[u] = "install" => \E g \in Blocks : new_lists'[u] = {g}
      OBVIOUS
    <3>1. CASE u = v
      BY <1>3, <1>4, <1>6, <1>8, <3>1
    <3>2. CASE u = w /\ u # v
      BY <1>2, <1>6, <1>8, <3>2
    <3>3. CASE u # w /\ u # v
      BY <1>2, <1>6, <1>8, <3>3 DEF HandsApart
    <3> QED
      BY <3>1, <3>2, <3>3
  <2> QED
    BY <1>6, <2>1, HandsNext
<1> QED
  BY <1>6, <1>7, <1>9, <1>10, SizesNext, Together

LEMMA ReserveInv ==
  ASSUME BlockInv, NEW w \in Threads, NEW k \in 0 .. list_length + 1, reserve(w, k)
  PROVE  BlockInv'
<1> DEFINE m == ReservedLists(k)
           n == m * list_length
           b == Min(FreshStart(n))
<1>1. /\ pc[w] = "idle" /\ FreshStart(n) # {} /\ allocate_blocks(b, n)
      /\ next' = initialize_lists(b, m)
      /\ new_lists' = [new_lists EXCEPT ![w] = Heads(b, m)]
      /\ pc' = [pc EXCEPT ![w] = "reserve"]
      /\ UNCHANGED <<local_lists, global_stack, used>>
  BY DEF reserve, Idle
<1>2. /\ BlockTypes /\ HandsApart /\ new_lists[w] = {} /\ ListsSound
      /\ pc \in [Threads -> {"idle", "get_list", "make", "install", "reserve"}]
  BY <1>1, Accounted DEF BlockInv, BlockTypes, HandsApart
<1>3. m \in Nat
  <2>1. thread_count \in Nat
    BY SubsetSizes DEF thread_count
  <2>2. (k + list_length - 1) \div list_length \in Nat
    OBVIOUS
  <2> QED
    BY <2>1, <2>2 DEF ReservedLists
<1> HIDE DEF m
<1>4. n \in Nat
  BY <1>3
<1>5. /\ b \in Nat /\ b .. b + n - 1 \subseteq Blocks
      /\ (b .. b + n - 1) \cap InBuffers = {}
  <2> HIDE DEF n
  <2> QED
    BY <1>1, <1>2, <1>4, FreshStarts
<1>6. PICK T : T = Heads(b, m)
  OBVIOUS
<1>7. /\ Cardinality(T) = m /\ T \subseteq Blocks /\ T \cap FullHeads = {}
  <2> HIDE DEF b
  <2>1. T \subseteq b .. b + n - 1
    <3> SUFFICES ASSUME NEW i \in 0 .. m - 1 PROVE b + i * list_length \in b .. b + n - 1
      BY <1>6 DEF Heads
    <3>1. i * list_length \in Nat /\ i * list_length + list_length <= n
      BY <1>3, ListInBuffer
    <3>2. PICK p, e, L : p = i * list_length /\ e = n /\ L = list_length /\ L > 0 /\ L \in Nat
      OBVIOUS
    <3>3. b + p \in b .. b + e - 1
      BY <1>4, <1>5, <3>1, <3>2
    <3> QED
      BY <3>2, <3>3
  <2>2. \A g \in FullHeads : g \in InBuffers
    BY <1>2, FullIsList
  <2>3. Cardinality(T) = m
    BY <1>3, <1>5, <1>6, HeadCount
  <2> QED
    BY <1>5, <2>1, <2>2, <2>3
<1> HIDE DEF n
<1>8. n = m * list_length /\ b = Min(FreshStart(n))
  BY DEF n
<1> HIDE DEF b
<1>9. /\ FullHeads' = FullHeads \cup T
      /\ FullCount \in Int /\ FullCount' = FullCount + m
      /\ new_lists' \in [Threads -> SUBSET Blocks]
      /\ new_lists'[w] = T /\ \A u \in Threads \ {w} : new_lists'[u] = new_lists[u]
      /\ \A u \in Threads : new_lists'[u] \cap ToSet(global_stack') = {}
      /\ \A t, u \in Threads : t # u => new_lists'[t] \cap new_lists'[u] = {}
      /\ IsInjective(global_stack')
  <2>1. T \in SUBSET Blocks /\ new_lists' = [new_lists EXCEPT ![w] = T]
    BY <1>1, <1>6, <1>7
  <2> QED
    BY <1>1, <1>2, <1>7, <2>1, HandOut
<1>10. /\ next' \in [Blocks -> Words] /\ allocated_buffers' \subseteq SUBSET Blocks
       /\ blocks_allocated' = Cardinality(InBuffers')
       /\ used' \subseteq InBuffers' /\ ListsSound' /\ Marked' /\ NoHoard'
       /\ (Numbers' /\ FullCount' = FullCount + m => AllCount')
  <2>1. FullHeads' = FullHeads \cup Heads(b, m) /\ UNCHANGED <<local_lists, used>>
    BY <1>1, <1>6, <1>9
  <2> QED
    BY <1>1, <1>3, <1>8, <2>1, NewBuffer
<1>11. /\ pc' \in [Threads -> {"idle", "get_list", "make", "install", "reserve"}]
       /\ pc'[w] = "reserve" /\ \A u \in Threads \ {w} : pc'[u] = pc[u]
  BY <1>1, <1>2
<1>12. BlockTypes'
  BY <1>1, <1>2, <1>9, <1>10, <1>11 DEF BlockTypes
<1>13. HandsApart'
  <2>1. \A u \in Threads : /\ pc'[u] \in {"idle", "get_list", "make"} => new_lists'[u] = {}
                           /\ pc'[u] = "install" => \E g \in Blocks : new_lists'[u] = {g}
    BY <1>2, <1>9, <1>11 DEF HandsApart
  <2> QED
    BY <1>9, <2>1, HandsNext
<1> QED
  BY <1>9, <1>10, <1>12, <1>13, SizesNext, Together

\* What Install does to the lists in hand.
LEMMA HandIn ==
  ASSUME BlockInv, NEW w \in Threads, Install(w)
  PROVE  \E g \in Blocks :
           /\ new_lists[w] = {g} /\ g \notin ToSet(global_stack)
           /\ \A v \in Threads \ {w} : g \notin new_lists[v]
           /\ (CHOOSE x \in new_lists[w] : TRUE) = g
           /\ new_lists' \in [Threads -> SUBSET Blocks]
           /\ new_lists'[w] = {} /\ \A v \in Threads \ {w} : new_lists'[v] = new_lists[v]
           /\ pc' \in [Threads -> {"idle", "get_list", "make", "install", "reserve"}]
           /\ pc'[w] = "idle" /\ \A v \in Threads \ {w} : pc'[v] = pc[v]
           /\ ListsInHand \in Int /\ ListsInHand' = ListsInHand - 1
<1>1. /\ BlockTypes /\ HandsApart /\ new_lists \in [Threads -> SUBSET Blocks]
      /\ pc \in [Threads -> {"idle", "get_list", "make", "install", "reserve"}]
  BY DEF BlockInv, BlockTypes
<1>2. /\ new_lists' = [new_lists EXCEPT ![w] = {}] /\ pc' = [pc EXCEPT ![w] = "idle"]
      /\ pc[w] = "install"
  BY DEF Install
<1>3. PICK g \in Blocks : new_lists[w] = {g}
  BY <1>1, <1>2 DEF HandsApart
<1>4. g \notin ToSet(global_stack) /\ \A v \in Threads \ {w} : g \notin new_lists[v]
  BY <1>1, <1>3 DEF HandsApart
<1>5. (CHOOSE x \in new_lists[w] : TRUE) = g
  BY <1>3
<1>6. ListsInHand \in Int /\ ListsInHand' = ListsInHand - 1
  <2>1. PICK T : T = {} /\ T \in SUBSET Blocks /\ Cardinality(T) = 0
    BY FS_EmptySet
  <2>2. Cardinality(new_lists[w]) = 1
    BY <1>3, FS_Singleton
  <2>3. new_lists' = [new_lists EXCEPT ![w] = T]
    BY <1>2, <2>1
  <2>4. /\ ListsInHand \in Int
        /\ ListsInHand' = ListsInHand - Cardinality(new_lists[w]) + Cardinality(T)
    BY <1>1, <2>1, <2>3, HandChange
  <2> QED
    BY <2>1, <2>2, <2>4
<1> QED
  BY <1>1, <1>2, <1>3, <1>4, <1>5, <1>6

LEMMA InstallInv == ASSUME BlockInv, NEW w \in Threads, Install(w) PROVE BlockInv'
<1>1. PICK g \in Blocks :
        /\ new_lists[w] = {g} /\ g \notin ToSet(global_stack)
        /\ \A v \in Threads \ {w} : g \notin new_lists[v]
        /\ (CHOOSE x \in new_lists[w] : TRUE) = g
        /\ new_lists' \in [Threads -> SUBSET Blocks]
        /\ new_lists'[w] = {} /\ \A v \in Threads \ {w} : new_lists'[v] = new_lists[v]
        /\ pc' \in [Threads -> {"idle", "get_list", "make", "install", "reserve"}]
        /\ pc'[w] = "idle" /\ \A v \in Threads \ {w} : pc'[v] = pc[v]
        /\ ListsInHand \in Int /\ ListsInHand' = ListsInHand - 1
  BY HandIn
<1>2. /\ BlockTypes /\ HandsApart /\ ListsSound /\ AllCount /\ Numbers
      /\ UNCHANGED <<allocated_buffers, blocks_allocated>>
  BY Accounted, SizesTyped DEF BlockInv, Install
<1>3. g \in FullHeads
  BY <1>1 DEF FullHeads
<1>4. PICK me : me = IF local_lists[w].sz = 0 THEN Full(g) ELSE Local(w)
  OBVIOUS
<1>5. /\ me \in Lists /\ LenOf(me) > 0
      /\ local_lists[w].sz = 0 => HeadOf(me) = g /\ LenOf(me) = list_length
      /\ local_lists[w].sz # 0 => /\ HeadOf(me) = local_lists[w].head
                                  /\ LenOf(me) = local_lists[w].sz
  <2>1. local_lists[w].sz \in Nat
    BY <1>2 DEF Numbers
  <2> QED
    BY <1>2, <1>3, <1>4, <2>1, LocalIsList, FullIsList
<1>6. /\ local_lists' = [local_lists EXCEPT
                           ![w] = Relist(local_lists[w], LenOf(me) - 1, next[HeadOf(me)])]
      /\ used' = used \cup {HeadOf(me)} /\ next' = [next EXCEPT ![HeadOf(me)] = data]
      /\ global_stack' = IF local_lists[w].sz = 0 THEN global_stack ELSE <<g>> \o global_stack
  <2>1. PICK l : l = IF local_lists[w].sz = 0
                     THEN [local_lists[w] EXCEPT !.sz = list_length, !.head = g]
                     ELSE local_lists[w]
    OBVIOUS
  <2>2. /\ TakeFrom(w, l) /\ next' = [next EXCEPT ![l.head] = data]
        /\ global_stack' = IF local_lists[w].sz = 0 THEN global_stack ELSE <<g>> \o global_stack
    BY <1>1, <2>1 DEF Install
  <2>3. local_lists[w] \in LocalList
    BY <1>2, LocalTypes
  <2>4. /\ l.head = HeadOf(me) /\ l.sz = LenOf(me)
        /\ [l EXCEPT !.sz = l.sz - 1, !.head = next[l.head]] =
             Relist(local_lists[w], LenOf(me) - 1, next[HeadOf(me)])
    BY <1>5, <2>1, <2>3 DEF LocalList, Relist
  <2> QED
    BY <2>2, <2>4 DEF TakeFrom
<1>7. FullHeads' = IF local_lists[w].sz = 0 THEN FullHeads \ {g} ELSE FullHeads
  <2>1. UNION {new_lists'[v] : v \in Threads} = (UNION {new_lists[v] : v \in Threads}) \ {g}
    <3>1. \A x : (\E v \in Threads : x \in new_lists'[v]) <=>
                 (\E v \in Threads : x \in new_lists[v]) /\ x # g
      BY <1>1
    <3> QED
      BY <3>1
  <2>2. CASE local_lists[w].sz = 0
    BY <1>1, <1>6, <2>1, <2>2 DEF FullHeads
  <2>3. CASE local_lists[w].sz # 0
    <3>1. ToSet(global_stack') = ToSet(global_stack) \cup {g}
      BY <1>1, <1>2, <1>6, <2>3, StackFront DEF BlockTypes, HandsApart
    <3> QED
      BY <1>3, <2>1, <2>3, <3>1 DEF FullHeads
  <2> QED
    BY <2>2, <2>3
<1>8. /\ next' \in [Blocks -> Words] /\ local_lists' \in [Threads -> LocalList]
      /\ InBuffers' = InBuffers /\ used' \subseteq InBuffers'
      /\ ListsSound' /\ Marked' /\ NoHoard'
      /\ Cardinality(used) \in Nat /\ Cardinality(used') = Cardinality(used) + 1
      /\ LocallyFree \in Int
      /\ LocallyFree' = LocallyFree - local_lists[w].sz + LenOf(me) - 1
  <2>1. Lists' \subseteq Lists
    BY <1>7 DEF Lists
  <2>2. me = Local(w) \/ (me \notin Lists' /\ LenOf(me) = list_length)
    <3>1. CASE local_lists[w].sz # 0
      BY <1>4, <3>1
    <3>2. CASE local_lists[w].sz = 0
      <4>1. me = Full(g) /\ g \notin FullHeads'
        BY <1>4, <1>7, <3>2
      <4> QED
        BY <1>5, <3>2, <4>1 DEF Lists, Full
    <3> QED
      BY <3>1, <3>2
  <2>3. UNCHANGED allocated_buffers
    BY <1>2
  <2> QED
    BY <1>5, <1>6, <2>1, <2>2, <2>3, TakeList
<1>9. /\ global_stack' \in Seq(Blocks) /\ IsInjective(global_stack')
      /\ Len(global_stack') = Len(global_stack) + (IF local_lists[w].sz = 0 THEN 0 ELSE 1)
      /\ ToSet(global_stack') \subseteq ToSet(global_stack) \cup {g}
  <2>1. /\ global_stack \in Seq(Blocks) /\ IsInjective(global_stack)
        /\ Len(global_stack) \in Nat
    BY <1>2 DEF BlockTypes, HandsApart
  <2>2. CASE local_lists[w].sz = 0
    BY <1>6, <2>1, <2>2
  <2>3. CASE local_lists[w].sz # 0
    BY <1>1, <1>6, <2>1, <2>3, StackFront
  <2> QED
    BY <2>2, <2>3
<1>10. BlockTypes'
  BY <1>1, <1>2, <1>8, <1>9 DEF BlockTypes, LocalList
<1>11. HandsApart'
  <2>1. \A v \in Threads : new_lists'[v] \subseteq new_lists[v] \ {g}
    BY <1>1
  <2>2. \A v \in Threads : /\ pc'[v] \in {"idle", "get_list", "make"} => new_lists'[v] = {}
                           /\ pc'[v] = "install" => \E b \in Blocks : new_lists'[v] = {b}
    <3> SUFFICES ASSUME NEW v \in Threads
                 PROVE  /\ pc'[v] \in {"idle", "get_list", "make"} => new_lists'[v] = {}
                        /\ pc'[v] = "install" => \E b \in Blocks : new_lists'[v] = {b}
      OBVIOUS
    <3>1. CASE v = w
      BY <1>1, <3>1
    <3>2. CASE v # w
      BY <1>1, <1>2, <3>2 DEF HandsApart
    <3> QED
      BY <3>1, <3>2
  <2>3. \A v \in Threads : new_lists'[v] \cap ToSet(global_stack') = {}
    BY <1>2, <1>9, <2>1 DEF HandsApart
  <2>4. \A u, v \in Threads : u # v => new_lists'[u] \cap new_lists'[v] = {}
    BY <1>2, <2>1 DEF HandsApart
  <2>5. IsInjective(global_stack')
    BY <1>9
  <2> QED
    BY <2>2, <2>3, <2>4, <2>5, HandsNext
<1>12. AllCount'
  <2>1. Sizes /\ Sizes'
    BY <1>2, <1>8, <1>10, SizesNext DEF Numbers
  <2>2. PICK X, U, F, i, s, L, k :
          /\ X = Cardinality(InBuffers) /\ U = Cardinality(used) /\ F = LocallyFree
          /\ i = ListsInHand /\ s = Len(global_stack) /\ L = list_length /\ k = local_lists[w].sz
    OBVIOUS
  <2>3. /\ X \in Int /\ U \in Int /\ F \in Int /\ i \in Int /\ s \in Int /\ L \in Int /\ k \in Int
    BY <1>1, <1>2, <2>2 DEF Numbers, Sizes
  <2>4. FullCount = s + i /\ Elsewhere = X - U - F
    BY <2>2 DEF FullCount, Elsewhere
  <2>5. /\ Elsewhere' = X - (U + 1) - (F - k + LenOf(me) - 1)
        /\ FullCount' = (s + (IF k = 0 THEN 0 ELSE 1)) + (i - 1)
    BY <1>1, <1>8, <1>9, <2>2 DEF FullCount, Elsewhere
  <2>6. CASE k = 0
    <3>1. /\ Elsewhere' = X - (U + 1) - (F - 0 + L - 1) /\ FullCount' = s + (i - 1)
      BY <1>5, <2>2, <2>3, <2>5, <2>6
    <3>2. PICK n : n = 0 - 1 /\ n \in Int /\ n * L = 0 - L
      BY <2>3
    <3>3. Moved(n)
      <4>1. s + (i - 1) = (s + i) + n
        BY <2>3, <3>2
      <4>2. X - (U + 1) - (F - 0 + L - 1) = (X - U - F) + n * L
        BY <2>3, <3>2
      <4> QED
        BY <2>1, <2>2, <2>4, <3>1, <3>2, <4>1, <4>2, Zenon DEF Moved
    <3> QED
      BY <1>2, <3>3, Recount
  <2>7. CASE k # 0
    <3>1. /\ Elsewhere' = X - (U + 1) - (F - k + k - 1) /\ FullCount' = s + 1 + (i - 1)
      BY <1>5, <2>2, <2>3, <2>5, <2>7
    <3>2. Moved(0)
      <4>1. s + 1 + (i - 1) = (s + i) + 0
        BY <2>3
      <4>2. X - (U + 1) - (F - k + k - 1) = (X - U - F) + 0 * L
        BY <2>3
      <4>3. 0 \in Int
        OBVIOUS
      <4> QED
        BY <2>1, <2>2, <2>4, <3>1, <4>1, <4>2, <4>3, Zenon DEF Moved
    <3> QED
      BY <1>2, <3>2, Recount
  <2> QED
    BY <2>6, <2>7
<1> QED
  BY <1>8, <1>10, <1>11, <1>12, Together

\* free on a list that is not cut.
LEMMA FreeShort ==
  ASSUME BlockInv, NEW w \in Threads, NEW ptr \in used, free(w, ptr),
         NEW k, k = local_lists[w].sz, k = list_length + 1 \/ k # 2 * list_length
  PROVE  BlockInv'
<1>1. /\ BlockTypes /\ HandsApart /\ Marked /\ ListsSound /\ NoHoard /\ AllCount
      /\ used \subseteq InBuffers /\ Numbers
  BY Accounted, SizesTyped DEF BlockInv
<1>2. PICK h, l0, c, kept :
        /\ h = local_lists[w].head /\ l0 = local_lists[w] /\ c = FreeList(Local(w))
        /\ kept = IF k = list_length + 1 THEN MarkMid(l0) ELSE l0
  OBVIOUS
<1>3. /\ k \in Nat /\ h \in Words /\ next \in [Blocks -> Words]
      /\ l0 \in LocalList /\ l0.mid \in Words /\ l0.sz = k /\ l0.head = h
  BY <1>1, <1>2, LocalTypes
<1>4. /\ Leads(next, c, h, k) /\ IsInjective(c)
      /\ ToSet(c) \subseteq Blocks /\ ToSet(c) \subseteq InBuffers \ used
  BY <1>1, <1>2, LocalIsList, ListFacts
<1>5. ptr \in Blocks /\ ptr \in InBuffers
  BY <1>1, BufferBlocks
<1>6. /\ next' = [next EXCEPT ![ptr] = h]
      /\ local_lists' = [local_lists EXCEPT ![w] = Relist(kept, k + 1, ptr)]
      /\ used' = used \ {ptr}
      /\ UNCHANGED <<global_stack, allocated_buffers, blocks_allocated, pc, new_lists>>
  <2>1. kept.head = h /\ kept.sz = k
    BY <1>2, <1>3 DEF MarkMid, LocalList
  <2>2. ~(l0.sz # list_length + 1 /\ l0.sz = 2 * list_length)
    BY <1>3
  <2> QED
    BY <1>2, <1>3, <2>1, <2>2 DEF free, Relist
<1>7. next' \in [Blocks -> Words] /\ next'[ptr] = h /\ \A x \in Blocks \ {ptr} : next'[x] = next[x]
  BY <1>3, <1>5, <1>6
<1>8. PICK r : /\ r = Relist(kept, k + 1, ptr) /\ r \in LocalList /\ r.sz = k + 1 /\ r.head = ptr
               /\ r.mid = IF k = list_length + 1 THEN h ELSE l0.mid
  <2>1. kept \in LocalList /\ kept.mid = IF k = list_length + 1 THEN h ELSE l0.mid
    BY <1>2, <1>3 DEF MarkMid, LocalList
  <2>2. PICK j : j = k + 1 /\ j \in Nat
    BY <1>3
  <2>3. ptr \in Words
    BY <1>5 DEF Words
  <2>4. PICK r : r = Relist(kept, j, ptr)
    OBVIOUS
  <2>5. r \in LocalList /\ r.sz = j /\ r.head = ptr /\ r.mid = kept.mid
    <3>1. kept \in LocalList /\ j \in Nat
      BY <2>1, <2>2
    <3>2. /\ Relist(kept, j, ptr) \in LocalList /\ Relist(kept, j, ptr).sz = j
          /\ Relist(kept, j, ptr).head = ptr /\ Relist(kept, j, ptr).mid = kept.mid
      BY <2>3, <3>1, NewLocal
    <3> QED
      BY <2>4, <3>2, Zenon
  <2> QED
    BY <2>1, <2>2, <2>4, <2>5
<1>9. local_lists'[w] = r /\ \A v \in Threads \ {w} : local_lists'[v] = local_lists[v]
  BY <1>1, <1>6, <1>8, LocalTypes
<1>10. PICK d : d = FreeList(Local(w))' /\ Leads(next', d, ptr, k + 1)
  <2>1. FreeList(Local(w))' = Chain(next', ptr, k + 1)
    BY <1>8, <1>9 DEF Local, FreeList, HeadOf, LenOf
  <2>2. ptr \in Words /\ k + 1 \in Nat
    BY <1>3, <1>5 DEF Words
  <2> QED
    BY <1>7, <2>1, <2>2, ChainLeads
<1>11. d = Prepended(ptr, c, k) /\ IsInjective(d) /\ ToSet(d) = ToSet(c) \cup {ptr}
  <2>1. PICK j : j = k + 1
    OBVIOUS
  <2>2. Fronted(next, c, h, k, ptr, next', d, j)
    BY <1>3, <1>4, <1>5, <1>7, <1>10, <2>1 DEF Fronted
  <2> QED
    BY <2>2, ChainFront
<1>12. Lists' = Lists /\ InBuffers' = InBuffers
  BY <1>6 DEF Lists, FullHeads, InBuffers
<1>13. \A l \in Lists : l # Local(w) => FreeList(l)' = FreeList(l)
  <2> SUFFICES ASSUME NEW l \in Lists, l # Local(w) PROVE FreeList(l)' = FreeList(l)
    OBVIOUS
  <2>1. HeadOf(l)' = HeadOf(l) /\ LenOf(l)' = LenOf(l)
    BY <1>1, <1>6, <1>8, OtherHeads DEF Local
  <2>2. ToSet(FreeList(l)) \subseteq InBuffers \ used /\ ToSet(FreeList(l)) \subseteq Blocks
    BY <1>1, ListFacts
  <2>3. \A x \in ToSet(FreeList(l)) : next'[x] = next[x]
    BY <1>7, <2>2
  <2> QED
    BY <1>1, <1>7, <2>1, <2>3, ListKept
<1>14. ListsSound'
  <2>1. ASSUME NEW l \in Lists
        PROVE  /\ IsInjective(FreeList(l)')
               /\ ToSet(FreeList(l)') =
                    ToSet(FreeList(l)) \cup (IF l = Local(w) THEN {ptr} ELSE {})
    <3>1. CASE l = Local(w)
      BY <1>2, <1>10, <1>11, <3>1
    <3>2. CASE l # Local(w)
      BY <1>1, <1>13, <3>2 DEF ListsSound
    <3> QED
      BY <3>1, <3>2
  <2>2. \A l \in Lists : ToSet(FreeList(l)) \subseteq InBuffers \ used
    BY <1>1 DEF ListsSound
  <2>3. \A l, q \in Lists : l # q => ToSet(FreeList(l)) \cap ToSet(FreeList(q)) = {}
    BY <1>1 DEF ListsSound
  <2>4. \A l \in Lists' : /\ IsInjective(FreeList(l)')
                          /\ ToSet(FreeList(l)') \subseteq InBuffers' \ used'
    BY <1>5, <1>6, <1>12, <2>1, <2>2
  <2>5. \A l, q \in Lists' : l # q => ToSet(FreeList(l)') \cap ToSet(FreeList(q)') = {}
    <3> SUFFICES ASSUME NEW l \in Lists, NEW q \in Lists, l # q
                 PROVE  ToSet(FreeList(l)') \cap ToSet(FreeList(q)') = {}
      BY <1>12
    <3>1. ptr \notin ToSet(FreeList(l)) /\ ptr \notin ToSet(FreeList(q))
      BY <2>2
    <3> QED
      BY <2>1, <2>3, <3>1
  <2> QED
    BY <2>4, <2>5 DEF ListsSound
<1>15. Marked'
  <2>1. \A v \in Threads \ {w} : /\ local_lists'[v] = local_lists[v]
                                 /\ FreeList(Local(v))' = FreeList(Local(v))
    <3> SUFFICES ASSUME NEW v \in Threads \ {w} PROVE FreeList(Local(v))' = FreeList(Local(v))
      BY <1>9
    <3>1. Local(v) \in Lists /\ Local(v) # Local(w)
      BY LocalIsList DEF Local
    <3> QED
      BY <1>13, <3>1
  <2>2. ASSUME list_length > 1, local_lists'[w].sz >= list_length + 2
        PROVE  local_lists'[w].mid = FreeList(Local(w))'[local_lists'[w].sz - list_length]
    <3>1. k + 1 >= list_length + 2 /\ k - list_length \in 1 .. k
      BY <1>3, <1>8, <1>9, <2>2
    <3>2. /\ (k + 1) - list_length \in 1 .. k + 1 /\ (k + 1) - list_length # 1
          /\ ((k + 1) - list_length) - 1 = k - list_length
      BY <1>3, <3>1
    <3>3. d[(k + 1) - list_length] = c[k - list_length]
      BY <1>11, <3>2 DEF Prepended
    <3>4. CASE k = list_length + 1
      <4>1. k - list_length = 1 /\ k > 0
        BY <1>3, <3>4
      <4>2. c[1] = h
        BY <1>4, <4>1 DEF Leads
      <4>3. r.mid = c[k - list_length]
        BY <1>8, <3>4, <4>1, <4>2
      <4> QED
        BY <1>8, <1>9, <1>10, <3>3, <4>3
    <3>5. CASE k # list_length + 1
      <4>1. k >= list_length + 2
        BY <1>3, <3>1, <3>5
      <4>2. c = Chain(next, l0.head, l0.sz)
        BY <1>2, LocalIsList
      <4>3. l0.mid = c[k - list_length]
        BY <1>1, <1>2, <1>3, <2>2, <4>1, <4>2 DEF Marked
      <4> QED
        BY <1>8, <1>9, <1>10, <3>3, <3>5, <4>3
    <3> QED
      BY <3>4, <3>5
  <2> QED
    BY <1>1, <2>1, <2>2, MarkedKept
<1>16. NoHoard'
  <2> SUFFICES ASSUME list_length > 1, NEW v \in Threads
               PROVE  local_lists'[v].sz <= 2 * list_length
    BY DEF NoHoard
  <2>1. local_lists[v].sz <= 2 * list_length /\ k <= 2 * list_length
    BY <1>1 DEF NoHoard
  <2>2. CASE v = w
    <3>1. k + 1 <= 2 * list_length
      BY <1>3, <2>1
    <3> QED
      BY <1>8, <1>9, <2>2, <3>1
  <2>3. CASE v # w
    BY <1>9, <2>1, <2>3
  <2> QED
    BY <2>2, <2>3
<1>17. used' \subseteq InBuffers'
  BY <1>1, <1>6, <1>12
<1>18. /\ local_lists' \in [Threads -> LocalList]
       /\ LocallyFree \in Int /\ LocallyFree' = LocallyFree + 1
  <2>1. /\ local_lists' \in [Threads -> LocalList] /\ LocallyFree \in Int
        /\ LocallyFree' = LocallyFree - local_lists[w].sz + r.sz
    BY <1>1, <1>6, <1>8, LocalChange
  <2> QED
    BY <1>3, <1>8, <2>1
<1>19. BlockTypes'
  BY <1>1, <1>6, <1>7, <1>12, <1>18 DEF BlockTypes, LocalList
<1>20. HandsApart'
  BY <1>1, <1>6 DEF HandsApart
<1>21. AllCount'
  <2>1. Sizes /\ Sizes' /\ ListsInHand' = ListsInHand
    BY <1>1, <1>6, <1>17, <1>19, SizesNext DEF Numbers, ListsInHand
  <2>2. FullCount' = FullCount
    BY <1>6, <2>1 DEF FullCount
  <2>3. Cardinality(used) \in Nat /\ Cardinality(used') = Cardinality(used) - 1
    BY <1>1, <1>5, <1>6, UsedChange
  <2>4. Elsewhere' = Elsewhere
    BY <1>12, <1>18, <2>1, <2>3 DEF Elsewhere, Sizes
  <2>5. Moved(0)
    BY <2>1, <2>2, <2>4 DEF Moved, Sizes, Elsewhere
  <2> QED
    BY <1>1, <2>5, Recount
<1> QED
  BY <1>14, <1>15, <1>16, <1>17, <1>19, <1>20, <1>21, Together

\* free on a list of two full ones: what is behind the mark goes to the stack.
LEMMA FreeFull ==
  ASSUME BlockInv, NEW w \in Threads, NEW ptr \in used, free(w, ptr),
         local_lists[w].sz # list_length + 1, local_lists[w].sz = 2 * list_length
  PROVE  BlockInv'
<1>1. /\ BlockTypes /\ HandsApart /\ Marked /\ ListsSound /\ NoHoard /\ AllCount
      /\ used \subseteq InBuffers /\ Numbers
  BY Accounted, SizesTyped DEF BlockInv
<1>2. PICK h, l0, c, L, k, me :
        /\ h = local_lists[w].head /\ l0 = local_lists[w] /\ c = FreeList(me)
        /\ L = list_length /\ k = local_lists[w].sz /\ me = Local(w)
  OBVIOUS
<1>3. /\ L \in Nat /\ L > 1 /\ k \in Nat /\ k = 2 * L /\ L \in 1 .. k - 1 /\ k - L = L
      /\ h \in Words /\ next \in [Blocks -> Words]
      /\ l0 \in LocalList /\ l0.sz = k /\ l0.head = h
  <2>1. /\ k \in Nat /\ h \in Words /\ next \in [Blocks -> Words]
        /\ l0 \in LocalList /\ l0.sz = k /\ l0.head = h
    BY <1>1, <1>2, LocalTypes
  <2>2. L \in Nat /\ L > 0 /\ k = 2 * L /\ k # L + 1
    BY <1>2
  <2>3. L > 1 /\ L \in 1 .. k - 1 /\ k - L = L
    BY <2>1, <2>2
  <2> QED
    BY <2>1, <2>2, <2>3
<1>4. /\ Leads(next, c, h, k) /\ IsInjective(c) /\ me \in Lists
      /\ ToSet(c) \subseteq Blocks /\ ToSet(c) \subseteq InBuffers \ used
  BY <1>1, <1>2, LocalIsList, ListFacts
<1>5. ptr \in Blocks /\ ptr \in InBuffers /\ ptr \notin ToSet(c)
  BY <1>1, <1>4, BufferBlocks
<1>6. l0.mid = c[L]
  <2>1. c = Chain(next, l0.head, l0.sz) /\ l0.sz >= list_length + 2 /\ list_length > 1
    BY <1>2, <1>3, LocalIsList
  <2> QED
    BY <1>1, <1>2, <1>3, <2>1 DEF Marked
<1>7. c[L] \in ToSet(c) /\ c[L] \in Blocks
  <2>1. c \in [1 .. k -> Words] /\ L \in 1 .. k
    BY <1>3, <1>4 DEF Leads
  <2> QED
    BY <1>4, <2>1 DEF ToSet
<1>8. PICK g, cut : g = next[c[L]] /\ cut = [next EXCEPT ![c[L]] = nullptr]
  OBVIOUS
<1>9. /\ cut \in [Blocks -> Words] /\ g \in Words
      /\ \A x \in Blocks \ {c[L]} : cut[x] = next[x]
  BY <1>3, <1>7, <1>8 DEF Words
<1>10. PICK d0, e0 : /\ d0 = Chain(cut, h, L) /\ Leads(cut, d0, h, L)
                     /\ e0 = Chain(cut, g, L) /\ Leads(cut, e0, g, L)
  BY <1>3, <1>9, ChainLeads
<1>11. /\ g = c[L + 1] /\ g \in ToSet(c) /\ g \in Blocks
       /\ IsInjective(d0) /\ IsInjective(e0)
       /\ ToSet(d0) \subseteq ToSet(c) /\ ToSet(e0) \subseteq ToSet(c)
       /\ ToSet(d0) \cap ToSet(e0) = {}
  <2>1. Severed(next, c, h, k, L, cut, d0, e0, L)
    BY <1>3, <1>4, <1>8, <1>9, <1>10 DEF Severed
  <2> QED
    BY <1>4, <1>8, <2>1, ChainCut
<1>12. /\ next' = [cut EXCEPT ![ptr] = h]
       /\ local_lists' = [local_lists EXCEPT ![w] = Relist(l0, L + 1, ptr)]
       /\ used' = used \ {ptr} /\ global_stack' = <<g>> \o global_stack
       /\ UNCHANGED <<allocated_buffers, blocks_allocated, pc, new_lists>>
  <2>0. PICK kept : kept = [l0 EXCEPT !.sz = L]
    OBVIOUS
  <2>1. kept = [l0 EXCEPT !.sz = L] /\ kept.head = h /\ kept.sz = L
    <3>1. l0 \in LocalList /\ l0.head = h
      BY <1>3
    <3> QED
      BY <2>0, <3>1 DEF LocalList
  <2>2. [kept EXCEPT !.head = ptr, !.sz = kept.sz + 1] = Relist(l0, L + 1, ptr)
    BY <1>3, <2>1 DEF Relist, LocalList
  <2>3. /\ next' = [[next EXCEPT ![l0.mid] = nullptr] EXCEPT ![ptr] = kept.head]
        /\ local_lists' = [local_lists EXCEPT
                             ![w] = [kept EXCEPT !.head = ptr, !.sz = kept.sz + 1]]
        /\ used' = used \ {ptr} /\ global_stack' = <<next[l0.mid]>> \o global_stack
        /\ UNCHANGED <<allocated_buffers, blocks_allocated, pc, new_lists>>
    BY <1>2, <1>3, <2>1 DEF free
  <2> QED
    BY <1>6, <1>8, <2>1, <2>2, <2>3
<1>13. /\ next' \in [Blocks -> Words] /\ next'[ptr] = h
       /\ \A x \in Blocks \ {ptr} : next'[x] = cut[x]
       /\ \A x \in Blocks \ (ToSet(c) \cup {ptr}) : next'[x] = next[x]
  BY <1>3, <1>5, <1>7, <1>9, <1>12
<1>14. PICK r : /\ r = Relist(l0, L + 1, ptr) /\ r \in LocalList /\ r.sz = L + 1 /\ r.head = ptr
  <2>1. PICK j : j = L + 1 /\ j \in Nat
    BY <1>3
  <2>2. ptr \in Words
    BY <1>5 DEF Words
  <2>3. PICK r : r = Relist(l0, j, ptr)
    OBVIOUS
  <2>4. r \in LocalList /\ r.sz = j /\ r.head = ptr
    BY <1>3, <2>1, <2>2, <2>3, NewLocal
  <2> QED
    BY <2>1, <2>3, <2>4
<1>15. local_lists'[w] = r /\ \A v \in Threads \ {w} : local_lists'[v] = local_lists[v]
  BY <1>1, <1>12, <1>14, LocalTypes
<1>16. PICK d : d = FreeList(me)' /\ Leads(next', d, ptr, L + 1)
  <2>1. FreeList(me)' = Chain(next', ptr, L + 1)
    BY <1>2, <1>14, <1>15 DEF Local, FreeList, HeadOf, LenOf
  <2>2. ptr \in Words /\ L + 1 \in Nat
    <3>1. ptr \in Words
      BY <1>5 DEF Words
    <3>2. L \in Nat
      BY <1>3
    <3> QED
      BY <3>1, <3>2
  <2> QED
    BY <1>13, <2>1, <2>2, ChainLeads
<1>17. IsInjective(d) /\ ToSet(d) = ToSet(d0) \cup {ptr}
  <2>1. PICK j : j = L + 1
    OBVIOUS
  <2>2. ToSet(d0) \subseteq Blocks /\ ptr \notin ToSet(d0)
    BY <1>4, <1>5, <1>11
  <2>3. Fronted(cut, d0, h, L, ptr, next', d, j)
    BY <1>3, <1>5, <1>9, <1>10, <1>11, <1>13, <1>16, <2>1, <2>2 DEF Fronted
  <2> QED
    BY <2>3, ChainFront
<1>18. FreeList(Full(g))' = e0
  <2>1. FreeList(Full(g))' = Chain(next', g, L)
    BY <1>2 DEF Full, FreeList, HeadOf, LenOf
  <2>2. \A x \in ToSet(Chain(cut, g, L)) : x \in Blocks => next'[x] = cut[x]
    BY <1>5, <1>10, <1>11, <1>13
  <2>3. Chain(next', g, L) = Chain(cut, g, L)
    BY <1>3, <1>9, <1>13, <2>2, ChainSame
  <2> QED
    BY <1>10, <2>1, <2>3
<1>19. \A l \in Lists : l # me => FreeList(l)' = FreeList(l)
  <2> SUFFICES ASSUME NEW l \in Lists, l # me PROVE FreeList(l)' = FreeList(l)
    OBVIOUS
  <2>1. HeadOf(l)' = HeadOf(l) /\ LenOf(l)' = LenOf(l)
    BY <1>1, <1>2, <1>12, <1>14, OtherHeads DEF Local
  <2>2. ToSet(FreeList(l)) \subseteq InBuffers \ used /\ ToSet(FreeList(l)) \subseteq Blocks
    BY <1>1, ListFacts
  <2>3. ToSet(FreeList(l)) \cap ToSet(c) = {}
    BY <1>1, <1>2, <1>4 DEF ListsSound
  <2>4. \A x \in ToSet(FreeList(l)) : next'[x] = next[x]
    BY <1>13, <2>2, <2>3
  <2> QED
    BY <1>1, <1>13, <2>1, <2>4, ListKept
<1>20. g \notin FullHeads
  <2> SUFFICES ASSUME g \in FullHeads PROVE FALSE
    OBVIOUS
  <2>1. Full(g) \in Lists /\ g \in ToSet(FreeList(Full(g))) /\ Full(g) # me
    BY <1>1, <1>2, FullIsList DEF Full, Local
  <2> QED
    BY <1>1, <1>2, <1>4, <1>11, <2>1 DEF ListsSound
<1>21. /\ global_stack' \in Seq(Blocks) /\ Len(global_stack') = Len(global_stack) + 1
       /\ IsInjective(global_stack') /\ ToSet(global_stack') = ToSet(global_stack) \cup {g}
  <2>1. g \notin ToSet(global_stack) /\ global_stack \in Seq(Blocks) /\ IsInjective(global_stack)
    BY <1>1, <1>20 DEF FullHeads, BlockTypes, HandsApart
  <2> QED
    BY <1>11, <1>12, <2>1, StackFront
<1>22. /\ FullHeads' = FullHeads \cup {g} /\ InBuffers' = InBuffers
       /\ \A l \in Lists' : l \in Lists \/ l = Full(g)
  <2>1. FullHeads' = FullHeads \cup {g}
    BY <1>12, <1>21 DEF FullHeads
  <2> QED
    BY <1>12, <2>1 DEF Lists, Full, InBuffers
<1>23. used' \subseteq InBuffers'
  BY <1>1, <1>12, <1>22
<1>24. ListsSound'
  \* What was in the cut list is in one of two now.
  <2>1. ASSUME NEW l \in Lists'
        PROVE  /\ IsInjective(FreeList(l)')
               /\ l = me => ToSet(FreeList(l)') = ToSet(d0) \cup {ptr}
               /\ l = Full(g) => ToSet(FreeList(l)') = ToSet(e0)
               /\ l # me /\ l # Full(g) => /\ l \in Lists
                                           /\ ToSet(FreeList(l)') = ToSet(FreeList(l))
    <3>1. CASE l = me
      <4>1. me # Full(g)
        BY <1>2 DEF Local, Full
      <4> QED
        BY <1>16, <1>17, <3>1, <4>1
    <3>2. CASE l = Full(g)
      <4>1. me # Full(g)
        BY <1>2 DEF Local, Full
      <4> QED
        BY <1>11, <1>18, <3>2, <4>1
    <3>3. CASE l # me /\ l # Full(g)
      BY <1>1, <1>19, <1>22, <3>3 DEF ListsSound
    <3> QED
      BY <3>1, <3>2, <3>3
  <2>2. \A l \in Lists : /\ ToSet(FreeList(l)) \subseteq InBuffers \ used
                         /\ l # me => ToSet(FreeList(l)) \cap ToSet(c) = {}
    BY <1>1, <1>2, <1>4 DEF ListsSound
  <2>3. \A l \in Lists' : /\ IsInjective(FreeList(l)')
                          /\ ToSet(FreeList(l)') \subseteq InBuffers' \ used'
    <3> SUFFICES ASSUME NEW l \in Lists'
                 PROVE  ToSet(FreeList(l)') \subseteq InBuffers' \ used'
      BY <2>1
    <3>1. CASE l = me
      BY <1>4, <1>5, <1>11, <1>12, <1>22, <2>1, <3>1
    <3>2. CASE l = Full(g)
      BY <1>4, <1>11, <1>12, <1>22, <2>1, <3>2
    <3>3. CASE l # me /\ l # Full(g)
      BY <1>12, <1>22, <2>1, <2>2, <3>3
    <3> QED
      BY <3>1, <3>2, <3>3
  <2>4. ASSUME NEW l \in Lists', NEW q \in Lists', l # q
        PROVE  ToSet(FreeList(l)') \cap ToSet(FreeList(q)') = {}
    <3>1. ASSUME NEW x \in Lists', x # me, x # Full(g)
          PROVE  ToSet(FreeList(x)') \cap (ToSet(c) \cup {ptr}) = {}
      BY <2>1, <2>2, <3>1
    <3>2. ASSUME NEW x \in Lists', x = me \/ x = Full(g)
          PROVE  ToSet(FreeList(x)') \subseteq ToSet(c) \cup {ptr}
      BY <1>11, <2>1, <3>2
    <3>3. CASE l \notin {me, Full(g)} /\ q \notin {me, Full(g)}
      <4>1. /\ l \in Lists /\ ToSet(FreeList(l)') = ToSet(FreeList(l))
            /\ q \in Lists /\ ToSet(FreeList(q)') = ToSet(FreeList(q))
        BY <2>1, <3>3
      <4> QED
        BY <1>1, <2>4, <4>1 DEF ListsSound
    <3>4. CASE l \in {me, Full(g)} /\ q \notin {me, Full(g)}
      BY <3>1, <3>2, <3>4
    <3>5. CASE l \notin {me, Full(g)} /\ q \in {me, Full(g)}
      BY <3>1, <3>2, <3>5
    <3>6. CASE l \in {me, Full(g)} /\ q \in {me, Full(g)}
      <4>1. (ToSet(d0) \cup {ptr}) \cap ToSet(e0) = {}
        BY <1>5, <1>11
      <4> QED
        BY <2>1, <2>4, <3>6, <4>1
    <3> QED
      BY <3>3, <3>4, <3>5, <3>6
  <2> QED
    BY <2>3, <2>4 DEF ListsSound
<1>25. Marked'
  <2>1. \A v \in Threads \ {w} : /\ local_lists'[v] = local_lists[v]
                                 /\ FreeList(Local(v))' = FreeList(Local(v))
    <3> SUFFICES ASSUME NEW v \in Threads \ {w} PROVE FreeList(Local(v))' = FreeList(Local(v))
      BY <1>15
    <3>1. Local(v) \in Lists /\ Local(v) # me
      BY <1>2, LocalIsList DEF Local
    <3> QED
      BY <1>19, <3>1
  <2>2. ~(local_lists'[w].sz >= list_length + 2)
    BY <1>2, <1>3, <1>14, <1>15
  <2> QED
    BY <1>1, <2>1, <2>2, MarkedKept
<1>26. NoHoard'
  <2> SUFFICES ASSUME list_length > 1, NEW v \in Threads
               PROVE  local_lists'[v].sz <= 2 * list_length
    BY DEF NoHoard
  <2>1. CASE v = w
    BY <1>2, <1>3, <1>14, <1>15, <2>1
  <2>2. CASE v # w
    BY <1>1, <1>15, <2>2 DEF NoHoard
  <2> QED
    BY <2>1, <2>2
<1>27. /\ local_lists' \in [Threads -> LocalList]
       /\ LocallyFree \in Int /\ LocallyFree' = LocallyFree - k + (L + 1)
  BY <1>1, <1>2, <1>12, <1>14, LocalChange
<1>28. BlockTypes'
  BY <1>1, <1>12, <1>13, <1>21, <1>22, <1>27 DEF BlockTypes, LocalList
<1>29. HandsApart'
  <2>1. \A v \in Threads : g \notin new_lists[v]
    BY <1>20 DEF FullHeads
  <2>2. \A v \in Threads : new_lists'[v] \cap ToSet(global_stack') = {}
    BY <1>1, <1>12, <1>21, <2>1 DEF HandsApart
  <2>3. \A v \in Threads : /\ pc'[v] \in {"idle", "get_list", "make"} => new_lists'[v] = {}
                           /\ pc'[v] = "install" => \E b \in Blocks : new_lists'[v] = {b}
    BY <1>1, <1>12 DEF HandsApart
  <2>4. \A u, v \in Threads : u # v => new_lists'[u] \cap new_lists'[v] = {}
    BY <1>1, <1>12 DEF HandsApart
  <2>5. IsInjective(global_stack')
    BY <1>21
  <2> QED
    BY <2>2, <2>3, <2>4, <2>5, HandsNext
<1>30. AllCount'
  <2>1. Sizes /\ Sizes'
    BY <1>1, <1>23, <1>28, SizesNext DEF Numbers
  <2>2. Cardinality(used) \in Nat /\ Cardinality(used') = Cardinality(used) - 1
    BY <1>1, <1>5, <1>12, UsedChange
  <2>3. ListsInHand' = ListsInHand
    BY <1>12 DEF ListsInHand
  <2>4. PICK X, U, F, i, s :
          /\ X = Cardinality(InBuffers) /\ U = Cardinality(used) /\ F = LocallyFree
          /\ i = ListsInHand /\ s = Len(global_stack)
    OBVIOUS
  <2>5. X \in Int /\ U \in Int /\ F \in Int /\ i \in Int /\ s \in Int
    BY <1>1, <2>4 DEF Numbers, Sizes
  <2>6. FullCount = s + i /\ Elsewhere = X - U - F
    BY <2>4 DEF FullCount, Elsewhere
  <2>7. FullCount' = (s + 1) + i /\ Elsewhere' = X - (U - 1) - (F - k + (L + 1))
    BY <1>21, <1>22, <1>27, <2>2, <2>3, <2>4 DEF FullCount, Elsewhere
  <2>8. Moved(1)
    <3>1. (s + 1) + i = (s + i) + 1
      BY <2>5
    <3>2. X - (U - 1) - (F - k + (L + 1)) = (X - U - F) + 1 * L
      BY <1>3, <2>5
    <3>3. 1 \in Int
      OBVIOUS
    <3> QED
      BY <1>2, <2>1, <2>6, <2>7, <3>1, <3>2, <3>3, Zenon DEF Moved
  <2> QED
    BY <1>1, <2>8, Recount
<1> QED
  BY <1>23, <1>24, <1>25, <1>26, <1>28, <1>29, <1>30, Together

\* Between calls no list is in hand, and the count of used blocks is right.
LEMMA IdleHands ==
  ASSUME BlockInv, AllIdle
  PROVE  /\ \A w \in Threads : new_lists[w] = {}
         /\ ListsInHand = 0 /\ num_used_blocks = Cardinality(used)
<1>1. /\ HandsApart /\ AllCount /\ Numbers /\ blocks_allocated = Cardinality(InBuffers)
  BY Accounted, SizesTyped DEF BlockInv, BlockTypes
<1>2. \A w \in Threads : new_lists[w] = {}
  BY <1>1 DEF HandsApart, AllIdle, Idle
<1>3. ListsInHand = 0
  <2> DEFINE f == [w \in Threads |-> Cardinality(new_lists[w])]
  <2>1. \A w \in Threads : f[w] = 0
    BY <1>2, FS_EmptySet
  <2>2. f \in [Threads -> Int]
    BY <2>1
  <2>3. Total(f) = 0
    <3> HIDE DEF f
    <3> QED
      BY <2>1, <2>2, TotalOfNothing
  <2> QED
    BY <2>3 DEF ListsInHand
<1>4. PICK X, U, F, s : /\ X = Cardinality(InBuffers) /\ U = Cardinality(used) /\ F = LocallyFree
                        /\ s = Len(global_stack)
                        /\ X \in Int /\ U \in Int /\ F \in Int /\ s \in Int
  BY <1>1 DEF Numbers, Sizes
<1>5. s + 0 = s /\ list_length * s \in Int
  BY <1>4
<1>6. X = U + F + list_length * s
  BY <1>1, <1>3, <1>4, <1>5 DEF AllCount
<1>7. num_used_blocks = X - list_length * s - F
  BY <1>1, <1>4 DEF num_used_blocks
<1>8. num_used_blocks = U
  <2>1. PICK p : p = list_length * s /\ p \in Int
    BY <1>5
  <2>2. X = U + F + p /\ num_used_blocks = X - p - F
    BY <1>6, <1>7, <2>1, Zenon
  <2>3. X - p - F = U
    <3>1. X = U + F + p /\ U \in Int /\ F \in Int /\ p \in Int
      BY <1>4, <2>1, <2>2, Zenon
    <3>2. (U + F + p) - p - F = U
      BY <3>1
    <3> QED
      BY <3>1, <3>2, Zenon
  <2> QED
    BY <2>2, <2>3, Zenon
<1> QED
  BY <1>2, <1>3, <1>4, <1>8

LEMMA EmptyLists ==
  ASSUME NEW nx, NEW b
  PROVE  Chain(nx, b, 0) = <<>> /\ IsInjective(<<>>) /\ ToSet(<<>>) = {}
<1>1. ToSet(<<>>) = {}
  BY DEF ToSet
<1>2. IsInjective(<<>>)
  BY DEF IsInjective
<1> QED
  BY <1>1, <1>2, EmptyChain

LEMMA ClearInv == ASSUME BlockInv, clear PROVE BlockInv'
<1>1. /\ AllIdle /\ num_used_blocks <= 0
      /\ local_lists' = [w \in Threads |-> [local_lists[w] EXCEPT !.sz = 0]]
      /\ allocated_buffers' = {} /\ blocks_allocated' = 0 /\ global_stack' = <<>>
      /\ UNCHANGED <<next, used, pc, new_lists>>
  BY DEF clear
<1>2. BlockTypes /\ HandsApart /\ used \subseteq InBuffers
  BY Accounted DEF BlockInv
<1>3. /\ \A w \in Threads : new_lists'[w] = {}
      /\ ListsInHand' = 0 /\ Cardinality(used) <= 0
  BY <1>1, IdleHands DEF ListsInHand
<1>4. used = {}
  <2>1. used \in SUBSET Blocks
    BY <1>2, BufferBlocks
  <2>2. IsFiniteSet(used) /\ Cardinality(used) \in Nat
    BY <2>1, Finite
  <2> QED
    BY <1>3, <2>2, FS_EmptySet
<1>5. used' = {} /\ InBuffers' = {} /\ Cardinality(used') = 0 /\ Cardinality(InBuffers') = 0
  BY <1>1, <1>4, FS_EmptySet DEF InBuffers
<1>6. /\ local_lists' \in [Threads -> LocalList]
      /\ \A w \in Threads : local_lists'[w].sz = 0
  <2>1. \A w \in Threads : local_lists[w] \in LocalList
    BY <1>2, LocalTypes
  <2>2. \A w \in Threads : /\ [local_lists[w] EXCEPT !.sz = 0] \in LocalList
                           /\ [local_lists[w] EXCEPT !.sz = 0].sz = 0
    BY <2>1 DEF LocalList
  <2> QED
    BY <1>1, <2>2
<1>7. FullHeads' = {}
  <2>1. ToSet(global_stack') = {}
    BY <1>1, EmptyLists
  <2>2. UNION {new_lists'[w] : w \in Threads} = {}
    BY <1>3
  <2> QED
    BY <2>1, <2>2 DEF FullHeads
<1>8. \A l \in Lists' : IsInjective(FreeList(l)') /\ ToSet(FreeList(l)') = {}
  <2> SUFFICES ASSUME NEW l \in Lists' PROVE FreeList(l)' = <<>>
    BY EmptyLists
  <2>1. LenOf(l)' = 0
    BY <1>6, <1>7 DEF Lists, LenOf
  <2>2. FreeList(l)' = Chain(next', HeadOf(l)', 0)
    BY <2>1 DEF FreeList
  <2> QED
    BY <2>2, EmptyLists
<1>9. ListsSound'
  BY <1>8 DEF ListsSound
<1>10. Marked'
  <2>1. \A w \in Threads : ~(local_lists'[w].sz >= list_length + 2)
    BY <1>6
  <2> QED
    BY <2>1 DEF Marked
<1>11. NoHoard'
  BY <1>6 DEF NoHoard
<1>12. global_stack' \in Seq(Blocks) /\ IsInjective(global_stack') /\ Len(global_stack') = 0
  BY <1>1, EmptyLists
<1>13. BlockTypes'
  BY <1>1, <1>2, <1>5, <1>6, <1>12 DEF BlockTypes, LocalList
<1>14. HandsApart'
  <2>1. \A v \in Threads : /\ pc'[v] \in {"idle", "get_list", "make"} => new_lists'[v] = {}
                           /\ pc'[v] = "install" => \E b \in Blocks : new_lists'[v] = {b}
    BY <1>1, <1>3 DEF AllIdle, Idle
  <2>2. \A v \in Threads : new_lists'[v] \cap ToSet(global_stack') = {}
    BY <1>3
  <2>3. \A u, v \in Threads : u # v => new_lists'[u] \cap new_lists'[v] = {}
    BY <1>3
  <2> QED
    BY <1>12, <2>1, <2>2, <2>3, HandsNext
<1>15. AllCount'
  <2> DEFINE f == [w \in Threads |-> local_lists'[w].sz]
  <2>1. f \in [Threads -> Int] /\ \A w \in Threads : f[w] = 0
    BY <1>6
  <2>2. LocallyFree' = Total(f)
    BY DEF LocallyFree
  <2> HIDE DEF f
  <2>3. LocallyFree' = 0
    BY <2>1, <2>2, TotalOfNothing
  <2>4. list_length * (0 + 0) = 0
    OBVIOUS
  <2> QED
    BY <1>3, <1>5, <1>12, <2>3, <2>4 DEF AllCount
<1>16. used' \subseteq InBuffers'
  BY <1>5
<1> QED
  BY <1>9, <1>10, <1>11, <1>13, <1>14, <1>15, <1>16, Together

\* The constructor has reserved a list for each worker.
LEMMA InitInv == ASSUME BlockInit PROVE BlockInv
<1>1. PICK m, n : m = ReservedLists(0) /\ n = m * list_length
  OBVIOUS
<1>2. /\ local_lists = [w \in Threads |-> EmptyList]
      /\ used = {} /\ pc = [w \in Threads |-> "idle"]
      /\ new_lists = [w \in Threads |-> {}]
      /\ n <= max_blocks
      /\ allocated_buffers = {0 .. n - 1} /\ blocks_allocated = n
      /\ global_stack \in SetToSeqs(Heads(0, m))
      /\ next = [x \in Blocks |-> IF x < n /\ (x + 1) % list_length # 0 THEN x + 1 ELSE nullptr]
  BY <1>1 DEF BlockInit
<1>3. m \in Nat
  <2>1. thread_count \in Nat
    BY SubsetSizes DEF thread_count
  <2>2. (0 + list_length - 1) \div list_length \in Nat
    OBVIOUS
  <2> QED
    BY <1>1, <2>1, <2>2 DEF ReservedLists
<1>4. n \in Nat /\ n % list_length = 0
  <2>1. n \in Nat
    BY <1>1, <1>3
  <2>2. PICK z : z = m * list_length /\ z % list_length = 0
    BY <1>3, WholeLists
  <2> QED
    BY <1>1, <2>1, <2>2
<1>5. PICK B : B = 0 .. n - 1
  OBVIOUS
<1>6. B \subseteq Blocks /\ InBuffers = B /\ allocated_buffers \subseteq SUBSET Blocks
  <2>1. B \subseteq Blocks
    BY <1>2, <1>4, <1>5 DEF Blocks
  <2>2. InBuffers = B
    BY <1>2, <1>5 DEF InBuffers
  <2> QED
    BY <1>2, <1>5, <2>1, <2>2
<1>7. Cardinality(InBuffers) = n
  <2>1. PICK e : e = n - 1 /\ e \in Int
    BY <1>4
  <2>2. Cardinality(0 .. e) = IF 0 > e THEN 0 ELSE e - 0 + 1
    <3>1. 0 \in Int /\ e \in Int
      BY <2>1
    <3> QED
      BY <3>1, FS_Interval, Zenon
  <2> QED
    BY <1>4, <1>5, <1>6, <2>1, <2>2
<1>8. next \in [Blocks -> Words] /\ \A x \in B : (x + 1) % list_length # 0 => next[x] = x + 1
  <2>1. ASSUME NEW x \in Blocks, x < n, (x + 1) % list_length # 0 PROVE x + 1 \in Words
    <3>1. x + 1 # n
      BY <1>4, <2>1
    <3>2. x + 1 \in B
      BY <1>4, <1>5, <2>1, <3>1 DEF Blocks
    <3> QED
      BY <1>6, <3>2 DEF Words
  <2>2. nullptr \in Words
    BY DEF Words
  <2>3. next \in [Blocks -> Words]
    BY <1>2, <2>1, <2>2
  <2>4. \A x \in B : x \in Blocks /\ x < n
    BY <1>4, <1>5, <1>6
  <2> QED
    BY <1>2, <2>3, <2>4
<1>9. Rows(next, 0, m)
  <2>1. 0 + n - 1 = n - 1
    BY <1>4
  <2>2. B = 0 .. 0 + m * list_length - 1
    BY <1>1, <1>5, <2>1
  <2>3. \A x \in B : x - 0 + 1 = x + 1
    BY <1>4, <1>5
  <2>4. \A x \in B : (x - 0 + 1) % list_length # 0 => next[x] = x + 1
    BY <1>8, <2>3
  <2> QED
    BY <1>3, <1>6, <1>8, <2>2, <2>4 DEF Rows
<1>10. /\ \A g \in Heads(0, m) :
            /\ g \in Blocks /\ IsInjective(Chain(next, g, list_length))
            /\ ToSet(Chain(next, g, list_length)) = g .. g + list_length - 1
            /\ g .. g + list_length - 1 \subseteq B
       /\ \A f, g \in Heads(0, m) :
            f # g => (f .. f + list_length - 1) \cap (g .. g + list_length - 1) = {}
  <2>1. B = 0 .. 0 + m * list_length - 1
    BY <1>1, <1>4, <1>5
  <2> QED
    BY <1>9, <2>1, RowLists
<1>11. /\ global_stack \in Seq(Blocks) /\ Len(global_stack) = m
       /\ IsInjective(global_stack) /\ ToSet(global_stack) \subseteq Heads(0, m)
  <2>1. Cardinality(Heads(0, m)) = m
    BY <1>3, HeadCount
  <2>2. /\ global_stack \in [1 .. m -> Heads(0, m)]
        /\ \A i, j \in 1 .. m : i # j => global_stack[i] # global_stack[j]
    BY <1>2, <2>1 DEF SetToSeqs
  <2>3. Heads(0, m) \subseteq Blocks
    BY <1>10
  <2>4. global_stack \in [1 .. m -> Blocks]
    BY <2>2, <2>3
  <2>5. global_stack \in Seq(Blocks) /\ Len(global_stack) = m
    BY <1>3, <2>4
  <2>6. IsInjective(global_stack)
    BY <2>2 DEF IsInjective
  <2>7. ToSet(global_stack) \subseteq Heads(0, m)
    BY <2>2 DEF ToSet
  <2> QED
    BY <2>5, <2>6, <2>7
<1>12. /\ local_lists \in [Threads -> LocalList]
       /\ \A w \in Threads : local_lists[w].sz = 0 /\ new_lists[w] = {} /\ pc[w] = "idle"
  BY <1>2 DEF LocalList, EmptyList, Words
<1>13. BlockTypes
  BY <1>2, <1>6, <1>7, <1>8, <1>11, <1>12 DEF BlockTypes, LocalList
<1>14. HandsApart
  BY <1>11, <1>12 DEF HandsApart
<1>15. Marked
  <2>1. \A w \in Threads : ~(local_lists[w].sz >= list_length + 2)
    BY <1>12
  <2> QED
    BY <2>1 DEF Marked
<1>16. NoHoard
  BY <1>12 DEF NoHoard
<1>17. ListsSound
  <2>1. FullHeads \subseteq Heads(0, m)
    BY <1>11, <1>12 DEF FullHeads
  <2>2. ASSUME NEW l \in Lists
        PROVE  \/ FreeList(l) = <<>>
               \/ \E g \in Heads(0, m) : l = Full(g) /\ FreeList(l) = Chain(next, g, list_length)
    <3>1. CASE l \in {"local"} \X Threads
      <4>1. LenOf(l) = 0
        BY <1>12, <3>1 DEF LenOf
      <4> QED
        BY <4>1, EmptyLists DEF FreeList
    <3>2. CASE l \in {"full"} \X FullHeads
      BY <2>1, <3>2 DEF Full, FreeList, HeadOf, LenOf
    <3> QED
      BY <3>1, <3>2 DEF Lists
  <2>3. ASSUME NEW l \in Lists
        PROVE  IsInjective(FreeList(l)) /\ ToSet(FreeList(l)) \subseteq InBuffers \ used
    <3>1. CASE FreeList(l) = <<>>
      BY <3>1, EmptyLists
    <3>2. CASE \E g \in Heads(0, m) : FreeList(l) = Chain(next, g, list_length)
      BY <1>2, <1>6, <1>10, <3>2
    <3> QED
      BY <2>2, <3>1, <3>2
  <2>4. ASSUME NEW l \in Lists, NEW p \in Lists, l # p
        PROVE  ToSet(FreeList(l)) \cap ToSet(FreeList(p)) = {}
    <3>1. CASE FreeList(l) = <<>> \/ FreeList(p) = <<>>
      BY <3>1, EmptyLists
    <3>2. CASE FreeList(l) # <<>> /\ FreeList(p) # <<>>
      <4>1. PICK f \in Heads(0, m) : l = Full(f) /\ FreeList(l) = Chain(next, f, list_length)
        BY <2>2, <3>2
      <4>2. PICK g \in Heads(0, m) : p = Full(g) /\ FreeList(p) = Chain(next, g, list_length)
        BY <2>2, <3>2
      <4>3. f # g
        BY <2>4, <4>1, <4>2
      <4> QED
        BY <1>10, <4>1, <4>2, <4>3
    <3> QED
      BY <3>1, <3>2
  <2> QED
    BY <2>3, <2>4 DEF ListsSound
<1>18. AllCount
  <2>1. LocallyFree = 0
    <3> DEFINE f == [w \in Threads |-> local_lists[w].sz]
    <3>1. f \in [Threads -> Int] /\ \A w \in Threads : f[w] = 0
      BY <1>12
    <3>2. LocallyFree = Total(f)
      BY DEF LocallyFree
    <3> HIDE DEF f
    <3> QED
      BY <3>1, <3>2, TotalOfNothing
  <2>2. ListsInHand = 0
    <3> DEFINE f == [w \in Threads |-> Cardinality(new_lists[w])]
    <3>1. \A w \in Threads : f[w] = 0
      BY <1>12, FS_EmptySet
    <3>2. f \in [Threads -> Int]
      BY <3>1
    <3>3. ListsInHand = Total(f)
      BY DEF ListsInHand
    <3> HIDE DEF f
    <3> QED
      BY <3>1, <3>2, <3>3, TotalOfNothing
  <2>3. Cardinality(used) = 0
    BY <1>2, FS_EmptySet
  <2>4. list_length * (m + 0) = n /\ 0 + 0 + n = n
    BY <1>1, <1>3, <1>4
  <2> QED
    BY <1>7, <1>11, <2>1, <2>2, <2>3, <2>4 DEF AllCount
<1> QED
  BY <1>2, <1>13, <1>14, <1>15, <1>16, <1>17, <1>18, Accounted DEF BlockInv

---------------------------------------------------------------------------
(* The theorems.                                                           *)

LEMMA StepInv == ASSUME BlockInv, BlockNext PROVE BlockInv'
<1>1. ASSUME NEW w \in Threads, \/ alloc(w) \/ allocMiss(w) \/ PopList(w) \/ PopNoList(w)
                                \/ Install(w)
      PROVE  BlockInv'
  BY <1>1, AllocInv, MissInv, PopInv, InstallInv
<1>2. ASSUME NEW w \in Threads, NEW v \in Threads, MakeList(w, v) PROVE BlockInv'
  BY <1>2, MakeInv
<1>3. ASSUME NEW w \in Threads, NEW ptr \in used, free(w, ptr) PROVE BlockInv'
  <2>1. PICK k : k = local_lists[w].sz
    OBVIOUS
  <2>2. CASE k = list_length + 1 \/ k # 2 * list_length
    BY <1>3, <2>1, <2>2, FreeShort
  <2>3. CASE k # list_length + 1 /\ k = 2 * list_length
    BY <1>3, <2>1, <2>3, FreeFull
  <2> QED
    BY <2>2, <2>3
<1>4. ASSUME NEW w \in Threads, NEW n \in 0 .. list_length + 1, reserve(w, n) PROVE BlockInv'
  BY <1>4, ReserveInv
<1>5. ASSUME NEW w \in Threads, NEW b \in Blocks, PushList(w, b) PROVE BlockInv'
  BY <1>5, PushInv
<1>6. CASE clear
  BY <1>6, ClearInv
<1> QED
  BY <1>1, <1>2, <1>3, <1>4, <1>5, <1>6 DEF BlockNext

LEMMA StutterInv == ASSUME BlockInv, UNCHANGED blockvars PROVE BlockInv'
<1>1. /\ UNCHANGED <<next, local_lists, used, allocated_buffers, blocks_allocated>>
      /\ UNCHANGED <<global_stack, pc, new_lists>>
  BY DEF blockvars
<1>2. FullHeads' = FullHeads /\ FullCount' = FullCount
  BY <1>1 DEF FullHeads, FullCount, ListsInHand
<1>3. BlockTypes' /\ HandsApart'
  BY <1>1 DEF BlockInv, BlockTypes, InBuffers, HandsApart
<1>4. used' \subseteq InBuffers' /\ ListsSound' /\ Marked' /\ NoHoard' /\ (Numbers' => AllCount')
  BY <1>1, <1>2, ListsHandedOn
<1> QED
  BY <1>3, <1>4, SizesNext, Together

\* The inductive invariant: the lists and the callers share the blocks out, and
\* each full list is in one place.
THEOREM Invariance == Spec => []BlockInv
<1>1. Init => BlockInv
  BY InitInv DEF Init
<1>2. BlockInv /\ [Next]_vars => BlockInv'
  BY StepInv, StutterInv DEF Next, vars
<1> QED
  BY <1>1, <1>2, PTL DEF Spec

\* alloc never gives out a block that is in use, and none is lost, however the
\* workers' calls interleave and on whichever worker a call ends.
THEOREM NoBlockLost == Spec => []BlocksAccounted
<1>1. BlockInv => BlocksAccounted
  BY DEF BlockInv
<1> QED
  BY <1>1, Invariance, PTL

\* Between calls num_used_blocks is what callers hold, so clear() frees no
\* buffer that has a block in use.
THEOREM UsedCount == Spec => []CountsUsed
<1>1. BlockInv => CountsUsed
  BY IdleHands DEF CountsUsed
<1> QED
  BY <1>1, Invariance, PTL

---------------------------------------------------------------------------
(* Powers of two and logarithms.                                           *)

\* The recursion of Pow2 has a solution.
LEMMA Powers == Pow2[0] = 1 /\ \A e \in Nat : e > 0 => Pow2[e] = 2 * Pow2[e - 1]
<1> DEFINE F(g) == [e \in Nat |-> IF e = 0 THEN 1 ELSE 2 * g[e - 1]]
           Sol(g, n) == g[0] = 1 /\ \A e \in 1 .. n : g[e] = 2 * g[e - 1]
           Part(n)   == CHOOSE g : Sol(g, n)
<1>1. ASSUME NEW n \in Nat PROVE \E g : Sol(g, n)
  <2> DEFINE S == {m \in 0 .. n : \E g : Sol(g, m)}
  <2>1. 0 \in S
    <3> DEFINE g == [e \in 0 .. 0 |-> 1]
    <3>1. g[0] = 1 /\ \A e \in 1 .. 0 : g[e] = 2 * g[e - 1]
      OBVIOUS
    <3>2. Sol(g, 0)
      BY <3>1
    <3> HIDE DEF g
    <3> QED
      BY <3>2
  <2>2. ASSUME NEW m \in 1 .. n, m - 1 \in S PROVE m \in S
    <3>1. PICK g : Sol(g, m - 1)
      BY <2>2
    <3> DEFINE h == [e \in 0 .. m |-> IF e = m THEN 2 * g[m - 1] ELSE g[e]]
    <3>2. h[0] = 1
      BY <3>1
    <3>3. ASSUME NEW e \in 1 .. m PROVE h[e] = 2 * h[e - 1]
      <4>1. e - 1 \in 0 .. m /\ e - 1 # m /\ h[e - 1] = g[e - 1]
        OBVIOUS
      <4>2. CASE e = m
        BY <4>1, <4>2
      <4>3. CASE e # m
        <5>1. e \in 1 .. m - 1
          BY <4>3
        <5> QED
          BY <3>1, <4>1, <4>3, <5>1
      <4> QED
        BY <4>2, <4>3
    <3> HIDE DEF h
    <3> QED
      BY <3>2, <3>3
  <2>3. 0 .. n \subseteq S
    <3> HIDE DEF S
    <3> QED
      BY <2>1, <2>2, UpTo
  <2> QED
    BY <2>3
<1>2. ASSUME NEW n \in Nat PROVE Sol(Part(n), n)
  <2> HIDE DEF Sol
  <2> QED
    BY <1>1
<1>3. ASSUME NEW n \in Nat, NEW g, NEW h, Sol(g, n), Sol(h, n)
      PROVE  \A e \in 0 .. n : g[e] = h[e]
  <2> DEFINE S == {e \in 0 .. n : g[e] = h[e]}
  <2>1. 0 \in S
    BY <1>3
  <2>2. \A e \in 1 .. n : e - 1 \in S => e \in S
    BY <1>3
  <2>3. 0 .. n \subseteq S
    <3> HIDE DEF S
    <3> QED
      BY <2>1, <2>2, UpTo
  <2> QED
    BY <2>3
<1> DEFINE f == [e \in Nat |-> Part(e)[e]]
<1>4. f[0] = 1
  BY <1>2
<1>5. ASSUME NEW e \in Nat, e > 0 PROVE f[e] = 2 * f[e - 1]
  <2>1. Sol(Part(e), e) /\ Sol(Part(e - 1), e - 1)
    BY <1>2, <1>5
  <2> HIDE DEF Part
  <2>2. Sol(Part(e), e - 1)
    BY <2>1
  <2>3. Part(e)[e - 1] = Part(e - 1)[e - 1]
    <3> HIDE DEF Sol
    <3> QED
      BY <1>3, <1>5, <2>1, <2>2
  <2> QED
    BY <1>5, <2>1, <2>3
<1>6. f = F(f)
  <2>1. \A e \in Nat : f[e] = F(f)[e]
    <3> HIDE DEF f
    <3> QED
      BY <1>4, <1>5
  <2> QED
    BY <2>1
<1>7. Pow2 = F(Pow2)
  <2>1. Pow2 = CHOOSE g : g = F(g)
    BY DEF Pow2
  <2> HIDE DEF F, f
  <2> QED
    BY <1>6, <2>1
<1> QED
  BY <1>7

LEMMA PowerType == \A e \in Nat : Pow2[e] \in Nat /\ Pow2[e] > e
<1> SUFFICES ASSUME NEW n \in Nat PROVE Pow2[n] \in Nat /\ Pow2[n] > n
  OBVIOUS
<1> DEFINE S == {e \in 0 .. n : Pow2[e] \in Nat /\ Pow2[e] > e}
<1>1. 0 \in S
  BY Powers
<1>2. \A e \in 1 .. n : e - 1 \in S => e \in S
  BY Powers
<1>3. 0 .. n \subseteq S
  <2> HIDE DEF S
  <2> QED
    BY <1>1, <1>2, UpTo
<1> QED
  BY <1>3

LEMMA PowersGrow ==
  ASSUME NEW d \in Nat, NEW e \in Nat, d < e PROVE Pow2[d] < Pow2[e]
<1> DEFINE S == {k \in 0 .. e : k > d => Pow2[d] < Pow2[k]}
<1>1. 0 \in S
  OBVIOUS
<1>2. ASSUME NEW k \in 1 .. e, k - 1 \in S PROVE k \in S
  <2>1. Pow2[k] = 2 * Pow2[k - 1] /\ Pow2[k - 1] \in Nat /\ Pow2[k - 1] > 0 /\ Pow2[d] \in Nat
    BY Powers, PowerType
  <2> QED
    BY <1>2, <2>1
<1>3. 0 .. e \subseteq S
  <2> HIDE DEF S
  <2> QED
    BY <1>1, <1>2, UpTo
<1> QED
  BY <1>3

\* log2_up is the least logarithm.
LEMMA Logarithm ==
  ASSUME NEW n \in Nat
  PROVE  /\ log2_up(n) \in 0 .. n /\ n <= Pow2[log2_up(n)]
         /\ \A e \in Nat : n <= Pow2[e] => Pow2[log2_up(n)] <= Pow2[e]
<1> DEFINE S == {e \in Nat : n <= Pow2[e]}
           Log(e) == n <= Pow2[e] /\ (e > 0 => n > Pow2[e - 1])
<1>1. n \in S
  BY PowerType
<1>2. PICK l \in S : \A e \in S : l <= e
  <2> HIDE DEF S
  <2>1. S \in SUBSET Nat
    BY DEF S
  <2> QED
    BY <1>1, <2>1, LeastNat
<1>3. l \in 0 .. n /\ Log(l)
  <2>1. l > 0 => l - 1 \notin S
    BY <1>2
  <2>2. l > 0 => l - 1 \in Nat /\ Pow2[l - 1] \in Nat
    BY PowerType
  <2> QED
    BY <1>1, <1>2, <2>1, <2>2
<1>4. log2_up(n) \in 0 .. n /\ Log(log2_up(n))
  <2>1. log2_up(n) = CHOOSE e \in 0 .. n : Log(e)
    BY DEF log2_up
  <2> HIDE DEF Log
  <2> QED
    BY <1>3, <2>1
<1>5. ASSUME NEW e \in Nat, n <= Pow2[e] PROVE Pow2[log2_up(n)] <= Pow2[e]
  <2> DEFINE x == log2_up(n)
  <2>1. x \in 0 .. n /\ Log(x)
    BY <1>4
  <2> HIDE DEF x
  <2>2. x <= e
    <3>1. SUFFICES ASSUME x > e PROVE FALSE
      BY <2>1
    <3>2. x - 1 \in Nat /\ Pow2[e] <= Pow2[x - 1]
      BY <2>1, <3>1, PowersGrow, PowerType
    <3> QED
      BY <1>5, <2>1, <3>1, <3>2, PowerType
  <2>3. Pow2[x] <= Pow2[e]
    BY <2>1, <2>2, PowersGrow, PowerType
  <2> QED
    BY <2>3 DEF x
<1> QED
  BY <1>4, <1>5

---------------------------------------------------------------------------
(* The pools.                                                              *)

LEMMA LargestNat ==
  ASSUME NEW n \in Nat, NEW S \in SUBSET (0 .. n), S # {}
  PROVE  \E m \in S : \A k \in S : k <= m
<1> DEFINE T == {d \in 0 .. n : n - d \in S}
<1>1. T \in SUBSET Nat /\ T # {}
  <2>1. PICK k \in S : TRUE
    OBVIOUS
  <2>2. k \in 0 .. n /\ n - k \in 0 .. n /\ n - (n - k) = k
    BY <2>1
  <2>3. n - k \in T
    BY <2>1, <2>2
  <2>4. \A d \in T : d \in Nat
    OBVIOUS
  <2> HIDE DEF T
  <2> QED
    BY <2>3, <2>4
<1>2. PICK d \in T : \A c \in T : d <= c
  <2> HIDE DEF T
  <2> QED
    BY <1>1, LeastNat
<1>3. ASSUME NEW k \in S PROVE k <= n - d
  <2>1. n - k \in T
    <3>1. n - k \in 0 .. n /\ n - (n - k) = k
      OBVIOUS
    <3> QED
      BY <3>1
  <2>2. d <= n - k
    BY <1>2, <2>1
  <2> QED
    BY <2>2
<1> QED
  BY <1>2, <1>3

num_buckets == log2_up(MaxPoolSize) - 3
Pools       == 1 .. num_buckets

\* There is a pool of 16 bytes, and each pool has larger blocks than the one before.
LEMMA PoolSizes ==
  /\ num_buckets \in Nat \ {0}
  /\ DOMAIN sizes = Pools /\ max_size = sizes[num_buckets]
  /\ \A i \in Pools : sizes[i] = Pow2[i + 3] /\ sizes[i] \in Nat
  /\ \A i, j \in Pools : i < j => sizes[i] < sizes[j]
  /\ Pow2[0] = 1 /\ Pow2[1] = 2 /\ Pow2[2] = 4 /\ Pow2[3] = 8
  /\ sizes[1] = 16
<1>1. Pow2[0] = 1 /\ Pow2[1] = 2 /\ Pow2[2] = 4 /\ Pow2[3] = 8 /\ Pow2[4] = 16
  BY Powers
<1> DEFINE l == log2_up(MaxPoolSize)
<1>2. l \in Nat /\ MaxPoolSize <= Pow2[l]
  BY Logarithm, PoolsAssumption
<1>3. l > 3
  <2>1. l = 3 \/ l < 3 => Pow2[l] <= Pow2[3]
    BY <1>1, <1>2, PowersGrow, PowerType
  <2> QED
    BY <1>1, <1>2, <2>1, PoolsAssumption
<1>4. sizes = [i \in 1 .. l - 3 |-> Pow2[i + 3]]
  BY DEF sizes
<1> HIDE DEF l
<1>5. Len(sizes) = l - 3
  <2>1. sizes \in Seq(Nat)
    BY <1>2, <1>3, <1>4, PowerType
  <2> QED
    BY <1>2, <1>3, <1>4, <2>1
<1>6. max_size = sizes[l - 3]
  BY <1>5 DEF max_size, Last
<1>7. \A i \in 1 .. l - 3 : sizes[i] = Pow2[i + 3] /\ sizes[i] \in Nat
  BY <1>4, PowerType
<1>8. ASSUME NEW i \in 1 .. l - 3, NEW j \in 1 .. l - 3, i < j PROVE sizes[i] < sizes[j]
  <2>1. i + 3 \in Nat /\ j + 3 \in Nat /\ i + 3 < j + 3
    BY <1>8
  <2> QED
    BY <1>7, <2>1, PowersGrow
<1>9. sizes[1] = 16
  BY <1>1, <1>2, <1>3, <1>7
<1> QED
  BY <1>1, <1>2, <1>3, <1>4, <1>6, <1>7, <1>8, <1>9 DEF Pools, num_buckets, l

\* The small pools come first, and there is one.
LEMMA SmallPools ==
  /\ Small \subseteq Pools /\ 1 \in Small /\ Large = Pools \ Small
  /\ \A i \in Pools, j \in Small : sizes[i] <= sizes[j] => i \in Small
<1>1. 1 \in Pools
  BY PoolSizes DEF Pools
<1> QED
  BY <1>1, PoolSizes, PoolsAssumption DEF Small, Large

LEMMA MaxSmall ==
  /\ max_small \in Nat /\ max_small >= 16
  /\ \E i \in Small : max_small = sizes[i]
  /\ \A i \in Small : sizes[i] <= max_small
<1> DEFINE S == {0} \cup {sizes[i] : i \in Small}
<1>1. PICK m \in Small : \A i \in Small : i <= m
  <2>1. Small \in SUBSET (0 .. num_buckets) /\ Small # {} /\ num_buckets \in Nat
    BY SmallPools, PoolSizes DEF Pools
  <2> QED
    BY <2>1, LargestNat
<1>2. \A i \in Small : sizes[i] \in Nat /\ sizes[i] <= sizes[m] /\ i \in Pools
  <2> SUFFICES ASSUME NEW i \in Small PROVE sizes[i] \in Nat /\ sizes[i] <= sizes[m] /\ i \in Pools
    OBVIOUS
  <2>1. i \in Pools /\ m \in Pools /\ i <= m
    BY <1>1, SmallPools
  <2>2. i \in Nat /\ m \in Nat
    BY <2>1 DEF Pools
  <2> QED
    BY <2>1, <2>2, PoolSizes
<1>3. sizes[m] \in S /\ \A x \in S : sizes[m] >= x
  BY <1>1, <1>2
<1>4. max_small = CHOOSE x \in S : \A y \in S : x >= y
  BY DEF max_small, Max
<1>5. max_small \in S /\ \A x \in S : max_small >= x
  <2> HIDE DEF S
  <2> QED
    BY <1>3, <1>4
<1>6. sizes[1] \in S /\ sizes[1] = 16
  BY PoolSizes, SmallPools
<1>7. max_small >= 16
  BY <1>5, <1>6
<1>8. max_small # 0
  BY <1>7
<1>9. PICK i \in Small : max_small = sizes[i]
  BY <1>5, <1>8
<1> QED
  BY <1>2, <1>5, <1>7, <1>9

LEMMA BucketFits ==
  ASSUME NEW n \in Nat, n <= max_size
  PROVE  /\ Bucket(n) \in Pools /\ n <= sizes[Bucket(n)]
         /\ \A i \in Pools : n <= sizes[i] => Bucket(n) <= i
<1> DEFINE S == {i \in Pools : n <= sizes[i]}
<1>1. S \in SUBSET Nat /\ S # {}
  <2>1. num_buckets \in Pools /\ n <= sizes[num_buckets]
    BY PoolSizes DEF Pools
  <2>2. num_buckets \in S
    BY <2>1
  <2>3. S \in SUBSET Nat
    BY DEF Pools
  <2> QED
    BY <2>2, <2>3
<1>2. \E i \in S : \A j \in S : i <= j
  <2> HIDE DEF S
  <2> QED
    BY <1>1, LeastNat
<1>3. Bucket(n) = CHOOSE i \in S : \A j \in S : i <= j
  BY PoolSizes DEF Bucket, Min
<1>4. Bucket(n) \in S /\ \A j \in S : Bucket(n) <= j
  <2> HIDE DEF S
  <2> QED
    BY <1>2, <1>3
<1> QED
  BY <1>4

\* A request goes to a small pool if and only if one has blocks that large.
LEMMA PoolOf ==
  ASSUME NEW n \in Nat
  PROVE  /\ max_size \in Nat /\ max_small <= max_size
         /\ n <= max_small => Bucket(n) \in Small
         /\ n > max_small /\ n <= max_size => Bucket(n) \in Large
<1>1. PICK m \in Small : max_small = sizes[m]
  BY MaxSmall
<1>2. max_size \in Nat /\ max_small <= max_size
  <2>1. num_buckets \in Nat \ {0} /\ max_size = sizes[num_buckets]
    BY PoolSizes
  <2>2. num_buckets \in Pools /\ m \in Pools /\ m <= num_buckets /\ m \in Nat
    BY <2>1, SmallPools DEF Pools
  <2> QED
    BY <1>1, <2>1, <2>2, PoolSizes
<1>3. ASSUME n <= max_small PROVE Bucket(n) \in Small
  <2>1. n <= max_size
    BY <1>2, <1>3, MaxSmall
  <2>2. Bucket(n) \in Pools /\ Bucket(n) <= m
    BY <1>1, <1>3, <2>1, BucketFits, SmallPools
  <2>3. Bucket(n) \in Nat /\ m \in Nat /\ m \in Pools
    BY <2>2, SmallPools DEF Pools
  <2>4. sizes[Bucket(n)] <= sizes[m]
    BY <2>2, <2>3, PoolSizes
  <2> QED
    BY <2>2, <2>4, SmallPools
<1>4. ASSUME n > max_small, n <= max_size PROVE Bucket(n) \in Large
  <2>1. Bucket(n) \in Pools /\ n <= sizes[Bucket(n)]
    BY <1>4, BucketFits
  <2>2. Bucket(n) \notin Small
    BY <1>4, <2>1, MaxSmall, PoolSizes
  <2> QED
    BY <2>1, <2>2, SmallPools
<1> QED
  BY <1>2, <1>3, <1>4

\* The header's power of two leads to the pool that the request itself leads to.
LEMMA Rounded ==
  ASSUME NEW n \in Nat
  PROVE  LET r == Pow2[log2_up(n)] IN
         /\ r \in Nat /\ n <= r
         /\ (r <= max_small) <=> (n <= max_small)
         /\ (r <= max_size)  <=> (n <= max_size)
         /\ Bucket(r) = Bucket(n)
<1> DEFINE r == Pow2[log2_up(n)]
<1>1. r \in Nat /\ n <= r /\ \A e \in Nat : n <= Pow2[e] => r <= Pow2[e]
  BY Logarithm, PowerType
<1> HIDE DEF r
<1>2. ASSUME NEW i \in Pools PROVE (r <= sizes[i]) <=> (n <= sizes[i])
  <2>1. i + 3 \in Nat /\ sizes[i] = Pow2[i + 3] /\ sizes[i] \in Nat
    BY PoolSizes DEF Pools
  <2> QED
    BY <1>1, <2>1
<1>3. Bucket(r) = Bucket(n)
  <2>1. {i \in DOMAIN sizes : r <= sizes[i]} = {i \in DOMAIN sizes : n <= sizes[i]}
    BY <1>2, PoolSizes
  <2> QED
    BY <2>1 DEF Bucket
<1>4. \E i \in Pools : max_small = sizes[i]
  BY MaxSmall, SmallPools
<1>5. \E i \in Pools : max_size = sizes[i]
  BY PoolSizes DEF Pools
<1> QED
  BY <1>1, <1>2, <1>3, <1>4, <1>5 DEF r

---------------------------------------------------------------------------
(* PoolSizes and addresses.                                                    *)

LEMMA RoundedUp ==
  ASSUME NEW n \in Nat, NEW a \in Nat \ {0}
  PROVE  /\ Up(n, a) \in Nat /\ n <= Up(n, a) /\ Up(n, a) <= n + a - 1
         /\ \E q \in Nat : Up(n, a) = q * a
<1> DEFINE q == (n + a - 1) \div a
<1>1. q \in Nat /\ q * a \in Nat /\ q * a <= n + a - 1 /\ n + a - 1 < q * a + a
  OBVIOUS
<1>2. Up(n, a) = q * a
  BY DEF Up
<1> HIDE DEF q
<1> QED
  BY <1>1, <1>2

LEMMA NoRest == ASSUME NEW q \in Nat, NEW a \in Nat \ {0} PROVE (q * a) % a = 0
  OBVIOUS

LEMMA Eights == ASSUME NEW e \in Nat, e >= 3 PROVE Pow2[e] = 8 * Pow2[e - 3]
<1>1. Pow2[e] = 2 * Pow2[e - 1] /\ Pow2[e - 1] = 2 * Pow2[e - 2] /\ Pow2[e - 2] = 2 * Pow2[e - 3]
  <2>1. Pow2[e] = 2 * Pow2[e - 1]
    BY Powers
  <2>2. Pow2[e - 1] = 2 * Pow2[(e - 1) - 1] /\ (e - 1) - 1 = e - 2
    BY Powers
  <2>3. Pow2[e - 2] = 2 * Pow2[(e - 2) - 1] /\ (e - 2) - 1 = e - 3
    BY Powers
  <2> QED
    BY <2>1, <2>2, <2>3
<1>2. Pow2[e - 3] \in Nat
  BY PowerType
<1> QED
  BY <1>1, <1>2

LEMMA SmallSizes == \A i \in Pools : sizes[i] < 128 => sizes[i] \in {16, 32, 64}
<1> SUFFICES ASSUME NEW i \in Pools, sizes[i] < 128 PROVE sizes[i] \in {16, 32, 64}
  OBVIOUS
<1>1. Pow2[4] = 16 /\ Pow2[5] = 32 /\ Pow2[6] = 64 /\ Pow2[7] = 128
  BY Powers
<1>2. i \in Nat /\ i >= 1 /\ i + 3 \in Nat /\ sizes[i] = Pow2[i + 3]
  BY PoolSizes DEF Pools
<1>3. i + 3 < 7
  <2>1. i + 3 > 7 => Pow2[7] < Pow2[i + 3]
    BY <1>2, PowersGrow
  <2> QED
    BY <1>1, <1>2, <2>1, PowerType
<1>4. i + 3 = 4 \/ i + 3 = 5 \/ i + 3 = 6
  BY <1>2, <1>3
<1> QED
  BY <1>1, <1>2, <1>4

Spans == [cap : Nat, base : Nat]
Step(cap) == IF cap < 128 THEN cap ELSE 128

Obtainable(n, blk) ==
  \E cap \in {sizes[i] : i \in DOMAIN sizes} \cup {Up(n, max_alignment)} : blk \in Pieces(cap)

\* Where a block of a pool, or one straight from the system, may start.
LEMMA Starts ==
  ASSUME NEW n \in Nat, NEW blk, Obtainable(n, blk), blk.cap >= 16
  PROVE  /\ blk \in Spans /\ Step(blk.cap) \in {16, 32, 64, 128}
         /\ \E p \in Nat : blk.base = p * Step(blk.cap)
<1> PICK c \in {sizes[i] : i \in DOMAIN sizes} \cup {Up(n, max_alignment)} : blk \in Pieces(c)
  BY DEF Obtainable
<1>1. c \in Nat
  <2>1. Up(n, 128) \in Nat
    <3>1. 128 \in Nat \ {0}
      OBVIOUS
    <3> QED
      BY <3>1, RoundedUp
  <2> QED
    BY <2>1, PoolSizes DEF max_alignment
<1>2. blk = [cap |-> blk.cap, base |-> blk.base] /\ blk.cap = c
  BY DEF Pieces
<1>3. PICK p \in Nat : blk.base = p * Step(c)
  BY PoolsAssumption DEF Pieces, Step, max_alignment
<1>4. Step(c) \in {16, 32, 64, 128}
  <2>1. CASE c \in {sizes[i] : i \in DOMAIN sizes}
    BY <2>1, SmallSizes, PoolSizes DEF Step
  <2>2. CASE c = Up(n, max_alignment)
    <3>1. PICK q \in Nat : c = q * 128
      BY <2>2, RoundedUp DEF max_alignment
    <3>2. c >= 128
      BY <1>2, <3>1
    <3> QED
      BY <3>1, <3>2 DEF Step
  <2> QED
    BY <2>1, <2>2
<1>5. p * Step(c) \in Nat
  BY <1>4
<1> QED
  BY <1>1, <1>2, <1>3, <1>4, <1>5 DEF Spans

\* Such a block is aligned for a type whose size is what was asked for.
LEMMA Aligned ==
  ASSUME NEW r \in Requests, NEW blk \in Spans, blk.cap >= r[1],
         Step(blk.cap) \in {16, 32, 64, 128}, \E p \in Nat : blk.base = p * Step(blk.cap)
  PROVE  blk.base % r[2] = 0
<1>1. /\ r[1] \in Nat /\ r[2] \in {1, 2, 4, 8, 16, 32, 64, 128}
      /\ r[1] % r[2] = 0 /\ (r[1] > 0 \/ r[2] <= 16)
  BY PoolsAssumption
<1> DEFINE g == Step(blk.cap)  a == r[2]  n == r[1]
<1>2. a <= g
  <2>1. n > 0 => a <= n
    BY <1>1
  <2> QED
    BY <1>1, <2>1 DEF Step, Spans
<1>3. PICK p \in Nat : blk.base = p * g
  OBVIOUS
<1>4. g \in {16, 32, 64, 128} /\ a \in {1, 2, 4, 8, 16, 32, 64, 128}
  BY <1>1
<1> HIDE DEF g, a
<1>5. (p * g) % a = 0
  <2>1. CASE g = 16
    BY <1>2, <1>4, <2>1
  <2>2. CASE g = 32
    BY <1>2, <1>4, <2>2
  <2>3. CASE g = 64
    BY <1>2, <1>4, <2>3
  <2>4. CASE g = 128
    BY <1>2, <1>4, <2>4
  <2> QED
    BY <1>4, <2>1, <2>2, <2>3, <2>4
<1> QED
  BY <1>3, <1>5 DEF a

\* The padding of p_malloc is a multiple of eight, so that it has room for the header.
LEMMA Padding ==
  ASSUME NEW m \in Mallocs
  PROVE  /\ m[1] \in Nat
         /\ \E p \in Nat \ {0} : PadSize(m[1], m[2]) = 8 * p
<1>1. m[1] \in Nat /\ m[2] \in Nat
  BY PoolsAssumption
<1>2. PICK e \in 0 .. m[2] : m[2] = Pow2[e]
  BY PoolsAssumption
<1> DEFINE a == alloc_padding_size(m[1])  S == {a, m[2]}  pad == PadSize(m[1], m[2])
<1>3. a \in {8, 16, 64}
  BY <1>1 DEF alloc_padding_size
<1>4. pad = CHOOSE x \in S : \A y \in S : x >= y
  BY DEF PadSize, Max
<1> HIDE DEF a
<1>5. \E x \in S : \A y \in S : x >= y
  BY <1>1, <1>3
<1>6. pad \in S /\ \A y \in S : pad >= y
  <2> HIDE DEF S, pad
  <2> QED
    BY <1>4, <1>5
<1> HIDE DEF pad
<1>7. CASE pad = a
  <2>1. a = 8 * 1 \/ a = 8 * 2 \/ a = 8 * 8
    BY <1>3
  <2> QED
    BY <1>1, <1>7, <2>1 DEF pad
<1>8. CASE pad = m[2]
  <2>1. m[2] >= 8
    BY <1>1, <1>3, <1>6, <1>8
  <2>2. e >= 3
    <3>1. Pow2[0] = 1 /\ Pow2[1] = 2 /\ Pow2[2] = 4
      BY PoolSizes
    <3> QED
      BY <1>1, <1>2, <2>1, <3>1
  <2>3. Pow2[e] = 8 * Pow2[e - 3] /\ Pow2[e - 3] \in Nat \ {0}
    BY <2>2, Eights, PowerType
  <2> QED
    BY <1>1, <1>2, <1>8, <2>3 DEF pad
<1> QED
  BY <1>6, <1>7, <1>8

\* Past the header comes an aligned place, with as many bytes behind it as asked for.
LEMMA Offsets ==
  ASSUME NEW b \in Nat, NEW p \in Nat \ {0}, NEW blk \in Spans, blk.base = 8 * b
  PROVE  /\ Offset(blk, 8 * p) \in Nat /\ Offset(blk, 8 * p) >= header_size
         /\ Offset(blk, 8 * p) <= 8 * p
         /\ (blk.base + Offset(blk, 8 * p)) % (8 * p) = 0
<1> DEFINE u == Up(blk.base + header_size, 8 * p)
<1>1. 8 * p \in Nat \ {0} /\ blk.base + header_size \in Nat /\ header_size = 8
  BY DEF Spans, header_size
<1>2. u \in Nat /\ blk.base + 8 <= u /\ u <= blk.base + 8 + 8 * p - 1
  BY <1>1, RoundedUp
<1>3. PICK q \in Nat : u = q * (8 * p)
  BY <1>1, RoundedUp
<1>4. u = 8 * (q * p) /\ q * p \in Nat
  BY <1>3
<1>5. u % (8 * p) = 0
  BY <1>1, <1>3, NoRest
<1>6. Offset(blk, 8 * p) = u - blk.base
  BY DEF Offset
<1> HIDE DEF u
<1>7. u <= 8 * b + 8 * p
  <2> DEFINE x == q * p
  <2>1. u = 8 * x /\ x \in Nat
    BY <1>4
  <2> HIDE DEF x
  <2> QED
    BY <1>2, <2>1
<1>8. blk.base + (u - blk.base) = u
  BY <1>2 DEF Spans
<1> QED
  BY <1>1, <1>2, <1>5, <1>6, <1>7, <1>8 DEF Spans

---------------------------------------------------------------------------
(* The invariant of the pools.                                             *)

Grants == [blk : Spans, align : Nat \ {0}, size : Nat, offset : Nat, n : Nat]

\* blk is from where a request for n bytes is taken to.
Suits(blk, n) ==
  IF n <= max_small
  THEN blk.cap = sizes[Bucket(n)]
  ELSE /\ \A i \in Small : blk.cap # sizes[i]
       /\ n <= max_size => blk.cap >= sizes[Bucket(n)]

Fits(h) ==
  /\ (h.blk.base + h.offset) % h.align = 0
  /\ h.offset + h.size <= h.blk.cap
  /\ h.offset > 0 => h.offset >= header_size

Out(i) == {s \in Held : held[s].blk.cap = sizes[i]}

Balanced == \A i \in Small : small[i].allocated = small[i].free + Cardinality(Out(i))
Roomy    == \A i \in Large : \A k \in DOMAIN large_buckets[i] : large_buckets[i][k].cap >= sizes[i]

PoolTypes ==
  /\ small \in [Small -> [allocated : Int, free : Int]]
  /\ large_buckets \in [Large -> Seq(Spans)]
  /\ held \in [Slots -> Grants \cup {None}]

PoolInv ==
  /\ PoolTypes /\ Balanced /\ Roomy
  /\ \A s \in Held : Fits(held[s]) /\ Suits(held[s].blk, held[s].n)

LEMMA GrantIsHeld == \A h \in Grants : h # None
<1> SUFFICES ASSUME NEW h \in Grants, h = None PROVE FALSE
  OBVIOUS
<1>1. "n" \in DOMAIN h
  BY DEF Grants
<1>2. DOMAIN None = {"blk"}
  BY DEF None
<1> QED
  BY <1>1, <1>2

LEMMA OutFinite == \A i \in Small : IsFiniteSet(Out(i)) /\ Cardinality(Out(i)) \in Nat
<1> SUFFICES ASSUME NEW i \in Small PROVE IsFiniteSet(Out(i)) /\ Cardinality(Out(i)) \in Nat
  OBVIOUS
<1>1. Out(i) \subseteq Slots
  BY DEF Out, Held
<1> QED
  BY <1>1, FS_Subset, FS_CardinalityType, PoolsAssumption

LEMMA SizesDiffer == \A i, j \in Small : sizes[i] = sizes[j] => i = j
<1> SUFFICES ASSUME NEW i \in Small, NEW j \in Small, sizes[i] = sizes[j] PROVE i = j
  OBVIOUS
<1>1. i \in Pools /\ j \in Pools /\ i \in Nat /\ j \in Nat
  BY SmallPools DEF Pools
<1> QED
  BY <1>1, PoolSizes

\* What allocate returns is large enough and from where it will be taken back to.
LEMMA AllocateSuits ==
  ASSUME PoolInv, NEW n \in Nat, NEW blk, allocate(n, blk)
  PROVE  blk.cap \in Nat /\ blk.cap >= n /\ blk.cap >= 16 /\ Suits(blk, n)
<1>1. max_size \in Nat /\ max_small <= max_size /\ max_small \in Nat /\ max_small >= 16
  BY PoolOf, MaxSmall
<1>2. \A i \in Pools : sizes[i] \in Nat /\ sizes[i] >= 16
  <2> SUFFICES ASSUME NEW i \in Pools PROVE sizes[i] \in Nat /\ sizes[i] >= 16
    OBVIOUS
  <2>1. 1 \in Pools /\ 1 \in Nat /\ i \in Nat /\ (i = 1 \/ 1 < i)
    BY PoolSizes DEF Pools
  <2> QED
    BY <2>1, PoolSizes
<1>3. CASE n <= max_small
  <2>1. blk \in Pieces(sizes[Bucket(n)]) /\ Bucket(n) \in Pools /\ n <= sizes[Bucket(n)]
    BY <1>1, <1>3, BucketFits DEF allocate
  <2>2. blk.cap = sizes[Bucket(n)]
    BY <2>1 DEF Pieces
  <2> QED
    BY <1>2, <1>3, <2>1, <2>2 DEF Suits
<1>4. CASE n > max_small
  <2>1. allocate_large(n, blk)
    BY <1>1, <1>4 DEF allocate
  <2>2. CASE n <= max_size
    <3> DEFINE b == Bucket(n)
    <3>1. b \in Pools /\ n <= sizes[b] /\ b \in Large
      BY <1>4, <2>2, BucketFits, PoolOf
    <3>2. \A i \in Small : sizes[i] < sizes[b] /\ sizes[i] \in Nat
      BY <1>2, <1>4, <3>1, MaxSmall, SmallPools
    <3>3. blk.cap \in Nat /\ blk.cap >= sizes[b]
      <4>1. CASE /\ large_buckets[b] # <<>> /\ blk = Head(large_buckets[b])
        <5>1. large_buckets[b] \in Seq(Spans) /\ large_buckets[b] # <<>>
          BY <3>1, <4>1 DEF PoolInv, PoolTypes
        <5>2. 1 \in DOMAIN large_buckets[b] /\ blk = large_buckets[b][1] /\ blk \in Spans
          BY <4>1, <5>1
        <5> QED
          BY <3>1, <5>2 DEF PoolInv, Roomy, Spans
      <4>2. CASE blk \in Pieces(Up(sizes[b], max_alignment))
        <5>1. 128 \in Nat \ {0} /\ sizes[b] \in Nat
          BY <1>2, <3>1
        <5>2. Up(sizes[b], 128) \in Nat /\ sizes[b] <= Up(sizes[b], 128)
          BY <5>1, RoundedUp
        <5>3. blk.cap = Up(sizes[b], 128)
          BY <4>2 DEF Pieces, max_alignment
        <5> QED
          BY <5>2, <5>3
      <4> QED
        BY <2>1, <2>2, <4>1, <4>2 DEF allocate_large
    <3> HIDE DEF b
    <3>4. blk.cap >= n /\ blk.cap >= 16 /\ \A i \in Small : blk.cap # sizes[i]
      BY <1>2, <3>1, <3>2, <3>3
    <3> QED
      BY <1>1, <1>4, <3>3, <3>4 DEF Suits, b
  <2>3. CASE n > max_size
    <3>1. blk \in Pieces(Up(n, max_alignment))
      BY <1>1, <2>1, <2>3 DEF allocate_large
    <3>2. 128 \in Nat \ {0}
      OBVIOUS
    <3>3. Up(n, 128) \in Nat /\ n <= Up(n, 128)
      BY <3>2, RoundedUp
    <3>4. blk.cap = Up(n, 128)
      BY <3>1 DEF Pieces, max_alignment
    <3>5. \A i \in Small : sizes[i] \in Nat /\ sizes[i] < n
      BY <1>1, <1>2, <1>4, MaxSmall, SmallPools
    <3> QED
      BY <1>1, <1>4, <2>3, <3>3, <3>4, <3>5 DEF Suits
  <2> QED
    BY <1>1, <2>2, <2>3
<1> QED
  BY <1>1, <1>3, <1>4

LEMMA StockedKeeps ==
  ASSUME NEW p \in [allocated : Int, free : Int], NEW k \in Nat
  PROVE  /\ Stocked(p, k) \in [allocated : Int, free : Int]
         /\ Stocked(p, k).allocated - Stocked(p, k).free = p.allocated - p.free
<1> DEFINE more == IF p.free >= k THEN 0 ELSE Up(k - p.free, ListLength)
<1>1. more \in Nat
  <2>1. CASE p.free < k
    <3>1. k - p.free \in Nat /\ ListLength \in Nat \ {0}
      BY <2>1, PoolsAssumption
    <3> QED
      BY <2>1, <3>1, RoundedUp
  <2> QED
    BY <2>1
<1>2. Stocked(p, k) = [allocated |-> p.allocated + more, free |-> p.free + more]
  BY DEF Stocked
<1> HIDE DEF more
<1> QED
  BY <1>1, <1>2

\* A slot filled or emptied changes the count of one size at most.
LEMMA SlotFilled ==
  ASSUME PoolInv, NEW s \in Slots, held[s] = None, NEW h \in Grants,
         held' = [held EXCEPT ![s] = h]
  PROVE  /\ Held' = Held \cup {s}
         /\ \A i \in Small : Cardinality(Out(i))' =
                             Cardinality(Out(i)) + (IF h.blk.cap = sizes[i] THEN 1 ELSE 0)
<1>1. h # None /\ s \notin Held /\ held' \in [Slots -> Grants \cup {None}]
  BY GrantIsHeld DEF Held, PoolInv, PoolTypes
<1>2. /\ held'[s] = h
      /\ \A t \in Slots : t # s => held'[t] = held[t]
  BY DEF PoolInv, PoolTypes
<1>3. Held' = Held \cup {s}
  BY <1>1, <1>2 DEF Held
<1>4. ASSUME NEW i \in Small
      PROVE  Cardinality(Out(i))' = Cardinality(Out(i)) + (IF h.blk.cap = sizes[i] THEN 1 ELSE 0)
  <2>1. IsFiniteSet(Out(i)) /\ Cardinality(Out(i)) \in Nat
    BY OutFinite
  <2>2. Out(i)' = IF h.blk.cap = sizes[i] THEN Out(i) \cup {s} ELSE Out(i)
    BY <1>1, <1>2, <1>3 DEF Out, Held
  <2>3. s \notin Out(i)
    BY <1>1 DEF Out
  <2>4. CASE h.blk.cap = sizes[i]
    <3>1. Cardinality(Out(i) \cup {s}) = Cardinality(Out(i)) + 1
      BY <2>1, <2>3, FS_AddElement
    <3> QED
      BY <2>2, <2>4, <3>1
  <2>5. CASE h.blk.cap # sizes[i]
    <3>1. Out(i)' = Out(i)
      BY <2>2, <2>5
    <3> QED
      BY <2>1, <2>5, <3>1
  <2> QED
    BY <2>4, <2>5
<1> QED
  BY <1>3, <1>4

LEMMA SlotEmptied ==
  ASSUME PoolInv, NEW s \in Held, held' = [held EXCEPT ![s] = None]
  PROVE  /\ Held' = Held \ {s}
         /\ \A i \in Small : Cardinality(Out(i))' =
                             Cardinality(Out(i)) - (IF held[s].blk.cap = sizes[i] THEN 1 ELSE 0)
<1>1. /\ s \in Slots /\ held'[s] = None
      /\ \A t \in Slots : t # s => held'[t] = held[t]
  BY DEF PoolInv, PoolTypes, Held
<1>2. Held' = Held \ {s}
  BY <1>1 DEF Held
<1>3. ASSUME NEW i \in Small
      PROVE  Cardinality(Out(i))' = Cardinality(Out(i)) - (IF held[s].blk.cap = sizes[i] THEN 1 ELSE 0)
  <2>1. IsFiniteSet(Out(i)) /\ Cardinality(Out(i)) \in Nat
    BY OutFinite
  <2>2. Out(i)' = Out(i) \ {s}
    BY <1>1, <1>2 DEF Out, Held
  <2>3. (s \in Out(i)) <=> (held[s].blk.cap = sizes[i])
    BY DEF Out
  <2>4. CASE s \in Out(i)
    <3>1. Cardinality(Out(i) \ {s}) = Cardinality(Out(i)) - 1
      BY <2>1, <2>4, FS_RemoveElement
    <3> QED
      BY <2>2, <2>3, <2>4, <3>1
  <2>5. CASE s \notin Out(i)
    <3>1. Out(i)' = Out(i)
      BY <2>2, <2>5
    <3> QED
      BY <2>1, <2>3, <2>5, <3>1
  <2> QED
    BY <2>4, <2>5
<1> QED
  BY <1>2, <1>3

\* A call that gets blk for n bytes and holds it as h.
LEMMA AllocateInv ==
  ASSUME PoolInv, NEW n \in Nat, NEW blk \in Spans, allocate(n, blk),
         NEW s \in Slots, held[s] = None, NEW h \in Grants, h.blk = blk,
         Fits(h), Suits(blk, h.n), held' = [held EXCEPT ![s] = h]
  PROVE  PoolInv'
<1> DEFINE b == Bucket(n)
<1>1. Suits(blk, n) /\ max_small \in Nat /\ max_size \in Nat /\ max_small <= max_size
  BY AllocateSuits, MaxSmall, PoolOf
<1>2. /\ Held' = Held \cup {s}
      /\ \A i \in Small : Cardinality(Out(i))' =
                          Cardinality(Out(i)) + (IF blk.cap = sizes[i] THEN 1 ELSE 0)
  BY SlotFilled
<1>3. held' \in [Slots -> Grants \cup {None}] /\ held'[s] = h
  BY DEF PoolInv, PoolTypes
<1>4. \A t \in Held' : Fits(held'[t]) /\ Suits(held'[t].blk, held'[t].n)
  <2>1. ASSUME NEW t \in Held' PROVE Fits(held'[t]) /\ Suits(held'[t].blk, held'[t].n)
    <3>1. CASE t = s
      BY <1>3, <3>1
    <3>2. CASE t # s
      <4>1. t \in Held /\ held'[t] = held[t]
        BY <1>2, <3>2 DEF PoolInv, PoolTypes, Held
      <4> QED
        BY <4>1 DEF PoolInv
    <3> QED
      BY <3>1, <3>2
  <2> QED
    BY <2>1
<1>5. CASE n <= max_small
  <2>1. b \in Small /\ blk.cap = sizes[b]
    BY <1>1, <1>5, PoolOf DEF Suits
  <2>2. /\ small' = [small EXCEPT ![b] = [Stocked(small[b], 1) EXCEPT !.free = Stocked(small[b], 1).free - 1]]
        /\ large_buckets' = large_buckets
    BY <1>1, <1>5 DEF allocate
  <2> DEFINE p == small[b]  q == Stocked(p, 1)
  <2>3. p \in [allocated : Int, free : Int] /\ q \in [allocated : Int, free : Int]
        /\ q.allocated - q.free = p.allocated - p.free
    BY <2>1, StockedKeeps DEF PoolInv, PoolTypes
  <2>4. /\ small' \in [Small -> [allocated : Int, free : Int]]
        /\ small'[b].allocated = q.allocated /\ small'[b].free = q.free - 1
        /\ \A i \in Small : i # b => small'[i] = small[i]
    <3>1. small \in [Small -> [allocated : Int, free : Int]]
      BY DEF PoolInv, PoolTypes
    <3>2. small' = [small EXCEPT ![b] = [q EXCEPT !.free = q.free - 1]]
      BY <2>2
    <3> HIDE DEF q
    <3>3. [q EXCEPT !.free = q.free - 1] \in [allocated : Int, free : Int]
      BY <2>3
    <3> HIDE DEF p, b
    <3> QED
      BY <2>1, <2>3, <3>1, <3>2, <3>3
  <2>5. Balanced'
    <3> SUFFICES ASSUME NEW i \in Small
                 PROVE  small'[i].allocated = small'[i].free + Cardinality(Out(i))'
      BY DEF Balanced
    <3>1. small[i].allocated = small[i].free + Cardinality(Out(i)) /\ Cardinality(Out(i)) \in Nat
      BY OutFinite DEF PoolInv, Balanced
    <3>2. CASE i = b
      <4>1. Cardinality(Out(i))' = Cardinality(Out(i)) + 1
        BY <1>2, <2>1, <3>2
      <4> HIDE DEF q, b
      <4> QED
        BY <2>3, <2>4, <3>1, <3>2, <4>1
    <3>3. CASE i # b
      <4>1. blk.cap # sizes[i]
        BY <2>1, <3>3, SizesDiffer
      <4> QED
        BY <1>2, <2>4, <3>1, <3>3, <4>1
    <3> QED
      BY <3>2, <3>3
  <2>6. large_buckets' \in [Large -> Seq(Spans)] /\ Roomy'
    BY <2>2 DEF PoolInv, PoolTypes, Roomy
  <2> QED
    BY <1>3, <1>4, <2>4, <2>5, <2>6 DEF PoolInv, PoolTypes
<1>6. CASE n > max_small
  <2>1. allocate_large(n, blk) /\ \A i \in Small : blk.cap # sizes[i]
    BY <1>1, <1>6 DEF allocate, Suits
  <2>2. small' = small
    BY <2>1 DEF allocate_large
  <2>3. large_buckets' \in [Large -> Seq(Spans)] /\ Roomy'
    <3>1. CASE large_buckets' = large_buckets
      BY <3>1 DEF PoolInv, PoolTypes, Roomy
    <3>2. CASE /\ n <= max_size /\ large_buckets[b] # <<>>
               /\ large_buckets' = [large_buckets EXCEPT ![b] = Tail(@)]
      <4>1. b \in Large
        BY <1>6, <3>2, PoolOf
      <4> DEFINE old == large_buckets[b]
      <4>2. old \in Seq(Spans) /\ old # <<>> /\ large_buckets'[b] = Tail(old)
            /\ \A i \in Large : i # b => large_buckets'[i] = large_buckets[i]
        BY <3>2, <4>1 DEF PoolInv, PoolTypes
      <4>3. /\ Tail(old) \in Seq(Spans)
            /\ \A k \in DOMAIN Tail(old) : k + 1 \in DOMAIN old /\ Tail(old)[k] = old[k + 1]
        <5> HIDE DEF old
        <5> QED
          BY <4>2
      <4>4. large_buckets' \in [Large -> Seq(Spans)]
        BY <3>2, <4>1, <4>3 DEF PoolInv, PoolTypes
      <4>5. ASSUME NEW i \in Large, NEW k \in DOMAIN large_buckets'[i]
            PROVE  large_buckets'[i][k].cap >= sizes[i]
        <5>1. CASE i = b
          <6>1. k + 1 \in DOMAIN old /\ large_buckets'[i][k] = old[k + 1]
            BY <4>2, <4>3, <4>5, <5>1
          <6> QED
            BY <5>1, <6>1 DEF PoolInv, Roomy
        <5>2. CASE i # b
          BY <4>2, <4>5, <5>2 DEF PoolInv, Roomy
        <5> QED
          BY <5>1, <5>2
      <4> QED
        BY <4>4, <4>5 DEF Roomy
    <3> QED
      BY <2>1, <3>1, <3>2 DEF allocate_large
  <2>4. Balanced'
    BY <1>2, <2>1, <2>2, OutFinite DEF PoolInv, Balanced
  <2> QED
    BY <1>3, <1>4, <2>2, <2>3, <2>4 DEF PoolInv, PoolTypes
<1> QED
  BY <1>1, <1>5, <1>6

LEMMA AllocateCallInv ==
  ASSUME PoolInv, NEW s \in Slots, NEW r \in Requests, Allocate(s, r[1], r[2]) PROVE PoolInv'
<1> DEFINE n == r[1]
<1>1. n \in Nat /\ r[2] \in Nat \ {0}
  BY PoolsAssumption
<1>2. PICK blk :
        /\ Obtainable(n, blk)
        /\ allocate(n, blk)
        /\ held' = [held EXCEPT ![s] =
                      [blk |-> blk, align |-> r[2], size |-> n, offset |-> 0, n |-> n]]
  BY DEF Allocate, Obtainable
<1> DEFINE h == [blk |-> blk, align |-> r[2], size |-> n, offset |-> 0, n |-> n]
<1>3. blk.cap \in Nat /\ blk.cap >= n /\ blk.cap >= 16 /\ Suits(blk, n)
  BY <1>1, <1>2, AllocateSuits
<1>4. /\ blk \in Spans /\ Step(blk.cap) \in {16, 32, 64, 128}
      /\ \E p \in Nat : blk.base = p * Step(blk.cap)
  BY <1>1, <1>2, <1>3, Starts
<1>5. blk.base % r[2] = 0
  BY <1>3, <1>4, Aligned
<1>6. h \in Grants /\ h.blk = blk /\ h.n = n
  BY <1>1, <1>4 DEF Grants
<1>7. Fits(h)
  BY <1>1, <1>3, <1>4, <1>5 DEF Fits, Spans
<1>8. held[s] = None
  BY DEF Allocate
<1>9. allocate(n, blk) /\ held' = [held EXCEPT ![s] = h]
  BY <1>2
<1>10. n \in Nat /\ blk \in Spans /\ Suits(blk, h.n)
  BY <1>1, <1>3, <1>4, <1>6
<1>11. h \in Grants /\ h.blk = blk
  BY <1>6
<1> HIDE DEF h, n
<1> QED
  BY <1>7, <1>8, <1>9, <1>10, <1>11, AllocateInv, Zenon

LEMMA MallocInv ==
  ASSUME PoolInv, NEW s \in Slots, NEW m \in Mallocs, p_malloc(s, m[1], m[2]) PROVE PoolInv'
<1> DEFINE size == m[1]
           pad  == PadSize(m[1], m[2])
           n    == size + pad
<1>1. PICK p \in Nat \ {0} : pad = 8 * p
  BY Padding
<1>2. size \in Nat /\ pad \in Nat \ {0} /\ n \in Nat
  BY <1>1, Padding
<1>3. PICK blk :
        /\ Obtainable(n, blk)
        /\ allocate(n, blk)
        /\ held' = [held EXCEPT ![s] =
                      [blk |-> blk, align |-> pad, size |-> size,
                       offset |-> Offset(blk, pad), n |-> Pow2[log2_up(n)]]]
  BY DEF p_malloc, Obtainable
<1> DEFINE h == [blk |-> blk, align |-> pad, size |-> size,
                 offset |-> Offset(blk, pad), n |-> Pow2[log2_up(n)]]
<1>4. held[s] = None
  BY DEF p_malloc
<1>5. allocate(n, blk) /\ held' = [held EXCEPT ![s] = h]
  BY <1>3
<1> HIDE DEF pad
<1>6. blk.cap \in Nat /\ blk.cap >= n /\ blk.cap >= 16 /\ Suits(blk, n)
  <2> HIDE DEF n
  <2> QED
    BY <1>2, <1>3, AllocateSuits
<1>7. /\ blk \in Spans /\ Step(blk.cap) \in {16, 32, 64, 128}
      /\ \E q \in Nat : blk.base = q * Step(blk.cap)
  <2> HIDE DEF n
  <2> QED
    BY <1>2, <1>3, <1>6, Starts
<1>8. PICK b \in Nat : blk.base = 8 * b
  <2>1. PICK q \in Nat : blk.base = q * Step(blk.cap)
    BY <1>7
  <2>2. PICK k \in {2, 4, 8, 16} : Step(blk.cap) = 8 * k
    BY <1>7
  <2>3. q * (8 * k) = 8 * (q * k) /\ q * k \in Nat
    BY <2>2
  <2> QED
    BY <2>1, <2>2, <2>3
<1>9. /\ Offset(blk, pad) \in Nat /\ Offset(blk, pad) >= header_size /\ Offset(blk, pad) <= pad
      /\ (blk.base + Offset(blk, pad)) % pad = 0
  BY <1>1, <1>7, <1>8, Offsets
<1>10. Pow2[log2_up(n)] \in Nat /\ Suits(blk, Pow2[log2_up(n)])
  <2> HIDE DEF n
  <2> QED
    BY <1>2, <1>6, Rounded DEF Suits
<1>11. h \in Grants /\ h.blk = blk /\ h.n = Pow2[log2_up(n)]
  BY <1>2, <1>7, <1>9, <1>10 DEF Grants
<1>12. Fits(h)
  BY <1>2, <1>6, <1>9 DEF Fits
<1>13. n \in Nat /\ blk \in Spans /\ Suits(blk, h.n)
  BY <1>2, <1>7, <1>10, <1>11
<1>14. h \in Grants /\ h.blk = blk
  BY <1>11
<1> HIDE DEF h, n
<1> QED
  BY <1>4, <1>5, <1>12, <1>13, <1>14, AllocateInv, Zenon

LEMMA ReleaseInv == ASSUME PoolInv, NEW s \in Slots, Release(s) PROVE PoolInv'
<1> DEFINE blk == held[s].blk  n == held[s].n  b == Bucket(n)
<1>1. s \in Held /\ held[s] \in Grants
  BY DEF Release, Held, PoolInv, PoolTypes
<1>2. n \in Nat /\ blk \in Spans /\ Suits(blk, n)
  BY <1>1 DEF PoolInv, Grants
<1>3. deallocate(blk, n) /\ held' = [held EXCEPT ![s] = None]
  BY DEF Release
<1>4. /\ Held' = Held \ {s}
      /\ \A i \in Small : Cardinality(Out(i))' =
                          Cardinality(Out(i)) - (IF blk.cap = sizes[i] THEN 1 ELSE 0)
  BY <1>1, <1>3, SlotEmptied
<1>5. held' \in [Slots -> Grants \cup {None}]
  BY <1>3 DEF PoolInv, PoolTypes
<1>6. \A t \in Held' : Fits(held'[t]) /\ Suits(held'[t].blk, held'[t].n)
  <2>1. ASSUME NEW t \in Held' PROVE Fits(held'[t]) /\ Suits(held'[t].blk, held'[t].n)
    <3>1. t \in Held /\ t # s
      BY <1>4
    <3>2. t \in Slots /\ held'[t] = held[t]
      BY <1>3, <3>1 DEF PoolInv, PoolTypes, Held
    <3> QED
      BY <3>1, <3>2 DEF PoolInv
  <2> QED
    BY <2>1
<1>7. max_small \in Nat /\ max_size \in Nat /\ max_small <= max_size
  BY MaxSmall, PoolOf
<1> HIDE DEF n, blk
<1>8. CASE n <= max_small
  <2>1. b \in Small /\ blk.cap = sizes[b]
    BY <1>2, <1>8, PoolOf DEF Suits
  <2>2. small' = [small EXCEPT ![b].free = @ + 1] /\ large_buckets' = large_buckets
    BY <1>2, <1>3, <1>7, <1>8 DEF deallocate
  <2> HIDE DEF b
  <2>3. /\ small' \in [Small -> [allocated : Int, free : Int]]
        /\ small'[b].allocated = small[b].allocated /\ small'[b].free = small[b].free + 1
        /\ \A i \in Small : i # b => small'[i] = small[i]
    <3> DEFINE p == [small[b] EXCEPT !.free = small[b].free + 1]
    <3>1. small \in [Small -> [allocated : Int, free : Int]]
          /\ small[b] \in [allocated : Int, free : Int]
      BY <2>1 DEF PoolInv, PoolTypes
    <3>2. /\ p \in [allocated : Int, free : Int]
          /\ p.allocated = small[b].allocated /\ p.free = small[b].free + 1
      BY <3>1
    <3>3. small' = [small EXCEPT ![b] = p]
      BY <2>2
    <3> HIDE DEF p
    <3> QED
      BY <2>1, <3>1, <3>2, <3>3
  <2>4. Balanced'
    <3> SUFFICES ASSUME NEW i \in Small
                 PROVE  small'[i].allocated = small'[i].free + Cardinality(Out(i))'
      BY DEF Balanced
    <3>1. small[i].allocated = small[i].free + Cardinality(Out(i)) /\ Cardinality(Out(i)) \in Nat
      BY OutFinite DEF PoolInv, Balanced
    <3>2. small[i].free \in Int
      BY DEF PoolInv, PoolTypes
    <3>3. CASE i = b
      BY <1>4, <2>1, <2>3, <3>1, <3>2, <3>3
    <3>4. CASE i # b
      <4>1. blk.cap # sizes[i]
        BY <2>1, <3>4, SizesDiffer
      <4> QED
        BY <1>4, <2>3, <3>1, <3>4, <4>1
    <3> QED
      BY <3>3, <3>4
  <2>5. large_buckets' \in [Large -> Seq(Spans)] /\ Roomy'
    BY <2>2 DEF PoolInv, PoolTypes, Roomy
  <2> QED
    BY <1>5, <1>6, <2>3, <2>4, <2>5 DEF PoolInv, PoolTypes
<1>9. CASE n > max_small
  <2>1. deallocate_large(blk, n) /\ \A i \in Small : blk.cap # sizes[i]
    BY <1>2, <1>3, <1>7, <1>9 DEF deallocate, Suits
  <2>2. small' = small
    BY <2>1 DEF deallocate_large
  <2>3. large_buckets' \in [Large -> Seq(Spans)] /\ Roomy'
    <3>1. CASE n > max_size
      BY <2>1, <3>1 DEF deallocate_large, PoolInv, PoolTypes, Roomy
    <3>2. CASE n <= max_size
      <4>1. b \in Large /\ blk.cap >= sizes[b]
        BY <1>2, <1>7, <1>9, <3>2, PoolOf DEF Suits
      <4>2. large_buckets' = [large_buckets EXCEPT ![b] = <<blk>> \o @]
        BY <1>2, <1>7, <2>1, <3>2 DEF deallocate_large
      <4> HIDE DEF b
      <4> DEFINE old == large_buckets[b]  new == <<blk>> \o old
      <4>3. old \in Seq(Spans) /\ large_buckets'[b] = new
            /\ \A i \in Large : i # b => large_buckets'[i] = large_buckets[i]
        BY <4>1, <4>2 DEF PoolInv, PoolTypes
      <4>4. /\ new \in Seq(Spans)
            /\ \A k \in DOMAIN new : IF k = 1 THEN new[k] = blk
                                     ELSE k - 1 \in DOMAIN old /\ new[k] = old[k - 1]
        <5> HIDE DEF old
        <5> QED
          BY <1>2, <4>3
      <4>5. large_buckets' \in [Large -> Seq(Spans)]
        BY <4>1, <4>2, <4>4 DEF PoolInv, PoolTypes
      <4>6. ASSUME NEW i \in Large, NEW k \in DOMAIN large_buckets'[i]
            PROVE  large_buckets'[i][k].cap >= sizes[i]
        <5>1. CASE i = b
          <6>1. large_buckets'[i][k] = blk \/ \E j \in DOMAIN old : large_buckets'[i][k] = old[j]
            <7> HIDE DEF new
            <7> QED
              BY <4>3, <4>4, <4>6, <5>1
          <6> QED
            BY <4>1, <5>1, <6>1 DEF PoolInv, Roomy
        <5>2. CASE i # b
          BY <4>3, <4>6, <5>2 DEF PoolInv, Roomy
        <5> QED
          BY <5>1, <5>2
      <4> QED
        BY <4>5, <4>6 DEF Roomy
    <3> QED
      BY <1>2, <1>7, <3>1, <3>2
  <2>4. Balanced'
    BY <1>4, <2>1, <2>2, OutFinite DEF PoolInv, Balanced
  <2> QED
    BY <1>5, <1>6, <2>2, <2>3, <2>4 DEF PoolInv, PoolTypes
<1> QED
  BY <1>2, <1>7, <1>8, <1>9

LEMMA PoolReserveInv ==
  ASSUME PoolInv, NEW bytes \in {0, 2 * max_small}, pool_reserve(bytes) PROVE PoolInv'
<1> DEFINE b == Bucket(max_small)  k == bytes \div max_small
<1>1. b \in Small /\ max_small \in Nat \ {0}
  BY MaxSmall, PoolOf
<1>2. k \in Nat
  BY <1>1
<1>3. small' = [small EXCEPT ![b] = Stocked(@, k)] /\ held' = held /\ large_buckets' = large_buckets
  BY DEF pool_reserve
<1> HIDE DEF b, k
<1> DEFINE p == small[b]  q == Stocked(p, k)
<1>4. p \in [allocated : Int, free : Int] /\ q \in [allocated : Int, free : Int]
      /\ q.allocated - q.free = p.allocated - p.free
  BY <1>1, <1>2, StockedKeeps DEF PoolInv, PoolTypes
<1>5. small' \in [Small -> [allocated : Int, free : Int]] /\ small'[b] = q
      /\ \A i \in Small : i # b => small'[i] = small[i]
  BY <1>1, <1>3, <1>4 DEF PoolInv, PoolTypes
<1> HIDE DEF q
<1>6. Held' = Held /\ \A i \in Small : Out(i)' = Out(i)
  BY <1>3 DEF Held, Out
<1>7. Balanced'
  <2> SUFFICES ASSUME NEW i \in Small
               PROVE  small'[i].allocated = small'[i].free + Cardinality(Out(i))'
    BY DEF Balanced
  <2>1. small[i].allocated = small[i].free + Cardinality(Out(i)) /\ Cardinality(Out(i)) \in Nat
    BY OutFinite DEF PoolInv, Balanced
  <2>2. Cardinality(Out(i))' = Cardinality(Out(i))
    BY <1>6
  <2>3. CASE i = b
    BY <1>4, <1>5, <2>1, <2>2, <2>3
  <2>4. CASE i # b
    BY <1>5, <2>1, <2>2, <2>4
  <2> QED
    BY <2>3, <2>4
<1> QED
  BY <1>3, <1>5, <1>6, <1>7 DEF PoolInv, PoolTypes, Roomy

LEMMA PoolClearInv == ASSUME PoolInv, pool_clear PROVE PoolInv'
<1>1. small' = small /\ held' = held /\ large_buckets' = [i \in Large |-> <<>>]
  BY DEF pool_clear
<1>2. Held' = Held /\ \A i \in Small : Out(i)' = Out(i)
  BY <1>1 DEF Held, Out
<1>3. PoolTypes' /\ Roomy'
  BY <1>1 DEF PoolInv, PoolTypes, Roomy
<1>4. Balanced'
  BY <1>1, <1>2 DEF PoolInv, Balanced
<1> QED
  BY <1>1, <1>2, <1>3, <1>4 DEF PoolInv

LEMMA PoolInitInv == PoolInit => PoolInv
<1> SUFFICES ASSUME PoolInit PROVE PoolInv
  OBVIOUS
<1>1. held = [s \in Slots |-> None] /\ Held = {}
  BY DEF PoolInit, Held
<1>2. \A i \in Small : Out(i) = {} /\ Cardinality(Out(i)) = 0
  BY <1>1, FS_EmptySet DEF Out
<1>3. PoolTypes /\ Roomy
  BY <1>1, PoolsAssumption DEF PoolInit, PoolTypes, Roomy
<1>4. Balanced
  BY <1>2, PoolsAssumption DEF PoolInit, Balanced
<1> QED
  BY <1>1, <1>3, <1>4 DEF PoolInv

LEMMA PoolStutterInv == ASSUME PoolInv, UNCHANGED poolvars PROVE PoolInv'
<1>1. small' = small /\ held' = held /\ large_buckets' = large_buckets
  BY DEF poolvars
<1>2. Held' = Held /\ \A i \in Small : Out(i)' = Out(i)
  BY <1>1 DEF Held, Out
<1> QED
  BY <1>1, <1>2 DEF PoolInv, PoolTypes, Balanced, Roomy

\* The inductive invariant of the pools: what is held suits the pool that it will go
\* back to, and the small pools' books are balanced.
THEOREM PoolsInvariance == Spec => []PoolInv
<1>1. Init => PoolInv
  BY PoolInitInv DEF Init
<1>2. PoolInv /\ [Next]_vars => PoolInv'
  <2> SUFFICES ASSUME PoolInv, [Next]_vars PROVE PoolInv'
    OBVIOUS
  <2>1. ASSUME PoolNext PROVE PoolInv'
    <3>1. ASSUME NEW s \in Slots, NEW m \in Mallocs, p_malloc(s, m[1], m[2]) PROVE PoolInv'
      BY <3>1, MallocInv
    <3>2. ASSUME NEW s \in Slots, NEW r \in Requests, Allocate(s, r[1], r[2]) PROVE PoolInv'
      BY <3>2, AllocateCallInv
    <3>3. ASSUME NEW s \in Slots, Release(s) PROVE PoolInv'
      BY <3>3, ReleaseInv
    <3>4. ASSUME NEW bytes \in {0, 2 * max_small}, pool_reserve(bytes) PROVE PoolInv'
      BY <3>4, PoolReserveInv
    <3>5. CASE pool_clear
      BY <3>5, PoolClearInv
    <3> QED
      BY <2>1, <3>1, <3>2, <3>3, <3>4, <3>5 DEF PoolNext
  <2>2. ASSUME UNCHANGED poolvars PROVE PoolInv'
    BY <2>2, PoolStutterInv
  <2> QED
    BY <2>1, <2>2 DEF Next, vars
<1> QED
  BY <1>1, <1>2, PTL DEF Spec

\* Whoever holds memory has as much as was asked for, in place, behind its header, and
\* it goes back to the pool it came from, whatever power of two the header rounds to.
THEOREM MemoryFits == Spec => []HeldFit
<1>1. PoolInv => HeldFit
  BY DEF PoolInv, Balanced, Roomy, Fits, Out, HeldFit
<1> QED
  BY <1>1, PoolsInvariance, PTL

=============================================================================
