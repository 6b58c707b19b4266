------------------------- MODULE HazptrStackProofs -------------------------
(***************************************************************************)
(* Proofs about HazptrStack, for any number of threads, any finite set of  *)
(* addresses and any threshold: no acquired node is used after it has been *)
(* deleted, and every node is in exactly one place.                        *)
(***************************************************************************)
EXTENDS HazptrStack, FiniteSetTheorems, WellFoundedInduction, TLAPS

USE ThreadsAssumption, ThresholdAssumption, CellsAssumption

N == Cardinality(Cells)
Cell(s) == {s[k] : k \in 1 .. Len(s)}

LEMMA NType == N \in Nat
  BY FS_CardinalityType DEF N

---------------------------------------------------------------------------
(* Induction on a bounded counter, with the claim as a set.                *)

LEMMA LeastNat ==
  ASSUME NEW S \in SUBSET Nat, S # {} PROVE \E m \in S : \A k \in S : m <= k
<1>1. PICK m \in S : \A y \in S : <<y, m>> \notin OpToRel(<, Nat)
  BY NatLessThanWellFounded, WFMin, Zenon
<1>2. \A y \in S : ~(y < m)
  BY <1>1, Zenon DEF OpToRel
<1> QED
  BY <1>2

LEMMA UpTo ==
  ASSUME NEW n \in Nat, NEW S, 0 \in S, \A k \in 1 .. n : k - 1 \in S => k \in S
  PROVE  0 .. n \subseteq S
<1> SUFFICES ASSUME (0 .. n) \ S # {} PROVE FALSE
  OBVIOUS
<1> DEFINE T == (0 .. n) \ S
<1>1. PICK m \in T : \A k \in T : m <= k
  <2>1. T \in SUBSET Nat /\ T # {}
    OBVIOUS
  <2> HIDE DEF T
  <2> QED
    BY <2>1, LeastNat
<1>2. m \in 1 .. n /\ m - 1 \in 0 .. n /\ m - 1 \in S
  BY <1>1
<1> QED
  BY <1>1, <1>2

---------------------------------------------------------------------------
(* The list that head and the next pointers lead through is the one Nth    *)
(* walks.                                                                  *)

\* Of a list that has a chain no node occurs twice, so it fits into memory.
LEMMA ChainFits ==
  ASSUME NEW s, Chain(s), NEW S \in SUBSET Cells, Cell(s) \subseteq S
  PROVE  Len(s) \in Nat /\ Len(s) <= Cardinality(S) /\ Cardinality(S) \in Nat
<1>1. s \in Seq(Cells) /\ Len(s) \in Nat
  BY DEF Chain
<1>2. IsFiniteSet(S) /\ Cardinality(S) \in Nat
  BY FS_Subset, FS_CardinalityType
<1>3. \A i, k \in 1 .. Len(s) : s[i] = s[k] => i = k
  <2> SUFFICES ASSUME NEW i \in 1 .. Len(s), NEW k \in 1 .. Len(s), s[i] = s[k] PROVE i = k
    OBVIOUS
  <2>1. node[s[i]].length = Len(s) - i + 1 /\ node[s[k]].length = Len(s) - k + 1
    BY DEF Chain
  <2> QED
    BY <1>1, <2>1
<1>4. s \in [1 .. Len(s) -> S]
  BY <1>1 DEF Cell
<1>5. s \in Injection(1 .. Len(s), S)
  BY <1>3, <1>4 DEF Injection, IsInjective
<1>6. Cardinality(1 .. Len(s)) <= Cardinality(S)
  BY <1>2, <1>5, FS_Injection
<1>7. Cardinality(1 .. Len(s)) = Len(s)
  <2>1. PICK n : n = Len(s) /\ n \in Nat /\ n \in Int /\ 1 \in Int
    BY <1>1
  <2>2. Cardinality(1 .. n) = IF 1 > n THEN 0 ELSE n - 1 + 1
    BY <2>1, FS_Interval, Zenon
  <2> QED
    BY <2>1, <2>2
<1> QED
  BY <1>1, <1>2, <1>6, <1>7

LEMMA NthIs ==
  ASSUME NEW s, Chain(s)
  PROVE  Nth = [k \in 0 .. N |-> IF k < Len(s) THEN s[k + 1] ELSE nullptr]
<1> DEFINE G == [k \in 0 .. N |-> IF k < Len(s) THEN s[k + 1] ELSE nullptr]
           F(g) == [k \in 0 .. N |->
                      IF k = 0 THEN head
                      ELSE IF g[k - 1] = nullptr THEN nullptr ELSE node[g[k - 1]].next]
<1>1. s \in Seq(Cells) /\ Len(s) \in Nat /\ N \in Nat
  BY NType DEF Chain
<1>2. G = F(G)
  <2> SUFFICES ASSUME NEW k \in 0 .. N PROVE G[k] = F(G)[k]
    OBVIOUS
  <2>1. CASE k = 0
    <3>1. head = IF Len(s) > 0 THEN s[1] ELSE nullptr
      BY <1>1 DEF Chain
    <3> QED
      BY <1>1, <2>1, <3>1
  <2>2. CASE k # 0 /\ k - 1 < Len(s)
    <3>1. k \in 1 .. Len(s) /\ s[k] \in Cells
      BY <1>1, <2>2
    <3>2. node[s[k]].next = IF k = Len(s) THEN nullptr ELSE s[k + 1]
      BY <3>1 DEF Chain
    <3>3. G[k - 1] = s[k] /\ s[k] # nullptr
      BY <1>1, <2>2, <3>1
    <3> QED
      BY <1>1, <2>2, <3>1, <3>2, <3>3
  <2>3. CASE k # 0 /\ ~(k - 1 < Len(s))
    BY <1>1, <2>3
  <2> QED
    BY <2>1, <2>2, <2>3
<1>3. Nth = CHOOSE g : g = F(g)
  BY DEF Nth, N
<1>4. Nth = F(Nth)
  <2> HIDE DEF F
  <2> QED
    BY <1>2, <1>3, Zenon
<1>5. 0 .. N \subseteq {k \in 0 .. N : Nth[k] = G[k]}
  <2> DEFINE S == {k \in 0 .. N : Nth[k] = G[k]}
  <2>1. 0 \in S
    <3>1. Nth[0] = F(Nth)[0] /\ G[0] = F(G)[0]
      <4> HIDE DEF F, G
      <4> QED
        BY <1>2, <1>4
    <3>2. F(Nth)[0] = head /\ F(G)[0] = head
      <4> HIDE DEF G
      <4> QED
        BY <1>1
    <3> QED
      BY <1>1, <3>1, <3>2
  <2>2. ASSUME NEW k \in 1 .. N, k - 1 \in S PROVE k \in S
    <3>1. Nth[k] = F(Nth)[k] /\ G[k] = F(G)[k]
      BY <1>2, <1>4
    <3>2. Nth[k - 1] = G[k - 1]
      BY <2>2
    <3>3. F(Nth)[k] = F(G)[k]
      <4> HIDE DEF G
      <4> QED
        BY <3>2, <1>1
    <3> QED
      BY <3>1, <3>3, <1>1
  <2>3. \A k \in 1 .. N : k - 1 \in S => k \in S
    BY <2>2
  <2> HIDE DEF S
  <2>4. 0 .. N \subseteq S
    BY <1>1, <2>1, <2>3, UpTo, Zenon
  <2> QED
    BY <2>4 DEF S
<1> QED
  <2>1. \A k \in 0 .. N : Nth[k] = G[k]
    BY <1>5
  <2>2. Nth = [k \in 0 .. N |-> Nth[k]]
    BY <1>4
  <2> HIDE DEF F
  <2> QED
    BY <2>1, <2>2

LEMMA ListIs ==
  \A s : Chain(s) => /\ Depth = Len(s)
                     /\ TheList = s
                     /\ InList = Cell(s)
<1> SUFFICES ASSUME NEW s, Chain(s)
             PROVE  Depth = Len(s) /\ TheList = s /\ InList = Cell(s)
  OBVIOUS
<1>1. s \in Seq(Cells) /\ Len(s) \in Nat /\ N \in Nat /\ \A k \in 1 .. Len(s) : s[k] \in Cells
  BY NType DEF Chain
<1>2. Cell(s) \in SUBSET Cells
  BY <1>1 DEF Cell
<1>3. Len(s) <= N
  BY <1>2, ChainFits DEF N
<1>4. Nth = [k \in 0 .. N |-> IF k < Len(s) THEN s[k + 1] ELSE nullptr]
  BY NthIs
<1>5. \A k \in 0 .. N : Nth[k] # nullptr <=> k < Len(s)
  BY <1>1, <1>4
<1>6. Depth = Len(s)
  <2>1. {k \in DOMAIN Nth : Nth[k] # nullptr} = 0 .. Len(s) - 1
    BY <1>1, <1>3, <1>4, <1>5
  <2>2. Cardinality(0 .. Len(s) - 1) = Len(s)
    <3> DEFINE b == Len(s) - 1
    <3>1. b \in Int /\ 0 \in Int /\ Len(s) = IF 0 > b THEN 0 ELSE b - 0 + 1
      BY <1>1
    <3> HIDE DEF b
    <3>2. Cardinality(0 .. b) = Len(s)
      BY <3>1, FS_Interval
    <3> QED
      BY <3>2 DEF b
  <2> QED
    BY <2>1, <2>2 DEF Depth
<1>7. TheList = s
  <2>1. TheList = [k \in 1 .. Len(s) |-> s[k]]
    BY <1>1, <1>3, <1>4, <1>6 DEF TheList
  <2> QED
    BY <1>1, <2>1
<1>8. InList = Cell(s)
  <2>1. ASSUME NEW p \in InList PROVE p \in Cell(s)
    <3>1. PICK k \in 0 .. N : p = Nth[k] /\ p # nullptr
      BY <1>4 DEF InList
    <3>2. k + 1 \in 1 .. Len(s) /\ p = s[k + 1]
      BY <1>1, <1>4, <3>1
    <3> QED
      BY <3>2 DEF Cell
  <2>2. ASSUME NEW p \in Cell(s) PROVE p \in InList
    <3>1. PICK k \in 1 .. Len(s) : p = s[k]
      BY DEF Cell
    <3>2. k - 1 \in 0 .. N /\ Nth[k - 1] = p /\ p # nullptr
      BY <1>1, <1>3, <1>4, <3>1
    <3> QED
      BY <1>4, <3>2 DEF InList
  <2> QED
    BY <2>1, <2>2
<1> QED
  BY <1>6, <1>7, <1>8

ChainWalked == \A s : Chain(s) => Depth = Len(s) /\ TheList = s /\ InList = Cell(s)

LEMMA ListIsNext == ChainWalked'
<1>1. ChainWalked
  BY ListIs DEF ChainWalked
<1> QED
  BY <1>1, PTL

\* What has to be shown of a step that leaves s as the list.
LEMMA Becomes ==
  ASSUME NEW s, s \in Seq(Cells),
         head' = IF s = <<>> THEN nullptr ELSE s[1],
         \A k \in 1 .. Len(s) :
           /\ node'[s[k]].next = IF k = Len(s) THEN nullptr ELSE s[k + 1]
           /\ node'[s[k]].length = Len(s) - k + 1
  PROVE  Chain(TheList)' /\ TheList' = s /\ InList' = Cell(s)
<1>1. Chain(s)'
  BY DEF Chain
<1>2. TheList' = s /\ InList' = Cell(s)
  BY <1>1, ListIsNext DEF ChainWalked, Cell
<1> QED
  BY <1>1, <1>2

LEMMA SameList ==
  ASSUME IInv, head' = head, \A p \in InList : node'[p] = node[p]
  PROVE  Chain(TheList)' /\ InList' = InList
<1>1. PICK s : s = TheList
  OBVIOUS
<1>2. Chain(s) /\ InList = Cell(s)
  BY <1>1, ListIs DEF IInv
<1>3. \A k \in 1 .. Len(s) : node'[s[k]] = node[s[k]]
  BY <1>2 DEF Cell
<1> QED
  BY <1>2, <1>3, Becomes DEF Chain

---------------------------------------------------------------------------
(* A step of one thread leaves what the others know as it is.              *)

Same(u) ==
  /\ pc'[u] = pc[u] /\ apc'[u] = apc[u] /\ mine'[u] = mine[u] /\ next'[u] = next[u]
  /\ announcements'[u] = announcements[u] /\ result'[u] = result[u]
  /\ slot'[u] = slot[u] /\ announced'[u] = announced[u] /\ deferred'[u] = deferred[u]
  /\ retired'[u] = retired[u]

\* The nodes t may not change or delete in a step: those others have acquired.
Shared(t) == {result[u] : u \in {v \in Threads \ {t} : Holds(v)}}

LEMMA StepInv ==
  ASSUME IInv, NEW t \in Threads,
         \A u \in Threads \ {t} : Same(u),
         ~closed, ~closed',
         \A u \in Threads \ {t} : mine[u] # nullptr => node'[mine[u]] = node[mine[u]],
         \A p \in Shared(t) : p \in live' /\ node'[p] = node[p] /\ mine'[t] # p,
         \A u \in Threads \ {t} :
           Holds(u) /\ result[u] \in deferred'[t] /\ slot'[t] > u => result[u] \in announced'[t],
         TypeOK', Chain(TheList)', InOnePlace', (\A p \in live : node[p].t \in Values)',
         CallInv(t)', Protected(t)'
  PROVE  IInv'
<1>1. ASSUME NEW u \in Threads \ {t} PROVE CallInv(u)' /\ Protected(u)'
  <2>1. CallInv(u) /\ Protected(u) /\ TypeOK /\ Same(u)
    BY DEF IInv
  <2>2. Holds(u)' <=> Holds(u)
    BY <2>1 DEF Same, Holds, Acquired, At, HazAt
  <2>3. Holds(u) => node'[result[u]] = node[result[u]] /\ result[u] \in live' /\ mine'[t] # result[u]
    BY DEF Shared
  <2>4. Holds(u) => LengthAt(result[u])' = LengthAt(result[u])
    BY <2>1, <2>3 DEF LengthAt, Same
  <2>5. result[u] = nullptr => LengthAt(result[u])' = LengthAt(result[u])
    BY <2>1 DEF LengthAt, Same
  <2>6. mine[u] # nullptr => node'[mine[u]] = node[mine[u]]
    OBVIOUS
  <2>7. CallInv(u)'
    <3>1. Acquired(u, "push") \/ At(u, "push_cas") => LengthAt(result[u])' = LengthAt(result[u])
      BY <2>4, <2>5 DEF Holds, Acquired, At
    <3>2. At(u, "pop_cas") => node'[result[u]].next = node[result[u]].next
      BY <2>1, <2>3 DEF Holds, CallInv, At
    <3> QED
      BY <2>1, <2>6, <3>1, <3>2 DEF CallInv, Same, Acquired, At, HazAt
  <2>8. Protected(u)'
    <3> SUFFICES ASSUME Holds(u)
                 PROVE  /\ announcements'[u] = result'[u]
                        /\ result'[u] \in live'
                        /\ \A v \in Threads :
                             /\ mine'[v] # result'[u]
                             /\ result'[u] \in deferred'[v] /\ slot'[v] > u
                                  => result'[u] \in announced'[v]
      BY <2>2 DEF Protected
    <3>1. announcements'[u] = result'[u] /\ result'[u] = result[u] /\ result'[u] \in live'
      BY <2>1, <2>3 DEF Protected, Same
    <3>2. ASSUME NEW v \in Threads
          PROVE  /\ mine'[v] # result[u]
                 /\ result[u] \in deferred'[v] /\ slot'[v] > u => result[u] \in announced'[v]
      <4>1. CASE v = t
        BY <2>3, <4>1
      <4>2. CASE v # t
        BY <2>1, <4>2 DEF Protected, Same
      <4> QED
        BY <4>1, <4>2
    <3> QED
      BY <3>1, <3>2
  <2> QED
    BY <2>7, <2>8
<1> QED
  BY <1>1 DEF IInv

\* Steps that leave the list and what each thread has put aside alone.
LEMMA QuietInv ==
  ASSUME IInv, NEW t \in Threads,
         \A u \in Threads \ {t} : Same(u),
         ~closed, UNCHANGED <<head, node, live, mine, retired, deferred, closed>>,
         Unlinked(t)' = Unlinked(t),
         \A u \in Threads \ {t} :
           Holds(u) /\ result[u] \in deferred'[t] /\ slot'[t] > u => result[u] \in announced'[t],
         TypeOK', CallInv(t)', Protected(t)'
  PROVE  IInv'
<1>1. Chain(TheList)' /\ InList' = InList
  BY SameList
<1>2. \A u \in Threads : Unlinked(u)' = Unlinked(u)
  BY DEF Unlinked, Same
<1>3. \A u \in Threads : Held(u)' = Held(u) /\ Made(u)' = Made(u) /\ PutAside(u)' = PutAside(u)
  BY <1>2 DEF Held, Made, PutAside
<1>4. InOnePlace'
  BY <1>1, <1>2, <1>3 DEF IInv, InOnePlace
<1>5. \A p \in Shared(t) : p \in live' /\ node'[p] = node[p] /\ mine'[t] # p
  BY DEF Shared, IInv, Protected
<1>6. (\A p \in live : node[p].t \in Values)'
  BY DEF IInv
<1> QED
  BY <1>1, <1>4, <1>5, <1>6, StepInv

---------------------------------------------------------------------------
(* The steps that leave the list and the nodes put aside alone             *)

USE DEF At, Go, Acquired, HazAt, HazGo, hazvars, scanvars, nodevars

LEMMA PushReleaseInv ==
  ASSUME IInv, NEW t \in Threads, PushRelease(t) PROVE IInv'
<1>1. TypeOK /\ CallInv(t) /\ Protected(t)
  BY DEF IInv
<1>2. ~closed
  BY <1>1 DEF CallInv, PushRelease, Acquired, At
<1>3. TypeOK'
  BY <1>1 DEF PushRelease, release, TypeOK, HazTypeOK, PCs, Pointers
<1>4. \A u \in Threads \ {t} : Same(u)
  BY <1>1 DEF PushRelease, release, TypeOK, HazTypeOK, Same
<1>5. UNCHANGED <<head, node, live, mine, retired, scanvars, closed>>
  BY DEF PushRelease, release
<1>6. Unlinked(t)' = Unlinked(t)
  BY <1>1 DEF PushRelease, release, Unlinked, TypeOK, HazTypeOK
<1>7. CallInv(t)'
  BY <1>1 DEF PushRelease, release, CallInv, Protected, Holds, LengthAt, TypeOK, HazTypeOK, PCs
<1>8. Protected(t)'
  BY <1>1 DEF PushRelease, release, CallInv, Protected, Holds, TypeOK, HazTypeOK
<1>9. \A u \in Threads \ {t} :
        Holds(u) /\ result[u] \in deferred'[t] /\ slot'[t] > u => result[u] \in announced'[t]
  BY <1>5 DEF IInv, Protected
<1> QED
  BY <1>2, <1>3, <1>4, <1>5, <1>6, <1>7, <1>8, <1>9, QuietInv

LEMMA PopInv ==
  ASSUME IInv, NEW t \in Threads, Pop(t) PROVE IInv'
<1>1. TypeOK /\ CallInv(t) /\ Protected(t)
  BY DEF IInv
<1>2. ~closed
  BY <1>1 DEF CallInv, Pop, Acquired, At
<1>3. TypeOK'
  BY <1>1 DEF Pop, Acquire, TypeOK, HazTypeOK, PCs, Pointers
<1>4. \A u \in Threads \ {t} : Same(u)
  BY <1>1 DEF Pop, Acquire, TypeOK, HazTypeOK, Same
<1>5. UNCHANGED <<head, node, live, mine, retired, scanvars, closed>>
  BY DEF Pop, Acquire
<1>6. Unlinked(t)' = Unlinked(t)
  BY <1>1 DEF Pop, Acquire, Unlinked, TypeOK, HazTypeOK
<1>7. CallInv(t)'
  BY <1>1 DEF Pop, Acquire, CallInv, Protected, Holds, LengthAt, TypeOK, HazTypeOK, PCs
<1>8. Protected(t)'
  BY <1>1 DEF Pop, Acquire, CallInv, Protected, Holds, TypeOK, HazTypeOK
<1>9. \A u \in Threads \ {t} :
        Holds(u) /\ result[u] \in deferred'[t] /\ slot'[t] > u => result[u] \in announced'[t]
  BY <1>5 DEF IInv, Protected
<1> QED
  BY <1>2, <1>3, <1>4, <1>5, <1>6, <1>7, <1>8, <1>9, QuietInv

LEMMA PopNothingInv ==
  ASSUME IInv, NEW t \in Threads, PopNothing(t) PROVE IInv'
<1>1. TypeOK /\ CallInv(t) /\ Protected(t)
  BY DEF IInv
<1>2. ~closed
  BY <1>1 DEF CallInv, PopNothing, Acquired, At
<1>3. TypeOK'
  BY <1>1 DEF PopNothing, TypeOK, HazTypeOK, PCs, Pointers
<1>4. \A u \in Threads \ {t} : Same(u)
  BY <1>1 DEF PopNothing, TypeOK, HazTypeOK, Same
<1>5. UNCHANGED <<head, node, live, mine, retired, scanvars, closed>>
  BY DEF PopNothing
<1>6. Unlinked(t)' = Unlinked(t)
  BY <1>1 DEF PopNothing, Unlinked, TypeOK, HazTypeOK
<1>7. CallInv(t)'
  BY <1>1 DEF PopNothing, CallInv, Protected, Holds, LengthAt, TypeOK, HazTypeOK, PCs
<1>8. Protected(t)'
  BY <1>1 DEF PopNothing, CallInv, Protected, Holds, TypeOK, HazTypeOK
<1>9. \A u \in Threads \ {t} :
        Holds(u) /\ result[u] \in deferred'[t] /\ slot'[t] > u => result[u] \in announced'[t]
  BY <1>5 DEF IInv, Protected
<1> QED
  BY <1>2, <1>3, <1>4, <1>5, <1>6, <1>7, <1>8, <1>9, QuietInv

LEMMA ReadNextInv ==
  ASSUME IInv, NEW t \in Threads, ReadNext(t) PROVE IInv'
<1>1. TypeOK /\ CallInv(t) /\ Protected(t)
  BY DEF IInv
<1>2. ~closed
  BY <1>1 DEF CallInv, ReadNext, Acquired, At
<1>3. TypeOK'
  BY <1>1 DEF ReadNext, TypeOK, HazTypeOK, PCs, Pointers
<1>4. \A u \in Threads \ {t} : Same(u)
  BY <1>1 DEF ReadNext, TypeOK, HazTypeOK, Same
<1>5. UNCHANGED <<head, node, live, mine, retired, scanvars, closed>>
  BY DEF ReadNext
<1>6. Unlinked(t)' = Unlinked(t)
  BY <1>1 DEF ReadNext, Unlinked, TypeOK, HazTypeOK
<1>7. CallInv(t)'
  BY <1>1 DEF ReadNext, CallInv, Protected, Holds, LengthAt, TypeOK, HazTypeOK, PCs
<1>8. Protected(t)'
  BY <1>1 DEF ReadNext, CallInv, Protected, Holds, TypeOK, HazTypeOK
<1>9. \A u \in Threads \ {t} :
        Holds(u) /\ result[u] \in deferred'[t] /\ slot'[t] > u => result[u] \in announced'[t]
  BY <1>5 DEF IInv, Protected
<1> QED
  BY <1>2, <1>3, <1>4, <1>5, <1>6, <1>7, <1>8, <1>9, QuietInv

LEMMA PopLosesInv ==
  ASSUME IInv, NEW t \in Threads, PopLoses(t) PROVE IInv'
<1>1. TypeOK /\ CallInv(t) /\ Protected(t)
  BY DEF IInv
<1>2. ~closed
  BY <1>1 DEF CallInv, PopLoses, Acquired, At
<1>3. TypeOK'
  BY <1>1 DEF PopLoses, Acquire, TypeOK, HazTypeOK, PCs, Pointers
<1>4. \A u \in Threads \ {t} : Same(u)
  BY <1>1 DEF PopLoses, Acquire, TypeOK, HazTypeOK, Same
<1>5. UNCHANGED <<head, node, live, mine, retired, scanvars, closed>>
  BY DEF PopLoses, Acquire
<1>6. Unlinked(t)' = Unlinked(t)
  BY <1>1 DEF PopLoses, Acquire, Unlinked, TypeOK, HazTypeOK
<1>7. CallInv(t)'
  BY <1>1 DEF PopLoses, Acquire, CallInv, Protected, Holds, LengthAt, TypeOK, HazTypeOK, PCs
<1>8. Protected(t)'
  BY <1>1 DEF PopLoses, Acquire, CallInv, Protected, Holds, TypeOK, HazTypeOK
<1>9. \A u \in Threads \ {t} :
        Holds(u) /\ result[u] \in deferred'[t] /\ slot'[t] > u => result[u] \in announced'[t]
  BY <1>5 DEF IInv, Protected
<1> QED
  BY <1>2, <1>3, <1>4, <1>5, <1>6, <1>7, <1>8, <1>9, QuietInv

LEMMA TakeValueInv ==
  ASSUME IInv, NEW t \in Threads, TakeValue(t) PROVE IInv'
<1>1. TypeOK /\ CallInv(t) /\ Protected(t)
  BY DEF IInv
<1>2. ~closed
  BY <1>1 DEF CallInv, TakeValue, Acquired, At
<1>3. TypeOK'
  BY <1>1 DEF TakeValue, TypeOK, HazTypeOK, PCs, Pointers
<1>4. \A u \in Threads \ {t} : Same(u)
  BY <1>1 DEF TakeValue, TypeOK, HazTypeOK, Same
<1>5. UNCHANGED <<head, node, live, mine, retired, scanvars, closed>>
  BY DEF TakeValue
<1>6. Unlinked(t)' = Unlinked(t)
  BY <1>1 DEF TakeValue, Unlinked, TypeOK, HazTypeOK
<1>7. CallInv(t)'
  BY <1>1 DEF TakeValue, CallInv, Protected, Holds, LengthAt, TypeOK, HazTypeOK, PCs
<1>8. Protected(t)'
  BY <1>1 DEF TakeValue, CallInv, Protected, Holds, TypeOK, HazTypeOK
<1>9. \A u \in Threads \ {t} :
        Holds(u) /\ result[u] \in deferred'[t] /\ slot'[t] > u => result[u] \in announced'[t]
  BY <1>5 DEF IInv, Protected
<1> QED
  BY <1>2, <1>3, <1>4, <1>5, <1>6, <1>7, <1>8, <1>9, QuietInv

LEMMA PopReleaseInv ==
  ASSUME IInv, NEW t \in Threads, PopRelease(t) PROVE IInv'
<1>1. TypeOK /\ CallInv(t) /\ Protected(t)
  BY DEF IInv
<1>2. ~closed
  BY <1>1 DEF CallInv, PopRelease, Acquired, At
<1>3. TypeOK'
  BY <1>1 DEF PopRelease, release, TypeOK, HazTypeOK, PCs, Pointers
<1>4. \A u \in Threads \ {t} : Same(u)
  BY <1>1 DEF PopRelease, release, TypeOK, HazTypeOK, Same
<1>5. UNCHANGED <<head, node, live, mine, retired, scanvars, closed>>
  BY DEF PopRelease, release
<1>6. Unlinked(t)' = Unlinked(t)
  BY <1>1 DEF PopRelease, release, Unlinked, TypeOK, HazTypeOK
<1>7. CallInv(t)'
  BY <1>1 DEF PopRelease, release, CallInv, Protected, Holds, LengthAt, TypeOK, HazTypeOK, PCs
<1>8. Protected(t)'
  BY <1>1 DEF PopRelease, release, CallInv, Protected, Holds, TypeOK, HazTypeOK
<1>9. \A u \in Threads \ {t} :
        Holds(u) /\ result[u] \in deferred'[t] /\ slot'[t] > u => result[u] \in announced'[t]
  BY <1>5 DEF IInv, Protected
<1> QED
  BY <1>2, <1>3, <1>4, <1>5, <1>6, <1>7, <1>8, <1>9, QuietInv

LEMMA MeasureStackInv ==
  ASSUME IInv, NEW t \in Threads, MeasureStack(t) PROVE IInv'
<1>1. TypeOK /\ CallInv(t) /\ Protected(t)
  BY DEF IInv
<1>2. ~closed
  BY <1>1 DEF CallInv, MeasureStack, Acquired, At
<1>3. TypeOK'
  BY <1>1 DEF MeasureStack, Acquire, TypeOK, HazTypeOK, PCs, Pointers
<1>4. \A u \in Threads \ {t} : Same(u)
  BY <1>1 DEF MeasureStack, Acquire, TypeOK, HazTypeOK, Same
<1>5. UNCHANGED <<head, node, live, mine, retired, scanvars, closed>>
  BY DEF MeasureStack, Acquire
<1>6. Unlinked(t)' = Unlinked(t)
  BY <1>1 DEF MeasureStack, Acquire, Unlinked, TypeOK, HazTypeOK
<1>7. CallInv(t)'
  BY <1>1 DEF MeasureStack, Acquire, CallInv, Protected, Holds, LengthAt, TypeOK, HazTypeOK, PCs
<1>8. Protected(t)'
  BY <1>1 DEF MeasureStack, Acquire, CallInv, Protected, Holds, TypeOK, HazTypeOK
<1>9. \A u \in Threads \ {t} :
        Holds(u) /\ result[u] \in deferred'[t] /\ slot'[t] > u => result[u] \in announced'[t]
  BY <1>5 DEF IInv, Protected
<1> QED
  BY <1>2, <1>3, <1>4, <1>5, <1>6, <1>7, <1>8, <1>9, QuietInv

LEMMA ReadLengthInv ==
  ASSUME IInv, NEW t \in Threads, ReadLength(t) PROVE IInv'
<1>1. TypeOK /\ CallInv(t) /\ Protected(t)
  BY DEF IInv
<1>2. ~closed
  BY <1>1 DEF CallInv, ReadLength, Acquired, At
<1>3. TypeOK'
  BY <1>1 DEF ReadLength, TypeOK, HazTypeOK, PCs, Pointers
<1>4. \A u \in Threads \ {t} : Same(u)
  BY <1>1 DEF ReadLength, TypeOK, HazTypeOK, Same
<1>5. UNCHANGED <<head, node, live, mine, retired, scanvars, closed>>
  BY DEF ReadLength
<1>6. Unlinked(t)' = Unlinked(t)
  BY <1>1 DEF ReadLength, Unlinked, TypeOK, HazTypeOK
<1>7. CallInv(t)'
  BY <1>1 DEF ReadLength, CallInv, Protected, Holds, LengthAt, TypeOK, HazTypeOK, PCs
<1>8. Protected(t)'
  BY <1>1 DEF ReadLength, CallInv, Protected, Holds, TypeOK, HazTypeOK
<1>9. \A u \in Threads \ {t} :
        Holds(u) /\ result[u] \in deferred'[t] /\ slot'[t] > u => result[u] \in announced'[t]
  BY <1>5 DEF IInv, Protected
<1> QED
  BY <1>2, <1>3, <1>4, <1>5, <1>6, <1>7, <1>8, <1>9, QuietInv

LEMMA SizeReleaseInv ==
  ASSUME IInv, NEW t \in Threads, SizeRelease(t) PROVE IInv'
<1>1. TypeOK /\ CallInv(t) /\ Protected(t)
  BY DEF IInv
<1>2. ~closed
  BY <1>1 DEF CallInv, SizeRelease, Acquired, At
<1>3. TypeOK'
  BY <1>1 DEF SizeRelease, release, TypeOK, HazTypeOK, PCs, Pointers
<1>4. \A u \in Threads \ {t} : Same(u)
  BY <1>1 DEF SizeRelease, release, TypeOK, HazTypeOK, Same
<1>5. UNCHANGED <<head, node, live, mine, retired, scanvars, closed>>
  BY DEF SizeRelease, release
<1>6. Unlinked(t)' = Unlinked(t)
  BY <1>1 DEF SizeRelease, release, Unlinked, TypeOK, HazTypeOK
<1>7. CallInv(t)'
  BY <1>1 DEF SizeRelease, release, CallInv, Protected, Holds, LengthAt, TypeOK, HazTypeOK, PCs
<1>8. Protected(t)'
  BY <1>1 DEF SizeRelease, release, CallInv, Protected, Holds, TypeOK, HazTypeOK
<1>9. \A u \in Threads \ {t} :
        Holds(u) /\ result[u] \in deferred'[t] /\ slot'[t] > u => result[u] \in announced'[t]
  BY <1>5 DEF IInv, Protected
<1> QED
  BY <1>2, <1>3, <1>4, <1>5, <1>6, <1>7, <1>8, <1>9, QuietInv


LEMMA LoadPointerInv ==
  ASSUME IInv, NEW t \in Threads, AcquireHead(t), LoadPointer(t, head) PROVE IInv'
<1>1. TypeOK /\ CallInv(t) /\ Protected(t)
  BY DEF IInv
<1>2. ~closed
  BY <1>1 DEF CallInv, LoadPointer
<1>3. TypeOK'
  BY <1>1 DEF AcquireHead, LoadPointer, TypeOK, HazTypeOK, PCs, Pointers
<1>4. \A u \in Threads \ {t} : Same(u)
  BY <1>1 DEF AcquireHead, LoadPointer, TypeOK, HazTypeOK, Same
<1>5. UNCHANGED <<head, node, live, mine, retired, scanvars, closed>>
  BY DEF AcquireHead, LoadPointer
<1>6. Unlinked(t)' = Unlinked(t)
  BY <1>1 DEF AcquireHead, LoadPointer, Unlinked, CallInv, TypeOK, HazTypeOK
<1>7. CallInv(t)'
  BY <1>1 DEF AcquireHead, LoadPointer, CallInv, TypeOK, HazTypeOK, PCs
<1>8. Protected(t)'
  BY <1>1 DEF AcquireHead, LoadPointer, CallInv, Protected, Holds, TypeOK, HazTypeOK
<1>9. \A u \in Threads \ {t} :
        Holds(u) /\ result[u] \in deferred'[t] /\ slot'[t] > u => result[u] \in announced'[t]
  BY <1>5 DEF IInv, Protected
<1> QED
  BY <1>2, <1>3, <1>4, <1>5, <1>6, <1>7, <1>8, <1>9, QuietInv

LEMMA AnnounceInv ==
  ASSUME IInv, NEW t \in Threads, AcquireHead(t), Announce(t) PROVE IInv'
<1>1. TypeOK /\ CallInv(t) /\ Protected(t)
  BY DEF IInv
<1>2. ~closed
  BY <1>1 DEF CallInv, Announce
<1>3. TypeOK'
  BY <1>1 DEF AcquireHead, Announce, TypeOK, HazTypeOK, PCs, Pointers
<1>4. \A u \in Threads \ {t} : Same(u)
  BY <1>1 DEF AcquireHead, Announce, TypeOK, HazTypeOK, Same
<1>5. UNCHANGED <<head, node, live, mine, retired, scanvars, closed>>
  BY DEF AcquireHead, Announce
<1>6. Unlinked(t)' = Unlinked(t)
  BY <1>1 DEF AcquireHead, Announce, Unlinked, CallInv, TypeOK, HazTypeOK
<1>7. CallInv(t)'
  BY <1>1 DEF AcquireHead, Announce, CallInv, TypeOK, HazTypeOK, PCs
<1>8. Protected(t)'
  BY <1>1 DEF AcquireHead, Announce, CallInv, Protected, Holds, TypeOK, HazTypeOK
<1>9. \A u \in Threads \ {t} :
        Holds(u) /\ result[u] \in deferred'[t] /\ slot'[t] > u => result[u] \in announced'[t]
  BY <1>5 DEF IInv, Protected
<1> QED
  BY <1>2, <1>3, <1>4, <1>5, <1>6, <1>7, <1>8, <1>9, QuietInv

\* The heart of the matter: a pointer found in head once more after it has been
\* announced leads into the list, so nobody has put it aside yet, and there is
\* room for one more node if the caller has made one.
LEMMA HeadIsShared ==
  ASSUME IInv, head # nullptr
  PROVE  /\ head \in live
         /\ \A u \in Threads : mine[u] # head /\ head \notin deferred[u]
         /\ \A u \in Threads : mine[u] # nullptr => node[head].length < Cardinality(Cells)
<1>1. PICK s : s = TheList
  OBVIOUS
<1>2. Chain(s) /\ InList = Cell(s)
  BY <1>1, ListIs DEF IInv
<1>3. s \in Seq(Cells) /\ s # <<>> /\ head = s[1] /\ 1 \in 1 .. Len(s)
  BY <1>2 DEF Chain
<1>4. head \in InList /\ node[head].length = Len(s)
  BY <1>2, <1>3 DEF Cell, Chain
<1>5. head \in live
  BY <1>4 DEF IInv, InOnePlace
<1>6. ASSUME NEW u \in Threads PROVE mine[u] # head /\ head \notin deferred[u]
  BY <1>4 DEF IInv, InOnePlace, Held, Made, PutAside
<1>7. ASSUME NEW u \in Threads, mine[u] # nullptr PROVE node[head].length < Cardinality(Cells)
  <2>1. mine[u] \in Cells /\ mine[u] \notin InList
    BY <1>7 DEF IInv, InOnePlace, Held, Made, TypeOK, Pointers
  <2> DEFINE S == Cells \ {mine[u]}
  <2>2. S \in SUBSET Cells /\ Cell(s) \subseteq S
    BY <1>2, <1>3, <2>1 DEF Cell
  <2>3. Len(s) \in Nat /\ Len(s) <= Cardinality(S)
    <3> HIDE DEF S
    <3> QED
      BY <1>2, <2>2, ChainFits
  <2>4. Cardinality(S) = Cardinality(Cells) - 1
    BY <2>1, FS_RemoveElement
  <2> QED
    BY <1>4, <2>3, <2>4, NType DEF N
<1> QED
  BY <1>5, <1>6, <1>7

LEMMA ValidateInv ==
  ASSUME IInv, NEW t \in Threads, AcquireHead(t), Validate(t, head) PROVE IInv'
<1>1. TypeOK /\ CallInv(t) /\ Protected(t)
  BY DEF IInv
<1>2. ~closed
  BY <1>1 DEF CallInv, Validate
<1>3. TypeOK'
  BY <1>1 DEF AcquireHead, Validate, TypeOK, HazTypeOK, PCs, Pointers
<1>4. \A u \in Threads \ {t} : Same(u)
  BY <1>1 DEF AcquireHead, Validate, TypeOK, HazTypeOK, Same
<1>5. UNCHANGED <<head, node, live, mine, retired, scanvars, closed, announcements, result, pc>>
  BY DEF AcquireHead, Validate
<1>6. Unlinked(t)' = Unlinked(t)
  BY <1>5 DEF Unlinked
<1>7. apc'[t] = IF head = result[t] THEN "out" ELSE "load"
  BY <1>1 DEF AcquireHead, Validate, TypeOK, HazTypeOK
<1>8. pc[t] \in {"push", "pop", "size"} /\ announcements[t] = result[t]
  BY <1>1 DEF CallInv, AcquireHead, Validate
<1>9. CallInv(t)'
  <2>1. Acquired(t, "push")' => LengthAt(result[t]) < Cardinality(Cells)
    <3> SUFFICES ASSUME Acquired(t, "push")' PROVE LengthAt(result[t]) < Cardinality(Cells)
      OBVIOUS
    <3>1. At(t, "push") /\ head = result[t] /\ mine[t] # nullptr
      BY <1>1, <1>5, <1>7 DEF CallInv
    <3>2. CASE result[t] # nullptr
      BY <3>1, <3>2, HeadIsShared DEF LengthAt
    <3>3. CASE result[t] = nullptr
      <4>1. mine[t] \in Cells
        BY <1>1, <3>1 DEF TypeOK, Pointers
      <4>2. Cardinality(Cells) # 0
        BY <4>1, FS_EmptySet
      <4> QED
        BY <3>3, <4>2, NType DEF LengthAt, N
    <3> QED
      BY <3>2, <3>3
  <2> QED
    BY <1>1, <1>5, <1>7, <1>8, <2>1 DEF CallInv, LengthAt, Validate
<1>10. Protected(t)'
  <2> SUFFICES ASSUME head = result[t], result[t] # nullptr
               PROVE  /\ announcements[t] = result[t]
                      /\ result[t] \in live
                      /\ \A u \in Threads :
                           /\ mine[u] # result[t]
                           /\ result[t] \in deferred[u] /\ slot[u] > t => result[t] \in announced[u]
    BY <1>5, <1>7, <1>8 DEF Protected, Holds
  <2> QED
    BY <1>8, HeadIsShared
<1>11. \A u \in Threads \ {t} :
        Holds(u) /\ result[u] \in deferred'[t] /\ slot'[t] > u => result[u] \in announced'[t]
  BY <1>5 DEF IInv, Protected
<1> QED
  BY <1>2, <1>3, <1>4, <1>5, <1>6, <1>9, <1>10, <1>11, QuietInv

\* A scan that comes past a thread that protects a node has seen it.
LEMMA ScanInv ==
  ASSUME IInv, NEW t \in Threads, Scan(t) PROVE IInv'
<1>1. TypeOK /\ CallInv(t) /\ Protected(t)
  BY DEF IInv
<1>0. ~closed
  BY <1>1 DEF CallInv, Scan, ScanSlot
<1>2. slot[t] \in Threads /\ slot[t] \in Nat
  BY <1>1 DEF Scan, ScanSlot, TypeOK, HazTypeOK, Threads
<1>3. TypeOK'
  BY <1>1, <1>2 DEF Scan, ScanSlot, TypeOK, HazTypeOK, PCs, Pointers
<1>4. \A u \in Threads \ {t} : Same(u)
  BY <1>1 DEF Scan, ScanSlot, TypeOK, HazTypeOK, Same
<1>5. UNCHANGED <<head, node, live, mine, retired, deferred, closed, result, pc, apc>>
  BY DEF Scan, ScanSlot
<1>6. Unlinked(t)' = Unlinked(t)
  BY <1>5 DEF Unlinked
<1>7. CallInv(t)'
  BY <1>1 DEF Scan, ScanSlot, CallInv, LengthAt
<1>8. Protected(t)'
  BY <1>1 DEF Scan, ScanSlot, CallInv, Protected, Holds
<1>9. ASSUME NEW u \in Threads \ {t}, Holds(u), result[u] \in deferred'[t], slot'[t] > u
      PROVE  result[u] \in announced'[t]
  <2>1. Protected(u) /\ result[u] # nullptr /\ announcements[u] = result[u] /\ result[u] \in deferred[t]
    BY <1>5, <1>9 DEF IInv, Protected, Holds
  <2>2. slot'[t] = slot[t] + 1 /\ announced'[t] = announced[t] \cup ({announcements[slot[t]]} \ {nullptr})
    BY <1>1 DEF Scan, ScanSlot, TypeOK, HazTypeOK
  <2>3. u \in Nat
    BY DEF Threads
  <2>4. CASE slot[t] = u
    BY <2>1, <2>2, <2>4
  <2>5. CASE slot[t] > u
    BY <1>9, <2>1, <2>2, <2>5 DEF Protected
  <2> QED
    BY <1>2, <1>9, <2>2, <2>3, <2>4, <2>5
<1> QED
  BY <1>0, <1>3, <1>4, <1>5, <1>6, <1>7, <1>8, <1>9, QuietInv

---------------------------------------------------------------------------
(* The steps that move a node from one place to another                    *)

\* Only t's nodes and the list change: what t and the list have afterwards they
\* had before, or it is new.
LEMMA MovesOwn ==
  ASSUME IInv, NEW t \in Threads,
         \A u \in Threads \ {t} : Same(u),
         InList' \cup Held(t)' \subseteq InList \cup Held(t) \cup (Cells \ live),
         live' = (live \ (InList \cup Held(t))) \cup InList' \cup Held(t)',
         Held(t)' \cap InList' = {},
         Made(t)' \cap PutAside(t)' = {}, Unlinked(t)' \cap PutAside(t)' = {}
  PROVE  InOnePlace'
<1>1. \A u \in Threads \ {t} :
        /\ Held(u)' = Held(u) /\ Made(u)' = Made(u)
        /\ PutAside(u)' = PutAside(u) /\ Unlinked(u)' = Unlinked(u)
  BY DEF Same, Held, Made, PutAside, Unlinked
<1>2. InOnePlace
  BY DEF IInv
<1>3. \A u \in Threads : Held(u) \subseteq live
  BY <1>2 DEF InOnePlace
<1>4. \A u \in Threads \ {t} : Held(u) \cap (InList' \cup Held(t)') = {}
  <2> SUFFICES ASSUME NEW u \in Threads \ {t}, NEW p \in Held(u), p \in InList' \cup Held(t)'
               PROVE  FALSE
    OBVIOUS
  <2>1. p \in live /\ p \notin InList /\ p \notin Held(t)
    BY <1>2, <1>3 DEF InOnePlace
  <2> QED
    BY <2>1
<1>5. live' = InList' \cup UNION {Held(u)' : u \in Threads}
  <2>1. ASSUME NEW p \in live' PROVE p \in InList' \cup UNION {Held(u)' : u \in Threads}
    <3>1. CASE p \in InList' \cup Held(t)'
      BY <3>1
    <3>2. CASE p \in live /\ p \notin InList \cup Held(t)
      <4>1. PICK u \in Threads : p \in Held(u)
        BY <1>2, <3>2 DEF InOnePlace
      <4>2. u # t
        BY <3>2, <4>1
      <4> QED
        BY <1>1, <4>1, <4>2
    <3> QED
      BY <3>1, <3>2
  <2>2. ASSUME NEW u \in Threads, NEW p \in Held(u)' PROVE p \in live'
    <3>1. CASE u = t
      BY <3>1
    <3>2. CASE u # t
      <4>1. p \in Held(u) /\ p \in live
        BY <1>1, <1>3, <3>2
      <4>2. p \notin InList /\ p \notin Held(t)
        BY <1>2, <3>2, <4>1 DEF InOnePlace
      <4> QED
        BY <4>1, <4>2
    <3> QED
      BY <3>1, <3>2
  <2> QED
    BY <2>1, <2>2
<1>6. ASSUME NEW u \in Threads
      PROVE  /\ Held(u)' \cap InList' = {}
             /\ \A v \in Threads \ {u} : Held(u)' \cap Held(v)' = {}
             /\ Made(u)' \cap PutAside(u)' = {} /\ Unlinked(u)' \cap PutAside(u)' = {}
  <2>1. CASE u = t
    <3>1. \A v \in Threads \ {t} : Held(t)' \cap Held(v)' = {}
      BY <1>1, <1>4
    <3> QED
      BY <2>1, <3>1
  <2>2. CASE u # t
    <3>1. Held(u)' \cap InList' = {} /\ Held(u)' \cap Held(t)' = {}
      BY <1>1, <1>4, <2>2
    <3>2. ASSUME NEW v \in Threads \ {u} PROVE Held(u)' \cap Held(v)' = {}
      <4>1. CASE v = t
        BY <3>1, <4>1
      <4>2. CASE v # t
        BY <1>1, <1>2, <2>2, <4>2 DEF InOnePlace
      <4> QED
        BY <4>1, <4>2
    <3>3. Made(u)' \cap PutAside(u)' = {} /\ Unlinked(u)' \cap PutAside(u)' = {}
      BY <1>1, <1>2, <2>2 DEF InOnePlace
    <3> QED
      BY <3>1, <3>2, <3>3
  <2> QED
    BY <2>1, <2>2
<1> QED
  BY <1>5, <1>6 DEF InOnePlace

\* What others have acquired is there, and not about to be pushed.
LEMMA SharedIsThere ==
  ASSUME IInv, NEW t \in Threads
  PROVE  \A p \in Shared(t) : p \in live /\ p # mine[t] /\ p # nullptr
BY DEF IInv, Shared, Protected, Holds

LEMMA PushInv ==
  ASSUME IInv, NEW t \in Threads, NEW v \in Values, Push(t, v) PROVE IInv'
<1>1. TypeOK /\ CallInv(t) /\ Protected(t) /\ InOnePlace
  BY DEF IInv
<1>2. PICK p \in Cells \ live :
        /\ live' = live \cup {p}
        /\ node' = [node EXCEPT ![p] = [t |-> v, next |-> nullptr, length |-> 1]]
        /\ mine' = [mine EXCEPT ![t] = p]
  BY DEF Push
<1>3. /\ pc[t] = "idle" /\ pc'[t] = "push" /\ apc'[t] = "load" /\ mine'[t] = p
      /\ apc[t] # "scan" /\ mine[t] = nullptr /\ ~closed
      /\ UNCHANGED <<announcements, retired, amortized_work, result, scanvars, head, next, val, closed>>
  BY <1>1, <1>2 DEF Push, Acquire, CallInv, TypeOK, HazTypeOK
<1>4. TypeOK'
  <2>1. 1 \in 1 .. Cardinality(Cells)
    <3>1. Cardinality(Cells) # 0
      BY <1>2, FS_EmptySet
    <3> QED
      BY <3>1, NType DEF N
  <2> QED
    BY <1>1, <1>2, <1>3, <2>1 DEF Push, Acquire, TypeOK, HazTypeOK, PCs, Pointers
<1>5. \A u \in Threads \ {t} : Same(u)
  BY <1>1, <1>2 DEF Push, Acquire, TypeOK, HazTypeOK, Same
<1>6. \A q \in live : node'[q] = node[q]
  BY <1>1, <1>2 DEF TypeOK
<1>7. InList \subseteq live
  BY <1>1 DEF InOnePlace
<1>8. Chain(TheList)' /\ InList' = InList
  BY <1>3, <1>6, <1>7, SameList
<1>9. InOnePlace'
  <2>1. Made(t) = {} /\ Made(t)' = {p} /\ Unlinked(t) = {} /\ Unlinked(t)' = {} /\ PutAside(t)' = PutAside(t)
    BY <1>2, <1>3 DEF Made, Unlinked, PutAside
  <2>2. Held(t)' = Held(t) \cup {p} /\ Held(t) \subseteq live
    BY <1>1, <2>1 DEF Held, InOnePlace
  <2>3. p \notin InList /\ Held(t) \cap InList = {} /\ p \notin PutAside(t)
    BY <1>1, <1>2, <1>7, <2>2 DEF InOnePlace, Held
  <2>4. live' = (live \ (InList \cup Held(t))) \cup InList' \cup Held(t)'
    BY <1>2, <1>7, <1>8, <2>2
  <2> QED
    BY <1>2, <1>5, <1>8, <2>1, <2>2, <2>3, <2>4, MovesOwn
<1>10. (\A q \in live : node[q].t \in Values)'
  BY <1>1, <1>2 DEF IInv, TypeOK
<1>11. CallInv(t)'
  BY <1>1, <1>2, <1>3 DEF CallInv
<1>12. Protected(t)'
  BY <1>3 DEF Protected, Holds
<1>13. \A u \in Threads \ {t} : mine[u] # nullptr => node'[mine[u]] = node[mine[u]]
  BY <1>1, <1>6 DEF InOnePlace, Held, Made
<1>14. \A q \in Shared(t) : q \in live' /\ node'[q] = node[q] /\ mine'[t] # q
  BY <1>2, <1>3, <1>6, SharedIsThere
<1>15. \A u \in Threads \ {t} :
         Holds(u) /\ result[u] \in deferred'[t] /\ slot'[t] > u => result[u] \in announced'[t]
  BY <1>3 DEF IInv, Protected
<1> QED
  BY <1>3, <1>4, <1>5, <1>8, <1>9, <1>10, <1>11, <1>12, <1>13, <1>14, <1>15, StepInv

LEMMA LinkInv ==
  ASSUME IInv, NEW t \in Threads, Link(t) PROVE IInv'
<1>1. TypeOK /\ CallInv(t) /\ Protected(t) /\ InOnePlace
  BY DEF IInv
<1>2. /\ pc[t] = "push" /\ pc'[t] = "push_cas" /\ ~closed /\ apc[t] = "out"
      /\ mine[t] # nullptr /\ mine[t] \in Cells
      /\ UNCHANGED <<hazvars, head, live, mine, next, val, closed>>
  BY <1>1 DEF Link, CallInv, TypeOK, Pointers
<1>3. LengthAt(result[t]) < Cardinality(Cells) /\ LengthAt(result[t]) \in Nat
  BY <1>1, <1>2, NType DEF CallInv, LengthAt, TypeOK, HazTypeOK, Pointers, N
<1>4. node' = [node EXCEPT ![mine[t]].next = result[t], ![mine[t]].length = LengthAt(result[t]) + 1]
  BY <1>3 DEF Link, LengthAt
<1>5. TypeOK'
  <2>1. LengthAt(result[t]) + 1 \in 1 .. Cardinality(Cells) /\ result[t] \in Pointers
    BY <1>1, <1>3, NType DEF TypeOK, HazTypeOK, N
  <2>2. node' \in [Cells -> [t : Values \cup {NoVal}, next : Pointers, length : 1 .. Cardinality(Cells)]]
    <3> HIDE DEF Pointers
    <3> QED
      BY <1>1, <1>2, <1>4, <2>1 DEF TypeOK
  <2> QED
    BY <1>1, <1>2, <2>2 DEF Link, TypeOK, HazTypeOK, PCs
<1>6. \A u \in Threads \ {t} : Same(u)
  BY <1>1, <1>2 DEF Link, TypeOK, HazTypeOK, Same
<1>7. mine[t] \notin InList /\ \A u \in Threads \ {t} : mine[u] # mine[t]
  BY <1>1, <1>2 DEF InOnePlace, Held, Made
<1>8. \A p \in Cells \ {mine[t]} : node'[p] = node[p]
  BY <1>1, <1>2, <1>4 DEF TypeOK
<1>9. InList \subseteq Cells
  BY <1>1 DEF InOnePlace, TypeOK
<1>10. Chain(TheList)' /\ InList' = InList
  BY <1>2, <1>7, <1>8, <1>9, SameList
<1>11. InOnePlace'
  <2>1. Made(t)' = Made(t) /\ Unlinked(t)' = Unlinked(t) /\ PutAside(t)' = PutAside(t)
    BY <1>2 DEF Made, Unlinked, PutAside
  <2>2. Held(t)' = Held(t)
    BY <2>1 DEF Held
  <2>3. live' = (live \ (InList \cup Held(t))) \cup InList' \cup Held(t)'
    BY <1>1, <1>2, <1>10, <2>2 DEF InOnePlace
  <2> QED
    BY <1>1, <1>2, <1>6, <1>10, <2>1, <2>2, <2>3, MovesOwn DEF InOnePlace
<1>12. (\A q \in live : node[q].t \in Values)'
  BY <1>1, <1>2, <1>4 DEF IInv, TypeOK
<1>13. CallInv(t)'
  <2>1. node'[mine[t]].next = result[t] /\ node'[mine[t]].length = LengthAt(result[t]) + 1
    BY <1>1, <1>2, <1>4 DEF TypeOK
  <2>2. LengthAt(result[t])' = LengthAt(result[t])
    BY <1>1, <1>2, <1>8 DEF LengthAt, Protected, Holds, TypeOK, HazTypeOK, Pointers
  <2> QED
    BY <1>1, <1>2, <2>1, <2>2 DEF CallInv
<1>14. Protected(t)'
  BY <1>1, <1>2 DEF Protected, Holds
<1>15. \A u \in Threads \ {t} : mine[u] # nullptr => node'[mine[u]] = node[mine[u]]
  BY <1>1, <1>7, <1>8 DEF TypeOK, Pointers
<1>16. \A q \in Shared(t) : q \in live' /\ node'[q] = node[q] /\ mine'[t] # q
  BY <1>1, <1>2, <1>8, SharedIsThere DEF TypeOK
<1>17. \A u \in Threads \ {t} :
         Holds(u) /\ result[u] \in deferred'[t] /\ slot'[t] > u => result[u] \in announced'[t]
  BY <1>2 DEF IInv, Protected
<1> QED
  BY <1>2, <1>5, <1>6, <1>10, <1>11, <1>12, <1>13, <1>14, <1>15, <1>16, <1>17, StepInv

\* The chain with one more node in front.
LEMMA PushedChain ==
  ASSUME NEW s, Chain(s), NEW p \in Cells,
         node[p].next = head, node[p].length = Len(s) + 1, head' = p, node' = node
  PROVE  Chain(TheList)' /\ TheList' = <<p>> \o s /\ InList' = {p} \cup Cell(s)
<1> DEFINE r == <<p>> \o s
<1>1. s \in Seq(Cells) /\ Len(s) \in Nat
  BY DEF Chain
<1>2. r \in Seq(Cells) /\ Len(r) = Len(s) + 1 /\ r[1] = p /\ \A k \in 1 .. Len(s) : r[k + 1] = s[k]
  BY <1>1
<1>3. ASSUME NEW k \in 1 .. Len(r)
      PROVE  /\ node'[r[k]].next = IF k = Len(r) THEN nullptr ELSE r[k + 1]
             /\ node'[r[k]].length = Len(r) - k + 1
  <2>1. CASE k = 1
    <3>1. head = IF Len(s) = 0 THEN nullptr ELSE s[1]
      BY <1>1 DEF Chain
    <3> QED
      BY <1>1, <1>2, <2>1, <3>1
  <2>2. CASE k # 1
    <3>1. k - 1 \in 1 .. Len(s) /\ r[k] = s[k - 1] /\ (k # Len(r) => r[k + 1] = s[k])
      BY <1>1, <1>2, <2>2
    <3>2. /\ node[s[k - 1]].next = IF k - 1 = Len(s) THEN nullptr ELSE s[k]
          /\ node[s[k - 1]].length = Len(s) - (k - 1) + 1
      BY <1>1, <3>1 DEF Chain
    <3> QED
      BY <1>1, <1>2, <3>1, <3>2
  <2> QED
    BY <2>1, <2>2
<1>4. r # <<>>
  BY <1>1, <1>2
<1>5. Cell(r) = {p} \cup Cell(s)
  <2>1. ASSUME NEW q \in Cell(r) PROVE q \in {p} \cup Cell(s)
    <3>1. PICK k \in 1 .. Len(r) : q = r[k]
      BY DEF Cell
    <3>2. k = 1 \/ (k - 1 \in 1 .. Len(s) /\ q = s[k - 1])
      BY <1>1, <1>2, <3>1
    <3> QED
      BY <1>2, <3>1, <3>2 DEF Cell
  <2>2. p \in Cell(r)
    <3>1. 1 \in 1 .. Len(r)
      BY <1>1, <1>2
    <3> QED
      BY <1>2, <3>1 DEF Cell
  <2>3. ASSUME NEW q \in Cell(s) PROVE q \in Cell(r)
    <3>1. PICK k \in 1 .. Len(s) : q = s[k]
      BY DEF Cell
    <3>2. k + 1 \in 1 .. Len(r) /\ q = r[k + 1]
      BY <1>1, <1>2, <3>1
    <3> QED
      BY <3>2 DEF Cell
  <2> QED
    BY <2>1, <2>2, <2>3
<1> HIDE DEF r
<1>6. Chain(TheList)' /\ TheList' = r /\ InList' = Cell(r)
  BY <1>2, <1>3, <1>4, Becomes
<1> QED
  BY <1>5, <1>6 DEF r

\* The chain without its first node.
LEMMA PoppedChain ==
  ASSUME NEW s, Chain(s), head # nullptr, head' = node[head].next, node' = node
  PROVE  /\ Chain(TheList)' /\ TheList' = Tail(s) /\ s # <<>> /\ head = s[1]
         /\ InList' = Cell(s) \ {head} /\ head \in Cell(s)
<1> DEFINE r == Tail(s)
<1>1. s \in Seq(Cells) /\ Len(s) \in Nat /\ s # <<>> /\ head = s[1] /\ Len(s) > 0
  BY DEF Chain
<1>2. r \in Seq(Cells) /\ Len(r) = Len(s) - 1 /\ \A k \in 1 .. Len(r) : r[k] = s[k + 1]
  BY <1>1
<1> HIDE DEF r
<1>3. ASSUME NEW k \in 1 .. Len(r)
      PROVE  /\ node'[r[k]].next = IF k = Len(r) THEN nullptr ELSE r[k + 1]
             /\ node'[r[k]].length = Len(r) - k + 1
  <2>1. k + 1 \in 1 .. Len(s) /\ r[k] = s[k + 1] /\ (k # Len(r) => r[k + 1] = s[k + 2])
    BY <1>1, <1>2
  <2>2. /\ node[s[k + 1]].next = IF k + 1 = Len(s) THEN nullptr ELSE s[k + 2]
        /\ node[s[k + 1]].length = Len(s) - (k + 1) + 1
    BY <1>1, <2>1 DEF Chain
  <2>3. (k + 1 = Len(s) <=> k = Len(r)) /\ Len(s) - (k + 1) + 1 = Len(r) - k + 1
    BY <1>1, <1>2
  <2>4. node'[r[k]] = node[s[k + 1]]
    BY <2>1
  <2> QED
    BY <2>1, <2>2, <2>3, <2>4
<1>4. head' = IF r = <<>> THEN nullptr ELSE r[1]
  <2>1. 1 \in 1 .. Len(s)
    BY <1>1
  <2>2. node[s[1]].next = IF 1 = Len(s) THEN nullptr ELSE s[1 + 1]
    BY <1>1, <2>1 DEF Chain
  <2>3. Len(r) = 0 <=> r = <<>>
    BY <1>2
  <2>4. Len(s) # 1 => r[1] = s[2]
    BY <1>1, <1>2
  <2> QED
    BY <1>1, <1>2, <2>2, <2>3, <2>4
<1>5. Cell(r) = Cell(s) \ {head} /\ head \in Cell(s)
  <2>0. 1 \in 1 .. Len(s) /\ head \in Cell(s)
    BY <1>1 DEF Cell
  <2>1. ASSUME NEW q \in Cell(r) PROVE q \in Cell(s) \ {head}
    <3>1. PICK k \in 1 .. Len(r) : q = r[k]
      BY DEF Cell
    <3>2. k + 1 \in 1 .. Len(s) /\ q = s[k + 1]
      BY <1>1, <1>2, <3>1
    <3>3. node[q].length = Len(s) - (k + 1) + 1 /\ node[head].length = Len(s) - 1 + 1
      BY <1>1, <2>0, <3>2 DEF Chain
    <3>4. node[q].length # node[head].length
      BY <1>1, <1>2, <3>1, <3>3
    <3> QED
      BY <3>2, <3>4 DEF Cell
  <2>2. ASSUME NEW q \in Cell(s), q # head PROVE q \in Cell(r)
    <3>1. PICK k \in 1 .. Len(s) : q = s[k]
      BY DEF Cell
    <3>2. k # 1
      BY <1>1, <2>2, <3>1
    <3>3. k - 1 \in 1 .. Len(r) /\ q = r[k - 1]
      BY <1>1, <1>2, <3>1, <3>2
    <3> QED
      BY <3>3 DEF Cell
  <2> QED
    BY <2>0, <2>1, <2>2
<1>6. Chain(TheList)' /\ TheList' = r /\ InList' = Cell(r)
  BY <1>2, <1>3, <1>4, Becomes
<1> QED
  BY <1>1, <1>5, <1>6 DEF r

LEMMA LengthAtHead ==
  ASSUME NEW s, Chain(s) PROVE LengthAt(head) = Len(s)
<1>1. CASE s = <<>>
  BY <1>1 DEF Chain, LengthAt
<1>2. CASE s # <<>>
  <2>1. 1 \in 1 .. Len(s) /\ s[1] \in Cells
    BY <1>2 DEF Chain
  <2>2. head = s[1] /\ node[s[1]].length = Len(s) - 1 + 1
    BY <1>2, <2>1 DEF Chain
  <2>3. Len(s) - 1 + 1 = Len(s)
    BY DEF Chain
  <2> QED
    BY <2>1, <2>2, <2>3 DEF LengthAt
<1> QED
  BY <1>1, <1>2

\* Where a push wins, the node it links is one longer than the list.
LEMMA PushMeetsList ==
  ASSUME IInv, NEW t \in Threads, PushWins(t)
  PROVE  /\ mine[t] \in Cells /\ mine[t] # nullptr
         /\ node[mine[t]].next = head /\ node[mine[t]].length = Len(TheList) + 1
<1>1. CallInv(t) /\ TypeOK
  BY DEF IInv
<1>2. mine[t] # nullptr /\ mine[t] \in Cells
  BY <1>1 DEF CallInv, PushWins, TypeOK, Pointers
<1>3. result[t] = head /\ node[mine[t]].length = LengthAt(head) + 1
  BY <1>1 DEF CallInv, PushWins
<1>4. LengthAt(head) = Len(TheList)
  <2>1. PICK s : s = TheList
    OBVIOUS
  <2> QED
    BY <2>1, LengthAtHead DEF IInv
<1> QED
  BY <1>2, <1>3, <1>4 DEF PushWins

LEMMA PushWinsInv ==
  ASSUME IInv, NEW t \in Threads, PushWins(t) PROVE IInv'
<1>1. TypeOK /\ CallInv(t) /\ Protected(t) /\ InOnePlace
  BY DEF IInv
<1>2. /\ pc[t] = "push_cas" /\ pc'[t] = "push_release" /\ ~closed /\ apc[t] \notin {"scan", "validate"}
      /\ apc[t] \notin {"load", "announce"}
      /\ mine'[t] = nullptr /\ head' = mine[t]
      /\ UNCHANGED <<hazvars, node, live, next, val, closed>>
  BY <1>1 DEF PushWins, CallInv, TypeOK
<1>3. TypeOK'
  BY <1>1 DEF PushWins, TypeOK, HazTypeOK, PCs, Pointers
<1>4. \A u \in Threads \ {t} : Same(u)
  BY <1>1 DEF PushWins, TypeOK, HazTypeOK, Same
<1>5. Chain(TheList)' /\ InList' = InList \cup {mine[t]} /\ mine[t] # nullptr
  <2>1. PICK s : s = TheList
    OBVIOUS
  <2>2. Chain(s) /\ InList = Cell(s)
    BY <2>1, ListIs DEF IInv
  <2>3. /\ mine[t] \in Cells /\ mine[t] # nullptr
        /\ node[mine[t]].next = head /\ node[mine[t]].length = Len(s) + 1
    BY <2>1, PushMeetsList
  <2>4. head' = mine[t] /\ node' = node
    BY <1>2
  <2> QED
    BY <2>2, <2>3, <2>4, PushedChain
<1>6. InOnePlace'
  <2>1. Made(t) = {mine[t]} /\ Made(t)' = {} /\ Unlinked(t) = {} /\ Unlinked(t)' = {}
        /\ PutAside(t)' = PutAside(t)
    BY <1>2, <1>5 DEF Made, Unlinked, PutAside
  <2>2. Held(t) = {mine[t]} \cup PutAside(t) /\ Held(t)' = PutAside(t) /\ mine[t] \notin PutAside(t)
    BY <1>1, <2>1 DEF Held, InOnePlace
  <2>3. Held(t)' \cap InList' = {} /\ InList' \cup Held(t)' = InList \cup Held(t)
    BY <1>1, <1>5, <2>2 DEF InOnePlace
  <2>4. live' = (live \ (InList \cup Held(t))) \cup InList' \cup Held(t)'
    BY <1>1, <1>2, <2>3 DEF InOnePlace
  <2> QED
    BY <1>4, <2>1, <2>3, <2>4, MovesOwn
<1>7. (\A q \in live : node[q].t \in Values)'
  BY <1>2 DEF IInv
<1>8. CallInv(t)'
  BY <1>1, <1>2 DEF CallInv
<1>9. Protected(t)'
  BY <1>2 DEF Protected, Holds
<1>10. \A u \in Threads \ {t} : mine[u] # nullptr => node'[mine[u]] = node[mine[u]]
  BY <1>2
<1>11. \A q \in Shared(t) : q \in live' /\ node'[q] = node[q] /\ mine'[t] # q
  BY <1>2, SharedIsThere
<1>12. \A u \in Threads \ {t} :
         Holds(u) /\ result[u] \in deferred'[t] /\ slot'[t] > u => result[u] \in announced'[t]
  BY <1>2 DEF IInv, Protected
<1> QED
  BY <1>2, <1>3, <1>4, <1>5, <1>6, <1>7, <1>8, <1>9, <1>10, <1>11, <1>12, StepInv

LEMMA PushLosesInv ==
  ASSUME IInv, NEW t \in Threads, PushLoses(t) PROVE IInv'
<1>1. TypeOK /\ CallInv(t) /\ Protected(t) /\ InOnePlace
  BY DEF IInv
<1>2. /\ pc[t] = "push_cas" /\ pc'[t] = "push" /\ ~closed /\ apc[t] # "scan" /\ apc'[t] = "load"
      /\ mine[t] # nullptr /\ mine[t] \in Cells
      /\ UNCHANGED <<announcements, retired, result, scanvars, head, live, mine, next, val, closed>>
  BY <1>1 DEF PushLoses, Acquire, CallInv, TypeOK, HazTypeOK, Pointers
<1>3. TypeOK'
  BY <1>1, <1>2 DEF PushLoses, Acquire, TypeOK, HazTypeOK, PCs
<1>4. \A u \in Threads \ {t} : Same(u)
  BY <1>1, <1>2 DEF PushLoses, Acquire, TypeOK, HazTypeOK, Same
<1>5. mine[t] \notin InList /\ \A u \in Threads \ {t} : mine[u] # mine[t]
  BY <1>1, <1>2 DEF InOnePlace, Held, Made
<1>6. \A p \in Cells \ {mine[t]} : node'[p] = node[p]
  BY <1>1, <1>2 DEF PushLoses, TypeOK
<1>7. InList \subseteq Cells
  BY <1>1 DEF InOnePlace, TypeOK
<1>8. Chain(TheList)' /\ InList' = InList
  BY <1>2, <1>5, <1>6, <1>7, SameList
<1>9. InOnePlace'
  <2>1. Made(t)' = Made(t) /\ Unlinked(t)' = Unlinked(t) /\ PutAside(t)' = PutAside(t)
    BY <1>2 DEF Made, Unlinked, PutAside
  <2>2. Held(t)' = Held(t)
    BY <2>1 DEF Held
  <2>3. live' = (live \ (InList \cup Held(t))) \cup InList' \cup Held(t)'
    BY <1>1, <1>2, <1>8, <2>2 DEF InOnePlace
  <2> QED
    BY <1>1, <1>2, <1>4, <1>8, <2>1, <2>2, <2>3, MovesOwn DEF InOnePlace
<1>10. (\A q \in live : node[q].t \in Values)'
  BY <1>1, <1>2 DEF PushLoses, IInv, TypeOK
<1>11. CallInv(t)'
  BY <1>1, <1>2 DEF CallInv
<1>12. Protected(t)'
  BY <1>2 DEF Protected, Holds
<1>13. \A u \in Threads \ {t} : mine[u] # nullptr => node'[mine[u]] = node[mine[u]]
  BY <1>1, <1>5, <1>6 DEF TypeOK, Pointers
<1>14. \A q \in Shared(t) : q \in live' /\ node'[q] = node[q] /\ mine'[t] # q
  BY <1>1, <1>2, <1>6, SharedIsThere DEF TypeOK
<1>15. \A u \in Threads \ {t} :
         Holds(u) /\ result[u] \in deferred'[t] /\ slot'[t] > u => result[u] \in announced'[t]
  BY <1>2 DEF IInv, Protected
<1> QED
  BY <1>2, <1>3, <1>4, <1>8, <1>9, <1>10, <1>11, <1>12, <1>13, <1>14, <1>15, StepInv

LEMMA PopWinsInv ==
  ASSUME IInv, NEW t \in Threads, PopWins(t) PROVE IInv'
<1>1. TypeOK /\ CallInv(t) /\ Protected(t) /\ InOnePlace
  BY DEF IInv
<1>2. /\ pc[t] = "pop_cas" /\ pc'[t] = "pop_take" /\ ~closed /\ apc[t] \notin {"scan", "validate"}
      /\ apc[t] \notin {"load", "announce"} /\ mine[t] = nullptr
      /\ head = result[t] /\ head # nullptr /\ head' = node[head].next
      /\ UNCHANGED <<hazvars, node, live, mine, val, closed>>
  BY <1>1 DEF PopWins, CallInv, TypeOK
<1>3. TypeOK'
  BY <1>1 DEF PopWins, TypeOK, HazTypeOK, PCs, Pointers
<1>4. \A u \in Threads \ {t} : Same(u)
  BY <1>1 DEF PopWins, TypeOK, HazTypeOK, Same
<1>5. Chain(TheList)' /\ InList' = InList \ {head} /\ head \in InList
  <2>1. PICK s : s = TheList
    OBVIOUS
  <2>2. Chain(s) /\ InList = Cell(s)
    BY <2>1, ListIs DEF IInv
  <2> QED
    BY <1>2, <2>1, <2>2, PoppedChain
<1>6. InOnePlace'
  <2>1. Made(t)' = Made(t) /\ Made(t) = {} /\ Unlinked(t) = {} /\ Unlinked(t)' = {head}
        /\ PutAside(t)' = PutAside(t)
    BY <1>2 DEF Made, Unlinked, PutAside
  <2>2. Held(t) = PutAside(t) /\ Held(t)' = {head} \cup PutAside(t) /\ head \notin PutAside(t)
    BY <1>1, <1>5, <2>1 DEF Held, InOnePlace
  <2>3. Held(t)' \cap InList' = {} /\ InList' \cup Held(t)' = InList \cup Held(t)
    BY <1>1, <1>5, <2>2 DEF InOnePlace
  <2>4. live' = (live \ (InList \cup Held(t))) \cup InList' \cup Held(t)'
    BY <1>1, <1>2, <2>3 DEF InOnePlace
  <2> QED
    BY <1>4, <2>1, <2>2, <2>3, <2>4, MovesOwn
<1>7. (\A q \in live : node[q].t \in Values)'
  BY <1>2 DEF IInv
<1>8. CallInv(t)'
  BY <1>1, <1>2 DEF CallInv
<1>9. Protected(t)'
  BY <1>1, <1>2 DEF Protected, Holds
<1>10. \A u \in Threads \ {t} : mine[u] # nullptr => node'[mine[u]] = node[mine[u]]
  BY <1>2
<1>11. \A q \in Shared(t) : q \in live' /\ node'[q] = node[q] /\ mine'[t] # q
  BY <1>2, SharedIsThere
<1>12. \A u \in Threads \ {t} :
         Holds(u) /\ result[u] \in deferred'[t] /\ slot'[t] > u => result[u] \in announced'[t]
  BY <1>2 DEF IInv, Protected
<1> QED
  BY <1>2, <1>3, <1>4, <1>5, <1>6, <1>7, <1>8, <1>9, <1>10, <1>11, <1>12, StepInv

LEMMA RetireInv ==
  ASSUME IInv, NEW t \in Threads, Retire(t) PROVE IInv'
<1>1. TypeOK /\ CallInv(t) /\ Protected(t) /\ InOnePlace
  BY DEF IInv
<1>2. /\ pc[t] = "pop_retire" /\ pc'[t] = "pop_release" /\ ~closed
      /\ apc[t] \notin {"load", "announce", "validate", "scan"} /\ mine[t] = nullptr
      /\ result[t] # nullptr /\ result[t] \in Cells
      /\ slot[t] = 0 /\ announced[t] = {} /\ deferred[t] = {}
      /\ UNCHANGED <<announcements, result, slot, announced, nodevars, mine, next, val, closed>>
  BY <1>1 DEF Retire, retire, CallInv, TypeOK, HazTypeOK, Pointers
<1>3. \/ /\ deferred'[t] = retired[t] \cup {result[t]} /\ retired'[t] = {} /\ apc'[t] = "scan"
      \/ /\ deferred'[t] = {} /\ retired'[t] = retired[t] \cup {result[t]} /\ apc'[t] = apc[t]
  BY <1>1, <1>2 DEF Retire, retire, TypeOK, HazTypeOK
<1>4. TypeOK'
  BY <1>1, <1>2 DEF Retire, retire, TypeOK, HazTypeOK, PCs
<1>5. \A u \in Threads \ {t} : Same(u)
  BY <1>1, <1>2 DEF Retire, retire, TypeOK, HazTypeOK, Same
<1>6. Chain(TheList)' /\ InList' = InList
  BY <1>2, SameList
<1>7. InOnePlace'
  <2>1. Made(t)' = {} /\ Made(t) = {} /\ Unlinked(t) = {result[t]} /\ Unlinked(t)' = {}
    BY <1>2 DEF Made, Unlinked
  <2>2. PutAside(t)' = PutAside(t) \cup {result[t]}
    BY <1>2, <1>3 DEF PutAside
  <2>3. Held(t)' = Held(t)
    BY <2>1, <2>2 DEF Held
  <2>4. live' = (live \ (InList \cup Held(t))) \cup InList' \cup Held(t)'
    BY <1>1, <1>2, <1>6, <2>3 DEF InOnePlace
  <2> QED
    BY <1>1, <1>5, <1>6, <2>1, <2>3, <2>4, MovesOwn DEF InOnePlace
<1>8. (\A q \in live : node[q].t \in Values)'
  BY <1>2 DEF IInv
<1>9. CallInv(t)'
  BY <1>1, <1>2, <1>3 DEF CallInv
<1>10. Protected(t)'
  BY <1>2 DEF Protected, Holds
<1>11. \A u \in Threads \ {t} : mine[u] # nullptr => node'[mine[u]] = node[mine[u]]
  BY <1>2
<1>12. \A q \in Shared(t) : q \in live' /\ node'[q] = node[q] /\ mine'[t] # q
  BY <1>2, SharedIsThere
<1>13. \A u \in Threads \ {t} :
         Holds(u) /\ result[u] \in deferred'[t] /\ slot'[t] > u => result[u] \in announced'[t]
  BY <1>2 DEF Threads
<1> QED
  BY <1>2, <1>4, <1>5, <1>6, <1>7, <1>8, <1>9, <1>10, <1>11, <1>12, <1>13, StepInv

\* What is deleted nobody holds: a scan that has read every announcement has
\* found every node that is protected.
LEMMA DeleteInv ==
  ASSUME IInv, NEW t \in Threads, Delete(t) PROVE IInv'
<1>1. TypeOK /\ CallInv(t) /\ Protected(t) /\ InOnePlace
  BY DEF IInv
<1>2. /\ apc[t] = "scan" /\ slot[t] = num_threads /\ pc[t] = "pop_release" /\ ~closed
      /\ mine[t] = nullptr
      /\ apc'[t] = "out" /\ slot'[t] = 0 /\ announced'[t] = {} /\ deferred'[t] = {}
      /\ retired'[t] = retired[t] \cup (deferred[t] \cap announced[t])
      /\ live' = live \ (deferred[t] \ announced[t])
      /\ UNCHANGED <<announcements, result, head, node, pc, mine, next, val, closed>>
  BY <1>1 DEF Delete, Eject, Ejected, CallInv, TypeOK, HazTypeOK
<1>3. TypeOK'
  BY <1>1, <1>2 DEF Delete, Eject, TypeOK, HazTypeOK
<1>4. \A u \in Threads \ {t} : Same(u)
  BY <1>1, <1>2 DEF Delete, Eject, TypeOK, HazTypeOK, Same
<1>5. Chain(TheList)' /\ InList' = InList
  BY <1>2, SameList
<1>6. InOnePlace'
  <2>1. Made(t)' = {} /\ Made(t) = {} /\ Unlinked(t) = {} /\ Unlinked(t)' = {}
    BY <1>2 DEF Made, Unlinked
  <2>3. Held(t) = retired[t] \cup deferred[t]
        /\ Held(t)' = retired[t] \cup (deferred[t] \cap announced[t])
    BY <1>2, <2>1 DEF Held, PutAside
  <2>4. retired[t] = {}
    BY <1>1, <1>2 DEF CallInv
  <2>5. live' = (live \ (InList \cup Held(t))) \cup InList' \cup Held(t)'
    BY <1>1, <1>2, <1>5, <2>3, <2>4 DEF InOnePlace
  <2> QED
    BY <1>1, <1>4, <1>5, <2>1, <2>3, <2>5, MovesOwn DEF InOnePlace
<1>7. (\A q \in live : node[q].t \in Values)'
  BY <1>2 DEF IInv
<1>8. CallInv(t)'
  BY <1>1, <1>2 DEF CallInv
<1>9. Protected(t)'
  BY <1>2 DEF Protected, Holds
<1>10. \A u \in Threads \ {t} : mine[u] # nullptr => node'[mine[u]] = node[mine[u]]
  BY <1>2
<1>11. \A q \in Shared(t) : q \in live' /\ node'[q] = node[q] /\ mine'[t] # q
  <2> SUFFICES ASSUME NEW q \in Shared(t) PROVE q \notin deferred[t] \ announced[t]
    BY <1>2, SharedIsThere
  <2>1. PICK u \in Threads \ {t} : Holds(u) /\ q = result[u]
    BY DEF Shared
  <2>2. slot[t] > u
    BY <1>2 DEF Threads
  <2> QED
    BY <2>1, <2>2 DEF IInv, Protected
<1>12. \A u \in Threads \ {t} :
         Holds(u) /\ result[u] \in deferred'[t] /\ slot'[t] > u => result[u] \in announced'[t]
  BY <1>2
<1> QED
  BY <1>2, <1>3, <1>4, <1>5, <1>6, <1>7, <1>8, <1>9, <1>10, <1>11, <1>12, StepInv

---------------------------------------------------------------------------
(* The destructors                                                         *)

\* Between its calls a thread has nothing but what it has put aside.
LEMMA IdleHolds ==
  ASSUME NEW t \in Threads, CallInv(t), pc[t] = "idle"
  PROVE  /\ ~Holds(t) /\ Made(t) = {} /\ Unlinked(t) = {}
         /\ apc[t] \notin {"load", "announce", "validate", "scan"}
         /\ Held(t) = retired[t] /\ deferred[t] = {}
BY DEF CallInv, Holds, Made, Unlinked, Held, PutAside

LEMMA DestroyStackInv ==
  ASSUME IInv, DestroyStack PROVE IInv'
<1>1. TypeOK /\ InOnePlace /\ \A t \in Threads : pc[t] = "idle" /\ CallInv(t)
  BY DEF IInv, DestroyStack
<1>2. /\ head' = nullptr /\ live' = live \ InList /\ closed'
      /\ UNCHANGED <<hazvars, node, pc, mine, next, val>>
  BY DEF DestroyStack
<1>3. TypeOK'
  BY <1>1 DEF DestroyStack, TypeOK, HazTypeOK, Pointers
<1>4. Chain(TheList)' /\ InList' = {}
  <2>1. Cell(<<>>) = {}
    BY DEF Cell
  <2>2. <<>> \in Seq(Cells) /\ 1 .. Len(<<>>) = {}
    OBVIOUS
  <2>3. Chain(TheList)' /\ InList' = Cell(<<>>)
    BY <1>2, <2>2, Becomes
  <2> QED
    BY <2>1, <2>3
<1>5. InOnePlace'
  <2>1. \A t \in Threads : /\ Held(t)' = Held(t) /\ Made(t)' = Made(t)
                           /\ PutAside(t)' = PutAside(t) /\ Unlinked(t)' = Unlinked(t)
    BY <1>2 DEF Held, Made, PutAside, Unlinked
  <2>2. live' = UNION {Held(t) : t \in Threads}
    <3>1. \A t \in Threads : Held(t) \cap InList = {}
      BY <1>1 DEF InOnePlace
    <3> QED
      BY <1>1, <1>2, <3>1 DEF InOnePlace
  <2> QED
    BY <1>1, <1>4, <2>1, <2>2 DEF InOnePlace
<1>6. \A t \in Threads : CallInv(t)'
  BY <1>1, <1>2 DEF CallInv
<1>7. \A t \in Threads : Protected(t)'
  BY <1>1, <1>2 DEF Protected, Holds
<1>8. (\A p \in live : node[p].t \in Values)'
  BY <1>2 DEF IInv
<1> QED
  BY <1>2, <1>3, <1>4, <1>5, <1>6, <1>7, <1>8 DEF IInv

LEMMA DestroyRetiredInv ==
  ASSUME IInv, DestroyRetired PROVE IInv'
<1>1. TypeOK /\ InOnePlace /\ \A t \in Threads : pc[t] = "idle" /\ CallInv(t)
  BY DEF IInv, DestroyRetired, CallInv
<1>2. /\ live' = live \ UNION {retired[t] : t \in Threads}
      /\ retired' = [t \in Threads |-> {}]
      /\ UNCHANGED <<announcements, amortized_work, apc, result, scanvars,
                     head, node, pc, mine, next, val, closed>>
  BY DEF DestroyRetired
<1>3. TypeOK'
  BY <1>1, <1>2 DEF TypeOK, HazTypeOK, Pointers
<1>4. Chain(TheList)' /\ InList' = InList
  BY <1>2, SameList
<1>5. \A t \in Threads : Held(t) = retired[t] /\ Held(t)' = {} /\ Made(t)' = {} /\ Unlinked(t)' = {}
  BY <1>1, <1>2, IdleHolds DEF Held, Made, PutAside, Unlinked
<1>6. InOnePlace'
  <2>1. live' = InList'
    <3>1. \A t \in Threads : retired[t] \cap InList = {}
      BY <1>1, <1>5 DEF InOnePlace
    <3> QED
      BY <1>1, <1>2, <1>4, <1>5, <3>1 DEF InOnePlace
  <2> QED
    BY <1>5, <2>1 DEF InOnePlace
<1>7. \A t \in Threads : CallInv(t)'
  BY <1>1, <1>2 DEF CallInv
<1>8. \A t \in Threads : Protected(t)'
  BY <1>1, <1>2 DEF Protected, Holds
<1>9. (\A p \in live : node[p].t \in Values)'
  BY <1>2 DEF IInv
<1> QED
  BY <1>2, <1>3, <1>4, <1>6, <1>7, <1>8, <1>9 DEF IInv

---------------------------------------------------------------------------
LEMMA InitIInv == Init => IInv
<1> SUFFICES ASSUME Init PROVE IInv
  OBVIOUS
<1>1. TypeOK
  <2>1. 0 \in 0 .. num_threads /\ 0 \in 0 .. Threshold - 1
    OBVIOUS
  <2>2. node \in [Cells -> [t : Values \cup {NoVal}, next : Pointers, length : 1 .. Cardinality(Cells)]]
    <3> SUFFICES ASSUME NEW p \in Cells PROVE 1 \in 1 .. Cardinality(Cells)
      BY DEF Init, Pointers
    <3>1. Cardinality(Cells) # 0
      BY FS_EmptySet
    <3> QED
      BY <3>1, NType DEF N
  <2> QED
    BY <2>1, <2>2 DEF Init, HazInit, TypeOK, HazTypeOK, PCs, Pointers
<1>2. Chain(<<>>)
  BY DEF Chain, Init
<1>3. Chain(TheList) /\ InList = {}
  <2>1. TheList = <<>> /\ InList = Cell(<<>>)
    BY <1>2, ListIs
  <2> QED
    BY <1>2, <2>1 DEF Cell
<1>4. \A t \in Threads : /\ CallInv(t) /\ Protected(t)
                         /\ Made(t) = {} /\ Unlinked(t) = {} /\ PutAside(t) = {}
  BY DEF Init, HazInit, CallInv, Protected, Holds, Made, Unlinked, PutAside
<1>5. InOnePlace
  BY <1>3, <1>4 DEF InOnePlace, Held, Init
<1> QED
  BY <1>1, <1>3, <1>4, <1>5 DEF IInv, Init

LEMMA StutterInv == IInv /\ UNCHANGED vars => IInv'
<1> SUFFICES ASSUME IInv, UNCHANGED vars PROVE IInv'
  OBVIOUS
<1>1. UNCHANGED <<announcements, retired, amortized_work, apc, result, slot, announced,
                  deferred, head, node, live, pc, mine, next, val, closed>>
  BY DEF vars
<1>2. Chain(TheList)' /\ InList' = InList
  BY <1>1, SameList
<1>3. \A t \in Threads : /\ Held(t)' = Held(t) /\ Made(t)' = Made(t)
                         /\ PutAside(t)' = PutAside(t) /\ Unlinked(t)' = Unlinked(t)
  BY <1>1 DEF Held, Made, PutAside, Unlinked
<1>4. InOnePlace'
  BY <1>1, <1>2, <1>3 DEF IInv, InOnePlace
<1>5. TypeOK'
  BY <1>1 DEF IInv, TypeOK, HazTypeOK
<1>6. \A t \in Threads : CallInv(t)' /\ Protected(t)'
  BY <1>1 DEF IInv, CallInv, Protected, Holds, LengthAt
<1> QED
  BY <1>1, <1>2, <1>4, <1>5, <1>6 DEF IInv

LEMMA NextInv == IInv /\ [Next]_vars => IInv'
<1> SUFFICES ASSUME IInv, [Next]_vars PROVE IInv'
  OBVIOUS
<1>1. ASSUME NEW t \in Threads, Step(t) PROVE IInv'
  <2>1. CASE AcquireHead(t)
    BY <2>1, LoadPointerInv, AnnounceInv, ValidateInv DEF AcquireHead
  <2>2. CASE (\E v \in Values : Push(t, v)) \/ Link(t) \/ PushWins(t) \/ PushLoses(t) \/ PushRelease(t)
    BY <2>2, PushInv, LinkInv, PushWinsInv, PushLosesInv, PushReleaseInv
  <2>3. CASE Pop(t) \/ PopNothing(t) \/ ReadNext(t) \/ PopWins(t) \/ PopLoses(t)
    BY <2>3, PopInv, PopNothingInv, ReadNextInv, PopWinsInv, PopLosesInv
  <2>4. CASE TakeValue(t) \/ Retire(t) \/ Scan(t) \/ Delete(t) \/ PopRelease(t)
    BY <2>4, TakeValueInv, RetireInv, ScanInv, DeleteInv, PopReleaseInv
  <2>5. CASE MeasureStack(t) \/ ReadLength(t) \/ SizeRelease(t)
    BY <2>5, MeasureStackInv, ReadLengthInv, SizeReleaseInv
  <2> QED
    BY <1>1, <2>1, <2>2, <2>3, <2>4, <2>5 DEF Step
<1>2. CASE DestroyStack
  BY <1>2, DestroyStackInv
<1>3. CASE DestroyRetired
  BY <1>3, DestroyRetiredInv
<1>4. CASE UNCHANGED vars
  BY <1>4, StutterInv
<1> QED
  BY <1>1, <1>2, <1>3, <1>4 DEF Next

\* What the threads know at each point of push, pop, size, retire and the scan
\* holds in every reachable state.
THEOREM Invariance == Spec => []IInv
<1>1. Init => IInv
  BY InitIInv
<1>2. IInv /\ [Next]_vars => IInv'
  BY NextInv
<1> QED
  BY <1>1, <1>2, PTL DEF Spec

\* push, pop and size never look into a node that has been deleted, for any
\* number of threads and whichever addresses new gives out again.
THEOREM NoneUsedAfterFree == Spec => []NoUseAfterFree
<1>1. IInv => NoUseAfterFree
  BY DEF IInv, NoUseAfterFree, Protected, Holds
<1> QED
  BY <1>1, Invariance, PTL

\* Every node is about to be linked by one push, in the list, unlinked by one
\* pop, or put aside by one thread: none leaks, none is deleted twice, and the
\* destructors leave none.
THEOREM NodesAccounted == Spec => []Accounted
<1>1. IInv => Accounted
  <2> SUFFICES ASSUME IInv, closed, \A t \in Threads : retired[t] = {} PROVE live = {}
    BY DEF IInv, Accounted
  <2>1. PICK s : s = TheList
    OBVIOUS
  <2>2. Chain(s) /\ InList = Cell(s) /\ head = nullptr
    BY <2>1, ListIs DEF IInv
  <2>3. s = <<>>
    <3> SUFFICES ASSUME s # <<>> PROVE FALSE
      OBVIOUS
    <3>1. s[1] \in Cells /\ head = s[1]
      BY <2>2 DEF Chain
    <3> QED
      BY <2>2, <3>1
  <2>4. InList = {}
    BY <2>2, <2>3 DEF Cell
  <2>5. \A t \in Threads : Held(t) = {}
    BY IdleHolds DEF IInv, CallInv
  <2> QED
    BY <2>4, <2>5 DEF IInv, InOnePlace
<1> QED
  BY <1>1, Invariance, PTL

---------------------------------------------------------------------------
(* Refinement of LifoStack                                                 *)

Ans == [t \in Threads |-> AnswerOf(t)]

\* What Abstract's variables stand for.
AbstractNext == Abstract!Next
AbstractStutter == UNCHANGED <<Contents, Ans>>

\* val is assigned to in place, so it keeps its domain.
LEMMA ValDomain == Spec => [](DOMAIN val = Threads)
<1>1. Init => DOMAIN val = Threads
  BY DEF Init
<1>2. DOMAIN val = Threads /\ [Next]_vars => (DOMAIN val = Threads)'
  <2> SUFFICES ASSUME DOMAIN val = Threads, [Next]_vars PROVE DOMAIN val' = Threads
    OBVIOUS
  <2>1. ASSUME NEW t \in Threads, Step(t) PROVE DOMAIN val' = DOMAIN val
    <3>1. CASE UNCHANGED val
      BY <3>1
    <3>2. CASE TakeValue(t) \/ PopRelease(t) \/ ReadLength(t) \/ SizeRelease(t)
      BY <3>2 DEF TakeValue, PopRelease, ReadLength, SizeRelease
    <3> QED
      BY <2>1, <3>1, <3>2 DEF Step, AcquireHead, Push, Link, PushWins, PushLoses, PushRelease, Pop,
         PopNothing, ReadNext, PopWins, PopLoses, Retire, Scan, Delete, MeasureStack
  <2> QED
    BY <2>1 DEF Next, DestroyStack, DestroyRetired, vars
<1> QED
  BY <1>1, <1>2, PTL DEF Spec

ContentsWalked == \A s : Chain(s) => Contents = [k \in 1 .. Len(s) |-> node[s[k]].t]

LEMMA ContentsIs == ContentsWalked
<1> SUFFICES ASSUME NEW s, Chain(s) PROVE Contents = [k \in 1 .. Len(s) |-> node[s[k]].t]
  BY DEF ContentsWalked
<1>1. s \in Seq(Cells) /\ Len(s) \in Nat /\ Cell(s) \in SUBSET Cells
  BY DEF Chain, Cell
<1>2. Len(s) <= N /\ N \in Nat
  BY <1>1, ChainFits, NType DEF N
<1>3. Depth = Len(s)
  BY ListIs
<1>4. \A k \in 1 .. Len(s) : Nth[k - 1] = s[k]
  BY <1>1, <1>2, NthIs
<1> QED
  BY <1>3, <1>4 DEF Contents

LEMMA ContentsIsNext == ContentsWalked'
BY ContentsIs, PTL

LEMMA SameContents ==
  ASSUME IInv, head' = head, \A p \in InList : node'[p] = node[p]
  PROVE  Contents' = Contents
<1>1. PICK s : s = TheList
  OBVIOUS
<1>2. Chain(s) /\ InList = Cell(s)
  BY <1>1, ListIs DEF IInv
<1>3. s \in Seq(Cells) /\ \A k \in 1 .. Len(s) : node'[s[k]] = node[s[k]]
  BY <1>2 DEF Cell, Chain
<1>4. Chain(s)'
  BY <1>2, <1>3 DEF Chain
<1>5. Contents' = [k \in 1 .. Len(s) |-> node'[s[k]].t]
  BY <1>4, ContentsIsNext DEF ContentsWalked
<1>6. Contents = [k \in 1 .. Len(s) |-> node[s[k]].t]
  BY <1>2, ContentsIs DEF ContentsWalked
<1> QED
  BY <1>3, <1>5, <1>6

\* A step of one thread does not change what the others have decided to answer.
LEMMA OthersAnswer ==
  ASSUME IInv, NEW u \in Threads, Same(u), val'[u] = val[u],
         Holds(u) => node'[result[u]] = node[result[u]]
  PROVE  AnswerOf(u)' = AnswerOf(u)
<1>1. At(u, "pop_take") => node'[result[u]] = node[result[u]]
  BY DEF IInv, CallInv, Holds
<1>2. Acquired(u, "size") => LengthAt(result[u])' = LengthAt(result[u])
  BY DEF Holds, LengthAt, Same
<1> QED
  BY <1>1, <1>2 DEF AnswerOf, Same

LEMMA OneAnswers ==
  ASSUME NEW t \in Threads, \A u \in Threads \ {t} : AnswerOf(u)' = AnswerOf(u)
  PROVE  Ans' = [Ans EXCEPT ![t] = AnswerOf(t)']
BY DEF Ans

\* A step after which the list holds the same values is a stutter if t's answer
\* stays, and its return if it goes.
LEMMA Returns ==
  ASSUME NEW t \in Threads, Ans' = [Ans EXCEPT ![t] = AnswerOf(t)'], Contents' = Contents,
         AnswerOf(t)' = AnswerOf(t) \/ (AnswerOf(t) # <<>> /\ AnswerOf(t)' = <<>>)
  PROVE  AbstractNext \/ AbstractStutter
<1>1. Ans[t] = AnswerOf(t) /\ Ans \in [Threads -> {Ans[u] : u \in Threads}]
  BY DEF Ans
<1>2. CASE AnswerOf(t)' = AnswerOf(t)
  BY <1>1, <1>2 DEF AbstractStutter
<1>3. CASE AnswerOf(t) # <<>> /\ AnswerOf(t)' = <<>>
  <2>1. Abstract!Return(t)
    BY <1>1, <1>3 DEF Abstract!Return, Abstract!NoAnswer, Ans
  <2> QED
    BY <2>1 DEF AbstractNext, Abstract!Next
<1> QED
  BY <1>2, <1>3

\* A step that leaves the list, and what others have acquired, as it is.
LEMMA QuietStep ==
  ASSUME IInv, NEW t \in Threads, head' = head,
         \A u \in Threads \ {t} : Same(u) /\ val'[u] = val[u],
         \A p \in InList \cup Shared(t) : node'[p] = node[p],
         AnswerOf(t)' = AnswerOf(t) \/ (AnswerOf(t) # <<>> /\ AnswerOf(t)' = <<>>)
  PROVE  AbstractNext \/ AbstractStutter
<1>1. Contents' = Contents
  BY SameContents
<1>2. \A u \in Threads \ {t} : AnswerOf(u)' = AnswerOf(u)
  BY OthersAnswer DEF Shared
<1> QED
  BY <1>1, <1>2, OneAnswers, Returns

LEMMA LoadPointerStep ==
  ASSUME IInv, DOMAIN val = Threads, NEW t \in Threads, AcquireHead(t), LoadPointer(t, head)
  PROVE  AbstractNext \/ AbstractStutter
<1>1. TypeOK /\ CallInv(t)
  BY DEF IInv
<1>2. \A u \in Threads \ {t} : Same(u) /\ val'[u] = val[u]
  BY <1>1 DEF AcquireHead, LoadPointer, TypeOK, HazTypeOK, Same
<1>3. head' = head /\ node' = node
  BY DEF AcquireHead, LoadPointer
<1>4. AnswerOf(t)' = AnswerOf(t) \/ (AnswerOf(t) # <<>> /\ AnswerOf(t)' = <<>>)
  BY <1>1 DEF AcquireHead, LoadPointer, AnswerOf, CallInv, LengthAt, TypeOK, HazTypeOK
<1> QED
  BY <1>2, <1>3, <1>4, QuietStep

LEMMA AnnounceStep ==
  ASSUME IInv, DOMAIN val = Threads, NEW t \in Threads, AcquireHead(t), Announce(t)
  PROVE  AbstractNext \/ AbstractStutter
<1>1. TypeOK /\ CallInv(t)
  BY DEF IInv
<1>2. \A u \in Threads \ {t} : Same(u) /\ val'[u] = val[u]
  BY <1>1 DEF AcquireHead, Announce, TypeOK, HazTypeOK, Same
<1>3. head' = head /\ node' = node
  BY DEF AcquireHead, Announce
<1>4. AnswerOf(t)' = AnswerOf(t) \/ (AnswerOf(t) # <<>> /\ AnswerOf(t)' = <<>>)
  BY <1>1 DEF AcquireHead, Announce, AnswerOf, CallInv, LengthAt, TypeOK, HazTypeOK
<1> QED
  BY <1>2, <1>3, <1>4, QuietStep

LEMMA PushReleaseStep ==
  ASSUME IInv, DOMAIN val = Threads, NEW t \in Threads, PushRelease(t)
  PROVE  AbstractNext \/ AbstractStutter
<1>1. TypeOK /\ CallInv(t)
  BY DEF IInv
<1>2. \A u \in Threads \ {t} : Same(u) /\ val'[u] = val[u]
  BY <1>1 DEF PushRelease, release, TypeOK, HazTypeOK, Same
<1>3. head' = head /\ node' = node
  BY DEF PushRelease, release
<1>4. AnswerOf(t)' = AnswerOf(t) \/ (AnswerOf(t) # <<>> /\ AnswerOf(t)' = <<>>)
  BY <1>1 DEF PushRelease, release, AnswerOf, CallInv, LengthAt, TypeOK, HazTypeOK
<1> QED
  BY <1>2, <1>3, <1>4, QuietStep

LEMMA PopStep ==
  ASSUME IInv, DOMAIN val = Threads, NEW t \in Threads, Pop(t)
  PROVE  AbstractNext \/ AbstractStutter
<1>1. TypeOK /\ CallInv(t)
  BY DEF IInv
<1>2. \A u \in Threads \ {t} : Same(u) /\ val'[u] = val[u]
  BY <1>1 DEF Pop, Acquire, TypeOK, HazTypeOK, Same
<1>3. head' = head /\ node' = node
  BY DEF Pop, Acquire
<1>4. AnswerOf(t)' = AnswerOf(t) \/ (AnswerOf(t) # <<>> /\ AnswerOf(t)' = <<>>)
  BY <1>1 DEF Pop, Acquire, AnswerOf, CallInv, LengthAt, TypeOK, HazTypeOK
<1> QED
  BY <1>2, <1>3, <1>4, QuietStep

LEMMA PopNothingStep ==
  ASSUME IInv, DOMAIN val = Threads, NEW t \in Threads, PopNothing(t)
  PROVE  AbstractNext \/ AbstractStutter
<1>1. TypeOK /\ CallInv(t)
  BY DEF IInv
<1>2. \A u \in Threads \ {t} : Same(u) /\ val'[u] = val[u]
  BY <1>1 DEF PopNothing, TypeOK, HazTypeOK, Same
<1>3. head' = head /\ node' = node
  BY DEF PopNothing
<1>4. AnswerOf(t)' = AnswerOf(t) \/ (AnswerOf(t) # <<>> /\ AnswerOf(t)' = <<>>)
  BY <1>1 DEF PopNothing, AnswerOf, CallInv, LengthAt, TypeOK, HazTypeOK
<1> QED
  BY <1>2, <1>3, <1>4, QuietStep

LEMMA ReadNextStep ==
  ASSUME IInv, DOMAIN val = Threads, NEW t \in Threads, ReadNext(t)
  PROVE  AbstractNext \/ AbstractStutter
<1>1. TypeOK /\ CallInv(t)
  BY DEF IInv
<1>2. \A u \in Threads \ {t} : Same(u) /\ val'[u] = val[u]
  BY <1>1 DEF ReadNext, TypeOK, HazTypeOK, Same
<1>3. head' = head /\ node' = node
  BY DEF ReadNext
<1>4. AnswerOf(t)' = AnswerOf(t) \/ (AnswerOf(t) # <<>> /\ AnswerOf(t)' = <<>>)
  BY <1>1 DEF ReadNext, AnswerOf, CallInv, LengthAt, TypeOK, HazTypeOK
<1> QED
  BY <1>2, <1>3, <1>4, QuietStep

LEMMA PopLosesStep ==
  ASSUME IInv, DOMAIN val = Threads, NEW t \in Threads, PopLoses(t)
  PROVE  AbstractNext \/ AbstractStutter
<1>1. TypeOK /\ CallInv(t)
  BY DEF IInv
<1>2. \A u \in Threads \ {t} : Same(u) /\ val'[u] = val[u]
  BY <1>1 DEF PopLoses, Acquire, TypeOK, HazTypeOK, Same
<1>3. head' = head /\ node' = node
  BY DEF PopLoses, Acquire
<1>4. AnswerOf(t)' = AnswerOf(t) \/ (AnswerOf(t) # <<>> /\ AnswerOf(t)' = <<>>)
  BY <1>1 DEF PopLoses, Acquire, AnswerOf, CallInv, LengthAt, TypeOK, HazTypeOK
<1> QED
  BY <1>2, <1>3, <1>4, QuietStep

LEMMA TakeValueStep ==
  ASSUME IInv, DOMAIN val = Threads, NEW t \in Threads, TakeValue(t)
  PROVE  AbstractNext \/ AbstractStutter
<1>1. TypeOK /\ CallInv(t)
  BY DEF IInv
<1>2. \A u \in Threads \ {t} : Same(u) /\ val'[u] = val[u]
  BY <1>1 DEF TakeValue, TypeOK, HazTypeOK, Same
<1>3. head' = head /\ node' = node
  BY DEF TakeValue
<1>4. AnswerOf(t)' = AnswerOf(t) \/ (AnswerOf(t) # <<>> /\ AnswerOf(t)' = <<>>)
  BY <1>1 DEF TakeValue, AnswerOf, CallInv, LengthAt, TypeOK, HazTypeOK
<1> QED
  BY <1>2, <1>3, <1>4, QuietStep

LEMMA RetireStep ==
  ASSUME IInv, DOMAIN val = Threads, NEW t \in Threads, Retire(t)
  PROVE  AbstractNext \/ AbstractStutter
<1>1. TypeOK /\ CallInv(t)
  BY DEF IInv
<1>2. \A u \in Threads \ {t} : Same(u) /\ val'[u] = val[u]
  BY <1>1 DEF Retire, retire, TypeOK, HazTypeOK, Same
<1>3. head' = head /\ node' = node
  BY DEF Retire, retire
<1>4. AnswerOf(t)' = AnswerOf(t) \/ (AnswerOf(t) # <<>> /\ AnswerOf(t)' = <<>>)
  BY <1>1 DEF Retire, retire, AnswerOf, CallInv, LengthAt, TypeOK, HazTypeOK
<1> QED
  BY <1>2, <1>3, <1>4, QuietStep

LEMMA ScanStep ==
  ASSUME IInv, DOMAIN val = Threads, NEW t \in Threads, Scan(t)
  PROVE  AbstractNext \/ AbstractStutter
<1>1. TypeOK /\ CallInv(t)
  BY DEF IInv
<1>2. \A u \in Threads \ {t} : Same(u) /\ val'[u] = val[u]
  BY <1>1 DEF Scan, ScanSlot, TypeOK, HazTypeOK, Same
<1>3. head' = head /\ node' = node
  BY DEF Scan, ScanSlot
<1>4. AnswerOf(t)' = AnswerOf(t) \/ (AnswerOf(t) # <<>> /\ AnswerOf(t)' = <<>>)
  BY <1>1 DEF Scan, ScanSlot, AnswerOf, CallInv, LengthAt, TypeOK, HazTypeOK
<1> QED
  BY <1>2, <1>3, <1>4, QuietStep

LEMMA DeleteStep ==
  ASSUME IInv, DOMAIN val = Threads, NEW t \in Threads, Delete(t)
  PROVE  AbstractNext \/ AbstractStutter
<1>1. TypeOK /\ CallInv(t)
  BY DEF IInv
<1>2. \A u \in Threads \ {t} : Same(u) /\ val'[u] = val[u]
  BY <1>1 DEF Delete, Eject, TypeOK, HazTypeOK, Same
<1>3. head' = head /\ node' = node
  BY DEF Delete, Eject
<1>4. AnswerOf(t)' = AnswerOf(t) \/ (AnswerOf(t) # <<>> /\ AnswerOf(t)' = <<>>)
  BY <1>1 DEF Delete, Eject, AnswerOf, CallInv, LengthAt, TypeOK, HazTypeOK
<1> QED
  BY <1>2, <1>3, <1>4, QuietStep

LEMMA PopReleaseStep ==
  ASSUME IInv, DOMAIN val = Threads, NEW t \in Threads, PopRelease(t)
  PROVE  AbstractNext \/ AbstractStutter
<1>1. TypeOK /\ CallInv(t)
  BY DEF IInv
<1>2. \A u \in Threads \ {t} : Same(u) /\ val'[u] = val[u]
  BY <1>1 DEF PopRelease, release, TypeOK, HazTypeOK, Same
<1>3. head' = head /\ node' = node
  BY DEF PopRelease, release
<1>4. AnswerOf(t)' = AnswerOf(t) \/ (AnswerOf(t) # <<>> /\ AnswerOf(t)' = <<>>)
  BY <1>1 DEF PopRelease, release, AnswerOf, CallInv, LengthAt, TypeOK, HazTypeOK
<1> QED
  BY <1>2, <1>3, <1>4, QuietStep

LEMMA MeasureStackStep ==
  ASSUME IInv, DOMAIN val = Threads, NEW t \in Threads, MeasureStack(t)
  PROVE  AbstractNext \/ AbstractStutter
<1>1. TypeOK /\ CallInv(t)
  BY DEF IInv
<1>2. \A u \in Threads \ {t} : Same(u) /\ val'[u] = val[u]
  BY <1>1 DEF MeasureStack, Acquire, TypeOK, HazTypeOK, Same
<1>3. head' = head /\ node' = node
  BY DEF MeasureStack, Acquire
<1>4. AnswerOf(t)' = AnswerOf(t) \/ (AnswerOf(t) # <<>> /\ AnswerOf(t)' = <<>>)
  BY <1>1 DEF MeasureStack, Acquire, AnswerOf, CallInv, LengthAt, TypeOK, HazTypeOK
<1> QED
  BY <1>2, <1>3, <1>4, QuietStep

LEMMA ReadLengthStep ==
  ASSUME IInv, DOMAIN val = Threads, NEW t \in Threads, ReadLength(t)
  PROVE  AbstractNext \/ AbstractStutter
<1>1. TypeOK /\ CallInv(t)
  BY DEF IInv
<1>2. \A u \in Threads \ {t} : Same(u) /\ val'[u] = val[u]
  BY <1>1 DEF ReadLength, TypeOK, HazTypeOK, Same
<1>3. head' = head /\ node' = node
  BY DEF ReadLength
<1>4. AnswerOf(t)' = AnswerOf(t) \/ (AnswerOf(t) # <<>> /\ AnswerOf(t)' = <<>>)
  BY <1>1 DEF ReadLength, AnswerOf, CallInv, LengthAt, TypeOK, HazTypeOK
<1> QED
  BY <1>2, <1>3, <1>4, QuietStep

LEMMA SizeReleaseStep ==
  ASSUME IInv, DOMAIN val = Threads, NEW t \in Threads, SizeRelease(t)
  PROVE  AbstractNext \/ AbstractStutter
<1>1. TypeOK /\ CallInv(t)
  BY DEF IInv
<1>2. \A u \in Threads \ {t} : Same(u) /\ val'[u] = val[u]
  BY <1>1 DEF SizeRelease, release, TypeOK, HazTypeOK, Same
<1>3. head' = head /\ node' = node
  BY DEF SizeRelease, release
<1>4. AnswerOf(t)' = AnswerOf(t) \/ (AnswerOf(t) # <<>> /\ AnswerOf(t)' = <<>>)
  BY <1>1 DEF SizeRelease, release, AnswerOf, CallInv, LengthAt, TypeOK, HazTypeOK
<1> QED
  BY <1>2, <1>3, <1>4, QuietStep

LEMMA PushStep ==
  ASSUME IInv, NEW t \in Threads, NEW v \in Values, Push(t, v)
  PROVE  AbstractNext \/ AbstractStutter
<1>1. TypeOK /\ CallInv(t) /\ InOnePlace
  BY DEF IInv
<1>2. \A u \in Threads \ {t} : Same(u) /\ val'[u] = val[u]
  BY <1>1 DEF Push, Acquire, TypeOK, HazTypeOK, Same
<1>3. head' = head /\ \A p \in live : node'[p] = node[p]
  BY <1>1 DEF Push, TypeOK
<1>4. InList \cup Shared(t) \subseteq live
  BY <1>1, SharedIsThere DEF InOnePlace
<1>5. AnswerOf(t)' = AnswerOf(t)
  BY <1>1 DEF Push, Acquire, AnswerOf, TypeOK, HazTypeOK
<1> QED
  BY <1>2, <1>3, <1>4, <1>5, QuietStep

LEMMA LinkStep ==
  ASSUME IInv, NEW t \in Threads, Link(t) \/ PushLoses(t)
  PROVE  AbstractNext \/ AbstractStutter
<1>1. TypeOK /\ CallInv(t) /\ InOnePlace /\ mine[t] # nullptr /\ mine[t] \in Cells
  BY DEF IInv, CallInv, Link, PushLoses, TypeOK, Pointers
<1>2. \A u \in Threads \ {t} : Same(u) /\ val'[u] = val[u]
  BY <1>1 DEF Link, PushLoses, Acquire, TypeOK, HazTypeOK, Same
<1>3. head' = head /\ \A p \in Cells \ {mine[t]} : node'[p] = node[p]
  <2>1. CASE Link(t)
    BY <1>1, <2>1 DEF Link, TypeOK
  <2>2. CASE PushLoses(t)
    BY <1>1, <2>2 DEF PushLoses, TypeOK
  <2> QED
    BY <2>1, <2>2
<1>4. InList \cup Shared(t) \subseteq Cells \ {mine[t]}
  BY <1>1, SharedIsThere DEF InOnePlace, Held, Made, TypeOK
<1>5. AnswerOf(t)' = AnswerOf(t)
  BY <1>1 DEF Link, PushLoses, Acquire, AnswerOf, TypeOK, HazTypeOK
<1> QED
  BY <1>2, <1>3, <1>4, <1>5, QuietStep

\* acquire finds head unchanged: the moment a pop finds the stack empty, and
\* that of the size that will be read from the node.
LEMMA ValidateStep ==
  ASSUME IInv, NEW t \in Threads, AcquireHead(t), Validate(t, head)
  PROVE  AbstractNext \/ AbstractStutter
<1>1. TypeOK /\ CallInv(t)
  BY DEF IInv
<1>2. \A u \in Threads \ {t} : Same(u) /\ val'[u] = val[u]
  BY <1>1 DEF AcquireHead, Validate, TypeOK, HazTypeOK, Same
<1>3. /\ head' = head /\ node' = node /\ result' = result /\ pc' = pc
      /\ apc[t] = "validate" /\ apc'[t] = IF head = result[t] THEN "out" ELSE "load"
      /\ pc[t] \in {"push", "pop", "size"}
  BY <1>1 DEF AcquireHead, Validate, CallInv, TypeOK, HazTypeOK
<1>4. AnswerOf(t) = <<>> /\ Contents' = Contents
  BY <1>3, SameContents DEF AnswerOf
<1>5. \A u \in Threads \ {t} : AnswerOf(u)' = AnswerOf(u)
  BY <1>2, <1>3, OthersAnswer
<1>6. Ans' = [Ans EXCEPT ![t] = AnswerOf(t)']
  BY <1>5, OneAnswers
<1>7. PICK s : s = TheList
  OBVIOUS
<1>8. Chain(s) /\ Contents = [k \in 1 .. Len(s) |-> node[s[k]].t] /\ s \in Seq(Cells)
  BY <1>7, ContentsIs DEF IInv, ContentsWalked, Chain
<1>9. Len(Contents) = Len(s) /\ (Contents = <<>> <=> s = <<>>)
  <2>1. Len(Contents) = Len(s)
    BY <1>8
  <2>2. s = <<>> => Contents = <<>>
    BY <1>8
  <2>3. Contents = <<>> => Len(s) = 0
    BY <2>1
  <2> QED
    BY <1>8, <2>1, <2>2, <2>3
<1>10. CASE At(t, "pop") /\ head = result[t] /\ result[t] = nullptr
  <2>1. AnswerOf(t)' = <<"empty">>
    BY <1>3, <1>10 DEF AnswerOf
  <2>2. s = <<>>
    BY <1>8, <1>10 DEF Chain
  <2>3. Abstract!PopEmpty(t)
    BY <1>4, <1>6, <1>9, <2>1, <2>2
       DEF Abstract!PopEmpty, Abstract!Decide, Abstract!NoAnswer, Abstract!PoppedNothing, Ans
  <2> QED
    BY <2>3 DEF AbstractNext, Abstract!Next
<1>11. CASE At(t, "size") /\ head = result[t]
  <2>1. AnswerOf(t)' = <<"size", LengthAt(head)>>
    BY <1>3, <1>11 DEF AnswerOf, LengthAt
  <2>2. LengthAt(head) = Len(s)
    BY <1>8, LengthAtHead
  <2>3. Abstract!Measure(t)
    BY <1>4, <1>6, <1>9, <2>1, <2>2
       DEF Abstract!Measure, Abstract!Decide, Abstract!NoAnswer, Abstract!Size, Ans
  <2> QED
    BY <2>3 DEF AbstractNext, Abstract!Next
<1>12. CASE ~(At(t, "pop") /\ head = result[t] /\ result[t] = nullptr) /\ ~(At(t, "size") /\ head = result[t])
  <2>1. AnswerOf(t)' = <<>>
    BY <1>3, <1>12 DEF AnswerOf
  <2> QED
    BY <1>4, <1>6, <2>1, Returns
<1> QED
  BY <1>10, <1>11, <1>12

LEMMA PushWinsStep ==
  ASSUME IInv, NEW t \in Threads, PushWins(t)
  PROVE  AbstractNext
<1>1. TypeOK /\ CallInv(t) /\ InOnePlace
  BY DEF IInv
<1>2. \A u \in Threads \ {t} : Same(u) /\ val'[u] = val[u]
  BY <1>1 DEF PushWins, TypeOK, HazTypeOK, Same
<1>3. head' = mine[t] /\ node' = node
  BY DEF PushWins
<1>4. PICK s : s = TheList
  OBVIOUS
<1>5. Chain(s) /\ s \in Seq(Cells) /\ Len(s) \in Nat
  BY <1>4 DEF IInv, Chain
<1>r. PICK r : r = <<mine[t]>> \o s
  OBVIOUS
<1>6. Chain(r)' /\ mine[t] \in Cells /\ mine[t] # nullptr
  <2>1. /\ mine[t] \in Cells /\ mine[t] # nullptr
        /\ node[mine[t]].next = head /\ node[mine[t]].length = Len(s) + 1
    BY <1>4, PushMeetsList
  <2>2. Chain(TheList)' /\ TheList' = r
    BY <1>3, <1>5, <1>r, <2>1, PushedChain
  <2> QED
    BY <2>1, <2>2 DEF Chain
<1>7. Contents' = [k \in 1 .. Len(r) |-> node[r[k]].t]
  BY <1>3, <1>6, ContentsIsNext DEF ContentsWalked
<1>8. Contents = [k \in 1 .. Len(s) |-> node[s[k]].t]
  BY <1>5, ContentsIs DEF ContentsWalked
<1>9. node[mine[t]].t \in Values
  BY <1>1, <1>6 DEF IInv, InOnePlace, Held, Made
<1>10. Contents' = <<node[mine[t]].t>> \o Contents
  <2> DEFINE v == node[mine[t]].t
  <2>1. \A k \in 1 .. Len(s) : s[k] \in Cells
    BY <1>5
  <2>2. Contents \in Seq(Values \cup {NoVal}) /\ Len(Contents) = Len(s)
    <3>1. \A k \in 1 .. Len(s) : node[s[k]].t \in Values \cup {NoVal}
      BY <1>1, <2>1 DEF TypeOK
    <3> QED
      BY <1>5, <1>8, <3>1
  <2>3. Len(r) = Len(s) + 1 /\ r[1] = mine[t] /\ \A k \in 2 .. Len(r) : r[k] = s[k - 1]
    BY <1>5, <1>6, <1>r
  <2>4. <<v>> \o Contents = [k \in 1 .. Len(s) + 1 |-> IF k = 1 THEN v ELSE Contents[k - 1]]
    <3> HIDE DEF v
    <3> QED
      BY <1>5, <1>9, <2>2
  <2>5. \A k \in 1 .. Len(r) : node[r[k]].t = IF k = 1 THEN v ELSE Contents[k - 1]
    BY <1>5, <1>8, <2>3
  <2> QED
    BY <1>7, <2>3, <2>4, <2>5
<1>11. Ans' = Ans
  <2>1. \A u \in Threads \ {t} : AnswerOf(u)' = AnswerOf(u)
    BY <1>2, <1>3, OthersAnswer
  <2>2. AnswerOf(t)' = AnswerOf(t)
    BY <1>1 DEF AnswerOf, PushWins, TypeOK
  <2> QED
    BY <2>1, <2>2 DEF Ans
<1>12. Abstract!Push(node[mine[t]].t)
  BY <1>10, <1>11 DEF Abstract!Push, Ans
<1> QED
  BY <1>9, <1>12 DEF AbstractNext, Abstract!Next

LEMMA PopWinsStep ==
  ASSUME IInv, NEW t \in Threads, PopWins(t)
  PROVE  AbstractNext
<1>1. TypeOK /\ CallInv(t) /\ InOnePlace
  BY DEF IInv
<1>2. \A u \in Threads \ {t} : Same(u) /\ val'[u] = val[u]
  BY <1>1 DEF PopWins, TypeOK, HazTypeOK, Same
<1>3. head = result[t] /\ head # nullptr /\ head' = node[head].next /\ node' = node
  BY <1>1 DEF PopWins, CallInv
<1>4. PICK s : s = TheList
  OBVIOUS
<1>5. Chain(s) /\ s \in Seq(Cells) /\ Len(s) \in Nat
  BY <1>4 DEF IInv, Chain
<1> DEFINE r == Tail(s)
<1>6. Chain(r)' /\ s # <<>> /\ head = s[1]
  <2>1. Chain(TheList)' /\ TheList' = r /\ s # <<>> /\ head = s[1]
    BY <1>3, <1>5, PoppedChain
  <2> QED
    BY <2>1 DEF Chain
<1>7. Contents' = [k \in 1 .. Len(r) |-> node[r[k]].t]
  <2> HIDE DEF r
  <2> QED
    BY <1>3, <1>6, ContentsIsNext DEF ContentsWalked
<1>8. Contents = [k \in 1 .. Len(s) |-> node[s[k]].t]
  BY <1>5, ContentsIs DEF ContentsWalked
<1>9. Contents \in Seq(Values \cup {NoVal}) /\ Len(Contents) = Len(s)
  <2>1. \A k \in 1 .. Len(s) : node[s[k]].t \in Values \cup {NoVal}
    BY <1>1, <1>5 DEF TypeOK
  <2> QED
    BY <1>5, <1>8, <2>1
<1>10. Contents # <<>> /\ Head(Contents) = node[head].t /\ Contents' = Tail(Contents)
  <2>1. 1 \in 1 .. Len(s) /\ Contents[1] = node[head].t
    BY <1>5, <1>6, <1>8
  <2>2. Contents # <<>> /\ Head(Contents) = node[head].t
    BY <1>9, <2>1
  <2>3. Len(r) = Len(s) - 1 /\ \A k \in 1 .. Len(r) : r[k] = s[k + 1]
    BY <1>5, <1>6
  <2> HIDE DEF r
  <2>4. Tail(Contents) = [k \in 1 .. Len(s) - 1 |-> Contents[k + 1]]
    <3>1. Tail(Contents) \in Seq(Values \cup {NoVal}) /\ Len(Tail(Contents)) = Len(s) - 1
      BY <1>9, <2>2
    <3>2. \A k \in 1 .. Len(s) - 1 : Tail(Contents)[k] = Contents[k + 1]
      BY <1>9, <2>2
    <3>3. PICK q \in Seq(Values \cup {NoVal}) : q = Tail(Contents)
      BY <3>1
    <3>4. q \in [1 .. Len(q) -> Values \cup {NoVal}]
      OBVIOUS
    <3> QED
      BY <1>5, <3>1, <3>2, <3>3, <3>4
  <2>5. \A k \in 1 .. Len(r) : node[r[k]].t = Contents[k + 1]
    BY <1>5, <1>8, <2>3
  <2> QED
    BY <1>7, <2>2, <2>3, <2>4, <2>5
<1>11. AnswerOf(t) = <<>> /\ AnswerOf(t)' = <<"popped", node[head].t>>
  BY <1>1, <1>3 DEF AnswerOf, PopWins, TypeOK
<1>12. Ans' = [Ans EXCEPT ![t] = <<"popped", node[head].t>>]
  <2>1. \A u \in Threads \ {t} : AnswerOf(u)' = AnswerOf(u)
    BY <1>2, <1>3, OthersAnswer
  <2> QED
    BY <1>11, <2>1, OneAnswers
<1>13. Abstract!Pop(t)
  BY <1>10, <1>11, <1>12
     DEF Abstract!Pop, Abstract!Decide, Abstract!NoAnswer, Abstract!Popped, Ans
<1> QED
  BY <1>13 DEF AbstractNext, Abstract!Next

LEMMA DestroyStackStep ==
  ASSUME IInv, DestroyStack PROVE AbstractNext
<1>1. Chain(<<>>)' /\ pc' = pc /\ \A t \in Threads : pc[t] = "idle"
  BY DEF DestroyStack, Chain
<1>2. Contents' = <<>>
  <2>1. Contents' = [k \in 1 .. Len(<<>>) |-> node'[<<>>[k]].t]
    BY <1>1, ContentsIsNext DEF ContentsWalked
  <2> QED
    BY <2>1
<1>3. \A t \in Threads : AnswerOf(t)' = AnswerOf(t)
  BY <1>1 DEF AnswerOf
<1>4. Abstract!Destroy
  BY <1>2, <1>3 DEF Abstract!Destroy
<1> QED
  BY <1>4 DEF AbstractNext, Abstract!Next

LEMMA UnchangedStep ==
  ASSUME IInv, UNCHANGED <<head, node, pc, apc, result, val>> PROVE AbstractStutter
<1>1. Contents' = Contents
  BY SameContents
<1>2. \A t \in Threads : AnswerOf(t)' = AnswerOf(t)
  BY DEF AnswerOf, LengthAt
<1> QED
  BY <1>1, <1>2 DEF AbstractStutter, Ans

LEMMA NextStep ==
  ASSUME IInv, DOMAIN val = Threads, [Next]_vars PROVE AbstractNext \/ AbstractStutter
<1>1. ASSUME NEW t \in Threads, Step(t) PROVE AbstractNext \/ AbstractStutter
  <2>1. CASE AcquireHead(t)
    BY <2>1, LoadPointerStep, AnnounceStep, ValidateStep DEF AcquireHead
  <2>2. CASE (\E v \in Values : Push(t, v)) \/ Link(t) \/ PushWins(t) \/ PushLoses(t) \/ PushRelease(t)
    BY <2>2, PushStep, LinkStep, PushWinsStep, PushReleaseStep
  <2>3. CASE Pop(t) \/ PopNothing(t) \/ ReadNext(t) \/ PopWins(t) \/ PopLoses(t)
    BY <2>3, PopStep, PopNothingStep, ReadNextStep, PopWinsStep, PopLosesStep
  <2>4. CASE TakeValue(t) \/ Retire(t) \/ Scan(t) \/ Delete(t) \/ PopRelease(t)
    BY <2>4, TakeValueStep, RetireStep, ScanStep, DeleteStep, PopReleaseStep
  <2>5. CASE MeasureStack(t) \/ ReadLength(t) \/ SizeRelease(t)
    BY <2>5, MeasureStackStep, ReadLengthStep, SizeReleaseStep
  <2> QED
    BY <1>1, <2>1, <2>2, <2>3, <2>4, <2>5 DEF Step
<1>2. CASE DestroyStack
  BY <1>2, DestroyStackStep
<1>3. CASE DestroyRetired
  BY <1>3, UnchangedStep DEF DestroyRetired
<1>4. CASE UNCHANGED vars
  BY <1>4, UnchangedStep DEF vars
<1> QED
  BY <1>1, <1>2, <1>3, <1>4 DEF Next

\* Linearizability: push, pop and size behave as single steps on one last-in
\* first-out list, for any number of threads, any interleaving of their loads,
\* announcements and compare-and-swaps, and any reuse of addresses.
THEOREM Refinement == Spec => ImplementsStack
<1>1. Init => Abstract!Start
  <2> SUFFICES ASSUME Init PROVE Abstract!Start
    OBVIOUS
  <2>1. Chain(<<>>)
    BY DEF Chain, Init
  <2>2. Contents = <<>>
    <3>1. Contents = [k \in 1 .. Len(<<>>) |-> node[<<>>[k]].t]
      BY <2>1, ContentsIs DEF ContentsWalked
    <3> QED
      BY <3>1
  <2>3. \A t \in Threads : AnswerOf(t) = <<>>
    BY DEF Init, AnswerOf
  <2> QED
    BY <2>2, <2>3 DEF Abstract!Start, Abstract!NoAnswer
<1>2. IInv /\ DOMAIN val = Threads /\ [Next]_vars
        => [Abstract!Next]_<<Contents, [t \in Threads |-> AnswerOf(t)]>>
  BY NextStep DEF AbstractNext, AbstractStutter, Ans
<1> QED
  BY <1>1, <1>2, Invariance, ValDomain, PTL DEF Spec, ImplementsStack, Abstract!Spec
=============================================================================
