--------------------------- MODULE SequenceProofs ---------------------------
(***************************************************************************)
(* Proofs about Sequence: whatever calls are made, each buffer has one     *)
(* owner and each element lives once, and a sequence does and returns what *)
(* a plain array would.                                                    *)
(***************************************************************************)
EXTENDS Sequence, FiniteSetTheorems, SequenceTheorems, WellFoundedInduction, TLAPS

---------------------------------------------------------------------------
(* Numbers                                                                 *)

LEMMA LeastNat ==
  ASSUME NEW S \in SUBSET Nat, S # {} PROVE \E m \in S : \A k \in S : m <= k
<1>1. PICK m \in S : \A y \in S : <<y, m>> \notin OpToRel(<, Nat)
  BY NatLessThanWellFounded, WFMin, Zenon
<1>2. \A y \in S : ~(y < m)
  BY <1>1, Zenon DEF OpToRel
<1> QED
  BY <1>2

LEMMA UpTo ==
  ASSUME NEW n \in Nat, NEW S, 0 \in S, \A k \in 1 .. n : k - 1 \in S => k \in S
  PROVE  0 .. n \subseteq S
<1> SUFFICES ASSUME (0 .. n) \ S # {} PROVE FALSE
  OBVIOUS
<1> DEFINE T == (0 .. n) \ S
<1>1. PICK m \in T : \A k \in T : m <= k
  <2>1. T \in SUBSET Nat /\ T # {}
    OBVIOUS
  <2> HIDE DEF T
  <2> QED
    BY <2>1, LeastNat
<1>2. m \in 1 .. n /\ m - 1 \in 0 .. n /\ m - 1 \in S
  BY <1>1
<1> QED
  BY <1>1, <1>2

---------------------------------------------------------------------------
(* Memories                                                                *)

LEMMA Marks ==
  /\ Raw = 0 /\ Moved = -1 /\ nullptr = 0
  /\ Raw \in Cells /\ Raw \notin Objects /\ Moved \in Objects /\ Objects \subseteq Cells
  /\ Values \subseteq Objects
BY SizesAssumption DEF Raw, Moved, nullptr, Cells, Objects

LEMMA FreshCells ==
  ASSUME NEW cap \in Nat
  PROVE  /\ Fresh(cap) \in Seq(Cells) /\ Len(Fresh(cap)) = cap
         /\ Fresh(cap) = [k \in 1 .. cap |-> Raw]
BY Marks DEF Fresh

LEMMA ZeroTyped == Zero \in Reps /\ Zero.flag = FALSE /\ Zero.buffer = nullptr /\ Zero.n = 0
                   /\ Zero.small_n = 0 /\ Zero.elements = Fresh(short_capacity)
BY SizesAssumption, FreshCells, Marks DEF Zero, Reps, nullptr

Memory(w) == w \in [rep : {w.rep}, heap : {w.heap}, ok : {TRUE}]

LEMMA SameMemory ==
  ASSUME NEW v, NEW w, Memory(v), Memory(w), v.rep = w.rep, v.heap = w.heap
  PROVE  v = w
<1>1. ASSUME NEW u, Memory(u) PROVE u = [rep |-> u.rep, heap |-> u.heap, ok |-> TRUE]
  <2> DEFINE R == u.rep
             H == u.heap
  <2>1. u \in [rep : {R}, heap : {H}, ok : {TRUE}]
    BY <1>1 DEF Memory
  <2>2. u = [rep |-> u.rep, heap |-> u.heap, ok |-> u.ok]
    BY <2>1, Zenon
  <2>3. u.ok = TRUE
    BY <2>1
  <2> QED
    BY <2>2, <2>3
<1> QED
  BY <1>1, Zenon

\* Steps within a memory.
LEMMA NewHeap ==
  ASSUME NEW w, Memory(w), NEW h, NEW v, v = [w EXCEPT !.heap = h]
  PROVE  Memory(v) /\ v.rep = w.rep /\ v.heap = h
<1>1. v \in [rep : {w.rep}, heap : {h}, ok : {TRUE}]
  BY DEF Memory
<1> QED
  BY <1>1 DEF Memory

LEMMA NewRep ==
  ASSUME NEW w, Memory(w), NEW r, NEW v, v = [w EXCEPT !.rep = r]
  PROVE  Memory(v) /\ v.rep = r /\ v.heap = w.heap
<1>1. v \in [rep : {r}, heap : {w.heap}, ok : {TRUE}]
  BY DEF Memory
<1> QED
  BY <1>1 DEF Memory

\* The same by name.
WithRep(w, r) == [w EXCEPT !.rep = r]

LEMMA WithRepIs ==
  ASSUME NEW w, Memory(w), NEW r, NEW v, v = WithRep(w, r)
  PROVE  Memory(v) /\ v.rep = r /\ v.heap = w.heap
<1>1. v = [w EXCEPT !.rep = r]
  BY DEF WithRep
<1> QED
  BY <1>1, NewRep

LEMMA WithBufferKeeps ==
  ASSUME NEW w, Memory(w), NEW b, NEW d, NEW v, v = WithBuffer(w, b, d)
  PROVE  Memory(v) /\ v.rep = w.rep
BY NewHeap DEF WithBuffer

LEMMA WithBufferIs ==
  ASSUME NEW w, Memory(w), NEW b, NEW d, NEW v, v = WithBuffer(w, b, d)
  PROVE  v.heap = [x \in DOMAIN w.heap \cup {b} |-> IF x = b THEN d ELSE w.heap[x]]
BY NewHeap DEF WithBuffer

\* Another representation for s, and with it other buffers of the heap.
Rehoused(w, v, s) ==
  /\ Memory(v)
  /\ v.rep = [w.rep EXCEPT ![s] = v.rep[s]] /\ v.rep[s] \in Reps
  /\ v.heap \in [DOMAIN v.heap -> Seq(Cells)]
  /\ DOMAIN v.heap = (DOMAIN w.heap \ House(w.rep[s])) \cup House(v.rep[s])
  /\ House(v.rep[s]) \cap (DOMAIN w.heap \ House(w.rep[s])) = {}
  /\ \A b \in DOMAIN w.heap \ House(w.rep[s]) : v.heap[b] = w.heap[b]

\* v differs from w in s at most.
Apart(w, v, s) ==
  \A t \in All \ {s} : v.rep[t] = w.rep[t] /\ Slots(v, t) = Slots(w, t)

LEMMA Houses ==
  ASSUME NEW r \in Reps
  PROVE  /\ IsFiniteSet(House(r)) /\ House(r) \subseteq Nat \ {nullptr}
         /\ ~(use_sso /\ ~r.flag) /\ r.buffer # nullptr => House(r) = {r.buffer}
         /\ (use_sso /\ ~r.flag) \/ r.buffer = nullptr => House(r) = {}
<1>1. IsFiniteSet({}) /\ IsFiniteSet({r.buffer})
  BY FS_EmptySet, FS_Singleton
<1> QED
  BY <1>1 DEF House, Reps

LEMMA Rehousing ==
  ASSUME NEW w, NEW v, NEW s \in All, Fit(w), Rehoused(w, v, s)
  PROVE  Fit(v) /\ Apart(w, v, s)
<1>1. v.rep \in [All -> Reps]
  BY DEF Fit, Rehoused
<1>2. /\ IsFiniteSet(House(v.rep[s])) /\ House(v.rep[s]) \subseteq Nat \ {nullptr}
  BY Houses DEF Rehoused
<1>3. IsFiniteSet(DOMAIN v.heap)
  <2>1. IsFiniteSet(DOMAIN w.heap \ House(w.rep[s]))
    BY FS_Subset DEF Fit
  <2>2. IsFiniteSet((DOMAIN w.heap \ House(w.rep[s])) \cup House(v.rep[s]))
    BY <1>2, <2>1, FS_Union
  <2> QED
    BY <2>2 DEF Rehoused
<1>4. \A t \in All \ {s} : v.rep[t] = w.rep[t]
  BY DEF Fit, Rehoused
<1>5. \A t \in All \ {s} : House(w.rep[t]) \subseteq DOMAIN w.heap \ House(w.rep[s])
  BY DEF Fit
<1>6. DOMAIN v.heap = UNION {House(v.rep[t]) : t \in All}
  <2>1. DOMAIN w.heap = UNION {House(w.rep[t]) : t \in All}
    BY DEF Fit
  <2>2. DOMAIN v.heap = (DOMAIN w.heap \ House(w.rep[s])) \cup House(v.rep[s])
    BY DEF Rehoused
  <2>3. ASSUME NEW b \in DOMAIN v.heap PROVE \E t \in All : b \in House(v.rep[t])
    BY <1>4, <2>1, <2>2
  <2>4. ASSUME NEW t \in All, NEW b \in House(v.rep[t]) PROVE b \in DOMAIN v.heap
    BY <1>4, <1>5, <2>2
  <2> QED
    BY <2>3, <2>4
<1>7. \A t, u \in All : t # u => House(v.rep[t]) \cap House(v.rep[u]) = {}
  <2>1. ASSUME NEW t \in All \ {s} PROVE House(v.rep[t]) \cap House(v.rep[s]) = {}
    BY <1>4, <1>5 DEF Rehoused
  <2>2. ASSUME NEW t \in All \ {s}, NEW u \in All \ {s}, t # u
        PROVE  House(v.rep[t]) \cap House(v.rep[u]) = {}
    BY <1>4, <2>2 DEF Fit
  <2> QED
    BY <2>1, <2>2
<1>8. Fit(v)
  BY <1>1, <1>2, <1>3, <1>6, <1>7 DEF Fit, Rehoused, Memory
<1>9. ASSUME NEW t \in All \ {s} PROVE Slots(v, t) = Slots(w, t)
  <2>1. w.rep[t] \in Reps
    BY DEF Fit
  <2>2. CASE is_small(w, t) \/ w.rep[t].buffer = nullptr
    BY <1>4, <2>2 DEF Slots, is_small
  <2>3. CASE ~is_small(w, t) /\ w.rep[t].buffer # nullptr
    <3>1. w.rep[t].buffer \in DOMAIN w.heap \ House(w.rep[s])
      BY <1>5, <2>1, <2>3, Houses DEF is_small
    <3> QED
      BY <1>4, <2>3, <3>1 DEF Slots, is_small, Rehoused
  <2> QED
    BY <2>2, <2>3
<1> QED
  BY <1>4, <1>8, <1>9 DEF Apart

LEMMA Views ==
  ASSUME NEW w, NEW s \in All, Fit(w)
  PROVE  /\ Slots(w, s) \in Seq(Cells) /\ capacity(w, s) \in Nat /\ size(w, s) \in Nat
         /\ Slots(w, s) \in [1 .. capacity(w, s) -> Cells]
         /\ DOMAIN Slots(w, s) = 1 .. capacity(w, s)
         /\ w.rep[s] \in Reps
<1>1. w.rep[s] \in Reps
  BY DEF Fit
<1>2. Slots(w, s) \in Seq(Cells)
  <2>1. CASE is_small(w, s)
    <3>1. w.rep[s].elements \in [1 .. short_capacity -> Cells]
      BY <1>1 DEF Reps
    <3>2. w.rep[s].elements \in Seq(Cells)
      BY <3>1, SizesAssumption, SeqDef
    <3> QED
      BY <2>1, <3>2 DEF Slots
  <2>2. CASE ~is_small(w, s) /\ w.rep[s].buffer = nullptr
    BY <2>2 DEF Slots
  <2>3. CASE ~is_small(w, s) /\ w.rep[s].buffer # nullptr
    <3>1. w.rep[s].buffer \in DOMAIN w.heap
      BY <1>1, <2>3, Houses DEF Fit, is_small
    <3>2. w.heap[w.rep[s].buffer] \in Seq(Cells)
      BY <3>1 DEF Fit
    <3> QED
      BY <2>3, <3>2 DEF Slots
  <2> QED
    BY <2>1, <2>2, <2>3
<1>3. size(w, s) \in Nat
  BY <1>1 DEF size, Reps
<1> QED
  BY <1>1, <1>2, <1>3, LenProperties DEF capacity

LEMMA Checked ==
  ASSUME NEW w, Memory(w), NEW b, b
  PROVE  Check(w, b) = w
<1>1. w.ok = TRUE
  BY DEF Memory
<1>2. Check(w, b) = [w EXCEPT !.ok = TRUE]
  BY <1>1 DEF Check
<1> QED
  BY <1>2 DEF Memory

LEMMA FitMemory == ASSUME NEW w, Fit(w) PROVE Memory(w) /\ w.rep \in [All -> Reps]
BY DEF Fit, Memory

LEMMA ApartOn ==
  ASSUME NEW u, NEW v, NEW w, NEW s, Apart(u, v, s), Apart(v, w, s)
  PROVE  Apart(u, w, s)
BY DEF Apart

\* Other contents for s, in the same place.
LEMMA PutSlotsTo ==
  ASSUME NEW w, NEW s \in All, Fit(w), NEW d \in Seq(Cells), Len(d) = capacity(w, s)
  PROVE  LET v == PutSlots(w, s, d)
         IN  /\ Fit(v) /\ Apart(w, v, s)
             /\ Slots(v, s) = d /\ size(v, s) = size(w, s) /\ capacity(v, s) = capacity(w, s)
             /\ is_small(v, s) <=> is_small(w, s)
             /\ v.rep[s].buffer = w.rep[s].buffer /\ DOMAIN v.heap = DOMAIN w.heap
<1> DEFINE r == w.rep[s]
           v == PutSlots(w, s, d)
<1>1. r \in Reps
  BY DEF Fit
<1>2. CASE is_small(w, s)
  <2>1. Len(d) = short_capacity
    <3>1. r.elements \in Seq(Cells) /\ Len(r.elements) = capacity(w, s)
      BY <1>2, Views DEF Slots, capacity
    <3> QED
      BY <1>1, <3>1, SizesAssumption, LenProperties DEF Reps
  <2>2. d \in [1 .. short_capacity -> Cells]
    BY <2>1, LenProperties
  <2>3. /\ v.rep = [w.rep EXCEPT ![s] = [r EXCEPT !.elements = d]]
        /\ v.heap = w.heap /\ Memory(v)
    BY <1>2, NewRep DEF PutSlots, Fit, Memory
  <2>4. v.rep[s] = [r EXCEPT !.elements = d] /\ v.rep[s] \in Reps
    <3>1. v.rep[s] = [r EXCEPT !.elements = d]
      BY <2>3 DEF Fit
    <3> QED
      BY <1>1, <2>2, <3>1 DEF Reps
  <2>5. /\ v.rep[s].flag = r.flag /\ v.rep[s].buffer = r.buffer /\ v.rep[s].n = r.n
        /\ v.rep[s].small_n = r.small_n /\ v.rep[s].elements = d
    BY <1>1, <2>4 DEF Reps
  <2>6. House(v.rep[s]) = House(r) /\ House(r) \subseteq DOMAIN w.heap
    BY <2>5 DEF House, Fit
  <2>7. Rehoused(w, v, s)
    BY <2>3, <2>4, <2>6 DEF Rehoused, Fit
  <2>8. is_small(v, s) /\ size(v, s) = size(w, s) /\ Slots(v, s) = d
    BY <1>2, <2>5 DEF is_small, size, Slots
  <2> QED
    BY <1>2, <2>3, <2>5, <2>7, <2>8, Rehousing DEF capacity
<1>3. CASE ~is_small(w, s) /\ r.buffer = nullptr
  <2>1. v = w
    BY <1>3 DEF PutSlots
  <2>2. Slots(w, s) = <<>> /\ d = <<>>
    BY <1>3, EmptySeq DEF Slots, capacity
  <2> QED
    BY <2>1, <2>2 DEF Apart, capacity
<1>4. CASE ~is_small(w, s) /\ r.buffer # nullptr
  <2>1. House(r) = {r.buffer} /\ r.buffer \in DOMAIN w.heap
    BY <1>1, <1>4, Houses DEF Fit, is_small
  <2>2. /\ v.rep = w.rep /\ Memory(v)
        /\ v.heap = [x \in DOMAIN w.heap \cup {r.buffer} |-> IF x = r.buffer THEN d ELSE w.heap[x]]
    BY <1>4, NewHeap DEF PutSlots, WithBuffer, Fit, Memory
  <2>3. /\ DOMAIN v.heap = DOMAIN w.heap /\ v.heap[r.buffer] = d
        /\ v.heap \in [DOMAIN v.heap -> Seq(Cells)]
        /\ \A b \in DOMAIN w.heap \ House(r) : v.heap[b] = w.heap[b]
    BY <2>1, <2>2 DEF Fit
  <2>4. Rehoused(w, v, s)
    BY <1>1, <2>1, <2>2, <2>3 DEF Rehoused, Fit
  <2>5. ~is_small(v, s) /\ size(v, s) = size(w, s) /\ Slots(v, s) = d
    BY <1>4, <2>2, <2>3 DEF is_small, size, Slots
  <2> QED
    BY <1>4, <2>2, <2>3, <2>4, <2>5, Rehousing DEF capacity
<1> QED
  BY <1>2, <1>3, <1>4

---------------------------------------------------------------------------
(* Rows                                                                    *)

LEMMA Lines ==
  ASSUME NEW a \in Seq(Objects), NEW cap \in Nat, Len(a) <= cap
  PROVE  /\ Line(a, cap) \in Seq(Cells) /\ Len(Line(a, cap)) = cap
         /\ Line(a, cap) \in [1 .. cap -> Cells]
         /\ \A k \in 1 .. cap : Line(a, cap)[k] = IF k <= Len(a) THEN a[k] ELSE Raw
         /\ \A k \in 1 .. Len(a) : Line(a, cap)[k] \in Objects
         /\ \A k \in 1 .. cap : (k <= Len(a)) <=> (Line(a, cap)[k] # Raw)
<1>1. Len(a) \in Nat /\ \A k \in 1 .. Len(a) : a[k] \in Objects
  BY LenProperties, ElementOfSeq
<1>2. Line(a, cap) \in [1 .. cap -> Cells]
  <2>1. ASSUME NEW k \in 1 .. cap PROVE (IF k <= Len(a) THEN a[k] ELSE Raw) \in Cells
    <3>1. CASE k <= Len(a)
      <4>1. k \in 1 .. Len(a)
        BY <1>1, <3>1
      <4> QED
        BY <1>1, <3>1, <4>1, Marks
    <3> QED
      BY <3>1, Marks
  <2> QED
    BY <2>1 DEF Line
<1>3. Line(a, cap) \in Seq(Cells)
  BY <1>2, SeqDef
<1>4. Len(Line(a, cap)) = cap
  BY <1>2, <1>3, LenProperties
<1>5. \A k \in 1 .. cap : Line(a, cap)[k] = IF k <= Len(a) THEN a[k] ELSE Raw
  BY DEF Line
<1>6. \A k \in 1 .. Len(a) : Line(a, cap)[k] \in Objects
  BY <1>1, <1>5
<1>7. \A k \in 1 .. cap : (k <= Len(a)) <=> (Line(a, cap)[k] # Raw)
  BY <1>1, <1>5, Marks
<1> QED
  BY <1>2, <1>3, <1>4, <1>5, <1>6, <1>7

LEMMA SameSlots ==
  ASSUME NEW c, NEW d, NEW cap \in Nat, c \in [1 .. cap -> Cells], d \in [1 .. cap -> Cells],
         \A k \in 1 .. cap : c[k] = d[k]
  PROVE  c = d
OBVIOUS

\* The row that lies in s is what its Elements are, once s believes so.
LEMMA RowElements ==
  ASSUME NEW w, NEW s \in All, Fit(w), NEW a, Row(w, s, a)
  PROVE  Elements(w, s) = a /\ a \in Seq(Objects) /\ size(w, s) = Len(a)
<1>1. /\ a \in Seq(Objects) /\ Len(a) \in Nat /\ capacity(w, s) \in Nat /\ Len(a) <= capacity(w, s)
      /\ Slots(w, s) = Line(a, capacity(w, s)) /\ size(w, s) = Len(a)
  BY Views, LenProperties DEF Row, Lies
<1> DEFINE d == Line(a, capacity(w, s))
<1>2. \A k \in 1 .. Len(a) : d[k] \in Objects /\ d[k] = a[k]
  BY <1>1, Lines
<1> HIDE DEF d
<1>3. /\ SubSeq(d, 1, Len(a)) \in Seq(Objects) /\ Len(SubSeq(d, 1, Len(a))) = Len(a)
      /\ \A k \in 1 .. Len(a) : SubSeq(d, 1, Len(a))[k] = d[k]
  BY <1>1, <1>2, SubSeqProperties
<1>4. SubSeq(d, 1, Len(a)) = a
  BY <1>1, <1>2, <1>3, SeqEqual
<1> QED
  BY <1>1, <1>4 DEF Elements, d

\* Objects are constructed behind the row.
LEMMA initializeLies ==
  ASSUME NEW w, NEW s \in All, Fit(w), NEW a, NEW m, Lies(w, s, a, m), NEW vals \in Seq(Objects),
         Len(a) + Len(vals) <= capacity(w, s)
  PROVE  LET v == initialize(w, s, Len(a), vals)
         IN  /\ Fit(v) /\ Apart(w, v, s)
             /\ Lies(v, s, a \o vals, m) /\ capacity(v, s) = capacity(w, s)
<1> DEFINE n == Len(a)
           d == Slots(w, s)
           cap == capacity(w, s)
           at == n + 1 .. n + Len(vals)
           e == [k \in DOMAIN d |-> IF k \in at THEN vals[k - n] ELSE d[k]]
           v == initialize(w, s, n, vals)
<1>1. /\ a \in Seq(Objects) /\ n \in Nat /\ cap \in Nat /\ d = Line(a, cap) /\ size(w, s) = m
      /\ DOMAIN d = 1 .. cap /\ d \in Seq(Cells) /\ d \in [1 .. cap -> Cells] /\ n <= cap
  BY Views, LenProperties DEF Lies
<1>2. Len(vals) \in Nat /\ \A k \in 1 .. Len(vals) : vals[k] \in Objects /\ vals[k] \in Cells
  BY LenProperties, ElementOfSeq, Marks
<1>3. at \subseteq DOMAIN d /\ \A k \in at : d[k] = Raw
  <2>1. \A k \in at : k \in 1 .. cap /\ ~(k <= n)
    BY <1>1, <1>2
  <2> QED
    BY <1>1, <2>1, Lines
<1>4. e \in [1 .. cap -> Cells]
  <2>1. \A k \in at : vals[k - n] \in Cells
    BY <1>1, <1>2
  <2> QED
    BY <1>1, <2>1
<1>5. e \in Seq(Cells) /\ Len(e) = cap
  <2> HIDE DEF e, cap
  <2>1. e \in Seq(Cells)
    BY <1>1, <1>4, SeqDef
  <2> QED
    BY <1>1, <1>4, <2>1, LenProperties
<1>6. a \o vals \in Seq(Objects) /\ Len(a \o vals) = n + Len(vals)
      /\ \A k \in 1 .. n + Len(vals) : (a \o vals)[k] = IF k <= n THEN a[k] ELSE vals[k - n]
  BY <1>1, ConcatProperties
<1>7. e = Line(a \o vals, cap)
  <2> DEFINE f == Line(a \o vals, cap)
  <2>1. f \in [1 .. cap -> Cells] /\ \A k \in 1 .. cap : f[k] = IF k <= n + Len(vals) THEN (a \o vals)[k] ELSE Raw
    <3>1. Len(a \o vals) <= cap
      BY <1>6
    <3> HIDE DEF cap
    <3>2. /\ f \in [1 .. cap -> Cells]
          /\ \A k \in 1 .. cap : f[k] = IF k <= Len(a \o vals) THEN (a \o vals)[k] ELSE Raw
      BY <1>1, <1>6, <3>1, Lines
    <3> QED
      BY <1>6, <3>2
  <2>2. \A k \in 1 .. cap : d[k] = IF k <= n THEN a[k] ELSE Raw
    BY <1>1, Lines
  <2>3. ASSUME NEW k \in 1 .. cap PROVE e[k] = f[k]
    <3>1. CASE k <= n
      <4>1. k \notin at /\ k \in 1 .. n + Len(vals) /\ k <= n + Len(vals)
        BY <1>1, <1>2, <3>1
      <4> QED
        BY <1>1, <1>6, <2>1, <2>2, <3>1, <4>1
    <3>2. CASE k \in at
      <4>1. ~(k <= n) /\ k \in 1 .. n + Len(vals) /\ k <= n + Len(vals)
        BY <1>1, <1>2, <3>2
      <4> QED
        BY <1>1, <1>6, <2>1, <3>2, <4>1
    <3>3. CASE ~(k <= n) /\ k \notin at
      <4>1. ~(k <= n + Len(vals))
        BY <1>1, <1>2, <3>3
      <4> QED
        BY <1>1, <2>1, <2>2, <3>3, <4>1
    <3> QED
      BY <3>1, <3>2, <3>3
  <2> HIDE DEF e, f
  <2> QED
    BY <1>1, <1>4, <2>1, <2>3, SameSlots DEF f
<1> DEFINE u == PutSlots(w, s, e)
<1>8. /\ Fit(u) /\ Apart(w, u, s)
      /\ Slots(u, s) = e /\ size(u, s) = size(w, s) /\ capacity(u, s) = cap
  <2> HIDE DEF e
  <2> QED
    BY <1>5, PutSlotsTo
<1>9. v = u
  <2>1. v = Check(u, use_sso \/ \A k \in at : d[k] = Raw)
    BY <1>3 DEF initialize
  <2>2. use_sso \/ \A k \in at : d[k] = Raw
    BY <1>3
  <2> HIDE DEF u, d
  <2> QED
    BY <1>8, <2>1, <2>2, Checked, FitMemory
<1>10. Lies(u, s, a \o vals, m)
  <2> HIDE DEF u, e, d
  <2> QED
    BY <1>1, <1>6, <1>7, <1>8 DEF Lies
<1> QED
  BY <1>8, <1>9, <1>10

LEMMA FirstPart ==
  ASSUME NEW a \in Seq(Objects), NEW i \in 0 .. Len(a)
  PROVE  /\ SubSeq(a, 1, i) \in Seq(Objects) /\ Len(SubSeq(a, 1, i)) = i
         /\ \A k \in 1 .. i : SubSeq(a, 1, i)[k] = a[k]
<1>1. Len(a) \in Nat /\ i \in Int /\ i >= 0 /\ i <= Len(a)
  BY LenProperties
<1>2. \A k \in 1 .. i : a[k] \in Objects
  BY <1>1, ElementOfSeq
<1>3. /\ SubSeq(a, 1, i) \in Seq(Objects) /\ Len(SubSeq(a, 1, i)) = IF 1 <= i THEN i - 1 + 1 ELSE 0
      /\ \A k \in 1 .. i - 1 + 1 : SubSeq(a, 1, i)[k] = a[1 + k - 1]
  BY <1>1, <1>2, SubSeqProperties
<1>4. Len(SubSeq(a, 1, i)) = i
  BY <1>1, <1>3
<1>5. ASSUME NEW k \in 1 .. i PROVE SubSeq(a, 1, i)[k] = a[k]
  <2>1. k \in 1 .. i - 1 + 1 /\ 1 + k - 1 = k
    BY <1>1
  <2>2. SubSeq(a, 1, i)[k] = a[1 + k - 1]
    BY <1>3, <2>1
  <2> QED
    BY <2>1, <2>2
<1> QED
  BY <1>3, <1>4, <1>5

LEMMA PutLine ==
  ASSUME NEW w, NEW s \in All, Fit(w), NEW b \in Seq(Objects), Len(b) <= capacity(w, s),
         NEW v, v = PutSlots(w, s, Line(b, capacity(w, s)))
  PROVE  /\ Fit(v) /\ Apart(w, v, s)
         /\ Lies(v, s, b, size(w, s)) /\ capacity(v, s) = capacity(w, s)
         /\ is_small(v, s) <=> is_small(w, s)
         /\ v.rep[s].buffer = w.rep[s].buffer /\ DOMAIN v.heap = DOMAIN w.heap
<1>1. capacity(w, s) \in Nat
  BY Views
<1> DEFINE d == Line(b, capacity(w, s))
<1>2. d \in Seq(Cells) /\ Len(d) = capacity(w, s)
  BY <1>1, Lines
<1> HIDE DEF d
<1>3. /\ Fit(v) /\ Apart(w, v, s)
      /\ Slots(v, s) = d /\ size(v, s) = size(w, s) /\ capacity(v, s) = capacity(w, s)
      /\ is_small(v, s) <=> is_small(w, s)
      /\ v.rep[s].buffer = w.rep[s].buffer /\ DOMAIN v.heap = DOMAIN w.heap
  BY <1>2, PutSlotsTo DEF d
<1> QED
  BY <1>2, <1>3 DEF Lies, d

\* The objects from place i on are destroyed.
LEMMA destroyLies ==
  ASSUME NEW w, NEW s \in All, Fit(w), NEW a, NEW m, Lies(w, s, a, m), NEW i \in 0 .. Len(a)
  PROVE  LET v == destroy(w, s, i, Len(a))
         IN  /\ Fit(v) /\ Apart(w, v, s)
             /\ Lies(v, s, SubSeq(a, 1, i), m) /\ capacity(v, s) = capacity(w, s)
             /\ is_small(v, s) <=> is_small(w, s)
             /\ v.rep[s].buffer = w.rep[s].buffer /\ DOMAIN v.heap = DOMAIN w.heap
<1> DEFINE n == Len(a)
           d == Slots(w, s)
           cap == capacity(w, s)
           at == i + 1 .. n
           e == [k \in DOMAIN d |-> IF k \in at THEN Raw ELSE d[k]]
           b == SubSeq(a, 1, i)
           u == PutSlots(w, s, e)
<1>1. /\ a \in Seq(Objects) /\ n \in Nat /\ cap \in Nat /\ d = Line(a, cap) /\ size(w, s) = m
      /\ DOMAIN d = 1 .. cap /\ n <= cap /\ d \in [1 .. cap -> Cells]
  BY Views, LenProperties DEF Lies
<1>2. b \in Seq(Objects) /\ Len(b) = i /\ \A k \in 1 .. i : b[k] = a[k]
  BY <1>1, FirstPart
<1>3. at \subseteq DOMAIN d /\ \A k \in at : d[k] # Raw
  <2>1. \A k \in at : k \in 1 .. cap /\ k <= n
    BY <1>1
  <2> QED
    BY <1>1, <2>1, Lines
<1>4. e = Line(b, cap)
  <2> DEFINE f == Line(b, cap)
  <2>1. \A k \in 1 .. cap : d[k] = IF k <= n THEN a[k] ELSE Raw
    BY <1>1, Lines
  <2>2. f \in [1 .. cap -> Cells] /\ \A k \in 1 .. cap : f[k] = IF k <= i THEN b[k] ELSE Raw
    <3>1. Len(b) <= cap
      BY <1>1, <1>2
    <3> HIDE DEF b, cap
    <3> QED
      BY <1>1, <1>2, <3>1, Lines
  <2>3. e \in [1 .. cap -> Cells]
    BY <1>1, Marks
  <2>4. \A k \in 1 .. cap : e[k] = f[k]
    BY <1>1, <1>2, <2>1, <2>2
  <2> HIDE DEF e, f
  <2> QED
    BY <1>1, <2>2, <2>3, <2>4, SameSlots DEF f
<1>5. /\ Fit(u) /\ Apart(w, u, s) /\ Lies(u, s, b, m) /\ capacity(u, s) = cap
      /\ is_small(u, s) <=> is_small(w, s)
      /\ u.rep[s].buffer = w.rep[s].buffer /\ DOMAIN u.heap = DOMAIN w.heap
  <2>1. Len(b) <= cap
    BY <1>1, <1>2
  <2> HIDE DEF e, b
  <2> QED
    BY <1>1, <1>2, <1>4, <2>1, PutLine
<1>6. destroy(w, s, i, n) = u
  <2>1. destroy(w, s, i, n) = Check(u, at \subseteq DOMAIN d /\ (use_sso \/ \A k \in at : d[k] # Raw))
    BY DEF destroy
  <2>2. at \subseteq DOMAIN d /\ (use_sso \/ \A k \in at : d[k] # Raw)
    BY <1>3
  <2> HIDE DEF u, d, at
  <2> QED
    BY <1>5, <2>1, <2>2, Checked, FitMemory
<1> QED
  BY <1>5, <1>6

LEMMA NewSizes ==
  ASSUME NEW w, NEW s \in All, Fit(w), NEW m \in Nat, NEW v,
         v = IF is_small(w, s) THEN [w EXCEPT !.rep[s].small_n = m] ELSE [w EXCEPT !.rep[s].n = m]
  PROVE  /\ Fit(v) /\ Apart(w, v, s) /\ Slots(v, s) = Slots(w, s) /\ size(v, s) = m
         /\ is_small(v, s) <=> is_small(w, s)
         /\ v.rep[s].buffer = w.rep[s].buffer /\ v.heap = w.heap
<1> DEFINE r == w.rep[s]
           q == IF is_small(w, s) THEN [r EXCEPT !.small_n = m] ELSE [r EXCEPT !.n = m]
<1>1. r \in Reps /\ Memory(w) /\ w.rep \in [All -> Reps]
  BY DEF Fit, Memory
<1>2. /\ q \in Reps /\ q.flag = r.flag /\ q.buffer = r.buffer /\ q.elements = r.elements
      /\ is_small(w, s) => q.small_n = m
      /\ ~is_small(w, s) => q.n = m
  <2>1. /\ [r EXCEPT !.small_n = m] \in Reps /\ [r EXCEPT !.n = m] \in Reps
        /\ [r EXCEPT !.small_n = m].flag = r.flag /\ [r EXCEPT !.n = m].flag = r.flag
        /\ [r EXCEPT !.small_n = m].buffer = r.buffer /\ [r EXCEPT !.n = m].buffer = r.buffer
        /\ [r EXCEPT !.small_n = m].elements = r.elements /\ [r EXCEPT !.n = m].elements = r.elements
        /\ [r EXCEPT !.small_n = m].small_n = m /\ [r EXCEPT !.n = m].n = m
    BY <1>1 DEF Reps
  <2> QED
    BY <2>1
<1>3. v.rep = [w.rep EXCEPT ![s] = q] /\ v.heap = w.heap /\ Memory(v)
  <2>1. CASE is_small(w, s)
    <3>1. v = [w EXCEPT !.rep = [w.rep EXCEPT ![s] = [r EXCEPT !.small_n = m]]]
      BY <2>1
    <3> QED
      BY <1>1, <2>1, <3>1, NewRep
  <2>2. CASE ~is_small(w, s)
    <3>1. v = [w EXCEPT !.rep = [w.rep EXCEPT ![s] = [r EXCEPT !.n = m]]]
      BY <2>2
    <3> QED
      BY <1>1, <2>2, <3>1, NewRep
  <2> QED
    BY <2>1, <2>2
<1> HIDE DEF q
<1>4. v.rep[s] = q
  BY <1>1, <1>3
<1>5. House(q) = House(r) /\ House(r) \subseteq DOMAIN w.heap
  BY <1>2 DEF House, Fit
<1>6. Rehoused(w, v, s)
  BY <1>2, <1>3, <1>4, <1>5 DEF Rehoused, Fit
<1>7. is_small(v, s) <=> is_small(w, s)
  BY <1>2, <1>4 DEF is_small
<1>8. Slots(v, s) = Slots(w, s) /\ size(v, s) = m
  BY <1>2, <1>3, <1>4, <1>7 DEF Slots, size
<1> QED
  BY <1>2, <1>3, <1>4, <1>6, <1>7, <1>8, Rehousing

\* The size is set to m of the objects, and those after it have ended.
LEMMA set_sizeLies ==
  ASSUME NEW w, NEW s \in All, Fit(w), NEW a, NEW l, Lies(w, s, a, l), NEW m \in 0 .. Len(a),
         use_sso \/ m = Len(a)
  PROVE  LET v == set_size(w, s, m)
         IN  /\ Fit(v) /\ Apart(w, v, s)
             /\ Row(v, s, SubSeq(a, 1, m)) /\ capacity(v, s) = capacity(w, s)
<1> DEFINE n == Len(a)
           d == Slots(w, s)
           cap == capacity(w, s)
           e == [k \in DOMAIN d |-> IF k <= m THEN d[k] ELSE Raw]
           b == SubSeq(a, 1, m)
           u == IF use_sso THEN PutSlots(w, s, e) ELSE w
           v == IF is_small(w, s) THEN [u EXCEPT !.rep[s].small_n = m] ELSE [u EXCEPT !.rep[s].n = m]
<1>1. /\ a \in Seq(Objects) /\ n \in Nat /\ cap \in Nat /\ d = Line(a, cap) /\ size(w, s) = l
      /\ DOMAIN d = 1 .. cap /\ n <= cap /\ d \in [1 .. cap -> Cells]
  BY Views, LenProperties DEF Lies
<1>2. b \in Seq(Objects) /\ Len(b) = m /\ \A k \in 1 .. m : b[k] = a[k]
  BY <1>1, FirstPart
<1>3. e = Line(b, cap)
  <2> DEFINE f == Line(b, cap)
  <2>1. \A k \in 1 .. cap : d[k] = IF k <= n THEN a[k] ELSE Raw
    BY <1>1, Lines
  <2>2. f \in [1 .. cap -> Cells] /\ \A k \in 1 .. cap : f[k] = IF k <= m THEN b[k] ELSE Raw
    <3>1. Len(b) <= cap
      BY <1>1, <1>2
    <3> HIDE DEF b, cap
    <3> QED
      BY <1>1, <1>2, <3>1, Lines
  <2>3. e \in [1 .. cap -> Cells]
    BY <1>1, Marks
  <2>4. \A k \in 1 .. cap : e[k] = f[k]
    BY <1>1, <1>2, <2>1, <2>2
  <2> HIDE DEF e, f
  <2> QED
    BY <1>1, <2>2, <2>3, <2>4, SameSlots DEF f
<1>4. /\ Fit(u) /\ Apart(w, u, s) /\ Lies(u, s, b, l) /\ capacity(u, s) = cap
      /\ is_small(u, s) <=> is_small(w, s)
  <2>1. CASE use_sso
    <3>1. Len(b) <= cap
      BY <1>1, <1>2
    <3> HIDE DEF e, b
    <3> QED
      BY <1>1, <1>2, <1>3, <2>1, <3>1, PutLine
  <2>2. CASE ~use_sso
    <3>1. b = a /\ u = w
      BY <1>1, <2>2, SubSeqFull
    <3> QED
      BY <3>1 DEF Apart
  <2> QED
    BY <2>1, <2>2
<1> HIDE DEF u
<1>5. /\ Fit(v) /\ Apart(u, v, s) /\ Slots(v, s) = Slots(u, s) /\ size(v, s) = m
  <2>1. m \in Nat
    BY <1>1
  <2>2. v = IF is_small(u, s) THEN [u EXCEPT !.rep[s].small_n = m] ELSE [u EXCEPT !.rep[s].n = m]
    BY <1>4
  <2> QED
    BY <1>4, <2>1, <2>2, NewSizes
<1> HIDE DEF v
<1>6. set_size(w, s, m) = v
  <2>1. set_size(w, s, m) = Check(v, m <= capacity(w, s))
    BY DEF set_size, v, u
  <2>2. m <= capacity(w, s)
    BY <1>1
  <2> QED
    BY <1>5, <2>1, <2>2, Checked, FitMemory
<1>7. capacity(v, s) = cap /\ Row(v, s, b)
  BY <1>2, <1>4, <1>5 DEF capacity, Lies, Row
<1> QED
  BY <1>4, <1>5, <1>6, <1>7, ApartOn

LEMMA Associative ==
  ASSUME NEW a \in Seq(Objects), NEW b \in Seq(Objects), NEW c \in Seq(Objects)
  PROVE  (a \o b) \o c = a \o (b \o c)
BY ConcatAssociative

LEMMA EmptyRow == <<>> \in Seq(Objects) /\ Len(<<>>) = 0 /\ \A cap \in Nat : Line(<<>>, cap) = Fresh(cap)
<1>1. <<>> \in Seq(Objects) /\ Len(<<>>) = 0
  BY EmptySeq
<1>2. \A cap \in Nat : Line(<<>>, cap) = Fresh(cap)
  BY <1>1 DEF Line, Fresh
<1> QED
  BY <1>1, <1>2

\* A sequence that is all zero is empty.
LEMMA ZeroRow ==
  ASSUME NEW w, NEW s \in All, Fit(w), w.rep[s] = Zero
  PROVE  Row(w, s, <<>>) /\ House(w.rep[s]) = {} /\ (is_small(w, s) <=> use_sso)
<1>1. (is_small(w, s) <=> use_sso) /\ House(w.rep[s]) = {}
  BY ZeroTyped DEF is_small, House
<1>2. size(w, s) = 0
  BY ZeroTyped DEF size
<1>3. CASE use_sso
  <2>1. Slots(w, s) = Fresh(short_capacity)
    BY <1>1, <1>3, ZeroTyped DEF Slots
  <2>2. capacity(w, s) = short_capacity
    BY <2>1, FreshCells, SizesAssumption DEF capacity
  <2> QED
    BY <1>1, <1>2, <2>1, <2>2, EmptyRow, SizesAssumption DEF Row, Lies
<1>4. CASE ~use_sso
  <2>1. Slots(w, s) = <<>>
    BY <1>1, <1>4, ZeroTyped DEF Slots
  <2>2. capacity(w, s) = 0
    BY <2>1, EmptyRow DEF capacity
  <2>3. Line(<<>>, 0) = <<>>
    BY EmptyRow DEF Line
  <2> QED
    BY <1>1, <1>2, <2>1, <2>2, <2>3, EmptyRow DEF Row, Lies
<1> QED
  BY <1>1, <1>3, <1>4

---------------------------------------------------------------------------
(* Storage                                                                 *)

\* The buffer of s, in which nothing lives any more, is freed.
LEMMA free_bufferOf ==
  ASSUME NEW w, NEW s \in All, Fit(w), NEW m, Lies(w, s, <<>>, m), ~is_small(w, s)
  PROVE  LET x == free_buffer(w, w.rep[s].buffer)
         IN  /\ Memory(x) /\ x.rep = w.rep
             /\ x.heap = [b \in DOMAIN w.heap \ House(w.rep[s]) |-> w.heap[b]]
<1> DEFINE old == w.rep[s].buffer
           x == free_buffer(w, old)
<1>1. w.rep[s] \in Reps /\ Memory(w) /\ w.heap = [b \in DOMAIN w.heap |-> w.heap[b]]
  BY Views, FitMemory DEF Fit
<1>2. CASE old = nullptr
  <2>1. x = w /\ House(w.rep[s]) = {}
    BY <1>2 DEF free_buffer, House
  <2> QED
    BY <1>1, <2>1
<1>3. CASE old # nullptr
  <2> DEFINE y == [w EXCEPT !.heap = [b \in DOMAIN w.heap \ {old} |-> w.heap[b]]]
  <2>1. House(w.rep[s]) = {old}
    BY <1>1, <1>3, Houses DEF is_small
  <2>2. old \in DOMAIN w.heap
    BY <2>1 DEF Fit
  <2>3. \A k \in DOMAIN w.heap[old] : w.heap[old][k] = Raw
    <3>1. w.heap[old] = Slots(w, s)
      BY <1>3 DEF Slots
    <3>2. capacity(w, s) \in Nat
      BY Views
    <3>3. Slots(w, s) = Fresh(capacity(w, s))
      BY <3>2, EmptyRow DEF Lies
    <3> QED
      BY <3>1, <3>2, <3>3, FreshCells
  <2>4. /\ Memory(y) /\ y.rep = w.rep
        /\ y.heap = [b \in DOMAIN w.heap \ {old} |-> w.heap[b]]
    BY <1>1, NewHeap
  <2>5. x = Check(y, old \in DOMAIN w.heap
                     /\ (use_sso \/ \A k \in DOMAIN w.heap[old] : w.heap[old][k] = Raw))
    BY <1>3 DEF free_buffer
  <2> HIDE DEF y
  <2>6. x = y
    BY <2>2, <2>3, <2>4, <2>5, Checked
  <2> QED
    BY <2>1, <2>4, <2>6
<1> QED
  BY <1>2, <1>3

LEMMA storage_clearRow ==
  ASSUME NEW w, NEW s \in All, Fit(w), NEW a, Row(w, s, a)
  PROVE  LET v == storage_clear(w, s)
         IN  Fit(v) /\ Apart(w, v, s) /\ v.rep[s] = Zero /\ Row(v, s, <<>>)
<1> DEFINE n == Len(a)
           v == storage_clear(w, s)
<1>1. /\ Memory(w) /\ w.rep \in [All -> Reps] /\ size(w, s) = n /\ a \in Seq(Objects)
      /\ Lies(w, s, a, n) /\ n \in Nat
  BY LenProperties, FitMemory DEF Row, Lies
<1>2. House(Zero) = {} /\ Zero \in Reps
  BY ZeroTyped DEF House
<1>3. CASE is_small(w, s)
  <2>1. House(w.rep[s]) = {}
    BY <1>3 DEF House, is_small
  <2>2. v = WithRep(w, [w.rep EXCEPT ![s] = Zero])
    BY <1>3 DEF storage_clear, WithRep
  <2>3. Memory(v) /\ v.rep = [w.rep EXCEPT ![s] = Zero] /\ v.heap = w.heap
    BY <1>1, <2>2, WithRepIs
  <2>4. v.rep[s] = Zero
    BY <1>1, <2>3
  <2>5. Rehoused(w, v, s)
    BY <1>2, <2>1, <2>3, <2>4 DEF Rehoused, Fit
  <2> QED
    BY <2>4, <2>5, Rehousing, ZeroRow
<1>4. CASE ~is_small(w, s)
  <2> DEFINE u == destroy(w, s, 0, n)
             x == free_buffer(u, w.rep[s].buffer)
  <2>1. /\ Fit(u) /\ Apart(w, u, s) /\ Lies(u, s, SubSeq(a, 1, 0), n)
        /\ ~is_small(u, s) /\ u.rep[s].buffer = w.rep[s].buffer
    <3>1. 0 \in 0 .. Len(a)
      BY <1>1
    <3> QED
      BY <1>1, <1>4, <3>1, destroyLies
  <2>2. Lies(u, s, <<>>, n) /\ Memory(u) /\ u.rep \in [All -> Reps]
    <3>1. SubSeq(a, 1, 0) = <<>>
      BY SubSeqEmpty
    <3> QED
      BY <2>1, <3>1, FitMemory
  <2>3. v = [x EXCEPT !.rep = [x.rep EXCEPT ![s] = Zero]]
    BY <1>1, <1>4 DEF storage_clear
  <2> HIDE DEF u, x
  <2>4. /\ Memory(x) /\ x.rep = u.rep
        /\ x.heap = [b \in DOMAIN u.heap \ House(u.rep[s]) |-> u.heap[b]]
    <3>1. x = free_buffer(u, u.rep[s].buffer)
      BY <2>1 DEF x
    <3> QED
      BY <2>1, <2>2, <3>1, free_bufferOf
  <2> HIDE DEF x
  <2>5. Memory(v) /\ v.rep = [u.rep EXCEPT ![s] = Zero] /\ v.heap = x.heap
    BY <2>3, <2>4, NewRep
  <2>6. v.rep[s] = Zero
    BY <2>2, <2>5
  <2>7. /\ DOMAIN v.heap = DOMAIN u.heap \ House(u.rep[s])
        /\ \A b \in DOMAIN u.heap \ House(u.rep[s]) : v.heap[b] = u.heap[b]
        /\ v.heap \in [DOMAIN v.heap -> Seq(Cells)]
    BY <2>1, <2>4, <2>5 DEF Fit
  <2> HIDE DEF v
  <2>8. Rehoused(u, v, s)
    BY <1>2, <2>5, <2>6, <2>7 DEF Rehoused
  <2>9. Fit(v) /\ Apart(w, v, s) /\ v.rep[s] = Zero /\ Row(v, s, <<>>)
    BY <2>1, <2>6, <2>8, Rehousing, ApartOn, ZeroRow
  <2> QED
    BY <2>9 DEF v
<1> QED
  BY <1>3, <1>4

LEMMA MaxOfTwo ==
  ASSUME NEW a \in Int, NEW b \in Int
  PROVE  Max({a, b}) \in Int /\ Max({a, b}) >= a /\ Max({a, b}) >= b
<1>1. \E x \in {a, b} : \A y \in {a, b} : x >= y
  OBVIOUS
<1> QED
  BY <1>1 DEF Max

LEMMA MinOfTwo ==
  ASSUME NEW a \in Int, NEW b \in Int
  PROVE  Min({a, b}) \in {a, b} /\ Min({a, b}) <= a /\ Min({a, b}) <= b
<1>1. \E x \in {a, b} : \A y \in {a, b} : x <= y
  OBVIOUS
<1> QED
  BY <1>1 DEF Min

\* There is always another buffer to be had.
LEMMA NewBuffers ==
  ASSUME NEW w, Fit(w)
  PROVE  NewBuffer(w) \in Nat \ {nullptr} /\ NewBuffer(w) \notin DOMAIN w.heap
<1> DEFINE D == DOMAIN w.heap
           c == Cardinality(D)
           S == 1 .. c + 1 \ D
<1>1. IsFiniteSet(D) /\ c \in Nat
  BY FS_CardinalityType DEF Fit
<1>2. S # {}
  <2>1. SUFFICES ASSUME S = {} PROVE FALSE
    OBVIOUS
  <2>2. 1 .. c + 1 \in SUBSET D
    BY <2>1
  <2>3. Cardinality(1 .. c + 1) <= c
    BY <1>1, <2>2, FS_Subset
  <2>4. Cardinality(1 .. c + 1) = c + 1
    <3>1. c + 1 \in Int /\ ~(1 > c + 1) /\ (c + 1) - 1 + 1 = c + 1
      BY <1>1
    <3> HIDE DEF c
    <3> QED
      BY <3>1, FS_Interval
  <2> QED
    BY <1>1, <2>3, <2>4
<1>3. \E x \in S : \A y \in S : x <= y
  <2>1. S \in SUBSET Nat
    BY <1>1
  <2> HIDE DEF S
  <2> QED
    BY <1>2, <2>1, LeastNat
<1>4. Min(S) \in S
  BY <1>3 DEF Min
<1> QED
  BY <1>1, <1>4 DEF NewBuffer, nullptr

\* s moves to a new buffer.
Allocated(w, v, s, b, cap) ==
  /\ b \in Nat \ {nullptr} /\ b \notin DOMAIN w.heap /\ cap \in Nat
  /\ Memory(v) /\ v.rep = [w.rep EXCEPT ![s] = v.rep[s]] /\ v.rep[s] \in Reps
  /\ ~(use_sso /\ ~v.rep[s].flag) /\ v.rep[s].buffer = b
  /\ v.heap \in [DOMAIN v.heap -> Seq(Cells)]
  /\ DOMAIN v.heap = (DOMAIN w.heap \ House(w.rep[s])) \cup {b} /\ v.heap[b] = Fresh(cap)
  /\ \A y \in DOMAIN w.heap \ House(w.rep[s]) : v.heap[y] = w.heap[y]

LEMMA Allocating ==
  ASSUME NEW w, NEW v, NEW s \in All, NEW b, NEW cap, Fit(w), Allocated(w, v, s, b, cap)
  PROVE  /\ Fit(v) /\ Apart(w, v, s)
         /\ Lies(v, s, <<>>, v.rep[s].n) /\ capacity(v, s) = cap
<1>1. House(v.rep[s]) = {b} /\ cap \in Nat
  BY Houses DEF Allocated
<1>2. Rehoused(w, v, s)
  BY <1>1 DEF Rehoused, Allocated
<1>3. ~is_small(v, s) /\ size(v, s) = v.rep[s].n /\ Slots(v, s) = Fresh(cap)
  BY DEF is_small, size, Slots, Allocated
<1>4. capacity(v, s) = cap
  BY <1>1, <1>3, FreshCells DEF capacity
<1> QED
  BY <1>1, <1>2, <1>3, <1>4, Rehousing, EmptyRow DEF Lies

LEMMA initialize_capacityLies ==
  ASSUME NEW w, NEW s \in All, Fit(w), w.rep[s] = Zero, NEW desired \in Nat
  PROVE  LET v == initialize_capacity(w, s, desired)
         IN  /\ Fit(v) /\ Apart(w, v, s)
             /\ Lies(v, s, <<>>, 0) /\ desired <= capacity(v, s)
<1> DEFINE v == initialize_capacity(w, s, desired)
<1>1. /\ Memory(w) /\ w.rep \in [All -> Reps] /\ Row(w, s, <<>>) /\ House(w.rep[s]) = {}
      /\ is_small(w, s) <=> use_sso
  BY FitMemory, ZeroRow
<1>2. CASE use_sso /\ desired <= short_capacity
  <2> DEFINE q == [w.rep[s] EXCEPT !.flag = FALSE]
  <2>1. v = WithRep(w, [w.rep EXCEPT ![s] = q])
    BY <1>2 DEF initialize_capacity, WithRep
  <2>2. q = w.rep[s]
    BY ZeroTyped DEF Reps
  <2> HIDE DEF q
  <2>3. Memory(v) /\ v.rep = [w.rep EXCEPT ![s] = q] /\ v.heap = w.heap
    BY <1>1, <2>1, WithRepIs
  <2>4. v.rep = w.rep
    BY <1>1, <2>2, <2>3
  <2>5. v = w
    BY <1>1, <2>3, <2>4, SameMemory
  <2>6. Slots(w, s) = Fresh(short_capacity)
    BY <1>1, <1>2, ZeroTyped DEF Slots
  <2>7. capacity(w, s) = short_capacity
    BY <2>6, FreshCells, SizesAssumption DEF capacity
  <2> QED
    BY <1>1, <1>2, <2>5, <2>7, EmptyRow DEF Row, Apart
<1>3. CASE ~(use_sso /\ desired <= short_capacity)
  <2> DEFINE b == NewBuffer(w)
             u == Allocate(w, b, desired)
             q == [w.rep[s] EXCEPT !.flag = use_sso, !.buffer = b, !.n = 0]
  <2>1. b \in Nat \ {nullptr} /\ b \notin DOMAIN w.heap
    BY NewBuffers
  <2>2. /\ Memory(u) /\ u.rep = w.rep
        /\ u.heap = [y \in DOMAIN w.heap \cup {b} |-> IF y = b THEN Fresh(desired) ELSE w.heap[y]]
    <3>1. PICK c, d : c = b /\ d = Fresh(desired)
      OBVIOUS
    <3>2. PICK z : z = WithBuffer(w, c, d)
      OBVIOUS
    <3>3. Memory(w)
      BY <1>1
    <3>4. Memory(z) /\ z.rep = w.rep
      BY <3>2, <3>3, WithBufferKeeps
    <3>5. z.heap = [y \in DOMAIN w.heap \cup {c} |-> IF y = c THEN d ELSE w.heap[y]]
      BY <3>2, <3>3, WithBufferIs
    <3>6. u = z
      BY <3>1, <3>2, Zenon DEF Allocate
    <3> QED
      BY <3>1, <3>4, <3>5, <3>6, Zenon
  <2> HIDE DEF u
  <2>3. v = [u EXCEPT !.rep = [u.rep EXCEPT ![s] = [u.rep[s] EXCEPT !.flag = use_sso, !.buffer = b, !.n = 0]]]
    BY <1>3 DEF initialize_capacity, u
  <2>4. Memory(v) /\ v.rep = [w.rep EXCEPT ![s] = q] /\ v.heap = u.heap
    BY <2>2, <2>3, NewRep
  <2>5. q \in Reps /\ q.flag = use_sso /\ q.buffer = b /\ q.n = 0
    <3>1. w.rep[s] \in Reps /\ use_sso \in BOOLEAN
      BY <1>1 DEF Fit
    <3> HIDE DEF b
    <3> QED
      BY <2>1, <3>1 DEF Reps
  <2>6. DOMAIN w.heap \ House(w.rep[s]) = DOMAIN w.heap
    BY <1>1
  <2>7. /\ DOMAIN v.heap = DOMAIN w.heap \cup {b} /\ v.heap[b] = Fresh(desired)
        /\ \A y \in DOMAIN w.heap : v.heap[y] = w.heap[y]
        /\ v.heap \in [DOMAIN v.heap -> Seq(Cells)]
    <3>1. \A y \in DOMAIN w.heap : w.heap[y] \in Seq(Cells)
      BY DEF Fit
    <3> HIDE DEF b
    <3> QED
      BY <2>1, <2>2, <2>4, <3>1, FreshCells
  <2> HIDE DEF q, b, v
  <2>8. v.rep[s] = q
    BY <1>1, <2>4
  <2>9. Allocated(w, v, s, b, desired)
    BY <2>1, <2>4, <2>5, <2>6, <2>7, <2>8 DEF Allocated
  <2>10. /\ Fit(v) /\ Apart(w, v, s) /\ Lies(v, s, <<>>, 0) /\ capacity(v, s) = desired
    BY <2>5, <2>8, <2>9, Allocating
  <2> QED
    BY <2>10 DEF v
<1> QED
  BY <1>2, <1>3

\* The objects are the same afterwards, with more room.
LEMMA ensure_capacityRow ==
  ASSUME NEW w, NEW s \in All, Fit(w), NEW a, Row(w, s, a), NEW desired \in Nat
  PROVE  LET v == ensure_capacity(w, s, desired)
         IN  /\ Fit(v) /\ Apart(w, v, s) /\ Row(v, s, a)
             /\ desired <= capacity(v, s)
<1> DEFINE current == capacity(w, s)
           n == Len(a)
           v == ensure_capacity(w, s, desired)
<1>1. /\ w.rep[s] \in Reps /\ current \in Nat /\ n \in Nat /\ n <= current /\ size(w, s) = n
      /\ Elements(w, s) = a /\ a \in Seq(Objects) /\ use_sso \in BOOLEAN
  BY Views, RowElements, LenProperties DEF Row, Lies, Fit
<1>2. CASE current >= desired
  <2>1. v = w
    BY <1>2 DEF ensure_capacity
  <2> QED
    BY <1>1, <1>2, <2>1 DEF Apart
<1>3. CASE ~(current >= desired)
  <2> DEFINE old  == w.rep[s].buffer
             b    == NewBuffer(w)
             cap  == Max({desired, (5 * current) \div 2})
             e    == PutSlots(w, s, Fresh(current))
             f    == IF is_small(w, s) THEN e ELSE free_buffer(e, old)
             h    == Allocate(f, b, cap)
             q    == [h.rep[s] EXCEPT !.flag = use_sso, !.buffer = b, !.n = n]
             g    == [h EXCEPT !.rep = [h.rep EXCEPT ![s] = q]]
  <2>1. b \in Nat \ {nullptr} /\ b \notin DOMAIN w.heap
    BY NewBuffers
  <2>2. cap \in Nat /\ desired <= cap
    <3>1. desired \in Int /\ (5 * current) \div 2 \in Int
      BY <1>1
    <3>2. cap \in Int /\ cap >= desired
      BY <3>1, MaxOfTwo
    <3> QED
      BY <3>2
  <2>3. /\ Fit(e) /\ Apart(w, e, s) /\ Lies(e, s, <<>>, n)
        /\ is_small(e, s) <=> is_small(w, s)
        /\ e.rep[s].buffer = old /\ DOMAIN e.heap = DOMAIN w.heap
    <3>1. Fresh(current) = Line(<<>>, current) /\ Len(<<>>) <= current /\ <<>> \in Seq(Objects)
      BY <1>1, EmptyRow
    <3>2. PICK z \in Seq(Objects) : z = <<>>
      BY <3>1
    <3>3. e = PutSlots(w, s, Line(z, capacity(w, s))) /\ Len(z) <= capacity(w, s)
      BY <3>1, <3>2
    <3> HIDE DEF e
    <3>4. PICK u : u = PutSlots(w, s, Line(z, capacity(w, s)))
      OBVIOUS
    <3>5. Len(z) <= capacity(w, s)
      BY <3>3
    <3>6. Fit(u) /\ Apart(w, u, s) /\ Lies(u, s, z, size(w, s))
      BY <3>4, <3>5, PutLine
    <3>7. is_small(u, s) <=> is_small(w, s)
      BY <3>4, <3>5, PutLine
    <3>8. u.rep[s].buffer = w.rep[s].buffer
      BY <3>4, <3>5, PutLine
    <3>9. DOMAIN u.heap = DOMAIN w.heap
      BY <3>4, <3>5, PutLine
    <3> QED
      BY <1>1, <3>2, <3>3, <3>4, <3>6, <3>7, <3>8, <3>9, Zenon
  <2> HIDE DEF e
  <2>4. /\ Memory(f) /\ f.rep = e.rep
        /\ f.heap = [y \in DOMAIN e.heap \ House(e.rep[s]) |-> e.heap[y]]
    <3>1. CASE is_small(w, s)
      <4>1. House(e.rep[s]) = {}
        BY <2>3, <3>1 DEF House, is_small
      <4>2. e.heap = [y \in DOMAIN e.heap |-> e.heap[y]]
        BY <2>3 DEF Fit
      <4> QED
        BY <2>3, <3>1, <4>1, <4>2, FitMemory
    <3>2. CASE ~is_small(w, s)
      <4>1. f = free_buffer(e, e.rep[s].buffer)
        BY <2>3, <3>2
      <4>2. Fit(e) /\ Lies(e, s, <<>>, n) /\ ~is_small(e, s)
        BY <2>3, <3>2
      <4>3. PICK x : x = free_buffer(e, e.rep[s].buffer)
        OBVIOUS
      <4>4. Memory(x) /\ x.rep = e.rep
        BY <4>2, <4>3, free_bufferOf
      <4>5. x.heap = [y \in DOMAIN e.heap \ House(e.rep[s]) |-> e.heap[y]]
        BY <4>2, <4>3, free_bufferOf
      <4>6. f = x
        BY <4>1, <4>3, Zenon
      <4> QED
        BY <4>4, <4>5, <4>6, Zenon
    <3> QED
      BY <3>1, <3>2
  <2> HIDE DEF f, b, cap
  <2>5. /\ Memory(h) /\ h.rep = e.rep
        /\ h.heap = [y \in DOMAIN f.heap \cup {b} |-> IF y = b THEN Fresh(cap) ELSE f.heap[y]]
    BY <2>4, NewHeap DEF Allocate, WithBuffer
  <2> HIDE DEF h
  <2>6. /\ q \in Reps /\ q.flag = use_sso /\ q.buffer = b /\ q.n = n
    <3>1. h.rep[s] \in Reps
      BY <2>3, <2>5 DEF Fit
    <3> QED
      BY <1>1, <2>1, <3>1 DEF Reps
  <2> HIDE DEF q
  <2>7. Memory(g) /\ g.rep = [e.rep EXCEPT ![s] = q] /\ g.heap = h.heap
    BY <2>5, NewRep
  <2>8. /\ DOMAIN g.heap = (DOMAIN e.heap \ House(e.rep[s])) \cup {b} /\ g.heap[b] = Fresh(cap)
        /\ \A y \in DOMAIN e.heap \ House(e.rep[s]) : g.heap[y] = e.heap[y]
        /\ g.heap \in [DOMAIN g.heap -> Seq(Cells)]
    <3>1. \A y \in DOMAIN e.heap : e.heap[y] \in Seq(Cells)
      BY <2>3 DEF Fit
    <3> HIDE DEF g
    <3> QED
      BY <2>1, <2>2, <2>3, <2>4, <2>5, <2>7, <3>1, FreshCells
  <2>9. v = initialize(g, s, 0, a)
    BY <1>1, <1>3 DEF ensure_capacity, e, f, h, b, cap, q
  <2> HIDE DEF g, v
  <2>10. g.rep[s] = q
    BY <2>3, <2>7 DEF Fit
  <2>11. Allocated(e, g, s, b, cap)
    BY <2>1, <2>2, <2>3, <2>6, <2>7, <2>8, <2>10 DEF Allocated
  <2>12. /\ Fit(g) /\ Apart(e, g, s) /\ Lies(g, s, <<>>, n) /\ capacity(g, s) = cap
    BY <2>3, <2>6, <2>10, <2>11, Allocating
  <2>13. Len(<<>>) + Len(a) <= capacity(g, s)
    BY <1>1, <1>3, <2>2, <2>12, EmptyRow
  <2>14. v = initialize(g, s, Len(<<>>), a)
    BY <2>9, EmptyRow
  <2>15. /\ Fit(v) /\ Apart(g, v, s) /\ Lies(v, s, <<>> \o a, n) /\ capacity(v, s) = cap
    <3>1. Lies(g, s, <<>>, n) /\ a \in Seq(Objects) /\ Fit(g)
      BY <1>1, <2>12
    <3>2. /\ Fit(v) /\ Apart(g, v, s) /\ Lies(v, s, <<>> \o a, n) /\ capacity(v, s) = capacity(g, s)
      BY <2>13, <2>14, <3>1, initializeLies, Zenon
    <3> QED
      BY <2>12, <3>2
  <2>16. <<>> \o a = a
    BY <1>1, ConcatEmptySeq
  <2>17. /\ Fit(v) /\ Apart(w, v, s) /\ Row(v, s, a) /\ desired <= capacity(v, s)
    BY <2>2, <2>3, <2>12, <2>15, <2>16, ApartOn DEF Row
  <2> QED
    BY <2>17 DEF v
<1> QED
  BY <1>2, <1>3

---------------------------------------------------------------------------
(* Calls that change one sequence                                          *)

\* From w to v row b takes the place of what was in s.
Puts(w, v, s, b) == Fit(v) /\ Apart(w, v, s) /\ Row(v, s, b)

LEMMA PutsOn ==
  ASSUME NEW u, NEW v, NEW w, NEW s, NEW b, Apart(u, v, s), Puts(v, w, s, b)
  PROVE  Puts(u, w, s, b)
BY ApartOn DEF Puts

LEMMA initialize_rangePuts ==
  ASSUME NEW w, NEW s \in All, Fit(w), w.rep[s] = Zero, NEW vals \in Seq(Objects)
  PROVE  Puts(w, initialize_range(w, s, vals), s, vals)
<1> DEFINE n == Len(vals)
<1>1. n \in Nat
  BY LenProperties
<1>2. PICK u : u = initialize_capacity(w, s, n)
  OBVIOUS
<1>3. Fit(u) /\ Apart(w, u, s) /\ Lies(u, s, <<>>, 0) /\ n <= capacity(u, s)
  BY <1>1, <1>2, initialize_capacityLies
<1>4. PICK v : v = initialize(u, s, Len(<<>>), vals)
  OBVIOUS
<1>5. Fit(v) /\ Apart(u, v, s) /\ Lies(v, s, <<>> \o vals, 0) /\ capacity(v, s) = capacity(u, s)
  <2>1. Len(<<>>) + Len(vals) <= capacity(u, s)
    BY <1>1, <1>3, EmptyRow
  <2> QED
    BY <1>3, <1>4, <2>1, initializeLies
<1>6. Lies(v, s, vals, 0)
  BY <1>5, ConcatEmptySeq
<1>7. PICK x : x = set_size(v, s, n)
  OBVIOUS
<1>8. Fit(x) /\ Apart(v, x, s) /\ Row(x, s, SubSeq(vals, 1, n))
  <2>1. n \in 0 .. Len(vals)
    BY <1>1
  <2> QED
    BY <1>5, <1>6, <1>7, <2>1, set_sizeLies
<1>9. SubSeq(vals, 1, n) = vals
  BY SubSeqFull
<1>10. x = initialize_range(w, s, vals)
  BY <1>2, <1>4, <1>7, EmptyRow DEF initialize_range
<1> QED
  BY <1>3, <1>5, <1>8, <1>9, <1>10, ApartOn DEF Puts

LEMMA assignPuts ==
  ASSUME NEW w, NEW s \in All, Fit(w), NEW a, Row(w, s, a), NEW vals \in Seq(Objects)
  PROVE  Puts(w, assign(w, s, vals), s, vals)
<1>1. PICK v : v = storage_clear(w, s)
  OBVIOUS
<1>2. Fit(v) /\ Apart(w, v, s) /\ v.rep[s] = Zero
  BY <1>1, storage_clearRow
<1>3. Puts(v, initialize_range(v, s, vals), s, vals)
  BY <1>2, initialize_rangePuts
<1> QED
  BY <1>1, <1>2, <1>3, PutsOn DEF assign

\* Room for more, and the objects constructed behind the others.
LEMMA Grown ==
  ASSUME NEW w, NEW s \in All, Fit(w), NEW a, Row(w, s, a), NEW vals \in Seq(Objects),
         NEW u, u = ensure_capacity(w, s, Len(a) + Len(vals)),
         NEW v, v = initialize(u, s, Len(a), vals),
         NEW x, x = set_size(v, s, Len(a) + Len(vals))
  PROVE  Puts(w, x, s, a \o vals)
<1>1. a \in Seq(Objects) /\ Len(a) \in Nat /\ Len(vals) \in Nat /\ Len(a) + Len(vals) \in Nat
  BY LenProperties DEF Row, Lies
<1>2. Fit(u) /\ Apart(w, u, s) /\ Row(u, s, a) /\ Len(a) + Len(vals) <= capacity(u, s)
  BY <1>1, ensure_capacityRow
<1>3. Fit(v) /\ Apart(u, v, s) /\ Lies(v, s, a \o vals, Len(a))
  BY <1>2, initializeLies DEF Row
<1>4. a \o vals \in Seq(Objects) /\ Len(a \o vals) = Len(a) + Len(vals)
  BY <1>1, ConcatProperties
<1>5. PICK b \in Seq(Objects) : b = a \o vals
  BY <1>4
<1>6. Len(b) \in 0 .. Len(b) /\ Len(b) = Len(a) + Len(vals) /\ Lies(v, s, b, Len(a))
  BY <1>1, <1>3, <1>4, <1>5
<1>7. Fit(x) /\ Apart(v, x, s) /\ Row(x, s, SubSeq(b, 1, Len(b)))
  BY <1>3, <1>6, set_sizeLies
<1>8. SubSeq(b, 1, Len(b)) = b
  BY SubSeqFull
<1> QED
  BY <1>2, <1>3, <1>5, <1>7, <1>8, ApartOn DEF Puts

LEMMA appendPuts ==
  ASSUME NEW w, NEW s \in All, Fit(w), NEW a, Row(w, s, a), NEW vals \in Seq(Objects)
  PROVE  Puts(w, append(w, s, vals), s, a \o vals)
BY RowElements, Grown DEF append

LEMMA emplace_backPuts ==
  ASSUME NEW w, NEW s \in All, Fit(w), NEW a, Row(w, s, a), NEW x \in Objects
  PROVE  Puts(w, emplace_back(w, s, x), s, Append(a, x))
<1>1. PICK vals : vals = <<x>>
  OBVIOUS
<1>2. vals \in Seq(Objects) /\ Len(vals) = 1
  BY <1>1
<1>3. a \in Seq(Objects) /\ size(w, s) = Len(a) /\ Len(a) \in Nat
  BY RowElements, LenProperties
<1>4. PICK u : u = ensure_capacity(w, s, Len(a) + 1)
  OBVIOUS
<1>5. Fit(u) /\ Row(u, s, a)
  BY <1>3, <1>4, ensure_capacityRow
<1>6. size(u, s) = Len(a)
  BY <1>5, RowElements
<1>7. emplace_back(w, s, x) = set_size(initialize(u, s, Len(a), vals), s, Len(a) + 1)
  BY <1>1, <1>3, <1>4, <1>6 DEF emplace_back
<1>8. Puts(w, emplace_back(w, s, x), s, a \o vals)
  BY <1>2, <1>4, <1>7, Grown
<1>9. a \o vals = Append(a, x)
  BY <1>1, <1>3
<1> QED
  BY <1>8, <1>9

\* f is what appending one element after the other leaves each time.
After(f, w, s, vals, n) ==
  f = [k \in 0 .. n |-> IF k = 0 THEN w ELSE emplace_back(f[k - 1], s, vals[k])]

LEMMA OneByOne ==
  ASSUME NEW w, NEW s, NEW vals, NEW n \in Nat
  PROVE  \E f : After(f, w, s, vals, n)
<1> DEFINE S == {m \in 0 .. n : \E f : After(f, w, s, vals, m)}
<1>1. 0 \in S
  <2>1. PICK f : f = [k \in 0 .. 0 |-> w]
    OBVIOUS
  <2>2. After(f, w, s, vals, 0)
    BY <2>1 DEF After
  <2> QED
    BY <2>2
<1>2. ASSUME NEW m \in 1 .. n, m - 1 \in S PROVE m \in S
  <2>1. PICK f : After(f, w, s, vals, m - 1)
    BY <1>2
  <2>2. PICK g : g = [k \in 0 .. m |-> IF k = m THEN emplace_back(f[m - 1], s, vals[m]) ELSE f[k]]
    OBVIOUS
  <2>3. \A k \in 0 .. m - 1 : f[k] = IF k = 0 THEN w ELSE emplace_back(f[k - 1], s, vals[k])
    BY <2>1 DEF After
  <2>4. \A k \in 0 .. m : g[k] = IF k = 0 THEN w ELSE emplace_back(g[k - 1], s, vals[k])
    <3>1. \A k \in 0 .. m - 1 : g[k] = f[k]
      BY <2>2
    <3>2. g[m] = emplace_back(f[m - 1], s, vals[m])
      BY <2>2
    <3>3. m - 1 \in 0 .. m - 1 /\ m # 0
      OBVIOUS
    <3>4. g[m] = emplace_back(g[m - 1], s, vals[m])
      BY <3>1, <3>2, <3>3
    <3>5. ASSUME NEW k \in 0 .. m - 1
          PROVE  g[k] = IF k = 0 THEN w ELSE emplace_back(g[k - 1], s, vals[k])
      <4>1. CASE k = 0
        BY <2>3, <3>1, <4>1
      <4>2. CASE k # 0
        <5>1. k - 1 \in 0 .. m - 1
          BY <4>2
        <5> QED
          BY <2>3, <3>1, <4>2, <5>1
      <4> QED
        BY <4>1, <4>2
    <3>6. ASSUME NEW k \in 0 .. m PROVE k = m \/ k \in 0 .. m - 1
      OBVIOUS
    <3> QED
      BY <3>3, <3>4, <3>5, <3>6
  <2>5. After(g, w, s, vals, m)
    <3>1. g = [k \in 0 .. m |-> g[k]]
      BY <2>2
    <3> QED
      BY <2>4, <3>1 DEF After
  <2> QED
    BY <2>5
<1> HIDE DEF S
<1>3. 0 .. n \subseteq S
  BY <1>1, <1>2, UpTo
<1>4. n \in S
  BY <1>3
<1> QED
  BY <1>4 DEF S

LEMMA append_inputPuts ==
  ASSUME NEW w, NEW s \in All, Fit(w), NEW a, Row(w, s, a), NEW vals \in Seq(Objects)
  PROVE  Puts(w, append_input(w, s, vals), s, a \o vals)
<1> DEFINE n == Len(vals)
<1>1. n \in Nat /\ a \in Seq(Objects) /\ Len(a) \in Nat
  BY LenProperties DEF Row, Lies
<1>2. PICK f : /\ f = [k \in 0 .. n |-> IF k = 0 THEN w ELSE emplace_back(f[k - 1], s, vals[k])]
               /\ append_input(w, s, vals) = f[n]
  <2>1. \E f : After(f, w, s, vals, n)
    BY <1>1, OneByOne
  <2>2. append_input(w, s, vals) = (CHOOSE f : After(f, w, s, vals, n))[n]
    BY DEF append_input, After
  <2> DEFINE f == CHOOSE f : After(f, w, s, vals, n)
  <2>3. After(f, w, s, vals, n)
    BY <2>1, Zenon
  <2> HIDE DEF f
  <2> QED
    BY <2>2, <2>3 DEF After, f
<1> DEFINE b(k) == a \o SubSeq(vals, 1, k)
           T == {k \in 0 .. n : Puts(w, f[k], s, b(k))}
<1>3. ASSUME NEW k \in 0 .. n
      PROVE  f[k] = IF k = 0 THEN w ELSE emplace_back(f[k - 1], s, vals[k])
  BY <1>2
<1>4. 0 \in T
  <2>1. b(0) = a /\ f[0] = w
    <3>1. SubSeq(vals, 1, 0) = <<>>
      BY SubSeqEmpty
    <3>2. a \o <<>> = a
      BY <1>1, ConcatEmptySeq
    <3> QED
      BY <1>1, <1>3, <3>1, <3>2
  <2>2. Puts(w, w, s, a)
    BY DEF Puts, Apart
  <2> HIDE DEF b
  <2> QED
    BY <1>1, <2>1, <2>2
<1>5. ASSUME NEW k \in 1 .. n, k - 1 \in T PROVE k \in T
  <2>1. k - 1 \in 0 .. n /\ k \in 0 .. n /\ k # 0 /\ k \in 1 .. Len(vals)
    BY <1>1
  <2>2. Puts(w, f[k - 1], s, b(k - 1))
    BY <1>5
  <2>3. f[k] = emplace_back(f[k - 1], s, vals[k])
    BY <1>3, <2>1
  <2>4. vals[k] \in Objects
    BY <2>1, ElementOfSeq
  <2>5. b(k) = Append(b(k - 1), vals[k])
    <3>1. SubSeq(vals, 1, k) = SubSeq(vals, 1, k - 1) \o <<vals[k]>>
      BY <2>1, SubSeqRecursiveSecond
    <3>2. SubSeq(vals, 1, k - 1) \in Seq(Objects) /\ <<vals[k]>> \in Seq(Objects)
      BY <2>1, <2>4, FirstPart
    <3>3. b(k) = b(k - 1) \o <<vals[k]>>
      <4>1. PICK x \in Seq(Objects) : x = SubSeq(vals, 1, k - 1)
        BY <3>2
      <4>2. PICK y \in Seq(Objects) : y = <<vals[k]>>
        BY <3>2
      <4>3. (a \o x) \o y = a \o (x \o y)
        <5>1. x \in Seq(Objects) /\ y \in Seq(Objects) /\ a \in Seq(Objects)
          BY <1>1, <4>1, <4>2
        <5> QED
          BY <5>1, Associative, SMTT(60)
      <4> QED
        BY <3>1, <4>1, <4>2, <4>3, Zenon
    <3>4. b(k - 1) \in Seq(Objects)
      BY <1>1, <3>2, ConcatProperties
    <3> HIDE DEF b
    <3> QED
      BY <3>3, <3>4
  <2> HIDE DEF b
  <2>6. Puts(f[k - 1], f[k], s, b(k))
    BY <2>2, <2>3, <2>4, <2>5, emplace_backPuts DEF Puts
  <2>7. Puts(w, f[k], s, b(k))
    BY <2>2, <2>6, PutsOn DEF Puts
  <2> QED
    BY <2>1, <2>7
<1> HIDE DEF T
<1>6. n \in T
  <2>1. 0 .. n \subseteq T
    BY <1>1, <1>4, <1>5, UpTo
  <2> QED
    BY <1>1, <2>1
<1>7. b(n) = a \o vals
  BY SubSeqFull
<1> HIDE DEF b
<1> QED
  BY <1>2, <1>6, <1>7 DEF T

LEMMA destroyPuts ==
  ASSUME NEW w, NEW s \in All, Fit(w), NEW a, Row(w, s, a), NEW i \in 0 .. Len(a)
  PROVE  Puts(w, set_size(IF use_sso THEN w ELSE destroy(w, s, i, Len(a)), s, i), s, SubSeq(a, 1, i))
<1>1. a \in Seq(Objects) /\ Len(a) \in Nat /\ Lies(w, s, a, Len(a)) /\ i \in Nat
  BY LenProperties DEF Row, Lies
<1>2. PICK b \in Seq(Objects) : b = SubSeq(a, 1, i) /\ Len(b) = i
  BY <1>1, FirstPart
<1>3. CASE use_sso
  BY <1>1, <1>3, set_sizeLies DEF Puts
<1>4. CASE ~use_sso
  <2>1. PICK v : v = destroy(w, s, i, Len(a))
    OBVIOUS
  <2>2. Fit(v) /\ Apart(w, v, s) /\ Lies(v, s, b, Len(a))
    BY <1>1, <1>2, <2>1, destroyLies
  <2>3. i \in 0 .. Len(b) /\ i = Len(b)
    BY <1>1, <1>2
  <2>4. Puts(v, set_size(v, s, i), s, SubSeq(b, 1, i))
    BY <2>2, <2>3, set_sizeLies DEF Puts
  <2>5. SubSeq(b, 1, i) = b
    BY <1>2, SubSeqFull
  <2>6. Puts(w, set_size(v, s, i), s, b)
    BY <2>2, <2>4, <2>5, PutsOn
  <2> QED
    BY <1>2, <1>4, <2>1, <2>6
<1> QED
  BY <1>3, <1>4

LEMMA pop_backPuts ==
  ASSUME NEW w, NEW s \in All, Fit(w), NEW a, Row(w, s, a), Len(a) # 0
  PROVE  Puts(w, pop_back(w, s), s, SubSeq(a, 1, Len(a) - 1))
<1>1. size(w, s) = Len(a) /\ Len(a) \in Nat /\ Len(a) - 1 \in 0 .. Len(a)
  BY LenProperties DEF Row, Lies
<1>2. Puts(w, set_size(IF use_sso THEN w ELSE destroy(w, s, Len(a) - 1, Len(a)), s, Len(a) - 1),
           s, SubSeq(a, 1, Len(a) - 1))
  BY <1>1, destroyPuts
<1> QED
  BY <1>1, <1>2 DEF pop_back

\* The first m of the elements, and x until there are m.
Resized(a, m, x) == [k \in 1 .. m |-> IF k <= Len(a) THEN a[k] ELSE x]

LEMMA resizePuts ==
  ASSUME NEW w, NEW s \in All, Fit(w), NEW a, Row(w, s, a), NEW m \in Nat,
         NEW x, m <= Len(a) \/ x \in Objects
  PROVE  Puts(w, resize(w, s, m, x), s, Resized(a, m, x))
<1> DEFINE n == Len(a)
<1>1. a \in Seq(Objects) /\ n \in Nat /\ size(w, s) = n
  BY LenProperties DEF Row, Lies
<1>2. CASE m < n
  <2>1. m \in 0 .. n
    BY <1>1, <1>2
  <2>2. resize(w, s, m, x) = set_size(IF use_sso THEN w ELSE destroy(w, s, m, n), s, m)
    BY <1>1, <1>2 DEF resize
  <2>3. Resized(a, m, x) = SubSeq(a, 1, m)
    <3>1. /\ SubSeq(a, 1, m) \in Seq(Objects) /\ Len(SubSeq(a, 1, m)) = m
          /\ \A k \in 1 .. m : SubSeq(a, 1, m)[k] = a[k]
      BY <1>1, <2>1, FirstPart
    <3>2. PICK b \in Seq(Objects) : b = SubSeq(a, 1, m)
      BY <3>1
    <3>3. b = [k \in 1 .. m |-> b[k]] /\ \A k \in 1 .. m : b[k] = a[k]
      BY <3>1, <3>2, LenProperties
    <3>4. \A k \in 1 .. m : k <= Len(a)
      BY <1>1, <1>2
    <3> QED
      BY <3>2, <3>3, <3>4 DEF Resized
  <2> QED
    BY <2>1, <2>2, <2>3, destroyPuts
<1>3. CASE ~(m < n)
  <2> DEFINE more == [k \in 1 .. m - n |-> x]
  <2>1. m - n \in Nat /\ n + (m - n) = m
    BY <1>1, <1>3
  <2>2. more \in Seq(Objects) /\ Len(more) = m - n
    <3>1. PICK j \in Nat : j = m - n
      BY <2>1
    <3>2. j # 0 => x \in Objects
      BY <1>1, <2>1, <3>1
    <3>3. more = [k \in 1 .. j |-> x]
      BY <3>1
    <3>4. more \in [1 .. j -> Objects]
      BY <3>2, <3>3
    <3> HIDE DEF more
    <3>5. more \in Seq(Objects)
      BY <3>4, SeqDef
    <3> QED
      BY <3>1, <3>4, <3>5, LenProperties
  <2>3. a \o more = Resized(a, m, x)
    <3>1. PICK z \in Seq(Objects) : z = more
      BY <2>2
    <3>2. /\ a \o z \in Seq(Objects) /\ Len(a \o z) = m
          /\ \A k \in 1 .. m : (a \o z)[k] = IF k <= n THEN a[k] ELSE z[k - n]
      BY <1>1, <2>1, <2>2, <3>1, ConcatProperties
    <3>3. PICK b \in Seq(Objects) : b = a \o z
      BY <3>2
    <3>4. b = [k \in 1 .. m |-> b[k]]
      BY <3>2, <3>3, LenProperties
    <3>5. ASSUME NEW k \in 1 .. m PROVE b[k] = IF k <= n THEN a[k] ELSE x
      <4>1. CASE k <= n
        BY <3>2, <3>3, <4>1
      <4>2. CASE ~(k <= n)
        <5>1. k - n \in 1 .. m - n
          BY <1>1, <4>2
        <5> QED
          BY <3>1, <3>2, <3>3, <4>2, <5>1
      <4> QED
        BY <4>1, <4>2
    <3> HIDE DEF more
    <3> QED
      BY <3>1, <3>3, <3>4, <3>5 DEF Resized
  <2>4. resize(w, s, m, x) = set_size(initialize(ensure_capacity(w, s, n + Len(more)), s, n, more), s, n + Len(more))
    <3> HIDE DEF more
    <3>1. resize(w, s, m, x) = set_size(initialize(ensure_capacity(w, s, m), s, n, more), s, m)
      BY <1>1, <1>3 DEF resize, more
    <3> QED
      BY <2>1, <2>2, <3>1
  <2> HIDE DEF more
  <2>5. Puts(w, resize(w, s, m, x), s, a \o more)
    BY <2>2, <2>4, Grown
  <2> QED
    BY <2>3, <2>5
<1> QED
  BY <1>2, <1>3

---------------------------------------------------------------------------
(* Calls that change two                                                   *)

LEMMA StaysRow ==
  ASSUME NEW w, NEW v, NEW s, NEW u \in All \ {s}, Apart(w, v, s), NEW b, Row(w, u, b)
  PROVE  Row(v, u, b) /\ v.rep[u] = w.rep[u]
<1>1. v.rep[u] = w.rep[u] /\ Slots(v, u) = Slots(w, u)
  BY DEF Apart
<1>2. capacity(v, u) = capacity(w, u) /\ size(v, u) = size(w, u)
  BY <1>1 DEF capacity, size, is_small
<1> QED
  BY <1>1, <1>2 DEF Row, Lies

\* From w to v nothing changes but s and t.
Beside(w, v, s, t) ==
  \A u \in All \ {s, t} : v.rep[u] = w.rep[u] /\ Slots(v, u) = Slots(w, u)

\* s comes to hold x and t comes to hold y.
Trades(w, v, s, x, t, y) == Fit(v) /\ Beside(w, v, s, t) /\ Row(v, s, x) /\ Row(v, t, y)

LEMMA BesideOn ==
  ASSUME NEW u, NEW v, NEW w, NEW s, NEW t
  PROVE  /\ Beside(u, v, s, t) /\ Beside(v, w, s, t) => Beside(u, w, s, t)
         /\ Beside(u, v, s, t) => Beside(u, v, t, s)
         /\ Apart(u, v, s) => Beside(u, v, s, t) /\ Beside(u, v, t, s)
BY DEF Beside, Apart

\* Moving leaves husks of objects that are not trivial.
Left(a, i) ==
  IF use_sso THEN a ELSE [k \in 1 .. Len(a) |-> IF k \in i + 1 .. Len(a) THEN Moved ELSE a[k]]

LEMMA LeftRow ==
  ASSUME NEW a \in Seq(Objects), NEW i \in 0 .. Len(a)
  PROVE  /\ Left(a, i) \in Seq(Objects) /\ Len(Left(a, i)) = Len(a)
         /\ SubSeq(Left(a, i), 1, i) = SubSeq(a, 1, i)
<1>1. Len(a) \in Nat /\ \A k \in 1 .. Len(a) : a[k] \in Objects
  BY LenProperties, ElementOfSeq
<1>2. CASE use_sso
  BY <1>2 DEF Left
<1>3. CASE ~use_sso
  <2> DEFINE b == [k \in 1 .. Len(a) |-> IF k \in i + 1 .. Len(a) THEN Moved ELSE a[k]]
  <2>1. b \in [1 .. Len(a) -> Objects] /\ \A k \in 1 .. i : b[k] = a[k]
    <3>1. \A k \in 1 .. Len(a) : (IF k \in i + 1 .. Len(a) THEN Moved ELSE a[k]) \in Objects
      BY <1>1, Marks
    <3>2. \A k \in 1 .. i : k \in 1 .. Len(a) /\ k \notin i + 1 .. Len(a)
      BY <1>1
    <3> QED
      BY <3>1, <3>2
  <2> HIDE DEF b
  <2>2. b \in Seq(Objects)
    BY <1>1, <2>1, SeqDef
  <2>3. Len(b) = Len(a)
    BY <1>1, <2>1, <2>2, LenProperties
  <2>4. SubSeq(b, 1, i) = SubSeq(a, 1, i)
    <3>1. PICK c \in Seq(Objects) : c = SubSeq(b, 1, i) /\ Len(c) = i /\ \A k \in 1 .. i : c[k] = b[k]
      BY <2>2, <2>3, FirstPart
    <3>2. PICK d \in Seq(Objects) : d = SubSeq(a, 1, i) /\ Len(d) = i /\ \A k \in 1 .. i : d[k] = a[k]
      BY FirstPart
    <3>3. \A k \in 1 .. Len(c) : c[k] = d[k]
      BY <2>1, <3>1, <3>2
    <3>4. c = d
      BY <3>1, <3>2, <3>3, SeqEqual
    <3> QED
      BY <3>1, <3>2, <3>4
  <2> QED
    BY <1>3, <2>2, <2>3, <2>4 DEF Left, b
<1> QED
  BY <1>2, <1>3

LEMMA MovedFromPuts ==
  ASSUME NEW w, NEW t \in All, Fit(w), NEW a, Row(w, t, a), NEW i \in 0 .. Len(a)
  PROVE  Puts(w, MovedFrom(w, t, i, Len(a)), t, Left(a, i))
<1> DEFINE n == Len(a)
           d == Slots(w, t)
           cap == capacity(w, t)
           e == [k \in DOMAIN d |-> IF k \in i + 1 .. n THEN Moved ELSE d[k]]
<1>1. /\ a \in Seq(Objects) /\ n \in Nat /\ cap \in Nat /\ d = Line(a, cap) /\ size(w, t) = n
      /\ DOMAIN d = 1 .. cap /\ n <= cap /\ d \in [1 .. cap -> Cells]
  BY Views, LenProperties DEF Row, Lies
<1>2. CASE use_sso
  BY <1>2 DEF MovedFrom, Left, Puts, Apart
<1>3. CASE ~use_sso
  <2>1. PICK b \in Seq(Objects) : b = Left(a, i) /\ Len(b) = n
    BY <1>1, LeftRow
  <2>2. e = Line(b, cap)
    <3>1. \A k \in 1 .. n : b[k] = IF k \in i + 1 .. n THEN Moved ELSE a[k]
      BY <1>3, <2>1 DEF Left
    <3>2. \A k \in 1 .. cap : d[k] = IF k <= n THEN a[k] ELSE Raw
      BY <1>1, Lines
    <3>3. /\ Line(b, cap) \in [1 .. cap -> Cells]
          /\ \A k \in 1 .. cap : Line(b, cap)[k] = IF k <= Len(b) THEN b[k] ELSE Raw
      <4>1. Len(b) <= cap
        BY <1>1, <2>1
      <4> HIDE DEF cap
      <4> QED
        BY <1>1, <4>1, Lines
    <3>4. e \in [1 .. cap -> Cells]
      BY <1>1, Marks
    <3>5. ASSUME NEW k \in 1 .. cap PROVE e[k] = Line(b, cap)[k]
      <4>1. CASE k <= n
        <5>1. k \in 1 .. n
          BY <1>1, <4>1
        <5> QED
          BY <1>1, <2>1, <3>1, <3>2, <3>3, <4>1, <5>1
      <4>2. CASE ~(k <= n)
        <5>1. k \notin i + 1 .. n
          BY <1>1, <4>2
        <5> QED
          BY <1>1, <2>1, <3>2, <3>3, <4>2, <5>1
      <4> QED
        BY <4>1, <4>2
    <3> HIDE DEF e
    <3> QED
      BY <1>1, <3>3, <3>4, <3>5, SameSlots
  <2>3. PICK v : v = PutSlots(w, t, Line(b, cap))
    OBVIOUS
  <2>4. Fit(v) /\ Apart(w, v, t) /\ Lies(v, t, b, n)
    <3>1. Len(b) <= cap
      BY <1>1, <2>1
    <3> QED
      BY <1>1, <2>3, <3>1, PutLine
  <2>5. MovedFrom(w, t, i, n) = v
    BY <1>3, <2>2, <2>3 DEF MovedFrom
  <2> QED
    BY <2>1, <2>4, <2>5 DEF Puts, Row
<1> QED
  BY <1>2, <1>3

LEMMA move_appendTrades ==
  ASSUME NEW w, NEW s \in All, NEW t \in All, s # t, Fit(w),
         NEW a, NEW b, Row(w, s, a), Row(w, t, b)
  PROVE  Trades(w, move_append(w, s, t), s, a \o b, t, Left(b, 0))
<1>1. Elements(w, t) = b /\ b \in Seq(Objects) /\ Len(b) \in Nat
  BY RowElements, LenProperties
<1>2. PICK v : v = append(w, s, b)
  OBVIOUS
<1>3. Puts(w, v, s, a \o b)
  BY <1>1, <1>2, appendPuts
<1>4. Row(v, t, b) /\ size(v, t) = Len(b)
  BY <1>3, StaysRow, RowElements DEF Puts
<1>5. PICK x : x = MovedFrom(v, t, 0, Len(b))
  OBVIOUS
<1>6. Puts(v, x, t, Left(b, 0))
  <2>1. 0 \in 0 .. Len(b)
    BY <1>1
  <2> QED
    BY <1>3, <1>4, <1>5, <2>1, MovedFromPuts DEF Puts
<1>7. Row(x, s, a \o b)
  BY <1>3, <1>6, StaysRow DEF Puts
<1>8. x = move_append(w, s, t)
  BY <1>1, <1>2, <1>4, <1>5 DEF move_append
<1> QED
  BY <1>3, <1>6, <1>7, <1>8, BesideOn DEF Trades, Puts

\* s and t trade all they are; they may be the same.
LEMMA swapTrades ==
  ASSUME NEW w, NEW s \in All, NEW t \in All, Fit(w), NEW a, NEW b, Row(w, s, a), Row(w, t, b),
         NEW v, v = swap(w, s, t)
  PROVE  Trades(w, v, s, b, t, a) /\ v.rep[s] = w.rep[t] /\ v.rep[t] = w.rep[s]
<1>1. Memory(w) /\ w.rep \in [All -> Reps]
  BY FitMemory
<1>2. Memory(v) /\ v.rep = [w.rep EXCEPT ![s] = w.rep[t], ![t] = w.rep[s]] /\ v.heap = w.heap
  BY <1>1, NewRep DEF swap
<1>3. /\ v.rep \in [All -> Reps] /\ v.rep[s] = w.rep[t] /\ v.rep[t] = w.rep[s]
      /\ \A u \in All \ {s, t} : v.rep[u] = w.rep[u]
  BY <1>1, <1>2
<1>4. PICK p \in [All -> All] : p = [u \in All |-> IF u = s THEN t ELSE IF u = t THEN s ELSE u]
  OBVIOUS
<1>5. /\ \A u \in All : v.rep[u] = w.rep[p[u]] /\ p[p[u]] = u
  BY <1>3, <1>4
<1>6. DOMAIN v.heap = UNION {House(v.rep[u]) : u \in All}
  <2>1. DOMAIN w.heap = UNION {House(w.rep[u]) : u \in All}
    BY DEF Fit
  <2>2. ASSUME NEW x PROVE (\E u \in All : x \in House(w.rep[u])) <=> (\E u \in All : x \in House(v.rep[u]))
    BY <1>4, <1>5
  <2> QED
    BY <1>2, <2>1, <2>2
<1>7. \A u, y \in All : u # y => House(v.rep[u]) \cap House(v.rep[y]) = {}
  <2>1. \A u, y \in All : u # y => House(w.rep[u]) \cap House(w.rep[y]) = {}
    BY DEF Fit
  <2>2. ASSUME NEW u \in All, NEW y \in All, u # y
        PROVE  House(v.rep[u]) \cap House(v.rep[y]) = {}
    <3>1. p[u] # p[y] /\ p[u] \in All /\ p[y] \in All
      BY <1>4, <1>5, <2>2
    <3>2. v.rep[u] = w.rep[p[u]] /\ v.rep[y] = w.rep[p[y]]
      BY <1>5
    <3> QED
      BY <2>1, <3>1, <3>2
  <2> QED
    BY <2>2
<1>8. Fit(v)
  BY <1>2, <1>3, <1>6, <1>7 DEF Fit, Memory
<1>9. ASSUME NEW u \in All, NEW y \in All, v.rep[u] = w.rep[y]
      PROVE  Slots(v, u) = Slots(w, y) /\ \A c : Row(w, y, c) => Row(v, u, c)
  <2>1. /\ Slots(v, u) = Slots(w, y) /\ size(v, u) = size(w, y)
        /\ capacity(v, u) = capacity(w, y)
    BY <1>2, <1>9 DEF Slots, size, is_small, capacity
  <2> QED
    BY <2>1 DEF Row, Lies
<1> QED
  BY <1>3, <1>8, <1>9 DEF Trades, Beside

\* To move is to trade with a sequence that is all zero.
LEMMA move_fromSwaps ==
  ASSUME NEW w, NEW s, NEW t, w.rep[s] = Zero PROVE move_from(w, s, t) = swap(w, s, t)
BY DEF move_from, swap

LEMMA copy_constructPuts ==
  ASSUME NEW w, NEW s \in All, NEW t \in All, s # t, Fit(w), w.rep[s] = Zero, NEW b, Row(w, t, b)
  PROVE  Puts(w, copy_construct(w, s, t), s, b)
<1>1. Elements(w, t) = b /\ b \in Seq(Objects)
  BY RowElements
<1>2. CASE is_small(w, t)
  <2>1. PICK v : v = [w EXCEPT !.rep[s] = w.rep[t]]
    OBVIOUS
  <2>2. Memory(w) /\ w.rep \in [All -> Reps] /\ w.rep[t] \in Reps
    BY FitMemory
  <2>3. Memory(v) /\ v.rep = [w.rep EXCEPT ![s] = w.rep[t]] /\ v.heap = w.heap
    BY <2>1, <2>2, NewRep
  <2>4. v.rep[s] = w.rep[t] /\ v.rep[t] = w.rep[t]
    BY <2>2, <2>3
  <2>5. House(w.rep[s]) = {} /\ House(v.rep[s]) = {}
    BY <1>2, <2>4, ZeroRow DEF House, is_small
  <2>6. Rehoused(w, v, s)
    BY <2>2, <2>3, <2>4, <2>5 DEF Rehoused, Fit
  <2>7. Fit(v) /\ Apart(w, v, s)
    BY <2>6, Rehousing
  <2>8. Slots(v, s) = Slots(w, t) /\ size(v, s) = size(w, t) /\ capacity(v, s) = capacity(w, t)
    BY <2>3, <2>4 DEF Slots, size, is_small, capacity
  <2>9. Row(v, s, b)
    BY <2>8 DEF Row, Lies
  <2> QED
    BY <1>2, <2>1, <2>7, <2>9 DEF copy_construct, Puts
<1>3. CASE ~is_small(w, t)
  BY <1>1, <1>3, initialize_rangePuts DEF copy_construct
<1> QED
  BY <1>2, <1>3

---------------------------------------------------------------------------
(* Whole calls                                                             *)

LEMMA OneApart ==
  /\ Tmp \in All /\ Names \subseteq All /\ All \ {Tmp} = Names
  /\ \A s \in Names : s # Tmp
BY NamesAssumption DEF All

\* After a call that changes s and t at most they hold x and y, and the tail is
\* put away.
Settles(w, v, s, x, t, y) ==
  /\ Fit(v) /\ v.rep[Tmp] = Zero
  /\ Row(v, s, x) /\ Row(v, t, y)
  /\ \A u \in Names \ {s, t} : v.rep[u] = w.rep[u] /\ Slots(v, u) = Slots(w, u)

LEMMA PutsSettles ==
  ASSUME NEW w, NEW v, NEW s \in Names, NEW x, w.rep[Tmp] = Zero, Puts(w, v, s, x)
  PROVE  Settles(w, v, s, x, s, x)
BY OneApart DEF Puts, Apart, Settles

LEMMA TradesSettles ==
  ASSUME NEW w, NEW v, NEW s \in Names, NEW x, NEW t \in Names, NEW y, w.rep[Tmp] = Zero,
         Trades(w, v, s, x, t, y)
  PROVE  Settles(w, v, s, x, t, y)
BY OneApart DEF Trades, Beside, Settles

\* What was put aside is destroyed at the end.
LEMMA TmpCleared ==
  ASSUME NEW w, NEW v, NEW s \in Names, NEW x, NEW t \in Names, NEW y, NEW z,
         Fit(v), Row(v, s, x), Row(v, t, y), Row(v, Tmp, z),
         \A u \in Names \ {s, t} : v.rep[u] = w.rep[u] /\ Slots(v, u) = Slots(w, u)
  PROVE  Settles(w, storage_clear(v, Tmp), s, x, t, y)
<1>1. PICK c : c = storage_clear(v, Tmp)
  OBVIOUS
<1>2. Fit(c) /\ Apart(v, c, Tmp) /\ c.rep[Tmp] = Zero
  BY <1>1, OneApart, storage_clearRow
<1>3. Row(c, s, x) /\ Row(c, t, y)
  BY <1>2, OneApart, StaysRow
<1>4. ASSUME NEW u \in Names \ {s, t} PROVE c.rep[u] = w.rep[u] /\ Slots(c, u) = Slots(w, u)
  BY <1>2, OneApart DEF Apart
<1> QED
  BY <1>1, <1>2, <1>3, <1>4 DEF Settles

LEMMA copy_assignSettles ==
  ASSUME NEW w, NEW s \in Names, NEW t \in Names, s # t, Fit(w), w.rep[Tmp] = Zero,
         NEW a, NEW b, Row(w, s, a), Row(w, t, b)
  PROVE  Settles(w, copy_assign(w, s, t), s, b, t, b)
<1>1. PICK u : u = copy_construct(w, Tmp, t)
  OBVIOUS
<1>2. Puts(w, u, Tmp, b)
  BY <1>1, OneApart, copy_constructPuts
<1>3. Row(u, s, a) /\ Row(u, t, b)
  BY <1>2, OneApart, StaysRow DEF Puts
<1>4. PICK v : v = swap(u, s, Tmp)
  OBVIOUS
<1>5. Trades(u, v, s, b, Tmp, a)
  BY <1>2, <1>3, <1>4, OneApart, swapTrades DEF Puts
<1>6. Row(v, t, b)
  <2>1. t \in All \ {s, Tmp}
    BY OneApart
  <2>2. v.rep[t] = u.rep[t] /\ Slots(v, t) = Slots(u, t)
    BY <1>5, <2>1 DEF Trades, Beside
  <2> QED
    BY <1>3, <2>2 DEF Row, Lies, capacity, size, is_small
<1>7. ASSUME NEW z \in Names \ {s, t} PROVE v.rep[z] = w.rep[z] /\ Slots(v, z) = Slots(w, z)
  BY <1>2, <1>5, OneApart DEF Puts, Apart, Trades, Beside
<1>8. Settles(w, storage_clear(v, Tmp), s, b, t, b)
  BY <1>5, <1>6, <1>7, TmpCleared DEF Trades
<1> QED
  BY <1>1, <1>4, <1>8 DEF copy_assign

LEMMA move_assignSettles ==
  ASSUME NEW w, NEW s \in Names, NEW t \in Names, s # t, Fit(w), w.rep[Tmp] = Zero,
         NEW a, NEW b, Row(w, s, a), Row(w, t, b)
  PROVE  Settles(w, move_assign(w, s, t), s, b, t, <<>>)
<1>1. PICK u : u = swap(w, Tmp, t)
  OBVIOUS
<1>2. Row(w, Tmp, <<>>)
  BY OneApart, ZeroRow
<1>3. Trades(w, u, Tmp, b, t, <<>>)
  BY <1>1, <1>2, OneApart, swapTrades
<1>4. Row(u, s, a)
  <2>1. s \in All \ {Tmp, t}
    BY OneApart
  <2>2. u.rep[s] = w.rep[s] /\ Slots(u, s) = Slots(w, s)
    BY <1>3, <2>1 DEF Trades, Beside
  <2> QED
    BY <2>2 DEF Row, Lies, capacity, size, is_small
<1>5. PICK v : v = swap(u, s, Tmp)
  OBVIOUS
<1>6. Trades(u, v, s, b, Tmp, a)
  BY <1>3, <1>4, <1>5, OneApart, swapTrades DEF Trades
<1>7. Row(v, t, <<>>)
  <2>1. t \in All \ {s, Tmp} /\ Row(u, t, <<>>)
    BY <1>3, OneApart DEF Trades
  <2>2. v.rep[t] = u.rep[t] /\ Slots(v, t) = Slots(u, t)
    BY <1>6, <2>1 DEF Trades, Beside
  <2> QED
    BY <2>1, <2>2 DEF Row, Lies, capacity, size, is_small
<1>8. ASSUME NEW z \in Names \ {s, t} PROVE v.rep[z] = w.rep[z] /\ Slots(v, z) = Slots(w, z)
  BY <1>3, <1>6, OneApart DEF Trades, Beside
<1>9. Settles(w, storage_clear(v, Tmp), s, b, t, <<>>)
  BY <1>6, <1>7, <1>8, TmpCleared DEF Trades
<1>10. move_from(w, Tmp, t) = u
  BY <1>1, move_fromSwaps
<1> QED
  BY <1>5, <1>9, <1>10 DEF move_assign

---------------------------------------------------------------------------
(* Tails put aside and back                                                *)

LEMMA LastPart ==
  ASSUME NEW a \in Seq(Objects), NEW i \in 0 .. Len(a)
  PROVE  SubSeq(a, i + 1, Len(a)) \in Seq(Objects)
<1>1. Len(a) \in Nat /\ \A k \in 1 .. Len(a) : a[k] \in Objects
  BY LenProperties, ElementOfSeq
<1>2. \A k \in i + 1 .. Len(a) : a[k] \in Objects
  BY <1>1
<1> QED
  BY <1>1, <1>2, SubSeqProperties

LEMMA CutTwice ==
  ASSUME NEW a \in Seq(Objects), NEW j \in 0 .. Len(a), NEW i \in 0 .. j
  PROVE  SubSeq(SubSeq(a, 1, j), 1, i) = SubSeq(a, 1, i)
<1>1. Len(a) \in Nat /\ i \in 0 .. Len(a)
  BY LenProperties
<1>2. PICK b \in Seq(Objects) : b = SubSeq(a, 1, j) /\ Len(b) = j /\ \A k \in 1 .. j : b[k] = a[k]
  BY FirstPart
<1>3. PICK c \in Seq(Objects) : c = SubSeq(b, 1, i) /\ Len(c) = i /\ \A k \in 1 .. i : c[k] = b[k]
  BY <1>2, FirstPart
<1>4. PICK d \in Seq(Objects) : d = SubSeq(a, 1, i) /\ Len(d) = i /\ \A k \in 1 .. i : d[k] = a[k]
  BY <1>1, FirstPart
<1>5. \A k \in 1 .. i : c[k] = d[k]
  BY <1>2, <1>3, <1>4
<1>6. c = d
  BY <1>3, <1>4, <1>5, SeqEqual
<1> QED
  BY <1>2, <1>3, <1>4, <1>6

LEMMA ResizedShorter ==
  ASSUME NEW a \in Seq(Objects), NEW m \in 0 .. Len(a), NEW x
  PROVE  Resized(a, m, x) = SubSeq(a, 1, m)
<1>1. PICK b \in Seq(Objects) : b = SubSeq(a, 1, m) /\ Len(b) = m /\ \A k \in 1 .. m : b[k] = a[k]
  BY FirstPart
<1>2. b = [k \in 1 .. m |-> b[k]]
  BY <1>1, LenProperties
<1>3. \A k \in 1 .. m : k <= Len(a)
  BY LenProperties
<1> QED
  BY <1>1, <1>2, <1>3 DEF Resized

\* The tail of s is moved to t.
LEMMA pop_tailTrades ==
  ASSUME NEW w, NEW s \in All, NEW t \in All, s # t, Fit(w), w.rep[t] = Zero,
         NEW a, Row(w, s, a), NEW pos \in 0 .. Len(a)
  PROVE  Trades(w, pop_tail(w, s, t, pos), s, SubSeq(a, 1, pos), t, SubSeq(a, pos + 1, Len(a)))
<1> DEFINE n == Len(a)
<1>1. /\ Elements(w, s) = a /\ a \in Seq(Objects) /\ n \in Nat /\ size(w, s) = n
  BY RowElements, LenProperties
<1>2. CASE pos = n
  <2>1. pop_tail(w, s, t, pos) = w
    BY <1>1, <1>2 DEF pop_tail
  <2>2. SubSeq(a, 1, n) = a
    BY <1>1, SubSeqFull
  <2>3. SubSeq(a, n + 1, n) = <<>>
    BY <1>1, SubSeqEmpty
  <2>4. Row(w, t, <<>>)
    BY ZeroRow
  <2> QED
    BY <1>2, <2>1, <2>2, <2>3, <2>4 DEF Trades, Beside
<1>3. CASE pos # n
  <2>1. PICK b \in Seq(Objects) : b = SubSeq(a, pos + 1, n)
    BY <1>1, LastPart
  <2>2. PICK u : u = initialize_range(w, t, b)
    OBVIOUS
  <2>3. Puts(w, u, t, b)
    BY <2>2, initialize_rangePuts
  <2>4. Row(u, s, a)
    BY <2>3, StaysRow DEF Puts
  <2>5. PICK x : x = MovedFrom(u, s, pos, n)
    OBVIOUS
  <2>6. Puts(u, x, s, Left(a, pos))
    BY <2>3, <2>4, <2>5, MovedFromPuts DEF Puts
  <2>7. Row(x, t, b)
    BY <2>3, <2>6, StaysRow DEF Puts
  <2>8. PICK c \in Seq(Objects) : c = Left(a, pos) /\ Len(c) = n /\ SubSeq(c, 1, pos) = SubSeq(a, 1, pos)
    BY <1>1, LeftRow
  <2>9. PICK y : y = set_size(IF use_sso THEN x ELSE destroy(x, s, pos, n), s, pos)
    OBVIOUS
  <2>10. Puts(x, y, s, SubSeq(a, 1, pos))
    <3>1. Puts(x, set_size(IF use_sso THEN x ELSE destroy(x, s, pos, Len(c)), s, pos), s, SubSeq(c, 1, pos))
      BY <2>6, <2>8, destroyPuts DEF Puts
    <3> QED
      BY <2>8, <2>9, <3>1
  <2>11. Row(y, t, b)
    BY <2>7, <2>10, StaysRow DEF Puts
  <2>12. pop_tail(w, s, t, pos) = y
    BY <1>1, <1>3, <2>1, <2>2, <2>5, <2>9 DEF pop_tail
  <2> QED
    BY <2>1, <2>3, <2>6, <2>10, <2>11, <2>12, BesideOn DEF Trades, Puts
<1> QED
  BY <1>2, <1>3

\* No sequence but s, and perhaps the tail, is any different.
Elsewhere(w, v, s) == \A u \in Names \ {s} : v.rep[u] = w.rep[u] /\ Slots(v, u) = Slots(w, u)

\* s holds x, and y lies aside.
Parted(w, v, s, x, y) == Fit(v) /\ Elsewhere(w, v, s) /\ Row(v, s, x) /\ Row(v, Tmp, y)

LEMMA Parts ==
  ASSUME NEW u, NEW w, NEW s \in Names, Fit(w), w.rep[Tmp] = Zero, Elsewhere(u, w, s),
         NEW a, Row(w, s, a), NEW pos \in 0 .. Len(a)
  PROVE  Parted(u, pop_tail(w, s, Tmp, pos), s, SubSeq(a, 1, pos), SubSeq(a, pos + 1, Len(a)))
<1>1. PICK v : v = pop_tail(w, s, Tmp, pos)
  OBVIOUS
<1>2. Trades(w, v, s, SubSeq(a, 1, pos), Tmp, SubSeq(a, pos + 1, Len(a)))
  BY <1>1, OneApart, pop_tailTrades
<1>3. Elsewhere(u, v, s)
  BY <1>2, OneApart DEF Trades, Beside, Elsewhere
<1> QED
  BY <1>1, <1>2, <1>3 DEF Parted, Trades

LEMMA PartedOn ==
  ASSUME NEW w, NEW v, NEW s \in Names, NEW x, NEW y, Parted(w, v, s, x, y), NEW u, NEW z,
         Puts(v, u, s, z)
  PROVE  Parted(w, u, s, z, y)
<1>1. Row(u, Tmp, y)
  BY OneApart, StaysRow DEF Parted, Puts
<1>2. Elsewhere(w, u, s)
  BY OneApart DEF Parted, Puts, Apart, Elsewhere
<1> QED
  BY <1>1, <1>2 DEF Parted, Puts

LEMMA PutBackSettles ==
  ASSUME NEW w, NEW v, NEW s \in Names, NEW x, NEW y, Parted(w, v, s, x, y)
  PROVE  Settles(w, PutBack(v, s), s, x \o y, s, x \o y)
<1>1. PICK u : u = move_append(v, s, Tmp)
  OBVIOUS
<1>2. Trades(v, u, s, x \o y, Tmp, Left(y, 0))
  BY <1>1, OneApart, move_appendTrades DEF Parted
<1>3. ASSUME NEW z \in Names \ {s, s} PROVE u.rep[z] = w.rep[z] /\ Slots(u, z) = Slots(w, z)
  BY <1>2, OneApart DEF Parted, Trades, Beside, Elsewhere
<1>4. Settles(w, storage_clear(u, Tmp), s, x \o y, s, x \o y)
  BY <1>2, <1>3, TmpCleared DEF Trades
<1> QED
  BY <1>1, <1>4 DEF PutBack

\* a with vals from place pos on, as DynArray says it.
Opened(a, pos, end, vals) == SubSeq(a, 1, pos) \o vals \o SubSeq(a, end + 1, Len(a))

LEMMA emplaceSettles ==
  ASSUME NEW w, NEW s \in Names, Fit(w), w.rep[Tmp] = Zero, NEW a, Row(w, s, a),
         NEW pos \in 0 .. Len(a), NEW x \in Objects
  PROVE  LET b == Opened(a, pos, pos, <<x>>) IN Settles(w, emplace(w, s, pos, x), s, b, s, b)
<1> DEFINE n == Len(a)
<1>1. a \in Seq(Objects) /\ n \in Nat /\ size(w, s) = n /\ s \in All
  BY RowElements, LenProperties, OneApart
<1>2. CASE pos = n
  <2>1. Puts(w, emplace(w, s, pos, x), s, Append(a, x))
    BY <1>1, <1>2, emplace_backPuts DEF emplace
  <2>2. Opened(a, n, n, <<x>>) = Append(a, x)
    <3>1. SubSeq(a, 1, n) = a /\ SubSeq(a, n + 1, n) = <<>>
      BY <1>1, SubSeqFull, SubSeqEmpty
    <3>2. Append(a, x) = a \o <<x>> /\ a \o <<x>> \in Seq(Objects)
      BY <1>1, AppendIsConcat
    <3>3. (a \o <<x>>) \o <<>> = a \o <<x>>
      BY <3>2, ConcatEmptySeq
    <3> QED
      BY <3>1, <3>2, <3>3 DEF Opened
  <2> QED
    BY <1>2, <2>1, <2>2, PutsSettles
<1>3. CASE pos # n
  <2>1. PICK u : u = ensure_capacity(w, s, n + 1)
    OBVIOUS
  <2>2. Fit(u) /\ Apart(w, u, s) /\ Row(u, s, a)
    BY <1>1, <2>1, ensure_capacityRow
  <2>3. Elsewhere(w, u, s) /\ u.rep[Tmp] = Zero
    BY <2>2, OneApart DEF Apart, Elsewhere
  <2>4. PICK v : v = pop_tail(u, s, Tmp, pos)
    OBVIOUS
  <2>5. Parted(w, v, s, SubSeq(a, 1, pos), SubSeq(a, pos + 1, n))
    BY <2>2, <2>3, <2>4, Parts
  <2>6. PICK z : z = emplace_back(v, s, x)
    OBVIOUS
  <2>7. Puts(v, z, s, SubSeq(a, 1, pos) \o <<x>>)
    <3>1. Puts(v, z, s, Append(SubSeq(a, 1, pos), x))
      BY <1>1, <2>5, <2>6, emplace_backPuts DEF Parted
    <3>2. PICK b \in Seq(Objects) : b = SubSeq(a, 1, pos)
      BY <1>1, FirstPart
    <3>3. Append(b, x) = b \o <<x>>
      BY <3>2, AppendIsConcat
    <3> QED
      BY <3>1, <3>2, <3>3
  <2>8. Parted(w, z, s, SubSeq(a, 1, pos) \o <<x>>, SubSeq(a, pos + 1, n))
    BY <2>5, <2>7, PartedOn
  <2>9. emplace(w, s, pos, x) = PutBack(z, s)
    BY <1>1, <1>3, <2>1, <2>4, <2>6 DEF emplace
  <2> QED
    BY <2>8, <2>9, PutBackSettles DEF Opened
<1> QED
  BY <1>2, <1>3

LEMMA insert_rangeSettles ==
  ASSUME NEW w, NEW u, NEW s \in Names, Fit(u), u.rep[Tmp] = Zero, Elsewhere(w, u, s),
         NEW a, Row(u, s, a), NEW pos \in 0 .. Len(a), NEW vals \in Seq(Objects)
  PROVE  LET b == Opened(a, pos, pos, vals) IN Settles(w, insert_range(u, s, pos, vals), s, b, s, b)
<1>1. PICK v : v = pop_tail(u, s, Tmp, pos)
  OBVIOUS
<1>2. Parted(w, v, s, SubSeq(a, 1, pos), SubSeq(a, pos + 1, Len(a)))
  BY <1>1, Parts
<1>3. PICK z : z = append(v, s, vals)
  OBVIOUS
<1>4. Puts(v, z, s, SubSeq(a, 1, pos) \o vals)
  BY <1>2, <1>3, OneApart, appendPuts DEF Parted
<1>5. Parted(w, z, s, SubSeq(a, 1, pos) \o vals, SubSeq(a, pos + 1, Len(a)))
  BY <1>2, <1>4, PartedOn
<1> QED
  BY <1>1, <1>3, <1>5, PutBackSettles DEF Opened, insert_range

LEMMA insert_nSettles ==
  ASSUME NEW w, NEW s \in Names, Fit(w), w.rep[Tmp] = Zero, NEW a, Row(w, s, a),
         NEW pos \in 0 .. Len(a), NEW vals \in Seq(Objects)
  PROVE  LET b == Opened(a, pos, pos, vals) IN Settles(w, insert_n(w, s, pos, vals), s, b, s, b)
<1>1. /\ Len(a) \in Nat /\ size(w, s) = Len(a) /\ s \in All /\ Len(vals) \in Nat
      /\ Len(a) + Len(vals) \in Nat
  BY RowElements, LenProperties, OneApart
<1>2. PICK u : u = ensure_capacity(w, s, Len(a) + Len(vals))
  OBVIOUS
<1>3. Fit(u) /\ Apart(w, u, s) /\ Row(u, s, a)
  BY <1>1, <1>2, ensure_capacityRow
<1>4. Elsewhere(w, u, s) /\ u.rep[Tmp] = Zero
  BY <1>3, OneApart DEF Apart, Elsewhere
<1>5. insert_n(w, s, pos, vals) = insert_range(u, s, pos, vals)
  BY <1>1, <1>2 DEF insert_n, insert_range
<1> QED
  BY <1>3, <1>4, <1>5, insert_rangeSettles

LEMMA erase_rangeSettles ==
  ASSUME NEW w, NEW s \in Names, Fit(w), w.rep[Tmp] = Zero, NEW a, Row(w, s, a),
         NEW end \in 0 .. Len(a), NEW pos \in 0 .. end
  PROVE  LET b == Opened(a, pos, end, <<>>) IN Settles(w, erase_range(w, s, pos, end), s, b, s, b)
<1> DEFINE n == Len(a)
<1>1. a \in Seq(Objects) /\ n \in Nat /\ s \in All /\ Elsewhere(w, w, s)
  BY RowElements, LenProperties, OneApart DEF Elsewhere
<1>2. PICK v : v = pop_tail(w, s, Tmp, end)
  OBVIOUS
<1>3. PICK f \in Seq(Objects) : f = SubSeq(a, 1, end) /\ Len(f) = end
  BY <1>1, FirstPart
<1>4. Parted(w, v, s, f, SubSeq(a, end + 1, n))
  BY <1>1, <1>2, <1>3, Parts
<1>5. size(v, s) = end /\ end - (end - pos) = pos /\ pos \in Nat /\ pos \in 0 .. Len(f) /\ pos <= Len(f)
  <2>1. size(v, s) = Len(f)
    BY <1>1, <1>4, RowElements DEF Parted
  <2>2. end - (end - pos) = pos /\ pos \in Nat /\ pos \in 0 .. Len(f) /\ pos <= Len(f)
    BY <1>1, <1>3
  <2> QED
    BY <1>3, <2>1, <2>2
<1>6. PICK x : x = CHOOSE y \in Values : TRUE
  OBVIOUS
<1>7. PICK z : z = resize(v, s, pos, x)
  OBVIOUS
<1>8. Puts(v, z, s, Resized(f, pos, x))
  BY <1>1, <1>4, <1>5, <1>7, resizePuts DEF Parted
<1>9. PICK g \in Seq(Objects) : g = SubSeq(a, 1, pos) /\ g = Resized(f, pos, x)
  <2>1. Resized(f, pos, x) = SubSeq(f, 1, pos) /\ SubSeq(f, 1, pos) \in Seq(Objects)
    BY <1>3, <1>5, ResizedShorter, FirstPart
  <2>2. SubSeq(f, 1, pos) = SubSeq(a, 1, pos)
    BY <1>1, <1>3, CutTwice
  <2> QED
    BY <2>1, <2>2
<1>10. Parted(w, z, s, g, SubSeq(a, end + 1, n))
  BY <1>4, <1>8, <1>9, PartedOn
<1>11. Opened(a, pos, end, <<>>) = g \o SubSeq(a, end + 1, n)
  BY <1>9, ConcatEmptySeq DEF Opened
<1>12. erase_range(w, s, pos, end) = PutBack(z, s)
  BY <1>2, <1>5, <1>6, <1>7 DEF erase_range
<1> QED
  BY <1>10, <1>11, <1>12, PutBackSettles

LEMMA eraseSettles ==
  ASSUME NEW w, NEW s \in Names, Fit(w), w.rep[Tmp] = Zero, NEW a, Row(w, s, a),
         NEW pos \in Nat, pos + 1 <= Len(a)
  PROVE  LET b == Opened(a, pos, pos + 1, <<>>) IN Settles(w, erase(w, s, pos), s, b, s, b)
<1> DEFINE n == Len(a)
<1>1. a \in Seq(Objects) /\ n \in Nat /\ size(w, s) = n /\ s \in All /\ Elsewhere(w, w, s)
  BY RowElements, LenProperties, OneApart DEF Elsewhere
<1>2. PICK g \in Seq(Objects) : g = SubSeq(a, 1, pos)
  <2>1. pos \in 0 .. n
    BY <1>1
  <2> QED
    BY <1>1, <2>1, FirstPart
<1>3. Opened(a, pos, pos + 1, <<>>) = g \o SubSeq(a, pos + 2, n)
  <2>1. pos + 1 + 1 = pos + 2
    OBVIOUS
  <2> QED
    BY <1>2, <2>1, ConcatEmptySeq DEF Opened
<1>4. CASE pos = n - 1
  <2>1. SubSeq(a, pos + 2, n) = <<>>
    BY <1>1, <1>4, SubSeqEmpty
  <2>2. Opened(a, pos, pos + 1, <<>>) = g
    BY <1>2, <1>3, <2>1, ConcatEmptySeq
  <2>3. Puts(w, pop_back(w, s), s, g)
    BY <1>1, <1>2, <1>4, pop_backPuts
  <2>4. erase(w, s, pos) = pop_back(w, s)
    BY <1>1, <1>4 DEF erase
  <2> QED
    BY <2>2, <2>3, <2>4, PutsSettles
<1>5. CASE pos # n - 1
  <2>1. pos + 1 \in 0 .. n /\ pos \in 0 .. pos + 1
    BY <1>1
  <2>2. PICK v : v = pop_tail(w, s, Tmp, pos + 1)
    OBVIOUS
  <2>3. PICK f \in Seq(Objects) : f = SubSeq(a, 1, pos + 1) /\ Len(f) = pos + 1
    BY <1>1, <2>1, FirstPart
  <2>4. Parted(w, v, s, f, SubSeq(a, pos + 1 + 1, n))
    BY <1>1, <2>1, <2>2, <2>3, Parts
  <2>5. PICK z : z = pop_back(v, s)
    OBVIOUS
  <2>6. Len(f) # 0 /\ Len(f) - 1 = pos
    BY <2>3
  <2>7. Puts(v, z, s, SubSeq(f, 1, pos))
    BY <1>1, <2>4, <2>5, <2>6, pop_backPuts DEF Parted
  <2>8. SubSeq(f, 1, pos) = g
    BY <1>1, <1>2, <2>1, <2>3, CutTwice
  <2>9. Parted(w, z, s, g, SubSeq(a, pos + 2, n))
    <3>1. pos + 1 + 1 = pos + 2
      OBVIOUS
    <3> QED
      BY <2>4, <2>7, <2>8, <3>1, PartedOn
  <2>10. erase(w, s, pos) = PutBack(z, s)
    BY <1>1, <1>5, <2>2, <2>5 DEF erase
  <2> QED
    BY <1>3, <2>9, <2>10, PutBackSettles
<1> QED
  BY <1>4, <1>5

LEMMA append_sequenceSettles ==
  ASSUME NEW w, NEW s \in Names, NEW t \in Names, s # t, Fit(w), w.rep[Tmp] = Zero,
         NEW a, NEW b, Row(w, s, a), Row(w, t, b)
  PROVE  \E c \in {<<>>, Left(b, 0)} : Settles(w, append_sequence(w, s, t), s, a \o b, t, c)
<1>1. /\ a \in Seq(Objects) /\ b \in Seq(Objects) /\ s \in All /\ t \in All
      /\ size(w, s) = Len(a)
  BY RowElements, OneApart
<1>2. CASE size(w, s) = 0 /\ capacity(w, s) <= size(w, t)
  <2>1. a = <<>>
    BY <1>1, <1>2, EmptySeq
  <2>2. a \o b = b
    BY <1>1, <2>1, ConcatEmptySeq
  <2>3. Settles(w, move_assign(w, s, t), s, b, t, <<>>)
    BY move_assignSettles
  <2> QED
    BY <1>2, <2>2, <2>3 DEF append_sequence
<1>3. CASE ~(size(w, s) = 0 /\ capacity(w, s) <= size(w, t))
  <2>1. Trades(w, move_append(w, s, t), s, a \o b, t, Left(b, 0))
    BY <1>1, move_appendTrades
  <2>2. Settles(w, move_append(w, s, t), s, a \o b, t, Left(b, 0))
    BY <2>1, TradesSettles
  <2>3. append_sequence(w, s, t) = move_append(w, s, t)
    BY <1>3 DEF append_sequence
  <2> QED
    BY <2>2, <2>3
<1> QED
  BY <1>2, <1>3

---------------------------------------------------------------------------
(* Comparing block by block                                                *)

NextBlock(p) == <<p[2], p[2] + 2 * (p[2] - p[1])>>

\* f are the first blocks, up to number n.
Doubling(f, start, block_size, n) ==
  f = [k \in 0 .. n |-> IF k = 0 THEN <<start, start + block_size>> ELSE NextBlock(f[k - 1])]

LEMMA BlockByBlock ==
  ASSUME NEW start, NEW block_size, NEW n \in Nat
  PROVE  \E f : Doubling(f, start, block_size, n)
<1> DEFINE S == {m \in 0 .. n : \E f : Doubling(f, start, block_size, m)}
<1>1. 0 \in S
  <2>1. PICK f : f = [k \in 0 .. 0 |-> <<start, start + block_size>>]
    OBVIOUS
  <2>2. Doubling(f, start, block_size, 0)
    BY <2>1 DEF Doubling
  <2> QED
    BY <2>2
<1>2. ASSUME NEW m \in 1 .. n, m - 1 \in S PROVE m \in S
  <2>1. PICK f : Doubling(f, start, block_size, m - 1)
    BY <1>2
  <2>2. PICK g : g = [k \in 0 .. m |-> IF k = m THEN NextBlock(f[m - 1]) ELSE f[k]]
    OBVIOUS
  <2>3. \A k \in 0 .. m - 1 : f[k] = IF k = 0 THEN <<start, start + block_size>> ELSE NextBlock(f[k - 1])
    BY <2>1 DEF Doubling
  <2>4. \A k \in 0 .. m : g[k] = IF k = 0 THEN <<start, start + block_size>> ELSE NextBlock(g[k - 1])
    <3>1. \A k \in 0 .. m - 1 : g[k] = f[k]
      BY <2>2
    <3>2. m - 1 \in 0 .. m - 1 /\ m # 0
      OBVIOUS
    <3>3. g[m] = NextBlock(g[m - 1])
      BY <2>2, <3>1, <3>2
    <3>4. ASSUME NEW k \in 0 .. m - 1
          PROVE  g[k] = IF k = 0 THEN <<start, start + block_size>> ELSE NextBlock(g[k - 1])
      <4>1. CASE k = 0
        BY <2>3, <3>1, <4>1
      <4>2. CASE k # 0
        <5>1. k - 1 \in 0 .. m - 1
          BY <4>2
        <5> QED
          BY <2>3, <3>1, <4>2, <5>1
      <4> QED
        BY <4>1, <4>2
    <3>5. ASSUME NEW k \in 0 .. m PROVE k = m \/ k \in 0 .. m - 1
      OBVIOUS
    <3> QED
      BY <3>2, <3>3, <3>4, <3>5
  <2>5. Doubling(g, start, block_size, m)
    <3>1. g = [k \in 0 .. m |-> g[k]]
      BY <2>2
    <3> QED
      BY <2>4, <3>1 DEF Doubling
  <2> QED
    BY <2>5
<1> HIDE DEF S
<1>3. 0 .. n \subseteq S
  BY <1>1, <1>2, UpTo
<1>4. n \in S
  BY <1>3
<1> QED
  BY <1>4 DEF S

\* The blocks leave out no place.
LEMMA BlocksCover ==
  ASSUME NEW start \in Nat \ {0}, NEW block_size \in Nat \ {0}, NEW n \in Nat,
         NEW i \in Nat, start <= i, i < n
  PROVE  \E blk \in BlocksFrom(start, block_size, n) : i + 1 \in blk[1] + 1 .. blk[2]
<1>1. PICK f : /\ Doubling(f, start, block_size, n)
               /\ BlocksFrom(start, block_size, n)
                    = {<<f[k][1], Min({n, f[k][2]})>> : k \in {k \in 0 .. n : f[k][1] < n}}
  <2> DEFINE f == CHOOSE f : Doubling(f, start, block_size, n)
  <2>1. Doubling(f, start, block_size, n)
    BY BlockByBlock, Zenon
  <2>2. BlocksFrom(start, block_size, n)
          = {<<f[k][1], Min({n, f[k][2]})>> : k \in {k \in 0 .. n : f[k][1] < n}}
    BY Zenon DEF BlocksFrom, Doubling, NextBlock
  <2> HIDE DEF f
  <2> QED
    BY <2>1, <2>2
<1>2. \A k \in 0 .. n : f[k] = IF k = 0 THEN <<start, start + block_size>> ELSE NextBlock(f[k - 1])
  BY <1>1 DEF Doubling
<1> DEFINE T == {k \in 0 .. n : /\ f[k][1] \in Nat /\ f[k][2] \in Nat
                                /\ f[k][1] < f[k][2] /\ k < f[k][1]}
<1>3. 0 .. n \subseteq T
  <2>1. 0 \in T
    BY <1>2
  <2>2. ASSUME NEW k \in 1 .. n, k - 1 \in T PROVE k \in T
    <3>1. k \in 0 .. n /\ k # 0 /\ f[k] = NextBlock(f[k - 1])
      BY <1>2
    <3>2. PICK x \in Nat, y \in Nat : f[k - 1][1] = x /\ f[k - 1][2] = y /\ x < y /\ k - 1 < x
      BY <2>2
    <3>3. f[k] = <<y, y + 2 * (y - x)>>
      BY <3>1, <3>2 DEF NextBlock
    <3>4. f[k][1] = y /\ f[k][2] = y + 2 * (y - x)
      BY <3>3
    <3> QED
      BY <3>1, <3>2, <3>4
  <2> HIDE DEF T
  <2> QED
    BY <2>1, <2>2, UpTo
<1> DEFINE L == {k \in 0 .. n : i < f[k][1]}
<1>4. PICK m \in L : \A k \in L : m <= k
  <2>1. n \in T
    BY <1>3
  <2>2. n \in L
    BY <2>1
  <2>3. L \in SUBSET Nat /\ L # {}
    BY <2>2
  <2> HIDE DEF L
  <2> QED
    BY <2>3, LeastNat
<1>5. m # 0 /\ m - 1 \in 0 .. n
  BY <1>2, <1>4
<1>6. f[m - 1][1] <= i /\ f[m - 1][1] \in Nat /\ f[m - 1][2] \in Nat
  <2>1. ~(i < f[m - 1][1])
    BY <1>4, <1>5
  <2> QED
    BY <1>3, <1>5, <2>1
<1>7. f[m][1] = f[m - 1][2] /\ i < f[m - 1][2]
  <2>1. f[m] = NextBlock(f[m - 1])
    BY <1>2, <1>4, <1>5
  <2>2. f[m][1] = f[m - 1][2]
    BY <2>1 DEF NextBlock
  <2> QED
    BY <1>4, <2>2
<1>8. Min({n, f[m - 1][2]}) \in Nat /\ i < Min({n, f[m - 1][2]})
  <2>1. PICK y \in Nat : y = f[m - 1][2]
    BY <1>6
  <2>2. n \in Int /\ y \in Int
    OBVIOUS
  <2>3. Min({n, y}) \in {n, y}
    BY <2>2, MinOfTwo
  <2> QED
    BY <1>7, <2>1, <2>3
<1>9. PICK blk : blk = <<f[m - 1][1], Min({n, f[m - 1][2]})>>
  OBVIOUS
<1>10. blk \in BlocksFrom(start, block_size, n)
  <2>1. m - 1 \in {k \in 0 .. n : f[k][1] < n}
    BY <1>5, <1>6
  <2> QED
    BY <1>1, <1>9, <2>1
<1>11. i + 1 \in blk[1] + 1 .. blk[2]
  <2>1. blk[1] = f[m - 1][1] /\ blk[2] = Min({n, f[m - 1][2]})
    BY <1>9
  <2> QED
    BY <1>6, <1>8, <2>1
<1> QED
  BY <1>10, <1>11

LEMMA compare_equalRight ==
  ASSUME NEW a \in Seq(Objects), NEW b \in Seq(Objects), Len(a) = Len(b)
  PROVE  compare_equal(a, b) <=> a = b
<1> DEFINE n == Len(a)
<1>1. n \in Nat /\ Chunk \in Nat \ {0} /\ 2 * Chunk \in Nat \ {0}
  BY LenProperties, SizesAssumption
<1>2. ASSUME compare_equal(a, b) PROVE a = b
  <2>1. /\ \A k \in 0 + 1 .. Min({Chunk, n}) : a[k] = b[k]
        /\ n > Chunk => \A blk \in BlocksFrom(Chunk, 2 * Chunk, n) :
                          \A k \in blk[1] + 1 .. blk[2] : a[k] = b[k]
    BY <1>2, Zenon DEF compare_equal
  <2>2. ASSUME NEW k \in 1 .. n PROVE a[k] = b[k]
    <3>1. CASE k <= Chunk
      <4>1. Min({Chunk, n}) \in {Chunk, n}
        <5>1. Chunk \in Int /\ n \in Int
          BY <1>1
        <5> QED
          BY <5>1, MinOfTwo
      <4>2. k \in 0 + 1 .. Min({Chunk, n})
        BY <1>1, <3>1, <4>1
      <4> QED
        BY <2>1, <4>2
    <3>2. CASE ~(k <= Chunk)
      <4>1. k - 1 \in Nat /\ Chunk <= k - 1 /\ k - 1 < n /\ n > Chunk /\ k - 1 + 1 = k
        BY <1>1, <3>2
      <4>2. PICK blk \in BlocksFrom(Chunk, 2 * Chunk, n) : k - 1 + 1 \in blk[1] + 1 .. blk[2]
        BY <1>1, <4>1, BlocksCover
      <4> QED
        BY <2>1, <4>1, <4>2
    <3> QED
      BY <3>1, <3>2
  <2> QED
    BY <2>2, SeqEqual
<1>3. ASSUME a = b PROVE compare_equal(a, b)
  BY <1>3, Zenon DEF compare_equal
<1> QED
  BY <1>2, <1>3

---------------------------------------------------------------------------
(* The invariant                                                           *)

\* Every sequence holds a row, which is what its Elements are.
LEMMA Holds ==
  ASSUME NEW w, NEW s \in All, Fit(w), Row(w, s, Elements(w, s))
  PROVE  /\ Elements(w, s) \in Seq(Objects) /\ size(w, s) = Len(Elements(w, s))
         /\ Len(Elements(w, s)) \in Nat
BY RowElements, LenProperties

LEMMA Primes ==
  ASSUME use_sso' = use_sso
  PROVE  /\ Fit(mem)' <=> Fit(mem')
         /\ \A s \in All : Elements(mem, s)' = Elements(mem', s)
         /\ \A s \in All : \A a : Row(mem, s, a)' <=> Row(mem', s, a)
<1>1. Fit(mem)' <=> Fit(mem')
  <2>1. \A s \in All : House(mem.rep[s])' = House(mem'.rep[s])
    BY DEF House
  <2>2. (UNION {House(mem.rep[s]) : s \in All})' = UNION {House(mem'.rep[s]) : s \in All}
    BY <2>1
  <2>3. (\A s, t \in All : s # t => House(mem.rep[s]) \cap House(mem.rep[t]) = {})'
          <=> \A s, t \in All : s # t => House(mem'.rep[s]) \cap House(mem'.rep[t]) = {}
    BY <2>1
  <2> QED
    BY <2>2, <2>3, Zenon DEF Fit
<1>2. ASSUME NEW s \in All
      PROVE  Elements(mem, s)' = Elements(mem', s) /\ \A a : Row(mem, s, a)' <=> Row(mem', s, a)
  <2>1. Slots(mem, s)' = Slots(mem', s) /\ size(mem, s)' = size(mem', s)
    BY Zenon DEF Slots, size, is_small
  <2>2. capacity(mem, s)' = capacity(mem', s) /\ Elements(mem, s)' = Elements(mem', s)
    BY <2>1, Zenon DEF capacity, Elements
  <2> QED
    BY <2>1, <2>2, Zenon DEF Row, Lies
<1> QED
  BY <1>1, <1>2

Arr == [s \in Names |-> Elements(mem, s)]

\* A call that settles two rows keeps the invariant, and is what DynArray says
\* if those are the rows that it says.
LEMMA SettlesKeeps ==
  ASSUME IInv, use_sso' = use_sso, NEW s \in Names, NEW x, NEW t \in Names, NEW y,
         Settles(mem, mem', s, x, t, y)
  PROVE  IInv' /\ Arr' = [Arr EXCEPT ![s] = x, ![t] = y]
<1>1. Fit(mem') /\ mem'.rep[Tmp] = Zero /\ Row(mem', s, x) /\ Row(mem', t, y)
  BY DEF Settles
<1>2. /\ s \in All /\ t \in All /\ Elements(mem', s) = x /\ Elements(mem', t) = y
      /\ Row(mem', Tmp, <<>>) /\ Elements(mem', Tmp) = <<>>
  BY <1>1, OneApart, RowElements, ZeroRow
<1>3. ASSUME NEW u \in Names \ {s, t}
      PROVE  Row(mem', u, Elements(mem, u)) /\ Elements(mem', u) = Elements(mem, u)
  <2>1. mem'.rep[u] = mem.rep[u] /\ Slots(mem', u) = Slots(mem, u) /\ u \in All
    BY OneApart DEF Settles
  <2>2. size(mem', u) = size(mem, u) /\ capacity(mem', u) = capacity(mem, u)
    BY <2>1 DEF size, is_small, capacity
  <2>3. Row(mem, u, Elements(mem, u))
    BY <2>1 DEF IInv
  <2> QED
    BY <2>1, <2>2, <2>3 DEF Row, Lies, Elements
<1>4. \A u \in All : Row(mem', u, Elements(mem', u))
  <2>1. ASSUME NEW u \in All PROVE Row(mem', u, Elements(mem', u))
    <3>1. CASE u = s
      BY <1>1, <1>2, <3>1
    <3>2. CASE u = t
      BY <1>1, <1>2, <3>2
    <3>3. CASE u = Tmp
      BY <1>2, <3>3
    <3>4. CASE u \in Names \ {s, t}
      BY <1>3, <3>4
    <3> QED
      BY <3>1, <3>2, <3>3, <3>4, OneApart
  <2> QED
    BY <2>1
<1>5. IInv'
  <2>1. Fit(mem)' /\ (mem.rep[Tmp] = Zero)'
    BY <1>1, Primes DEF Zero, Fresh
  <2>2. (\A u \in All : Row(mem, u, Elements(mem, u)))'
    BY <1>4, Primes
  <2> QED
    BY <2>1, <2>2 DEF IInv
<1>6. Arr' = [Arr EXCEPT ![s] = x, ![t] = y]
  <2>1. Arr' = [u \in Names |-> Elements(mem', u)]
    BY Primes, OneApart DEF Arr
  <2>2. ASSUME NEW u \in Names PROVE Elements(mem', u) = [Arr EXCEPT ![s] = x, ![t] = y][u]
    BY <1>2, <1>3 DEF Arr
  <2> QED
    BY <2>1, <2>2 DEF Arr
<1> QED
  BY <1>5, <1>6

LEMMA ActsAs ==
  ASSUME IInv, use_sso' = use_sso, NEW s \in Names, NEW x, NEW t \in Names, NEW y,
         Settles(mem, mem', s, x, t, y),
         [Arr EXCEPT ![s] = x, ![t] = y] \in Abstract!Effect(Arr, call'),
         call'.ret = Abstract!Answer(Arr, call')
  PROVE  IInv' /\ Abstract!Next
<1>1. IInv' /\ Arr' \in Abstract!Effect(Arr, call')
  BY SettlesKeeps
<1> QED
  BY <1>1 DEF Abstract!Next, Arr

\* What DynArray says of each call.
LEMMA Effects ==
  ASSUME NEW a, NEW c
  PROVE  /\ c.op \in {"construct", "assign"} => [a EXCEPT ![c.s] = c.vals] \in Abstract!Effect(a, c)
         /\ c.op = "clear" => [a EXCEPT ![c.s] = <<>>] \in Abstract!Effect(a, c)
         /\ c.op = "copy" => [a EXCEPT ![c.s] = a[c.t]] \in Abstract!Effect(a, c)
         /\ c.op = "move" => [a EXCEPT ![c.s] = a[c.t], ![c.t] = <<>>] \in Abstract!Effect(a, c)
         /\ c.op = "swap" => [a EXCEPT ![c.s] = a[c.t], ![c.t] = a[c.s]] \in Abstract!Effect(a, c)
         /\ c.op = "append" => [a EXCEPT ![c.s] = a[c.s] \o c.vals] \in Abstract!Effect(a, c)
         /\ c.op = "append_moving" => \A h \in Abstract!Husk(a[c.t]) :
              [a EXCEPT ![c.s] = a[c.s] \o a[c.t], ![c.t] = h] \in Abstract!Effect(a, c)
         /\ c.op = "insert" =>
              [a EXCEPT ![c.s] = Abstract!Spliced(a[c.s], c.pos, c.pos, c.vals)] \in Abstract!Effect(a, c)
         /\ c.op = "erase" =>
              [a EXCEPT ![c.s] = Abstract!Spliced(a[c.s], c.pos, c.end, <<>>)] \in Abstract!Effect(a, c)
         /\ c.op = "resize" =>
              [a EXCEPT ![c.s] = Resized(a[c.s], c.end, c.vals[1])] \in Abstract!Effect(a, c)
         /\ c.op = "pop_tail" =>
              [a EXCEPT ![c.s] = SubSeq(a[c.s], 1, c.pos),
                        ![c.t] = SubSeq(a[c.s], c.pos + 1, Len(a[c.s]))] \in Abstract!Effect(a, c)
         /\ c.op \in {"reserve", "equal"} => a \in Abstract!Effect(a, c)
<1>1. c.op \in {"construct", "assign"} => [a EXCEPT ![c.s] = c.vals] \in Abstract!Effect(a, c)
  BY DEF Abstract!Effect
<1>2. c.op = "clear" => [a EXCEPT ![c.s] = <<>>] \in Abstract!Effect(a, c)
  BY DEF Abstract!Effect
<1>3. c.op = "copy" => [a EXCEPT ![c.s] = a[c.t]] \in Abstract!Effect(a, c)
  BY DEF Abstract!Effect
<1>4. c.op = "move" => [a EXCEPT ![c.s] = a[c.t], ![c.t] = <<>>] \in Abstract!Effect(a, c)
  BY DEF Abstract!Effect
<1>5. c.op = "swap" => [a EXCEPT ![c.s] = a[c.t], ![c.t] = a[c.s]] \in Abstract!Effect(a, c)
  BY DEF Abstract!Effect
<1>6. c.op = "append" => [a EXCEPT ![c.s] = a[c.s] \o c.vals] \in Abstract!Effect(a, c)
  BY DEF Abstract!Effect
<1>7. c.op = "append_moving" => \A h \in Abstract!Husk(a[c.t]) :
        [a EXCEPT ![c.s] = a[c.s] \o a[c.t], ![c.t] = h] \in Abstract!Effect(a, c)
  BY DEF Abstract!Effect
<1>8. c.op = "insert" =>
        [a EXCEPT ![c.s] = Abstract!Spliced(a[c.s], c.pos, c.pos, c.vals)] \in Abstract!Effect(a, c)
  BY DEF Abstract!Effect
<1>9. c.op = "erase" =>
        [a EXCEPT ![c.s] = Abstract!Spliced(a[c.s], c.pos, c.end, <<>>)] \in Abstract!Effect(a, c)
  BY DEF Abstract!Effect
<1>10. c.op = "resize" =>
         [a EXCEPT ![c.s] = Resized(a[c.s], c.end, c.vals[1])] \in Abstract!Effect(a, c)
  BY DEF Abstract!Effect, Resized
<1>11. c.op = "pop_tail" =>
         [a EXCEPT ![c.s] = SubSeq(a[c.s], 1, c.pos),
                   ![c.t] = SubSeq(a[c.s], c.pos + 1, Len(a[c.s]))] \in Abstract!Effect(a, c)
  BY DEF Abstract!Effect
<1>12. c.op \in {"reserve", "equal"} => a \in Abstract!Effect(a, c)
  BY DEF Abstract!Effect
<1> QED
  BY <1>1, <1>2, <1>3, <1>4, <1>5, <1>6, <1>7, <1>8, <1>9, <1>10, <1>11, <1>12, Zenon

LEMMA Answers ==
  ASSUME NEW a, NEW c
  PROVE  /\ c.op \in {"append", "append_moving"} => Abstract!Answer(a, c) = Len(a[c.s])
         /\ c.op \in {"insert", "erase"} => Abstract!Answer(a, c) = c.pos
         /\ c.op = "equal" => Abstract!Answer(a, c) = IF a[c.s] = a[c.t] THEN 1 ELSE 0
         /\ c.op \in {"construct", "assign", "clear", "copy", "move", "swap", "resize", "reserve",
                      "pop_tail"} => Abstract!Answer(a, c) = 0
<1>1. c.op \in {"append", "append_moving"} => Abstract!Answer(a, c) = Len(a[c.s])
  BY DEF Abstract!Answer
<1>2. c.op \in {"insert", "erase"} => Abstract!Answer(a, c) = c.pos
  BY DEF Abstract!Answer
<1>3. c.op = "equal" => Abstract!Answer(a, c) = IF a[c.s] = a[c.t] THEN 1 ELSE 0
  BY DEF Abstract!Answer
<1>4. c.op \in {"construct", "assign", "clear", "copy", "move", "swap", "resize", "reserve",
                "pop_tail"} => Abstract!Answer(a, c) = 0
  BY DEF Abstract!Answer
<1> QED
  BY <1>1, <1>2, <1>3, <1>4, Zenon

LEMMA SomeLists ==
  ASSUME NEW k \in Int, NEW vals \in Lists(k)
  PROVE  vals \in Seq(Objects)
<1>1. PICK i \in 0 .. k : vals \in [1 .. i -> Values]
  BY DEF Lists
<1>2. \A j \in 1 .. i : vals[j] \in Objects
  BY <1>1, Marks
<1>3. vals \in [1 .. i -> Objects] /\ i \in Nat
  BY <1>1, <1>2
<1> QED
  BY <1>3, SeqDef

LEMMA RowsNow ==
  ASSUME IInv, NEW s \in Names
  PROVE  /\ s \in All /\ Fit(mem) /\ mem.rep[Tmp] = Zero /\ Row(mem, s, Arr[s])
         /\ Arr[s] = Elements(mem, s) /\ Arr[s] \in Seq(Objects)
         /\ n_(s) = Len(Arr[s]) /\ size(mem, s) = Len(Arr[s]) /\ Len(Arr[s]) \in Nat
<1>1. s \in All /\ Fit(mem) /\ mem.rep[Tmp] = Zero /\ Row(mem, s, Elements(mem, s))
  BY OneApart DEF IInv
<1>2. Arr[s] = Elements(mem, s)
  BY DEF Arr
<1> QED
  BY <1>1, <1>2, Holds DEF n_

\* The same for calls on one sequence.
LEMMA ActsAlone ==
  ASSUME IInv, use_sso' = use_sso, NEW s \in Names, NEW x, Settles(mem, mem', s, x, s, x),
         [Arr EXCEPT ![s] = x] \in Abstract!Effect(Arr, call'),
         call'.ret = Abstract!Answer(Arr, call')
  PROVE  IInv' /\ Abstract!Next
<1>1. [Arr EXCEPT ![s] = x, ![s] = x] = [Arr EXCEPT ![s] = x]
  OBVIOUS
<1> QED
  BY <1>1, ActsAs

LEMMA ConstructStep ==
  ASSUME IInv, NEW s \in Names, Construct(s) PROVE IInv' /\ Abstract!Next
<1>1. PICK vals \in Lists(MaxLen) :
        /\ mem.rep[s] = Zero /\ mem' = initialize_range(mem, s, vals)
        /\ Called("construct", s, s, 0, 0, vals, 0)
  BY DEF Construct
<1>2. vals \in Seq(Objects)
  BY SomeLists, SizesAssumption
<1>3. Settles(mem, mem', s, vals, s, vals)
  BY <1>1, <1>2, RowsNow, initialize_rangePuts, PutsSettles
<1>4. /\ use_sso' = use_sso /\ call'.op = "construct" /\ call'.s = s /\ call'.vals = vals
      /\ call'.ret = 0
  BY <1>1 DEF Called
<1>5. [Arr EXCEPT ![s] = vals] \in Abstract!Effect(Arr, call')
  BY <1>4, Effects
<1>6. call'.ret = Abstract!Answer(Arr, call')
  BY <1>4, Answers
<1> QED
  BY <1>3, <1>4, <1>5, <1>6, ActsAlone

LEMMA AssignStep ==
  ASSUME IInv, NEW s \in Names, Assign(s) PROVE IInv' /\ Abstract!Next
<1>1. PICK vals \in Lists(MaxLen) :
        mem' = assign(mem, s, vals) /\ Called("assign", s, s, 0, 0, vals, 0)
  BY DEF Assign
<1>2. vals \in Seq(Objects)
  BY SomeLists, SizesAssumption
<1>3. Settles(mem, mem', s, vals, s, vals)
  BY <1>1, <1>2, RowsNow, assignPuts, PutsSettles
<1>4. /\ use_sso' = use_sso /\ call'.op = "assign" /\ call'.s = s /\ call'.vals = vals
      /\ call'.ret = 0
  BY <1>1 DEF Called
<1>5. [Arr EXCEPT ![s] = vals] \in Abstract!Effect(Arr, call')
  BY <1>4, Effects
<1>6. call'.ret = Abstract!Answer(Arr, call')
  BY <1>4, Answers
<1> QED
  BY <1>3, <1>4, <1>5, <1>6, ActsAlone

LEMMA ClearStep ==
  ASSUME IInv, NEW s \in Names, Clear(s) PROVE IInv' /\ Abstract!Next
<1>1. mem' = storage_clear(mem, s) /\ Called("clear", s, s, 0, 0, <<>>, 0)
  BY DEF Clear
<1>2. Puts(mem, mem', s, <<>>)
  BY <1>1, RowsNow, storage_clearRow DEF Puts
<1>3. Settles(mem, mem', s, <<>>, s, <<>>)
  BY <1>2, RowsNow, PutsSettles
<1>4. use_sso' = use_sso /\ call'.op = "clear" /\ call'.s = s /\ call'.ret = 0
  BY <1>1 DEF Called
<1>5. [Arr EXCEPT ![s] = <<>>] \in Abstract!Effect(Arr, call')
  BY <1>4, Effects
<1>6. call'.ret = Abstract!Answer(Arr, call')
  BY <1>4, Answers
<1> QED
  BY <1>3, <1>4, <1>5, <1>6, ActsAlone

LEMMA CopyFromStep ==
  ASSUME IInv, NEW s \in Names, NEW t \in Names, CopyFrom(s, t) PROVE IInv' /\ Abstract!Next
<1> DEFINE b == Arr[t]
<1>1. /\ s # t
      /\ mem' = IF mem.rep[s] = Zero THEN copy_construct(mem, s, t) ELSE copy_assign(mem, s, t)
      /\ Called("copy", s, t, 0, 0, <<>>, 0)
  BY DEF CopyFrom
<1>2. Settles(mem, mem', s, b, t, b)
  <2> HIDE DEF b
  <2>1. Row(mem, s, Arr[s]) /\ Row(mem, t, b) /\ Fit(mem) /\ mem.rep[Tmp] = Zero
        /\ s \in All /\ t \in All
    BY RowsNow DEF b
  <2>2. CASE mem.rep[s] = Zero
    <3>1. Puts(mem, mem', s, b)
      BY <1>1, <2>1, <2>2, copy_constructPuts
    <3>2. Row(mem', t, b)
      BY <1>1, <2>1, <3>1, StaysRow DEF Puts
    <3>3. Settles(mem, mem', s, b, s, b)
      BY <2>1, <3>1, PutsSettles
    <3> QED
      BY <3>2, <3>3 DEF Settles
  <2>3. CASE mem.rep[s] # Zero
    BY <1>1, <2>1, <2>3, copy_assignSettles
  <2> QED
    BY <2>2, <2>3
<1>3. use_sso' = use_sso /\ call'.op = "copy" /\ call'.s = s /\ call'.t = t /\ call'.ret = 0
  BY <1>1 DEF Called
<1>4. [Arr EXCEPT ![s] = b, ![t] = b] = [Arr EXCEPT ![s] = b]
  BY <1>1 DEF Arr
<1>5. [Arr EXCEPT ![s] = b] \in Abstract!Effect(Arr, call')
  BY <1>3, Effects
<1>6. call'.ret = Abstract!Answer(Arr, call')
  BY <1>3, Answers
<1> HIDE DEF b
<1> QED
  BY <1>2, <1>3, <1>4, <1>5, <1>6, ActsAs

LEMMA MoveFromStep ==
  ASSUME IInv, NEW s \in Names, NEW t \in Names, MoveFrom(s, t) PROVE IInv' /\ Abstract!Next
<1>1. /\ s # t
      /\ mem' = IF mem.rep[s] = Zero THEN move_from(mem, s, t) ELSE move_assign(mem, s, t)
      /\ Called("move", s, t, 0, 0, <<>>, 0)
  BY DEF MoveFrom
<1>2. Settles(mem, mem', s, Arr[t], t, <<>>)
  <2>1. Row(mem, s, Arr[s]) /\ Row(mem, t, Arr[t]) /\ Fit(mem) /\ mem.rep[Tmp] = Zero
        /\ s \in All /\ t \in All
    BY RowsNow
  <2>2. CASE mem.rep[s] = Zero
    <3>1. Row(mem, s, <<>>)
      BY <2>1, <2>2, ZeroRow
    <3>2. mem' = swap(mem, s, t)
      BY <1>1, <2>2, move_fromSwaps
    <3>3. Trades(mem, mem', s, Arr[t], t, <<>>)
      BY <2>1, <3>1, <3>2, swapTrades
    <3> QED
      BY <2>1, <3>3, TradesSettles
  <2>3. CASE mem.rep[s] # Zero
    BY <1>1, <2>1, <2>3, move_assignSettles
  <2> QED
    BY <2>2, <2>3
<1>3. use_sso' = use_sso /\ call'.op = "move" /\ call'.s = s /\ call'.t = t /\ call'.ret = 0
  BY <1>1 DEF Called
<1>4. [Arr EXCEPT ![s] = Arr[t], ![t] = <<>>] \in Abstract!Effect(Arr, call')
  BY <1>3, Effects
<1>5. call'.ret = Abstract!Answer(Arr, call')
  BY <1>3, Answers
<1> QED
  BY <1>2, <1>3, <1>4, <1>5, ActsAs

LEMMA SwapStep ==
  ASSUME IInv, NEW s \in Names, NEW t \in Names, Swap(s, t) PROVE IInv' /\ Abstract!Next
<1>1. mem' = swap(mem, s, t) /\ Called("swap", s, t, 0, 0, <<>>, 0)
  BY DEF Swap
<1>2. Trades(mem, mem', s, Arr[t], t, Arr[s])
  BY <1>1, RowsNow, swapTrades
<1>3. Settles(mem, mem', s, Arr[t], t, Arr[s])
  BY <1>2, RowsNow, TradesSettles
<1>4. use_sso' = use_sso /\ call'.op = "swap" /\ call'.s = s /\ call'.t = t /\ call'.ret = 0
  BY <1>1 DEF Called
<1>5. [Arr EXCEPT ![s] = Arr[t], ![t] = Arr[s]] \in Abstract!Effect(Arr, call')
  BY <1>4, Effects
<1>6. call'.ret = Abstract!Answer(Arr, call')
  BY <1>4, Answers
<1> QED
  BY <1>3, <1>4, <1>5, <1>6, ActsAs

LEMMA AppendListStep ==
  ASSUME IInv, NEW s \in Names, AppendList(s) PROVE IInv' /\ Abstract!Next
<1>1. PICK vals \in Lists(Room(s)) :
        /\ mem' = append(mem, s, vals) \/ mem' = append_input(mem, s, vals)
        /\ Called("append", s, s, 0, 0, vals, n_(s))
  BY DEF AppendList
<1>2. vals \in Seq(Objects)
  <2>1. Room(s) \in Int
    BY RowsNow, SizesAssumption DEF Room
  <2> QED
    BY <2>1, SomeLists
<1>3. Puts(mem, mem', s, Arr[s] \o vals)
  BY <1>1, <1>2, RowsNow, appendPuts, append_inputPuts
<1>4. Settles(mem, mem', s, Arr[s] \o vals, s, Arr[s] \o vals)
  BY <1>3, RowsNow, PutsSettles
<1>5. /\ use_sso' = use_sso /\ call'.op = "append" /\ call'.s = s /\ call'.vals = vals
      /\ call'.ret = n_(s)
  BY <1>1 DEF Called
<1>6. [Arr EXCEPT ![s] = Arr[s] \o vals] \in Abstract!Effect(Arr, call')
  BY <1>5, Effects
<1>7. call'.ret = Abstract!Answer(Arr, call')
  BY <1>5, Answers, RowsNow
<1> QED
  BY <1>4, <1>5, <1>6, <1>7, ActsAlone

LEMMA AppendMovingStep ==
  ASSUME IInv, NEW s \in Names, NEW t \in Names, AppendMoving(s, t) PROVE IInv' /\ Abstract!Next
<1> DEFINE b == Arr[t]
<1>1. /\ s # t /\ mem' = append_sequence(mem, s, t)
      /\ Called("append_moving", s, t, 0, 0, <<>>, n_(s))
  BY DEF AppendMoving
<1>2. PICK c \in {<<>>, Left(b, 0)} : Settles(mem, mem', s, Arr[s] \o b, t, c)
  BY <1>1, RowsNow, append_sequenceSettles
<1>3. c \in Abstract!Husk(b)
  <2>1. CASE c = <<>>
    BY <2>1 DEF Abstract!Husk
  <2>2. CASE c = Left(b, 0) /\ use_sso
    BY <2>2 DEF Abstract!Husk, Left
  <2>3. CASE c = Left(b, 0) /\ ~use_sso
    <3> HIDE DEF b
    <3>1. c = [k \in 1 .. Len(b) |-> Moved]
      BY <2>3 DEF Left
    <3> QED
      BY <3>1 DEF Abstract!Husk, Abstract!Copies
  <2> QED
    BY <1>2, <2>1, <2>2, <2>3
<1>4. /\ use_sso' = use_sso /\ call'.op = "append_moving" /\ call'.s = s /\ call'.t = t
      /\ call'.ret = n_(s)
  BY <1>1 DEF Called
<1>5. [Arr EXCEPT ![s] = Arr[s] \o b, ![t] = c] \in Abstract!Effect(Arr, call')
  BY <1>3, <1>4, Effects
<1>6. call'.ret = Abstract!Answer(Arr, call')
  BY <1>4, Answers, RowsNow
<1> HIDE DEF b
<1> QED
  BY <1>2, <1>4, <1>5, <1>6, ActsAs

LEMMA InsertStep ==
  ASSUME IInv, NEW s \in Names, Insert(s) PROVE IInv' /\ Abstract!Next
<1>1. PICK pos \in 0 .. n_(s), vals \in Lists(Min({2, Room(s)})) :
        /\ \/ Len(vals) = 1 /\ mem' = emplace(mem, s, pos, vals[1])
           \/ mem' = insert_n(mem, s, pos, vals)
           \/ mem' = insert_range(mem, s, pos, vals)
        /\ Called("insert", s, s, pos, pos, vals, pos)
  BY DEF Insert
<1>2. vals \in Seq(Objects)
  <2>1. Room(s) \in Int
    BY RowsNow, SizesAssumption DEF Room
  <2>2. Min({2, Room(s)}) \in {2, Room(s)}
    <3>1. 2 \in Int
      OBVIOUS
    <3> QED
      BY <2>1, <3>1, MinOfTwo
  <2>3. Min({2, Room(s)}) \in Int
    BY <2>1, <2>2
  <2> QED
    BY <2>3, SomeLists
<1> DEFINE x == Opened(Arr[s], pos, pos, vals)
<1>3. Settles(mem, mem', s, x, s, x)
  <2>1. /\ Row(mem, s, Arr[s]) /\ Fit(mem) /\ mem.rep[Tmp] = Zero /\ pos \in 0 .. Len(Arr[s])
        /\ Elsewhere(mem, mem, s)
    BY RowsNow DEF Elsewhere
  <2>2. CASE Len(vals) = 1 /\ mem' = emplace(mem, s, pos, vals[1])
    <3>1. vals[1] \in Objects /\ vals = <<vals[1]>>
      <4>1. vals[1] \in Objects
        BY <1>2, <2>2, ElementOfSeq
      <4>2. PICK one \in Seq(Objects) : one = <<vals[1]>> /\ Len(one) = 1 /\ one[1] = vals[1]
        <5>1. PICK e \in Objects : e = vals[1]
          BY <4>1
        <5>2. <<e>> \in Seq(Objects) /\ Len(<<e>>) = 1 /\ <<e>>[1] = e
          OBVIOUS
        <5> QED
          BY <5>1, <5>2
      <4>3. \A k \in 1 .. Len(vals) : vals[k] = one[k]
        BY <2>2, <4>2
      <4>4. vals = one
        BY <1>2, <2>2, <4>2, <4>3, SeqEqual
      <4> QED
        BY <4>1, <4>2, <4>4
    <3> QED
      BY <2>1, <2>2, <3>1, emplaceSettles
  <2>3. CASE mem' = insert_n(mem, s, pos, vals)
    BY <1>2, <2>1, <2>3, insert_nSettles
  <2>4. CASE mem' = insert_range(mem, s, pos, vals)
    BY <1>2, <2>1, <2>4, insert_rangeSettles
  <2> QED
    BY <1>1, <2>2, <2>3, <2>4
<1>4. /\ use_sso' = use_sso /\ call'.op = "insert" /\ call'.s = s /\ call'.vals = vals
      /\ call'.pos = pos /\ call'.ret = pos
  BY <1>1 DEF Called
<1>5. [Arr EXCEPT ![s] = x] \in Abstract!Effect(Arr, call')
  <2>1. [Arr EXCEPT ![s] = Abstract!Spliced(Arr[s], pos, pos, vals)] \in Abstract!Effect(Arr, call')
    BY <1>4, Effects
  <2> QED
    BY <2>1 DEF Abstract!Spliced, Opened
<1>6. call'.ret = Abstract!Answer(Arr, call')
  BY <1>4, Answers
<1> HIDE DEF x
<1> QED
  BY <1>3, <1>4, <1>5, <1>6, ActsAlone

LEMMA EraseStep ==
  ASSUME IInv, NEW s \in Names, Erase(s) PROVE IInv' /\ Abstract!Next
<1>1. PICK pos \in 0 .. n_(s), end \in 0 .. n_(s) :
        /\ pos <= end
        /\ \/ end = pos + 1 /\ mem' = erase(mem, s, pos)
           \/ mem' = erase_range(mem, s, pos, end)
        /\ Called("erase", s, s, pos, end, <<>>, pos)
  BY DEF Erase
<1> DEFINE x == Opened(Arr[s], pos, end, <<>>)
<1>2. Settles(mem, mem', s, x, s, x)
  <2>1. /\ Row(mem, s, Arr[s]) /\ Fit(mem) /\ mem.rep[Tmp] = Zero
        /\ end \in 0 .. Len(Arr[s]) /\ pos \in 0 .. end /\ pos \in Nat
    BY <1>1, RowsNow
  <2>2. CASE end = pos + 1 /\ mem' = erase(mem, s, pos)
    <3>1. pos + 1 <= Len(Arr[s])
      BY <2>1, <2>2
    <3> QED
      BY <2>1, <2>2, <3>1, eraseSettles
  <2>3. CASE mem' = erase_range(mem, s, pos, end)
    BY <2>1, <2>3, erase_rangeSettles
  <2> QED
    BY <1>1, <2>2, <2>3
<1>3. /\ use_sso' = use_sso /\ call'.op = "erase" /\ call'.s = s /\ call'.pos = pos
      /\ call'.end = end /\ call'.ret = pos
  BY <1>1 DEF Called
<1>4. [Arr EXCEPT ![s] = x] \in Abstract!Effect(Arr, call')
  <2>1. [Arr EXCEPT ![s] = Abstract!Spliced(Arr[s], pos, end, <<>>)] \in Abstract!Effect(Arr, call')
    BY <1>3, Effects
  <2> QED
    BY <2>1 DEF Abstract!Spliced, Opened
<1>5. call'.ret = Abstract!Answer(Arr, call')
  BY <1>3, Answers
<1> HIDE DEF x
<1> QED
  BY <1>2, <1>3, <1>4, <1>5, ActsAlone

LEMMA ResizeStep ==
  ASSUME IInv, NEW s \in Names, Resize(s) PROVE IInv' /\ Abstract!Next
<1>1. PICK m \in 0 .. MaxLen, x \in Values :
        mem' = resize(mem, s, m, x) /\ Called("resize", s, s, 0, m, <<x>>, 0)
  BY DEF Resize
<1> DEFINE y == Resized(Arr[s], m, x)
<1>2. Puts(mem, mem', s, y)
  <2>1. m \in Nat /\ x \in Objects
    BY SizesAssumption, Marks
  <2> QED
    BY <1>1, <2>1, RowsNow, resizePuts
<1>3. Settles(mem, mem', s, y, s, y)
  BY <1>2, RowsNow, PutsSettles
<1>4. /\ use_sso' = use_sso /\ call'.op = "resize" /\ call'.s = s /\ call'.end = m
      /\ call'.vals[1] = x /\ call'.ret = 0
  BY <1>1 DEF Called
<1>5. [Arr EXCEPT ![s] = y] \in Abstract!Effect(Arr, call')
  BY <1>4, Effects
<1>6. call'.ret = Abstract!Answer(Arr, call')
  BY <1>4, Answers
<1> HIDE DEF y
<1> QED
  BY <1>3, <1>4, <1>5, <1>6, ActsAlone

LEMMA ReserveStep ==
  ASSUME IInv, NEW s \in Names, Reserve(s) PROVE IInv' /\ Abstract!Next
<1>1. PICK m \in 0 .. MaxLen :
        mem' = ensure_capacity(mem, s, m) /\ Called("reserve", s, s, 0, m, <<>>, 0)
  BY DEF Reserve
<1>2. Puts(mem, mem', s, Arr[s])
  <2>1. m \in Nat
    BY SizesAssumption
  <2> QED
    BY <1>1, <2>1, RowsNow, ensure_capacityRow DEF Puts
<1>3. Settles(mem, mem', s, Arr[s], s, Arr[s])
  BY <1>2, RowsNow, PutsSettles
<1>4. use_sso' = use_sso /\ call'.op = "reserve" /\ call'.ret = 0
  BY <1>1 DEF Called
<1>5. [Arr EXCEPT ![s] = Arr[s]] \in Abstract!Effect(Arr, call')
  <2>1. [Arr EXCEPT ![s] = Arr[s]] = Arr
    BY DEF Arr
  <2> QED
    BY <1>4, <2>1, Effects
<1>6. call'.ret = Abstract!Answer(Arr, call')
  BY <1>4, Answers
<1> QED
  BY <1>3, <1>4, <1>5, <1>6, ActsAlone

LEMMA PopTailStep ==
  ASSUME IInv, NEW s \in Names, NEW t \in Names, PopTail(s, t) PROVE IInv' /\ Abstract!Next
<1>1. PICK pos \in 0 .. n_(s) :
        /\ s # t /\ mem.rep[t] = Zero /\ mem' = pop_tail(mem, s, t, pos)
        /\ Called("pop_tail", s, t, pos, 0, <<>>, 0)
  BY DEF PopTail
<1> DEFINE x == SubSeq(Arr[s], 1, pos)
           y == SubSeq(Arr[s], pos + 1, Len(Arr[s]))
<1>2. Trades(mem, mem', s, x, t, y)
  BY <1>1, RowsNow, pop_tailTrades
<1>3. Settles(mem, mem', s, x, t, y)
  <2> HIDE DEF x, y
  <2> QED
    BY <1>2, RowsNow, TradesSettles
<1>4. /\ use_sso' = use_sso /\ call'.op = "pop_tail" /\ call'.s = s /\ call'.t = t
      /\ call'.pos = pos /\ call'.ret = 0
  BY <1>1 DEF Called
<1>5. [Arr EXCEPT ![s] = x, ![t] = y] \in Abstract!Effect(Arr, call')
  BY <1>4, Effects
<1>6. call'.ret = Abstract!Answer(Arr, call')
  BY <1>4, Answers
<1> HIDE DEF x, y
<1> QED
  BY <1>3, <1>4, <1>5, <1>6, ActsAs

LEMMA EqualStep ==
  ASSUME IInv, NEW s \in Names, NEW t \in Names, Equal(s, t) PROVE IInv' /\ Abstract!Next
<1>1. /\ mem' = mem
      /\ Called("equal", s, t, 0, 0, <<>>, IF equal(mem, s, t) THEN 1 ELSE 0)
  BY DEF Equal
<1>2. Settles(mem, mem', s, Arr[s], s, Arr[s])
  BY <1>1, RowsNow DEF Settles
<1>3. equal(mem, s, t) <=> Arr[s] = Arr[t]
  <2>1. /\ Arr[s] = Elements(mem, s) /\ Arr[t] = Elements(mem, t)
        /\ Arr[s] \in Seq(Objects) /\ Arr[t] \in Seq(Objects)
        /\ size(mem, s) = Len(Arr[s]) /\ size(mem, t) = Len(Arr[t])
    BY RowsNow
  <2>2. equal(mem, s, t) <=> (Len(Arr[s]) = Len(Arr[t]) /\ compare_equal(Arr[s], Arr[t]))
    BY <2>1, Zenon DEF equal
  <2>3. CASE Len(Arr[s]) = Len(Arr[t])
    BY <2>1, <2>2, <2>3, compare_equalRight
  <2>4. CASE Len(Arr[s]) # Len(Arr[t])
    BY <2>2, <2>4, Zenon
  <2> QED
    BY <2>3, <2>4
<1>4. /\ use_sso' = use_sso /\ call'.op = "equal" /\ call'.s = s /\ call'.t = t
      /\ call'.ret = IF equal(mem, s, t) THEN 1 ELSE 0
  BY <1>1 DEF Called
<1>5. [Arr EXCEPT ![s] = Arr[s]] \in Abstract!Effect(Arr, call')
  <2>1. [Arr EXCEPT ![s] = Arr[s]] = Arr
    BY DEF Arr
  <2> QED
    BY <1>4, <2>1, Effects
<1>6. call'.ret = Abstract!Answer(Arr, call')
  BY <1>3, <1>4, Answers
<1> QED
  BY <1>2, <1>4, <1>5, <1>6, ActsAlone

---------------------------------------------------------------------------
(* The theorems                                                            *)

LEMMA Start ==
  ASSUME Init PROVE IInv /\ Abstract!Init
<1>1. mem \in [rep : {mem.rep}, heap : {mem.heap}, ok : {TRUE}] /\ mem.heap = <<>>
      /\ mem.rep = [s \in All |-> Zero]
  BY DEF Init
<1>2. use_sso \in BOOLEAN /\ mem.rep \in [All -> Reps] /\ \A s \in All : mem.rep[s] = Zero
  BY <1>1, ZeroTyped DEF Init
<1>3. DOMAIN mem.heap = {}
  BY <1>1
<1>4. \A s \in All : House(mem.rep[s]) = {}
  BY <1>2, ZeroTyped DEF House
<1>5. Fit(mem)
  <2>1. IsFiniteSet(DOMAIN mem.heap) /\ DOMAIN mem.heap \subseteq Nat \ {nullptr}
    BY <1>3, FS_EmptySet
  <2>2. mem.heap \in [DOMAIN mem.heap -> Seq(Cells)]
    BY <1>1, <1>3
  <2>3. DOMAIN mem.heap = UNION {House(mem.rep[s]) : s \in All}
    BY <1>3, <1>4
  <2>4. \A s, t \in All : s # t => House(mem.rep[s]) \cap House(mem.rep[t]) = {}
    BY <1>4
  <2> QED
    BY <1>1, <1>2, <2>1, <2>2, <2>3, <2>4 DEF Fit
<1>6. \A s \in All : Elements(mem, s) = <<>> /\ Row(mem, s, Elements(mem, s))
  BY <1>2, <1>5, ZeroRow, RowElements
<1>7. IInv
  BY <1>2, <1>5, <1>6, OneApart DEF IInv
<1>8. Abstract!Init
  <2>1. [s \in Names |-> Elements(mem, s)] = [s \in Names |-> <<>>]
    BY <1>6, OneApart
  <2>2. call.op = "none"
    BY DEF Init
  <2> QED
    BY <2>1, <2>2 DEF Abstract!Init
<1> QED
  BY <1>7, <1>8

LEMMA Step ==
  ASSUME IInv, Next PROVE IInv' /\ Abstract!Next
<1>1. PICK s \in Names :
        \/ Construct(s) \/ Assign(s) \/ Clear(s) \/ AppendList(s) \/ Insert(s) \/ Erase(s)
        \/ Resize(s) \/ Reserve(s)
        \/ \E t \in Names : CopyFrom(s, t) \/ MoveFrom(s, t) \/ Swap(s, t)
                            \/ AppendMoving(s, t) \/ PopTail(s, t) \/ Equal(s, t)
  BY Zenon DEF Next
<1>2. CASE Construct(s)
  BY <1>2, ConstructStep
<1>3. CASE Assign(s)
  BY <1>3, AssignStep
<1>4. CASE Clear(s)
  BY <1>4, ClearStep
<1>5. CASE AppendList(s)
  BY <1>5, AppendListStep
<1>6. CASE Insert(s)
  BY <1>6, InsertStep
<1>7. CASE Erase(s)
  BY <1>7, EraseStep
<1>8. CASE Resize(s)
  BY <1>8, ResizeStep
<1>9. CASE Reserve(s)
  BY <1>9, ReserveStep
<1>10. ASSUME NEW t \in Names, CopyFrom(s, t) PROVE IInv' /\ Abstract!Next
  BY <1>10, CopyFromStep
<1>11. ASSUME NEW t \in Names, MoveFrom(s, t) PROVE IInv' /\ Abstract!Next
  BY <1>11, MoveFromStep
<1>12. ASSUME NEW t \in Names, Swap(s, t) PROVE IInv' /\ Abstract!Next
  BY <1>12, SwapStep
<1>13. ASSUME NEW t \in Names, AppendMoving(s, t) PROVE IInv' /\ Abstract!Next
  BY <1>13, AppendMovingStep
<1>14. ASSUME NEW t \in Names, PopTail(s, t) PROVE IInv' /\ Abstract!Next
  BY <1>14, PopTailStep
<1>15. ASSUME NEW t \in Names, Equal(s, t) PROVE IInv' /\ Abstract!Next
  BY <1>15, EqualStep
<1> QED
  BY <1>1, <1>2, <1>3, <1>4, <1>5, <1>6, <1>7, <1>8, <1>9, <1>10, <1>11, <1>12, <1>13, <1>14,
     <1>15, Zenon

LEMMA Stutter ==
  ASSUME IInv, UNCHANGED vars PROVE IInv' /\ UNCHANGED <<Arr, call>>
<1>1. mem' = mem /\ use_sso' = use_sso /\ call' = call
  BY DEF vars
<1>2. Fit(mem') /\ (mem.rep[Tmp] = Zero)'
  BY <1>1 DEF IInv, Zero, Fresh
<1>3. \A s \in All : Elements(mem, s)' = Elements(mem, s) /\ Row(mem', s, Elements(mem, s))
  BY <1>1, Primes DEF IInv
<1>4. IInv'
  <2>1. (\A s \in All : Row(mem, s, Elements(mem, s)))'
    BY <1>1, <1>3, Primes
  <2>2. Fit(mem)'
    BY <1>1, <1>2, Primes
  <2> QED
    BY <1>2, <2>1, <2>2 DEF IInv
<1>5. Arr' = Arr
  BY <1>3, OneApart DEF Arr
<1> QED
  BY <1>1, <1>4, <1>5

\* Whatever calls are made, the buffers of the sequences make up the heap, no
\* two have one in common, and each sequence holds a row of objects with raw
\* memory after it.
THEOREM Invariance == Spec => []IInv
<1>1. Init => IInv
  BY Start
<1>2. IInv /\ [Next]_vars => IInv'
  BY Step, Stutter
<1> QED
  BY <1>1, <1>2, PTL DEF Spec

LEMMA Owning == ASSUME IInv PROVE OwnsItsElements
<1>1. Fit(mem) /\ Memory(mem) /\ mem.ok /\ mem.rep[Tmp] = Zero
  <2>1. Fit(mem) /\ mem.rep[Tmp] = Zero
    BY DEF IInv
  <2>2. Memory(mem)
    BY <2>1, FitMemory
  <2>3. mem.ok = TRUE
    BY <2>2 DEF Memory
  <2> QED
    BY <2>1, <2>2, <2>3, Zenon
<1>2. ASSUME NEW b \in DOMAIN mem.heap
      PROVE  Cardinality({s \in All : ~is_small(mem, s) /\ mem.rep[s].buffer = b}) = 1
  <2>1. b # nullptr /\ DOMAIN mem.heap = UNION {House(mem.rep[s]) : s \in All}
    BY <1>1 DEF Fit
  <2>2. PICK s \in All : b \in House(mem.rep[s])
    BY <2>1
  <2>3. \A t \in All : (b \in House(mem.rep[t])) <=> (~is_small(mem, t) /\ mem.rep[t].buffer = b)
    BY <2>1 DEF House, is_small
  <2>4. \A t \in All : b \in House(mem.rep[t]) => t = s
    BY <1>1, <2>2 DEF Fit
  <2>5. {t \in All : ~is_small(mem, t) /\ mem.rep[t].buffer = b} = {s}
    BY <2>2, <2>3, <2>4
  <2> QED
    BY <2>5, FS_Singleton
<1>3. ASSUME NEW s \in All
      PROVE  /\ size(mem, s) <= capacity(mem, s)
             /\ \A k \in DOMAIN Slots(mem, s) : (k <= size(mem, s)) = (Slots(mem, s)[k] # Raw)
  <2> DEFINE a == Elements(mem, s)
             cap == capacity(mem, s)
  <2>1. /\ a \in Seq(Objects) /\ Len(a) <= cap /\ Slots(mem, s) = Line(a, cap)
        /\ size(mem, s) = Len(a)
    BY DEF IInv, Row, Lies
  <2>2. cap \in Nat /\ DOMAIN Slots(mem, s) = 1 .. cap
    BY <1>1, Views
  <2> HIDE DEF a, cap
  <2>3. \A k \in 1 .. cap : (k <= Len(a)) <=> (Line(a, cap)[k] # Raw)
    BY <2>1, <2>2, Lines
  <2>4. \A k \in 1 .. cap : (k <= size(mem, s)) <=> (Slots(mem, s)[k] # Raw)
    BY <2>1, <2>3
  <2>5. size(mem, s) <= capacity(mem, s)
    BY <2>1 DEF cap
  <2>6. \A k \in 1 .. cap : (k <= size(mem, s)) = (Slots(mem, s)[k] # Raw)
    BY <2>4
  <2> QED
    BY <2>2, <2>5, <2>6
<1> QED
  BY <1>1, <1>2, <1>3 DEF OwnsItsElements

\* However sequences are copied, moved into one another, grown, cut and put
\* together again, in place or on the heap: no object is constructed on top of
\* another, used after its end or forgotten, no buffer is freed twice or lost,
\* and each has one owner.
THEOREM Owned == Spec => []OwnsItsElements
<1>1. IInv => OwnsItsElements
  BY Owning
<1> QED
  BY <1>1, Invariance, PTL

\* The storage behaves like plain arrays: every member function leaves the
\* elements that its effect on an array would and returns what it should, and
\* operator== compares every element, whatever the sizes of its blocks.
THEOREM Implements == Spec => ImplementsArray
<1>1. Init => IInv /\ Abstract!Init
  BY Start
<1>2. IInv /\ [Next]_vars => IInv' /\ [Abstract!Next]_<<Arr, call>>
  BY Step, Stutter
<1> QED
  BY <1>1, <1>2, PTL DEF Spec, ImplementsArray, Abstract!Spec, Arr

=============================================================================
