------------------------------ MODULE Sequence ------------------------------
(***************************************************************************)
(* parlay::sequence (sequence.h over internal/sequence_base.h): an array   *)
(* that is stored in itself while it is short, if its elements are trivial,*)
(* and otherwise in a buffer of the heap that knows its capacity.          *)
(*                                                                         *)
(* A call is one step: its parallel loops construct, copy or destroy       *)
(* elements at different places.  What matters is what the steps in a call *)
(* do to the storage, so each member function is an operator from the      *)
(* memory before to the memory after, as the calls nest in the code.       *)
(***************************************************************************)
EXTENDS Integers, SequencesExt, FiniteSetsExt, TLC

CONSTANTS
  Names,            \* the sequences
  short_capacity,   \* how many elements fit in place, 15 bytes' worth
  Values,           \* bound: the elements, numbers above 0
  MaxLen,           \* bound: how long a sequence gets
  Chunk             \* 1024 * sizeof(size_t) / sizeof(T)

Tmp     == "the_tail"  \* the sequence a call keeps to itself
All     == Names \cup {Tmp}

ASSUME NamesAssumption == Tmp \notin Names
ASSUME SizesAssumption ==
  /\ short_capacity \in Nat /\ MaxLen \in Nat
  /\ Values \subseteq Nat \ {0}
  /\ Chunk \in Nat \ {0}

VARIABLES
  mem,       \* the storage of each sequence, the heap, and whether all was well
  use_sso,   \* trivial elements that may be stored in place, or neither
  call       \* history: the call just made and what it returned

vars == <<mem, use_sso, call>>

Raw     == 0     \* no object
Moved   == -1    \* an object that has been moved from
nullptr == 0
Fresh(cap) == [i \in 1 .. cap |-> Raw]

\* set_to_empty_representation: all bytes zero.
Zero == [flag |-> FALSE, small_n |-> 0, elements |-> Fresh(short_capacity),
         buffer |-> nullptr, n |-> 0]

---------------------------------------------------------------------------
(* storage_impl                                                            *)

is_small(w, s) == use_sso /\ ~w.rep[s].flag
size(w, s)     == IF is_small(w, s) THEN w.rep[s].small_n ELSE w.rep[s].n

\* data(), with as many places as there is capacity
Slots(w, s) == IF is_small(w, s) THEN w.rep[s].elements
               ELSE IF w.rep[s].buffer = nullptr THEN <<>> ELSE w.heap[w.rep[s].buffer]
capacity(w, s) == Len(Slots(w, s))
Elements(w, s) == SubSeq(Slots(w, s), 1, size(w, s))

\* The heap with d in buffer b, which may be new.
WithBuffer(w, b, d) ==
  [w EXCEPT !.heap = [x \in DOMAIN w.heap \cup {b} |-> IF x = b THEN d ELSE w.heap[x]]]

PutSlots(w, s, d) ==
  IF is_small(w, s) THEN [w EXCEPT !.rep[s].elements = d]
  ELSE IF w.rep[s].buffer = nullptr THEN w
  ELSE WithBuffer(w, w.rep[s].buffer, d)

Check(w, b) == [w EXCEPT !.ok = @ /\ b]

\* Construct vals from place i on, where nothing may live yet.
initialize(w, s, i, vals) ==
  LET d == Slots(w, s)
      at == i + 1 .. i + Len(vals)
  IN  IF ~(at \subseteq DOMAIN d) THEN Check(w, FALSE)
      ELSE Check(PutSlots(w, s, [k \in DOMAIN d |-> IF k \in at THEN vals[k - i] ELSE d[k]]),
                 use_sso \/ \A k \in at : d[k] = Raw)

\* Destroy what lives from place i up to place j.
destroy(w, s, i, j) ==
  LET d == Slots(w, s)
      at == i + 1 .. j
  IN  Check(PutSlots(w, s, [k \in DOMAIN d |-> IF k \in at THEN Raw ELSE d[k]]),
            at \subseteq DOMAIN d /\ (use_sso \/ \A k \in at : d[k] # Raw))

\* Elements of trivial types end with the size; others have to be destroyed.
set_size(w, s, m) ==
  LET v == IF use_sso THEN PutSlots(w, s, [k \in DOMAIN Slots(w, s) |->
                                             IF k <= m THEN Slots(w, s)[k] ELSE Raw])
           ELSE w
  IN  Check(IF is_small(w, s) THEN [v EXCEPT !.rep[s].small_n = m] ELSE [v EXCEPT !.rep[s].n = m],
            m <= capacity(w, s))

\* A buffer is freed once, and no object in it may still need its destructor.
free_buffer(w, b) ==
  IF b = nullptr THEN w
  ELSE Check([w EXCEPT !.heap = [x \in DOMAIN w.heap \ {b} |-> w.heap[x]]],
             b \in DOMAIN w.heap /\ (use_sso \/ \A k \in DOMAIN w.heap[b] : w.heap[b][k] = Raw))

NewBuffer(w)       == Min(1 .. Cardinality(DOMAIN w.heap) + 1 \ DOMAIN w.heap)
Allocate(w, b, cap) == WithBuffer(w, b, Fresh(cap))

\* s is empty, without a buffer.
initialize_capacity(w, s, desired) ==
  IF use_sso /\ desired <= short_capacity THEN [w EXCEPT !.rep[s].flag = FALSE]
  ELSE LET b == NewBuffer(w) IN
       [Allocate(w, b, desired) EXCEPT
          !.rep[s] = [@ EXCEPT !.flag = use_sso, !.buffer = b, !.n = 0]]

\* Mutant: the old buffer is kept.
ensure_capacity_leaks(w, s, desired) ==
  LET current == capacity(w, s)
      b  == NewBuffer(w)
      up == initialize([Allocate(w, b, Max({desired, (5 * current) \div 2}))
                          EXCEPT !.rep[s] = [@ EXCEPT !.flag = use_sso, !.buffer = b,
                                                      !.n = size(w, s)]], s, 0, Elements(w, s))
  IN  IF current >= desired THEN w ELSE up

\* The elements are relocated: none is left behind to be destroyed.
ensure_capacity(w, s, desired) ==
  LET current == capacity(w, s)
      old == w.rep[s].buffer
      b   == NewBuffer(w)
      emptied == PutSlots(w, s, Fresh(current))
      freed   == IF is_small(w, s) THEN emptied ELSE free_buffer(emptied, old)
      grown   == [Allocate(freed, b, Max({desired, (5 * current) \div 2}))
                    EXCEPT !.rep[s] = [@ EXCEPT !.flag = use_sso, !.buffer = b,
                                                !.n = size(w, s)]]
  IN  IF current >= desired THEN w ELSE initialize(grown, s, 0, Elements(w, s))

storage_clear(w, s) ==
  [(IF is_small(w, s) THEN w
    ELSE free_buffer(destroy(w, s, 0, size(w, s)), w.rep[s].buffer)) EXCEPT !.rep[s] = Zero]

move_from(w, s, t) == [w EXCEPT !.rep = [@ EXCEPT ![s] = w.rep[t], ![t] = Zero]]
swap(w, s, t)      == [w EXCEPT !.rep = [@ EXCEPT ![s] = w.rep[t], ![t] = w.rep[s]]]

---------------------------------------------------------------------------
(* Constructors and assignments; s is empty                                *)

\* initialize_fill, initialize_default, initialize_range and from_function: n
\* elements at once, wherever they come from.
initialize_range(w, s, vals) ==
  set_size(initialize(initialize_capacity(w, s, Len(vals)), s, 0, vals), s, Len(vals))

\* A small sequence is copied byte by byte.
copy_construct(w, s, t) ==
  IF is_small(w, t) THEN [w EXCEPT !.rep[s] = w.rep[t]]
  ELSE initialize_range(w, s, Elements(w, t))

\* operator=(sequence b): b is a copy of t, or t moved into it
copy_assign(w, s, t) == storage_clear(swap(copy_construct(w, Tmp, t), s, Tmp), Tmp)
move_assign(w, s, t) == storage_clear(swap(move_from(w, Tmp, t), s, Tmp), Tmp)

assign(w, s, vals) == initialize_range(storage_clear(w, s), s, vals)

---------------------------------------------------------------------------
(* Appending                                                               *)

\* append_n and append_range
append(w, s, vals) ==
  LET n == size(w, s)
      v == initialize(ensure_capacity(w, s, n + Len(vals)), s, n, vals)
  IN  set_size(v, s, n + Len(vals))

emplace_back(w, s, x) ==
  LET v == ensure_capacity(w, s, size(w, s) + 1)
  IN  set_size(initialize(v, s, size(v, s), <<x>>), s, size(v, s) + 1)

\* With input iterators elements come one by one.
append_input(w, s, vals) ==
  LET after[k \in 0 .. Len(vals)] ==
        IF k = 0 THEN w ELSE emplace_back(after[k - 1], s, vals[k])
  IN  after[Len(vals)]

\* What moving leaves in the places from i up to j.
MovedFrom(w, t, i, j) ==
  LET d == Slots(w, t) IN
  IF use_sso THEN w
  ELSE PutSlots(w, t, [k \in DOMAIN d |-> IF k \in i + 1 .. j THEN Moved ELSE d[k]])

move_append(w, s, t) ==
  LET v == append(w, s, Elements(w, t)) IN MovedFrom(v, t, 0, size(v, t))

append_sequence(w, s, t) ==
  IF size(w, s) = 0 /\ capacity(w, s) <= size(w, t)
  THEN move_assign(w, s, t)
  ELSE move_append(w, s, t)

---------------------------------------------------------------------------
(* Inserting and erasing                                                   *)

pop_back(w, s) ==
  set_size(IF use_sso THEN w ELSE destroy(w, s, size(w, s) - 1, size(w, s)), s, size(w, s) - 1)

\* t, which is empty, gets the elements from pos on.
pop_tail(w, s, t, pos) ==
  LET n == size(w, s)
      v == MovedFrom(initialize_range(w, t, SubSeq(Elements(w, s), pos + 1, n)), s, pos, n)
  IN  IF pos = n THEN w
      ELSE set_size(IF use_sso THEN v ELSE destroy(v, s, pos, n), s, pos)

\* Append the tail that was put aside, and destroy it.
PutBack(w, s) == storage_clear(move_append(w, s, Tmp), Tmp)

emplace(w, s, pos, x) ==
  IF pos = size(w, s) THEN emplace_back(w, s, x)
  ELSE LET v == ensure_capacity(w, s, size(w, s) + 1)
       IN  PutBack(emplace_back(pop_tail(v, s, Tmp, pos), s, x), s)

insert_n(w, s, pos, vals) ==
  LET v == ensure_capacity(w, s, size(w, s) + Len(vals))
  IN  PutBack(append(pop_tail(v, s, Tmp, pos), s, vals), s)

insert_range(w, s, pos, vals) == PutBack(append(pop_tail(w, s, Tmp, pos), s, vals), s)

resize(w, s, m, x) ==
  LET n == size(w, s)
      v == IF m < n THEN IF use_sso THEN w ELSE destroy(w, s, m, n)
           ELSE initialize(ensure_capacity(w, s, m), s, n, [i \in 1 .. m - n |-> x])
  IN  set_size(v, s, m)

erase(w, s, pos) ==
  IF pos = size(w, s) - 1 THEN pop_back(w, s)
  ELSE PutBack(pop_back(pop_tail(w, s, Tmp, pos + 1), s), s)

\* Mutant: the elements to be erased stay in the way.
erase_range_keeps(w, s, pos, end) == PutBack(pop_tail(w, s, Tmp, end), s)

erase_range(w, s, pos, end) ==
  LET v == pop_tail(w, s, Tmp, end)
  IN  PutBack(resize(v, s, size(v, s) - (end - pos), CHOOSE x \in Values : TRUE), s)

---------------------------------------------------------------------------
(* operator==                                                              *)

\* The elements from start on, in blocks of twice the size each time.
BlocksFrom(start, block_size, n) ==
  LET blocks[k \in 0 .. n] ==
        IF k = 0 THEN <<start, start + block_size>>
        ELSE <<blocks[k - 1][2], blocks[k - 1][2] + 2 * (blocks[k - 1][2] - blocks[k - 1][1])>>
  IN  {<<blocks[k][1], Min({n, blocks[k][2]})>> : k \in {k \in 0 .. n : blocks[k][1] < n}}

compare_equal(a, b) ==
  LET n == Len(a)
      Same(i, j) == \A k \in i + 1 .. j : a[k] = b[k]
  IN  /\ Same(0, Min({Chunk, n}))
      /\ n > Chunk => \A blk \in BlocksFrom(Chunk, 2 * Chunk, n) : Same(blk[1], blk[2])

equal(w, s, t) == /\ size(w, s) = size(w, t)
                  /\ compare_equal(Elements(w, s), Elements(w, t))

---------------------------------------------------------------------------
Init ==
  /\ use_sso \in BOOLEAN
  /\ mem = [rep |-> [s \in All |-> Zero], heap |-> <<>>, ok |-> TRUE]
  /\ call = [op |-> "none", s |-> Tmp, t |-> Tmp, pos |-> 0, end |-> 0, vals |-> <<>>, ret |-> 0]

Called(op, s, t, pos, end, vals, ret) ==
  /\ call' = [op |-> op, s |-> s, t |-> t, pos |-> pos, end |-> end, vals |-> vals, ret |-> ret]
  /\ UNCHANGED use_sso

n_(s)       == size(mem, s)
Lists(k)    == UNION {[1 .. i -> Values] : i \in 0 .. k}
Room(s)     == MaxLen - n_(s)

\* Nobody reads what has been moved away.
Whole(s)    == Moved \notin ToSet(Elements(mem, s))

Construct(s) == \E vals \in Lists(MaxLen) :
  /\ mem.rep[s] = Zero
  /\ mem' = initialize_range(mem, s, vals)
  /\ Called("construct", s, s, 0, 0, vals, 0)

Assign(s) == \E vals \in Lists(MaxLen) :
  /\ mem' = assign(mem, s, vals)
  /\ Called("assign", s, s, 0, 0, vals, 0)

Clear(s) == mem' = storage_clear(mem, s) /\ Called("clear", s, s, 0, 0, <<>>, 0)

CopyFrom(s, t) == \* the copy constructor or copy assignment
  /\ s # t /\ Whole(t)
  /\ mem' = IF mem.rep[s] = Zero THEN copy_construct(mem, s, t) ELSE copy_assign(mem, s, t)
  /\ Called("copy", s, t, 0, 0, <<>>, 0)

MoveFrom(s, t) ==
  /\ s # t
  /\ mem' = IF mem.rep[s] = Zero THEN move_from(mem, s, t) ELSE move_assign(mem, s, t)
  /\ Called("move", s, t, 0, 0, <<>>, 0)

Swap(s, t) == mem' = swap(mem, s, t) /\ Called("swap", s, t, 0, 0, <<>>, 0)

AppendList(s) == \E vals \in Lists(Room(s)) :
  /\ Whole(s)
  /\ \/ mem' = append(mem, s, vals)
     \/ mem' = append_input(mem, s, vals)
  /\ Called("append", s, s, 0, 0, vals, n_(s))

AppendMoving(s, t) ==
  /\ s # t /\ n_(t) <= Room(s) /\ Whole(s) /\ Whole(t)
  /\ mem' = append_sequence(mem, s, t)
  /\ Called("append_moving", s, t, 0, 0, <<>>, n_(s))

Insert(s) == \E pos \in 0 .. n_(s), vals \in Lists(Min({2, Room(s)})) :
  /\ Whole(s)
  /\ \/ Len(vals) = 1 /\ mem' = emplace(mem, s, pos, vals[1])
     \/ Cardinality(ToSet(vals)) <= 1 /\ mem' = insert_n(mem, s, pos, vals)
     \/ mem' = insert_range(mem, s, pos, vals)
  /\ Called("insert", s, s, pos, pos, vals, pos)

Erase(s) == \E pos \in 0 .. n_(s), end \in 0 .. n_(s) :
  /\ Whole(s)
  /\ pos <= end
  /\ \/ end = pos + 1 /\ mem' = erase(mem, s, pos)
     \/ mem' = erase_range(mem, s, pos, end)
  /\ Called("erase", s, s, pos, end, <<>>, pos)

Resize(s) == \E m \in 0 .. MaxLen, x \in Values :
  /\ Whole(s)
  /\ mem' = resize(mem, s, m, x)
  /\ Called("resize", s, s, 0, m, <<x>>, 0)

Reserve(s) == \E m \in 0 .. MaxLen :
  /\ Whole(s)
  /\ mem' = ensure_capacity(mem, s, m)
  /\ Called("reserve", s, s, 0, m, <<>>, 0)

PopTail(s, t) == \E pos \in 0 .. n_(s) :
  /\ Whole(s)
  /\ s # t /\ mem.rep[t] = Zero
  /\ mem' = pop_tail(mem, s, t, pos)
  /\ Called("pop_tail", s, t, pos, 0, <<>>, 0)

Equal(s, t) ==
  /\ UNCHANGED mem
  /\ Called("equal", s, t, 0, 0, <<>>, IF equal(mem, s, t) THEN 1 ELSE 0)

Next == \E s \in Names :
  \/ Construct(s) \/ Assign(s) \/ Clear(s) \/ AppendList(s) \/ Insert(s) \/ Erase(s)
  \/ Resize(s) \/ Reserve(s)
  \/ \E t \in Names : CopyFrom(s, t) \/ MoveFrom(s, t) \/ Swap(s, t)
                      \/ AppendMoving(s, t) \/ PopTail(s, t) \/ Equal(s, t)

Spec == Init /\ [][Next]_vars

\* For model checking: the last call is for the properties only.
Symmetry == Permutations(Names)
Stored   == <<mem, use_sso>>

---------------------------------------------------------------------------
\* Every call does and returns what it would with plain arrays.
Abstract == INSTANCE DynArray WITH arr <- [s \in Names |-> Elements(mem, s)]
ImplementsArray == Abstract!Spec

\* No object is constructed on top of another, used after its end, or
\* forgotten; no buffer is freed twice.  Each buffer belongs to one sequence
\* that is not in place, and exactly the first size() places of a sequence
\* hold objects.
OwnsItsElements ==
  /\ mem.ok
  /\ mem.rep[Tmp] = Zero
  /\ \A b \in DOMAIN mem.heap :
       Cardinality({s \in All : ~is_small(mem, s) /\ mem.rep[s].buffer = b}) = 1
  /\ \A s \in All :
       /\ size(mem, s) <= capacity(mem, s)
       /\ \A k \in DOMAIN Slots(mem, s) : (k <= size(mem, s)) = (Slots(mem, s)[k] # Raw)

---------------------------------------------------------------------------
(* Why: the buffers of the sequences make up the heap, no two have one in  *)
(* common, and each sequence is a row of objects with raw memory after it. *)

Objects == Values \cup {Moved}
Cells   == Objects \cup {Raw}
Reps    == [flag : BOOLEAN, small_n : Nat, elements : [1 .. short_capacity -> Cells],
            buffer : Nat, n : Nat]

\* The buffer that a representation refers to.
House(r) == IF (use_sso /\ ~r.flag) \/ r.buffer = nullptr THEN {} ELSE {r.buffer}

Fit(w) ==
  /\ use_sso \in BOOLEAN
  /\ w \in [rep : {w.rep}, heap : {w.heap}, ok : {TRUE}]
  /\ w.rep \in [All -> Reps]
  /\ IsFiniteSet(DOMAIN w.heap) /\ DOMAIN w.heap \subseteq Nat \ {nullptr}
  /\ w.heap \in [DOMAIN w.heap -> Seq(Cells)]
  /\ DOMAIN w.heap = UNION {House(w.rep[s]) : s \in All}
  /\ \A s, t \in All : s # t => House(w.rep[s]) \cap House(w.rep[t]) = {}

\* A row of objects, and raw memory up to place cap.
Line(a, cap) == [k \in 1 .. cap |-> IF k <= Len(a) THEN a[k] ELSE Raw]

\* In s lies the row a of objects, of which s believes that there are m.
Lies(w, s, a, m) ==
  /\ a \in Seq(Objects)
  /\ Len(a) <= capacity(w, s) /\ Slots(w, s) = Line(a, capacity(w, s))
  /\ size(w, s) = m

Row(w, s, a) == Lies(w, s, a, Len(a))

Rows(w) == [s \in All |-> Elements(w, s)]

IInv == /\ Fit(mem)
        /\ \A s \in All : Row(mem, s, Elements(mem, s))
        /\ mem.rep[Tmp] = Zero
=============================================================================
