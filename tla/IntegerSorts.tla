---------------------------- MODULE IntegerSorts ----------------------------
(* parlay/internal/counting_sort.h and integer_sort.h: stable sorts by small  *)
(* integer keys, which move the elements between In, Out and Tmp. Relocating  *)
(* an element leaves its cell without an object; copying one does not.        *)
EXTENDS Sorts

CONSTANTS
    CountSeq,        \* SEQ_THRESHOLD
    CountGrain,      \* elements per block of count_sort_, of which it makes
                     \*   1 + n*sizeof(T) / max(500*num_buckets, 5000)
    RadixSeq,        \* PARLAY_INTEGER_SORT_BASE_CASE_SIZE
    DigitBits,       \* radix: the bits of a round of the bottom-up sort
    TopBits,         \* the 8 bits of a round of the top-down sort
    FewBits          \* base_bits: at most this many are sorted in one round

Digit(x, shift, bits) == (x \div 2 ^ shift) % 2 ^ bits

\* To Out by the moves, taking the objects out of In or copying them.
Moved(In, Out, moves, copy) ==
    LET r == Relocated(In, Out, moves)
    IN IF copy THEN [r EXCEPT !.in = In] ELSE r

\* uninitialized_relocate_n, or a copy, of the whole of In.
Whole(In, Out, copy) == Moved(In, Out, {[from |-> i, to |-> i] : i \in Indices(In)}, copy)

seq_count_(keys, buckets) ==
    Filled([k \in 0 .. buckets - 1 |-> Count(keys, LAMBDA x : x = k)])

\* From the back, each element before those of its bucket already placed.
seq_count_sort(In, Out, keys, buckets, copy) ==
    [mem |-> Moved(In, Out, RadixMoves(keys, buckets), copy),
     offsets |-> [k \in 0 .. buckets |->
                    IF k = buckets THEN Size(In) ELSE BucketStarts(keys, buckets)[k]],
     one |-> FALSE]

\* Block i of the blocks that n elements are cut into, the last ones maybe empty.
BlockAt(i, size, n) ==
    [s |-> Smaller(i * size, n), e |-> Smaller(Smaller(i * size, n) + size, n)]

\* The first block is not counted among those before a block.
DestinationsOverlap(keys, counts, starts, i, block) ==
    {[from |-> j,
      to |-> starts[keys[j]]
               + FoldLeft(LAMBDA v, b : v + counts[b][keys[j]], 0, [b \in 1 .. i - 1 |-> b])
               + Cardinality({x \in block.s .. j - 1 : keys[x] = keys[j]})] :
        j \in block.s .. block.e - 1}

\* Where the elements of block i go: past its bucket's elements in the blocks
\* before it. counts[i][k] is the number of elements of bucket k in block i.
Destinations(keys, counts, starts, i, block) ==
    {[from |-> j,
      to |-> starts[keys[j]]
               + FoldLeft(LAMBDA v, b : v + counts[b][keys[j]], 0,
                          [b \in 1 .. i |-> b - 1])
               + Cardinality({x \in block.s .. j - 1 : keys[x] = keys[j]})] :
        j \in block.s .. block.e - 1}

count_sort_(In, Out, keys, buckets, skip_if_in_one, copy) ==
    LET n == Size(In)
        blocks == 1 + n \div CountGrain
        size == (n - 1) \div blocks + 1
        at(i) == BlockAt(i, size, n)
        counts == Filled([i \in 0 .. blocks - 1 |->
                     seq_count_(Cut(keys, at(i).s, at(i).e), buckets)])
        totals == [k \in 0 .. buckets |->
                     IF k = buckets THEN 0
                     ELSE Fold(+, 0, [i \in 0 .. blocks - 1 |-> counts[i][k]])]
        starts == Offsets(totals).out
        one == skip_if_in_one
               /\ Cardinality({k \in 0 .. buckets - 1 : totals[k] > 0}) = 1
    IN IF n < CountSeq \/ blocks = 1
       THEN seq_count_sort(In, Out, keys, buckets, copy)
       ELSE [mem |-> IF one THEN [in |-> In, out |-> Out]
                     ELSE Moved(In, Out,
                            UNION {Destinations(keys, counts, starts, i, at(i)) :
                                      i \in 0 .. blocks - 1}, copy),
             offsets |-> starts, one |-> one]

count_sort(A, keys, buckets) ==
    LET r == count_sort_(A, Empty(Size(A)), keys, buckets, FALSE, TRUE)
    IN [out |-> r.mem.out, offsets |-> r.offsets, in |-> r.mem.in]

count_sort_inplace(A, keys, buckets) ==
    LET r == count_sort_(A, Empty(Size(A)), keys, buckets, FALSE, FALSE)
        back == Whole(r.mem.out, r.mem.in, FALSE)
    IN [out |-> back.out, offsets |-> r.offsets, in |-> back.out]

\* One sequence per bucket; two buckets are split without counting.
group_by_small_int(A, keys, buckets) ==
    LET n == Size(A)
        blocks == 1 + n \div CountGrain
        size == (n - 1) \div blocks + 1
        at(i) == BlockAt(i, size, n)
        counts == Filled([i \in 0 .. blocks - 1 |->
                     seq_count_(Cut(keys, at(i).s, at(i).e), buckets)])
        zero == [k \in 0 .. buckets - 1 |-> 0]
        total(k) == Fold(+, 0, [i \in 0 .. blocks - 1 |-> counts[i][k]])
        moves(k) == {mv \in UNION {Destinations(keys, counts, zero, i, at(i)) :
                                      i \in 0 .. blocks - 1} : keys[mv.from] = k}
        block == sliced_for(n, size)
        sums == Offsets([i \in 0 .. blocks - 1 |->
                   IF i \in DOMAIN block
                   THEN Cardinality({j \in block[i].s .. block[i].e - 1 : keys[j] = 0})
                   ELSE 0])
        half(k, from(_)) == [i \in DOMAIN block |->
              {Write(from(i) + Cardinality({x \in block[i].s .. j - 1 : (keys[x] = 0) = (k = 0)}),
                     A[j]) : j \in {x \in block[i].s .. block[i].e - 1 : (keys[x] = 0) = (k = 0)}}]
    IN IF buckets = 2
       THEN [k \in {0, 1} |->
               IF k = 0 THEN Stored(sums.total, half(0, LAMBDA i : sums.out[i]))
               ELSE Stored(n - sums.total, half(1, LAMBDA i : block[i].s - sums.out[i]))]
       ELSE [k \in 0 .. buckets - 1 |-> Relocated(A, Empty(total(k)), moves(k)).out]

-----------------------------------------------------------------------------
(* integer_sort.h. Objects carry their integer in field key.                  *)

\* Rounds from the lowest digit, to and fro between the two arrays.
RECURSIVE Rounds(_, _, _, _)
Rounds(from, to, bits, offset) ==
    LET round == Smaller(DigitBits, bits)
        moved == Relocated(from, to,
                   RadixMoves([i \in Indices(from) |-> Digit(from[i].key, offset, round)],
                              2 ^ round))
    IN IF bits = 0 THEN [full |-> from, empty |-> to, swapped |-> FALSE]
       ELSE LET rest == Rounds(moved.out, moved.in, bits - round, offset + round)
            IN [rest EXCEPT !.swapped = ~ @]

seq_radix_sort_(In, Out, bits, inplace) ==
    LET r == Rounds(In, Out, bits, 0)
        moved == Whole(r.full, r.empty, FALSE)
    IN IF Size(In) = 0 THEN [in |-> In, out |-> Out]
       ELSE IF r.swapped = inplace              \* the result is in the other one
       THEN IF inplace THEN [in |-> moved.out, out |-> moved.in]
            ELSE [in |-> moved.in, out |-> moved.out]
       ELSE IF inplace THEN [in |-> r.full, out |-> r.empty]
       ELSE [in |-> r.empty, out |-> r.full]

\* When not in place the input goes to whichever of Tmp and Out the last round
\* leaves the result in Out from. Tmp is In's array if the input is relocated.
seq_radix_sort(m, inplace, copy, bits) ==
    LET odd == ((bits - 1) \div DigitBits) % 2 = 1
        work == seq_radix_sort_(m.in, m.out, bits, TRUE)
        toTmp == Whole(m.in, m.tmp, copy)
        viaTmp == seq_radix_sort_(IF copy THEN toTmp.out ELSE m.in, m.out, bits, FALSE)
        toOut == Whole(m.in, m.out, copy)
        viaOut == seq_radix_sort_(toOut.out, IF copy THEN m.tmp ELSE toOut.in, bits, TRUE)
    IN IF inplace THEN [m EXCEPT !.in = work.in, !.out = work.out, !.tmp = work.in]
       ELSE IF odd
       THEN [in |-> IF copy THEN m.in ELSE viaTmp.in, out |-> viaTmp.out, tmp |-> viaTmp.in]
       ELSE [in |-> IF copy THEN m.in ELSE viaOut.out, out |-> viaOut.in, tmp |-> viaOut.out]

\* m holds the three arrays, tmp being the same as in unless the input is
\* copied; the result holds them afterwards and the offsets of the buckets.
RECURSIVE integer_sort_r(_, _, _, _, _)
integer_sort_r(m, inplace, copy, bits, buckets) ==
    LET n == Size(m.in)
        whole == Whole(m.in, m.out, copy)
        few == count_sort_(m.in, m.out, [i \in 0 .. n - 1 |-> Digit(m.in[i].key, 0, bits)],
                           IF buckets = 0 THEN 2 ^ bits ELSE buckets, inplace, copy)
        back == Whole(few.mem.out, few.mem.in, FALSE)
        low == bits - TopBits
        inner == IF buckets > 0 THEN 2 ^ low ELSE 0
        outer == 2 ^ TopBits
        top == count_sort_(m.in, m.out,
                           [i \in 0 .. n - 1 |-> Digit(m.in[i].key, low, TopBits)],
                           outer, buckets = 0, copy)
        tmp == IF copy THEN m.tmp ELSE top.mem.in
        sub == Filled([i \in 0 .. outer - 1 |->
                  LET a == Cut(top.mem.out, top.offsets[i], top.offsets[i + 1])
                  IN integer_sort_r([in |-> a, tmp |-> a,
                                     out |-> Cut(tmp, top.offsets[i], top.offsets[i + 1])],
                                    ~ inplace, FALSE, low, inner)])
        ins == Fold(Joined, <<>>, [i \in 0 .. outer - 1 |-> sub[i].mem.in])
        outs == Fold(Joined, <<>>, [i \in 0 .. outer - 1 |-> sub[i].mem.out])
        none == <<>>
    IN IF bits = 0
       THEN [mem |-> IF inplace THEN m
                     ELSE [in |-> whole.in, out |-> whole.out,
                           tmp |-> IF copy THEN m.tmp ELSE whole.in],
             offsets |-> none]
       ELSE IF n < RadixSeq /\ buckets = 0
       THEN [mem |-> seq_radix_sort(m, inplace, copy, bits), offsets |-> none]
       ELSE IF bits <= FewBits
       THEN [mem |-> IF inplace
                     THEN IF few.one THEN m
                          ELSE [in |-> back.out, out |-> back.in, tmp |-> back.out]
                     ELSE [in |-> few.mem.in, out |-> few.mem.out,
                           tmp |-> IF copy THEN m.tmp ELSE few.mem.in],
             offsets |-> IF buckets > 0 THEN few.offsets ELSE none]
       ELSE IF top.one THEN integer_sort_r(m, inplace, copy, low, 0)
       ELSE [mem |-> [in |-> IF copy THEN m.in ELSE outs, out |-> ins, tmp |-> outs],
             offsets |->
                IF buckets = 0 THEN none
                ELSE [k \in 0 .. buckets |->
                        IF k = buckets THEN n
                        ELSE top.offsets[k \div inner]
                               + sub[k \div inner].offsets[k % inner]]]

\* bits = 0 asks for as many as the largest key has.
integer_sort_(m, inplace, copy, bits, buckets) ==
    LET largest == reduce(M("maximum"), [i \in Indices(m.in) |-> m.in[i].key], FALSE)
    IN integer_sort_r(m, inplace, copy,
                      IF bits = 0 THEN log2_up(largest + 1) ELSE bits, buckets)

integer_sort_inplace(A, bits) ==
    integer_sort_([in |-> A, out |-> Empty(Size(A)), tmp |-> A], TRUE, FALSE, bits, 0).mem
integer_sort(A, bits) ==
    integer_sort_([in |-> A, out |-> Empty(Size(A)), tmp |-> Empty(Size(A))],
                  FALSE, TRUE, bits, 0).mem

\* How many there are of each integer of a sorted sequence: only the borders
\* between unequal neighbours are written.
get_counts(A, buckets) ==
    LET n == Size(A)
        border == {i \in 0 .. n - 2 : A[i].key # A[i + 1].key}
        starts == Overwritten([k \in 0 .. buckets - 1 |-> 0],
                    [i \in border |-> {Write(A[i + 1].key, i + 1)}])
        ends == [Overwritten([k \in 0 .. buckets - 1 |-> 0],
                    [i \in border |-> {Write(A[i].key, i + 1)}])
                 EXCEPT ![A[n - 1].key] = n]
    IN IF n = 0 THEN <<>> ELSE [k \in 0 .. buckets - 1 |-> ends[k] - starts[k]]

integer_sort_with_counts(A, buckets) ==
    LET R == integer_sort(A, log2_up(buckets)).out
    IN IF Size(A) = 0 THEN [out |-> <<>>, counts |-> [k \in 0 .. buckets - 1 |-> 0]]
       ELSE [out |-> R, counts |-> get_counts(R, buckets)]
=============================================================================
