------------------------------- MODULE Sorts -------------------------------
(* The comparison sorts of parlay/internal: merge, merge sort, quicksort,     *)
(* bucket sort, sample sort and the searches they use. An element is a record *)
(* of the key it is compared by and a tag that tells equal elements apart, so *)
(* that stability shows. A moved-from or not yet constructed cell holds Junk; *)
(* relocating from such a cell, or onto a live one, leaves Junk.              *)
EXTENDS SequenceOps

CONSTANTS
    SearchBase,          \* _binary_search_base
    MergeBase,           \* _merge_base
    MergeSortBase,       \* MERGE_SORT_BASE
    QuickBase,           \* the n of base_case, at least the 5 split3 needs
    QuickPar,            \* 1 << 8: quicksort forks from this size on
    PQuickCut,           \* cut_size of p_quicksort_
    RadixBits,           \* the 4 bits of bucket_sort_r
    BucketFactor,        \* the 32 elements per bucket it wants
    SampleBase,          \* QUICKSORT_THRESHOLD of sample_sort
    OverSample,          \* OVER_SAMPLE
    SampleBlocks,        \* sample_blocks of the in-place sample sort
    BlockQuotient, BucketQuotient,
    TransBase,           \* TRANS_THRESHHOLD
    BlockTransBase,      \* TRANS_THRESHHOLD * 16
    ObliviousSize,       \* NON_CACHE_OBLIVIOUS_THRESHOLD
    ObliviousSide        \* the 512 blocks and buckets it also takes

Less(x, y) == x # Junk /\ y # Junk /\ x.key < y.key
log2_up(n) == Least({b \in 0 .. n : 2 ^ b >= n})
FirstFrom(a, n, P(_)) == Least({i \in a .. n - 1 : P(i)} \cup {n})
Swapped(A, i, j) == [A EXCEPT ![i] = A[j], ![j] = A[i]]
Empty(n) == [i \in 0 .. n - 1 |-> Junk]

\* Constructing R in the cells of Out, which must not hold objects yet.
Placed(Out, R) == [i \in Indices(Out) |-> IF Out[i] = Junk THEN R[i] ELSE Junk]

\* uninitialized_relocate of cells of In to cells of Out, by parallel tasks.
Relocated(In, Out, moves) ==
    LET alone(mv) == /\ \A other \in moves \ {mv} : other.from # mv.from /\ other.to # mv.to
                     /\ mv.from \in Indices(In) /\ Out[mv.to] = Junk
    IN [in |-> Filled([i \in Indices(In) |->
                         IF \E mv \in moves : mv.from = i THEN Junk ELSE In[i]]),
        out |-> Filled([p \in Indices(Out) |->
                   LET here == {mv \in moves : mv.to = p}
                   IN IF here = {} THEN Out[p]
                      ELSE LET mv == CHOOSE x \in here : TRUE
                           IN IF alone(mv) THEN In[mv.from] ELSE Junk])]

-----------------------------------------------------------------------------
(* binary_search.h, heap_tree.h                                               *)

linear_search(A, v, a, e) == FirstFrom(a, e, LAMBDA i : ~ Less(A[i], v))

RECURSIVE SearchIn(_, _, _, _)
SearchIn(A, v, start, end) ==
    LET mid == (end + start) \div 2
    IN IF end - start <= SearchBase THEN linear_search(A, v, start, end)
       ELSE IF ~ Less(A[mid], v) THEN SearchIn(A, v, start, mid)
       ELSE SearchIn(A, v, mid + 1, end)
binary_search(A, v) == SearchIn(A, v, 0, Size(A))

\* Positions l to r-1 as a balanced tree below root: the children of node i
\* are nodes 2i+1 and 2i+2.
RECURSIVE to_tree(_, _, _, _)
to_tree(A, root, l, r) ==
    LET n == r - l
        m == l + n \div 2
    IN (root :> A[m])
       @@ IF n = 1 THEN <<>>
          ELSE to_tree(A, 2 * root + 1, l, m) @@ to_tree(A, 2 * root + 2, m + 1, r)

\* Going down the tree: left when GoesRight is false of the pivot.
RECURSIVE Descend(_, _, _, _)
Descend(tree, key, j, levels) ==
    IF levels = 0 THEN j
    ELSE Descend(tree, key, 1 + 2 * j + (IF Less(tree[j], key) THEN 1 ELSE 0), levels - 1)

heap_rank(keys, key) ==
    LET tree == to_tree(keys, 0, 0, Size(keys))
        j == Descend(tree, key, 0, log2_up(Size(keys) + 1) - 1)
    IN 1 + 2 * j + (IF ~ Less(key, tree[j]) THEN 1 ELSE 0) - Size(keys)

-----------------------------------------------------------------------------
(* merge.h, merge_sort.h                                                      *)

RECURSIVE seq_merge(_, _)
seq_merge(A, B) ==
    IF Size(A) = 0 THEN B
    ELSE IF Size(B) = 0 THEN A
    ELSE IF Less(B[0], A[0])
    THEN Joined(Cut(B, 0, 1), seq_merge(A, Cut(B, 1, Size(B))))
    ELSE Joined(Cut(A, 0, 1), seq_merge(Cut(A, 1, Size(A)), B))

\* The two halves write disjoint parts of the result.
RECURSIVE merge_into(_, _)
merge_into(A, B) ==
    LET nA == Size(A)
        nB == Size(B)
        half == nA \div 2
        mB == binary_search(B, A[half])
        mA == IF mB = 0 THEN half + 1 ELSE half
    IN IF nA + nB < MergeBase THEN seq_merge(A, B)
       ELSE IF nA = 0 THEN B
       ELSE IF nB = 0 THEN A
       ELSE Joined(merge_into(Cut(A, 0, mA), Cut(B, 0, mB)),
                   merge_into(Cut(A, mA, nA), Cut(B, mB, nB)))
merge(A, B) == merge_into(A, B)

RECURSIVE Sink(_, _)
Sink(A, j) ==
    IF j = 0 \/ ~ Less(A[j], A[j - 1]) THEN A ELSE Sink(Swapped(A, j, j - 1), j - 1)
insertion_sort(A) == FoldLeft(Sink, A, [i \in 1 .. Size(A) - 1 |-> i])

RECURSIVE merge_sort_(_, _, _)
merge_sort_(In, Out, inplace) ==
    LET n == Size(In)
        m == n \div 2
        l == merge_sort_(Cut(In, 0, m), Cut(Out, 0, m), ~ inplace)
        r == merge_sort_(Cut(In, m, n), Cut(Out, m, n), ~ inplace)
        in == Joined(l.in, r.in)
        out == Joined(l.out, r.out)
        sorted == insertion_sort(In)
    IN IF n < MergeSortBase
       THEN IF inplace THEN [in |-> sorted, out |-> Out]
            ELSE [in |-> Empty(n), out |-> Placed(Out, sorted)]
       ELSE IF inplace
       THEN [in |-> Placed(in, merge_into(l.out, r.out)), out |-> Empty(n)]
       ELSE [in |-> Empty(n), out |-> Placed(out, merge_into(l.in, r.in))]

merge_sort_inplace(A) ==
    IF Size(A) <= MergeSortBase THEN insertion_sort(A)
    ELSE merge_sort_(A, Empty(Size(A)), TRUE).in
merge_sort(A) == merge_sort_inplace(A)

-----------------------------------------------------------------------------
(* quicksort.h; hash is hash64, whose values decide the samples only.         *)

sort5(A, hash) ==
    LET n == Size(A)
        front == FoldLeft(LAMBDA B, i : Swapped(B, i, i + (hash[i] % (n - i))), A,
                          [i \in 1 .. 5 |-> i - 1])
    IN Joined(insertion_sort(Cut(front, 0, 5)), Cut(front, 5, n))

\* The loop of split3: below L less than p1, above R greater than p2, between
\* L and M neither, from M to R not looked at yet.
RECURSIVE Split(_, _, _)
Split(s, p1, p2) ==
    LET big(A, r) == Greatest({i \in 0 .. r : ~ Less(p2, A[i])})
        B == Swapped(s.A, s.M, s.R)
        C == IF Less(B[s.M], p1) THEN Swapped(B, s.L, s.M) ELSE B
    IN IF s.M > s.R THEN s
       ELSE IF Less(s.A[s.M], p1)
       THEN Split([A |-> Swapped(s.A, s.M, s.L), L |-> s.L + 1, M |-> s.M + 1, R |-> s.R],
                  p1, p2)
       ELSE IF Less(p2, s.A[s.M])
       THEN Split([A |-> C, L |-> IF Less(B[s.M], p1) THEN s.L + 1 ELSE s.L,
                   M |-> s.M + 1, R |-> big(C, s.R - 1)], p1, p2)
       ELSE Split([s EXCEPT !.M = s.M + 1], p1, p2)

split3(A, hash) ==
    LET n == Size(A)
        P == Swapped(Swapped(sort5(A, hash), 0, 1), 1, 3)
        p1 == P[0]
        p2 == P[1]
        s == Split([A |-> P, L |-> FirstFrom(2, n, LAMBDA i : ~ Less(P[i], p1)),
                    M |-> FirstFrom(2, n, LAMBDA i : ~ Less(P[i], p1)),
                    R |-> Greatest({i \in 0 .. n - 1 : ~ Less(p2, P[i])})], p1, p2)
        L == s.L - 2
    IN [A |-> Swapped(Swapped(Swapped(s.A, 1, L + 1), 0, L), L + 1, s.R),
        L |-> L, M |-> s.M, equal |-> ~ Less(p1, p2)]

RECURSIVE quicksort_serial(_, _)
quicksort_serial(A, hash) ==
    LET s == split3(A, hash)
        mid == Cut(s.A, s.L + 1, s.M)
    IN IF Size(A) < QuickBase THEN insertion_sort(A)
       ELSE Joined(Joined(quicksort_serial(Cut(s.A, 0, s.L), hash), Cut(s.A, s.L, s.L + 1)),
                   Joined(IF s.equal THEN mid ELSE quicksort_serial(mid, hash),
                          quicksort_serial(Cut(s.A, s.M, Size(A)), hash)))

\* The forked sorts work on disjoint parts; the element at L is in its place.
RECURSIVE quicksort(_, _)
quicksort(A, hash) ==
    LET s == split3(A, hash)
        mid == Cut(s.A, s.L + 1, s.M)
    IN IF Size(A) < QuickPar THEN quicksort_serial(A, hash)
       ELSE Joined(Joined(quicksort(Cut(s.A, 0, s.L), hash), Cut(s.A, s.L, s.L + 1)),
                   Joined(IF s.equal THEN mid ELSE quicksort(mid, hash),
                          quicksort(Cut(s.A, s.M, Size(A)), hash)))

p_split3(A, hash) ==
    LET S == sort5(A, hash)
        p1 == IF ~ Less(S[0], S[1]) THEN S[3] ELSE S[1]
        p2 == IF ~ Less(S[3], S[4]) THEN p1 ELSE S[3]
        split == split_three(S, [i \in Indices(S) |->
                     IF Less(S[i], p1) THEN 0 ELSE IF Less(p2, S[i]) THEN 2 ELSE 1])
    IN [out |-> split.out, L |-> split.m0, M |-> split.m0 + split.m1,
        equal |-> ~ Less(p1, p2)]

\* Result in In when inplace, in Out otherwise; the other array is scratch.
RECURSIVE p_quicksort_(_, _, _)
p_quicksort_(In, inplace, hash) ==
    LET n == Size(In)
        s == p_split3(In, hash)
        part(a, e) == p_quicksort_(Cut(s.out, a, e), ~ inplace, hash)
    IN IF n < PQuickCut THEN quicksort(In, hash)
       ELSE Joined(part(0, s.L),
                   Joined(IF s.equal THEN Cut(s.out, s.L, s.M) ELSE part(s.L, s.M),
                          part(s.M, n)))
p_quicksort_inplace(A, hash) == p_quicksort_(A, TRUE, hash)

-----------------------------------------------------------------------------
(* bucket_sort.h                                                              *)

\* One stable counting pass: from the back, each to the end of its bucket.
RadixMoves(keys, m) ==
    LET n == Size(keys)
        upto(k) == Cardinality({j \in 0 .. n - 1 : keys[j] <= k})
    IN {[from |-> j,
         to |-> upto(keys[j]) - 1 - Cardinality({i \in j + 1 .. n - 1 : keys[i] = keys[j]})] :
          j \in 0 .. n - 1}

\* The start of each bucket, as the pass leaves it in counts.
BucketStarts(keys, m) ==
    [k \in 0 .. m - 1 |-> Cardinality({j \in Indices(keys) : keys[j] < k})]

get_buckets(A, hash) ==
    LET n == Size(A)
        m == 2 ^ RadixBits
        over_sample == 1 + n \div (m * 400)
        sample == quicksort([i \in 0 .. m * over_sample - 1 |-> A[hash[i] % n]], hash)
        pivots == [i \in 0 .. m - 2 |-> sample[over_sample * (i + 1)]]
        tree == to_tree(pivots, 0, 0, m - 1)
        RECURSIVE Down(_, _, _)
        Down(x, j, rounds) ==
            IF rounds = 0 THEN j
            ELSE Down(x, 1 + 2 * j + (IF ~ Less(x, tree[j]) THEN 1 ELSE 0), rounds - 1)
    IN [equal |-> ~ Less(pivots[0], pivots[m - 2]),
        buckets |-> Filled([i \in 0 .. n - 1 |-> Down(A[i], 0, RadixBits) - (m - 1)])]

base_sort(In, Out, stable, inplace, hash) ==
    LET sorted == quicksort(In, hash)
    IN IF stable THEN merge_sort_(In, Out, inplace)
       ELSE IF inplace THEN [in |-> sorted, out |-> Out]
       ELSE [in |-> Empty(Size(In)), out |-> Placed(Out, sorted)]

RECURSIVE bucket_sort_r(_, _, _, _, _)
bucket_sort_r(In, Out, stable, inplace, hash) ==
    LET n == Size(In)
        m == 2 ^ RadixBits
        b == get_buckets(In, hash)
        moved == Relocated(In, Out, RadixMoves(b.buckets, m))
        start == BucketStarts(b.buckets, m)
        end(j) == IF j = m - 1 THEN n ELSE start[j + 1]
        done == Filled([j \in 0 .. m - 1 |->
                  bucket_sort_r(Cut(moved.out, start[j], end(j)), Cut(moved.in, start[j], end(j)),
                                stable, ~ inplace, hash)])
    IN IF n < m * BucketFactor \/ b.equal THEN base_sort(In, Out, stable, inplace, hash)
       ELSE [in |-> Fold(Joined, <<>>, [j \in DOMAIN done |-> done[j].out]),
             out |-> Fold(Joined, <<>>, [j \in DOMAIN done |-> done[j].in])]

bucket_sort(A, stable, hash) == bucket_sort_r(A, Empty(Size(A)), stable, TRUE, hash).in

-----------------------------------------------------------------------------
(* transpose.h                                                                *)

\* The leaves of the recursion that halves the longer side of a matrix.
RECURSIVE Tiles(_, _, _, _, _)
Tiles(base, r, rows, c, cols) ==
    IF cols * rows < base \/ rows * cols <= 1
    THEN {[r |-> i, c |-> j] : i \in r .. r + rows - 1, j \in c .. c + cols - 1}
    ELSE IF cols > rows
    THEN LET l == cols \div 2
         IN Tiles(base, r, rows, c, l) \cup Tiles(base, r, rows, c + l, cols - l)
    ELSE LET l == rows \div 2
         IN Tiles(base, r, l, c, cols) \cup Tiles(base, r + l, rows - l, c, cols)

transpose(A, rows, cols) ==
    Stored(rows * cols,
           [t \in Tiles(TransBase, 0, rows, 0, cols) |->
               {Write(t.c * rows + t.r, A[t.r * cols + t.c])}])

\* Chunk t of the matrix goes from its place in row-major to column-major order.
blockTrans(InOffset, OutOffset, rows, cols) ==
    UNION {LET sa == InOffset[t.r * cols + t.c]
               sb == OutOffset[t.c * rows + t.r]
           IN {[from |-> sa + k, to |-> sb + k] :
                 k \in 0 .. InOffset[t.r * cols + t.c + 1] - sa - 1} :
             t \in Tiles(BlockTransBase, 0, rows, 0, cols)}

\* counts has a number per block and bucket, block by block.
transpose_buckets(counts, n, block_size, blocks, buckets) ==
    LET m == blocks * buckets
        oblivious == n >= ObliviousSize /\ buckets > ObliviousSide /\ blocks > ObliviousSide
        dest == Offsets(IF oblivious THEN transpose(counts, blocks, buckets)
                        ELSE [i \in 0 .. m - 1 |->
                                counts[(i \div blocks) + buckets * (i % blocks)]]).out
        source(i, j) == i * block_size
                          + Fold(+, 0, Cut(counts, i * buckets, i * buckets + j))
        scanned == Offsets(counts)
    IN [moves |->
          IF oblivious
          THEN blockTrans([i \in 0 .. m |-> IF i = m THEN n ELSE scanned.out[i]], dest,
                          blocks, buckets)
          ELSE {[from |-> source(i, j) + k, to |-> dest[i + blocks * j] + k] :
                   <<i, j, k>> \in {x \in (0 .. blocks - 1) \X (0 .. buckets - 1) \X (0 .. n) :
                                      x[3] < counts[x[1] * buckets + x[2]]}},
        offsets |-> [i \in 0 .. buckets |-> IF i = buckets THEN n ELSE dest[i * blocks]]]

-----------------------------------------------------------------------------
(* sample_sort.h                                                              *)

\* How many of the sorted A fall before, between and after the sorted pivots;
\* between two equal pivots are the elements equal to them.
RECURSIVE CountFrom(_, _, _, _, _)
CountFrom(A, P, C, a, b) ==
    LET n == Size(A)
        x == FirstFrom(a, n, LAMBDA i : ~ Less(A[i], P[b]))
        y == FirstFrom(x, n, LAMBDA i : Less(P[b + 1], A[i]))
        below == [C EXCEPT ![b] = x - a]
        same == [below EXCEPT ![b + 1] = y - x]
    IN IF x = n THEN below
       ELSE IF b + 1 = Size(P) THEN [below EXCEPT ![b + 1] = n - x]
       ELSE IF Less(P[b], P[b + 1]) THEN CountFrom(A, P, below, x, b + 1)
       ELSE IF y = n THEN same
       ELSE IF b + 2 = Size(P) THEN [same EXCEPT ![b + 2] = n - y]
       ELSE CountFrom(A, P, same, y, b + 2)

get_bucket_counts(A, P) ==
    IF Size(A) = 0 \/ Size(P) = 0 THEN Empty(Size(P) + 1)
    ELSE CountFrom(A, P, [i \in 0 .. Size(P) |-> 0], 0, 0)

\* Elements of over eight bytes are quicksorted when stability is not asked for.
seq_sort_inplace(A, stable, wide, hash) ==
    IF wide /\ ~ stable THEN quicksort(A, hash) ELSE bucket_sort(A, stable, hash)

FloorSqrt(n) == Greatest({r \in 0 .. n : r * r <= n})

\* The shape of the matrix of blocks and buckets of n elements.
Shape(n) ==
    LET blocks == 2 ^ log2_up(FloorSqrt(n) \div BlockQuotient + 1)
    IN [blocks |-> blocks, size |-> (n - 1) \div blocks + 1,
        buckets |-> FloorSqrt(n) \div BucketQuotient + 1]

\* Each block's counts, one block after another.
BlockCounts(Tmp, shape, pivots) ==
    LET block == sliced_for(Size(Tmp), shape.size)
    IN Fold(Joined, <<>>, [i \in DOMAIN block |->
           get_bucket_counts(Cut(Tmp, block[i].s, block[i].e), pivots)])

SortedBlocks(A, size, stable, wide, hash) ==
    LET block == sliced_for(Size(A), size)
    IN Fold(Joined, <<>>, [i \in DOMAIN block |->
           seq_sort_inplace(Cut(A, block[i].s, block[i].e), stable, wide, hash)])

\* All buckets but those in skip.
SortBuckets(Out, offsets, skip, stable, wide, hash) ==
    Fold(Joined, <<>>, [i \in 0 .. Size(offsets) - 2 |->
        LET bucket == Cut(Out, offsets[i], offsets[i + 1])
        IN IF i \in skip THEN bucket ELSE seq_sort_inplace(bucket, stable, wide, hash)])

\* Buckets are left alone although their pivots differ.
sample_sort_skips(A, stable, wide, hash) ==
    LET n == Size(A)
        shape == Shape(n)
        sample == quicksort([i \in 0 .. shape.buckets * OverSample - 1 |-> A[hash[i] % n]], hash)
        pivots == [i \in 0 .. shape.buckets - 2 |-> sample[OverSample * i]]
        Tmp == SortedBlocks(A, shape.size, stable, wide, hash)
        t == transpose_buckets(BlockCounts(Tmp, shape, pivots), n, shape.size,
                               shape.blocks, shape.buckets)
    IN IF n < SampleBase THEN seq_sort_inplace(A, stable, wide, hash)
       ELSE SortBuckets(Relocated(Tmp, Empty(n), t.moves).out, t.offsets,
                        1 .. shape.buckets - 2, stable, wide, hash)

sample_sort(A, stable, wide, hash) ==
    LET n == Size(A)
        shape == Shape(n)
        sample == quicksort([i \in 0 .. shape.buckets * OverSample - 1 |-> A[hash[i] % n]], hash)
        pivots == [i \in 0 .. shape.buckets - 2 |-> sample[OverSample * i]]
        Tmp == SortedBlocks(A, shape.size, stable, wide, hash)
        t == transpose_buckets(BlockCounts(Tmp, shape, pivots), n, shape.size,
                               shape.blocks, shape.buckets)
    IN IF n < SampleBase THEN seq_sort_inplace(A, stable, wide, hash)
       ELSE SortBuckets(Relocated(Tmp, Empty(n), t.moves).out, t.offsets,
                        {i \in 1 .. shape.buckets - 2 : ~ Less(pivots[i - 1], pivots[i])},
                        stable, wide, hash)

\* The samples are swapped to the front, sorted there, and stay in place until
\* every block has been counted against the pivots among them.
sample_sort_inplace(A, wide, hash) ==
    LET n == Size(A)
        shape == Shape(n)
        samples == SampleBlocks * shape.size
        stride == samples \div (shape.buckets - 1)
        drawn == FoldLeft(LAMBDA B, i : Swapped(B, i, i + (hash[i] % (n - i))), A,
                          [i \in 1 .. samples |-> i - 1])
        sample == quicksort(Cut(drawn, 0, samples), hash)
        pivots == [i \in 0 .. shape.buckets - 2 |-> sample[stride * i]]
        Tmp == Joined(sample, SortedBlocks(Cut(drawn, samples, n), shape.size, FALSE, wide, hash))
        t == transpose_buckets(BlockCounts(Tmp, shape, pivots), n, shape.size,
                               shape.blocks, shape.buckets)
    IN IF n < SampleBase THEN seq_sort_inplace(A, FALSE, wide, hash)
       ELSE SortBuckets(Relocated(Tmp, Empty(n), t.moves).out, t.offsets,
                        {}, FALSE, wide, hash)
=============================================================================
