------------------------------ MODULE Streams ------------------------------
(* parlay/internal/block_delayed.h and stream_delayed.h, the older delayed    *)
(* sequences, and parlay/delayed_sequence.h. A block-delayed sequence is one  *)
(* stream per block; a stream is a forward iterator and a count, and is       *)
(* modelled by the values it yields until the count is used up.               *)
EXTENDS SequenceOps

CONSTANT StreamBlock    \* _block_size of block_delayed.h

-----------------------------------------------------------------------------
(* delayed_sequence.h: f of the indices first to last-1.                      *)

delayed_sequence(first, last, f) == [first |-> first, last |-> last, f |-> f]

\* Iterators run over first .. last and may be moved by any delta within.
AtIterator(d, index, delta) ==
    IF index + delta \in d.first .. d.last - 1 THEN d.f[index + delta] ELSE Junk
delayed_size(d) == d.last - d.first
Elements(d) == [k \in 0 .. delayed_size(d) - 1 |-> AtIterator(d, d.first, k)]
\* at() throws out of bounds; its argument counts from 0 and not from first.
delayed_at(d, i) == IF i < d.first \/ i >= d.last THEN Junk ELSE d.f[i]
delayed_front(d) == d.f[d.first]
delayed_back(d) == d.f[d.last - 1]

-----------------------------------------------------------------------------
(* stream_delayed.h                                                           *)

\* Both iterators are stepped as often as the first stream has elements.
stream_zip_with(S1, S2, f) ==
    [i \in Indices(S1) |-> IF i \in DOMAIN S2 THEN f[S1[i], S2[i]] ELSE Junk]
stream_map(S, f) == [i \in Indices(S) |-> f[S[i]]]

\* The iterator holds the value it yields next. An inclusive scan has taken the
\* first element before it starts.
stream_scan(m, init, S, inclusive) ==
    LET start == IF inclusive THEN combine(m, init, S[0]) ELSE init
        taken(i) == Cut(S, IF inclusive THEN 1 ELSE 0, IF inclusive THEN i + 1 ELSE i)
    IN [i \in Indices(S) |-> Fold(LAMBDA r, x : combine(m, r, x), start, taken(i))]

stream_reduce(m, init, S) == Fold(LAMBDA r, x : combine(m, r, x), init, S)
stream_filter_map(S, F, g) == stream_map(Kept(S, LAMBDA x : x \in F), g)
\* f gives a sequence of at most one value.
stream_filter_op(S, f) == Array(FoldLeft(LAMBDA r, x : r \o f[x], <<>>, Listed(S)))

-----------------------------------------------------------------------------
(* block_delayed.h                                                            *)

BDS(streams, n) == [streams |-> streams, n |-> n]

\* An array is cut into blocks; a block-delayed sequence has its streams.
make_iterators(A) ==
    LET block == sliced_for(Size(A), StreamBlock)
    IN BDS([i \in DOMAIN block |-> Cut(A, block[i].s, block[i].e)], Size(A))

\* All values that S yields.
Yield(S) == UNION {Range(S.streams[i]) : i \in DOMAIN S.streams}

\* The carry of each block is the scan of the sums of those before it. With one
\* block and an inclusive scan there is nothing to carry.
bd_scan(m, S, inclusive) ==
    LET sums == [i \in DOMAIN S.streams |-> stream_reduce(m, identity(m), S.streams[i])]
        skip == Size(S.streams) = 1 /\ inclusive
        carry == IF skip THEN [out |-> [i \in {0} |-> identity(m)], total |-> identity(m)]
                 ELSE scan_(m, sums, FALSE, FALSE)
    IN [seq |-> BDS([i \in DOMAIN S.streams |->
                       stream_scan(m, carry.out[i], S.streams[i], inclusive)], S.n),
        total |-> IF inclusive THEN identity(m) ELSE carry.total]

bd_reduce(m, S) ==
    reduce(m, [i \in DOMAIN S.streams |-> stream_reduce(m, identity(m), S.streams[i])], FALSE)

bd_zip_with(S1, S2, f) ==
    BDS([i \in DOMAIN S1.streams |-> stream_zip_with(S1.streams[i], S2.streams[i], f)], S1.n)
bd_zip(S1, S2) == bd_zip_with(S1, S2, [p \in Yield(S1) \X Yield(S2) |-> p])
bd_map(S, f) == BDS([i \in DOMAIN S.streams |-> stream_map(S.streams[i], f)], S.n)

\* apply and zip_apply call f, whose writes they are, block by block.
bd_zip_apply(S1, S2, f) ==
    [i \in DOMAIN S1.streams |->
        UNION {f[S1.streams[i][k], IF k \in DOMAIN S2.streams[i] THEN S2.streams[i][k] ELSE Junk] :
                  k \in DOMAIN S1.streams[i]}]
bd_apply(S, f) ==
    [i \in DOMAIN S.streams |-> UNION {f[S.streams[i][k]] : k \in DOMAIN S.streams[i]}]

\* Every element is written to the place its index says.
force(S) ==
    Stored(S.n, bd_zip_apply(make_iterators([i \in 0 .. S.n - 1 |-> i]), S,
                             [p \in (0 .. S.n - 1) \X (Yield(S) \cup {Junk}) |->
                                 {Write(p[1], p[2])}]))

\* From position pos of range j of the nested array, over the ends of ranges.
RECURSIVE Flat(_, _, _, _)
Flat(nested, j, pos, len) ==
    IF len = 0 THEN <<>>
    ELSE IF pos = Size(nested[j]) THEN Flat(nested, j + 1, 0, len)
    ELSE <<nested[j][pos]>> \o Flat(nested, j, pos + 1, len - 1)

bd_flatten(nested) ==
    LET sizes == Offsets([i \in Indices(nested) |-> Size(nested[i])])
        block == sliced_for(sizes.total, StreamBlock)
        j(s) == Cardinality({i \in DOMAIN sizes.out : sizes.out[i] <= s}) - 1
    IN BDS([i \in DOMAIN block |->
              Array(Flat(nested, j(block[i].s), block[i].s - sizes.out[j(block[i].s)],
                         block[i].e - block[i].s))], sizes.total)

\* Each block is filtered to a small sequence, which is then copied to its place.
bd_filter_map(S, F, g) ==
    LET seqs == [i \in DOMAIN S.streams |-> stream_filter_map(S.streams[i], F, g)]
        at == Offsets([i \in DOMAIN seqs |-> Size(seqs[i])])
    IN IF Size(S.streams) = 1 THEN seqs[0]
       ELSE Stored(at.total, [i \in DOMAIN seqs |->
                {Write(at.out[i] + k, seqs[i][k]) : k \in DOMAIN seqs[i]}])
bd_filter(S, F) == bd_filter_map(S, F, [x \in Yield(S) |-> x])

\* The filtered blocks are kept and flattened, as a block-delayed sequence.
bd_filter_op(S, F, g) ==
    bd_flatten([i \in DOMAIN S.streams |-> stream_filter_map(S.streams[i], F, g)])
bd_filter_op2(S, f) ==
    bd_flatten([i \in DOMAIN S.streams |-> stream_filter_op(S.streams[i], f)])
=============================================================================
