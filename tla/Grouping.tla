------------------------------ MODULE Grouping ------------------------------
(* parlay/internal/collect_reduce.h and group_by.h: combining the values of   *)
(* equal keys. Elements are records [key, tag]; the value of an element is    *)
(* its tag, and values are combined in the free monoid, where every combined  *)
(* value is the sequence of the values that went into it, in order.           *)
EXTENDS IntegerSorts, Streams

CONSTANTS
    CRSeq,           \* CR_SEQ_THRESHOLD
    FewFactor,       \* the 4 of num_buckets <= 4 * num_blocks
    FewBlocks,       \* 4 * num_threads
    FewGrain,        \* the 64 elements per bucket a block is worth
    BucketBits,      \* the number of bits of a bucket number, at least 4
    CopyCutoff,      \* copies in the sample that make a heavy hitter
    SparseSeq        \* the 10000 below which a hash table is enough

\* What the caller combines: values, a count, or the fact that there is one.
Helper(kind) == [kind |-> kind]

init(h) == CASE h.kind \in {"values", "lists"} -> <<>> [] h.kind = "count" -> 0
             [] h.kind = "flag" -> FALSE
get_val(h, a) == CASE h.kind \in {"values", "lists"} -> <<a.tag>> [] h.kind = "count" -> 1
                   [] h.kind = "flag" -> TRUE
\* update with the value of an element.
update(h, d, v) == CASE h.kind \in {"values", "lists"} -> d \o v [] h.kind = "count" -> d + v
                     [] h.kind = "flag" -> TRUE
\* update with a partial result: the one of lists aborts.
update_partial(h, d, part) == IF h.kind = "lists" THEN Junk ELSE update(h, d, part)
\* The values of a slice of one key, by a reduction of their own.
combine_slice(h, s) ==
    CASE h.kind = "values" ->
           reduce(M("concat"), [i \in Indices(s) |-> <<s[i].tag>>], FALSE)
      [] h.kind = "lists" -> [i \in 1 .. Size(s) |-> s[i - 1].tag]
      [] h.kind = "count" -> Size(s)
      [] h.kind = "flag" -> TRUE

Sums(A, h, d0) ==
    FoldLeft(LAMBDA d, a : [d EXCEPT ![a.key] = update(h, @, get_val(h, a))], d0, Listed(A))

seq_collect_reduce(A, h, buckets) == Sums(A, h, [k \in 0 .. buckets - 1 |-> init(h)])

collect_reduce_few(A, h, buckets) ==
    LET n == Size(A)
        wanted == Smaller(FewBlocks, (n \div buckets) \div FewGrain) + 1
        size == (n - 1) \div wanted + 1
        parts == EachBlock(A, size, LAMBDA B : seq_collect_reduce(B, h, buckets))
    IN IF n < CRSeq \/ Size(parts) = 1 THEN seq_collect_reduce(A, h, buckets)
       ELSE [k \in 0 .. buckets - 1 |->
               FoldLeft(LAMBDA d, part : update_partial(h, d, part[k]), init(h), Listed(parts))]

-----------------------------------------------------------------------------
(* get_bucket: the keys that are frequent in a sample get buckets of their    *)
(* own, the first ones; the others are hashed over the rest.                  *)

Free == [key |-> -1, copies |-> -1]

RECURSIVE Slot(_, _, _)
Slot(table, key, i) ==
    IF table[i] = Free \/ table[i].key = key THEN i
    ELSE Slot(table, key, (i + 1) % Size(table))

\* hash(i) picks the samples; hk is the caller's hash of a key.
get_bucket(A, bits, hash, hk) ==
    LET buckets == 2 ^ bits
        size == 4 * buckets
        sampled(t, i) ==
            LET key == A[hash[i] % Size(A)].key
                at == Slot(t, key, hk[key] % size)
            IN [t EXCEPT ![at] = IF @ = Free THEN [key |-> key, copies |-> 0]
                                 ELSE [@ EXCEPT !.copies = @ + 1]]
        empty == [i \in 0 .. size - 1 |-> Free]
        samples == FoldLeft(sampled, empty, [i \in 1 .. buckets |-> i - 1])
        \* copies counts from 0; a key whose slot another heavy one has stays light
        heavy(g, i) ==
            LET key == samples[i].key
                at == hk[key] % size
            IN IF samples[i].copies + 2 > CopyCutoff /\ g.table[at] = Free
               THEN [table |-> [g.table EXCEPT ![at] = [key |-> key, copies |-> g.heavy]],
                     heavy |-> g.heavy + 1]
               ELSE g
    IN FoldLeft(heavy, [table |-> empty, heavy |-> 0], [i \in 1 .. size |-> i - 1])

\* The heavy hitters are not kept out of the buckets of the others.
BucketMixed(g, bits, hk, key) ==
    LET h == g.table[hk[key] % Size(g.table)]
    IN IF g.heavy > 0 /\ h # Free /\ h.key = key THEN h.copies ELSE hk[key] % 2 ^ bits

BucketOf(g, bits, hk, key) ==
    LET h == g.table[hk[key] % Size(g.table)]
        hashed == hk[key] % 2 ^ bits
    IN IF g.heavy > 0 /\ h # Free /\ h.key = key THEN h.copies
       ELSE IF hashed < g.heavy THEN (hashed % (2 ^ bits - g.heavy)) + g.heavy
       ELSE hashed

-----------------------------------------------------------------------------
\* Block i of the sorted elements goes into the sums; a sum that two blocks
\* update at once holds Junk.
collect_reduce(A, h, buckets, hash, hk) ==
    LET n == Size(A)
        g == get_bucket(A, BucketBits, hash, hk)
        tagged == Filled([i \in 0 .. n - 1 |->
                     [key |-> BucketOf(g, BucketBits, hk, A[i].key), tag |-> A[i]]])
        sorted == integer_sort_([in |-> tagged, out |-> Empty(n), tmp |-> Empty(n)],
                                FALSE, TRUE, BucketBits, 2 ^ BucketBits)
        slice == Filled([i \in 0 .. 2 ^ BucketBits - 1 |->
                   [j \in 0 .. sorted.offsets[i + 1] - sorted.offsets[i] - 1 |->
                      sorted.mem.out[sorted.offsets[i] + j].tag]])
        zero == [k \in 0 .. buckets - 1 |-> init(h)]
        into == Filled([i \in DOMAIN slice |->
                  IF i < g.heavy
                  THEN [zero EXCEPT ![slice[i][0].key] = combine_slice(h, slice[i])]
                  ELSE Sums(slice[i], h, zero)])
        in(i) == IF i < g.heavy THEN {slice[i][0].key}
                 ELSE {slice[i][j].key : j \in Indices(slice[i])}
    IN IF buckets <= FewFactor * 2 ^ BucketBits \/ n < CRSeq
       THEN collect_reduce_few(A, h, buckets)
       ELSE [k \in 0 .. buckets - 1 |->
               LET here == {i \in 0 .. 2 ^ BucketBits - 1 : k \in in(i)}
               IN IF here = {} THEN init(h)
                  ELSE IF Cardinality(here) = 1 THEN into[CHOOSE i \in here : TRUE][k]
                  ELSE Junk]

\* One entry per key, in the order of a hash table half again as large as A.
seq_collect_reduce_sparse(A, h, hk) ==
    LET size == (3 * Size(A)) \div 2
        free == [key |-> -1, val |-> Junk]
        RECURSIVE At(_, _, _)
        At(t, key, k) ==
            IF t[k] = free \/ t[k].key = key THEN k
            ELSE At(t, key, IF k + 1 = size THEN 0 ELSE k + 1)
        put(t, a) ==
            LET k == At(t, a.key, hk[a.key] % size)
            IN [t EXCEPT ![k] = IF @ = free THEN [key |-> a.key, val |-> get_val(h, a)]
                                ELSE [@ EXCEPT !.val = update(h, @, get_val(h, a))]]
        table == FoldLeft(put, [k \in 0 .. size - 1 |-> free], Listed(A))
    IN Kept(table, LAMBDA e : e # free)

\* primitives.h: each inner sequence is written from its offset on.
flatten(R) ==
    LET at == Offsets([i \in Indices(R) |-> Size(R[i])])
    IN Stored(at.total, [i \in Indices(R) |->
                           {Write(at.out[i] + j, R[i][j]) : j \in Indices(R[i])}])

collect_reduce_sparse(A, h, hash, hk) ==
    LET n == Size(A)
        buckets == 2 ^ BucketBits
        g == get_bucket(A, BucketBits, hash, hk)
        keys == Filled([i \in 0 .. n - 1 |-> BucketOf(g, BucketBits, hk, A[i].key)])
        sorted == count_sort(A, keys, buckets)
        block == Filled([i \in 0 .. buckets - 1 |->
                   Cut(sorted.out, sorted.offsets[i], sorted.offsets[i + 1])])
        tables == Filled([i \in 0 .. buckets - 1 |->
                     IF i < g.heavy
                     THEN [j \in {0} |-> [key |-> block[i][0].key,
                                          val |-> combine_slice(h, block[i])]]
                     ELSE seq_collect_reduce_sparse(block[i], h, hk)])
    IN IF n < SparseSeq THEN seq_collect_reduce_sparse(A, h, hk) ELSE flatten(tables)

-----------------------------------------------------------------------------
(* group_by.h                                                                 *)

reduce_by_key(A, hash, hk) == collect_reduce_sparse(A, Helper("values"), hash, hk)
group_by_key(A, hash, hk) == collect_reduce_sparse(A, Helper("lists"), hash, hk)
histogram_by_key(A, hash, hk) == collect_reduce_sparse(A, Helper("count"), hash, hk)
remove_duplicates(A, hash, hk) ==
    LET R == collect_reduce_sparse(A, Helper("flag"), hash, hk)
    IN [i \in Indices(R) |-> R[i].key]

\* Where a run of equal keys starts, as block_delayed::filter finds it.
RunStarts(sorted) ==
    bd_filter(make_iterators([i \in Indices(sorted) |-> i]),
              {i \in Indices(sorted) : i = 0 \/ Less(sorted[i - 1], sorted[i])})
\* The values of the i-th run.
Run(sorted, starts, i) ==
    Cut(sorted, starts[i], IF i = Size(starts) - 1 THEN Size(sorted) ELSE starts[i + 1])

\* By integer sort where keys are small unsigned integers, else by sample sort.
group_by_key_ordered(A, integers, hash) ==
    LET sorted == IF integers THEN integer_sort(A, 0).out ELSE sample_sort(A, TRUE, TRUE, hash)
        starts == RunStarts(sorted)
    IN [i \in Indices(starts) |->
          [key |-> sorted[starts[i]].key, val |-> Run(sorted, starts, i)]]

reduce_by_index(A, buckets, hash, hk) == collect_reduce(A, Helper("values"), buckets, hash, hk)
histogram_by_index(A, buckets, hash, hk) ==
    collect_reduce(A, Helper("count"), buckets, hash, hk)
remove_duplicate_integers(A, max_value, hash, hk) ==
    pack([k \in 0 .. max_value - 1 |-> k],
         collect_reduce(A, Helper("flag"), max_value, hash, hk), FALSE)

group_by_index_(A, buckets, hash, hk) ==
    IF Size(A) > buckets * buckets
    THEN group_by_small_int(A, [i \in Indices(A) |-> A[i].key], buckets)
    ELSE collect_reduce(A, Helper("lists"), buckets, hash, hk)

\* The runs of the sorted sequence go to the places of their keys.
group_by_index(A, buckets) ==
    LET sorted == integer_sort(A, log2_up(buckets)).out
        starts == RunStarts(sorted)
    IN IF Size(A) > buckets * buckets
       THEN group_by_small_int(A, [i \in Indices(A) |-> A[i].key], buckets)
       ELSE Overwritten([k \in 0 .. buckets - 1 |-> <<>>],
              [i \in Indices(starts) |->
                 {Write(sorted[starts[i]].key, Run(sorted, starts, i))}])
=============================================================================
