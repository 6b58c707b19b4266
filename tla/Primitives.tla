----------------------------- MODULE Primitives -----------------------------
(* parlay/primitives.h and random.h: the algorithms a user calls. Positions   *)
(* stand for iterators, the size of the range for its end. Junk is what an    *)
(* algorithm gives that has read outside of its range, or never returns.      *)
EXTENDS Grouping, Delayed

CONSTANTS
    FindGrain,       \* granularity of find_if_index
    LexGrain,        \* size from which operator< compares in parallel
    KthSeq,          \* the 1000 below which kth_smallest sorts
    KthPivots,       \* its 31 pivots; one less than a power of two
    TokensSeq,       \* the 2000 characters below which tokens takes the simple way
    ShuffleSeq,      \* SEQ_THRESHOLD of random_shuffle_
    ShuffleBits

Equal(x, y) == x.key = y.key

-----------------------------------------------------------------------------
(* Counting and finding                                                       *)

\* p is a function on 0 .. n-1.
count_if_index(n, p) ==
    reduce(M("plus"), [i \in 0 .. n - 1 |-> IF p[i] THEN 1 ELSE 0], FALSE)

\* What the finders of a stretch leave in result: they take the minimum. Were
\* they only to store what they find, the last one to do so would win.
LastFound(n, found) == IF found = {} THEN n ELSE Greatest(found)
FirstFound(n, found) == Least({n} \cup found)

\* A first stretch one by one, then in parallel, twice as many each time.
find_if_index(n, p) ==
    LET first == FirstOf(Smaller(FindGrain, n), LAMBDA i : p[i])
        RECURSIVE Search(_, _)
        Search(start, size) ==
            LET end == Smaller(n, start + size)
                result == FirstFound(n, {j \in start .. end - 1 : p[j]})
            IN IF start >= n THEN n
               ELSE IF result < n THEN result
               ELSE Search(start + size, 2 * size)
    IN IF first < Smaller(FindGrain, n) THEN first ELSE Search(FindGrain, 2 * FindGrain)

count_if(A, P) == count_if_index(Size(A), [i \in Indices(A) |-> A[i] \in P])
all_of(A, P) == count_if(A, P) = Size(A)
any_of(A, P) == count_if(A, P) > 1
none_of(A, P) == count_if(A, P) = 0

find_if(A, P) == find_if_index(Size(A), [i \in Indices(A) |-> A[i] \in P])
find(A, v) == find_if(A, {x \in Range(A) : x.key = v})
find_if_not(A, P) == find_if_index(Size(A), [i \in Indices(A) |-> A[i] \notin P])
find_first_of(A, B) ==
    find_if_index(Size(A), [i \in Indices(A) |->
                              find_if(B, {x \in Range(B) : Equal(x, A[i])}) # Size(B)])

\* Size(A) - 1 wraps around when A is empty.
adjacent_find(A) ==
    LET idx == find_if_index(Size(A) - 1, [i \in Indices(A) |-> Equal(A[i], A[i + 1])])
    IN IF Size(A) = 0 THEN Junk
       ELSE IF idx = Size(A) - 1 THEN Size(A) ELSE idx

mismatch(A, B) ==
    find_if_index(Smaller(Size(A), Size(B)), [i \in Indices(A) |-> ~ Equal(A[i], B[i])])

MatchesAt(A, B, i) == \A j \in Indices(B) : Equal(A[i + j], B[j])
search(A, B) ==
    find_if_index(Size(A), [i \in Indices(A) |->
                              i + Size(B) <= Size(A) /\ MatchesAt(A, B, i)])

\* From the back; n1 - n2 + 1 wraps around when B is longer by two or more.
find_end(A, B) ==
    LET n1 == Size(A)
        n2 == Size(B)
        idx == find_if_index(n1 - n2 + 1, [i \in 0 .. n1 - n2 |-> MatchesAt(A, B, n1 - i - n2)])
    IN IF n2 = 0 THEN n1
       ELSE IF n2 > n1 + 1 THEN Junk
       ELSE IF idx = n1 - n2 + 1 THEN n1 ELSE n1 - idx - n2

equal(A, B) ==
    /\ Size(A) = Size(B)
    /\ find_if_index(Size(A), [i \in Indices(A) |-> ~ Equal(A[i], B[i])]) = Size(A)

lexicographical_compare(A, B) ==
    LET m == Smaller(Size(A), Size(B))
        i == find_if_index(m, [j \in Indices(A) |-> Less(A[j], B[j]) \/ Less(B[j], A[j])])
    IN IF i < m THEN Less(A[i], B[i]) ELSE Size(A) < Size(B)

\* operator< of sequences.
sequence_less(A, B) ==
    LET m == Smaller(Size(A), Size(B))
        s == FirstOf(m, LAMBDA j : ~ Equal(A[j], B[j]))
    IN IF Size(A) > LexGrain THEN lexicographical_compare(A, B)
       ELSE IF s = m THEN Size(A) < Size(B) ELSE Less(A[s], B[s])

unique(A) == pack(A, [i \in Indices(A) |-> i = 0 \/ ~ Equal(A[i], A[i - 1])], FALSE)

-----------------------------------------------------------------------------
(* Extremes: reductions over positions, that of no element being n.           *)

\* internal::reduce with a monoid of the caller; f is never given n.
ReducePositions(n, f) ==
    LET fold(B) == Fold(LAMBDA l, r : f[l, r], B[0], Cut(B, 1, Size(B)))
        RECURSIVE Reduced(_)
        Reduced(P) ==
            LET size == Greater(BlockSize, SqrtFactor * CeilSqrt(Size(P)))
            IN IF Size(P) <= size THEN fold(P) ELSE Reduced(EachBlock(P, size, fold))
    IN IF n = 0 THEN n ELSE Reduced([i \in 0 .. n - 1 |-> i])

\* comp is a relation: the pairs of which the first is less.
min_element_by(A, comp) ==
    ReducePositions(Size(A), [l, r \in Indices(A) |-> IF <<A[r], A[l]>> \in comp THEN r ELSE l])
Ascending(A) == {p \in Range(A) \X Range(A) : Less(p[1], p[2])}
min_element(A) == min_element_by(A, Ascending(A))
max_element(A) == min_element_by(A, {p \in Range(A) \X Range(A) : Less(p[2], p[1])})
minmax_element(A) ==
    <<min_element(A),
      ReducePositions(Size(A), [l, r \in Indices(A) |-> IF Less(A[l], A[r]) THEN r ELSE l])>>

-----------------------------------------------------------------------------
(* Permutations, tests of order, removal                                      *)

reverse(A) == [i \in Indices(A) |-> A[Size(A) - i - 1]]
\* Each iteration of the first half swaps two cells of its own.
reverse_inplace(A) ==
    LET n == Size(A)
    IN Overwritten(A, [i \in 0 .. n \div 2 - 1 |->
                         {Write(i, A[n - i - 1]), Write(n - i - 1, A[i])}])
rotate(A, t) ==
    LET n == Size(A) IN [i \in 0 .. n - 1 |-> A[IF i + t < n THEN i + t ELSE i + t - n]]

is_sorted(A) ==
    Size(A) = 0 \/
    ~ reduce(M("logical_or"), [i \in 0 .. Size(A) - 2 |-> Less(A[i + 1], A[i])], FALSE)
is_sorted_until(A) ==
    IF Size(A) = 0 THEN 0
    ELSE find_if_index(Size(A) - 1, [i \in Indices(A) |-> Less(A[i + 1], A[i])]) + 1
is_partitioned(A, F) ==
    LET n == Size(A)
        d == find_if_not(A, F)
    IN \/ d = n
       \/ find_if_index(n - d - 1, [i \in 0 .. n - d - 2 |-> A[d + 1 + i] \in F]) = n - d - 1

remove_if(A, P) == pack(A, [i \in Indices(A) |-> A[i] \notin P], FALSE)
remove(A, v) == remove_if(A, {x \in Range(A) : x.key = v})
append(A, B) ==
    [i \in 0 .. Size(A) + Size(B) - 1 |-> IF i < Size(A) THEN A[i] ELSE B[i - Size(A)]]
iota(n) == [i \in 0 .. n - 1 |-> i]
remove_duplicates_ordered(A, wide, hash) == unique(sample_sort(A, TRUE, wide, hash))

-----------------------------------------------------------------------------
(* Tokens and splits. Space is the set of the characters that are space.      *)

\* The borders between space and tokens, two for each token.
map_tokens_small(A, Space) ==
    LET n == Size(A)
        border(i) == IF i = 0 THEN A[0] \notin Space ELSE IF i = n THEN A[n - 1] \notin Space
                     ELSE (A[i - 1] \in Space) # (A[i] \in Space)
        at == to_sequence(filter_op_view(AView(iota(n + 1)),
                             [i \in 0 .. n |-> IF border(i) THEN <<i>> ELSE <<>>]))
    IN IF n = 0 THEN <<>>
       ELSE [i \in 0 .. Size(at) \div 2 - 1 |-> Cut(A, at[2 * i], at[2 * i + 1])]

\* At each token's end the scan of the starts gives its number and beginning.
map_tokens(A, Space) ==
    LET n == Size(A)
        starts(i) == (i = 0 \/ A[i - 1] \in Space) /\ i # n /\ A[i] \notin Space
        ends(i) == (i = n \/ A[i] \in Space) /\ i # 0 /\ A[i - 1] \notin Space
        offsets == scan_view(M("starts"),
                             AView([i \in 0 .. n |-> IF starts(i) THEN <<1, i>> ELSE <<0, 0>>]),
                             FALSE)
        z == zip_view(offsets, AView(iota(n + 1)))
    IN IF n = 0 THEN <<>>
       ELSE Stored(offsets.total[1],
                   apply(z, [x \in ((0 .. n) \X (0 .. n)) \X (0 .. n) |->
                               IF ends(x[2])
                               THEN {Write(x[1][1] - 1, Cut(A, x[1][2], x[2]))}
                               ELSE {}]))

tokens(A, Space) ==
    IF Size(A) < TokensSeq THEN map_tokens_small(A, Space) ELSE map_tokens(A, Space)

\* Each flag ends a part, and the last part is what remains.
split_at(A, Fl) ==
    LET at == pack_index(Fl, FALSE)
        m == Size(at)
    IN [i \in 0 .. m |-> Cut(A, IF i = 0 THEN 0 ELSE at[i - 1] + 1,
                                IF i = m THEN Size(A) ELSE at[i] + 1)]

map_maybe(v, f) == to_sequence(map_maybe_view(v, f))
zip(v, w) == to_sequence(zip_view(v, w))

-----------------------------------------------------------------------------
(* Ranks                                                                      *)

\* The position of each element in the stably sorted range.
rank(A) ==
    LET position == merge_sort_inplace([i \in Indices(A) |-> [key |-> A[i].key, tag |-> i]])
    IN Stored(Size(A), [i \in Indices(A) |-> {Write(position[i].tag, i)}])

\* Keep the bucket between two pivots that holds the k-th, and look there. A
\* bucket that is the whole range comes back the same for ever.
RECURSIVE kth_smallest(_, _, _)
kth_smallest(A, k, hash) ==
    LET n == Size(A)
        over == 2
        sampled == sample_sort([i \in 0 .. KthPivots * over - 1 |-> A[hash[i] % n]],
                               FALSE, TRUE, hash)
        pivots == [i \in 0 .. KthPivots - 1 |-> sampled[i * over]]
        ids == [i \in 0 .. n - 1 |-> heap_rank(pivots, A[i])]
        offsets == Offsets(histogram_by_index([i \in 0 .. n - 1 |-> [key |-> ids[i], tag |-> i]],
                                              KthPivots + 1, hash, hash)).out
        id == RangeAt(offsets, k)
        next == pack(A, [i \in 0 .. n - 1 |-> ids[i] = id], FALSE)
    IN IF n <= KthSeq THEN sample_sort(A, FALSE, TRUE, hash)[k]
       ELSE IF Size(next) = n THEN Junk
       ELSE kth_smallest(next, k - offsets[id], hash)

-----------------------------------------------------------------------------
(* random.h: rand[i] is the i-th number of a generator, forked[b] the         *)
(* generator of bucket b.                                                     *)

\* The Knuth shuffle, from the back.
seq_random_shuffle_(A, rand) ==
    FoldLeft(LAMBDA B, i : Swapped(B, i, rand[i] % (i + 1)), A,
             [i \in 1 .. Size(A) - 1 |-> Size(A) - i])

\* A counting sort by random bucket, then a shuffle of each bucket.
random_shuffle(A, rand, forked) ==
    LET n == Size(A)
        buckets == 2 ^ ShuffleBits
        sorted == count_sort(A, [i \in 0 .. n - 1 |-> rand[i] % buckets], buckets)
    IN IF n < ShuffleSeq THEN seq_random_shuffle_(A, rand)
       ELSE Fold(Joined, <<>>, [b \in 0 .. buckets - 1 |->
              seq_random_shuffle_(Cut(sorted.out, sorted.offsets[b], sorted.offsets[b + 1]),
                                  forked)])
random_permutation(n, rand, forked) == random_shuffle(iota(n), rand, forked)
=============================================================================
