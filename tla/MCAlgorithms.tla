---------------------------- MODULE MCAlgorithms ----------------------------
(* The algorithms of parlay on every small input, with all their thresholds   *)
(* scaled down so that such inputs take the parallel paths. A behaviour is    *)
(* one call: the input is chosen first, then the algorithm and what it is     *)
(* given besides; the answer is compared with a definition that knows nothing *)
(* of blocks, buckets or pivots.                                              *)
EXTENDS Primitives

CONSTANTS
    MaxLen, Keys, MaxFew, FewKeys,
    Parlay(_, _, _)  \* what the library answers: family of algorithms, argument, input
VARIABLES input, call, answer
vars == <<input, call, answer>>

ArraysOver(len, keys) ==
    {[i \in 0 .. len - 1 |-> [key |-> f[i], tag |-> i]] : f \in [0 .. len - 1 -> keys]}
Inputs == UNION {ArraysOver(n, Keys) : n \in 0 .. MaxLen}
            \cup UNION {ArraysOver(n, FewKeys) : n \in 0 .. MaxFew}

\* The random numbers of three generators.
Draws == 0 .. 19
Hash == <<[i \in Draws |-> i], [i \in Draws |-> 5 * i + 3], [i \in Draws |-> (i * i) \div 2]>>

KeysAt(A) == [i \in Indices(A) |-> A[i].key]
TagsOf(A) == [i \in Indices(A) |-> <<A[i].tag>>]
FlagsOf(A) == [i \in Indices(A) |-> A[i].key # 1]
Ones == {x \in [key : Keys, tag : Nat] : x.key = 1}
Space == {x \in [key : Keys, tag : Nat] : x.key = 0}

\* A as a nested array: every space ends one of its ranges.
NestOf(A) == split_at(A, [i \in Indices(A) |-> A[i] \in Space])

-----------------------------------------------------------------------------
(* What the algorithms promise.                                               *)

Word(A) == FoldLeft(LAMBDA r, x : r \o x, <<>>, Listed(A))
Before(A, i) == Word(Cut(A, 0, i))
At(S) == [i \in 0 .. Cardinality(S) - 1 |->
            CHOOSE x \in S : Cardinality({y \in S : y < x}) = i]
\* The elements at the positions in S, in order.
Those(A, S) == LET p == At(S) IN [i \in Indices(p) |-> A[p[i]]]
Where(A, P(_)) == {i \in Indices(A) : P(A[i])}

\* Where a stable sort puts the element at i.
Rank(A, i) == Cardinality({j \in Indices(A) : \/ Less(A[j], A[i])
                                              \/ j < i /\ Equal(A[j], A[i])})
Stable(A) == [p \in Indices(A) |-> A[CHOOSE i \in Indices(A) : Rank(A, i) = p]]
KeysOf(A) == {A[i].key : i \in Indices(A)}
OfKey(A, k) == Those(A, Where(A, LAMBDA x : x.key = k))
ValuesOf(A, k) == Listed([i \in Indices(OfKey(A, k)) |-> OfKey(A, k)[i].tag])

\* The tokens start where a space or the beginning precedes what is no space.
TokensOf(A) ==
    LET starts == {i \in Indices(A) : A[i] \notin Space /\ (i = 0 \/ A[i - 1] \in Space)}
        end(s) == Least({Size(A)} \cup {i \in s .. Size(A) - 1 : A[i] \in Space})
    IN [t \in 0 .. Cardinality(starts) - 1 |-> Cut(A, At(starts)[t], end(At(starts)[t]))]
Flattened(R) == Array(Word([i \in Indices(R) |-> Listed(R[i])]))

-----------------------------------------------------------------------------
(* The calls that are made of the modelled algorithms on In, whose results    *)
(* the configuration takes for the library's.                                 *)

KeyHash == <<[k \in 0 .. 2 |-> k], [k \in 0 .. 2 |-> 0], [k \in 0 .. 2 |-> 5 - 2 * k]>>

MCParlay(family, arg, In) ==
    LET N == Size(In)
        K == KeysAt(In)
        Tags == TagsOf(In)
        Flag == FlagsOf(In)
        Nest == NestOf(In)
        \* seq is the flag fl_sequential.
        blocks(seq) ==
            [reduced |-> reduce(M("concat"), Tags, seq),
             scanned |-> scan_(M("concat"), Tags, FALSE, seq),
             inclusive |-> scan_(M("concat"), Tags, TRUE, seq),
             packs |-> {pack(In, Flag, seq), pack_out(In, Flag, seq), remove(In, 1),
                        filter(In, Range(In) \ Ones), filter_out(In, Range(In) \ Ones)},
             index |-> pack_index(Flag, seq),
             two |-> split_two(In, Flag),
             three |-> split_three(In, K),
             flat |-> flatten(Nest),
             reversed |-> {reverse(In), reverse_inplace(In)},
             extremes |-> <<reduce(M("minimum"), K, FALSE), reduce(M("maximum"), K, FALSE)>>,
             both |-> reduce(M("minmaxm"), [i \in DOMAIN K |-> <<K[i], K[i]>>], FALSE),
             at |-> <<minmax_element(In), max_element(In)>>,
             logical |-> <<reduce(M("logical_and"), Flag, FALSE),
                           reduce(M("logical_or"), Flag, FALSE)>>,
             words |-> [k \in {"bit_or", "bit_and", "bit_xor"} |->
                          reduce(M(k), [i \in DOMAIN K |-> {K[i]}], FALSE)],
             product |-> reduce(M("multiplies"), K, FALSE)]
        \* In the part before c, and of the part after it in that one. The sound
        \* calls are right for every input, the others for most: see SearchesAgree.
        searches(c) ==
            LET A == Cut(In, 0, c)
                B == Cut(In, c, N)
                SA == Stable(A)
                sound ==
                  [counted |-> count_if(A, Ones),
                   quantified |-> <<all_of(A, Ones), none_of(A, Ones)>>,
                   found |-> <<find(A, 1), find_if_not(A, Ones), find_first_of(A, B)>>,
                   mismatched |-> mismatch(A, B),
                   searched |-> search(A, B),
                   compared |-> <<equal(A, B), lexicographical_compare(A, B), sequence_less(A, B)>>,
                   unique |-> unique(A),
                   ordered |-> <<is_sorted(A), is_sorted_until(A), is_partitioned(A, Ones)>>,
                   rotated |-> rotate(In, c),
                   appended |-> append(A, B),
                   tokens |-> {tokens(A, Space), map_tokens_small(A, Space), map_tokens(A, Space)},
                   parts |-> split_at(A, [i \in Indices(A) |-> A[i] \in Ones]),
                   nearest |-> {SearchIn(SA, B[i], 0, c) : i \in Indices(B)}]
            IN [sound |-> sound, any |-> any_of(A, Ones), adjacent |-> adjacent_find(A),
                last |-> find_end(A, B), ranks |-> rank(A)]
        \* h picks the random numbers samples are drawn by.
        sorts(h) ==
            LET c == N \div h
                r == Hash[h]
            IN [stable |-> {merge_sort(In), sample_sort(In, TRUE, TRUE, r),
                            sample_sort(In, TRUE, FALSE, r), bucket_sort(In, TRUE, r)},
                unstable |-> {quicksort(In, r), p_quicksort_inplace(In, r),
                              p_quicksort_(In, FALSE, r), bucket_sort(In, FALSE, r),
                              sample_sort(In, FALSE, TRUE, r), sample_sort(In, FALSE, FALSE, r),
                              sample_sort_inplace(In, TRUE, r), sample_sort_inplace(In, FALSE, r)},
                merged |-> merge(Stable(Cut(In, 0, c)), Stable(Cut(In, c, N))),
                memory |-> merge_sort_(In, Empty(N), FALSE),
                distinct |-> remove_duplicates_ordered(In, FALSE, r),
                kth |-> IF N = 0 THEN Junk ELSE kth_smallest(In, c % N, r)]
        \* By as many bits, or with 0 by those of the largest key. The shuffle
        \* scatters its elements by such a sort.
        integers(bits) ==
            [copied |-> integer_sort(In, bits), inplace |-> integer_sort_inplace(In, bits),
             counted |-> count_sort(In, K, 3), back |-> count_sort_inplace(In, K, 3),
             buckets |-> group_by_small_int(In, K, 3),
             halves |-> group_by_small_int(In, [i \in Indices(K) |-> Smaller(K[i], 1)], 2),
             tallied |-> integer_sort_with_counts(In, 3),
             shuffles |-> {random_shuffle(In, Hash[i], Hash[bits + 1]) : i \in DOMAIN Hash},
             permutation |-> random_permutation(N, Hash[1], Hash[bits + 1])]
        \* r draws the sample, hk hashes the keys.
        groups(h, g) ==
            LET r == Hash[h]
                hk == KeyHash[g]
            IN [summed |-> reduce_by_key(In, r, hk), listed |-> group_by_key(In, r, hk),
                counted |-> histogram_by_key(In, r, hk), distinct |-> remove_duplicates(In, r, hk),
                ordered |-> {group_by_key_ordered(In, TRUE, r), group_by_key_ordered(In, FALSE, r)},
                sums |-> [b \in {3, 5} |-> reduce_by_index(In, b, r, hk)],
                counts |-> [b \in {3, 5} |-> histogram_by_index(In, b, r, hk)],
                lists |-> [b \in {2, 5} |-> IF KeysOf(In) \subseteq 0 .. b - 1
                                            THEN group_by_index(In, b) ELSE Junk],
                lists_ |-> group_by_index_(In, 5, r, hk),
                integers |-> remove_duplicate_integers(In, 5, r, hk)]
        \* The elements from c on are those a filter keeps.
        views(c) ==
            LET T == AView(Tags)
                before == scan_view(M("concat"), T, FALSE)
                upto == scan_view(M("concat"), T, TRUE)
                sums == Range(to_sequence(upto))
                late == {x \in Range(Tags) : x[1] >= c}
                maybe == [x \in Range(In) |-> IF x.tag >= c THEN <<<<x.tag>>>> ELSE <<>>]
                flat == flatten_view(filter_view(AView(Nest), {r \in Range(Nest) : Size(r) > c % 2}))
                B == make_iterators(Tags)
                S == bd_scan(M("concat"), B, FALSE)
                D == delayed_sequence(c, N, Tags)
            IN [scans |-> <<to_sequence(before), to_sequence(upto)>>,
                total |-> <<before.total, reduce_view(M("concat"), T)>>,
                mapped |-> to_sequence(map_view(before, Op("wrap"))),
                twice |-> to_sequence(scan_view(M("concat"), before, FALSE)),
                summed |-> reduce_view(M("concat"), upto),
                zipped |-> {zip(AView(K), before), to_sequence(zip_view(AView(K), before))},
                written |-> Overwritten(Tags, apply(zip_view(AView(iota(N)), upto),
                              [x \in (0 .. N - 1) \X sums |-> {Write(N - 1 - x[1], x[2])}])),
                filtered |-> {to_sequence(filter_view(T, late)), map_maybe(AView(In), maybe),
                              to_sequence(filter_op_view(AView(In), maybe))},
                longer |-> to_sequence(filter_view(upto, {x \in sums : Len(x) > c})),
                flat |-> {to_sequence(flatten_view(AView(Nest))),
                          to_sequence(flatten_copy(AView(Nest)))},
                deep |-> IF flat.wild THEN Junk ELSE to_sequence(flat),
                older |-> [scans |-> <<force(S.seq), force(bd_scan(M("concat"), B, TRUE).seq)>>,
                           total |-> <<S.total, bd_reduce(M("concat"), B)>>,
                           mapped |-> force(bd_map(S.seq, [x \in Yield(S.seq) |-> <<x>>])),
                           twice |-> force(bd_scan(M("concat"), S.seq, FALSE).seq),
                           zipped |-> force(bd_zip(make_iterators(K), S.seq)),
                           written |-> Stored(N, bd_apply(make_iterators(In),
                                         [x \in Range(In) |-> {Write(x.tag, <<x.tag>>)}])),
                           filtered |-> {bd_filter(B, late),
                                         force(bd_filter_op(B, late, [x \in late |-> x])),
                                         force(bd_filter_op2(make_iterators(In), maybe))},
                           flat |-> force(bd_flatten(Nest))],
                delayed |-> <<Elements(D),
                              IF c = N THEN Junk ELSE <<delayed_front(D), delayed_back(D)>>,
                              [i \in 0 .. N |-> delayed_at(D, i)]>>]
    IN CASE family = "blocks"   -> blocks(arg)
         [] family = "searches" -> searches(arg)
         [] family = "sorts"    -> sorts(arg)
         [] family = "integers" -> integers(arg)
         [] family = "groups"   -> groups(arg[1], arg[2])
         [] family = "views"    -> views(arg)

-----------------------------------------------------------------------------
Init == input \in Inputs /\ call = [family |-> "none", arg |-> 0] /\ answer = Junk

Call(family, arg) ==
    /\ call.family = "none"
    /\ call' = [family |-> family, arg |-> arg]
    /\ answer' = Parlay(family, arg, input)
    /\ UNCHANGED input

N == Size(input)
Blocks           == \E seq \in BOOLEAN : Call("blocks", seq)
Searches         == \E c \in 0 .. N : Call("searches", c)
ComparisonSorts  == \E h \in DOMAIN Hash : Call("sorts", h)
SortsOfIntegers  == \E bits \in {0, 2} : Call("integers", bits)
Groups           == \E h \in DOMAIN Hash, g \in DOMAIN KeyHash : Call("groups", <<h, g>>)
Views            == \E c \in 0 .. N : Call("views", c)
Next == Blocks \/ Searches \/ ComparisonSorts \/ SortsOfIntegers \/ Groups \/ Views

\* Every block-based operation gives what a loop over the whole input gives:
\* the blocks' results are combined in order, no element is written twice, to
\* another's place or not at all, and a stable split is one.
BlocksAgree ==
    call.family = "blocks" =>
      LET K == KeysAt(input)
          Tags == TagsOf(input)
          Flag == FlagsOf(input)
          kept == Those(input, Where(input, LAMBDA x : x.key # 1))
          class(S) == Where(input, LAMBDA x : x.key \in S)
          split(c0, c1, c2) ==
             Joined(Those(input, c0), Joined(Those(input, c1), Those(input, c2)))
          first(k) == Least(Where(input, LAMBDA x : x.key = k) \cup {N})
          lo == Least(KeysOf(input) \cup {Highest})
          hi == Greatest(KeysOf(input) \cup {Lowest})
          odd(k) == Count(K, LAMBDA x : x = k) % 2 = 1
      IN answer =
         [reduced |-> Word(Tags),
          scanned |-> [out |-> [i \in Indices(input) |-> Before(Tags, i)], total |-> Word(Tags)],
          inclusive |-> [out |-> [i \in Indices(input) |-> Before(Tags, i + 1)],
                         total |-> Word(Tags)],
          packs |-> {kept},
          index |-> At(Where(Flag, LAMBDA b : b)),
          two |-> [out |-> split(class({1}), class({0, 2}), {}), m |-> Cardinality(class({1}))],
          three |-> [out |-> split(class({0}), class({1}), class({2})),
                     m0 |-> Cardinality(class({0})), m1 |-> Cardinality(class({1}))],
          flat |-> input,
          reversed |-> {Reversed(input)},
          extremes |-> <<lo, hi>>,
          both |-> <<lo, hi>>,
          at |-> <<IF N = 0 THEN <<0, 0>> ELSE <<first(lo), first(hi)>>,
                   IF N = 0 THEN 0 ELSE first(hi)>>,
          logical |-> <<\A i \in Indices(input) : Flag[i], \E i \in Indices(input) : Flag[i]>>,
          words |-> [k \in {"bit_or", "bit_and", "bit_xor"} |->
                       CASE k = "bit_or" -> KeysOf(input)
                         [] k = "bit_and" -> {b \in Bits : KeysOf(input) \subseteq {b}}
                         [] k = "bit_xor" -> {b \in Bits : odd(b)}],
          product |-> IF 0 \in KeysOf(input) THEN 0 ELSE 2 ^ Count(K, LAMBDA x : x = 2)]

-----------------------------------------------------------------------------
\* A parallel search gives the first place, or the last where that is asked,
\* however the blocks are searched; comparisons look at every position; tokens
\* and parts are whole, in order and none is missing. Four calls have inputs on
\* which they do not keep their promise, and are not held to it there: any_of
\* with a single hit, adjacent_find of nothing, find_end of a pattern longer by
\* two or more, and rank, whose comment defines it as the number of elements that
\* compare less: an element with equal ones before it gets one more than the last
\* of those.
SearchesAgree ==
    call.family = "searches" =>
      LET c == call.arg
          A == Cut(input, 0, c)
          B == Cut(input, c, N)
          first(S) == Least(S \cup {c})
          differ == {i \in 0 .. Smaller(c, N - c) - 1 : ~ Equal(A[i], B[i])}
          matches == {i \in 0 .. c - 1 : i + Size(B) <= c /\ MatchesAt(A, B, i)}
          d == Least(differ \cup {Smaller(c, N - c)})
          less == IF differ = {} THEN c < N - c ELSE Less(A[d], B[d])
          drops == {i \in 1 .. c - 1 : Less(A[i], A[i - 1])}
          ones == Where(A, LAMBDA x : x \in Ones)
          ends == At(ones \cup {c})
          equals(i) == {j \in 0 .. i - 1 : Equal(A[j], A[i])}
      IN
      /\ Cardinality(ones) # 1 => (answer.any <=> ones # {})
      /\ c > 0 => answer.adjacent = first({i \in 0 .. c - 2 : Equal(A[i], A[i + 1])})
      /\ Size(B) <= c + 1 =>
           answer.last = IF Size(B) = 0 \/ matches = {} THEN c ELSE Greatest(matches)
      /\ \A i \in Indices(A) :
           answer.ranks[i] = IF equals(i) = {} THEN Count(A, LAMBDA y : Less(y, A[i]))
                             ELSE answer.ranks[Greatest(equals(i))] + 1
      /\ answer.sound =
         [counted |-> Cardinality(ones),
          quantified |-> <<Cardinality(ones) = c, ones = {}>>,
          found |-> <<first(ones), first(Indices(A) \ ones),
                      first({i \in Indices(A) : A[i].key \in KeysOf(B)})>>,
          mismatched |-> d,
          searched |-> first(matches),
          compared |-> <<differ = {} /\ c = N - c, less, less>>,
          unique |-> Those(A, {i \in Indices(A) : i = 0 \/ ~ Equal(A[i], A[i - 1])}),
          ordered |-> <<drops = {}, first(drops), ones = 0 .. Cardinality(ones) - 1>>,
          rotated |-> Joined(B, A),
          appended |-> input,
          tokens |-> {TokensOf(A)},
          parts |-> [i \in Indices(ends) |->
                       Cut(A, IF i = 0 THEN 0 ELSE ends[i - 1] + 1, Smaller(ends[i] + 1, c))],
          nearest |-> {Count(A, LAMBDA y : Less(y, B[i])) : i \in Indices(B)}]

-----------------------------------------------------------------------------
SortedBy(A, B) == SameElements(A, B) /\ Ordered(B, Less)

\* Every sort returns the input's elements in order, and a stable one keeps
\* equal elements in theirs; no element is lost, doubled or left behind in
\* scratch memory, whatever the samples were.
SortsAgree ==
    call.family = "sorts" =>
      LET sorted == Stable(input)
          c == N \div call.arg
      IN /\ answer.stable = {sorted}
         /\ \A B \in answer.unstable : SortedBy(input, B)
         /\ answer.merged = sorted
         /\ answer.memory = [in |-> Empty(N), out |-> sorted]
         /\ answer.distinct = Those(sorted, {i \in Indices(sorted) :
                                               i = 0 \/ ~ Equal(sorted[i], sorted[i - 1])})
         /\ answer.kth # Junk => answer.kth.key = sorted[c % N].key

-----------------------------------------------------------------------------
\* Every element is moved exactly once per pass and ends in the array the
\* caller is given, sorted stably; the copied-from input still has all of its
\* elements, and scratch memory has none. The offsets are where buckets begin.
ElementsMove ==
    call.family = "integers" =>
      LET sorted == Stable(input)
          offsets == [k \in 0 .. 3 |-> Count(input, LAMBDA x : x.key < k)]
          half(S) == Those(input, Where(input, LAMBDA x : x.key \in S))
      IN /\ answer.copied = [in |-> input, out |-> sorted, tmp |-> Empty(N)]
         /\ answer.inplace.in = sorted /\ answer.inplace.out = Empty(N)
         /\ answer.counted = [out |-> sorted, offsets |-> offsets, in |-> input]
         /\ answer.back.in = sorted /\ answer.back.offsets = offsets
         /\ answer.buckets = [k \in 0 .. 2 |-> half({k})]
         /\ answer.halves = [k \in 0 .. 1 |-> IF k = 0 THEN half({0}) ELSE half({1, 2})]
         /\ answer.tallied = [out |-> sorted, counts |-> [k \in 0 .. 2 |-> Size(OfKey(input, k))]]
         /\ \A S \in answer.shuffles : SameElements(input, S)
         /\ SameElements(iota(N), answer.permutation)

-----------------------------------------------------------------------------
\* Equal keys are brought together however they were sampled and hashed: each
\* key has one result, which combines all of its values, in their order, once.
GroupsAgree ==
    call.family = "groups" =>
      LET result(S, val(_)) ==
             /\ Size(S) = Cardinality(KeysOf(input))
             /\ {S[i] : i \in Indices(S)} = {[key |-> k, val |-> val(k)] : k \in KeysOf(input)}
          values(k) == ValuesOf(input, k)
          number(k) == Size(OfKey(input, k))
          keys == At(KeysOf(input))
      IN /\ result(answer.summed, values) /\ result(answer.listed, values)
         /\ result(answer.counted, number)
         /\ SameElements(answer.distinct, keys)
         /\ answer.ordered = {[i \in Indices(keys) |-> [key |-> keys[i], val |-> OfKey(input, keys[i])]]}
         /\ \A b \in {3, 5} : /\ answer.sums[b] = [k \in 0 .. b - 1 |-> values(k)]
                              /\ answer.counts[b] = [k \in 0 .. b - 1 |-> number(k)]
         /\ \A b \in {2, 5} : answer.lists[b] # Junk =>
                                 answer.lists[b] = [k \in 0 .. b - 1 |-> OfKey(input, k)]
         /\ answer.lists_ = [k \in 0 .. 4 |-> values(k)]
         /\ answer.integers = keys

-----------------------------------------------------------------------------

=============================================================================
