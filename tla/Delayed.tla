------------------------------ MODULE Delayed ------------------------------
(* parlay/internal/delayed/: views that compute their elements while they are *)
(* read. A view of more than arrays is block-iterable: it can only be entered *)
(* at the start of a block and read onwards, so each view must know, for each *)
(* of its blocks, the iterator from which its own elements are reached. A     *)
(* view is a record of its kind, what it is over, and what its constructor    *)
(* computed; the iterators of each kind are those of the code.                *)
EXTENDS SequenceOps

CONSTANT ViewBlock      \* block_size of delayed/common.h

NoInner == -1           \* the value-initialized inner iterator

AView(A) == [kind |-> "array", data |-> A]

\* An element function of the caller: "wrap" is the free one, "size" and "at"
\* the two the library maps itself.
Op(kind) == [kind |-> kind]

(* Random-access views. delayed_map and delayed_tabulate give delayed         *)
(* sequences, whose iterators are indices.                                    *)
RECURSIVE RandomAccess(_)
RandomAccess(v) ==
    CASE v.kind = "array" -> TRUE
      [] v.kind = "map" -> RandomAccess(v.base)
      [] v.kind = "zip" -> RandomAccess(v.left) /\ RandomAccess(v.right)
      [] OTHER -> FALSE

RECURSIVE ViewSize(_)
ViewSize(v) ==
    CASE v.kind = "array" -> Size(v.data)
      [] v.kind \in {"map", "scan"} -> ViewSize(v.base)
      [] v.kind = "zip" -> Smaller(ViewSize(v.left), ViewSize(v.right))
      [] v.kind = "flatten" -> v.size

RECURSIVE NumBlocks(_)
NumBlocks(v) ==
    IF RandomAccess(v) \/ v.kind \in {"zip", "flatten"}
    THEN num_blocks(ViewSize(v), ViewBlock) ELSE NumBlocks(v.base)

\* get_begin_block; the end of block i is the begin of block i+1.
RECURSIVE BeginBlock(_, _)
BeginBlock(v, i) ==
    IF RandomAccess(v) THEN Smaller(i * ViewBlock, ViewSize(v))
    ELSE CASE v.kind = "map" -> BeginBlock(v.base, i)
           [] v.kind = "scan" ->
                [value |-> IF i \in DOMAIN v.sums THEN v.sums[i] ELSE Junk,
                 it |-> BeginBlock(v.base, i)]
           [] v.kind = "zip" ->
                [index |-> Smaller(i * ViewBlock, ViewSize(v)),
                 left |-> BeginBlock(v.left, i), right |-> BeginBlock(v.right, i)]
           [] v.kind = "flatten" ->
                [outer |-> v.outer_starts[i], inner |-> v.inner_starts[i]]
EndOf(v) == BeginBlock(v, NumBlocks(v))

RECURSIVE SameAt(_, _, _)
SameAt(v, x, y) ==
    IF RandomAccess(v) THEN x = y
    ELSE CASE v.kind = "map" -> SameAt(v.base, x, y)
           [] v.kind = "scan" -> SameAt(v.base, x.it, y.it)
           [] v.kind = "zip" -> x.index = y.index
           [] v.kind = "flatten" -> x.inner = y.inner /\ SameAt(v.base, x.outer, y.outer)

RECURSIVE Deref(_, _), Applied(_, _)
Deref(v, it) ==
    CASE v.kind = "array" -> IF it \in DOMAIN v.data THEN v.data[it] ELSE Junk
      [] v.kind = "map" -> Applied(v.op, Deref(v.base, it))
      [] v.kind = "scan" -> it.value
      [] v.kind = "zip" ->
           IF RandomAccess(v) THEN <<Deref(v.left, it), Deref(v.right, it)>>
           ELSE <<Deref(v.left, it.left), Deref(v.right, it.right)>>
      [] v.kind = "flatten" ->
           LET range == Deref(v.base, it.outer)
           IN IF it.inner \in DOMAIN range THEN range[it.inner] ELSE Junk
Applied(op, x) ==
    CASE op.kind = "wrap" -> <<x>>
      [] op.kind = "size" -> Size(x)
      [] op.kind = "at" -> Deref(op.of, x)

\* operator++. That of flatten goes on to the next range that is not empty.
RECURSIVE Step(_, _), Onward(_, _, _)
Step(v, it) ==
    IF RandomAccess(v) THEN it + 1
    ELSE CASE v.kind = "map" -> Step(v.base, it)
           [] v.kind = "scan" ->
                LET on == Step(v.base, it.it)
                IN [value |->
                      IF ~ v.inclusive THEN combine(v.monoid, it.value, Deref(v.base, it.it))
                      ELSE IF SameAt(v.base, on, EndOf(v.base)) THEN it.value
                      ELSE combine(v.monoid, it.value, Deref(v.base, on)),
                    it |-> on]
           [] v.kind = "zip" ->
                [index |-> it.index + 1,
                 left |-> Step(v.left, it.left), right |-> Step(v.right, it.right)]
           [] v.kind = "flatten" -> Onward(v, it.outer, it.inner + 1)
Onward(v, outer, inner) ==
    LET on == Step(v.base, outer)
    IN IF inner # Size(Deref(v.base, outer)) THEN [outer |-> outer, inner |-> inner]
       ELSE IF SameAt(v.base, on, EndOf(v.base)) THEN [outer |-> on, inner |-> NoInner]
       ELSE Onward(v, on, 0)

\* What is read from one iterator to another, as iterators; at most limit.
RECURSIVE Through(_, _, _, _)
Through(v, it, last, limit) ==
    IF limit = 0 \/ SameAt(v, it, last) THEN <<>>
    ELSE <<it>> \o Through(v, Step(v, it), last, limit - 1)
BlockIterators(v, i) == Through(v, BeginBlock(v, i), BeginBlock(v, i + 1), ViewSize(v) + 1)
BlockOf(v, i) ==
    LET its == BlockIterators(v, i) IN [k \in 0 .. Len(its) - 1 |-> Deref(v, its[k + 1])]
BlocksOf(v) == [i \in 0 .. NumBlocks(v) - 1 |-> BlockOf(v, i)]

-----------------------------------------------------------------------------
(* terminal.h                                                                 *)

to_sequence(v) ==
    IF RandomAccess(v) THEN [i \in 0 .. ViewSize(v) - 1 |-> Deref(v, i)]
    ELSE LET blocks == BlocksOf(v)
         IN Stored(ViewSize(v), [i \in DOMAIN blocks |->
                {Write(i * ViewBlock + k, blocks[i][k]) : k \in DOMAIN blocks[i]}])

reduce_view(m, v) ==
    IF RandomAccess(v) THEN reduce(m, to_sequence(v), FALSE)
    ELSE LET blocks == BlocksOf(v)
             sum(B) == Fold(LAMBDA r, x : combine(m, r, x), identity(m), B)
         IN reduce(m, [i \in DOMAIN blocks |-> sum(blocks[i])], FALSE)

\* for_each and apply run their function in parallel over the blocks: effect[x]
\* is the set of writes it makes for an element.
apply(v, effect) ==
    IF RandomAccess(v) THEN [i \in 0 .. ViewSize(v) - 1 |-> effect[Deref(v, i)]]
    ELSE LET blocks == BlocksOf(v)
         IN [i \in DOMAIN blocks |-> UNION {effect[blocks[i][k]] : k \in DOMAIN blocks[i]}]

-----------------------------------------------------------------------------
map_view(v, op) == [kind |-> "map", base |-> v, op |-> op]
zip_view(v, w) == [kind |-> "zip", left |-> v, right |-> w]

\* The sums hold the value each block's iterator starts with. Of an inclusive
\* scan of one block there is no sum for the end iterator.
scan_view(m, v, inclusive) ==
    LET n == NumBlocks(v)
        sum(B) == Fold(LAMBDA r, x : combine(m, r, x), identity(m), B)
        scanned == scan_(m, [i \in 0 .. n |-> IF i = n THEN identity(m) ELSE sum(BlockOf(v, i))],
                         FALSE, FALSE)
        skip == n = 1 /\ inclusive
        sums == IF skip THEN [i \in {0} |-> identity(m)] ELSE scanned.out
    IN [kind |-> "scan", base |-> v, monoid |-> m, inclusive |-> inclusive,
        total |-> IF skip THEN identity(m) ELSE scanned.total,
        sums |-> IF inclusive
                 THEN [i \in DOMAIN sums |->
                         IF i < n THEN combine(m, sums[i], Deref(v, BeginBlock(v, i)))
                         ELSE sums[i]]
                 ELSE sums]

\* The last range that starts at or before an output position.
RangeAt(offsets, start) == Cardinality({j \in DOMAIN offsets : offsets[j] <= start}) - 1

\* The blocks of v in which no block of the output starts any more: of those
\* the code reads out_block_offsets past its end.
PastTheLast(v, starts) ==
    {i \in 0 .. NumBlocks(v) - 1 : \A k \in DOMAIN starts : starts[k] < i * ViewBlock}

\* Each block of a block-iterable v finds the output blocks that start in it.
FindStarts(v, i, starts, offsets) ==
    LET its == BlockIterators(v, i)
        mine == {k \in DOMAIN starts : starts[k] >= i * ViewBlock
                                        /\ starts[k] < i * ViewBlock + Len(its)}
    IN {Write(k, [outer |-> its[starts[k] - i * ViewBlock + 1],
                  inner |-> k * ViewBlock - offsets[starts[k]]]) : k \in mine}

flatten_view(v) ==
    LET scanned == Offsets(to_sequence(map_view(v, Op("size"))))
        offsets == scanned.out
        n_blocks == num_blocks(scanned.total, ViewBlock)
        starts == [k \in 0 .. n_blocks - 1 |-> RangeAt(offsets, k * ViewBlock)]
        found == IF RandomAccess(v)
                 THEN [k \in DOMAIN starts |->
                         [outer |-> starts[k], inner |-> k * ViewBlock - offsets[starts[k]]]]
                 ELSE Stored(n_blocks, [i \in 0 .. NumBlocks(v) - 1 |->
                                          FindStarts(v, i, starts, offsets)])
    IN [kind |-> "flatten", base |-> v, size |-> scanned.total,
        wild |-> ~ RandomAccess(v) /\ scanned.total > 0 /\ PastTheLast(v, starts) # {},
        outer_starts |-> [k \in 0 .. n_blocks |->
                            IF k = n_blocks THEN EndOf(v) ELSE found[k].outer],
        inner_starts |-> [k \in 0 .. n_blocks |->
                            IF k = n_blocks THEN NoInner ELSE found[k].inner]]

\* A range of temporaries is copied first.
flatten_copy(v) == flatten_view(AView(to_sequence(v)))

\* The iterators of the elements that P keeps, block by block, made into one
\* view and read through.
filter_blocks(v, P) ==
    [i \in 0 .. NumBlocks(v) - 1 |->
        Array(SelectSeq(BlockIterators(v, i), LAMBDA it : Deref(v, it) \in P))]
filter_view(v, P) ==
    map_view(flatten_view(AView(filter_blocks(v, P))), [kind |-> "at", of |-> v])

\* Elements for which f has a value (a sequence of it) become that value.
filter_op_blocks(v, f) ==
    LET blocks == BlocksOf(v)
    IN [i \in DOMAIN blocks |-> Array(FoldLeft(LAMBDA r, x : r \o f[x], <<>>, Listed(blocks[i])))]
filter_op_view(v, f) == flatten_view(AView(filter_op_blocks(v, f)))
map_maybe_view(v, f) == filter_op_view(v, f)
=============================================================================
