---------------------------- MODULE SequenceOps ----------------------------
(* parlay/internal/sequence_ops.h and parlay/monoid.h: the block-based        *)
(* operations from which the library's other algorithms are made. They cut    *)
(* their input into blocks, work on the blocks in parallel, combine one       *)
(* number per block, and go over the blocks again.                            *)
EXTENDS Arrays

CONSTANTS
    BlockSize,      \* _block_size
    SqrtFactor,     \* the 4 of reduce's block size, 4 * ceil(sqrt(n))
    Lowest, Highest,\* numeric_limits of the element type
    Bits            \* the bit positions of a word; a word is the set of its 1s

Greater(x, y) == IF x < y THEN y ELSE x
Smaller(x, y) == IF y < x THEN y ELSE x

ASSUME SizesAssumption ==
    BlockSize \in Nat \ {0} /\ SqrtFactor \in Nat \ {0} /\ Lowest <= Highest

-----------------------------------------------------------------------------
(* monoid.h                                                                   *)

\* One of the built-in monoids; "concat" stands for binary_op(f, id), a monoid
\* of the caller, and is the free one: what holds in it holds in every monoid.
\* "starts" is the one of map_tokens in primitives.h: how many tokens have
\* started, and where the last one did.
M(kind) == [kind |-> kind]

identity(m) ==
    CASE m.kind = "plus" -> 0
      [] m.kind = "multiplies" -> 1
      [] m.kind = "logical_and" -> TRUE
      [] m.kind = "logical_or" -> FALSE
      [] m.kind \in {"bit_or", "bit_xor"} -> {}
      [] m.kind = "bit_and" -> Bits
      [] m.kind = "maximum" -> Lowest
      [] m.kind = "minimum" -> Highest
      [] m.kind = "minmaxm" -> <<Highest, Lowest>>
      [] m.kind = "concat" -> <<>>
      [] m.kind = "starts" -> <<0, 0>>

combine(m, x, y) ==
    CASE m.kind = "plus" -> x + y
      [] m.kind = "multiplies" -> x * y
      [] m.kind = "logical_and" -> x /\ y
      [] m.kind = "logical_or" -> x \/ y
      [] m.kind = "bit_or" -> x \cup y
      [] m.kind = "bit_xor" -> (x \ y) \cup (y \ x)
      [] m.kind = "bit_and" -> x \cap y
      [] m.kind = "maximum" -> Greater(x, y)
      [] m.kind = "minimum" -> Smaller(x, y)
      [] m.kind = "minmaxm" -> <<Smaller(x[1], y[1]), Greater(x[2], y[2])>>
      [] m.kind = "concat" -> x \o y
      [] m.kind = "starts" -> IF y[1] = 0 THEN x ELSE <<x[1] + y[1], y[2]>>

-----------------------------------------------------------------------------
num_blocks(n, size) == IF n = 0 THEN 0 ELSE 1 + (n - 1) \div size

\* The iterations of sliced_for: block i is positions s to e-1.
sliced_for(n, size) ==
    [i \in 0 .. num_blocks(n, size) - 1 |->
        [s |-> i * size, e |-> Smaller(i * size + size, n)]]

\* One number per block: PerBlock is applied to each block of A.
EachBlock(A, size, PerBlock(_)) ==
    LET block == sliced_for(Size(A), size)
    IN Filled([i \in DOMAIN block |-> PerBlock(Cut(A, block[i].s, block[i].e))])

reduce_serial(m, A) ==
    IF Size(A) = 0 THEN identity(m)
    ELSE Fold(LAMBDA r, x : combine(m, r, x), A[0], Cut(A, 1, Size(A)))

CeilSqrt(n) == CHOOSE r \in 0 .. n : r * r >= n /\ (r = 0 \/ (r - 1) * (r - 1) < n)

RECURSIVE reduce(_, _, _)
reduce(m, A, sequential) ==
    LET size == Greater(BlockSize, SqrtFactor * CeilSqrt(Size(A)))
        l == num_blocks(Size(A), size)
    IN IF l = 0 THEN identity(m)
       ELSE IF l = 1 \/ sequential THEN reduce_serial(m, A)
       ELSE reduce(m, EachBlock(A, size, LAMBDA B : reduce_serial(m, B)), FALSE)

\* In may be the array the result is written to: each step reads In[i] from the
\* memory the steps before it have left.
scan_serial(m, A, offset, inclusive) ==
    LET step(now, i) ==
            LET t == now.out[i]
                r == combine(m, now.total, t)
            IN [out |-> [now.out EXCEPT ![i] = IF inclusive THEN r ELSE now.total],
                total |-> r]
    IN FoldLeft(step, [out |-> A, total |-> offset],
                [i \in 1 .. Size(A) |-> i - 1])

\* A block whose scan starts one block early, at the sum before its own.
scan_late(m, A, inclusive, sequential) ==
    LET sums == scan_serial(m, EachBlock(A, BlockSize, LAMBDA B : reduce_serial(m, B)),
                            identity(m), TRUE)
        block == sliced_for(Size(A), BlockSize)
    IN [out |-> Stored(Size(A), [i \in DOMAIN block |->
            LET B == scan_serial(m, Cut(A, block[i].s, block[i].e), sums.out[i],
                                 inclusive).out
            IN {Write(block[i].s + j, B[j]) : j \in DOMAIN B}]),
        total |-> sums.total]

scan_(m, A, inclusive, sequential) ==
    LET n == Size(A)
        l == num_blocks(n, BlockSize)
        block == sliced_for(n, BlockSize)
        sums == scan_serial(m, EachBlock(A, BlockSize, LAMBDA B : reduce_serial(m, B)),
                            identity(m), FALSE)
        out == Filled([i \in DOMAIN block |->
                 scan_serial(m, Cut(A, block[i].s, block[i].e), sums.out[i], inclusive).out])
    IN IF l <= 2 \/ sequential THEN scan_serial(m, A, identity(m), inclusive)
       ELSE [out |-> Stored(n, [i \in DOMAIN block |->
                         {Write(block[i].s + j, out[i][j]) : j \in DOMAIN out[i]}]),
             total |-> sums.total]

Offsets(counts) == scan_(M("plus"), counts, FALSE, FALSE)

sum_bools_serial(Fl) == Count(Fl, LAMBDA b : b)

\* The writes of pack_serial_at for positions s to e-1, from offset k on.
pack_serial_at(A, Fl, s, e, k) ==
    {Write(k + Cardinality({j \in s .. i - 1 : Fl[j]}), A[i]) :
        i \in {i \in s .. e - 1 : Fl[i]}}

pack_serial(A, Fl) ==
    Stored(sum_bools_serial(Fl),
           [i \in {0} |-> pack_serial_at(A, Fl, 0, Size(A), 0)])

\* Packing by blocks, as pack, pack_out, filter_map and filter_out all do it.
PackBlocks(A, Fl) ==
    LET block == sliced_for(Size(A), BlockSize)
        sums == Offsets(EachBlock(Fl, BlockSize, sum_bools_serial))
    IN Stored(sums.total,
              [i \in DOMAIN block |->
                  pack_serial_at(A, Fl, block[i].s, block[i].e, sums.out[i])])

pack(A, Fl, sequential) ==
    IF num_blocks(Size(A), BlockSize) = 1 \/ sequential
    THEN pack_serial(A, Fl) ELSE PackBlocks(A, Fl)

pack_out(A, Fl, sequential) ==
    IF num_blocks(Size(A), BlockSize) <= 1 \/ sequential
    THEN pack_serial(A, Fl) ELSE PackBlocks(A, Fl)

\* F is asked once per element; g is applied only to what is kept.
filter_map(A, F, g) ==
    PackBlocks([i \in Indices(A) |-> g[A[i]]], [i \in Indices(A) |-> A[i] \in F])
filter(A, F) == filter_map(A, F, [x \in Range(A) |-> x])
filter_out(A, F) == PackBlocks(A, [i \in Indices(A) |-> A[i] \in F])

pack_index(Fl, sequential) == pack([i \in Indices(Fl) |-> i], Fl, sequential)

\* Where the c-th class of a stable split puts position i of a block from s:
\* after the block's offset, past the members of the class met before it.
split_three(A, Fl) ==
    LET n == Size(A)
        block == sliced_for(n, BlockSize)
        sums(c) == Offsets(EachBlock(Fl, BlockSize, LAMBDA B : Count(B, LAMBDA x : x = c)))
        sums0 == sums(0)
        sums1 == sums(1)
        m0 == sums0.total
        m1 == sums1.total
        from(b, c) ==
            CASE c = 0 -> sums0.out[b]
              [] c = 1 -> m0 + sums1.out[b]
              [] OTHER -> m0 + m1 + (block[b].s - sums0.out[b] - sums1.out[b])
        class(i) == IF Fl[i] \in {0, 1} THEN Fl[i] ELSE 2
    IN [out |-> Stored(n, [b \in DOMAIN block |->
            {Write(from(b, class(i))
                     + Cardinality({j \in block[b].s .. i - 1 : class(j) = class(i)}),
                   A[i]) : i \in block[b].s .. block[b].e - 1}]),
        m0 |-> m0, m1 |-> m1]

split_two(A, Fl) ==
    LET n == Size(A)
        block == sliced_for(n, BlockSize)
        sums == Offsets(EachBlock(Fl, BlockSize, LAMBDA B : Count(B, LAMBDA x : ~ x)))
        from(b, one) == IF one THEN block[b].s + (sums.total - sums.out[b]) ELSE sums.out[b]
    IN [out |-> Stored(n, [b \in DOMAIN block |->
            {Write(from(b, Fl[i]) + Cardinality({j \in block[b].s .. i - 1 : Fl[j] = Fl[i]}),
                   A[i]) : i \in block[b].s .. block[b].e - 1}]),
        m |-> sums.total]
=============================================================================
