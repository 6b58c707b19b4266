--------------------------- MODULE PoolAllocator ---------------------------
(***************************************************************************)
(* Memory of any size: pools of blocks whose sizes are powers of two       *)
(* (parlay/internal/pool_allocator.h), under the calls of alloc.h.  p_free *)
(* knows a block by an eight-byte header that holds the logarithm of its   *)
(* size; allocator<T> has no header and is told the size again.            *)
(*                                                                         *)
(* A small pool is a block_allocator: it hands out a block nobody holds    *)
(* (BlockAllocator), so numbers of blocks are enough here.  The pools and  *)
(* counters of large blocks are atomic and what one call does to them      *)
(* commutes with the others, so a call is one step.  A behaviour exercises *)
(* either the block allocator or the pools.                                *)
(***************************************************************************)
EXTENDS BlockAllocator

CONSTANTS
  MaxPoolSize,      \* getMemorySize() / 64
  LargeThreshold,   \* large_threshold
  ListLength,       \* how many blocks a small pool makes at a time
  Requests,         \* bound: the sizes asked of allocator<T>
  Mallocs,          \* bound: the <<size, align>> asked of p_malloc
  Places,           \* bound: where in the memory of a pool a block may lie
  Slots,            \* bound: how many blocks are held at once
  MaxCalls,         \* bound: how many are ever asked for
  CounterBits       \* the width of size_t

VARIABLES
  small,            \* of each small pool, how many blocks there are and are free
  large_buckets,    \* the stack of each large pool
  large_allocated, large_used,
  held,             \* the block in each slot and how it was asked for
  calls,
  machine           \* which allocator is exercised: "blocks" or "pools"

poolvars == <<small, large_buckets, large_allocated, large_used, held, calls>>
vars     == <<blockvars, poolvars, machine>>

Pow2[e \in Nat] == IF e = 0 THEN 1 ELSE 2 * Pow2[e - 1]

W             == Pow2[CounterBits]
max_alignment == 128
header_size   == 8
Up(n, a)      == ((n + a - 1) \div a) * a
log2_up(n)    == CHOOSE e \in 0 .. n : n <= Pow2[e] /\ (e > 0 => n > Pow2[e - 1])
None          == [blk |-> <<>>]

\* There are pools and some are small, as with the constants of the code; the size
\* of a type is a multiple of its alignment; p_malloc asserts that an alignment is
\* a power of two.  A request for no bytes gets the smallest block, which is in
\* place for what is aligned to 16.
ASSUME PoolsAssumption ==
  /\ MaxPoolSize \in Nat /\ MaxPoolSize > 8
  /\ LargeThreshold \in Nat /\ LargeThreshold > 16
  /\ ListLength \in Nat \ {0}
  /\ Requests \subseteq Nat \X {1, 2, 4, 8, 16, 32, 64, 128}
  /\ \A r \in Requests : r[1] % r[2] = 0 /\ (r[1] > 0 \/ r[2] <= 16)
  /\ Mallocs \subseteq Nat \X Nat /\ \A m \in Mallocs : \E e \in 0 .. m[2] : m[2] = Pow2[e]
  /\ Places \subseteq Nat
  /\ IsFiniteSet(Slots)

\* default_allocator_sizes(): the powers of two from 16 up.
sizes     == [i \in 1 .. log2_up(MaxPoolSize) - 3 |-> Pow2[i + 3]]
Small     == {i \in DOMAIN sizes : sizes[i] < LargeThreshold}
Large     == DOMAIN sizes \ Small
max_small == Max({0} \cup {sizes[i] : i \in Small})
max_size  == Last(sizes)

\* Mutant: the search for a pool stops one early.
BucketBelow(n) == Max({1} \cup {i \in DOMAIN sizes : n > sizes[i]})

\* The loop "while (n > sizes[bucket]) bucket++".
Bucket(n) == Min({i \in DOMAIN sizes : n <= sizes[i]})

\* A block: how many bytes it has and where it starts.  The blocks of a pool lie
\* side by side from an aligned start.
Pieces(cap) ==
  [cap : {cap},
   base : {p * (IF cap < max_alignment THEN cap ELSE max_alignment) : p \in Places}]

PoolInit ==
  /\ small = [i \in Small |-> [allocated |-> ListLength, free |-> ListLength]]
  /\ large_buckets = [i \in Large |-> <<>>]
  /\ large_allocated = 0 /\ large_used = 0
  /\ held = [s \in Slots |-> None] /\ calls = 0

---------------------------------------------------------------------------
(* pool_allocator                                                          *)

allocate_large(n, blk) ==
  /\ large_used' = (large_used + n) % W
  /\ \/ /\ n <= max_size /\ large_buckets[Bucket(n)] # <<>>
        /\ blk = Head(large_buckets[Bucket(n)])
        /\ large_buckets' = [large_buckets EXCEPT ![Bucket(n)] = Tail(@)]
        /\ UNCHANGED large_allocated
     \/ /\ n <= max_size => large_buckets[Bucket(n)] = <<>>
        /\ blk \in Pieces(Up(IF n <= max_size THEN sizes[Bucket(n)] ELSE n,
                             max_alignment))
        /\ large_allocated' = (large_allocated + n) % W
        /\ UNCHANGED large_buckets
  /\ UNCHANGED small

\* Of the small pool p, with at least k blocks free.
Stocked(p, k) ==
  LET more == IF p.free >= k THEN 0 ELSE Up(k - p.free, ListLength)
  IN  [allocated |-> p.allocated + more, free |-> p.free + more]

allocate(n, blk) ==
  \/ n > max_small /\ allocate_large(n, blk)
  \/ /\ n <= max_small
     /\ blk \in Pieces(sizes[Bucket(n)])
     /\ LET p == Stocked(small[Bucket(n)], 1) IN
        small' = [small EXCEPT ![Bucket(n)] = [p EXCEPT !.free = p.free - 1]]
     /\ UNCHANGED <<large_buckets, large_allocated, large_used>>

deallocate_large(blk, n) ==
  /\ large_used' = (large_used - n) % W
  /\ IF n > max_size
     THEN /\ large_allocated' = (large_allocated - n) % W
          /\ UNCHANGED large_buckets
     ELSE /\ large_buckets' = [large_buckets EXCEPT ![Bucket(n)] = <<blk>> \o @]
          /\ UNCHANGED large_allocated
  /\ UNCHANGED small

deallocate(blk, n) ==
  \/ n > max_small /\ deallocate_large(blk, n)
  \/ /\ n <= max_small
     /\ small' = [small EXCEPT ![Bucket(n)].free = @ + 1]
     /\ UNCHANGED <<large_buckets, large_allocated, large_used>>

\* reserve(bytes) allocates that much and gives it all back.
pool_reserve(bytes) ==
  /\ small' = [small EXCEPT ![Bucket(max_small)] = Stocked(@, bytes \div max_small)]
  /\ UNCHANGED <<large_buckets, large_allocated, large_used, held, calls>>

\* memory_clear(): the free large blocks go back to the system.
pool_clear ==
  /\ large_allocated' =
       (large_allocated - FoldSet(LAMBDA i, t : sizes[i] * Len(large_buckets[i]) + t, 0, Large)) % W
  /\ large_buckets' = [i \in Large |-> <<>>]
  /\ UNCHANGED <<small, large_used, held, calls>>

---------------------------------------------------------------------------
(* alloc.h                                                                 *)

alloc_padding_size(n) ==
  CASE n >= 1024                     -> 64
    [] n < 1024 /\ n % 16 # 0        -> 8
    [] n < 1024 /\ n % 64 \in {16, 32, 48} -> 16
    [] OTHER                         -> 64

PadSize(size, align) == Max({alloc_padding_size(size), align})

\* std::align: the first place past the header that is a multiple of the pad.
Offset(blk, pad) == Up(blk.base + header_size, pad) - blk.base

\* p_malloc(size, align)
p_malloc(s, size, align) ==
  LET pad == PadSize(size, align) IN
  /\ held[s] = None /\ calls < MaxCalls
  /\ \E cap \in {sizes[i] : i \in DOMAIN sizes} \cup {Up(size + pad, max_alignment)} :
     \E blk \in Pieces(cap) :
       /\ allocate(size + pad, blk)
       /\ held' = [held EXCEPT ![s] =
                     [blk |-> blk, align |-> pad, size |-> size,
                      offset |-> Offset(blk, pad), n |-> Pow2[log2_up(size + pad)]]]
  /\ calls' = calls + 1

\* allocator<T>::allocate for alignof(T) = align up to max_alignment
Allocate(s, n, align) ==
  /\ held[s] = None /\ calls < MaxCalls
  /\ \E cap \in {sizes[i] : i \in DOMAIN sizes} \cup {Up(n, max_alignment)} :
     \E blk \in Pieces(cap) :
       /\ allocate(n, blk)
       /\ held' = [held EXCEPT ![s] =
                     [blk |-> blk, align |-> align, size |-> n, offset |-> 0, n |-> n]]
  /\ calls' = calls + 1

\* p_free(ptr), or allocator<T>::deallocate: n is what the header says, or what
\* the caller says again.
Release(s) ==
  /\ held[s] # None
  /\ deallocate(held[s].blk, held[s].n)
  /\ held' = [held EXCEPT ![s] = None]
  /\ UNCHANGED calls

PoolNext ==
  \/ \E s \in Slots : \/ \E m \in Mallocs  : p_malloc(s, m[1], m[2])
                      \/ \E r \in Requests : Allocate(s, r[1], r[2])
                      \/ Release(s)
  \/ \E bytes \in {0, 2 * max_small} : pool_reserve(bytes)
  \/ pool_clear

---------------------------------------------------------------------------
Init == machine \in {"blocks", "pools"} /\ BlockInit /\ PoolInit
Next == /\ UNCHANGED machine
        /\ \/ machine = "blocks" /\ BlockNext /\ UNCHANGED poolvars
           \/ machine = "pools" /\ PoolNext /\ UNCHANGED blockvars
Spec == Init /\ [][Next]_vars

Held == {s \in Slots : held[s] # None}

\* Whoever holds memory has as much as was asked for, where it was asked to be,
\* behind its header; and it goes back to the pool it came from, although
\* p_free has only a power of two to go by: each small pool has its blocks
\* back or knows them held, and a large one has only blocks as large as it
\* promises.
HeldFit ==
  /\ \A s \in Held : LET h == held[s] IN
       /\ (h.blk.base + h.offset) % h.align = 0
       /\ h.offset + h.size <= h.blk.cap
       /\ h.offset > 0 => h.offset >= header_size
  /\ \A i \in Small :
       small[i].allocated =
         small[i].free + Cardinality({s \in Held : held[s].blk.cap = sizes[i]})
  /\ \A i \in Large : \A k \in DOMAIN large_buckets[i] : large_buckets[i][k].cap >= sizes[i]
=============================================================================
