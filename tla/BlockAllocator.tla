--------------------------- MODULE BlockAllocator ---------------------------
(***************************************************************************)
(* Blocks of one size (parlay/internal/block_allocator.h): every worker    *)
(* has a list of free blocks of its own, and whole lists of list_length    *)
(* blocks go to and come from a stack that all share.  The stack is the    *)
(* one of hazptr_stack.h, whose operations are atomic (HazptrStack).       *)
(*                                                                         *)
(* A free block's first word is its next pointer; a caller overwrites it.  *)
(* A worker's list is its own, so what a call does to it is one step.  A   *)
(* call that makes a new list runs a parallel loop, and some of the        *)
(* schedulers the library is built for go on after it on another worker.   *)
(***************************************************************************)
EXTENDS Integers, SequencesExt, FiniteSetsExt

CONSTANTS
  Threads,      \* the workers, thread_count of them
  list_length,
  max_blocks    \* asserted never to be exceeded

ASSUME BlocksAssumption ==
  /\ IsFiniteSet(Threads) /\ list_length \in Nat \ {0} /\ max_blocks \in Nat

VARIABLES
  next,               \* the first word of each block
  local_lists,        \* each worker's sz, head and mid
  global_stack,       \* the heads of the shared lists, the top first
  allocated_buffers,  \* the sets of blocks got from operator new
  blocks_allocated,
  used,               \* the blocks that callers hold
  pc,                 \* where each worker is in alloc or reserve
  new_lists           \* the lists its call has in hand

blockvars == <<next, local_lists, global_stack, allocated_buffers,
               blocks_allocated, used, pc, new_lists>>

nullptr == -1
data    == -2   \* what a caller writes
Blocks  == 0 .. max_blocks - 1
thread_count == Cardinality(Threads)

Idle(w)      == pc[w] = "idle"
AllIdle      == \A w \in Threads : Idle(w)
InBuffers    == UNION allocated_buffers
EmptyList    == [sz |-> 0, head |-> nullptr, mid |-> nullptr]

---------------------------------------------------------------------------
(* Lists                                                                   *)

\* num blocks in a row that operator new may return.
FreshStart(num) ==
  {b \in Blocks : b + num <= max_blocks /\ (b .. b + num - 1) \cap InBuffers = {}}

\* initialize_list for the num_lists lists that start at block b: next with
\* every block before its list's last pointing to the one after it.
initialize_lists(b, num_lists) ==
  [x \in Blocks |->
     IF x \in b .. b + num_lists * list_length - 1
     THEN IF (x - b + 1) % list_length = 0 THEN nullptr ELSE x + 1
     ELSE next[x]]

Heads(b, num_lists) == {b + i * list_length : i \in 0 .. num_lists - 1}

allocate_blocks(b, num) ==
  /\ allocated_buffers' = allocated_buffers \cup {b .. b + num - 1}
  /\ blocks_allocated' = blocks_allocated + num

\* The lists of a reserve(n), which rounds up and adds one per worker.
ReservedLists(n) == thread_count + (n + list_length - 1) \div list_length

\* The constructor has reserved n blocks: its parallel loop has pushed the
\* lists in some order.
BlockInit ==
  /\ local_lists = [w \in Threads |-> EmptyList]
  /\ used = {} /\ pc = [w \in Threads |-> "idle"]
  /\ new_lists = [w \in Threads |-> {}]
  /\ LET m == ReservedLists(0) IN
       /\ m * list_length <= max_blocks
       /\ allocated_buffers = {0 .. m * list_length - 1}
       /\ blocks_allocated = m * list_length
       /\ global_stack \in SetToSeqs(Heads(0, m))
       /\ next = [x \in Blocks |->
                    IF x < m * list_length /\ (x + 1) % list_length # 0
                    THEN x + 1 ELSE nullptr]

---------------------------------------------------------------------------
(* alloc()                                                                 *)

\* p = head; head = head->next; sz--, on worker w's list l
TakeFrom(w, l) ==
  /\ local_lists' = [local_lists EXCEPT ![w] =
                       [l EXCEPT !.sz = l.sz - 1, !.head = next[l.head]]]
  /\ used' = used \cup {l.head}

\* The list of w is not empty.  Its caller writes to the block.
alloc(w) ==
  /\ Idle(w) /\ local_lists[w].sz > 0
  /\ TakeFrom(w, local_lists[w])
  /\ next' = [next EXCEPT ![local_lists[w].head] = data]
  /\ UNCHANGED <<global_stack, allocated_buffers, blocks_allocated, pc, new_lists>>

allocMiss(w) ==
  /\ Idle(w) /\ local_lists[w].sz = 0
  /\ pc' = [pc EXCEPT ![w] = "get_list"]
  /\ UNCHANGED <<next, local_lists, global_stack, allocated_buffers,
                 blocks_allocated, used, new_lists>>

\* get_list: global_stack.pop()
PopList(w) ==
  /\ pc[w] = "get_list" /\ global_stack # <<>>
  /\ new_lists' = [new_lists EXCEPT ![w] = {Head(global_stack)}]
  /\ global_stack' = Tail(global_stack)
  /\ pc' = [pc EXCEPT ![w] = "install"]
  /\ UNCHANGED <<next, local_lists, allocated_buffers, blocks_allocated, used>>

\* It found nothing, so a buffer is made.  The call returns from the loop of
\* initialize_list on worker v.
MakeList(w, v) ==
  /\ pc[w] = "make" /\ (v = w \/ Idle(v))
  /\ \E b \in FreshStart(list_length) :
       /\ b = Min(FreshStart(list_length))
       /\ allocate_blocks(b, list_length)
       /\ next' = initialize_lists(b, 1)
       /\ new_lists' = [new_lists EXCEPT ![v] = {b}]
  /\ pc' = [[pc EXCEPT ![w] = "idle"] EXCEPT ![v] = "install"]
  /\ UNCHANGED <<local_lists, global_stack, used>>

PopNoList(w) ==
  /\ pc[w] = "get_list" /\ global_stack = <<>> /\ FreshStart(list_length) # {}
  /\ pc' = [pc EXCEPT ![w] = "make"]
  /\ UNCHANGED <<next, local_lists, global_stack, allocated_buffers,
                 blocks_allocated, used, new_lists>>

\* Mutant: the list is taken for the worker's own, whatever that worker has.
InstallBlindly(w) ==
  /\ pc[w] = "install"
  /\ LET b == CHOOSE x \in new_lists[w] : TRUE IN
       /\ TakeFrom(w, [local_lists[w] EXCEPT !.sz = list_length, !.head = b])
       /\ next' = [next EXCEPT ![b] = data]
       /\ UNCHANGED global_stack
  /\ new_lists' = [new_lists EXCEPT ![w] = {}]
  /\ pc' = [pc EXCEPT ![w] = "idle"]
  /\ UNCHANGED <<allocated_buffers, blocks_allocated>>

\* id = worker_id() once more: the list becomes that worker's, or is given to
\* all if that worker has a list.
Install(w) ==
  /\ pc[w] = "install"
  /\ LET b == CHOOSE x \in new_lists[w] : TRUE
         l == IF local_lists[w].sz = 0
              THEN [local_lists[w] EXCEPT !.sz = list_length, !.head = b]
              ELSE local_lists[w]
     IN  /\ TakeFrom(w, l)
         /\ next' = [next EXCEPT ![l.head] = data]
         /\ global_stack' = IF local_lists[w].sz = 0 THEN global_stack
                            ELSE <<b>> \o global_stack
  /\ new_lists' = [new_lists EXCEPT ![w] = {}]
  /\ pc' = [pc EXCEPT ![w] = "idle"]
  /\ UNCHANGED <<allocated_buffers, blocks_allocated>>

---------------------------------------------------------------------------
(* free(ptr)                                                               *)

\* mid is where the list is cut later on: behind it are list_length blocks.
MarkMid(l) == [l EXCEPT !.mid = l.head]

\* Mutant: the list is marked one block too early.
freeMarksEarly(w, ptr) ==
  LET l == local_lists[w]
      full == l.sz = 2 * list_length
      kept == CASE l.sz = list_length     -> MarkMid(l)
                [] full /\ l.sz # list_length -> [l EXCEPT !.sz = list_length]
                [] OTHER                  -> l
      cut  == IF full THEN [next EXCEPT ![l.mid] = nullptr] ELSE next
  IN
  /\ Idle(w) /\ ptr \in used
  /\ global_stack' = IF full THEN <<next[l.mid]>> \o global_stack ELSE global_stack
  /\ next' = [cut EXCEPT ![ptr] = kept.head]
  /\ local_lists' = [local_lists EXCEPT ![w] =
                       [kept EXCEPT !.head = ptr, !.sz = kept.sz + 1]]
  /\ used' = used \ {ptr}
  /\ UNCHANGED <<allocated_buffers, blocks_allocated, pc, new_lists>>

\* At list_length + 1 blocks the list is marked; at twice the length what is
\* behind the mark is given to all.
free(w, ptr) ==
  LET l == local_lists[w]
      mark == l.sz = list_length + 1
      full == ~mark /\ l.sz = 2 * list_length
      kept == CASE mark  -> MarkMid(l)
                [] full  -> [l EXCEPT !.sz = list_length]
                [] OTHER -> l
      cut  == IF full THEN [next EXCEPT ![l.mid] = nullptr] ELSE next
  IN
  /\ Idle(w) /\ ptr \in used
  /\ global_stack' = IF full THEN <<next[l.mid]>> \o global_stack ELSE global_stack
  /\ next' = [cut EXCEPT ![ptr] = kept.head]
  /\ local_lists' = [local_lists EXCEPT ![w] =
                       [kept EXCEPT !.head = ptr, !.sz = kept.sz + 1]]
  /\ used' = used \ {ptr}
  /\ UNCHANGED <<allocated_buffers, blocks_allocated, pc, new_lists>>

---------------------------------------------------------------------------
(* reserve(n) and clear()                                                  *)

reserve(w, n) ==
  LET m == ReservedLists(n)
      S == FreshStart(m * list_length)
  IN
  /\ Idle(w) /\ S # {}
  /\ allocate_blocks(Min(S), m * list_length)
  /\ next' = initialize_lists(Min(S), m)
  /\ new_lists' = [new_lists EXCEPT ![w] = Heads(Min(S), m)]
  /\ pc' = [pc EXCEPT ![w] = "reserve"]
  /\ UNCHANGED <<local_lists, global_stack, used>>

\* An iteration of its loop.
PushList(w, b) ==
  /\ pc[w] = "reserve" /\ b \in new_lists[w]
  /\ global_stack' = <<b>> \o global_stack
  /\ new_lists' = [new_lists EXCEPT ![w] = @ \ {b}]
  /\ pc' = [pc EXCEPT ![w] = IF new_lists[w] = {b} THEN "idle" ELSE "reserve"]
  /\ UNCHANGED <<next, local_lists, allocated_buffers, blocks_allocated, used>>

Total(f)     == SumFunctionOnSet(f, Threads)
LocallyFree  == Total([w \in Threads |-> local_lists[w].sz])
ListsInHand  == Total([w \in Threads |-> Cardinality(new_lists[w])])

num_used_blocks ==
  blocks_allocated - list_length * Len(global_stack) - LocallyFree

\* Mutant: the lists of the workers stay.
clearKeepsLists ==
  /\ AllIdle /\ num_used_blocks <= 0
  /\ allocated_buffers' = {} /\ blocks_allocated' = 0
  /\ global_stack' = <<>>
  /\ UNCHANGED <<next, local_lists, used, pc, new_lists>>

\* Called by nobody while others work; it does nothing if blocks are in use.
clear ==
  /\ AllIdle /\ num_used_blocks <= 0
  /\ local_lists' = [w \in Threads |-> [local_lists[w] EXCEPT !.sz = 0]]
  /\ allocated_buffers' = {} /\ blocks_allocated' = 0
  /\ global_stack' = <<>>
  /\ UNCHANGED <<next, used, pc, new_lists>>

BlockNext ==
  \/ \E w \in Threads :
       \/ alloc(w) \/ allocMiss(w) \/ PopList(w) \/ PopNoList(w)
       \/ \E v \in Threads : MakeList(w, v)
       \/ Install(w)
       \/ \E b \in used : free(w, b)
       \/ \E n \in 0 .. list_length + 1 : reserve(w, n)
       \/ \E b \in Blocks : PushList(w, b)
  \/ clear

---------------------------------------------------------------------------
\* The first k blocks of the list that starts at b, when the blocks hold nx.
Chain(nx, b, k) ==
  LET nth[i \in 0 .. k] == IF i = 0 THEN b
                           ELSE IF nth[i - 1] \in Blocks THEN nx[nth[i - 1]]
                           ELSE nullptr
  IN  [i \in 1 .. k |-> nth[i - 1]]

\* Every free list: a worker's own, or a full one by its first block.
FullHeads == ToSet(global_stack) \cup UNION {new_lists[w] : w \in Threads}
Lists     == ({"local"} \X Threads) \cup ({"full"} \X FullHeads)
HeadOf(l) == IF l[1] = "local" THEN local_lists[l[2]].head ELSE l[2]
LenOf(l)  == IF l[1] = "local" THEN local_lists[l[2]].sz ELSE list_length
FreeList(l) == Chain(next, HeadOf(l), LenOf(l))

\* No block is in two hands: each block ever got from operator new is held by
\* a caller or is in one free list, once.  So alloc never returns a block that
\* is in use, and none is lost, on whichever worker a call ends.
\* No worker hoards more than two lists ("returns list_length elements to the
\* global pool when local pool=2*list_length", above the allocator), which is
\* so if a list has more than one block.
BlocksAccounted ==
  /\ used \subseteq InBuffers
  /\ \A l \in Lists : /\ IsInjective(FreeList(l))
                      /\ ToSet(FreeList(l)) \subseteq InBuffers \ used
  /\ \A l, p \in Lists : l # p => ToSet(FreeList(l)) \cap ToSet(FreeList(p)) = {}
  /\ list_length > 1 => \A w \in Threads : local_lists[w].sz <= 2 * list_length
  /\ Cardinality(InBuffers) =
       Cardinality(used) + LocallyFree + list_length * (Len(global_stack) + ListsInHand)

\* "Keeps track of number of allocated elements": between calls
\* num_used_blocks is the number of blocks callers hold.
CountsUsed == AllIdle => num_used_blocks = Cardinality(used)

---------------------------------------------------------------------------
(* What holds at every step, for the proofs.                               *)

Words == Blocks \cup {nullptr, data}

BlockTypes ==
  /\ next \in [Blocks -> Words]
  /\ local_lists \in [Threads -> [sz : Nat, head : Words, mid : Words]]
  /\ global_stack \in Seq(Blocks)
  /\ allocated_buffers \subseteq SUBSET Blocks
  /\ blocks_allocated = Cardinality(InBuffers)
  /\ pc \in [Threads -> {"idle", "get_list", "make", "install", "reserve"}]
  /\ new_lists \in [Threads -> SUBSET Blocks]

\* The lists a worker has in hand are those of its call, and a full list is on
\* the stack once or in the hands of one worker.
HandsApart ==
  /\ \A w \in Threads :
       /\ pc[w] \in {"idle", "get_list", "make"} => new_lists[w] = {}
       /\ pc[w] = "install" => \E b \in Blocks : new_lists[w] = {b}
       /\ new_lists[w] \cap ToSet(global_stack) = {}
  /\ \A v, w \in Threads : v # w => new_lists[v] \cap new_lists[w] = {}
  /\ IsInjective(global_stack)

\* From two blocks more than a full list on, mid has a full list behind it.
Marked ==
  list_length > 1 =>
    \A w \in Threads : LET l == local_lists[w] IN
      l.sz >= list_length + 2 =>
        l.mid = Chain(next, l.head, l.sz)[l.sz - list_length]

BlockInv == BlockTypes /\ HandsApart /\ Marked /\ BlocksAccounted
=============================================================================
