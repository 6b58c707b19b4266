----------------------------- MODULE HazptrStack -----------------------------
(***************************************************************************)
(* The lock-free stack of concurrency/hazptr_stack.h: a linked list whose  *)
(* head is swung by compare-and-swap, its nodes reclaimed by hazard        *)
(* pointers.  Every access to head, to a node and to an announcement is a  *)
(* step.  A deleted node's address may be given to a new one at once.      *)
(***************************************************************************)
EXTENDS AcquireRetire, Sequences

CONSTANT Values

VARIABLES
  head,
  node,    \* what each address holds: t, next and length
  live,    \* the addresses that hold a node
  pc,      \* where each thread is in the stack's operations
  mine,    \* the node its push has made
  next,    \* the p->next its pop has read
  val,     \* what its pop or size returns
  closed   \* the stack has been destroyed

nodevars == <<head, node, live>>
vars == <<hazvars, nodevars, pc, mine, next, val, closed>>

At(t, c) == pc[t] = c
Go(t, c) == pc' = [pc EXCEPT ![t] = c]
Acquired(t, c) == At(t, c) /\ HazAt(t, "out")

NoVal == "none"

Init ==
  /\ HazInit
  /\ head = nullptr /\ live = {}
  /\ node = [p \in Cells |-> [t |-> NoVal, next |-> nullptr, length |-> 1]]
  /\ pc = [t \in Threads |-> "idle"]
  /\ mine = [t \in Threads |-> nullptr] /\ next = [t \in Threads |-> nullptr]
  /\ val = [t \in Threads |-> NoVal]
  /\ closed = FALSE

\* acquire(head), for whichever operation has called it
AcquireHead(t) ==
  /\ \/ LoadPointer(t, head) \/ Announce(t) \/ Validate(t, head)
  /\ UNCHANGED <<nodevars, pc, mine, next, val, closed>>

---------------------------------------------------------------------------
(* push(v)                                                                 *)

\* new Node(v)
Push(t, v) ==
  /\ At(t, "idle") /\ ~closed
  /\ \E p \in Cells \ live :
       /\ live' = live \cup {p}
       /\ node' = [node EXCEPT ![p] = [t |-> v, next |-> nullptr, length |-> 1]]
       /\ mine' = [mine EXCEPT ![t] = p]
  /\ Acquire(t)
  /\ Go(t, "push")
  /\ UNCHANGED <<head, next, val, closed>>

\* Mutant: the length of the node below is taken over.
LinkShort(t) ==
  /\ Acquired(t, "push")
  /\ LET h == result[t] IN
       node' = [node EXCEPT ![mine[t]].next = h,
                            ![mine[t]].length = IF h = nullptr THEN 1 ELSE node[h].length]
  /\ Go(t, "push_cas")
  /\ UNCHANGED <<hazvars, head, live, mine, next, val, closed>>

\* p->next = h; p->length = h ? h->length + 1 : 1
Link(t) ==
  /\ Acquired(t, "push")
  /\ LET h == result[t] IN
       node' = [node EXCEPT ![mine[t]].next = h,
                            ![mine[t]].length =
                               IF h = nullptr THEN 1 ELSE node[h].length + 1]
  /\ Go(t, "push_cas")
  /\ UNCHANGED <<hazvars, head, live, mine, next, val, closed>>

PushWins(t) ==
  /\ At(t, "push_cas") /\ head = node[mine[t]].next
  /\ head' = mine[t]
  /\ mine' = [mine EXCEPT ![t] = nullptr]
  /\ Go(t, "push_release")
  /\ UNCHANGED <<hazvars, node, live, next, val, closed>>

\* The compare_exchange is a weak one and may fail for no reason; it leaves
\* head in p->next.
PushLoses(t) ==
  /\ At(t, "push_cas")
  /\ node' = [node EXCEPT ![mine[t]].next = head]
  /\ Acquire(t)
  /\ Go(t, "push")
  /\ UNCHANGED <<head, live, mine, next, val, closed>>

PushRelease(t) ==
  /\ At(t, "push_release")
  /\ release(t)
  /\ Go(t, "idle")
  /\ UNCHANGED <<nodevars, mine, next, val, closed>>

---------------------------------------------------------------------------
(* pop()                                                                   *)

Pop(t) ==
  /\ At(t, "idle") /\ ~closed
  /\ Acquire(t)
  /\ Go(t, "pop")
  /\ UNCHANGED <<nodevars, mine, next, val, closed>>

\* if (p == nullptr) return {}: what is announced is nullptr already.
PopNothing(t) ==
  /\ Acquired(t, "pop") /\ result[t] = nullptr
  /\ Go(t, "idle")
  /\ UNCHANGED <<hazvars, nodevars, mine, next, val, closed>>

ReadNext(t) ==
  /\ Acquired(t, "pop") /\ result[t] # nullptr
  /\ next' = [next EXCEPT ![t] = node[result[t]].next]
  /\ Go(t, "pop_cas")
  /\ UNCHANGED <<hazvars, nodevars, mine, val, closed>>

PopWins(t) ==
  /\ At(t, "pop_cas") /\ head = result[t]
  /\ head' = next[t]
  /\ next' = [next EXCEPT ![t] = nullptr]
  /\ Go(t, "pop_take")
  /\ UNCHANGED <<hazvars, node, live, mine, val, closed>>

PopLoses(t) ==
  /\ At(t, "pop_cas")
  /\ next' = [next EXCEPT ![t] = nullptr]
  /\ Acquire(t)
  /\ Go(t, "pop")
  /\ UNCHANGED <<nodevars, mine, val, closed>>

TakeValue(t) ==
  /\ At(t, "pop_take")
  /\ val' = [val EXCEPT ![t] = node[result[t]].t]
  /\ Go(t, "pop_retire")
  /\ UNCHANGED <<hazvars, nodevars, mine, next, closed>>

Retire(t) ==
  /\ At(t, "pop_retire")
  /\ retire(t, result[t])
  /\ Go(t, "pop_release")
  /\ UNCHANGED <<nodevars, mine, next, val, closed>>

Scan(t) ==
  /\ ScanSlot(t)
  /\ UNCHANGED <<nodevars, pc, mine, next, val, closed>>

\* The deleter is delete.
Delete(t) ==
  /\ Eject(t)
  /\ live' = live \ Ejected(t)
  /\ UNCHANGED <<head, node, pc, mine, next, val, closed>>

PopRelease(t) ==
  /\ Acquired(t, "pop_release")
  /\ release(t)
  /\ val' = [val EXCEPT ![t] = NoVal]
  /\ Go(t, "idle")
  /\ UNCHANGED <<nodevars, mine, next, closed>>

---------------------------------------------------------------------------
(* size()                                                                  *)

MeasureStack(t) ==
  /\ At(t, "idle") /\ ~closed
  /\ Acquire(t)
  /\ Go(t, "size")
  /\ UNCHANGED <<nodevars, mine, next, val, closed>>

LengthAt(p) == IF p = nullptr THEN 0 ELSE node[p].length

ReadLength(t) ==
  /\ Acquired(t, "size")
  /\ val' = [val EXCEPT ![t] = LengthAt(result[t])]
  /\ Go(t, "size_release")
  /\ UNCHANGED <<hazvars, nodevars, mine, next, closed>>

SizeRelease(t) ==
  /\ At(t, "size_release")
  /\ release(t)
  /\ val' = [val EXCEPT ![t] = NoVal]
  /\ Go(t, "idle")
  /\ UNCHANGED <<nodevars, mine, next, closed>>

---------------------------------------------------------------------------
(* The destructors, after all calls: the stack's walks the list, then that *)
(* of the hazard pointers deletes what is still put aside.                 *)

\* The k-th node of the list, from 0.
Nth[k \in 0 .. Cardinality(Cells)] ==
  IF k = 0 THEN head
  ELSE IF Nth[k - 1] = nullptr THEN nullptr ELSE node[Nth[k - 1]].next
Depth  == Cardinality({k \in DOMAIN Nth : Nth[k] # nullptr})
InList == {Nth[k] : k \in DOMAIN Nth} \ {nullptr}

DestroyStack ==
  /\ ~closed /\ \A t \in Threads : At(t, "idle")
  /\ live' = live \ InList
  /\ head' = nullptr
  /\ closed' = TRUE
  /\ UNCHANGED <<hazvars, node, pc, mine, next, val>>

DestroyRetired ==
  /\ closed /\ \E t \in Threads : retired[t] # {}
  /\ live' = live \ UNION {retired[t] : t \in Threads}
  /\ retired' = [t \in Threads |-> {}]
  /\ UNCHANGED <<announcements, amortized_work, apc, result, scanvars,
                 head, node, pc, mine, next, val, closed>>

Step(t) == \/ AcquireHead(t)
           \/ (\E v \in Values : Push(t, v))
           \/ Link(t) \/ PushWins(t) \/ PushLoses(t) \/ PushRelease(t)
           \/ Pop(t) \/ PopNothing(t) \/ ReadNext(t) \/ PopWins(t) \/ PopLoses(t)
           \/ TakeValue(t) \/ Retire(t) \/ Scan(t) \/ Delete(t) \/ PopRelease(t)
           \/ MeasureStack(t) \/ ReadLength(t) \/ SizeRelease(t)

Next == (\E t \in Threads : Step(t)) \/ DestroyStack \/ DestroyRetired

Spec == Init /\ [][Next]_vars

---------------------------------------------------------------------------
PCs == {"idle", "push", "push_cas", "push_release", "pop", "pop_cas", "pop_take",
        "pop_retire", "pop_release", "size", "size_release"}

TypeOK ==
  /\ HazTypeOK
  /\ head \in Pointers /\ live \subseteq Cells
  /\ node \in [Cells -> [t : Values \cup {NoVal}, next : Pointers, length : 1 .. Cardinality(Cells)]]
  /\ pc \in [Threads -> PCs]
  /\ mine \in [Threads -> Pointers] /\ next \in [Threads -> Pointers]
  /\ closed \in BOOLEAN

\* No thread touches memory that has been given back: the node it has acquired
\* and is about to look into is still there, whoever popped it since.
NoUseAfterFree ==
  \A t \in Threads :
    \/ Acquired(t, "push") \/ Acquired(t, "pop") \/ Acquired(t, "size")
    \/ pc[t] \in {"pop_cas", "pop_take"}
    => result[t] \in live \cup {nullptr}

\* The nodes a popper holds that are neither in the list nor put aside.
Unlinked(t) == IF pc[t] \in {"pop_take", "pop_retire"} THEN {result[t]} ELSE {}
Made(t)     == {mine[t]} \ {nullptr}

Held(t)     == Made(t) \cup Unlinked(t) \cup PutAside(t)

\* Every node is in exactly one place: about to be linked by one thread, in the
\* list, unlinked by one, or put aside by one.
InOnePlace ==
  /\ live = InList \cup UNION {Held(t) : t \in Threads}
  /\ \A t \in Threads :
       /\ Held(t) \cap InList = {}
       /\ \A u \in Threads \ {t} : Held(t) \cap Held(u) = {}
       /\ Made(t) \cap PutAside(t) = {} /\ Unlinked(t) \cap PutAside(t) = {}

\* So no node leaks and none is deleted twice; after the destructors none is left.
Accounted ==
  /\ TypeOK
  /\ InOnePlace
  /\ closed /\ (\A t \in Threads : retired[t] = {}) => live = {}

---------------------------------------------------------------------------
(* The inductive invariant behind these.                                   *)

TheList == [k \in 1 .. Depth |-> Nth[k - 1]]

\* The list is s: head and the next pointers lead through s and end there, and
\* every node's length is that of the list it begins.
Chain(s) ==
  /\ s \in Seq(Cells)
  /\ head = IF s = <<>> THEN nullptr ELSE s[1]
  /\ \A k \in 1 .. Len(s) :
       /\ node[s[k]].next = IF k = Len(s) THEN nullptr ELSE s[k + 1]
       /\ node[s[k]].length = Len(s) - k + 1

\* What each thread knows at each point of its call.
CallInv(t) ==
  /\ apc[t] \in {"load", "announce", "validate"} => pc[t] \in {"push", "pop", "size"}
  /\ HazAt(t, "scan") => At(t, "pop_release") /\ retired[t] = {}
  /\ ~HazAt(t, "scan") => slot[t] = 0 /\ announced[t] = {} /\ deferred[t] = {}
  /\ (mine[t] # nullptr) <=> pc[t] \in {"push", "push_cas"}
  /\ HazAt(t, "validate") => announcements[t] = result[t]
  /\ pc[t] \in {"pop_cas", "pop_take", "pop_retire"} => result[t] # nullptr
  /\ At(t, "pop_cas") => node[result[t]].next = next[t]
  /\ Acquired(t, "push") => LengthAt(result[t]) < Cardinality(Cells)
  /\ At(t, "push_cas") => /\ node[mine[t]].next = result[t]
                          /\ node[mine[t]].length = LengthAt(result[t]) + 1
  /\ closed => At(t, "idle")

\* Where a call has acquired a node it may look into.
Holds(t) ==
  /\ \/ Acquired(t, "push") \/ Acquired(t, "pop") \/ Acquired(t, "size")
     \/ pc[t] \in {"push_cas", "pop_cas", "pop_take", "pop_retire"}
  /\ result[t] # nullptr

\* An acquired node is announced and has not been deleted, nobody is about to
\* push it, and whoever tries to eject it has seen the announcement if it has
\* come past it.
Protected(t) ==
  Holds(t) =>
    /\ announcements[t] = result[t]
    /\ result[t] \in live
    /\ \A u \in Threads :
         /\ mine[u] # result[t]
         /\ result[t] \in deferred[u] /\ slot[u] > t => result[t] \in announced[u]

IInv ==
  /\ Chain(TheList)
  /\ closed => head = nullptr
  /\ \A p \in live : node[p].t \in Values
  /\ \A t \in Threads : CallInv(t)
  /\ \A t \in Threads : Protected(t)
  /\ TypeOK /\ InOnePlace

---------------------------------------------------------------------------
(* Refinement: a push takes effect where its compare-and-swap wins, a pop  *)
(* there or, of an empty stack, where acquire finds nullptr unchanged, and *)
(* size where acquire finds the node unchanged whose length it reads.      *)

Contents == [k \in 1 .. Depth |-> node[Nth[k - 1]].t]

AnswerOf(t) ==
  CASE Acquired(t, "pop") /\ result[t] = nullptr -> <<"empty">>
    [] At(t, "pop_take") -> <<"popped", node[result[t]].t>>
    [] pc[t] \in {"pop_retire", "pop_release"} -> <<"popped", val[t]>>
    [] Acquired(t, "size") -> <<"size", LengthAt(result[t])>>
    [] At(t, "size_release") -> <<"size", val[t]>>
    [] OTHER -> <<>>

Abstract == INSTANCE LifoStack WITH
              stack <- Contents, answer <- [t \in Threads |-> AnswerOf(t)]

\* Linearizable: whatever the interleaving and the reuse of memory, the calls
\* behave as atomic ones on a last-in first-out list.
ImplementsStack == Abstract!Spec
=============================================================================
