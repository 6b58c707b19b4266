------------------------------- MODULE ParHLD -------------------------------
(***************************************************************************)
(* The parallel passes of parallel_hld.cpp, par_dfs and par_decompose: the *)
(* depth-first passes of the serial program with the loop over the         *)
(* children made a parallel_for.  (parallel_preprocess still calls the     *)
(* serial passes, which HLD models.)                                       *)
(*                                                                         *)
(* Every node is visited by one call, so a call is named by its node.      *)
(* Calls that may run at once are interleaved at their accesses to shared  *)
(* memory.  The plain ints they race on are undefined behaviour in C++;    *)
(* the build loads and stores them.                                        *)
(***************************************************************************)
EXTENDS TreeGen, FiniteSetsExt

CONSTANTS
  Trees,        \* the adjacency lists it is run on, parents before children
  Granularity   \* of par_dfs's loop, 100000 in the code; above 0

VARIABLES
  n, adj,                 \* the input
  kth, depth, sizes, heavy, head, pos, cur_pos,
  at,                     \* where the call for each node is
  tmp                     \* the int each call has loaded

input  == <<n, adj>>
vars   == <<input, kth, depth, sizes, heavy, head, pos, cur_pos, at, tmp>>

None  == -1
Nodes == 0 .. n - 1
log_n == CHOOSE e \in 0 .. n : 2^e <= n /\ n < 2^(e + 1)

\* dfs, add, test and take are in par_dfs and its loop; load, store, heavy and
\* light in par_decompose.
Places == {"new", "dfs", "add", "store_size", "test", "take", "sized",
           "load", "store", "heavy", "light", "done"}

AllZero(m) == [v \in 0 .. m - 1 |-> 0]

\* The tree, the zeroed tables, and the call par_dfs(0), which has set its own
\* size and heavy child.
Init ==
  \E t \in Trees :
    /\ n = Cardinality(DOMAIN t) /\ adj = t
    /\ kth = [v \in Nodes |-> [j \in 0 .. log_n - 1 |-> 0]]
    /\ depth = AllZero(n) /\ head = AllZero(n) /\ pos = AllZero(n) /\ tmp = AllZero(n)
    /\ sizes = [AllZero(n) EXCEPT ![0] = 1]
    /\ heavy = [AllZero(n) EXCEPT ![0] = None]
    /\ cur_pos = 0
    /\ at = [v \in Nodes |-> IF v = 0 THEN "dfs" ELSE "new"]

Go(v, c) == at' = [at EXCEPT ![v] = c]

\* The neighbours of v that the code takes for children: u != kth[v][0].
Children(v) == {u \in {adj[v][i] : i \in DOMAIN adj[v]} : u # kth[v][0]}

---------------------------------------------------------------------------
(* par_dfs(v)                                                              *)

\* The iteration that visits u.
Iteration(v, u) == CHOOSE i \in 0 .. Len(adj[v]) - 1 : adj[v][i + 1] = u

\* Whether parfor_(start, end) runs the iterations i < j one after the other: it
\* has at most Granularity of them, or both are on one side of the split.
RECURSIVE Together(_, _, _, _)
Together(i, j, start, end) ==
  LET mid == start + (9 * (end - start + 1)) \div 16
  IN  \/ end - start <= Granularity
      \/ j < mid /\ Together(i, j, start, mid)
      \/ mid <= i /\ Together(i, j, mid, end)

\* A loop without a granularity runs its first iteration by itself, to measure
\* it; returned is where a call is that has come back.
AfterFirst(v, u, returned) ==
  LET first == adj[v][1]
  IN  u # first /\ first \in Children(v) => at[first] = returned

\* Mutant: the granularity is left out.
TurnMeasured(v, u) == AfterFirst(v, u, "sized")

\* u is visited once the iterations before it in its block are over.
Turn(v, u) ==
  \A w \in Children(v) :
    LET i == Iteration(v, w)
        j == Iteration(v, u)
    IN  i < j /\ Together(i, j, 0, Len(adj[v])) => at[w] = "sized"

\* kth[u][i] = kth[kth[u][i - 1]][i - 1]
Lifted(v) ==
  LET row[i \in 0 .. log_n - 1] == IF i = 0 THEN v ELSE kth[row[i - 1]][i - 1]
  IN  row

Visit(v, u) ==
  /\ at[v] = "dfs" /\ u \in Children(v) /\ at[u] = "new" /\ Turn(v, u)
  /\ kth' = [kth EXCEPT ![u] = Lifted(v)]
  /\ depth' = [depth EXCEPT ![u] = depth[v] + 1]
  /\ sizes' = [sizes EXCEPT ![u] = 1]
  /\ heavy' = [heavy EXCEPT ![u] = None]
  /\ Go(u, "dfs")
  /\ UNCHANGED <<input, head, pos, cur_pos, tmp>>

\* The call for u returns to the loop of its parent's call.
DfsReturn(u) ==
  /\ at[u] = "dfs" /\ \A w \in Children(u) : at[w] = "sized"
  /\ Go(u, IF u = 0 THEN "sized" ELSE "add")
  /\ UNCHANGED <<input, kth, depth, sizes, heavy, head, pos, cur_pos, tmp>>

\* sizes[v] += sizes[u], with v the parent: a load and a store
AddLoad(u) ==
  /\ at[u] = "add"
  /\ tmp' = [tmp EXCEPT ![u] = sizes[kth[u][0]]]
  /\ Go(u, "store_size")
  /\ UNCHANGED <<input, kth, depth, sizes, heavy, head, pos, cur_pos>>

AddStore(u) ==
  /\ at[u] = "store_size"
  /\ sizes' = [sizes EXCEPT ![kth[u][0]] = tmp[u] + sizes[u]]
  /\ Go(u, "test")
  /\ UNCHANGED <<input, kth, depth, heavy, head, pos, cur_pos, tmp>>

\* if (heavy[v] == -1 || sizes[u] > sizes[heavy[v]]) heavy[v] = u
TestHeavy(u) ==
  /\ at[u] = "test"
  /\ LET old == heavy[kth[u][0]]
     IN  Go(u, IF old = None \/ sizes[u] > sizes[old] THEN "take" ELSE "sized")
  /\ UNCHANGED <<input, kth, depth, sizes, heavy, head, pos, cur_pos, tmp>>

TakeHeavy(u) ==
  /\ at[u] = "take"
  /\ heavy' = [heavy EXCEPT ![kth[u][0]] = u]
  /\ Go(u, "sized")
  /\ UNCHANGED <<input, kth, depth, sizes, head, pos, cur_pos, tmp>>

---------------------------------------------------------------------------
(* par_decompose(v, h)                                                     *)

\* The call par_decompose(v, h): head[v] = h.
Decompose(v, h) == head' = [head EXCEPT ![v] = h] /\ Go(v, "load")

\* par_decompose(0, 0), after par_dfs(0).
StartDecompose ==
  /\ at[0] = "sized"
  /\ Decompose(0, 0)
  /\ UNCHANGED <<input, kth, depth, sizes, heavy, pos, cur_pos, tmp>>

\* pos[v] = cur_pos++: a load and a store
LoadPos(v) ==
  /\ at[v] = "load"
  /\ tmp' = [tmp EXCEPT ![v] = cur_pos]
  /\ pos' = [pos EXCEPT ![v] = cur_pos]
  /\ Go(v, "store")
  /\ UNCHANGED <<input, kth, depth, sizes, heavy, head, cur_pos>>

StorePos(v) ==
  /\ at[v] = "store"
  /\ cur_pos' = tmp[v] + 1
  /\ Go(v, IF heavy[v] = None THEN "light" ELSE "heavy")
  /\ UNCHANGED <<input, kth, depth, sizes, heavy, head, pos, tmp>>

CallHeavy(v) ==
  /\ at[v] = "heavy" /\ at[heavy[v]] = "sized"
  /\ Decompose(heavy[v], head[v])
  /\ UNCHANGED <<input, kth, depth, sizes, heavy, pos, cur_pos, tmp>>

HeavyReturned(v) ==
  /\ at[v] = "heavy" /\ at[heavy[v]] = "done"
  /\ Go(v, "light")
  /\ UNCHANGED <<input, kth, depth, sizes, heavy, head, pos, cur_pos, tmp>>

\* parallel_for over the light children, without a granularity.
CallLight(v, u) ==
  /\ at[v] = "light" /\ u \in Children(v) \ {heavy[v]} /\ at[u] = "sized"
  /\ AfterFirst(v, u, "done")
  /\ Decompose(u, u)
  /\ UNCHANGED <<input, kth, depth, sizes, heavy, pos, cur_pos, tmp>>

DecomposeDone(v) ==
  /\ at[v] = "light" /\ \A u \in Children(v) : at[u] = "done"
  /\ Go(v, "done")
  /\ UNCHANGED <<input, kth, depth, sizes, heavy, head, pos, cur_pos, tmp>>

Step == \/ \E v \in Nodes :
             \/ DfsReturn(v) \/ AddLoad(v) \/ AddStore(v) \/ TestHeavy(v) \/ TakeHeavy(v)
             \/ LoadPos(v) \/ StorePos(v) \/ CallHeavy(v) \/ HeavyReturned(v)
             \/ DecomposeDone(v)
             \/ \E u \in Nodes : Visit(v, u) \/ CallLight(v, u)
        \/ StartDecompose

Done == at[0] = "done"
Next == Step \/ (Done /\ UNCHANGED vars)
Spec == Init /\ [][Next]_vars

---------------------------------------------------------------------------
(* The tree from adj alone; a parent has a smaller number than its child.  *)
Parent(v)   == CHOOSE u \in 0 .. v - 1 : \E i \in DOMAIN adj[v] : adj[v][i] = u
Below(v)    == {u \in Nodes : u > v /\ \E i \in DOMAIN adj[v] : adj[v][i] = u}
Subtree[v \in Nodes] == {v} \cup UNION {Subtree[u] : u \in Below(v)}
RECURSIVE Ancestor(_, _)
Ancestor(v, k) == IF k = 0 THEN v ELSE Ancestor(Parent(v), k - 1)

\* No loop below v has iterations at once: for the tables of par_dfs, none has
\* more than Granularity; for those of par_decompose, none has two light
\* children besides its first iteration.
InOrder(v)   == \A w \in Subtree[v] : Len(adj[w]) <= Granularity
OneAtATime   == \A v \in Nodes :
                  Cardinality({u \in Below(v) \ {heavy[v]} : u # adj[v][1]}) <= 1

\* Every index stays in its array: the races cannot push cur_pos past n.
TypeOK ==
  /\ kth \in [Nodes -> [0 .. log_n - 1 -> Nodes]]
  /\ depth \in [Nodes -> Nodes]
  /\ sizes \in [Nodes -> 0 .. n] /\ heavy \in [Nodes -> Nodes \cup {None}]
  /\ head \in [Nodes -> Nodes] /\ pos \in [Nodes -> Nodes] /\ cur_pos \in 0 .. n
  /\ at \in [Nodes -> Places] /\ tmp \in [Nodes -> 0 .. n]

\* "Assumes we have parent, depth, subtree size, and heavy child of each node"
\* (above par_decompose): when par_dfs returns it has found every node's
\* ancestors and depth however its iterations race, and the sizes and heavy
\* children where none do.  Where they do, additions are lost and a smaller child
\* may pass for the heavy one, but each size counts a child at least and none
\* twice, and every inner node has a child to go on its chain.
DfsFinds ==
  \A v \in Nodes :
    LET children == {sizes[u] : u \in Below(v)} IN
    /\ v # 0 => depth[v] = depth[Parent(v)] + 1
    /\ \A i \in 0 .. log_n - 1 : 2^i <= depth[v] => kth[v][i] = Ancestor(v, 2^i)
    /\ IF Below(v) = {} THEN heavy[v] = None /\ sizes[v] = 1
       ELSE /\ heavy[v] \in Below(v)
            /\ sizes[v] > Min(children)
            /\ sizes[v] <= 1 + FoldSet(LAMBDA u, s : s + sizes[u], 0, Below(v))
    /\ InOrder(v) => /\ sizes[v] = Cardinality(Subtree[v])
                     /\ heavy[v] # None => sizes[heavy[v]] = Max(children)

\* "Now, we have set head for each node properly i.e. chains have been
\* determined properly": in whatever order the light children are visited.
HeadsRight ==
  \A v \in Nodes :
    head[v] = IF v # 0 /\ heavy[Parent(v)] = v THEN head[Parent(v)] ELSE v

\* README, "Keeps chains intact in the segment-tree array": cur_pos++ draws each
\* place once and a chain's places one after the other, as long as no two light
\* children are decomposed at once; otherwise two nodes may draw the same.
PlacesRight ==
  OneAtATime => /\ {pos[v] : v \in Nodes} = Nodes
                /\ \A v \in Nodes : heavy[v] # None => pos[heavy[v]] = pos[v] + 1

\* par_dfs leaves the tables par_decompose assumes, par_decompose the heads its
\* comment promises and, for trees of two children, the places, and no race
\* pushes an index out of its array.
PassesRight ==
  /\ TypeOK
  /\ at[0] \in {"sized", "load"} => DfsFinds
  /\ Done => HeadsRight /\ PlacesRight
=============================================================================
