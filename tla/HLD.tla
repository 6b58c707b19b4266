-------------------------------- MODULE HLD --------------------------------
(***************************************************************************)
(* Heavy-light decomposition as serial_hld.cpp does it and parallel_hld.cpp*)
(* repeats it: two depth-first passes give every node its ancestors, its   *)
(* chain and its place in one segment tree, on which path queries run.     *)
(*                                                                         *)
(* A call runs to its end before the next one starts, so an action is one  *)
(* call: preprocess, a query or update_node.  par_do inside                *)
(* query_path_parallel runs two thunks that share nothing they write.      *)
(*                                                                         *)
(* malloc leaves kth[0] and depth[0] as it found them, and no code ever    *)
(* writes them: RootKth and RootDepth are what may be there.               *)
(***************************************************************************)
EXTENDS SegTree, TreeGen, FiniteSetsExt

CONSTANTS
  Inputs,      \* the <<n, k, h>> the program is run with
  Trees,       \* other trees built with add_child, parents before children
  Simple,      \* whether it is run with -s as well
  Values(_),   \* bound: the value arrays for a tree of n nodes
  NewVals,     \* bound: the values update_node sets
  MaxUpdates,  \* bound: how often it is called
  Rounds,      \* num_rounds of preprocessing, 5 in the code
  RootKth(_),  \* the possible contents of kth[0][i]
  RootDepth    \* the possible contents of depth[0]

VARIABLES
  n, log_n, adj, values,         \* the input
  kth, depth, sizes, heavy,      \* written by dfs
  head, pos, cur_pos,            \* written by decompose
  tree,                          \* the segment tree
  round,                         \* how often preprocess has run
  updates, current,              \* history: how many, and what they left
  ans                            \* the last query and what it returned

input  == <<n, log_n, adj, values>>
tables == <<kth, depth, sizes, heavy, head, pos, cur_pos>>
history == <<updates, current>>
vars   == <<input, tables, tree, round, history, ans>>

None     == -1
Nodes    == 0 .. n - 1
NoAnswer == [op |-> "none", u |-> 0, v |-> 0, res |-> 0]
Log2(m)  == CHOOSE e \in 0 .. m : 2^e <= m /\ m < 2^(e + 1)
IsPowerBit(i, d) == (d \div 2^i) % 2 = 1

\* alloc_all, then generate_simple_tree or generate_tree and the values.
alloc_all(m) ==
  LET lg == Log2(m) IN
  /\ n = m /\ log_n = lg
  /\ \E root \in {r \in [0 .. lg - 1 -> 0 .. m - 1] :
                      \A i \in 0 .. lg - 1 : r[i] \in RootKth(i)} :
       kth = [v \in 0 .. m - 1 |->
                IF v = 0 THEN root ELSE [i \in 0 .. lg - 1 |-> 0]]
  /\ \E d \in RootDepth : depth = [v \in 0 .. m - 1 |-> IF v = 0 THEN d ELSE 0]
  /\ sizes = [v \in 0 .. m - 1 |-> 0] /\ heavy = sizes
  /\ head = sizes /\ pos = sizes /\ cur_pos = 0

Init ==
  /\ \/ \E i \in Inputs : /\ alloc_all(i[1])
                          /\ adj = generate_tree(i[1], i[2], i[3])
                          /\ values \in Values(i[1])
     \/ \E t \in Trees : /\ alloc_all(Cardinality(DOMAIN t))
                         /\ adj = t
                         /\ values \in Values(n)
     \/ /\ Simple
        /\ alloc_all(SimpleSize)
        /\ adj = generate_simple_tree
        /\ values = [v \in 0 .. SimpleSize - 1 |-> v]
  /\ tree = <<>>
  /\ round = 0
  /\ updates = 0 /\ current = values
  /\ ans = NoAnswer

---------------------------------------------------------------------------
(* Preprocessing                                                           *)

\* The row kth[u] when v becomes the parent of u.
Lifted(k, u, v) ==
  LET row[i \in 0 .. log_n - 1] ==
        CASE i = 0 -> v
          [] i > 0 /\ row[i - 1] = u -> u
          [] OTHER -> k[row[i - 1]][i - 1]
  IN  row

\* Whether u takes over as v's heavy child.
Heavier(d, v, u) == d.heavy[v] = None \/ d.sizes[u] > d.sizes[d.heavy[v]]

\* dfs(v) on the tables d: kth, depth, sizes and heavy.
RECURSIVE dfs(_, _)
dfs(d, v) ==
  LET Child(e, u) ==
        LET below == dfs([e EXCEPT !.kth[u] = Lifted(e.kth, u, v),
                                   !.depth[u] = e.depth[v] + 1], u)
            grown == [below EXCEPT !.sizes[v] = @ + below.sizes[u]]
        IN  IF Heavier(grown, v, u) THEN [grown EXCEPT !.heavy[v] = u] ELSE grown
      Visit(e, u) == IF u = e.kth[v][0] THEN e ELSE Child(e, u)
  IN  FoldLeft(Visit, [d EXCEPT !.sizes[v] = 1, !.heavy[v] = None], adj[v])

\* Mutant: the heavy child is decomposed last.
RECURSIVE DecomposeHeavyLast(_, _, _, _)
DecomposeHeavyLast(d, c, v, h) ==
  LET own == [c EXCEPT !.head[v] = h, !.pos[v] = c.cur_pos, !.cur_pos = @ + 1]
      Visit(e, u) ==
        IF u \in {d.kth[v][0], d.heavy[v]} THEN e
        ELSE DecomposeHeavyLast(d, e, u, u)
      light == FoldLeft(Visit, own, adj[v])
  IN  IF d.heavy[v] = None THEN light
      ELSE DecomposeHeavyLast(d, light, d.heavy[v], h)

\* decompose(v, h) with dfs's tables d, on the tables c: head, pos, cur_pos.
RECURSIVE decompose(_, _, _, _)
decompose(d, c, v, h) ==
  LET own   == [c EXCEPT !.head[v] = h, !.pos[v] = c.cur_pos, !.cur_pos = @ + 1]
      chain == IF d.heavy[v] = None THEN own
               ELSE decompose(d, own, d.heavy[v], h)
      Visit(e, u) ==
        IF u \in {d.kth[v][0], d.heavy[v]} THEN e ELSE decompose(d, e, u, u)
  IN  FoldLeft(Visit, chain, adj[v])

\* dfs_values: the values in the order of pos, each write over the last.
DfsValues(p) ==
  FoldLeft(LAMBDA a, v : [a EXCEPT ![p[v - 1]] = values[v - 1]],
           [i \in Nodes |-> 0], Times(n))

\* Mutant: cur_pos goes on from the last round.
preprocess_no_reset ==
  /\ round < Rounds
  /\ LET d == dfs([kth |-> kth, depth |-> depth, sizes |-> sizes, heavy |-> heavy], 0)
         c == decompose(d, [head |-> head, pos |-> pos, cur_pos |-> cur_pos], 0, 0)
     IN  /\ kth' = d.kth /\ depth' = d.depth
         /\ sizes' = d.sizes /\ heavy' = d.heavy
         /\ head' = c.head /\ pos' = c.pos /\ cur_pos' = c.cur_pos
         /\ tree' = Construct(n, DfsValues(c.pos))
  /\ round' = round + 1
  /\ UNCHANGED <<input, history, ans>>

\* One round of preprocessing; the driver runs them all before it queries.
preprocess ==
  /\ round < Rounds
  /\ LET d == dfs([kth |-> kth, depth |-> depth, sizes |-> sizes, heavy |-> heavy], 0)
         c == decompose(d, [head |-> head, pos |-> pos, cur_pos |-> 0], 0, 0)
     IN  /\ kth' = d.kth /\ depth' = d.depth
         /\ sizes' = d.sizes /\ heavy' = d.heavy
         /\ head' = c.head /\ pos' = c.pos /\ cur_pos' = c.cur_pos
         /\ tree' = Construct(n, DfsValues(c.pos))
  /\ round' = round + 1
  /\ UNCHANGED <<input, history, ans>>

---------------------------------------------------------------------------
(* Queries                                                                 *)

Deeper(u, v)     == IF depth[u] < depth[v] THEN v ELSE u
Shallower(u, v)  == IF depth[u] < depth[v] THEN u ELSE v

\* Mutant: the loops over i start one jump too short.
ShortJumps == [i \in 1 .. log_n - 1 |-> log_n - 1 - i]

\* The exponents log_n - 1 .. 0 of the jumps, longest first.
Jumps == [i \in 1 .. log_n |-> log_n - i]

\* lca(u, v)
lca(u, v) ==
  LET low   == Deeper(u, v)
      high  == IF low = u THEN v ELSE u
      diff  == depth[low] - depth[high]
      level == FoldLeft(LAMBDA x, i : IF IsPowerBit(i, diff) THEN kth[x][i] ELSE x,
                        low, Jumps)
      both  == FoldLeft(LAMBDA p, i : IF kth[p[1]][i] # kth[p[2]][i]
                                      THEN <<kth[p[1]][i], kth[p[2]][i]>> ELSE p,
                        <<level, high>>, Jumps)
  IN  IF level = high THEN level ELSE kth[both[1]][0]

\* Climb from u chain by chain to the chain of top, adding up the chains on
\* the way: the node reached and the sum.
RECURSIVE ClimbTo(_, _, _)
ClimbTo(u, top, sum) ==
  IF head[u] = head[top] THEN [node |-> u, sum |-> sum]
  ELSE ClimbTo(kth[head[u]][0], top, Plus(sum, Query(tree, n, pos[u], pos[head[u]])))

\* query_path_old(u, v) with res accumulated so far: the node whose chain
\* starts deeper climbs.
RECURSIVE OldPath(_, _, _)
OldPath(u, v, res) ==
  IF head[u] = head[v]
  THEN Plus(res, Query(tree, n, pos[Shallower(v, u)], pos[Deeper(u, v)]))
  ELSE LET a == IF depth[head[u]] < depth[head[v]] THEN v ELSE u
           b == IF a = u THEN v ELSE u
       IN  OldPath(kth[head[a]][0], b,
                   Plus(res, Query(tree, n, pos[head[a]], pos[a])))

\* A query is called with no answer pending: the caller uses one before it
\* asks for the next.
Asked == round = Rounds /\ ans = NoAnswer
Answer(o, x, y, r) == ans' = [op |-> o, u |-> x, v |-> y, res |-> r]

query_path_old(u, v) ==
  /\ Asked
  /\ Answer("old", u, v, OldPath(u, v, 0))
  /\ UNCHANGED <<input, tables, tree, round, history>>

\* Mutant: the lowest common ancestor is counted for both branches.
query_path_double(u, v) ==
  /\ Asked
  /\ LET a == Least(u, v)   b == Greatest(u, v)   l == lca(a, b)
         left  == ClimbTo(a, l, 0)
         right == ClimbTo(b, l, 0)
     IN  Answer("new", u, v,
                Plus(Plus(left.sum, Query(tree, n, pos[left.node], pos[l])),
                     Plus(right.sum, Query(tree, n, pos[right.node], pos[l]))))
  /\ UNCHANGED <<input, tables, tree, round, history>>

\* query_path(u, v): values[lca_uv] is taken off because both climbs end in
\* a query that includes it.
query_path(u, v) ==
  /\ Asked
  /\ LET a == Least(u, v)   b == Greatest(u, v)   l == lca(a, b)
         left  == ClimbTo(a, l, 0)
         right == ClimbTo(b, l, 0)
     IN  Answer("new", u, v,
                Plus(Plus(Plus(left.sum, Query(tree, n, pos[left.node], pos[l])),
                          right.sum),
                     Query(tree, n, pos[right.node], pos[l]) - values[l]))
  /\ UNCHANGED <<input, tables, tree, round, history>>

\* The recursion of query(pos[l] + 1, pos[l]) for the last position never
\* ends: Crash stands for the overflow of the stack.
Crash == -2^(IntBits - 1) - 1

\* query_path_parallel(u, v): the second branch stops one short of the
\* lowest common ancestor.
query_path_parallel(u, v) ==
  /\ Asked
  /\ LET a == Least(u, v)   b == Greatest(u, v)   l == lca(a, b)
         left  == ClimbTo(a, l, 0)
         right == ClimbTo(b, l, 0)
         left_res  == Plus(left.sum, Query(tree, n, pos[l], pos[left.node]))
         right_res == Plus(right.sum, Query(tree, n, pos[l] + 1, pos[right.node]))
     IN  Answer("parallel", u, v,
                IF pos[l] + 1 = n THEN Crash ELSE Plus(left_res, right_res))
  /\ UNCHANGED <<input, tables, tree, round, history>>

\* update_node(u, val): values itself stays as it was.
update_node(u, val) ==
  /\ Asked /\ updates < MaxUpdates
  /\ tree' = Update(tree, n, pos[u], val)
  /\ current' = [current EXCEPT ![u] = val]
  /\ updates' = updates + 1
  /\ UNCHANGED <<input, tables, round, ans>>

\* The driver prints the answer and goes on.
UseAnswer ==
  /\ ans # NoAnswer
  /\ ans' = NoAnswer
  /\ UNCHANGED <<input, tables, tree, round, history>>

Next == \/ preprocess
        \/ UseAnswer
        \/ \E u, v \in Nodes : \/ query_path_old(u, v)
                               \/ query_path(u, v)
                               \/ query_path_parallel(u, v)
        \/ \E u \in Nodes, val \in NewVals : update_node(u, val)

Spec == Init /\ [][Next]_vars

---------------------------------------------------------------------------
(* The tree as it is, from adj alone: the root is 0 and a parent has a     *)
(* smaller number than its children.                                       *)

Parent(v) == CHOOSE u \in 0 .. v - 1 : \E i \in DOMAIN adj[v] : adj[v][i] = u

RECURSIVE Ancestors(_)
Ancestors(v) == {v} \cup (IF v = 0 THEN {} ELSE Ancestors(Parent(v)))

LowestCommon(u, v) == Max(Ancestors(u) \cap Ancestors(v))
\* All jumps together climb 2^log_n - 1 levels.
LevelOf(v) == Cardinality(Ancestors(v))
InReach(u, v) == Greatest(LevelOf(u), LevelOf(v)) - Least(LevelOf(u), LevelOf(v)) < 2^log_n
Path(u, v) == {w \in Ancestors(u) \cup Ancestors(v) :
                 w \in Ancestors(u) \cap Ancestors(v) => w = LowestCommon(u, v)}
Subtree(v) == {w \in Nodes : v \in Ancestors(w)}
PathSum(u, v) == Wrap(FoldFunctionOnSet(+, 0, current, Path(u, v)))

\* What preprocess has left, before a query, which changes none of it.
Preprocessed == round > 0 /\ ans = NoAnswer

\* The tables have their types and every table index is a node.
TypeOK ==
  /\ kth \in [Nodes -> [0 .. log_n - 1 -> Nodes]]
  /\ sizes \in [Nodes -> 0 .. n] /\ heavy \in [Nodes -> Nodes \cup {None}]
  /\ head \in [Nodes -> Nodes] /\ pos \in [Nodes -> Nodes] /\ cur_pos \in 0 .. n
  /\ round \in 0 .. Rounds

\* "Finds the LCA of nodes u and v": with log_n = floor(log2 n) jumps, the
\* longest of 2^(log_n - 1), lca reaches every ancestor it may need, whatever
\* the unwritten entries of the root hold, on every tree the programs make.
\* On other trees it does so for nodes less than 2^log_n levels apart, which
\* those of a tree of 2^log_n + 1 levels or more need not be.
LcaIsLowest ==
  Preprocessed =>
    \A u, v \in Nodes :
      adj \notin Trees \/ InReach(u, v) => lca(u, v) = LowestCommon(u, v)

\* README, "Keeps chains intact in the segment-tree array": pos places the
\* nodes one to one, and each chain runs down the tree from its head in
\* consecutive places.  README, "This approach guarantees we end up with a
\* maximum of O(log n) chains": whoever climbs from one chain to the next finds
\* a subtree of more than twice the size, so no path meets more than log_n + 1.
ChainsIntact ==
  /\ TypeOK
  /\ Preprocessed =>
       /\ {pos[v] : v \in Nodes} = Nodes
       /\ \A v \in Nodes :
            /\ \/ head[v] = v
               \/ head[v] = head[Parent(v)] /\ pos[v] = pos[Parent(v)] + 1
            /\ sizes[v] = Cardinality(Subtree(v))
            /\ v # 0 /\ head[v] = v => sizes[Parent(v)] > 2 * sizes[v]

\* The driver's further rounds of preprocessing find the tables they leave.
RoundsAgree ==
  [][preprocess /\ round > 0 => UNCHANGED <<tables, tree>>]_vars

\* query_path_old adds up the values on the path between u and v, as the
\* updates left them; the others do so as far as lca reaches: query_path as long
\* as nobody updated the lowest common ancestor; query_path_parallel, updates or
\* not, when the branch of the larger node leaves that ancestor along its chain.
PathSums ==
  LET l == LowestCommon(ans.u, ans.v) IN
  (\/ ans.op = "old"
   \/ /\ InReach(ans.u, ans.v)
      /\ \/ ans.op = "new" /\ current[l] = values[l]
         \/ ans.op = "parallel" /\ heavy[l] \in Ancestors(Greatest(ans.u, ans.v)))
  => ans.res = PathSum(ans.u, ans.v)

\* "Verified to give the same results as query_path_old" (serial_hld.cpp,
\* above query_path): whatever query_path answers is the answer of
\* query_path_old in the same state.
SameAsOld == ans.op = "new" => ans.res = OldPath(ans.u, ans.v, 0)

\* "Parallelized version of above" (serial_hld.cpp, above query_path_parallel):
\* its answer, too, is that of query_path_old in the same state.
SameInParallel == ans.op = "parallel" => ans.res = OldPath(ans.u, ans.v, 0)
=============================================================================
