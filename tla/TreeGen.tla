------------------------------ MODULE TreeGen ------------------------------
(***************************************************************************)
(* The trees the program runs on (tree.cpp), as adjacency lists: a         *)
(* function from the nodes 0 .. n - 1 to the sequence of each one's        *)
(* neighbours in the order they were added.                                *)
(***************************************************************************)
EXTENDS Integers, Sequences, SequencesExt

NoEdges(n) == [v \in 0 .. n - 1 |-> <<>>]

add_child(adj, parent, child) ==
  [adj EXCEPT ![parent] = Append(@, child), ![child] = Append(@, parent)]

Times(m) == [i \in 1 .. m |-> i]

\* The generator's state: the lists, num_nodes and the queue of nodes that
\* still get children.  The oldest of them gets k, or as many as are left.
Adopt(g, n, k) ==
  LET last  == IF g.num + k <= n THEN g.num + k ELSE n
      fresh == [l \in 1 .. last - g.num |-> g.num + l - 1]
  IN  [adj |-> FoldLeft(LAMBDA a, c : add_child(a, Head(g.q), c), g.adj, fresh),
       num |-> last,
       q   |-> Tail(g.q) \o fresh]

\* One round of the outer loop: level_size nodes get their children.
Level(g, n, k) ==
  LET size == (IF g.num * k <= n THEN g.num * k ELSE n) - g.num
  IN  FoldLeft(LAMBDA s, j : Adopt(s, n, k), g, Times(size))

generate_tree(n, k, h) ==
  IF n = 0 \/ k = 0 THEN NoEdges(n)
  ELSE FoldLeft(LAMBDA g, i : Level(g, n, k),
                [adj |-> NoEdges(n), num |-> 1, q |-> <<0>>], Times(h)).adj

\* The example in the comment of generate_simple_tree, whose node v has the
\* value v.
SimpleSize == 11
generate_simple_tree ==
  FoldLeft(LAMBDA a, e : add_child(a, e[1], e[2]), NoEdges(SimpleSize),
           << <<0, 1>>, <<0, 2>>, <<1, 3>>, <<1, 4>>, <<2, 5>>,
              <<3, 6>>, <<3, 7>>, <<3, 8>>, <<4, 9>>, <<4, 10>> >>)
=============================================================================
