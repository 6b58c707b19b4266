----------------------------- MODULE MCForkJoin -----------------------------
(* Trees of nested calls on three workers.  A node's children are numbered  *)
(* after it, so the functions below are the whole program.                  *)
EXTENDS ForkJoin

CONSTANTS w0, w1, w2
MCWorkers == {w0, w1, w2}

\* Every child of the root forks, and one of the right grandchildren again.
MCTasks == 1 .. 9
MCForks == {1, 2, 3, 5}
MCLeft  == [f \in MCForks |-> CASE f = 1 -> 2 [] f = 2 -> 4 [] f = 3 -> 6 [] f = 5 -> 8]
MCRight == [f \in MCForks |-> MCLeft[f] + 1]
MCConservative == {3}
=============================================================================
