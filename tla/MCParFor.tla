---------------------------- MODULE MCParFor --------------------------------
(* Loops of up to nine indices, empty and backward ones among them; 254 is  *)
(* a granularity of -2.  Ranges of up to seven elements in blocks of any    *)
(* size up to one longer.                                                   *)
EXTENDS BlockedFor

\* What parallel_for's callers pass, and what blocked_for does.
MCLoops  == {<<1, e, g>> : e \in {0, 1, 2, 3, 4, 6}, g \in {0, 1, 2}}
            \cup {<<0, 9, 4>>, <<0, 8, 0>>, <<2, 5, 254>>}
            \cup {<<0, n, 0>> : n \in 0 .. 7}
MCRanged == {<<s, e, b>> : s \in {0, 2}, e \in {1, 2, 3, 5, 7}, b \in {1, 2, 3, 8}}
=============================================================================
