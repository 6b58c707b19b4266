------------------------------ MODULE DynArray ------------------------------
(***************************************************************************)
(* What a sequence promises: arrays of any length, each changed by one call*)
(* at a time.  A call is [op, s, t, pos, end, vals, ret]: on array s, with *)
(* another array t, at places pos and end, counted from 0, with the values *)
(* vals, returning ret.                                                    *)
(***************************************************************************)
EXTENDS Integers, SequencesExt

CONSTANTS Names, Moved   \* the arrays; what is left of an element moved away
VARIABLES arr, call

\* a with the elements from pos on, up to end, replaced by vals.
Spliced(a, pos, end, vals) == SubSeq(a, 1, pos) \o vals \o SubSeq(a, end + 1, Len(a))
Copies(v, n) == [i \in 1 .. n |-> v]
Husk(a)      == {<<>>, Copies(Moved, Len(a)), a}

\* What a call leaves, given that it was made on a.
Effect(a, c) ==
  LET s == a[c.s]
      Becomes(x) == {[a EXCEPT ![c.s] = x]}
  IN
  CASE c.op \in {"construct", "assign"} -> Becomes(c.vals)
    [] c.op = "clear"         -> Becomes(<<>>)
    [] c.op = "copy"          -> Becomes(a[c.t])
    [] c.op = "move"          -> {[a EXCEPT ![c.s] = a[c.t], ![c.t] = <<>>]}
    [] c.op = "swap"          -> {[a EXCEPT ![c.s] = a[c.t], ![c.t] = s]}
    [] c.op = "append"        -> Becomes(s \o c.vals)
    [] c.op = "append_moving" -> {[a EXCEPT ![c.s] = s \o a[c.t], ![c.t] = h] : h \in Husk(a[c.t])}
    [] c.op = "insert"        -> Becomes(Spliced(s, c.pos, c.pos, c.vals))
    [] c.op = "erase"         -> Becomes(Spliced(s, c.pos, c.end, <<>>))
    [] c.op = "resize"        -> Becomes([k \in 1 .. c.end |-> IF k <= Len(s) THEN s[k] ELSE c.vals[1]])
    [] c.op = "pop_tail"      -> {[a EXCEPT ![c.s] = SubSeq(s, 1, c.pos),
                                            ![c.t] = SubSeq(s, c.pos + 1, Len(s))]}
    [] c.op \in {"none", "reserve", "equal"} -> {a}

\* What a call returns: the place of what it put in, or of what came after
\* what it took out, or whether two arrays are equal.
Answer(a, c) ==
  CASE c.op \in {"append", "append_moving"} -> Len(a[c.s])
    [] c.op \in {"insert", "erase"}         -> c.pos
    [] c.op = "equal" -> IF a[c.s] = a[c.t] THEN 1 ELSE 0
    [] OTHER          -> 0

Init == arr = [s \in Names |-> <<>>] /\ call.op = "none"
Next == arr' \in Effect(arr, call') /\ call'.ret = Answer(arr, call')
Spec == Init /\ [][Next]_<<arr, call>>
=============================================================================
