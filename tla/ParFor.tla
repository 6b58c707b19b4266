------------------------------- MODULE ParFor -------------------------------
(***************************************************************************)
(* One parallel loop: parallel_for (parlay/parallel.h) with parfor,        *)
(* get_granularity and parfor_ (parlay/scheduler.h).                       *)
(*                                                                         *)
(* A call of parfor_ has a range of indices.  It either runs its loop, one *)
(* index a step, or hands the two parts of its range to pardo.  ForkJoin   *)
(* shows that pardo runs both in some order or at once, so any call that   *)
(* has been made may take the next step.                                   *)
(*                                                                         *)
(* size_t counts modulo SizeMod; a range that ends before it starts is one *)
(* the caller may pass.                                                    *)
(***************************************************************************)
EXTENDS Integers

CONSTANTS
  SizeMod,      \* 2^64 in the code
  num_threads,
  Loops         \* the <<start, end, granularity>> a caller may pass

\* Loops so long that 9 * (n + 1) overflows size_t are left out; a negative
\* granularity arrives as a large one.
ASSUME SizeAssumption ==
  /\ SizeMod \in Nat \ {0} /\ num_threads \in Nat \ {0}
  /\ Loops \subseteq Nat \X Nat \X Nat
  /\ \A l \in Loops : 9 * (l[2] - l[1] + 1) < SizeMod

VARIABLES
  loop,         \* the arguments <<start, end, granularity>> of the call
  calls,        \* the calls of parfor_, or plain loops, still to be finished
  granularity,  \* as parfor passes it on
  batch,        \* get_granularity's current batch; none once it is done
  runs          \* history: how often the body has run, by index

vars == <<loop, calls, granularity, batch, runs>>

start == loop[1]
end   == loop[2]

Indices == start .. end - 1
States  == {"fork", "loop"}
Call(lo, hi, s) == [lo |-> lo, hi |-> hi, at |-> s]

\* next .. stop - 1 is what is left of a batch of sz indices.
NoBatch == [on |-> FALSE, next |-> 0, stop |-> 0, sz |-> 0]
Batch(from, sz) ==
  LET least == IF sz <= end - from THEN sz ELSE end - from
  IN  [on |-> TRUE, next |-> from, stop |-> from + least, sz |-> least]

\* parallel_for(s, e, f, g), up to the first index: a single index and a range
\* of at most g run at once; the rest goes to parfor, which measures the body
\* if the granularity is 0.
parallel_for(s, e, g) ==
  /\ loop = <<s, e, g>>
  /\ runs = [i \in s .. e - 1 |-> 0]
  /\ granularity = g
  /\ LET short == s + 1 = e \/ (e - s) % SizeMod <= g IN
       /\ calls = CASE short -> {Call(s, e, "loop")}
                    [] ~short /\ s < e /\ g # 0 -> {Call(s, e, "fork")}
                    [] OTHER -> {}
       /\ batch = IF ~short /\ s < e /\ g = 0 THEN Batch(s, 1) ELSE NoBatch

Init == \E l \in Loops : parallel_for(l[1], l[2], l[3])

Body(i) == runs' = [runs EXCEPT ![i] = @ + 1]

---------------------------------------------------------------------------
(* get_granularity                                                         *)

ProbeBody ==
  /\ batch.on /\ batch.next < batch.stop
  /\ Body(batch.next)
  /\ batch' = [batch EXCEPT !.next = @ + 1]
  /\ UNCHANGED <<loop, calls, granularity>>

\* The batch took less than 1000 ns, and the next one is twice as long.
ProbeAgain ==
  /\ batch.on /\ batch.next = batch.stop /\ batch.stop < end
  /\ batch' = Batch(batch.stop, 2 * batch.sz)
  /\ UNCHANGED <<loop, calls, granularity, runs>>

\* Mutant: the measured indices are handed to parfor_ as well.
ProbeForgotten ==
  /\ batch.on /\ batch.next = batch.stop
  /\ LET done   == batch.stop - start
         spread == (end - start) \div (128 * num_threads)
     IN  granularity' = IF done >= spread THEN done ELSE spread
  /\ calls' = {Call(start, end, "fork")}
  /\ batch' = NoBatch
  /\ UNCHANGED <<loop, runs>>

\* It took longer, or the range is done: parfor goes on with the rest.
ProbeDone ==
  /\ batch.on /\ batch.next = batch.stop
  /\ LET done   == batch.stop - start
         spread == (end - start) \div (128 * num_threads)
     IN  granularity' = IF done >= spread THEN done ELSE spread
  /\ calls' = {Call(batch.stop, end, "fork")}
  /\ batch' = NoBatch
  /\ UNCHANGED <<loop, runs>>

---------------------------------------------------------------------------
(* parfor_                                                                 *)

\* Mutant: the split is rounded up.
MidUp(c) == c.lo + ((9 * (c.hi - c.lo + 1) + 15) % SizeMod) \div 16

\* Not in the middle, to spread out over the sets of a cache.
Mid(c) == c.lo + ((9 * (c.hi - c.lo + 1)) % SizeMod) \div 16

Sequential(c) ==
  /\ c.at = "fork" /\ c.hi - c.lo <= granularity
  /\ calls' = (calls \ {c}) \cup {[c EXCEPT !.at = "loop"]}
  /\ UNCHANGED <<loop, granularity, batch, runs>>

\* Mutant: both parts get the index at the split.
ForkBoth(c) ==
  /\ c.at = "fork" /\ c.hi - c.lo > granularity
  /\ calls' = (calls \ {c}) \cup {Call(c.lo, Mid(c) + 1, "fork"),
                                  Call(Mid(c), c.hi, "fork")}
  /\ UNCHANGED <<loop, granularity, batch, runs>>

Fork(c) ==
  /\ c.at = "fork" /\ c.hi - c.lo > granularity
  /\ calls' = (calls \ {c}) \cup {Call(c.lo, Mid(c), "fork"),
                                  Call(Mid(c), c.hi, "fork")}
  /\ UNCHANGED <<loop, granularity, batch, runs>>

LoopBody(c) ==
  /\ c.at = "loop" /\ c.lo < c.hi
  /\ Body(c.lo)
  /\ calls' = (calls \ {c}) \cup {[c EXCEPT !.lo = @ + 1]}
  /\ UNCHANGED <<loop, granularity, batch>>

LoopDone(c) ==
  /\ c.at = "loop" /\ c.lo >= c.hi
  /\ calls' = calls \ {c}
  /\ UNCHANGED <<loop, granularity, batch, runs>>

Returned == calls = {} /\ ~batch.on

Step == \/ ProbeBody \/ ProbeAgain \/ ProbeDone
        \/ \E c \in calls : \/ Sequential(c) \/ Fork(c)
                            \/ LoopBody(c) \/ LoopDone(c)

Next == Step \/ (Returned /\ UNCHANGED vars)

\* Every call that has been made is run by some worker.
Spec == Init /\ [][Next]_vars /\ WF_vars(Step)

---------------------------------------------------------------------------
\* Ranges lie inside the loop's.  A call that forks has two indices at least,
\* so both its parts are shorter.
TypeOK ==
  /\ loop \in Loops
  /\ calls \subseteq [lo : Nat, hi : Nat, at : States]
  /\ granularity \in Nat
  /\ batch \in [on : BOOLEAN, next : Nat, stop : Nat, sz : Nat]
  /\ runs \in [Indices -> Nat]

Waits(i) == \/ \E c \in calls : c.lo <= i /\ i < c.hi
            \/ batch.on /\ batch.next <= i

\* "iterate from start (inclusive) to end (exclusive)": no index is lost or
\* run twice, whatever the body's time and the order of the calls.  An index
\* has run once, or is still in a range that waits, never both.
EachOnce == \A i \in Indices : runs[i] = IF Waits(i) THEN 0 ELSE 1

Apart(c, d) == c.hi <= d.lo \/ d.hi <= c.lo \/ c.lo >= c.hi \/ d.lo >= d.hi

\* What makes EachOnce inductive: the ranges are inside the loop's and apart.
Ranges ==
  /\ \A c \in calls : /\ start <= c.lo /\ (c.hi <= end \/ c.lo >= c.hi)
                      /\ c.at = "fork" => granularity >= 1 /\ c.lo <= c.hi
  /\ \A c, d \in calls : c # d => Apart(c, d)
  /\ batch.on => /\ calls = {} /\ start <= batch.next
                 /\ batch.next <= batch.stop /\ batch.stop <= end
                 /\ start < batch.stop

IInv == TypeOK /\ Ranges /\ EachOnce

\* The call returns.
Returns == <>Returned
=============================================================================
