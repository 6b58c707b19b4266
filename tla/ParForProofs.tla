--------------------------- MODULE ParForProofs ---------------------------
(***************************************************************************)
(* Proofs about ParFor and BlockedFor: a parallel loop runs its body once  *)
(* for each index, and blocked_for covers each element of its range once,  *)
(* for every range, granularity or block size, number of threads and width *)
(* of size_t, whatever time the body takes and in whatever order the calls *)
(* are made.                                                               *)
(***************************************************************************)
EXTENDS BlockedFor, TLAPS

\* What the arguments of the call are.
LEMMA LoopFacts ==
  ASSUME loop \in Loops
  PROVE  /\ start \in Nat /\ end \in Nat
         /\ 9 * (end - start + 1) < SizeMod
         /\ SizeMod \in Nat /\ SizeMod > 0
<1>1. loop \in Nat \X Nat \X Nat /\ 9 * (loop[2] - loop[1] + 1) < SizeMod
  BY SizeAssumption
<1> QED
  BY <1>1, SizeAssumption DEF start, end

LEMMA SmallMod ==
  ASSUME NEW m \in Nat, NEW x \in Nat, x < m
  PROVE  x % m = x
  OBVIOUS

LEMMA NineSixteenths ==
  ASSUME NEW n \in Nat, n > 1
  PROVE  (9 * (n + 1)) \div 16 \in 1 .. n - 1
  OBVIOUS

\* The split is strictly inside a range of two indices or more.
LEMMA MidInside ==
  ASSUME loop \in Loops, NEW c \in calls, c.lo \in Nat, c.hi \in Nat,
         start <= c.lo, c.hi <= end, c.hi - c.lo > 1
  PROVE  Mid(c) \in Nat /\ c.lo < Mid(c) /\ Mid(c) < c.hi
<1> DEFINE n == c.hi - c.lo
<1>1. n \in Nat /\ n > 1
  OBVIOUS
<1>2. 9 * (n + 1) \in Nat /\ 9 * (n + 1) < SizeMod /\ SizeMod \in Nat
  BY LoopFacts
<1>3. (9 * (n + 1)) % SizeMod = 9 * (n + 1)
  BY <1>2, SmallMod
<1>4. (9 * (n + 1)) \div 16 \in 1 .. n - 1
  BY <1>1, NineSixteenths
<1>5. Mid(c) = c.lo + (9 * (n + 1)) \div 16
  BY <1>3 DEF Mid
<1> QED
  BY <1>1, <1>4, <1>5

---------------------------------------------------------------------------
LEMMA InitIInv == Init => IInv
<1> SUFFICES ASSUME NEW l \in Loops, parallel_for(l[1], l[2], l[3]) PROVE IInv
  BY DEF Init
<1>1. l \in Nat \X Nat \X Nat /\ l = <<l[1], l[2], l[3]>>
  BY SizeAssumption
<1>2. loop = l /\ start = l[1] /\ end = l[2] /\ loop \in Loops
  BY <1>1 DEF parallel_for, start, end
<1>3. start \in Nat /\ end \in Nat /\ granularity = l[3] /\ granularity \in Nat
  BY <1>1, <1>2 DEF parallel_for
<1>4. runs = [i \in Indices |-> 0]
  BY <1>2 DEF parallel_for, Indices
<1> DEFINE short == start + 1 = end \/ (end - start) % SizeMod <= granularity
<1>5. /\ calls = CASE short -> {Call(start, end, "loop")}
                   [] ~short /\ start < end /\ granularity # 0 ->
                        {Call(start, end, "fork")}
                   [] OTHER -> {}
      /\ batch = IF ~short /\ start < end /\ granularity = 0
                 THEN Batch(start, 1) ELSE NoBatch
  BY <1>2, <1>3 DEF parallel_for
<1>6. CASE short
  <2>1. calls = {Call(start, end, "loop")} /\ batch = NoBatch
    BY <1>5, <1>6
  <2>2. TypeOK
    BY <1>2, <1>3, <1>4, <2>1 DEF TypeOK, Call, NoBatch, States
  <2>3. Ranges
    BY <1>3, <2>1 DEF Ranges, Call, NoBatch
  <2>4. EachOnce
    BY <1>3, <1>4, <2>1 DEF EachOnce, Waits, Call, Indices
  <2> QED
    BY <2>2, <2>3, <2>4 DEF IInv
<1>7. CASE ~short /\ start < end /\ granularity # 0
  <2>1. calls = {Call(start, end, "fork")} /\ batch = NoBatch
    BY <1>5, <1>7
  <2>2. TypeOK
    BY <1>2, <1>3, <1>4, <2>1 DEF TypeOK, Call, NoBatch, States
  <2>3. Ranges
    BY <1>3, <1>7, <2>1 DEF Ranges, Call, NoBatch
  <2>4. EachOnce
    BY <1>3, <1>4, <2>1 DEF EachOnce, Waits, Call, Indices
  <2> QED
    BY <2>2, <2>3, <2>4 DEF IInv
<1>8. CASE ~short /\ start < end /\ granularity = 0
  <2>1. calls = {} /\ batch = Batch(start, 1)
    BY <1>5, <1>8
  <2>2. batch = [on |-> TRUE, next |-> start, stop |-> start + 1, sz |-> 1]
    <3>1. start < end /\ 1 <= end - start
      BY <1>3, <1>8
    <3> QED
      BY <2>1, <3>1 DEF Batch
  <2>3. TypeOK
    <3>1. start + 1 \in Nat /\ 1 \in Nat /\ TRUE \in BOOLEAN
      BY <1>3
    <3>2. batch \in [on : BOOLEAN, next : Nat, stop : Nat, sz : Nat]
      BY <1>3, <2>2, <3>1
    <3> QED
      BY <1>2, <1>3, <1>4, <2>1, <3>2 DEF TypeOK
  <2>4. Ranges
    BY <1>3, <1>8, <2>1, <2>2 DEF Ranges
  <2>5. EachOnce
    BY <1>3, <1>4, <2>1, <2>2 DEF EachOnce, Waits, Indices
  <2> QED
    BY <2>3, <2>4, <2>5 DEF IInv
<1>9. CASE ~short /\ ~(start < end)
  <2>1. calls = {} /\ batch = NoBatch
    BY <1>5, <1>9
  <2>2. TypeOK
    BY <1>2, <1>3, <1>4, <2>1 DEF TypeOK, NoBatch
  <2>3. Ranges
    BY <2>1 DEF Ranges, NoBatch
  <2>4. EachOnce
    BY <1>3, <1>9 DEF EachOnce, Indices
  <2> QED
    BY <2>2, <2>3, <2>4 DEF IInv
<1> QED
  BY <1>3, <1>6, <1>7, <1>8, <1>9

---------------------------------------------------------------------------
(* The steps.  RunsOne is what ProbeBody and LoopBody have in common: one  *)
(* waiting index runs and waits no more.                                   *)

LEMMA RunsOne ==
  ASSUME IInv, loop' = loop, NEW i \in Indices, Waits(i), Body(i),
         \A j \in Indices : Waits(j)' <=> Waits(j) /\ j # i
  PROVE  EachOnce' /\ runs' \in [Indices' -> Nat]
<1>1. Indices' = Indices
  BY DEF Indices, start, end
<1>2. runs \in [Indices -> Nat] /\ runs[i] = 0
  BY DEF IInv, TypeOK, EachOnce
<1>3. runs' = [runs EXCEPT ![i] = 1]
  BY <1>2 DEF Body
<1> QED
  BY <1>1, <1>2, <1>3 DEF IInv, EachOnce

\* Where nothing runs, the same indices wait.
LEMMA RunsNone ==
  ASSUME IInv, loop' = loop, runs' = runs,
         \A j \in Indices : Waits(j)' <=> Waits(j)
  PROVE  EachOnce' /\ runs' \in [Indices' -> Nat]
<1>1. Indices' = Indices
  BY DEF Indices, start, end
<1> QED
  BY <1>1 DEF IInv, EachOnce, TypeOK

LEMMA ProbeBodyInv == IInv /\ ProbeBody => IInv'
<1> SUFFICES ASSUME IInv, ProbeBody PROVE IInv'
  OBVIOUS
<1>1. /\ start \in Nat /\ end \in Nat /\ start' = start /\ end' = end
      /\ batch \in [on : BOOLEAN, next : Nat, stop : Nat, sz : Nat]
      /\ batch.on /\ batch.next < batch.stop /\ calls = {}
      /\ start <= batch.next /\ batch.stop <= end
  BY LoopFacts DEF IInv, TypeOK, Ranges, ProbeBody, start, end
<1>2. /\ batch' = [batch EXCEPT !.next = batch.next + 1]
      /\ Body(batch.next) /\ UNCHANGED <<loop, calls, granularity>>
  BY DEF ProbeBody
<1>3. /\ batch' \in [on : BOOLEAN, next : Nat, stop : Nat, sz : Nat]
      /\ batch'.on = batch.on /\ batch'.stop = batch.stop
      /\ batch'.next = batch.next + 1
  <2>1. batch.next + 1 \in Nat
    BY <1>1
  <2> QED
    BY <1>1, <1>2, <2>1
<1>4. batch.next \in Indices /\ Waits(batch.next)
  BY <1>1 DEF Indices, Waits
<1>5. \A j \in Indices : Waits(j)' <=> Waits(j) /\ j # batch.next
  BY <1>1, <1>2, <1>3 DEF Waits, Indices
<1>6. EachOnce' /\ runs' \in [Indices' -> Nat]
  BY <1>2, <1>4, <1>5, RunsOne
<1>7. TypeOK'
  BY <1>2, <1>3, <1>6 DEF IInv, TypeOK
<1>8. Ranges'
  BY <1>1, <1>2, <1>3 DEF IInv, Ranges
<1> QED
  BY <1>6, <1>7, <1>8 DEF IInv

LEMMA ProbeAgainInv == IInv /\ ProbeAgain => IInv'
<1> SUFFICES ASSUME IInv, ProbeAgain PROVE IInv'
  OBVIOUS
<1>1. /\ start \in Nat /\ end \in Nat /\ start' = start /\ end' = end
      /\ batch \in [on : BOOLEAN, next : Nat, stop : Nat, sz : Nat]
      /\ batch.on /\ batch.next = batch.stop /\ calls = {}
      /\ start < batch.stop /\ batch.stop < end
  BY LoopFacts DEF IInv, TypeOK, Ranges, ProbeAgain, start, end
<1>2. /\ batch' = Batch(batch.stop, 2 * batch.sz)
      /\ UNCHANGED <<loop, calls, granularity, runs>>
  BY DEF ProbeAgain
<1> DEFINE left == end - batch.stop
           size == IF 2 * batch.sz <= left THEN 2 * batch.sz ELSE left
<1>3. /\ size \in Nat /\ batch.stop + size <= end /\ batch.stop \in Nat
      /\ batch' = [on |-> TRUE, next |-> batch.stop,
                   stop |-> batch.stop + size, sz |-> size]
  <2>1. batch.sz \in Nat /\ batch.stop \in Nat /\ left \in Nat
    BY <1>1
  <2> QED
    BY <1>1, <1>2, <2>1 DEF Batch
<1>a. /\ batch' \in [on : BOOLEAN, next : Nat, stop : Nat, sz : Nat]
      /\ batch'.on /\ batch'.next = batch.stop
      /\ batch'.stop = batch.stop + size
  <2>1. batch.stop + size \in Nat
    BY <1>3
  <2> HIDE DEF size
  <2> QED
    BY <1>3, <2>1
<1> HIDE DEF size
<1>4. \A j \in Indices : Waits(j)' <=> Waits(j)
  BY <1>1, <1>2, <1>a DEF Waits
<1>5. EachOnce' /\ runs' \in [Indices' -> Nat]
  BY <1>2, <1>4, RunsNone
<1>6. TypeOK'
  BY <1>2, <1>5, <1>a DEF IInv, TypeOK
<1>7. Ranges'
  BY <1>1, <1>2, <1>3, <1>a DEF Ranges
<1> QED
  BY <1>5, <1>6, <1>7 DEF IInv

LEMMA ProbeDoneInv == IInv /\ ProbeDone => IInv'
<1> SUFFICES ASSUME IInv, ProbeDone PROVE IInv'
  OBVIOUS
<1>1. /\ start \in Nat /\ end \in Nat /\ start' = start /\ end' = end
      /\ batch \in [on : BOOLEAN, next : Nat, stop : Nat, sz : Nat]
      /\ batch.on /\ batch.next = batch.stop /\ calls = {}
      /\ start < batch.stop /\ batch.stop <= end
  BY LoopFacts DEF IInv, TypeOK, Ranges, ProbeDone, start, end
<1>2. /\ calls' = {Call(batch.stop, end, "fork")} /\ batch' = NoBatch
      /\ UNCHANGED <<loop, runs>>
  BY DEF ProbeDone
<1> DEFINE done == batch.stop - start
           spread == (end - start) \div (128 * num_threads)
<1>3. granularity' = IF done >= spread THEN done ELSE spread
  BY DEF ProbeDone
<1>4. done \in Nat /\ done >= 1
  BY <1>1
<1>5. spread \in Nat
  <2>1. 128 * num_threads \in Nat \ {0} /\ end - start \in Nat
    BY <1>1, SizeAssumption
  <2> QED
    BY <2>1
<1>6. granularity' \in Nat /\ granularity' >= 1
  <2> HIDE DEF done, spread
  <2> QED
    BY <1>3, <1>4, <1>5
<1>7. \A j \in Indices : Waits(j)' <=> Waits(j)
  BY <1>1, <1>2 DEF Waits, Indices, Call, NoBatch
<1>8. EachOnce' /\ runs' \in [Indices' -> Nat]
  BY <1>2, <1>7, RunsNone
<1>9. TypeOK'
  BY <1>1, <1>2, <1>6, <1>8 DEF IInv, TypeOK, Call, NoBatch, States
<1>10. Ranges'
  BY <1>1, <1>2, <1>6 DEF Ranges, Call, NoBatch
<1> QED
  BY <1>8, <1>9, <1>10 DEF IInv

\* A call that runs its range in a plain loop.
LEMMA SequentialInv ==
  ASSUME IInv, NEW c \in calls, Sequential(c)
  PROVE  IInv'
<1> DEFINE d == [c EXCEPT !.at = "loop"]
<1>1. /\ calls' = (calls \ {c}) \cup {d}
      /\ UNCHANGED <<loop, granularity, batch, runs>>
      /\ start' = start /\ end' = end
  BY DEF Sequential, start, end
<1>2. c \in [lo : Nat, hi : Nat, at : States]
  BY DEF IInv, TypeOK
<1>3. /\ d \in [lo : Nat, hi : Nat, at : States]
      /\ d.lo = c.lo /\ d.hi = c.hi /\ d.at = "loop"
  BY <1>2 DEF States
<1> HIDE DEF d
<1>4. \A j \in Indices : Waits(j)' <=> Waits(j)
  BY <1>1, <1>3 DEF Waits
<1>5. EachOnce' /\ runs' \in [Indices' -> Nat]
  BY <1>1, <1>4, RunsNone
<1>6. TypeOK'
  BY <1>1, <1>3, <1>5 DEF IInv, TypeOK
<1>7. Ranges'
  BY <1>1, <1>3 DEF IInv, Ranges, Apart
<1> QED
  BY <1>5, <1>6, <1>7 DEF IInv

\* A call that forks: its two parts cover its range and do not overlap.
LEMMA ForkInv ==
  ASSUME IInv, NEW c \in calls, Fork(c)
  PROVE  IInv'
<1> DEFINE m == Mid(c)
           l == Call(c.lo, m, "fork")
           r == Call(m, c.hi, "fork")
<1>1. /\ calls' = (calls \ {c}) \cup {l, r}
      /\ c.at = "fork" /\ c.hi - c.lo > granularity
      /\ UNCHANGED <<loop, granularity, batch, runs>>
      /\ start' = start /\ end' = end
  BY DEF Fork, start, end
<1>2. /\ c.lo \in Nat /\ c.hi \in Nat /\ granularity \in Nat
      /\ start \in Nat /\ end \in Nat /\ loop \in Loops
  BY LoopFacts DEF IInv, TypeOK
<1>3. start <= c.lo /\ granularity >= 1 /\ c.lo <= c.hi
  BY <1>1 DEF IInv, Ranges
<1>4. c.hi <= end /\ c.hi - c.lo > 1
  <2>1. c.hi <= end \/ c.lo >= c.hi
    BY DEF IInv, Ranges
  <2> QED
    BY <1>1, <1>2, <1>3, <2>1
<1>5. m \in Nat /\ c.lo < m /\ m < c.hi
  BY <1>2, <1>3, <1>4, MidInside
<1>6. /\ l.lo = c.lo /\ l.hi = m /\ l.at = "fork"
      /\ r.lo = m /\ r.hi = c.hi /\ r.at = "fork"
      /\ l \in [lo : Nat, hi : Nat, at : States]
      /\ r \in [lo : Nat, hi : Nat, at : States]
  BY <1>2, <1>5 DEF Call, States
<1> HIDE DEF m, l, r
<1>7. \A j \in Indices : Waits(j)' <=> Waits(j)
  <2> SUFFICES ASSUME NEW j \in Indices PROVE Waits(j)' <=> Waits(j)
    OBVIOUS
  <2>1. j \in Int
    BY DEF Indices
  <2>2. c.lo <= j /\ j < c.hi <=> \/ l.lo <= j /\ j < l.hi
                                  \/ r.lo <= j /\ j < r.hi
    BY <1>2, <1>5, <1>6, <2>1
  <2> QED
    BY <1>1, <2>2 DEF Waits
<1>8. EachOnce' /\ runs' \in [Indices' -> Nat]
  BY <1>1, <1>7, RunsNone
<1>9. TypeOK'
  BY <1>1, <1>6, <1>8 DEF IInv, TypeOK
<1>10. Ranges'
  <2>1. ~batch.on
    BY DEF IInv, Ranges
  <2>2. \A d \in calls' : /\ start <= d.lo /\ (d.hi <= end \/ d.lo >= d.hi)
                          /\ d.at = "fork" => granularity >= 1 /\ d.lo <= d.hi
    <3>1. /\ start <= l.lo /\ l.hi <= end /\ l.lo <= l.hi
          /\ start <= r.lo /\ r.hi <= end /\ r.lo <= r.hi
      BY <1>2, <1>3, <1>4, <1>5, <1>6
    <3> QED
      BY <1>1, <1>3, <3>1 DEF IInv, Ranges
  <2>3. ASSUME NEW d \in calls, d # c PROVE Apart(d, l) /\ Apart(d, r)
                                            /\ Apart(l, d) /\ Apart(r, d)
    <3>1. Apart(c, d)
      BY <2>3 DEF IInv, Ranges
    <3>2. d.lo \in Nat /\ d.hi \in Nat
      BY DEF IInv, TypeOK
    <3> QED
      BY <1>2, <1>5, <1>6, <3>1, <3>2 DEF Apart
  <2>4. Apart(l, r) /\ Apart(r, l)
    BY <1>5, <1>6 DEF Apart
  <2>5. \A d, e \in calls' : d # e => Apart(d, e)
    BY <1>1, <2>3, <2>4 DEF IInv, Ranges
  <2> QED
    BY <1>1, <2>1, <2>2, <2>5 DEF Ranges
<1> QED
  BY <1>8, <1>9, <1>10 DEF IInv

LEMMA LoopBodyInv ==
  ASSUME IInv, NEW c \in calls, LoopBody(c)
  PROVE  IInv'
<1> DEFINE d == [c EXCEPT !.lo = c.lo + 1]
<1>1. /\ calls' = (calls \ {c}) \cup {d} /\ Body(c.lo)
      /\ c.at = "loop" /\ c.lo < c.hi
      /\ UNCHANGED <<loop, granularity, batch>>
      /\ start' = start /\ end' = end
  BY DEF LoopBody, start, end
<1>2. /\ c \in [lo : Nat, hi : Nat, at : States]
      /\ start \in Nat /\ end \in Nat
  BY LoopFacts DEF IInv, TypeOK
<1>3. start <= c.lo /\ c.hi <= end /\ ~batch.on
  <2>1. start <= c.lo /\ (c.hi <= end \/ c.lo >= c.hi)
    BY DEF IInv, Ranges
  <2>2. ~batch.on
    BY DEF IInv, Ranges
  <2> QED
    BY <1>1, <1>2, <2>1, <2>2
<1>4. /\ d \in [lo : Nat, hi : Nat, at : States]
      /\ d.lo = c.lo + 1 /\ d.hi = c.hi /\ d.at = "loop"
  <2>1. c.lo + 1 \in Nat
    BY <1>2
  <2> QED
    BY <1>1, <1>2, <2>1
<1> HIDE DEF d
<1>5. c.lo \in Indices /\ Waits(c.lo)
  BY <1>1, <1>2, <1>3 DEF Indices, Waits
<1>6. ASSUME NEW e \in calls, e # c
      PROVE  Apart(c, e) /\ Apart(e, c) /\ e.lo \in Nat /\ e.hi \in Nat
  BY <1>6 DEF IInv, Ranges, TypeOK
<1>7. \A j \in Indices : Waits(j)' <=> Waits(j) /\ j # c.lo
  <2> SUFFICES ASSUME NEW j \in Indices PROVE Waits(j)' <=> Waits(j) /\ j # c.lo
    OBVIOUS
  <2>1. j \in Int
    BY DEF Indices
  <2>2. d.lo <= j /\ j < d.hi <=> c.lo <= j /\ j < c.hi /\ j # c.lo
    BY <1>1, <1>2, <1>4, <2>1
  <2>3. \A e \in calls : e # c => ~(e.lo <= c.lo /\ c.lo < e.hi)
    BY <1>1, <1>2, <1>6 DEF Apart
  <2> QED
    BY <1>1, <1>3, <2>2, <2>3 DEF Waits
<1>8. EachOnce' /\ runs' \in [Indices' -> Nat]
  BY <1>1, <1>5, <1>7, RunsOne
<1>9. TypeOK'
  BY <1>1, <1>4, <1>8 DEF IInv, TypeOK
<1>10. Ranges'
  <2>1. \A e \in calls' : /\ start <= e.lo /\ (e.hi <= end \/ e.lo >= e.hi)
                          /\ e.at = "fork" => granularity >= 1 /\ e.lo <= e.hi
    <3>1. start <= d.lo /\ d.hi <= end
      BY <1>2, <1>3, <1>4
    <3> QED
      BY <1>1, <1>4, <3>1 DEF IInv, Ranges
  <2>2. ASSUME NEW e \in calls, e # c PROVE Apart(e, d) /\ Apart(d, e)
    BY <1>1, <1>2, <1>4, <1>6, <2>2 DEF Apart
  <2>3. \A e, f \in calls' : e # f => Apart(e, f)
    BY <1>1, <2>2 DEF IInv, Ranges
  <2> QED
    BY <1>1, <1>3, <2>1, <2>3 DEF Ranges
<1> QED
  BY <1>8, <1>9, <1>10 DEF IInv

LEMMA LoopDoneInv ==
  ASSUME IInv, NEW c \in calls, LoopDone(c)
  PROVE  IInv'
<1>1. /\ calls' = calls \ {c} /\ c.lo >= c.hi
      /\ UNCHANGED <<loop, granularity, batch, runs>>
      /\ start' = start /\ end' = end
  BY DEF LoopDone, start, end
<1>2. c.lo \in Nat /\ c.hi \in Nat
  BY DEF IInv, TypeOK
<1>3. \A j \in Indices : Waits(j)' <=> Waits(j)
  <2>1. \A j \in Int : ~(c.lo <= j /\ j < c.hi)
    BY <1>1, <1>2
  <2> QED
    BY <1>1, <2>1 DEF Waits, Indices
<1>4. EachOnce' /\ runs' \in [Indices' -> Nat]
  BY <1>1, <1>3, RunsNone
<1>5. TypeOK' /\ Ranges'
  BY <1>1, <1>4 DEF IInv, TypeOK, Ranges
<1> QED
  BY <1>4, <1>5 DEF IInv

---------------------------------------------------------------------------
LEMMA NextInv == IInv /\ [Next]_vars => IInv'
<1> SUFFICES ASSUME IInv, [Next]_vars PROVE IInv'
  OBVIOUS
<1>1. CASE UNCHANGED vars
  BY <1>1 DEF vars, IInv, TypeOK, Ranges, EachOnce, Waits, Indices, start, end
<1>2. CASE Next
  BY <1>1, <1>2, ProbeBodyInv, ProbeAgainInv, ProbeDoneInv, SequentialInv,
     ForkInv, LoopBodyInv, LoopDoneInv DEF Next, Step
<1> QED
  BY <1>1, <1>2

\* The ranges that wait stay inside the loop's, apart, and disjoint from the
\* indices that have run.
THEOREM Invariance == Spec => []IInv
  BY InitIInv, NextInv, PTL DEF Spec

\* parallel_for, "iterate from start to end": at any time each index has run
\* once or still waits to be run.
THEOREM RunsEachOnce == Spec => []EachOnce
<1>1. IInv => EachOnce
  BY DEF IInv
<1> QED
  BY <1>1, Invariance, PTL

\* Once parallel_for has returned, every index has run exactly once.
THEOREM RunsAll == Spec => [](Returned => \A i \in Indices : runs[i] = 1)
<1>1. IInv => (Returned => \A i \in Indices : runs[i] = 1)
  BY DEF IInv, EachOnce, Returned, Waits
<1> QED
  BY <1>1, Invariance, PTL

---------------------------------------------------------------------------
(* blocked_for: the blocks of a range                                      *)

LEMMA Times ==
  ASSUME NEW a \in Nat, NEW b \in Nat, NEW c \in Nat, a <= b
  PROVE  a * c \in Nat /\ b * c \in Nat /\ a * c <= b * c
<1>1. PICK d \in Nat : b = a + d
  OBVIOUS
<1>2. b * c = a * c + d * c
  BY <1>1
<1>3. a * c \in Nat /\ d * c \in Nat
  BY <1>1
<1> QED
  BY <1>2, <1>3

LEMMA Division ==
  ASSUME NEW a \in Nat, NEW b \in Nat \ {0}
  PROVE  /\ a \div b \in Nat
         /\ (a \div b) * b <= a
         /\ a < (a \div b) * b + b
  OBVIOUS

\* With blocks of size b, rounding n / b up gives as many as a range of n
\* elements needs and none that is empty.
LEMMA RoundUp ==
  ASSUME NEW n \in Nat \ {0}, NEW b \in Nat \ {0}, NEW k \in Nat
  PROVE  k < (n + b - 1) \div b <=> k * b < n
<1> DEFINE N == (n + b - 1) \div b
<1>1. /\ N \in Nat /\ N * b <= n + b - 1 /\ n + b - 1 < N * b + b
      /\ k * b \in Nat /\ N * b \in Nat
  BY Division
<1> HIDE DEF N
<1>2. ASSUME k < N PROVE k * b < n
  <2>1. (k + 1) * b <= N * b
    BY <1>1, <1>2, Times
  <2>2. (k + 1) * b = k * b + b
    OBVIOUS
  <2> QED
    BY <1>1, <2>1, <2>2
<1>3. ASSUME N <= k PROVE ~(k * b < n)
  <2>1. N * b <= k * b
    BY <1>1, <1>3, Times
  <2> QED
    BY <1>1, <2>1
<1>4. k < N \/ N <= k
  BY <1>1
<1> QED
  BY <1>2, <1>3, <1>4 DEF N

\* What the arguments of blocked_for and of its loop are.
LEMMA BlockFacts ==
  ASSUME OverBlocks, first < last
  PROVE  /\ first \in Nat /\ last \in Nat /\ block_size \in Nat \ {0}
         /\ last - first \in Nat \ {0}
         /\ \A i : i \in Indices <=> i \in Nat /\ i * block_size < last - first
<1>1. /\ blocked \in Nat \X Nat \X (Nat \ {0}) /\ blocked \in Ranged
      /\ blocked[2] + blocked[3] - 1 < SizeMod
      /\ loop = <<0, n_blocks(blocked), 0>>
  BY RangedAssumption DEF OverBlocks
<1>2. /\ first \in Nat /\ last \in Nat /\ block_size \in Nat \ {0}
      /\ last - first \in Nat \ {0} /\ last + block_size - 1 < SizeMod
  BY <1>1 DEF first, last, block_size
<1>3. PICK n \in Nat \ {0}, b \in Nat \ {0} : n = last - first /\ b = block_size
  BY <1>2
<1>4. n + b - 1 \in Nat /\ n + b - 1 < SizeMod /\ SizeMod \in Nat
  BY <1>2, <1>3, SizeAssumption
<1>5. (n + b - 1) % SizeMod = n + b - 1
  BY <1>4, SmallMod
<1>6. n_blocks(blocked) = (n + b - 1) \div b
  BY <1>1, <1>3, <1>5 DEF n_blocks, first, last, block_size
<1>7. (n + b - 1) \div b \in Nat
  BY <1>4, Division
<1>8. PICK k \in Nat : k = (n + b - 1) \div b
  BY <1>7
<1>9. start = 0 /\ end = k
  BY <1>1, <1>6, <1>8 DEF start, end
<1>10. ASSUME NEW i PROVE i \in Indices <=> i \in Nat /\ i < k
  BY <1>8, <1>9 DEF Indices
<1>11. ASSUME NEW i PROVE i \in Indices <=> i \in Nat /\ i * block_size < last - first
  BY <1>3, <1>8, <1>10, RoundUp
<1> QED
  BY <1>2, <1>11

\* Cutting the last block off at the end of the range takes nothing of it.
LEMMA CutOff ==
  ASSUME NEW f \in Nat, NEW s \in Nat, NEW b \in Nat, NEW l \in Nat, NEW y \in Nat,
         f + y < l
  PROVE  f + y \in f + s .. (IF f + s + b <= l THEN f + s + b ELSE l) - 1
           <=> s <= y /\ y < s + b
<1>1. CASE f + s + b <= l
  BY <1>1
<1>2. CASE ~(f + s + b <= l)
  BY <1>2
<1> QED
  BY <1>1, <1>2

\* The block of an element, and only that one, contains it.
LEMMA BlockOf ==
  ASSUME OverBlocks, first < last, NEW x \in first .. last - 1
  PROVE  \E i \in Indices : \A j \in Indices : x \in Block(j) <=> j = i
<1>1. PICK n \in Nat \ {0}, b \in Nat \ {0}, f \in Nat :
        n = last - first /\ b = block_size /\ f = first
  BY BlockFacts
<1>2. PICK y \in Nat : y = x - f /\ y < n
  BY <1>1, BlockFacts
<1>3. PICK i \in Nat : i = y \div b /\ i * b <= y /\ y < i * b + b
  BY <1>2, Division
<1>4. i * b \in Nat /\ i * b < n
  BY <1>2, <1>3
<1>5. i \in Indices
  BY <1>1, <1>4, BlockFacts
<1>6. ASSUME NEW j \in Indices PROVE x \in Block(j) <=> j = i
  <2>1. j \in Nat /\ j * b \in Nat
    BY <1>1, BlockFacts
  <2>2. x \in Block(j) <=> j * b <= y /\ y < j * b + b
    <3>1. PICK l \in Nat : l = last /\ x = f + y /\ x < l
      BY <1>1, <1>2, BlockFacts
    <3>2. PICK s \in Nat : s = j * b
      BY <2>1
    <3>3. Block(j) = f + s .. (IF f + s + b <= l THEN f + s + b ELSE l) - 1
      BY <1>1, <3>1, <3>2 DEF Block
    <3>4. f + y \in Block(j) <=> s <= y /\ y < s + b
      BY <3>1, <3>3, CutOff
    <3> QED
      BY <3>1, <3>2, <3>4
  <2>3. CASE j = i
    BY <1>3, <2>2, <2>3
  <2>4. CASE j < i
    <3>1. (j + 1) * b <= i * b
      BY <2>1, <2>4, Times
    <3>2. (j + 1) * b = j * b + b
      BY <2>1
    <3> QED
      BY <1>3, <1>4, <2>1, <2>2, <2>4, <3>1, <3>2
  <2>5. CASE i < j
    <3>1. (i + 1) * b <= j * b
      BY <2>1, <2>5, Times
    <3>2. (i + 1) * b = i * b + b
      OBVIOUS
    <3> QED
      BY <1>3, <1>4, <2>1, <2>2, <2>5, <3>1, <3>2
  <2> QED
    BY <2>1, <2>3, <2>4, <2>5
<1> QED
  BY <1>5, <1>6

\* No block is empty or reaches past the range.
LEMMA BlockInside ==
  ASSUME OverBlocks, first < last, NEW i \in Indices
  PROVE  Block(i) # {} /\ Block(i) \subseteq first .. last - 1
<1>1. PICK b \in Nat \ {0}, f \in Nat, l \in Nat :
        b = block_size /\ f = first /\ l = last
  BY BlockFacts
<1>2. PICK s \in Nat : s = i * b /\ s < l - f
  BY <1>1, BlockFacts
<1>3. Block(i) = f + s .. (IF f + s + b <= l THEN f + s + b ELSE l) - 1
  BY <1>1, <1>2 DEF Block
<1>4. f + s \in Block(i)
  BY <1>2, <1>3
<1>5. Block(i) \subseteq f .. l - 1
  <2>1. CASE f + s + b <= l
    BY <1>1, <1>2, <1>3, <2>1
  <2>2. CASE ~(f + s + b <= l)
    BY <1>1, <1>2, <1>3, <2>2
  <2> QED
    BY <2>1, <2>2
<1> QED
  BY <1>1, <1>4, <1>5

LEMMA Covers == IInv /\ OverBlocks => BlocksCover
<1> SUFFICES ASSUME IInv, OverBlocks, first < last PROVE BlocksCover
  BY DEF BlocksCover
<1>1. ASSUME NEW x \in first .. last - 1
      PROVE  \E i \in Indices :
               /\ \A j \in Indices : x \in Block(j) <=> j = i
               /\ runs[i] \in {0, 1} /\ (Returned => runs[i] = 1)
  <2>1. PICK i \in Indices : \A j \in Indices : x \in Block(j) <=> j = i
    BY BlockOf
  <2>2. runs[i] \in {0, 1} /\ (Returned => runs[i] = 1)
    BY DEF IInv, EachOnce, Returned, Waits
  <2> QED
    BY <2>1, <2>2
<1> QED
  BY <1>1, BlockInside DEF BlocksCover

LEMMA BlockedStart == BlockedInit => Init /\ OverBlocks
<1>1. CASE Init /\ blocked = <<0, 0, 1>>
  BY <1>1 DEF OverBlocks, first, last
<1>2. ASSUME NEW b \in Ranged, blocked_for(b) PROVE Init /\ OverBlocks
  <2>1. blocked = b /\ b \in Nat \X Nat \X (Nat \ {0})
    BY <1>2, RangedAssumption DEF blocked_for
  <2>2. CASE b[1] < b[2]
    <3>1. parallel_for(0, n_blocks(b), 0) /\ <<0, n_blocks(b), 0>> \in Loops
      BY <1>2, <2>2, RangedAssumption DEF blocked_for
    <3>2. loop = <<0, n_blocks(b), 0>>
      BY <3>1 DEF parallel_for
    <3>3. Init
      BY <3>1 DEF Init
    <3> QED
      BY <2>1, <3>2, <3>3 DEF OverBlocks
  <2>3. CASE ~(b[1] < b[2])
    <3>1. parallel_for(0, 0, 0) /\ <<0, 0, 0>> \in Loops
      BY <1>2, <2>3, RangedAssumption DEF blocked_for
    <3>2. Init
      BY <3>1 DEF Init
    <3>3. ~(first < last)
      BY <2>1, <2>3 DEF first, last
    <3> QED
      BY <3>2, <3>3 DEF OverBlocks
  <2> QED
    BY <2>2, <2>3
<1> QED
  BY <1>1, <1>2 DEF BlockedInit

LEMMA BlockedStep == [BlockedNext]_bvars => [Next]_vars /\ (OverBlocks => OverBlocks')
<1> SUFFICES ASSUME [BlockedNext]_bvars PROVE [Next]_vars /\ (OverBlocks => OverBlocks')
  OBVIOUS
<1>1. [Next]_vars /\ UNCHANGED blocked
  BY DEF BlockedNext, bvars
<1>2. UNCHANGED loop
  BY <1>1 DEF Next, Step, vars, ProbeBody, ProbeAgain, ProbeDone, Sequential, Fork,
              LoopBody, LoopDone
<1> QED
  BY <1>1, <1>2 DEF OverBlocks, first, last

\* blocked_for hands each element of its range to exactly one call of the
\* body, which has run when it returns, and makes no call for an empty block
\* or past the end: for every range and block size, the last block included.
THEOREM BlocksCovered == BlockedSpec => []BlocksCover
<1>1. BlockedInit => IInv /\ OverBlocks
  BY BlockedStart, InitIInv
<1>2. IInv /\ OverBlocks /\ [BlockedNext]_bvars => IInv' /\ OverBlocks'
  BY BlockedStep, NextInv
<1> QED
  BY <1>1, <1>2, Covers, PTL DEF BlockedSpec
===========================================================================
