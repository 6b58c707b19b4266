--------------------------- MODULE ForkJoinProofs ---------------------------
(***************************************************************************)
(* Proofs about ForkJoin, for any number of workers and any tree of nested *)
(* parallel calls: pardo gets back the job it has pushed, no job outlives  *)
(* the call that made it, and every task runs once within its parent.      *)
(***************************************************************************)
EXTENDS ForkJoin, SequenceTheorems, TLAPS

---------------------------------------------------------------------------
(* Sequences as stacks and deques                                          *)

LEMMA AppendSeq ==
  ASSUME NEW S, NEW s \in Seq(S), NEW x \in S
  PROVE  /\ Append(s, x) \in Seq(S) /\ Len(Append(s, x)) = Len(s) + 1
         /\ Append(s, x)[Len(s) + 1] = x /\ Append(s, x) # <<>>
         /\ \A k \in 1 .. Len(s) : Append(s, x)[k] = s[k]
  OBVIOUS

LEMMA FrontSeq ==
  ASSUME NEW S, NEW s \in Seq(S), s # <<>>
  PROVE  /\ Front(s) \in Seq(S) /\ Len(Front(s)) = Len(s) - 1 /\ Len(s) \in Nat \ {0}
         /\ \A k \in 1 .. Len(s) - 1 : Front(s)[k] = s[k]
         /\ Last(s) = s[Len(s)] /\ Last(s) \in S
<1>1. Len(s) \in Nat \ {0} /\ \A k \in 1 .. Len(s) : s[k] \in S
  OBVIOUS
<1>2. PICK m, n \in Int : m = 1 /\ n = Len(s) - 1
  BY <1>1
<1>3. \A i \in m .. n : s[i] \in S
  BY <1>1, <1>2
<1>4. /\ SubSeq(s, m, n) \in Seq(S)
      /\ Len(SubSeq(s, m, n)) = (IF m <= n THEN n - m + 1 ELSE 0)
      /\ \A i \in 1 .. n - m + 1 : SubSeq(s, m, n)[i] = s[m + i - 1]
  BY <1>3, SubSeqProperties
<1>5. Front(s) = SubSeq(s, m, n) /\ Last(s) = s[Len(s)]
  BY <1>2 DEF Front, Last
<1>6. QED
  BY <1>1, <1>2, <1>4, <1>5

LEMMA TailSeq ==
  ASSUME NEW S, NEW s \in Seq(S), s # <<>>
  PROVE  /\ Tail(s) \in Seq(S) /\ Len(Tail(s)) = Len(s) - 1 /\ Len(s) \in Nat \ {0}
         /\ \A k \in 1 .. Len(s) - 1 : Tail(s)[k] = s[k + 1]
         /\ Head(s) = s[1] /\ Head(s) \in S
  OBVIOUS

LEMMA TypedSeq ==
  ASSUME NEW S, NEW s \in Seq(S)
  PROVE  Len(s) \in Nat /\ (s = <<>> <=> Len(s) = 0) /\ (\A k \in 1 .. Len(s) : s[k] \in S)
  OBVIOUS

LEMMA InSeq ==
  ASSUME NEW S, NEW s \in Seq(S), NEW x
  PROVE  x \in ToSet(s) <=> \E k \in 1 .. Len(s) : s[k] = x
  BY DEF ToSet
LEMMA AppendSet ==
  ASSUME NEW S, NEW s \in Seq(S), NEW x \in S
  PROVE  ToSet(Append(s, x)) = ToSet(s) \cup {x}
<1> DEFINE a == Append(s, x)
<1>1. /\ a \in Seq(S) /\ Len(s) \in Nat /\ Len(a) = Len(s) + 1 /\ a[Len(s) + 1] = x
      /\ \A k \in 1 .. Len(s) : a[k] = s[k]
  BY AppendSeq
<1> HIDE DEF a
<1>2. /\ Len(s) + 1 \in 1 .. Len(a) /\ \A k \in 1 .. Len(s) : k \in 1 .. Len(a)
      /\ \A k \in 1 .. Len(a) : k \in 1 .. Len(s) \/ k = Len(s) + 1
  BY <1>1
<1>3. \A y : (y \in ToSet(a) <=> \E k \in 1 .. Len(a) : a[k] = y)
             /\ (y \in ToSet(s) <=> \E k \in 1 .. Len(s) : s[k] = y)
  BY <1>1, InSeq
<1>4. ToSet(a) = ToSet(s) \cup {x}
  BY <1>1, <1>2, <1>3
<1>5. QED
  BY <1>4 DEF a

\* One worker's sequence grows at its end.
LEMMA Pushed ==
  ASSUME NEW S, NEW W, NEW f \in [W -> Seq(S)], NEW w \in W, NEW x \in S,
         NEW g, g = [f EXCEPT ![w] = Append(@, x)]
  PROVE  /\ g \in [W -> Seq(S)] /\ Len(f[w]) \in Nat /\ Len(g[w]) = Len(f[w]) + 1
         /\ g[w][Len(f[w]) + 1] = x /\ \A k \in 1 .. Len(f[w]) : g[w][k] = f[w][k]
         /\ \A v \in W : v # w => g[v] = f[v]
<1>1. g[w] = Append(f[w], x) /\ f[w] \in Seq(S)
  OBVIOUS
<1>2. QED
  BY <1>1, AppendSeq, TypedSeq

---------------------------------------------------------------------------
(* What the invariant says of one state.                                   *)

\* A call has one parent, as one of its two thunks.
LEMMA TreeFacts ==
  /\ Forks \subseteq Tasks /\ Tasks \subseteq Nat /\ Root \in Tasks
  /\ \A f \in Forks : /\ f \in Tasks /\ Left[f] \in Tasks /\ Right[f] \in Tasks
                      /\ f # Left[f] /\ f # Right[f]
                      /\ Root # Left[f] /\ Root # Right[f]
  /\ \A f, g \in Forks : /\ Left[f] # Right[g]
                         /\ Left[f] = Left[g] => f = g
                         /\ Right[f] = Right[g] => f = g
<1>1. Forks \subseteq Tasks /\ Tasks \subseteq Nat /\ Root \in Tasks
  BY TreeAssumption
<1>2. ASSUME NEW f \in Forks
      PROVE  /\ f \in Tasks /\ Left[f] \in Tasks /\ Right[f] \in Tasks
             /\ f # Left[f] /\ f # Right[f] /\ Left[f] # Right[f]
             /\ Root # Left[f] /\ Root # Right[f]
  <2>1. f \in Nat /\ Left[f] \in Tasks /\ Right[f] \in Tasks
    BY TreeAssumption
  <2>2. f < Left[f] /\ f < Right[f] /\ Left[f] # Right[f] /\ Root \notin {Left[f], Right[f]}
    BY TreeAssumption
  <2>3. QED
    BY <1>1, <2>1, <2>2
<1>3. ASSUME NEW f \in Forks, NEW g \in Forks
      PROVE  /\ Left[f] # Right[g]
             /\ Left[f] = Left[g] => f = g
             /\ Right[f] = Right[g] => f = g
  <2>1. f # g => {Left[f], Right[f]} \cap {Left[g], Right[g]} = {}
    BY TreeAssumption
  <2>2. QED
    BY <1>2, <2>1
<1>4. QED
  BY <1>1, <1>2, <1>3

\* stack[w] and deque[w] as sequences.
LEMMA Typed ==
  ASSUME TypeOK, NEW w \in Workers
  PROVE  /\ stack[w] \in Seq(Tasks) /\ Len(stack[w]) \in Nat
         /\ \A k \in 1 .. Len(stack[w]) : stack[w][k] \in Tasks
         /\ stack[w] = <<>> <=> Len(stack[w]) = 0
         /\ deque[w] \in Seq(Tasks) /\ Len(deque[w]) \in Nat
         /\ \A i \in 1 .. Len(deque[w]) : deque[w][i] \in Tasks
         /\ deque[w] = <<>> <=> Len(deque[w]) = 0
<1>1. stack[w] \in Seq(Tasks) /\ deque[w] \in Seq(Tasks)
  BY DEF TypeOK
<1>2. QED
  BY <1>1, TypedSeq

LEMMA Places ==
  ASSUME TypeOK, NEW w \in Workers, NEW x
  PROVE  /\ x \in OnStack(w) <=> \E k \in 1 .. Len(stack[w]) : stack[w][k] = x
         /\ x \in Held(w) <=> \E i \in 1 .. Len(deque[w]) : deque[w][i] = x
  BY Typed, InSeq DEF OnStack, Held

LEMMA PlacesNext ==
  ASSUME TypeOK', NEW w \in Workers, NEW x
  PROVE  /\ x \in OnStack(w)' <=> \E k \in 1 .. Len(stack'[w]) : stack'[w][k] = x
         /\ x \in Held(w)' <=> \E i \in 1 .. Len(deque'[w]) : deque'[w][i] = x
         /\ stack'[w] \in Seq(Tasks) /\ Len(stack'[w]) \in Nat
         /\ stack'[w] = <<>> <=> Len(stack'[w]) = 0
         /\ deque'[w] \in Seq(Tasks) /\ Len(deque'[w]) \in Nat
         /\ deque'[w] = <<>> <=> Len(deque'[w]) = 0
<1>1. stack'[w] \in Seq(Tasks) /\ deque'[w] \in Seq(Tasks)
  BY DEF TypeOK
<1>2. QED
  BY <1>1, InSeq, TypedSeq DEF OnStack, Held

\* The innermost call of a worker.
LEMMA Topmost ==
  ASSUME IInv, NEW w \in Workers, stack[w] # <<>>
  PROVE  /\ Len(stack[w]) \in Nat \ {0} /\ Top(w) = stack[w][Len(stack[w])]
         /\ Top(w) \in Tasks /\ Running(Top(w))
         /\ \A k \in 1 .. Len(stack[w]) - 1 : stack[w][k] # Top(w)
         /\ \A v \in Workers : \A k \in 1 .. Len(stack[v]) :
              stack[v][k] = Top(w) => v = w /\ k = Len(stack[w])
<1>1. Len(stack[w]) \in Nat \ {0} /\ Top(w) = stack[w][Len(stack[w])]
  BY Typed, FrontSeq DEF IInv, Top
<1>2. QED
  BY <1>1, Typed DEF IInv, StackedOnce

\* Who made the i-th job of a deque, and that it has not begun.
LEMMA JobMade ==
  ASSUME IInv, NEW w \in Workers, NEW i \in 1 .. Len(deque[w])
  PROVE  \E k \in 1 .. Len(stack[w]) :
           /\ JobOf(w, i, k) /\ stack[w][k] \in Forks
           /\ deque[w][i] = Right[stack[w][k]] /\ pc[deque[w][i]] = "new"
           /\ \A m \in k .. Len(stack[w]) : pc[stack[w][m]] # "wait"
<1>1. PICK k \in 1 .. Len(stack[w]) :
        JobOf(w, i, k) /\ \A m \in k .. Len(stack[w]) : pc[stack[w][m]] # "wait"
  BY DEF IInv, DequeInv
<1>2. stack[w][k] \in Tasks
  BY Typed DEF IInv
<1>3. pc[deque[w][i]] = "new"
  BY DEF IInv, DequeInv
<1>4. stack[w][k] \in Forks /\ deque[w][i] = Right[stack[w][k]]
  BY <1>1, <1>2 DEF IInv, JobOf
<1>5. QED
  BY <1>1, <1>3, <1>4

\* No job is in two deques, or twice in one.
LEMMA JobsOnce ==
  ASSUME IInv, NEW v \in Workers, NEW w \in Workers,
         NEW i \in 1 .. Len(deque[v]), NEW j \in 1 .. Len(deque[w]),
         deque[v][i] = deque[w][j]
  PROVE  v = w /\ i = j
<1>1. PICK k \in 1 .. Len(stack[v]) :
        JobOf(v, i, k) /\ stack[v][k] \in Forks /\ deque[v][i] = Right[stack[v][k]]
  BY JobMade
<1>2. PICK l \in 1 .. Len(stack[w]) :
        JobOf(w, j, l) /\ stack[w][l] \in Forks /\ deque[w][j] = Right[stack[w][l]]
  BY JobMade
<1>3. stack[v][k] = stack[w][l]
  BY <1>1, <1>2, TreeFacts
<1>4. v = w /\ k = l
  BY <1>3 DEF IInv, StackedOnce
<1>5. ~(i < j) /\ ~(j < i)
  <2>1. DequeInv(w) /\ Len(stack[w]) \in Nat
    BY Typed DEF IInv
  <2>2. \A a, b \in 1 .. Len(deque[w]) : \A c, d \in 1 .. Len(stack[w]) :
          JobOf(w, a, c) /\ JobOf(w, b, d) /\ a < b => c < d
    BY <2>1 DEF DequeInv
  <2>3. JobOf(w, i, k) /\ JobOf(w, j, k)
    BY <1>1, <1>2, <1>4
  <2>4. QED
    BY <1>4, <2>1, <2>2, <2>3
<1>6. i \in Nat /\ j \in Nat
  BY Typed DEF IInv
<1>7. QED
  BY <1>4, <1>5, <1>6

\* The key to pardo's assertion: the last job of the deque of a worker whose
\* innermost call is at "pop" is that very call's.
LEMMA OwnJob ==
  ASSUME IInv, NEW w \in Workers, stack[w] # <<>>, pc[Top(w)] = "pop", deque[w] # <<>>
  PROVE  Last(deque[w]) = Right[Top(w)] /\ deque[w][Len(deque[w])] = Right[Top(w)]
<1> DEFINE n == Len(stack[w])
           m == Len(deque[w])
<1>1. n \in Nat \ {0} /\ Top(w) = stack[w][n] /\ Top(w) \in Forks
  BY Topmost DEF IInv
<1>2. m \in Nat \ {0} /\ Last(deque[w]) = deque[w][m]
  BY Typed, FrontSeq DEF IInv
<1>3. PICK k \in 1 .. n : JobOf(w, m, k)
  BY <1>2, JobMade
<1>4. k = n \/ k < n
  BY <1>1
<1>5. CASE k < n
  <2>1. PICK j \in 1 .. m : deque[w][j] = Right[stack[w][n]]
    BY <1>1, <1>2, <1>3, <1>5 DEF IInv, DequeInv
  <2>2. JobOf(w, j, n)
    BY <1>1, <2>1 DEF JobOf
  <2>3. ~(j < m)
    <3>1. \A a, b \in 1 .. m : \A c, d \in 1 .. n :
            JobOf(w, a, c) /\ JobOf(w, b, d) /\ a < b => c < d
      BY DEF IInv, DequeInv
    <3>2. QED
      BY <1>1, <1>2, <1>3, <1>5, <2>2, <3>1
  <2>4. QED
    BY <1>1, <1>2, <2>1, <2>3
<1>6. QED
  BY <1>1, <1>2, <1>3, <1>4, <1>5 DEF JobOf

\* Only the bottom of a stack was not called by the call below it.
LEMMA CalledFrom ==
  ASSUME IInv, NEW w \in Workers, stack[w] # <<>>
  PROVE  LET n == Len(stack[w])
             t == stack[w][n]
             p == stack[w][n - 1]
         IN  /\ t = Root => n = 1
             /\ n = 1 => t \in asJob \cup {Root}
             /\ n > 1 /\ t \in asJob => pc[p] = "wait"
             /\ t \notin asJob \cup {Root} =>
                  /\ n > 1 /\ p \in Forks /\ p # t
                  /\ \/ pc[p] = "left" /\ t = Left[p]
                     \/ pc[p] = "right" /\ t = Right[p]
<1> DEFINE n == Len(stack[w])
           t == stack[w][n]
           p == stack[w][n - 1]
<1>1. n \in Nat \ {0} /\ t \in Tasks
  BY Topmost
<1>2. CASE n = 1
  BY <1>2 DEF IInv, StackInv
<1>3. CASE n > 1
  <2>1. Called(p, t)
    <3>1. n - 1 \in 1 .. n - 1 /\ n - 1 + 1 = n
      BY <1>1, <1>3
    <3>2. \A k \in 1 .. n - 1 : Called(stack[w][k], stack[w][k + 1])
      BY DEF IInv, StackInv
    <3>3. QED
      BY <3>1, <3>2
  <2>2. p \in Tasks /\ (pc[p] \in {"left", "right", "wait"} => p \in Forks)
    <3>1. n - 1 \in 1 .. n
      BY <1>1, <1>3
    <3>2. p \in Tasks
      BY <3>1, Typed DEF IInv
    <3>3. QED
      BY <3>2 DEF IInv
  <2>3. t \in asJob => \E f \in Forks : t = Right[f]
    BY DEF IInv
  <2>4. Root \notin asJob
    BY TreeFacts DEF IInv
  <2>5. QED
    BY <1>1, <1>3, <2>1, <2>2, <2>3, <2>4, TreeFacts DEF Called
<1>4. \A b \in Nat \ {0} : b = 1 \/ b > 1
  OBVIOUS
<1>5. QED
  BY <1>1, <1>2, <1>3, <1>4, Zenon
---------------------------------------------------------------------------
(* What a step leaves as it was.                                           *)

LEMMA StackSame ==
  ASSUME StackedOnce, TypeOK, UNCHANGED stack,
         \A t \in Tasks : Running(t)' <=> Running(t)
  PROVE  StackedOnce'
<1>1. \A v \in Workers : \A k \in 1 .. Len(stack[v]) : stack[v][k] \in Tasks
  BY Typed
<1>2. \A t \in Tasks : Running(t)' => \E v \in Workers : t \in OnStack(v)'
  BY DEF StackedOnce, OnStack
<1>3. \A v \in Workers : \A k \in 1 .. Len(stack'[v]) : Running(stack[v][k])'
  BY <1>1 DEF StackedOnce
<1>4. QED
  BY <1>2, <1>3 DEF StackedOnce

\* A new task is called on worker w.
LEMMA StackPush ==
  ASSUME StackedOnce, TypeOK, TypeOK', NEW w \in Workers, NEW x \in Tasks, ~Running(x),
         stack' = [stack EXCEPT ![w] = Append(@, x)],
         \A t \in Tasks : Running(t)' <=> Running(t) \/ t = x
  PROVE  StackedOnce'
<1> DEFINE n == Len(stack[w])
<1>1. /\ n \in Nat /\ Len(stack'[w]) = n + 1 /\ stack'[w][n + 1] = x
      /\ \A k \in 1 .. n : stack'[w][k] = stack[w][k]
      /\ \A v \in Workers : v # w => stack'[v] = stack[v]
  BY Pushed DEF TypeOK
<1>2. \A v \in Workers : \A k \in 1 .. Len(stack'[v]) :
        \/ k \in 1 .. Len(stack[v]) /\ stack'[v][k] = stack[v][k]
        \/ v = w /\ k = n + 1 /\ stack'[v][k] = x
  BY <1>1
<1>3. \A v \in Workers : \A k \in 1 .. Len(stack[v]) :
        /\ k \in 1 .. Len(stack'[v]) /\ stack'[v][k] = stack[v][k]
        /\ stack[v][k] \in Tasks /\ stack[v][k] # x /\ Running(stack[v][k])
  BY <1>1, Typed DEF StackedOnce
<1> HIDE DEF n
<1>4. \A t \in Tasks : Running(t)' => \E v \in Workers : t \in OnStack(v)'
  <2> SUFFICES ASSUME NEW t \in Tasks, Running(t)'
               PROVE  \E v \in Workers : \E k \in 1 .. Len(stack'[v]) : stack'[v][k] = t
    BY PlacesNext
  <2>1. CASE t = x
    <3>1. n + 1 \in 1 .. Len(stack'[w])
      BY <1>1
    <3>2. QED
      BY <1>1, <2>1, <3>1
  <2>2. CASE t # x
    <3>1. PICK v \in Workers : t \in OnStack(v)
      BY <2>2 DEF StackedOnce
    <3>2. PICK k \in 1 .. Len(stack[v]) : stack[v][k] = t
      BY <3>1, Places
    <3>3. QED
      BY <1>3, <3>2
  <2>3. QED
    BY <2>1, <2>2
<1>5. \A v \in Workers : \A k \in 1 .. Len(stack'[v]) : Running(stack[v][k])'
  BY <1>2, <1>3
<1>6. ASSUME NEW u \in Workers, NEW v \in Workers,
             NEW k \in 1 .. Len(stack'[u]), NEW l \in 1 .. Len(stack'[v]),
             stack'[u][k] = stack'[v][l]
      PROVE  u = v /\ k = l
  <2>1. CASE k \in 1 .. Len(stack[u]) /\ stack'[u][k] = stack[u][k]
    <3>1. l \in 1 .. Len(stack[v]) /\ stack'[v][l] = stack[v][l]
      BY <1>2, <1>3, <1>6, <2>1
    <3>2. QED
      BY <1>6, <2>1, <3>1 DEF StackedOnce
  <2>2. CASE u = w /\ k = n + 1 /\ stack'[u][k] = x
    BY <1>2, <1>3, <1>6, <2>2
  <2>3. QED
    BY <1>2, <2>1, <2>2
<1>7. QED
  BY <1>4, <1>5, <1>6 DEF StackedOnce

\* The innermost call of worker w returns.
LEMMA StackPop ==
  ASSUME IInv, TypeOK', NEW w \in Workers, stack[w] # <<>>,
         stack' = [stack EXCEPT ![w] = Front(@)],
         \A t \in Tasks : Running(t)' <=> Running(t) /\ t # Top(w)
  PROVE  StackedOnce'
<1> DEFINE n == Len(stack[w])
<1>1. /\ n \in Nat \ {0} /\ Len(stack'[w]) = n - 1
      /\ \A k \in 1 .. n - 1 : stack'[w][k] = stack[w][k]
      /\ \A v \in Workers : v # w => stack'[v] = stack[v]
  <2>1. /\ stack[w] \in Seq(Tasks) /\ stack'[w] = Front(stack[w])
        /\ \A v \in Workers : v # w => stack'[v] = stack[v]
    BY DEF IInv, TypeOK
  <2>2. /\ Len(Front(stack[w])) = Len(stack[w]) - 1 /\ Len(stack[w]) \in Nat \ {0}
        /\ \A k \in 1 .. Len(stack[w]) - 1 : Front(stack[w])[k] = stack[w][k]
    BY <2>1, FrontSeq
  <2>3. QED
    BY <2>1, <2>2
<1>2. \A v \in Workers : Len(stack'[v]) \in Nat /\ Len(stack[v]) \in Nat
  BY Typed, TypedSeq DEF IInv, TypeOK
<1>3. \A v \in Workers : \A k \in 1 .. Len(stack'[v]) :
        /\ k \in 1 .. Len(stack[v]) /\ stack'[v][k] = stack[v][k]
        /\ v = w => k # n
  BY <1>1, <1>2
<1>4. \A v \in Workers : \A k \in 1 .. Len(stack[v]) :
        (v = w /\ k = n) \/ k \in 1 .. Len(stack'[v])
  BY <1>1, <1>2
<1>5. /\ Top(w) = stack[w][n] /\ n \in 1 .. Len(stack[w])
      /\ \A v \in Workers : \A k \in 1 .. Len(stack[v]) :
           stack[v][k] = Top(w) => v = w /\ k = n
  BY <1>1, Topmost
<1> HIDE DEF n
<1>6. \A t \in Tasks : Running(t)' => \E v \in Workers : t \in OnStack(v)'
  <2> SUFFICES ASSUME NEW t \in Tasks, Running(t)'
               PROVE  \E v \in Workers : \E k \in 1 .. Len(stack'[v]) : stack'[v][k] = t
    BY PlacesNext
  <2>1. PICK v \in Workers : t \in OnStack(v)
    BY DEF IInv, StackedOnce
  <2>2. PICK k \in 1 .. Len(stack[v]) : stack[v][k] = t
    BY <2>1, Places DEF IInv
  <2>3. QED
    BY <1>3, <1>4, <1>5, <2>2
<1>7. \A v \in Workers : \A k \in 1 .. Len(stack'[v]) : Running(stack[v][k])'
  <2> SUFFICES ASSUME NEW v \in Workers, NEW k \in 1 .. Len(stack'[v])
               PROVE  Running(stack[v][k])'
    OBVIOUS
  <2>1. k \in 1 .. Len(stack[v]) /\ stack'[v][k] = stack[v][k] /\ (v = w => k # n)
    BY <1>3
  <2>2. PICK t : t = stack[v][k]
    OBVIOUS
  <2>3. t \in Tasks /\ Running(t) /\ t # Top(w)
    <3>1. Running(stack[v][k])
      BY <2>1 DEF IInv, StackedOnce
    <3>2. stack[v][k] \in Tasks
      BY <2>1, Typed DEF IInv
    <3>3. QED
      BY <1>5, <2>1, <2>2, <3>1, <3>2
  <2>4. Running(t)'
    BY <2>3
  <2>5. t = stack'[v][k]
    BY <2>1, <2>2
  <2>6. QED
    BY <2>1, <2>4, <2>5
<1>8. \A u, v \in Workers : \A k \in 1 .. Len(stack'[u]), l \in 1 .. Len(stack'[v]) :
        stack'[u][k] = stack'[v][l] => u = v /\ k = l
  BY <1>3 DEF IInv, StackedOnce
<1>9. QED
  BY <1>6, <1>7, <1>8 DEF StackedOnce

\* What a worker's calls keep.
LEMMA KeptCalls ==
  ASSUME IInv, NEW x \in Workers, UNCHANGED stack[x],
         \A k \in 1 .. Len(stack[x]) : pc'[stack[x][k]] = pc[stack[x][k]],
         asJob \subseteq asJob',
         \A k \in 1 .. Len(stack[x]) : stack[x][k] \in asJob' => stack[x][k] \in asJob
  PROVE  StackInv(x)'
<1> DEFINE n == Len(stack[x])
<1>1. n \in Nat /\ (stack[x] = <<>> <=> n = 0) /\ stack'[x] = stack[x]
  BY Typed DEF IInv
<1>2. StackInv(x)
  BY DEF IInv
<1>3. StackInv(x)'
  <2> SUFFICES ASSUME stack[x] # <<>>
               PROVE  /\ stack[x][1] \in asJob' \cup {Root}
                      /\ \A k \in 1 .. n - 1 : Called(stack[x][k], stack[x][k + 1])'
                      /\ pc'[stack[x][n]] \in {"body", "pop", "wait", "return"}
    BY <1>1 DEF StackInv, Called
  <2>1. n \in 1 .. n /\ pc[stack[x][n]] \in {"body", "pop", "wait", "return"}
    BY <1>1, <1>2 DEF StackInv
  <2>2. stack[x][1] \in asJob' \cup {Root}
    BY <1>2 DEF StackInv
  <2>3. ASSUME NEW k \in 1 .. n - 1
        PROVE  Called(stack[x][k], stack[x][k + 1])'
    <3>1. Called(stack[x][k], stack[x][k + 1])
      BY <1>2 DEF StackInv
    <3>2. k \in 1 .. n /\ k + 1 \in 1 .. n
      BY <1>1
    <3>3. pc'[stack[x][k]] = pc[stack[x][k]]
      BY <3>2
    <3>4. stack[x][k + 1] \in asJob' <=> stack[x][k + 1] \in asJob
      BY <3>2
    <3>5. QED
      BY <1>1, <3>1, <3>3, <3>4 DEF Called
  <2>4. QED
    BY <2>1, <2>2, <2>3
<1>4. QED
  BY <1>3

\* What a worker's own calls and jobs keep.
LEMMA Kept ==
  ASSUME IInv, NEW x \in Workers,
         UNCHANGED <<stack[x], deque[x]>>,
         \A k \in 1 .. Len(stack[x]) : pc'[stack[x][k]] = pc[stack[x][k]],
         \A i \in 1 .. Len(deque[x]) : pc'[deque[x][i]] = "new",
         asJob \subseteq asJob',
         \A k \in 1 .. Len(stack[x]) : stack[x][k] \in asJob' => stack[x][k] \in asJob
  PROVE  StackInv(x)' /\ DequeInv(x)'
<1> DEFINE n == Len(stack[x])
<1>1. n \in Nat /\ (stack[x] = <<>> <=> n = 0) /\ stack'[x] = stack[x] /\ deque'[x] = deque[x]
  BY Typed DEF IInv
<1>2. StackInv(x) /\ DequeInv(x)
  BY DEF IInv
<1>3. StackInv(x)'
  BY KeptCalls
<1>4. DequeInv(x)'
  <2>1. \A i \in 1 .. Len(deque[x]), k \in 1 .. n : JobOf(x, i, k)' <=> JobOf(x, i, k)
    BY <1>1 DEF JobOf
  <2>2. \A i \in 1 .. Len(deque[x]) :
          \E k \in 1 .. n : JobOf(x, i, k)' /\ \A m \in k .. n : pc'[stack[x][m]] # "wait"
    <3> SUFFICES ASSUME NEW i \in 1 .. Len(deque[x])
                 PROVE  \E k \in 1 .. n :
                          JobOf(x, i, k)' /\ \A m \in k .. n : pc'[stack[x][m]] # "wait"
      OBVIOUS
    <3>1. PICK k \in 1 .. n : JobOf(x, i, k) /\ \A m \in k .. n : pc[stack[x][m]] # "wait"
      BY JobMade
    <3>2. \A m \in k .. n : m \in 1 .. n
      BY <1>1
    <3>3. \A m \in k .. n : pc'[stack[x][m]] # "wait"
      BY <3>1, <3>2
    <3>4. QED
      BY <2>1, <3>1, <3>3
  <2>3. \A i, j \in 1 .. Len(deque[x]) : \A k, l \in 1 .. n :
          JobOf(x, i, k)' /\ JobOf(x, j, l)' /\ i < j => k < l
    BY <1>2, <2>1 DEF DequeInv
  <2>4. \A i \in 1 .. Len(deque[x]) : \A k, l \in 1 .. n :
          JobOf(x, i, k)' /\ k < l /\ pc'[stack[x][l]] \in {"left", "pop"}
            => \E j \in 1 .. Len(deque[x]) : deque[x][j] = Right[stack[x][l]]
    <3>1. \A i \in 1 .. Len(deque[x]) : \A k, l \in 1 .. n :
            JobOf(x, i, k) /\ k < l /\ pc[stack[x][l]] \in {"left", "pop"}
              => \E j \in 1 .. Len(deque[x]) : deque[x][j] = Right[stack[x][l]]
      BY <1>2 DEF DequeInv
    <3>2. \A l \in 1 .. n : pc'[stack[x][l]] = pc[stack[x][l]]
      OBVIOUS
    <3>3. QED
      BY <2>1, <3>1, <3>2
  <2>5. QED
    BY <1>1, <2>2, <2>3, <2>4 DEF DequeInv
<1>5. QED
  BY <1>3, <1>4

\* A step of another worker w changes calls of w and tasks that were new.
LEMMA OtherWorker ==
  ASSUME IInv, NEW w \in Workers, NEW x \in Workers, x # w,
         UNCHANGED <<stack[x], deque[x], seek[x]>>,
         \A t \in Tasks : pc'[t] # pc[t] =>
            t \in OnStack(w) \/ (pc[t] = "new" /\ t \notin Held(x)),
         asJob \subseteq asJob', \A t \in asJob' \ asJob : pc[t] = "new"
  PROVE  StackInv(x)' /\ DequeInv(x)' /\ SeekInv(x)'
<1>1. \A k \in 1 .. Len(stack[x]) :
        /\ stack[x][k] \in Tasks /\ pc[stack[x][k]] # "new" /\ stack[x][k] \notin OnStack(w)
  <2>1. \A k \in 1 .. Len(stack[x]) : stack[x][k] \in Tasks /\ Running(stack[x][k])
    BY Typed DEF IInv, StackedOnce
  <2>2. \A k \in 1 .. Len(stack[x]), l \in 1 .. Len(stack[w]) : stack[x][k] # stack[w][l]
    BY DEF IInv, StackedOnce
  <2>3. QED
    BY <2>1, <2>2, Places DEF IInv, Running
<1>2. \A i \in 1 .. Len(deque[x]) :
        /\ deque[x][i] \in Tasks /\ pc[deque[x][i]] = "new" /\ deque[x][i] \notin OnStack(w)
        /\ deque[x][i] \in Held(x)
  <2>1. \A i \in 1 .. Len(deque[x]) : deque[x][i] \in Tasks /\ pc[deque[x][i]] = "new"
    BY Typed, JobMade DEF IInv
  <2>2. \A l \in 1 .. Len(stack[w]) : pc[stack[w][l]] # "new"
    BY DEF IInv, StackedOnce, Running
  <2>3. QED
    BY <2>1, <2>2, Places DEF IInv
<1>3. StackInv(x)' /\ DequeInv(x)'
  BY <1>1, <1>2, Kept
<1>4. SeekInv(x)'
  <2>1. SeekInv(x) /\ (stack[x] # <<>> => Top(x) = stack[x][Len(stack[x])] /\ Len(stack[x]) \in 1 .. Len(stack[x]))
    BY Topmost DEF IInv
  <2>2. QED
    BY <1>1, <2>1 DEF SeekInv
<1>5. QED
  BY <1>3, <1>4

\* Only the innermost call of w moves, and no job of it is left in the deque.
LEMMA TopMove ==
  ASSUME IInv, NEW w \in Workers, stack[w] # <<>>, NEW c \in {"return", "wait"},
         UNCHANGED <<stack, deque, asJob>>,
         pc' = [pc EXCEPT ![Top(w)] = c], TypeOK',
         deque[w] # <<>> => c = "return" /\ pc[Top(w)] \notin {"left", "pop"},
         SeekInv(w)', \A x \in Workers : x # w => seek'[x] = seek[x]
  PROVE  StackedOnce' /\ \A x \in Workers : StackInv(x)' /\ DequeInv(x)' /\ SeekInv(x)'
<1> DEFINE n == Len(stack[w])
<1>1. /\ n \in Nat \ {0} /\ Top(w) = stack[w][n] /\ Top(w) \in Tasks /\ Running(Top(w))
      /\ \A k \in 1 .. n : k # n => stack[w][k] # Top(w)
  BY Topmost DEF IInv
<1>2. /\ pc'[Top(w)] = c /\ \A t \in Tasks : t # Top(w) => pc'[t] = pc[t]
      /\ \A k \in 1 .. n : k # n => pc'[stack[w][k]] = pc[stack[w][k]]
      /\ \A k \in 1 .. n : stack[w][k] \in Tasks
      /\ \A i \in 1 .. Len(deque[w]) : pc'[deque[w][i]] = "new"
  <2>1. pc \in [Tasks -> PCs]
    BY DEF IInv, TypeOK
  <2>2. pc'[Top(w)] = c /\ \A t \in Tasks : t # Top(w) => pc'[t] = pc[t]
    BY <1>1, <2>1
  <2>3. \A k \in 1 .. n : stack[w][k] \in Tasks
    BY Typed DEF IInv
  <2>4. \A i \in 1 .. Len(deque[w]) : deque[w][i] \in Tasks /\ pc[deque[w][i]] = "new"
    BY Typed, JobMade DEF IInv
  <2>5. pc[Top(w)] # "new"
    BY <1>1 DEF Running
  <2>6. QED
    BY <1>1, <2>2, <2>3, <2>4, <2>5
<1>3. StackedOnce'
  <2>1. \A t \in Tasks : Running(t)' <=> Running(t)
    BY <1>1, <1>2 DEF Running
  <2>2. StackedOnce /\ TypeOK /\ UNCHANGED stack
    BY DEF IInv
  <2>3. QED
    BY <2>1, <2>2, StackSame
<1>4. StackInv(w)'
  <2>1. StackInv(w)
    BY DEF IInv
  <2>2. \A k \in 1 .. n - 1 : k \in 1 .. n /\ k # n
    BY <1>1
  <2>3. \A k \in 1 .. n - 1 : Called(stack[w][k], stack[w][k + 1])'
    <3>1. \A k \in 1 .. n - 1 : Called(stack[w][k], stack[w][k + 1])
      BY <2>1 DEF StackInv
    <3>2. \A k \in 1 .. n - 1 : pc'[stack[w][k]] = pc[stack[w][k]]
      BY <1>2, <2>2
    <3>3. QED
      BY <3>1, <3>2 DEF Called
  <2>4. QED
    BY <1>1, <1>2, <2>1, <2>3 DEF StackInv, Called
<1>5. DequeInv(w)'
  <2>1. CASE deque[w] = <<>>
    BY <2>1, Typed DEF IInv, DequeInv
  <2>2. CASE deque[w] # <<>>
    <3>1. DequeInv(w) /\ c = "return" /\ pc[Top(w)] \notin {"left", "pop"}
      BY <2>2 DEF IInv
    <3>2. \A i \in 1 .. Len(deque[w]), k \in 1 .. n : JobOf(w, i, k)' <=> JobOf(w, i, k)
      BY <1>1, <1>2, <3>1 DEF JobOf
    <3>3. \A k \in 1 .. n : /\ pc'[stack[w][k]] = "wait" => pc[stack[w][k]] = "wait"
                            /\ pc'[stack[w][k]] \in {"left", "pop"}
                                 <=> pc[stack[w][k]] \in {"left", "pop"}
      BY <1>1, <1>2, <3>1
    <3>4. \A i \in 1 .. Len(deque[w]) :
            \E k \in 1 .. n : JobOf(w, i, k)' /\ \A m \in k .. n : pc'[stack[w][m]] # "wait"
      <4> SUFFICES ASSUME NEW i \in 1 .. Len(deque[w])
                   PROVE  \E k \in 1 .. n :
                            JobOf(w, i, k)' /\ \A m \in k .. n : pc'[stack[w][m]] # "wait"
        OBVIOUS
      <4>1. PICK k \in 1 .. n : JobOf(w, i, k) /\ \A m \in k .. n : pc[stack[w][m]] # "wait"
        BY JobMade
      <4>2. \A m \in k .. n : m \in 1 .. n
        BY <1>1
      <4>3. \A m \in k .. n : pc'[stack[w][m]] # "wait"
        BY <3>3, <4>1, <4>2
      <4>4. QED
        BY <3>2, <4>1, <4>3
    <3>5. QED
      BY <1>2, <3>1, <3>2, <3>3, <3>4 DEF DequeInv
  <2>3. QED
    BY <2>1, <2>2
<1>6. ASSUME NEW x \in Workers, x # w
      PROVE  StackInv(x)' /\ DequeInv(x)' /\ SeekInv(x)'
  <2>1. Top(w) \in OnStack(w)
    BY <1>1, Places DEF IInv
  <2>2. \A t \in Tasks : pc'[t] # pc[t] =>
          t \in OnStack(w) \/ (pc[t] = "new" /\ t \notin Held(x))
    BY <1>2, <2>1
  <2>3. QED
    BY <1>6, <2>2, OtherWorker
<1>7. QED
  BY <1>3, <1>4, <1>5, <1>6

\* A pardo that does not move, whose thunks change neither their running nor
\* whether they were stolen, and whose job stays where it is.
LEMMA PardoSame ==
  ASSUME NEW f \in Forks, PardoInv(f), pc'[f] = pc[f],
         \A c \in {Left[f], Right[f]} :
           pc'[c] = pc[c] \/ (Running(c) /\ Running(c)'),
         Right[f] \in asJob' <=> Right[f] \in asJob,
         \A x \in Workers : pc[f] \in {"left", "pop"} /\ f \in OnStack(x) /\ Right[f] \in Held(x)
           => f \in OnStack(x)' /\ Right[f] \in Held(x)'
  PROVE  PardoInv(f)'
<1> DEFINE l == Left[f]
           r == Right[f]
<1>1. /\ pc[l] = "new" => pc'[l] = "new"
      /\ pc[r] = "new" => pc'[r] = "new"
      /\ pc[l] = "returned" => pc'[l] = "returned"
      /\ pc[r] = "returned" => pc'[r] = "returned"
      /\ Running(l) => Running(l)'
      /\ Running(r) => Running(r)'
  BY DEF Running
<1>2. pc[f] \in {"left", "pop"} =>
        \/ r \in asJob'
        \/ pc'[r] = "new" /\ \E x \in Workers : f \in OnStack(x)' /\ r \in Held(x)'
  BY <1>1 DEF PardoInv
<1> HIDE DEF l, r
<1>3. QED
  BY <1>1, <1>2 DEF PardoInv, l, r

\* The innermost call of w moves: it forks nothing, waits because its job was
\* stolen, or has waited until that job was done.
LEMMA Moved ==
  ASSUME IInv, NEW w \in Workers, stack[w] # <<>>, NEW c \in {"return", "wait"},
         UNCHANGED <<stack, deque, asJob, done, finished>>,
         pc' = [pc EXCEPT ![Top(w)] = c],
         NEW s \in Seeks, seek' = [seek EXCEPT ![w] = s],
         s \in {"none", "check"}, s = "check" => c = "wait" /\ deque[w] = <<>>,
         c = "wait" => /\ pc[Top(w)] = "pop" /\ deque[w] = <<>>,
         c = "return" => \/ pc[Top(w)] = "body" /\ Top(w) \notin Forks
                         \/ pc[Top(w)] = "wait" /\ Right[Top(w)] \in done
  PROVE  IInv'
<1>1. Top(w) \in Tasks /\ Running(Top(w)) /\ Top(w) \in OnStack(w)
  BY Topmost, Places DEF IInv
<1>2. TypeOK /\ TypeOK'
  BY <1>1 DEF IInv, TypeOK, PCs
<1>3. pc'[Top(w)] = c /\ \A t \in Tasks : t # Top(w) => pc'[t] = pc[t]
  BY <1>1, <1>2 DEF TypeOK
<1>4. seek'[w] = s /\ \A x \in Workers : x # w => seek'[x] = seek[x]
  BY <1>2 DEF TypeOK
<1>5. SeekInv(w)'
  <2>1. /\ Top(w) = stack[w][Len(stack[w])] /\ stack'[w] = stack[w] /\ deque'[w] = deque[w]
    BY Topmost
  <2>2. QED
    BY <1>3, <1>4, <2>1 DEF SeekInv
<1>6. StackedOnce' /\ \A x \in Workers : StackInv(x)' /\ DequeInv(x)' /\ SeekInv(x)'
  BY <1>2, <1>4, <1>5, TopMove
<1>7. ASSUME NEW f \in Forks
      PROVE  PardoInv(f)'
  <2>1. PardoInv(f)
    BY DEF IInv
  <2>2. f \in Tasks /\ Left[f] \in Tasks /\ Right[f] \in Tasks /\ f # Left[f] /\ f # Right[f]
    BY TreeFacts
  <2>3. CASE f # Top(w)
    <3>1. \A d \in {Left[f], Right[f]} : pc'[d] = pc[d] \/ (Running(d) /\ Running(d)')
      BY <1>1, <1>3, <2>2 DEF Running
    <3>2. pc'[f] = pc[f] /\ (Right[f] \in asJob' <=> Right[f] \in asJob)
      BY <1>3, <2>2, <2>3
    <3>3. \A x \in Workers : OnStack(x)' = OnStack(x) /\ Held(x)' = Held(x)
      BY DEF OnStack, Held
    <3>4. QED
      BY <2>1, <3>1, <3>2, <3>3, PardoSame
  <2>4. CASE f = Top(w) /\ c = "wait"
    <3>1. pc[f] = "pop" /\ pc[Left[f]] = "returned"
      BY <2>1, <2>4 DEF PardoInv
    <3>2. Right[f] \in asJob
      <4>1. SUFFICES ASSUME NEW x \in Workers, f \in OnStack(x), Right[f] \in Held(x)
                     PROVE  FALSE
        BY <2>1, <3>1 DEF PardoInv
      <4>2. x = w
        BY <1>2, <2>4, <4>1, Places, Topmost
      <4>3. deque[w] = <<>> /\ Len(deque[w]) = 0
        BY <1>2, <2>4, Typed
      <4>4. QED
        BY <1>2, <4>1, <4>2, <4>3, Places
    <3>3. QED
      BY <1>3, <2>2, <2>4, <3>1, <3>2 DEF PardoInv
  <2>5. CASE f = Top(w) /\ c = "return"
    <3>1. pc[f] = "wait" /\ pc[Left[f]] = "returned"
      BY <2>1, <2>5 DEF PardoInv
    <3>2. pc[Right[f]] = "returned"
      BY <2>5 DEF IInv
    <3>3. QED
      BY <1>3, <2>2, <2>5, <3>1, <3>2 DEF PardoInv
  <2>6. QED
    BY <2>3, <2>4, <2>5
<1>8. \A t \in Tasks : pc'[t] \in {"left", "pop", "right", "wait"} => t \in Forks
  BY <1>3 DEF IInv
<1>9. pc'[Root] # "new" /\ \A t \in asJob : pc'[t] # "new" /\ \E f \in Forks : t = Right[f]
  <2>1. asJob \subseteq Tasks /\ Root \in Tasks
    BY <1>2, TreeFacts DEF TypeOK
  <2>2. QED
    BY <1>3, <2>1 DEF IInv
<1>10. \A t \in done : pc'[t] = "returned"
  <2>1. \A t \in done : t \in Tasks /\ pc[t] = "returned"
    BY <1>2 DEF IInv, TypeOK
  <2>2. QED
    BY <1>1, <1>3, <2>1 DEF Running
<1>11. QED
  BY <1>2, <1>6, <1>7, <1>8, <1>9, <1>10 DEF IInv

LEMMA RunLeafInv ==
  ASSUME IInv, NEW w \in Workers, RunLeaf(w) PROVE IInv'
<1>1. stack[w] # <<>> /\ seek[w] = "none" /\ pc[Top(w)] = "body" /\ Top(w) \notin Forks
  BY DEF RunLeaf, At, Runs
<1>2. seek' = [seek EXCEPT ![w] = "none"]
  BY <1>1 DEF RunLeaf, IInv, TypeOK
<1>3. /\ pc' = [pc EXCEPT ![Top(w)] = "return"]
      /\ UNCHANGED <<stack, deque, asJob, done, finished>>
  BY DEF RunLeaf, Goto
<1>4. QED
  BY <1>1, <1>2, <1>3, Moved DEF Seeks

LEMMA PopNoneInv ==
  ASSUME IInv, NEW w \in Workers, PopNone(w) PROVE IInv'
<1>1. stack[w] # <<>> /\ pc[Top(w)] = "pop" /\ deque[w] = <<>>
  BY DEF PopNone, At, Runs
<1>2. PICK s \in {"none", "check"} : seek' = [seek EXCEPT ![w] = s]
  BY DEF PopNone
<1>3. /\ pc' = [pc EXCEPT ![Top(w)] = "wait"]
      /\ UNCHANGED <<stack, deque, asJob, done, finished>>
  BY DEF PopNone, Goto
<1>4. QED
  BY <1>1, <1>2, <1>3, Moved DEF Seeks

LEMMA WaitDoneInv ==
  ASSUME IInv, NEW w \in Workers, WaitDone(w) PROVE IInv'
<1>1. stack[w] # <<>> /\ seek[w] = "none" /\ pc[Top(w)] = "wait" /\ Right[Top(w)] \in done
  BY DEF WaitDone, At, Runs
<1>2. seek' = [seek EXCEPT ![w] = "none"]
  BY <1>1 DEF WaitDone, IInv, TypeOK
<1>3. /\ pc' = [pc EXCEPT ![Top(w)] = "return"]
      /\ UNCHANGED <<stack, deque, asJob, done, finished>>
  BY DEF WaitDone, Goto
<1>4. QED
  BY <1>1, <1>2, <1>3, Moved DEF Seeks

\* Nothing but a worker's place in get_job, or the flag, changes.
LEMMA SeekMoves ==
  ASSUME IInv, UNCHANGED <<stack, pc, asJob, done, deque>>, TypeOK',
         \A x \in Workers : \/ seek'[x] = seek[x]
                            \/ seek[x] # "none" /\ seek'[x] # "off"
                            \/ seek[x] # "none" /\ stack[x] = <<>>
  PROVE  IInv'
<1>1. TypeOK /\ \A t \in Tasks : Running(t)' <=> Running(t)
  BY DEF IInv, Running
<1>2. StackedOnce'
  BY <1>1, StackSame DEF IInv
<1>3. ASSUME NEW x \in Workers
      PROVE  StackInv(x)' /\ DequeInv(x)' /\ SeekInv(x)'
  <2>1. StackInv(x) /\ DequeInv(x) /\ SeekInv(x)
    BY DEF IInv
  <2>2. \A i \in 1 .. Len(deque[x]) : pc[deque[x][i]] = "new"
    BY JobMade
  <2>3. StackInv(x)' /\ DequeInv(x)'
    BY <2>2, Kept
  <2>4. SeekInv(x)'
    BY <2>1 DEF SeekInv
  <2>5. QED
    BY <2>3, <2>4
<1>4. ASSUME NEW f \in Forks
      PROVE  PardoInv(f)'
  BY DEF IInv, PardoInv, Running, OnStack, Held
<1>5. QED
  BY <1>2, <1>3, <1>4 DEF IInv

LEMMA GiveUpInv ==
  ASSUME IInv, NEW w \in Workers, GiveUp(w) PROVE IInv'
<1>1. TypeOK /\ SeekInv(w)
  BY DEF IInv
<1>2. CASE stack[w] = <<>>
  <2>1. seek' = [seek EXCEPT ![w] = "off"] /\ UNCHANGED <<stack, pc, asJob, done, deque, finished>>
    BY <1>2 DEF GiveUp, Seek
  <2>2. TypeOK' /\ seek[w] # "none" /\ \A x \in Workers : x = w \/ seek'[x] = seek[x]
    BY <1>1, <2>1 DEF TypeOK, Seeks, GiveUp
  <2>3. QED
    BY <1>2, <2>1, <2>2, SeekMoves
<1>3. CASE stack[w] # <<>>
  <2>1. /\ pc' = [pc EXCEPT ![Top(w)] = "return"] /\ seek' = [seek EXCEPT ![w] = "none"]
        /\ UNCHANGED <<stack, deque, asJob, done, finished>> /\ Right[Top(w)] \in done
    BY <1>3 DEF GiveUp, Seek, Goto, BreakEarly
  <2>2. pc[Top(w)] = "wait"
    BY <1>1, <1>3, Topmost DEF GiveUp, SeekInv
  <2>3. QED
    BY <1>3, <2>1, <2>2, Moved DEF Seeks
<1>4. QED
  BY <1>2, <1>3

LEMMA GoOnInv ==
  ASSUME IInv, NEW w \in Workers, GoOn(w) PROVE IInv'
<1>1. PICK s \in {"own", "try"} : seek' = [seek EXCEPT ![w] = s]
  BY DEF GoOn, Seek
<1>2. seek[w] # "none" /\ UNCHANGED <<stack, pc, asJob, done, deque, finished>>
  BY DEF GoOn
<1>3. TypeOK' /\ \A x \in Workers : IF x = w THEN seek'[x] = s ELSE seek'[x] = seek[x]
  BY <1>1, <1>2 DEF IInv, TypeOK, Seeks
<1>4. QED
  BY <1>2, <1>3, SeekMoves

\* get_own_job finds nothing: no job of a waiting worker is in its deque.
LEMMA SeekOwnInv ==
  ASSUME IInv, NEW w \in Workers, SeekOwn(w) PROVE IInv'
<1>1. seek[w] = "own" /\ deque[w] = <<>>
  BY DEF SeekOwn, IInv, SeekInv
<1>2. seek' = [seek EXCEPT ![w] = "steal"] /\ UNCHANGED <<stack, pc, asJob, done, deque, finished>>
  BY <1>1 DEF SeekOwn, Seek
<1>3. TypeOK' /\ \A x \in Workers : IF x = w THEN seek'[x] = "steal" ELSE seek'[x] = seek[x]
  BY <1>2 DEF IInv, TypeOK, Seeks
<1>4. QED
  BY <1>1, <1>2, <1>3, SeekMoves

LEMMA StealNoneInv ==
  ASSUME IInv, NEW w \in Workers, StealNone(w) PROVE IInv'
<1>1. PICK s \in {"steal", "check"} : seek' = [seek EXCEPT ![w] = s]
  BY DEF StealNone, Seek
<1>2. seek[w] # "none" /\ UNCHANGED <<stack, pc, asJob, done, deque, finished>>
  BY DEF StealNone
<1>3. TypeOK' /\ \A x \in Workers : IF x = w THEN seek'[x] = s ELSE seek'[x] = seek[x]
  BY <1>1, <1>2 DEF IInv, TypeOK, Seeks
<1>4. QED
  BY <1>2, <1>3, SeekMoves

LEMMA ShutdownInv ==
  ASSUME IInv, Shutdown PROVE IInv'
<1>1. TypeOK' /\ UNCHANGED <<stack, pc, asJob, done, deque, seek>>
  BY DEF IInv, TypeOK, Shutdown
<1>2. QED
  BY <1>1, SeekMoves

LEMMA StutterInv ==
  ASSUME IInv, UNCHANGED vars PROVE IInv'
<1>1. TypeOK' /\ UNCHANGED <<stack, pc, asJob, done, deque, seek>>
  BY DEF IInv, TypeOK, vars
<1>2. QED
  BY <1>1, SeekMoves
---------------------------------------------------------------------------
(* Calls begin and end.                                                    *)

LEMMA SpawnInv ==
  ASSUME IInv, NEW w \in Workers, Spawn(w) PROVE IInv'
<1>0. PICK n, m, t : n = Len(stack[w]) /\ m = Len(deque[w]) /\ t = Top(w)
  OBVIOUS
<1> DEFINE l == Left[t]
           r == Right[t]
<1>1. TypeOK /\ StackedOnce /\ StackInv(w) /\ DequeInv(w) /\ stack[w] # <<>> /\ seek[w] = "none"
  BY DEF IInv, Spawn, At, Runs
<1>2. /\ t \in Forks /\ pc[t] = "body" /\ pc[l] = "new" /\ pc[r] = "new"
      /\ t \in Tasks /\ l \in Tasks /\ r \in Tasks /\ t # l /\ t # r /\ l # r
  BY <1>0, TreeFacts DEF Spawn, At, IInv, PardoInv
<1>3. /\ n \in Nat \ {0} /\ t = stack[w][n]
      /\ \A k \in 1 .. n - 1 : stack[w][k] # t
      /\ \A v \in Workers : \A k \in 1 .. Len(stack[v]) : stack[v][k] = t => v = w /\ k = n
  BY <1>0, <1>1, Topmost
<1>4. /\ Len(stack'[w]) = n + 1 /\ stack'[w][n + 1] = l
      /\ \A k \in 1 .. n : stack'[w][k] = stack[w][k]
      /\ \A v \in Workers : v # w => stack'[v] = stack[v]
  <2>1. stack' = [stack EXCEPT ![w] = Append(@, l)] /\ stack \in [Workers -> Seq(Tasks)]
    BY <1>0, <1>1 DEF Spawn, TypeOK
  <2>2. QED
    BY <1>0, <1>2, <2>1, Pushed
<1>5. /\ m \in Nat /\ Len(deque'[w]) = m + 1 /\ deque'[w][m + 1] = r
      /\ \A i \in 1 .. m : deque'[w][i] = deque[w][i]
      /\ \A v \in Workers : v # w => deque'[v] = deque[v]
  <2>1. deque' = [deque EXCEPT ![w] = Append(@, r)] /\ deque \in [Workers -> Seq(Tasks)]
    BY <1>0, <1>1 DEF Spawn, TypeOK
  <2>2. QED
    BY <1>0, <1>2, <2>1, Pushed
<1>6. /\ pc'[t] = "left" /\ pc'[l] = "body"
      /\ \A x \in Tasks : x # t /\ x # l => pc'[x] = pc[x]
      /\ UNCHANGED <<asJob, done, seek, finished>>
  BY <1>0, <1>1, <1>2 DEF Spawn, TypeOK
<1>7. TypeOK'
  <2>1. stack' \in [Workers -> Seq(Tasks)]
    <3>1. stack' = [stack EXCEPT ![w] = Append(@, l)] /\ stack \in [Workers -> Seq(Tasks)]
      BY <1>0, <1>1 DEF Spawn, TypeOK
    <3>2. QED
      BY <1>0, <1>2, <3>1, Pushed
  <2>2. deque' \in [Workers -> Seq(Tasks)]
    <3>1. deque' = [deque EXCEPT ![w] = Append(@, r)] /\ deque \in [Workers -> Seq(Tasks)]
      BY <1>0, <1>1 DEF Spawn, TypeOK
    <3>2. QED
      BY <1>0, <1>2, <3>1, Pushed
  <2>3. pc' \in [Tasks -> PCs]
    BY <1>0, <1>1, <1>2 DEF Spawn, TypeOK, PCs
  <2>4. QED
    BY <1>1, <1>6, <2>1, <2>2, <2>3 DEF TypeOK
<1>8. StackedOnce'
  <2>1. ~Running(l) /\ \A x \in Tasks : Running(x)' <=> Running(x) \/ x = l
    BY <1>2, <1>6 DEF Running
  <2>2. stack' = [stack EXCEPT ![w] = Append(@, l)]
    BY <1>0 DEF Spawn
  <2>3. QED
    BY <1>1, <1>2, <1>7, <2>1, <2>2, StackPush
\* The calls and the jobs that were there.
<1>9. /\ \A k \in 1 .. n : stack[w][k] \in Tasks /\ stack[w][k] # l
      /\ \A k \in 1 .. n : k # n => stack[w][k] # t /\ pc'[stack[w][k]] = pc[stack[w][k]]
  <2>1. \A k \in 1 .. n : stack[w][k] \in Tasks /\ Running(stack[w][k])
    BY <1>0, <1>1, Typed DEF StackedOnce
  <2>2. QED
    BY <1>2, <1>3, <1>6, <2>1 DEF Running
<1>10. \A i \in 1 .. m : /\ deque[w][i] \in Tasks /\ pc'[deque[w][i]] = "new"
                          /\ deque[w][i] # r
  <2> SUFFICES ASSUME NEW i \in 1 .. m
               PROVE  /\ deque[w][i] \in Tasks /\ pc'[deque[w][i]] = "new"
                      /\ deque[w][i] # r
    OBVIOUS
  <2>1. PICK k \in 1 .. n :
          /\ JobOf(w, i, k) /\ stack[w][k] \in Forks
          /\ deque[w][i] = Right[stack[w][k]] /\ pc[deque[w][i]] = "new"
    BY <1>0, JobMade
  <2>2. pc[stack[w][k]] \in {"left", "pop"}
    BY <2>1 DEF JobOf
  <2>3. stack[w][k] # t
    BY <1>2, <2>2
  <2>4. deque[w][i] # r /\ deque[w][i] # l /\ deque[w][i] # t /\ deque[w][i] \in Tasks
    BY <1>2, <2>1, <2>3, TreeFacts
  <2>5. QED
    BY <1>6, <2>1, <2>4
<1> HIDE DEF l, r
<1>11. StackInv(w)'
  <2>1. stack[w][1] \in asJob \cup {Root}
    BY <1>1 DEF StackInv
  <2>2. 1 \in 1 .. n
    BY <1>3
  <2>3. stack'[w][1] \in asJob' \cup {Root}
    BY <1>4, <1>6, <2>1, <2>2
  <2>4. ASSUME NEW k \in 1 .. n
        PROVE  Called(stack[w][k], stack[w][k + 1])'
    <3>1. CASE k = n
      <4>1. stack'[w][k] = t /\ stack'[w][k + 1] = l
        BY <1>3, <1>4, <3>1
      <4>2. l = Left[t]
        BY DEF l
      <4>3. QED
        BY <1>6, <4>1, <4>2 DEF Called
    <3>2. CASE k # n
      <4>1. k \in 1 .. n - 1 /\ k + 1 \in 1 .. n
        BY <1>3, <3>2
      <4>2. Called(stack[w][k], stack[w][k + 1])
        BY <1>0, <1>1, <4>1 DEF StackInv
      <4>3. stack'[w][k] = stack[w][k] /\ stack'[w][k + 1] = stack[w][k + 1]
        BY <1>4, <4>1
      <4>4. pc'[stack[w][k]] = pc[stack[w][k]] /\ asJob' = asJob
        BY <1>6, <1>9, <3>2
      <4>5. QED
        BY <4>2, <4>3, <4>4 DEF Called
    <3>3. QED
      BY <3>1, <3>2
  <2>5. Len(stack'[w]) - 1 = n
    BY <1>3, <1>4
  <2>6. pc'[stack'[w][Len(stack'[w])]] = "body"
    BY <1>4, <1>6
  <2>7. QED
    BY <2>3, <2>4, <2>5, <2>6 DEF StackInv, Called
\* A job is that of the call it was of; the new job is that of t.
<1>12. \A i \in 1 .. m, k \in 1 .. n + 1 :
         JobOf(w, i, k)' <=> k \in 1 .. n /\ k # n /\ JobOf(w, i, k)
  <2> SUFFICES ASSUME NEW i \in 1 .. m, NEW k \in 1 .. n + 1
               PROVE  JobOf(w, i, k)' <=> k \in 1 .. n /\ k # n /\ JobOf(w, i, k)
    OBVIOUS
  <2>1. CASE k = n + 1
    BY <1>3, <1>4, <1>6, <2>1 DEF JobOf
  <2>2. CASE k = n
    <3>1. stack'[w][k] = t /\ deque'[w][i] = deque[w][i] /\ r = Right[t]
      BY <1>3, <1>4, <1>5, <2>2 DEF r
    <3>2. QED
      BY <1>10, <2>2, <3>1 DEF JobOf
  <2>3. CASE k \in 1 .. n /\ k # n
    BY <1>4, <1>5, <1>9, <2>3 DEF JobOf
  <2>4. QED
    BY <1>3, <2>1, <2>2, <2>3
<1>13. \A k \in 1 .. n + 1 : JobOf(w, m + 1, k)' <=> k = n
  <2> SUFFICES ASSUME NEW k \in 1 .. n + 1
               PROVE  JobOf(w, m + 1, k)' <=> k = n
    OBVIOUS
  <2>1. CASE k = n + 1
    BY <1>3, <1>4, <1>6, <2>1 DEF JobOf
  <2>2. CASE k = n
    BY <1>3, <1>4, <1>5, <1>6, <2>2 DEF JobOf, r
  <2>3. CASE k \in 1 .. n /\ k # n
    <3>1. stack'[w][k] = stack[w][k] /\ stack[w][k] # t /\ stack[w][k] \in Tasks
      BY <1>4, <1>9, <2>3
    <3>2. pc'[stack[w][k]] \in {"left", "pop"} => stack[w][k] \in Forks
      BY <1>9, <2>3, <3>1 DEF IInv
    <3>3. stack[w][k] \in Forks => Right[stack[w][k]] # r
      BY <1>2, <3>1, TreeFacts DEF r
    <3>4. QED
      BY <1>5, <2>3, <3>1, <3>2, <3>3 DEF JobOf
  <2>4. QED
    BY <1>3, <2>1, <2>2, <2>3
<1>14. DequeInv(w)'
  <2>1. \A i \in 1 .. m + 1 : i \in 1 .. m \/ i = m + 1
    BY <1>5
  <2>2. \A k \in 1 .. n + 1 : k \in 1 .. n \/ k = n + 1
    BY <1>3
  <2>3. ASSUME NEW i \in 1 .. m + 1
        PROVE  /\ pc'[deque'[w][i]] = "new"
               /\ \E k \in 1 .. n + 1 :
                    JobOf(w, i, k)' /\ \A b \in k .. n + 1 : pc'[stack'[w][b]] # "wait"
    <3>1. CASE i = m + 1
      <4>1. pc'[r] = "new"
        BY <1>2, <1>6 DEF l, r
      <4>2. JobOf(w, i, n)' /\ n \in 1 .. n + 1
        BY <1>3, <1>13, <3>1
      <4>3. \A b \in n .. n + 1 : b = n \/ b = n + 1
        BY <1>3
      <4>4. n \in 1 .. n /\ stack'[w][n] = t /\ stack'[w][n + 1] = l
        BY <1>3, <1>4
      <4>5. QED
        BY <1>5, <1>6, <3>1, <4>1, <4>2, <4>3, <4>4
    <3>2. CASE i \in 1 .. m
      <4>1. PICK k \in 1 .. n : JobOf(w, i, k) /\ \A b \in k .. n : pc[stack[w][b]] # "wait"
        BY <1>0, <3>2, JobMade
      <4>2. k # n
        BY <1>2, <1>3, <4>1 DEF JobOf
      <4>3. JobOf(w, i, k)' /\ k \in 1 .. n + 1
        BY <1>3, <1>12, <3>2, <4>1, <4>2
      <4>4. ASSUME NEW b \in k .. n + 1
            PROVE  pc'[stack'[w][b]] # "wait"
        <5>1. b = n + 1 \/ (b \in 1 .. n /\ b \in k .. n)
          BY <1>3, <4>1
        <5>2. QED
          BY <1>3, <1>4, <1>6, <1>9, <4>1, <5>1
      <4>5. QED
        BY <1>5, <1>10, <3>2, <4>3, <4>4
    <3>3. QED
      BY <2>1, <3>1, <3>2
  <2>4. ASSUME NEW i \in 1 .. m + 1, NEW j \in 1 .. m + 1,
               NEW k \in 1 .. n + 1, NEW q \in 1 .. n + 1,
               JobOf(w, i, k)', JobOf(w, j, q)', i < j
        PROVE  k < q
    <3>1. i \in 1 .. m /\ k \in 1 .. n /\ k # n /\ JobOf(w, i, k)
      BY <1>5, <1>12, <2>1, <2>4
    <3>2. CASE j = m + 1
      BY <1>3, <1>13, <2>4, <3>1, <3>2
    <3>3. CASE j \in 1 .. m
      <4>1. q \in 1 .. n /\ JobOf(w, j, q)
        BY <1>12, <2>4, <3>3
      <4>2. QED
        BY <1>0, <1>1, <2>4, <3>1, <3>3, <4>1 DEF DequeInv
    <3>4. QED
      BY <2>1, <3>2, <3>3
  <2>5. ASSUME NEW i \in 1 .. m + 1, NEW k \in 1 .. n + 1, NEW q \in 1 .. n + 1,
               JobOf(w, i, k)', k < q, pc'[stack'[w][q]] \in {"left", "pop"}
        PROVE  \E j \in 1 .. m + 1 : deque'[w][j] = Right[stack'[w][q]]
    <3>1. q \in 1 .. n
      BY <1>4, <1>6, <2>2, <2>5
    <3>2. CASE q = n
      <4>1. m + 1 \in 1 .. m + 1 /\ stack'[w][q] = t
        BY <1>3, <1>4, <1>5, <3>1, <3>2
      <4>2. QED
        BY <1>5, <4>1 DEF r
    <3>3. CASE q # n
      <4>1. i # m + 1
        BY <1>3, <1>13, <2>5, <3>1
      <4>2. i \in 1 .. m /\ k \in 1 .. n /\ JobOf(w, i, k)
        BY <1>12, <2>1, <2>5, <4>1
      <4>3. stack'[w][q] = stack[w][q] /\ pc[stack[w][q]] \in {"left", "pop"}
        BY <1>4, <1>9, <2>5, <3>1, <3>3
      <4>4. PICK j \in 1 .. m : deque[w][j] = Right[stack[w][q]]
        <5>1. \A a \in 1 .. Len(deque[w]) : \A b, c \in 1 .. Len(stack[w]) :
                JobOf(w, a, b) /\ b < c /\ pc[stack[w][c]] \in {"left", "pop"}
                  => \E h \in 1 .. Len(deque[w]) : deque[w][h] = Right[stack[w][c]]
          BY <1>1 DEF DequeInv
        <5>2. \E h \in 1 .. Len(deque[w]) : deque[w][h] = Right[stack[w][q]]
          BY <1>0, <2>5, <3>1, <4>2, <4>3, <5>1
        <5>3. QED
          BY <1>0, <5>2, Zenon
      <4>5. j \in 1 .. m + 1 /\ deque'[w][j] = deque[w][j]
        BY <1>5
      <4>6. QED
        BY <4>3, <4>4, <4>5
    <3>4. QED
      BY <3>2, <3>3
  <2>6. QED
    BY <1>4, <1>5, <2>3, <2>4, <2>5 DEF DequeInv
<1>15. SeekInv(w)'
  BY <1>1, <1>6 DEF SeekInv
<1>16. ASSUME NEW x \in Workers, x # w
       PROVE  StackInv(x)' /\ DequeInv(x)' /\ SeekInv(x)'
  <2>1. t \in OnStack(w)
    BY <1>0, <1>1, <1>3, Places
  <2>2. l \notin Held(x)
    <3>1. \A i \in 1 .. Len(deque[x]) : \E f \in Forks : deque[x][i] = Right[f]
      BY JobMade
    <3>2. QED
      BY <1>1, <1>2, <3>1, Places, TreeFacts DEF l
  <2>3. \A y \in Tasks : pc'[y] # pc[y] =>
          y \in OnStack(w) \/ (pc[y] = "new" /\ y \notin Held(x))
    BY <1>2, <1>6, <2>1, <2>2 DEF l
  <2>4. UNCHANGED <<stack[x], deque[x], seek[x]>>
    BY <1>4, <1>5, <1>6, <1>16
  <2>5. QED
    BY <1>6, <1>16, <2>3, <2>4, OtherWorker
<1>17. ASSUME NEW f \in Forks
       PROVE  PardoInv(f)'
  <2>1. PardoInv(f)
    BY DEF IInv
  <2>2. /\ f \in Tasks /\ Left[f] \in Tasks /\ Right[f] \in Tasks /\ f # Left[f] /\ f # Right[f]
        /\ f # t => Left[f] # l /\ Right[f] # l
    BY <1>2, TreeFacts DEF l
  <2>3. \A x \in Workers : OnStack(x) \subseteq OnStack(x)' /\ Held(x) \subseteq Held(x)'
    <3>1. /\ stack[w] \in Seq(Tasks) /\ stack'[w] = Append(stack[w], l)
          /\ deque[w] \in Seq(Tasks) /\ deque'[w] = Append(deque[w], r)
      BY <1>0, <1>1 DEF Spawn, TypeOK, l, r
    <3>2. OnStack(w) \subseteq OnStack(w)' /\ Held(w) \subseteq Held(w)'
      BY <1>2, <3>1, AppendSet DEF OnStack, Held
    <3>3. \A x \in Workers : x # w => OnStack(x)' = OnStack(x) /\ Held(x)' = Held(x)
      BY <1>4, <1>5 DEF OnStack, Held
    <3>4. QED
      BY <3>2, <3>3
  <2>4. CASE f = t
    <3>1. pc'[f] = "left" /\ pc'[Left[f]] = "body" /\ pc'[Right[f]] = "new"
      BY <1>2, <1>6, <2>4 DEF l, r
    <3>2. f \in OnStack(w)'
      BY <1>0, <1>1, <1>3, <2>3, <2>4, Places
    <3>3. Right[f] \in Held(w)'
      <4>1. m + 1 \in 1 .. m + 1
        BY <1>5
      <4>2. QED
        BY <1>5, <1>7, <2>4, <4>1, PlacesNext DEF r
    <3>4. QED
      BY <3>1, <3>2, <3>3 DEF PardoInv, Running
  <2>5. CASE f = l
    <3>1. pc[Left[f]] = "new" /\ pc[Right[f]] = "new"
      BY <1>2, <2>1, <2>5 DEF PardoInv, l
    <3>2. pc'[f] = "body" /\ pc'[Left[f]] = "new" /\ pc'[Right[f]] = "new"
      BY <1>2, <1>6, <2>2, <2>5, <3>1
    <3>3. QED
      BY <3>2 DEF PardoInv
  <2>6. CASE f # t /\ f # l
    <3>1. \A c \in {Left[f], Right[f]} : pc'[c] = pc[c] \/ (Running(c) /\ Running(c)')
      BY <1>2, <1>6, <2>2, <2>6 DEF Running
    <3>2. pc'[f] = pc[f] /\ (Right[f] \in asJob' <=> Right[f] \in asJob)
      BY <1>6, <2>2, <2>6
    <3>3. QED
      BY <2>1, <2>3, <3>1, <3>2, PardoSame
  <2>7. QED
    BY <2>4, <2>5, <2>6
<1>18. \A x \in Tasks : pc'[x] \in {"left", "pop", "right", "wait"} => x \in Forks
  BY <1>2, <1>6 DEF IInv, l
<1>19. pc'[Root] # "new" /\ \A x \in asJob' : pc'[x] # "new" /\ \E f \in Forks : x = Right[f]
  <2>1. asJob \subseteq Tasks /\ Root \in Tasks
    BY <1>1, TreeFacts DEF TypeOK
  <2>2. QED
    BY <1>2, <1>6, <2>1 DEF IInv, l
<1>20. \A x \in done' : pc'[x] = "returned"
  <2>1. \A x \in done : x \in Tasks /\ pc[x] = "returned"
    BY <1>1 DEF IInv, TypeOK
  <2>2. QED
    BY <1>2, <1>6, <2>1 DEF l
<1>21. QED
  BY <1>7, <1>8, <1>11, <1>14, <1>15, <1>16, <1>17, <1>18, <1>19, <1>20 DEF IInv

\* A job that returns on a worker leaves the worker no job: the call below it,
\* if any, waits.
LEMMA JobLeavesNone ==
  ASSUME IInv, NEW w \in Workers, stack[w] # <<>>, pc[Top(w)] = "return",
         Top(w) \in asJob \cup {Root}
  PROVE  deque[w] = <<>>
<1>0. PICK n : n = Len(stack[w])
  OBVIOUS
<1>1. /\ n \in Nat \ {0} /\ Top(w) = stack[w][n]
      /\ n > 1 => pc[stack[w][n - 1]] = "wait"
  BY <1>0, Topmost, CalledFrom
<1>2. Len(deque[w]) \in Nat /\ (deque[w] = <<>> <=> Len(deque[w]) = 0)
  BY Typed DEF IInv
<1>3. SUFFICES ASSUME 1 \in 1 .. Len(deque[w]) PROVE FALSE
  BY <1>2
<1>4. PICK k \in 1 .. n :
        JobOf(w, 1, k) /\ \A b \in k .. n : pc[stack[w][b]] # "wait"
  BY <1>0, <1>3, JobMade
<1>5. k # n
  BY <1>1, <1>4 DEF JobOf
<1>6. n > 1 /\ n - 1 \in k .. n
  BY <1>1, <1>4, <1>5
<1>7. QED
  BY <1>1, <1>4, <1>6

LEMMA ReturnInv ==
  ASSUME IInv, NEW w \in Workers, Return(w) PROVE IInv'
<1>0. PICK n, m, t : n = Len(stack[w]) /\ m = Len(deque[w]) /\ t = Top(w)
  OBVIOUS
<1>1. /\ TypeOK /\ StackedOnce /\ StackInv(w) /\ DequeInv(w) /\ SeekInv(w)
      /\ stack[w] # <<>> /\ seek[w] = "none" /\ pc[t] = "return"
  BY <1>0 DEF IInv, Return, At, Runs
<1>2. /\ n \in Nat \ {0} /\ t = stack[w][n] /\ t \in Tasks /\ n \in 1 .. n
      /\ \A k \in 1 .. n - 1 : stack[w][k] # t
      /\ t \in OnStack(w)
  BY <1>0, <1>1, Topmost, Places
<1>3. PICK p : p = stack[w][n - 1]
  OBVIOUS
<1> DEFINE AsJob == t \in asJob \cup {Root}
<1>4. /\ t = Root => n = 1
      /\ AsJob /\ n > 1 => pc[p] = "wait"
      /\ ~AsJob => /\ n > 1 /\ p \in Forks /\ p # t
                   /\ \/ pc[p] = "left" /\ t = Left[p]
                      \/ pc[p] = "right" /\ t = Right[p]
  BY <1>0, <1>1, <1>2, <1>3, CalledFrom
<1>5. /\ Len(stack'[w]) = n - 1
      /\ \A k \in 1 .. n - 1 : stack'[w][k] = stack[w][k]
      /\ \A v \in Workers : v # w => stack'[v] = stack[v]
      /\ n > 1 => Last(Front(stack[w])) = p
      /\ stack' = [stack EXCEPT ![w] = Front(@)] /\ Front(stack[w]) \in Seq(Tasks)
  <2>1. stack' = [stack EXCEPT ![w] = Front(@)] /\ stack \in [Workers -> Seq(Tasks)]
    BY <1>1 DEF Return, TypeOK
  <2>2. PICK q : q = Front(stack[w])
    OBVIOUS
  <2>3. /\ q \in Seq(Tasks) /\ Len(q) = n - 1
        /\ \A k \in 1 .. n - 1 : q[k] = stack[w][k]
    <3>1. stack[w] \in Seq(Tasks) /\ stack[w] # <<>>
      BY <1>1, <2>1
    <3>2. QED
      BY <1>0, <2>2, <3>1, FrontSeq
  <2>4. n > 1 => q # <<>> /\ n - 1 \in 1 .. n - 1
    BY <1>2, <2>3
  <2>5. n > 1 => Last(q) = p
    BY <1>3, <2>3, <2>4, FrontSeq
  <2>6. QED
    BY <2>1, <2>2, <2>3, <2>5
<1>6. /\ UNCHANGED <<deque, asJob, finished>> /\ pc'[t] = "returned"
      /\ \A x \in Workers : x # w => seek'[x] = seek[x]
      /\ AsJob => /\ \A x \in Tasks : x # t => pc'[x] = pc[x]
                  /\ done' = (IF t = Root THEN done ELSE done \cup {t})
                  /\ seek'[w] = (IF t = Root THEN "off" ELSE "check")
      /\ ~AsJob => /\ pc'[p] = (IF pc[p] = "left" THEN "pop" ELSE "return")
                   /\ \A x \in Tasks : x # t /\ x # p => pc'[x] = pc[x]
                   /\ done' = done /\ seek'[w] = "none"
      /\ pc' \in [Tasks -> PCs] /\ seek' \in [Workers -> Seeks] /\ done' \subseteq asJob
  <2>1. CASE AsJob
    <3>1. /\ pc' = [pc EXCEPT ![t] = "returned"]
          /\ done' = (IF t = Root THEN done ELSE done \cup {t})
          /\ seek' = [seek EXCEPT ![w] = IF t = Root THEN "off" ELSE "check"]
          /\ UNCHANGED <<deque, asJob, finished>>
      BY <1>0, <2>1 DEF Return, Goto
    <3>2. pc \in [Tasks -> PCs] /\ seek \in [Workers -> Seeks] /\ done \subseteq asJob
      BY <1>1 DEF TypeOK
    <3>3. pc' \in [Tasks -> PCs] /\ \A x \in Tasks : pc'[x] = IF x = t THEN "returned" ELSE pc[x]
      BY <1>2, <3>1, <3>2 DEF PCs
    <3>4. /\ seek' \in [Workers -> Seeks] /\ seek'[w] = (IF t = Root THEN "off" ELSE "check")
          /\ \A x \in Workers : x # w => seek'[x] = seek[x]
      BY <3>1, <3>2 DEF Seeks
    <3>5. done' \subseteq asJob
      BY <2>1, <3>1, <3>2
    <3>6. QED
      BY <1>2, <2>1, <3>1, <3>3, <3>4, <3>5
  <2>2. CASE ~AsJob
    <3>1. p \in Tasks /\ p # t
      BY <1>4, <2>2, TreeFacts
    <3>2. /\ pc' = [pc EXCEPT ![t] = "returned", ![p] = IF pc[p] = "left" THEN "pop" ELSE "return"]
          /\ UNCHANGED <<done, seek, deque, asJob, finished>>
      BY <1>0, <1>4, <1>5, <2>2 DEF Return
    <3>3. QED
      BY <1>1, <1>2, <2>2, <3>1, <3>2 DEF TypeOK, PCs
  <2>3. QED
    BY <2>1, <2>2
<1>7. TypeOK'
  <2>1. stack' \in [Workers -> Seq(Tasks)]
    BY <1>1, <1>5 DEF TypeOK
  <2>2. QED
    BY <1>1, <1>6, <2>1 DEF TypeOK
<1>8. StackedOnce'
  <2>1. \A x \in Tasks : Running(x)' <=> Running(x) /\ x # t
    BY <1>1, <1>4, <1>6 DEF Running
  <2>2. QED
    BY <1>0, <1>1, <1>5, <1>7, <2>1, StackPop
\* The calls and the jobs that are left.
<1>9. \A k \in 1 .. n - 1 :
        /\ k \in 1 .. n /\ stack[w][k] \in Tasks /\ stack[w][k] # t
        /\ k # n - 1 => stack[w][k] # p
  <2>1. \A k \in 1 .. n - 1 : k \in 1 .. n /\ n - 1 \in 1 .. n
    BY <1>2
  <2>2. \A k, l \in 1 .. n : stack[w][k] = stack[w][l] => k = l
    BY <1>0, <1>1 DEF StackedOnce
  <2>3. \A k \in 1 .. n : stack[w][k] \in Tasks
    BY <1>0, <1>1, Typed
  <2>4. QED
    BY <1>2, <1>3, <2>1, <2>2, <2>3
<1>10. ASSUME NEW i \in 1 .. m
       PROVE  /\ deque[w][i] \in Tasks /\ pc[deque[w][i]] = "new" /\ pc'[deque[w][i]] = "new"
  <2>1. deque[w][i] \in Tasks /\ pc[deque[w][i]] = "new"
    BY <1>0, <1>1, Typed, JobMade
  <2>2. pc[p] # "new" \/ AsJob
    BY <1>4
  <2>3. QED
    BY <1>1, <1>2, <1>6, <2>1, <2>2
<1> HIDE DEF AsJob
<1>11. StackInv(w)'
  <2>1. CASE n = 1
    BY <1>5, <1>7, <2>1, PlacesNext DEF StackInv
  <2>2. CASE n > 1
    <3>1. n - 1 \in 1 .. n - 1 /\ 1 \in 1 .. n - 1 /\ stack'[w][n - 1] = p
      BY <1>2, <1>3, <1>5, <2>2
    <3>2. stack'[w][1] \in asJob' \cup {Root}
      BY <1>1, <1>5, <1>6, <3>1 DEF StackInv
    <3>3. pc'[p] \in {"pop", "wait", "return"}
      <4>1. p \in Tasks /\ p # t
        BY <1>3, <1>9, <3>1
      <4>2. QED
        BY <1>4, <1>6, <2>2, <4>1
    <3>4. ASSUME NEW k \in 1 .. n - 2
          PROVE  Called(stack[w][k], stack[w][k + 1])'
                 /\ stack'[w][k] = stack[w][k] /\ stack'[w][k + 1] = stack[w][k + 1]
      <4>1. k \in 1 .. n - 1 /\ k + 1 \in 1 .. n - 1 /\ k # n - 1
        BY <1>2
      <4>2. Called(stack[w][k], stack[w][k + 1])
        BY <1>0, <1>1, <4>1 DEF StackInv
      <4>3. /\ pc'[stack[w][k]] = pc[stack[w][k]] /\ asJob' = asJob
            /\ stack'[w][k] = stack[w][k] /\ stack'[w][k + 1] = stack[w][k + 1]
        BY <1>5, <1>6, <1>9, <4>1
      <4>4. QED
        BY <4>2, <4>3 DEF Called
    <3>5. Len(stack'[w]) - 1 = n - 2
      BY <1>2, <1>5
    <3>6. QED
      BY <1>5, <3>1, <3>2, <3>3, <3>4, <3>5 DEF StackInv, Called
  <2>3. QED
    BY <1>2, <2>1, <2>2
<1>12. DequeInv(w)'
  <2>1. CASE AsJob
    <3>1. deque'[w] = <<>> /\ Len(deque'[w]) = 0
      BY <1>0, <1>1, <1>6, <1>7, <2>1, JobLeavesNone, PlacesNext DEF AsJob
    <3>2. QED
      BY <3>1 DEF DequeInv
  <2>2. CASE ~AsJob
    <3>1. n - 1 \in Nat \ {0} /\ n - 1 \in 1 .. n - 1 /\ p \in Tasks /\ p # t
      BY <1>2, <1>3, <1>4, <1>9, <2>2
    <3>2. ASSUME NEW k \in 1 .. n - 1
          PROVE  /\ stack'[w][k] = stack[w][k]
                 /\ pc'[stack[w][k]] \in {"left", "pop"} <=> pc[stack[w][k]] \in {"left", "pop"}
                 /\ pc'[stack[w][k]] = "wait" => pc[stack[w][k]] = "wait"
      <4>1. CASE k = n - 1
        BY <1>3, <1>4, <1>5, <1>6, <2>2, <4>1
      <4>2. CASE k # n - 1
        BY <1>5, <1>6, <1>9, <2>2, <4>2
      <4>3. QED
        BY <4>1, <4>2
    <3>3. \A i \in 1 .. m, k \in 1 .. n - 1 : JobOf(w, i, k)' <=> JobOf(w, i, k)
      BY <1>6, <3>2 DEF JobOf
    <3>4. ASSUME NEW i \in 1 .. m
          PROVE  \E k \in 1 .. n - 1 :
                   JobOf(w, i, k)' /\ \A b \in k .. n - 1 : pc'[stack'[w][b]] # "wait"
      <4>1. PICK k \in 1 .. n : JobOf(w, i, k) /\ \A b \in k .. n : pc[stack[w][b]] # "wait"
        BY <1>0, JobMade
      <4>2. k # n
        BY <1>1, <1>2, <4>1 DEF JobOf
      <4>3. k \in 1 .. n - 1 /\ \A b \in k .. n - 1 : b \in 1 .. n - 1 /\ b \in k .. n
        BY <1>2, <4>1, <4>2
      <4>4. \A b \in k .. n - 1 : pc'[stack'[w][b]] # "wait"
        BY <3>2, <4>1, <4>3
      <4>5. QED
        BY <3>3, <4>1, <4>3, <4>4
    <3>5. \A i, j \in 1 .. m : \A k, q \in 1 .. n - 1 :
            JobOf(w, i, k)' /\ JobOf(w, j, q)' /\ i < j => k < q
      <4>1. \A i, j \in 1 .. m : \A k, q \in 1 .. n :
              JobOf(w, i, k) /\ JobOf(w, j, q) /\ i < j => k < q
        BY <1>0, <1>1 DEF DequeInv
      <4>2. QED
        BY <1>9, <3>3, <4>1
    <3>6. \A i \in 1 .. m : \A k, q \in 1 .. n - 1 :
            JobOf(w, i, k)' /\ k < q /\ pc'[stack'[w][q]] \in {"left", "pop"}
              => \E j \in 1 .. m : deque'[w][j] = Right[stack'[w][q]]
      <4>1. \A i \in 1 .. m : \A k, q \in 1 .. n :
              JobOf(w, i, k) /\ k < q /\ pc[stack[w][q]] \in {"left", "pop"}
                => \E j \in 1 .. m : deque[w][j] = Right[stack[w][q]]
        <5>1. \A i \in 1 .. Len(deque[w]) : \A k, q \in 1 .. Len(stack[w]) :
                JobOf(w, i, k) /\ k < q /\ pc[stack[w][q]] \in {"left", "pop"}
                  => \E j \in 1 .. Len(deque[w]) : deque[w][j] = Right[stack[w][q]]
          BY <1>1 DEF DequeInv
        <5>2. PICK D, S : D = deque[w] /\ S = stack[w] /\ Len(D) = m /\ Len(S) = n
          BY <1>0
        <5>3. \A i \in 1 .. m : \A k, q \in 1 .. n :
                JobOf(w, i, k) /\ k < q /\ pc[S[q]] \in {"left", "pop"}
                  => \E j \in 1 .. m : D[j] = Right[S[q]]
          BY <5>1, <5>2
        <5>4. QED
          BY <5>2, <5>3
      <4>2. QED
        BY <1>6, <1>9, <3>2, <3>3, <4>1
    <3>7. Len(stack'[w]) = n - 1 /\ Len(deque'[w]) = m
      BY <1>0, <1>5, <1>6
    <3>8. \A i \in 1 .. m : pc'[deque'[w][i]] = "new"
      BY <1>6, <1>10
    <3>9. QED
      BY <3>4, <3>5, <3>6, <3>7, <3>8 DEF DequeInv
  <2>3. QED
    BY <2>1, <2>2
<1>13. SeekInv(w)'
  <2>1. CASE AsJob
    <3>1. deque'[w] = <<>>
      BY <1>0, <1>1, <1>6, <2>1, JobLeavesNone DEF AsJob
    <3>2. CASE n = 1
      <4>1. stack'[w] = <<>>
        BY <1>5, <1>7, <3>2, PlacesNext
      <4>2. QED
        BY <3>1, <4>1 DEF SeekInv
    <3>3. CASE n # 1
      <4>1. n > 1 /\ n - 1 \in 1 .. n - 1 /\ p \in Tasks /\ p # t /\ stack'[w][n - 1] = p
        BY <1>2, <1>3, <1>5, <1>9, <3>3
      <4>2. pc'[p] = "wait" /\ t # Root /\ seek'[w] = "check"
        BY <1>4, <1>6, <2>1, <4>1
      <4>3. QED
        BY <1>5, <3>1, <4>1, <4>2 DEF SeekInv
    <3>4. QED
      BY <3>2, <3>3
  <2>2. CASE ~AsJob
    BY <1>6, <2>2 DEF SeekInv
  <2>3. QED
    BY <2>1, <2>2
<1>14. ASSUME NEW x \in Workers, x # w
       PROVE  StackInv(x)' /\ DequeInv(x)' /\ SeekInv(x)'
  <2>1. ~AsJob => p \in OnStack(w)
    <3>1. n > 1 => n - 1 \in 1 .. n
      BY <1>2
    <3>2. QED
      BY <1>0, <1>1, <1>3, <1>4, <3>1, Places
  <2>2. \A y \in Tasks : pc'[y] # pc[y] =>
          y \in OnStack(w) \/ (pc[y] = "new" /\ y \notin Held(x))
    BY <1>2, <1>6, <2>1
  <2>3. UNCHANGED <<stack[x], deque[x], seek[x]>>
    BY <1>5, <1>6, <1>14
  <2>4. QED
    BY <1>6, <1>14, <2>2, <2>3, OtherWorker
\* What stays on a stack.
<1>15. /\ \A x \in Workers : Held(x)' = Held(x)
       /\ \A x \in Workers : \A y : y # t /\ y \in OnStack(x) => y \in OnStack(x)'
  <2>1. \A x \in Workers : Held(x)' = Held(x)
    BY <1>6 DEF Held
  <2>2. \A x \in Workers : x # w => OnStack(x)' = OnStack(x)
    BY <1>5 DEF OnStack
  <2>3. ASSUME NEW y, y # t, y \in OnStack(w)
        PROVE  y \in OnStack(w)'
    <3>1. PICK k \in 1 .. n : stack[w][k] = y
      BY <1>0, <1>1, <2>3, Places
    <3>2. k \in 1 .. n - 1
      BY <1>2, <2>3, <3>1
    <3>3. QED
      BY <1>5, <1>7, <3>1, <3>2, PlacesNext
  <2>4. QED
    BY <2>1, <2>2, <2>3
<1>16. ASSUME NEW f \in Forks
       PROVE  PardoInv(f)'
  <2>1. PardoInv(f)
    BY DEF IInv
  <2>2. /\ f \in Tasks /\ Left[f] \in Tasks /\ Right[f] \in Tasks /\ f # Left[f] /\ f # Right[f]
        /\ Left[f] # Right[f]
    BY TreeFacts
  <2>3. CASE f = t
    <3>1. pc[Left[f]] = "returned" /\ pc[Right[f]] = "returned"
      BY <1>1, <2>1, <2>3 DEF PardoInv
    <3>2. pc'[Left[f]] = "returned" /\ pc'[Right[f]] = "returned"
      BY <1>4, <1>6, <2>2, <2>3, <3>1
    <3>3. QED
      BY <1>6, <2>3, <3>2 DEF PardoInv
  <2>4. CASE f = p /\ ~AsJob
    <3>1. CASE pc[p] = "left" /\ t = Left[p]
      <4>1. pc'[f] = "pop" /\ pc'[Left[f]] = "returned"
        BY <1>6, <2>4, <3>1
      <4>2. pc'[Right[f]] = pc[Right[f]] /\ asJob' = asJob
        BY <1>4, <1>6, <2>2, <2>4, <3>1
      <4>3. \/ Right[f] \in asJob
            \/ pc[Right[f]] = "new" /\ \E x \in Workers : f \in OnStack(x) /\ Right[f] \in Held(x)
        BY <2>1, <2>4, <3>1 DEF PardoInv
      <4>4. f # t
        BY <2>2, <2>4, <3>1
      <4>5. QED
        BY <1>15, <4>1, <4>2, <4>3, <4>4 DEF PardoInv
    <3>2. CASE pc[p] = "right" /\ t = Right[p]
      <4>1. pc'[f] = "return" /\ pc'[Right[f]] = "returned"
        BY <1>6, <2>4, <3>2
      <4>2. pc[Left[f]] = "returned"
        BY <2>1, <2>4, <3>2 DEF PardoInv
      <4>3. pc'[Left[f]] = "returned"
        BY <1>6, <2>2, <2>4, <4>2
      <4>4. QED
        BY <4>1, <4>3 DEF PardoInv
    <3>3. QED
      BY <1>4, <2>4, <3>1, <3>2
  <2>5. CASE f # t /\ (f # p \/ AsJob) /\ t # Right[f]
    <3>1. t # Left[f]
      <4>1. asJob \subseteq {Right[g] : g \in Forks}
        BY DEF IInv
      <4>2. QED
        BY <1>4, <2>5, <4>1, TreeFacts DEF AsJob
    <3>2. pc'[f] = pc[f]
      BY <1>6, <2>2, <2>5
    <3>3. ASSUME NEW c \in {Left[f], Right[f]}
          PROVE  pc'[c] = pc[c] \/ (Running(c) /\ Running(c)')
      <4>1. c \in Tasks /\ c # t
        BY <2>2, <2>5, <3>1
      <4>2. CASE AsJob \/ c # p
        BY <1>6, <4>1, <4>2
      <4>3. CASE ~AsJob /\ c = p
        BY <1>4, <1>6, <4>3 DEF Running
      <4>4. QED
        BY <4>2, <4>3
    <3>4. \A x \in Workers : f \in OnStack(x) /\ Right[f] \in Held(x)
            => f \in OnStack(x)' /\ Right[f] \in Held(x)'
      BY <1>15, <2>5
    <3>5. QED
      BY <1>6, <2>1, <3>2, <3>3, <3>4, PardoSame
  <2>6. CASE f # t /\ (f # p \/ AsJob) /\ t = Right[f]
    <3>1. t \in asJob
      BY <1>4, <2>6, TreeFacts DEF AsJob
    <3>2. pc[f] \in {"left", "pop", "wait"}
      <4>1. pc[f] \in PCs
        BY <1>1, <2>2 DEF TypeOK
      <4>2. pc[Right[f]] = "return" /\ Right[f] \in asJob
        BY <1>1, <2>6, <3>1
      <4>3. QED
        BY <2>1, <4>1, <4>2 DEF PardoInv, PCs
    <3>3. AsJob
      BY <3>1 DEF AsJob
    <3>4. pc'[f] = pc[f] /\ pc'[Left[f]] = pc[Left[f]] /\ asJob' = asJob
      BY <1>6, <2>2, <2>6, <3>3
    <3>5. QED
      BY <2>1, <2>6, <3>1, <3>2, <3>4 DEF PardoInv, Running
  <2>7. QED
    BY <2>3, <2>4, <2>5, <2>6
<1>17. \A x \in Tasks : pc'[x] \in {"left", "pop", "right", "wait"} => x \in Forks
  BY <1>4, <1>6 DEF IInv
<1>18. pc'[Root] # "new" /\ \A x \in asJob' : pc'[x] # "new" /\ \E f \in Forks : x = Right[f]
  <2>1. asJob \subseteq Tasks /\ Root \in Tasks
    BY <1>1, TreeFacts DEF TypeOK
  <2>2. \A x \in Tasks : pc[x] # "new" => pc'[x] # "new"
    BY <1>4, <1>6
  <2>3. QED
    BY <1>6, <2>1, <2>2 DEF IInv
<1>19. \A x \in done' : pc'[x] = "returned"
  <2>1. \A x \in done : x \in Tasks /\ pc[x] = "returned"
    BY <1>1 DEF IInv, TypeOK
  <2>2. \A x \in Tasks : pc[x] = "returned" => pc'[x] = "returned"
    BY <1>4, <1>6
  <2>3. \A x \in done' : x \in done \/ x = t
    BY <1>6
  <2>4. QED
    BY <1>6, <2>1, <2>2, <2>3
<1>20. QED
  BY <1>7, <1>8, <1>11, <1>12, <1>13, <1>14, <1>16, <1>17, <1>18, <1>19 DEF IInv

LEMMA PopOwnInv ==
  ASSUME IInv, NEW w \in Workers, PopOwn(w) PROVE IInv'
<1>0. PICK n, m, t : n = Len(stack[w]) /\ m = Len(deque[w]) /\ t = Top(w)
  OBVIOUS
<1> DEFINE r == Right[t]
<1>1. /\ TypeOK /\ StackedOnce /\ StackInv(w) /\ DequeInv(w)
      /\ stack[w] # <<>> /\ deque[w] # <<>> /\ seek[w] = "none" /\ pc[t] = "pop"
  BY <1>0 DEF IInv, PopOwn, At, Runs
<1>2. /\ n \in Nat \ {0} /\ t = stack[w][n] /\ t \in Tasks /\ t \in OnStack(w)
      /\ \A k \in 1 .. n - 1 : stack[w][k] # t
  <2>1. /\ n \in Nat \ {0} /\ t = stack[w][n] /\ t \in Tasks
        /\ \A k \in 1 .. n - 1 : stack[w][k] # t
    BY <1>0, <1>1, Topmost
  <2>2. n \in 1 .. n
    BY <2>1
  <2>3. QED
    BY <1>0, <1>1, <2>1, <2>2, Places
<1>3. /\ t \in Forks /\ r \in Tasks /\ t # r /\ t # Left[t] /\ r # Left[t] /\ Left[t] \in Tasks
  <2>1. t \in Forks
    BY <1>1, <1>2 DEF IInv
  <2>2. QED
    BY <2>1, TreeFacts
<1>4. /\ m \in Nat \ {0} /\ deque[w][m] = r /\ m \in 1 .. m
  <2>1. m \in Nat \ {0}
    BY <1>0, <1>1, Typed
  <2>2. m \in 1 .. m
    BY <2>1
  <2>3. QED
    BY <1>0, <1>1, <2>1, <2>2, OwnJob
<1>5. pc[r] = "new" /\ r \notin asJob /\ pc[Left[t]] = "returned"
  <2>1. pc[r] = "new"
    BY <1>0, <1>4, JobMade
  <2>2. QED
    BY <1>1, <1>3, <2>1 DEF IInv, PardoInv
<1>6. /\ Len(stack'[w]) = n + 1 /\ stack'[w][n + 1] = r
      /\ \A k \in 1 .. n : stack'[w][k] = stack[w][k]
      /\ \A v \in Workers : v # w => stack'[v] = stack[v]
      /\ stack' \in [Workers -> Seq(Tasks)] /\ stack' = [stack EXCEPT ![w] = Append(@, r)]
  <2>1. stack' = [stack EXCEPT ![w] = Append(@, r)] /\ stack \in [Workers -> Seq(Tasks)]
    BY <1>0, <1>1 DEF PopOwn, TypeOK
  <2>2. QED
    BY <1>0, <1>3, <2>1, Pushed
<1>7. /\ Len(deque'[w]) = m - 1
      /\ \A i \in 1 .. m - 1 : deque'[w][i] = deque[w][i]
      /\ \A v \in Workers : v # w => deque'[v] = deque[v]
      /\ deque' \in [Workers -> Seq(Tasks)]
  <2>1. /\ deque' = [deque EXCEPT ![w] = Front(@)] /\ deque \in [Workers -> Seq(Tasks)]
        /\ deque[w] \in Seq(Tasks)
    BY <1>1 DEF PopOwn, TypeOK
  <2>2. PICK q : q = Front(deque[w])
    OBVIOUS
  <2>3. /\ q \in Seq(Tasks) /\ Len(q) = m - 1 /\ \A i \in 1 .. m - 1 : q[i] = deque[w][i]
    BY <1>0, <1>1, <2>1, <2>2, FrontSeq
  <2>4. deque' = [deque EXCEPT ![w] = q]
    BY <2>1, <2>2
  <2>5. QED
    BY <2>1, <2>3, <2>4
<1>8. /\ pc'[t] = "right" /\ pc'[r] = "body" /\ pc' \in [Tasks -> PCs]
      /\ \A x \in Tasks : x # t /\ x # r => pc'[x] = pc[x]
      /\ UNCHANGED <<asJob, done, seek, finished>>
  <2>1. pc \in [Tasks -> PCs] /\ pc' = [pc EXCEPT ![t] = "right", ![r] = "body"]
    BY <1>0, <1>1 DEF PopOwn, TypeOK
  <2>2. UNCHANGED <<asJob, done, seek, finished>>
    BY <1>0 DEF PopOwn
  <2>3. "right" \in PCs /\ "body" \in PCs
    BY DEF PCs
  <2>4. QED
    BY <1>2, <1>3, <2>1, <2>2, <2>3
<1>9. TypeOK'
  BY <1>1, <1>6, <1>7, <1>8 DEF TypeOK
<1>10. StackedOnce'
  <2>1. ~Running(r) /\ \A x \in Tasks : Running(x)' <=> Running(x) \/ x = r
    BY <1>1, <1>3, <1>5, <1>8 DEF Running
  <2>2. QED
    BY <1>1, <1>3, <1>6, <1>9, <2>1, StackPush
<1>11. /\ \A k \in 1 .. n : stack[w][k] \in Tasks /\ stack[w][k] # r
       /\ \A k \in 1 .. n : k # n => stack[w][k] # t /\ pc'[stack[w][k]] = pc[stack[w][k]]
  <2>1. \A k \in 1 .. n : stack[w][k] \in Tasks /\ Running(stack[w][k])
    BY <1>0, <1>1, Typed DEF StackedOnce
  <2>2. \A k \in 1 .. n : k # n => k \in 1 .. n - 1
    BY <1>2
  <2>3. QED
    BY <1>2, <1>5, <1>8, <2>1, <2>2 DEF Running
<1>12. \A i \in 1 .. m - 1 : /\ i \in 1 .. m /\ deque[w][i] \in Tasks /\ deque[w][i] # r
                              /\ pc'[deque[w][i]] = "new"
  <2> SUFFICES ASSUME NEW i \in 1 .. m - 1
               PROVE  /\ i \in 1 .. m /\ deque[w][i] \in Tasks /\ deque[w][i] # r
                      /\ pc'[deque[w][i]] = "new"
    OBVIOUS
  <2>1. i \in 1 .. m /\ i # m
    BY <1>4
  <2>2. deque[w][i] \in Tasks /\ pc[deque[w][i]] = "new"
    BY <1>0, <1>1, <2>1, Typed, JobMade
  <2>3. deque[w][i] # r
    BY <1>0, <1>4, <2>1, JobsOnce
  <2>4. QED
    BY <1>1, <1>8, <2>1, <2>2, <2>3
<1> HIDE DEF r
<1>13. StackInv(w)'
  <2>1. 1 \in 1 .. n /\ stack'[w][1] \in asJob' \cup {Root}
    BY <1>1, <1>2, <1>6, <1>8 DEF StackInv
  <2>2. ASSUME NEW k \in 1 .. n
        PROVE  \E f, c : /\ f = stack'[w][k] /\ c = stack'[w][k + 1] /\ Called(f, c)'
    <3>1. CASE k = n
      <4>1. stack'[w][k] = t /\ stack'[w][k + 1] = r
        BY <1>2, <1>6, <3>1
      <4>2. Called(t, r)'
        BY <1>5, <1>8 DEF Called, r
      <4>3. QED
        BY <4>1, <4>2
    <3>2. CASE k # n
      <4>1. k \in 1 .. n - 1 /\ k + 1 \in 1 .. n
        BY <1>2, <3>2
      <4>2. PICK f, c : f = stack[w][k] /\ c = stack[w][k + 1]
        OBVIOUS
      <4>3. Called(f, c) /\ pc'[f] = pc[f] /\ asJob' = asJob
        BY <1>0, <1>1, <1>8, <1>11, <3>2, <4>1, <4>2 DEF StackInv
      <4>4. Called(f, c)'
        BY <4>3 DEF Called
      <4>5. f = stack'[w][k] /\ c = stack'[w][k + 1]
        BY <1>6, <4>1, <4>2
      <4>6. QED
        BY <4>4, <4>5
    <3>3. QED
      BY <3>1, <3>2
  <2>3. Len(stack'[w]) - 1 = n /\ pc'[stack'[w][Len(stack'[w])]] = "body"
    BY <1>2, <1>6, <1>8
  <2>4. PICK S : S = stack'[w] /\ Len(S) - 1 = n /\ pc'[S[Len(S)]] = "body"
    BY <2>3
  <2>5. \A k \in 1 .. n : Called(S[k], S[k + 1])'
    BY <2>2, <2>4
  <2>6. QED
    BY <2>1, <2>4, <2>5 DEF StackInv, Called
<1>14. \A i \in 1 .. m - 1, k \in 1 .. n + 1 :
         JobOf(w, i, k)' <=> k \in 1 .. n /\ k # n /\ JobOf(w, i, k)
  <2> SUFFICES ASSUME NEW i \in 1 .. m - 1, NEW k \in 1 .. n + 1
               PROVE  JobOf(w, i, k)' <=> k \in 1 .. n /\ k # n /\ JobOf(w, i, k)
    OBVIOUS
  <2>1. CASE k = n + 1
    BY <1>2, <1>6, <1>8, <2>1 DEF JobOf
  <2>2. CASE k = n
    <3>1. k \in 1 .. n /\ stack'[w][k] = t
      BY <1>2, <1>6, <2>2
    <3>2. QED
      BY <1>8, <2>2, <3>1 DEF JobOf
  <2>3. CASE k \in 1 .. n /\ k # n
    BY <1>6, <1>7, <1>11, <2>3 DEF JobOf
  <2>4. QED
    BY <1>2, <2>1, <2>2, <2>3
<1>15. DequeInv(w)'
  <2>1. \A k \in 1 .. n + 1 : k \in 1 .. n \/ k = n + 1
    BY <1>2
  <2>2. ASSUME NEW i \in 1 .. m - 1
        PROVE  /\ pc'[deque'[w][i]] = "new"
               /\ \E k \in 1 .. n + 1 :
                    JobOf(w, i, k)' /\ \A b \in k .. n + 1 : pc'[stack'[w][b]] # "wait"
    <3>1. PICK k \in 1 .. n : /\ JobOf(w, i, k) /\ \A b \in k .. n : pc[stack[w][b]] # "wait"
                              /\ deque[w][i] = Right[stack[w][k]]
      BY <1>0, <1>12, JobMade
    <3>2. k # n
      BY <1>2, <1>12, <3>1 DEF r
    <3>3. JobOf(w, i, k)' /\ k \in 1 .. n + 1
      BY <1>2, <1>14, <3>1, <3>2
    <3>4. ASSUME NEW b \in k .. n + 1
          PROVE  pc'[stack'[w][b]] # "wait"
      <4>1. b = n + 1 \/ (b \in 1 .. n /\ b \in k .. n)
        BY <1>2, <3>1
      <4>2. QED
        BY <1>2, <1>6, <1>8, <1>11, <3>1, <4>1
    <3>5. QED
      BY <1>7, <1>12, <3>3, <3>4
  <2>3. \A i, j \in 1 .. m - 1 : \A k, q \in 1 .. n + 1 :
          JobOf(w, i, k)' /\ JobOf(w, j, q)' /\ i < j => k < q
    <3>1. \A i, j \in 1 .. m : \A k, q \in 1 .. n :
            JobOf(w, i, k) /\ JobOf(w, j, q) /\ i < j => k < q
      BY <1>0, <1>1 DEF DequeInv
    <3>2. QED
      BY <1>12, <1>14, <3>1
  <2>4. ASSUME NEW i \in 1 .. m - 1, NEW k \in 1 .. n + 1, NEW q \in 1 .. n + 1,
               JobOf(w, i, k)', k < q, pc'[stack'[w][q]] \in {"left", "pop"}
        PROVE  \E j \in 1 .. m - 1 : deque'[w][j] = Right[stack'[w][q]]
    <3>1. q \in 1 .. n /\ q # n /\ k \in 1 .. n /\ JobOf(w, i, k)
      BY <1>2, <1>6, <1>8, <1>14, <2>1, <2>4
    <3>2. /\ stack'[w][q] = stack[w][q] /\ pc[stack[w][q]] \in {"left", "pop"}
          /\ stack[w][q] # t /\ stack[w][q] \in Tasks
      BY <1>6, <1>11, <2>4, <3>1
    <3>3. PICK j \in 1 .. m : deque[w][j] = Right[stack[w][q]]
      <4>1. \A a \in 1 .. Len(deque[w]) : \A b, d \in 1 .. Len(stack[w]) :
              JobOf(w, a, b) /\ b < d /\ pc[stack[w][d]] \in {"left", "pop"}
                => \E j \in 1 .. Len(deque[w]) : deque[w][j] = Right[stack[w][d]]
        BY <1>1 DEF DequeInv
      <4>2. i \in 1 .. Len(deque[w]) /\ k \in 1 .. Len(stack[w]) /\ q \in 1 .. Len(stack[w])
        BY <1>0, <1>12, <3>1
      <4>3. \E j \in 1 .. Len(deque[w]) : deque[w][j] = Right[stack[w][q]]
        BY <2>4, <3>1, <3>2, <4>1, <4>2
      <4>4. QED
        BY <1>0, <4>3
    <3>4. j # m
      <4>1. stack[w][q] \in Forks
        BY <3>2 DEF IInv
      <4>2. QED
        BY <1>3, <1>4, <3>2, <3>3, <4>1, TreeFacts DEF r
    <3>5. j \in 1 .. m - 1 /\ deque'[w][j] = deque[w][j]
      BY <1>4, <1>7, <3>4
    <3>6. QED
      BY <3>2, <3>3, <3>5
  <2>5. Len(deque'[w]) = m - 1 /\ Len(stack'[w]) = n + 1
    BY <1>6, <1>7
  <2>6. QED
    BY <2>2, <2>3, <2>4, <2>5 DEF DequeInv
<1>16. SeekInv(w)'
  BY <1>1, <1>8 DEF SeekInv
<1>17. ASSUME NEW x \in Workers, x # w
       PROVE  StackInv(x)' /\ DequeInv(x)' /\ SeekInv(x)'
  <2>1. r \notin Held(x)
    <3>1. \A i \in 1 .. Len(deque[x]) : deque[x][i] # r
      BY <1>0, <1>4, <1>17, JobsOnce
    <3>2. QED
      BY <1>1, <3>1, Places
  <2>2. \A y \in Tasks : pc'[y] # pc[y] =>
          y \in OnStack(w) \/ (pc[y] = "new" /\ y \notin Held(x))
    BY <1>2, <1>5, <1>8, <2>1
  <2>3. UNCHANGED <<stack[x], deque[x], seek[x]>>
    BY <1>6, <1>7, <1>8, <1>17
  <2>4. QED
    BY <1>8, <1>17, <2>2, <2>3, OtherWorker
<1>18. /\ \A x \in Workers : OnStack(x) \subseteq OnStack(x)'
       /\ \A x \in Workers : \A y : y # r /\ y \in Held(x) => y \in Held(x)'
  <2>1. stack[w] \in Seq(Tasks) /\ stack'[w] = Append(stack[w], r)
    BY <1>1, <1>6 DEF TypeOK
  <2>2. OnStack(w) \subseteq OnStack(w)'
    BY <1>3, <2>1, AppendSet DEF OnStack, r
  <2>3. ASSUME NEW y, y # r, y \in Held(w)
        PROVE  y \in Held(w)'
    <3>1. PICK i \in 1 .. m : deque[w][i] = y
      BY <1>0, <1>1, <2>3, Places
    <3>2. i \in 1 .. m - 1
      BY <1>4, <2>3, <3>1
    <3>3. QED
      BY <1>7, <1>9, <3>1, <3>2, PlacesNext
  <2>4. \A x \in Workers : x # w => OnStack(x)' = OnStack(x) /\ Held(x)' = Held(x)
    BY <1>6, <1>7 DEF OnStack, Held
  <2>5. QED
    BY <2>2, <2>3, <2>4
<1>19. ASSUME NEW f \in Forks
       PROVE  PardoInv(f)'
  <2>1. PardoInv(f)
    BY DEF IInv
  <2>2. /\ f \in Tasks /\ Left[f] \in Tasks /\ Right[f] \in Tasks /\ f # Left[f] /\ f # Right[f]
        /\ f # t => Left[f] # r /\ Right[f] # r
    BY <1>3, TreeFacts DEF r
  <2>3. CASE f = t
    BY <1>3, <1>5, <1>8, <2>3 DEF PardoInv, Running, r
  <2>4. CASE f = r
    <3>1. pc[Left[f]] = "new" /\ pc[Right[f]] = "new"
      BY <1>5, <2>1, <2>4 DEF PardoInv
    <3>2. pc'[f] = "body" /\ pc'[Left[f]] = "new" /\ pc'[Right[f]] = "new"
      BY <1>1, <1>8, <2>2, <2>4, <3>1
    <3>3. QED
      BY <3>2 DEF PardoInv
  <2>5. CASE f # t /\ f # r
    <3>1. \A c \in {Left[f], Right[f]} : pc'[c] = pc[c] \/ (Running(c) /\ Running(c)')
      BY <1>1, <1>8, <2>2, <2>5 DEF Running
    <3>2. pc'[f] = pc[f] /\ (Right[f] \in asJob' <=> Right[f] \in asJob)
      BY <1>8, <2>2, <2>5
    <3>3. QED
      BY <1>18, <2>1, <2>2, <2>5, <3>1, <3>2, PardoSame
  <2>6. QED
    BY <2>3, <2>4, <2>5
<1>20. \A x \in Tasks : pc'[x] \in {"left", "pop", "right", "wait"} => x \in Forks
  BY <1>3, <1>8 DEF IInv
<1>21. pc'[Root] # "new" /\ \A x \in asJob' : pc'[x] # "new" /\ \E f \in Forks : x = Right[f]
  <2>1. asJob \subseteq Tasks /\ Root \in Tasks
    BY <1>1, TreeFacts DEF TypeOK
  <2>2. QED
    BY <1>8, <2>1 DEF IInv
<1>22. \A x \in done' : pc'[x] = "returned"
  <2>1. \A x \in done : x \in Tasks /\ pc[x] = "returned"
    BY <1>1 DEF IInv, TypeOK
  <2>2. QED
    BY <1>1, <1>5, <1>8, <2>1
<1>23. QED
  BY <1>9, <1>10, <1>13, <1>15, <1>16, <1>17, <1>19, <1>20, <1>21, <1>22 DEF IInv

LEMMA StealInv ==
  ASSUME IInv, NEW w \in Workers, NEW v \in Workers, Steal(w, v) PROVE IInv'
<1>0. PICK n, m, j : n = Len(stack[w]) /\ m = Len(deque[v]) /\ j = Head(deque[v])
  OBVIOUS
<1>1. /\ TypeOK /\ StackedOnce /\ StackInv(w) /\ DequeInv(w) /\ DequeInv(v) /\ SeekInv(w) /\ SeekInv(v)
      /\ deque[v] # <<>> /\ seek[w] = "try" /\ deque[w] = <<>> /\ v # w /\ seek[v] = "none"
  BY DEF IInv, Steal, SeekInv
<1>2. m \in Nat \ {0} /\ deque[v][1] = j /\ j \in Tasks /\ 1 \in 1 .. m
  <2>1. m \in Nat \ {0} /\ deque[v][1] = j /\ j \in Tasks
    <3>1. deque[v] \in Seq(Tasks)
      BY <1>1 DEF TypeOK
    <3>2. QED
      BY <1>0, <1>1, <3>1, TailSeq
  <2>2. QED
    BY <2>1
<1>3. PICK g \in Forks : Right[g] = j /\ pc[g] \in {"left", "pop"} /\ pc[j] = "new"
  <2>1. PICK k \in 1 .. Len(stack[v]) :
          /\ JobOf(v, 1, k) /\ stack[v][k] \in Forks
          /\ deque[v][1] = Right[stack[v][k]] /\ pc[deque[v][1]] = "new"
    BY <1>0, <1>2, JobMade
  <2>2. QED
    BY <1>2, <2>1 DEF JobOf
<1>4. /\ Len(stack'[w]) = n + 1 /\ stack'[w][n + 1] = j /\ n \in Nat
      /\ \A k \in 1 .. n : stack'[w][k] = stack[w][k]
      /\ \A x \in Workers : x # w => stack'[x] = stack[x]
      /\ stack' \in [Workers -> Seq(Tasks)] /\ stack' = [stack EXCEPT ![w] = Append(@, j)]
  <2>1. stack' = [stack EXCEPT ![w] = Append(@, j)] /\ stack \in [Workers -> Seq(Tasks)]
    BY <1>0, <1>1 DEF Steal, RunJob, TypeOK
  <2>2. QED
    BY <1>0, <1>2, <2>1, Pushed
<1>5. /\ Len(deque'[v]) = m - 1
      /\ \A i \in 1 .. m - 1 : deque'[v][i] = deque[v][i + 1]
      /\ \A x \in Workers : x # v => deque'[x] = deque[x]
      /\ deque' \in [Workers -> Seq(Tasks)]
  <2>1. /\ deque' = [deque EXCEPT ![v] = Tail(@)] /\ deque \in [Workers -> Seq(Tasks)]
        /\ deque[v] \in Seq(Tasks)
    BY <1>1 DEF Steal, TypeOK
  <2>2. PICK q : q = Tail(deque[v])
    OBVIOUS
  <2>3. /\ q \in Seq(Tasks) /\ Len(q) = m - 1 /\ \A i \in 1 .. m - 1 : q[i] = deque[v][i + 1]
    BY <1>0, <1>1, <2>1, <2>2, TailSeq
  <2>4. deque' = [deque EXCEPT ![v] = q]
    BY <2>1, <2>2
  <2>5. QED
    BY <2>1, <2>3, <2>4
<1>6. /\ pc'[j] = "body" /\ pc' \in [Tasks -> PCs] /\ \A x \in Tasks : x # j => pc'[x] = pc[x]
      /\ seek'[w] = "none" /\ seek' \in [Workers -> Seeks]
      /\ \A x \in Workers : x # w => seek'[x] = seek[x]
      /\ asJob' = asJob \cup {j} /\ UNCHANGED <<done, finished>>
  <2>1. /\ pc \in [Tasks -> PCs] /\ pc' = [pc EXCEPT ![j] = "body"]
        /\ seek \in [Workers -> Seeks] /\ seek' = [seek EXCEPT ![w] = "none"]
        /\ asJob' = asJob \cup {j} /\ UNCHANGED <<done, finished>>
    BY <1>0, <1>1 DEF Steal, RunJob, Goto, Seek, TypeOK
  <2>2. QED
    BY <1>2, <2>1 DEF PCs, Seeks
<1>7. TypeOK'
  BY <1>1, <1>2, <1>4, <1>5, <1>6 DEF TypeOK
<1>8. StackedOnce'
  <2>1. ~Running(j) /\ \A x \in Tasks : Running(x)' <=> Running(x) \/ x = j
    BY <1>2, <1>3, <1>6 DEF Running
  <2>2. QED
    BY <1>1, <1>2, <1>4, <1>7, <2>1, StackPush
\* No call changes, and no job but j.
<1>9. \A x \in Workers : \A k \in 1 .. Len(stack[x]) :
        /\ stack[x][k] \in Tasks /\ stack[x][k] # j /\ pc'[stack[x][k]] = pc[stack[x][k]]
        /\ stack[x][k] \in asJob' <=> stack[x][k] \in asJob
  <2>1. \A x \in Workers : \A k \in 1 .. Len(stack[x]) : stack[x][k] \in Tasks /\ Running(stack[x][k])
    BY <1>1, Typed DEF StackedOnce
  <2>2. QED
    BY <1>3, <1>6, <2>1 DEF Running
<1>10. \A x \in Workers : \A i \in 1 .. Len(deque[x]) :
         (x = v /\ i = 1) \/ (deque[x][i] # j /\ deque[x][i] \in Tasks /\ pc'[deque[x][i]] = "new")
  <2> SUFFICES ASSUME NEW x \in Workers, NEW i \in 1 .. Len(deque[x]), ~(x = v /\ i = 1)
               PROVE  deque[x][i] # j /\ deque[x][i] \in Tasks /\ pc'[deque[x][i]] = "new"
    OBVIOUS
  <2>1. deque[x][i] # j
    BY <1>0, <1>2, JobsOnce
  <2>2. deque[x][i] \in Tasks /\ pc[deque[x][i]] = "new"
    BY <1>1, Typed, JobMade
  <2>3. QED
    BY <1>6, <2>1, <2>2
<1>11. ASSUME NEW x \in Workers, x # w
       PROVE  StackInv(x)'
  <2>1. UNCHANGED stack[x] /\ asJob \subseteq asJob'
    BY <1>4, <1>6, <1>11
  <2>2. /\ \A k \in 1 .. Len(stack[x]) : pc'[stack[x][k]] = pc[stack[x][k]]
        /\ \A k \in 1 .. Len(stack[x]) : stack[x][k] \in asJob' => stack[x][k] \in asJob
    BY <1>9
  <2>3. QED
    BY <2>1, <2>2, KeptCalls
<1>12. ASSUME NEW x \in Workers, x # w, x # v
       PROVE  StackInv(x)' /\ DequeInv(x)' /\ SeekInv(x)'
  <2>1. j \notin Held(x)
    BY <1>1, <1>10, <1>12, Places
  <2>2. UNCHANGED <<stack[x], deque[x], seek[x]>>
    BY <1>4, <1>5, <1>6, <1>12
  <2>3. /\ \A y \in Tasks : pc'[y] # pc[y] =>
             y \in OnStack(w) \/ (pc[y] = "new" /\ y \notin Held(x))
        /\ asJob \subseteq asJob' /\ \A y \in asJob' \ asJob : pc[y] = "new"
    BY <1>3, <1>6, <2>1
  <2>4. QED
    BY <1>12, <2>2, <2>3, OtherWorker
\* The thief.
<1>13. StackInv(w)' /\ DequeInv(w)' /\ SeekInv(w)'
  <2>1. deque'[w] = <<>> /\ Len(deque'[w]) = 0
    BY <1>1, <1>5, <1>7, PlacesNext
  <2>2. DequeInv(w)' /\ SeekInv(w)'
    BY <1>6, <2>1 DEF DequeInv, SeekInv
  <2>3. Len(stack'[w]) - 1 = n /\ pc'[stack'[w][Len(stack'[w])]] = "body"
    BY <1>4, <1>6
  <2>4. stack'[w][1] \in asJob' \cup {Root}
    <3>1. CASE n = 0
      BY <1>4, <1>6, <3>1
    <3>2. CASE n # 0
      <4>1. stack[w] # <<>> /\ 1 \in 1 .. n
        BY <1>0, <1>1, <1>4, <3>2, Typed
      <4>2. QED
        BY <1>1, <1>4, <1>6, <4>1 DEF StackInv
    <3>3. QED
      BY <3>1, <3>2
  <2>5. ASSUME NEW k \in 1 .. n
        PROVE  \E f, c : /\ f = stack'[w][k] /\ c = stack'[w][k + 1] /\ Called(f, c)'
    <3>1. stack[w] # <<>>
      BY <1>0, <1>1, <1>4, Typed
    <3>2. CASE k = n
      <4>1. PICK f : f = stack[w][n]
        OBVIOUS
      <4>2. pc[f] = "wait"
        BY <1>0, <1>1, <3>1, <4>1 DEF SeekInv
      <4>3. f = stack'[w][k] /\ j = stack'[w][k + 1] /\ pc'[f] = pc[f]
        BY <1>0, <1>4, <1>9, <3>2, <4>1
      <4>4. Called(f, j)'
        BY <1>6, <4>2, <4>3 DEF Called
      <4>5. QED
        BY <4>3, <4>4
    <3>3. CASE k # n
      <4>1. k \in 1 .. n - 1 /\ k + 1 \in 1 .. n
        BY <1>4, <3>3
      <4>2. PICK f, c : f = stack[w][k] /\ c = stack[w][k + 1]
        OBVIOUS
      <4>3. Called(f, c)
        BY <1>0, <1>1, <3>1, <4>1, <4>2 DEF StackInv
      <4>4. pc'[f] = pc[f] /\ (c \in asJob' <=> c \in asJob)
        BY <1>0, <1>9, <4>1, <4>2
      <4>5. Called(f, c)'
        BY <4>3, <4>4 DEF Called
      <4>6. f = stack'[w][k] /\ c = stack'[w][k + 1]
        BY <1>4, <4>1, <4>2
      <4>7. QED
        BY <4>5, <4>6
    <3>4. QED
      BY <3>2, <3>3
  <2>6. StackInv(w)'
    BY <2>3, <2>4, <2>5 DEF StackInv, Called
  <2>7. QED
    BY <2>2, <2>6
<1>14. DequeInv(v)' /\ SeekInv(v)'
  <2>0. PICK a : a = Len(stack[v])
    OBVIOUS
  <2>1. stack'[v] = stack[v] /\ \A i \in 1 .. m - 1 : i + 1 \in 1 .. m /\ i \in 1 .. m
    BY <1>1, <1>2, <1>4
  <2>2. SeekInv(v)'
    BY <1>1, <1>6 DEF SeekInv
  <2>3. \A i \in 1 .. m - 1, k \in 1 .. a : \E i1 \in 1 .. m :
          i1 = i + 1 /\ (JobOf(v, i, k)' <=> JobOf(v, i1, k))
    BY <1>5, <1>9, <2>0, <2>1 DEF JobOf
  <2>4. ASSUME NEW i \in 1 .. m - 1
        PROVE  /\ pc'[deque'[v][i]] = "new"
               /\ \E k \in 1 .. a :
                    JobOf(v, i, k)' /\ \A b \in k .. a : pc'[stack'[v][b]] # "wait"
    <3>1. PICK i1 \in 1 .. m : i1 = i + 1 /\ i1 # 1
      BY <1>2, <2>1
    <3>2. PICK k \in 1 .. a : JobOf(v, i1, k) /\ \A b \in k .. a : pc[stack[v][b]] # "wait"
      <4>1. i1 \in 1 .. Len(deque[v])
        BY <1>0, <3>1
      <4>2. \E k \in 1 .. Len(stack[v]) :
              JobOf(v, i1, k) /\ \A b \in k .. Len(stack[v]) : pc[stack[v][b]] # "wait"
        BY <1>0, <4>1, JobMade
      <4>3. QED
        BY <2>0, <4>2, Zenon
    <3>3. a \in Nat /\ \A b \in k .. a : b \in 1 .. a
      BY <1>1, <2>0, Typed
    <3>4. ASSUME NEW b \in k .. a PROVE pc'[stack'[v][b]] # "wait"
      <4>1. b \in 1 .. a /\ pc[stack[v][b]] # "wait"
        BY <3>2, <3>3
      <4>2. QED
        BY <1>9, <2>0, <2>1, <4>1
    <3>5. pc'[deque'[v][i]] = "new"
      <4>1. v \in Workers /\ i1 \in 1 .. Len(deque[v]) /\ i1 # 1
        BY <1>0, <3>1
      <4>2. pc'[deque[v][i1]] = "new"
        BY <1>10, <4>1
      <4>3. deque'[v][i] = deque[v][i1]
        BY <1>5, <3>1
      <4>4. QED
        BY <4>2, <4>3, Zenon
    <3>6. QED
      BY <2>3, <3>1, <3>2, <3>4, <3>5
  <2>5. \A i, i2 \in 1 .. m - 1 : \A k, q \in 1 .. a :
          JobOf(v, i, k)' /\ JobOf(v, i2, q)' /\ i < i2 => k < q
    <3>1. \A i, i2 \in 1 .. m : \A k, q \in 1 .. a :
            JobOf(v, i, k) /\ JobOf(v, i2, q) /\ i < i2 => k < q
      BY <1>0, <1>1, <2>0 DEF DequeInv
    <3>2. QED
      BY <2>3, <3>1
  <2>6. ASSUME NEW i \in 1 .. m - 1, NEW k \in 1 .. a, NEW q \in 1 .. a,
               JobOf(v, i, k)', k < q, pc'[stack'[v][q]] \in {"left", "pop"}
        PROVE  \E h \in 1 .. m - 1 : deque'[v][h] = Right[stack'[v][q]]
    <3>1. PICK i1 \in 1 .. m : i1 = i + 1 /\ JobOf(v, i1, k) /\ 1 < i1
      BY <2>3, <2>6
    <3>2. stack'[v][q] = stack[v][q] /\ pc[stack[v][q]] \in {"left", "pop"}
      BY <1>9, <2>0, <2>1, <2>6
    <3>3. PICK h1 \in 1 .. m : deque[v][h1] = Right[stack[v][q]]
      <4>1. \A b \in 1 .. Len(deque[v]) : \A c, d \in 1 .. Len(stack[v]) :
              JobOf(v, b, c) /\ c < d /\ pc[stack[v][d]] \in {"left", "pop"}
                => \E h \in 1 .. Len(deque[v]) : deque[v][h] = Right[stack[v][d]]
        BY <1>1 DEF DequeInv
      <4>2. \E h \in 1 .. Len(deque[v]) : deque[v][h] = Right[stack[v][q]]
        BY <1>0, <2>0, <2>6, <3>1, <3>2, <4>1
      <4>3. QED
        BY <1>0, <4>2
    <3>4. h1 # 1
      <4>1. SUFFICES ASSUME h1 = 1 PROVE FALSE
        OBVIOUS
      <4>2. JobOf(v, h1, q)
        BY <3>2, <3>3 DEF JobOf
      <4>3. \A b, c \in 1 .. Len(deque[v]) : \A d, e \in 1 .. Len(stack[v]) :
              JobOf(v, b, d) /\ JobOf(v, c, e) /\ b < c => d < e
        BY <1>1 DEF DequeInv
      <4>4. q < k
        BY <1>0, <2>0, <3>1, <4>1, <4>2, <4>3
      <4>5. a \in Nat
        BY <1>1, <2>0, Typed
      <4>6. QED
        BY <2>6, <4>4, <4>5
    <3>5. PICK h \in 1 .. m - 1 : h1 = h + 1
      <4>1. h1 - 1 \in 1 .. m - 1 /\ h1 = (h1 - 1) + 1
        BY <1>2, <3>4
      <4>2. QED
        BY <4>1
    <3>6. QED
      BY <1>5, <3>2, <3>3, <3>5
  <2>7. Len(deque'[v]) = m - 1 /\ Len(stack'[v]) = a
    BY <1>5, <2>0, <2>1
  <2>8. DequeInv(v)'
    BY <2>4, <2>5, <2>6, <2>7 DEF DequeInv
  <2>9. QED
    BY <2>2, <2>8
<1>15. /\ \A x \in Workers : OnStack(x) \subseteq OnStack(x)'
       /\ \A x \in Workers : \A y : y # j /\ y \in Held(x) => y \in Held(x)'
  <2>1. stack[w] \in Seq(Tasks) /\ stack'[w] = Append(stack[w], j)
    BY <1>1, <1>4 DEF TypeOK
  <2>2. OnStack(w) \subseteq OnStack(w)'
    BY <1>2, <2>1, AppendSet DEF OnStack
  <2>3. ASSUME NEW y, y # j, y \in Held(v)
        PROVE  y \in Held(v)'
    <3>1. PICK i1 \in 1 .. m : deque[v][i1] = y
      BY <1>0, <1>1, <2>3, Places
    <3>2. i1 - 1 \in 1 .. m - 1 /\ (i1 - 1) + 1 = i1
      BY <1>2, <2>3, <3>1
    <3>3. QED
      BY <1>5, <1>7, <3>1, <3>2, PlacesNext
  <2>4. /\ \A x \in Workers : x # w => OnStack(x)' = OnStack(x)
        /\ \A x \in Workers : x # v => Held(x)' = Held(x)
    BY <1>4, <1>5 DEF OnStack, Held
  <2>5. QED
    BY <2>2, <2>3, <2>4
<1>16. ASSUME NEW f \in Forks
       PROVE  PardoInv(f)'
  <2>1. PardoInv(f)
    BY DEF IInv
  <2>2. /\ f \in Tasks /\ Left[f] \in Tasks /\ Right[f] \in Tasks /\ f # Left[f] /\ f # Right[f]
        /\ Left[f] # j /\ (f # g => Right[f] # j)
    BY <1>3, TreeFacts
  <2>3. CASE f = g
    <3>1. pc'[f] = pc[f] /\ pc'[Left[f]] = pc[Left[f]] /\ Right[f] \in asJob'
      BY <1>3, <1>6, <2>2, <2>3
    <3>2. QED
      BY <1>3, <2>1, <2>3, <3>1 DEF PardoInv, Running
  <2>4. CASE f = j
    <3>1. pc[Left[f]] = "new" /\ pc[Right[f]] = "new"
      BY <1>3, <2>1, <2>4 DEF PardoInv
    <3>2. pc'[f] = "body" /\ pc'[Left[f]] = "new" /\ pc'[Right[f]] = "new"
      BY <1>6, <2>2, <2>4, <3>1
    <3>3. QED
      BY <3>2 DEF PardoInv
  <2>5. CASE f # g /\ f # j
    <3>1. \A c \in {Left[f], Right[f]} : pc'[c] = pc[c] \/ (Running(c) /\ Running(c)')
      BY <1>6, <2>2, <2>5
    <3>2. pc'[f] = pc[f] /\ (Right[f] \in asJob' <=> Right[f] \in asJob)
      BY <1>6, <2>2, <2>5
    <3>3. QED
      BY <1>15, <2>1, <2>2, <2>5, <3>1, <3>2, PardoSame
  <2>6. QED
    BY <2>3, <2>4, <2>5
<1>17. \A x \in Tasks : pc'[x] \in {"left", "pop", "right", "wait"} => x \in Forks
  BY <1>6 DEF IInv
<1>18. pc'[Root] # "new" /\ \A x \in asJob' : pc'[x] # "new" /\ \E f \in Forks : x = Right[f]
  <2>1. asJob \subseteq Tasks /\ Root \in Tasks
    BY <1>1, TreeFacts DEF TypeOK
  <2>2. QED
    BY <1>3, <1>6, <2>1 DEF IInv
<1>19. \A x \in done' : pc'[x] = "returned"
  <2>1. \A x \in done : x \in Tasks /\ pc[x] = "returned"
    BY <1>1 DEF IInv, TypeOK
  <2>2. QED
    BY <1>3, <1>6, <2>1
<1>20. QED
  BY <1>7, <1>8, <1>11, <1>12, <1>13, <1>14, <1>16, <1>17, <1>18, <1>19 DEF IInv
---------------------------------------------------------------------------
(* The invariant and what follows from it.                                 *)

LEMMA InitInv ==
  ASSUME Init PROVE IInv
<1>1. stack[Main] = <<Root>> /\ \A w \in Workers : w # Main => stack[w] = <<>>
  BY MainAssumption DEF Init
<1>2. \A w \in Workers : deque[w] = <<>> /\ Len(deque[w]) = 0
  BY DEF Init
<1>3. Root \in Tasks /\ pc[Root] = "body" /\ \A t \in Tasks : t # Root => pc[t] = "new"
  BY TreeFacts DEF Init
<1>4. TypeOK
  <2>1. stack \in [Workers -> Seq(Tasks)] /\ deque \in [Workers -> Seq(Tasks)]
    BY <1>3 DEF Init
  <2>2. pc \in [Tasks -> PCs] /\ seek \in [Workers -> Seeks] /\ finished \in BOOLEAN
    BY DEF Init, PCs, Seeks
  <2>3. QED
    BY <2>1, <2>2 DEF Init, TypeOK
<1>5. \A w \in Workers : /\ Len(stack[w]) = IF w = Main THEN 1 ELSE 0
                         /\ \A k \in 1 .. Len(stack[w]) : w = Main /\ k = 1 /\ stack[w][k] = Root
  <2> SUFFICES ASSUME NEW w \in Workers
               PROVE  /\ Len(stack[w]) = IF w = Main THEN 1 ELSE 0
                      /\ \A k \in 1 .. Len(stack[w]) : w = Main /\ k = 1 /\ stack[w][k] = Root
    OBVIOUS
  <2>1. Len(<<Root>>) = 1 /\ <<Root>>[1] = Root
    OBVIOUS
  <2>2. CASE w # Main
    <3>1. stack[w] = <<>>
      BY <1>1, <2>2
    <3>2. Len(stack[w]) = 0
      BY <3>1
    <3>3. QED
      BY <2>2, <3>2
  <2>3. CASE w = Main
    <3>1. Len(stack[w]) = 1 /\ stack[w][1] = Root
      BY <1>1, <2>1, <2>3
    <3>2. \A k \in 1 .. 1 : k = 1
      OBVIOUS
    <3>3. QED
      BY <2>3, <3>1, <3>2
  <2>4. QED
    BY <2>2, <2>3
<1>6. StackedOnce
  <2>1. \A t \in Tasks : Running(t) => \E w \in Workers : t \in OnStack(w)
    <3>1. Root \in OnStack(Main)
      <4>1. 1 \in 1 .. Len(stack[Main]) /\ stack[Main][1] = Root
        BY <1>1
      <4>2. QED
        BY <1>4, <4>1, MainAssumption, Places
    <3>2. QED
      BY <1>3, <3>1, MainAssumption DEF Running
  <2>2. QED
    BY <1>3, <1>5, <2>1 DEF StackedOnce, Running
<1>7. \A w \in Workers : StackInv(w)
  BY <1>1, <1>3, <1>5 DEF StackInv
<1>8. \A w \in Workers : DequeInv(w)
  BY <1>2 DEF DequeInv
<1>9. \A w \in Workers : SeekInv(w)
  BY <1>1, <1>2 DEF SeekInv, Init
<1>10. \A f \in Forks : PardoInv(f)
  BY <1>3, TreeFacts DEF PardoInv
<1>11. QED
  BY <1>3, <1>4, <1>6, <1>7, <1>8, <1>9, <1>10 DEF IInv, Init

LEMMA NextInv ==
  ASSUME IInv, [Next]_vars PROVE IInv'
<1>1. CASE UNCHANGED vars
  BY <1>1, StutterInv
<1>2. CASE Shutdown
  BY <1>2, ShutdownInv
<1>3. ASSUME NEW w \in Workers, Step(w) PROVE IInv'
  <2>1. ASSUME NEW v \in Workers, Steal(w, v) PROVE IInv'
    BY <2>1, StealInv
  <2>2. QED
    BY <1>3, <2>1, RunLeafInv, SpawnInv, ReturnInv, PopOwnInv, PopNoneInv, WaitDoneInv,
       GiveUpInv, GoOnInv, SeekOwnInv, StealNoneInv DEF Step
<1>4. QED
  BY <1>1, <1>2, <1>3 DEF Next

\* What holds of every reachable state: the stacks, deques and marks fit
\* together as IInv says.
THEOREM Invariance == Spec => []IInv
<1>1. Init => IInv
  BY InitInv
<1>2. IInv /\ [Next]_vars => IInv'
  BY NextInv
<1>3. QED
  BY <1>1, <1>2, PTL DEF Spec

\* The variables keep their types; a job is done only after it was started.
THEOREM TypeCorrect == Spec => []TypeOK
<1>1. IInv => TypeOK
  BY DEF IInv
<1>2. QED
  BY <1>1, Invariance, PTL

\* assert(job == &right_job) of pardo holds, and a waiting worker's own deque
\* is empty.
THEOREM OwnJobComesBack == Spec => []OwnDequeInStep
<1>1. IInv => OwnDequeInStep
  BY OwnJob DEF IInv, SeekInv, OwnDequeInStep, At, Runs
<1>2. QED
  BY <1>1, Invariance, PTL

LEMMA ParentOf ==
  ASSUME NEW f \in Forks PROVE Parent(Left[f]) = f /\ Parent(Right[f]) = f
<1>1. \A g \in Forks : /\ Left[f] \in {Left[g], Right[g]} => g = f
                       /\ Right[f] \in {Left[g], Right[g]} => g = f
  BY TreeFacts
<1>2. QED
  BY <1>1 DEF Parent

\* While a job is in a deque or runs, the pardo whose frame holds it has not
\* returned.
THEOREM JobOutlived == Spec => []JobAlive
<1>1. ASSUME IInv PROVE JobAlive
  <2> SUFFICES ASSUME NEW w \in Workers, NEW j \in Held(w) \cup {t \in OnStack(w) : t \in asJob}
               PROVE  \E v \in Workers : /\ Parent(j) \in OnStack(v)
                                         /\ pc[Parent(j)] \in {"left", "pop", "wait"}
    BY DEF JobAlive
  <2>1. TypeOK /\ StackedOnce
    BY <1>1 DEF IInv
  <2>2. CASE j \in Held(w)
    <3>1. PICK i \in 1 .. Len(deque[w]) : deque[w][i] = j
      BY <2>1, <2>2, Places
    <3>2. PICK k \in 1 .. Len(stack[w]) :
            /\ JobOf(w, i, k) /\ stack[w][k] \in Forks /\ deque[w][i] = Right[stack[w][k]]
      BY <1>1, JobMade
    <3>3. Parent(j) = stack[w][k]
      BY <3>1, <3>2, ParentOf
    <3>4. stack[w][k] \in OnStack(w)
      BY <2>1, Places
    <3>5. QED
      BY <3>2, <3>3, <3>4 DEF JobOf
  <2>3. CASE j \in OnStack(w) /\ j \in asJob
    <3>1. PICK f \in Forks : j = Right[f]
      BY <1>1, <2>3 DEF IInv
    <3>2. Running(j)
      BY <2>1, <2>3, Places DEF StackedOnce
    <3>3. PardoInv(f) /\ pc[f] \in PCs /\ f \in Tasks
      BY <1>1, <2>1, TreeFacts DEF IInv, TypeOK
    <3>4. pc[f] \in {"left", "pop", "wait"}
      BY <2>3, <3>1, <3>2, <3>3 DEF PardoInv, Running, PCs
    <3>5. \E v \in Workers : f \in OnStack(v)
      BY <2>1, <3>3, <3>4 DEF StackedOnce, Running
    <3>6. QED
      BY <3>1, <3>4, <3>5, ParentOf
  <2>4. QED
    BY <2>2, <2>3
<1>2. QED
  BY <1>1, Invariance, PTL
---------------------------------------------------------------------------
(* Every task runs once, within the call that forked it.                   *)

TaskStep == \E t \in Tasks : Calls!Begin(t) \/ Calls!Return(t)
Stutter  == \A t \in Tasks : Status(t)' = Status(t)
Statuses == [t \in Tasks |-> Status(t)]

\* A thunk is called by the pardo that made it.
LEMMA BeginStep ==
  ASSUME NEW p \in Forks, NEW t \in {Left[p], Right[p]}, t \in Tasks,
         Running(p), pc[t] = "new", Running(t)',
         \A x \in Tasks : x # t => Status(x)' = Status(x)
  PROVE  TaskStep
<1>1. p \in Tasks
  BY TreeFacts
<1>2. Status(t) = "new" /\ Status(p) = "running" /\ Status(t)' = "running"
  BY DEF Status, Running
<1>3. Statuses' = [Statuses EXCEPT ![t] = "running"]
  BY <1>2 DEF Statuses
<1>4. Calls!Begin(t)
  BY <1>1, <1>2, <1>3 DEF Calls!Begin, Calls!Children, Statuses
<1>5. QED
  BY <1>4 DEF TaskStep

LEMMA SpawnStep ==
  ASSUME IInv, NEW w \in Workers, Spawn(w) PROVE TaskStep
<1>0. PICK t : t = Top(w)
  OBVIOUS
<1>1. /\ t \in Forks /\ t \in Tasks /\ Left[t] \in Tasks /\ t # Left[t] /\ pc[t] = "body"
      /\ pc[Left[t]] = "new" /\ pc \in [Tasks -> PCs]
  BY <1>0, TreeFacts DEF Spawn, At, IInv, PardoInv, TypeOK
<1>2. pc' = [pc EXCEPT ![t] = "left", ![Left[t]] = "body"]
  BY <1>0 DEF Spawn
<1>3. pc'[t] = "left" /\ pc'[Left[t]] = "body" /\ \A x \in Tasks : x # t /\ x # Left[t] => pc'[x] = pc[x]
  BY <1>1, <1>2
<1>4. \A x \in Tasks : x # Left[t] => Status(x)' = Status(x)
  BY <1>1, <1>3 DEF Status
<1>5. Running(t) /\ Running(Left[t])'
  BY <1>1, <1>3 DEF Running
<1>6. QED
  BY <1>1, <1>4, <1>5, BeginStep

LEMMA PopOwnStep ==
  ASSUME IInv, NEW w \in Workers, PopOwn(w) PROVE TaskStep
<1>0. PICK t : t = Top(w)
  OBVIOUS
<1>1. stack[w] # <<>> /\ deque[w] # <<>> /\ pc[t] = "pop"
  BY <1>0 DEF PopOwn, At, Runs
<1>2. t \in Tasks /\ t \in Forks /\ Right[t] \in Tasks /\ t # Right[t] /\ pc \in [Tasks -> PCs]
  BY <1>0, <1>1, Topmost, TreeFacts DEF IInv, TypeOK
<1>3. pc[Right[t]] = "new"
  <2>1. deque[w][Len(deque[w])] = Right[t]
    BY <1>0, <1>1, OwnJob
  <2>2. Len(deque[w]) \in 1 .. Len(deque[w])
    BY <1>1, Typed DEF IInv
  <2>3. QED
    BY <2>1, <2>2, JobMade
<1>4. pc' = [pc EXCEPT ![t] = "right", ![Right[t]] = "body"]
  BY <1>0 DEF PopOwn
<1>5. pc'[t] = "right" /\ pc'[Right[t]] = "body" /\ \A x \in Tasks : x # t /\ x # Right[t] => pc'[x] = pc[x]
  BY <1>2, <1>4
<1>6. \A x \in Tasks : x # Right[t] => Status(x)' = Status(x)
  BY <1>1, <1>2, <1>5 DEF Status
<1>7. Running(t) /\ Running(Right[t])'
  BY <1>1, <1>5 DEF Running
<1>8. QED
  BY <1>2, <1>3, <1>6, <1>7, BeginStep

LEMMA StealStep ==
  ASSUME IInv, NEW w \in Workers, NEW v \in Workers, Steal(w, v) PROVE TaskStep
<1>0. PICK j : j = Head(deque[v])
  OBVIOUS
<1>1. deque[v] # <<>> /\ pc' = [pc EXCEPT ![j] = "body"] /\ pc \in [Tasks -> PCs]
  BY <1>0 DEF Steal, RunJob, Goto, IInv, TypeOK
<1>2. deque[v][1] = j /\ 1 \in 1 .. Len(deque[v])
  <2>1. deque[v] \in Seq(Tasks)
    BY DEF IInv, TypeOK
  <2>2. Len(deque[v]) \in Nat \ {0} /\ Head(deque[v]) = deque[v][1]
    BY <1>1, <2>1, TailSeq
  <2>3. QED
    BY <1>0, <2>2
<1>3. PICK p \in Forks : j = Right[p] /\ pc[p] \in {"left", "pop"} /\ pc[j] = "new"
  <2>1. \E k \in 1 .. Len(stack[v]) :
          /\ JobOf(v, 1, k) /\ stack[v][k] \in Forks
          /\ deque[v][1] = Right[stack[v][k]] /\ pc[deque[v][1]] = "new"
    BY <1>2, JobMade
  <2>2. QED
    BY <1>2, <2>1 DEF JobOf
<1>4. j \in Tasks /\ pc'[j] = "body" /\ \A x \in Tasks : x # j => pc'[x] = pc[x]
  BY <1>1, <1>3, TreeFacts
<1>5. \A x \in Tasks : x # j => Status(x)' = Status(x)
  BY <1>4 DEF Status
<1>6. Running(p) /\ Running(j)'
  BY <1>3, <1>4 DEF Running
<1>7. QED
  BY <1>3, <1>4, <1>5, <1>6, BeginStep

LEMMA ReturnStep ==
  ASSUME IInv, NEW w \in Workers, Return(w) PROVE TaskStep
<1>0. PICK t, p : t = Top(w) /\ p = Last(Front(stack[w]))
  OBVIOUS
<1>1. stack[w] # <<>> /\ pc[t] = "return" /\ t \in Tasks /\ pc \in [Tasks -> PCs]
  BY <1>0, Topmost DEF Return, At, Runs, IInv, TypeOK
<1>2. /\ pc'[t] = "returned"
      /\ \A x \in Tasks : \/ x = t
                          \/ pc'[x] = pc[x]
                          \/ pc[x] \in {"left", "right"} /\ pc'[x] \in {"pop", "return"}
  <2>1. CASE t \in asJob \cup {Root}
    <3>1. pc' = [pc EXCEPT ![t] = "returned"]
      BY <1>0, <2>1 DEF Return, Goto
    <3>2. QED
      BY <1>1, <3>1
  <2>2. CASE t \notin asJob \cup {Root}
    <3>1. pc' = [pc EXCEPT ![t] = "returned", ![p] = IF pc[p] = "left" THEN "pop" ELSE "return"]
      BY <1>0, <2>2 DEF Return
    <3>2. p # t /\ pc[p] \in {"left", "right"}
      <4>1. PICK n, q : n = Len(stack[w]) /\ q = Front(stack[w])
        OBVIOUS
      <4>2. stack[w] \in Seq(Tasks) /\ t = stack[w][n]
        BY <1>0, <1>1, <4>1, Topmost DEF IInv, TypeOK
      <4>3. /\ q \in Seq(Tasks) /\ Len(q) = n - 1 /\ n \in Nat \ {0}
            /\ \A k \in 1 .. n - 1 : q[k] = stack[w][k]
        BY <1>1, <4>1, <4>2, FrontSeq
      <4>4. /\ n > 1 /\ stack[w][n - 1] # t /\ pc[stack[w][n - 1]] \in {"left", "right"}
        BY <1>1, <2>2, <4>1, <4>2, CalledFrom
      <4>5. q # <<>> /\ n - 1 \in 1 .. n - 1
        BY <4>3, <4>4
      <4>6. p = stack[w][n - 1]
        BY <1>0, <4>1, <4>3, <4>5, FrontSeq
      <4>7. QED
        BY <4>4, <4>6
    <3>3. QED
      BY <1>1, <3>1, <3>2
  <2>3. QED
    BY <2>1, <2>2
<1>3. /\ Status(t) = "running" /\ Status(t)' = "returned"
      /\ \A x \in Tasks : x # t => Status(x)' = Status(x)
  BY <1>1, <1>2 DEF Status
<1>4. Statuses' = [Statuses EXCEPT ![t] = "returned"]
  BY <1>1, <1>3 DEF Statuses
<1>5. \A c \in Calls!Children(t) : c \in Tasks /\ Status(c) = "returned"
  BY <1>1, TreeFacts DEF Calls!Children, IInv, PardoInv, Status
<1>6. Calls!Return(t)
  BY <1>1, <1>3, <1>4, <1>5 DEF Calls!Return, Statuses
<1>7. QED
  BY <1>1, <1>6 DEF TaskStep

LEMMA NextTask ==
  ASSUME IInv, [Next]_vars PROVE TaskStep \/ Stutter
<1>1. pc \in [Tasks -> PCs]
  BY DEF IInv, TypeOK
<1>2. ASSUME NEW t \in Tasks, NEW c \in {"return", "wait"}, Running(t), pc' = [pc EXCEPT ![t] = c]
      PROVE  Stutter
  BY <1>1, <1>2 DEF Stutter, Status, Running
<1>3. ASSUME UNCHANGED pc PROVE Stutter
  BY <1>3 DEF Stutter, Status
<1>4. ASSUME NEW w \in Workers, Step(w) PROVE TaskStep \/ Stutter
  <2>1. stack[w] # <<>> => Top(w) \in Tasks /\ Running(Top(w))
    BY Topmost
  <2>2. CASE RunLeaf(w) \/ PopNone(w) \/ WaitDone(w)
    BY <1>2, <2>1, <2>2 DEF RunLeaf, PopNone, WaitDone, At, Runs, Goto
  <2>3. CASE GiveUp(w)
    BY <1>2, <1>3, <2>1, <2>3 DEF GiveUp, Goto
  <2>4. CASE GoOn(w) \/ StealNone(w)
    BY <1>3, <2>4 DEF GoOn, StealNone
  <2>5. CASE SeekOwn(w)
    <3>1. deque[w] = <<>>
      BY <2>5 DEF SeekOwn, IInv, SeekInv
    <3>2. QED
      BY <1>3, <2>5, <3>1 DEF SeekOwn
  <2>6. ASSUME NEW v \in Workers, Steal(w, v) PROVE TaskStep
    BY <2>6, StealStep
  <2>7. QED
    BY <1>4, <2>2, <2>3, <2>4, <2>5, <2>6, SpawnStep, ReturnStep, PopOwnStep DEF Step
<1>5. CASE Shutdown \/ UNCHANGED vars
  BY <1>3, <1>5 DEF Shutdown, vars
<1>6. QED
  BY <1>4, <1>5 DEF Next

\* Fork-join keeps its promise: every task runs at most once, within the call
\* that forked it, and a call returns only after both its children have,
\* however the jobs were stolen and the waits nested.
THEOREM Refinement == Spec => RunsTree
<1>1. Init => Calls!Start
  <2> SUFFICES ASSUME Init PROVE Calls!Start
    OBVIOUS
  <2>1. \A t \in Tasks : Status(t) = IF t = Root THEN "running" ELSE "new"
    BY DEF Init, Status
  <2>2. QED
    BY <2>1 DEF Calls!Start
<1>2. IInv /\ [Next]_vars
        => [\E t \in Tasks : Calls!Begin(t) \/ Calls!Return(t)]_([t \in Tasks |-> Status(t)])
  BY NextTask DEF TaskStep, Stutter
<1>3. QED
  BY <1>1, <1>2, Invariance, PTL DEF Spec, RunsTree, Calls!Spec
=============================================================================
