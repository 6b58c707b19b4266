-------------------------- MODULE HashTableProofs --------------------------
(***************************************************************************)
(* Proofs about HashTable, for any number of threads, any table and any    *)
(* hash function: no key is ever lost, inserts and deletes that run at     *)
(* once leave the table laid out in the one canonical way, and so every    *)
(* search is right.                                                        *)
(***************************************************************************)
EXTENDS HashTable, FiniteSetTheorems, WellFoundedInduction, TLAPS

---------------------------------------------------------------------------
(* Ways around the table.                                                  *)

LEMMA Sizes == /\ m \in Nat /\ m > 0 /\ 0 \in Index
               /\ Keys \subseteq Nat /\ 0 \notin Keys /\ IsFiniteSet(Threads)
               /\ \A k \in Keys : k \in Nat /\ k > 0
  BY LoadAssumption, TableAssumption DEF Index

LEMMA NextIndex ==
  ASSUME NEW i \in Index
  PROVE  incrementIndex(i) \in Index /\ decrementIndex(i) \in Index
  BY Sizes DEF Index, incrementIndex, decrementIndex

LEMMA WrapAround ==
  ASSUME NEW n \in Nat, n > 0, NEW a \in 0 .. n - 1, NEW b \in 0 .. n - 1
  PROVE  (b - a) % n = IF a <= b THEN b - a ELSE b - a + n
<1>1. CASE a <= b
  <2>1. b - a \in Nat /\ b - a < n
    BY <1>1
  <2> QED
    BY <1>1, <2>1
<1>2. CASE ~(a <= b)
  <2>1. PICK d \in Nat : d = b - a + n /\ d < n
    BY <1>2
  <2>2. (d - n) % n = d
    BY <2>1
  <2>3. b - a = d - n
    BY <2>1
  <2> QED
    BY <1>2, <2>1, <2>2, <2>3
<1> QED
  BY <1>1, <1>2

LEMMA Distance ==
  ASSUME NEW a \in Index, NEW b \in Index
  PROVE  (b - a) % m = Offset(a, b)
  BY Sizes, WrapAround DEF Index, Offset

LEMMA InBetween ==
  ASSUME NEW f \in Index, NEW i \in Index, NEW b
  PROVE  b \in Between(f, i) <=> b \in Index /\ Offset(f, b) < Offset(f, i)
  BY Distance DEF Between

LEMMA NothingPassed == ASSUME NEW f \in Index PROVE Between(f, f) = {}
<1> SUFFICES ASSUME NEW b \in Between(f, f) PROVE FALSE
  OBVIOUS
<1> QED
  BY InBetween, Sizes DEF Offset, Index

\* One step on, only the cell that was left is passed in addition.
LEMMA OnePassed ==
  ASSUME NEW f \in Index, NEW i \in Index, NEW b \in Between(f, incrementIndex(i))
  PROVE  b \in Between(f, i) \/ b = i
<1>1. b \in Index /\ Offset(f, b) < Offset(f, incrementIndex(i))
  BY InBetween, NextIndex
<1>2. Offset(f, b) < Offset(f, i) \/ b = i
  BY <1>1, Sizes DEF Offset, Index, incrementIndex
<1> QED
  BY <1>1, <1>2, InBetween

\* Of two cells one is met first.
LEMMA OneFirst ==
  ASSUME NEW f \in Index, NEW i \in Index, NEW j \in Index, i # j
  PROVE  i \in Between(f, j) \/ j \in Between(f, i)
<1>1. Offset(f, i) < Offset(f, j) \/ Offset(f, j) < Offset(f, i)
  BY Sizes DEF Offset, Index
<1> QED
  BY <1>1, InBetween

---------------------------------------------------------------------------
(* The types, and which calls a phase has.                                 *)

LEMMA Entries0 ==
  /\ empty \in Entry /\ empty.key = 0 /\ empty.val = 0
  /\ \A e \in Entry : /\ e.key \in Nat /\ e.val \in Nat
                      /\ e # empty <=> e.key \in Keys
                      /\ e # empty => e.key > 0
                      /\ e = [key |-> e.key, val |-> e.val]
  /\ \A k \in Keys, x \in Nat : [key |-> k, val |-> x] \in Entry
<1>1. empty \in Entry /\ empty.key = 0 /\ empty.val = 0
  BY DEF Entry, empty
<1>2. ASSUME NEW e \in Entry
      PROVE  /\ e.key \in Nat /\ e.val \in Nat
             /\ e # empty <=> e.key \in Keys
             /\ e # empty => e.key > 0
             /\ e = [key |-> e.key, val |-> e.val]
  <2>1. CASE e = empty
    BY <2>1, Sizes DEF empty
  <2>2. CASE e \in [key : Keys, val : Nat]
    BY <1>1, <2>2, Sizes
  <2> QED
    BY <2>1, <2>2 DEF Entry
<1> QED
  BY <1>1, <1>2 DEF Entry

LEMMA IdleCall ==
  /\ Idle \in Call /\ Idle.pc = "idle" /\ Idle.op = "none" /\ Idle.v = empty
  BY Entries0, Sizes DEF Idle, Call

\* What is known of a thread that is in a call.
LEMMA InCall ==
  ASSUME TypeOK, InPhase, NEW w \in Threads, th[w].pc # "idle"
  PROVE  /\ th[w] \in Call /\ th[w] # Idle /\ Fits(th[w])
         /\ th[w].v \in Entry /\ th[w].v # empty /\ th[w].v.key \in Keys
         /\ th[w].c \in Entry /\ th[w].x \in Entry
         /\ th[w].i \in Index /\ th[w].j \in Index
         /\ th[w].jj \in Index /\ th[w].jjj \in Index
         /\ TA[th[w].i] \in Entry /\ TA[th[w].j] \in Entry
         /\ firstIndex(th[w].v) \in Index
<1>1. th[w] \in Call /\ th[w] # Idle
  BY IdleCall DEF TypeOK
<1>2. Fits(th[w])
  BY <1>1 DEF InPhase
<1>3. /\ th[w].v \in Entry /\ th[w].c \in Entry /\ th[w].x \in Entry
      /\ th[w].i \in Index /\ th[w].j \in Index
      /\ th[w].jj \in Index /\ th[w].jjj \in Index
  BY <1>1 DEF Call
<1>4. th[w].v.key \in Keys
  BY <1>2 DEF Fits
<1>5. th[w].v # empty
  BY <1>3, <1>4, Entries0
<1>6. hashStruct.hash \in [Keys -> Index]
  BY DEF TypeOK
<1> QED
  BY <1>1, <1>2, <1>3, <1>4, <1>5, <1>6 DEF TypeOK, firstIndex

\* A thread goes on to call u, or returns.
Moves(w, u) == th' = [th EXCEPT ![w] = u]

LEMMA MoveTypes ==
  ASSUME TypeOK, InPhase, NEW w \in Threads, NEW u \in Call, Moves(w, u),
         u = Idle \/ Fits(u), UNCHANGED <<hashStruct, phase>>,
         TA' \in [Index -> Entry], expected' \in [Keys -> Nat]
  PROVE  /\ TypeOK' /\ InPhase'
         /\ th'[w] = u /\ \A y \in Threads \ {w} : th'[y] = th[y]
<1>1. th' \in [Threads -> Call] /\ th'[w] = u /\ \A y \in Threads \ {w} : th'[y] = th[y]
  BY DEF TypeOK, Moves
<1>2. TypeOK'
  BY <1>1 DEF TypeOK
<1>3. InPhase'
  <2> SUFFICES ASSUME NEW y \in Threads, th'[y] # Idle PROVE Fits(th[y])'
    BY DEF InPhase, Idle, empty
  <2>1. CASE y = w
    BY <1>1, <2>1 DEF Fits
  <2>2. CASE y # w
    <3>1. th'[y] = th[y] /\ Fits(th[y])
      BY <1>1, <2>2 DEF InPhase
    <3> QED
      BY <3>1 DEF Fits
  <2> QED
    BY <2>1, <2>2
<1> QED
  BY <1>1, <1>2, <1>3

\* What an insert adds to what is expected.
LEMMA ExpectedNext ==
  ASSUME TypeOK, NEW v \in Entry, v.key \in Keys
  PROVE  /\ Inserted(v) \in Nat
         /\ Inserted(v) = IF expected[v.key] = 0 THEN v.val
                          ELSE IF hashStruct.kind = "add" THEN expected[v.key] + v.val
                          ELSE IF hashStruct.kind = "max" /\ v.val > expected[v.key]
                               THEN v.val ELSE expected[v.key]
<1> DEFINE old == [key |-> v.key, val |-> expected[v.key]]
<1>1. expected[v.key] \in Nat /\ v.val \in Nat /\ old.val = expected[v.key]
  BY Entries0 DEF TypeOK
<1>2. Inserted(v) = IF expected[v.key] = 0 THEN v.val
                    ELSE IF replaceQ(v, old) THEN Merged(old, v).val ELSE expected[v.key]
  BY DEF Inserted
<1>3. hashStruct.kind = "add" => replaceQ(v, old) /\ Merged(old, v).val = expected[v.key] + v.val
  BY <1>1 DEF replaceQ, Merged
<1>4. hashStruct.kind # "add" => Merged(old, v) = v
  BY DEF Merged
<1>5. hashStruct.kind \in {"numeric", "max", "add"}
  BY DEF TypeOK
<1>6. /\ hashStruct.kind = "max" => (replaceQ(v, old) <=> v.val > expected[v.key])
      /\ hashStruct.kind = "numeric" => ~replaceQ(v, old)
  BY <1>1 DEF replaceQ
<1> HIDE DEF old
<1> QED
  BY <1>1, <1>2, <1>3, <1>4, <1>5, <1>6

LEMMA StartTypes ==
  ASSUME TypeOK, InPhase, NEW w \in Threads, Start(w)
  PROVE  TypeOK' /\ InPhase'
<1> USE DEF TypeOK
<1>1. ASSUME NEW k \in Keys, NEW x \in Vals, NEW op \in {"insert", "update"},
             StartInsert(w, op, [key |-> k, val |-> x])
      PROVE  TypeOK' /\ InPhase'
  <2> DEFINE v == [key |-> k, val |-> x]
             u == [Idle EXCEPT !.pc = "load", !.op = op, !.v = v, !.i = firstIndex(v)]
  <2>1. x \in Nat /\ v \in Entry /\ v.key = k /\ v.val = x
    BY TableAssumption, Entries0
  <2>2. firstIndex(v) \in Index
    BY <2>1 DEF firstIndex
  <2>3. /\ u \in Call /\ Fits(u) /\ Moves(w, u)
        /\ UNCHANGED <<hashStruct, phase, TA>>
    <3>1. u \in Call
      BY <2>1, <2>2, IdleCall DEF Call
    <3>2. /\ phase = "insert" /\ op = IF hashStruct.kind = "add" THEN "update" ELSE "insert"
          /\ Moves(w, u) /\ UNCHANGED <<hashStruct, phase, TA>>
      BY <1>1 DEF StartInsert, Go, Moves
    <3>3. u.v = v /\ u.pc = "load" /\ u.op = op
      BY DEF Idle
    <3> HIDE DEF u
    <3> QED
      BY <2>1, <3>1, <3>2, <3>3 DEF Fits
  <2>4. expected' = [expected EXCEPT ![v.key] = Inserted(v)]
    BY <1>1 DEF StartInsert
  <2>5. Inserted(v) \in Nat
    BY <2>1, ExpectedNext
  <2>6. expected' \in [Keys -> Nat] /\ TA' \in [Index -> Entry]
    BY <2>1, <2>3, <2>4, <2>5
  <2> QED
    BY <2>3, <2>6, MoveTypes
<1>2. ASSUME NEW k \in Keys, StartDelete(w, k) PROVE TypeOK' /\ InPhase'
  <2> DEFINE v == [empty EXCEPT !.key = k]
             u == [Idle EXCEPT !.pc = "seek", !.op = "delete", !.v = v,
                               !.i = firstIndex(v), !.j = firstIndex(v)]
  <2>1. v = [key |-> k, val |-> 0] /\ v \in Entry /\ v.key = k
    BY Entries0 DEF empty
  <2>2. firstIndex(v) \in Index
    BY <2>1 DEF firstIndex
  <2>3. /\ u \in Call /\ Fits(u) /\ Moves(w, u)
        /\ UNCHANGED <<hashStruct, phase, TA>>
    <3>1. u \in Call
      BY <2>1, <2>2, IdleCall DEF Call
    <3>2. phase = "delete" /\ Moves(w, u) /\ UNCHANGED <<hashStruct, phase, TA>>
      BY <1>2 DEF StartDelete, Go, Moves
    <3>3. u.v = v /\ u.pc = "seek" /\ u.op = "delete"
      BY DEF Idle
    <3> HIDE DEF u
    <3> QED
      BY <2>1, <3>1, <3>2, <3>3 DEF Fits
  <2>4. expected' \in [Keys -> Nat] /\ TA' \in [Index -> Entry]
    BY <1>2, <2>3 DEF StartDelete
  <2> QED
    BY <2>3, <2>4, MoveTypes
<1>3. ASSUME NEW k \in Keys, StartFind(w, k) PROVE TypeOK' /\ InPhase'
  <2> DEFINE v == [empty EXCEPT !.key = k]
             u == [Idle EXCEPT !.pc = "probe", !.op = "find", !.v = v, !.i = firstIndex(v)]
  <2>1. v = [key |-> k, val |-> 0] /\ v \in Entry /\ v.key = k
    BY Entries0 DEF empty
  <2>2. firstIndex(v) \in Index
    BY <2>1 DEF firstIndex
  <2>3. /\ u \in Call /\ Fits(u) /\ Moves(w, u)
        /\ UNCHANGED <<hashStruct, phase, TA, expected>>
    <3>1. u \in Call
      BY <2>1, <2>2, IdleCall DEF Call
    <3>2. phase = "find" /\ Moves(w, u) /\ UNCHANGED <<hashStruct, phase, TA, expected>>
      BY <1>3 DEF StartFind, Go, Moves
    <3>3. u.v = v /\ u.pc = "probe" /\ u.op = "find"
      BY DEF Idle
    <3> HIDE DEF u
    <3> QED
      BY <2>1, <3>1, <3>2, <3>3 DEF Fits
  <2> QED
    BY <2>3, MoveTypes
<1> HIDE DEF TypeOK
<1> QED
  BY <1>1, <1>2, <1>3 DEF Start

\* A step within a call that leaves the table alone.
Quiet(w, u) == /\ Moves(w, u) /\ u \in Call /\ (u = Idle \/ Fits(u))
               /\ UNCHANGED <<TA, hashStruct, phase, expected>>
\* One that puts e into cell i.
Puts(w, u, i, e) == /\ Moves(w, u) /\ u \in Call /\ (u = Idle \/ Fits(u))
                    /\ i \in Index /\ e \in Entry /\ TA' = [TA EXCEPT ![i] = e]
                    /\ UNCHANGED <<hashStruct, phase, expected>>

LEMMA LoadStep ==
  ASSUME TypeOK, InPhase, NEW w \in Threads, insertLoad(w)
  PROVE  /\ phase = "insert" /\ th[w].pc = "load"
         /\ LET t == th[w]
                c == TA[t.i] IN
            \/ /\ c # empty /\ t.v.key < c.key
               /\ Quiet(w, [t EXCEPT !.i = incrementIndex(@)])
            \/ /\ c # empty /\ t.v.key = c.key /\ ~replaceQ(t.v, c)
               /\ Quiet(w, Idle)
            \/ /\ c = empty \/ t.v.key > c.key \/ (t.v.key = c.key /\ replaceQ(t.v, c))
               /\ Quiet(w, [t EXCEPT !.pc = "cas", !.c = c])
<1> DEFINE t == th[w]
           c == TA[t.i]
           u == [t EXCEPT !.i = incrementIndex(@)]
           r == [t EXCEPT !.pc = "cas", !.c = c]
<1>1. t.pc = "load" /\ t \in Call /\ Fits(t) /\ t.i \in Index /\ c \in Entry
  BY InCall DEF insertLoad
<1>2. phase = "insert"
  BY <1>1 DEF Fits
<1>3. u \in Call /\ r \in Call
  BY <1>1, NextIndex DEF Call
<1>4. Fits(u) /\ Fits(r)
  BY <1>1 DEF Fits, Call
<1>5. UNCHANGED <<TA, hashStruct, phase, expected>>
  BY DEF insertLoad, Same
<1> QED
  BY <1>1, <1>2, <1>3, <1>4, <1>5, IdleCall DEF insertLoad, Go, Return, Moves, Quiet

LEMMA CasStep ==
  ASSUME TypeOK, InPhase, NEW w \in Threads, insertCas(w)
  PROVE  /\ phase = "insert" /\ th[w].pc = "cas"
         /\ LET t == th[w]
                e == NewEntry(t) IN
            \/ /\ TA[t.i] # t.c
               /\ Quiet(w, [t EXCEPT !.pc = "load"])
            \/ /\ TA[t.i] = t.c /\ t.c.key \in {0, t.v.key}
               /\ Puts(w, Idle, t.i, e)
            \/ /\ TA[t.i] = t.c /\ t.c.key \notin {0, t.v.key} /\ e = t.v
               /\ Puts(w, [t EXCEPT !.pc = "load", !.v = t.c, !.i = incrementIndex(@)],
                       t.i, e)
<1> DEFINE t == th[w]
           e == NewEntry(t)
           u == [t EXCEPT !.pc = "load"]
           r == [t EXCEPT !.pc = "load", !.v = t.c, !.i = incrementIndex(@)]
<1>1. /\ t.pc = "cas" /\ t \in Call /\ Fits(t) /\ t.i \in Index
      /\ t.c \in Entry /\ t.v \in Entry /\ t.v # empty
  BY InCall DEF insertCas
<1>2. phase = "insert"
  BY <1>1 DEF Fits
<1>3. u \in Call /\ r \in Call
  BY <1>1, NextIndex DEF Call
<1>4. Fits(u)
  BY <1>1 DEF Fits, Call
<1>5. t.c.key # 0 => Fits(r)
  <2> SUFFICES ASSUME t.c.key # 0 PROVE Fits(r)
    OBVIOUS
  <2>1. t.c.key \in Keys
    BY <1>1, Entries0
  <2> QED
    BY <1>1, <2>1 DEF Fits, Call
<1>6. UNCHANGED <<hashStruct, phase, expected>>
  BY DEF insertCas, Same
<1>7. t.c.key # t.v.key => e = t.v
  BY DEF NewEntry
<1>8. e \in Entry
  <2>1. CASE t.op = "update" /\ t.c.key = t.v.key
    <3>1. t.c \in [key : Keys, val : Nat] /\ t.v.val \in Nat /\ t.v.key \in Keys
      BY <1>1, <2>1, Entries0, Sizes DEF Entry
    <3>2. e = Merged(t.c, t.v)
      BY <2>1 DEF NewEntry
    <3>3. CASE hashStruct.kind = "add"
      <4>1. e = [t.c EXCEPT !.val = @ + t.v.val]
        BY <3>2, <3>3 DEF Merged
      <4>2. e \in [key : Keys, val : Nat]
        BY <3>1, <4>1
      <4> QED
        BY <4>2 DEF Entry
    <3>4. CASE hashStruct.kind # "add"
      BY <1>1, <3>2, <3>4 DEF Merged
    <3> QED
      BY <3>3, <3>4
  <2>2. CASE ~(t.op = "update" /\ t.c.key = t.v.key)
    BY <1>1, <2>2 DEF NewEntry
  <2> QED
    BY <2>1, <2>2
<1>9. \/ /\ TA[t.i] # t.c /\ th' = [th EXCEPT ![w] = u] /\ TA' = TA
      \/ /\ TA[t.i] = t.c /\ TA' = [TA EXCEPT ![t.i] = e]
         /\ \/ t.c.key \in {0, t.v.key} /\ th' = [th EXCEPT ![w] = Idle]
            \/ t.c.key \notin {0, t.v.key} /\ th' = [th EXCEPT ![w] = r]
  BY DEF insertCas, Go, Return
<1> HIDE DEF t, e, u, r
<1>10. CASE TA[t.i] # t.c /\ th' = [th EXCEPT ![w] = u] /\ TA' = TA
  <2>1. Quiet(w, u)
    BY <1>3, <1>4, <1>6, <1>10 DEF Quiet, Moves
  <2> QED
    BY <1>1, <1>2, <1>10, <2>1 DEF t, u
<1>11. CASE /\ TA[t.i] = t.c /\ TA' = [TA EXCEPT ![t.i] = e]
            /\ t.c.key \in {0, t.v.key} /\ th' = [th EXCEPT ![w] = Idle]
  <2>1. Puts(w, Idle, t.i, e)
    BY <1>1, <1>6, <1>8, <1>11, IdleCall DEF Puts, Moves
  <2> QED
    BY <1>1, <1>2, <1>11, <2>1 DEF t, e
<1>12. CASE /\ TA[t.i] = t.c /\ TA' = [TA EXCEPT ![t.i] = e]
            /\ t.c.key \notin {0, t.v.key} /\ th' = [th EXCEPT ![w] = r]
  <2>1. Puts(w, r, t.i, e) /\ e = t.v
    BY <1>1, <1>3, <1>5, <1>6, <1>7, <1>8, <1>12 DEF Puts, Moves
  <2> QED
    BY <1>1, <1>2, <1>12, <2>1 DEF t, e, r
<1> QED
  BY <1>9, <1>10, <1>11, <1>12

\* The steps of a delete: those that only look, and the one that moves an
\* entry down.
LookDelete(w) == \/ deleteSeek(w) \/ deleteDown(w) \/ deleteFound(w) \/ deleteUp(w)
                 \/ deleteBack(w) \/ deleteReload(w)

LEMMA LookStep ==
  ASSUME TypeOK, InPhase, NEW w \in Threads, LookDelete(w)
  PROVE  /\ phase = "delete"
         /\ \E u : /\ Quiet(w, u)
                   /\ u = Idle \/ (u.op = "delete" /\ u.v = th[w].v)
                   /\ \/ u.pc \notin {"up", "back"}
                      \/ u.c = th[w].c /\ u.c.key = u.v.key
                      \/ u.c = th[w].c /\ th[w].pc \in {"up", "back"}
<1> DEFINE t == th[w]
<1>1. /\ t \in Call /\ Fits(t) /\ t.op = "delete" /\ phase = "delete"
      /\ t.i \in Index /\ t.j \in Index /\ t.jj \in Index /\ t.jjj \in Index
  <2>1. t.pc \in {"seek", "check", "up", "back", "reload"}
    BY DEF LookDelete, deleteSeek, deleteDown, deleteFound, deleteUp, deleteBack, deleteReload
  <2> QED
    BY <2>1, InCall DEF Fits
<1>2. UNCHANGED <<TA, hashStruct, phase, expected>>
  BY DEF LookDelete, deleteSeek, deleteDown, deleteFound, deleteUp, deleteBack, deleteReload,
         Same
<1>3. \A i \in Index : TA[i] \in Entry
  BY DEF TypeOK
<1>4. ASSUME NEW u, u \in Call, u.op = "delete", u.v = t.v,
             u.pc \in {"seek", "check", "up", "back", "reload"}
      PROVE  Fits(u)
  BY <1>1, <1>4 DEF Fits
<1>5. CASE deleteSeek(w)
  <2> DEFINE u == [t EXCEPT !.j = incrementIndex(@)]
             r == [t EXCEPT !.pc = "check", !.c = TA[t.j]]
  <2>1. u \in Call /\ r \in Call
    BY <1>1, <1>3, NextIndex DEF Call
  <2>2. /\ t.pc = "seek" /\ u.op = "delete" /\ u.v = t.v /\ u.pc = "seek"
        /\ r.op = "delete" /\ r.v = t.v /\ r.pc = "check"
    BY <1>1, <1>5, <2>1 DEF deleteSeek, Call
  <2>3. Fits(u) /\ Fits(r)
    BY <1>4, <2>1, <2>2
  <2>4. Quiet(w, Idle) \/ Quiet(w, u) \/ Quiet(w, r)
    BY <1>2, <1>5, <2>1, <2>3, IdleCall DEF deleteSeek, Go, Return, Quiet, Moves
  <2> HIDE DEF u, r
  <2> QED
    BY <1>1, <2>2, <2>4, IdleCall
<1>6. CASE deleteDown(w)
  <2> DEFINE u == [t EXCEPT !.j = decrementIndex(@), !.c = TA[decrementIndex(t.j)]]
  <2>1. u \in Call
    BY <1>1, <1>3, NextIndex DEF Call
  <2>2. u.op = "delete" /\ u.v = t.v /\ u.pc = "check"
    BY <1>1, <1>6, <2>1 DEF deleteDown, Call
  <2>3. Fits(u)
    BY <1>4, <2>1, <2>2
  <2>4. Quiet(w, Idle) \/ Quiet(w, u)
    BY <1>2, <1>6, <2>1, <2>3, IdleCall DEF deleteDown, Go, Return, Quiet, Moves
  <2> HIDE DEF u
  <2> QED
    BY <1>1, <2>2, <2>4, IdleCall
<1>7. CASE deleteFound(w)
  <2> DEFINE k == incrementIndex(t.j)
             u == [t EXCEPT !.pc = "up", !.jj = k, !.x = TA[k]]
  <2>1. u \in Call
    BY <1>1, <1>3, NextIndex DEF Call
  <2>2. t.pc = "check" /\ Fits(u) /\ u.op = "delete" /\ u.v = t.v /\ u.c = t.c
        /\ u.c.key = u.v.key
    BY <1>1, <1>4, <1>7, <2>1 DEF deleteFound, Call
  <2>3. Quiet(w, u)
    BY <1>2, <1>7, <2>1, <2>2 DEF deleteFound, Go, Quiet, Moves
  <2> QED
    BY <1>1, <2>2, <2>3
<1>8. CASE deleteUp(w)
  <2> DEFINE k == incrementIndex(t.jj)
             u == [t EXCEPT !.jj = k, !.x = TA[k]]
             r == [t EXCEPT !.pc = "back", !.jjj = decrementIndex(t.jj)]
  <2>1. u \in Call /\ r \in Call
    BY <1>1, <1>3, NextIndex DEF Call
  <2>2. t.pc = "up" /\ Fits(u) /\ u.op = "delete" /\ u.v = t.v /\ u.c = t.c
        /\ Fits(r) /\ r.op = "delete" /\ r.v = t.v /\ r.c = t.c
    BY <1>1, <1>4, <1>8, <2>1 DEF deleteUp, Call
  <2>3. Quiet(w, u) \/ Quiet(w, r)
    BY <1>2, <1>8, <2>1, <2>2 DEF deleteUp, Go, Quiet, Moves
  <2> QED
    BY <1>1, <2>2, <2>3
<1>9. CASE deleteBack(w)
  <2> DEFINE u == [t EXCEPT !.jjj = decrementIndex(@)]
             r == [u EXCEPT !.x = TA[t.jjj], !.jj = t.jjj]
  <2>1. u \in Call /\ r \in Call
    BY <1>1, <1>3, NextIndex DEF Call
  <2>2. t.pc = "back" /\ Fits(u) /\ u.op = "delete" /\ u.v = t.v /\ u.c = t.c
        /\ Fits(r) /\ r.op = "delete" /\ r.v = t.v /\ r.c = t.c
    BY <1>1, <1>4, <1>9, <2>1 DEF deleteBack, Call
  <2>3. Quiet(w, u) \/ Quiet(w, r)
    BY <1>2, <1>9, <2>1, <2>2 DEF deleteBack, Go, Quiet, Moves
  <2> QED
    BY <1>1, <2>2, <2>3
<1>10. CASE deleteReload(w)
  <2> DEFINE u == [t EXCEPT !.pc = "check", !.c = TA[t.j]]
  <2>1. u \in Call
    BY <1>1, <1>3 DEF Call
  <2>2. Fits(u) /\ u.op = "delete" /\ u.v = t.v /\ u.pc = "check"
    BY <1>1, <1>4, <2>1 DEF Call
  <2>3. Quiet(w, u)
    BY <1>2, <1>10, <2>1, <2>2 DEF deleteReload, Go, Quiet, Moves
  <2> QED
    BY <1>1, <2>2, <2>3
<1> QED
  BY <1>5, <1>6, <1>7, <1>8, <1>9, <1>10 DEF LookDelete

\* An entry is moved down over one that is to go.
LEMMA SwapStep ==
  ASSUME TypeOK, InPhase, NEW w \in Threads, deleteSwap(w)
  PROVE  /\ phase = "delete" /\ th[w].pc = "back"
         /\ LET t == th[w] IN
            \/ Quiet(w, [t EXCEPT !.pc = "reload"])
            \/ /\ TA[t.j] = t.c /\ t.x = empty
               /\ Puts(w, Idle, t.j, empty)
            \/ /\ TA[t.j] = t.c /\ t.x # empty
               /\ \E u \in Call : /\ u.pc = "reload" /\ u.op = "delete" /\ u.v = t.x
                                  /\ Puts(w, u, t.j, t.x)
<1> DEFINE t == th[w]
           u == [t EXCEPT !.pc = "reload"]
           r == [u EXCEPT !.v = t.x, !.j = t.jj, !.i = firstIndex(t.x)]
<1>1. /\ t.pc = "back" /\ t \in Call /\ Fits(t) /\ t.j \in Index /\ t.jj \in Index
      /\ t.x \in Entry
  BY InCall DEF deleteSwap
<1>2. phase = "delete" /\ t.op = "delete"
  BY <1>1 DEF Fits
<1>3. u \in Call /\ Fits(u)
  BY <1>1, <1>2 DEF Fits, Call
<1>4. t.x # empty => r \in Call /\ Fits(r) /\ r.pc = "reload" /\ r.op = "delete" /\ r.v = t.x
  <2> SUFFICES ASSUME t.x # empty
               PROVE  /\ r \in Call /\ Fits(r)
                      /\ r.pc = "reload" /\ r.op = "delete" /\ r.v = t.x
    OBVIOUS
  <2>1. t.x.key \in Keys
    BY <1>1, Entries0
  <2>2. firstIndex(t.x) \in Index
    BY <2>1 DEF TypeOK, firstIndex
  <2>3. r \in Call /\ r.pc = "reload" /\ r.op = "delete" /\ r.v = t.x
    BY <1>1, <1>2, <2>2 DEF Call
  <2> QED
    BY <1>2, <2>1, <2>3 DEF Fits
<1>5. UNCHANGED <<hashStruct, phase, expected>>
  BY DEF deleteSwap, Same
<1>6. \/ th' = [th EXCEPT ![w] = u] /\ TA' = TA
      \/ /\ TA[t.j] = t.c /\ TA' = [TA EXCEPT ![t.j] = t.x]
         /\ IF t.x = empty THEN th' = [th EXCEPT ![w] = Idle] ELSE th' = [th EXCEPT ![w] = r]
  BY DEF deleteSwap, Go, Return
<1> HIDE DEF t, u, r
<1>7. CASE th' = [th EXCEPT ![w] = u] /\ TA' = TA
  BY <1>1, <1>2, <1>3, <1>5, <1>7 DEF Quiet, Moves, t, u
<1>8. CASE /\ TA[t.j] = t.c /\ TA' = [TA EXCEPT ![t.j] = t.x] /\ t.x = empty
           /\ th' = [th EXCEPT ![w] = Idle]
  <2>1. Puts(w, Idle, t.j, empty)
    BY <1>1, <1>5, <1>8, IdleCall DEF Puts, Moves
  <2> QED
    BY <1>1, <1>2, <1>8, <2>1 DEF t
<1>9. CASE /\ TA[t.j] = t.c /\ TA' = [TA EXCEPT ![t.j] = t.x] /\ t.x # empty
           /\ th' = [th EXCEPT ![w] = r]
  <2>1. Puts(w, r, t.j, t.x)
    BY <1>1, <1>4, <1>5, <1>9 DEF Puts, Moves
  <2> QED
    BY <1>1, <1>2, <1>4, <1>9, <2>1 DEF t
<1> QED
  BY <1>6, <1>7, <1>8, <1>9

LEMMA FindStep ==
  ASSUME TypeOK, InPhase, NEW w \in Threads, findProbe(w) \/ findReturn(w)
  PROVE  /\ phase = "find"
         /\ LET t == th[w]
                c == TA[t.i]
                e == IF t.v.key = c.key THEN c ELSE empty IN
            \/ t.pc = "answer" /\ Quiet(w, Idle)
            \/ /\ t.pc = "probe" /\ t.v.key < c.key
               /\ Quiet(w, [t EXCEPT !.i = incrementIndex(@)])
            \/ /\ t.pc = "probe" /\ t.v.key >= c.key
               /\ Quiet(w, [t EXCEPT !.pc = "answer", !.c = e])
<1> DEFINE t == th[w]
           c == TA[t.i]
           e == IF t.v.key = c.key THEN c ELSE empty
           u == [t EXCEPT !.i = incrementIndex(@)]
           r == [t EXCEPT !.pc = "answer", !.c = e]
<1>1. /\ t.pc \in {"probe", "answer"} /\ t \in Call /\ Fits(t) /\ t.i \in Index /\ c \in Entry
  BY InCall DEF findProbe, findReturn
<1>2. phase = "find" /\ e \in Entry
  BY <1>1, Entries0 DEF Fits
<1>3. u \in Call /\ r \in Call
  <2> HIDE DEF e, c
  <2> QED
    BY <1>1, <1>2, NextIndex DEF Call
<1>4. Fits(u) /\ Fits(r)
  BY <1>1 DEF Fits, Call
<1>5. UNCHANGED <<TA, hashStruct, phase, expected>>
  BY DEF findProbe, findReturn, Same
<1> QED
  BY <1>1, <1>2, <1>3, <1>4, <1>5, IdleCall DEF findProbe, findReturn, Go, Return, Moves, Quiet

LEMMA QuietTypes ==
  ASSUME TypeOK, InPhase, NEW w \in Threads, NEW u, Quiet(w, u)
  PROVE  /\ TypeOK' /\ InPhase' /\ u \in Call
         /\ th'[w] = u /\ \A y \in Threads \ {w} : th'[y] = th[y]
<1>1. /\ u \in Call /\ Moves(w, u) /\ (u = Idle \/ Fits(u))
      /\ UNCHANGED <<TA, hashStruct, phase, expected>>
  BY DEF Quiet
<1>2. TA' \in [Index -> Entry] /\ expected' \in [Keys -> Nat]
  BY <1>1 DEF TypeOK
<1> QED
  BY <1>1, <1>2, MoveTypes

LEMMA PutsTypes ==
  ASSUME TypeOK, InPhase, NEW w \in Threads, NEW u, NEW i, NEW e, Puts(w, u, i, e)
  PROVE  /\ TypeOK' /\ InPhase' /\ u \in Call
         /\ th'[w] = u /\ \A y \in Threads \ {w} : th'[y] = th[y]
         /\ TA'[i] = e /\ \A b \in Index \ {i} : TA'[b] = TA[b]
<1>1. /\ u \in Call /\ Moves(w, u) /\ (u = Idle \/ Fits(u)) /\ i \in Index /\ e \in Entry
      /\ TA' = [TA EXCEPT ![i] = e] /\ UNCHANGED <<hashStruct, phase, expected>>
  BY DEF Puts
<1>2. /\ TA' \in [Index -> Entry] /\ expected' \in [Keys -> Nat]
      /\ TA'[i] = e /\ \A b \in Index \ {i} : TA'[b] = TA[b]
  BY <1>1 DEF TypeOK
<1> QED
  BY <1>1, <1>2, MoveTypes

LEMMA PhaseTypes ==
  ASSUME TypeOK, InPhase, NextPhase
  PROVE  TypeOK' /\ InPhase' /\ \A w \in Threads : th[w] = Idle /\ th'[w] = Idle
<1>1. /\ \A w \in Threads : th[w] = Idle /\ th'[w] = Idle
      /\ phase' \in {"insert", "delete", "find"}
      /\ UNCHANGED <<TA, hashStruct, th, expected>>
  BY DEF NextPhase, AllIdle
<1>2. TypeOK'
  BY <1>1 DEF TypeOK
<1>3. InPhase'
  BY <1>1 DEF InPhase, Idle, empty
<1> QED
  BY <1>1, <1>2, <1>3

LEMMA StepTypes ==
  ASSUME TypeOK, InPhase, NEW w \in Threads, Step(w)
  PROVE  TypeOK' /\ InPhase'
<1>1. CASE insertLoad(w)
  BY <1>1, LoadStep, QuietTypes
<1>2. CASE insertCas(w)
  BY <1>2, CasStep, QuietTypes, PutsTypes
<1>3. CASE LookDelete(w)
  BY <1>3, LookStep, QuietTypes
<1>4. CASE deleteSwap(w)
  BY <1>4, SwapStep, QuietTypes, PutsTypes
<1>5. CASE findProbe(w) \/ findReturn(w)
  BY <1>5, FindStep, QuietTypes
<1> QED
  BY <1>1, <1>2, <1>3, <1>4, <1>5 DEF Step, LookDelete

---------------------------------------------------------------------------
(* Inserts: what has been passed stays passed, since cells only ever get   *)
(* entries of higher priority.                                             *)

PassedIn(T, v, i) == \A b \in Between(firstIndex(v), i) : T[b].key > v.key

LEMMA InsertingIn ==
  ASSUME UNCHANGED hashStruct
  PROVE  /\ \A v, i : Passed(v, i) <=> PassedIn(TA, v, i)
         /\ \A v, i : Passed(v, i)' <=> PassedIn(TA', v, i)
         /\ \A v, c : replaceQ(v, c)' <=> replaceQ(v, c)
  BY DEF Passed, PassedIn, firstIndex, replaceQ

LEMMA QuietInsert ==
  ASSUME TypeOK, InPhase, InsertInv, NEW w \in Threads, NEW u, Quiet(w, u),
         phase = "insert" => u = Idle \/ Inserting(u)
  PROVE  InsertInv'
<1> SUFFICES ASSUME phase = "insert"
             PROVE  /\ \A i \in Index : TA'[i] # empty => Passed(TA[i], i)'
                    /\ \A y \in Threads : th'[y] # Idle => Inserting(th[y])'
  BY DEF InsertInv, Quiet, Index, empty, Idle
<1>1. UNCHANGED <<TA, hashStruct>> /\ th'[w] = u /\ \A y \in Threads \ {w} : th'[y] = th[y]
  BY QuietTypes DEF Quiet
<1>2. \A i \in Index : TA'[i] # empty => Passed(TA[i], i)'
  BY <1>1 DEF InsertInv, Passed, firstIndex
<1>3. ASSUME NEW y \in Threads, th'[y] # Idle PROVE Inserting(th[y])'
  <2>1. Inserting(th'[y])
    BY <1>1, <1>3 DEF InsertInv
  <2> QED
    BY <1>1, <2>1 DEF Inserting, Passed, firstIndex, replaceQ
<1> QED
  BY <1>2, <1>3

\* An entry e replaces one of a lower or its own priority; if the one it
\* replaces has another key, the caller goes on with that from the next cell.
Bumps(w, u, i, e) ==
  /\ Puts(w, u, i, e) /\ e # empty /\ Passed(e, i)
  /\ TA[i] = empty \/ TA[i].key <= e.key
  /\ \/ u = Idle /\ TA[i].key \in {0, e.key}
     \/ /\ u.pc = "load" /\ u.v = TA[i] /\ u.i = incrementIndex(i)
        /\ TA[i].key < e.key /\ TA[i] # empty

LEMMA BumpsTypes ==
  ASSUME TypeOK, InPhase, NEW w \in Threads, NEW u, NEW i, NEW e, Bumps(w, u, i, e)
  PROVE  /\ i \in Index /\ e \in Entry /\ e # empty /\ TA'[i] = e
         /\ \A b \in Index \ {i} : TA'[b] = TA[b]
         /\ th'[w] = u /\ \A y \in Threads \ {w} : th'[y] = th[y]
         /\ UNCHANGED <<hashStruct, phase, expected>> /\ u \in Call /\ TypeOK' /\ InPhase'
<1>1. Puts(w, u, i, e) /\ e # empty
  BY DEF Bumps
<1>2. i \in Index /\ e \in Entry /\ UNCHANGED <<hashStruct, phase, expected>>
  BY <1>1 DEF Puts
<1> QED
  BY <1>1, <1>2, PutsTypes

LEMMA PassedOn ==
  ASSUME TypeOK, NEW f \in Index, NEW i \in Index, NEW T, NEW k,
         \A b \in Between(f, i) : T[b].key > k, T[i].key > k
  PROVE  \A b \in Between(f, incrementIndex(i)) : T[b].key > k
  BY OnePassed

LEMMA BumpsInsert ==
  ASSUME TypeOK, InPhase, InsertInv, NEW w \in Threads, NEW u, NEW i, NEW e,
         phase = "insert", Bumps(w, u, i, e)
  PROVE  InsertInv'
<1>1. /\ i \in Index /\ e \in Entry /\ e # empty /\ TA'[i] = e
      /\ \A b \in Index \ {i} : TA'[b] = TA[b]
      /\ th'[w] = u /\ \A y \in Threads \ {w} : th'[y] = th[y]
      /\ UNCHANGED hashStruct /\ u \in Call /\ TypeOK'
  BY BumpsTypes
<1>2. \A b \in Index : TA[b] \in Entry /\ TA'[b] \in Entry
  BY <1>1 DEF TypeOK
<1>3. TA[i].key <= e.key
  BY <1>1, <1>2, Entries0 DEF Bumps
<1>4. \A b \in Index, k \in Nat : TA[b].key > k => TA'[b].key > k
  <2> SUFFICES ASSUME NEW b \in Index, NEW k \in Nat, TA[b].key > k PROVE TA'[b].key > k
    OBVIOUS
  <2>1. TA[b].key \in Nat /\ e.key \in Nat
    BY <1>1, <1>2, Entries0
  <2> QED
    BY <1>1, <1>3, <2>1
<1>5. ASSUME NEW v \in Entry, NEW p, PassedIn(TA, v, p) PROVE PassedIn(TA', v, p)
  <2>1. v.key \in Nat /\ \A b \in Between(firstIndex(v), p) : b \in Index
    BY Entries0 DEF Between
  <2> QED
    BY <1>4, <1>5, <2>1 DEF PassedIn
<1>6. ASSUME NEW b \in Index, TA'[b] # empty PROVE Passed(TA[b], b)'
  <2>1. PassedIn(TA, TA'[b], b)
    <3>1. CASE b = i
      BY <1>1, <3>1, InsertingIn DEF Bumps
    <3>2. CASE b # i
      BY <1>1, <1>6, <3>2, InsertingIn DEF InsertInv
    <3> QED
      BY <3>1, <3>2
  <2>2. PassedIn(TA', TA'[b], b)
    BY <1>2, <1>5, <2>1
  <2> QED
    BY <1>1, <2>2, InsertingIn DEF Passed, PassedIn, firstIndex
<1>7. ASSUME NEW y \in Threads, th'[y] # Idle PROVE Inserting(th[y])'
  <2>1. CASE y = w
    <3>1. /\ u # Idle /\ u.pc = "load" /\ u.v = TA[i] /\ u.i = incrementIndex(i)
          /\ TA[i].key < e.key /\ TA[i] # empty
      BY <1>1, <1>7, <2>1 DEF Bumps
    <3> DEFINE c == TA[i]
    <3>2. c \in Entry /\ c.key \in Keys /\ c.key \in Nat /\ e.key \in Nat
      BY <1>1, <1>2, <3>1, Entries0
    <3>3. firstIndex(c) \in Index
      BY <3>2 DEF TypeOK, firstIndex
    <3>4. PassedIn(TA', c, i)
      BY <1>1, <1>5, <3>1, <3>2, InsertingIn DEF InsertInv
    <3>5. TA'[i].key > c.key
      BY <1>1, <3>1, <3>2
    <3>6. PassedIn(TA', c, incrementIndex(i))
      BY <1>1, <3>3, <3>4, <3>5, PassedOn DEF PassedIn
    <3>7. Passed(th[y].v, th[y].i)'
      <4>1. th'[y].v = c /\ th'[y].i = incrementIndex(i) /\ hashStruct' = hashStruct
        BY <1>1, <2>1, <3>1
      <4> HIDE DEF c
      <4>2. PassedIn(TA', th'[y].v, th'[y].i)
        BY <3>6, <4>1
      <4> QED
        BY <4>1, <4>2 DEF Passed, PassedIn, firstIndex
    <3> QED
      BY <1>1, <2>1, <3>1, <3>7 DEF Inserting
  <2>2. CASE y # w
    <3>1. th'[y] = th[y] /\ Inserting(th[y]) /\ th[y] \in Call
      BY <1>1, <1>7, <2>2 DEF InsertInv, TypeOK
    <3>2. PassedIn(TA', th[y].v, th[y].i)
      BY <1>1, <1>5, <3>1, InsertingIn DEF Inserting, Call
    <3>3. Passed(th[y].v, th[y].i)'
      BY <1>1, <3>1, <3>2 DEF Passed, PassedIn, firstIndex
    <3> QED
      BY <1>1, <3>1, <3>3 DEF Inserting, replaceQ
  <2> QED
    BY <2>1, <2>2
<1> QED
  BY <1>6, <1>7 DEF InsertInv

\* What a compare-and-swap that wins does.
LEMMA CasBumps ==
  ASSUME TypeOK, InPhase, InsertInv, NEW w \in Threads, insertCas(w)
  PROVE  \/ TA[th[w].i] # th[w].c /\ Quiet(w, [th[w] EXCEPT !.pc = "load"])
         \/ /\ TA[th[w].i] = th[w].c /\ NewEntry(th[w]).key = th[w].v.key
            /\ \E u : /\ Bumps(w, u, th[w].i, NewEntry(th[w]))
                      /\ u # Idle => NewEntry(th[w]) = th[w].v
<1> DEFINE t == th[w]
           e == NewEntry(t)
           r == [t EXCEPT !.pc = "load", !.v = t.c, !.i = incrementIndex(@)]
<1>1. /\ phase = "insert" /\ t.pc = "cas"
      /\ \/ TA[t.i] # t.c /\ Quiet(w, [t EXCEPT !.pc = "load"])
         \/ /\ TA[t.i] = t.c /\ t.c.key \in {0, t.v.key}
            /\ Puts(w, Idle, t.i, e)
         \/ /\ TA[t.i] = t.c /\ t.c.key \notin {0, t.v.key} /\ e = t.v
            /\ Puts(w, r, t.i, e)
  BY CasStep
<1>2. /\ t \in Call /\ t # Idle /\ t.v \in Entry /\ t.c \in Entry /\ t.v # empty
      /\ t.v.key \in Keys /\ t.i \in Index /\ Inserting(t)
  BY <1>1, InCall DEF InsertInv
<1>3. e.key = t.v.key /\ e # empty
  <2>1. t.c.key = t.v.key => Merged(t.c, t.v).key = t.v.key
    <3> SUFFICES ASSUME t.c.key = t.v.key PROVE Merged(t.c, t.v).key = t.v.key
      OBVIOUS
    <3>1. t.c = [key |-> t.c.key, val |-> t.c.val]
      BY <1>2, Entries0
    <3>2. [t.c EXCEPT !.val = @ + t.v.val].key = t.c.key
      BY <3>1
    <3> QED
      BY <3>2 DEF Merged
  <2>2. e.key = t.v.key
    BY <2>1 DEF NewEntry
  <2> QED
    BY <1>2, <2>2, Entries0
<1>4. Passed(e, t.i)
  BY <1>2, <1>3 DEF Inserting, Passed, firstIndex
<1>5. t.c = empty \/ t.c.key <= t.v.key
  <2>1. t.c.key \in Nat /\ t.v.key \in Nat
    BY <1>2, Entries0
  <2> QED
    BY <1>1, <1>2, <2>1 DEF Inserting
<1> HIDE DEF e, t
<1>6. CASE TA[t.i] = t.c /\ t.c.key \in {0, t.v.key} /\ Puts(w, Idle, t.i, e)
  <2>1. Bumps(w, Idle, t.i, e)
    BY <1>3, <1>4, <1>5, <1>6 DEF Bumps
  <2> QED
    BY <1>3, <1>6, <2>1 DEF t, e
<1>7. CASE TA[t.i] = t.c /\ t.c.key \notin {0, t.v.key} /\ e = t.v /\ Puts(w, r, t.i, e)
  <2>1. t.c # empty /\ t.c.key < t.v.key
    <3>1. t.c.key \in Nat /\ t.v.key \in Nat /\ empty.key = 0
      BY <1>2, Entries0
    <3> QED
      BY <1>5, <1>7, <3>1
  <2>2. r.pc = "load" /\ r.v = t.c /\ r.i = incrementIndex(t.i)
    BY <1>2 DEF Call
  <2> HIDE DEF r
  <2>3. Bumps(w, r, t.i, e)
    BY <1>3, <1>4, <1>5, <1>7, <2>1, <2>2 DEF Bumps
  <2> QED
    BY <1>3, <1>7, <2>3 DEF t, e
<1> QED
  BY <1>1, <1>6, <1>7 DEF t, e

---------------------------------------------------------------------------
(* Where a key may be.                                                     *)

Holders(k) == {w \in Threads : th[w].op \in {"insert", "update"} /\ th[w].v.key = k}

LEMMA Present ==
  ASSUME TypeOK, NEW k \in Keys
  PROVE  k \in {e.key : e \in Entries \cup Carried} <=> Copies(k) # {} \/ Holders(k) # {}
<1>1. ASSUME k \in {e.key : e \in Entries \cup Carried} PROVE Copies(k) # {} \/ Holders(k) # {}
  BY <1>1 DEF Entries, Carried, Copies, Holders
<1>2. ASSUME NEW i \in Index, TA[i].key = k PROVE k \in {e.key : e \in Entries \cup Carried}
  <2>1. TA[i] # empty
    BY <1>2, Sizes, Entries0
  <2> QED
    BY <1>2, <2>1 DEF Entries
<1>3. ASSUME NEW w \in Threads, th[w].op \in {"insert", "update"}, th[w].v.key = k
      PROVE  k \in {e.key : e \in Entries \cup Carried}
  BY <1>3 DEF Carried
<1> QED
  BY <1>1, <1>2, <1>3 DEF Copies, Holders

Kept == \A k \in Keys : expected[k] # 0 => Copies(k) # {} \/ Holders(k) # {}

LEMMA KeptIsNoneLost == TypeOK => (NoneLost <=> Kept)
  BY Present DEF NoneLost, Kept

LEMMA KeptNext == (TypeOK => (NoneLost <=> Kept))'
  BY KeptIsNoneLost, PTL

LEMMA CountsFinite ==
  ASSUME NEW k
  PROVE  /\ IsFiniteSet(Copies(k)) /\ Cardinality(Copies(k)) \in Nat
         /\ IsFiniteSet(Deleters(k)) /\ Cardinality(Deleters(k)) \in Nat
         /\ Cardinality(Copies(k)) > 0 => Copies(k) # {}
         /\ Copies(k) # {} => Cardinality(Copies(k)) > 0
         /\ Deleters(k) = {} => Cardinality(Deleters(k)) = 0
<1>1. IsFiniteSet(Index)
  BY Sizes, FS_Interval DEF Index
<1>2. IsFiniteSet(Copies(k)) /\ IsFiniteSet(Deleters(k))
  BY <1>1, Sizes, FS_Subset DEF Copies, Deleters
<1> QED
  BY <1>2, FS_CardinalityType, FS_EmptySet

\* A step that changes no cell and no key in a caller's hand but its own.
LEMMA QuietKept ==
  ASSUME TypeOK, InPhase, NoneLost, NEW w \in Threads, NEW u, Quiet(w, u),
         \/ u.op = th[w].op /\ u.v = th[w].v
         \/ th[w].op \notin {"insert", "update"}
         \/ Copies(th[w].v.key) # {}
  PROVE  NoneLost'
<1>1. /\ UNCHANGED <<TA, expected>> /\ TypeOK'
      /\ th'[w] = u /\ \A y \in Threads \ {w} : th'[y] = th[y]
  BY QuietTypes DEF Quiet
<1>2. ASSUME NEW k \in Keys, expected'[k] # 0 PROVE Copies(k)' # {} \/ Holders(k)' # {}
  <2>1. Copies(k) # {} \/ Holders(k) # {}
    BY <1>1, <1>2, KeptIsNoneLost DEF Kept
  <2>2. Copies(k)' = Copies(k)
    BY <1>1 DEF Copies
  <2>3. CASE \E y \in Holders(k) : y # w
    BY <1>1, <2>3 DEF Holders
  <2>4. CASE Holders(k) = {w} /\ Copies(k) = {}
    BY <1>1, <2>4 DEF Holders
  <2> QED
    BY <2>1, <2>2, <2>3, <2>4
<1> QED
  BY <1>1, <1>2, KeptIsNoneLost, KeptNext DEF Kept

LEMMA BumpsKept ==
  ASSUME TypeOK, InPhase, NoneLost, NEW w \in Threads, NEW u, NEW i, NEW e,
         phase = "insert", Bumps(w, u, i, e), th[w].v.key = e.key
  PROVE  NoneLost'
<1>1. /\ i \in Index /\ TA'[i] = e /\ \A b \in Index \ {i} : TA'[b] = TA[b]
      /\ th'[w] = u /\ \A y \in Threads \ {w} : th'[y] = th[y]
      /\ UNCHANGED <<expected, hashStruct, phase>> /\ TypeOK' /\ InPhase' /\ u \in Call
      /\ TA[i] \in Entry
  BY BumpsTypes DEF TypeOK
<1>2. ASSUME NEW k \in Keys, expected'[k] # 0 PROVE Copies(k)' # {} \/ Holders(k)' # {}
  <2>1. Copies(k) # {} \/ Holders(k) # {}
    BY <1>1, <1>2, KeptIsNoneLost DEF Kept
  <2>2. CASE k = e.key
    BY <1>1, <2>2 DEF Copies
  <2>3. CASE \E b \in Copies(k) : b # i
    BY <1>1, <2>3 DEF Copies
  <2>4. CASE k # e.key /\ \E y \in Holders(k) : TRUE
    BY <1>1, <2>4 DEF Holders
  <2>5. CASE k # e.key /\ TA[i].key = k
    <3>0. TA[i].key \notin {0, e.key}
      BY <2>5, Sizes
    <3>1. u # Idle /\ u.v = TA[i]
      BY <3>0, IdleCall DEF Bumps
    <3>2. Fits(th[w])'
      BY <1>1, <3>1 DEF InPhase, Idle, empty
    <3>3. u.op \in {"insert", "update"}
      BY <1>1, <3>2 DEF Fits
    <3> QED
      BY <1>1, <2>5, <3>1, <3>3 DEF Holders
  <2> QED
    BY <2>1, <2>2, <2>3, <2>4, <2>5 DEF Copies
<1> QED
  BY <1>1, <1>2, KeptIsNoneLost, KeptNext DEF Kept

LEMMA StartKept ==
  ASSUME TypeOK, InPhase, NoneLost, NEW w \in Threads, Start(w)
  PROVE  NoneLost'
<1>1. TypeOK' /\ InPhase'
  BY StartTypes
<1>2. th[w] = Idle /\ TA' = TA
  BY DEF Start, StartInsert, StartDelete, StartFind
<1>3. \A y \in Threads \ {w} : th'[y] = th[y]
  BY DEF Start, StartInsert, StartDelete, StartFind, Go, TypeOK
<1>4. \A k \in Keys : Copies(k)' = Copies(k) /\ Holders(k) \subseteq Holders(k)'
  BY <1>2, <1>3, IdleCall DEF Copies, Holders
<1>5. ASSUME NEW k \in Keys, expected'[k] # 0 PROVE expected[k] # 0 \/ Holders(k)' # {}
  <2>1. ASSUME NEW q \in Keys, NEW x \in Vals, NEW op \in {"insert", "update"},
               StartInsert(w, op, [key |-> q, val |-> x]), k = q
        PROVE  Holders(k)' # {}
    <3> DEFINE v == [key |-> q, val |-> x]
               u == [Idle EXCEPT !.pc = "load", !.op = op, !.v = v, !.i = firstIndex(v)]
    <3>1. th'[w] = u
      BY <2>1 DEF StartInsert, Go, TypeOK
    <3>2. u.op = op /\ u.v = v /\ v.key = k
      BY <2>1 DEF Idle
    <3> QED
      BY <3>1, <3>2 DEF Holders
  <2>2. ASSUME NEW q \in Keys, NEW x \in Vals, NEW op \in {"insert", "update"},
               StartInsert(w, op, [key |-> q, val |-> x]), k # q
        PROVE  expected[k] # 0
    BY <1>5, <2>2 DEF StartInsert, TypeOK
  <2>3. ASSUME NEW q \in Keys, StartDelete(w, q) PROVE expected[k] # 0
    BY <1>5, <2>3 DEF StartDelete, TypeOK
  <2>4. ASSUME NEW q \in Keys, StartFind(w, q) PROVE expected[k] # 0
    BY <1>5, <2>4 DEF StartFind
  <2> QED
    BY <2>1, <2>2, <2>3, <2>4 DEF Start
<1> QED
  BY <1>1, <1>4, <1>5, KeptIsNoneLost, KeptNext DEF Kept

---------------------------------------------------------------------------
(* Deletes: an entry that is moved down gives its key one copy more, and   *)
(* one call more that is going to delete a copy.                           *)

Outnumbered(k) == expected[k] # 0 => Cardinality(Copies(k)) > Cardinality(Deleters(k))
Found(t) == t.pc \in {"up", "back"} => t.c.key = t.v.key

LEMMA DeleteParts ==
  DeleteInv <=> (phase = "delete" => /\ \A k \in Keys : Outnumbered(k)
                                     /\ \A w \in Threads : Found(th[w]))
  BY DEF DeleteInv, Outnumbered, Found

LEMMA DeletePartsNext ==
  (DeleteInv <=> (phase = "delete" => /\ \A k \in Keys : Outnumbered(k)
                                      /\ \A w \in Threads : Found(th[w])))'
  BY DeleteParts, PTL

LEMMA FewerDeleters ==
  ASSUME NEW k, Copies(k)' = Copies(k), Deleters(k)' \subseteq Deleters(k),
         expected'[k] = expected[k], Outnumbered(k)
  PROVE  Outnumbered(k)'
<1>1. Cardinality(Deleters(k)') <= Cardinality(Deleters(k))
  BY CountsFinite, FS_Subset
<1>2. /\ IsFiniteSet(Deleters(k)') /\ Cardinality(Deleters(k)') \in Nat
      /\ Cardinality(Deleters(k)) \in Nat /\ Cardinality(Copies(k)) \in Nat
  BY CountsFinite, FS_Subset, FS_CardinalityType
<1> QED
  BY <1>1, <1>2 DEF Outnumbered

LEMMA OneLess ==
  ASSUME NEW k, NEW w \in Deleters(k), NEW j \in Copies(k),
         Copies(k)' = Copies(k) \ {j}, Deleters(k)' = Deleters(k) \ {w},
         expected'[k] = expected[k], Outnumbered(k)
  PROVE  Outnumbered(k)'
<1>1. /\ Cardinality(Copies(k)') = Cardinality(Copies(k)) - 1
      /\ Cardinality(Deleters(k)') = Cardinality(Deleters(k)) - 1
  BY CountsFinite, FS_RemoveElement
<1>2. Cardinality(Deleters(k)) \in Nat /\ Cardinality(Copies(k)) \in Nat
  BY CountsFinite
<1> QED
  BY <1>1, <1>2 DEF Outnumbered

LEMMA OneMore ==
  ASSUME NEW k, NEW w, w \notin Deleters(k), NEW j, j \notin Copies(k),
         Copies(k)' = Copies(k) \cup {j}, Deleters(k)' = Deleters(k) \cup {w},
         expected'[k] = expected[k], Outnumbered(k)
  PROVE  Outnumbered(k)'
<1>1. /\ Cardinality(Copies(k)') = Cardinality(Copies(k)) + 1
      /\ Cardinality(Deleters(k)') = Cardinality(Deleters(k)) + 1
  BY CountsFinite, FS_AddElement
<1>2. Cardinality(Deleters(k)) \in Nat /\ Cardinality(Copies(k)) \in Nat
  BY CountsFinite
<1> QED
  BY <1>1, <1>2 DEF Outnumbered

\* A step that changes no cell and does not go to delete another key.
LEMMA QuietDelete ==
  ASSUME TypeOK, InPhase, DeleteInv, NEW w \in Threads, NEW u, Quiet(w, u),
         phase = "delete" => /\ u.op = "delete" => th[w].op = "delete" /\ u.v = th[w].v
                             /\ Found(u)
  PROVE  DeleteInv'
<1>1. /\ UNCHANGED <<TA, expected, phase>>
      /\ th'[w] = u /\ \A y \in Threads \ {w} : th'[y] = th[y]
  BY QuietTypes DEF Quiet
<1>2. ASSUME phase = "delete", NEW k \in Keys PROVE Outnumbered(k)'
  <2>1. Copies(k)' = Copies(k)
    BY <1>1 DEF Copies
  <2>2. Deleters(k)' \subseteq Deleters(k)
    BY <1>1, <1>2 DEF Deleters
  <2>3. Outnumbered(k)
    BY <1>2, DeleteParts
  <2> QED
    BY <1>1, <2>1, <2>2, <2>3, FewerDeleters
<1>3. ASSUME phase = "delete", NEW y \in Threads PROVE Found(th[y])'
  <2>1. Found(th'[y])
    BY <1>1, <1>3, DeleteParts
  <2> QED
    BY <2>1 DEF Found
<1> QED
  BY <1>1, <1>2, <1>3, DeletePartsNext

LEMMA SwapDelete ==
  ASSUME TypeOK, InPhase, DeleteInv, NEW w \in Threads, deleteSwap(w)
  PROVE  DeleteInv'
<1> DEFINE t == th[w]
           a == t.v.key
           b == t.x.key
<1>1. /\ phase = "delete" /\ t.pc = "back"
      /\ \/ Quiet(w, [t EXCEPT !.pc = "reload"])
         \/ /\ TA[t.j] = t.c /\ t.x = empty
            /\ Puts(w, Idle, t.j, empty)
         \/ /\ TA[t.j] = t.c /\ t.x # empty
            /\ \E u \in Call : /\ u.pc = "reload" /\ u.op = "delete" /\ u.v = t.x
                               /\ Puts(w, u, t.j, t.x)
  BY SwapStep
<1>2. /\ t \in Call /\ t.op = "delete" /\ a \in Keys /\ t.c.key = a /\ t.j \in Index
      /\ t.x \in Entry
  BY <1>1, InCall, DeleteParts DEF Fits, Found
<1>3. CASE Quiet(w, [t EXCEPT !.pc = "reload"])
  <2> DEFINE u == [t EXCEPT !.pc = "reload"]
  <2>1. u.op = t.op /\ u.v = t.v /\ u.pc = "reload"
    BY <1>2 DEF Call
  <2> HIDE DEF u
  <2> QED
    BY <1>2, <1>3, <2>1, QuietDelete DEF Found, u
<1>4. ASSUME NEW u, Puts(w, u, t.j, t.x), TA[t.j] = t.c, u.pc \notin {"up", "back"},
             IF t.x = empty THEN u.op = "none" ELSE u.op = "delete" /\ u.v = t.x
      PROVE  DeleteInv'
  <2>1. /\ UNCHANGED <<expected, phase>>
        /\ th'[w] = u /\ \A y \in Threads \ {w} : th'[y] = th[y]
        /\ TA'[t.j] = t.x /\ \A i \in Index \ {t.j} : TA'[i] = TA[i]
    <3> HIDE DEF t
    <3>1. UNCHANGED <<expected, phase>>
      BY <1>4 DEF Puts
    <3> QED
      BY <1>4, <3>1, PutsTypes
  <2>2. t.j \in Copies(a) /\ w \in Deleters(a)
    BY <1>2, <1>4 DEF Copies, Deleters
  <2>3. \A k \in Keys : k # a => t.j \notin Copies(k) /\ w \notin Deleters(k)
    BY <1>2, <1>4 DEF Copies, Deleters
  <2>4. b \in Nat /\ (t.x = empty <=> b \notin Keys)
    BY <1>2, Entries0
  <2>5. ASSUME NEW k \in Keys PROVE Outnumbered(k)'
    <3>1. Outnumbered(k) /\ expected'[k] = expected[k]
      BY <1>1, <2>1, DeleteParts
    <3>2. CASE k # a /\ k # b
      <4>1. Copies(k)' = Copies(k) /\ Deleters(k)' = Deleters(k)
        <5>1. Copies(k)' = Copies(k)
          BY <1>2, <2>1, <2>3, <3>2 DEF Copies
        <5>2. w \notin Deleters(k)'
          BY <1>4, <2>1, <3>2 DEF Deleters
        <5>3. \A y \in Threads \ {w} : y \in Deleters(k)' <=> y \in Deleters(k)
          BY <2>1 DEF Deleters
        <5> QED
          BY <2>3, <3>2, <5>1, <5>2, <5>3 DEF Deleters
      <4> QED
        BY <3>1, <4>1, FewerDeleters
    <3>3. CASE k = a /\ k # b
      <4>1. Copies(k)' = Copies(k) \ {t.j}
        BY <1>2, <2>1, <2>2, <3>3 DEF Copies
      <4>2. Deleters(k)' = Deleters(k) \ {w}
        <5>1. w \notin Deleters(k)'
          BY <1>4, <2>1, <3>3 DEF Deleters
        <5> QED
          BY <2>1, <5>1 DEF Deleters
      <4> QED
        BY <2>2, <3>1, <3>3, <4>1, <4>2, OneLess
    <3>4. CASE k # a /\ k = b
      <4>1. Copies(k)' = Copies(k) \cup {t.j}
        BY <1>2, <2>1, <3>4 DEF Copies
      <4>2. u.op = "delete" /\ u.v = t.x
        BY <1>4, <2>4, <3>4
      <4>3. Deleters(k)' = Deleters(k) \cup {w}
        BY <2>1, <3>4, <4>2 DEF Deleters
      <4> QED
        BY <2>3, <3>1, <3>4, <4>1, <4>3, OneMore
    <3>5. CASE k = a /\ k = b
      <4>1. Copies(k)' = Copies(k)
        BY <1>2, <2>1, <2>2, <3>5 DEF Copies
      <4>2. Deleters(k)' \subseteq Deleters(k)
        BY <2>1, <2>2, <3>5 DEF Deleters
      <4> QED
        BY <3>1, <4>1, <4>2, FewerDeleters
    <3> QED
      BY <3>2, <3>3, <3>4, <3>5
  <2>6. ASSUME NEW y \in Threads PROVE Found(th[y])'
    <3>1. Found(th'[y])
      BY <1>1, <1>4, <2>1, DeleteParts DEF Found
    <3> QED
      BY <3>1 DEF Found
  <2> QED
    BY <2>5, <2>6, DeletePartsNext
<1>5. ASSUME Puts(w, Idle, t.j, empty), TA[t.j] = t.c, t.x = empty PROVE DeleteInv'
  <2>1. Puts(w, Idle, t.j, t.x) /\ Idle.op = "none" /\ Idle.pc = "idle"
    BY <1>5, IdleCall
  <2> HIDE DEF t
  <2> QED
    BY <1>4, <1>5, <2>1
<1>6. ASSUME TA[t.j] = t.c, t.x # empty, NEW u \in Call, u.pc = "reload", u.op = "delete",
             u.v = t.x, Puts(w, u, t.j, t.x)
      PROVE  DeleteInv'
  BY <1>4, <1>6
<1> QED
  BY <1>1, <1>3, <1>5, <1>6

\* No key is missing while it has more copies than it has deleters.
LEMMA CopiesKept == ASSUME TypeOK', DeleteInv', phase' = "delete" PROVE NoneLost'
<1>1. ASSUME NEW k \in Keys, expected'[k] # 0 PROVE Copies(k)' # {}
  <2>1. (Cardinality(Copies(k)) > Cardinality(Deleters(k)))'
    BY <1>1 DEF DeleteInv
  <2>2. (/\ Cardinality(Copies(k)) \in Nat /\ Cardinality(Deleters(k)) \in Nat
         /\ Cardinality(Copies(k)) > 0 => Copies(k) # {})'
    BY CountsFinite, PTL
  <2> QED
    BY <2>1, <2>2
<1> QED
  BY <1>1, KeptNext DEF Kept

---------------------------------------------------------------------------
(* Starts, the change of phase, and the invariant.                         *)

LEMMA StartInsertInv ==
  ASSUME TypeOK, InPhase, InsertInv, DeleteInv, NEW w \in Threads,
         NEW k \in Keys, NEW x \in Vals, NEW op \in {"insert", "update"},
         StartInsert(w, op, [key |-> k, val |-> x])
  PROVE  InsertInv' /\ DeleteInv'
<1> DEFINE v == [key |-> k, val |-> x]
           u == [Idle EXCEPT !.pc = "load", !.op = op, !.v = v, !.i = firstIndex(v)]
<1>1. /\ phase = "insert" /\ UNCHANGED <<TA, hashStruct, phase>>
      /\ th'[w] = u /\ \A y \in Threads \ {w} : th'[y] = th[y]
  BY DEF StartInsert, Go, TypeOK
<1>2. u.pc = "load" /\ u.v = v /\ u.i = firstIndex(v) /\ v.key = k
  BY DEF Idle
<1>3. firstIndex(v) \in Index
  BY DEF firstIndex, TypeOK
<1> HIDE DEF u, v
<1>4. Inserting(u)
  BY <1>2, <1>3, NothingPassed DEF Inserting, Passed
<1>5. \A i \in Index : TA'[i] # empty => Passed(TA[i], i)'
  BY <1>1 DEF InsertInv, Passed, firstIndex
<1>6. ASSUME NEW y \in Threads, th'[y] # Idle PROVE Inserting(th[y])'
  <2>1. Inserting(th'[y])
    BY <1>1, <1>4, <1>6 DEF InsertInv
  <2> QED
    BY <1>1, <2>1 DEF Inserting, Passed, firstIndex, replaceQ
<1> QED
  BY <1>1, <1>5, <1>6 DEF InsertInv, DeleteInv, Idle, empty

LEMMA StartDeleteInv ==
  ASSUME TypeOK, InPhase, InsertInv, DeleteInv, NEW w \in Threads,
         NEW k \in Keys, StartDelete(w, k)
  PROVE  InsertInv' /\ DeleteInv'
<1> DEFINE v == [empty EXCEPT !.key = k]
           u == [Idle EXCEPT !.pc = "seek", !.op = "delete", !.v = v,
                             !.i = firstIndex(v), !.j = firstIndex(v)]
<1>1. /\ phase = "delete" /\ phase' = phase /\ TA' = TA
      /\ expected' = [expected EXCEPT ![k] = 0] /\ th[w] = Idle
      /\ th'[w] = u /\ \A y \in Threads \ {w} : th'[y] = th[y]
  BY DEF StartDelete, Go, TypeOK
<1>2. u.pc = "seek" /\ u.v = v /\ v.key = k
  BY DEF Idle, empty
<1> HIDE DEF u, v
<1>3. ASSUME NEW q \in Keys PROVE Outnumbered(q)'
  <2>1. CASE q = k
    BY <1>1, <2>1 DEF Outnumbered, TypeOK
  <2>2. CASE q # k
    <3>1. Copies(q)' = Copies(q) /\ Deleters(q)' \subseteq Deleters(q)
      BY <1>1, <1>2, <2>2 DEF Copies, Deleters
    <3>2. expected'[q] = expected[q]
      BY <1>1, <2>2 DEF TypeOK
    <3> QED
      BY <1>1, <3>1, <3>2, DeleteParts, FewerDeleters
  <2> QED
    BY <2>1, <2>2
<1>4. ASSUME NEW y \in Threads PROVE Found(th[y])'
  <2>1. Found(th'[y])
    BY <1>1, <1>2, DeleteParts DEF Found
  <2> QED
    BY <2>1 DEF Found
<1> QED
  BY <1>1, <1>3, <1>4, DeletePartsNext DEF InsertInv

LEMMA PhaseInv ==
  ASSUME TypeOK, InPhase, NoneLost, NextPhase
  PROVE  InsertInv' /\ DeleteInv' /\ NoneLost'
<1>1. /\ TypeOK' /\ phase' # "insert"
      /\ \A w \in Threads : th[w] = Idle /\ th'[w] = Idle
      /\ UNCHANGED <<TA, expected, th>>
  BY PhaseTypes DEF NextPhase
<1>2. \A k \in Keys : /\ Copies(k)' = Copies(k) /\ Holders(k)' = Holders(k)
                      /\ Holders(k) = {} /\ Deleters(k)' = {}
  BY <1>1, IdleCall DEF Copies, Holders, Deleters
<1>3. NoneLost'
  BY <1>1, <1>2, KeptIsNoneLost, KeptNext DEF Kept
<1>4. ASSUME NEW k \in Keys PROVE Outnumbered(k)'
  <2>1. expected'[k] # 0 => Copies(k)' # {}
    BY <1>1, <1>2, KeptIsNoneLost DEF Kept
  <2>2. (/\ Cardinality(Copies(k)) \in Nat
         /\ Copies(k) # {} => Cardinality(Copies(k)) > 0
         /\ Deleters(k) = {} => Cardinality(Deleters(k)) = 0)'
    BY CountsFinite, PTL
  <2> QED
    BY <1>2, <2>1, <2>2 DEF Outnumbered
<1>5. ASSUME NEW w \in Threads PROVE Found(th[w])'
  BY <1>1, IdleCall DEF Found
<1> QED
  BY <1>1, <1>3, <1>4, <1>5, DeletePartsNext DEF InsertInv

LEMMA InitInv == Init => IInv
<1> SUFFICES ASSUME Init PROVE IInv
  OBVIOUS
<1>1. TypeOK
  <2>1. hashStruct \in [hash : [Keys -> Index], kind : {"numeric", "max", "add"}]
    BY TableAssumption DEF Init, Index
  <2> QED
    BY <2>1, Entries0, IdleCall, Sizes DEF Init, TypeOK
<1>2. InPhase /\ InsertInv /\ DeleteInv
  BY IdleCall DEF Init, InPhase, InsertInv, DeleteInv
<1>3. NoneLost
  BY DEF Init, NoneLost
<1> QED
  BY <1>1, <1>2, <1>3 DEF IInv

LEMMA StartInv == ASSUME IInv, NEW w \in Threads, Start(w) PROVE IInv'
<1> USE DEF IInv
<1>1. TypeOK' /\ InPhase' /\ NoneLost'
  BY StartTypes, StartKept
<1>2. ASSUME NEW k \in Keys, StartFind(w, k) PROVE InsertInv' /\ DeleteInv'
  BY <1>2 DEF StartFind, InsertInv, DeleteInv
<1> QED
  BY <1>1, <1>2, StartInsertInv, StartDeleteInv DEF Start

LEMMA LoadInv == ASSUME IInv, NEW w \in Threads, insertLoad(w) PROVE IInv'
<1> USE DEF IInv
<1> DEFINE t == th[w]
           c == TA[t.i]
           u == [t EXCEPT !.i = incrementIndex(@)]
           r == [t EXCEPT !.pc = "cas", !.c = c]
<1>1. /\ phase = "insert" /\ t.pc = "load"
      /\ \/ c # empty /\ t.v.key < c.key /\ Quiet(w, u)
         \/ c # empty /\ t.v.key = c.key /\ Quiet(w, Idle)
         \/ /\ c = empty \/ t.v.key > c.key \/ (t.v.key = c.key /\ replaceQ(t.v, c))
            /\ Quiet(w, r)
  BY LoadStep
<1>2. /\ t \in Call /\ t.i \in Index /\ t.v.key \in Nat /\ c.key \in Nat
      /\ firstIndex(t.v) \in Index /\ Inserting(t)
  BY <1>1, InCall, Entries0 DEF InsertInv
<1>3. CASE c # empty /\ t.v.key < c.key /\ Quiet(w, u)
  <2>1. u.op = t.op /\ u.v = t.v /\ u.i = incrementIndex(t.i) /\ u.pc = "load"
    BY <1>1, <1>2 DEF Call
  <2>2. \A b \in Between(firstIndex(t.v), incrementIndex(t.i)) : TA[b].key > t.v.key
    BY <1>2, <1>3, PassedOn DEF Inserting, Passed
  <2> HIDE DEF u
  <2>3. Inserting(u)
    BY <2>1, <2>2 DEF Inserting, Passed
  <2> QED
    BY <1>1, <1>3, <2>1, <2>3, QuietTypes, QuietInsert, QuietDelete, QuietKept
<1>4. CASE c # empty /\ t.v.key = c.key /\ Quiet(w, Idle)
  <2>1. Copies(t.v.key) # {}
    BY <1>2, <1>4 DEF Copies
  <2> QED
    BY <1>1, <1>4, <2>1, QuietTypes, QuietInsert, QuietDelete, QuietKept
<1>5. CASE /\ c = empty \/ t.v.key > c.key \/ (t.v.key = c.key /\ replaceQ(t.v, c))
           /\ Quiet(w, r)
  <2>1. r.op = t.op /\ r.v = t.v /\ r.i = t.i /\ r.pc = "cas" /\ r.c = c
    BY <1>2 DEF Call
  <2> HIDE DEF r
  <2>2. Inserting(r)
    BY <1>2, <1>5, <2>1 DEF Inserting, Passed
  <2> QED
    BY <1>1, <1>5, <2>1, <2>2, QuietTypes, QuietInsert, QuietDelete, QuietKept
<1> QED
  BY <1>1, <1>3, <1>4, <1>5

LEMMA CasInv == ASSUME IInv, NEW w \in Threads, insertCas(w) PROVE IInv'
<1> USE DEF IInv
<1> DEFINE t == th[w]
           e == NewEntry(t)
           u == [t EXCEPT !.pc = "load"]
<1>1. /\ phase = "insert" /\ t.pc = "cas"
      /\ \/ Quiet(w, u)
         \/ e.key = t.v.key /\ \E r : Bumps(w, r, t.i, e)
  BY CasStep, CasBumps
<1>2. t \in Call /\ Inserting(t)
  BY <1>1, InCall DEF InsertInv
<1>3. CASE Quiet(w, u)
  <2>1. u.op = t.op /\ u.v = t.v /\ u.i = t.i /\ u.pc = "load"
    BY <1>2 DEF Call
  <2> HIDE DEF u
  <2>2. Inserting(u)
    BY <1>2, <2>1 DEF Inserting, Passed
  <2> QED
    BY <1>1, <1>3, <2>1, <2>2, QuietTypes, QuietInsert, QuietDelete, QuietKept
<1>4. ASSUME NEW r, e.key = t.v.key, Bumps(w, r, t.i, e) PROVE IInv'
  <2>1. TypeOK' /\ InPhase' /\ phase' = phase
    BY <1>4, BumpsTypes
  <2>2. InsertInv' /\ NoneLost'
    BY <1>1, <1>4, BumpsInsert, BumpsKept
  <2>3. DeleteInv'
    BY <1>1, <2>1, DeletePartsNext
  <2> QED
    BY <2>1, <2>2, <2>3
<1> QED
  BY <1>1, <1>3, <1>4

LEMMA DeleteStepInv ==
  ASSUME IInv, NEW w \in Threads, LookDelete(w) \/ deleteSwap(w) PROVE IInv'
<1> USE DEF IInv
<1>1. phase = "delete" /\ TypeOK' /\ InPhase' /\ phase' = phase
  BY LookStep, SwapStep, StepTypes, QuietTypes DEF LookDelete, Step, Quiet, Puts
<1>2. DeleteInv'
  <2>1. CASE LookDelete(w)
    <3>1. PICK u : /\ Quiet(w, u)
                   /\ u = Idle \/ (u.op = "delete" /\ u.v = th[w].v)
                   /\ \/ u.pc \notin {"up", "back"}
                      \/ u.c = th[w].c /\ u.c.key = u.v.key
                      \/ u.c = th[w].c /\ th[w].pc \in {"up", "back"}
      BY <2>1, LookStep
    <3>2. th[w].op = "delete"
      <4>1. th[w].pc # "idle"
        BY <2>1 DEF LookDelete, deleteSeek, deleteDown, deleteFound, deleteUp, deleteBack,
                    deleteReload
      <4> QED
        BY <1>1, <4>1, InCall DEF Fits
    <3>3. Found(u)
      BY <1>1, <3>1, IdleCall, DeleteParts DEF Found
    <3> QED
      BY <3>1, <3>2, <3>3, IdleCall, QuietDelete
  <2>2. CASE deleteSwap(w)
    BY <2>2, SwapDelete
  <2> QED
    BY <2>1, <2>2
<1>3. NoneLost'
  BY <1>1, <1>2, CopiesKept
<1>4. InsertInv'
  BY <1>1 DEF InsertInv
<1> QED
  BY <1>1, <1>2, <1>3, <1>4

LEMMA FindStepInv ==
  ASSUME IInv, NEW w \in Threads, findProbe(w) \/ findReturn(w) PROVE IInv'
<1> USE DEF IInv
<1>1. TypeOK' /\ InPhase' /\ phase = "find" /\ UNCHANGED phase
  BY FindStep, StepTypes DEF Step, findProbe, findReturn, Same
<1>2. InsertInv' /\ DeleteInv'
  BY <1>1 DEF InsertInv, DeleteInv
<1>3. th[w].op \notin {"insert", "update"}
  BY <1>1, InCall DEF Fits, findProbe, findReturn
<1>4. NoneLost'
  BY <1>3, FindStep, QuietKept
<1> QED
  BY <1>1, <1>2, <1>4

LEMMA StepInv == ASSUME IInv, Next PROVE IInv'
<1>1. CASE NextPhase
  BY <1>1, PhaseTypes, PhaseInv DEF IInv
<1>2. ASSUME NEW w \in Threads, Start(w) \/ Step(w) PROVE IInv'
  BY <1>2, StartInv, LoadInv, CasInv, DeleteStepInv, FindStepInv DEF Step, LookDelete
<1> QED
  BY <1>1, <1>2 DEF Next

LEMMA StutterInv == ASSUME IInv, UNCHANGED vars PROVE IInv'
<1> USE DEF IInv, vars
<1>1. TypeOK'
  BY DEF TypeOK
<1>2. \A w \in Threads : th'[w] # Idle => Fits(th[w])'
  BY DEF InPhase, Fits
<1>3. InPhase'
  BY <1>2 DEF InPhase, Idle, empty
<1>4. phase = "insert" =>
        /\ \A i \in Index : TA'[i] # empty => Passed(TA[i], i)'
        /\ \A w \in Threads : th'[w] # Idle => Inserting(th[w])'
  BY DEF InsertInv, Inserting, Passed, firstIndex, replaceQ
<1>5. InsertInv'
  BY <1>4 DEF InsertInv, Idle, empty, Index
<1>6. DeleteInv'
  BY DEF DeleteInv, Copies, Deleters
<1>7. NoneLost'
  BY DEF NoneLost, Entries, Carried
<1> QED
  BY <1>1, <1>3, <1>5, <1>6, <1>7

\* Calls of each phase keep to what the others rely on.
THEOREM Invariance == Spec => []IInv
<1>1. Init => IInv
  BY InitInv
<1>2. IInv /\ [Next]_vars => IInv'
  BY StepInv, StutterInv
<1> QED
  BY <1>1, <1>2, PTL DEF Spec

\* A key that was put in and not deleted is in the table at every moment, or in
\* the hand of the insert that displaced it: through displacements, lost
\* compare-and-swaps and the double copies of deletes, for any number of threads.
THEOREM NoKeyLost == Spec => []NoneLost
<1>1. IInv => NoneLost
  BY DEF IInv
<1> QED
  BY <1>1, Invariance, PTL

---------------------------------------------------------------------------
(* Sums over all threads, for keys whose values add up.                    *)

\* g[S] is the sum of f over S.
Sums(g, f) ==
  /\ g \in [SUBSET Threads -> Int] /\ g[{}] = 0
  /\ \A S \in SUBSET Threads : \A y \in S : g[S] = g[S \ {y}] + f[y]

With(f, w, x) == [f EXCEPT ![w] = x]

LEMMA SumChange ==
  ASSUME NEW f \in [Threads -> Int], NEW g, Sums(g, f), NEW w \in Threads, NEW x \in Int
  PROVE  \E h : Sums(h, With(f, w, x)) /\ h[Threads] = g[Threads] - f[w] + x
<1> DEFINE d == [f EXCEPT ![w] = x]
           h == [S \in SUBSET Threads |-> IF w \in S THEN g[S] - f[w] + x ELSE g[S]]
<1>1. g \in [SUBSET Threads -> Int] /\ d \in [Threads -> Int]
  BY DEF Sums
<1>2. /\ h \in [SUBSET Threads -> Int] /\ h[{}] = 0
      /\ h[Threads] = g[Threads] - f[w] + x
  BY <1>1 DEF Sums
<1>3. ASSUME NEW S \in SUBSET Threads, NEW y \in S PROVE h[S] = h[S \ {y}] + d[y]
  <2>1. /\ g[S] = g[S \ {y}] + f[y] /\ S \ {y} \in SUBSET Threads
        /\ g[S] \in Int /\ g[S \ {y}] \in Int /\ f[y] \in Int /\ f[w] \in Int
    BY <1>1 DEF Sums
  <2>2. CASE y = w
    BY <2>1, <2>2
  <2>3. CASE y # w
    BY <2>1, <2>3
  <2> QED
    BY <2>2, <2>3
<1> QED
  BY <1>2, <1>3 DEF Sums, With

LEMMA SumNothing ==
  ASSUME NEW f, NEW g, Sums(g, f), \A y \in Threads : f[y] = 0
  PROVE  g[Threads] = 0
<1> SUFFICES ASSUME g[Threads] # 0 PROVE FALSE
  OBVIOUS
<1> DEFINE N == {Cardinality(S) : S \in {T \in SUBSET Threads : g[T] # 0}}
<1>1. \A S \in SUBSET Threads : IsFiniteSet(S) /\ Cardinality(S) \in Nat
  BY Sizes, FS_Subset, FS_CardinalityType
<1>2. PICK n \in N : \A k \in N : <<k, n>> \notin OpToRel(<, Nat)
  <2>1. N \subseteq Nat
    BY <1>1
  <2>2. N # {}
    OBVIOUS
  <2> HIDE DEF N
  <2> QED
    BY <2>1, <2>2, NatLessThanWellFounded, WFMin, Zenon
<1>3. PICK S \in SUBSET Threads : g[S] # 0 /\ Cardinality(S) = n
  OBVIOUS
<1>4. PICK y : y \in S
  BY <1>3 DEF Sums
<1>5. S \ {y} \in SUBSET Threads /\ g[S \ {y}] # 0
  <2>1. /\ g[S] = g[S \ {y}] + f[y] /\ f[y] = 0 /\ S \ {y} \in SUBSET Threads
        /\ g[S \ {y}] \in Int
    BY <1>4 DEF Sums
  <2> QED
    BY <1>3, <2>1
<1>6. Cardinality(S \ {y}) = n - 1 /\ Cardinality(S \ {y}) \in Nat /\ n \in Nat
  BY <1>1, <1>3, <1>4, <1>5, FS_RemoveElement
<1>7. Cardinality(S \ {y}) \in N
  BY <1>5
<1>8. ~(Cardinality(S \ {y}) < n)
  BY <1>2, <1>6, <1>7, Zenon DEF OpToRel
<1> QED
  BY <1>6, <1>8

---------------------------------------------------------------------------
(* The values of what is inserted.                                         *)

\* In the table, or in the hand of a call.
Somewhere(e) == (\E i \in Index : TA[i] = e) \/ (\E y \in Threads : th[y].v = e)
Real         == Entry \ {empty}

InHand(k)   == [y \in Threads |-> IF th[y].v.key = k THEN th[y].v.val ELSE 0]
Holds(k, x) == \/ \E i \in Index : TA[i].key = k /\ TA[i].val = x
               \/ Copies(k) = {} /\ x = 0

\* Of a key whose values replace one another none is above the one that is
\* expected, which is there.
Largest ==
  /\ \A e \in Real : Somewhere(e) => e.val <= expected[e.key]
  /\ \A k \in Keys : expected[k] # 0 => Somewhere([key |-> k, val |-> expected[k]])
  /\ hashStruct.kind = "numeric" => \A k \in Keys : expected[k] <= 1

\* Values that add up are in the table or still to be added.
AddsUp(k) ==
  \E g, x : /\ Sums(g, InHand(k)) /\ x \in Nat /\ Holds(k, x)
            /\ expected[k] = x + g[Threads]

ValueInv ==
  phase = "insert" =>
    /\ \A e \in Real : Somewhere(e) => e.val > 0
    /\ hashStruct.kind # "add" => Largest
    /\ hashStruct.kind = "add" => \A k \in Keys : AddsUp(k)

LEMMA OnceOnly ==
  ASSUME TypeOK, InsertInv, phase = "insert", NEW i \in Index, NEW j \in Index,
         TA[i].key = TA[j].key, TA[i] # empty
  PROVE  i = j
<1> SUFFICES ASSUME i # j PROVE FALSE
  OBVIOUS
<1>1. /\ TA[i] \in Entry /\ TA[j] \in Entry /\ TA[j] # empty
      /\ TA[i].key \in Nat /\ TA[i].key \in Keys
  BY Entries0 DEF TypeOK
<1>2. PICK f : f = firstIndex(TA[i]) /\ f = firstIndex(TA[j]) /\ f \in Index
  BY <1>1 DEF firstIndex, TypeOK
<1>3. i \in Between(f, j) \/ j \in Between(f, i)
  BY <1>2, OneFirst
<1>4. /\ \A b \in Between(f, i) : TA[b].key > TA[i].key
      /\ \A b \in Between(f, j) : TA[b].key > TA[j].key
  BY <1>1, <1>2 DEF InsertInv, Passed
<1> QED
  BY <1>1, <1>3, <1>4

\* Where an entry is to be put there is no other of its key.
LEMMA NoOther ==
  ASSUME TypeOK, InsertInv, phase = "insert", NEW v \in Entry, v # empty,
         NEW i \in Index, Passed(v, i), TA[i].key < v.key
  PROVE  Copies(v.key) = {}
<1> SUFFICES ASSUME NEW j \in Index, TA[j].key = v.key PROVE FALSE
  BY DEF Copies
<1>1. TA[i] \in Entry /\ TA[j] \in Entry /\ v.key \in Keys /\ v.key \in Nat /\ TA[i].key \in Nat
  BY Entries0 DEF TypeOK
<1>2. TA[j] # empty /\ i # j
  BY <1>1, Entries0
<1>3. PICK f : f = firstIndex(v) /\ f = firstIndex(TA[j]) /\ f \in Index
  BY <1>1 DEF firstIndex, TypeOK
<1>4. i \in Between(f, j) \/ j \in Between(f, i)
  BY <1>2, <1>3, OneFirst
<1> QED
  BY <1>1, <1>2, <1>3, <1>4 DEF InsertInv, Passed

\* What the compare-and-swap puts, in the two kinds of table.
LEMMA NewValue ==
  ASSUME TypeOK, InPhase, NEW w \in Threads, th[w].pc = "cas"
  PROVE  LET t == th[w]
             e == NewEntry(t) IN
         /\ hashStruct.kind # "add" => e = t.v
         /\ hashStruct.kind = "add" =>
              e.val = t.v.val + IF t.c.key = t.v.key THEN t.c.val ELSE 0
<1> DEFINE t == th[w]
<1>1. /\ t \in Call /\ Fits(t) /\ t.v \in Entry /\ t.c \in Entry
      /\ t.v.val \in Nat /\ t.c.val \in Nat /\ t.c = [key |-> t.c.key, val |-> t.c.val]
  BY InCall, Entries0
<1>2. t.op = IF hashStruct.kind = "add" THEN "update" ELSE "insert"
  BY <1>1 DEF Fits
<1>3. hashStruct.kind = "add" => Merged(t.c, t.v).val = t.c.val + t.v.val
  <2>1. [t.c EXCEPT !.val = @ + t.v.val].val = t.c.val + t.v.val
    BY <1>1
  <2> QED
    BY <2>1 DEF Merged
<1> HIDE DEF t
<1>4. /\ hashStruct.kind # "add" => NewEntry(t) = t.v
      /\ hashStruct.kind = "add" =>
           NewEntry(t).val = t.v.val + IF t.c.key = t.v.key THEN t.c.val ELSE 0
  BY <1>1, <1>2, <1>3 DEF NewEntry
<1> QED
  BY <1>4 DEF t

LEMMA RealEntries ==
  /\ \A e \in Real : e \in Entry /\ e # empty /\ e.key \in Keys /\ e.val \in Nat
  /\ \A e \in Entry : e.key \in Keys => e \in Real
  /\ \A k \in Keys, x \in Nat : [key |-> k, val |-> x] \in Real
  BY Entries0 DEF Real

LEMMA CallEntries ==
  ASSUME TypeOK
  PROVE  /\ \A y \in Threads : th[y].v \in Entry /\ th[y].v.key \in Nat /\ th[y].v.val \in Nat
         /\ \A i \in Index : TA[i] \in Entry /\ TA[i].key \in Nat /\ TA[i].val \in Nat
         /\ \A k \in Keys : expected[k] \in Nat
         /\ \A k : InHand(k) \in [Threads -> Int]
<1>1. \A y \in Threads : th[y].v \in Entry /\ th[y].v.key \in Nat /\ th[y].v.val \in Nat
  BY Entries0 DEF TypeOK, Call
<1> QED
  BY <1>1, Entries0 DEF TypeOK, InHand

\* A move that takes neither an entry from the call nor gives it one.
LEMMA SameValues ==
  ASSUME TypeOK, ValueInv, NEW w \in Threads, NEW u, Quiet(w, u), u.v = th[w].v
  PROVE  ValueInv'
<1>1. /\ UNCHANGED <<TA, hashStruct, phase, expected>>
      /\ \A y \in Threads : th'[y].v = th[y].v
  BY DEF Quiet, Moves, TypeOK
<1>2. \A e : Somewhere(e)' <=> Somewhere(e)
  BY <1>1 DEF Somewhere
<1>3. \A k : InHand(k)' = InHand(k)
  BY <1>1 DEF InHand
<1>4. Largest <=> Largest'
  BY <1>1, <1>2 DEF Largest
<1>5. \A k \in Keys : AddsUp(k) <=> AddsUp(k)'
  BY <1>1, <1>3 DEF AddsUp, Holds, Copies
<1>6. phase = "insert" /\ hashStruct.kind = "add" => \A k \in Keys : AddsUp(k)'
  BY <1>5 DEF ValueInv
<1>7. phase = "insert" => \A e \in Real : Somewhere(e)' => e.val > 0
  BY <1>2 DEF ValueInv
<1> QED
  BY <1>1, <1>4, <1>6, <1>7 DEF ValueInv, Real, Entry, empty

\* An insert that returns because it found the key with a value to keep.
LEMMA ReturnValues ==
  ASSUME TypeOK, InPhase, ValueInv, phase = "insert", NEW w \in Threads, NEW i \in Index,
         TA[i].key = th[w].v.key, ~replaceQ(th[w].v, TA[i]), TA[i] # empty, Quiet(w, Idle)
  PROVE  ValueInv'
<1> DEFINE v == th[w].v
           c == TA[i]
<1>1. /\ UNCHANGED <<TA, hashStruct, phase, expected>>
      /\ th'[w].v = empty /\ \A y \in Threads \ {w} : th'[y] = th[y]
  BY IdleCall DEF Quiet, Moves, TypeOK
<1>2. /\ v \in Entry /\ v.key \in Keys /\ v.val \in Nat
      /\ c \in Entry /\ c.val \in Nat /\ c.key \in Keys /\ c \in Real
  BY CallEntries, RealEntries, Entries0
<1>3. hashStruct.kind \in {"numeric", "max"}
  BY DEF replaceQ, TypeOK
<1>4. hashStruct.kind = "max" => v.val <= c.val
  BY <1>2 DEF replaceQ
<1>5. ASSUME NEW e \in Real, Somewhere(e)' PROVE Somewhere(e)
  BY <1>1, <1>5, RealEntries DEF Somewhere
<1>6. Largest /\ \A e \in Real : Somewhere(e) => e.val > 0
  BY <1>3 DEF ValueInv
<1>7. Somewhere(c)' /\ Somewhere(c)
  BY <1>1 DEF Somewhere
<1>8. c.val > 0 /\ c.val <= expected[c.key]
  <2> HIDE DEF c
  <2> QED
    BY <1>2, <1>6, <1>7 DEF Largest
<1>9. ASSUME NEW k \in Keys, expected[k] # 0 PROVE Somewhere([key |-> k, val |-> expected[k]])'
  <2>1. PICK e : e = [key |-> k, val |-> expected[k]]
    OBVIOUS
  <2>2. Somewhere(e) /\ e.key = k /\ e.val = expected[k] /\ e \in Real /\ e # empty
    BY <1>6, <1>9, <2>1, CallEntries, RealEntries DEF Largest
  <2>3. CASE e = v
    <3>1. c.key = k /\ expected[k] \in Nat
      BY <2>2, <2>3, CallEntries
    <3>2. c.val = expected[k]
      <4>1. hashStruct.kind = "numeric" => expected[k] <= 1
        BY <1>6 DEF Largest
      <4> QED
        BY <1>2, <1>3, <1>4, <1>8, <2>2, <2>3, <3>1, <4>1
    <3>3. c = e
      BY <1>2, <2>1, <3>1, <3>2, Entries0
    <3> QED
      BY <1>1, <1>7, <2>1, <3>3
  <2>4. CASE e # v
    BY <1>1, <2>1, <2>2, <2>4 DEF Somewhere
  <2> QED
    BY <2>3, <2>4
<1>10. Largest'
  BY <1>1, <1>5, <1>6, <1>9 DEF Largest, Real, Entry, empty
<1>11. \A e \in Real : Somewhere(e)' => e.val > 0
  BY <1>5, <1>6
<1> QED
  BY <1>1, <1>3, <1>10, <1>11 DEF ValueInv, Real, Entry, empty

LEMMA HandChange ==
  ASSUME TypeOK, NEW k, NEW g, Sums(g, InHand(k)), NEW w \in Threads, NEW y \in Int
  PROVE  \E h : /\ Sums(h, With(InHand(k), w, y))
                /\ h[Threads] = g[Threads] - InHand(k)[w] + y
<1>1. InHand(k) \in [Threads -> Int]
  BY CallEntries
<1> QED
  BY <1>1, SumChange

LEMMA StartValues ==
  ASSUME TypeOK, InPhase, ValueInv, NEW w \in Threads,
         NEW k \in Keys, NEW x \in Vals, NEW op \in {"insert", "update"},
         StartInsert(w, op, [key |-> k, val |-> x])
  PROVE  ValueInv'
<1> DEFINE v == [key |-> k, val |-> x]
<1>1. /\ phase = "insert" /\ UNCHANGED <<TA, hashStruct, phase>>
      /\ th[w].v = empty /\ th'[w].v = v /\ \A y \in Threads \ {w} : th'[y] = th[y]
      /\ expected' = [expected EXCEPT ![k] = Inserted(v)]
      /\ hashStruct.kind = "numeric" => x = 1
  BY IdleCall DEF StartInsert, Go, TypeOK, Idle
<1>2. /\ x \in Nat /\ x > 0 /\ v \in Real /\ v \in Entry /\ v.key = k /\ v.val = x
      /\ k # 0 /\ v # empty /\ hashStruct.kind \in {"numeric", "max", "add"}
  BY TableAssumption, RealEntries, Sizes DEF TypeOK
<1>3. PICK n \in Nat : n = expected[k]
  BY CallEntries
<1>4. /\ expected'[k] = Inserted(v) /\ \A j \in Keys : j # k => expected'[j] = expected[j]
      /\ Inserted(v) \in Nat
      /\ Inserted(v) = IF n = 0 THEN x
                       ELSE IF hashStruct.kind = "add" THEN n + x
                       ELSE IF hashStruct.kind = "max" /\ x > n THEN x ELSE n
  BY <1>1, <1>2, <1>3, ExpectedNext DEF TypeOK
<1> HIDE DEF v
<1>5. \A e \in Real : Somewhere(e)' <=> Somewhere(e) \/ e = v
  BY <1>1, RealEntries DEF Somewhere
<1>6. \A e \in Real : Somewhere(e)' => e.val > 0
  BY <1>1, <1>2, <1>5 DEF ValueInv
<1>7. ASSUME hashStruct.kind # "add" PROVE Largest'
  <2>1. Largest
    BY <1>1, <1>7 DEF ValueInv
  <2>2. \A j \in Keys : expected'[j] \in Nat /\ expected[j] \in Nat /\ expected[j] <= expected'[j]
    BY <1>2, <1>3, <1>4, CallEntries
  <2>3. x <= expected'[k]
    BY <1>1, <1>2, <1>3, <1>4, <1>7
  <2>4. ASSUME NEW e \in Real, Somewhere(e)' PROVE e.val <= expected'[e.key]
    <3>1. CASE e = v
      BY <1>2, <2>3, <3>1
    <3>2. CASE Somewhere(e)
      BY <2>1, <2>2, <3>2, RealEntries DEF Largest
    <3> QED
      BY <1>5, <2>4, <3>1, <3>2
  <2>5. ASSUME NEW j \in Keys, expected'[j] # 0
        PROVE  Somewhere([key |-> j, val |-> expected[j]])'
    <3>1. PICK e : e = [key |-> j, val |-> expected'[j]] /\ e \in Real
      BY <2>2, RealEntries
    <3>2. CASE expected'[j] = expected[j]
      BY <1>5, <2>1, <2>5, <3>1, <3>2 DEF Largest
    <3>3. CASE expected'[j] # expected[j]
      <4>1. j = k /\ expected'[j] = x
        BY <1>3, <1>4, <1>7, <3>3
      <4>2. e = v
        BY <3>1, <4>1 DEF v
      <4> QED
        BY <1>5, <3>1, <4>2
    <3> QED
      BY <3>2, <3>3
  <2>6. hashStruct.kind = "numeric" => \A j \in Keys : expected'[j] <= 1
    BY <1>1, <1>2, <1>3, <1>4, <2>1 DEF Largest
  <2> QED
    BY <1>1, <2>4, <2>5, <2>6 DEF Largest, Real, Entry, empty
<1>8. ASSUME hashStruct.kind = "add", NEW j \in Keys PROVE AddsUp(j)'
  <2>1. PICK g, z : /\ Sums(g, InHand(j)) /\ z \in Nat /\ Holds(j, z)
                    /\ expected[j] = z + g[Threads]
    BY <1>1, <1>8 DEF ValueInv, AddsUp
  <2>2. Holds(j, z)'
    BY <1>1, <2>1 DEF Holds, Copies
  <2>3. g[Threads] \in Int
    BY <2>1 DEF Sums
  <2>4. InHand(j) \in [Threads -> Int] /\ InHand(j)[w] = 0
    BY <1>1, CallEntries, Sizes DEF InHand, empty
  <2>5. CASE j = k
    <3>1. InHand(j)' = With(InHand(j), w, x)
      BY <1>1, <1>2, <2>5 DEF InHand, With
    <3>2. PICK h : Sums(h, With(InHand(j), w, x)) /\ h[Threads] = g[Threads] - 0 + x
      <4>1. x \in Int
        BY <1>2
      <4>2. \E h : /\ Sums(h, With(InHand(j), w, x))
                   /\ h[Threads] = g[Threads] - InHand(j)[w] + x
        BY <2>1, <4>1, HandChange
      <4> QED
        BY <2>4, <4>2, Zenon
    <3>3. expected'[j] = n + x /\ n = z + g[Threads]
      BY <1>2, <1>3, <1>4, <1>8, <2>1, <2>5
    <3>4. expected'[j] = z + h[Threads]
      BY <1>2, <1>3, <2>1, <2>3, <3>2, <3>3
    <3> QED
      BY <2>1, <2>2, <3>1, <3>2, <3>4 DEF AddsUp
  <2>6. CASE j # k
    <3>1. InHand(j)' = InHand(j)
      BY <1>1, <1>2, <2>6, Sizes DEF InHand, empty
    <3> QED
      BY <1>4, <2>1, <2>2, <2>6, <3>1 DEF AddsUp
  <2> QED
    BY <2>5, <2>6
<1> QED
  BY <1>1, <1>6, <1>7, <1>8 DEF ValueInv, Real, Entry, empty

\* Putting e over c, what is held by w and the cell together stays the same.
LEMMA BumpSum ==
  ASSUME TypeOK, InPhase, InsertInv, phase = "insert", NEW w \in Threads, NEW u, NEW e,
         NEW i, NEW c, NEW v, v = th[w].v, c = TA[i], Bumps(w, u, i, e), Passed(v, i),
         v \in Entry, v # empty, e.key = v.key,
         e.val = v.val + IF c.key = v.key THEN c.val ELSE 0,
         NEW k \in Keys, NEW x, Holds(k, x)
  PROVE  \E n \in Nat : /\ Holds(k, n)' /\ x \in Nat
                        /\ n + (IF u.v.key = k THEN u.v.val ELSE 0)
                             = x + (IF v.key = k THEN v.val ELSE 0)
<1>1. /\ i \in Index /\ e \in Entry /\ TA'[i] = e
      /\ \A b \in Index \ {i} : TA'[b] = TA[b]
  BY BumpsTypes
<1>2. /\ c \in Entry /\ c.key \in Nat /\ c.val \in Nat /\ v.key \in Keys /\ v.key \in Nat
      /\ v.val \in Nat /\ k \in Nat /\ k > 0 /\ (c # empty => c.key > 0)
      /\ empty.key = 0 /\ \A b \in Index : TA[b] \in Entry /\ TA[b].key \in Nat
      /\ x \in Nat
  BY <1>1, CallEntries, Entries0, Sizes DEF Holds
<1>3. \/ u.v = empty /\ c.key \in {0, e.key}
      \/ u.v = c /\ c.key < e.key /\ c # empty
  BY IdleCall DEF Bumps
<1>4. c.key = k => x = c.val /\ \A b \in Index : TA[b].key = k => b = i
  <2> SUFFICES ASSUME c.key = k PROVE x = c.val /\ \A b \in Index : TA[b].key = k => b = i
    OBVIOUS
  <2>1. c # empty
    BY <1>2
  <2>2. \A b \in Index : TA[b].key = k => b = i
    BY <1>1, <2>1, OnceOnly
  <2> QED
    BY <1>1, <2>2 DEF Holds, Copies
<1>5. CASE k = v.key /\ c.key = v.key
  <2>1. u.v = empty
    BY <1>2, <1>3, <1>5
  <2>2. x = c.val
    BY <1>4, <1>5
  <2>3. Holds(k, e.val)'
    BY <1>1, <1>5 DEF Holds
  <2> QED
    BY <1>2, <1>5, <2>1, <2>2, <2>3
<1>6. CASE k = v.key /\ c.key # v.key
  <2>1. c.key < v.key
    BY <1>2, <1>3, <1>6
  <2>2. Copies(k) = {}
    BY <1>1, <1>6, <2>1, NoOther
  <2>3. x = 0
    BY <2>2 DEF Holds, Copies
  <2>4. u.v.key # k
    BY <1>2, <1>3, <1>6
  <2>5. Holds(k, e.val)'
    BY <1>1, <1>6 DEF Holds
  <2> QED
    BY <1>2, <1>6, <2>3, <2>4, <2>5
<1>7. CASE k # v.key /\ c.key = k
  <2>1. u.v = c
    BY <1>2, <1>3, <1>7
  <2>2. \A b \in Index : TA'[b].key # k
    BY <1>1, <1>4, <1>7
  <2>3. Holds(k, 0)'
    BY <2>2 DEF Holds, Copies
  <2> QED
    BY <1>2, <1>4, <1>7, <2>1, <2>3
<1>8. CASE k # v.key /\ c.key # k
  <2>1. u.v.key # k
    BY <1>2, <1>3, <1>8
  <2>2. \A b \in Index : (TA'[b].key = k <=> TA[b].key = k) /\ (TA[b].key = k => TA'[b] = TA[b])
    BY <1>1, <1>8
  <2>3. Holds(k, x)'
    BY <2>2 DEF Holds, Copies
  <2> QED
    BY <1>2, <1>8, <2>1, <2>3
<1> QED
  BY <1>5, <1>6, <1>7, <1>8

LEMMA BumpValues ==
  ASSUME TypeOK, InPhase, InsertInv, ValueInv, phase = "insert", NEW w \in Threads,
         NEW u, NEW e, NEW i, NEW v, v = th[w].v, Bumps(w, u, i, e), Passed(v, i),
         v \in Entry, v # empty, e.key = v.key,
         TA[i].key = v.key => replaceQ(v, TA[i]),
         hashStruct.kind # "add" => e = v,
         hashStruct.kind = "add" =>
           e.val = v.val + IF TA[i].key = v.key THEN TA[i].val ELSE 0
  PROVE  ValueInv'
<1>1. PICK c : c = TA[i]
  OBVIOUS
<1>2. /\ i \in Index /\ e \in Entry /\ TA'[i] = e /\ u \in Call
      /\ \A b \in Index \ {i} : TA'[b] = TA[b]
      /\ th'[w] = u /\ \A y \in Threads \ {w} : th'[y] = th[y]
      /\ UNCHANGED <<hashStruct, phase, expected>>
  BY BumpsTypes
<1>3. /\ c \in Entry /\ c.key \in Nat /\ c.val \in Nat /\ v.key \in Keys /\ v.key \in Nat
      /\ v.val \in Nat /\ v \in Real /\ e \in Real /\ u.v \in Entry /\ u.v.val \in Nat
  BY <1>1, <1>2, CallEntries, Entries0, RealEntries DEF Call
<1>4. \/ u.v = empty /\ c.key \in {0, e.key}
      \/ u.v = c /\ c.key < e.key /\ c # empty
  BY <1>1, IdleCall DEF Bumps
<1>5. Somewhere(v) /\ (c # empty => Somewhere(c))
  BY <1>1, <1>2 DEF Somewhere
<1>6. ASSUME NEW a \in Real, Somewhere(a)' PROVE Somewhere(a) \/ a = e
  BY <1>1, <1>2, <1>4, <1>6, RealEntries DEF Somewhere
<1>7. /\ \A a \in Real : Somewhere(a) => a.val > 0
      /\ hashStruct.kind # "add" => Largest
      /\ hashStruct.kind = "add" => \A k \in Keys : AddsUp(k)
  BY DEF ValueInv
<1>8. e.val > 0
  <2>1. v.val > 0
    BY <1>3, <1>5, <1>7
  <2> QED
    BY <1>1, <1>3, <2>1
<1>9. \A a \in Real : Somewhere(a)' => a.val > 0
  BY <1>6, <1>7, <1>8
<1>10. ASSUME hashStruct.kind # "add" PROVE Largest'
  <2>1. e = v /\ Largest
    BY <1>7, <1>10
  <2>2. ASSUME NEW k \in Keys, expected[k] # 0
        PROVE  Somewhere([key |-> k, val |-> expected[k]])'
    <3>1. PICK a : a = [key |-> k, val |-> expected[k]]
      OBVIOUS
    <3>2. Somewhere(a) /\ a.key = k /\ a.val = expected[k] /\ a \in Real /\ a # empty
      BY <2>1, <2>2, <3>1, CallEntries, RealEntries DEF Largest
    <3>3. CASE a = v
      BY <1>2, <2>1, <3>1, <3>3 DEF Somewhere
    <3>4. CASE a = c /\ c # v
      <4>1. c.key # 0 /\ c \in Real
        BY <1>3, <3>2, <3>4, RealEntries, Sizes
      <4>2. c.key # v.key
        <5> SUFFICES ASSUME c.key = v.key PROVE FALSE
          OBVIOUS
        <5>1. replaceQ(v, c)
          BY <1>1
        <5>2. hashStruct.kind = "max" /\ v.val > c.val
          BY <1>10, <5>1 DEF replaceQ, TypeOK
        <5>3. v.val <= expected[k]
          BY <1>3, <1>5, <2>1, <3>2, <3>4 DEF Largest
        <5> QED
          BY <1>3, <3>2, <3>4, <5>2, <5>3, CallEntries
      <4>3. u.v = c
        BY <1>4, <4>1, <4>2
      <4> QED
        BY <1>2, <3>1, <3>4, <4>3 DEF Somewhere
    <3>5. CASE a # v /\ a # c
      BY <1>1, <1>2, <3>1, <3>2, <3>5 DEF Somewhere
    <3> QED
      BY <3>3, <3>4, <3>5
  <2>3. \A a \in Real : Somewhere(a)' => a.val <= expected[a.key]
    BY <1>5, <1>6, <2>1, <1>3 DEF Largest
  <2> QED
    BY <1>2, <2>1, <2>2, <2>3 DEF Largest, Real, Entry, empty
<1>11. ASSUME hashStruct.kind = "add", NEW k \in Keys PROVE AddsUp(k)'
  <2>1. PICK g, x : Sums(g, InHand(k)) /\ x \in Nat /\ Holds(k, x) /\ expected[k] = x + g[Threads]
    BY <1>7, <1>11 DEF AddsUp
  <2>2. PICK y \in Nat : y = IF u.v.key = k THEN u.v.val ELSE 0
    BY <1>3
  <2>3. PICK z \in Nat : z = IF v.key = k THEN v.val ELSE 0
    BY <1>3
  <2>4. PICK n \in Nat : Holds(k, n)' /\ n + y = x + z
    BY <1>1, <1>11, <2>1, <2>2, <2>3, BumpSum
  <2>5. InHand(k)[w] = z
    BY <2>3 DEF InHand
  <2>6. InHand(k)' = With(InHand(k), w, y)
    BY <1>2, <2>2 DEF InHand, With
  <2>7. PICK h : Sums(h, InHand(k)') /\ h[Threads] = g[Threads] - z + y
    <3>1. y \in Int
      BY <2>2
    <3>2. \E h : /\ Sums(h, With(InHand(k), w, y))
                 /\ h[Threads] = g[Threads] - InHand(k)[w] + y
      BY <2>1, <3>1, HandChange
    <3> QED
      BY <2>5, <2>6, <3>2, Zenon
  <2>8. g[Threads] \in Int
    BY <2>1 DEF Sums
  <2>9. expected[k] = n + h[Threads]
    BY <2>1, <2>2, <2>3, <2>4, <2>7, <2>8
  <2> QED
    BY <1>2, <2>4, <2>7, <2>9 DEF AddsUp
<1> QED
  BY <1>2, <1>9, <1>10, <1>11 DEF ValueInv, Real, Entry, empty

LEMMA ValueNext == ASSUME IInv, ValueInv, Next PROVE ValueInv'
<1> USE DEF IInv
<1>1. CASE NextPhase
  BY <1>1 DEF NextPhase, ValueInv
<1>2. ASSUME NEW w \in Threads, Start(w) PROVE ValueInv'
  <2>1. CASE \E k \in Keys : StartDelete(w, k) \/ StartFind(w, k)
    BY <2>1 DEF StartDelete, StartFind, ValueInv
  <2> QED
    BY <1>2, <2>1, StartValues DEF Start
<1>3. ASSUME NEW w \in Threads, insertLoad(w) PROVE ValueInv'
  <2> DEFINE t == th[w]
             c == TA[t.i]
             u == [t EXCEPT !.i = incrementIndex(@)]
             r == [t EXCEPT !.pc = "cas", !.c = c]
  <2>1. /\ phase = "insert" /\ t.pc = "load"
        /\ \/ Quiet(w, u)
           \/ c # empty /\ t.v.key = c.key /\ ~replaceQ(t.v, c) /\ Quiet(w, Idle)
           \/ Quiet(w, r)
    BY <1>3, LoadStep
  <2>2. t.i \in Index /\ u.v = t.v /\ r.v = t.v
    BY <2>1, InCall DEF Call
  <2> HIDE DEF u, r
  <2> QED
    BY <2>1, <2>2, SameValues, ReturnValues
<1>4. ASSUME NEW w \in Threads, insertCas(w) PROVE ValueInv'
  <2>1. PICK t, e : t = th[w] /\ e = NewEntry(t)
    OBVIOUS
  <2>2. /\ phase = "insert" /\ t.pc = "cas"
        /\ \/ Quiet(w, [t EXCEPT !.pc = "load"])
           \/ /\ TA[t.i] = t.c /\ e.key = t.v.key
              /\ \E u : Bumps(w, u, t.i, e)
    BY <1>4, <2>1, CasStep, CasBumps
  <2>3. /\ t \in Call /\ Inserting(t) /\ t.v \in Entry /\ t.v # empty /\ t.v.key \in Keys
        /\ t.c \in Entry
    BY <2>1, <2>2, InCall DEF InsertInv
  <2>4. /\ hashStruct.kind # "add" => e = t.v
        /\ hashStruct.kind = "add" =>
             e.val = t.v.val + IF t.c.key = t.v.key THEN t.c.val ELSE 0
    BY <2>1, <2>2, NewValue
  <2>5. t.c.key = t.v.key => replaceQ(t.v, t.c)
    <3>1. t.v.key # 0 /\ t.v.key \in Nat /\ empty.key = 0
      BY <2>3, Entries0, Sizes
    <3> QED
      BY <2>2, <2>3, <3>1 DEF Inserting
  <2>6. Passed(t.v, t.i)
    BY <2>3 DEF Inserting
  <2>7. [t EXCEPT !.pc = "load"].v = t.v
    BY <2>3 DEF Call
  <2>8. CASE Quiet(w, [t EXCEPT !.pc = "load"])
    BY <2>1, <2>7, <2>8, SameValues
  <2>9. ASSUME TA[t.i] = t.c, e.key = t.v.key, NEW u, Bumps(w, u, t.i, e) PROVE ValueInv'
    <3>1. PICK v, i : v = t.v /\ i = t.i
      OBVIOUS
    <3> QED
      BY <2>1, <2>2, <2>3, <2>4, <2>5, <2>6, <2>9, <3>1, BumpValues
  <2> QED
    BY <2>2, <2>8, <2>9
<1>5. ASSUME NEW w \in Threads,
             LookDelete(w) \/ deleteSwap(w) \/ findProbe(w) \/ findReturn(w)
      PROVE  ValueInv'
  <2>1. phase # "insert"
    BY <1>5, LookStep, SwapStep, FindStep
  <2> QED
    BY <1>5, <2>1 DEF LookDelete, deleteSeek, deleteDown, deleteFound, deleteUp, deleteBack,
       deleteReload, deleteSwap, findProbe, findReturn, Same, ValueInv
<1> QED
  BY <1>1, <1>2, <1>3, <1>4, <1>5 DEF Next, Step, LookDelete

LEMMA ValueInit == Init => ValueInv
<1> SUFFICES ASSUME Init PROVE ValueInv
  OBVIOUS
<1>1. /\ \A i \in Index : TA[i] = empty
      /\ \A y \in Threads : th[y].v = empty
      /\ \A k \in Keys : expected[k] = 0
  BY IdleCall DEF Init
<1>2. \A e \in Real : ~Somewhere(e)
  BY <1>1 DEF Somewhere, Real
<1>3. Largest
  BY <1>1, <1>2 DEF Largest
<1>4. ASSUME NEW k \in Keys PROVE AddsUp(k)
  <2> DEFINE g == [S \in SUBSET Threads |-> 0]
  <2>1. InHand(k) = [y \in Threads |-> 0]
    BY <1>1, Sizes DEF InHand, empty
  <2>2. Sums(g, InHand(k)) /\ g[Threads] = 0
    BY <2>1 DEF Sums
  <2>3. Holds(k, 0)
    BY <1>1, Sizes DEF Holds, Copies, empty
  <2> HIDE DEF g
  <2> QED
    BY <1>1, <2>2, <2>3 DEF AddsUp
<1> QED
  BY <1>2, <1>3, <1>4 DEF ValueInv

\* Between calls each key has what was inserted for it.
LEMMA WellLaid ==
  ASSUME IInv, ValueInv, phase = "insert", AllIdle PROVE LaidOut
<1> USE DEF IInv
<1>1. \A y \in Threads : th[y].v = empty
  BY IdleCall DEF AllIdle
<1>2. \A e \in Real : Somewhere(e) <=> e \in Entries
  BY <1>1 DEF Somewhere, Entries, Real
<1>3. Entries \subseteq Real
  BY CallEntries DEF Entries, Real
<1>4. \A a, b \in Entries : a.key = b.key => a = b
  BY OnceOnly DEF Entries
<1>5. ASSUME NEW k \in Keys
      PROVE  /\ expected[k] # 0 => [key |-> k, val |-> expected[k]] \in Entries
             /\ \A e \in Entries : e.key = k => expected[k] # 0
  <2>1. CASE hashStruct.kind # "add"
    <3>1. Largest
      BY <2>1 DEF ValueInv
    <3>2. expected[k] # 0 => [key |-> k, val |-> expected[k]] \in Entries
      BY <1>2, <3>1, CallEntries, RealEntries DEF Largest
    <3>3. ASSUME NEW e \in Entries, e.key = k PROVE expected[k] # 0
      <4>1. e.val > 0 /\ e.val <= expected[k] /\ e.val \in Nat
        BY <1>2, <1>3, <3>1, <3>3, RealEntries DEF ValueInv, Largest
      <4> QED
        BY <4>1
    <3> QED
      BY <3>2, <3>3
  <2>2. CASE hashStruct.kind = "add"
    <3>1. PICK g, x : /\ Sums(g, InHand(k)) /\ x \in Nat /\ Holds(k, x)
                      /\ expected[k] = x + g[Threads]
      BY <2>2 DEF ValueInv, AddsUp
    <3>2. g[Threads] = 0
      <4>1. PICK f : f = InHand(k)
        OBVIOUS
      <4>2. Sums(g, f) /\ \A y \in Threads : f[y] = 0
        BY <1>1, <3>1, <4>1, Sizes DEF InHand, empty
      <4> QED
        BY <4>2, SumNothing
    <3>3. expected[k] = x
      BY <3>1, <3>2
    <3>4. expected[k] # 0 => [key |-> k, val |-> expected[k]] \in Entries
      <4> SUFFICES ASSUME expected[k] # 0 PROVE [key |-> k, val |-> expected[k]] \in Entries
        OBVIOUS
      <4>1. PICK i \in Index : TA[i].key = k /\ TA[i].val = x
        BY <3>1, <3>3 DEF Holds
      <4>2. TA[i] \in Entry /\ TA[i] # empty
        BY <4>1, Sizes, CallEntries DEF empty
      <4>3. TA[i] = [key |-> k, val |-> x]
        BY <4>1, <4>2, Entries0
      <4> QED
        BY <3>3, <4>1, <4>2, <4>3 DEF Entries
    <3>5. ASSUME NEW e \in Entries, e.key = k PROVE expected[k] # 0
      <4>1. PICK j \in Index : TA[j] = e /\ e # empty
        BY DEF Entries
      <4>2. e.val > 0
        BY <1>2, <1>3 DEF ValueInv
      <4>3. PICK i \in Index : TA[i].key = k /\ TA[i].val = x
        BY <3>1, <3>5, <4>1 DEF Holds, Copies
      <4>4. i = j
        BY <3>5, <4>1, <4>3, OnceOnly
      <4> QED
        BY <3>1, <3>3, <4>1, <4>2, <4>3, <4>4
    <3> QED
      BY <3>4, <3>5
  <2> QED
    BY <2>1, <2>2
<1>6. Entries = {[key |-> k, val |-> expected[k]] : k \in {k \in Keys : expected[k] # 0}}
  <2>1. ASSUME NEW e \in Entries PROVE e.key \in Keys /\ expected[e.key] # 0
                                      /\ e = [key |-> e.key, val |-> expected[e.key]]
    <3>1. e.key \in Keys
      BY <1>3, RealEntries
    <3>2. PICK a : a = [key |-> e.key, val |-> expected[e.key]]
      OBVIOUS
    <3>3. expected[e.key] # 0 /\ a \in Entries /\ a.key = e.key
      BY <1>5, <3>1, <3>2
    <3> QED
      BY <1>4, <3>1, <3>2, <3>3
  <2> QED
    BY <1>5, <2>1
<1>7. \A i, j \in Index : i # j /\ TA[i] = TA[j] => TA[i] = empty
  BY OnceOnly
<1>8. \A i \in Index : TA[i] # empty =>
        \A b \in Between(firstIndex(TA[i]), i) : TA[b].key > TA[i].key
  BY DEF InsertInv, Passed
<1> QED
  BY <1>6, <1>7, <1>8 DEF LaidOut

LEMMA ValueStutter == ASSUME ValueInv, UNCHANGED vars PROVE ValueInv'
<1>1. \A k : Largest' = Largest /\ AddsUp(k)' = AddsUp(k)
  BY DEF vars, Largest, AddsUp, Holds, Copies, InHand, Somewhere
<1> QED
  BY <1>1 DEF vars, ValueInv, Somewhere, Real, Entry, empty

---------------------------------------------------------------------------
(* Searches of a table that is laid out.                                   *)

\* A search that has passed entries of higher priority and meets one of a lower
\* priority than v's may say that v is not there.
LEMMA NotThere ==
  ASSUME TypeOK, LaidOut, NEW v \in Entry, v.key \in Keys, NEW i \in Index,
         Passed(v, i), v.key > TA[i].key
  PROVE  expected[v.key] = 0
<1> SUFFICES ASSUME expected[v.key] # 0 PROVE FALSE
  OBVIOUS
<1>1. [key |-> v.key, val |-> expected[v.key]] \in Entries
  BY DEF LaidOut
<1>2. PICK p \in Index : TA[p] # empty /\ TA[p].key = v.key
  BY <1>1 DEF Entries
<1>3. TA[p] \in Entry /\ TA[i] \in Entry
  BY DEF TypeOK
<1>4. firstIndex(TA[p]) = firstIndex(v) /\ firstIndex(v) \in Index
  BY <1>2 DEF firstIndex, TypeOK
<1>5. \A b \in Between(firstIndex(v), p) : TA[b].key > v.key
  BY <1>2, <1>4 DEF LaidOut
<1>6. v.key \in Nat /\ TA[i].key \in Nat
  BY <1>3, Entries0
<1>7. p # i
  BY <1>2, <1>6
<1>8. p \in Between(firstIndex(v), i) \/ i \in Between(firstIndex(v), p)
  BY <1>4, <1>7, OneFirst
<1> QED
  BY <1>2, <1>5, <1>6, <1>8 DEF Passed

FindOf(t) == /\ t.pc = "probe" => Passed(t.v, t.i)
             /\ t.pc = "answer" => t.c.val = expected[t.v.key]

LEMMA FindParts ==
  FindInv <=> (phase = "find" /\ LaidOut => \A w \in Threads : FindOf(th[w]))
  BY DEF FindInv, FindOf, FindsWhatIsThere

LEMMA FindPartsNext ==
  (FindInv <=> (phase = "find" /\ LaidOut => \A w \in Threads : FindOf(th[w])))'
  BY FindParts, PTL

\* A thread goes on to u, in a phase in which the table stands still.
LEMMA FindMoves ==
  ASSUME TypeOK, FindInv, NEW w \in Threads, NEW u, th'[w] = u,
         \A y \in Threads \ {w} : th'[y] = th[y],
         UNCHANGED <<TA, hashStruct, expected, phase>>,
         phase = "find" /\ LaidOut => FindOf(u)
  PROVE  FindInv'
<1> SUFFICES ASSUME phase = "find", LaidOut', NEW y \in Threads PROVE FindOf(th[y])'
  BY FindPartsNext
<1>1. LaidOut
  BY DEF LaidOut, Entries, firstIndex
<1>2. FindOf(th'[y])
  BY <1>1, FindParts
<1> QED
  BY <1>2 DEF FindOf, Passed, firstIndex

LEMMA FindNext == ASSUME IInv, FindInv, Next PROVE FindInv'
<1> USE DEF IInv
<1>1. CASE NextPhase
  <2>1. \A w \in Threads : th'[w] = Idle
    BY <1>1, PhaseTypes
  <2>2. \A w \in Threads : FindOf(th[w])'
    BY <2>1, IdleCall DEF FindOf
  <2> QED
    BY <2>2, FindPartsNext
<1>2. ASSUME NEW w \in Threads, NEW k \in Keys, StartFind(w, k) PROVE FindInv'
  <2> DEFINE v == [empty EXCEPT !.key = k]
             u == [Idle EXCEPT !.pc = "probe", !.op = "find", !.v = v, !.i = firstIndex(v)]
  <2>1. /\ UNCHANGED <<TA, hashStruct, expected, phase>>
        /\ th'[w] = u /\ \A y \in Threads \ {w} : th'[y] = th[y]
    BY <1>2 DEF StartFind, Go, TypeOK
  <2>2. u.pc = "probe" /\ u.v = v /\ u.i = firstIndex(v) /\ v.key = k
    BY DEF Idle, empty
  <2>3. firstIndex(v) \in Index
    BY <2>2 DEF firstIndex, TypeOK
  <2> HIDE DEF u, v
  <2>4. FindOf(u)
    BY <2>2, <2>3, NothingPassed DEF FindOf, Passed
  <2> QED
    BY <2>1, <2>4, FindMoves
<1>3. ASSUME NEW w \in Threads, findProbe(w) \/ findReturn(w) PROVE FindInv'
  <2> DEFINE t == th[w]
             c == TA[t.i]
             e == IF t.v.key = c.key THEN c ELSE empty
             u == [t EXCEPT !.i = incrementIndex(@)]
             r == [t EXCEPT !.pc = "answer", !.c = e]
  <2>1. /\ phase = "find"
        /\ \/ t.pc = "answer" /\ Quiet(w, Idle)
           \/ t.pc = "probe" /\ t.v.key < c.key /\ Quiet(w, u)
           \/ t.pc = "probe" /\ t.v.key >= c.key /\ Quiet(w, r)
    BY <1>3, FindStep
  <2>2. /\ t \in Call /\ t.i \in Index /\ t.v.key \in Keys /\ t.v \in Entry
        /\ firstIndex(t.v) \in Index /\ c \in Entry
        /\ t.v.key \in Nat /\ c.key \in Nat
    BY <2>1, InCall, Entries0
  <2>3. ASSUME NEW q, Quiet(w, q), LaidOut => FindOf(q) PROVE FindInv'
    BY <2>3, QuietTypes, FindMoves DEF Quiet
  <2>4. CASE Quiet(w, Idle)
    BY <2>3, <2>4, IdleCall DEF FindOf
  <2>5. CASE t.pc = "probe" /\ t.v.key < c.key /\ Quiet(w, u)
    <3>1. u.pc = "probe" /\ u.v = t.v /\ u.i = incrementIndex(t.i)
      BY <2>2, <2>5 DEF Call
    <3> HIDE DEF u
    <3>2. ASSUME LaidOut PROVE FindOf(u)
      <4>1. Passed(t.v, t.i)
        BY <2>1, <2>5, <3>2, FindParts DEF FindOf
      <4>2. \A b \in Between(firstIndex(t.v), incrementIndex(t.i)) : TA[b].key > t.v.key
        BY <2>2, <2>5, <4>1, PassedOn DEF Passed
      <4> QED
        BY <3>1, <4>2 DEF FindOf, Passed
    <3> QED
      BY <2>3, <2>5, <3>2
  <2>6. CASE t.pc = "probe" /\ t.v.key >= c.key /\ Quiet(w, r)
    <3>1. r.pc = "answer" /\ r.v = t.v /\ r.c = e
      BY <2>2 DEF Call
    <3> HIDE DEF r
    <3>2. ASSUME LaidOut PROVE e.val = expected[t.v.key]
      <4>1. CASE t.v.key = c.key
        <5>1. c \in Entries
          BY <2>2, <4>1, Entries0 DEF Entries
        <5>2. PICK k \in Keys : c = [key |-> k, val |-> expected[k]]
          BY <3>2, <5>1 DEF LaidOut
        <5> QED
          BY <4>1, <5>2
      <4>2. CASE t.v.key # c.key
        <5>1. t.v.key > c.key /\ e = empty
          BY <2>2, <2>6, <4>2
        <5>2. Passed(t.v, t.i)
          BY <2>1, <2>6, <3>2, FindParts DEF FindOf
        <5>3. expected[t.v.key] = 0
          BY <2>2, <3>2, <5>1, <5>2, NotThere
        <5> QED
          BY <5>1, <5>3, Entries0
      <4> QED
        BY <4>1, <4>2
    <3> HIDE DEF e
    <3> QED
      BY <2>3, <2>6, <3>1, <3>2 DEF FindOf
  <2> QED
    BY <2>1, <2>4, <2>5, <2>6
<1>4. ASSUME phase' # "find" PROVE FindInv'
  BY <1>4 DEF FindInv
<1>5. CASE ~NextPhase /\ phase = "find"
  <2>1. PICK w \in Threads : Start(w) \/ Step(w)
    BY <1>5 DEF Next
  <2>2. CASE Start(w)
    BY <1>2, <1>5, <2>2 DEF Start, StartInsert, StartDelete
  <2>3. CASE Step(w)
    BY <1>3, <1>5, <2>3, LoadStep, CasStep, LookStep, SwapStep DEF Step, LookDelete
  <2> QED
    BY <2>1, <2>2, <2>3
<1>6. CASE ~NextPhase /\ phase # "find"
  <2>1. PICK w \in Threads : Start(w) \/ Step(w)
    BY <1>6 DEF Next
  <2>2. CASE Start(w)
    BY <1>4, <1>6, <2>2 DEF Start, StartInsert, StartDelete, StartFind
  <2>3. CASE Step(w)
    <3>1. UNCHANGED phase
      BY <2>3 DEF Step, Same, insertLoad, insertCas, deleteSeek, deleteDown, deleteFound,
         deleteUp, deleteBack, deleteSwap, deleteReload, findProbe, findReturn
    <3> QED
      BY <1>4, <1>6, <3>1
  <2> QED
    BY <2>1, <2>2, <2>3
<1> QED
  BY <1>1, <1>5, <1>6

---------------------------------------------------------------------------
(* Deletes.  How far apart cells are, and how many a delete passes.        *)

LEMMA Offsets ==
  ASSUME NEW a \in Index, NEW b \in Index
  PROVE  /\ Offset(a, b) \in Nat /\ Offset(a, b) < m
         /\ Offset(a, b) = 0 <=> a = b
         /\ \A c \in Index : Offset(a, b) = Offset(a, c) <=> b = c
  BY Sizes DEF Offset, Index

LEMMA NextOffset ==
  ASSUME NEW a \in Index, NEW i \in Index
  PROVE  /\ Offset(a, i) < m - 1 => Offset(a, incrementIndex(i)) = Offset(a, i) + 1
         /\ a # i => Offset(a, decrementIndex(i)) = Offset(a, i) - 1
  BY Sizes DEF Offset, Index, incrementIndex, decrementIndex

\* From a to c by way of b.
LEMMA OffsetsAdd ==
  ASSUME NEW a \in Index, NEW b \in Index, NEW c \in Index, Offset(a, b) <= Offset(a, c)
  PROVE  Offset(a, c) = Offset(a, b) + Offset(b, c)
  BY Sizes DEF Offset, Index

\* lessIndex is right about places that are less than half the table apart.
LEMMA RightOrder ==
  ASSUME NEW f \in Index, NEW j \in Index, NEW i \in Index, j # i,
         2 * Offset(f, i) < m, 2 * Offset(j, i) < m
  PROVE  lessIndex(j, f) <=> ~(Offset(f, j) < Offset(f, i))
  BY Sizes DEF Offset, Index, lessIndex

LEMMA Enough ==
  ASSUME NEW k \in Keys
  PROVE  Cardinality(Keys) \in Nat /\ m >= 3
<1>1. IsFiniteSet(Keys) /\ Cardinality(Keys) \in Nat
  BY TableAssumption, FS_CardinalityType
<1>2. Cardinality(Keys) # 0
  BY <1>1, FS_EmptySet
<1> QED
  BY <1>1, <1>2, LoadAssumption, Sizes

LEMMA CellsFinite ==
  ASSUME NEW R \in SUBSET Index
  PROVE  IsFiniteSet(R) /\ Cardinality(R) \in Nat
<1>1. IsFiniteSet(0 .. m - 1)
  BY Sizes, FS_Interval
<1>2. R \subseteq 0 .. m - 1
  BY DEF Index
<1>3. IsFiniteSet(R)
  BY <1>1, <1>2, FS_Subset
<1> QED
  BY <1>3, FS_CardinalityType

LEMMA HowMany ==
  ASSUME NEW a \in Index, NEW b \in Index, NEW R \in SUBSET Index, Between(a, b) \subseteq R
  PROVE  Offset(a, b) <= Cardinality(R)
<1> DEFINE n == Offset(a, b)
           h == [d \in 0 .. n - 1 |-> IF a + d < m THEN a + d ELSE a + d - m]
<1>1. n \in Nat /\ n < m
  BY Offsets
<1>2. ASSUME NEW d \in 0 .. n - 1 PROVE h[d] \in Index /\ Offset(a, h[d]) = d
  BY <1>1, Sizes DEF Offset, Index
<1>3. ASSUME NEW d \in 0 .. n - 1 PROVE h[d] \in R
  <2>1. h[d] \in Index /\ Offset(a, h[d]) = d /\ d < n
    BY <1>1, <1>2
  <2> HIDE DEF h
  <2> QED
    BY <2>1, InBetween
<1>4. h \in [0 .. n - 1 -> R]
  BY <1>3
<1> HIDE DEF h
<1>5. \A d, e \in 0 .. n - 1 : h[d] = h[e] => d = e
  BY <1>2
<1>6. h \in Injection(0 .. n - 1, R)
  BY <1>4, <1>5 DEF Injection, IsInjective
<1>7. IsFiniteSet(R)
  BY CellsFinite
<1>8. Cardinality(0 .. n - 1) <= Cardinality(R)
  BY <1>6, <1>7, FS_Injection DEF ExistsInjection
<1>9. Cardinality(0 .. n - 1) = n
  <2> HIDE DEF n
  <2>1. Cardinality(0 .. n - 1) = IF 0 > n - 1 THEN 0 ELSE n - 1 - 0 + 1
    BY <1>1, FS_Interval
  <2> QED
    BY <1>1, <2>1
<1> QED
  BY <1>8, <1>9

LEMMA Short ==
  ASSUME NEW R \in SUBSET Index, Cardinality(R) <= Cardinality(Keys), NEW k \in Keys,
         NEW a \in Index, NEW b \in Index, Between(a, b) \subseteq R
  PROVE  2 * Offset(a, b) < m /\ Offset(a, b) < m - 1
<1>1. Offset(a, b) <= Cardinality(R)
  BY HowMany
<1>2. IsFiniteSet(R) /\ Cardinality(R) \in Nat
  BY CellsFinite
<1>3. Offset(a, b) \in Nat
  BY Offsets
<1> QED
  BY <1>1, <1>2, <1>3, Enough, LoadAssumption, Sizes

---------------------------------------------------------------------------
(* What a delete does from t to u when it leaves the table alone.          *)

Seeks(t, u)  == /\ t.pc = "seek" /\ t.v.key < TA[t.j].key
                /\ u.pc = "seek" /\ u.j = incrementIndex(t.j) /\ u.x = t.x
Stops(t, u)  == /\ t.pc = "seek" /\ t.v.key >= TA[t.j].key
                /\ u.pc = "check" /\ u.j = t.j /\ u.c = TA[t.j] /\ u.x = t.x
Descends(t, u) == /\ t.pc = "check" /\ t.v.key # t.c.key /\ t.j # t.i
                  /\ u.pc = "check" /\ u.j = decrementIndex(t.j) /\ u.c = TA[u.j] /\ u.x = t.x
Finds(t, u)  == /\ t.pc = "check" /\ t.v.key = t.c.key
                /\ u.pc = "up" /\ u.j = t.j /\ u.c = t.c
                /\ u.jj = incrementIndex(t.j) /\ u.x = TA[u.jj]
Climbs(t, u) == /\ t.pc = "up" /\ Stays(t.x, t.j)
                /\ u.pc = "up" /\ u.j = t.j /\ u.c = t.c
                /\ u.jj = incrementIndex(t.jj) /\ u.x = TA[u.jj]
Turns(t, u)  == /\ t.pc = "up" /\ ~Stays(t.x, t.j)
                /\ u.pc = "back" /\ u.j = t.j /\ u.c = t.c /\ u.jj = t.jj /\ u.x = t.x
                /\ u.jjj = decrementIndex(t.jj)
Skips(t, u)  == /\ t.pc = "back" /\ t.jjj # t.j /\ Stays(TA[t.jjj], t.j)
                /\ u.pc = "back" /\ u.j = t.j /\ u.c = t.c /\ u.jj = t.jj /\ u.x = t.x
                /\ u.jjj = decrementIndex(t.jjj)
Takes(t, u)  == /\ t.pc = "back" /\ t.jjj # t.j /\ ~Stays(TA[t.jjj], t.j)
                /\ u.pc = "back" /\ u.j = t.j /\ u.c = t.c /\ u.jj = t.jjj /\ u.x = TA[u.jj]
                /\ u.jjj = decrementIndex(t.jjj)
Fails(t, u)  == /\ t.pc = "back" /\ u.pc = "reload" /\ u.j = t.j /\ u.c = t.c /\ u.x = t.x
Reloads(t, u) == /\ t.pc = "reload" /\ u.pc = "check"
                 /\ u.j = t.j /\ u.c = TA[t.j] /\ u.x = t.x

Ends(t) == \/ t.pc = "seek" /\ TA[t.j] = empty /\ t.j = t.i
           \/ t.pc = "check" /\ t.v.key # t.c.key /\ t.j = t.i

Looks(t, u) ==
  /\ u \in Call /\ u.op = "delete" /\ u.v = t.v /\ u.i = t.i
  /\ \/ Seeks(t, u) \/ Stops(t, u) \/ Descends(t, u) \/ Finds(t, u) \/ Climbs(t, u)
     \/ Turns(t, u) \/ Skips(t, u) \/ Takes(t, u) \/ Fails(t, u) \/ Reloads(t, u)

\* What is known of a delete.
Deleting(t) ==
  /\ t \in Call /\ t.op = "delete" /\ t.v \in Entry /\ t.v.key \in Keys
  /\ t.pc \in {"seek", "check", "up", "back", "reload"}
  /\ t.i \in Index /\ t.j \in Index /\ t.jj \in Index /\ t.jjj \in Index
  /\ t.c \in Entry /\ t.x \in Entry

LEMMA Deletes ==
  ASSUME TypeOK, InPhase, NEW w \in Threads,
         th[w].op = "delete" \/ th[w].pc \in {"seek", "check", "up", "back", "reload"}
  PROVE  Deleting(th[w]) /\ phase = "delete"
<1>1. th[w] \in Call /\ th[w] # Idle /\ Fits(th[w])
  <2>1. th[w] # Idle
    BY IdleCall
  <2> QED
    BY <2>1 DEF TypeOK, InPhase
<1>2. /\ phase = "delete" /\ th[w].v.key \in Keys /\ th[w].op = "delete"
      /\ th[w].pc \in {"seek", "check", "up", "back", "reload"}
  BY <1>1 DEF Fits
<1> QED
  BY <1>1, <1>2 DEF Deleting, Call

LEMMA LookKinds ==
  ASSUME TypeOK, InPhase, NEW w \in Threads, LookDelete(w)
  PROVE  \/ Quiet(w, Idle) /\ Ends(th[w])
         \/ \E u : Quiet(w, u) /\ Looks(th[w], u)
<1> DEFINE t == th[w]
<1>1. Deleting(t) /\ phase = "delete"
  <2>1. t.pc \in {"seek", "check", "up", "back", "reload"}
    BY DEF LookDelete, deleteSeek, deleteDown, deleteFound, deleteUp, deleteBack, deleteReload
  <2> QED
    BY <2>1, Deletes
<1>2. UNCHANGED <<TA, hashStruct, phase, expected>>
  BY DEF LookDelete, deleteSeek, deleteDown, deleteFound, deleteUp, deleteBack, deleteReload,
         Same
<1>3. \A i \in Index : TA[i] \in Entry
  BY DEF TypeOK
<1>4. ASSUME NEW u, Looks(t, u), th' = [th EXCEPT ![w] = u]
      PROVE  Quiet(w, u)
  <2>1. u \in Call /\ Fits(u)
    BY <1>1, <1>4 DEF Looks, Deleting, Fits, Seeks, Stops, Descends, Finds, Climbs, Turns,
                      Skips, Takes, Fails, Reloads
  <2> QED
    BY <1>2, <1>4, <2>1 DEF Quiet, Moves
<1>5. ASSUME th' = [th EXCEPT ![w] = Idle] PROVE Quiet(w, Idle)
  BY <1>2, <1>5, IdleCall DEF Quiet, Moves
<1>6. CASE deleteSeek(w)
  <2> DEFINE u == [t EXCEPT !.j = incrementIndex(@)]
             r == [t EXCEPT !.pc = "check", !.c = TA[t.j]]
  <2>1. u \in Call /\ r \in Call
    BY <1>1, <1>3, NextIndex DEF Call, Deleting
  <2>2. /\ u.pc = t.pc /\ u.op = t.op /\ u.v = t.v /\ u.i = t.i /\ u.x = t.x
        /\ u.j = incrementIndex(t.j)
        /\ r.op = t.op /\ r.v = t.v /\ r.i = t.i /\ r.x = t.x /\ r.j = t.j
        /\ r.pc = "check" /\ r.c = TA[t.j]
    BY <1>1 DEF Deleting, Call
  <2>3. \/ th' = [th EXCEPT ![w] = Idle] /\ Ends(t)
        \/ th' = [th EXCEPT ![w] = u] /\ t.pc = "seek" /\ t.v.key < TA[t.j].key
        \/ th' = [th EXCEPT ![w] = r] /\ t.pc = "seek" /\ t.v.key >= TA[t.j].key
    BY <1>6 DEF deleteSeek, Go, Return, Ends
  <2> HIDE DEF u, r
  <2>4. t.pc = "seek" /\ t.v.key < TA[t.j].key => Looks(t, u)
    BY <1>1, <2>1, <2>2 DEF Looks, Seeks, Deleting
  <2>5. t.pc = "seek" /\ t.v.key >= TA[t.j].key => Looks(t, r)
    BY <1>1, <2>1, <2>2 DEF Looks, Stops, Deleting
  <2> QED
    BY <1>4, <1>5, <2>3, <2>4, <2>5
<1>7. CASE deleteDown(w)
  <2> DEFINE u == [t EXCEPT !.j = decrementIndex(@), !.c = TA[decrementIndex(t.j)]]
  <2>1. u \in Call
    BY <1>1, <1>3, NextIndex DEF Call, Deleting
  <2>2. /\ u.pc = t.pc /\ u.op = t.op /\ u.v = t.v /\ u.i = t.i /\ u.x = t.x
        /\ u.j = decrementIndex(t.j) /\ u.c = TA[u.j]
    BY <1>1 DEF Deleting, Call
  <2>3. /\ t.pc = "check" /\ t.v.key # t.c.key
        /\ \/ th' = [th EXCEPT ![w] = Idle] /\ t.j = t.i
           \/ th' = [th EXCEPT ![w] = u] /\ t.j # t.i
    BY <1>7 DEF deleteDown, Go, Return
  <2> HIDE DEF u
  <2>4. t.j # t.i => Looks(t, u)
    BY <1>1, <2>1, <2>2, <2>3 DEF Looks, Descends, Deleting
  <2>5. t.j = t.i => Ends(t)
    BY <2>3 DEF Ends
  <2> QED
    BY <1>4, <1>5, <2>3, <2>4, <2>5
<1>8. CASE deleteFound(w)
  <2> DEFINE k == incrementIndex(t.j)
             u == [t EXCEPT !.pc = "up", !.jj = k, !.x = TA[k]]
  <2>1. u \in Call
    BY <1>1, <1>3, NextIndex DEF Call, Deleting
  <2>2. /\ u.op = t.op /\ u.v = t.v /\ u.i = t.i /\ u.j = t.j /\ u.c = t.c
        /\ u.pc = "up" /\ u.jj = k /\ u.x = TA[u.jj]
    BY <1>1 DEF Deleting, Call
  <2>3. t.pc = "check" /\ t.v.key = t.c.key /\ th' = [th EXCEPT ![w] = u]
    BY <1>8 DEF deleteFound, Go
  <2> HIDE DEF u
  <2>4. Looks(t, u)
    BY <1>1, <2>1, <2>2, <2>3 DEF Looks, Finds, Deleting
  <2> QED
    BY <1>4, <2>3, <2>4
<1>9. CASE deleteUp(w)
  <2> DEFINE k == incrementIndex(t.jj)
             u == [t EXCEPT !.jj = k, !.x = TA[k]]
             r == [t EXCEPT !.pc = "back", !.jjj = decrementIndex(t.jj)]
  <2>1. u \in Call /\ r \in Call
    BY <1>1, <1>3, NextIndex DEF Call, Deleting
  <2>2. /\ u.op = t.op /\ u.v = t.v /\ u.i = t.i /\ u.j = t.j /\ u.c = t.c
        /\ u.pc = t.pc /\ u.jj = k /\ u.x = TA[u.jj]
        /\ r.op = t.op /\ r.v = t.v /\ r.i = t.i /\ r.j = t.j /\ r.c = t.c
        /\ r.pc = "back" /\ r.jj = t.jj /\ r.x = t.x /\ r.jjj = decrementIndex(t.jj)
    BY <1>1 DEF Deleting, Call
  <2>3. /\ t.pc = "up"
        /\ \/ th' = [th EXCEPT ![w] = u] /\ Stays(t.x, t.j)
           \/ th' = [th EXCEPT ![w] = r] /\ ~Stays(t.x, t.j)
    BY <1>9 DEF deleteUp, Go
  <2> HIDE DEF u, r
  <2>4. Stays(t.x, t.j) => Looks(t, u)
    BY <1>1, <2>1, <2>2, <2>3 DEF Looks, Climbs, Deleting
  <2>5. ~Stays(t.x, t.j) => Looks(t, r)
    BY <1>1, <2>1, <2>2, <2>3 DEF Looks, Turns, Deleting
  <2> QED
    BY <1>4, <2>3, <2>4, <2>5
<1>10. CASE deleteBack(w)
  <2> DEFINE u == [t EXCEPT !.jjj = decrementIndex(@)]
             r == [u EXCEPT !.x = TA[t.jjj], !.jj = t.jjj]
  <2>1. u \in Call /\ r \in Call
    BY <1>1, <1>3, NextIndex DEF Call, Deleting
  <2>2. /\ u.op = t.op /\ u.v = t.v /\ u.i = t.i /\ u.j = t.j /\ u.c = t.c
        /\ u.pc = t.pc /\ u.jj = t.jj /\ u.x = t.x /\ u.jjj = decrementIndex(t.jjj)
        /\ r.op = t.op /\ r.v = t.v /\ r.i = t.i /\ r.j = t.j /\ r.c = t.c
        /\ r.pc = t.pc /\ r.jj = t.jjj /\ r.x = TA[r.jj] /\ r.jjj = decrementIndex(t.jjj)
    BY <1>1 DEF Deleting, Call
  <2>3. /\ t.pc = "back" /\ t.jjj # t.j
        /\ \/ th' = [th EXCEPT ![w] = u] /\ Stays(TA[t.jjj], t.j)
           \/ th' = [th EXCEPT ![w] = r] /\ ~Stays(TA[t.jjj], t.j)
    BY <1>10 DEF deleteBack, Go
  <2> HIDE DEF u, r
  <2>4. Stays(TA[t.jjj], t.j) => Looks(t, u)
    BY <1>1, <2>1, <2>2, <2>3 DEF Looks, Skips, Deleting
  <2>5. ~Stays(TA[t.jjj], t.j) => Looks(t, r)
    BY <1>1, <2>1, <2>2, <2>3 DEF Looks, Takes, Deleting
  <2> QED
    BY <1>4, <2>3, <2>4, <2>5
<1>11. CASE deleteReload(w)
  <2> DEFINE u == [t EXCEPT !.pc = "check", !.c = TA[t.j]]
  <2>1. u \in Call
    BY <1>1, <1>3 DEF Call, Deleting
  <2>2. /\ u.op = t.op /\ u.v = t.v /\ u.i = t.i /\ u.j = t.j /\ u.x = t.x
        /\ u.pc = "check" /\ u.c = TA[t.j]
    BY <1>1 DEF Deleting, Call
  <2>3. t.pc = "reload" /\ th' = [th EXCEPT ![w] = u]
    BY <1>11 DEF deleteReload, Go
  <2> HIDE DEF u
  <2>4. Looks(t, u)
    BY <1>1, <2>1, <2>2, <2>3 DEF Looks, Reloads, Deleting
  <2> QED
    BY <1>4, <2>3, <2>4
<1> QED
  BY <1>6, <1>7, <1>8, <1>9, <1>10, <1>11 DEF LookDelete

\* The step that fills cell j with x, or finds the cell changed.
Fills(t, u) ==
  /\ t.pc = "back" /\ t.jjj = t.j /\ TA[t.j] = t.c
  /\ \/ t.x = empty /\ u = Idle
     \/ /\ t.x # empty /\ u \in Call /\ u.op = "delete" /\ u.pc = "reload"
        /\ u.v = t.x /\ u.x = t.x /\ u.j = t.jj /\ u.i = firstIndex(t.x) /\ u.c = t.c

LEMMA SwapKinds ==
  ASSUME TypeOK, InPhase, NEW w \in Threads, deleteSwap(w)
  PROVE  \/ \E u : Quiet(w, u) /\ Looks(th[w], u)
         \/ \E u : Fills(th[w], u) /\ Puts(w, u, th[w].j, th[w].x)
<1> DEFINE t == th[w]
           u == [t EXCEPT !.pc = "reload"]
           r == [u EXCEPT !.v = t.x, !.j = t.jj, !.i = firstIndex(t.x)]
<1>1. Deleting(t) /\ phase = "delete" /\ t.pc = "back"
  BY Deletes DEF deleteSwap
<1>2. UNCHANGED <<hashStruct, phase, expected>>
  BY DEF deleteSwap, Same
<1>3. u \in Call
  BY <1>1 DEF Call, Deleting
<1>4. /\ u.op = "delete" /\ u.v = t.v /\ u.i = t.i /\ u.j = t.j /\ u.x = t.x
      /\ u.pc = "reload" /\ u.c = t.c
      /\ r.op = "delete" /\ r.v = t.x /\ r.i = firstIndex(t.x) /\ r.j = t.jj /\ r.x = t.x
      /\ r.pc = "reload" /\ r.c = t.c
  BY <1>1 DEF Call, Deleting
<1>5. t.x # empty => r \in Call /\ t.x.key \in Keys
  <2> SUFFICES ASSUME t.x # empty PROVE r \in Call /\ t.x.key \in Keys
    OBVIOUS
  <2>1. t.x.key \in Keys
    BY <1>1, Entries0 DEF Deleting
  <2>2. firstIndex(t.x) \in Index
    BY <2>1 DEF TypeOK, firstIndex
  <2> QED
    BY <1>1, <2>1, <2>2 DEF Call, Deleting
<1>6. \/ th' = [th EXCEPT ![w] = u] /\ TA' = TA
      \/ /\ TA[t.j] = t.c /\ TA' = [TA EXCEPT ![t.j] = t.x] /\ t.jjj = t.j
         /\ \/ t.x = empty /\ th' = [th EXCEPT ![w] = Idle]
            \/ t.x # empty /\ th' = [th EXCEPT ![w] = r]
  BY DEF deleteSwap, Go, Return
<1> HIDE DEF u, r
<1>7. CASE th' = [th EXCEPT ![w] = u] /\ TA' = TA
  <2>1. Fits(u)
    BY <1>1, <1>4 DEF Fits, Deleting
  <2>2. Quiet(w, u)
    BY <1>2, <1>3, <1>7, <2>1 DEF Quiet, Moves
  <2>3. Looks(t, u)
    BY <1>1, <1>3, <1>4 DEF Looks, Fails
  <2> QED
    BY <2>2, <2>3
<1>8. CASE /\ TA[t.j] = t.c /\ TA' = [TA EXCEPT ![t.j] = t.x] /\ t.jjj = t.j
           /\ t.x = empty /\ th' = [th EXCEPT ![w] = Idle]
  <2>1. Fills(t, Idle)
    BY <1>1, <1>8 DEF Fills
  <2>2. Puts(w, Idle, t.j, t.x)
    BY <1>1, <1>2, <1>8, IdleCall DEF Puts, Moves, Deleting
  <2> QED
    BY <2>1, <2>2
<1>9. CASE /\ TA[t.j] = t.c /\ TA' = [TA EXCEPT ![t.j] = t.x] /\ t.jjj = t.j
           /\ t.x # empty /\ th' = [th EXCEPT ![w] = r]
  <2>1. Fills(t, r)
    BY <1>1, <1>4, <1>5, <1>9 DEF Fills
  <2>2. Fits(r)
    BY <1>1, <1>4, <1>5, <1>9 DEF Fits
  <2>3. Puts(w, r, t.j, t.x)
    BY <1>1, <1>2, <1>5, <1>9, <2>2 DEF Puts, Moves, Deleting
  <2> QED
    BY <2>1, <2>3
<1> QED
  BY <1>6, <1>7, <1>8, <1>9

---------------------------------------------------------------------------
(* Deletes stay among the cells that were full when their phase began.     *)

LEMMA First ==
  ASSUME TypeOK, NEW e \in Entry, e # empty
  PROVE  e.key \in Keys /\ firstIndex(e) \in Index
  BY Entries0 DEF TypeOK, firstIndex

LEMMA FullCell ==
  ASSUME TypeOK, NEW R \in SUBSET Index, Room(R), NEW p \in Index, TA[p] # empty
  PROVE  /\ p \in R /\ Between(firstIndex(TA[p]), p) \subseteq R
         /\ TA[p].key \in Keys /\ firstIndex(TA[p]) \in Index
         /\ 2 * Offset(firstIndex(TA[p]), p) < m
         /\ expected[TA[p].key] \in {0, TA[p].val}
<1>1. TA[p] \in Entry
  BY DEF TypeOK
<1>2. TA[p].key \in Keys /\ firstIndex(TA[p]) \in Index
  BY <1>1, First
<1>3. /\ p \in R /\ Between(firstIndex(TA[p]), p) \subseteq R
      /\ expected[TA[p].key] \in {0, TA[p].val}
  BY DEF Room
<1>4. Cardinality(R) <= Cardinality(Keys)
  BY DEF Room
<1> QED
  BY <1>2, <1>3, <1>4, Short

\* The places a delete compares are less than half the table apart.
LEMMA Nearby ==
  ASSUME TypeOK, NEW R \in SUBSET Index, Room(R), NEW t, Deleting(t), InRoom(t, R)
  PROVE  /\ Offset(t.i, t.j) < m - 1
         /\ t.pc \in {"up", "back"} =>
              /\ Offset(t.j, t.jj) < m - 1 /\ 2 * Offset(t.j, t.jj) < m
              /\ t.x # empty =>
                   /\ firstIndex(t.x) \in Index
                   /\ Stays(t.x, t.j) <=> ~(t.j \in Between(firstIndex(t.x), t.jj))
<1>1. Cardinality(R) <= Cardinality(Keys) /\ t.v.key \in Keys
  BY DEF Room, Deleting
<1>2. Offset(t.i, t.j) < m - 1
  BY <1>1, Short DEF InRoom, Deleting
<1>3. ASSUME t.pc \in {"up", "back"}
      PROVE  Offset(t.j, t.jj) < m - 1 /\ 2 * Offset(t.j, t.jj) < m
  BY <1>1, <1>3, Short DEF InRoom, Deleting
<1>4. ASSUME t.pc \in {"up", "back"}, t.x # empty
      PROVE  /\ firstIndex(t.x) \in Index
             /\ Stays(t.x, t.j) <=> ~(t.j \in Between(firstIndex(t.x), t.jj))
  <2>1. firstIndex(t.x) \in Index /\ t.j \in Index /\ t.jj \in Index
    BY <1>4, First DEF Deleting
  <2>2. Between(firstIndex(t.x), t.jj) \subseteq R /\ t.jj # t.j
    BY <1>4 DEF InRoom
  <2>3. 2 * Offset(firstIndex(t.x), t.jj) < m
    BY <1>1, <2>1, <2>2, Short
  <2>4. lessIndex(t.j, firstIndex(t.x))
          <=> ~(Offset(firstIndex(t.x), t.j) < Offset(firstIndex(t.x), t.jj))
    BY <1>3, <1>4, <2>1, <2>2, <2>3, RightOrder
  <2> QED
    BY <1>4, <2>1, <2>4, InBetween DEF Stays
<1> QED
  BY <1>2, <1>3, <1>4

\* The cells before the next one, and before the one before.
LEMMA PassedNext ==
  ASSUME NEW R \in SUBSET Index, NEW a \in Index, NEW i \in R, Between(a, i) \subseteq R
  PROVE  Between(a, incrementIndex(i)) \subseteq R
  BY OnePassed

LEMMA PassedLess ==
  ASSUME NEW a \in Index, NEW i \in Index, NEW j \in Index, Offset(a, i) <= Offset(a, j)
  PROVE  Between(a, i) \subseteq Between(a, j)
<1> SUFFICES ASSUME NEW b \in Between(a, i) PROVE b \in Between(a, j)
  OBVIOUS
<1>1. b \in Index /\ Offset(a, b) < Offset(a, i)
  BY InBetween
<1>2. Offset(a, b) \in Nat /\ Offset(a, i) \in Nat /\ Offset(a, j) \in Nat
  BY <1>1, Offsets
<1> QED
  BY <1>1, <1>2, InBetween

LEMMA PassedBefore ==
  ASSUME NEW a \in Index, NEW i \in Index, a # i
  PROVE  /\ decrementIndex(i) \in Between(a, i)
         /\ Between(a, decrementIndex(i)) \subseteq Between(a, i)
<1>1. decrementIndex(i) \in Index /\ Offset(a, decrementIndex(i)) = Offset(a, i) - 1
  BY NextIndex, NextOffset
<1>2. Offset(a, i) \in Nat
  BY Offsets
<1> QED
  BY <1>1, <1>2, InBetween, PassedLess

LEMMA LookRoom ==
  ASSUME TypeOK, NEW R \in SUBSET Index, Room(R), NEW t, NEW u,
         Deleting(t), InRoom(t, R), t.pc \in {"up", "back"} => t.c.key = t.v.key, Looks(t, u)
  PROVE  InRoom(u, R)
<1>1. /\ u.v = t.v /\ u.i = t.i /\ t.i = firstIndex(t.v) /\ t.i \in Index /\ t.j \in Index
      /\ t.jj \in Index /\ t.jjj \in Index /\ t.x \in Entry /\ t.c \in Entry
      /\ t.v.key \in Keys
      /\ Between(t.i, t.j) \subseteq R /\ (t.pc = "seek" => expected[t.v.key] = 0)
      /\ t.x # empty => expected[t.x.key] \in {0, t.x.val}
  BY DEF Looks, InRoom, Deleting
<1>2. \A p \in Index : TA[p] # empty =>
        /\ p \in R /\ Between(firstIndex(TA[p]), p) \subseteq R
        /\ expected[TA[p].key] \in {0, TA[p].val}
  BY FullCell
<1>3. \A p \in Index : TA[p].key = t.v.key => TA[p] # empty
  BY <1>1, Sizes DEF empty
<1>4. CASE Seeks(t, u)
  <2>1. TA[t.j] # empty
    <3>1. t.v.key < TA[t.j].key /\ t.v.key \in Nat
      BY <1>1, <1>4, Sizes DEF Seeks
    <3> QED
      BY <3>1 DEF empty
  <2>2. Between(t.i, incrementIndex(t.j)) \subseteq R
    BY <1>1, <1>2, <2>1, PassedNext
  <2> QED
    BY <1>1, <1>4, <2>2 DEF Seeks, InRoom
<1>5. CASE Stops(t, u)
  <2>1. u.c.key = u.v.key => u.j \in R
    BY <1>1, <1>2, <1>3, <1>5 DEF Stops
  <2> QED
    BY <1>1, <1>5, <2>1 DEF Stops, InRoom
<1>6. CASE Descends(t, u)
  <2>1. u.j \in Index /\ Between(u.i, u.j) \subseteq R
    BY <1>1, <1>6, PassedBefore, NextIndex DEF Descends
  <2>2. u.c.key = u.v.key => u.j \in R
    BY <1>1, <1>2, <1>3, <1>6, <2>1 DEF Descends
  <2> QED
    BY <1>1, <1>6, <2>1, <2>2 DEF Descends, InRoom
<1>7. CASE Finds(t, u)
  <2>1. t.j \in R /\ u.jj \in Index /\ u.j = t.j /\ u.pc = "up" /\ u.x = TA[u.jj]
    BY <1>1, <1>7, NextIndex DEF Finds, InRoom
  <2>2. u.jj # t.j
    BY <1>1, <1>7, Enough DEF Finds, incrementIndex, Index
  <2>3. Between(t.j, u.jj) \subseteq R
    BY <1>1, <1>7, <2>1, NothingPassed, PassedNext DEF Finds
  <2> QED
    BY <1>1, <1>2, <2>1, <2>2, <2>3 DEF InRoom
<1>8. CASE t.pc \in {"up", "back"}
  <2>1. /\ t.j \in R /\ Between(t.j, t.jj) \subseteq R /\ t.jj # t.j
        /\ t.x # empty => t.jj \in R /\ Between(firstIndex(t.x), t.jj) \subseteq R
    BY <1>8 DEF InRoom
  <2>2. CASE Climbs(t, u)
    <3>1. t.x # empty
      BY <2>2 DEF Climbs, Stays
    <3>2. u.jj \in Index /\ Between(t.j, u.jj) \subseteq R
      BY <1>1, <2>1, <2>2, <3>1, PassedNext, NextIndex DEF Climbs
    <3>3. u.jj # t.j
      <4>1. Offset(t.j, t.jj) < m - 1
        BY <1>8, Nearby
      <4>2. Offset(t.j, u.jj) = Offset(t.j, t.jj) + 1 /\ Offset(t.j, t.jj) \in Nat
        BY <1>1, <2>2, <4>1, NextOffset, Offsets DEF Climbs
      <4>3. Offset(t.j, t.j) = 0
        BY <1>1, Offsets
      <4> QED
        BY <4>2, <4>3
    <3> QED
      BY <1>1, <1>2, <2>1, <2>2, <3>2, <3>3 DEF Climbs, InRoom
  <2>3. CASE Turns(t, u)
    <3>1. u.jjj \in Between(t.j, t.jj)
      BY <1>1, <2>1, <2>3, PassedBefore DEF Turns
    <3> QED
      BY <1>1, <2>1, <2>3, <3>1 DEF Turns, InRoom
  <2>4. CASE Skips(t, u)
    <3>1. t.jjj \in Between(t.j, t.jj) /\ t.jjj # t.j /\ (t.x # empty => ~Stays(t.x, t.j))
      BY <2>4 DEF Skips, InRoom
    <3>2. Offset(t.j, t.jjj) <= Offset(t.j, t.jj)
      BY <1>1, <3>1, InBetween, Offsets
    <3>3. u.jjj \in Between(t.j, t.jj)
      BY <1>1, <2>4, <3>1, <3>2, PassedBefore, PassedLess DEF Skips
    <3> QED
      BY <1>1, <2>1, <2>4, <3>1, <3>3 DEF Skips, InRoom
  <2>5. CASE Takes(t, u)
    <3>1. t.jjj \in Between(t.j, t.jj) /\ t.jjj # t.j
      BY <2>5 DEF Takes, InRoom
    <3>2. Offset(t.j, t.jjj) <= Offset(t.j, t.jj)
      BY <1>1, <3>1, InBetween, Offsets
    <3>3. Between(t.j, t.jjj) \subseteq R
      BY <1>1, <2>1, <3>2, PassedLess
    <3>4. u.jjj \in Between(t.j, t.jjj)
      BY <1>1, <2>5, <3>1, PassedBefore DEF Takes
    <3> QED
      BY <1>1, <1>2, <2>1, <2>5, <3>1, <3>3, <3>4 DEF Takes, InRoom
  <2>6. CASE Fails(t, u)
    BY <1>1, <2>1, <2>6 DEF Fails, InRoom
  <2> QED
    BY <1>8, <2>2, <2>3, <2>4, <2>5, <2>6
       DEF Looks, Seeks, Stops, Descends, Finds, Reloads
<1>9. CASE Reloads(t, u)
  <2>1. u.c.key = u.v.key => u.j \in R
    BY <1>1, <1>2, <1>3, <1>9 DEF Reloads
  <2> QED
    BY <1>1, <1>9, <2>1 DEF Reloads, InRoom
<1> QED
  BY <1>4, <1>5, <1>6, <1>7, <1>8, <1>9 DEF Looks, Climbs, Turns, Skips, Takes, Fails

\* A step that leaves the cells as full as they are.
LEMMA RoomNext ==
  ASSUME TypeOK, InPhase, DeleteInv, phase = "delete", NEW R \in SUBSET Index, Room(R),
         NEW w \in Threads, LookDelete(w) \/ deleteSwap(w)
  PROVE  Room(R)'
<1>1. th[w].pc \in {"seek", "check", "up", "back", "reload"}
  BY DEF LookDelete, deleteSeek, deleteDown, deleteFound, deleteUp, deleteBack, deleteReload,
         deleteSwap
<1>2. Deleting(th[w]) /\ InRoom(th[w], R) /\ th[w].op = "delete"
  BY <1>1, Deletes DEF Room, Deleting
<1>3. th[w].pc \in {"up", "back"} => th[w].c.key = th[w].v.key
  BY DEF DeleteInv
<1>4. ASSUME NEW u, th' = [th EXCEPT ![w] = u], UNCHANGED <<hashStruct, expected>>,
             u.op = "delete" => InRoom(u, R),
             \A p \in Index : TA'[p] # empty =>
               /\ Between(firstIndex(TA'[p]), p) \cup {p} \subseteq R
               /\ expected[TA'[p].key] \in {0, TA'[p].val}
      PROVE  Room(R)'
  <2>1. \A e : firstIndex(e)' = firstIndex(e)
    BY <1>4 DEF firstIndex
  <2>2. \A y \in Threads : th'[y] = IF y = w THEN u ELSE th[y]
    BY <1>4 DEF TypeOK
  <2>3. \A y \in Threads : th'[y].op = "delete" => InRoom(th'[y], R)
    BY <1>4, <2>2 DEF Room
  <2>4. \A y \in Threads : th'[y].op = "delete" => InRoom(th[y], R)'
    <3> SUFFICES ASSUME NEW y \in Threads, th'[y].op = "delete"
                 PROVE  InRoom(th[y], R)'
      OBVIOUS
    <3>1. PICK a : a = th'[y] /\ InRoom(a, R)
      BY <2>3
    <3>2. InRoom(a, R)'
      BY <1>4, <2>1, <3>1 DEF InRoom, Stays, empty, Between, Index, lessIndex
    <3> QED
      BY <3>1, <3>2 DEF InRoom, Stays, empty, Between, Index, lessIndex
  <2>5. \A p \in Index : TA'[p] # empty =>
          /\ Between(firstIndex(TA[p])', p) \cup {p} \subseteq R
          /\ expected'[TA'[p].key] \in {0, TA'[p].val}
    BY <1>4, <2>1
  <2>6. Cardinality(R) <= Cardinality(Keys)
    BY DEF Room
  <2> QED
    BY <2>4, <2>5, <2>6 DEF Room, empty, Between, Index
<1>5. ASSUME NEW u, Quiet(w, u), u = Idle \/ Looks(th[w], u)
      PROVE  Room(R)'
  <2>1. u.op = "delete" => InRoom(u, R)
    BY <1>2, <1>3, <1>5, LookRoom, IdleCall
  <2>2. th' = [th EXCEPT ![w] = u] /\ UNCHANGED <<TA, hashStruct, expected>>
    BY <1>5 DEF Quiet, Moves
  <2>3. \A p \in Index : TA'[p] # empty =>
          /\ Between(firstIndex(TA'[p]), p) \cup {p} \subseteq R
          /\ expected[TA'[p].key] \in {0, TA'[p].val}
    BY <2>2 DEF Room
  <2> QED
    BY <1>4, <2>1, <2>2, <2>3
<1>6. ASSUME NEW u, Fills(th[w], u), Puts(w, u, th[w].j, th[w].x)
      PROVE  Room(R)'
  <2>1. PICK t : t = th[w]
    OBVIOUS
  <2>2. /\ th' = [th EXCEPT ![w] = u] /\ UNCHANGED <<hashStruct, expected>>
        /\ TA' = [TA EXCEPT ![t.j] = t.x]
    BY <1>6, <2>1 DEF Puts, Moves
  <2>3. /\ Deleting(t) /\ InRoom(t, R) /\ t.j \in Index /\ t.jj \in Index /\ t.c.key = t.v.key
        /\ t.pc = "back" /\ t.x \in Entry
    BY <1>2, <1>3, <1>6, <2>1 DEF Deleting, Fills
  <2>4. t.j \in R /\ (t.x # empty => expected[t.x.key] \in {0, t.x.val})
    BY <2>3 DEF InRoom
  <2>5. ASSUME t.x # empty
        PROVE  /\ Between(firstIndex(t.x), t.jj) \cup {t.jj} \subseteq R
               /\ Between(firstIndex(t.x), t.j) \subseteq R
    <3>1. Between(firstIndex(t.x), t.jj) \cup {t.jj} \subseteq R /\ ~Stays(t.x, t.j)
      BY <2>3, <2>5 DEF InRoom
    <3>2. firstIndex(t.x) \in Index /\ t.j \in Between(firstIndex(t.x), t.jj)
      BY <2>3, <2>5, <3>1, Nearby
    <3>3. Offset(firstIndex(t.x), t.j) <= Offset(firstIndex(t.x), t.jj)
      BY <2>3, <3>2, InBetween, Offsets
    <3> QED
      BY <2>3, <3>1, <3>2, <3>3, PassedLess
  <2>6. u.op = "delete" => InRoom(u, R)
    <3>1. CASE u = Idle
      BY <3>1, IdleCall
    <3>2. CASE u # Idle
      <4>1. /\ t.x # empty /\ u.pc = "reload" /\ u.v = t.x /\ u.x = t.x
            /\ u.j = t.jj /\ u.i = firstIndex(t.x) /\ u.c = t.c
        BY <1>6, <2>1, <3>2 DEF Fills
      <4> QED
        BY <2>4, <2>5, <4>1 DEF InRoom
    <3> QED
      BY <3>1, <3>2
  <2>7. \A p \in Index : TA'[p] # empty =>
          /\ Between(firstIndex(TA'[p]), p) \cup {p} \subseteq R
          /\ expected[TA'[p].key] \in {0, TA'[p].val}
    <3> SUFFICES ASSUME NEW p \in Index, TA'[p] # empty
                 PROVE  /\ Between(firstIndex(TA'[p]), p) \cup {p} \subseteq R
                        /\ expected[TA'[p].key] \in {0, TA'[p].val}
      OBVIOUS
    <3>1. TA'[p] = IF p = t.j THEN t.x ELSE TA[p]
      BY <2>2, <2>3 DEF TypeOK
    <3>2. CASE p = t.j
      BY <2>4, <2>5, <3>1, <3>2
    <3>3. CASE p # t.j
      BY <3>1, <3>3 DEF Room
    <3> QED
      BY <3>2, <3>3
  <2> QED
    BY <1>4, <2>2, <2>6, <2>7
<1>7. LookDelete(w) => Room(R)'
  BY <1>5, LookKinds
<1>8. deleteSwap(w) => Room(R)'
  BY <1>5, <1>6, SwapKinds
<1> QED
  BY <1>7, <1>8

---------------------------------------------------------------------------
(* Deletes share the copies among them: the steps that only look.          *)

\* What is known of an entry that lasts.
LEMMA Lasts ==
  ASSUME TypeOK, NEW mine, Shared(mine), NEW p \in Lasting(mine)
  PROVE  /\ p \in Index /\ TA[p] # empty /\ TA[p] \in Entry /\ TA[p].key \in Keys
         /\ firstIndex(TA[p]) \in Index /\ \A w \in Threads : mine[w] # p
         /\ \A b \in Index : TA[b].key <= TA[p].key
              => Offset(firstIndex(TA[p]), p) <= Offset(firstIndex(TA[p]), b)
         /\ \A v : v.key = TA[p].key => firstIndex(v) = firstIndex(TA[p])
         /\ Passed(TA[p], p) /\ Wanted(TA[p].key)
         /\ \A w \in Threads : Heeds(th[w], mine[w], p)
<1>1. p \in Index /\ TA[p] # empty /\ TA[p] \in Entry /\ \A w \in Threads : mine[w] # p
  BY DEF Lasting, TypeOK
<1>2. TA[p].key \in Keys /\ firstIndex(TA[p]) \in Index
  BY <1>1, First
<1>3. Passed(TA[p], p) /\ Wanted(TA[p].key) /\ \A w \in Threads : Heeds(th[w], mine[w], p)
  BY DEF Shared
<1>4. ASSUME NEW b \in Index, TA[b].key <= TA[p].key
      PROVE  Offset(firstIndex(TA[p]), p) <= Offset(firstIndex(TA[p]), b)
  <2>1. TA[b].key \in Nat /\ TA[p].key \in Nat
    BY <1>1, Entries0 DEF TypeOK
  <2>2. b \notin Between(firstIndex(TA[p]), p)
    BY <1>3, <1>4, <2>1 DEF Passed
  <2>3. ~(Offset(firstIndex(TA[p]), b) < Offset(firstIndex(TA[p]), p))
    BY <1>1, <1>2, <2>2, InBetween
  <2> QED
    BY <1>1, <1>2, <2>3, Offsets
<1>5. \A v : v.key = TA[p].key => firstIndex(v) = firstIndex(TA[p])
  BY DEF firstIndex
<1> QED
  BY <1>1, <1>2, <1>3, <1>4, <1>5

LEMMA OneLasts ==
  ASSUME TypeOK, NEW mine, Shared(mine), NEW p \in Lasting(mine), NEW q \in Lasting(mine),
         TA[p].key = TA[q].key
  PROVE  p = q
<1>1. PICK f \in Index : f = firstIndex(TA[p])
  BY Lasts
<1>2. p \in Index /\ q \in Index /\ f = firstIndex(TA[q]) /\ TA[p].key \in Nat
  BY <1>1, Lasts, Sizes
<1>3. Offset(f, p) <= Offset(f, q) /\ Offset(f, q) <= Offset(f, p)
  BY <1>1, <1>2, Lasts
<1>4. Offset(f, p) = Offset(f, q)
  BY <1>2, <1>3, Offsets
<1> QED
  BY <1>2, <1>4, Offsets

\* A call goes on with the copy it has, or takes one that lasts and that only it
\* was looking for.
LEMMA SharedMove ==
  ASSUME TypeOK, NEW mine \in [Threads -> Index \cup {m}], Shared(mine),
         NEW w \in Threads, NEW u, th' = [th EXCEPT ![w] = u],
         UNCHANGED <<TA, hashStruct, expected>>,
         NEW q \in Index \cup {m}, NEW n, n = [mine EXCEPT ![w] = q],
         \/ q = mine[w]
         \/ q \in Lasting(mine) /\ mine[w] = m /\ expected[TA[q].key] = 0,
         Owns(u, q), \A p \in Lasting(mine) \ {q} : Heeds(u, q, p),
         \A p \in Lasting(mine) \ {q} : th[w].pc = "seek" /\ TA[p].key = th[w].v.key
                                          => u.pc = "seek" /\ u.v = th[w].v
  PROVE  Shared(n)'
<1>1. /\ \A y \in Threads : th'[y] = IF y = w THEN u ELSE th[y]
      /\ \A y \in Threads : n[y] = IF y = w THEN q ELSE mine[y]
  BY DEF TypeOK
<1>2. \A e : firstIndex(e)' = firstIndex(e)
  BY DEF firstIndex
<1>3. Lasting(n) = Lasting(mine) \ {q}
  BY <1>1, Sizes DEF Lasting, Index
<1>4. /\ \A t, r : Owns(t, r)' <=> Owns(t, r)
      /\ \A t, r, p : Heeds(t, r, p)' <=> Heeds(t, r, p)
      /\ \A v, i : Passed(v, i)' <=> Passed(v, i)
      /\ Lasting(n)' = Lasting(mine) \ {q}
  BY <1>2, <1>3 DEF Owns, Heeds, Passed, Lasting, Reach, Seen, Offset, empty, Between, Index
<1>5. ASSUME NEW y \in Threads PROVE Owns(th'[y], n[y])
  BY <1>1, <1>5 DEF Shared
<1>6. ASSUME NEW y \in Threads, NEW p \in Lasting(mine) \ {q} PROVE Heeds(th'[y], n[y], p)
  BY <1>1, <1>6 DEF Shared
<1>7. ASSUME NEW p \in Lasting(mine) \ {q} PROVE Wanted(TA[p].key)'
  <2>1. Wanted(TA[p].key)
    BY DEF Shared
  <2>2. CASE expected[TA[p].key] # 0
    BY <2>2 DEF Wanted
  <2>3. CASE expected[TA[p].key] = 0
    <3>1. PICK y \in Threads : th[y].pc = "seek" /\ th[y].v.key = TA[p].key
      BY <2>1, <2>3 DEF Wanted
    <3>2. th'[y].pc = "seek" /\ th'[y].v.key = TA[p].key
      BY <1>1, <3>1
    <3> QED
      BY <3>2 DEF Wanted
  <2> QED
    BY <2>2, <2>3
<1>8. \A y \in Threads : Owns(th[y], n[y])'
  BY <1>4, <1>5 DEF Owns, Reach, Offset
<1>9. \A p \in Lasting(n)' : Passed(TA[p], p)' /\ Wanted(TA[p].key)'
  BY <1>4, <1>7 DEF Shared, Passed, Between, Index
<1>10. \A p \in Lasting(n)' : \A y \in Threads : Heeds(th[y], n[y], p)'
  <2> SUFFICES ASSUME NEW p \in Lasting(mine) \ {q}, NEW y \in Threads
               PROVE  Heeds(th[y], n[y], p)'
    BY <1>4
  <2>1. PICK a : a = th'[y] /\ Heeds(a, n[y], p)'
    BY <1>4, <1>6
  <2> QED
    BY <2>1 DEF Heeds, Seen, Offset, Between, Index
<1>11. \A x, y \in Threads : x # y /\ n[x] # m => n[y] # n[x]
  BY <1>1 DEF Shared, Lasting
<1>12. \A k \in Keys : expected'[k] # 0 => \E p \in Lasting(n)' : TA'[p].key = k
  <2> SUFFICES ASSUME NEW k \in Keys, expected[k] # 0
               PROVE  \E p \in Lasting(mine) \ {q} : TA[p].key = k
    BY <1>4
  <2>1. PICK p \in Lasting(mine) : TA[p].key = k
    BY DEF Shared
  <2>2. p # q
    BY <2>1 DEF Lasting
  <2> QED
    BY <2>1, <2>2
<1> QED
  BY <1>8, <1>9, <1>10, <1>11, <1>12 DEF Shared

LEMMA LookOwns ==
  ASSUME TypeOK, NEW R \in SUBSET Index, Room(R), NEW t, NEW u, Deleting(t), InRoom(t, R),
         NEW q \in Index \cup {m}, Owns(t, q), Looks(t, u)
  PROVE  Owns(u, q)
<1> SUFFICES ASSUME q # m PROVE u.op = "delete" /\ TA[q].key = u.v.key /\ Offset(u.i, q) <= Reach(u)
  BY DEF Owns
<1>1. /\ u.op = "delete" /\ u.v = t.v /\ u.i = t.i /\ TA[q].key = t.v.key
      /\ Offset(t.i, q) <= Reach(t)
      /\ q \in Index /\ t.i \in Index /\ t.j \in Index
  BY DEF Owns, Looks, Deleting
<1>2. Offset(t.i, q) \in Nat /\ Offset(t.i, t.j) \in Nat /\ Offset(t.i, t.j) < m - 1
  BY <1>1, Offsets, Nearby
<1>3. CASE Seeks(t, u)
  <2>1. Offset(t.i, u.j) = Offset(t.i, t.j) + 1
    BY <1>1, <1>2, <1>3, NextOffset DEF Seeks
  <2>2. Reach(t) = Offset(t.i, t.j) - 1 /\ Reach(u) = Offset(t.i, u.j) - 1
    BY <1>1, <1>3 DEF Seeks, Reach
  <2> QED
    BY <1>1, <1>2, <2>1, <2>2
<1>4. CASE Stops(t, u)
  <2>1. /\ Reach(t) = Offset(t.i, t.j) - 1
        /\ Reach(u) = Offset(t.i, t.j) \/ Reach(u) = Offset(t.i, t.j) - 1
    BY <1>1, <1>2, <1>4 DEF Stops, Reach
  <2> QED
    BY <1>1, <1>2, <2>1
<1>5. ASSUME u.j \in Index, u.pc = "check", u.c = TA[u.j], Reach(t) = Offset(t.i, u.j)
      PROVE  Offset(t.i, q) <= Reach(u)
  <2>1. Reach(u) = IF TA[u.j].key = t.v.key THEN Offset(t.i, u.j) ELSE Offset(t.i, u.j) - 1
    BY <1>1, <1>5, Offsets DEF Reach
  <2>2. TA[u.j].key # t.v.key => Offset(t.i, q) # Offset(t.i, u.j)
    BY <1>1, <1>5, Offsets
  <2>3. Offset(t.i, u.j) \in Nat
    BY <1>1, <1>5, Offsets
  <2> QED
    BY <1>1, <1>2, <1>5, <2>1, <2>2, <2>3
<1>6. CASE Descends(t, u)
  <2>1. /\ u.j = decrementIndex(t.j) /\ u.j \in Index
        /\ Offset(t.i, u.j) = Offset(t.i, t.j) - 1
    BY <1>1, <1>6, NextIndex, NextOffset DEF Descends
  <2>2. Reach(t) = Offset(t.i, t.j) - 1
    BY <1>6 DEF Descends, Reach
  <2> QED
    BY <1>1, <1>5, <1>6, <2>1, <2>2 DEF Descends
<1>7. CASE Reloads(t, u)
  <2>1. Reach(t) = Offset(t.i, t.j)
    BY <1>2, <1>7 DEF Reloads, Reach
  <2> QED
    BY <1>1, <1>5, <1>7, <2>1 DEF Reloads
<1>8. CASE Finds(t, u) \/ Climbs(t, u) \/ Turns(t, u) \/ Skips(t, u) \/ Takes(t, u) \/ Fails(t, u)
  <2>1. /\ u.j = t.j /\ u.pc \in {"up", "back", "reload"}
        /\ t.pc \in {"up", "back"} \/ (t.pc = "check" /\ t.v.key = t.c.key)
    BY <1>8 DEF Finds, Climbs, Turns, Skips, Takes, Fails
  <2>2. Reach(t) = Offset(t.i, t.j) /\ Reach(u) = Offset(t.i, t.j)
    BY <1>1, <1>2, <2>1 DEF Reach
  <2> QED
    BY <1>1, <2>2
<1> QED
  BY <1>1, <1>3, <1>4, <1>6, <1>7, <1>8 DEF Looks

\* From j on, a cell of lower priority comes only after an entry that lasts.
LEMMA Beyond ==
  ASSUME TypeOK, NEW mine, Shared(mine), NEW p \in Lasting(mine),
         NEW j \in Index, NEW b \in Index, j \in Between(firstIndex(TA[p]), p),
         TA[b].key < TA[p].key
  PROVE  Offset(j, p) <= Offset(j, b) - 1
<1>1. PICK f \in Index : f = firstIndex(TA[p])
  BY Lasts
<1>2. p \in Index /\ TA[p].key \in Nat /\ TA[b].key \in Nat /\ p # b
  BY Lasts, Entries0, Sizes DEF TypeOK
<1>3. Offset(f, p) <= Offset(f, b)
  BY <1>1, <1>2, Lasts
<1>4. Offset(f, j) < Offset(f, p)
  BY <1>1, <1>2, InBetween
<1>5. Offset(f, j) \in Nat /\ Offset(f, p) \in Nat /\ Offset(f, b) \in Nat
      /\ Offset(j, p) \in Nat /\ Offset(j, b) \in Nat
  BY <1>2, Offsets
<1>6. Offset(f, p) = Offset(f, j) + Offset(j, p) /\ Offset(f, b) = Offset(f, j) + Offset(j, b)
  BY <1>2, <1>3, <1>4, <1>5, OffsetsAdd
<1>7. Offset(j, p) # Offset(j, b)
  BY <1>2, Offsets
<1> QED
  BY <1>3, <1>5, <1>6, <1>7

LEMMA LookHeeds ==
  ASSUME TypeOK, NEW R \in SUBSET Index, Room(R), NEW mine, Shared(mine),
         NEW p \in Lasting(mine), NEW t, NEW u, NEW q,
         Deleting(t), InRoom(t, R), Heeds(t, q, p), Looks(t, u),
         ~(Stops(t, u) /\ TA[p].key = t.v.key)
  PROVE  Heeds(u, q, p)
<1> DEFINE e == TA[p]
           f == firstIndex(e)
<1>1. /\ u.op = "delete" /\ u.v = t.v /\ u.i = t.i /\ t.i = firstIndex(t.v)
      /\ t.i \in Index /\ t.j \in Index /\ t.jj \in Index /\ t.jjj \in Index
      /\ t.op = "delete" /\ t.v.key \in Nat /\ e.key \in Nat
      /\ p \in Index /\ e # empty /\ f \in Index
      /\ t.v.key = e.key => f = t.i
  BY Lasts, Sizes DEF Looks, Deleting, InRoom
<1>2. ASSUME t.v.key = e.key
      PROVE  IF u.pc = "seek" THEN Offset(u.i, u.j) <= Offset(u.i, p) ELSE q # m
  <2>1. CASE Seeks(t, u)
    <3>1. Offset(t.i, t.j) <= Offset(t.i, p) /\ t.j # p
      BY <1>1, <1>2, <2>1 DEF Heeds, Seeks
    <3>2. Offset(t.i, t.j) # Offset(t.i, p)
      BY <1>1, <3>1, Offsets
    <3>3. Offset(t.i, t.j) < m - 1
      BY Nearby
    <3>4. Offset(t.i, u.j) = Offset(t.i, t.j) + 1
      BY <1>1, <2>1, <3>3, NextOffset DEF Seeks
    <3>5. Offset(t.i, t.j) \in Nat /\ Offset(t.i, p) \in Nat
      BY <1>1, Offsets
    <3> QED
      BY <1>1, <2>1, <3>1, <3>2, <3>4, <3>5 DEF Seeks
  <2>2. CASE ~Seeks(t, u)
    <3>1. t.pc # "seek" /\ u.pc # "seek"
      BY <1>2, <2>2 DEF Looks, Stops, Descends, Finds, Climbs, Turns, Skips, Takes, Fails, Reloads
    <3> QED
      BY <1>1, <1>2, <3>1 DEF Heeds
  <2> QED
    BY <2>1, <2>2
<1>3. ASSUME u.x = TA[u.jj], u.j \in Index, u.jj \in Index,
             Seen(u) = Offset(u.j, u.jj) - 1
      PROVE  /\ u.j \in Between(f, p) => e.key <= u.x.key \/ Offset(u.j, p) <= Seen(u)
             /\ u.x.key = e.key => Offset(f, p) <= Offset(f, u.jj)
  <2>1. u.x.key \in Nat
    BY <1>3, Entries0 DEF TypeOK
  <2>2. u.j \in Between(f, p) /\ u.x.key < e.key => Offset(u.j, p) <= Seen(u)
    BY <1>3, Beyond
  <2>3. u.x.key <= e.key => Offset(f, p) <= Offset(f, u.jj)
    BY <1>3, Lasts
  <2> QED
    BY <1>1, <2>1, <2>2, <2>3
<1>4. ASSUME u.pc \in {"up", "back"}
      PROVE  /\ u.j \in Between(f, p) => e.key <= u.x.key \/ Offset(u.j, p) <= Seen(u)
             /\ u.x.key = e.key => Offset(f, p) <= Offset(f, u.jj)
  <2>1. t.pc \in {"up", "back"} => t.jj # t.j
    BY DEF InRoom
  <2>2. CASE Finds(t, u) \/ Climbs(t, u)
    <3>1. u.jj \in Index /\ u.j = t.j /\ u.x = TA[u.jj] /\ u.pc = "up"
      BY <1>1, <2>2, NextIndex DEF Finds, Climbs
    <3> QED
      BY <1>1, <1>3, <3>1 DEF Seen
  <2>3. CASE Takes(t, u)
    <3>1. /\ u.jj \in Index /\ u.j = t.j /\ u.x = TA[u.jj] /\ u.pc = "back" /\ u.jj # u.j
          /\ u.jjj = decrementIndex(u.jj)
      BY <1>1, <2>3 DEF Takes
    <3>2. Offset(u.j, u.jjj) = Offset(u.j, u.jj) - 1
      BY <1>1, <3>1, NextOffset
    <3> QED
      BY <1>1, <1>3, <3>1, <3>2 DEF Seen
  <2>4. CASE Turns(t, u)
    <3>1. u.j = t.j /\ u.jj = t.jj /\ u.x = t.x /\ t.pc = "up" /\ u.pc = "back"
          /\ u.jjj = decrementIndex(t.jj)
      BY <2>4 DEF Turns
    <3>2. Seen(u) = Seen(t)
      BY <1>1, <2>1, <3>1, NextOffset DEF Seen
    <3> QED
      BY <3>1, <3>2 DEF Heeds
  <2>5. CASE Skips(t, u)
    <3>1. /\ u.j = t.j /\ u.jj = t.jj /\ u.x = t.x /\ t.pc = "back" /\ u.pc = "back"
          /\ u.jjj = decrementIndex(t.jjj) /\ t.jjj # t.j /\ Stays(TA[t.jjj], t.j)
      BY <2>5 DEF Skips
    <3>2. Seen(t) = Offset(t.j, t.jjj) /\ Seen(u) = Offset(t.j, t.jjj) - 1
      BY <1>1, <3>1, NextOffset DEF Seen
    <3>3. ASSUME t.j \in Between(f, p) PROVE p # t.jjj
      <4> SUFFICES ASSUME p = t.jjj PROVE FALSE
        OBVIOUS
      <4>1. lessIndex(t.j, f)
        BY <3>1 DEF Stays
      <4>2. 2 * Offset(f, p) < m
        BY <1>1, FullCell
      <4>3. Offset(t.j, p) < Offset(t.j, t.jj)
        BY <1>1, <3>1, InBetween DEF InRoom
      <4>4. 2 * Offset(t.j, t.jj) < m
        BY <3>1, Nearby
      <4>5. 2 * Offset(t.j, p) < m
        <5>1. Offset(t.j, p) \in Nat /\ Offset(t.j, t.jj) \in Nat /\ m \in Nat
          BY <1>1, Offsets, Sizes
        <5> QED
          BY <4>3, <4>4, <5>1
      <4>6. ~(Offset(f, t.j) < Offset(f, p))
        BY <1>1, <3>1, <4>1, <4>2, <4>5, RightOrder
      <4> QED
        BY <1>1, <3>3, <4>6, InBetween
    <3>4. p # t.jjj => Offset(t.j, p) # Offset(t.j, t.jjj)
      BY <1>1, Offsets
    <3>5. Offset(t.j, p) \in Nat /\ Offset(t.j, t.jjj) \in Nat
      BY <1>1, Offsets
    <3>6. /\ t.j \in Between(f, p) => e.key <= t.x.key \/ Offset(t.j, p) <= Seen(t)
          /\ t.x.key = e.key => Offset(f, p) <= Offset(f, t.jj)
      BY <3>1 DEF Heeds
    <3>7. t.j \in Between(f, p) => e.key <= t.x.key \/ Offset(t.j, p) <= Seen(u)
      BY <3>2, <3>3, <3>4, <3>5, <3>6
    <3> QED
      BY <3>1, <3>6, <3>7
  <2> QED
    BY <1>4, <2>2, <2>3, <2>4, <2>5
       DEF Looks, Seeks, Stops, Descends, Fails, Reloads
<1> QED
  BY <1>1, <1>2, <1>4 DEF Heeds

\* Whoever has yet to find an entry that lasts has no copy.
LEMMA EmptyHanded ==
  ASSUME TypeOK, NEW mine, Shared(mine), NEW p \in Lasting(mine), NEW w \in Threads,
         Deleting(th[w]), th[w].i = firstIndex(th[w].v), th[w].pc = "seek",
         TA[p].key = th[w].v.key, mine[w] \in Index \cup {m}
  PROVE  mine[w] = m
<1> SUFFICES ASSUME mine[w] # m PROVE FALSE
  OBVIOUS
<1>1. PICK t, r : t = th[w] /\ r = mine[w]
  OBVIOUS
<1>2. r \in Index /\ TA[r].key = t.v.key /\ Offset(t.i, r) <= Offset(t.i, t.j) - 1
  BY <1>1 DEF Shared, Owns, Reach
<1>3. /\ t.i \in Index /\ t.j \in Index /\ t.v.key \in Nat /\ firstIndex(TA[p]) = t.i
      /\ p \in Index
  BY <1>1, Lasts, Sizes DEF Deleting
<1>4. Offset(t.i, t.j) <= Offset(t.i, p)
  <2>1. Heeds(t, r, p) /\ t.op = "delete" /\ t.v.key = TA[p].key /\ t.pc = "seek"
    BY <1>1, Lasts DEF Deleting
  <2> QED
    BY <2>1 DEF Heeds
<1>5. Offset(t.i, p) <= Offset(t.i, r)
  BY <1>1, <1>2, <1>3, Lasts
<1>6. Offset(t.i, r) \in Nat /\ Offset(t.i, t.j) \in Nat /\ Offset(t.i, p) \in Nat
  BY <1>2, <1>3, Offsets
<1> QED
  BY <1>2, <1>4, <1>5, <1>6

LEMMA LookShared ==
  ASSUME TypeOK, InPhase, NEW R \in SUBSET Index, Room(R),
         NEW mine \in [Threads -> Index \cup {m}], Shared(mine),
         NEW w \in Threads, NEW u, Quiet(w, u), th[w].op = "delete",
         (u = Idle /\ Ends(th[w])) \/ Looks(th[w], u)
  PROVE  \E n \in [Threads -> Index \cup {m}] : Shared(n)'
<1>1. PICK t, q : t = th[w] /\ q = mine[w]
  OBVIOUS
<1>2. /\ Deleting(t) /\ InRoom(t, R) /\ Owns(t, q) /\ q \in Index \cup {m}
      /\ \A p \in Lasting(mine) : Heeds(t, q, p)
  BY <1>1, Deletes DEF Room, Shared
<1>3. /\ th' = [th EXCEPT ![w] = u] /\ UNCHANGED <<TA, hashStruct, expected>>
  BY DEF Quiet, Moves
<1>4. /\ t.op = "delete" /\ t.i = firstIndex(t.v) /\ t.i \in Index /\ t.j \in Index
      /\ t.v.key \in Nat /\ (t.pc = "seek" => expected[t.v.key] = 0)
  <2>1. t.op = "delete" /\ t.i \in Index /\ t.j \in Index /\ t.v.key \in Nat
    BY <1>2, Sizes DEF Deleting
  <2> QED
    BY <1>2, <2>1 DEF InRoom
<1>5. ASSUME Owns(u, q), \A p \in Lasting(mine) : Heeds(u, q, p),
             \A p \in Lasting(mine) : t.pc = "seek" /\ TA[p].key = t.v.key
                                        => u.pc = "seek" /\ u.v = t.v
      PROVE  \E n \in [Threads -> Index \cup {m}] : Shared(n)'
  <2>1. PICK n \in [Threads -> Index \cup {m}] : n = [mine EXCEPT ![w] = q]
    <3>1. [mine EXCEPT ![w] = q] \in [Threads -> Index \cup {m}]
      BY <1>2
    <3> QED
      BY <3>1
  <2>2. Shared(n)'
    BY <1>1, <1>2, <1>3, <1>5, <2>1, SharedMove
  <2> QED
    BY <2>1, <2>2
<1>6. CASE u = Idle /\ Ends(t)
  <2>1. q = m
    <3>1. Reach(t) = -1
      BY <1>4, <1>6, Offsets DEF Ends, Reach
    <3>2. q \in Index => Offset(t.i, q) \in Nat
      BY <1>4, Offsets
    <3> QED
      BY <1>2, <3>1, <3>2 DEF Owns
  <2>2. ASSUME NEW p \in Lasting(mine), TA[p].key = t.v.key PROVE FALSE
    <3>1. CASE t.pc = "seek"
      <4>1. TA[t.j] = empty /\ t.j = t.i /\ empty.key = 0
        BY <1>6, <3>1, Entries0 DEF Ends
      <4>2. p \in Index /\ TA[p] # empty /\ firstIndex(TA[p]) = t.i
        BY <1>4, <2>2, Lasts
      <4>3. Offset(t.i, p) <= Offset(t.i, t.j)
        BY <1>4, <2>2, <4>1, <4>2, Lasts
      <4>4. Offset(t.i, t.j) = 0 /\ Offset(t.i, p) \in Nat
        BY <1>4, <4>1, <4>2, Offsets
      <4>5. p = t.i
        BY <1>4, <4>2, <4>3, <4>4, Offsets
      <4> QED
        BY <4>1, <4>2, <4>5
    <3>2. CASE t.pc # "seek"
      BY <1>2, <1>4, <2>1, <2>2, <3>2 DEF Heeds
    <3> QED
      BY <3>1, <3>2
  <2>3. Owns(Idle, q) /\ \A p : Heeds(Idle, q, p)
    BY <2>1, IdleCall DEF Owns, Heeds
  <2> QED
    BY <1>5, <1>6, <2>2, <2>3
<1>7. ASSUME Looks(t, u), NEW p \in Lasting(mine), TA[p].key = t.v.key, Stops(t, u)
      PROVE  \E n \in [Threads -> Index \cup {m}] : Shared(n)'
  <2>1. /\ t.pc = "seek" /\ TA[t.j].key \in Nat /\ t.v.key >= TA[t.j].key
        /\ u.pc = "check" /\ u.j = t.j /\ u.c = TA[t.j]
        /\ u.op = "delete" /\ u.v = t.v /\ u.i = t.i
    BY <1>4, <1>7, Entries0 DEF Stops, Looks, TypeOK
  <2>2. /\ p \in Index /\ firstIndex(TA[p]) = t.i
        /\ Offset(t.i, p) \in Nat /\ Offset(t.i, t.j) \in Nat
    BY <1>4, <1>7, Lasts, Offsets
  <2>3. Offset(t.i, t.j) <= Offset(t.i, p)
    BY <1>2, <1>4, <1>7, <2>1 DEF Heeds
  <2>4. p = t.j
    <3>1. Offset(t.i, p) <= Offset(t.i, t.j)
      BY <1>4, <1>7, <2>1, <2>2, Lasts
    <3>2. Offset(t.i, p) = Offset(t.i, t.j)
      BY <2>2, <2>3, <3>1
    <3> QED
      BY <1>4, <2>2, <3>2, Offsets
  <2>5. q = m
    BY <1>1, <1>2, <1>4, <1>7, <2>1, EmptyHanded
  <2>6. Owns(u, p)
    <3>1. Reach(u) = Offset(t.i, t.j)
      BY <1>7, <2>1, <2>2, <2>4 DEF Reach
    <3> QED
      BY <1>7, <2>1, <2>2, <2>4, <3>1 DEF Owns
  <2>7. ASSUME NEW r \in Lasting(mine) \ {p} PROVE TA[r].key # t.v.key
    BY <1>7, OneLasts
  <2>8. \A r \in Lasting(mine) \ {p} : Heeds(u, p, r)
    BY <2>1, <2>7 DEF Heeds
  <2>9. PICK n \in [Threads -> Index \cup {m}] : n = [mine EXCEPT ![w] = p]
    <3>1. [mine EXCEPT ![w] = p] \in [Threads -> Index \cup {m}]
      BY <2>2
    <3> QED
      BY <3>1
  <2>10. expected[TA[p].key] = 0
    BY <1>4, <1>7, <2>1
  <2>11. \A r \in Lasting(mine) \ {p} : th[w].pc = "seek" /\ TA[r].key = th[w].v.key
                                           => u.pc = "seek" /\ u.v = th[w].v
    BY <1>1, <2>7
  <2>12. /\ p \in Index \cup {m}
         /\ \/ p = mine[w]
            \/ p \in Lasting(mine) /\ mine[w] = m /\ expected[TA[p].key] = 0
    BY <1>1, <1>7, <2>2, <2>5, <2>10
  <2>13. Shared(n)'
    BY <1>3, <2>6, <2>8, <2>9, <2>11, <2>12, SharedMove, Zenon
  <2> QED
    BY <2>9, <2>13
<1>8. ASSUME Looks(t, u), \A p \in Lasting(mine) : ~(Stops(t, u) /\ TA[p].key = t.v.key)
      PROVE  \E n \in [Threads -> Index \cup {m}] : Shared(n)'
  <2>1. Owns(u, q)
    BY <1>2, <1>8, LookOwns
  <2>2. \A p \in Lasting(mine) : Heeds(u, q, p)
    BY <1>2, <1>8, LookHeeds
  <2>3. ASSUME NEW p \in Lasting(mine), t.pc = "seek", TA[p].key = t.v.key
        PROVE  u.pc = "seek" /\ u.v = t.v
    BY <1>8, <2>3 DEF Looks, Seeks, Descends, Finds, Climbs, Turns, Skips, Takes, Fails, Reloads
  <2> QED
    BY <1>5, <2>1, <2>2, <2>3
<1> QED
  BY <1>1, <1>6, <1>7, <1>8

---------------------------------------------------------------------------
(* Deletes share the copies among them: the step that fills a cell.        *)

\* Two deletes of a key may trade the copies they are to remove: the one that
\* fills cell j removes the copy in it.
LEMMA Trade ==
  ASSUME TypeOK, NEW R, Room(R), NEW mine \in [Threads -> Index \cup {m}], Shared(mine),
         NEW w \in Threads, Deleting(th[w]), th[w].pc = "back",
         TA[th[w].j].key = th[w].v.key
  PROVE  \E n \in [Threads -> Index \cup {m}] : Shared(n) /\ n[w] = th[w].j
<1>1. PICK t, q, j : t = th[w] /\ q = mine[w] /\ j = th[w].j
  OBVIOUS
<1>2. /\ Deleting(t) /\ Owns(t, q) /\ q \in Index \cup {m} /\ t.pc = "back"
      /\ j = t.j /\ j \in Index /\ t.i \in Index /\ t.op = "delete" /\ t.i = firstIndex(t.v)
      /\ t.v.key \in Keys /\ TA[j].key = t.v.key
      /\ \A p \in Lasting(mine) : Heeds(t, q, p)
  BY <1>1 DEF Shared, Deleting, Room, InRoom
<1>3. TA[j] # empty /\ t.v.key \in Nat
  BY <1>2, Sizes DEF empty
<1>4. Reach(t) = Offset(t.i, j) /\ Offset(t.i, j) \in Nat
  BY <1>2, Offsets DEF Reach
<1>5. j \notin Lasting(mine)
  <2> SUFFICES ASSUME j \in Lasting(mine) PROVE FALSE
    OBVIOUS
  <2>1. q \in Index /\ TA[q].key = t.v.key /\ Offset(t.i, q) <= Offset(t.i, j)
    BY <1>2, <1>4 DEF Heeds, Owns
  <2>2. firstIndex(TA[j]) = t.i /\ q # j
    BY <1>1, <1>2, Lasts
  <2>3. Offset(t.i, j) <= Offset(t.i, q)
    BY <1>2, <1>3, <2>1, <2>2, Lasts
  <2>4. Offset(t.i, q) \in Nat
    BY <1>2, <2>1, Offsets
  <2>5. Offset(t.i, j) = Offset(t.i, q)
    BY <1>4, <2>1, <2>3, <2>4
  <2> QED
    BY <1>2, <2>1, <2>2, <2>5, Offsets
<1>6. PICK o \in Threads : mine[o] = j
  BY <1>2, <1>3, <1>5 DEF Lasting
<1>7. CASE o = w
  BY <1>1, <1>6, <1>7
<1>8. CASE o # w
  <2> DEFINE n == [y \in Threads |-> IF y = w THEN j ELSE IF y = o THEN q ELSE mine[y]]
  <2>1. /\ n \in [Threads -> Index \cup {m}] /\ n[w] = j /\ n[o] = q
        /\ \A y \in Threads \ {w, o} : n[y] = mine[y]
    BY <1>2, <1>8
  <2> HIDE DEF n
  <2>2. Lasting(n) = Lasting(mine)
    BY <1>1, <1>6, <2>1 DEF Lasting
  <2>3. /\ th[o].op = "delete" /\ th[o].v.key = t.v.key /\ th[o].i = t.i
        /\ Offset(t.i, j) <= Reach(th[o])
    <3>1. Owns(th[o], j)
      BY <1>6 DEF Shared
    <3>2. /\ th[o].op = "delete" /\ TA[j].key = th[o].v.key
          /\ Offset(th[o].i, j) <= Reach(th[o])
      BY <1>2, <3>1, Sizes DEF Owns, Index
    <3>3. th[o].i = firstIndex(th[o].v)
      BY <3>2 DEF Room, InRoom
    <3> QED
      BY <1>2, <3>2, <3>3 DEF firstIndex
  <2>4. Owns(t, j) /\ Owns(th[o], q)
    <3>1. Owns(t, j)
      BY <1>2, <1>4 DEF Owns
    <3>2. ASSUME q # m PROVE TA[q].key = th[o].v.key /\ Offset(th[o].i, q) <= Reach(th[o])
      <4>1. PICK d : d = Reach(th[o]) /\ d \in Int
        <5>1. TypeOK /\ th[o].i \in Index /\ th[o].j \in Index
          BY DEF TypeOK, Call
        <5>2. Offset(th[o].i, th[o].j) \in Nat
          BY <5>1, Offsets
        <5> QED
          BY <5>2 DEF Reach
      <4>2. TA[q].key = t.v.key /\ Offset(t.i, q) <= Offset(t.i, j) /\ Offset(t.i, q) \in Nat
        BY <1>2, <1>4, <3>2, Offsets DEF Owns
      <4> QED
        BY <1>4, <2>3, <4>1, <4>2
    <3> QED
      BY <2>3, <3>1, <3>2 DEF Owns
  <2>5. ASSUME NEW p \in Lasting(mine) PROVE Heeds(t, j, p) /\ Heeds(th[o], q, p)
    <3>1. Heeds(t, q, p) /\ Heeds(th[o], j, p)
      BY <1>1, <1>6 DEF Shared
    <3>2. t.v.key = TA[p].key => q # m
      BY <1>2, <3>1 DEF Heeds
    <3>3. j # m
      BY <1>2, Sizes DEF Index
    <3> QED
      BY <2>3, <3>1, <3>2, <3>3 DEF Heeds
  <2>6. \A y \in Threads : Owns(th[y], n[y])
    BY <1>1, <2>1, <2>4 DEF Shared
  <2>7. \A x, y \in Threads : x # y /\ n[x] # m => n[y] # n[x]
    BY <1>1, <1>6, <1>8, <2>1 DEF Shared
  <2>8. \A p \in Lasting(mine) : \A y \in Threads : Heeds(th[y], n[y], p)
    BY <1>1, <2>1, <2>5 DEF Shared
  <2>9. Shared(n)
    BY <2>2, <2>6, <2>7, <2>8 DEF Shared
  <2> QED
    BY <1>1, <2>1, <2>9
<1> QED
  BY <1>7, <1>8

\* The step of a delete w that fills cell j, where its own copy is, with x and
\* goes on to u.
Refills(mine, w, u, j, x) ==
  /\ Shared(mine) /\ mine \in [Threads -> Index \cup {m}] /\ w \in Threads /\ mine[w] = j
  /\ j \in Index /\ x \in Entry /\ TA[j] # empty /\ th[w].pc = "back"
  /\ \A y \in Threads : /\ th'[y] = IF y = w THEN u ELSE th[y]
                        /\ th[y].op = "delete" =>
                             /\ Deleting(th[y]) /\ th[y].i = firstIndex(th[y].v)
                             /\ th[y].pc = "seek" => expected[th[y].v.key] = 0
  /\ \A b \in Index : TA'[b] = IF b = j THEN x ELSE TA[b]
  /\ UNCHANGED <<hashStruct, expected>>
  /\ IF x = empty THEN u = Idle
     ELSE /\ u.op = "delete" /\ u.pc = "reload" /\ u.v = x /\ u.i = firstIndex(x)
          /\ u.j \in Index /\ j \in Between(firstIndex(x), u.j)
  /\ \A p \in Lasting(mine) :
       /\ j \in Between(firstIndex(TA[p]), p) => TA[p].key <= x.key
       /\ x.key = TA[p].key => Offset(firstIndex(x), p) <= Offset(firstIndex(x), u.j)

LEMMA RefillFacts ==
  ASSUME TypeOK, NEW mine, NEW w, NEW u, NEW j, NEW x, Refills(mine, w, u, j, x)
  PROVE  /\ \A p \in Lasting(mine) : p # j /\ p \in Index /\ TA'[p] = TA[p]
         /\ \A e : firstIndex(e)' = firstIndex(e)
         /\ \A t, r : r # j /\ r \in Index \cup {m} => (Owns(t, r)' <=> Owns(t, r))
         /\ \A t : Owns(t, j)' <=> (t.op = "delete" /\ x.key = t.v.key /\ Offset(t.i, j) <= Reach(t))
         /\ \A t, r : \A p \in Lasting(mine) : Heeds(t, r, p)' <=> Heeds(t, r, p)
         /\ j # m /\ m \notin Index /\ x.key \in Nat /\ (x.key = 0 <=> x = empty)
<1>1. \A p \in Lasting(mine) : p # j /\ p \in Index /\ TA'[p] = TA[p]
  BY DEF Refills, Lasting
<1>2. \A e : firstIndex(e)' = firstIndex(e)
  BY DEF Refills, firstIndex
<1>3. j # m /\ m \notin Index /\ j \in Index /\ \A b \in Index : TA'[b] = IF b = j THEN x ELSE TA[b]
  BY Sizes DEF Refills, Index
<1>4. x.key \in Nat /\ (x.key = 0 <=> x = empty)
  BY Entries0, Sizes DEF Refills
<1>5. \A t, r : r # j /\ r \in Index \cup {m} => (Owns(t, r)' <=> Owns(t, r))
  BY <1>3 DEF Owns, Reach, Offset
<1>6. \A t : Owns(t, j)' <=> (t.op = "delete" /\ x.key = t.v.key /\ Offset(t.i, j) <= Reach(t))
  BY <1>3 DEF Owns, Reach, Offset
<1>7. \A t, r : \A p \in Lasting(mine) : Heeds(t, r, p)' <=> Heeds(t, r, p)
  BY <1>1, <1>2 DEF Heeds, Seen, Offset, Between, Index
<1> QED
  BY <1>1, <1>2, <1>3, <1>4, <1>5, <1>6, <1>7

\* What lasts goes on to last, unless x is a copy of it and comes before it.
LEMMA GoesOn ==
  ASSUME TypeOK, NEW mine, NEW w, NEW u, NEW j, NEW x, Refills(mine, w, u, j, x),
         NEW n, \A y \in Threads \ {w} : mine[y] # m => n[y] # m, x # empty => n[w] # m,
         NEW p \in Lasting(mine), j \in Between(firstIndex(TA[p]), p) => TA[p].key # x.key
  PROVE  /\ Passed(TA[p], p)' /\ Wanted(TA[p].key)'
         /\ \A y \in Threads : Heeds(th[y], n[y], p)'
<1>1. /\ p # j /\ p \in Index /\ TA'[p] = TA[p] /\ firstIndex(TA[p]) \in Index
      /\ x.key \in Nat /\ TA[p].key \in Nat /\ j \in Index
      /\ \A e : firstIndex(e)' = firstIndex(e)
      /\ Passed(TA[p], p) /\ Wanted(TA[p].key)
      /\ \A y \in Threads : Heeds(th[y], mine[y], p)
      /\ \A y \in Threads : th'[y] = IF y = w THEN u ELSE th[y]
      /\ \A b \in Index : TA'[b] = IF b = j THEN x ELSE TA[b]
  <2>1. Shared(mine)
    BY DEF Refills
  <2>2. /\ firstIndex(TA[p]) \in Index /\ TA[p].key \in Nat
        /\ Passed(TA[p], p) /\ Wanted(TA[p].key)
        /\ \A y \in Threads : Heeds(th[y], mine[y], p)
    BY <2>1, Lasts, Sizes
  <2>3. p # j /\ p \in Index /\ TA'[p] = TA[p] /\ x.key \in Nat
    BY RefillFacts
  <2>4. \A e : firstIndex(e)' = firstIndex(e)
    BY RefillFacts
  <2>5. /\ \A y \in Threads : th'[y] = IF y = w THEN u ELSE th[y]
        /\ \A b \in Index : TA'[b] = IF b = j THEN x ELSE TA[b]
        /\ j \in Index
    BY DEF Refills
  <2> QED
    BY <2>2, <2>3, <2>4, <2>5
<1>2. Passed(TA[p], p)'
  <2>1. \A b \in Between(firstIndex(TA[p]), p) : TA'[b].key > TA[p].key
    <3> SUFFICES ASSUME NEW b \in Between(firstIndex(TA[p]), p) PROVE TA'[b].key > TA[p].key
      OBVIOUS
    <3>1. b \in Index
      BY DEF Between
    <3>2. CASE b = j
      <4>1. TA[p].key <= x.key /\ TA[p].key # x.key
        BY <3>2 DEF Refills
      <4> QED
        BY <1>1, <3>2, <4>1
    <3>3. CASE b # j
      BY <1>1, <3>1, <3>3 DEF Passed
    <3> QED
      BY <3>2, <3>3
  <2> QED
    BY <1>1, <2>1 DEF Passed, Between, Index
<1>3. Wanted(TA[p].key)'
  <2>1. CASE expected[TA[p].key] # 0
    BY <1>1, <2>1 DEF Wanted, Refills
  <2>2. CASE expected[TA[p].key] = 0
    <3>1. PICK y \in Threads : th[y].pc = "seek" /\ th[y].v.key = TA[p].key
      BY <1>1, <2>2 DEF Wanted
    <3>2. th'[y] = th[y]
      BY <1>1, <3>1 DEF Refills
    <3> QED
      BY <1>1, <3>1, <3>2 DEF Wanted
  <2> QED
    BY <2>1, <2>2
<1>4. ASSUME NEW y \in Threads PROVE Heeds(th'[y], n[y], p)
  <2>1. CASE y = w /\ x = empty
    BY <1>1, <2>1, IdleCall DEF Heeds, Refills
  <2>2. CASE y = w /\ x # empty
    BY <1>1, <2>2 DEF Heeds, Refills
  <2>3. CASE y # w
    BY <1>1, <2>3 DEF Heeds
  <2> QED
    BY <2>1, <2>2, <2>3
<1>5. ASSUME NEW y \in Threads PROVE Heeds(th[y], n[y], p)'
  <2>1. PICK a : a = th'[y] /\ Heeds(a, n[y], p)
    BY <1>4
  <2>2. Heeds(a, n[y], p)'
    BY <2>1, RefillFacts
  <2> QED
    BY <2>1, <2>2 DEF Heeds, Seen, Offset, Between, Index
<1> QED
  BY <1>2, <1>3, <1>5

\* The copy in cell j lasts in place of the one at q.
LEMMA Replaces ==
  ASSUME TypeOK, NEW mine, NEW w, NEW u, NEW j, NEW x, Refills(mine, w, u, j, x),
         NEW n, \A y \in Threads \ {w} : mine[y] # m => n[y] # m, x # empty => n[w] # m,
         NEW q \in Lasting(mine), TA[q].key = x.key, j \in Between(firstIndex(x), q),
         \A y \in Threads : th[y].op = "delete" /\ th[y].pc = "seek" /\ th[y].v.key = x.key
                              => Offset(th[y].i, th[y].j) <= Offset(th[y].i, j)
  PROVE  /\ Passed(TA[j], j)' /\ Wanted(TA[j].key)'
         /\ \A y \in Threads : Heeds(th[y], n[y], j)'
<1>1. PICK g \in Index : g = firstIndex(x) /\ g = firstIndex(TA[q])
  <2>1. Shared(mine)
    BY DEF Refills
  <2> QED
    BY <2>1, Lasts
<1>2. /\ q # j /\ q \in Index /\ j \in Index /\ x # empty
      /\ x.key \in Nat /\ firstIndex(x)' = g
      /\ Passed(TA[q], q) /\ Wanted(x.key)
      /\ \A y \in Threads : Heeds(th[y], mine[y], q)
      /\ \A y \in Threads : th'[y] = IF y = w THEN u ELSE th[y]
      /\ \A b \in Index : TA'[b] = IF b = j THEN x ELSE TA[b]
      /\ mine[w] = j /\ w \in Threads
  <2>1. Shared(mine) /\ TypeOK
    BY DEF Refills
  <2>2. TA[q].key \in Keys
    BY <2>1, Lasts
  <2>3. x # empty
    BY <2>2, RefillFacts, Sizes
  <2>4. Passed(TA[q], q) /\ Wanted(x.key) /\ \A y \in Threads : Heeds(th[y], mine[y], q)
    BY <2>1, Lasts
  <2>5. q # j /\ q \in Index /\ x.key \in Nat
    BY RefillFacts
  <2>6. firstIndex(x)' = g
    BY <1>1, RefillFacts
  <2>7. /\ \A y \in Threads : th'[y] = IF y = w THEN u ELSE th[y]
        /\ \A b \in Index : TA'[b] = IF b = j THEN x ELSE TA[b]
        /\ j \in Index /\ mine[w] = j /\ w \in Threads
    BY DEF Refills
  <2> QED
    BY <2>3, <2>4, <2>5, <2>6, <2>7
<1>3. Offset(g, j) < Offset(g, q) /\ Offset(g, j) \in Nat /\ Offset(g, q) \in Nat
  BY <1>1, <1>2, InBetween, Offsets
<1>4. Passed(TA[j], j)'
  <2>1. \A b \in Between(g, j) : TA'[b].key > x.key
    <3> SUFFICES ASSUME NEW b \in Between(g, j) PROVE TA'[b].key > x.key
      OBVIOUS
    <3>1. b \in Index /\ Offset(g, b) < Offset(g, j) /\ Offset(g, b) \in Nat
      BY <1>2, InBetween, Offsets
    <3>2. b # j
      BY <3>1
    <3>3. b \in Between(g, q)
      BY <1>2, <1>3, <3>1, InBetween
    <3>4. TA[b].key > TA[q].key
      BY <1>1, <1>2, <3>3 DEF Passed
    <3> QED
      BY <1>2, <3>1, <3>2, <3>4
  <2> QED
    BY <1>2, <2>1 DEF Passed, Between, Index
<1>5. Wanted(TA[j].key)'
  <2>1. CASE expected[x.key] # 0
    BY <1>2, <2>1 DEF Wanted, Refills
  <2>2. CASE expected[x.key] = 0
    <3>1. PICK y \in Threads : th[y].pc = "seek" /\ th[y].v.key = x.key
      BY <1>2, <2>2 DEF Wanted
    <3>2. th'[y] = th[y]
      BY <1>2, <3>1 DEF Refills
    <3> QED
      BY <1>2, <3>1, <3>2 DEF Wanted
  <2> QED
    BY <2>1, <2>2
<1>6. ASSUME NEW y \in Threads, NEW a, a = th'[y]
      PROVE  /\ a.op = "delete" /\ a.v.key = x.key =>
                  IF a.pc = "seek" THEN Offset(a.i, a.j) <= Offset(a.i, j) ELSE n[y] # m
             /\ a.pc \in {"up", "back"} =>
                  /\ a.j \in Between(g, j) => x.key <= a.x.key \/ Offset(a.j, j) <= Seen(a)
                  /\ a.x.key = x.key => Offset(g, j) <= Offset(g, a.jj)
  <2>1. CASE y = w
    BY <1>2, <1>6, <2>1 DEF Refills
  <2>2. CASE y # w
    <3>1. a = th[y] /\ Heeds(a, mine[y], q) /\ a \in Call /\ (mine[y] # m => n[y] # m)
      BY <1>2, <1>6, <2>2 DEF TypeOK
    <3>2. a.op = "delete" /\ a.v.key = x.key =>
            IF a.pc = "seek" THEN Offset(a.i, a.j) <= Offset(a.i, j) ELSE n[y] # m
      BY <3>1 DEF Heeds
    <3>3. a.j \in Index /\ a.jj \in Index /\ a.jjj \in Index
      BY <3>1 DEF Call
    <3>4. ASSUME a.pc \in {"up", "back"}, a.j \in Between(g, j)
          PROVE  x.key <= a.x.key \/ Offset(a.j, j) <= Seen(a)
      <4>1. /\ Offset(g, a.j) < Offset(g, j) /\ Offset(g, a.j) \in Nat
            /\ Offset(a.j, j) \in Nat /\ Offset(a.j, q) \in Nat
        BY <1>2, <3>3, <3>4, InBetween, Offsets
      <4>2. a.j \in Between(g, q)
        BY <1>2, <1>3, <3>3, <4>1, InBetween
      <4>3. x.key <= a.x.key \/ Offset(a.j, q) <= Seen(a)
        BY <1>1, <3>1, <3>4, <4>2 DEF Heeds
      <4>4. Offset(g, j) = Offset(g, a.j) + Offset(a.j, j)
            /\ Offset(g, q) = Offset(g, a.j) + Offset(a.j, q)
        BY <1>2, <1>3, <3>3, <4>1, OffsetsAdd
      <4>5. Seen(a) \in Int
        <5>1. Offset(a.j, a.jj) \in Nat /\ Offset(a.j, a.jjj) \in Nat
          BY <3>3, Offsets
        <5> QED
          BY <5>1 DEF Seen
      <4> QED
        BY <1>3, <4>1, <4>3, <4>4, <4>5
    <3>5. ASSUME a.pc \in {"up", "back"}, a.x.key = x.key
          PROVE  Offset(g, j) <= Offset(g, a.jj)
      <4>1. Offset(g, q) <= Offset(g, a.jj) /\ Offset(g, a.jj) \in Nat
        BY <1>1, <3>1, <3>3, <3>5, Offsets DEF Heeds
      <4> QED
        BY <1>3, <4>1
    <3> QED
      BY <3>2, <3>4, <3>5
  <2> QED
    BY <2>1, <2>2
<1>7. ASSUME NEW y \in Threads PROVE Heeds(th[y], n[y], j)'
  <2>1. PICK a : a = th'[y]
    OBVIOUS
  <2>2. TA'[j] = x /\ firstIndex(x)' = g
    BY <1>2
  <2>3. Heeds(a, n[y], j)'
    BY <1>6, <2>1, <2>2 DEF Heeds, Seen, Offset, Between, Index
  <2> QED
    BY <2>1, <2>3 DEF Heeds, Seen, Offset, Between, Index
<1> QED
  BY <1>4, <1>5, <1>7

LEMMA RefillShared ==
  ASSUME TypeOK, NEW mine, NEW w, NEW u, NEW j, NEW x, Refills(mine, w, u, j, x)
  PROVE  \E n \in [Threads -> Index \cup {m}] : Shared(n)'
<1>1. /\ Shared(mine) /\ mine \in [Threads -> Index \cup {m}] /\ w \in Threads /\ mine[w] = j
      /\ j \in Index /\ x \in Entry
      /\ \A y \in Threads : th'[y] = IF y = w THEN u ELSE th[y]
      /\ \A b \in Index : TA'[b] = IF b = j THEN x ELSE TA[b]
      /\ expected' = expected
  BY DEF Refills
<1>2. /\ \A p \in Lasting(mine) : p # j /\ p \in Index /\ TA[p] # empty /\ TA'[p] = TA[p]
      /\ j # m /\ m \notin Index /\ x.key \in Nat /\ (x.key = 0 <=> x = empty)
  BY RefillFacts DEF Lasting
<1>3. ASSUME NEW y \in Threads \ {w} PROVE mine[y] # j /\ Owns(th[y], mine[y])'
  <2>1. mine[y] # j
    BY <1>1, <1>2 DEF Shared
  <2>2. PICK a, r : a = th[y] /\ a = th'[y] /\ r = mine[y]
    BY <1>1
  <2>3. Owns(a, r) /\ r # j /\ r \in Index \cup {m}
    BY <1>1, <2>1, <2>2 DEF Shared
  <2>4. Owns(a, r)'
    BY <2>3, RefillFacts
  <2> QED
    BY <2>1, <2>2, <2>4 DEF Owns, Reach, Offset
<1>4. ASSUME NEW r, Owns(u, r)' PROVE Owns(th[w], r)'
  <2>1. th'[w] = u
    BY <1>1
  <2> QED
    BY <1>4, <2>1 DEF Owns, Reach, Offset
<1>5. CASE x = empty \/ \A p \in Lasting(mine) :
                           j \in Between(firstIndex(TA[p]), p) => TA[p].key # x.key
  <2>1. PICK z \in Index \cup {m} : z = IF x = empty THEN m ELSE j
    BY <1>1
  <2>2. PICK n \in [Threads -> Index \cup {m}] : n = [mine EXCEPT ![w] = z]
    <3>1. [mine EXCEPT ![w] = z] \in [Threads -> Index \cup {m}]
      BY <1>1, <2>1
    <3> QED
      BY <3>1
  <2>3. n[w] = z /\ \A y \in Threads \ {w} : n[y] = mine[y]
    BY <1>1, <2>2
  <2>4. Owns(th[w], z)'
    <3>1. CASE x = empty
      <4>1. Owns(u, z)'
        BY <2>1, <3>1, IdleCall DEF Refills, Owns
      <4> QED
        BY <1>4, <4>1
    <3>2. CASE x # empty
      <4>1. u.op = "delete" /\ u.pc = "reload" /\ u.v = x /\ u.i = firstIndex(x)
            /\ u.j \in Index /\ j \in Between(u.i, u.j) /\ u.i \in Index
        BY <1>1, <3>2, First DEF Refills
      <4>2. Offset(u.i, j) <= Reach(u)
        <5>1. Offset(u.i, j) < Offset(u.i, u.j)
          BY <1>1, <4>1, InBetween
        <5>2. Offset(u.i, j) \in Nat /\ Offset(u.i, u.j) \in Nat
          BY <1>1, <4>1, Offsets
        <5> QED
          BY <4>1, <5>1, <5>2 DEF Reach
      <4>3. Owns(u, j)'
        BY <4>1, <4>2, RefillFacts
      <4> QED
        BY <1>4, <2>1, <3>2, <4>3
    <3> QED
      BY <3>1, <3>2
  <2>5. \A y \in Threads : Owns(th[y], n[y])'
    <3> SUFFICES ASSUME NEW y \in Threads PROVE Owns(th[y], n[y])'
      OBVIOUS
    <3>1. CASE y = w
      BY <2>3, <2>4, <3>1
    <3>2. CASE y # w
      BY <1>3, <2>3, <3>2
    <3> QED
      BY <3>1, <3>2
  <2>6. \A a, y \in Threads : a # y /\ n[a] # m => n[y] # n[a]
    BY <1>1, <1>3, <2>1, <2>3 DEF Shared
  <2>7. \A p : p \in Lasting(n)' <=> p \in Lasting(mine)
    BY <1>1, <1>2, <1>3, <2>1, <2>3 DEF Lasting, empty, Index
  <2>8. \A k \in Keys : expected'[k] # 0 => \E p \in Lasting(n)' : TA'[p].key = k
    BY <1>1, <1>2, <2>7 DEF Shared
  <2>9. \A y \in Threads \ {w} : mine[y] # m => n[y] # m
    BY <2>3
  <2>10. x # empty => n[w] # m
    BY <1>2, <2>1, <2>3
  <2>11. ASSUME NEW p \in Lasting(mine), j \in Between(firstIndex(TA[p]), p)
         PROVE  TA[p].key # x.key
    <3>1. TA[p].key # 0
      BY <1>1, Lasts, Sizes
    <3> QED
      BY <1>2, <1>5, <2>11, <3>1
  <2>12. \A p \in Lasting(n)' : /\ Passed(TA[p], p)' /\ Wanted(TA[p].key)'
                                /\ \A y \in Threads : Heeds(th[y], n[y], p)'
    BY <2>7, <2>9, <2>10, <2>11, GoesOn
  <2>13. Shared(n)'
    BY <2>5, <2>6, <2>8, <2>12 DEF Shared
  <2> QED
    BY <2>13
<1>6. ASSUME x # empty, NEW q \in Lasting(mine), j \in Between(firstIndex(TA[q]), q),
             TA[q].key = x.key
      PROVE  \E n \in [Threads -> Index \cup {m}] : Shared(n)'
  <2>1. /\ q # j /\ q \in Index /\ q # m /\ firstIndex(x) = firstIndex(TA[q])
        /\ \A y \in Threads : mine[y] # q
    BY <1>1, <1>2, <1>6, Lasts
  <2>2. Owns(th[w], q)'
    <3>1. u.op = "delete" /\ u.pc = "reload" /\ u.v = x /\ u.i = firstIndex(x)
          /\ Offset(u.i, q) <= Offset(u.i, u.j) /\ u.j \in Index /\ u.i \in Index
      BY <1>1, <1>6, First DEF Refills
    <3>2. Reach(u) = Offset(u.i, u.j)
      BY <3>1, Offsets DEF Reach
    <3>3. Owns(u, q)
      BY <1>6, <3>1, <3>2 DEF Owns
    <3>4. Owns(u, q)'
      BY <2>1, <3>3, RefillFacts
    <3> QED
      BY <1>4, <3>4
  <2>3. ASSUME NEW p \in Lasting(mine) \ {q} PROVE TA[p].key # x.key
    BY <1>1, <1>6, OneLasts
  <2>4. CASE \A y \in Threads : th[y].op = "delete" /\ th[y].pc = "seek" /\ th[y].v.key = x.key
                                  => Offset(th[y].i, th[y].j) <= Offset(th[y].i, j)
    <3>1. PICK n \in [Threads -> Index \cup {m}] : n = [mine EXCEPT ![w] = q]
      <4>1. [mine EXCEPT ![w] = q] \in [Threads -> Index \cup {m}]
        BY <1>1, <2>1
      <4> QED
        BY <4>1
    <3>2. n[w] = q /\ \A y \in Threads \ {w} : n[y] = mine[y]
      BY <1>1, <3>1
    <3>3. \A y \in Threads : Owns(th[y], n[y])'
      <4> SUFFICES ASSUME NEW y \in Threads PROVE Owns(th[y], n[y])'
        OBVIOUS
      <4>1. CASE y = w
        BY <2>2, <3>2, <4>1
      <4>2. CASE y # w
        BY <1>3, <3>2, <4>2
      <4> QED
        BY <4>1, <4>2
    <3>4. \A a, y \in Threads : a # y /\ n[a] # m => n[y] # n[a]
      BY <1>1, <2>1, <3>2 DEF Shared
    <3>5. \A p : p \in Lasting(n)' <=> p = j \/ p \in Lasting(mine) \ {q}
      BY <1>1, <1>2, <1>3, <1>6, <2>1, <3>2 DEF Lasting, empty, Index
    <3>6. \A k \in Keys : expected'[k] # 0 => \E p \in Lasting(n)' : TA'[p].key = k
      <4> SUFFICES ASSUME NEW k \in Keys, expected[k] # 0
                   PROVE  \E p \in Lasting(n)' : TA'[p].key = k
        BY <1>1
      <4>1. PICK p \in Lasting(mine) : TA[p].key = k
        BY <1>1 DEF Shared
      <4>2. CASE p = q
        BY <1>1, <1>6, <3>5, <4>1, <4>2
      <4>3. CASE p # q
        BY <1>2, <3>5, <4>1, <4>3
      <4> QED
        BY <4>2, <4>3
    <3>7. (\A y \in Threads \ {w} : mine[y] # m => n[y] # m) /\ (x # empty => n[w] # m)
      BY <2>1, <3>2
    <3>8. \A p \in Lasting(mine) \ {q} :
            /\ Passed(TA[p], p)' /\ Wanted(TA[p].key)'
            /\ \A y \in Threads : Heeds(th[y], n[y], p)'
      BY <2>3, <3>7, GoesOn
    <3>9. /\ Passed(TA[j], j)' /\ Wanted(TA[j].key)'
          /\ \A y \in Threads : Heeds(th[y], n[y], j)'
      BY <1>6, <2>1, <2>4, <3>7, Replaces
    <3>10. \A p \in Lasting(n)' : /\ Passed(TA[p], p)' /\ Wanted(TA[p].key)'
                                  /\ \A y \in Threads : Heeds(th[y], n[y], p)'
      BY <3>5, <3>8, <3>9
    <3>11. Shared(n)'
      BY <3>3, <3>4, <3>6, <3>10 DEF Shared
    <3> QED
      BY <3>11
  <2>5. ASSUME NEW s \in Threads, th[s].op = "delete", th[s].pc = "seek", th[s].v.key = x.key,
               ~(Offset(th[s].i, th[s].j) <= Offset(th[s].i, j))
        PROVE  \E n \in [Threads -> Index \cup {m}] : Shared(n)'
    <3>1. PICK t : t = th[s]
      OBVIOUS
    <3>2. Deleting(t) /\ t.i = firstIndex(t.v) /\ expected[x.key] = 0 /\ s # w /\ t = th'[s]
      BY <1>1, <2>5, <3>1 DEF Refills
    <3>3. mine[s] = m
      <4>1. mine[s] \in Index \cup {m}
        BY <1>1
      <4> QED
        BY <1>1, <1>6, <2>5, <3>1, <3>2, <4>1, EmptyHanded
    <3>4. Owns(th[s], j)'
      <4>1. t.i \in Index /\ t.j \in Index
        BY <3>2 DEF Deleting
      <4>2. Reach(t) = Offset(t.i, t.j) - 1
        BY <2>5, <3>1 DEF Reach
      <4>3. Offset(t.i, t.j) \in Nat /\ Offset(t.i, j) \in Nat
        BY <1>1, <4>1, Offsets
      <4>4. Offset(t.i, j) <= Reach(t)
        BY <2>5, <3>1, <4>2, <4>3
      <4>5. Owns(t, j)'
        BY <2>5, <3>1, <4>4, RefillFacts
      <4> QED
        BY <3>2, <4>5 DEF Owns, Reach, Offset
    <3>5. PICK n \in [Threads -> Index \cup {m}] :
            n = [y \in Threads |-> IF y = w THEN q ELSE IF y = s THEN j ELSE mine[y]]
      <4>1. [y \in Threads |-> IF y = w THEN q ELSE IF y = s THEN j ELSE mine[y]]
              \in [Threads -> Index \cup {m}]
        BY <1>1, <2>1
      <4> QED
        BY <4>1
    <3>6. n[w] = q /\ n[s] = j /\ \A y \in Threads \ {w, s} : n[y] = mine[y]
      BY <1>1, <3>2, <3>5
    <3>7. \A y \in Threads : Owns(th[y], n[y])'
      <4> SUFFICES ASSUME NEW y \in Threads PROVE Owns(th[y], n[y])'
        OBVIOUS
      <4>1. CASE y = w
        BY <2>2, <3>6, <4>1
      <4>2. CASE y = s
        BY <3>4, <3>6, <4>2
      <4>3. CASE y \notin {w, s}
        BY <1>3, <3>6, <4>3
      <4> QED
        BY <4>1, <4>2, <4>3
    <3>8. \A a, y \in Threads : a # y /\ n[a] # m => n[y] # n[a]
      BY <1>1, <1>3, <2>1, <3>6 DEF Shared
    <3>9. \A p : p \in Lasting(n)' <=> p \in Lasting(mine) \ {q}
      <4>1. \A y \in Threads : n[y] = q \/ n[y] = j \/ n[y] = mine[y]
        BY <3>6
      <4>2. \A p \in Index : (\A y \in Threads : n[y] # p)
                               <=> p # q /\ (\A y \in Threads : mine[y] # p)
        BY <1>1, <2>1, <3>2, <3>3, <3>6, <1>2, <4>1
      <4> QED
        BY <1>1, <1>2, <4>2, <3>2, <3>6 DEF Lasting, empty, Index
    <3>10. \A k \in Keys : expected'[k] # 0 => \E p \in Lasting(n)' : TA'[p].key = k
      <4> SUFFICES ASSUME NEW k \in Keys, expected[k] # 0
                   PROVE  \E p \in Lasting(n)' : TA'[p].key = k
        BY <1>1
      <4>1. PICK p \in Lasting(mine) : TA[p].key = k
        BY <1>1 DEF Shared
      <4>2. p # q
        BY <1>6, <3>2, <4>1
      <4> QED
        BY <1>2, <3>9, <4>1, <4>2
    <3>11. (\A y \in Threads \ {w} : mine[y] # m => n[y] # m) /\ (x # empty => n[w] # m)
      BY <1>2, <2>1, <3>6
    <3>12. \A p \in Lasting(mine) \ {q} :
             /\ Passed(TA[p], p)' /\ Wanted(TA[p].key)'
             /\ \A y \in Threads : Heeds(th[y], n[y], p)'
      BY <2>3, <3>11, GoesOn
    <3>13. Shared(n)'
      BY <3>7, <3>8, <3>9, <3>10, <3>12 DEF Shared
    <3> QED
      BY <3>13
  <2> QED
    BY <2>4, <2>5
<1> QED
  BY <1>5, <1>6

LEMMA SwapShared ==
  ASSUME TypeOK, InPhase, DeleteInv, phase = "delete", NEW R \in SUBSET Index, Room(R),
         NEW mine \in [Threads -> Index \cup {m}], Shared(mine), NEW w \in Threads,
         NEW u, Fills(th[w], u), Puts(w, u, th[w].j, th[w].x)
  PROVE  \E n \in [Threads -> Index \cup {m}] : Shared(n)'
<1>1. PICK t, j, x, k : t = th[w] /\ j = th[w].j /\ x = th[w].x /\ k = th[w].jj
  OBVIOUS
<1>2. /\ t.pc = "back" /\ t.jjj = j /\ TA[j] = t.c /\ j = t.j /\ x = t.x /\ k = t.jj
      /\ \/ x = empty /\ u = Idle
         \/ /\ x # empty /\ u.op = "delete" /\ u.pc = "reload"
            /\ u.v = x /\ u.j = k /\ u.i = firstIndex(x)
  BY <1>1 DEF Fills
<1>3. Deleting(t) /\ InRoom(t, R) /\ t.c.key = t.v.key
  BY <1>1, <1>2, Deletes DEF Room, DeleteInv, Deleting
<1>4. /\ j \in Index /\ k \in Index /\ x \in Entry /\ TA[j].key = t.v.key /\ t.v.key \in Keys
  BY <1>2, <1>3 DEF Deleting
<1>5. PICK n \in [Threads -> Index \cup {m}] : Shared(n) /\ n[w] = j
  BY <1>1, <1>2, <1>3, <1>4, Trade
<1>6. TA[j] # empty
  BY <1>4, Sizes DEF empty
<1>7. ASSUME NEW y \in Threads
      PROVE  /\ th'[y] = IF y = w THEN u ELSE th[y]
             /\ th[y].op = "delete" =>
                  /\ Deleting(th[y]) /\ th[y].i = firstIndex(th[y].v)
                  /\ th[y].pc = "seek" => expected[th[y].v.key] = 0
  <2>1. th'[y] = IF y = w THEN u ELSE th[y]
    BY DEF Puts, Moves, TypeOK
  <2>2. ASSUME th[y].op = "delete"
        PROVE  /\ Deleting(th[y]) /\ th[y].i = firstIndex(th[y].v)
               /\ th[y].pc = "seek" => expected[th[y].v.key] = 0
    BY <2>2, Deletes DEF Room, InRoom
  <2> QED
    BY <2>1, <2>2
<1>8. /\ \A b \in Index : TA'[b] = IF b = j THEN x ELSE TA[b]
      /\ UNCHANGED <<hashStruct, expected>>
  BY <1>1 DEF Puts, TypeOK
<1>9. x # empty => j \in Between(firstIndex(x), k)
  <2> SUFFICES ASSUME x # empty PROVE j \in Between(firstIndex(x), k)
    OBVIOUS
  <2>1. ~Stays(x, j)
    BY <1>2, <1>3 DEF InRoom
  <2> QED
    BY <1>2, <1>3, <2>1, Nearby
<1>10. ASSUME NEW p \in Lasting(n)
       PROVE  /\ j \in Between(firstIndex(TA[p]), p) => TA[p].key <= x.key
              /\ x.key = TA[p].key => Offset(firstIndex(x), p) <= Offset(firstIndex(x), u.j)
  <2>1. /\ Heeds(t, j, p) /\ p # j /\ p \in Index /\ TA[p].key \in Keys
        /\ \A v : v.key = TA[p].key => firstIndex(v) = firstIndex(TA[p])
    BY <1>1, <1>5, Lasts
  <2>2. Seen(t) = 0
    BY <1>2, <1>4, Offsets DEF Seen
  <2>3. Offset(j, p) \in Nat /\ Offset(j, p) # 0
    BY <1>4, <2>1, Offsets
  <2>4. j \in Between(firstIndex(TA[p]), p) => TA[p].key <= x.key
    BY <1>2, <2>1, <2>2, <2>3 DEF Heeds
  <2>5. ASSUME x.key = TA[p].key
        PROVE  Offset(firstIndex(x), p) <= Offset(firstIndex(x), u.j)
    <3>1. x # empty
      BY <2>1, <2>5, Entries0, Sizes
    <3>2. Offset(firstIndex(TA[p]), p) <= Offset(firstIndex(TA[p]), k)
      BY <1>2, <2>1, <2>5 DEF Heeds
    <3> QED
      BY <1>2, <2>1, <2>5, <3>1, <3>2
  <2> QED
    BY <2>4, <2>5
<1>11. Refills(n, w, u, j, x)
  BY <1>1, <1>2, <1>4, <1>5, <1>6, <1>7, <1>8, <1>9, <1>10 DEF Refills
<1> QED
  BY <1>11, RefillShared

---------------------------------------------------------------------------
(* The layout from phase to phase.                                         *)

LEMMA StartLayout ==
  ASSUME TypeOK, NEW w \in Threads, NEW k \in Keys, StartDelete(w, k), LayoutInv
  PROVE  LayoutInv'
<1>1. PICK v : v = [empty EXCEPT !.key = k]
  OBVIOUS
<1>2. PICK u : u = [Idle EXCEPT !.pc = "seek", !.op = "delete", !.v = v,
                                !.i = firstIndex(v), !.j = firstIndex(v)]
  OBVIOUS
<1>3. /\ v.key = k /\ u.pc = "seek" /\ u.op = "delete" /\ u.v = v /\ u.i = firstIndex(v)
      /\ u.j = u.i /\ u.x = empty
  BY <1>1, <1>2 DEF Idle, empty
<1>4. u.i \in Index
  BY <1>3 DEF TypeOK, firstIndex
<1>5. /\ phase = "delete" /\ phase' = "delete" /\ th[w] = Idle
      /\ \A y \in Threads : th'[y] = IF y = w THEN u ELSE th[y]
      /\ expected' = [expected EXCEPT ![k] = 0]
      /\ UNCHANGED <<TA, hashStruct>>
  BY <1>1, <1>2 DEF StartDelete, Go, TypeOK
<1>6. /\ \A a \in Keys : expected'[a] = IF a = k THEN 0 ELSE expected[a]
      /\ \A e : firstIndex(e)' = firstIndex(e)
      /\ \A e \in Entry : e # empty => e.key \in Keys
      /\ \A b \in Index : TA[b] \in Entry
      /\ \A y \in Threads : th[y] \in Call /\ th[y].x \in Entry /\ th[y].v \in Entry
  BY <1>5, Entries0 DEF TypeOK, firstIndex, Call
<1>7. PICK R \in SUBSET Index : Room(R)
  BY <1>5 DEF LayoutInv
<1>8. PICK mine \in [Threads -> Index \cup {m}] : Shared(mine)
  BY <1>5 DEF LayoutInv
<1>9. Room(R)'
  <2>1. \A p \in Index : TA[p] # empty =>
          /\ Between(firstIndex(TA[p]), p) \cup {p} \subseteq R
          /\ expected'[TA[p].key] \in {0, TA[p].val}
    BY <1>6, <1>7 DEF Room
  <2>2. ASSUME NEW y \in Threads, NEW a, a = th'[y], a.op = "delete"
        PROVE  InRoom(a, R)'
    <3>1. CASE y = w
      <4>1. a = u
        BY <1>5, <2>2, <3>1
      <4>2. Between(u.i, u.j) = {}
        BY <1>3, <1>4, NothingPassed
      <4>3. u.i = firstIndex(u.v)'
        BY <1>3, <1>6
      <4>4. expected'[k] = 0
        BY <1>6
      <4> QED
        BY <1>3, <4>1, <4>2, <4>3, <4>4 DEF InRoom, empty, Between, Index
    <3>2. CASE y # w
      <4>1. a = th[y] /\ InRoom(a, R) /\ a.x \in Entry
        BY <1>5, <1>6, <1>7, <2>2, <3>2 DEF Room
      <4>2. a.x # empty => expected'[a.x.key] \in {0, a.x.val}
        BY <1>6, <4>1 DEF InRoom
      <4>3. a.pc = "seek" => expected'[a.v.key] = 0
        <5>1. a.v \in Entry /\ (a.v # empty => a.v.key \in Keys)
          BY <1>6, <4>1
        <5>2. \A b : b \notin Keys => expected'[b] = expected[b]
          BY <1>5 DEF TypeOK
        <5> QED
          BY <1>6, <4>1, <5>1, <5>2 DEF InRoom
      <4> QED
        BY <1>5, <1>6, <4>1, <4>2, <4>3 DEF InRoom, Stays, empty, Between, Index, lessIndex
    <3> QED
      BY <3>1, <3>2
  <2>3. \A y \in Threads : (th[y].op = "delete" => InRoom(th[y], R))'
    <3> SUFFICES ASSUME NEW y \in Threads, th'[y].op = "delete" PROVE InRoom(th[y], R)'
      OBVIOUS
    <3>1. PICK a : a = th'[y] /\ InRoom(a, R)'
      BY <2>2
    <3> QED
      BY <3>1 DEF InRoom, Stays, empty, Between, Index, lessIndex
  <2> QED
    BY <1>5, <1>6, <1>7, <2>1, <2>3 DEF Room, empty, Between, Index
<1>10. mine[w] = m
  BY <1>5, <1>8, IdleCall DEF Shared, Owns
<1>11. Shared(mine)'
  <2>1. Lasting(mine)' = Lasting(mine)
    BY <1>5 DEF Lasting, empty, Index
  <2>2. ASSUME NEW y \in Threads PROVE Owns(th[y], mine[y])'
    <3>1. PICK a : a = th'[y]
      OBVIOUS
    <3>2. Owns(a, mine[y])
      BY <1>5, <1>8, <1>10, <3>1 DEF Owns, Shared
    <3>3. Owns(a, mine[y])'
      BY <1>5, <3>2 DEF Owns, Reach, Offset
    <3> QED
      BY <3>1, <3>3 DEF Owns, Reach, Offset
  <2>3. ASSUME NEW p \in Lasting(mine)
        PROVE  /\ Passed(TA[p], p)' /\ Wanted(TA[p].key)'
               /\ \A y \in Threads : Heeds(th[y], mine[y], p)'
    <3>1. /\ p \in Index /\ firstIndex(TA[p]) \in Index /\ TA[p].key \in Keys
          /\ \A e : e.key = TA[p].key => firstIndex(e) = firstIndex(TA[p])
          /\ Passed(TA[p], p) /\ Wanted(TA[p].key)
          /\ \A y \in Threads : Heeds(th[y], mine[y], p)
      BY <1>8, Lasts
    <3>2. Passed(TA[p], p)'
      BY <1>5, <1>6, <3>1 DEF Passed, Between, Index
    <3>3. Wanted(TA[p].key)'
      <4>1. CASE TA[p].key = k
        <5>1. th'[w].pc = "seek" /\ th'[w].v.key = TA[p].key
          BY <1>3, <1>5, <4>1
        <5> QED
          BY <1>5, <5>1 DEF Wanted
      <4>2. CASE TA[p].key # k /\ expected[TA[p].key] # 0
        BY <1>5, <1>6, <3>1, <4>2 DEF Wanted
      <4>3. CASE expected[TA[p].key] = 0
        <5>1. PICK y \in Threads : th[y].pc = "seek" /\ th[y].v.key = TA[p].key
          BY <3>1, <4>3 DEF Wanted
        <5>2. th'[y] = th[y]
          BY <1>5, <5>1, IdleCall
        <5> QED
          BY <1>5, <5>1, <5>2 DEF Wanted
      <4> QED
        BY <4>1, <4>2, <4>3
    <3>4. ASSUME NEW y \in Threads PROVE Heeds(th[y], mine[y], p)'
      <4>1. PICK a : a = th'[y]
        OBVIOUS
      <4>2. Heeds(u, m, p)
        <5>1. u.v.key = TA[p].key => Offset(u.i, u.j) <= Offset(u.i, p)
          BY <1>3, <1>4, <3>1, Offsets
        <5> QED
          BY <1>3, <5>1 DEF Heeds
      <4>3. Heeds(a, mine[y], p)
        BY <1>5, <1>10, <3>1, <4>1, <4>2
      <4>4. Heeds(a, mine[y], p)'
        BY <1>5, <1>6, <4>3 DEF Heeds, Seen, Offset, Between, Index
      <4> QED
        BY <4>1, <4>4 DEF Heeds, Seen, Offset, Between, Index
    <3> QED
      BY <3>2, <3>3, <3>4
  <2>4. \A a \in Keys : expected'[a] # 0 => \E p \in Lasting(mine)' : TA'[p].key = a
    BY <1>5, <1>6, <1>8, <2>1 DEF Shared
  <2>5. \A x, y \in Threads : x # y /\ mine[x] # m => mine[y] # mine[x]
    BY <1>8 DEF Shared
  <2> QED
    BY <2>1, <2>2, <2>3, <2>4, <2>5 DEF Shared
<1> QED
  BY <1>5, <1>9, <1>11 DEF LayoutInv

\* Deletes can start on any table that is laid out.
Ready == /\ \E R \in SUBSET Index : Room(R)
         /\ \E mine \in [Threads -> Index \cup {m}] : Shared(mine)

LEMMA DeletesBegin == TypeOK /\ LaidOut /\ AllIdle => Ready
<1> SUFFICES ASSUME TypeOK, LaidOut, AllIdle PROVE Ready
  OBVIOUS
<1>1. ASSUME NEW p \in Index, TA[p] # empty
      PROVE  /\ TA[p].key \in Keys /\ expected[TA[p].key] # 0
             /\ TA[p] = [key |-> TA[p].key, val |-> expected[TA[p].key]]
             /\ Passed(TA[p], p)
  <2>1. TA[p] \in Entries
    BY <1>1 DEF Entries
  <2>2. PICK k \in Keys : expected[k] # 0 /\ TA[p] = [key |-> k, val |-> expected[k]]
    BY <2>1 DEF LaidOut
  <2>3. Passed(TA[p], p)
    BY <1>1 DEF LaidOut, Passed
  <2> QED
    BY <2>2, <2>3
<1>2. PICK R \in SUBSET Index : R = {p \in Index : TA[p] # empty}
  OBVIOUS
<1>3. Cardinality(R) <= Cardinality(Keys)
  <2> DEFINE h == [p \in R |-> TA[p].key]
  <2>1. h \in [R -> Keys]
    BY <1>1, <1>2
  <2>2. ASSUME NEW p \in R, NEW q \in R, h[p] = h[q] PROVE p = q
    <3>1. TA[p].key = TA[q].key /\ TA[p] # empty /\ TA[q] # empty /\ p \in Index /\ q \in Index
      BY <1>2, <2>2
    <3>2. TA[p] = TA[q]
      BY <1>1, <3>1
    <3> QED
      BY <3>1, <3>2 DEF LaidOut
  <2> HIDE DEF h
  <2>3. h \in Injection(R, Keys)
    BY <2>1, <2>2 DEF Injection, IsInjective
  <2>4. IsFiniteSet(Keys)
    BY TableAssumption
  <2> QED
    BY <2>3, <2>4, FS_Injection DEF ExistsInjection
<1>4. Room(R)
  <2>1. ASSUME NEW p \in Index, TA[p] # empty
        PROVE  /\ Between(firstIndex(TA[p]), p) \cup {p} \subseteq R
               /\ expected[TA[p].key] \in {0, TA[p].val}
    <3>1. ASSUME NEW b \in Between(firstIndex(TA[p]), p) PROVE b \in R
      <4>1. b \in Index /\ TA[b].key > TA[p].key
        BY <1>1, <2>1 DEF Passed, Between
      <4>2. TA[b] # empty
        <5>1. TA[p].key \in Nat /\ TA[p].key > 0 /\ empty.key = 0
          BY <1>1, <2>1, Sizes, Entries0
        <5> QED
          BY <4>1, <5>1
      <4> QED
        BY <1>2, <4>1, <4>2
    <3>2. PICK a : a = [key |-> TA[p].key, val |-> expected[TA[p].key]] /\ TA[p] = a
      BY <1>1, <2>1
    <3>3. a.val = expected[TA[p].key]
      BY <3>2
    <3> QED
      BY <1>2, <2>1, <3>1, <3>2, <3>3
  <2>2. \A y \in Threads : th[y].op # "delete"
    BY IdleCall DEF AllIdle
  <2> QED
    BY <1>3, <2>1, <2>2 DEF Room
<1>5. PICK mine \in [Threads -> Index \cup {m}] : mine = [y \in Threads |-> m]
  OBVIOUS
<1>6. Shared(mine)
  <2>1. \A y \in Threads : mine[y] = m /\ th[y] = Idle
    BY <1>5 DEF AllIdle
  <2>2. \A p : p \in Lasting(mine) <=> p \in Index /\ TA[p] # empty
    BY <2>1, Sizes DEF Lasting, Index
  <2>3. \A y \in Threads : Owns(th[y], mine[y])
    BY <2>1 DEF Owns
  <2>4. ASSUME NEW k \in Keys, expected[k] # 0 PROVE \E p \in Lasting(mine) : TA[p].key = k
    <3>1. PICK e : e = [key |-> k, val |-> expected[k]] /\ e \in Entries
      BY <2>4 DEF LaidOut
    <3>2. PICK p \in Index : TA[p] = e /\ TA[p] # empty
      BY <3>1 DEF Entries
    <3>3. TA[p].key = k
      BY <3>1, <3>2
    <3> QED
      BY <2>2, <3>2, <3>3
  <2>5. ASSUME NEW p \in Lasting(mine)
        PROVE  /\ Passed(TA[p], p) /\ Wanted(TA[p].key)
               /\ \A y \in Threads : Heeds(th[y], mine[y], p)
    <3>1. Passed(TA[p], p) /\ expected[TA[p].key] # 0
      BY <1>1, <2>2, <2>5
    <3>2. \A y \in Threads : Heeds(th[y], mine[y], p)
      BY <2>1, IdleCall DEF Heeds
    <3> QED
      BY <3>1, <3>2 DEF Wanted
  <2> QED
    BY <2>1, <2>3, <2>4, <2>5 DEF Shared
<1> QED
  BY <1>4, <1>6 DEF Ready

LEMMA DeletesBeginNext == (TypeOK /\ LaidOut /\ AllIdle => Ready)'
  BY DeletesBegin, PTL

\* When no delete is under way, what lasts is all there is and all there should
\* be.
LEMMA DeletesEnd == ASSUME TypeOK, Ready, AllIdle PROVE LaidOut
<1>1. PICK R \in SUBSET Index : Room(R)
  BY DEF Ready
<1>2. PICK mine \in [Threads -> Index \cup {m}] : Shared(mine)
  BY DEF Ready
<1>3. ASSUME NEW y \in Threads PROVE mine[y] = m /\ th[y] = Idle
  BY <1>2, IdleCall DEF AllIdle, Shared, Owns
<1>4. ASSUME NEW p \in Index, TA[p] # empty PROVE p \in Lasting(mine)
  BY <1>3, <1>4, Sizes DEF Lasting, Index
<1>5. ASSUME NEW p \in Index, TA[p] # empty
      PROVE  /\ TA[p].key \in Keys /\ expected[TA[p].key] # 0 /\ Passed(TA[p], p)
             /\ TA[p] = [key |-> TA[p].key, val |-> expected[TA[p].key]]
  <2>1. TA[p].key \in Keys /\ Passed(TA[p], p) /\ Wanted(TA[p].key) /\ TA[p] \in Entry
    BY <1>2, <1>4, <1>5, Lasts
  <2>2. expected[TA[p].key] # 0
    BY <1>3, <2>1, IdleCall DEF Wanted
  <2>3. expected[TA[p].key] = TA[p].val
    BY <1>1, <1>5, <2>2 DEF Room
  <2>4. TA[p] = [key |-> TA[p].key, val |-> TA[p].val]
    BY <2>1, Entries0
  <2> QED
    BY <2>1, <2>2, <2>3, <2>4
<1>6. ASSUME NEW k \in Keys, expected[k] # 0
      PROVE  [key |-> k, val |-> expected[k]] \in Entries
  <2>1. PICK p \in Lasting(mine) : TA[p].key = k
    BY <1>2, <1>6 DEF Shared
  <2>2. p \in Index /\ TA[p] # empty
    BY DEF Lasting
  <2>3. TA[p] = [key |-> k, val |-> expected[k]]
    BY <1>5, <2>1, <2>2
  <2>4. TA[p] \in Entries
    BY <2>2 DEF Entries
  <2> QED
    BY <2>3, <2>4
<1>7. Entries = {[key |-> k, val |-> expected[k]] : k \in {k \in Keys : expected[k] # 0}}
  <2>1. ASSUME NEW e \in Entries PROVE e.key \in Keys /\ expected[e.key] # 0
                                      /\ e = [key |-> e.key, val |-> expected[e.key]]
    BY <1>5 DEF Entries
  <2> QED
    BY <1>6, <2>1
<1>8. ASSUME NEW i \in Index, NEW j \in Index, i # j, TA[i] = TA[j], TA[i] # empty PROVE FALSE
  BY <1>2, <1>4, <1>8, OneLasts
<1>9. \A i \in Index : TA[i] # empty =>
        \A b \in Between(firstIndex(TA[i]), i) : TA[b].key > TA[i].key
  BY <1>5 DEF Passed
<1> QED
  BY <1>7, <1>8, <1>9 DEF LaidOut

LEMMA LayoutNext == ASSUME IInv, ValueInv, LayoutInv, Next PROVE LayoutInv'
<1> USE DEF IInv
<1>1. CASE NextPhase
  <2>1. TypeOK' /\ AllIdle /\ AllIdle'
    BY <1>1, PhaseTypes DEF AllIdle, Idle, empty
  <2>2. UNCHANGED <<TA, hashStruct, th, expected>>
    BY <1>1 DEF NextPhase
  <2>3. LaidOut
    <3>1. CASE phase = "insert"
      BY <2>1, <3>1, WellLaid
    <3>2. CASE phase = "delete"
      BY <2>1, <3>2, DeletesEnd DEF LayoutInv, Ready
    <3> QED
      BY <1>1, <3>1, <3>2 DEF NextPhase
  <2>4. LaidOut'
    BY <2>2, <2>3 DEF LaidOut, Entries, firstIndex, Between, Index, empty
  <2>5. Ready'
    BY <2>1, <2>4, DeletesBeginNext
  <2> QED
    BY <2>4, <2>5 DEF LayoutInv, Ready
<1>2. ASSUME NEW w \in Threads, NEW k \in Keys, StartDelete(w, k) PROVE LayoutInv'
  BY <1>2, StartLayout
<1>3. ASSUME phase = "delete", NEW w \in Threads, LookDelete(w) \/ deleteSwap(w)
      PROVE  LayoutInv'
  <2>1. PICK R \in SUBSET Index : Room(R)
    BY <1>3 DEF LayoutInv
  <2>2. PICK mine \in [Threads -> Index \cup {m}] : Shared(mine)
    BY <1>3 DEF LayoutInv
  <2>3. Room(R)'
    BY <1>3, <2>1, RoomNext
  <2>4. th[w].op = "delete"
    <3>1. th[w].pc \in {"seek", "check", "up", "back", "reload"}
      BY <1>3 DEF LookDelete, deleteSeek, deleteDown, deleteFound, deleteUp, deleteBack,
                  deleteReload, deleteSwap
    <3> QED
      BY <3>1, Deletes DEF Deleting
  <2>5. ASSUME NEW u, Quiet(w, u), (u = Idle /\ Ends(th[w])) \/ Looks(th[w], u)
        PROVE  \E n \in [Threads -> Index \cup {m}] : Shared(n)'
    BY <2>1, <2>2, <2>4, <2>5, LookShared
  <2>6. \E n \in [Threads -> Index \cup {m}] : Shared(n)'
    <3>1. CASE LookDelete(w)
      BY <2>5, <3>1, LookKinds
    <3>2. CASE deleteSwap(w)
      <4>1. ASSUME NEW u, Fills(th[w], u), Puts(w, u, th[w].j, th[w].x)
            PROVE  \E n \in [Threads -> Index \cup {m}] : Shared(n)'
        BY <1>3, <2>1, <2>2, <4>1, SwapShared
      <4> QED
        BY <2>5, <3>2, <4>1, SwapKinds
    <3> QED
      BY <1>3, <3>1, <3>2
  <2>7. phase' = "delete"
    BY <1>3 DEF LookDelete, deleteSeek, deleteDown, deleteFound, deleteUp, deleteBack,
                deleteReload, deleteSwap, Same
  <2> QED
    BY <2>3, <2>6, <2>7 DEF LayoutInv
<1>4. ASSUME phase = "find", UNCHANGED <<TA, hashStruct, phase, expected>> PROVE LayoutInv'
  BY <1>4 DEF LayoutInv, LaidOut, Entries, firstIndex, Between, Index, empty
<1>5. ASSUME phase' = "insert" PROVE LayoutInv'
  BY <1>5 DEF LayoutInv
<1>6. ASSUME NEW w \in Threads, Start(w) PROVE LayoutInv'
  BY <1>2, <1>4, <1>5, <1>6 DEF Start, StartInsert, StartFind
<1>7. ASSUME NEW w \in Threads, Step(w) PROVE LayoutInv'
  <2>1. CASE insertLoad(w) \/ insertCas(w)
    <3>1. phase' = "insert"
      BY <2>1, LoadStep, CasStep DEF insertLoad, insertCas, Same
    <3> QED
      BY <1>5, <3>1
  <2>2. CASE LookDelete(w) \/ deleteSwap(w)
    BY <1>3, <2>2, LookStep, SwapStep
  <2>3. CASE findProbe(w) \/ findReturn(w)
    <3>1. phase = "find" /\ UNCHANGED <<TA, hashStruct, phase, expected>>
      BY <2>3, FindStep DEF findProbe, findReturn, Same
    <3> QED
      BY <1>4, <3>1
  <2> QED
    BY <1>7, <2>1, <2>2, <2>3 DEF Step, LookDelete
<1> QED
  BY <1>1, <1>6, <1>7 DEF Next

LEMMA LayoutStutter == ASSUME LayoutInv, UNCHANGED vars PROVE LayoutInv'
<1>1. \A e : firstIndex(e)' = firstIndex(e)
  BY DEF vars, firstIndex
<1>2. ASSUME NEW R, Room(R) PROVE Room(R)'
  <2>1. \A t : InRoom(t, R)' <=> InRoom(t, R)
    BY <1>1 DEF vars, InRoom, Stays, empty, Between, Index, lessIndex
  <2>2. \A y \in Threads : (th[y].op = "delete" => InRoom(th[y], R))'
    BY <1>2, <2>1 DEF vars, Room, InRoom, Stays, empty, Between, Index, lessIndex
  <2> QED
    BY <1>1, <1>2, <2>2 DEF vars, Room, empty, Between, Index
<1>3. ASSUME NEW mine, Shared(mine) PROVE Shared(mine)'
  <2>1. /\ \A t, q : Owns(t, q)' <=> Owns(t, q)
        /\ \A t, q, p : Heeds(t, q, p)' <=> Heeds(t, q, p)
        /\ \A v, i : Passed(v, i)' <=> Passed(v, i)
        /\ \A k : Wanted(k)' <=> Wanted(k)
        /\ Lasting(mine)' = Lasting(mine)
    BY <1>1 DEF vars, Owns, Heeds, Passed, Wanted, Lasting, Reach, Seen, Offset, empty, Between,
                Index
  <2>2. th' = th /\ TA' = TA /\ expected' = expected
    BY DEF vars
  <2>3. \A y \in Threads : Owns(th[y], mine[y])'
    BY <1>3, <2>1, <2>2 DEF Shared, Owns, Reach, Offset
  <2>4. \A p \in Lasting(mine)' : Passed(TA[p], p)' /\ Wanted(TA[p].key)'
    BY <1>3, <2>1, <2>2 DEF Shared, Passed, Wanted, Between, Index
  <2>5. ASSUME NEW p \in Lasting(mine), NEW y \in Threads PROVE Heeds(th[y], mine[y], p)'
    <3>1. PICK a : a = th[y] /\ a = th'[y]
      BY <2>2
    <3>2. Heeds(a, mine[y], p)
      BY <1>3, <3>1 DEF Shared
    <3>3. Heeds(a, mine[y], p)'
      BY <2>1, <3>2, Zenon
    <3> QED
      BY <3>1, <3>3 DEF Heeds, Seen, Offset, Between, Index
  <2> QED
    BY <1>3, <2>1, <2>2, <2>3, <2>4, <2>5 DEF Shared
<1>4. LaidOut => LaidOut'
  BY DEF vars, LaidOut, Entries, firstIndex, Between, Index, empty
<1>5. phase' = phase
  BY DEF vars
<1> QED
  BY <1>2, <1>3, <1>4, <1>5 DEF LayoutInv

\* While deletes run, in whatever order their steps come, each copy of an entry
\* that should stay, or that some delete has yet to find, is where searches find
\* it, and every other copy has one delete to remove it.
THEOREM Layout == Spec => [](IInv /\ ValueInv /\ FindInv /\ LayoutInv)
<1> DEFINE Inv == ValueInv /\ FindInv /\ LayoutInv
<1>1. Init => Inv
  <2>1. Init => ValueInv
    BY ValueInit
  <2>2. Init => FindInv /\ LayoutInv
    BY DEF Init, FindInv, LayoutInv
  <2> QED
    BY <2>1, <2>2
<1>2. IInv /\ Inv /\ [Next]_vars => Inv'
  <2>1. ASSUME IInv, Inv, Next PROVE Inv'
    BY <2>1, ValueNext, FindNext, LayoutNext
  <2>2. ASSUME Inv, UNCHANGED vars PROVE Inv'
    <3>1. ValueInv'
      BY <2>2, ValueStutter
    <3>2. FindInv'
      BY <2>2 DEF vars, FindInv, LaidOut, Entries, firstIndex, Passed, FindsWhatIsThere
    <3> QED
      BY <2>2, <3>1, <3>2, LayoutStutter
  <2> QED
    BY <2>1, <2>2
<1> QED
  BY <1>1, <1>2, Invariance, PTL DEF Spec

\* Between calls, in every phase and however the calls before it interleaved,
\* the table depends only on what is in it: the layout is the canonical one of
\* the keys that were inserted and not deleted, each with its value.
THEOREM HistoryIndependent == Spec => []CanonicalLayout
<1>1. IInv /\ ValueInv /\ LayoutInv => CanonicalLayout
  <2> SUFFICES ASSUME IInv, ValueInv, LayoutInv, AllIdle PROVE LaidOut
    BY DEF CanonicalLayout
  <2>1. CASE phase = "insert"
    BY <2>1, WellLaid
  <2>2. CASE phase = "delete"
    BY <2>2, DeletesEnd DEF LayoutInv, Ready, IInv
  <2>3. CASE phase = "find"
    BY <2>3 DEF LayoutInv
  <2> QED
    BY <2>1, <2>2, <2>3 DEF IInv, TypeOK
<1> QED
  BY <1>1, Layout, PTL

\* Every search that returns has found the value its key should have, or that
\* the key is not there: no delete that ran left an entry where searches miss it.
THEOREM SearchesRight == Spec => []FindsWhatIsThere
<1>1. IInv /\ FindInv /\ LayoutInv => FindsWhatIsThere
  <2> SUFFICES ASSUME IInv, FindInv, LayoutInv, NEW w \in Threads, th[w].pc = "answer"
               PROVE  th[w].c.val = expected[th[w].v.key]
    BY DEF FindsWhatIsThere
  <2>1. phase = "find"
    BY InCall DEF IInv, Fits
  <2> QED
    BY <2>1, FindParts DEF FindOf, LayoutInv
<1> QED
  BY <1>1, Layout, PTL
=============================================================================
