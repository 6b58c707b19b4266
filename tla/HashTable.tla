------------------------------ MODULE HashTable ------------------------------
(***************************************************************************)
(* The phase-concurrent hash table of parlay/hash_table.h: linear probing  *)
(* in which a key of higher priority displaces one of lower priority, and  *)
(* whoever displaced an entry inserts it further on.  Insertions run       *)
(* concurrently, so do deletions and so do searches, each in a phase of    *)
(* its own.                                                                *)
(*                                                                         *)
(* A step reads or compares-and-swaps one cell; what a call does between   *)
(* two accesses to the table is part of the step before.                   *)
(***************************************************************************)
EXTENDS Integers, FiniteSetsExt

CONSTANTS
  Threads,
  m,          \* the number of cells, 100 + load * size in the code
  Keys,       \* natural numbers above 0; the larger has priority
  Vals,       \* bound: what entries carry besides their keys
  Hashes,     \* bound: the hash functions tried, from Keys to 0 .. m - 1
  MaxInserts, MaxDeletes, MaxFinds  \* bounds: the calls of each phase

\* Fewer than half the cells are ever full: lessIndex compares two places by
\* the shorter way around the table.
ASSUME LoadAssumption == Keys \subseteq Nat \ {0} /\ 2 * Cardinality(Keys) < m

ASSUME TableAssumption ==
  /\ m \in Nat \ {0} /\ IsFiniteSet(Threads) /\ IsFiniteSet(Keys)
  /\ Hashes \subseteq [Keys -> 0 .. m - 1] /\ Vals \subseteq Nat \ {0}

VARIABLES
  TA,          \* the table
  hashStruct,  \* the hash function, and when an entry replaces one of its key
  phase,       \* what is going on: "insert", "delete" or "find"
  th,          \* the call each thread is in
  calls,       \* how many calls this phase has had
  expected     \* history: the value each key should have, 0 for none

vars == <<TA, hashStruct, phase, th, calls, expected>>

empty        == [key |-> 0, val |-> 0]
Index        == 0 .. m - 1
Idle         == [pc |-> "idle", op |-> "none", v |-> empty, i |-> 0, j |-> 0,
                 c |-> empty, jj |-> 0, jjj |-> 0, x |-> empty]
AllIdle      == \A w \in Threads : th[w] = Idle

firstIndex(v)     == hashStruct.hash[v.key]
incrementIndex(h) == IF h + 1 = m THEN 0 ELSE h + 1
decrementIndex(h) == IF h = 0 THEN m - 1 ELSE h - 1

\* Mutant: the table is taken for a line.
lessOnLine(a, b)  == a < b
lessIndex(a, b)   == IF a < b THEN 2 * (b - a) < m ELSE 2 * (a - b) > m

\* The HASH a table is made with: hash_numeric has keys only and never replaces;
\* others keep the larger value, or add them up through update.
replaceQ(v, c) == CASE hashStruct.kind = "numeric" -> FALSE
                    [] hashStruct.kind = "max"     -> v.val > c.val
                    [] hashStruct.kind = "add"     -> TRUE
Merged(c, v)   == IF hashStruct.kind = "add" THEN [c EXCEPT !.val = @ + v.val] ELSE v

Init ==
  /\ TA = [i \in Index |-> empty]
  /\ hashStruct \in [hash : Hashes, kind : {"numeric", "max", "add"}]
  /\ phase = "insert" /\ calls = 0
  /\ th = [w \in Threads |-> Idle]
  /\ expected = [k \in Keys |-> 0]

Return(w)  == th' = [th EXCEPT ![w] = Idle]
Go(w, rec) == th' = [th EXCEPT ![w] = rec]
Same       == UNCHANGED <<hashStruct, phase, calls>>

---------------------------------------------------------------------------
(* insert(v) and update(v)                                                 *)

Inserted(v) ==
  LET old == [key |-> v.key, val |-> expected[v.key]] IN
  IF old.val = 0 THEN v.val
  ELSE IF replaceQ(v, old) THEN Merged(old, v).val ELSE old.val

StartInsert(w, op, v) ==
  /\ phase = "insert" /\ th[w] = Idle /\ calls < MaxInserts
  /\ op = IF hashStruct.kind = "add" THEN "update" ELSE "insert"
  /\ hashStruct.kind = "numeric" => v.val = 1
  /\ Go(w, [Idle EXCEPT !.pc = "load", !.op = op, !.v = v, !.i = firstIndex(v)])
  /\ calls' = calls + 1
  /\ expected' = [expected EXCEPT ![v.key] = Inserted(v)]
  /\ UNCHANGED <<TA, hashStruct, phase>>

\* c = TA[i] and the comparisons.
insertLoad(w) ==
  LET t == th[w]
      c == TA[t.i]
  IN
  /\ t.pc = "load"
  /\ \/ /\ c # empty /\ t.v.key < c.key
        /\ Go(w, [t EXCEPT !.i = incrementIndex(@)])
     \/ /\ c # empty /\ t.v.key = c.key /\ ~replaceQ(t.v, c)
        /\ Return(w)
     \/ /\ c = empty \/ t.v.key > c.key \/ (t.v.key = c.key /\ replaceQ(t.v, c))
        /\ Go(w, [t EXCEPT !.pc = "cas", !.c = c])
  /\ Same /\ UNCHANGED <<TA, expected>>

\* What the compare-and-swap puts in place of c.
NewEntry(t) ==
  IF t.op = "update" /\ t.c.key = t.v.key THEN Merged(t.c, t.v) ELSE t.v

\* Mutant: the entry that was displaced is forgotten.
insertForgets(w) ==
  LET t == th[w] IN
  /\ t.pc = "cas"
  /\ IF TA[t.i] = t.c
     THEN TA' = [TA EXCEPT ![t.i] = NewEntry(t)] /\ Return(w)
     ELSE UNCHANGED TA /\ Go(w, [t EXCEPT !.pc = "load"])
  /\ Same /\ UNCHANGED expected

\* Mutant: after a failure the same comparison is tried again.
insertSpins(w) ==
  LET t == th[w] IN
  /\ t.pc = "cas"
  /\ \/ /\ TA[t.i] # t.c
        /\ UNCHANGED <<TA, th>>
     \/ /\ TA[t.i] = t.c
        /\ TA' = [TA EXCEPT ![t.i] = NewEntry(t)]
        /\ IF t.c.key \in {0, t.v.key} THEN Return(w)
           ELSE Go(w, [t EXCEPT !.pc = "load", !.v = t.c, !.i = incrementIndex(@)])
  /\ Same /\ UNCHANGED expected

insertCas(w) ==
  LET t == th[w] IN
  /\ t.pc = "cas"
  /\ \/ /\ TA[t.i] # t.c
        /\ Go(w, [t EXCEPT !.pc = "load"])
        /\ UNCHANGED TA
     \/ /\ TA[t.i] = t.c
        /\ TA' = [TA EXCEPT ![t.i] = NewEntry(t)]
        /\ IF t.c.key \in {0, t.v.key} THEN Return(w)
           ELSE Go(w, [t EXCEPT !.pc = "load", !.v = t.c, !.i = incrementIndex(@)])
  /\ Same /\ UNCHANGED expected

---------------------------------------------------------------------------
(* deleteVal(v)                                                            *)

StartDelete(w, k) ==
  LET v == [empty EXCEPT !.key = k] IN
  /\ phase = "delete" /\ th[w] = Idle /\ calls < MaxDeletes
  /\ Go(w, [Idle EXCEPT !.pc = "seek", !.op = "delete", !.v = v,
                        !.i = firstIndex(v), !.j = firstIndex(v)])
  /\ calls' = calls + 1
  /\ expected' = [expected EXCEPT ![k] = 0]
  /\ UNCHANGED <<TA, hashStruct, phase>>

\* The first cell of a priority no higher than that of v.
deleteSeek(w) ==
  LET t == th[w]
      c == TA[t.j]
  IN
  /\ t.pc = "seek"
  /\ \/ /\ c = empty /\ t.j = t.i
        /\ Return(w)
     \/ /\ t.v.key < c.key
        /\ Go(w, [t EXCEPT !.j = incrementIndex(@)])
     \/ /\ t.v.key >= c.key /\ (c = empty => t.j # t.i)
        /\ Go(w, [t EXCEPT !.pc = "check", !.c = c])
  /\ Same /\ UNCHANGED <<TA, expected>>

\* v is not in cell j: go down, to h(v) at most.
deleteDown(w) ==
  LET t == th[w] IN
  /\ t.pc = "check" /\ t.v.key # t.c.key
  /\ IF t.j = t.i THEN Return(w)
     ELSE Go(w, [t EXCEPT !.j = decrementIndex(@), !.c = TA[decrementIndex(t.j)]])
  /\ Same /\ UNCHANGED <<TA, expected>>

\* v was in cell j: look for what may fill it.
deleteFound(w) ==
  LET t == th[w]
      jj == incrementIndex(t.j)
  IN
  /\ t.pc = "check" /\ t.v.key = t.c.key
  /\ Go(w, [t EXCEPT !.pc = "up", !.jj = jj, !.x = TA[jj]])
  /\ Same /\ UNCHANGED <<TA, expected>>

Stays(x, j) == x # empty /\ lessIndex(j, firstIndex(x))

deleteUp(w) ==
  LET t == th[w]
      jj == incrementIndex(t.jj)
  IN
  /\ t.pc = "up"
  /\ IF Stays(t.x, t.j) THEN Go(w, [t EXCEPT !.jj = jj, !.x = TA[jj]])
     ELSE Go(w, [t EXCEPT !.pc = "back", !.jjj = decrementIndex(t.jj)])
  /\ Same /\ UNCHANGED <<TA, expected>>

\* Others may have moved entries down meanwhile: look again on the way back.
deleteBack(w) ==
  LET t == th[w]
      y == TA[t.jjj]
      u == [t EXCEPT !.jjj = decrementIndex(@)]
  IN
  /\ t.pc = "back" /\ t.jjj # t.j
  /\ Go(w, IF Stays(y, t.j) THEN u ELSE [u EXCEPT !.x = y, !.jj = t.jjj])
  /\ Same /\ UNCHANGED <<TA, expected>>

\* cas(&TA[j], c, x); of the two copies of x there are now one has to go.
deleteSwap(w) ==
  LET t == th[w]
      u == [t EXCEPT !.pc = "reload"]
  IN
  /\ t.pc = "back" /\ t.jjj = t.j
  /\ \/ /\ TA[t.j] # t.c
        /\ Go(w, u) /\ UNCHANGED TA
     \/ /\ TA[t.j] = t.c
        /\ TA' = [TA EXCEPT ![t.j] = t.x]
        /\ IF t.x = empty THEN Return(w)
           ELSE Go(w, [u EXCEPT !.v = t.x, !.j = t.jj, !.i = firstIndex(t.x)])
  /\ Same /\ UNCHANGED expected

deleteReload(w) ==
  LET t == th[w] IN
  /\ t.pc = "reload"
  /\ Go(w, [t EXCEPT !.pc = "check", !.c = TA[t.j]])
  /\ Same /\ UNCHANGED <<TA, expected>>

---------------------------------------------------------------------------
(* find(v), and findIndex, which differs in what it returns                *)

StartFind(w, k) ==
  LET v == [empty EXCEPT !.key = k] IN
  /\ phase = "find" /\ th[w] = Idle /\ calls < MaxFinds
  /\ Go(w, [Idle EXCEPT !.pc = "probe", !.op = "find", !.v = v, !.i = firstIndex(v)])
  /\ calls' = calls + 1
  /\ UNCHANGED <<TA, hashStruct, phase, expected>>

\* Mutant: it gives up at the first entry of another key.
findGivesUp(w) ==
  LET t == th[w]
      c == TA[t.i]
  IN
  /\ t.pc = "probe"
  /\ Go(w, [t EXCEPT !.pc = "answer", !.c = IF t.v.key = c.key THEN c ELSE empty])
  /\ Same /\ UNCHANGED <<TA, expected>>

findProbe(w) ==
  LET t == th[w]
      c == TA[t.i]
  IN
  /\ t.pc = "probe"
  /\ \/ /\ t.v.key < c.key
        /\ Go(w, [t EXCEPT !.i = incrementIndex(@)])
     \/ /\ t.v.key >= c.key
        /\ Go(w, [t EXCEPT !.pc = "answer", !.c = IF t.v.key = c.key THEN c ELSE empty])
  /\ Same /\ UNCHANGED <<TA, expected>>

findReturn(w) ==
  /\ th[w].pc = "answer" /\ Return(w)
  /\ Same /\ UNCHANGED <<TA, expected>>

---------------------------------------------------------------------------
\* The phases are kept apart by whoever uses the table.
NextPhase ==
  /\ AllIdle
  /\ \/ phase = "insert" /\ phase' = "delete"
     \/ phase = "delete" /\ phase' = "find"
  /\ calls' = 0
  /\ UNCHANGED <<TA, hashStruct, th, expected>>

Start(w) ==
  \/ \E k \in Keys, x \in Vals, op \in {"insert", "update"} :
       StartInsert(w, op, [key |-> k, val |-> x])
  \/ \E k \in Keys : StartDelete(w, k) \/ StartFind(w, k)

Step(w) ==
  \/ insertLoad(w) \/ insertCas(w)
  \/ deleteSeek(w) \/ deleteDown(w) \/ deleteFound(w) \/ deleteUp(w)
  \/ deleteBack(w) \/ deleteSwap(w) \/ deleteReload(w)
  \/ findProbe(w) \/ findReturn(w)

Next == (\E w \in Threads : Start(w) \/ Step(w)) \/ NextPhase

\* A thread in a call runs on; nobody is made to call.
Fairness == \A w \in Threads : WF_vars(Step(w))
Spec     == Init /\ [][Next]_vars /\ Fairness

---------------------------------------------------------------------------
Entries    == {TA[i] : i \in Index} \ {empty}
Carried    == {th[w].v : w \in {u \in Threads : th[u].op \in {"insert", "update"}}}
Between(a, b) == {i \in Index : (i - a) % m < (b - a) % m}

\* The table holds what it should, in the one way to lay it out: each key that
\* is expected, and no other, has one entry with the right value, and from its
\* first index to its own there are only entries of higher priority, so that a
\* search that stops early is right.
LaidOut ==
  /\ Entries = {[key |-> k, val |-> expected[k]] : k \in {k \in Keys : expected[k] # 0}}
  /\ \A i, j \in Index : i # j /\ TA[i] = TA[j] => TA[i] = empty
  /\ \A i \in Index : TA[i] # empty =>
       \A b \in Between(firstIndex(TA[i]), i) : TA[b].key > TA[i].key

\* "History independent": between calls the table depends on what is in it and
\* not on the order in which it got there.
CanonicalLayout == AllIdle => LaidOut

\* No key goes missing for a moment: one that is expected is in the table or,
\* while insertions run, in the hand of whoever displaced it.
NoneLost ==
  \A k \in Keys : expected[k] # 0 => k \in {e.key : e \in Entries \cup Carried}

\* A search finds an entry if there is one.
FindsWhatIsThere ==
  \A w \in Threads : th[w].pc = "answer" => th[w].c.val = expected[th[w].v.key]

\* A table with room ends every call, however often its comparisons fail.
CallsReturn == \A w \in Threads : (th[w] # Idle) ~> (th[w] = Idle)

---------------------------------------------------------------------------
(* What holds at every step, for the proofs.                               *)

Entry == {empty} \cup [key : Keys, val : Nat]
Call  == [pc : {"idle", "load", "cas", "seek", "check", "up", "back", "reload",
                "probe", "answer"},
          op : {"none", "insert", "update", "delete", "find"}, v : Entry,
          i : Index, j : Index, c : Entry, jj : Index, jjj : Index, x : Entry]

TypeOK ==
  /\ TA \in [Index -> Entry]
  /\ hashStruct \in [hash : [Keys -> Index], kind : {"numeric", "max", "add"}]
  /\ phase \in {"insert", "delete", "find"}
  /\ th \in [Threads -> Call]
  /\ expected \in [Keys -> Nat]

\* Every call is one of its phase.
Fits(t) ==
  /\ t.v.key \in Keys
  /\ \/ /\ phase = "insert" /\ t.pc \in {"load", "cas"}
        /\ t.op = IF hashStruct.kind = "add" THEN "update" ELSE "insert"
     \/ /\ phase = "delete" /\ t.pc \in {"seek", "check", "up", "back", "reload"}
        /\ t.op = "delete"
     \/ /\ phase = "find" /\ t.pc \in {"probe", "answer"} /\ t.op = "find"

InPhase == \A w \in Threads : th[w] # Idle => Fits(th[w])

\* From its first index to i a search for v meets entries of higher priority.
Passed(v, i) == \A b \in Between(firstIndex(v), i) : TA[b].key > v.key

\* Every entry and every call has only passed entries of higher priority, and
\* a compare-and-swap never lowers the priority of a cell.
Inserting(t) ==
  /\ Passed(t.v, t.i)
  /\ t.pc = "cas" => \/ t.c = empty
                     \/ t.v.key > t.c.key
                     \/ t.v.key = t.c.key /\ replaceQ(t.v, t.c)

InsertInv ==
  phase = "insert" =>
    /\ \A i \in Index : TA[i] # empty => Passed(TA[i], i)
    /\ \A w \in Threads : th[w] # Idle => Inserting(th[w])

\* A key that should stay has more copies than there are calls to delete one.
Copies(k)   == {i \in Index : TA[i].key = k}
Deleters(k) == {w \in Threads : th[w].op = "delete" /\ th[w].v.key = k}

DeleteInv ==
  phase = "delete" =>
    /\ \A k \in Keys : expected[k] # 0 => Cardinality(Copies(k)) > Cardinality(Deleters(k))
    /\ \A w \in Threads : th[w].pc \in {"up", "back"} => th[w].c.key = th[w].v.key

IInv == TypeOK /\ InPhase /\ InsertInv /\ DeleteInv /\ NoneLost

\* A search of a table that is laid out has passed entries of higher priority.
FindInv ==
  phase = "find" /\ LaidOut =>
    /\ \A w \in Threads : th[w].pc = "probe" => Passed(th[w].v, th[w].i)
    /\ FindsWhatIsThere

---------------------------------------------------------------------------
(* What deletes do to the layout, for the proofs.                          *)

\* How far b is behind a.
Offset(a, b) == IF a <= b THEN b - a ELSE b - a + m

\* What a delete knows of the cells R that are in use.
InRoom(t, R) ==
  /\ t.i = firstIndex(t.v) /\ Between(t.i, t.j) \subseteq R
  /\ t.pc = "seek" => expected[t.v.key] = 0
  /\ t.pc # "seek" /\ t.c.key = t.v.key => t.j \in R
  /\ t.x # empty => expected[t.x.key] \in {0, t.x.val}
  /\ t.pc \in {"up", "back"} =>
       /\ Between(t.j, t.jj) \subseteq R /\ t.jj # t.j
       /\ t.x # empty => Between(firstIndex(t.x), t.jj) \cup {t.jj} \subseteq R
  /\ t.pc = "back" => /\ t.jjj \in Between(t.j, t.jj)
                      /\ t.x # empty => ~Stays(t.x, t.j)

\* Deletes use only the cells R that were full when their phase began, fewer
\* than half of them, so that lessIndex is right about the places they compare.
Room(R) ==
  /\ Cardinality(R) <= Cardinality(Keys)
  /\ \A p \in Index : TA[p] # empty =>
       /\ Between(firstIndex(TA[p]), p) \cup {p} \subseteq R
       /\ expected[TA[p].key] \in {0, TA[p].val}
  /\ \A w \in Threads : th[w].op = "delete" => InRoom(th[w], R)

\* The furthest place where the copy that a call is to remove can be.
Reach(t) ==
  Offset(t.i, t.j) - IF t.pc = "seek" \/ (t.pc = "check" /\ t.c.key # t.v.key) THEN 1 ELSE 0

\* A call that looks for what may fill cell j has seen, this far behind j, all
\* that would have to move there.
Seen(t) == IF t.pc = "up" THEN Offset(t.j, t.jj) - 1 ELSE Offset(t.j, t.jjj)

\* Each delete has at most one copy that it is to remove, mine[w], or m for
\* none.  The others last.
Owns(t, q) ==
  q # m => t.op = "delete" /\ TA[q].key = t.v.key /\ Offset(t.i, q) <= Reach(t)

Lasting(mine) == {p \in Index : TA[p] # empty /\ \A w \in Threads : mine[w] # p}

\* How a call, with its copy in q, leaves an entry that lasts at p where
\* searches find it.
Heeds(t, q, p) ==
  LET e == TA[p] IN
  /\ t.op = "delete" /\ t.v.key = e.key =>
       IF t.pc = "seek" THEN Offset(t.i, t.j) <= Offset(t.i, p) ELSE q # m
  /\ t.pc \in {"up", "back"} =>
       /\ t.j \in Between(firstIndex(e), p) => e.key <= t.x.key \/ Offset(t.j, p) <= Seen(t)
       /\ t.x.key = e.key => Offset(firstIndex(e), p) <= Offset(firstIndex(e), t.jj)

\* An entry lasts if it is expected, or else waits for somebody to find it.
Wanted(k) == \/ expected[k] # 0
             \/ \E w \in Threads : th[w].pc = "seek" /\ th[w].v.key = k

Shared(mine) ==
  /\ \A w \in Threads : Owns(th[w], mine[w])
  /\ \A w, u \in Threads : w # u /\ mine[w] # m => mine[u] # mine[w]
  /\ \A k \in Keys : expected[k] # 0 => \E p \in Lasting(mine) : TA[p].key = k
  /\ \A p \in Lasting(mine) : /\ Passed(TA[p], p) /\ Wanted(TA[p].key)
                              /\ \A w \in Threads : Heeds(th[w], mine[w], p)

LayoutInv ==
  /\ phase = "delete" => /\ \E R \in SUBSET Index : Room(R)
                         /\ \E mine \in [Threads -> Index \cup {m}] : Shared(mine)
  /\ phase = "find" => LaidOut

=============================================================================
