--------------------------- MODULE WSDequeProofs ---------------------------
(***************************************************************************)
(* Proofs about WSDeque: its type invariant and Conserved hold for any     *)
(* set of thieves, any array size and any number of pushes below TagMod.   *)
(***************************************************************************)
EXTENDS WSDeque, SequenceTheorems, TLAPS

USE OwnerAssumption, QSizeAssumption, PushAssumption, TagAssumption
    DEF Index, Jobs, Tags, Ages, Null, Procs, Locals, Answers, NoLocal, Busy,
        Ret, Write, Fence, Locked, memory, owner, thief

---------------------------------------------------------------------------
(* What happens to the queue when nothing leaves it, when one job leaves   *)
(* it, and to takes when that job is handed to its taker.                  *)

LEMMA SameQueue ==
  ASSUME QueueInv, Conserved, Live' = Live, \A i \in Live : deq'[i] = deq[i],
         Published' = Published, takes' = takes
  PROVE  QueueInv' /\ Conserved'
<1>1. Queued' = Queued
  BY DEF Queued
<1> QED
  BY <1>1 DEF QueueInv, Conserved

LEMMA RemoveOne ==
  ASSUME TypeOK, QueueInv, NEW k \in Live, Live' = Live \ {k}, deq' = deq,
         Published' = Published
  PROVE  Queued' = Queued \ {deq[k]} /\ QueueInv'
<1>1. \A i, l \in Live : i # l => deq[i] # deq[l]
  BY DEF QueueInv, Live, TypeOK
<1>2. Queued' = Queued \ {deq[k]}
  BY <1>1 DEF Queued
<1> QED
  BY <1>2 DEF QueueInv

LEMMA TakeOne ==
  ASSUME TypeOK, QueueInv, Conserved, NEW k \in Live, Take(deq[k]),
         Queued' = Queued \ {deq[k]}, Published' = Published
  PROVE  Conserved' /\ takes' \in [Jobs -> Nat]
<1>1. deq[k] \in Jobs /\ deq[k] <= Published
  BY DEF QueueInv, TypeOK, Published, Live
<1>2. takes[deq[k]] = 0
  BY <1>1 DEF Conserved, Queued
<1>3. takes' = [takes EXCEPT ![deq[k]] = 1]
  BY <1>1, <1>2 DEF Take, TypeOK
<1> QED
  BY <1>1, <1>3 DEF Conserved, TypeOK

---------------------------------------------------------------------------
LEMMA InitIInv == Init => IInv
<1> SUFFICES ASSUME Init PROVE IInv
  OBVIOUS
<1>1. TypeOK
  BY DEF Init, TypeOK
<1>2. BufferInv /\ AgeInv /\ ThiefInv
  BY DEF Init, BufferInv, AgeInv, ThiefInv
<1>3. Live = {} /\ Queued = {} /\ Published = 0
  BY DEF Init, Live, Queued, Published, Limit, Undecided
<1>4. QueueInv /\ Conserved
  BY <1>3 DEF Init, QueueInv, Conserved
<1> QED
  BY <1>1, <1>2, <1>4 DEF IInv

---------------------------------------------------------------------------
(* The owner's steps                                                       *)

\* Between calls the store buffer is empty and the owner sees bot itself.
LEMMA OwnerSeesBot == IInv /\ opc = "idle" => sb = <<>> /\ OwnerBot = bot
<1> SUFFICES ASSUME IInv, opc = "idle" PROVE sb = <<>> /\ OwnerBot = bot
  OBVIOUS
<1>1. sb = <<>>
  BY DEF IInv, BufferInv
<1> QED
  BY <1>1 DEF OwnerBot, BotWrites

LEMMA PushStartInv == IInv /\ PushStart => IInv'
<1> SUFFICES ASSUME IInv, PushStart PROVE IInv'
  OBVIOUS
<1>0. /\ sb = <<>> /\ bot \in Index /\ pushed \in 0 .. MaxPush
      /\ opc = "idle" /\ opc' = "push_publish"
      /\ pushed' = pushed + 1 /\ pushed' \in 0 .. MaxPush
      /\ sb' = <<Write("deq", bot, pushed + 1)>>
      /\ olocal' = [olocal EXCEPT !.bot = bot]
      /\ ret' = [ret EXCEPT ![Owner] = Busy]
      /\ UNCHANGED <<bot, age, deq, takes, tpc, tlocal>>
  <2>1. sb = <<>> /\ OwnerBot = bot
    BY OwnerSeesBot DEF PushStart
  <2>2. bot \in Index /\ pushed \in 0 .. MaxPush
    BY DEF IInv, TypeOK
  <2>3. sb' = <<Write("deq", bot, pushed + 1)>>
    BY <2>1 DEF PushStart
  <2> QED
    BY <2>1, <2>2, <2>3 DEF PushStart, OwnerCalls
<1>1. TypeOK'
  <2>1. Write("deq", bot, pushed + 1) \in Writes
    BY <1>0 DEF Writes
  <2>2. sb' \in Seq(Writes)
    BY <2>1, <1>0
  <2>3. olocal' \in Locals /\ ret' \in [Procs -> Answers]
    BY <1>0 DEF IInv, TypeOK
  <2> QED
    BY <2>2, <2>3, <1>0 DEF IInv, TypeOK
<1>2. BufferInv'
  BY <1>0 DEF BufferInv
<1>3. AgeInv'
  <2>1. age.top <= bot /\ age.tag + bot <= pushed
    BY <1>0 DEF AgeInv, IInv
  <2>2. age.tag \in Nat /\ age.top \in Nat /\ bot \in Nat /\ pushed \in Nat
    BY <1>0 DEF IInv, TypeOK
  <2>3. age'.top <= bot' /\ age'.tag + (bot' + 1) <= pushed'
    BY <1>0, <2>1, <2>2
  <2> QED
    BY <1>0, <2>3 DEF AgeInv
<1>4. Live' = Live /\ Published' = Published /\ Limit' = Limit
  BY <1>0 DEF Live, Limit, Undecided, Published, IInv, TypeOK
<1>5. ThiefInv'
  BY <1>0, <1>4 DEF IInv, ThiefInv
<1>6. QueueInv' /\ Conserved'
  BY <1>0, <1>4, SameQueue DEF IInv
<1> QED
  BY <1>1, <1>2, <1>3, <1>5, <1>6 DEF IInv

LEMMA PushPublishInv == IInv /\ PushPublish => IInv'
<1> SUFFICES ASSUME IInv, PushPublish PROVE IInv'
  OBVIOUS
<1>0. /\ opc = "push_publish" /\ opc' = "idle"
      /\ sb = <<>> /\ deq[bot] = pushed /\ bot = olocal.bot
      /\ bot \in Index /\ bot' = bot + 1 /\ bot' \in Index
      /\ age \in Ages /\ pushed \in Jobs
      /\ olocal' = NoLocal
      /\ ret' = [ret EXCEPT ![Owner] = Ret("push", Null, bot + 1 = 1)]
      /\ UNCHANGED <<age, deq, sb, pushed, takes, tpc, tlocal>>
  <2>1. /\ opc = "push_publish" /\ sb = <<>>
        /\ bot' = olocal.bot + 1 /\ olocal.bot + 1 # QSize
        /\ opc' = "idle" /\ olocal' = NoLocal
        /\ ret' = [ret EXCEPT ![Owner] = Ret("push", Null, olocal.bot + 1 = 1)]
        /\ UNCHANGED <<age, deq, sb, pushed, takes, tpc, tlocal>>
    BY DEF PushPublish, OwnerReturns, Locked
  <2>2. deq[bot] = pushed /\ bot = olocal.bot
    <3>1. sb # <<Write("deq", olocal.bot, pushed)>>
      BY <2>1
    <3> QED
      BY <2>1, <3>1 DEF IInv, BufferInv
  <2>3. bot \in Index /\ age \in Ages /\ pushed \in 0 .. MaxPush
    BY DEF IInv, TypeOK
  <2>4. bot' \in Index
    BY <2>1, <2>2, <2>3
  <2>5. pushed \in Jobs
    <3>1. age.tag + (bot + 1) <= pushed
      BY <2>1 DEF IInv, AgeInv
    <3>2. age.tag \in Nat /\ bot \in Nat
      BY <2>3
    <3> QED
      BY <2>3, <3>1, <3>2
  <2> QED
    BY <2>1, <2>2, <2>3, <2>4, <2>5
<1>1. TypeOK'
  <2>1. olocal' \in Locals /\ ret' \in [Procs -> Answers]
    <3>1. Ret("push", Null, bot + 1 = 1) \in Answers
      BY DEF Answers
    <3>2. ret \in [Procs -> Answers]
      BY DEF IInv, TypeOK
    <3>3. NoLocal \in Locals
      BY DEF NoLocal, Locals
    <3> QED
      BY <1>0, <3>1, <3>2, <3>3
  <2> QED
    BY <2>1, <1>0 DEF IInv, TypeOK
<1>2. BufferInv' /\ AgeInv'
  <2>1. age.top <= bot /\ age.tag + (bot + 1) <= pushed
    BY <1>0 DEF IInv, AgeInv
  <2>2. BufferInv'
    BY <1>0 DEF BufferInv
  <2>3. age.top <= bot + 1
    BY <1>0, <2>1
  <2> QED
    BY <1>0, <2>1, <2>2, <2>3 DEF AgeInv
<1>3. /\ Published = pushed - 1 /\ Published' = pushed
      /\ Limit = bot /\ Limit' = bot + 1 /\ age.top <= bot
  BY <1>0 DEF Published, Limit, Undecided, IInv, AgeInv
<1>4. Live' = Live \cup {bot} /\ bot \notin Live
  BY <1>0, <1>3 DEF Live
<1>5. ThiefInv'
  <2>1. age.top < Limit => age.top < Limit'
    BY <1>0, <1>3
  <2> QED
    BY <1>0, <2>1 DEF IInv, ThiefInv
<1>6. QueueInv'
  <2>1. \A i \in Live : i \in Nat /\ i < bot /\ deq[i] \in 1 .. pushed - 1
    BY <1>0, <1>3 DEF QueueInv, IInv, Live
  <2>2. \A i, k \in Live : i < k => deq[i] < deq[k]
    BY DEF QueueInv, IInv
  <2>3. \A i \in Live' : deq'[i] \in 1 .. Published'
    BY <1>0, <1>3, <1>4, <2>1
  <2>4. ASSUME NEW i \in Live', NEW k \in Live', i < k PROVE deq'[i] < deq'[k]
    BY <1>0, <1>4, <2>1, <2>2, <2>4
  <2> QED
    BY <2>3, <2>4 DEF QueueInv
<1>7. Queued' = Queued \cup {pushed}
  BY <1>0, <1>4 DEF Queued
<1>8. Conserved'
  <2> SUFFICES ASSUME NEW j \in Jobs
               PROVE  takes'[j] = IF j <= Published' /\ j \notin Queued' THEN 1 ELSE 0
    BY DEF Conserved
  <2>1. takes[j] = IF j <= Published /\ j \notin Queued THEN 1 ELSE 0
    BY DEF Conserved, IInv
  <2>2. (j <= Published /\ j \notin Queued) <=> (j <= Published' /\ j \notin Queued')
    BY <1>0, <1>3, <1>7
  <2> QED
    BY <1>0, <2>1, <2>2
<1> QED
  BY <1>1, <1>2, <1>5, <1>6, <1>8 DEF IInv

LEMMA PushOverflowInv == IInv /\ PushOverflow => IInv'
<1> SUFFICES ASSUME IInv, PushOverflow PROVE IInv'
  OBVIOUS
<1>0. /\ opc = "push_publish" /\ opc' = "aborted"
      /\ UNCHANGED <<bot, age, deq, sb, pushed, takes, olocal, tpc, tlocal, ret>>
  BY DEF PushOverflow
<1>1. TypeOK'
  BY <1>0 DEF IInv, TypeOK
<1>4. BufferInv'
  BY <1>0 DEF IInv, BufferInv
<1>5. AgeInv'
  BY <1>0 DEF IInv, AgeInv
<1>2. Live' = Live /\ Published' = Published /\ Limit' = Limit
  BY <1>0 DEF Live, Limit, Undecided, Published
<1>3. ThiefInv' /\ QueueInv' /\ Conserved'
  BY <1>0, <1>2, SameQueue DEF IInv, ThiefInv
<1> QED
  BY <1>1, <1>3, <1>4, <1>5 DEF IInv

LEMMA PopEmptyInv == IInv /\ PopEmpty => IInv'
<1> SUFFICES ASSUME IInv, PopEmpty PROVE IInv'
  OBVIOUS
<1>0. /\ opc = "idle" /\ opc' = "idle" /\ sb = <<>>
      /\ olocal' = NoLocal
      /\ ret' = [ret EXCEPT ![Owner] = Ret("pop", Null, FALSE)]
      /\ UNCHANGED <<bot, age, deq, sb, pushed, takes, tpc, tlocal>>
  BY OwnerSeesBot DEF PopEmpty, OwnerReturns
<1>1. TypeOK'
  <2>1. olocal' \in Locals /\ ret' \in [Procs -> Answers]
    BY <1>0 DEF IInv, TypeOK
  <2> QED
    BY <2>1, <1>0 DEF IInv, TypeOK
<1>2. BufferInv'
  BY <1>0 DEF BufferInv
<1>3. AgeInv'
  BY <1>0 DEF IInv, AgeInv
<1>4. Live' = Live /\ Published' = Published /\ Limit' = Limit
  BY <1>0 DEF Live, Limit, Undecided, Published
<1>5. ThiefInv' /\ QueueInv' /\ Conserved'
  BY <1>0, <1>4, SameQueue DEF IInv, ThiefInv
<1> QED
  BY <1>1, <1>2, <1>3, <1>5 DEF IInv

LEMMA PopStartInv == IInv /\ PopStart => IInv'
<1> SUFFICES ASSUME IInv, PopStart PROVE IInv'
  OBVIOUS
<1>0. /\ opc = "idle" /\ opc' = "pop_fence" /\ bot # 0
      /\ bot \in Index /\ bot - 1 \in Index
      /\ sb = <<>> /\ sb' = <<Write("bot", 0, bot - 1)>>
      /\ olocal' = [olocal EXCEPT !.bot = bot - 1]
      /\ ret' = [ret EXCEPT ![Owner] = Busy]
      /\ UNCHANGED <<bot, age, deq, pushed, takes, tpc, tlocal>>
  <2>1. sb = <<>> /\ OwnerBot = bot
    BY OwnerSeesBot DEF PopStart
  <2>2. bot \in Index /\ bot # 0
    BY <2>1 DEF PopStart, IInv, TypeOK
  <2>3. sb' = <<Write("bot", 0, bot - 1)>>
    BY <2>1 DEF PopStart
  <2> QED
    BY <2>1, <2>2, <2>3 DEF PopStart, OwnerCalls
<1>a. olocal'.bot = bot - 1
  BY <1>0 DEF IInv, TypeOK
<1>1. TypeOK'
  <2>1. Write("bot", 0, bot - 1) \in Writes
    BY <1>0 DEF Writes
  <2>2. sb' \in Seq(Writes)
    BY <2>1, <1>0
  <2>3. olocal' \in Locals /\ ret' \in [Procs -> Answers]
    BY <1>0 DEF IInv, TypeOK
  <2> QED
    BY <2>2, <2>3, <1>0 DEF IInv, TypeOK
<1>2. BufferInv'
  BY <1>0, <1>a DEF BufferInv
<1>3. AgeInv'
  <2>1. age.top <= bot /\ age.tag + bot <= pushed
    BY <1>0 DEF IInv, AgeInv
  <2>2. olocal'.bot + 1 = bot
    BY <1>0, <1>a
  <2> QED
    BY <1>0, <2>1, <2>2 DEF AgeInv
<1>4. Live' = Live /\ Published' = Published /\ Limit' = Limit
  BY <1>0, <1>a DEF Live, Limit, Undecided, Published
<1>5. ThiefInv' /\ QueueInv' /\ Conserved'
  BY <1>0, <1>4, SameQueue DEF IInv, ThiefInv
<1> QED
  BY <1>1, <1>2, <1>3, <1>5 DEF IInv

LEMMA PopLoadJobInv == IInv /\ PopLoadJob => IInv'
<1> SUFFICES ASSUME IInv, PopLoadJob PROVE IInv'
  OBVIOUS
<1>0. /\ opc = "pop_fence" /\ opc' = "pop_age"
      /\ sb = <<>> /\ bot = olocal.bot /\ bot \in Index
      /\ olocal' = [olocal EXCEPT !.job = deq[bot]]
      /\ UNCHANGED <<bot, age, deq, sb, pushed, takes, tpc, tlocal, ret>>
  <2>1. /\ opc = "pop_fence" /\ opc' = "pop_age" /\ sb = <<>>
        /\ olocal' = [olocal EXCEPT !.job = deq[olocal.bot]]
        /\ UNCHANGED <<bot, age, deq, sb, pushed, takes, tpc, tlocal, ret>>
    BY DEF PopLoadJob
  <2>2. bot = olocal.bot
    BY <2>1 DEF IInv, BufferInv
  <2>3. bot \in Index
    BY DEF IInv, TypeOK
  <2> QED
    BY <2>1, <2>2, <2>3
<1>a. /\ olocal'.bot = bot /\ olocal'.job = deq[bot]
      /\ olocal' \in Locals
  BY <1>0 DEF IInv, TypeOK
<1>1. TypeOK'
  BY <1>0, <1>a DEF IInv, TypeOK
<1>2. BufferInv'
  BY <1>0, <1>a DEF BufferInv
<1>3. AgeInv'
  <2>1. age.top <= olocal.bot + 1 /\ age.tag + (olocal.bot + 1) <= pushed
    BY <1>0 DEF IInv, AgeInv
  <2>2. olocal'.bot = olocal.bot
    BY <1>0, <1>a
  <2> QED
    BY <1>0, <2>1, <2>2 DEF AgeInv
<1>4. Live' = Live /\ Published' = Published /\ Limit' = Limit
  BY <1>0, <1>a DEF Live, Limit, Undecided, Published
<1>5. ThiefInv' /\ QueueInv' /\ Conserved'
  BY <1>0, <1>4, SameQueue DEF IInv, ThiefInv
<1> QED
  BY <1>1, <1>2, <1>3, <1>5 DEF IInv

\* The owner takes the bottom job without a compare-and-swap: with top below
\* it, no thief that still matches age is after it.
LEMMA PopUncontendedInv == IInv /\ PopUncontended => IInv'
<1> SUFFICES ASSUME IInv, PopUncontended PROVE IInv'
  OBVIOUS
<1>0. /\ opc = "pop_age" /\ opc' = "idle"
      /\ sb = <<>> /\ bot = olocal.bot /\ olocal.job = deq[bot]
      /\ bot \in Index /\ age \in Ages /\ bot > age.top
      /\ Take(deq[bot]) /\ olocal' = NoLocal
      /\ ret' = [ret EXCEPT ![Owner] = Ret("pop", deq[bot], FALSE)]
      /\ UNCHANGED <<bot, age, deq, sb, pushed, tpc, tlocal>>
  BY DEF PopUncontended, OwnerReturns, IInv, TypeOK, BufferInv
<1>1. /\ Limit = bot + 1 /\ Limit' = bot /\ Published' = Published
      /\ bot \in Live /\ Live' = Live \ {bot}
  BY <1>0 DEF Live, Limit, Undecided, Published
<1>2. QueueInv' /\ Conserved' /\ takes' \in [Jobs -> Nat]
  BY <1>0, <1>1, RemoveOne, TakeOne DEF IInv
<1>3. TypeOK'
  <2>1. olocal' \in Locals /\ ret' \in [Procs -> Answers]
    BY <1>0 DEF IInv, TypeOK
  <2> QED
    BY <2>1, <1>0, <1>2 DEF IInv, TypeOK
<1>4. BufferInv'
  BY <1>0 DEF BufferInv
<1>5. AgeInv'
  BY <1>0 DEF IInv, TypeOK, AgeInv
<1>6. ThiefInv'
  BY <1>0, <1>1 DEF IInv, ThiefInv
<1> QED
  BY <1>2, <1>3, <1>4, <1>5, <1>6 DEF IInv

LEMMA PopResetInv == IInv /\ PopReset => IInv'
<1> SUFFICES ASSUME IInv, PopReset PROVE IInv'
  OBVIOUS
<1>0. /\ opc = "pop_age"
      /\ opc' = IF bot = age.top THEN "pop_cas" ELSE "pop_age_store"
      /\ sb' = <<Write("bot", 0, 0)>> /\ bot = olocal.bot
      /\ olocal.job = deq[bot]
      /\ bot \in Index /\ age \in Ages /\ bot <= age.top
      /\ olocal' = [olocal EXCEPT !.age = age]
      /\ UNCHANGED <<bot, age, deq, pushed, takes, tpc, tlocal, ret>>
  <2>1. sb = <<>> /\ sb' = Append(sb, Write("bot", 0, 0))
    BY DEF PopReset, IInv, BufferInv
  <2>2. sb' = <<Write("bot", 0, 0)>>
    BY <2>1
  <2> QED
    BY <2>2 DEF PopReset, IInv, TypeOK, BufferInv
<1>a. /\ olocal'.bot = bot /\ olocal'.job = deq[bot] /\ olocal'.age = age
      /\ olocal' \in Locals
  BY <1>0 DEF IInv, TypeOK
<1>b. age.top \in Index /\ age.tag \in Tags /\ age.top \in {bot, bot + 1}
  BY <1>0 DEF IInv, AgeInv
<1>1. TypeOK'
  <2>1. Write("bot", 0, 0) \in Writes
    BY <1>0 DEF Writes
  <2>2. sb' \in Seq(Writes)
    BY <2>1, <1>0
  <2> QED
    BY <2>2, <1>0, <1>a DEF IInv, TypeOK
<1>2. BufferInv'
  BY <1>0, <1>a DEF BufferInv
<1>3. AgeInv'
  BY <1>0, <1>a, <1>b DEF IInv, TypeOK, AgeInv
<1>4. Published' = Published /\ Limit = bot + 1
  BY <1>0 DEF Published, Limit, Undecided
<1>5. CASE bot = age.top
  <2>1. Live' = Live /\ Limit' = Limit
    BY <1>0, <1>a, <1>5 DEF Live, Limit, Undecided
  <2>2. ThiefInv' /\ QueueInv' /\ Conserved'
    BY <1>0, <1>4, <2>1, SameQueue DEF IInv, ThiefInv
  <2> QED
    BY <1>1, <1>2, <1>3, <2>2 DEF IInv
<1>6. CASE bot # age.top
  <2>1. age.top = bot + 1 /\ Limit' = bot
    BY <1>0, <1>b, <1>6 DEF Limit, Undecided
  <2>2. Live = {} /\ Live' = {}
    BY <1>0, <1>4, <2>1 DEF Live
  <2>3. QueueInv' /\ Conserved'
    BY <1>0, <1>4, <2>2, SameQueue DEF IInv
  <2>4. ThiefInv'
    BY <1>0, <1>4, <2>1 DEF IInv, ThiefInv
  <2> QED
    BY <1>1, <1>2, <1>3, <2>3, <2>4 DEF IInv
<1> QED
  BY <1>5, <1>6

\* A reset moves the tag past every tag a thief has seen, because the tag is
\* at most the number of pushes and so does not wrap around.
LEMMA ResetTag ==
  ASSUME IInv, opc \in {"pop_cas", "pop_age_store"}
  PROVE  /\ ResetAge = [tag |-> age.tag + 1, top |-> 0]
         /\ ResetAge \in Ages
         /\ age.tag + 1 + olocal.bot <= pushed
<1>1. /\ olocal.age.tag = age.tag /\ age.tag \in Nat /\ olocal.bot \in Nat
      /\ pushed \in Nat /\ pushed <= MaxPush
  BY DEF IInv, TypeOK, AgeInv
<1>2. age.tag + (olocal.bot + 1) <= pushed
  BY DEF IInv, AgeInv
<1>3. age.tag + 1 \in 0 .. TagMod - 1 /\ age.tag + 1 + olocal.bot <= pushed
  BY <1>1, <1>2
<1>4. (age.tag + 1) % TagMod = age.tag + 1
  BY <1>3
<1> QED
  BY <1>1, <1>3, <1>4 DEF ResetAge

\* After a reset no thief holds a copy of age that is still current.
LEMMA ResetThiefInv ==
  ASSUME IInv, age' = [tag |-> age.tag + 1, top |-> 0], age \in Ages,
         UNCHANGED <<tpc, tlocal>>
  PROVE  ThiefInv'
<1>1. ASSUME NEW t \in Thieves, tpc[t] # "idle"
      PROVE  /\ tlocal[t].age.tag <= age.tag
             /\ tlocal[t].age.tag \in Nat
             /\ tpc[t] \in {"steal_job", "steal_cas"} =>
                  tlocal[t].age.top < tlocal[t].bot
  BY <1>1 DEF IInv, ThiefInv, TypeOK
<1>2. ASSUME NEW t \in Thieves, tpc[t] # "idle"
      PROVE  tlocal[t].age.tag < age'.tag /\ tlocal[t].age # age'
  BY <1>1, <1>2
<1> QED
  BY <1>1, <1>2 DEF ThiefInv

LEMMA PopCasWinInv == IInv /\ PopCasWin => IInv'
<1> SUFFICES ASSUME IInv, PopCasWin PROVE IInv'
  OBVIOUS
<1>0. /\ opc = "pop_cas" /\ opc' = "idle"
      /\ sb = <<>> /\ bot = 0 /\ olocal.job = deq[olocal.bot]
      /\ age = olocal.age /\ age.top = olocal.bot /\ olocal.bot \in Index
      /\ age \in Ages /\ age' = [tag |-> age.tag + 1, top |-> 0]
      /\ age' \in Ages /\ age.tag + 1 <= pushed
      /\ Take(deq[age.top]) /\ olocal' = NoLocal
      /\ ret' = [ret EXCEPT ![Owner] = Ret("pop", deq[age.top], FALSE)]
      /\ UNCHANGED <<bot, deq, sb, pushed, tpc, tlocal>>
  <2>1. olocal.bot \in Index /\ age \in Ages /\ pushed \in Nat
    BY DEF IInv, TypeOK
  <2>2. olocal.age.top = olocal.bot /\ opc = "pop_cas"
    BY DEF PopCasWin, IInv, AgeInv
  <2>3. sb = <<>> /\ bot = 0 /\ olocal.job = deq[olocal.bot]
    BY <2>2 DEF PopCasWin, IInv, BufferInv
  <2> QED
    BY <2>1, <2>2, <2>3, ResetTag DEF PopCasWin, OwnerReturns
<1>1. /\ Limit = age.top + 1 /\ Limit' = 0 /\ Published' = Published
      /\ age.top \in Live /\ Live' = Live \ {age.top}
  BY <1>0 DEF Live, Limit, Undecided, Published
<1>2. QueueInv' /\ Conserved' /\ takes' \in [Jobs -> Nat]
  BY <1>0, <1>1, RemoveOne, TakeOne DEF IInv
<1>3. TypeOK'
  <2>1. olocal' \in Locals /\ ret' \in [Procs -> Answers]
    BY <1>0 DEF IInv, TypeOK
  <2> QED
    BY <2>1, <1>0, <1>2 DEF IInv, TypeOK
<1>4. BufferInv'
  BY <1>0 DEF BufferInv
<1>5. AgeInv'
  BY <1>0 DEF AgeInv
<1>6. ThiefInv'
  BY <1>0, ResetThiefInv
<1> QED
  BY <1>2, <1>3, <1>4, <1>5, <1>6 DEF IInv

LEMMA PopCasLoseInv == IInv /\ PopCasLose => IInv'
<1> SUFFICES ASSUME IInv, PopCasLose PROVE IInv'
  OBVIOUS
<1>0. /\ opc = "pop_cas" /\ opc' = "pop_age_store"
      /\ sb = <<>> /\ bot = 0 /\ age.top = olocal.bot + 1
      /\ UNCHANGED <<bot, age, deq, sb, pushed, takes, olocal, tpc, tlocal, ret>>
  BY DEF PopCasLose, IInv, TypeOK, BufferInv, AgeInv
<1>1. TypeOK'
  BY <1>0 DEF IInv, TypeOK
<1>2. BufferInv'
  BY <1>0 DEF IInv, BufferInv
<1>3. AgeInv'
  BY <1>0 DEF IInv, AgeInv
<1>4. /\ Limit = age.top /\ Limit' = 0 /\ Published' = Published
      /\ Live = {} /\ Live' = {}
  BY <1>0 DEF IInv, TypeOK, Live, Limit, Undecided, Published
<1>5. QueueInv' /\ Conserved'
  BY <1>0, <1>4, SameQueue DEF IInv
<1>6. ThiefInv'
  BY <1>0, <1>4 DEF IInv, TypeOK, ThiefInv
<1> QED
  BY <1>1, <1>2, <1>3, <1>5, <1>6 DEF IInv

LEMMA PopAgeStoreInv == IInv /\ PopAgeStore => IInv'
<1> SUFFICES ASSUME IInv, PopAgeStore PROVE IInv'
  OBVIOUS
<1>0. /\ opc = "pop_age_store" /\ opc' = "idle"
      /\ sb = <<>> /\ bot = 0 /\ age.top = olocal.bot + 1
      /\ age \in Ages /\ age' = [tag |-> age.tag + 1, top |-> 0]
      /\ olocal.bot \in Index
      /\ age' \in Ages /\ age.tag + 1 <= pushed
      /\ olocal' = NoLocal
      /\ ret' = [ret EXCEPT ![Owner] = Ret("pop", Null, FALSE)]
      /\ UNCHANGED <<bot, deq, sb, pushed, takes, tpc, tlocal>>
  <2>1. olocal.bot \in Index /\ age \in Ages /\ pushed \in Nat
    BY DEF IInv, TypeOK
  <2>2. age.top = olocal.bot + 1 /\ opc = "pop_age_store"
    BY DEF PopAgeStore, IInv, AgeInv
  <2>3. sb = <<>> /\ bot = 0
    BY <2>2 DEF PopAgeStore, IInv, BufferInv
  <2> QED
    BY <2>1, <2>2, <2>3, ResetTag DEF PopAgeStore, OwnerReturns
<1>1. TypeOK'
  <2>1. olocal' \in Locals /\ ret' \in [Procs -> Answers]
    BY <1>0 DEF IInv, TypeOK
  <2> QED
    BY <2>1, <1>0 DEF IInv, TypeOK
<1>2. BufferInv'
  BY <1>0 DEF BufferInv
<1>3. AgeInv'
  BY <1>0 DEF AgeInv
<1>4. Published' = Published /\ Live = {} /\ Live' = {}
  BY <1>0 DEF Live, Limit, Undecided, Published
<1>5. QueueInv' /\ Conserved'
  BY <1>0, <1>4, SameQueue DEF IInv
<1>6. ThiefInv'
  BY <1>0, ResetThiefInv
<1> QED
  BY <1>1, <1>2, <1>3, <1>5, <1>6 DEF IInv

\* A buffered write reaching memory changes neither Limit nor a live slot.
LEMMA FlushInv == IInv /\ Flush => IInv'
<1> SUFFICES ASSUME IInv, Flush PROVE IInv'
  OBVIOUS
<1>0. /\ UNCHANGED <<age, pushed, takes, opc, olocal, tpc, tlocal, ret>>
      /\ olocal.bot \in Index /\ bot \in Index /\ pushed \in 0 .. MaxPush
  BY DEF Flush, IInv, TypeOK
<1>1. CASE opc = "push_publish"
  <2>1. sb = <<Write("deq", olocal.bot, pushed)>> /\ bot = olocal.bot
    BY <1>1 DEF Flush, IInv, BufferInv
  <2>2. sb' = <<>> /\ bot' = bot /\ deq' = [deq EXCEPT ![bot] = pushed]
    BY <2>1 DEF Flush
  <2>3. pushed \in Jobs
    BY <1>0, <1>1 DEF IInv, AgeInv, TypeOK
  <2>4. TypeOK'
    <3>1. sb' \in Seq(Writes)
      BY <2>2
    <3>2. deq' \in [Index -> Jobs \cup {Null}]
      BY <2>2, <2>3 DEF IInv, TypeOK
    <3>3. bot' \in Index
      BY <1>0, <2>2
    <3> QED
      BY <1>0, <3>1, <3>2, <3>3 DEF IInv, TypeOK
  <2>5. BufferInv'
    BY <1>0, <1>1, <2>1, <2>2 DEF IInv, TypeOK, BufferInv
  <2>6. AgeInv'
    BY <1>0, <1>1, <2>2 DEF IInv, AgeInv
  <2>7. /\ Limit = bot /\ Limit' = Limit /\ Live' = Live
        /\ Published' = Published /\ \A i \in Live : deq'[i] = deq[i]
    BY <1>0, <1>1, <2>2 DEF Limit, Undecided, Live, Published, IInv, TypeOK
  <2>8. QueueInv' /\ Conserved'
    BY <1>0, <2>7, SameQueue DEF IInv
  <2>9. \A t \in Thieves : tpc[t] = "steal_cas" /\ tlocal[t].age = age
           => deq'[age.top] = deq[age.top]
    <3>1. \A t \in Thieves : tpc[t] = "steal_cas" /\ tlocal[t].age = age
             => age.top < bot
      BY <2>7 DEF IInv, ThiefInv
    <3>2. age.top \in Index /\ deq \in [Index -> Jobs \cup {Null}]
      BY DEF IInv, TypeOK
    <3> QED
      BY <1>0, <2>2, <3>1, <3>2
  <2>10. ThiefInv'
    BY <1>0, <2>7, <2>9 DEF IInv, ThiefInv
  <2> QED
    BY <2>4, <2>5, <2>6, <2>8, <2>10 DEF IInv
<1>2. CASE opc \in {"pop_fence", "pop_cas", "pop_age_store"}
  <2>1. \E v \in Index : sb = <<Write("bot", 0, v)>> /\ v = (IF opc = "pop_fence"
                                                  THEN olocal.bot ELSE 0)
    BY <1>0, <1>2 DEF Flush, IInv, BufferInv
  <2>2. /\ sb' = <<>> /\ deq' = deq
        /\ bot' = IF opc = "pop_fence" THEN olocal.bot ELSE 0
    BY <2>1 DEF Flush
  <2>3. TypeOK'
    <3>1. bot' \in Index
      BY <2>1, <2>2
    <3>2. sb' \in Seq(Writes)
      BY <2>2
    <3> QED
      BY <1>0, <2>2, <3>1, <3>2 DEF IInv, TypeOK
  <2>4. BufferInv'
    BY <1>0, <1>2, <2>2 DEF IInv, BufferInv
  <2>5. AgeInv'
    BY <1>0, <1>2, <2>2 DEF IInv, AgeInv
  <2>6. Published' = Published /\ Live' = Live
    <3>1. CASE opc = "pop_age_store"
      <4>1. age.top = olocal.bot + 1
        BY <3>1 DEF IInv, AgeInv
      <4>2. bot <= olocal.bot /\ bot' = 0
        BY <1>0, <2>2, <3>1 DEF IInv, BufferInv
      <4> QED
        BY <1>0, <3>1, <4>1, <4>2 DEF Live, Limit, Undecided, Published
    <3>2. CASE opc # "pop_age_store"
      BY <1>0, <1>2, <3>2 DEF Live, Limit, Undecided, Published
    <3> QED
      BY <3>1, <3>2
  <2>7. QueueInv' /\ Conserved'
    BY <1>0, <2>2, <2>6, SameQueue DEF IInv
  <2>8. ThiefInv'
    <3>1. CASE opc = "pop_age_store"
      <4>1. age.top = olocal.bot + 1 /\ bot <= olocal.bot
        BY <1>0, <3>1 DEF IInv, AgeInv, BufferInv
      <4>2. ~(age.top < Limit)
        BY <1>0, <3>1, <4>1 DEF Limit, Undecided
      <4> QED
        BY <1>0, <2>2, <4>2 DEF IInv, ThiefInv
    <3>2. CASE opc # "pop_age_store"
      <4>1. Limit' = Limit
        BY <1>0, <1>2, <3>2 DEF Limit, Undecided
      <4> QED
        BY <1>0, <2>2, <4>1 DEF IInv, ThiefInv
    <3> QED
      BY <3>1, <3>2
  <2> QED
    BY <2>3, <2>4, <2>5, <2>7, <2>8 DEF IInv
<1> QED
  BY <1>1, <1>2 DEF Flush, IInv, TypeOK, BufferInv

---------------------------------------------------------------------------
(* The thieves' steps                                                      *)

\* What ThiefInv says of a thief at pc c with locals l.
Consistent(c, l) ==
  c # "idle" =>
    /\ l.age.tag <= age.tag
    /\ l.age.tag = age.tag => l.age.top <= age.top
    /\ c \in {"steal_job", "steal_cas"} =>
         /\ l.age.top < l.bot
         /\ l.age = age => age.top < Limit
    /\ c = "steal_cas" /\ l.age = age => l.job = deq[age.top]

LEMMA ThiefInvIsConsistent ==
  ThiefInv <=> \A t \in Thieves : Consistent(tpc[t], tlocal[t])
BY DEF ThiefInv, Consistent

\* A step that only moves thief t to pc c with locals l preserves IInv when
\* those two agree with memory.
LEMMA ThiefLocal ==
  ASSUME IInv, NEW t \in Thieves, NEW l \in Locals, NEW r \in Answers,
         NEW c \in {"idle", "steal_bot", "steal_job", "steal_cas"},
         UNCHANGED <<memory, pushed, takes, owner>>,
         tpc' = [tpc EXCEPT ![t] = c], tlocal' = [tlocal EXCEPT ![t] = l],
         ret' = [ret EXCEPT ![t] = r],
         Consistent(c, l)
  PROVE  IInv'
<1>1. UNCHANGED <<bot, age, deq, sb, pushed, takes, opc, olocal>>
  OBVIOUS
<1>2. BufferInv' /\ AgeInv'
  BY <1>1 DEF IInv, BufferInv, AgeInv
<1>3. Live' = Live /\ Published' = Published /\ Limit' = Limit
  BY <1>1 DEF Live, Limit, Undecided, Published
<1>4. QueueInv' /\ Conserved'
  BY <1>1, <1>3, SameQueue DEF IInv
<1>5. TypeOK'
  <2>1. TypeOK
    BY DEF IInv
  <2>2. tpc' \in [Thieves -> {"idle", "steal_bot", "steal_job", "steal_cas"}]
    BY <2>1 DEF TypeOK
  <2>3. tlocal' \in [Thieves -> Locals]
    BY <2>1 DEF TypeOK
  <2>4. ret' \in [Procs -> Answers]
    BY <2>1 DEF TypeOK
  <2>5. /\ bot' \in Index /\ age' \in Ages /\ deq' \in [Index -> Jobs \cup {Null}]
        /\ sb' \in Seq(Writes) /\ pushed' \in 0 .. MaxPush /\ takes' \in [Jobs -> Nat]
        /\ opc' \in {"idle", "push_publish", "aborted", "pop_fence", "pop_age",
                      "pop_cas", "pop_age_store"}
        /\ olocal' \in Locals
    BY <1>1, <2>1, ZenonT(30) DEF TypeOK
  <2> QED
    BY <2>2, <2>3, <2>4, <2>5, Zenon DEF TypeOK
<1>6. ASSUME NEW u \in Thieves PROVE Consistent(tpc[u], tlocal[u])'
  <2>1. CASE u = t
    <3>1. tpc'[u] = c /\ tlocal'[u] = l
      BY <2>1 DEF IInv, TypeOK
    <3> QED
      BY <1>1, <1>3, <3>1 DEF Consistent
  <2>2. CASE u # t
    <3>1. tpc'[u] = tpc[u] /\ tlocal'[u] = tlocal[u]
      BY <2>2 DEF IInv, TypeOK
    <3>2. Consistent(tpc[u], tlocal[u])
      BY ThiefInvIsConsistent DEF IInv
    <3> QED
      BY <1>1, <1>3, <3>1, <3>2 DEF Consistent
  <2> QED
    BY <2>1, <2>2
<1>7. ThiefInv'
  BY <1>6 DEF ThiefInv, Consistent
<1> QED
  BY <1>2, <1>4, <1>5, <1>7 DEF IInv

LEMMA ThiefFacts ==
  ASSUME IInv, NEW t \in Thieves
  PROVE  /\ bot \in Index /\ age \in Ages /\ tlocal[t] \in Locals
         /\ deq[tlocal[t].age.top] \in Jobs \cup {Null}
         /\ ret[t] \in Answers /\ ret = [ret EXCEPT ![t] = ret[t]]
         /\ Consistent(tpc[t], tlocal[t])
<1>1. /\ bot \in Index /\ age \in Ages /\ tlocal[t] \in Locals
      /\ deq[tlocal[t].age.top] \in Jobs \cup {Null}
  BY DEF IInv, TypeOK
<1>2. ret[t] \in Answers /\ ret = [ret EXCEPT ![t] = ret[t]]
  BY DEF IInv, TypeOK
<1>3. ThiefInv
  BY DEF IInv
<1>4. Consistent(tpc[t], tlocal[t])
  BY <1>3, ThiefInvIsConsistent
<1> QED
  BY <1>1, <1>2, <1>4

LEMMA StealStartInv ==
  ASSUME IInv, NEW t \in Thieves, StealStart(t) PROVE IInv'
<1> DEFINE l == [tlocal[t] EXCEPT !.age = age]
<1>1. tlocal' = [tlocal EXCEPT ![t] = l]
  BY DEF StealStart
<1>2. l \in Locals /\ l.age = age /\ Busy \in Answers
  BY ThiefFacts
<1>3. Consistent("steal_bot", l)
  BY <1>2, ThiefFacts DEF Consistent
<1> HIDE DEF l
<1> QED
  BY <1>1, <1>2, <1>3, ThiefLocal DEF StealStart

LEMMA StealSeesJobInv ==
  ASSUME IInv, NEW t \in Thieves, StealSeesJob(t) PROVE IInv'
<1> DEFINE l == [tlocal[t] EXCEPT !.bot = bot]
<1>1. tlocal' = [tlocal EXCEPT ![t] = l] /\ tpc[t] = "steal_bot"
  BY DEF StealSeesJob
<1>2. l \in Locals /\ l.age = tlocal[t].age /\ l.bot = bot
  BY ThiefFacts
<1>3. l.age.top < l.bot
  BY <1>2 DEF StealSeesJob
<1>4. l.age = age => age.top < Limit
  <2>1. CASE Undecided
    <3>1. olocal.bot \in Index /\ bot \in Index /\ age \in Ages
      BY DEF IInv, TypeOK
    <3>2. bot <= olocal.bot + 1
      BY <2>1, <3>1 DEF Undecided, IInv, BufferInv
    <3> QED
      BY <1>2, <1>3, <2>1, <3>1, <3>2 DEF Limit
  <2>2. CASE ~Undecided
    BY <1>2, <1>3, <2>2 DEF Limit
  <2> QED
    BY <2>1, <2>2
<1>5. Consistent("steal_job", l)
  BY <1>1, <1>2, <1>3, <1>4, ThiefFacts DEF Consistent
<1>6. /\ UNCHANGED <<memory, pushed, takes, owner>>
      /\ ret' = [ret EXCEPT ![t] = ret[t]] /\ ret[t] \in Answers
      /\ tpc' = [tpc EXCEPT ![t] = "steal_job"]
  BY ThiefFacts DEF StealSeesJob
<1> HIDE DEF l
<1> QED
  BY <1>1, <1>2, <1>5, <1>6, ThiefLocal

LEMMA StealSeesEmptyInv ==
  ASSUME IInv, NEW t \in Thieves, StealSeesEmpty(t) PROVE IInv'
<1>1. NoLocal \in Locals /\ Ret("pop", Null, TRUE) \in Answers
  OBVIOUS
<1>2. Consistent("idle", NoLocal)
  BY DEF Consistent
<1> QED
  BY <1>1, <1>2, ThiefLocal DEF StealSeesEmpty, ThiefReturns

LEMMA StealLoadJobInv ==
  ASSUME IInv, NEW t \in Thieves, StealLoadJob(t) PROVE IInv'
<1> DEFINE l == [tlocal[t] EXCEPT !.job = deq[tlocal[t].age.top]]
<1>1. tlocal' = [tlocal EXCEPT ![t] = l] /\ tpc[t] = "steal_job"
  BY DEF StealLoadJob
<1>2. /\ l \in Locals /\ l.age = tlocal[t].age /\ l.bot = tlocal[t].bot
      /\ l.job = deq[l.age.top]
  BY ThiefFacts
<1>3. Consistent("steal_cas", l)
  BY <1>1, <1>2, ThiefFacts DEF Consistent
<1>4. /\ UNCHANGED <<memory, pushed, takes, owner>>
      /\ ret' = [ret EXCEPT ![t] = ret[t]] /\ ret[t] \in Answers
      /\ tpc' = [tpc EXCEPT ![t] = "steal_cas"]
  BY ThiefFacts DEF StealLoadJob
<1> HIDE DEF l
<1> QED
  BY <1>1, <1>2, <1>3, <1>4, ThiefLocal

LEMMA StealLoseInv ==
  ASSUME IInv, NEW t \in Thieves, StealLose(t) PROVE IInv'
<1> DEFINE r == Ret("pop", Null, tlocal[t].bot = age.top + 1)
<1>1. NoLocal \in Locals /\ r \in Answers
  OBVIOUS
<1>2. Consistent("idle", NoLocal)
  BY DEF Consistent
<1>3. ret' = [ret EXCEPT ![t] = r]
  BY DEF StealLose, ThiefReturns
<1> HIDE DEF r
<1> QED
  BY <1>1, <1>2, <1>3, ThiefLocal DEF StealLose, ThiefReturns

\* The thief that wins the compare-and-swap takes the oldest job.
LEMMA StealWinInv ==
  ASSUME IInv, NEW t \in Thieves, StealWin(t) PROVE IInv'
<1>0. /\ tpc[t] = "steal_cas" /\ tlocal[t].age = age
      /\ age \in Ages /\ bot \in Index /\ olocal.bot \in Index
      /\ pushed \in 0 .. MaxPush
      /\ UNCHANGED <<bot, deq, sb, pushed, opc, olocal>>
      /\ age' = [age EXCEPT !.top = @ + 1]
      /\ takes' = [takes EXCEPT ![tlocal[t].job] = @ + 1]
      /\ tlocal[t] \in Locals
  BY DEF StealWin, Take, IInv, TypeOK
<1>1. /\ age.top < Limit /\ tlocal[t].job = deq[age.top]
      /\ age.top < tlocal[t].bot
  BY <1>0, ThiefFacts DEF Consistent
<1>2. age.top + 1 \in Index /\ age' \in Ages /\ age'.top = age.top + 1
      /\ age'.tag = age.tag
  BY <1>0, <1>1
<1>3. age.top \in Live
  BY <1>0, <1>1 DEF Live
<1>4. Limit' = Limit /\ Published' = Published /\ Live' = Live \ {age.top}
  <2>1. Limit' = Limit /\ Published' = Published /\ Limit \in Int
    BY <1>0 DEF Limit, Undecided, Published
  <2> QED
    BY <1>0, <1>2, <2>1 DEF Live
<1>5. Queued' = Queued \ {deq[age.top]} /\ QueueInv'
  BY <1>0, <1>3, <1>4, RemoveOne DEF IInv
<1>6. Conserved' /\ takes' \in [Jobs -> Nat]
  BY <1>0, <1>1, <1>3, <1>4, <1>5, TakeOne DEF IInv, Take
<1>7. TypeOK'
  <2>1. tlocal[t].job \in Jobs \cup {Null}
    BY <1>0
  <2>2. ret' \in [Procs -> Answers]
    <3> DEFINE r == Ret("pop", tlocal[t].job,
                        tlocal[t].bot = tlocal[t].age.top + 1)
    <3>1. r \in Answers
      BY <2>1
    <3>2. ret' = [ret EXCEPT ![t] = r]
      BY DEF StealWin, ThiefReturns
    <3> HIDE DEF r
    <3> QED
      BY <3>1, <3>2 DEF IInv, TypeOK
  <2>4. NoLocal \in Locals
    OBVIOUS
  <2>5. tlocal' \in [Thieves -> Locals]
    <3>1. tlocal' = [tlocal EXCEPT ![t] = NoLocal]
      BY DEF StealWin, ThiefReturns
    <3>2. tlocal \in [Thieves -> Locals]
      BY DEF IInv, TypeOK
    <3> HIDE DEF Locals, NoLocal
    <3> QED
      BY <2>4, <3>1, <3>2
  <2>3. tpc' \in [Thieves -> {"idle", "steal_bot", "steal_job", "steal_cas"}]
    BY DEF StealWin, ThiefReturns, IInv, TypeOK
  <2> QED
    BY <1>0, <1>2, <1>6, <2>2, <2>3, <2>5 DEF IInv, TypeOK
<1>8. BufferInv'
  BY <1>0 DEF IInv, BufferInv
<1>9. AgeInv'
  <2>1. opc # "pop_age_store"
    <3>1. SUFFICES ASSUME opc = "pop_age_store" PROVE FALSE
      OBVIOUS
    <3>2. Limit = bot /\ bot \in {0, olocal.bot}
      BY <3>1 DEF Limit, Undecided, IInv, BufferInv
    <3>3. age.top = olocal.bot + 1
      BY <3>1 DEF IInv, AgeInv
    <3> QED
      BY <1>0, <1>1, <3>2, <3>3
  <2>2. opc = "pop_cas" => age.top = olocal.bot
    BY <1>0, <1>1 DEF Limit, Undecided, IInv, AgeInv
  <2>3. opc \in {"pop_fence", "pop_age"} => age.top + 1 <= olocal.bot + 1
    BY <1>0, <1>1 DEF Limit, Undecided
  <2>4. opc \in {"idle", "push_publish", "aborted"} => age.top + 1 <= bot
    BY <1>0, <1>1 DEF Limit, Undecided
  <2> QED
    BY <1>0, <1>2, <2>1, <2>2, <2>3, <2>4 DEF IInv, AgeInv
<1>10. ASSUME NEW u \in Thieves PROVE Consistent(tpc[u], tlocal[u])'
  <2>1. CASE u = t
    BY <2>1 DEF StealWin, ThiefReturns, IInv, TypeOK, Consistent
  <2>2. CASE u # t
    <3>1. tpc'[u] = tpc[u] /\ tlocal'[u] = tlocal[u]
      BY <2>2 DEF StealWin, ThiefReturns, IInv, TypeOK
    <3>2. Consistent(tpc[u], tlocal[u]) /\ tlocal[u] \in Locals
      BY ThiefFacts
    <3> QED
      BY <1>0, <1>2, <3>1, <3>2 DEF Consistent
  <2> QED
    BY <2>1, <2>2
<1>11. ThiefInv'
  BY <1>10 DEF ThiefInv, Consistent
<1> QED
  BY <1>5, <1>6, <1>7, <1>8, <1>9, <1>11 DEF IInv

---------------------------------------------------------------------------
(* The whole specification                                                 *)

LEMMA StutterInv == IInv /\ UNCHANGED vars => IInv'
<1> SUFFICES ASSUME IInv, UNCHANGED vars PROVE IInv'
  OBVIOUS
<1>1. UNCHANGED <<bot, age, deq, sb, pushed, takes, opc, olocal, tpc, tlocal,
                  ret>>
  BY DEF vars
<1>2. Live' = Live /\ Published' = Published /\ Limit' = Limit
  BY <1>1 DEF Live, Limit, Undecided, Published
<1>3. QueueInv' /\ Conserved'
  BY <1>1, <1>2, SameQueue DEF IInv
<1>4. TypeOK'
  BY <1>1 DEF IInv, TypeOK
<1>5. BufferInv' /\ AgeInv'
  BY <1>1 DEF IInv, BufferInv, AgeInv
<1>6. ThiefInv'
  BY <1>1, <1>2 DEF IInv, ThiefInv
<1> QED
  BY <1>3, <1>4, <1>5, <1>6 DEF IInv

LEMMA NextInv == IInv /\ [Next]_vars => IInv'
<1> SUFFICES ASSUME IInv, [Next]_vars PROVE IInv'
  OBVIOUS
<1>1. CASE Flush
  BY <1>1, FlushInv
<1>2. CASE PushBottom
  BY <1>2, PushStartInv, PushPublishInv, PushOverflowInv DEF PushBottom
<1>3. CASE PopBottom
  BY <1>3, PopEmptyInv, PopStartInv, PopLoadJobInv, PopUncontendedInv,
     PopResetInv, PopCasWinInv, PopCasLoseInv, PopAgeStoreInv DEF PopBottom
<1>4. ASSUME NEW t \in Thieves, PopTop(t) PROVE IInv'
  BY <1>4, StealStartInv, StealSeesJobInv, StealSeesEmptyInv,
     StealLoadJobInv, StealWinInv, StealLoseInv DEF PopTop
<1>5. CASE UNCHANGED vars
  BY <1>5, StutterInv
<1> QED
  BY <1>1, <1>2, <1>3, <1>4, <1>5 DEF Next

\* The facts the owner and the thieves rely on hold in every reachable state.
THEOREM Invariance == Spec => []IInv
<1>1. Init => IInv
  BY InitIInv
<1>2. IInv /\ [Next]_vars => IInv'
  BY NextInv
<1> QED
  BY <1>1, <1>2, PTL DEF Spec

\* In particular no index leaves the array of q_size entries, short of the
\* abort in push_bottom, and no tag wraps around.
THEOREM TypeCorrect == Spec => []TypeOK
<1>1. IInv => TypeOK
  BY DEF IInv
<1> QED
  BY <1>1, Invariance, PTL

\* Every job push_bottom published is either in the deque or was returned by
\* exactly one pop_bottom or pop_top, and no other job ever was: for any
\* number of thieves, any array size and any interleaving of the accesses of
\* push_bottom, pop_bottom and pop_top with the owner's store buffer.
THEOREM NoJobLostOrDuplicated == Spec => []Conserved
<1>1. IInv => Conserved
  BY DEF IInv
<1> QED
  BY <1>1, Invariance, PTL

---------------------------------------------------------------------------
(* The queue the deque stands for                                          *)

\* QueueOf is a sequence: the live slots from the top to the bottom.
Size == IF Limit > age.top THEN Limit - age.top ELSE 0

QueueIsSlots ==
  /\ Size \in Nat /\ Limit \in Nat /\ age.top \in Nat
  /\ QueueOf \in Seq(Jobs)
  /\ Len(QueueOf) = Size
  /\ \A i \in 1 .. Size : /\ age.top + i - 1 \in Live
                          /\ QueueOf[i] = deq[age.top + i - 1]

LEMMA QueueSlots == IInv => QueueIsSlots
<1> SUFFICES ASSUME IInv PROVE QueueIsSlots
  OBVIOUS
<1>1. /\ age.top \in Index /\ bot \in Index /\ olocal.bot \in Index
      /\ deq \in [Index -> Jobs \cup {Null}]
  BY DEF IInv, TypeOK
<1>2. Limit \in Nat /\ Limit <= QSize /\ Size \in Nat
  <2>1. Limit \in Nat /\ Limit <= QSize
    BY <1>1 DEF Limit, Undecided
  <2> QED
    BY <1>1, <2>1 DEF Size
<1>3. ASSUME NEW i \in 1 .. Size
      PROVE  age.top + i - 1 \in Live /\ deq[age.top + i - 1] \in Jobs
  <2>1. age.top + i - 1 \in Live
    BY <1>1, <1>2 DEF Live, Size
  <2>2. deq[age.top + i - 1] \in 1 .. Published
    BY <2>1 DEF IInv, QueueInv
  <2>3. Published <= MaxPush /\ Published \in Int
    BY DEF IInv, TypeOK, Published
  <2> QED
    BY <2>1, <2>2, <2>3
<1>4. QueueOf = [i \in 1 .. Size |-> deq[age.top + i - 1]]
  BY DEF QueueOf, Size
<1>5. QueueOf \in [1 .. Size -> Jobs]
  BY <1>3, <1>4
<1>6. QueueOf \in Seq(Jobs) /\ DOMAIN QueueOf = 1 .. Size
  BY <1>2, <1>5, SeqDef
<1>7. Len(QueueOf) = Size
  BY <1>2, <1>6, LenProperties
<1> QED
  BY <1>1, <1>2, <1>3, <1>4, <1>6, <1>7 DEF QueueIsSlots

LEMMA EmptyQueue == QueueIsSlots => (Limit <= age.top <=> QueueOf = <<>>)
<1> SUFFICES ASSUME QueueIsSlots PROVE Limit <= age.top <=> QueueOf = <<>>
  OBVIOUS
<1>1. Len(QueueOf) = 0 <=> Limit <= age.top
  <2>1. Len(QueueOf) = Size /\ Limit \in Nat /\ age.top \in Nat
    BY DEF QueueIsSlots
  <2>2. Size = 0 <=> Limit <= age.top
    BY <2>1 DEF Size
  <2> QED
    BY <2>1, <2>2
<1>2. QueueOf \in Seq(Jobs)
  BY DEF QueueIsSlots
<1> QED
  BY <1>1, <1>2, EmptySeq

\* Both states of a step satisfy the facts above.
LEMMA StepFacts ==
  ASSUME IInv, [Next]_vars
  PROVE  /\ QueueIsSlots /\ QueueIsSlots'
         /\ Limit <= age.top => QueueOf = <<>>
         /\ Limit' <= age'.top => QueueOf' = <<>>
<1>1. IInv'
  BY NextInv
<1>2. QueueIsSlots'
  BY <1>1, QueueSlots, PTL
<1>3. (Limit <= age.top <=> QueueOf = <<>>)'
  BY <1>2, EmptyQueue, PTL
<1> QED
  BY <1>2, <1>3, QueueSlots, EmptyQueue

LEMMA QueueKept ==
  ASSUME QueueIsSlots, QueueIsSlots', age'.top = age.top, Limit' = Limit,
         \A i \in Live : deq'[i] = deq[i]
  PROVE  QueueOf' = QueueOf
<1>1. PICK n : n = Size
  OBVIOUS
<1>2. /\ QueueOf \in Seq(Jobs) /\ QueueOf' \in Seq(Jobs)
      /\ Len(QueueOf) = n /\ Len(QueueOf') = n
      /\ \A i \in 1 .. n : QueueOf'[i] = QueueOf[i]
  BY <1>1 DEF QueueIsSlots, Size
<1> QED
  BY <1>2, SeqEqual

---------------------------------------------------------------------------
(* Every step of the deque is a step of StealQueue or changes nothing      *)
(* StealQueue can see.                                                     *)

\* The owner's buffered write is of a dead slot, or of a bot that no longer
\* bounds the queue.
LEMMA FlushStutters == IInv /\ Flush => UNCHANGED Abstract!qvars
<1> SUFFICES ASSUME IInv, Flush PROVE UNCHANGED Abstract!qvars
  OBVIOUS
<1>0. /\ UNCHANGED <<age, pushed, takes, opc, olocal, tpc, tlocal, ret>>
      /\ olocal.bot \in Index /\ bot \in Index /\ age.top \in Index
  BY DEF Flush, IInv, TypeOK
<1>1. /\ QueueIsSlots /\ QueueIsSlots'
      /\ Limit <= age.top => QueueOf = <<>>
      /\ Limit' <= age'.top => QueueOf' = <<>>
  BY StepFacts DEF Next
<1>2. Published' = Published /\ ret' = ret
  BY <1>0 DEF Published
<1>3. CASE opc = "push_publish"
  <2>1. sb = <<Write("deq", olocal.bot, pushed)>> /\ bot = olocal.bot
    BY <1>3 DEF Flush, IInv, BufferInv
  <2>2. bot' = bot /\ deq' = [deq EXCEPT ![bot] = pushed]
    BY <2>1 DEF Flush
  <2>3. Limit' = Limit /\ \A i \in Live : deq'[i] = deq[i]
    BY <1>0, <1>3, <2>2 DEF Limit, Undecided, Live, IInv, TypeOK
  <2> QED
    BY <1>0, <1>1, <1>2, <2>3, QueueKept DEF Abstract!qvars
<1>4. CASE opc \in {"pop_fence", "pop_cas"}
  <2>1. \E v \in Index : sb = <<Write("bot", 0, v)>>
    BY <1>0, <1>4 DEF Flush, IInv, BufferInv
  <2>2. deq' = deq /\ Limit' = Limit
    BY <1>0, <1>4, <2>1 DEF Flush, Limit, Undecided
  <2> QED
    BY <1>0, <1>1, <1>2, <2>2, QueueKept DEF Abstract!qvars
<1>5. CASE opc = "pop_age_store"
  <2>1. /\ sb = <<Write("bot", 0, 0)>> /\ bot = olocal.bot
        /\ age.top = olocal.bot + 1
    BY <1>5 DEF Flush, IInv, BufferInv, AgeInv
  <2>2. bot' = 0
    BY <2>1 DEF Flush
  <2>3. Limit = bot /\ Limit' = 0
    BY <1>0, <1>5, <2>2 DEF Limit, Undecided
  <2> QED
    BY <1>0, <1>1, <1>2, <2>1, <2>3 DEF Abstract!qvars
<1> QED
  BY <1>3, <1>4, <1>5 DEF Flush, IInv, TypeOK, BufferInv

LEMMA PushStartCalls == IInv /\ PushStart => Abstract!Call(Owner)
<1> SUFFICES ASSUME IInv, PushStart PROVE Abstract!Call(Owner)
  OBVIOUS
<1>0. /\ opc = "idle" /\ opc' = "push_publish" /\ pushed' = pushed + 1
      /\ pushed \in Nat /\ ret' = [ret EXCEPT ![Owner] = Busy]
      /\ UNCHANGED <<bot, age, deq>>
  BY DEF PushStart, OwnerCalls, IInv, TypeOK
<1>1. QueueIsSlots /\ QueueIsSlots'
  BY StepFacts DEF Next, PushBottom
<1>2. Published' = Published /\ Limit' = Limit
  BY <1>0 DEF Published, Limit, Undecided
<1>3. QueueOf' = QueueOf
  BY <1>0, <1>1, <1>2, QueueKept
<1> QED
  BY <1>0, <1>2, <1>3 DEF Abstract!Call, Abstract!Answer, Abstract!NoJob

\* The store of bot publishes the job; TRUE is returned only for slot 0, and
\* then the queue was empty.
LEMMA PushPublishPushes == IInv /\ PushPublish => Abstract!Push
<1> SUFFICES ASSUME IInv, PushPublish PROVE Abstract!Push
  OBVIOUS
<1>0. /\ opc = "push_publish" /\ opc' = "idle"
      /\ deq[bot] = pushed /\ bot \in Index /\ bot' = bot + 1
      /\ age.top \in Index /\ pushed \in Jobs /\ age.top <= bot
      /\ ret' = [ret EXCEPT ![Owner] = Ret("push", Null, bot + 1 = 1)]
      /\ UNCHANGED <<age, deq, sb, pushed>>
  <2>1. sb # <<Write("deq", olocal.bot, pushed)>>
    BY DEF PushPublish, Locked
  <2>2. deq[bot] = pushed /\ bot = olocal.bot
    BY <2>1 DEF PushPublish, IInv, BufferInv
  <2>3. bot \in Index /\ age \in Ages /\ pushed \in 0 .. MaxPush
    BY DEF IInv, TypeOK
  <2>4. age.top <= bot /\ age.tag + (bot + 1) <= pushed
    BY DEF PushPublish, IInv, AgeInv
  <2>5. age.tag \in Nat /\ bot \in Nat /\ age.top \in Index
    BY <2>3
  <2>6. pushed \in Jobs
    BY <2>3, <2>4, <2>5
  <2> QED
    BY <2>2, <2>3, <2>4, <2>5, <2>6 DEF PushPublish, OwnerReturns
<1>1. QueueIsSlots /\ QueueIsSlots' /\ (Limit <= age.top => QueueOf = <<>>)
  BY StepFacts DEF Next, PushBottom
<1>2. /\ Published = pushed - 1 /\ Published' = pushed
      /\ Limit = bot /\ Limit' = bot + 1
  BY <1>0 DEF Published, Limit, Undecided
<1>3. PICK n, q, r : /\ n \in Nat /\ n = bot - age.top /\ q = QueueOf /\ r = QueueOf'
  BY <1>0
<1>4. Size = n /\ Size' = n + 1
  BY <1>0, <1>2, <1>3 DEF Size
<1>5. /\ q \in Seq(Jobs) /\ Len(q) = n /\ r \in Seq(Jobs) /\ Len(r) = n + 1
      /\ \A i \in 1 .. n : q[i] = deq[age.top + i - 1]
      /\ \A i \in 1 .. n + 1 : r[i] = deq[age.top + i - 1]
  BY <1>0, <1>1, <1>3, <1>4 DEF QueueIsSlots
<1>6. \A i \in 1 .. n + 1 : r[i] = Append(q, pushed)[i]
  <2>1. \A i \in 1 .. n : Append(q, pushed)[i] = q[i]
    BY <1>0, <1>5, AppendProperties
  <2>2. Append(q, pushed)[n + 1] = pushed
    <3>1. Append(q, pushed)[Len(q) + 1] = pushed
      BY <1>0, <1>5, AppendProperties
    <3> QED
      BY <1>5, <3>1
  <2>3. r[n + 1] = deq[bot]
    <3>1. n + 1 \in 1 .. n + 1 /\ age.top + (n + 1) - 1 = bot
      BY <1>0, <1>3
    <3> QED
      BY <1>5, <3>1
  <2>4. \A i \in 1 .. n : r[i] = q[i]
    BY <1>3, <1>5
  <2>5. SUFFICES ASSUME NEW i \in 1 .. n + 1 PROVE r[i] = Append(q, pushed)[i]
    OBVIOUS
  <2>6. i \in 1 .. n \/ i = n + 1
    BY <1>3
  <2> QED
    BY <1>0, <2>1, <2>2, <2>3, <2>4, <2>6
<1>7. r = Append(q, pushed)
  <2>1. Append(q, pushed) \in Seq(Jobs) /\ Len(Append(q, pushed)) = n + 1
    BY <1>0, <1>5, AppendProperties
  <2> QED
    BY <1>5, <1>6, <2>1, SeqEqual
<1>8. \E f \in BOOLEAN : /\ f => QueueOf = <<>>
                         /\ Abstract!Answer(Owner, "push", Abstract!NoJob, f)
  <2> DEFINE f == bot + 1 = 1
  <2>1. f => QueueOf = <<>>
    BY <1>0, <1>1, <1>2
  <2>2. Abstract!Answer(Owner, "push", Abstract!NoJob, f)
    BY <1>0 DEF Abstract!Answer, Abstract!NoJob
  <2>3. f \in BOOLEAN
    OBVIOUS
  <2> HIDE DEF f
  <2> QED
    BY <2>1, <2>2, <2>3
<1> QED
  BY <1>0, <1>2, <1>3, <1>7, <1>8 DEF Abstract!Push

LEMMA PushOverflowStutters == IInv /\ PushOverflow => UNCHANGED Abstract!qvars
<1> SUFFICES ASSUME IInv, PushOverflow PROVE UNCHANGED Abstract!qvars
  OBVIOUS
<1>0. /\ opc = "push_publish" /\ opc' = "aborted"
      /\ UNCHANGED <<bot, age, deq, pushed, olocal, ret>>
  BY DEF PushOverflow
<1>1. QueueIsSlots /\ QueueIsSlots'
  BY StepFacts DEF Next, PushBottom
<1>2. Published' = Published /\ Limit' = Limit
  BY <1>0 DEF Published, Limit, Undecided
<1> QED
  BY <1>0, <1>1, <1>2, QueueKept DEF Abstract!qvars

\* pop_bottom saw bot = 0: no slot was live then.
LEMMA PopEmptyPopsNothing == IInv /\ PopEmpty => Abstract!PopNothing
<1> SUFFICES ASSUME IInv, PopEmpty PROVE Abstract!PopNothing
  OBVIOUS
<1>0. /\ opc = "idle" /\ opc' = "idle" /\ bot = 0 /\ age.top \in Nat
      /\ ret' = [ret EXCEPT ![Owner] = Ret("pop", Null, FALSE)]
      /\ UNCHANGED <<bot, age, deq, pushed>>
  <2>1. /\ opc = "idle" /\ opc' = "idle" /\ OwnerBot = 0
        /\ ret' = [ret EXCEPT ![Owner] = Ret("pop", Null, FALSE)]
        /\ UNCHANGED <<bot, age, deq, pushed>>
    BY DEF PopEmpty, OwnerReturns
  <2>2. age.top \in Nat
    BY DEF IInv, TypeOK
  <2> QED
    BY <2>1, <2>2, OwnerSeesBot
<1>1. /\ QueueIsSlots /\ QueueIsSlots'
      /\ Limit <= age.top => QueueOf = <<>>
      /\ Limit' <= age'.top => QueueOf' = <<>>
  BY StepFacts DEF Next, PopBottom
<1>2. Published' = Published /\ Limit' = 0 /\ Limit = 0
  BY <1>0 DEF Published, Limit, Undecided
<1>3. QueueOf = <<>> /\ QueueOf' = <<>>
  BY <1>0, <1>1, <1>2
<1> QED
  BY <1>0, <1>2, <1>3 DEF Abstract!PopNothing, Abstract!Answer, Abstract!NoJob

LEMMA PopStartCalls == IInv /\ PopStart => Abstract!Call(Owner)
<1> SUFFICES ASSUME IInv, PopStart PROVE Abstract!Call(Owner)
  OBVIOUS
<1>0. /\ opc = "idle" /\ opc' = "pop_fence" /\ bot \in Index
      /\ olocal' = [olocal EXCEPT !.bot = bot - 1] /\ olocal'.bot = bot - 1
      /\ ret' = [ret EXCEPT ![Owner] = Busy]
      /\ UNCHANGED <<bot, age, deq, pushed>>
  BY OwnerSeesBot DEF PopStart, OwnerCalls, IInv, TypeOK
<1>1. QueueIsSlots /\ QueueIsSlots'
  BY StepFacts DEF Next, PopBottom
<1>2. Published' = Published /\ Limit' = Limit
  BY <1>0 DEF Published, Limit, Undecided
<1>3. QueueOf' = QueueOf
  BY <1>0, <1>1, <1>2, QueueKept
<1> QED
  BY <1>0, <1>2, <1>3 DEF Abstract!Call, Abstract!Answer, Abstract!NoJob

LEMMA PopLoadJobStutters == IInv /\ PopLoadJob => UNCHANGED Abstract!qvars
<1> SUFFICES ASSUME IInv, PopLoadJob PROVE UNCHANGED Abstract!qvars
  OBVIOUS
<1>0. /\ opc = "pop_fence" /\ opc' = "pop_age" /\ olocal'.bot = olocal.bot
      /\ UNCHANGED <<bot, age, deq, pushed, ret>>
  BY DEF PopLoadJob, IInv, TypeOK
<1>1. QueueIsSlots /\ QueueIsSlots'
  BY StepFacts DEF Next, PopBottom
<1>2. Published' = Published /\ Limit' = Limit
  BY <1>0 DEF Published, Limit, Undecided
<1> QED
  BY <1>0, <1>1, <1>2, QueueKept DEF Abstract!qvars

\* The owner's job is the youngest, and the older ones stay.
LEMMA PopUncontendedPops == IInv /\ PopUncontended => Abstract!PopBottom
<1> SUFFICES ASSUME IInv, PopUncontended PROVE Abstract!PopBottom
  OBVIOUS
<1>0. /\ opc = "pop_age" /\ opc' = "idle" /\ bot = olocal.bot
      /\ bot \in Index /\ age.top \in Index /\ bot > age.top
      /\ ret' = [ret EXCEPT ![Owner] = Ret("pop", deq[bot], FALSE)]
      /\ UNCHANGED <<bot, age, deq, pushed>>
  BY DEF PopUncontended, OwnerReturns, IInv, TypeOK, BufferInv
<1>1. QueueIsSlots /\ QueueIsSlots'
  BY StepFacts DEF Next, PopBottom
<1>2. Published' = Published /\ Limit = bot + 1 /\ Limit' = bot
  BY <1>0 DEF Published, Limit, Undecided
<1>3. PICK n, q, r : /\ n \in Nat /\ n = bot - age.top /\ q = QueueOf /\ r = QueueOf'
  BY <1>0
<1>4. Size = n + 1 /\ Size' = n
  BY <1>0, <1>2, <1>3 DEF Size
<1>5. /\ q \in Seq(Jobs) /\ Len(q) = n + 1 /\ r \in Seq(Jobs) /\ Len(r) = n
      /\ \A i \in 1 .. n + 1 : q[i] = deq[age.top + i - 1]
      /\ \A i \in 1 .. n : r[i] = deq[age.top + i - 1]
  BY <1>0, <1>1, <1>3, <1>4 DEF QueueIsSlots
<1>6. q # <<>> /\ Abstract!Last(q) = deq[bot]
  <2>1. n + 1 \in 1 .. n + 1 /\ age.top + (n + 1) - 1 = bot
    BY <1>0, <1>3
  <2>2. q[n + 1] = deq[bot]
    BY <1>5, <2>1
  <2>3. q # <<>> /\ Abstract!Last(q) = q[n + 1]
    BY <1>3, <1>5, EmptySeq DEF Abstract!Last
  <2> QED
    BY <2>2, <2>3
<1>7. r = Abstract!Front(q)
  <2>1. PICK m, k \in Int : m = 1 /\ k = n
    BY <1>3
  <2>2. \A i \in m .. k : q[i] \in Jobs
    <3>1. \A i \in m .. k : i \in 1 .. Len(q)
      BY <1>3, <1>5, <2>1
    <3> QED
      BY <1>5, <3>1, ElementOfSeq
  <2>3. /\ SubSeq(q, m, k) \in Seq(Jobs)
        /\ Len(SubSeq(q, m, k)) = (IF m <= k THEN k - m + 1 ELSE 0)
        /\ \A i \in 1 .. k - m + 1 : SubSeq(q, m, k)[i] = q[m + i - 1]
    BY <2>2, SubSeqProperties
  <2>4. /\ Len(SubSeq(q, m, k)) = n
        /\ \A i \in 1 .. n : r[i] = SubSeq(q, m, k)[i]
    BY <1>3, <1>5, <2>1, <2>3
  <2>5. r = SubSeq(q, m, k)
    BY <1>5, <2>3, <2>4, SeqEqual
  <2>6. Abstract!Front(q) = SubSeq(q, m, k)
    BY <1>3, <1>5, <2>1 DEF Abstract!Front
  <2> QED
    BY <2>5, <2>6
<1>8. Abstract!Answer(Owner, "pop", deq[bot], FALSE)
  BY <1>0 DEF Abstract!Answer
<1> QED
  BY <1>2, <1>3, <1>6, <1>7, <1>8 DEF Abstract!PopBottom

\* The owner is about to reset bot and age: the queue holds the job it is
\* after, or a thief took that one and the queue is empty.
LEMMA PopResetStutters == IInv /\ PopReset => UNCHANGED Abstract!qvars
<1> SUFFICES ASSUME IInv, PopReset PROVE UNCHANGED Abstract!qvars
  OBVIOUS
<1>0. /\ opc = "pop_age"
      /\ opc' = IF bot = age.top THEN "pop_cas" ELSE "pop_age_store"
      /\ bot = olocal.bot /\ olocal'.bot = olocal.bot
      /\ bot \in Nat /\ age.top \in Nat /\ bot <= age.top
      /\ UNCHANGED <<bot, age, deq, pushed, ret>>
  BY DEF PopReset, IInv, TypeOK, BufferInv
<1>1. /\ QueueIsSlots /\ QueueIsSlots'
      /\ Limit <= age.top => QueueOf = <<>>
      /\ Limit' <= age'.top => QueueOf' = <<>>
  BY StepFacts DEF Next, PopBottom
<1>2. Published' = Published /\ Limit = bot + 1
  BY <1>0 DEF Published, Limit, Undecided
<1>3. CASE bot = age.top
  <2>1. Limit' = Limit
    BY <1>0, <1>2, <1>3 DEF Limit, Undecided
  <2> QED
    BY <1>0, <1>1, <1>2, <2>1, QueueKept DEF Abstract!qvars
<1>4. CASE bot # age.top
  <2>1. Limit' = bot
    BY <1>0, <1>4 DEF Limit, Undecided
  <2>2. QueueOf = <<>> /\ QueueOf' = <<>>
    BY <1>0, <1>1, <1>2, <1>4, <2>1
  <2> QED
    BY <1>0, <1>2, <2>2 DEF Abstract!qvars
<1> QED
  BY <1>3, <1>4

\* Winning the compare-and-swap takes the only job of the queue.
LEMMA PopCasWinPops == IInv /\ PopCasWin => Abstract!PopBottom
<1> SUFFICES ASSUME IInv, PopCasWin PROVE Abstract!PopBottom
  OBVIOUS
<1>0. /\ opc = "pop_cas" /\ opc' = "idle" /\ bot = 0
      /\ age.top = olocal.bot /\ olocal.bot \in Nat /\ age'.top = 0
      /\ ret' = [ret EXCEPT ![Owner] = Ret("pop", deq[age.top], FALSE)]
      /\ UNCHANGED <<bot, deq, pushed>>
  <2>1. olocal.bot \in Nat /\ opc = "pop_cas"
    BY DEF PopCasWin, IInv, TypeOK
  <2>2. olocal.age.top = olocal.bot
    BY <2>1 DEF IInv, AgeInv
  <2>3. sb = <<>> /\ bot = 0 /\ olocal.job = deq[olocal.bot]
    BY <2>1 DEF PopCasWin, IInv, BufferInv
  <2>4. age'.top = 0
    BY <2>1, ResetTag DEF PopCasWin
  <2> QED
    BY <2>1, <2>2, <2>3, <2>4 DEF PopCasWin, OwnerReturns
<1>1. /\ QueueIsSlots /\ (Limit' <= age'.top => QueueOf' = <<>>)
  BY StepFacts DEF Next, PopBottom
<1>2. Published' = Published /\ Limit = age.top + 1 /\ Limit' = 0
  BY <1>0 DEF Published, Limit, Undecided
<1>3. QueueOf' = <<>>
  BY <1>0, <1>1, <1>2
<1>4. PICK q : q = QueueOf
  OBVIOUS
<1>5. q \in Seq(Jobs) /\ Len(q) = 1 /\ q[1] = deq[age.top]
  <2>1. Size = 1 /\ age.top \in Nat
    BY <1>0, <1>2 DEF Size
  <2>2. 1 \in 1 .. Size /\ age.top + 1 - 1 = age.top
    BY <2>1
  <2>3. /\ QueueOf \in Seq(Jobs) /\ Len(QueueOf) = Size
        /\ \A i \in 1 .. Size : QueueOf[i] = deq[age.top + i - 1]
    BY <1>1 DEF QueueIsSlots
  <2>4. QueueOf[1] = deq[age.top + 1 - 1]
    BY <2>2, <2>3
  <2> QED
    BY <1>4, <2>1, <2>2, <2>3, <2>4
<1>6. q # <<>> /\ Abstract!Last(q) = deq[age.top] /\ Abstract!Front(q) = <<>>
  <2>1. q # <<>> /\ Abstract!Last(q) = deq[age.top]
    <3>1. Len(q) = 1 /\ q[1] = deq[age.top]
      BY <1>5
    <3>2. Len(<<>>) = 0
      BY EmptySeq
    <3>3. q # <<>>
      BY <3>1, <3>2
    <3> QED
      BY <3>1, <3>3 DEF Abstract!Last
  <2>2. PICK m, k \in Int : m = 1 /\ k = 0
    OBVIOUS
  <2>3. Abstract!Front(q) = SubSeq(q, m, k)
    BY <1>5, <2>2 DEF Abstract!Front
  <2>4. SubSeq(q, m, k) = <<>>
    BY <2>2, SubSeqEmpty
  <2> QED
    BY <2>1, <2>3, <2>4
<1>7. Abstract!Answer(Owner, "pop", deq[age.top], FALSE)
  BY <1>0 DEF Abstract!Answer
<1> QED
  BY <1>2, <1>3, <1>4, <1>6, <1>7 DEF Abstract!PopBottom

LEMMA PopCasLoseStutters == IInv /\ PopCasLose => UNCHANGED Abstract!qvars
<1> SUFFICES ASSUME IInv, PopCasLose PROVE UNCHANGED Abstract!qvars
  OBVIOUS
<1>0. /\ opc = "pop_cas" /\ opc' = "pop_age_store"
      /\ bot = 0 /\ age.top = olocal.bot + 1 /\ olocal.bot \in Nat
      /\ UNCHANGED <<bot, age, deq, pushed, ret>>
  BY DEF PopCasLose, IInv, TypeOK, BufferInv, AgeInv
<1>1. /\ Limit <= age.top => QueueOf = <<>>
      /\ Limit' <= age'.top => QueueOf' = <<>>
  BY StepFacts DEF Next, PopBottom
<1>2. Published' = Published /\ Limit = age.top /\ Limit' = 0
  BY <1>0 DEF Published, Limit, Undecided
<1>3. QueueOf = <<>> /\ QueueOf' = <<>>
  BY <1>0, <1>1, <1>2
<1> QED
  BY <1>0, <1>2, <1>3 DEF Abstract!qvars

\* pop_bottom lost the last job to a thief, and no job came since.
LEMMA PopAgeStorePopsNothing == IInv /\ PopAgeStore => Abstract!PopNothing
<1> SUFFICES ASSUME IInv, PopAgeStore PROVE Abstract!PopNothing
  OBVIOUS
<1>0. /\ opc = "pop_age_store" /\ opc' = "idle" /\ bot = 0
      /\ age.top \in Nat /\ age'.top = 0
      /\ ret' = [ret EXCEPT ![Owner] = Ret("pop", Null, FALSE)]
      /\ UNCHANGED <<bot, deq, pushed>>
  <2>1. opc = "pop_age_store" /\ age.top \in Nat
    BY DEF PopAgeStore, IInv, TypeOK
  <2>2. bot = 0
    BY <2>1 DEF PopAgeStore, IInv, BufferInv
  <2>3. age'.top = 0
    BY <2>1, ResetTag DEF PopAgeStore
  <2> QED
    BY <2>1, <2>2, <2>3 DEF PopAgeStore, OwnerReturns
<1>1. /\ Limit <= age.top => QueueOf = <<>>
      /\ Limit' <= age'.top => QueueOf' = <<>>
  BY StepFacts DEF Next, PopBottom
<1>2. Published' = Published /\ Limit = 0 /\ Limit' = 0
  BY <1>0 DEF Published, Limit, Undecided
<1>3. QueueOf = <<>> /\ QueueOf' = <<>>
  BY <1>0, <1>1, <1>2
<1> QED
  BY <1>0, <1>2, <1>3 DEF Abstract!PopNothing, Abstract!Answer, Abstract!NoJob

\* What the steps of pop_top short of the winning one leave alone.
LEMMA ThiefKeepsQueue ==
  ASSUME IInv, NEW t \in Thieves, opc # "aborted",
         StealStart(t) \/ StealSeesJob(t) \/ StealSeesEmpty(t)
         \/ StealLoadJob(t) \/ StealLose(t)
  PROVE  QueueOf' = QueueOf /\ Published' = Published
<1>1. UNCHANGED <<bot, age, deq, sb, pushed, opc, olocal>>
  BY DEF StealStart, StealSeesJob, StealSeesEmpty, StealLoadJob, StealLose
<1>2. QueueIsSlots /\ QueueIsSlots'
  BY StepFacts DEF Next, PopTop
<1>3. Published' = Published /\ Limit' = Limit
  BY <1>1 DEF Published, Limit, Undecided
<1> QED
  BY <1>1, <1>2, <1>3, QueueKept

LEMMA ThiefStutters ==
  ASSUME IInv, NEW t \in Thieves, opc # "aborted",
         StealSeesJob(t) \/ StealLoadJob(t)
  PROVE  UNCHANGED Abstract!qvars
<1>1. QueueOf' = QueueOf /\ Published' = Published
  BY ThiefKeepsQueue
<1>2. ret' = ret
  BY DEF StealSeesJob, StealLoadJob
<1> QED
  BY <1>1, <1>2 DEF Abstract!qvars

LEMMA StealStartCalls ==
  ASSUME IInv, NEW t \in Thieves, opc # "aborted", StealStart(t)
  PROVE  Abstract!Call(t)
<1>1. QueueOf' = QueueOf /\ Published' = Published
  BY ThiefKeepsQueue
<1>2. ret' = [ret EXCEPT ![t] = Busy]
  BY DEF StealStart
<1> QED
  BY <1>1, <1>2 DEF Abstract!Call, Abstract!Answer, Abstract!NoJob

LEMMA ThiefGivesUp ==
  ASSUME IInv, NEW t \in Thieves, opc # "aborted",
         StealSeesEmpty(t) \/ StealLose(t)
  PROVE  Abstract!PopTopFails(t)
<1>1. QueueOf' = QueueOf /\ Published' = Published
  BY ThiefKeepsQueue
<1>2. PICK f \in BOOLEAN : ret' = [ret EXCEPT ![t] = Ret("pop", Null, f)]
  BY DEF StealSeesEmpty, StealLose, ThiefReturns
<1>3. Abstract!Answer(t, "pop", Abstract!NoJob, f)
  BY <1>2 DEF Abstract!Answer, Abstract!NoJob
<1> QED
  BY <1>1, <1>2, <1>3 DEF Abstract!PopTopFails

\* The compare-and-swap that moves top up takes the oldest job, whatever the
\* owner has buffered and however far it is in pop_bottom.
LEMMA StealWinPops ==
  ASSUME IInv, NEW t \in Thieves, opc # "aborted", StealWin(t)
  PROVE  Abstract!PopTop(t)
<1>0. /\ tpc[t] = "steal_cas" /\ tlocal[t].age = age
      /\ age'.top = age.top + 1 /\ age.top \in Nat
      /\ UNCHANGED <<bot, deq, sb, pushed, opc, olocal>>
  BY DEF StealWin, IInv, TypeOK
<1>1. age.top < Limit /\ tlocal[t].job = deq[age.top]
  BY <1>0, ThiefFacts DEF Consistent
<1>2. QueueIsSlots /\ QueueIsSlots'
  BY StepFacts DEF Next, PopTop
<1>3. Limit' = Limit /\ Published' = Published /\ Limit \in Nat
  BY <1>0, <1>2 DEF Limit, Undecided, Published, QueueIsSlots
<1>a. PICK q, r : q = QueueOf /\ r = QueueOf'
  OBVIOUS
<1>4. PICK n \in Nat, a \in Nat : n = Limit - age.top - 1 /\ a = age.top
  BY <1>0, <1>1, <1>3
<1>5. Size = n + 1 /\ Size' = n
  BY <1>0, <1>1, <1>3, <1>4 DEF Size
<1>6. /\ q \in Seq(Jobs) /\ Len(q) = n + 1 /\ r \in Seq(Jobs) /\ Len(r) = n
      /\ \A i \in 1 .. n + 1 : q[i] = deq[a + i - 1]
      /\ \A i \in 1 .. n : r[i] = deq[a + 1 + i - 1]
  BY <1>0, <1>2, <1>4, <1>5, <1>a DEF QueueIsSlots
<1>7. q # <<>> /\ Head(q) = deq[a]
  <2>1. 1 \in 1 .. n + 1 /\ a + 1 - 1 = a
    BY <1>4
  <2>2. q[1] = deq[a]
    BY <1>6, <2>1
  <2>3. Len(<<>>) = 0
    BY EmptySeq
  <2>4. q # <<>>
    BY <1>4, <1>6, <2>3
  <2> QED
    BY <1>6, <2>2, <2>4
<1>8. r = Tail(q)
  <2>1. /\ Tail(q) \in Seq(Jobs) /\ Len(Tail(q)) = n
        /\ \A i \in 1 .. n : Tail(q)[i] = q[i + 1]
    BY <1>4, <1>6, <1>7, HeadTailProperties
  <2>2. ASSUME NEW i \in 1 .. n PROVE r[i] = Tail(q)[i]
    <3>1. i + 1 \in 1 .. n + 1 /\ a + (i + 1) - 1 = a + 1 + i - 1
      BY <1>4
    <3>2. q[i + 1] = deq[a + (i + 1) - 1]
      BY <1>6, <3>1
    <3> QED
      BY <1>6, <2>1, <3>1, <3>2
  <2> QED
    BY <1>6, <2>1, <2>2, SeqEqual
<1>9. \E f \in BOOLEAN : Abstract!Answer(t, "pop", deq[a], f)
  <2> DEFINE f == tlocal[t].bot = tlocal[t].age.top + 1
  <2>1. ret' = [ret EXCEPT ![t] = Ret("pop", deq[a], f)]
    BY <1>1, <1>4 DEF StealWin, ThiefReturns
  <2>2. f \in BOOLEAN
    OBVIOUS
  <2> HIDE DEF f
  <2> QED
    BY <2>1, <2>2 DEF Abstract!Answer
<1> QED
  BY <1>3, <1>7, <1>8, <1>9, <1>a DEF Abstract!PopTop

LEMMA InitMaps == Init => Abstract!Start
<1> SUFFICES ASSUME Init PROVE Abstract!Start
  OBVIOUS
<1>1. Published = 0 /\ Limit = 0 /\ age.top = 0
  BY DEF Init, Published, Limit, Undecided
<1>2. QueueOf = <<>>
  BY <1>1, InitIInv, QueueSlots, EmptyQueue
<1> QED
  BY <1>1, <1>2 DEF Init, Abstract!Start, Abstract!NoJob

LEMMA NextMaps == IInv /\ [Next]_vars => [Abstract!Do]_(Abstract!qvars)
<1> SUFFICES ASSUME IInv, [Next]_vars PROVE [Abstract!Do]_(Abstract!qvars)
  OBVIOUS
<1>1. CASE Flush
  BY <1>1, FlushStutters
<1>2. CASE PushBottom
  <2>1. Owner \in Thieves \cup {Owner}
    OBVIOUS
  <2> QED
    BY <1>2, <2>1, PushStartCalls, PushPublishPushes, PushOverflowStutters
       DEF PushBottom, Abstract!Do
<1>3. CASE PopBottom
  <2>1. Owner \in Thieves \cup {Owner}
    OBVIOUS
  <2> QED
    BY <1>3, <2>1, PopEmptyPopsNothing, PopStartCalls, PopLoadJobStutters,
       PopUncontendedPops, PopResetStutters, PopCasWinPops, PopCasLoseStutters,
       PopAgeStorePopsNothing DEF PopBottom, Abstract!Do
<1>4. ASSUME NEW t \in Thieves, opc # "aborted", PopTop(t)
      PROVE  [Abstract!Do]_(Abstract!qvars)
  BY <1>4, ThiefStutters, StealStartCalls, ThiefGivesUp, StealWinPops
     DEF PopTop, Abstract!Do
<1>5. CASE UNCHANGED vars
  BY <1>5 DEF vars, Abstract!qvars, QueueOf, Limit, Undecided, Published
<1> QED
  BY <1>1, <1>2, <1>3, <1>4, <1>5 DEF Next

\* The deque is linearizable with respect to StealQueue: under every
\* interleaving of the loads, stores and compare-and-swaps of any number of
\* threads, push_bottom, pop_bottom and pop_top act at one step each on one
\* sequence of jobs, and pop_bottom returns nullptr only when it is empty.
THEOREM Refinement == Spec => ImplementsQueue
<1>1. Init => Abstract!Start
  BY InitMaps
<1>2. IInv /\ [Next]_vars => [Abstract!Do]_(Abstract!qvars)
  BY NextMaps
<1>3. Abstract!Spec <=> Abstract!Start /\ [][Abstract!Do]_(Abstract!qvars)
  BY DEF Abstract!Spec
<1> QED
  BY <1>1, <1>2, <1>3, Invariance, PTL DEF Spec, ImplementsQueue
=============================================================================
