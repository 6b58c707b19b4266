------------------------------ MODULE WSDeque ------------------------------
(***************************************************************************)
(* The work-stealing deque of Arora, Blumofe and Plaxton as implemented in *)
(* parlay/internal/work_stealing_deque.h: one owner thread pushes and pops *)
(* at the bottom, any number of thieves pop at the top.                    *)
(*                                                                         *)
(* One action per access to shared memory.  The machine is x86-TSO, the    *)
(* target of the Makefile: a plain (release) store of the owner enters its *)
(* FIFO store buffer sb and reaches memory at some later Flush, while a    *)
(* seq_cst store, a fence and a compare-and-swap first wait until sb is    *)
(* empty.  Thieves store only through compare-and-swap and need no buffer. *)
(*                                                                         *)
(* A job is named by the ordinal of the push that made it.                 *)
(***************************************************************************)
EXTENDS Integers, Sequences, FiniteSetsExt

CONSTANTS
  Thieves,   \* threads that call pop_top
  Owner,     \* the thread that calls push_bottom and pop_bottom
  QSize,     \* q_size, 1000 in the code
  TagMod,    \* tag_t is unsigned: tags count modulo 2^32 in the code
  MaxPush    \* bound: how many jobs the owner pushes

ASSUME OwnerAssumption == Owner \notin Thieves
ASSUME QSizeAssumption == QSize \in Nat /\ QSize >= 1
ASSUME PushAssumption  == MaxPush \in Nat
\* A tag is spent per reset and each reset needs a push of its own, so with
\* fewer than TagMod pushes no tag is ever used twice.
ASSUME TagAssumption   == TagMod \in Nat /\ MaxPush < TagMod

VARIABLES
  bot,       \* atomic: index after the bottom job
  age,       \* atomic: [tag, top] in one 64-bit word
  deq,       \* the array of job pointers, 0 is the null pointer
  sb,        \* the owner's store buffer, oldest write first
  pushed,    \* history: number of pushes the owner started
  takes,     \* history: how often each job was returned to a caller
  opc,       \* where the owner is in push_bottom or pop_bottom
  olocal,    \* the owner's locals: local_bot, job and old_age
  tpc,       \* where each thief is in pop_top
  tlocal,    \* each thief's locals: old_age, local_bot and job
  ret        \* the value each thread's last call returned

memory == <<bot, age, deq, sb>>
owner  == <<opc, olocal>>
thief  == <<tpc, tlocal>>
vars   == <<memory, pushed, takes, owner, thief, ret>>

Null  == 0
Jobs  == 1 .. MaxPush
Index == 0 .. QSize - 1
Tags  == 0 .. TagMod - 1
Ages  == [tag : Tags, top : Index]
Procs == Thieves \cup {Owner}
Locals  == [bot : Index, job : Jobs \cup {Null}, age : Ages]
Answers == [kind : {"busy", "push", "pop"}, job : Jobs \cup {Null}, flag : BOOLEAN]
Writes == [loc : {"bot", "deq"}, idx : Index, val : 0 .. QSize + MaxPush]

\* What a thread's last call returned: a pop its job, a push whether it found
\* the queue empty and a pop_top its flag "empty".  "busy" during a call.
Ret(k, j, f)   == [kind |-> k, job |-> j, flag |-> f]
Busy           == Ret("busy", Null, FALSE)
Write(l, i, v) == [loc |-> l, idx |-> i, val |-> v]

\* The locals of a call, forgotten when it returns.
NoLocal == [bot |-> 0, job |-> Null, age |-> [tag |-> 0, top |-> 0]]

Init ==
  /\ bot = 0
  /\ age = [tag |-> 0, top |-> 0]
  /\ deq = [i \in Index |-> Null]
  /\ sb = <<>>
  /\ pushed = 0
  /\ takes = [j \in Jobs |-> 0]
  /\ opc = "idle"
  /\ olocal = NoLocal
  /\ tpc = [t \in Thieves |-> "idle"]
  /\ tlocal = [t \in Thieves |-> NoLocal]
  /\ ret = [p \in Procs |-> Busy]

---------------------------------------------------------------------------
(* The owner's memory accesses.                                            *)

\* The oldest buffered write of the owner reaches memory.
Flush ==
  /\ opc # "aborted"
  /\ sb # <<>>
  /\ LET w == Head(sb) IN
       IF w.loc = "bot"
       THEN bot' = w.val /\ deq' = deq
       ELSE bot' = bot /\ deq' = [deq EXCEPT ![w.idx] = w.val]
  /\ sb' = Tail(sb)
  /\ UNCHANGED <<age, pushed, takes, owner, thief, ret>>

BotWrites == {i \in 1 .. Len(sb) : sb[i].loc = "bot"}

\* A load of the owner sees its own youngest buffered store.
OwnerBot == IF BotWrites = {} THEN bot ELSE sb[Max(BotWrites)].val

\* Mutant: the fence of pop_bottom does not wait for the store of bot.
FenceDropped == TRUE

\* std::atomic_thread_fence(seq_cst), and the drain every locked instruction
\* (compare-and-swap, seq_cst store) begins with.
Fence  == sb = <<>>
Locked == sb = <<>>

---------------------------------------------------------------------------
(* push_bottom                                                             *)

OwnerCalls   == ret' = [ret EXCEPT ![Owner] = Busy]
OwnerReturns(r) ==
  /\ ret' = [ret EXCEPT ![Owner] = r]
  /\ opc' = "idle"
  /\ olocal' = NoLocal
Take(j) == takes' = [takes EXCEPT ![j] = @ + 1]

\* local_bot = bot.load; deq[local_bot].store(job, release)
PushStart ==
  /\ opc = "idle"
  /\ pushed < MaxPush
  /\ pushed' = pushed + 1
  /\ olocal' = [olocal EXCEPT !.bot = OwnerBot]
  /\ sb' = Append(sb, Write("deq", OwnerBot, pushed + 1))
  /\ opc' = "push_publish"
  /\ OwnerCalls
  /\ UNCHANGED <<bot, age, deq, takes, thief>>

\* Mutant: push_bottom does not test for the end of the array.
PushUnchecked ==
  /\ opc = "push_publish"
  /\ Locked
  /\ bot' = olocal.bot + 1
  /\ OwnerReturns(Ret("push", Null, olocal.bot + 1 = 1))
  /\ UNCHANGED <<age, deq, sb, pushed, takes, thief>>

\* local_bot += 1; bot.store(local_bot, seq_cst); return local_bot == 1
PushPublish ==
  /\ opc = "push_publish"
  /\ olocal.bot + 1 # QSize
  /\ Locked
  /\ bot' = olocal.bot + 1
  /\ OwnerReturns(Ret("push", Null, olocal.bot + 1 = 1))
  /\ UNCHANGED <<age, deq, sb, pushed, takes, thief>>

\* if (local_bot == q_size) std::abort(): the whole process stops.
PushOverflow ==
  /\ opc = "push_publish"
  /\ olocal.bot + 1 = QSize
  /\ opc' = "aborted"
  /\ UNCHANGED <<memory, pushed, takes, olocal, thief, ret>>

---------------------------------------------------------------------------
(* pop_bottom                                                              *)

\* local_bot = bot.load; if it is 0 the result is nullptr
PopEmpty ==
  /\ opc = "idle"
  /\ OwnerBot = 0
  /\ OwnerReturns(Ret("pop", Null, FALSE))
  /\ UNCHANGED <<memory, pushed, takes, thief>>

\* local_bot--; bot.store(local_bot, release)
PopStart ==
  /\ opc = "idle"
  /\ OwnerBot # 0
  /\ olocal' = [olocal EXCEPT !.bot = OwnerBot - 1]
  /\ sb' = Append(sb, Write("bot", 0, OwnerBot - 1))
  /\ opc' = "pop_fence"
  /\ OwnerCalls
  /\ UNCHANGED <<bot, age, deq, pushed, takes, thief>>

\* the fence, then job = deq[local_bot].load
PopLoadJob ==
  /\ opc = "pop_fence"
  /\ Fence
  /\ olocal' = [olocal EXCEPT !.job = deq[olocal.bot]]
  /\ opc' = "pop_age"
  /\ UNCHANGED <<memory, pushed, takes, thief, ret>>

\* Mutant: the last job is taken without a compare-and-swap.
PopLastUncontended ==
  /\ opc = "pop_age"
  /\ olocal.bot >= age.top
  /\ Take(olocal.job)
  /\ OwnerReturns(Ret("pop", olocal.job, FALSE))
  /\ UNCHANGED <<memory, pushed, thief>>

\* old_age = age.load; if (local_bot > old_age.top) result = job
PopUncontended ==
  /\ opc = "pop_age"
  /\ olocal.bot > age.top
  /\ Take(olocal.job)
  /\ OwnerReturns(Ret("pop", olocal.job, FALSE))
  /\ UNCHANGED <<memory, pushed, thief>>

\* old_age = age.load; otherwise bot.store(0, release)
PopReset ==
  /\ opc = "pop_age"
  /\ olocal.bot <= age.top
  /\ olocal' = [olocal EXCEPT !.age = age]
  /\ sb' = Append(sb, Write("bot", 0, 0))
  /\ opc' = IF olocal.bot = age.top THEN "pop_cas" ELSE "pop_age_store"
  /\ UNCHANGED <<bot, age, deq, pushed, takes, thief, ret>>

\* Mutant: a reset keeps the tag.
ResetAgeSameTag == [tag |-> olocal.age.tag, top |-> 0]

\* new_age = {old_age.tag + 1, 0}
ResetAge == [tag |-> (olocal.age.tag + 1) % TagMod, top |-> 0]

\* age.compare_exchange_strong(old_age, new_age) succeeds: result = job
PopCasWin ==
  /\ opc = "pop_cas"
  /\ Locked
  /\ age = olocal.age
  /\ age' = ResetAge
  /\ Take(olocal.job)
  /\ OwnerReturns(Ret("pop", olocal.job, FALSE))
  /\ UNCHANGED <<bot, deq, sb, pushed, thief>>

\* a thief took the last job: fall through to the unconditional store
PopCasLose ==
  /\ opc = "pop_cas"
  /\ Locked
  /\ age # olocal.age
  /\ opc' = "pop_age_store"
  /\ UNCHANGED <<memory, pushed, takes, olocal, thief, ret>>

\* age.store(new_age, seq_cst); result = nullptr
PopAgeStore ==
  /\ opc = "pop_age_store"
  /\ Locked
  /\ age' = ResetAge
  /\ OwnerReturns(Ret("pop", Null, FALSE))
  /\ UNCHANGED <<bot, deq, sb, pushed, takes, thief>>

---------------------------------------------------------------------------
(* pop_top                                                                 *)

ThiefReturns(t, r) ==
  /\ ret' = [ret EXCEPT ![t] = r]
  /\ tpc' = [tpc EXCEPT ![t] = "idle"]
  /\ tlocal' = [tlocal EXCEPT ![t] = NoLocal]

\* old_age = age.load
StealStart(t) ==
  /\ tpc[t] = "idle"
  /\ tlocal' = [tlocal EXCEPT ![t].age = age]
  /\ tpc' = [tpc EXCEPT ![t] = "steal_bot"]
  /\ ret' = [ret EXCEPT ![t] = Busy]
  /\ UNCHANGED <<memory, pushed, takes, owner>>

\* local_bot = bot.load; if (local_bot > old_age.top) go on
StealSeesJob(t) ==
  /\ tpc[t] = "steal_bot"
  /\ bot > tlocal[t].age.top
  /\ tlocal' = [tlocal EXCEPT ![t].bot = bot]
  /\ tpc' = [tpc EXCEPT ![t] = "steal_job"]
  /\ UNCHANGED <<memory, pushed, takes, owner, ret>>

\* otherwise return {nullptr, true}
StealSeesEmpty(t) ==
  /\ tpc[t] = "steal_bot"
  /\ bot <= tlocal[t].age.top
  /\ ThiefReturns(t, Ret("pop", Null, TRUE))
  /\ UNCHANGED <<memory, pushed, takes, owner>>

\* job = deq[old_age.top].load
StealLoadJob(t) ==
  /\ tpc[t] = "steal_job"
  /\ tlocal' = [tlocal EXCEPT ![t].job = deq[tlocal[t].age.top]]
  /\ tpc' = [tpc EXCEPT ![t] = "steal_cas"]
  /\ UNCHANGED <<memory, pushed, takes, owner, ret>>

\* the compare-and-swap moves top up: return {job, local_bot == old_age.top + 1}
StealWin(t) ==
  /\ tpc[t] = "steal_cas"
  /\ age = tlocal[t].age
  /\ age' = [age EXCEPT !.top = @ + 1]
  /\ Take(tlocal[t].job)
  /\ ThiefReturns(t, Ret("pop", tlocal[t].job,
                         tlocal[t].bot = tlocal[t].age.top + 1))
  /\ UNCHANGED <<bot, deq, sb, pushed, owner>>

\* it fails and overwrites old_age: return {nullptr, local_bot == old_age.top + 1}
StealLose(t) ==
  /\ tpc[t] = "steal_cas"
  /\ age # tlocal[t].age
  /\ ThiefReturns(t, Ret("pop", Null, tlocal[t].bot = age.top + 1))
  /\ UNCHANGED <<memory, pushed, takes, owner>>

---------------------------------------------------------------------------
PushBottom == PushStart \/ PushPublish \/ PushOverflow

PopBottom == \/ PopEmpty \/ PopStart \/ PopLoadJob
             \/ PopUncontended \/ PopReset
             \/ PopCasWin \/ PopCasLose \/ PopAgeStore

PopTop(t) == \/ StealStart(t) \/ StealSeesJob(t) \/ StealSeesEmpty(t)
             \/ StealLoadJob(t) \/ StealWin(t) \/ StealLose(t)

\* abort() ends every thread.
Next == \/ Flush
        \/ PushBottom
        \/ PopBottom
        \/ opc # "aborted" /\ \E t \in Thieves : PopTop(t)

Spec == Init /\ [][Next]_vars

---------------------------------------------------------------------------
(* What the deque holds.  While the owner is inside pop_bottom the job it  *)
(* is after still counts until the owner has decided to take it.           *)

Undecided == opc \in {"pop_fence", "pop_age", "pop_cas"}
Limit     == IF Undecided THEN olocal.bot + 1 ELSE bot
Live      == {i \in Index : age.top <= i /\ i < Limit}
Queued    == {deq[i] : i \in Live}
Published == IF opc \in {"push_publish", "aborted"} THEN pushed - 1 ELSE pushed

\* Every variable stays in its type; in particular no index leaves the array
\* and the tag does not run past its width.
TypeOK ==
  /\ bot \in Index
  /\ age \in Ages
  /\ deq \in [Index -> Jobs \cup {Null}]
  /\ sb \in Seq(Writes)
  /\ pushed \in 0 .. MaxPush
  /\ takes \in [Jobs -> Nat]
  /\ opc \in {"idle", "push_publish", "aborted", "pop_fence", "pop_age",
              "pop_cas", "pop_age_store"}
  /\ olocal \in Locals
  /\ tpc \in [Thieves -> {"idle", "steal_bot", "steal_job", "steal_cas"}]
  /\ tlocal \in [Thieves -> Locals]
  /\ ret \in [Procs -> Answers]

\* No job is lost and none is run twice: whatever push_bottom has published
\* is either in the deque or has been returned by exactly one pop_bottom or
\* pop_top, and nothing else was ever returned.
Conserved ==
  \A j \in Jobs :
    takes[j] = IF j <= Published /\ j \notin Queued THEN 1 ELSE 0

---------------------------------------------------------------------------
(* Why Conserved holds: the facts the owner and the thieves rely on.       *)

\* The store buffer holds at most the one write the owner is about to drain,
\* and bot is what the owner believes it is.
BufferInv ==
  /\ opc = "idle" => sb = <<>>
  /\ opc \in {"push_publish", "aborted"} =>
       /\ bot = olocal.bot
       /\ \/ sb = <<>> /\ deq[olocal.bot] = pushed
          \/ sb = <<Write("deq", olocal.bot, pushed)>>
  /\ opc = "pop_fence" =>
       \/ sb = <<>> /\ bot = olocal.bot
       \/ sb = <<Write("bot", 0, olocal.bot)>> /\ bot = olocal.bot + 1
  /\ opc = "pop_age" => sb = <<>> /\ bot = olocal.bot
  /\ opc \in {"pop_cas", "pop_age_store"} =>
       \/ sb = <<>> /\ bot = 0
       \/ sb = <<Write("bot", 0, 0)>> /\ bot = olocal.bot
  /\ opc \in {"pop_age", "pop_cas", "pop_age_store"} =>
       olocal.job = deq[olocal.bot]

\* Only the owner changes the tag; top passes Limit only when the owner is
\* about to reset an empty deque; every reset was paid for by a push.
AgeInv ==
  /\ opc \in {"idle", "push_publish", "aborted"} => age.top <= bot
  /\ opc \in {"pop_fence", "pop_age"} => age.top <= olocal.bot + 1
  /\ opc = "pop_cas" =>
       /\ olocal.age = [tag |-> age.tag, top |-> olocal.bot]
       /\ age.top \in {olocal.bot, olocal.bot + 1}
  /\ opc = "pop_age_store" =>
       /\ olocal.age.tag = age.tag
       /\ age.top = olocal.bot + 1
  /\ age.tag + (CASE opc = "idle" -> bot
                  [] opc \in {"push_publish", "aborted"} -> bot + 1
                  [] OTHER -> olocal.bot + 1) <= pushed

\* A thief's copy of age is never ahead of age.  If a thief got past the load
\* of bot and age has not moved since, the job it is after is still there.
ThiefInv ==
  \A t \in Thieves : tpc[t] # "idle" =>
    LET seen == tlocal[t].age IN
      /\ seen.tag <= age.tag
      /\ seen.tag = age.tag => seen.top <= age.top
      /\ tpc[t] \in {"steal_job", "steal_cas"} =>
           /\ seen.top < tlocal[t].bot
           /\ seen = age => age.top < Limit
      /\ tpc[t] = "steal_cas" /\ seen = age => tlocal[t].job = deq[age.top]

\* The jobs in the deque are published ones, the oldest at the top.
QueueInv ==
  /\ \A i \in Live : deq[i] \in 1 .. Published
  /\ \A i, k \in Live : i < k => deq[i] < deq[k]

IInv == TypeOK /\ BufferInv /\ AgeInv /\ ThiefInv /\ QueueInv /\ Conserved

---------------------------------------------------------------------------
(* The deque implements StealQueue: a sequence of jobs whose owner works   *)
(* at one end and whose thieves take from the other.                       *)

QueueOf == [i \in 1 .. (IF Limit > age.top THEN Limit - age.top ELSE 0)
              |-> deq[age.top + i - 1]]

Abstract == INSTANCE StealQueue WITH
              queue <- QueueOf, published <- Published, result <- ret

\* Refinement: the interleaved loads, stores and compare-and-swaps of any
\* number of threads behave as atomic operations on one queue.
ImplementsQueue == Abstract!Spec
=============================================================================
