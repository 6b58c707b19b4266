------------------------------ MODULE ForkJoin ------------------------------
(***************************************************************************)
(* The scheduler's pardo, worker, do_work_until, get_job and steal_job     *)
(* (parlay/scheduler.h) with the jobs of work_stealing_job.h, running one  *)
(* tree of nested parallel calls.                                          *)
(*                                                                         *)
(* A worker's call stack is a sequence of tasks; the last is the one that  *)
(* runs.  A deque is a queue with atomic operations, which is what WSDeque *)
(* implements.  The job of a right thunk is named by the thunk's task.     *)
(* A worker that times out goes to sleep and is woken later: here it just  *)
(* waits before it takes its next step (Elastic models the sleeping).      *)
(***************************************************************************)
EXTENDS Integers, SequencesExt

CONSTANTS
  Workers,       \* the threads
  Main,          \* thread 0, which calls the root task
  Tasks, Root,   \* the calls of the program
  Forks,         \* those that call pardo
  Left, Right,   \* the two thunks of a pardo
  Conservative   \* the forks whose pardo is called with conservative = true

ASSUME MainAssumption == Main \in Workers
ASSUME TreeAssumption ==
  /\ Root \in Tasks /\ Tasks \subseteq Nat
  /\ Forks \subseteq Tasks /\ Conservative \subseteq Forks
  /\ Left \in [Forks -> Tasks] /\ Right \in [Forks -> Tasks]
  /\ \A f \in Forks : f < Left[f] /\ f < Right[f] /\ Left[f] # Right[f]
  /\ \A f, g \in Forks :
       f # g => {Left[f], Right[f]} \cap {Left[g], Right[g]} = {}
  /\ \A f \in Forks : Root \notin {Left[f], Right[f]}

VARIABLES
  stack,     \* each worker's calls, the innermost last
  pc,        \* where each task is
  asJob,     \* the tasks started through their job object
  done,      \* the tasks whose job's done flag is set
  deque,     \* each worker's deque of jobs, the bottom last
  seek,      \* where each worker is in get_job, "none" outside
  finished   \* finished_flag of the scheduler

vars == <<stack, pc, asJob, done, deque, seek, finished>>

PCs   == {"new", "body", "left", "pop", "right", "wait", "return", "returned"}
Seeks == {"none", "check", "own", "steal", "try", "off"}

Top(w)    == Last(stack[w])
Runs(w)   == stack[w] # <<>> /\ seek[w] = "none"
At(w, c)  == Runs(w) /\ pc[Top(w)] = c
Goto(t, c) == pc' = [pc EXCEPT ![t] = c]

Init ==
  /\ stack = [w \in Workers |-> IF w = Main THEN <<Root>> ELSE <<>>]
  /\ pc = [t \in Tasks |-> IF t = Root THEN "body" ELSE "new"]
  /\ asJob = {} /\ done = {}
  /\ deque = [w \in Workers |-> <<>>]
  /\ seek = [w \in Workers |-> IF w = Main THEN "none" ELSE "check"]
  /\ finished = FALSE

---------------------------------------------------------------------------
(* Tasks                                                                   *)

\* A task that forks nothing runs to its end.
RunLeaf(w) ==
  /\ At(w, "body") /\ Top(w) \notin Forks
  /\ Goto(Top(w), "return")
  /\ UNCHANGED <<stack, asJob, done, deque, seek, finished>>

\* Mutant: a job is made with its done flag set.
SpawnDone(w) ==
  /\ At(w, "body") /\ Top(w) \in Forks
  /\ deque' = [deque EXCEPT ![w] = Append(@, Right[Top(w)])]
  /\ stack' = [stack EXCEPT ![w] = Append(@, Left[Top(w)])]
  /\ pc' = [pc EXCEPT ![Top(w)] = "left", ![Left[Top(w)]] = "body"]
  /\ done' = done \cup {Right[Top(w)]}
  /\ UNCHANGED <<asJob, seek, finished>>

\* pardo: spawn(&right_job), then the left thunk is called.
Spawn(w) ==
  /\ At(w, "body") /\ Top(w) \in Forks
  /\ deque' = [deque EXCEPT ![w] = Append(@, Right[Top(w)])]
  /\ stack' = [stack EXCEPT ![w] = Append(@, Left[Top(w)])]
  /\ pc' = [pc EXCEPT ![Top(w)] = "left", ![Left[Top(w)]] = "body"]
  /\ UNCHANGED <<asJob, done, seek, finished>>

\* Mutant: a job returns without setting done.
ReturnSilently(w) ==
  /\ At(w, "return")
  /\ stack' = [stack EXCEPT ![w] = Front(@)]
  /\ LET t == Top(w) IN
       IF t \in asJob \/ t = Root
       THEN /\ Goto(t, "returned")
            /\ seek' = [seek EXCEPT ![w] = IF t = Root THEN "off" ELSE "check"]
       ELSE LET p == Last(Front(stack[w])) IN
              /\ pc' = [pc EXCEPT ![t] = "returned",
                                  ![p] = IF pc[p] = "left" THEN "pop" ELSE "return"]
              /\ UNCHANGED seek
  /\ UNCHANGED <<asJob, done, deque, finished>>

\* A called task returns: to operator() of its job, which sets done, or to
\* the pardo that called it.
Return(w) ==
  /\ At(w, "return")
  /\ stack' = [stack EXCEPT ![w] = Front(@)]
  /\ LET t == Top(w) IN
       IF t \in asJob \/ t = Root
       THEN /\ Goto(t, "returned")
            /\ done' = IF t = Root THEN done ELSE done \cup {t}
            /\ seek' = [seek EXCEPT ![w] = IF t = Root THEN "off" ELSE "check"]
       ELSE LET p == Last(Front(stack[w])) IN
              /\ pc' = [pc EXCEPT ![t] = "returned",
                                  ![p] = IF pc[p] = "left" THEN "pop" ELSE "return"]
              /\ UNCHANGED <<done, seek>>
  /\ UNCHANGED <<asJob, deque, finished>>

\* Mutant: the right thunk is called, its job left in the deque.
PopKeeps(w) ==
  /\ At(w, "pop") /\ deque[w] # <<>>
  /\ stack' = [stack EXCEPT ![w] = Append(@, Right[Top(w)])]
  /\ pc' = [pc EXCEPT ![Top(w)] = "right", ![Right[Top(w)]] = "body"]
  /\ UNCHANGED <<asJob, deque, done, seek, finished>>

\* pardo after the left thunk: get_own_job returns a job, and whatever job
\* that is the right thunk is called.
PopOwn(w) ==
  /\ At(w, "pop") /\ deque[w] # <<>>
  /\ deque' = [deque EXCEPT ![w] = Front(@)]
  /\ stack' = [stack EXCEPT ![w] = Append(@, Right[Top(w)])]
  /\ pc' = [pc EXCEPT ![Top(w)] = "right", ![Right[Top(w)]] = "body"]
  /\ UNCHANGED <<asJob, done, seek, finished>>

\* It returns nullptr: wait_until the right job has finished.
PopNone(w) ==
  /\ At(w, "pop") /\ deque[w] = <<>>
  /\ Goto(Top(w), "wait")
  /\ seek' = [seek EXCEPT ![w] =
                IF Top(w) \in Conservative THEN "none" ELSE "check"]
  /\ UNCHANGED <<stack, asJob, done, deque, finished>>

\* A conservative wait looks at nothing but done().
WaitDone(w) ==
  /\ At(w, "wait") /\ Right[Top(w)] \in done
  /\ Goto(Top(w), "return")
  /\ UNCHANGED <<stack, asJob, done, deque, seek, finished>>

---------------------------------------------------------------------------
(* get_job, called by worker and by do_work_until                          *)

Seek(w, s)    == seek' = [seek EXCEPT ![w] = s]

\* break_early: finished() for a worker, right_job.finished() for a wait.
BreakEarly(w) ==
  IF stack[w] = <<>> THEN finished ELSE Right[Top(w)] \in done

\* Mutant: a wait ends without looking at done.
GiveUpEarly(w) ==
  /\ seek[w] \in {"check", "steal"}
  /\ IF stack[w] = <<>>
     THEN finished /\ Seek(w, "off") /\ UNCHANGED pc
     ELSE Seek(w, "none") /\ Goto(Top(w), "return")
  /\ UNCHANGED <<stack, asJob, done, deque, finished>>

\* get_job gives up: the wait is over, or the worker's loop ends.
GiveUp(w) ==
  /\ seek[w] \in {"check", "steal"} /\ BreakEarly(w)
  /\ IF stack[w] = <<>>
     THEN Seek(w, "off") /\ UNCHANGED pc
     ELSE Seek(w, "none") /\ Goto(Top(w), "return")
  /\ UNCHANGED <<stack, asJob, done, deque, finished>>

GoOn(w) ==
  /\ seek[w] \in {"check", "steal"} /\ ~BreakEarly(w)
  /\ Seek(w, IF seek[w] = "check" THEN "own" ELSE "try")
  /\ UNCHANGED <<stack, pc, asJob, done, deque, finished>>

\* (*job)() on worker w
RunJob(w, j) ==
  /\ stack' = [stack EXCEPT ![w] = Append(@, j)]
  /\ Goto(j, "body")
  /\ asJob' = asJob \cup {j}
  /\ Seek(w, "none")

\* get_own_job
SeekOwn(w) ==
  /\ seek[w] = "own"
  /\ IF deque[w] # <<>>
     THEN /\ RunJob(w, Last(deque[w]))
          /\ deque' = [deque EXCEPT ![w] = Front(@)]
     ELSE /\ Seek(w, "steal")
          /\ UNCHANGED <<stack, pc, asJob, deque>>
  /\ UNCHANGED <<done, finished>>

\* Mutant: a stolen job stays in the deque.
StealKeeps(w, v) ==
  /\ seek[w] = "try" /\ deque[v] # <<>>
  /\ RunJob(w, Head(deque[v]))
  /\ UNCHANGED <<deque, done, finished>>

\* try_steal takes the top job of v's deque; v may be w itself.
Steal(w, v) ==
  /\ seek[w] = "try" /\ deque[v] # <<>>
  /\ RunJob(w, Head(deque[v]))
  /\ deque' = [deque EXCEPT ![v] = Tail(@)]
  /\ UNCHANGED <<done, finished>>

\* try_steal comes back with nothing: the deque was empty or the race lost.
\* A worker, not a wait, may then find that it has tried for too long: it
\* sleeps until it is woken and calls get_job again.
StealNone(w) ==
  /\ seek[w] = "try"
  /\ \/ Seek(w, "steal")
     \/ stack[w] = <<>> /\ Seek(w, "check")
  /\ UNCHANGED <<stack, pc, asJob, done, deque, finished>>

\* ~scheduler, after the program: finished_flag is set.
Shutdown ==
  /\ pc[Root] = "returned" /\ ~finished
  /\ finished' = TRUE
  /\ UNCHANGED <<stack, pc, asJob, done, deque, seek>>

Step(w) == \/ RunLeaf(w) \/ Spawn(w) \/ Return(w)
           \/ PopOwn(w) \/ PopNone(w) \/ WaitDone(w)
           \/ GiveUp(w) \/ GoOn(w) \/ SeekOwn(w)
           \/ \E v \in Workers : Steal(w, v)
           \/ StealNone(w)

Joined == \A w \in Workers : seek[w] = "off"

Next == \/ \E w \in Workers : Step(w)
        \/ Shutdown
        \/ Joined /\ UNCHANGED vars

\* The operating system runs every thread.  Nothing is assumed of the choice
\* of victims: a thief may miss every job for ever.
Fairness == (\A w \in Workers : WF_vars(Step(w))) /\ WF_vars(Shutdown)

Spec == Init /\ [][Next]_vars /\ Fairness

---------------------------------------------------------------------------
Parent(t) == CHOOSE f \in Forks : t \in {Left[f], Right[f]}
OnStack(w) == ToSet(stack[w])
Held(w)    == ToSet(deque[w])

TypeOK ==
  /\ stack \in [Workers -> Seq(Tasks)] /\ deque \in [Workers -> Seq(Tasks)]
  /\ pc \in [Tasks -> PCs] /\ seek \in [Workers -> Seeks]
  /\ asJob \subseteq Tasks /\ done \subseteq asJob
  /\ finished \in BOOLEAN

\* A job is an object on the stack of the pardo that made it: while it is in
\* a deque or runs, that call has not returned.
JobAlive ==
  \A w \in Workers : \A j \in Held(w) \cup {t \in OnStack(w) : t \in asJob} :
    \E v \in Workers : Parent(j) \in OnStack(v) /\ pc[Parent(j)] \in {"left", "pop", "wait"}

\* assert(job == &right_job) in pardo: what get_own_job returns after the left
\* thunk is the job this very call pushed, whatever was pushed, popped and
\* stolen since.  And while a worker waits for a stolen job its own deque is
\* empty: the first thing get_job does, trying the local stack, never finds a
\* job, and a wait never starts a job of an outer call of its own.
OwnDequeInStep ==
  \A w \in Workers :
    /\ At(w, "pop") /\ deque[w] # <<>> => Last(deque[w]) = Right[Top(w)]
    /\ seek[w] # "none" => deque[w] = <<>>

---------------------------------------------------------------------------
(* The inductive invariant behind these.                                   *)

Running(t) == pc[t] \notin {"new", "returned"}

\* A task runs in one call of one worker.
StackedOnce ==
  /\ \A t \in Tasks : Running(t) => \E w \in Workers : t \in OnStack(w)
  /\ \A w \in Workers : \A k \in 1 .. Len(stack[w]) : Running(stack[w][k])
  /\ \A v, w \in Workers : \A k \in 1 .. Len(stack[v]), l \in 1 .. Len(stack[w]) :
       stack[v][k] = stack[w][l] => v = w /\ k = l

\* How the call above f got there.
Called(f, c) ==
  \/ pc[f] = "left"  /\ c = Left[f]
  \/ pc[f] = "right" /\ c = Right[f] /\ c \notin asJob
  \/ pc[f] = "wait"  /\ c \in asJob

StackInv(w) ==
  LET s == stack[w] IN
  s # <<>> => /\ s[1] \in asJob \cup {Root}
              /\ \A k \in 1 .. Len(s) - 1 : Called(s[k], s[k + 1])
              /\ pc[s[Len(s)]] \in {"body", "pop", "wait", "return"}

\* The i-th job of w's deque is that of its k-th call.
JobOf(w, i, k) ==
  /\ pc[stack[w][k]] \in {"left", "pop"}
  /\ deque[w][i] = Right[stack[w][k]]

\* A worker's deque holds the jobs of its innermost calls that have made one,
\* in the order of the calls, and none of a call below a wait.
DequeInv(w) ==
  LET s == stack[w]
      d == deque[w] IN
  /\ \A i \in 1 .. Len(d) :
       /\ pc[d[i]] = "new"
       /\ \E k \in 1 .. Len(s) :
            JobOf(w, i, k) /\ \A m \in k .. Len(s) : pc[s[m]] # "wait"
  /\ \A i, j \in 1 .. Len(d) : \A k, l \in 1 .. Len(s) :
       JobOf(w, i, k) /\ JobOf(w, j, l) /\ i < j => k < l
  /\ \A i \in 1 .. Len(d) : \A k, l \in 1 .. Len(s) :
       JobOf(w, i, k) /\ k < l /\ pc[s[l]] \in {"left", "pop"}
         => \E j \in 1 .. Len(d) : d[j] = Right[s[l]]

SeekInv(w) ==
  /\ seek[w] # "none" =>
       /\ deque[w] = <<>>
       /\ stack[w] # <<>> => pc[stack[w][Len(stack[w])]] = "wait"
  /\ seek[w] = "off" => stack[w] = <<>>

\* How far a pardo is says how far its thunks are.
PardoInv(f) ==
  LET l == Left[f]
      r == Right[f] IN
  /\ pc[f] \in {"new", "body"} => pc[l] = "new" /\ pc[r] = "new"
  /\ pc[f] = "left" => Running(l)
  /\ pc[f] \in {"pop", "right", "wait", "return", "returned"} => pc[l] = "returned"
  /\ pc[f] \in {"left", "pop"} =>
       \/ r \in asJob
       \/ pc[r] = "new" /\ \E w \in Workers : f \in OnStack(w) /\ r \in Held(w)
  /\ pc[f] = "right" => Running(r) /\ r \notin asJob
  /\ pc[f] = "wait" => r \in asJob
  /\ pc[f] \in {"return", "returned"} => pc[r] = "returned"

IInv ==
  /\ TypeOK /\ StackedOnce
  /\ \A w \in Workers : StackInv(w)
  /\ \A w \in Workers : DequeInv(w)
  /\ \A w \in Workers : SeekInv(w)
  /\ \A f \in Forks : PardoInv(f)
  /\ \A t \in Tasks : pc[t] \in {"left", "pop", "right", "wait"} => t \in Forks
  /\ pc[Root] # "new"
  /\ \A t \in asJob : pc[t] # "new" /\ \E f \in Forks : t = Right[f]
  /\ \A t \in done : pc[t] = "returned"

---------------------------------------------------------------------------
\* Refinement: every task runs exactly once and pardo returns only after both
\* its thunks have, however they were spread over the workers.
Status(t) == CASE pc[t] = "new" -> "new"
               [] pc[t] = "returned" -> "returned"
               [] OTHER -> "running"
Calls == INSTANCE TaskTree WITH status <- [t \in Tasks |-> Status(t)]
RunsTree == Calls!Spec

\* The root returns and every thread ends: nested waits that bury one another
\* under stolen jobs cannot deadlock.
Terminates == <>Joined
=============================================================================
