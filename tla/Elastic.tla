------------------------------- MODULE Elastic -------------------------------
(***************************************************************************)
(* The elastic part of the scheduler (parlay/scheduler.h with              *)
(* PARLAY_ELASTIC_PARALLELISM): workers that find nothing to steal go to   *)
(* sleep, whoever makes or takes work wakes them, and the destructor wakes *)
(* them until all have finished.                                           *)
(*                                                                         *)
(* Only the number of jobs in each deque is kept.  A job may push others.  *)
(* pop_bottom and pop_top are atomic, as WSDeque shows; a steal may fail.  *)
(***************************************************************************)
EXTENDS AtomicWait, FiniteSets, Functions

CONSTANTS
  Main,     \* thread 0; Threads are the num_threads workers
  MaxJobs   \* bound: how many jobs are pushed

ASSUME ThreadsAssumption == Main \in Threads /\ IsFiniteSet(Threads)
ASSUME JobsAssumption    == MaxJobs \in Nat

VARIABLES
  pc,                    \* where each thread is in the scheduler
  then,                  \* where it goes on after waking a worker
  jobs,                  \* how many jobs each deque holds
  pushed,                \* how many were ever pushed
  num_awake_workers,
  num_finished_workers,
  finished_flag

vars == <<waitvars, pc, then, jobs, pushed, num_awake_workers,
          num_finished_workers, finished_flag>>

num_threads == Cardinality(Threads)
Workers     == Threads \ {Main}

PCs == {"sleep", "enter", "waiting", "woken", "loop", "search", "none", "job",
        "wake", "add", "notify", "exited", "main", "shutdown", "spam", "joined"}

At(t, c) == pc[t] = c
Go(t, c) == pc' = [pc EXCEPT ![t] = c]

Init ==
  /\ WaitInit
  /\ pc = [t \in Threads |-> IF t = Main THEN "main" ELSE "sleep"]
  /\ then = [t \in Threads |-> "loop"]
  /\ jobs = [t \in Threads |-> 0] /\ pushed = 0
  /\ num_awake_workers = num_threads
  /\ num_finished_workers = 0 /\ finished_flag = FALSE

---------------------------------------------------------------------------
(* wake_up_a_worker and wake_up_all_workers, which then go on at c         *)

WakeUp(t, c) == Go(t, "wake") /\ then' = [then EXCEPT ![t] = c]

\* if (num_awake_workers < num_threads)
CheckAwake(t) ==
  /\ At(t, "wake")
  /\ Go(t, IF num_awake_workers < num_threads THEN "add" ELSE then[t])
  /\ UNCHANGED <<waitvars, then, jobs, pushed, num_awake_workers,
                 num_finished_workers, finished_flag>>

AddCounter(t) ==
  /\ At(t, "add")
  /\ FetchAdd(t)
  /\ Go(t, "notify")
  /\ UNCHANGED <<then, jobs, pushed, num_awake_workers, num_finished_workers,
                 finished_flag>>

Notify(t) ==
  /\ At(t, "notify")
  /\ NotifyStep(t)
  /\ IF npc'[t] = "out" THEN Go(t, then[t]) ELSE UNCHANGED pc
  /\ UNCHANGED <<then, jobs, pushed, num_awake_workers, num_finished_workers,
                 finished_flag>>

---------------------------------------------------------------------------
(* wait_for_work                                                           *)

\* Mutant: the worker counts itself out only after it has slept.
SleepCounted(t) ==
  /\ At(t, "sleep")
  /\ Go(t, "enter")
  /\ UNCHANGED <<waitvars, then, jobs, pushed, num_awake_workers,
                 num_finished_workers, finished_flag>>

SubAwake(t) ==
  /\ At(t, "sleep")
  /\ num_awake_workers' = num_awake_workers - 1
  /\ Go(t, "enter")
  /\ UNCHANGED <<waitvars, then, jobs, pushed, num_finished_workers, finished_flag>>

EnterWait(t) ==
  /\ At(t, "enter")
  /\ Wait(t)
  /\ Go(t, "waiting")
  /\ UNCHANGED <<then, jobs, pushed, num_awake_workers, num_finished_workers,
                 finished_flag>>

Waiting(t) ==
  /\ At(t, "waiting")
  /\ WaitStep(t)
  /\ IF wpc'[t] = "out" THEN Go(t, "woken") ELSE UNCHANGED pc
  /\ UNCHANGED <<then, jobs, pushed, num_awake_workers, num_finished_workers,
                 finished_flag>>

AddAwake(t) ==
  /\ At(t, "woken")
  /\ num_awake_workers' = num_awake_workers + 1
  /\ Go(t, "loop")
  /\ UNCHANGED <<waitvars, then, jobs, pushed, num_finished_workers, finished_flag>>

---------------------------------------------------------------------------
(* worker, get_job, steal_job and try_steal                                *)

\* while (!finished())
Loop(t) ==
  /\ At(t, "loop")
  /\ IF finished_flag
     THEN Go(t, "exited") /\ num_finished_workers' = num_finished_workers + 1
     ELSE Go(t, "search") /\ UNCHANGED num_finished_workers
  /\ UNCHANGED <<waitvars, then, jobs, pushed, num_awake_workers, finished_flag>>

\* get_job comes back with nothing: finished() held, or STEAL_TIMEOUT passed.
GiveUp(t) ==
  /\ At(t, "search")
  /\ Go(t, "none")
  /\ UNCHANGED <<waitvars, then, jobs, pushed, num_awake_workers,
                 num_finished_workers, finished_flag>>

\* else if (!finished()) wait_for_work()
NoJob(t) ==
  /\ At(t, "none")
  /\ Go(t, IF finished_flag THEN "loop" ELSE "sleep")
  /\ UNCHANGED <<waitvars, then, jobs, pushed, num_awake_workers,
                 num_finished_workers, finished_flag>>

\* try_steal gets a job of v's; if pop_top says that there are more, and what
\* it says may be outdated, a worker is woken before the job runs.
Steal(t, v) ==
  /\ At(t, "search") /\ jobs[v] > 0
  /\ jobs' = [jobs EXCEPT ![v] = @ - 1]
  /\ WakeUp(t, "job") \/ (Go(t, "job") /\ UNCHANGED then)
  /\ UNCHANGED <<waitvars, pushed, num_awake_workers, num_finished_workers,
                 finished_flag>>

\* It loses the race for a job but has seen others.
StealFails(t) ==
  /\ At(t, "search") /\ \E v \in Threads : jobs[v] > 0
  /\ WakeUp(t, "search")
  /\ UNCHANGED <<waitvars, jobs, pushed, num_awake_workers, num_finished_workers,
                 finished_flag>>

---------------------------------------------------------------------------
(* The program: the main thread and whoever runs a job may spawn another.  *)
(* A thread takes its own deque's jobs before its job, or the program,     *)
(* returns.                                                                *)

Working(t) == pc[t] \in {"main", "job"}
Busy(t)    == At(t, "job") \/ (pc[t] \in {"wake", "add", "notify"} /\ then[t] = "job")

\* spawn: push_bottom says whether the job is at the deque's first place; an
\* empty deque's next place need not be the first.
Spawn(t) ==
  /\ Working(t) /\ pushed < MaxJobs
  /\ jobs' = [jobs EXCEPT ![t] = @ + 1] /\ pushed' = pushed + 1
  /\ \/ jobs[t] = 0 /\ WakeUp(t, pc[t])
     \/ UNCHANGED <<pc, then>>
  /\ UNCHANGED <<waitvars, num_awake_workers, num_finished_workers, finished_flag>>

TakeOwn(t) ==
  /\ Working(t) /\ jobs[t] > 0
  /\ jobs' = [jobs EXCEPT ![t] = @ - 1]
  /\ UNCHANGED <<waitvars, pc, then, pushed, num_awake_workers,
                 num_finished_workers, finished_flag>>

JobDone(t) ==
  /\ At(t, "job") /\ jobs[t] = 0
  /\ Go(t, "loop")
  /\ UNCHANGED <<waitvars, then, jobs, pushed, num_awake_workers,
                 num_finished_workers, finished_flag>>

\* The main thread's last pardo has returned: no job is left anywhere.
Destroy ==
  /\ At(Main, "main")
  /\ \A t \in Threads : jobs[t] = 0
  /\ \A t \in Workers : ~Busy(t)
  /\ Go(Main, "shutdown")
  /\ UNCHANGED <<waitvars, then, jobs, pushed, num_awake_workers,
                 num_finished_workers, finished_flag>>

---------------------------------------------------------------------------
(* shutdown, called by the destructor                                      *)

SetFinished ==
  /\ At(Main, "shutdown")
  /\ finished_flag' = TRUE
  /\ Go(Main, "spam")
  /\ UNCHANGED <<waitvars, then, jobs, pushed, num_awake_workers,
                 num_finished_workers>>

\* Mutant: the workers are woken once.
SpamOnce ==
  /\ At(Main, "spam")
  /\ IF num_finished_workers < num_threads - 1
     THEN WakeUp(Main, "joined")
     ELSE Go(Main, "joined") /\ UNCHANGED then
  /\ UNCHANGED <<waitvars, jobs, pushed, num_awake_workers, num_finished_workers,
                 finished_flag>>

\* while (num_finished_workers < num_threads - 1) wake_up_all_workers()
SpamWake ==
  /\ At(Main, "spam")
  /\ IF num_finished_workers < num_threads - 1
     THEN WakeUp(Main, "spam")
     ELSE Go(Main, "joined") /\ UNCHANGED then
  /\ UNCHANGED <<waitvars, jobs, pushed, num_awake_workers, num_finished_workers,
                 finished_flag>>

Step(t) == \/ CheckAwake(t) \/ AddCounter(t) \/ Notify(t)
           \/ SubAwake(t) \/ EnterWait(t) \/ Waiting(t) \/ AddAwake(t)
           \/ Loop(t) \/ GiveUp(t) \/ NoJob(t)
           \/ \E v \in Threads : Steal(t, v)
           \/ StealFails(t)
           \/ Spawn(t) \/ TakeOwn(t) \/ JobDone(t)
           \/ t = Main /\ (Destroy \/ SetFinished \/ SpamWake)

Joined == At(Main, "joined") /\ \A t \in Workers : At(t, "exited")

Next == (\E t \in Threads : Step(t)) \/ (Joined /\ UNCHANGED vars)

\* Every thread is scheduled, and the kernel ends a sleep that times out.
Fairness == \A t \in Threads : WF_vars(Step(t))

Spec == Init /\ [][Next]_vars /\ Fairness

---------------------------------------------------------------------------
TypeOK ==
  /\ WaitTypeOK
  /\ pc \in [Threads -> PCs] /\ then \in [Threads -> PCs]
  /\ jobs \in [Threads -> 0 .. MaxJobs] /\ pushed \in 0 .. MaxJobs
  /\ num_awake_workers \in 0 .. num_threads
  /\ num_finished_workers \in 0 .. num_threads - 1
  /\ finished_flag \in BOOLEAN

\* Nobody who is asleep is counted as awake: once a thread sleeps no
\* wake_up_a_worker that looks at num_awake_workers leaves it out.  The counters
\* stay within the number of threads, however sleeps, timeouts and the shutdown
\* overlap.
SleepersCounted ==
  /\ TypeOK
  /\ (\E t \in Threads : Asleep(t)) => num_awake_workers < num_threads

\* The program ends and so does every thread: a worker that falls asleep while
\* work is spawned or just after finished_flag was set is woken all the same.
Terminates == <>Joined

---------------------------------------------------------------------------
(* Why SleepersCounted holds: what each thread may be doing, and what the  *)
(* counters count.                                                         *)

MainPCs == {"main", "shutdown", "spam", "joined"}
WakePCs == {"wake", "add", "notify"}
AwayPCs == {"enter", "waiting", "woken"}

\* The main thread never looks for work, and a worker never runs the program.
Roles ==
  /\ pc[Main] \in MainPCs \cup WakePCs
  /\ pc[Main] \in WakePCs => then[Main] \in {"main", "spam"}
  /\ \A t \in Workers : /\ pc[t] \notin MainPCs
                        /\ pc[t] \in WakePCs => then[t] \in {"search", "job"}

\* A thread is in atomic_wait only where wait_for_work has called it.
WaitsForWork == \A t \in Threads : wpc[t] # "out" => pc[t] = "waiting"

Away   == {t \in Threads : pc[t] \in AwayPCs}
Exited == {t \in Threads : pc[t] = "exited"}

Counters ==
  /\ num_awake_workers = num_threads - Cardinality(Away)
  /\ num_finished_workers = Cardinality(Exited)
  /\ \A t \in Threads : jobs[t] <= pushed

\* shutdown returns to the destructor only when every worker has left its loop
\* for good, so none touches the deques that are destroyed next.
JoinsAll == At(Main, "joined") => Exited = Workers

IInv == TypeOK /\ Roles /\ WaitsForWork /\ Counters /\ JoinsAll

=============================================================================
