--------------------------- MODULE ElasticProofs ---------------------------
(***************************************************************************)
(* Proofs about Elastic: for any number of workers and of jobs the counter *)
(* of awake workers never counts a sleeper, and the destructor goes on     *)
(* only when every worker has left.                                        *)
(***************************************************************************)
EXTENDS Elastic, FiniteSetTheorems, TLAPS

USE ThreadsAssumption, JobsAssumption

---------------------------------------------------------------------------
(* Counting                                                                *)

LEMMA Finite ==
  /\ num_threads \in Nat
  /\ \A S \in SUBSET Threads : IsFiniteSet(S) /\ Cardinality(S) \in 0 .. num_threads
<1>1. num_threads \in Nat
  BY FS_CardinalityType DEF num_threads
<1>2. ASSUME NEW S \in SUBSET Threads
      PROVE  IsFiniteSet(S) /\ Cardinality(S) \in 0 .. num_threads
  <2>1. IsFiniteSet(S) /\ Cardinality(S) <= Cardinality(Threads)
    BY FS_Subset
  <2>2. Cardinality(S) \in Nat
    BY <2>1, FS_CardinalityType
  <2> QED
    BY <1>1, <2>1, <2>2 DEF num_threads
<1> QED
  BY <1>1, <1>2

LEMMA WorkersCount ==
  /\ IsFiniteSet(Workers) /\ Cardinality(Workers) = num_threads - 1
  /\ \A S \in SUBSET Workers : /\ Cardinality(S) \in 0 .. num_threads - 1
                               /\ Cardinality(S) >= num_threads - 1 => S = Workers
<1>1. IsFiniteSet(Workers) /\ Cardinality(Workers) = num_threads - 1
  BY FS_RemoveElement DEF Workers, num_threads
<1>2. ASSUME NEW S \in SUBSET Workers
      PROVE  /\ Cardinality(S) \in 0 .. num_threads - 1
             /\ Cardinality(S) >= num_threads - 1 => S = Workers
  <2>1. Cardinality(S) \in Nat /\ num_threads \in Nat
    BY Finite DEF Workers
  <2>2. /\ Cardinality(S) <= num_threads - 1
        /\ Cardinality(S) = num_threads - 1 => S = Workers
    BY <1>1, FS_Subset
  <2> QED
    BY <2>1, <2>2
<1> QED
  BY <1>1, <1>2

---------------------------------------------------------------------------
\* What a step keeps in which thread t goes to c with continuation d and the
\* counters stand still: it neither enters nor leaves wait_for_work nor exits.
Sound(t, c, d) ==
  /\ c \in PCs /\ d \in PCs
  /\ t = Main => /\ c \in MainPCs \cup WakePCs
                 /\ c \in WakePCs => d \in {"main", "spam"}
                 /\ c = "joined" => Exited = Workers
  /\ t # Main => /\ c \notin MainPCs
                 /\ c \in WakePCs => d \in {"search", "job"}

LEMMA PlainStep ==
  ASSUME IInv, NEW t \in Threads, NEW c, NEW d, Sound(t, c, d),
         pc' = [pc EXCEPT ![t] = c], then' = [then EXCEPT ![t] = d],
         pc[t] \in AwayPCs <=> c \in AwayPCs,
         pc[t] = "exited" <=> c = "exited",
         WaitTypeOK',
         \A u \in Threads : wpc'[u] # "out" => pc'[u] = "waiting",
         jobs' \in [Threads -> 0 .. MaxJobs], pushed' \in 0 .. MaxJobs,
         \A u \in Threads : jobs'[u] <= pushed',
         finished_flag' \in BOOLEAN,
         UNCHANGED <<num_awake_workers, num_finished_workers>>
  PROVE  IInv'
<1>1. /\ pc \in [Threads -> PCs] /\ then \in [Threads -> PCs] /\ Main \in Threads
      /\ c \in PCs /\ d \in PCs
  BY DEF IInv, TypeOK, Sound
<1>2. /\ pc'[t] = c /\ then'[t] = d
      /\ \A u \in Threads : u # t => pc'[u] = pc[u] /\ then'[u] = then[u]
  BY <1>1
<1>3. TypeOK'
  BY <1>1 DEF IInv, TypeOK
<1>4. Roles'
  <2>1. /\ pc'[Main] \in MainPCs \cup WakePCs
        /\ pc'[Main] \in WakePCs => then'[Main] \in {"main", "spam"}
    BY <1>1, <1>2 DEF IInv, Roles, Sound
  <2>2. ASSUME NEW u \in Workers
        PROVE  /\ pc'[u] \notin MainPCs
               /\ pc'[u] \in WakePCs => then'[u] \in {"search", "job"}
    BY <1>2, <2>2 DEF IInv, Roles, Sound, Workers
  <2> QED
    BY <2>1, <2>2 DEF Roles
<1>5. Away' = Away /\ Exited' = Exited
  BY <1>2 DEF Away, Exited
<1>6. WaitsForWork' /\ Counters'
  BY <1>5 DEF IInv, WaitsForWork, Counters
<1>7. JoinsAll'
  BY <1>1, <1>2, <1>5 DEF IInv, JoinsAll, At, Sound
<1> QED
  BY <1>3, <1>4, <1>6, <1>7 DEF IInv

\* What IInv says of one thread.
LEMMA Facts ==
  ASSUME IInv, NEW t \in Threads
  PROVE  /\ pc[t] \in PCs /\ then[t] \in PCs
         /\ pc = [pc EXCEPT ![t] = pc[t]] /\ then = [then EXCEPT ![t] = then[t]]
         /\ Sound(t, pc[t], then[t])
         /\ pc[t] \in WakePCs => Sound(t, then[t], then[t])
         /\ WaitTypeOK /\ jobs \in [Threads -> 0 .. MaxJobs] /\ pushed \in 0 .. MaxJobs
         /\ \A u \in Threads : jobs[u] <= pushed
         /\ finished_flag \in BOOLEAN
         /\ \A u \in Threads : wpc[u] # "out" => pc[u] = "waiting"
<1>1. /\ pc \in [Threads -> PCs] /\ then \in [Threads -> PCs]
      /\ WaitTypeOK /\ jobs \in [Threads -> 0 .. MaxJobs] /\ pushed \in 0 .. MaxJobs
      /\ finished_flag \in BOOLEAN
  BY DEF IInv, TypeOK
<1>2. Sound(t, pc[t], then[t])
  BY <1>1 DEF IInv, Roles, JoinsAll, Sound, Workers, At
<1>3. pc[t] \in WakePCs => Sound(t, then[t], then[t])
  BY <1>1 DEF IInv, Roles, Sound, Workers, WakePCs, MainPCs, PCs
<1> QED
  BY <1>1, <1>2, <1>3 DEF IInv, Counters, WaitsForWork

\* A step that only moves t.
LEMMA OnlyMoves ==
  ASSUME IInv, NEW t \in Threads, NEW c, NEW d, Sound(t, c, d),
         pc' = [pc EXCEPT ![t] = c], then' = [then EXCEPT ![t] = d],
         pc[t] \notin AwayPCs \cup {"exited"}, c \notin AwayPCs \cup {"exited"},
         UNCHANGED <<waitvars, jobs, pushed, num_awake_workers,
                     num_finished_workers>>,
         finished_flag' \in BOOLEAN
  PROVE  IInv'
<1>1. UNCHANGED <<behind, waiters, outdated, wpc, npc>>
  BY DEF waitvars
<1>2. WaitTypeOK'
  BY <1>1, Facts DEF WaitTypeOK
<1>3. \A u \in Threads : wpc'[u] # "out" => pc'[u] = "waiting"
  <2>1. SUFFICES ASSUME NEW u \in Threads, wpc[u] # "out" PROVE pc'[u] = "waiting"
    BY <1>1
  <2>2. pc[u] = "waiting"
    BY <2>1, Facts
  <2>3. u # t
    BY <2>2 DEF AwayPCs
  <2> QED
    BY <2>2, <2>3, Facts
<1> QED
  BY <1>2, <1>3, Facts, PlainStep

---------------------------------------------------------------------------
LEMMA InitIInv == Init => IInv
<1> SUFFICES ASSUME Init PROVE IInv
  OBVIOUS
<1>1. /\ pc = [t \in Threads |-> IF t = Main THEN "main" ELSE "sleep"]
      /\ then = [t \in Threads |-> "loop"]
      /\ jobs = [t \in Threads |-> 0] /\ pushed = 0
      /\ num_awake_workers = num_threads
      /\ num_finished_workers = 0 /\ finished_flag = FALSE
      /\ WaitInit
  BY DEF Init
<1>2. Away = {} /\ Exited = {} /\ Cardinality({}) = 0
  BY <1>1, FS_EmptySet DEF Away, Exited, AwayPCs
<1>3. num_threads \in Nat /\ num_threads - 1 \in Nat
  BY Finite, WorkersCount, FS_CardinalityType
<1>4. TypeOK
  <2>1. WaitTypeOK
    BY <1>1 DEF WaitTypeOK, WaitInit, WaitPCs, NotifyPCs
  <2>2. pc \in [Threads -> PCs] /\ then \in [Threads -> PCs]
    BY <1>1 DEF PCs
  <2>3. jobs \in [Threads -> 0 .. MaxJobs] /\ pushed \in 0 .. MaxJobs
    BY <1>1
  <2>4. /\ num_awake_workers \in 0 .. num_threads
        /\ num_finished_workers \in 0 .. num_threads - 1
    BY <1>1, <1>3
  <2> QED
    BY <1>1, <2>1, <2>2, <2>3, <2>4 DEF TypeOK
<1>5. Roles /\ JoinsAll
  BY <1>1 DEF Roles, JoinsAll, At, Workers, MainPCs, WakePCs
<1>6. WaitsForWork /\ Counters
  BY <1>1, <1>2, <1>3 DEF WaitsForWork, Counters, WaitInit
<1> QED
  BY <1>4, <1>5, <1>6 DEF IInv

---------------------------------------------------------------------------
(* Waking                                                                  *)

LEMMA CheckAwakeInv ==
  ASSUME IInv, NEW t \in Threads, CheckAwake(t) PROVE IInv'
<1>1. PICK c \in {"add", then[t]} : pc' = [pc EXCEPT ![t] = c]
  BY DEF CheckAwake, Go
<1>2. pc[t] = "wake" /\ pc[t] \in WakePCs
  BY DEF CheckAwake, At, WakePCs
<1>3. Sound(t, "add", then[t]) /\ then[t] \notin AwayPCs \cup {"exited"}
  BY <1>2, Facts DEF Sound, MainPCs, WakePCs, AwayPCs, PCs
<1>4. Sound(t, c, then[t]) /\ c \notin AwayPCs \cup {"exited"}
  BY <1>1, <1>2, <1>3, Facts DEF AwayPCs
<1>5. then' = [then EXCEPT ![t] = then[t]] /\ finished_flag' \in BOOLEAN
      /\ UNCHANGED <<waitvars, jobs, pushed, num_awake_workers, num_finished_workers>>
  BY Facts DEF CheckAwake
<1>6. pc[t] \notin AwayPCs \cup {"exited"}
  BY <1>2 DEF AwayPCs
<1> QED
  BY <1>1, <1>4, <1>5, <1>6, OnlyMoves

\* What WakeUp needs and what it does.
LEMMA WakeUpInv ==
  ASSUME IInv, NEW t \in Threads, NEW c, WakeUp(t, c),
         pc[t] \notin AwayPCs \cup {"exited"},
         c \in IF t = Main THEN {"main", "spam"} ELSE {"search", "job"},
         UNCHANGED <<waitvars, num_awake_workers, num_finished_workers, finished_flag>>,
         jobs' \in [Threads -> 0 .. MaxJobs], pushed' \in 0 .. MaxJobs,
         \A u \in Threads : jobs'[u] <= pushed'
  PROVE  IInv'
<1>1. Sound(t, "wake", c)
  BY DEF Sound, MainPCs, WakePCs, PCs
<1>2. pc' = [pc EXCEPT ![t] = "wake"] /\ then' = [then EXCEPT ![t] = c]
  BY DEF WakeUp, Go
<1>3. UNCHANGED <<behind, waiters, outdated, wpc, npc>>
  BY DEF waitvars
<1>4. WaitTypeOK' /\ finished_flag' \in BOOLEAN
  BY <1>3, Facts DEF WaitTypeOK
<1>5. \A u \in Threads : wpc'[u] # "out" => pc'[u] = "waiting"
  BY <1>2, <1>3, Facts DEF AwayPCs
<1>6. pc[t] \in AwayPCs <=> "wake" \in AwayPCs
  BY DEF AwayPCs
<1>7. pc[t] = "exited" <=> "wake" = "exited"
  OBVIOUS
<1> QED
  BY <1>1, <1>2, <1>4, <1>5, <1>6, <1>7, PlainStep

LEMMA AddCounterInv ==
  ASSUME IInv, NEW t \in Threads, AddCounter(t) PROVE IInv'
<1>1. /\ pc[t] = "add" /\ pc' = [pc EXCEPT ![t] = "notify"]
      /\ then' = [then EXCEPT ![t] = then[t]]
      /\ behind' = Threads /\ npc' = [npc EXCEPT ![t] = "version"]
      /\ UNCHANGED <<waiters, outdated, wpc, jobs, pushed, num_awake_workers,
                     num_finished_workers, finished_flag>>
  BY Facts DEF AddCounter, At, Go, FetchAdd, NotifyGo
<1>2. Sound(t, "notify", then[t])
  BY <1>1, Facts DEF Sound, MainPCs, WakePCs, PCs
<1>3. WaitTypeOK'
  BY <1>1, Facts DEF WaitTypeOK, NotifyPCs
<1>4. \A u \in Threads : wpc'[u] # "out" => pc'[u] = "waiting"
  BY <1>1, Facts
<1>5. /\ pc[t] \in AwayPCs <=> "notify" \in AwayPCs
      /\ pc[t] = "exited" <=> "notify" = "exited"
  BY <1>1 DEF AwayPCs
<1> QED
  BY <1>1, <1>2, <1>3, <1>4, <1>5, Facts, PlainStep

\* Waking everyone ends sleeps and moves nobody but the notifier.
LEMMA NotifyInv ==
  ASSUME IInv, NEW t \in Threads, Notify(t) PROVE IInv'
<1>1. /\ pc[t] = "notify" /\ NotifyStep(t)
      /\ UNCHANGED <<then, jobs, pushed, num_awake_workers, num_finished_workers,
                     finished_flag>>
  BY DEF Notify, At
<1>2. PICK c \in {"notify", then[t]} : pc' = [pc EXCEPT ![t] = c]
  <2>1. pc' = [pc EXCEPT ![t] = then[t]] \/ pc' = pc
    BY DEF Notify, Go
  <2> QED
    BY <1>1, <2>1, Facts
<1>3. /\ Sound(t, "notify", then[t]) /\ Sound(t, then[t], then[t])
      /\ then[t] \notin AwayPCs \cup {"exited"}
  BY <1>1, Facts DEF Sound, MainPCs, WakePCs, AwayPCs, PCs
<1>4. WaitTypeOK' /\ \A u \in Threads : wpc'[u] # "out" => wpc[u] # "out"
  <2>1. /\ behind \subseteq Threads /\ outdated \subseteq Threads /\ waiters \in {0, 1}
        /\ wpc \in [Threads -> WaitPCs] /\ npc \in [Threads -> NotifyPCs]
    BY Facts DEF WaitTypeOK
  <2>2. CASE AddVersion(t)
    BY <2>1, <2>2 DEF AddVersion, NotifyGo, WaitTypeOK, NotifyPCs
  <2>3. CASE ExchangeWaiters(t)
    BY <2>1, <2>3 DEF ExchangeWaiters, NotifyGo, WaitTypeOK, NotifyPCs
  <2>4. CASE FutexWake(t)
    BY <2>1, <2>4 DEF FutexWake, NotifyGo, Asleep, WaitTypeOK, NotifyPCs, WaitPCs
  <2> QED
    BY <1>1, <2>2, <2>3, <2>4 DEF NotifyStep
<1>5. \A u \in Threads : wpc'[u] # "out" => pc'[u] = "waiting"
  BY <1>1, <1>2, <1>4, Facts
<1>6. /\ pc[t] \in AwayPCs <=> c \in AwayPCs
      /\ pc[t] = "exited" <=> c = "exited"
  BY <1>1, <1>2, <1>3 DEF AwayPCs
<1>7. Sound(t, c, then[t]) /\ then' = [then EXCEPT ![t] = then[t]]
  BY <1>1, <1>2, <1>3, Facts
<1> QED
  BY <1>1, <1>2, <1>4, <1>5, <1>6, <1>7, Facts, PlainStep

---------------------------------------------------------------------------
(* wait_for_work                                                           *)

\* A worker that only moves inside wait_for_work is away before and after.
LEMMA WaitsOn ==
  ASSUME IInv, NEW t \in Threads, NEW c \in AwayPCs, pc[t] \in AwayPCs,
         pc' = [pc EXCEPT ![t] = c], WaitTypeOK',
         \A u \in Threads : u # t => wpc'[u] = wpc[u],
         wpc'[t] # "out" => c = "waiting",
         UNCHANGED <<then, jobs, pushed, num_awake_workers, num_finished_workers,
                     finished_flag>>
  PROVE  IInv'
<1>1. t # Main
  BY DEF IInv, Roles, MainPCs, WakePCs, AwayPCs
<1>2. Sound(t, c, then[t])
  BY <1>1, Facts DEF Sound, AwayPCs, WakePCs, MainPCs, PCs
<1>3. \A u \in Threads : wpc'[u] # "out" => pc'[u] = "waiting"
  BY Facts DEF IInv, TypeOK
<1>4. /\ pc[t] \in AwayPCs <=> c \in AwayPCs
      /\ pc[t] = "exited" <=> c = "exited"
  BY DEF AwayPCs
<1>5. then' = [then EXCEPT ![t] = then[t]]
  BY Facts
<1> QED
  BY <1>2, <1>3, <1>4, <1>5, Facts, PlainStep

LEMMA EnterWaitInv ==
  ASSUME IInv, NEW t \in Threads, EnterWait(t) PROVE IInv'
<1>1. /\ pc[t] = "enter" /\ pc' = [pc EXCEPT ![t] = "waiting"]
      /\ wpc' = [wpc EXCEPT ![t] = "load"] /\ behind' = behind \ {t}
      /\ UNCHANGED <<waiters, outdated, npc, then, jobs, pushed, num_awake_workers,
                     num_finished_workers, finished_flag>>
  BY DEF EnterWait, At, Go, Wait, WaitGo
<1>2. WaitTypeOK' /\ \A u \in Threads : u # t => wpc'[u] = wpc[u]
  BY <1>1, Facts DEF WaitTypeOK, WaitPCs
<1>3. "waiting" \in AwayPCs /\ "enter" \in AwayPCs
  BY DEF AwayPCs
<1> QED
  BY <1>1, <1>2, <1>3, WaitsOn

LEMMA WaitingInv ==
  ASSUME IInv, NEW t \in Threads, Waiting(t) PROVE IInv'
<1>1. /\ pc[t] = "waiting" /\ WaitStep(t)
      /\ IF wpc'[t] = "out" THEN pc' = [pc EXCEPT ![t] = "woken"] ELSE pc' = pc
      /\ UNCHANGED <<then, jobs, pushed, num_awake_workers, num_finished_workers,
                     finished_flag>>
  BY DEF Waiting, At, Go
<1>2. PICK c \in AwayPCs : /\ pc' = [pc EXCEPT ![t] = c]
                           /\ wpc'[t] # "out" => c = "waiting"
  BY <1>1, Facts DEF AwayPCs
<1>3. WaitTypeOK' /\ \A u \in Threads : u # t => wpc'[u] = wpc[u]
  <2>1. /\ behind \subseteq Threads /\ outdated \subseteq Threads /\ waiters \in {0, 1}
        /\ wpc \in [Threads -> WaitPCs] /\ npc \in [Threads -> NotifyPCs]
    BY Facts DEF WaitTypeOK
  <2>2. PICK p \in WaitPCs : wpc' = [wpc EXCEPT ![t] = p]
    BY <1>1 DEF WaitStep, LoadWord, ArmWaiters, LoadVersion, Recheck, FutexWait,
                TimeOut, WaitGo, WaitPCs
  <2>3. /\ behind' \subseteq Threads /\ outdated' \subseteq Threads
        /\ waiters' \in {0, 1} /\ npc' = npc
    BY <1>1, <2>1 DEF WaitStep, LoadWord, ArmWaiters, LoadVersion, Recheck,
                      FutexWait, TimeOut
  <2> QED
    BY <2>1, <2>2, <2>3 DEF WaitTypeOK
<1>4. pc[t] \in AwayPCs
  BY <1>1 DEF AwayPCs
<1> QED
  BY <1>1, <1>2, <1>3, <1>4, WaitsOn

\* Going away from work and coming back, the worker and the counter together.
LEMMA SubAwakeInv ==
  ASSUME IInv, NEW t \in Threads, SubAwake(t) PROVE IInv'
<1>1. /\ pc[t] = "sleep" /\ pc' = [pc EXCEPT ![t] = "enter"]
      /\ num_awake_workers' = num_awake_workers - 1
      /\ UNCHANGED <<behind, waiters, outdated, wpc, npc, then, jobs, pushed,
                     num_finished_workers, finished_flag>>
  BY DEF SubAwake, At, Go, waitvars
<1>2. /\ t # Main /\ pc \in [Threads -> PCs]
      /\ pc'[t] = "enter" /\ \A u \in Threads : u # t => pc'[u] = pc[u]
  BY <1>1 DEF IInv, TypeOK, Roles, MainPCs, WakePCs
<1>3. Away' = Away \cup {t} /\ t \notin Away /\ Exited' = Exited
  BY <1>1, <1>2 DEF Away, Exited, AwayPCs
<1>4. Cardinality(Away') = Cardinality(Away) + 1
  BY <1>3, Finite, FS_AddElement DEF Away
<1>5. num_threads \in Nat /\ Cardinality(Away) \in Nat /\ Cardinality(Away') \in 0 .. num_threads
  BY <1>3, Finite DEF Away
<1>6. num_awake_workers' = num_threads - Cardinality(Away')
  BY <1>1, <1>4, <1>5 DEF IInv, Counters
<1>7. TypeOK'
  <2>1. num_awake_workers' \in 0 .. num_threads
    BY <1>5, <1>6
  <2>2. pc' \in [Threads -> PCs]
    BY <1>1, <1>2 DEF PCs
  <2> QED
    BY <1>1, <2>1, <2>2 DEF IInv, TypeOK, WaitTypeOK
<1>8. Roles' /\ JoinsAll' /\ WaitsForWork'
  BY <1>1, <1>2, <1>3 DEF IInv, Roles, JoinsAll, WaitsForWork, At, MainPCs, WakePCs,
                          Workers
<1>9. Counters'
  BY <1>1, <1>3, <1>6 DEF IInv, Counters
<1> QED
  BY <1>7, <1>8, <1>9 DEF IInv

LEMMA AddAwakeInv ==
  ASSUME IInv, NEW t \in Threads, AddAwake(t) PROVE IInv'
<1>1. /\ pc[t] = "woken" /\ pc' = [pc EXCEPT ![t] = "loop"]
      /\ num_awake_workers' = num_awake_workers + 1
      /\ UNCHANGED <<behind, waiters, outdated, wpc, npc, then, jobs, pushed,
                     num_finished_workers, finished_flag>>
  BY DEF AddAwake, At, Go, waitvars
<1>2. /\ t # Main /\ pc \in [Threads -> PCs]
      /\ pc'[t] = "loop" /\ \A u \in Threads : u # t => pc'[u] = pc[u]
  BY <1>1 DEF IInv, TypeOK, Roles, MainPCs, WakePCs
<1>3. Away' = Away \ {t} /\ t \in Away /\ Exited' = Exited
  BY <1>1, <1>2 DEF Away, Exited, AwayPCs
<1>4. Cardinality(Away') = Cardinality(Away) - 1
  BY <1>3, Finite, FS_RemoveElement DEF Away
<1>5. num_threads \in Nat /\ Cardinality(Away) \in Nat /\ Cardinality(Away') \in 0 .. num_threads
  BY <1>3, Finite DEF Away
<1>6. num_awake_workers' = num_threads - Cardinality(Away')
  BY <1>1, <1>4, <1>5 DEF IInv, Counters
<1>7. TypeOK'
  <2>1. num_awake_workers' \in 0 .. num_threads
    BY <1>5, <1>6
  <2>2. pc' \in [Threads -> PCs]
    BY <1>1, <1>2 DEF PCs
  <2> QED
    BY <1>1, <2>1, <2>2 DEF IInv, TypeOK, WaitTypeOK
<1>8. Roles' /\ JoinsAll' /\ WaitsForWork'
  BY <1>1, <1>2, <1>3 DEF IInv, Roles, JoinsAll, WaitsForWork, At, MainPCs, WakePCs,
                          Workers
<1>9. Counters'
  BY <1>1, <1>3, <1>6 DEF IInv, Counters
<1> QED
  BY <1>7, <1>8, <1>9 DEF IInv

---------------------------------------------------------------------------
(* worker, get_job, steal_job and try_steal                                *)

LEMMA ExitInv ==
  ASSUME IInv, NEW t \in Threads, Loop(t), finished_flag PROVE IInv'
<1>1. /\ pc[t] = "loop" /\ pc' = [pc EXCEPT ![t] = "exited"]
      /\ num_finished_workers' = num_finished_workers + 1
      /\ UNCHANGED <<behind, waiters, outdated, wpc, npc, then, jobs, pushed,
                     num_awake_workers, finished_flag>>
  BY DEF Loop, At, Go, waitvars
<1>2. /\ t # Main /\ pc \in [Threads -> PCs]
      /\ pc'[t] = "exited" /\ \A u \in Threads : u # t => pc'[u] = pc[u]
  BY <1>1 DEF IInv, TypeOK, Roles, MainPCs, WakePCs
<1>3. Exited' = Exited \cup {t} /\ t \notin Exited /\ Away' = Away
  BY <1>1, <1>2 DEF Away, Exited, AwayPCs
<1>4. Exited' \subseteq Workers /\ Exited \subseteq Threads
  BY <1>2, <1>3 DEF IInv, Roles, Exited, Workers, MainPCs, WakePCs
<1>5. Cardinality(Exited') = Cardinality(Exited) + 1
  BY <1>3, <1>4, Finite, FS_AddElement
<1>6. num_finished_workers' = Cardinality(Exited')
  BY <1>1, <1>5 DEF IInv, Counters
<1>7. TypeOK'
  <2>1. num_finished_workers' \in 0 .. num_threads - 1
    BY <1>4, <1>6, WorkersCount
  <2>2. pc' \in [Threads -> PCs]
    BY <1>1, <1>2 DEF PCs
  <2> QED
    BY <1>1, <2>1, <2>2 DEF IInv, TypeOK, WaitTypeOK
<1>8. Roles' /\ WaitsForWork'
  BY <1>1, <1>2 DEF IInv, Roles, WaitsForWork, MainPCs, WakePCs, Workers
<1>9. JoinsAll'
  BY <1>2, <1>3, <1>4 DEF IInv, JoinsAll, At
<1>10. Counters'
  BY <1>1, <1>3, <1>6 DEF IInv, Counters
<1> QED
  BY <1>7, <1>8, <1>9, <1>10 DEF IInv

\* A worker that goes on searching, or has found nothing.
LEMMA WorkerMoves ==
  ASSUME IInv, NEW t \in Threads, NEW c \in {"search", "none", "loop", "sleep", "job"},
         pc[t] \in {"loop", "search", "none", "job"}, pc' = [pc EXCEPT ![t] = c],
         UNCHANGED <<waitvars, then, pushed, num_awake_workers,
                     num_finished_workers, finished_flag>>,
         jobs' \in [Threads -> 0 .. MaxJobs], \A u \in Threads : jobs'[u] <= pushed
  PROVE  IInv'
<1>1. t # Main
  BY DEF IInv, Roles, MainPCs, WakePCs
<1>2. Sound(t, c, then[t])
  BY <1>1, Facts DEF Sound, WakePCs, MainPCs, PCs
<1>3. UNCHANGED <<behind, waiters, outdated, wpc, npc>>
  BY DEF waitvars
<1>4. WaitTypeOK' /\ \A u \in Threads : wpc'[u] # "out" => pc'[u] = "waiting"
  BY <1>3, Facts DEF WaitTypeOK
<1>5. /\ pc[t] \in AwayPCs <=> c \in AwayPCs
      /\ pc[t] = "exited" <=> c = "exited"
  BY DEF AwayPCs
<1>6. then' = [then EXCEPT ![t] = then[t]]
  BY Facts
<1> QED
  BY <1>2, <1>4, <1>5, <1>6, Facts, PlainStep

LEMMA SearchInv ==
  ASSUME IInv, NEW t \in Threads,
         (Loop(t) /\ ~finished_flag) \/ GiveUp(t) \/ NoJob(t) \/ JobDone(t)
  PROVE  IInv'
<1>1. /\ pc[t] \in {"loop", "search", "none", "job"}
      /\ \E c \in {"search", "none", "loop", "sleep", "job"} : pc' = [pc EXCEPT ![t] = c]
      /\ UNCHANGED <<waitvars, then, jobs, pushed, num_awake_workers,
                     num_finished_workers, finished_flag>>
  BY DEF Loop, GiveUp, NoJob, JobDone, At, Go
<1> QED
  BY <1>1, Facts, WorkerMoves

\* Taking a job from a deque leaves no more jobs than there were.
LEMMA OneLess ==
  ASSUME IInv, NEW v \in Threads, jobs[v] > 0, jobs' = [jobs EXCEPT ![v] = @ - 1]
  PROVE  jobs' \in [Threads -> 0 .. MaxJobs] /\ \A u \in Threads : jobs'[u] <= pushed
<1>1. jobs \in [Threads -> 0 .. MaxJobs] /\ \A u \in Threads : jobs[u] <= pushed
  BY Facts
<1>2. pushed \in Int /\ jobs[v] \in 0 .. MaxJobs /\ jobs[v] - 1 \in 0 .. MaxJobs
  BY <1>1, Facts
<1> QED
  BY <1>1, <1>2

LEMMA StealInv ==
  ASSUME IInv, NEW t \in Threads, NEW v \in Threads, Steal(t, v) PROVE IInv'
<1>1. /\ pc[t] = "search" /\ t # Main
      /\ UNCHANGED <<waitvars, pushed, num_awake_workers, num_finished_workers,
                     finished_flag>>
  BY DEF Steal, At, IInv, Roles, MainPCs, WakePCs
<1>2. jobs' \in [Threads -> 0 .. MaxJobs] /\ \A u \in Threads : jobs'[u] <= pushed
  BY OneLess DEF Steal
<1>3. CASE WakeUp(t, "job")
  BY <1>1, <1>2, <1>3, Facts, WakeUpInv DEF AwayPCs
<1>4. CASE pc' = [pc EXCEPT ![t] = "job"] /\ UNCHANGED then
  BY <1>1, <1>2, <1>4, Facts, WorkerMoves
<1> QED
  BY <1>3, <1>4 DEF Steal, Go

LEMMA StealFailsInv ==
  ASSUME IInv, NEW t \in Threads, StealFails(t) PROVE IInv'
<1>1. /\ pc[t] = "search" /\ t # Main /\ WakeUp(t, "search")
      /\ UNCHANGED <<waitvars, jobs, pushed, num_awake_workers,
                     num_finished_workers, finished_flag>>
  BY DEF StealFails, At, IInv, Roles, MainPCs, WakePCs
<1> QED
  BY <1>1, Facts, WakeUpInv DEF AwayPCs

---------------------------------------------------------------------------
(* The program                                                             *)

LEMMA WorkingThread ==
  ASSUME IInv, NEW t \in Threads, Working(t)
  PROVE  /\ pc[t] = "main" <=> t = Main
         /\ pc[t] \in IF t = Main THEN {"main", "spam"} ELSE {"search", "job"}
         /\ pc[t] \notin AwayPCs \cup {"exited"}
BY DEF IInv, Roles, Working, Workers, MainPCs, WakePCs, AwayPCs

LEMMA StaysPut ==
  ASSUME IInv, NEW t \in Threads, pc[t] \notin AwayPCs \cup {"exited"},
         UNCHANGED <<waitvars, pc, then, num_awake_workers, num_finished_workers,
                     finished_flag>>,
         jobs' \in [Threads -> 0 .. MaxJobs], pushed' \in 0 .. MaxJobs,
         \A u \in Threads : jobs'[u] <= pushed'
  PROVE  IInv'
<1>1. UNCHANGED <<behind, waiters, outdated, wpc, npc>>
  BY DEF waitvars
<1>2. WaitTypeOK' /\ \A u \in Threads : wpc'[u] # "out" => pc'[u] = "waiting"
  BY <1>1, Facts DEF WaitTypeOK
<1>3. PICK c, d : c = pc[t] /\ d = then[t]
  OBVIOUS
<1>4. pc' = [pc EXCEPT ![t] = c] /\ then' = [then EXCEPT ![t] = d]
  BY <1>3, Facts
<1>5. Sound(t, c, d) /\ finished_flag' \in BOOLEAN
  BY <1>3, Facts
<1>6. /\ pc[t] \in AwayPCs <=> c \in AwayPCs
      /\ pc[t] = "exited" <=> c = "exited"
      /\ UNCHANGED <<num_awake_workers, num_finished_workers>>
  BY <1>3
<1> QED
  BY <1>2, <1>4, <1>5, <1>6, PlainStep

LEMMA SpawnInv ==
  ASSUME IInv, NEW t \in Threads, Spawn(t) PROVE IInv'
<1>1. /\ Working(t) /\ pushed < MaxJobs
      /\ jobs' = [jobs EXCEPT ![t] = @ + 1] /\ pushed' = pushed + 1
      /\ UNCHANGED <<waitvars, num_awake_workers, num_finished_workers, finished_flag>>
  BY DEF Spawn
<1>2. /\ jobs \in [Threads -> 0 .. MaxJobs] /\ pushed \in 0 .. MaxJobs
      /\ \A u \in Threads : jobs[u] <= pushed
  BY Facts
<1>3. jobs[t] + 1 \in 0 .. MaxJobs /\ jobs[t] + 1 <= pushed + 1 /\ pushed' \in 0 .. MaxJobs
  BY <1>1, <1>2
<1>4. jobs' \in [Threads -> 0 .. MaxJobs] /\ \A u \in Threads : jobs'[u] <= pushed'
  <2>1. \A u \in Threads : jobs'[u] = IF u = t THEN jobs[t] + 1 ELSE jobs[u]
    BY <1>1, <1>2
  <2>2. ASSUME NEW u \in Threads PROVE jobs[u] <= pushed + 1
    <3>1. jobs[u] \in 0 .. MaxJobs /\ jobs[u] <= pushed
      BY <1>2
    <3> QED
      BY <1>2, <3>1
  <2> QED
    BY <1>1, <1>2, <1>3, <2>1, <2>2
<1>5. CASE WakeUp(t, pc[t])
  BY <1>1, <1>3, <1>4, <1>5, WorkingThread, WakeUpInv
<1>6. CASE UNCHANGED <<pc, then>>
  BY <1>1, <1>3, <1>4, <1>6, WorkingThread, StaysPut
<1> QED
  BY <1>5, <1>6 DEF Spawn

LEMMA TakeOwnInv ==
  ASSUME IInv, NEW t \in Threads, TakeOwn(t) PROVE IInv'
<1>1. jobs' \in [Threads -> 0 .. MaxJobs] /\ \A u \in Threads : jobs'[u] <= pushed
  BY OneLess DEF TakeOwn
<1>2. pushed' = pushed /\ pushed \in 0 .. MaxJobs
  BY Facts DEF TakeOwn
<1> QED
  BY <1>1, <1>2, WorkingThread, StaysPut DEF TakeOwn

---------------------------------------------------------------------------
(* The destructor                                                          *)

LEMMA MainMoves ==
  ASSUME IInv, NEW c \in {"shutdown", "spam", "joined"}, c = "joined" => Exited = Workers,
         pc[Main] \in {"main", "shutdown", "spam"}, pc' = [pc EXCEPT ![Main] = c],
         UNCHANGED <<waitvars, then, jobs, pushed, num_awake_workers,
                     num_finished_workers>>,
         finished_flag' \in BOOLEAN
  PROVE  IInv'
<1>1. Sound(Main, c, then[Main])
  BY Facts DEF Sound, MainPCs, WakePCs, PCs
<1>2. then' = [then EXCEPT ![Main] = then[Main]]
  BY Facts
<1>3. pc[Main] \notin AwayPCs \cup {"exited"} /\ c \notin AwayPCs \cup {"exited"}
  BY DEF AwayPCs
<1> QED
  BY <1>1, <1>2, <1>3, OnlyMoves

LEMMA SpamWakeInv == IInv /\ SpamWake => IInv'
<1> SUFFICES ASSUME IInv, SpamWake PROVE IInv'
  OBVIOUS
<1>1. /\ pc[Main] = "spam"
      /\ UNCHANGED <<waitvars, jobs, pushed, num_awake_workers,
                     num_finished_workers, finished_flag>>
  BY DEF SpamWake, At
<1>2. CASE num_finished_workers < num_threads - 1
  <2>1. WakeUp(Main, "spam")
    BY <1>2 DEF SpamWake
  <2>2. pc[Main] \notin AwayPCs \cup {"exited"}
    BY <1>1 DEF AwayPCs
  <2> QED
    BY <1>1, <2>1, <2>2, Facts, WakeUpInv
<1>3. CASE ~(num_finished_workers < num_threads - 1)
  <2>1. pc' = [pc EXCEPT ![Main] = "joined"] /\ UNCHANGED then
    BY <1>3 DEF SpamWake, Go
  <2>2. Exited \subseteq Workers
    BY <1>1 DEF Exited, Workers
  <2>3. Cardinality(Exited) >= num_threads - 1
    <3>1. num_finished_workers = Cardinality(Exited)
      BY DEF IInv, Counters
    <3>2. Cardinality(Exited) \in Int /\ num_threads \in Int
      BY Finite DEF Exited
    <3> QED
      BY <1>3, <3>1, <3>2
  <2>4. Exited = Workers
    BY <2>2, <2>3, WorkersCount
  <2>5. finished_flag' \in BOOLEAN
    BY <1>1, Facts
  <2> QED
    BY <1>1, <2>1, <2>4, <2>5, MainMoves
<1> QED
  BY <1>2, <1>3

LEMMA ShutdownInv == IInv /\ (Destroy \/ SetFinished) => IInv'
<1> SUFFICES ASSUME IInv, Destroy \/ SetFinished PROVE IInv'
  OBVIOUS
<1>1. CASE Destroy
  BY <1>1, Facts, MainMoves DEF Destroy, At, Go
<1>2. CASE SetFinished
  BY <1>2, MainMoves DEF SetFinished, At, Go
<1> QED
  BY <1>1, <1>2

---------------------------------------------------------------------------
LEMMA StutterInv == IInv /\ UNCHANGED vars => IInv'
<1> SUFFICES ASSUME IInv, UNCHANGED vars PROVE IInv'
  OBVIOUS
<1>1. UNCHANGED <<behind, waiters, outdated, wpc, npc, pc, then, jobs, pushed,
                  num_awake_workers, num_finished_workers, finished_flag>>
  BY DEF vars, waitvars
<1> QED
  BY <1>1 DEF IInv, TypeOK, WaitTypeOK, Roles, WaitsForWork, Counters, JoinsAll,
              Away, Exited, At

LEMMA StepInv == ASSUME IInv, NEW t \in Threads, Step(t) PROVE IInv'
<1>1. CASE CheckAwake(t) \/ AddCounter(t) \/ Notify(t)
  BY <1>1, CheckAwakeInv, AddCounterInv, NotifyInv
<1>2. CASE SubAwake(t) \/ EnterWait(t) \/ Waiting(t) \/ AddAwake(t)
  BY <1>2, SubAwakeInv, EnterWaitInv, WaitingInv, AddAwakeInv
<1>3. CASE Loop(t) \/ GiveUp(t) \/ NoJob(t) \/ JobDone(t)
  BY <1>3, ExitInv, SearchInv
<1>4. CASE (\E v \in Threads : Steal(t, v)) \/ StealFails(t)
  BY <1>4, StealInv, StealFailsInv
<1>5. CASE Spawn(t) \/ TakeOwn(t)
  BY <1>5, SpawnInv, TakeOwnInv
<1>6. CASE t = Main /\ (Destroy \/ SetFinished \/ SpamWake)
  BY <1>6, ShutdownInv, SpamWakeInv
<1> QED
  BY <1>1, <1>2, <1>3, <1>4, <1>5, <1>6 DEF Step

\* What the threads may be doing and what the counters count holds throughout.
THEOREM Invariance == Spec => []IInv
<1>1. IInv /\ [Next]_vars => IInv'
  BY StepInv, StutterInv DEF Next
<1> QED
  BY <1>1, InitIInv, PTL DEF Spec

\* wake_up_a_worker skips the notification only if num_awake_workers says that
\* nobody sleeps, and then nobody does: for any number of workers, and however
\* sleeps, timeouts, notifications and the shutdown overlap.  Both counters
\* stay within the number of threads.
THEOREM NoSleeperMissed == Spec => []SleepersCounted
<1>1. IInv => SleepersCounted
  <2> SUFFICES ASSUME IInv PROVE SleepersCounted
    OBVIOUS
  <2>1. ASSUME NEW t \in Threads, Asleep(t) PROVE num_awake_workers < num_threads
    <3>1. t \in Away
      BY <2>1, Facts DEF Asleep, Away, AwayPCs
    <3>2. Cardinality(Away) \in Nat /\ Cardinality(Away) # 0 /\ num_threads \in Nat
      BY <3>1, Finite, FS_EmptySet DEF Away
    <3> QED
      BY <3>2 DEF IInv, Counters
  <2> QED
    BY <2>1 DEF SleepersCounted, IInv
<1> QED
  BY <1>1, Invariance, PTL

\* The destructor of the scheduler goes on to destroy the deques only after
\* every worker has left its loop, whatever shutdown woke in between.
THEOREM DestructorWaits == Spec => []JoinsAll
<1>1. IInv => JoinsAll
  BY DEF IInv
<1> QED
  BY <1>1, Invariance, PTL
============================================================================
