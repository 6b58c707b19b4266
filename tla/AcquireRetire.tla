---------------------------- MODULE AcquireRetire ----------------------------
(***************************************************************************)
(* Hazard pointers (concurrency/acquire_retire.h).  acquire reads a shared *)
(* pointer and announces what it read until the pointer is found unchanged *)
(* after the announcement; release withdraws it; retire puts an unlinked   *)
(* node aside, and now and then everything put aside by the thread that    *)
(* nobody announces is handed to the deleter.                              *)
(*                                                                         *)
(* in_progress stops a deleter from starting another round inside this     *)
(* one; deleting a stack node retires nothing, so there is no such round.  *)
(***************************************************************************)
EXTENDS Naturals, FiniteSets

CONSTANTS
  num_threads,
  Cells,      \* the addresses a node may have
  Threshold   \* of amortized_work, max(30, num_threads) in the code

ASSUME ThreadsAssumption   == num_threads \in Nat \ {0}
ASSUME ThresholdAssumption == Threshold \in Nat \ {0}

Threads == 0 .. num_threads - 1
nullptr == "nullptr"
Pointers == Cells \cup {nullptr}

\* Memory is finite.
ASSUME CellsAssumption == nullptr \notin Cells /\ IsFiniteSet(Cells)

VARIABLES
  announcements,   \* what each thread announces
  retired,         \* what each thread has put aside
  amortized_work,
  apc,             \* where each thread is in acquire or work_toward_ejects
  result,          \* what its acquire has read
  slot,            \* the next announcement its scan reads
  announced,       \* those its scan has found
  deferred         \* what it is trying to eject

hazvars == <<announcements, retired, amortized_work, apc, result, slot,
             announced, deferred>>
scanvars == <<slot, announced, deferred>>

HazInit ==
  /\ announcements = [t \in Threads |-> nullptr]
  /\ retired = [t \in Threads |-> {}]
  /\ amortized_work = [t \in Threads |-> 0]
  /\ apc = [t \in Threads |-> "out"]
  /\ result = [t \in Threads |-> nullptr]
  /\ slot = [t \in Threads |-> 0]
  /\ announced = [t \in Threads |-> {}] /\ deferred = [t \in Threads |-> {}]

HazAt(t, c) == apc[t] = c
HazGo(t, c) == apc' = [apc EXCEPT ![t] = c]

---------------------------------------------------------------------------
(* acquire(p)                                                              *)

Acquire(t) ==
  /\ HazGo(t, "load")
  /\ UNCHANGED <<announcements, retired, amortized_work, result, scanvars>>

LoadPointer(t, p) ==
  /\ HazAt(t, "load")
  /\ result' = [result EXCEPT ![t] = p]
  /\ HazGo(t, "announce")
  /\ UNCHANGED <<announcements, retired, amortized_work, scanvars>>

Announce(t) ==
  /\ HazAt(t, "announce")
  /\ announcements' = [announcements EXCEPT ![t] = result[t]]
  /\ HazGo(t, "validate")
  /\ UNCHANGED <<retired, amortized_work, result, scanvars>>

\* Mutant: the pointer is not read again.
ValidateNothing(t, p) ==
  /\ HazAt(t, "validate")
  /\ HazGo(t, "out")
  /\ UNCHANGED <<announcements, retired, amortized_work, result, scanvars>>

\* while (p.load() != result)
Validate(t, p) ==
  /\ HazAt(t, "validate")
  /\ HazGo(t, IF p = result[t] THEN "out" ELSE "load")
  /\ UNCHANGED <<announcements, retired, amortized_work, result, scanvars>>

\* The caller's copy goes with it.
release(t) ==
  /\ announcements' = [announcements EXCEPT ![t] = nullptr]
  /\ result' = [result EXCEPT ![t] = nullptr]
  /\ UNCHANGED <<retired, amortized_work, apc, scanvars>>

---------------------------------------------------------------------------
(* retire(x) and work_toward_ejects                                        *)

retire(t, x) ==
  LET work == amortized_work[t] + 1 IN
  /\ IF work >= Threshold
     THEN /\ amortized_work' = [amortized_work EXCEPT ![t] = 0]
          /\ deferred' = [deferred EXCEPT ![t] = retired[t] \cup {x}]
          /\ retired' = [retired EXCEPT ![t] = {}]
          /\ HazGo(t, "scan")
     ELSE /\ amortized_work' = [amortized_work EXCEPT ![t] = work]
          /\ retired' = [retired EXCEPT ![t] = @ \cup {x}]
          /\ UNCHANGED <<apc, deferred>>
  /\ UNCHANGED <<announcements, result, slot, announced>>

\* scan_slots reads one announcement after the other.
ScanSlot(t) ==
  /\ HazAt(t, "scan") /\ slot[t] < num_threads
  /\ announced' = [announced EXCEPT ![t] = @ \cup ({announcements[slot[t]]} \ {nullptr})]
  /\ slot' = [slot EXCEPT ![t] = @ + 1]
  /\ UNCHANGED <<announcements, retired, amortized_work, apc, result, deferred>>

\* What is handed to the deleter; the rest is put aside again.
Ejected(t) == deferred[t] \ announced[t]

\* Mutant: what is announced is forgotten, not put aside again.
EjectForgets(t) ==
  /\ HazAt(t, "scan") /\ slot[t] = num_threads
  /\ deferred' = [deferred EXCEPT ![t] = {}]
  /\ announced' = [announced EXCEPT ![t] = {}]
  /\ slot' = [slot EXCEPT ![t] = 0]
  /\ HazGo(t, "out")
  /\ UNCHANGED <<announcements, retired, amortized_work, result>>

Eject(t) ==
  /\ HazAt(t, "scan") /\ slot[t] = num_threads
  /\ retired' = [retired EXCEPT ![t] = @ \cup (deferred[t] \cap announced[t])]
  /\ deferred' = [deferred EXCEPT ![t] = {}]
  /\ announced' = [announced EXCEPT ![t] = {}]
  /\ slot' = [slot EXCEPT ![t] = 0]
  /\ HazGo(t, "out")
  /\ UNCHANGED <<announcements, amortized_work, result>>

PutAside(t) == retired[t] \cup deferred[t]

---------------------------------------------------------------------------
HazTypeOK ==
  /\ announcements \in [Threads -> Pointers] /\ result \in [Threads -> Pointers]
  /\ retired \in [Threads -> SUBSET Cells] /\ deferred \in [Threads -> SUBSET Cells]
  /\ announced \in [Threads -> SUBSET Cells]
  /\ amortized_work \in [Threads -> 0 .. Threshold - 1]
  /\ apc \in [Threads -> {"out", "load", "announce", "validate", "scan"}]
  /\ slot \in [Threads -> 0 .. num_threads]
=============================================================================
