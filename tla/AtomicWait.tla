----------------------------- MODULE AtomicWait -----------------------------
(***************************************************************************)
(* atomic_wait and atomic_notify on one atomic word, as the build the      *)
(* Makefile asks for (C++17, Linux) takes them from atomic_wait.h: a futex *)
(* on the version of an entry in the contention table.  The word is a      *)
(* size_t, so it is not waited on directly, and notify_one is notify_all.  *)
(*                                                                         *)
(* A waiter only ever compares the word and the version with what it read  *)
(* before.  Both only grow, so the values themselves are left out: behind  *)
(* and outdated hold the threads whose copy is no longer the current one.  *)
(* (The version is an int and wraps after 2^32 notifications: "rare        *)
(* aliasing" that needs a waiter to stand still that long.)                *)
(***************************************************************************)
EXTENDS Naturals

CONSTANT Threads

VARIABLES
  behind,    \* the threads whose copy of the word is an old one
  waiters,   \* the table entry's flag: somebody may be asleep
  outdated,  \* the threads whose copy of the version is an old one
  wpc,       \* where each thread is in atomic_wait
  npc        \* where each thread is in atomic_notify

waitvars == <<behind, waiters, outdated, wpc, npc>>

WaitPCs   == {"out", "load", "arm", "version", "recheck", "futex", "asleep"}
NotifyPCs == {"out", "version", "exchange", "wake"}

WaitInit ==
  /\ behind = {} /\ outdated = {} /\ waiters = 0
  /\ wpc = [t \in Threads |-> "out"] /\ npc = [t \in Threads |-> "out"]

WaitAt(t, c)   == wpc[t] = c
WaitGo(t, c)   == wpc' = [wpc EXCEPT ![t] = c]
NotifyGo(t, c) == npc' = [npc EXCEPT ![t] = c]
Asleep(t)      == wpc[t] = "asleep"

---------------------------------------------------------------------------
(* atomic_wait(word, val)                                                  *)

\* The call, with the word's present value for val.
Wait(t) ==
  /\ WaitGo(t, "load")
  /\ behind' = behind \ {t}
  /\ UNCHANGED <<waiters, outdated, npc>>

\* __cxx_atomic_wait: spin a while, then the loop; it ends once the word is
\* not val.
LoadWord(t) ==
  /\ WaitAt(t, "load")
  /\ WaitGo(t, IF t \in behind THEN "out" ELSE "arm")
  /\ UNCHANGED <<behind, waiters, outdated, npc>>

\* __cxx_atomic_try_wait_slow
ArmWaiters(t) ==
  /\ WaitAt(t, "arm")
  /\ waiters' = 1
  /\ WaitGo(t, "version")
  /\ UNCHANGED <<behind, outdated, npc>>

LoadVersion(t) ==
  /\ WaitAt(t, "version")
  /\ outdated' = outdated \ {t}
  /\ WaitGo(t, "recheck")
  /\ UNCHANGED <<behind, waiters, npc>>

Recheck(t) ==
  /\ WaitAt(t, "recheck")
  /\ WaitGo(t, IF t \in behind THEN "load" ELSE "futex")
  /\ UNCHANGED <<behind, waiters, outdated, npc>>

\* FUTEX_WAIT: the kernel compares the version and puts the thread to sleep in
\* one step.
FutexWait(t) ==
  /\ WaitAt(t, "futex")
  /\ WaitGo(t, IF t \in outdated THEN "load" ELSE "asleep")
  /\ UNCHANGED <<behind, waiters, outdated, npc>>

\* The timeout of two seconds.
TimeOut(t) ==
  /\ Asleep(t)
  /\ WaitGo(t, "load")
  /\ UNCHANGED <<behind, waiters, outdated, npc>>

WaitStep(t) == \/ LoadWord(t) \/ ArmWaiters(t) \/ LoadVersion(t)
               \/ Recheck(t) \/ FutexWait(t) \/ TimeOut(t)

---------------------------------------------------------------------------
(* The word is increased, then atomic_notify_one or atomic_notify_all      *)

FetchAdd(t) ==
  /\ behind' = Threads
  /\ NotifyGo(t, "version")
  /\ UNCHANGED <<waiters, outdated, wpc>>

AddVersion(t) ==
  /\ npc[t] = "version"
  /\ outdated' = Threads
  /\ NotifyGo(t, "exchange")
  /\ UNCHANGED <<behind, waiters, wpc>>

ExchangeWaiters(t) ==
  /\ npc[t] = "exchange"
  /\ waiters' = 0
  /\ NotifyGo(t, IF waiters # 0 THEN "wake" ELSE "out")
  /\ UNCHANGED <<behind, outdated, wpc>>

\* FUTEX_WAKE for everyone.
FutexWake(t) ==
  /\ npc[t] = "wake"
  /\ wpc' = [u \in Threads |-> IF Asleep(u) THEN "load" ELSE wpc[u]]
  /\ NotifyGo(t, "out")
  /\ UNCHANGED <<behind, waiters, outdated>>

NotifyStep(t) == AddVersion(t) \/ ExchangeWaiters(t) \/ FutexWake(t)

---------------------------------------------------------------------------
WaitTypeOK ==
  /\ behind \subseteq Threads /\ outdated \subseteq Threads /\ waiters \in {0, 1}
  /\ wpc \in [Threads -> WaitPCs] /\ npc \in [Threads -> NotifyPCs]
=============================================================================
