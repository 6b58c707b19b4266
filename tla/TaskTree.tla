------------------------------ MODULE TaskTree ------------------------------
(***************************************************************************)
(* What fork-join promises its caller.  A task that forks calls its two    *)
(* children; every task runs once, within the call that forked it, and a   *)
(* call returns when both its children have.  Who runs what is not said.   *)
(***************************************************************************)
CONSTANTS
  Tasks, Root,
  Forks,        \* the tasks that call pardo
  Left, Right   \* their two thunks

VARIABLE status  \* of each task: "new", "running" or "returned"

Children(t) == IF t \in Forks THEN {Left[t], Right[t]} ELSE {}

Start == status = [t \in Tasks |-> IF t = Root THEN "running" ELSE "new"]

Begin(t) ==
  /\ status[t] = "new"
  /\ \E p \in Forks : t \in Children(p) /\ status[p] = "running"
  /\ status' = [status EXCEPT ![t] = "running"]

Return(t) ==
  /\ status[t] = "running"
  /\ \A c \in Children(t) : status[c] = "returned"
  /\ status' = [status EXCEPT ![t] = "returned"]

\* A call of pardo may learn of its right thunk's end and return at once.
Spec == Start /\ [][\E t \in Tasks : Begin(t) \/ Return(t)]_status
=============================================================================
