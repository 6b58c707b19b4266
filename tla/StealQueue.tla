----------------------------- MODULE StealQueue -----------------------------
(***************************************************************************)
(* What the work-stealing deque promises the scheduler: its operations are *)
(* atomic on a sequence of jobs.  push_bottom and pop_bottom work at the   *)
(* right end, pop_top at the left.  Two liberties are granted, because the *)
(* scheduler can live with them: pop_top may fail although jobs are there  *)
(* (it lost a race), and the flags that steer wake-ups are hints.  None is *)
(* granted to pop_bottom: it returns nullptr only from an empty queue.     *)
(***************************************************************************)
EXTENDS Integers, Sequences, SequencesExt

CONSTANTS Thieves, Owner, MaxPush

VARIABLES
  queue,      \* jobs not yet taken, oldest first
  published,  \* how many jobs were pushed; a job is the ordinal of its push
  result      \* what each thread's last call returned

qvars == <<queue, published, result>>

NoJob == 0
Answer(p, k, j, f) ==
  result' = [result EXCEPT ![p] = [kind |-> k, job |-> j, flag |-> f]]

Start ==
  /\ queue = <<>>
  /\ published = 0
  /\ result = [p \in Thieves \cup {Owner} |->
                 [kind |-> "busy", job |-> NoJob, flag |-> FALSE]]

\* A thread enters a call.
Call(p) ==
  /\ Answer(p, "busy", NoJob, FALSE)
  /\ UNCHANGED <<queue, published>>

\* push_bottom says TRUE only if the queue was empty.
Push ==
  /\ published < MaxPush
  /\ published' = published + 1
  /\ queue' = Append(queue, published')
  /\ \E f \in BOOLEAN : (f => queue = <<>>) /\ Answer(Owner, "push", NoJob, f)

\* pop_bottom takes the youngest job ...
PopBottom ==
  /\ queue # <<>>
  /\ Answer(Owner, "pop", Last(queue), FALSE)
  /\ queue' = Front(queue)
  /\ UNCHANGED published

\* ... or finds none.
PopNothing ==
  /\ queue = <<>>
  /\ Answer(Owner, "pop", NoJob, FALSE)
  /\ UNCHANGED <<queue, published>>

\* pop_top takes the oldest job ...
PopTop(t) ==
  /\ queue # <<>>
  /\ \E f \in BOOLEAN : Answer(t, "pop", Head(queue), f)
  /\ queue' = Tail(queue)
  /\ UNCHANGED published

\* ... or gives up.
PopTopFails(t) ==
  /\ \E f \in BOOLEAN : Answer(t, "pop", NoJob, f)
  /\ UNCHANGED <<queue, published>>

Do == \/ \E p \in Thieves \cup {Owner} : Call(p)
      \/ Push \/ PopBottom \/ PopNothing
      \/ \E t \in Thieves : PopTop(t) \/ PopTopFails(t)

Spec == Start /\ [][Do]_qvars
=============================================================================
