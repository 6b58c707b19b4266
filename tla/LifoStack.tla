------------------------------ MODULE LifoStack ------------------------------
(***************************************************************************)
(* What the hazard-pointer stack promises the block allocator: "a minimal, *)
(* low-level, linearizable, lock-free concurrent stack".  Every operation  *)
(* takes effect at one moment within its call, and its caller uses the     *)
(* answer later.                                                           *)
(***************************************************************************)
EXTENDS Sequences, Naturals

CONSTANTS Threads, Values

VARIABLES
  stack,   \* the values, the top first
  answer   \* what each thread's call has to return, NoAnswer outside

NoAnswer  == <<>>
Popped(v) == <<"popped", v>>
Size(n)   == <<"size", n>>
PoppedNothing == <<"empty">>

Start == stack = <<>> /\ answer = [t \in Threads |-> NoAnswer]

Push(v) == stack' = <<v>> \o stack /\ UNCHANGED answer

Decide(t, a) == answer[t] = NoAnswer /\ answer' = [answer EXCEPT ![t] = a]

Pop(t) ==
  /\ stack # <<>>
  /\ Decide(t, Popped(Head(stack)))
  /\ stack' = Tail(stack)

PopEmpty(t) == stack = <<>> /\ Decide(t, PoppedNothing) /\ UNCHANGED stack

Measure(t) == Decide(t, Size(Len(stack))) /\ UNCHANGED stack

Return(t) ==
  /\ answer[t] # NoAnswer
  /\ answer' = [answer EXCEPT ![t] = NoAnswer]
  /\ UNCHANGED stack

\* The destructor.
Destroy == stack' = <<>> /\ UNCHANGED answer

Next == \/ \E v \in Values : Push(v)
        \/ \E t \in Threads : Pop(t) \/ PopEmpty(t) \/ Measure(t) \/ Return(t)
        \/ Destroy

Spec == Start /\ [][Next]_<<stack, answer>>
=============================================================================
