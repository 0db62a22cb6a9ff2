----------------------------- MODULE WorkQueue -----------------------------
(***************************************************************************)
(* What prodcon's shared queue promises, without threads' program counters,*)
(* mutex, condition variables or counters: tasks are submitted in input    *)
(* order to a bounded queue, each is taken once, by one worker, in that    *)
(* order, and finished by the worker that took it.                         *)
(***************************************************************************)
EXTENDS Naturals, Sequences

CONSTANTS Workers, Capacity, None

VARIABLES
  submitted,   \* how many tasks have been submitted: they are 1 .. submitted
  pending,     \* the queue
  holding,     \* the task each worker holds, or None
  complete     \* the tasks that are finished

vars == <<submitted, pending, holding, complete>>

Init ==
  /\ submitted = 0
  /\ pending = <<>>
  /\ holding = [w \in Workers |-> None]
  /\ complete = {}

Submit ==
  /\ Len(pending) < Capacity
  /\ submitted' = submitted + 1
  /\ pending' = Append(pending, submitted + 1)
  /\ UNCHANGED <<holding, complete>>

Take(w) ==
  /\ holding[w] = None
  /\ pending # <<>>
  /\ holding' = [holding EXCEPT ![w] = Head(pending)]
  /\ pending' = Tail(pending)
  /\ UNCHANGED <<submitted, complete>>

Finish(w) ==
  /\ holding[w] # None
  /\ complete' = complete \cup {holding[w]}
  /\ holding' = [holding EXCEPT ![w] = None]
  /\ UNCHANGED <<submitted, pending>>

Next == Submit \/ \E w \in Workers : Take(w) \/ Finish(w)

Spec == Init /\ [][Next]_vars
=============================================================================
