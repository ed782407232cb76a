------------------------------ MODULE FifoQueue ------------------------------
(***************************************************************************)
(* What an MPSCQueue promises to its users, and the form in which the      *)
(* other modules use one: a first-in first-out queue whose enqueue has two *)
(* steps.  An enqueue first reserves its place in the order and only later *)
(* publishes its element; the consumer takes the oldest element, and only  *)
(* when it is published, so a slow producer hides the completed enqueues   *)
(* that were ordered after its own.  Every element is enqueued once.       *)
(***************************************************************************)
EXTENDS Sequences

CONSTANT Values   \* what may be enqueued

VARIABLES
  queue,     \* the elements enqueued and not yet dequeued, oldest first
  pending    \* the elements whose enqueue has not returned

vars == <<queue, pending>>

\* The consumer's test: the oldest element is there and published.
Visible == queue # <<>> /\ Head(queue) \notin pending

Init ==
  /\ queue = <<>>
  /\ pending = {}

Reserve(v) ==
  /\ queue' = Append(queue, v)
  /\ pending' = pending \cup {v}

Publish(v) ==
  /\ v \in pending
  /\ pending' = pending \ {v}
  /\ UNCHANGED queue

\* An enqueue whose intermediate state no other thread can act on.
Enqueue(v) ==
  /\ queue' = Append(queue, v)
  /\ UNCHANGED pending

Take ==
  /\ Visible
  /\ queue' = Tail(queue)
  /\ UNCHANGED pending

Next ==
  \/ \E v \in Values : Reserve(v) \/ Publish(v) \/ Enqueue(v)
  \/ Take

Spec == Init /\ [][Next]_vars
==============================================================================
