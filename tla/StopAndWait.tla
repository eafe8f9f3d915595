---------------------------- MODULE StopAndWait -----------------------------
(***************************************************************************)
(* What a serial controller promises: directives are asked of the link one *)
(* at a time, oldest first, and one is taken off the queue only after its  *)
(* own answer was heard. An exchange may fail; then nothing is taken off.  *)
(***************************************************************************)
EXTENDS Sequences

CONSTANTS Item, Bad

VARIABLES
  queue,    \* directives not yet answered, oldest first
  out,      \* the exchange on the link, if there is one
  answered  \* the front of the queue was answered and is still there

Init == queue = <<>> /\ out = <<>> /\ answered = FALSE

Enqueue == \E x \in Item : queue' = Append(queue, x) /\ UNCHANGED <<out, answered>>

Ask ==
  /\ queue # <<>>
  /\ out = <<>>
  /\ ~answered
  /\ out' = <<Head(queue)>>
  /\ UNCHANGED <<queue, answered>>

Answer ==
  /\ queue # <<>>
  /\ out = <<Head(queue)>>
  /\ out' = <<>>
  /\ answered' = TRUE
  /\ UNCHANGED queue

\* The exchange is damaged or lost, or nobody waits for its answer any more.
Fail ==
  /\ out # <<>> \/ answered
  /\ out' = <<>> \/ (out # <<>> /\ out' = <<Bad>>)
  /\ answered' = FALSE
  /\ UNCHANGED queue

Remove ==
  /\ answered
  /\ queue # <<>>
  /\ queue' = Tail(queue)
  /\ answered' = FALSE
  /\ UNCHANGED out

Next == Enqueue \/ Ask \/ Answer \/ Fail \/ Remove

Spec == Init /\ [][Next]_<<queue, out, answered>>
=============================================================================
