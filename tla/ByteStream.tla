----------------------------- MODULE ByteStream -----------------------------
(***************************************************************************)
(* What an asynchronous writer promises: the bytes that left are the first *)
(* of the bytes that were accepted, in order and each once. A byte is its  *)
(* number in the order of acceptance.                                      *)
(***************************************************************************)
EXTENDS Naturals, Sequences

VARIABLES
  accepted,  \* how many bytes Write has accepted
  wire       \* the bytes that left

Counting(n) == [i \in 1..n |-> i]

Init == accepted = 0 /\ wire = <<>>

Accept ==
  /\ accepted' \in Nat
  /\ accepted' > accepted
  /\ UNCHANGED wire

Leave ==
  /\ \E n \in (Len(wire) + 1)..accepted : wire' = Counting(n)
  /\ UNCHANGED accepted

Next == Accept \/ Leave

Spec == Init /\ [][Next]_<<accepted, wire>>
=============================================================================
