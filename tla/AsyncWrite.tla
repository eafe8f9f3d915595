----------------------------- MODULE AsyncWrite -----------------------------
(***************************************************************************)
(* Sending through a ring buffer and async_write_some, as SerialComm and a *)
(* buffered TCPClient do it. The two differ in handle_write: TCPClient     *)
(* holds mtxsnd_ throughout, SerialComm releases it between erasing what   *)
(* was written and starting the next write.                                *)
(*                                                                         *)
(* A byte is its number in the order of acceptance. The ring is pushed at  *)
(* the end and erased at the front, so it holds erased+1 .. accepted.      *)
(*                                                                         *)
(* X_Variant, just before X, is X with a plausible slip; no specification   *)
(* uses it. It tells whether the properties below notice the slip.         *)
(***************************************************************************)
EXTENDS Naturals, Sequences

CONSTANTS
  Port,      \* the kinds of port of this instance, of the three below
  Capacity,  \* capacity of crcsnd_
  MaxBytes   \* bound on the bytes accepted

\* "tcp" is a TCPClient that called UseBuffer. "polled" is a SerialComm written to
\* as thread_cycle and thread_respond do it: with no write going on, since they
\* wait for the answer to the previous message.
Kind == {"tcp", "serial", "polled"}

ASSUME ConstantsAssumption ==
  /\ Port \subseteq Kind
  /\ Capacity \in Nat \ {0}
  /\ MaxBytes \in Nat

VARIABLES
  port,      \* the kind of this port; it never changes
  open,      \* the port is open
  accepted,  \* how many bytes Write has accepted
  erased,    \* how many of them have left the ring
  ops,       \* the outstanding async_write_some, each with the bytes it was given
  done,      \* completions to be handled: bytes transferred, 0 for an error
  hw,        \* where handle_write is
  wire,      \* the bytes that left
  failed,    \* an async_write_some has ended with an error
  overrun    \* erase_begin was asked for more than the ring holds

vars == <<port, open, accepted, erased, ops, done, hw, wire, failed,
          overrun>>

InRing == accepted - erased
Quiet == ops = <<>> /\ done = <<>> /\ hw = "idle"

Init ==
  /\ port \in Port
  /\ open = TRUE
  /\ accepted = 0
  /\ erased = 0
  /\ ops = <<>>
  /\ done = <<>>
  /\ hw = "idle"
  /\ wire = <<>>
  /\ failed = FALSE
  /\ overrun = FALSE

-----------------------------------------------------------------------------
\* start_write with lo and hi in place of erased and accepted: everything that
\* is in the ring is handed over.
start_write(lo, hi) ==
  ops' = IF lo = hi THEN ops ELSE Append(ops, [from |-> lo, to |-> hi])

Fits_NoLimit(len) == len
Fits(len) == IF len <= Capacity - InRing THEN len ELSE Capacity - InRing

StartsWrite_Always == TRUE
StartsWrite == InRing = 0

\* SerialComm refuses when the port is closed; TCPClient does not look.
Write(len) ==
  /\ ~overrun
  /\ port # "tcp" => open
  /\ port = "polled" => Quiet
  /\ accepted + len <= MaxBytes
  /\ Fits(len) > 0
  /\ accepted' = accepted + Fits(len)
  /\ \/ StartsWrite /\ start_write(erased, accepted')
     \/ ~StartsWrite /\ UNCHANGED ops
  /\ UNCHANGED <<port, open, erased, done, hw, wire, failed, overrun>>

Close ==
  /\ ~overrun
  /\ open
  /\ open' = FALSE
  /\ UNCHANGED <<port, accepted, erased, ops, done, hw, wire, failed, overrun>>

-----------------------------------------------------------------------------
(* The operating system completes the oldest write *)

Transfer(n) ==
  /\ ~overrun
  /\ open
  /\ ops # <<>>
  /\ n <= Head(ops).to - Head(ops).from
  /\ wire' = wire \o [i \in 1..n |-> Head(ops).from + i]
  /\ ops' = Tail(ops)
  /\ done' = Append(done, n)
  /\ UNCHANGED <<port, open, accepted, erased, hw, failed, overrun>>

Fail ==
  /\ ~overrun
  /\ ops # <<>>
  /\ ops' = Tail(ops)
  /\ done' = Append(done, 0)
  /\ failed' = TRUE
  /\ UNCHANGED <<port, open, accepted, erased, hw, wire, overrun>>

-----------------------------------------------------------------------------
(* handle_write, on the I/O thread *)

erase_begin_All == erased' = accepted /\ UNCHANGED overrun
erase_begin ==
  \/ Head(done) <= InRing /\ erased' = erased + Head(done) /\ UNCHANGED overrun
  \/ Head(done) > InRing /\ overrun' = TRUE /\ UNCHANGED erased

\* The error is kept and reported; nothing is erased or started.
HandleError ==
  /\ ~overrun
  /\ hw = "idle"
  /\ done # <<>>
  /\ Head(done) = 0
  /\ done' = Tail(done)
  /\ UNCHANGED <<port, open, accepted, erased, ops, hw, wire, failed, overrun>>

HandleWriteTcp ==
  /\ ~overrun
  /\ port = "tcp"
  /\ done # <<>>
  /\ Head(done) > 0
  /\ erase_begin
  /\ start_write(erased', accepted)
  /\ done' = Tail(done)
  /\ UNCHANGED <<port, open, accepted, hw, wire, failed>>

HandleWriteSerial ==
  /\ ~overrun
  /\ port # "tcp"
  /\ hw = "idle"
  /\ done # <<>>
  /\ Head(done) > 0
  /\ erase_begin
  /\ done' = Tail(done)
  /\ hw' = "erased"
  /\ UNCHANGED <<port, open, accepted, ops, wire, failed>>

RestartSerial_Never == UNCHANGED ops
RestartSerial == start_write(erased, accepted)

\* After the callback, with the mutex released.
HandleWriteEnds ==
  /\ ~overrun
  /\ hw = "erased"
  /\ RestartSerial
  /\ hw' = "idle"
  /\ UNCHANGED <<port, open, accepted, erased, done, wire, failed, overrun>>

-----------------------------------------------------------------------------
System ==
  \/ \E n \in 1..MaxBytes : Transfer(n)
  \/ HandleError \/ HandleWriteTcp \/ HandleWriteSerial \/ HandleWriteEnds

Next == System \/ Close \/ Fail \/ \E len \in 1..MaxBytes : Write(len)

Spec == Init /\ [][Next]_vars

\* The operating system and the I/O thread go on.
FairSpec == Spec /\ WF_vars(System)

-----------------------------------------------------------------------------
(* Properties *)

TypeOK ==
  /\ port \in Port
  /\ open \in BOOLEAN
  /\ accepted \in 0..MaxBytes
  /\ erased \in 0..accepted
  /\ InRing <= Capacity
  /\ ops \in Seq([from : Nat, to : Nat])
  /\ done \in Seq(Nat)
  /\ hw \in {"idle", "erased"}
  /\ wire \in Seq(Nat)
  /\ failed \in BOOLEAN
  /\ overrun \in BOOLEAN

(* handle_write never erases more than the ring holds.                     *)
NoOverrun == overrun = FALSE

(* The bytes that left are the first of those Write accepted, in order and *)
(* each once, however much every async_write_some takes.                   *)
Stream == INSTANCE ByteStream WITH accepted <- accepted, wire <- wire
InOrderOnce == Stream!Spec

(* The same, of a state.                                                   *)
WireInOrder == wire = [i \in 1..Len(wire) |-> i]

(* What was accepted leaves, whoever starts the writes and however little  *)
(* each of them takes, unless the port was closed or a write failed.       *)
EveryByteLeaves ==
  \A b \in 1..MaxBytes : (accepted >= b) ~> (Len(wire) >= b \/ ~open \/ failed)

-----------------------------------------------------------------------------
(* One write at a time, and where it stands: its bytes are next on the wire *)
(* and first in the ring.                                                  *)
OneWriteInv ==
  /\ Len(wire) <= accepted
  /\ WireInOrder
  /\ NoOverrun
  /\ port = "tcp" => hw = "idle"
  /\ ops # <<>> => /\ Len(ops) = 1
                   /\ done = <<>>
                   /\ hw = "idle"
                   /\ Head(ops).from = erased
                   /\ Head(ops).to \in (erased + 1)..accepted
  /\ done # <<>> => /\ Len(done) = 1
                    /\ hw = "idle"
                    /\ erased < accepted
  /\ Len(wire) = erased + (IF done = <<>> THEN 0 ELSE Head(done))
=============================================================================
