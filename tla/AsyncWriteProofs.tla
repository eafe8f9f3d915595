-------------------------- MODULE AsyncWriteProofs --------------------------
(***************************************************************************)
(* Proofs about AsyncWrite: the type invariant, and that a TCPClient, or a *)
(* SerialComm written to only when it is idle, implements ByteStream.      *)
(***************************************************************************)
EXTENDS AsyncWrite, SequenceTheorems, TLAPS

LEMMA CountLen ==
  ASSUME NEW f, NEW n \in Nat, NEW S,
         f \in [1..n -> S]
  PROVE  f \in Seq(S) /\ Len(f) = n
<1>1. f \in Seq(S)
  OBVIOUS
<1>2. QED
  BY <1>1, LenProperties

LEMMA TailOfOne ==
  ASSUME NEW S, NEW s \in Seq(S), Len(s) = 1
  PROVE  Tail(s) = <<>>
<1>1. s # <<>>
  BY EmptySeq
<1>2. Tail(s) \in Seq(S) /\ Len(Tail(s)) = 0
  BY <1>1, HeadTailProperties
<1>3. QED
  BY <1>2, EmptySeq

LEMMA EraseFits ==
  ASSUME NEW a \in Nat, NEW e \in Nat, NEW f \in Nat, NEW c \in Nat,
         a - e <= c, f >= e
  PROVE  a - f <= c
OBVIOUS

LEMMA CountMore ==
  ASSUME NEW m \in Nat, NEW n \in Nat
  PROVE  [i \in 1..m |-> i] \o [i \in 1..n |-> m + i] = [i \in 1..(m + n) |-> i]
<1> DEFINE a == [i \in 1..m |-> i]
           b == [i \in 1..n |-> m + i]
           c == [i \in 1..(m + n) |-> i]
<1>1. a \in Seq(Nat) /\ Len(a) = m
  BY CountLen
<1>2. b \in Seq(Nat) /\ Len(b) = n
  BY CountLen
<1>3. c \in Seq(Nat) /\ Len(c) = m + n
  BY CountLen
<1> HIDE DEF a, b, c
<1>4. /\ a \o b \in Seq(Nat)
      /\ Len(a \o b) = m + n
      /\ \A i \in 1..(m + n) : (a \o b)[i] = IF i <= m THEN a[i] ELSE b[i - m]
  BY <1>1, <1>2, ConcatProperties
<1>5. ASSUME NEW i \in 1..(m + n)
      PROVE  (a \o b)[i] = c[i]
  <2>1. c[i] = i
    BY DEF c
  <2>2. CASE i <= m
    BY <1>4, <2>1, <2>2 DEF a
  <2>3. CASE ~(i <= m)
    <3>1. i - m \in 1..n /\ b[i - m] = m + (i - m)
      BY <2>3 DEF b
    <3>2. QED
      BY <1>4, <2>1, <2>3, <3>1
  <2>4. QED
    BY <2>2, <2>3
<1>6. a \o b = c
  BY <1>3, <1>4, <1>5, SeqEqual
<1>7. QED
  BY <1>6 DEF a, b, c

-----------------------------------------------------------------------------
(* The ring holds erased+1 .. accepted and never more than its capacity, and *)
(* what handle_write is told is what was handed to the port.                 *)
THEOREM TypeCorrect == Spec => []TypeOK
<1>1. ASSUME Init PROVE TypeOK
  <2>1. /\ accepted = 0 /\ erased = 0 /\ MaxBytes \in Nat /\ Capacity \in Nat
    BY <1>1, ConstantsAssumption DEF Init
  <2>2. accepted \in 0..MaxBytes /\ erased \in 0..accepted /\ InRing <= Capacity
    BY <2>1 DEF InRing
  <2>3. ops \in Seq([from : Nat, to : Nat]) /\ done \in Seq(Nat) /\ wire \in Seq(Nat)
    BY <1>1 DEF Init
  <2>4. port \in Port /\ open \in BOOLEAN /\ hw \in {"idle", "erased"}
        /\ failed \in BOOLEAN /\ overrun \in BOOLEAN
    BY <1>1 DEF Init
  <2>5. QED
    BY <2>2, <2>3, <2>4 DEF TypeOK
<1>2. TypeOK /\ [Next]_vars => TypeOK'
  <2> SUFFICES ASSUME TypeOK, [Next]_vars
               PROVE  TypeOK'
    OBVIOUS
  <2> USE ConstantsAssumption DEF TypeOK, InRing
  <2>1. ASSUME NEW lo \in Nat, NEW hi \in Nat, start_write(lo, hi)
        PROVE  ops' \in Seq([from : Nat, to : Nat])
    BY <2>1, AppendProperties DEF start_write
  <2>2. ASSUME NEW len \in 1..MaxBytes, Write(len)
        PROVE  TypeOK'
    <3>1. Fits(len) \in 1..len /\ Fits(len) <= Capacity - (accepted - erased)
      BY <2>2 DEF Write, Fits
    <3>2. accepted' \in 0..MaxBytes /\ accepted' >= accepted
          /\ accepted' - erased <= Capacity
      BY <2>2, <3>1 DEF Write
    <3>3. ops' \in Seq([from : Nat, to : Nat])
      BY <2>1, <2>2, <3>2 DEF Write
    <3>4. QED
      BY <2>2, <3>2, <3>3 DEF Write
  <2>3. CASE Close
    BY <2>3 DEF Close
  <2>4. ASSUME NEW n \in 1..MaxBytes, Transfer(n)
        PROVE  TypeOK'
    <3>1. Head(ops) \in [from : Nat, to : Nat] /\ Tail(ops) \in Seq([from : Nat, to : Nat])
      BY <2>4, HeadTailProperties DEF Transfer
    <3>2. [i \in 1..n |-> Head(ops).from + i] \in Seq(Nat)
      BY <3>1, CountLen
    <3>3. wire' \in Seq(Nat)
      BY <2>4, <3>2, ConcatProperties DEF Transfer
    <3>4. done' \in Seq(Nat)
      BY <2>4, AppendProperties DEF Transfer
    <3>5. QED
      BY <2>4, <3>1, <3>3, <3>4 DEF Transfer
  <2>5. CASE Fail
    <3>1. Tail(ops) \in Seq([from : Nat, to : Nat])
      BY <2>5, HeadTailProperties DEF Fail
    <3>2. done' \in Seq(Nat)
      BY <2>5, AppendProperties DEF Fail
    <3>3. QED
      BY <2>5, <3>1, <3>2 DEF Fail
  <2>6. CASE HandleError
    <3>1. Tail(done) \in Seq(Nat)
      BY <2>6, HeadTailProperties DEF HandleError
    <3>2. QED
      BY <2>6, <3>1 DEF HandleError
  <2>7. ASSUME done # <<>>, erase_begin
        PROVE  Tail(done) \in Seq(Nat) /\ erased' \in 0..accepted
               /\ erased' >= erased /\ overrun' \in BOOLEAN
    <3>1. Head(done) \in Nat /\ Tail(done) \in Seq(Nat)
      BY <2>7, HeadTailProperties
    <3>2. CASE Head(done) <= accepted - erased /\ erased' = erased + Head(done) /\ UNCHANGED overrun
      <4>1. erased' \in 0..accepted /\ erased' >= erased
        BY <3>1, <3>2
      <4>2. QED
        BY <3>1, <3>2, <4>1
    <3>3. CASE overrun' = TRUE /\ UNCHANGED erased
      <4>1. erased' \in 0..accepted /\ erased' >= erased
        BY <3>3
      <4>2. QED
        BY <3>1, <3>3, <4>1
    <3>4. QED
      BY <2>7, <3>2, <3>3 DEF erase_begin
  <2>8. CASE HandleWriteTcp
    <3>1. Tail(done) \in Seq(Nat) /\ erased' \in 0..accepted
          /\ erased' >= erased /\ overrun' \in BOOLEAN
      BY <2>7, <2>8 DEF HandleWriteTcp
    <3>2. ops' \in Seq([from : Nat, to : Nat])
      BY <2>1, <2>8, <3>1 DEF HandleWriteTcp
    <3>3. UNCHANGED <<port, open, accepted, hw, wire, failed>> /\ done' = Tail(done)
      BY <2>8 DEF HandleWriteTcp
    <3>4. accepted - erased' <= Capacity
      <4>1. accepted \in Nat /\ erased \in Nat /\ erased' \in Nat /\ Capacity \in Nat
        BY <3>1
      <4>2. QED
        BY <3>1, <4>1, EraseFits
    <3>5. QED
      BY <3>1, <3>2, <3>3, <3>4
  <2>9. CASE HandleWriteSerial
    <3>1. Tail(done) \in Seq(Nat) /\ erased' \in 0..accepted
          /\ erased' >= erased /\ overrun' \in BOOLEAN
      BY <2>7, <2>9 DEF HandleWriteSerial
    <3>2. UNCHANGED <<port, open, accepted, ops, wire, failed>>
          /\ done' = Tail(done) /\ hw' = "erased"
      BY <2>9 DEF HandleWriteSerial
    <3>3. accepted - erased' <= Capacity
      <4>1. accepted \in Nat /\ erased \in Nat /\ erased' \in Nat /\ Capacity \in Nat
        BY <3>1
      <4>2. QED
        BY <3>1, <4>1, EraseFits
    <3>4. QED
      BY <3>1, <3>2, <3>3
  <2>10. CASE HandleWriteEnds
    <3>1. ops' \in Seq([from : Nat, to : Nat])
      BY <2>1, <2>10 DEF HandleWriteEnds, RestartSerial
    <3>2. QED
      BY <2>10, <3>1 DEF HandleWriteEnds
  <2>11. CASE UNCHANGED vars
    BY <2>11 DEF vars
  <2>12. QED
    BY <2>2, <2>3, <2>4, <2>5, <2>6, <2>8, <2>9, <2>10, <2>11 DEF Next, System
<1>3. QED
  BY <1>1, <1>2, PTL DEF Spec

-----------------------------------------------------------------------------
(* The ports as the program uses them *)

OrderedPort == Port \subseteq {"tcp", "polled"}

\* What a step does to the stream: nothing, an acceptance, or the next bytes.
Grows == wire' = wire /\ accepted' >= accepted
Takes(n) ==
  /\ accepted' = accepted
  /\ wire' = wire \o [i \in 1..n |-> Len(wire) + i]
  /\ Len(wire) + n <= accepted

LEMMA WriteStep ==
  ASSUME OrderedPort, TypeOK, OneWriteInv, NEW len \in 1..MaxBytes, Write(len)
  PROVE  OneWriteInv' /\ Grows
<1> USE ConstantsAssumption DEF TypeOK, InRing
<1>1. Fits(len) \in 1..len
  BY DEF Write, Fits
<1>2. accepted' = accepted + Fits(len) /\ accepted' \in Nat /\ accepted' > accepted
  BY <1>1 DEF Write
<1>3. UNCHANGED <<port, erased, done, hw, wire, overrun>>
  BY DEF Write
<1>4. Grows
  BY <1>2, <1>3 DEF Grows
<1>5. Len(wire) \in Nat /\ Len(wire) <= accepted'
  BY <1>2, LenProperties DEF OneWriteInv
<1>6. CASE erased = accepted
  <2>1. ops = <<>>
    BY <1>6, HeadTailProperties DEF OneWriteInv
  <2>2. done = <<>>
    BY <1>6 DEF OneWriteInv
  <2>3. hw = "idle"
    BY <1>6 DEF OrderedPort, Write, OneWriteInv, Quiet, Kind
  <2>4. ops' = <<[from |-> erased, to |-> accepted']>>
    BY <1>2, <1>6, <2>1 DEF Write, StartsWrite, start_write
  <2>5. /\ Len(ops') = 1
        /\ Head(ops').from = erased
        /\ Head(ops').to = accepted'
    BY <2>4
  <2>6. QED
    BY <1>2, <1>3, <1>4, <1>5, <1>6, <2>2, <2>3, <2>5 DEF OneWriteInv, WireInOrder, NoOverrun
<1>7. CASE erased # accepted
  <2>1. ops' = ops
    BY <1>7 DEF Write, StartsWrite
  <2>2. ops # <<>> => Head(ops) \in [from : Nat, to : Nat]
    BY HeadTailProperties
  <2>3. ops # <<>> => Head(ops).to \in (erased + 1)..accepted'
    BY <1>2, <2>2 DEF OneWriteInv
  <2>4. done # <<>> => erased < accepted'
    BY <1>2 DEF OneWriteInv
  <2>5. QED
    BY <1>2, <1>3, <1>4, <1>5, <2>1, <2>3, <2>4 DEF OneWriteInv, WireInOrder, NoOverrun
<1>8. QED
  BY <1>6, <1>7

LEMMA TransferStep ==
  ASSUME TypeOK, OneWriteInv, NEW n \in 1..MaxBytes, Transfer(n)
  PROVE  OneWriteInv' /\ Takes(n)
<1> USE ConstantsAssumption DEF TypeOK
<1>1. /\ ops # <<>>
      /\ n <= Head(ops).to - Head(ops).from
      /\ wire' = wire \o [i \in 1..n |-> Head(ops).from + i]
      /\ ops' = Tail(ops)
      /\ done' = Append(done, n)
      /\ UNCHANGED <<port, accepted, erased, hw, overrun>>
  BY DEF Transfer
<1>2. /\ Len(ops) = 1 /\ done = <<>> /\ hw = "idle"
      /\ Head(ops).from = erased
      /\ Head(ops).to \in (erased + 1)..accepted
      /\ Len(wire) = erased
  BY <1>1 DEF OneWriteInv
<1>3. ops' = <<>>
  BY <1>1, <1>2, TailOfOne
<1>4. done' = <<n>>
  BY <1>1, <1>2
<1>5. n \in Nat /\ erased \in Nat /\ accepted \in Nat /\ erased + n <= accepted
  BY <1>1, <1>2
<1>6. wire = [i \in 1..erased |-> i]
  BY <1>2 DEF OneWriteInv, WireInOrder
<1>7. wire' = [i \in 1..(erased + n) |-> i]
  BY <1>1, <1>2, <1>5, <1>6, CountMore
<1>8. Len(wire') = erased + n
  BY <1>5, <1>7, CountLen
<1>9. Takes(n)
  BY <1>1, <1>2, <1>5 DEF Takes
<1>10. /\ done' # <<>> /\ Len(done') = 1 /\ Head(done') = n
  BY <1>4
<1>11. WireInOrder' /\ NoOverrun'
  BY <1>1, <1>7, <1>8 DEF WireInOrder, NoOverrun, OneWriteInv
<1>12. erased < accepted
  BY <1>2, <1>5
<1>13. QED
  BY <1>1, <1>2, <1>3, <1>5, <1>8, <1>9, <1>10, <1>11, <1>12 DEF OneWriteInv

LEMMA FailStep ==
  ASSUME TypeOK, OneWriteInv, Fail
  PROVE  OneWriteInv' /\ Grows
<1> USE DEF TypeOK
<1>1. /\ ops # <<>> /\ ops' = Tail(ops) /\ done' = Append(done, 0)
      /\ UNCHANGED <<port, accepted, erased, hw, wire, overrun>>
  BY DEF Fail
<1>2. /\ Len(ops) = 1 /\ done = <<>> /\ hw = "idle"
      /\ Head(ops).to \in (erased + 1)..accepted
      /\ Len(wire) = erased
  BY <1>1 DEF OneWriteInv
<1>3. ops' = <<>>
  BY <1>1, <1>2, TailOfOne
<1>4. done' # <<>> /\ Len(done') = 1 /\ Head(done') = 0
  BY <1>1, <1>2
<1>5. erased < accepted
  BY <1>2, ConstantsAssumption
<1>6. Grows
  BY <1>1, ConstantsAssumption DEF Grows
<1>7. WireInOrder' /\ NoOverrun' /\ Len(wire') <= accepted'
  BY <1>1 DEF WireInOrder, NoOverrun, OneWriteInv
<1>8. Len(wire') = erased' + 0
  BY <1>1, <1>2
<1>9. QED
  BY <1>1, <1>2, <1>3, <1>4, <1>5, <1>6, <1>7, <1>8 DEF OneWriteInv

\* Every way handle_write ends: what was transferred has been erased.
LEMMA HandledStep ==
  ASSUME TypeOK, OneWriteInv, done # <<>>
  PROVE  /\ ops = <<>> /\ hw = "idle" /\ Tail(done) = <<>>
         /\ Head(done) \in Nat
         /\ Len(wire) = erased + Head(done)
         /\ Head(done) <= InRing
<1> USE DEF TypeOK
<1>1. Len(done) = 1 /\ hw = "idle" /\ ops = <<>> /\ Len(wire) = erased + Head(done)
  BY DEF OneWriteInv
<1>2. Head(done) \in Nat /\ Tail(done) = <<>>
  BY <1>1, HeadTailProperties, TailOfOne
<1>3. Head(done) <= InRing
  BY <1>1, <1>2, ConstantsAssumption DEF OneWriteInv, InRing
<1>4. QED
  BY <1>1, <1>2, <1>3

LEMMA EraseStep ==
  ASSUME TypeOK, OneWriteInv, done # <<>>, erase_begin
  PROVE  erased' = Len(wire) /\ erased' \in 0..accepted /\ overrun' = overrun
<1>1. Head(done) \in Nat /\ Len(wire) = erased + Head(done) /\ Head(done) <= InRing
  BY HandledStep
<1>2. Head(done) <= InRing /\ erased' = erased + Head(done) /\ UNCHANGED overrun
  <2>1. ~(Head(done) > InRing)
    BY <1>1, ConstantsAssumption DEF InRing, TypeOK
  <2>2. QED
    BY <2>1 DEF erase_begin
<1>3. QED
  BY <1>1, <1>2, ConstantsAssumption DEF InRing, TypeOK

LEMMA HandleErrorStep ==
  ASSUME TypeOK, OneWriteInv, HandleError
  PROVE  OneWriteInv' /\ Grows
<1>1. done # <<>> /\ Head(done) = 0 /\ done' = Tail(done)
      /\ UNCHANGED <<port, accepted, erased, ops, hw, wire, overrun>>
  BY DEF HandleError
<1>2. ops = <<>> /\ hw = "idle" /\ done' = <<>> /\ Len(wire) = erased + 0
  BY <1>1, HandledStep
<1>3. Grows
  BY <1>1, ConstantsAssumption DEF Grows, TypeOK
<1>4. WireInOrder' /\ NoOverrun' /\ Len(wire') <= accepted'
  BY <1>1 DEF WireInOrder, NoOverrun, OneWriteInv
<1>5. QED
  BY <1>1, <1>2, <1>3, <1>4 DEF OneWriteInv

\* start_write with nothing outstanding: what is in the ring, if anything.
LEMMA RestartStep ==
  ASSUME NEW lo \in Nat, NEW hi \in Nat, lo <= hi, ops = <<>>, start_write(lo, hi)
  PROVE  ops' # <<>> => /\ Len(ops') = 1
                        /\ Head(ops').from = lo
                        /\ Head(ops').to \in (lo + 1)..hi
<1>1. CASE lo = hi
  BY <1>1 DEF start_write
<1>2. CASE lo # hi
  <2>1. ops' = <<[from |-> lo, to |-> hi]>>
    BY <1>2 DEF start_write
  <2>2. Len(ops') = 1 /\ Head(ops').from = lo /\ Head(ops').to = hi
    BY <2>1
  <2>3. QED
    BY <1>2, <2>2
<1>3. QED
  BY <1>1, <1>2

LEMMA HandleTcpStep ==
  ASSUME TypeOK, OneWriteInv, HandleWriteTcp
  PROVE  OneWriteInv' /\ Grows
<1>1. done # <<>> /\ erase_begin /\ start_write(erased', accepted) /\ done' = Tail(done)
      /\ UNCHANGED <<port, accepted, hw, wire>>
  BY DEF HandleWriteTcp
<1>2. ops = <<>> /\ hw = "idle" /\ done' = <<>>
  BY <1>1, HandledStep
<1>3. erased' = Len(wire) /\ erased' \in 0..accepted /\ overrun' = overrun
  BY <1>1, EraseStep
<1>4. accepted \in Nat /\ erased' \in Nat /\ erased' <= accepted
  BY <1>3, ConstantsAssumption DEF TypeOK
<1>5. ops' # <<>> => /\ Len(ops') = 1
                     /\ Head(ops').from = erased'
                     /\ Head(ops').to \in (erased' + 1)..accepted
  BY <1>1, <1>2, <1>4, RestartStep
<1>6. Grows
  BY <1>1, <1>4 DEF Grows
<1>7. WireInOrder' /\ NoOverrun' /\ Len(wire') <= accepted'
  BY <1>1, <1>3 DEF WireInOrder, NoOverrun, OneWriteInv
<1>8. Len(wire') = erased' + 0
  BY <1>1, <1>3, <1>4
<1>9. QED
  BY <1>1, <1>2, <1>5, <1>6, <1>7, <1>8 DEF OneWriteInv

LEMMA HandleSerialStep ==
  ASSUME TypeOK, OneWriteInv, HandleWriteSerial
  PROVE  OneWriteInv' /\ Grows
<1>1. done # <<>> /\ erase_begin /\ done' = Tail(done)
      /\ port # "tcp" /\ UNCHANGED <<port, accepted, ops, wire>>
  BY DEF HandleWriteSerial
<1>2. ops' = <<>> /\ done' = <<>>
  BY <1>1, HandledStep
<1>3. erased' = Len(wire) /\ erased' \in 0..accepted /\ overrun' = overrun
  BY <1>1, EraseStep
<1>4. accepted \in Nat /\ erased' \in Nat
  BY <1>3, ConstantsAssumption DEF TypeOK
<1>5. Grows
  BY <1>1, <1>4 DEF Grows
<1>6. WireInOrder' /\ NoOverrun' /\ Len(wire') <= accepted'
  BY <1>1, <1>3 DEF WireInOrder, NoOverrun, OneWriteInv
<1>7. Len(wire') = erased' + 0
  BY <1>1, <1>3, <1>4
<1>8. QED
  BY <1>1, <1>2, <1>5, <1>6, <1>7 DEF OneWriteInv

LEMMA HandleEndsStep ==
  ASSUME TypeOK, OneWriteInv, HandleWriteEnds
  PROVE  OneWriteInv' /\ Grows
<1>1. hw = "erased" /\ start_write(erased, accepted) /\ hw' = "idle"
      /\ UNCHANGED <<accepted, erased, done, wire, overrun>>
  BY DEF HandleWriteEnds, RestartSerial
<1>2. ops = <<>> /\ done = <<>>
  BY <1>1 DEF OneWriteInv
<1>3. accepted \in Nat /\ erased \in Nat /\ erased <= accepted
  BY ConstantsAssumption DEF TypeOK
<1>4. ops' # <<>> => /\ Len(ops') = 1
                     /\ Head(ops').from = erased
                     /\ Head(ops').to \in (erased + 1)..accepted
  BY <1>1, <1>2, <1>3, RestartStep
<1>5. Grows
  BY <1>1, <1>3 DEF Grows
<1>6. WireInOrder' /\ NoOverrun' /\ Len(wire') <= accepted'
  BY <1>1 DEF WireInOrder, NoOverrun, OneWriteInv
<1>7. Len(wire') = erased' + 0
  BY <1>1, <1>2 DEF OneWriteInv
<1>8. QED
  BY <1>1, <1>2, <1>4, <1>5, <1>6, <1>7 DEF OneWriteInv

LEMMA StreamStep ==
  ASSUME OrderedPort, TypeOK, TypeOK', OneWriteInv, [Next]_vars
  PROVE  OneWriteInv' /\ (Grows \/ \E n \in 1..MaxBytes : Takes(n))
<1>1. CASE Close
  BY <1>1, ConstantsAssumption DEF Close, OneWriteInv, WireInOrder, NoOverrun, Grows, TypeOK
<1>2. CASE UNCHANGED vars
  BY <1>2, ConstantsAssumption DEF vars, OneWriteInv, WireInOrder, NoOverrun, Grows, TypeOK
<1>3. QED
  BY <1>1, <1>2, WriteStep, TransferStep, FailStep, HandleErrorStep, HandleTcpStep,
     HandleSerialStep, HandleEndsStep DEF Next, System

(* On a TCP connection, and on a serial port written to only when it is idle, *)
(* at most one write is out, and its bytes are the next of the stream.        *)
THEOREM OneWriteInvariant == OrderedPort => (Spec => []OneWriteInv)
<1> SUFFICES ASSUME OrderedPort PROVE Spec => []OneWriteInv
  OBVIOUS
<1>1. Init => OneWriteInv
  <2> SUFFICES ASSUME Init PROVE OneWriteInv
    OBVIOUS
  <2>1. Len(wire) = 0 /\ wire = [i \in 1..0 |-> i]
    BY CountLen DEF Init
  <2>2. QED
    BY <2>1 DEF Init, OneWriteInv, WireInOrder, NoOverrun
<1>2. TypeOK /\ TypeOK' /\ OneWriteInv /\ [Next]_vars => OneWriteInv'
  BY StreamStep
<1>3. QED
  BY <1>1, <1>2, TypeCorrect, PTL DEF Spec

(* Such a port implements ByteStream: what leaves is what was accepted, in    *)
(* order and each byte once, however the transfers are cut.                   *)
THEOREM ImplementsStream == OrderedPort => (Spec => InOrderOnce)
<1> SUFFICES ASSUME OrderedPort PROVE Spec => InOrderOnce
  OBVIOUS
<1>1. Init => Stream!Init
  BY DEF Init, Stream!Init
<1>2. TypeOK /\ TypeOK' /\ OneWriteInv /\ OneWriteInv' /\ [Next]_vars
        => [Stream!Next]_<<accepted, wire>>
  <2> SUFFICES ASSUME TypeOK, TypeOK', OneWriteInv, OneWriteInv', [Next]_vars
               PROVE  [Stream!Next]_<<accepted, wire>>
    OBVIOUS
  <2>1. accepted \in Nat /\ accepted' \in Nat
    BY ConstantsAssumption DEF TypeOK
  <2>2. CASE Grows
    <3>1. CASE accepted' = accepted
      BY <2>2, <3>1 DEF Grows
    <3>2. CASE accepted' > accepted
      BY <2>1, <2>2, <3>2 DEF Grows, Stream!Next, Stream!Accept
    <3>3. QED
      BY <2>1, <2>2, <3>1, <3>2 DEF Grows
  <2>3. ASSUME NEW n \in 1..MaxBytes, Takes(n)
        PROVE  Stream!Leave
    <3>1. Len(wire) \in Nat /\ n \in Nat /\ Len(wire) + n \in (Len(wire) + 1)..accepted
      BY <2>1, <2>3, LenProperties, ConstantsAssumption DEF Takes, TypeOK
    <3>2. wire = [i \in 1..Len(wire) |-> i]
      BY DEF OneWriteInv, WireInOrder
    <3>3. wire' = [i \in 1..(Len(wire) + n) |-> i]
      BY <2>3, <3>1, <3>2, CountMore DEF Takes
    <3>4. wire' = Stream!Counting(Len(wire) + n)
      BY <3>3 DEF Stream!Counting
    <3>5. QED
      BY <2>3, <3>1, <3>4 DEF Takes, Stream!Leave
  <2>4. QED
    BY <2>2, <2>3, StreamStep DEF Stream!Next
<1>3. QED
  BY <1>1, <1>2, TypeCorrect, OneWriteInvariant, PTL DEF Spec, InOrderOnce, Stream!Spec
=============================================================================
