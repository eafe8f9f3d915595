-------------------------- MODULE ReceptionProofs --------------------------
(***************************************************************************)
(* Proofs about Reception, for any devices, readings, settings and sizes of*)
(* read events that the assumptions allow.                                 *)
(***************************************************************************)
EXTENDS Reception, FramesProofs

-----------------------------------------------------------------------------
(* What the devices read. *)

\* A device reads the digits of a byte as the byte.
SaysByte(s, i, b) == s[i] = Hex(b)[1] /\ s[i + 1] = Hex(b)[2]

LEMMA HexValueReads ==
  ASSUME NEW s, NEW i, NEW b \in Byte, SaysByte(s, i, b)
  PROVE  HexValue(s, i) = b
<1> DEFINE value(c) == (CHOOSE n \in 1..16 : HexDigits[n] = c) - 1
<1>1. \A t \in 0..15 : value(HexDigit(t)) = t
  <2>0. SUFFICES ASSUME NEW t \in 0..15
                 PROVE  value(HexDigit(t)) = t
    OBVIOUS
  <2>1. \A n \in 1..16 : HexDigits[n] = HexDigit(t) <=> n = t + 1
    BY DEF HexDigits, HexDigit
  <2>2. t + 1 \in 1..16 /\ (t + 1) - 1 = t
    OBVIOUS
  <2>3. (CHOOSE n \in 1..16 : HexDigits[n] = HexDigit(t)) = t + 1
    BY <2>1, <2>2
  <2>4. QED
    BY <2>2, <2>3
<1>2. HexValue(s, i) = value(s[i]) * 16 + value(s[i + 1])
  BY Zenon DEF HexValue
<1>3. s[i] = HexDigit(b \div 16) /\ s[i + 1] = HexDigit(b % 16)
  BY HexReads, Zenon DEF SaysByte
<1> HIDE DEF value
<1>4. value(s[i]) = b \div 16 /\ value(s[i + 1]) = b % 16
  <2>1. b \div 16 \in 0..15 /\ b % 16 \in 0..15
    BY ByteHalves
  <2>2. value(HexDigit(b \div 16)) = b \div 16 /\ value(HexDigit(b % 16)) = b % 16
    BY <1>1, <2>1, Zenon
  <2>3. QED
    BY <1>3, <2>2, Zenon
<1>5. (b \div 16) * 16 + (b % 16) = b
  BY DEF Byte
<1>6. QED
  BY <1>2, <1>4, <1>5, Zenon

\* What a device makes of a directive, for any device, function and value.
Asks(d, f, text) == [idd |-> d, idf |-> f, text |-> text]

LEMMA CoolerUnderstands ==
  ASSUME protocol = "cooler", NEW m, NEW d \in Byte, NEW f \in Byte, NEW text \in Seq(Byte),
         CoolerShape(m, d, f, text)
  PROVE  DeviceReads(m) = Asks(d, f, text)
<1>1. PICK l \in Nat : l = Len(text)
  OBVIOUS
<1>2. PICK n \in Nat : n = 9 + 2 * l /\ Len(m) = n
  BY <1>1 DEF CoolerShape
<1> DEFINE read == [i \in 1..(n - 9) \div 2 |-> HexValue(m, 4 + 2 * i)]
<1>3. DeviceReads(m) = [idd |-> HexValue(m, 2), idf |-> HexValue(m, 4), text |-> read]
  BY <1>2, Zenon DEF DeviceReads
<1>5. HexValue(m, 2) = d /\ HexValue(m, 4) = f
  <2>1. m[2] = Hex(d)[1] /\ m[3] = Hex(d)[2] /\ m[4] = Hex(f)[1] /\ m[5] = Hex(f)[2]
    BY DEF CoolerShape, SaysCooler
  <2>2. SaysByte(m, 2, d) /\ SaysByte(m, 4, f)
    BY <2>1 DEF SaysByte
  <2>3. QED
    BY <2>2, HexValueReads, Zenon
<1>6. \A i \in 1..l : HexValue(m, 4 + 2 * i) = text[i]
  <2>1. SUFFICES ASSUME NEW i \in 1..l
                 PROVE  HexValue(m, 4 + 2 * i) = text[i]
    OBVIOUS
  <2>2. /\ 2 * i - 1 \in 1..2 * l /\ 2 * i \in 1..2 * l /\ 4 + 2 * i \in Nat
        /\ 5 + (2 * i - 1) = 4 + 2 * i /\ 5 + 2 * i = (4 + 2 * i) + 1
    OBVIOUS
  <2>3. \A j \in 1..2 * l : m[5 + j] = HexText(text)[j]
    BY <1>1, Zenon DEF CoolerShape, SaysCooler
  <2>4. HexText(text)[2 * i - 1] = Hex(text[i])[1] /\ HexText(text)[2 * i] = Hex(text[i])[2]
    BY <1>1, HexTextReads, Zenon
  <2>5. SaysByte(m, 4 + 2 * i, text[i])
    BY <2>2, <2>3, <2>4, Zenon DEF SaysByte
  <2>6. text[i] \in Byte
    BY <1>1
  <2>7. QED
    BY <2>5, <2>6, HexValueReads, Zenon
<1>7. read = text
  <2>1. (n - 9) \div 2 = l
    BY <1>2
  <2>2. read = [i \in 1..l |-> text[i]]
    BY <1>6, <2>1
  <2>3. QED
    BY <1>1, <2>2
<1> HIDE DEF read
<1>8. QED
  BY <1>3, <1>5, <1>7, Zenon DEF Asks

LEMMA GaugeUnderstands ==
  ASSUME protocol = "vacuum", NEW m, NEW d \in Byte, NEW f \in Byte, GaugeAsks(m, d, f)
  PROVE  DeviceReads(m) = Asks(d, f, <<>>)
<1>1. m[3] = Hex(d)[1] /\ m[4] = Hex(d)[2] /\ m[6] = Hex(f)[1] /\ m[7] = Hex(f)[2]
  BY Zenon DEF GaugeAsks
<1>2. SaysByte(m, 3, d) /\ SaysByte(m, 6, f)
  BY <1>1 DEF SaysByte
<1>3. HexValue(m, 3) = d /\ HexValue(m, 6) = f
  BY <1>2, HexValueReads, Zenon
<1>4. protocol # "cooler"
  OBVIOUS
<1>5. DeviceReads(m) = [idd |-> HexValue(m, 3), idf |-> HexValue(m, 6), text |-> <<>>]
  BY <1>4, Zenon DEF DeviceReads
<1>6. QED
  BY <1>3, <1>5, Zenon DEF Asks

-----------------------------------------------------------------------------
(* The types, and what an exchange is about. *)

LEMMA FieldIsByte ==
  ASSUME protocol \in Protocol, NEW f \in Fields[protocol]
  PROVE  f \in Byte
  BY ConstantsAssumption

LEMMA DeviceIsByte == Devices \subseteq Byte
  BY ConstantsAssumption

LEMMA MessageRoom == MsgSize \in Nat /\ MsgSize >= 30
  BY SettingsAssumption

LEMMA SettingType ==
  ASSUME NEW s \in Written \cup {<<>>}
  PROVE  s \in Seq(Byte) /\ Len(s) <= 10
<1>1. CASE s \in Written
  <2>1. ASSUME NEW v \in Settings, s = FormatTenths(v)
        PROVE  s \in Seq(Byte) /\ Len(s) <= 10
    <3>1. v \in ShortTenths
      BY SettingsAssumption, Zenon
    <3>2. QED
      BY <2>1, <3>1, TenthsFit, Zenon
  <2>2. ASSUME NEW n \in IntSettings, s = FormatInt(n)
        PROVE  s \in Seq(Byte) /\ Len(s) <= 10
    <3>1. n \in ShortInts
      BY SettingsAssumption, Zenon
    <3>2. QED
      BY <2>2, <3>1, IntsFit, Zenon
  <2>3. QED
    BY <1>1, <2>1, <2>2, Zenon DEF Written
<1>2. CASE s = <<>>
  BY <1>2
<1>3. QED
  BY <1>1, <1>2, Zenon

LEMMA TextType ==
  ASSUME NEW f, NEW v \in Values(f)
  PROVE  Text(f, v) \in Seq(Byte)
<1>1. CASE f = PRES
  BY <1>1, ConstantsAssumption DEF Text, Values
<1>2. CASE f # PRES
  <2>1. v \in Int /\ Text(f, v) = FormatTenths(v)
    BY <1>2, ConstantsAssumption DEF Text, Values
  <2>2. QED
    BY <2>1, TenthsType, Zenon
<1>3. QED
  BY <1>1, <1>2, Zenon

\* What a device may say of a function.
LEMMA TextIsAnswer ==
  ASSUME NEW f, NEW v \in Values(f)
  PROVE  Text(f, v) \in Answers
<1>1. CASE f = PRES
  BY <1>1, Zenon DEF Text, Values, Answers
<1>2. CASE f # PRES
  BY <1>2, Zenon DEF Text, Values, Answers
<1>3. QED
  BY <1>1, <1>2, Zenon

LEMMA CoolerAnswer ==
  ASSUME protocol = "cooler", NEW d \in Byte, NEW f \in Byte, NEW text \in Seq(Byte)
  PROVE  CoolerShape(AnswerFrame(d, f, text), d, f, text)
<1>1. AnswerFrame(d, f, text) = CoolerFrame(d, f, text)
  BY Zenon DEF AnswerFrame
<1>2. QED
  BY <1>1, CoolerFrameShape, Zenon

LEMMA VacuumAnswer ==
  ASSUME protocol = "vacuum", NEW d \in Byte, NEW f, NEW text \in Seq(Byte)
  PROVE  GaugeShape(AnswerFrame(d, f, text), d, text)
<1>0. protocol # "cooler"
  OBVIOUS
<1>1. AnswerFrame(d, f, text) = GaugeAnswer(d, text)
  BY <1>0, Zenon DEF AnswerFrame, GaugeAnswer
<1>2. QED
  BY <1>1, GaugeAnswerShape, Zenon

LEMMA AnswerType ==
  ASSUME protocol \in Protocol, NEW d \in Byte, NEW f \in Byte, NEW text \in Seq(Byte)
  PROVE  AnswerFrame(d, f, text) \in Seq(Byte)
<1>1. CASE protocol = "cooler"
  BY <1>1, CoolerAnswer, CoolerShapeLen, Zenon
<1>2. CASE protocol = "vacuum"
  BY <1>2, VacuumAnswer, GaugeShapeLen, Zenon
<1>3. QED
  BY <1>1, <1>2, Zenon DEF Protocol

\* The exchange under way is a query or a setting, and msg says it.
Meant ==
  asked # None =>
    /\ asked.idd \in Devices /\ asked.idf \in Byte
    /\ asked.text \in Written \cup {<<>>}
    /\ asked.idf \in Fields[protocol] \/ asked.text \in Written
    /\ protocol = "vacuum" => asked.idf \in Fields[protocol] /\ asked.text = <<>>
    /\ msg = Encode(asked.idd, asked.idf, asked.text)

LEMMA MeantIsRead ==
  ASSUME protocol \in Protocol, Meant, asked # None
  PROVE  DeviceReads(msg) = Asks(asked.idd, asked.idf, asked.text)
<1>1. /\ asked.idd \in Byte /\ asked.idf \in Byte /\ asked.text \in Seq(Byte)
      /\ msg = Encode(asked.idd, asked.idf, asked.text)
  BY DeviceIsByte, SettingType DEF Meant
<1>2. CASE protocol = "cooler"
  <2>1. msg = CoolerFrame(asked.idd, asked.idf, asked.text)
    BY <1>1, <1>2, Zenon DEF Encode
  <2>2. QED
    BY <1>1, <1>2, <2>1, CoolerFrameShape, CoolerUnderstands, Zenon
<1>3. CASE protocol = "vacuum"
  <2>1. msg = VacuumFrame(asked.idd, asked.idf) /\ asked.text = <<>>
    BY <1>1, <1>3 DEF Encode, Meant
  <2>2. QED
    <3>1. GaugeAsks(msg, asked.idd, asked.idf)
      BY <1>1, <2>1, VacuumFrameShape, Zenon
    <3>2. DeviceReads(msg) = Asks(asked.idd, asked.idf, <<>>)
      BY <1>1, <1>3, <3>1, GaugeUnderstands, Zenon
    <3>3. QED
      BY <2>1, <3>2, Zenon
<1>4. QED
  BY <1>2, <1>3, Zenon DEF Protocol

\* The message of a directive has its size.
LEMMA MessageFits ==
  ASSUME protocol \in Protocol, NEW d \in Byte, NEW f \in Byte, NEW text \in Seq(Byte),
         Len(text) <= 10
  PROVE  Encode(d, f, text) \in Seq(Byte) /\ Len(Encode(d, f, text)) + 1 <= MsgSize
<1>1. CASE protocol = "cooler"
  <2>1. PICK m \in Seq(Byte) : m = Encode(d, f, text) /\ Len(m) = 9 + 2 * Len(text)
    <3>1. Encode(d, f, text) = CoolerFrame(d, f, text)
      BY <1>1, Zenon DEF Encode
    <3>2. /\ CoolerFrame(d, f, text) \in Seq(Byte)
          /\ Len(CoolerFrame(d, f, text)) = 9 + 2 * Len(text)
      BY CoolerFrameShape, Zenon DEF CoolerShape
    <3>3. QED
      BY <3>1, <3>2, Zenon
  <2>2. Len(m) + 1 <= MsgSize
    BY <2>1, MessageRoom
  <2>3. QED
    BY <2>1, <2>2, Zenon
<1>2. CASE protocol = "vacuum"
  <2>1. Encode(d, f, text) = VacuumFrame(d, f)
    BY <1>2 DEF Encode
  <2>2. GaugeAsks(VacuumFrame(d, f), d, f)
    BY VacuumFrameShape, Zenon
  <2>3. PICK m \in Seq(Byte) : m = Encode(d, f, text) /\ Len(m) = 11
    BY <2>1, <2>2, Zenon DEF GaugeAsks
  <2>4. Len(m) + 1 <= MsgSize
    BY <2>3, MessageRoom
  <2>5. QED
    BY <2>3, <2>4, Zenon
<1>3. QED
  BY <1>1, <1>2, Zenon DEF Protocol

\* serial_read on the ring that handle_read leaves.
Taken(full) ==
  LET at == Places(full)
      len == at.tail - at.head + Len(tail_)
      got == Read(full, len, at.head)
      r == IF at.tail > at.head THEN Decode(got.frame) ELSE Refused
      field == r.ok /\ r.idd \in Devices /\ r.idf \in Fields[protocol]
  IN  /\ ring' = IF at.tail > at.head THEN got.ring ELSE full
      /\ io' = IF field THEN [r |-> r, step |-> "value"] ELSE None
      /\ asked' = IF r.ok /\ ~field THEN None ELSE asked

LEMMA Received ==
  ASSUME NEW n, Receive(n)
  PROVE  /\ io = None /\ wire' = SubSeq(wire, n + 1, Len(wire))
         /\ Taken(PushBack(ring, SubSeq(wire, 1, n), Capacity))
         /\ UNCHANGED <<protocol, msg, answered, data, dirty, log, logged, truth, before,
                        noise, damaged, exchanges>>
  BY Zenon DEF Receive, Taken

LEMMA Ends ==
  /\ head_ \in Seq(Byte) /\ tail_ \in Seq(Byte) /\ Len(tail_) \in 1..2
<1>1. /\ <<COLON>> \in Seq(Byte) /\ <<>> \in Seq(Byte) /\ <<CR>> \in Seq(Byte)
      /\ <<CR, LF>> \in Seq(Byte) /\ Len(<<CR>>) = 1 /\ Len(<<CR, LF>>) = 2
      /\ 1 \in 1..2 /\ 2 \in 1..2
  BY DEF COLON, CR, LF, Byte
<1>2. CASE protocol = "cooler"
  BY <1>1, <1>2, Zenon DEF head_, tail_
<1>3. CASE protocol # "cooler"
  BY <1>1, <1>3, Zenon DEF head_, tail_
<1>4. QED
  BY <1>2, <1>3, Zenon

LEMMA LookupType ==
  ASSUME NEW r \in Seq(Byte), NEW flag \in Seq(Byte), NEW from \in Nat
  PROVE  Lookup(r, flag, from) \in Int /\ Lookup(r, flag, from) >= -1
<1>1. CASE Lookup(r, flag, from) = -1
  BY <1>1
<1>2. CASE \E k \in Nat : Lookup(r, flag, from) = k
  BY <1>2
<1>3. QED
  BY <1>1, <1>2, LookupCases, Zenon

LEMMA PlacesType ==
  ASSUME NEW r \in Seq(Byte)
  PROVE  Places(r).head \in Int /\ Places(r).tail \in Int
<1> DEFINE head == IF head_ = <<>> THEN 0 ELSE Lookup(r, head_, 0)
           tail == IF head >= 0 THEN Lookup(r, tail_, head) ELSE 0
<1>1. head \in Int
  BY Ends, LookupType
<1>2. tail \in Int
  <2>1. CASE head >= 0
    <3>1. head \in Nat
      BY <1>1, <2>1
    <3> HIDE DEF head
    <3>2. Lookup(r, tail_, head) \in Int
      BY <3>1, Ends, LookupType
    <3>3. QED
      BY <2>1, <3>2
  <2>2. CASE ~(head >= 0)
    <3> HIDE DEF head
    <3>1. QED
      BY <2>2
  <2>3. QED
    BY <2>1, <2>2, Zenon
<1>3. Places(r) = [head |-> head, tail |-> tail]
  BY Zenon DEF Places
<1> HIDE DEF head, tail
<1>4. QED
  BY <1>1, <1>2, <1>3

LEMMA TakenType ==
  ASSUME NEW full \in Seq(Byte), Len(full) <= Capacity, Taken(full)
  PROVE  /\ ring' \in Seq(Byte) /\ Len(ring') <= Capacity
         /\ asked' = asked \/ asked' = None
<1> DEFINE at == Places(full)
           len == at.tail - at.head + Len(tail_)
<1>1. asked' = asked \/ asked' = None
  BY DEF Taken
<1>2. CASE at.tail > at.head
  <2>1. at.head \in Int /\ len \in Nat
    BY <1>2, PlacesType, Ends
  <2>2. ring' = Read(full, len, at.head).ring
    BY <1>2 DEF Taken
  <2> HIDE DEF at, len
  <2>3. PICK t \in Seq(Byte) : t = Read(full, len, at.head).ring /\ Len(t) <= Len(full)
    BY <2>1, ReadLeaves, Zenon
  <2>4. Len(t) <= Capacity
    BY <2>3, RoomAssumption
  <2>5. QED
    BY <1>1, <2>2, <2>3, <2>4, Zenon
<1>3. CASE ~(at.tail > at.head)
  <2>1. ring' = full
    BY <1>3 DEF Taken
  <2>2. QED
    BY <1>1, <2>1, Zenon
<1>4. QED
  BY <1>2, <1>3, Zenon

\* A setter is that of a device.
IoOfDevice ==
  io # None => io = [r |-> io.r, step |-> io.step] /\ io.r.idd \in Devices

LEMMA ReceivedIo ==
  ASSUME NEW n, Receive(n)
  PROVE  IoOfDevice'
<1>1. PICK full : Taken(full)
  BY Received, Zenon
<1>2. PICK r : io' = IF r.ok /\ r.idd \in Devices /\ r.idf \in Fields[protocol]
                       THEN [r |-> r, step |-> "value"] ELSE None
  BY <1>1, Zenon DEF Taken
<1>3. CASE r.ok /\ r.idd \in Devices /\ r.idf \in Fields[protocol]
  <2>1. io' = [r |-> r, step |-> "value"] /\ r.idd \in Devices
    BY <1>2, <1>3, Zenon
  <2>2. QED
    BY <2>1 DEF IoOfDevice
<1>4. CASE ~(r.ok /\ r.idd \in Devices /\ r.idf \in Fields[protocol])
  BY <1>2, <1>4, Zenon DEF IoOfDevice
<1>5. QED
  BY <1>3, <1>4, Zenon

LEMMA ReceivedType ==
  ASSUME TypeOK, NEW n \in ReadSizes, n <= Len(wire), Receive(n)
  PROVE  /\ wire' \in Seq(Byte) /\ ring' \in Seq(Byte) /\ Len(ring') <= Capacity
         /\ asked' = asked \/ asked' = None
<1>1. wire \in Seq(Byte) /\ ring \in Seq(Byte) /\ n \in Nat /\ Capacity \in Nat
  BY RoomAssumption DEF TypeOK
<1>2. PICK now \in Seq(Byte) : now = SubSeq(wire, 1, n)
  <2>1. SubSeq(wire, 0 + 1, n) \in Seq(Byte) /\ 0 + 1 = 1
    BY <1>1, Slice
  <2>2. QED
    BY <2>1, Zenon
<1>3. wire' \in Seq(Byte)
  BY <1>1, Received, RestSlice, Zenon DEF IsRest
<1>4. PICK full \in Seq(Byte) : full = PushBack(ring, now, Capacity) /\ Len(full) <= Capacity
  BY <1>1, PushBackType, Zenon
<1>5. Taken(full)
  BY <1>2, <1>4, Received, Zenon
<1>6. QED
  BY <1>3, <1>4, <1>5, TakenType, Zenon

\* The types, the message under way, and its size.
Basics == TypeOK /\ Meant /\ FitsMessage /\ IoOfDevice

LEMMA BasicsParts ==
  ASSUME TypeOK
  PROVE  /\ protocol \in Protocol
         /\ asked \in [idd : Byte, idf : Byte, text : Seq(Byte)] \cup {None}
         /\ answered \in BOOLEAN /\ noise \in 0..MaxNoise /\ damaged \in BOOLEAN
         /\ msg \in Seq(Byte) /\ wire \in Seq(Byte) /\ ring \in Seq(Byte)
         /\ Len(ring) <= Capacity
         /\ dirty \subseteq Devices /\ log \in Devices \cup {None}
         /\ exchanges \in 0..MaxExchanges
  BY Zenon DEF TypeOK

LEMMA InitBasics ==
  ASSUME Init
  PROVE  Basics
<1>1. <<>> \in Seq(Byte) /\ Len(<<>>) = 0 /\ Capacity \in Nat /\ 0 <= Capacity
      /\ 0 \in 0..MaxNoise /\ 0 \in 0..MaxExchanges
  BY RoomAssumption, ConstantsAssumption
<1>2. TypeOK
  BY <1>1, Zenon DEF Init, TypeOK
<1>3. Meant
  BY Zenon DEF Init, Meant
<1>4. FitsMessage
  BY <1>1, MessageRoom DEF Init, FitsMessage
<1>5. QED
  BY <1>2, <1>3, <1>4, Zenon DEF Basics, IoOfDevice, Init

LEMMA AskBasics ==
  ASSUME Basics, NEW d \in Devices, NEW f \in Byte, NEW text \in Written \cup {<<>>},
         f \in Fields[protocol] \/ text \in Written,
         protocol = "vacuum" => f \in Fields[protocol] /\ text = <<>>,
         Ask(d, f, text)
  PROVE  Basics'
<1>1. TypeOK /\ protocol \in Protocol /\ d \in Byte /\ text \in Seq(Byte) /\ Len(text) <= 10
  BY BasicsParts, DeviceIsByte, SettingType DEF Basics
<1>2. msg' \in Seq(Byte) /\ Len(msg') + 1 <= MsgSize
  BY <1>1, MessageFits, Zenon DEF Ask
<1>3. asked' = [idd |-> d, idf |-> f, text |-> text]
      /\ msg' = Encode(d, f, text) /\ protocol' = protocol
  BY Zenon DEF Ask
<1>4. exchanges' \in 0..MaxExchanges
  BY <1>1, ConstantsAssumption DEF Ask, TypeOK
<1>5. TypeOK'
  <2>1. asked' \in [idd : Byte, idf : Byte, text : Seq(Byte)]
    BY <1>1, <1>3
  <2>2. answered' = FALSE /\ UNCHANGED <<wire, ring, noise, damaged, dirty, log>>
    BY Zenon DEF Ask
  <2>3. QED
    BY <1>1, <1>2, <1>3, <1>4, <2>1, <2>2, BasicsParts, Zenon DEF TypeOK
<1>6. Meant'
  <2>1. asked'.idd = d /\ asked'.idf = f /\ asked'.text = text
    BY <1>3
  <2>2. Encode(d, f, text)' = Encode(d, f, text)
    BY <1>3, Zenon DEF Encode
  <2>3. QED
    BY <1>3, <2>1, <2>2, Zenon DEF Meant, Encode
<1>7. QED
  BY <1>2, <1>5, <1>6, Zenon DEF Basics, FitsMessage, IoOfDevice, Ask

\* A step that leaves the message, and the exchange or ends it.
LEMMA KeepsMeant ==
  ASSUME Meant, FitsMessage, UNCHANGED <<protocol, msg>>, asked' = asked \/ asked' = None
  PROVE  Meant' /\ FitsMessage'
<1>1. FitsMessage'
  BY Zenon DEF FitsMessage
<1>2. CASE asked' = None
  BY <1>1, <1>2, Zenon DEF Meant
<1>3. CASE asked' = asked
  BY <1>1, <1>3, Zenon DEF Meant, Encode
<1>4. QED
  BY <1>2, <1>3, Zenon

\* What a device answers, and what it is about.
AnswerOf(text) ==
  /\ wire' = wire \o AnswerFrame(asked.idd, asked.idf, text)
  /\ IF asked.idf \in Fields[protocol]
       THEN \E v \in Values(asked.idf) :
              /\ text = Text(asked.idf, v)
              /\ truth' = [truth EXCEPT ![asked.idd][asked.idf] = v]
              /\ before' = truth[asked.idd][asked.idf]
       ELSE text = asked.text /\ UNCHANGED <<truth, before>>

LEMMA Answered ==
  ASSUME TypeOK, Meant, Answer
  PROVE  /\ asked # None /\ ~answered /\ answered' = TRUE
         /\ \E text \in Seq(Byte) : AnswerOf(text)
         /\ UNCHANGED <<protocol, asked, msg, ring, io, data, dirty, log, logged, noise,
                        damaged, exchanges>>
<1>1. /\ asked # None /\ ~answered /\ answered' = TRUE
      /\ UNCHANGED <<protocol, asked, msg, ring, io, data, dirty, log, logged, noise,
                     damaged, exchanges>>
  BY Zenon DEF Answer
<1>2. PICK q : q = DeviceReads(msg) /\ q.idd = asked.idd /\ q.idf = asked.idf
               /\ q.text = asked.text
  <2>1. DeviceReads(msg) = Asks(asked.idd, asked.idf, asked.text)
    BY <1>1, BasicsParts, MeantIsRead, Zenon
  <2>2. /\ Asks(asked.idd, asked.idf, asked.text).idd = asked.idd
        /\ Asks(asked.idd, asked.idf, asked.text).idf = asked.idf
        /\ Asks(asked.idd, asked.idf, asked.text).text = asked.text
    BY DEF Asks
  <2>3. QED
    BY <2>1, <2>2, Zenon
<1>3. IF asked.idf \in Fields[protocol]
        THEN \E v \in Values(asked.idf) :
               /\ wire' = wire \o AnswerFrame(asked.idd, asked.idf, Text(asked.idf, v))
               /\ truth' = [truth EXCEPT ![asked.idd][asked.idf] = v]
               /\ before' = truth[asked.idd][asked.idf]
        ELSE /\ wire' = wire \o AnswerFrame(asked.idd, asked.idf, asked.text)
             /\ UNCHANGED <<truth, before>>
  BY <1>2, Zenon DEF Answer
<1>4. CASE asked.idf \in Fields[protocol]
  <2>1. PICK v \in Values(asked.idf) :
          /\ wire' = wire \o AnswerFrame(asked.idd, asked.idf, Text(asked.idf, v))
          /\ truth' = [truth EXCEPT ![asked.idd][asked.idf] = v]
          /\ before' = truth[asked.idd][asked.idf]
    BY <1>3, <1>4, Zenon
  <2>2. PICK text \in Seq(Byte) : text = Text(asked.idf, v)
    BY TextType, Zenon
  <2>3. AnswerOf(text)
    BY <1>4, <2>1, <2>2, Zenon DEF AnswerOf
  <2>4. QED
    BY <1>1, <2>3, Zenon
<1>5. CASE asked.idf \notin Fields[protocol]
  <2>1. PICK text \in Seq(Byte) : text = asked.text
    BY <1>1, SettingType, Zenon DEF Meant
  <2>2. AnswerOf(text)
    BY <1>3, <1>5, <2>1, Zenon DEF AnswerOf
  <2>3. QED
    BY <1>1, <2>2, Zenon
<1>6. QED
  BY <1>4, <1>5, Zenon

LEMMA AnswerBasics ==
  ASSUME Basics, Answer
  PROVE  Basics'
<1>1. TypeOK /\ Meant /\ FitsMessage
  BY DEF Basics
<1>2. UNCHANGED <<protocol, asked, msg, ring, io, dirty, log, noise, damaged, exchanges>>
      /\ answered' = TRUE /\ asked # None
  BY <1>1, Answered, Zenon
<1>3. wire' \in Seq(Byte)
  <2>1. PICK text \in Seq(Byte) : wire' = wire \o AnswerFrame(asked.idd, asked.idf, text)
    BY <1>1, Answered, Zenon DEF AnswerOf
  <2>2. asked.idd \in Byte /\ asked.idf \in Byte
    BY <1>1, <1>2, DeviceIsByte DEF Meant
  <2>3. AnswerFrame(asked.idd, asked.idf, text) \in Seq(Byte)
    BY <1>1, <2>2, AnswerType, BasicsParts, Zenon
  <2>4. QED
    BY <1>1, <2>1, <2>3, Joined, BasicsParts, Zenon
<1>4. TypeOK'
  BY <1>1, <1>2, <1>3, BasicsParts, Zenon DEF TypeOK
<1>5. QED
  BY <1>1, <1>2, <1>4, KeepsMeant, Zenon DEF Basics, IoOfDevice

\* Stray bytes are bytes, and so is what is left with one byte less or one more.
LEMMA NoiseWire ==
  ASSUME TypeOK, Noise
  PROVE  \E s \in Stray[protocol] : s \in Seq(Byte) /\ wire' = wire \o s
<1>1. PICK s \in Stray[protocol] : wire' = wire \o s
  BY Zenon DEF Noise
<1>2. Stray[protocol] \subseteq Seq(Byte)
  BY StrayAssumption, BasicsParts
<1>3. QED
  BY <1>1, <1>2, Zenon

\* t is s without its byte at i.
IsWithout(t, s, i) ==
  /\ t \in Seq(Byte) /\ Len(t) + 1 = Len(s)
  /\ \A j \in 1..i - 1 : t[j] = s[j]
  /\ \A j \in i..Len(t) : t[j] = s[j + 1]

LEMMA Removed ==
  ASSUME NEW s \in Seq(Byte), NEW i \in 1..Len(s)
  PROVE  IsWithout(RemoveAt(s, i), s, i)
<1>1. PICK h \in Nat, m \in Nat : h = i - 1 /\ m = Len(s) /\ i \in 1..m
  <2>1. i - 1 \in Nat /\ Len(s) \in Nat
    OBVIOUS
  <2>2. QED
    BY <2>1, Zenon
<1>2. h + 1 = i /\ h <= Len(s) /\ i \in Nat /\ i <= Len(s) /\ 0 <= h /\ 0 + 1 = 1 /\ h - 0 = h
  BY <1>1
<1>3. PICK a \in Seq(Byte) : /\ a = SubSeq(s, 1, i - 1) /\ Len(a) = h
                             /\ \A j \in 1..h : a[j] = s[0 + j]
  <2>1. /\ SubSeq(s, 0 + 1, h) \in Seq(Byte) /\ Len(SubSeq(s, 0 + 1, h)) = h - 0
        /\ \A j \in 1..h - 0 : SubSeq(s, 0 + 1, h)[j] = s[0 + j]
    BY <1>2, Slice
  <2>2. QED
    BY <1>1, <1>2, <2>1, Zenon
<1>4. PICK b \in Seq(Byte) : b = SubSeq(s, i + 1, Len(s)) /\ IsRest(b, s, i)
  BY <1>2, RestSlice, Zenon DEF IsRest
<1>5. PICK n \in Nat : n = Len(b) /\ n = m - i
  <2>1. Len(b) = Len(s) - i
    BY <1>4, Zenon DEF IsRest
  <2>2. Len(b) \in Nat
    OBVIOUS
  <2>3. QED
    BY <1>1, <2>1, <2>2, Zenon
<1>6. PICK t \in Seq(Byte) : IsJoin(t, a, b, h, n)
  BY <1>3, <1>5, Joins, Zenon
<1>7. t = RemoveAt(s, i) /\ Len(t) = h + n
  BY <1>3, <1>4, <1>6, Zenon DEF IsJoin, RemoveAt
<1>8. Len(t) + 1 = Len(s)
  BY <1>1, <1>5, <1>7
<1>9. ASSUME NEW j \in 1..i - 1
      PROVE  t[j] = s[j]
  <2>1. j \in 1..h /\ 0 + j = j
    BY <1>1
  <2>2. QED
    BY <1>3, <1>6, <2>1, Zenon DEF IsJoin
<1>10. ASSUME NEW j \in i..Len(t)
       PROVE  t[j] = s[j + 1]
  <2>1. /\ j - h \in 1..n /\ j - h \in 1..Len(s) - i /\ h + (j - h) = j
        /\ i + (j - h) = j + 1
    BY <1>1, <1>5, <1>7
  <2>2. b[j - h] = s[i + (j - h)]
    BY <1>4, <2>1, Zenon DEF IsRest
  <2>3. t[h + (j - h)] = b[j - h]
    BY <1>6, <2>1, Zenon DEF IsJoin
  <2>4. QED
    BY <2>1, <2>2, <2>3, Zenon
<1>11. QED
  BY <1>7, <1>8, <1>9, <1>10, Zenon DEF IsWithout

\* Before a byte of s one more, b: what was there without it is s.
LEMMA Inserted ==
  ASSUME NEW s \in Seq(Byte), NEW i \in 1..Len(s), NEW b \in Byte
  PROVE  \E t \in Seq(Byte) : t = InsertAt(s, i, b) /\ IsWithout(s, t, i) /\ t[i] = b
<1>1. PICK h \in Nat, m \in Nat : h = i - 1 /\ m = Len(s) /\ i \in 1..m
  <2>1. i - 1 \in Nat /\ Len(s) \in Nat
    OBVIOUS
  <2>2. QED
    BY <2>1, Zenon
<1>2. h + 1 = i /\ h <= Len(s) /\ i \in Nat /\ 0 <= h /\ 0 + 1 = 1 /\ h - 0 = h
  BY <1>1
<1>3. PICK a \in Seq(Byte) : /\ a = SubSeq(s, 1, i - 1) /\ Len(a) = h
                             /\ \A j \in 1..h : a[j] = s[0 + j]
  <2>1. /\ SubSeq(s, 0 + 1, h) \in Seq(Byte) /\ Len(SubSeq(s, 0 + 1, h)) = h - 0
        /\ \A j \in 1..h - 0 : SubSeq(s, 0 + 1, h)[j] = s[0 + j]
    BY <1>2, Slice
  <2>2. QED
    BY <1>1, <1>2, <2>1, Zenon
<1>4. PICK d \in Seq(Byte) : d = SubSeq(s, i, Len(s)) /\ IsRest(d, s, h)
  <2>1. SubSeq(s, h + 1, Len(s)) = SubSeq(s, i, Len(s))
    BY <1>2, Zenon
  <2>2. IsRest(SubSeq(s, h + 1, Len(s)), s, h)
    BY <1>2, RestSlice, Zenon
  <2>3. QED
    BY <2>1, <2>2, Zenon DEF IsRest
<1>5. PICK n \in Nat : n = Len(d) /\ n = m - h
  <2>1. Len(d) = Len(s) - h
    BY <1>4, Zenon DEF IsRest
  <2>2. Len(d) \in Nat
    OBVIOUS
  <2>3. QED
    BY <1>1, <2>1, <2>2, Zenon
<1>6. PICK e \in Seq(Byte) : e = <<b>> /\ Len(e) = 1 /\ e[1] = b
  <2>1. <<b>> \in Seq(Byte) /\ Len(<<b>>) = 1 /\ <<b>>[1] = b
    OBVIOUS
  <2>2. QED
    BY <2>1, Zenon
<1>7. PICK u \in Seq(Byte) : IsJoin(u, a, e, h, 1)
  BY <1>3, <1>6, Joins, Zenon
<1>8. Len(u) = i /\ u[i] = b /\ \A j \in 1..h : u[j] = a[j]
  <2>1. 1 \in 1..1
    OBVIOUS
  <2>2. QED
    BY <1>2, <1>6, <1>7, <2>1, Zenon DEF IsJoin
<1>9. PICK t \in Seq(Byte) : IsJoin(t, u, d, i, n)
  BY <1>5, <1>8, Joins, Zenon
<1>10. t = InsertAt(s, i, b) /\ Len(t) = i + n
  BY <1>3, <1>4, <1>6, <1>7, <1>9, Zenon DEF IsJoin, InsertAt
<1>11. Len(s) + 1 = Len(t)
  BY <1>1, <1>5, <1>10
<1>12. t[i] = b
  <2>1. i \in 1..i
    BY <1>1
  <2>2. QED
    BY <1>8, <1>9, <2>1, Zenon DEF IsJoin
<1>13. ASSUME NEW j \in 1..i - 1
       PROVE  s[j] = t[j]
  <2>1. j \in 1..h /\ 0 + j = j /\ j \in 1..i
    BY <1>1
  <2>2. QED
    BY <1>3, <1>8, <1>9, <2>1, ZenonT(30) DEF IsJoin
<1>14. ASSUME NEW j \in i..Len(s)
       PROVE  s[j] = t[j + 1]
  <2>1. /\ j - h \in 1..n /\ j - h \in 1..Len(s) - h /\ h + (j - h) = j
        /\ i + (j - h) = j + 1
    BY <1>1, <1>5
  <2>2. d[j - h] = s[h + (j - h)]
    BY <1>4, <2>1, Zenon DEF IsRest
  <2>3. t[i + (j - h)] = d[j - h]
    BY <1>9, <2>1, Zenon DEF IsJoin
  <2>4. QED
    BY <2>1, <2>2, <2>3, Zenon
<1>15. QED
  BY <1>10, <1>11, <1>12, <1>13, <1>14, Zenon DEF IsWithout

\* What Damage does to the wire.
Loses(i) == IsWithout(wire', wire, i)
Gains(i) == /\ IsWithout(wire, wire', i) /\ wire'[i] \notin {COLON, wire[i]}
            /\ Len(ring) + i > 1

LEMMA Damages ==
  ASSUME TypeOK, Damage
  PROVE  wire' \in Seq(Byte) /\ \E i \in 1..Len(wire) : Loses(i) \/ Gains(i)
<1>1. wire \in Seq(Byte)
  BY BasicsParts, Zenon
<1>2. PICK i \in 1..Len(wire) :
        \/ wire' = RemoveAt(wire, i)
        \/ Len(ring) + i > 1 /\ \E b \in StrayByte \ {wire[i]} : wire' = InsertAt(wire, i, b)
  BY Zenon DEF Damage
<1>3. CASE wire' = RemoveAt(wire, i)
  BY <1>1, <1>3, Removed, Zenon DEF Loses, IsWithout
<1>4. CASE Len(ring) + i > 1 /\ \E b \in StrayByte \ {wire[i]} : wire' = InsertAt(wire, i, b)
  <2>1. PICK b \in StrayByte \ {wire[i]} : wire' = InsertAt(wire, i, b)
    BY <1>4, Zenon
  <2>2. b \in Byte /\ b \notin {COLON, wire[i]}
    BY StrayAssumption
  <2>3. PICK t \in Seq(Byte) : t = InsertAt(wire, i, b) /\ IsWithout(wire, t, i) /\ t[i] = b
    BY <1>1, <2>2, Inserted, Zenon
  <2>4. QED
    BY <1>4, <2>1, <2>2, <2>3, Zenon DEF Gains
<1>5. QED
  BY <1>2, <1>3, <1>4, Zenon

LEMMA StepBasics ==
  ASSUME Basics, [Next]_vars
  PROVE  Basics'
<1>1. TypeOK /\ Meant /\ FitsMessage /\ IoOfDevice
  BY DEF Basics
<1>2. ASSUME NEW d \in Devices, NEW f \in Fields[protocol], Ask(d, f, <<>>)
      PROVE  Basics'
  <2>1. f \in Byte /\ <<>> \in Written \cup {<<>>}
    BY <1>1, BasicsParts, FieldIsByte
  <2>2. QED
    BY <1>2, <2>1, AskBasics, Zenon
<1>3. ASSUME protocol = "cooler", NEW d \in Devices, NEW s \in Written, Ask(d, WRITE, s)
      PROVE  Basics'
  <2>1. WRITE \in Byte /\ s \in Written \cup {<<>>} /\ protocol # "vacuum"
    BY <1>3, ConstantsAssumption
  <2>2. QED
    BY <1>3, <2>1, AskBasics, Zenon
<1>4. CASE Noise
  <2>1. wire' \in Seq(Byte)
    <3>1. PICK s \in Seq(Byte) : wire' = wire \o s
      BY <1>1, <1>4, NoiseWire, Zenon
    <3>2. wire \in Seq(Byte)
      BY <1>1, BasicsParts, Zenon
    <3>3. QED
      BY <3>1, <3>2, Joined, Zenon
  <2>2. noise' \in 0..MaxNoise
    BY <1>1, <1>4, ConstantsAssumption DEF Noise, TypeOK
  <2>3. UNCHANGED <<protocol, asked, msg, answered, ring, io, dirty, log, damaged, exchanges>>
    BY <1>4, Zenon DEF Noise
  <2>4. TypeOK'
    BY <1>1, <2>1, <2>2, <2>3, BasicsParts, Zenon DEF TypeOK
  <2>5. QED
    BY <1>1, <2>3, <2>4, KeepsMeant, Zenon DEF Basics, IoOfDevice
<1>5. CASE Damage
  <2>1. wire' \in Seq(Byte)
    BY <1>1, <1>5, BasicsParts, Damages, Zenon
  <2>2. UNCHANGED <<protocol, asked, msg, answered, ring, io, dirty, log, noise, exchanges>>
        /\ damaged' = TRUE
    BY <1>5, Zenon DEF Damage
  <2>3. TypeOK'
    BY <1>1, <2>1, <2>2, BasicsParts, Zenon DEF TypeOK
  <2>4. QED
    BY <1>1, <2>2, <2>3, KeepsMeant, Zenon DEF Basics, IoOfDevice
<1>6. ASSUME NEW n \in ReadSizes, n <= Len(wire), Receive(n)
      PROVE  Basics'
  <2>1. /\ wire' \in Seq(Byte) /\ ring' \in Seq(Byte) /\ Len(ring') <= Capacity
        /\ asked' = asked \/ asked' = None
    BY <1>1, <1>6, ReceivedType, Zenon
  <2>2. UNCHANGED <<protocol, msg, answered, dirty, log, noise, damaged, exchanges>>
    BY <1>6, Received, Zenon
  <2>3. TypeOK'
    BY <1>1, <2>1, <2>2, BasicsParts, Zenon DEF TypeOK
  <2>4. IoOfDevice'
    BY <1>6, ReceivedIo, Zenon
  <2>5. QED
    BY <1>1, <2>1, <2>2, <2>3, <2>4, KeepsMeant, Zenon DEF Basics
<1>7. CASE SetValue
  <2>1. /\ asked' = asked \/ asked' = None
        /\ UNCHANGED <<protocol, msg, answered, wire, ring, dirty, log, noise, damaged, exchanges>>
    BY <1>7, Zenon DEF SetValue
  <2>2. TypeOK'
    BY <1>1, <2>1, BasicsParts, Zenon DEF TypeOK
  <2>3. IoOfDevice'
    <3>1. io # None /\ (io' = None \/ io' = [io EXCEPT !.step = "dirty"])
      BY <1>7, Zenon DEF SetValue
    <3>2. PICK r, step : io = [r |-> r, step |-> step] /\ r.idd \in Devices
      BY <1>1, <3>1, Zenon DEF IoOfDevice
    <3>3. io' = None \/ io' = [r |-> r, step |-> "dirty"]
      BY <3>1, <3>2
    <3>4. QED
      BY <3>2, <3>3 DEF IoOfDevice
  <2>4. QED
    BY <1>1, <2>1, <2>2, <2>3, KeepsMeant, Zenon DEF Basics
<1>8. CASE SetDirty
  <2>1. /\ asked' = None /\ io' = None /\ dirty' = dirty \cup {io.r.idd} /\ io # None
        /\ UNCHANGED <<protocol, msg, answered, wire, ring, log, noise, damaged, exchanges>>
    BY <1>8, Zenon DEF SetDirty
  <2>1a. dirty' \subseteq Devices
    BY <1>1, <2>1, BasicsParts, Zenon DEF IoOfDevice
  <2>2. TypeOK'
    BY <1>1, <2>1, <2>1a, BasicsParts, Zenon DEF TypeOK
  <2>3. QED
    BY <1>1, <2>1, <2>2, KeepsMeant, Zenon DEF Basics, IoOfDevice
<1>9. ASSUME NEW d \in Devices, LogClear(d)
      PROVE  Basics'
  <2>1. /\ dirty' = dirty \ {d} /\ log' = d
        /\ UNCHANGED <<protocol, asked, msg, answered, wire, ring, io, noise, damaged, exchanges>>
    BY <1>9, Zenon DEF LogClear
  <2>2. dirty' \subseteq Devices
    BY <1>1, <2>1, BasicsParts, Zenon
  <2>3. TypeOK'
    BY <1>1, <2>1, <2>2, BasicsParts, Zenon DEF TypeOK
  <2>4. QED
    BY <1>1, <2>1, <2>3, KeepsMeant, Zenon DEF Basics, IoOfDevice
<1>10. CASE LogPrint
  <2>1. /\ log' = None
        /\ UNCHANGED <<protocol, asked, msg, answered, wire, ring, io, dirty, noise, damaged, exchanges>>
    BY <1>10, Zenon DEF LogPrint
  <2>2. TypeOK'
    BY <1>1, <2>1, BasicsParts, Zenon DEF TypeOK
  <2>3. QED
    BY <1>1, <2>1, <2>2, KeepsMeant, Zenon DEF Basics, IoOfDevice
<1>11. CASE UNCHANGED vars
  <2>1. UNCHANGED <<protocol, asked, msg, answered, wire, ring, io, dirty, log, noise, damaged, exchanges>>
    BY <1>11, Zenon DEF vars
  <2>2. TypeOK'
    BY <1>1, <2>1, BasicsParts, Zenon DEF TypeOK
  <2>3. QED
    BY <1>1, <2>1, <2>2, KeepsMeant, Zenon DEF Basics, IoOfDevice
<1>12. QED
  BY <1>2, <1>3, <1>4, <1>5, <1>6, <1>7, <1>8, <1>9, <1>10, <1>11, AnswerBasics, Zenon DEF Next

\* Every state has its types, and its directive is the one that was meant, fits its
\* array, and is what its device reads.
THEOREM BasicsHold == Spec => []Basics
<1>1. Init => Basics
  BY InitBasics
<1>2. Basics /\ [Next]_vars => Basics'
  BY StepBasics
<1>3. QED
  BY <1>1, <1>2, PTL DEF Spec

\* The ring never has more than its capacity, what is read and left of it are bytes,
\* and only devices are marked for the log (SerialComm::handle_read, the setters).
THEOREM TypeCorrect == Spec => []TypeOK
<1>1. Basics => TypeOK
  BY DEF Basics
<1>2. QED
  BY <1>1, BasicsHold, PTL

\* No directive outgrows Directive::msg, whatever the device, the function and a
\* number of at most ten characters (first_send).
THEOREM MessagesFit == Spec => []FitsMessage
<1>1. Basics => FitsMessage
  BY DEF Basics
<1>2. QED
  BY <1>1, BasicsHold, PTL

-----------------------------------------------------------------------------
(* serial_read on a ring: what it looks at, and what it makes of it. *)

\* A refused frame changes nothing, a reading goes to its setter or ends the exchange.
Heeds(r) ==
  IF r.ok /\ r.idd \in Devices /\ r.idf \in Fields[protocol]
    THEN io' = [r |-> r, step |-> "value"] /\ asked' = asked
    ELSE io' = None /\ asked' = IF r.ok THEN None ELSE asked

Ignores == io' = None /\ asked' = asked

LEMMA RefusedIsIgnored ==
  ASSUME Heeds(Refused)
  PROVE  Ignores
<1>1. Refused.ok = FALSE
  BY DEF Refused
<1>2. QED
  BY <1>1, Zenon DEF Heeds, Ignores

LEMMA TakenNone ==
  ASSUME NEW full, Taken(full), ~(Places(full).tail > Places(full).head)
  PROVE  ring' = full /\ Ignores
<1>1. Refused.ok = FALSE
  BY DEF Refused
<1>2. QED
  BY <1>1, Zenon DEF Taken, Ignores

\* Without a head the tail counts as found at 0, after it, and nothing is read.
LEMMA TakenNoHead ==
  ASSUME NEW full, Taken(full), Places(full).head = -1, Places(full).tail = 0,
         protocol = "cooler"
  PROVE  ring' = full /\ Ignores
<1>1. Places(full).tail > Places(full).head
  OBVIOUS
<1>2. PICK len : len = Places(full).tail - Places(full).head + Len(tail_)
  OBVIOUS
<1>3. Read(full, len, -1) = [frame |-> <<>>, ring |-> full]
  BY ReadNothing, Zenon
<1>4. Read(full, len, -1).frame = <<>> /\ Read(full, len, -1).ring = full
  BY <1>3
<1>5. Decode(<<>>) = Refused
  <2>1. <<>> \in Seq(Byte) /\ Len(<<>>) % 2 = 0
    OBVIOUS
  <2>2. QED
    BY <2>1, CoolerRefuses, Zenon DEF Decode
<1>6. ring' = full
  BY <1>1, <1>2, <1>4, Zenon DEF Taken
<1>7. Refused.ok = FALSE
  BY DEF Refused
<1>8. Ignores
  BY <1>1, <1>2, <1>4, <1>5, <1>7, Zenon DEF Taken, Ignores
<1>9. QED
  BY <1>6, <1>8, Zenon

\* f is what r has of it after its first head bytes.
IsPart(f, r, head, len) ==
  f \in Seq(Byte) /\ Len(f) = len /\ \A i \in 1..len : f[i] = r[head + i]

LEMMA TakenFrame ==
  ASSUME NEW full \in Seq(Byte), Taken(full), NEW head \in Nat, NEW tail \in Nat,
         Places(full).head = head, Places(full).tail = tail, tail > head,
         NEW last \in Nat, last = tail + Len(tail_), last <= Len(full)
  PROVE  \E f : /\ IsPart(f, full, head, last - head)
                /\ IsRest(ring', full, last)
                /\ Heeds(Decode(f))
<1>1. PICK len \in Nat : /\ len = tail - head + Len(tail_) /\ len >= 1
                         /\ head + len = last /\ len = last - head
  BY Ends
<1>2. PICK got : got = Read(full, len, head)
  OBVIOUS
<1>3. /\ got.frame \in Seq(Byte) /\ Len(got.frame) = len
      /\ \A i \in 1..len : got.frame[i] = full[head + i]
      /\ IsRest(got.ring, full, last)
  <2>1. head + len <= Len(full)
    BY <1>1
  <2>2. /\ Read(full, len, head).frame \in Seq(Byte) /\ Len(Read(full, len, head).frame) = len
        /\ \A i \in 1..len : Read(full, len, head).frame[i] = full[head + i]
        /\ IsRest(Read(full, len, head).ring, full, head + len)
    BY <1>1, <2>1, ReadTakes, ZenonT(30)
  <2>3. QED
    BY <1>1, <1>2, <2>2, Zenon
<1>4. ring' = got.ring
  BY <1>1, <1>2, Zenon DEF Taken
<1>5. Heeds(Decode(got.frame))
  BY <1>1, <1>2, Zenon DEF Taken, Heeds
<1>6. IsPart(got.frame, full, head, last - head)
  BY <1>1, <1>3, Zenon DEF IsPart
<1>7. QED
  BY <1>3, <1>4, <1>5, <1>6, Zenon

-----------------------------------------------------------------------------
(* A cooler's line: ':' is only where a frame begins, and LF only where it ends. *)

OneFlag(r, c, p) == p + 1 <= Len(r) /\ r[p + 1] = c
TwoFlags(r, c, e, p) == p + 2 <= Len(r) /\ r[p + 1] = c /\ r[p + 2] = e

LEMMA OneAt ==
  ASSUME NEW r, NEW c, NEW p
  PROVE  IsAt(r, <<c>>, p) <=> OneFlag(r, c, p)
<1>1. Len(<<c>>) = 1 /\ <<c>>[1] = c /\ 1 \in 1..1 /\ \A i \in 1..1 : i = 1
  OBVIOUS
<1>2. QED
  BY <1>1, Zenon DEF IsAt, OneFlag

LEMMA TwoAt ==
  ASSUME NEW r, NEW c, NEW e, NEW p
  PROVE  IsAt(r, <<c, e>>, p) <=> TwoFlags(r, c, e, p)
<1>1. /\ Len(<<c, e>>) = 2 /\ <<c, e>>[1] = c /\ <<c, e>>[2] = e /\ 1 \in 1..2 /\ 2 \in 1..2
      /\ \A i \in 1..2 : i = 1 \/ i = 2
  OBVIOUS
<1>2. QED
  BY <1>1, Zenon DEF IsAt, TwoFlags

HeadAt(s, k) == \A i \in 1..Len(s) : s[i] = COLON => i = k + 1
NoHead(s) == \A i \in 1..Len(s) : s[i] # COLON

\* What matters of a cooler's frame.
Framed(g) ==
  /\ g \in Seq(Byte) /\ Len(g) >= 9 /\ g[1] = COLON /\ Len(g) % 2 = 1
  /\ g[Len(g) - 1] = CR /\ g[Len(g)] = LF
  /\ \A i \in 2..Len(g) - 2 : g[i] \in HexChar

LEMMA CoolerFramed ==
  ASSUME NEW g, NEW idd, NEW idf, NEW text \in Seq(Byte), CoolerShape(g, idd, idf, text)
  PROVE  Framed(g)
<1>1. PICK l \in Nat : l = Len(text)
  OBVIOUS
<1>2. /\ g \in Seq(Byte) /\ Len(g) = 9 + 2 * l /\ g[8 + 2 * l] = CR /\ g[9 + 2 * l] = LF
      /\ \A i \in 2..7 + 2 * l : g[i] \in HexChar
  BY <1>1, Zenon DEF CoolerShape, SaysCooler
<1>3. g[1] = COLON
  BY Zenon DEF CoolerShape, SaysCooler
<1>4. PICK n \in Nat : n = 9 + 2 * l
  OBVIOUS
<1>5. n >= 9 /\ n % 2 = 1 /\ n - 1 = 8 + 2 * l /\ n - 2 = 7 + 2 * l
  BY <1>4
<1>6. QED
  BY <1>2, <1>3, <1>4, <1>5, Zenon DEF Framed

LEMMA PlacesNoHead ==
  ASSUME protocol = "cooler", NEW r \in Seq(Byte), NoHead(r)
  PROVE  Places(r).head = -1 /\ Places(r).tail = 0
<1>1. head_ = <<COLON>> /\ head_ # <<>>
  BY DEF head_
<1>2. ASSUME NEW p \in Nat
      PROVE  ~IsAt(r, head_, p)
  <2>1. SUFFICES ASSUME OneFlag(r, COLON, p)
                 PROVE  FALSE
    BY <1>1, OneAt, Zenon
  <2>2. p + 1 \in 1..Len(r)
    BY <2>1 DEF OneFlag
  <2>3. QED
    BY <2>1, <2>2, Zenon DEF OneFlag, NoHead
<1>3. Lookup(r, head_, 0) = -1
  BY <1>2, Ends, LookupNone
<1>4. Places(r) = [head |-> -1, tail |-> 0]
  <2>1. ~(-1 >= 0)
    OBVIOUS
  <2>2. QED
    BY <1>1, <1>3, <2>1, Zenon DEF Places
<1>5. QED
  BY <1>4

LEMMA PlacesHead ==
  ASSUME protocol = "cooler", NEW r \in Seq(Byte), NEW k \in Nat, HeadAt(r, k),
         k < Len(r), r[k + 1] = COLON
  PROVE  Places(r).head = k /\ Places(r).tail = Lookup(r, <<CR, LF>>, k)
<1>1. head_ = <<COLON>> /\ head_ # <<>> /\ tail_ = <<CR, LF>>
  BY DEF head_, tail_
<1>2. IsAt(r, head_, k)
  <2>1. k + 1 <= Len(r)
    OBVIOUS
  <2>2. QED
    BY <1>1, <2>1, OneAt, Zenon DEF OneFlag
<1>3. ASSUME NEW p \in 0..k - 1
      PROVE  ~IsAt(r, head_, p)
  <2>1. SUFFICES ASSUME OneFlag(r, COLON, p)
                 PROVE  FALSE
    BY <1>1, OneAt, Zenon
  <2>2. p + 1 \in 1..Len(r) /\ p + 1 # k + 1
    BY <2>1 DEF OneFlag
  <2>3. QED
    BY <2>1, <2>2, Zenon DEF OneFlag, HeadAt
<1>4. Lookup(r, head_, 0) = k
  BY <1>2, <1>3, Ends, LookupFirst
<1>5. Places(r) = [head |-> k, tail |-> Lookup(r, <<CR, LF>>, k)]
  <2>1. k >= 0
    OBVIOUS
  <2>2. QED
    BY <1>1, <1>4, <2>1, Zenon DEF Places
<1>6. QED
  BY <1>5

Begins(r, s) == Len(r) <= Len(s) /\ \A i \in 1..Len(r) : r[i] = s[i]

\* The frame g is in the line after k bytes, and no other begins there.
CoolerDue(s, g, k) == k \in Nat /\ IsAt(s, g, k) /\ HeadAt(s, k)

LEMMA HeadOfPrefix ==
  ASSUME NEW r \in Seq(Byte), NEW s \in Seq(Byte), Begins(r, s), NEW k, HeadAt(s, k)
  PROVE  HeadAt(r, k)
<1>1. \A i \in 1..Len(r) : i \in 1..Len(s)
  BY DEF Begins
<1>2. QED
  BY <1>1, Zenon DEF Begins, HeadAt

LEMMA CoolerIncomplete ==
  ASSUME protocol = "cooler", NEW full \in Seq(Byte), NEW s \in Seq(Byte), Begins(full, s),
         NEW g, Framed(g), NEW k, CoolerDue(s, g, k), Len(full) < k + Len(g), Taken(full)
  PROVE  ring' = full /\ Ignores
<1>1. PICK m \in Nat, n \in Nat : m = Len(full) /\ n = Len(g)
  BY DEF Framed
<1>2. k \in Nat /\ m < k + n /\ m <= Len(s) /\ k + n <= Len(s) /\ n >= 9
  BY <1>1, Zenon DEF CoolerDue, IsAt, Begins, Framed
<1>3. HeadAt(full, k)
  BY HeadOfPrefix, Zenon DEF CoolerDue
<1>4. CASE m <= k
  <2>1. \A i \in 1..m : i # k + 1
    BY <1>2, <1>4
  <2>2. NoHead(full)
    BY <1>1, <1>3, <2>1, Zenon DEF NoHead, HeadAt
  <2>3. Places(full).head = -1 /\ Places(full).tail = 0
    BY <2>2, PlacesNoHead, Zenon
  <2>4. QED
    BY <2>3, TakenNoHead, Zenon
<1>5. CASE k < m
  <2>1. k + 1 \in 1..m /\ 1 \in 1..n
    BY <1>2, <1>5
  <2>2. full[k + 1] = COLON
    BY <1>1, <2>1, Zenon DEF CoolerDue, IsAt, Begins, Framed
  <2>3. Places(full).head = k /\ Places(full).tail = Lookup(full, <<CR, LF>>, k)
    BY <1>1, <1>2, <1>3, <1>5, <2>2, PlacesHead, Zenon
  <2>4. ASSUME NEW p \in Nat, p >= k
        PROVE  ~IsAt(full, <<CR, LF>>, p)
    <3>1. SUFFICES ASSUME TwoFlags(full, CR, LF, p)
                   PROVE  FALSE
      BY TwoAt, Zenon
    <3>2. p + 2 <= m /\ full[p + 1] = CR
      BY <1>1, <3>1, Zenon DEF TwoFlags
    <3>3. PICK j \in Nat : j = (p - k) + 1
      BY <1>2, <2>4
    <3>4. p + 1 \in 1..m /\ j \in 1..n /\ k + j = p + 1 /\ j <= n - 2
      BY <1>2, <2>4, <3>2, <3>3
    <3>5. g[j] = CR
      BY <1>1, <3>2, <3>4, Zenon DEF CoolerDue, IsAt, Begins
    <3>6. j = 1 \/ j \in 2..n - 2
      BY <3>4
    <3>7. j = 1 => g[j] = COLON
      BY Zenon DEF Framed
    <3>8. j \in 2..n - 2 => g[j] \in HexChar
      BY <1>1, Zenon DEF Framed
    <3>9. QED
      BY <3>5, <3>6, <3>7, <3>8 DEF CR, COLON, HexChar
  <2>5. Lookup(full, <<CR, LF>>, k) = -1
    <3>1. <<CR, LF>> \in Seq(Byte)
      BY DEF CR, LF, Byte
    <3>2. QED
      BY <1>2, <2>4, <3>1, LookupNone, Zenon
  <2>6. ~(-1 > k)
    BY <1>2
  <2>7. QED
    BY <2>3, <2>5, <2>6, TakenNone, Zenon
<1>6. QED
  BY <1>2, <1>4, <1>5

LEMMA CoolerComplete ==
  ASSUME protocol = "cooler", NEW full \in Seq(Byte), NEW s \in Seq(Byte), Begins(full, s),
         NEW g, Framed(g), NEW k, CoolerDue(s, g, k), k + Len(g) <= Len(full), Taken(full)
  PROVE  /\ IsRest(ring', full, k + Len(g))
         /\ Heeds(Decode(g))
<1>1. PICK m \in Nat, n \in Nat : m = Len(full) /\ n = Len(g)
  BY DEF Framed
<1>2. k \in Nat /\ k + n <= m /\ n >= 9
  BY <1>1, Zenon DEF CoolerDue, Framed
<1>3. HeadAt(full, k)
  BY HeadOfPrefix, Zenon DEF CoolerDue
<1>4. \A j \in 1..n : full[k + j] = g[j]
  <2>1. \A j \in 1..n : k + j \in 1..m
    BY <1>2
  <2>2. QED
    BY <1>1, <2>1, Zenon DEF CoolerDue, IsAt, Begins
<1>5. PICK t \in Nat : t = (k + n) - 2
  BY <1>2
<1>6. /\ t > k /\ t + 2 = k + n /\ t + 2 <= m /\ k < m /\ 1 \in 1..n
      /\ n - 1 \in 1..n /\ n \in 1..n /\ k + (n - 1) = t + 1 /\ t >= k
  BY <1>2, <1>5
<1>7. full[k + 1] = COLON /\ full[t + 1] = CR /\ full[t + 2] = LF
  BY <1>1, <1>4, <1>6, Zenon DEF Framed
<1>8. Places(full).head = k /\ Places(full).tail = Lookup(full, <<CR, LF>>, k)
  BY <1>1, <1>2, <1>3, <1>6, <1>7, PlacesHead, Zenon
<1>9. Lookup(full, <<CR, LF>>, k) = t
  <2>1. <<CR, LF>> \in Seq(Byte)
    BY DEF CR, LF, Byte
  <2>2. IsAt(full, <<CR, LF>>, t)
    <3>1. TwoFlags(full, CR, LF, t)
      BY <1>1, <1>6, <1>7, Zenon DEF TwoFlags
    <3>2. QED
      BY <3>1, TwoAt, Zenon
  <2>3. ASSUME NEW p \in k..t - 1
        PROVE  ~IsAt(full, <<CR, LF>>, p)
    <3>1. SUFFICES ASSUME TwoFlags(full, CR, LF, p)
                   PROVE  FALSE
      BY TwoAt, Zenon
    <3>2. PICK j \in Nat : j = (p - k) + 1
      BY <1>2
    <3>3. j \in 1..n /\ k + j = p + 1 /\ j <= n - 2
      BY <1>2, <1>5, <3>2
    <3>4. g[j] = CR
      BY <1>4, <3>1, <3>3, Zenon DEF TwoFlags
    <3>5. j = 1 \/ j \in 2..n - 2
      BY <3>3
    <3>6. j = 1 => g[j] = COLON
      BY Zenon DEF Framed
    <3>7. j \in 2..n - 2 => g[j] \in HexChar
      BY <1>1, Zenon DEF Framed
    <3>8. QED
      BY <3>4, <3>5, <3>6, <3>7 DEF CR, COLON, HexChar
  <2>4. QED
    BY <1>2, <1>6, <2>1, <2>2, <2>3, LookupFirst, Zenon
<1>10. PICK last \in Nat : last = t + Len(tail_) /\ last = k + n /\ last <= Len(full)
  <2>1. Len(tail_) = 2
    BY DEF tail_
  <2>2. QED
    BY <1>1, <1>2, <1>6, <2>1
<1>11. PICK f : /\ IsPart(f, full, k, last - k) /\ IsRest(ring', full, last)
                /\ Heeds(Decode(f))
  BY <1>2, <1>6, <1>8, <1>9, <1>10, TakenFrame, Zenon
<1>12. f = g
  <2>1. last - k = n
    BY <1>2, <1>10
  <2>2. f \in Seq(Byte) /\ Len(f) = n /\ \A j \in 1..n : f[j] = g[j]
    BY <1>4, <1>11, <2>1, Zenon DEF IsPart
  <2>3. g \in Seq(Byte)
    BY Zenon DEF Framed
  <2>4. QED
    BY <1>1, <2>2, <2>3, SameBytes, Zenon
<1>13. QED
  BY <1>1, <1>10, <1>11, <1>12, Zenon

\* The byte of t at i was c places further in s.
Was(t, s, c, i) == i \in Nat /\ i >= 1 /\ c \in Nat /\ c + i \in 1..Len(s) /\ t[i] = s[c + i]

LEMMA RestPlaces ==
  ASSUME NEW s \in Seq(Byte), NEW t, NEW c, IsRest(t, s, c), NEW i \in 1..Len(t)
  PROVE  Was(t, s, c, i)
<1>1. PICK m \in Nat : m = Len(s)
  OBVIOUS
<1>2. t \in Seq(Byte) /\ c \in Nat /\ Len(t) = m - c
  BY <1>1, Zenon DEF IsRest
<1>3. c + i \in 1..m /\ i \in 1..m - c /\ i \in Nat /\ i >= 1
  BY <1>2
<1>4. t[i] = s[c + i]
  BY <1>1, <1>3, Zenon DEF IsRest
<1>5. QED
  BY <1>1, <1>2, <1>3, <1>4, Zenon DEF Was

LEMMA HeadOfRest ==
  ASSUME NEW s \in Seq(Byte), NEW t, NEW c, IsRest(t, s, c), NEW k \in Nat, c <= k, HeadAt(s, k)
  PROVE  HeadAt(t, k - c)
<1>1. ASSUME NEW i \in 1..Len(t), t[i] = COLON
      PROVE  i = (k - c) + 1
  <2>0. Was(t, s, c, i)
    BY RestPlaces, Zenon
  <2>1. c \in Nat /\ c + i = k + 1
    BY <1>1, <2>0, Zenon DEF HeadAt, Was
  <2>2. i \in Nat
    BY <2>0 DEF Was
  <2>3. QED
    BY <2>1, <2>2
<1>2. QED
  BY <1>1, Zenon DEF HeadAt

LEMMA NoHeadOfRest ==
  ASSUME NEW s \in Seq(Byte), NEW t, NEW c, IsRest(t, s, c), NoHead(s)
  PROVE  NoHead(t)
<1>1. ASSUME NEW i \in 1..Len(t)
      PROVE  t[i] # COLON
  <2>1. Was(t, s, c, i)
    BY RestPlaces, Zenon
  <2>2. QED
    BY <2>1, Zenon DEF NoHead, Was
<1>2. QED
  BY <1>1, Zenon DEF NoHead

LEMMA NoHeadAfter ==
  ASSUME NEW s \in Seq(Byte), NEW t, NEW c, IsRest(t, s, c), NEW k \in Nat, k < c, HeadAt(s, k)
  PROVE  NoHead(t)
<1>1. ASSUME NEW i \in 1..Len(t), t[i] = COLON
      PROVE  FALSE
  <2>0. Was(t, s, c, i)
    BY RestPlaces, Zenon
  <2>1. c \in Nat /\ c + i = k + 1
    BY <1>1, <2>0, Zenon DEF HeadAt, Was
  <2>2. i \in Nat /\ i >= 1
    BY <2>0 DEF Was
  <2>3. QED
    BY <2>1, <2>2
<1>2. QED
  BY <1>1, Zenon DEF NoHead

\* A frame in the line is in what is left of it, c places nearer.
LEMMA FrameOfRest ==
  ASSUME NEW s \in Seq(Byte), NEW t, NEW c, IsRest(t, s, c), NEW g \in Seq(Byte),
         NEW k \in Nat, c <= k, IsAt(s, g, k)
  PROVE  k - c \in Nat /\ IsAt(t, g, k - c)
<1>1. PICK m \in Nat, n \in Nat : m = Len(s) /\ n = Len(g)
  OBVIOUS
<1>2. c \in Nat /\ Len(t) = m - c /\ k + n <= m
  BY <1>1, Zenon DEF IsAt, IsRest
<1>3. k - c \in Nat /\ (k - c) + n <= m - c
  BY <1>2
<1>4. ASSUME NEW i \in 1..n
      PROVE  t[(k - c) + i] = g[i]
  <2>1. (k - c) + i \in 1..m - c /\ c + ((k - c) + i) = k + i
    BY <1>2
  <2>2. t[(k - c) + i] = s[c + ((k - c) + i)]
    BY <1>1, <2>1, Zenon DEF IsRest
  <2>3. s[k + i] = g[i]
    BY <1>1, Zenon DEF IsAt
  <2>4. QED
    BY <2>1, <2>2, <2>3, Zenon
<1>5. QED
  BY <1>1, <1>2, <1>3, <1>4, Zenon DEF IsAt

\* A cooler's line that has lost a byte has no frame of a length that is decoded.
Broken(s) ==
  /\ Len(s) <= Capacity
  /\ \A i \in 1..Len(s) : s[i] = COLON => i = 1 /\ Len(s) % 2 = 0
  /\ \A i \in 1..Len(s) - 1 : s[i] = CR /\ s[i + 1] = LF => i + 1 = Len(s)

LEMMA BrokenTaken ==
  ASSUME protocol = "cooler", NEW full \in Seq(Byte), NEW s \in Seq(Byte), Begins(full, s),
         Broken(s), Taken(full)
  PROVE  /\ Ignores
         /\ \/ ring' = full
            \/ Len(full) = Len(s) /\ IsRest(ring', full, Len(full))
<1>1. PICK m \in Nat, n \in Nat : m = Len(full) /\ n = Len(s)
  OBVIOUS
<1>2. /\ m <= n /\ \A i \in 1..m : full[i] = s[i]
  BY <1>1, Zenon DEF Begins
<1>3. \A i \in 1..m : i \in 1..n
  BY <1>2
<1>4. HeadAt(full, 0)
  <2>1. 1 = 0 + 1
    OBVIOUS
  <2>2. QED
    BY <1>1, <1>2, <1>3, <2>1, Zenon DEF HeadAt, Broken
<1>5. CASE m = 0 \/ full[1] # COLON
  <2>1. NoHead(full)
    <3>1. ASSUME NEW i \in 1..m, full[i] = COLON
          PROVE  FALSE
      <4>1. i = 0 + 1
        BY <1>1, <1>4, <3>1, Zenon DEF HeadAt
      <4>2. i = 1 /\ m # 0
        BY <4>1
      <4>3. QED
        BY <1>5, <3>1, <4>2, Zenon
    <3>2. QED
      BY <1>1, <3>1, Zenon DEF NoHead
  <2>2. QED
    BY <2>1, PlacesNoHead, TakenNoHead, Zenon
<1>6. CASE m # 0 /\ full[1] = COLON
  <2>1. 0 \in Nat /\ 0 < m /\ full[0 + 1] = COLON /\ 1 \in 1..m
    BY <1>6
  <2>2. Places(full).head = 0 /\ Places(full).tail = Lookup(full, <<CR, LF>>, 0)
    BY <1>1, <1>4, <2>1, PlacesHead, Zenon
  <2>3. <<CR, LF>> \in Seq(Byte) /\ Len(tail_) = 2
    BY DEF CR, LF, Byte, tail_
  <2>4. CASE Lookup(full, <<CR, LF>>, 0) = -1
    <3>1. ~(-1 > 0)
      OBVIOUS
    <3>2. QED
      BY <2>2, <2>4, <3>1, TakenNone, Zenon
  <2>5. ASSUME NEW t \in Nat, Lookup(full, <<CR, LF>>, 0) = t, IsAt(full, <<CR, LF>>, t)
        PROVE  /\ Ignores
               /\ Len(full) = Len(s) /\ IsRest(ring', full, Len(full))
    <3>1. t + 2 <= m /\ full[t + 1] = CR /\ full[t + 2] = LF
      <4>1. TwoFlags(full, CR, LF, t)
        BY <2>5, TwoAt, Zenon
      <4>2. QED
        BY <1>1, <4>1, Zenon DEF TwoFlags
    <3>2. /\ t + 1 \in 1..n - 1 /\ t + 1 \in 1..m /\ t + 2 \in 1..m /\ (t + 1) + 1 = t + 2
      BY <1>2, <3>1
    <3>3. s[t + 1] = CR /\ s[(t + 1) + 1] = LF
      BY <1>2, <3>1, <3>2, Zenon
    <3>4. t + 2 = n
      BY <1>1, <3>2, <3>3, Zenon DEF Broken
    <3>5. t # 0
      <4>1. t = 0 => full[1] = CR
        BY <3>1
      <4>2. QED
        BY <1>6, <4>1 DEF CR, COLON
    <3>6. PICK last \in Nat : last = t + Len(tail_) /\ last = m /\ m = n /\ last - 0 = n /\ t > 0
      BY <1>2, <2>3, <3>1, <3>4, <3>5
    <3>7. PICK f : /\ IsPart(f, full, 0, last - 0) /\ IsRest(ring', full, last)
                   /\ Heeds(Decode(f))
      <4>1. last <= Len(full)
        BY <1>1, <3>6
      <4>2. QED
        BY <2>1, <2>2, <2>5, <3>6, <4>1, TakenFrame, Zenon
    <3>8. Decode(f) = Refused
      <4>1. f \in Seq(Byte) /\ Len(f) = n
        BY <3>6, <3>7, Zenon DEF IsPart
      <4>2. n % 2 = 0
        <5>1. s[1] = COLON /\ 1 \in 1..n
          BY <1>2, <1>3, <1>6, <2>1, Zenon
        <5>2. QED
          BY <1>1, <5>1, Zenon DEF Broken
      <4>3. Len(f) % 2 = 0
        BY <4>1, <4>2, Zenon
      <4>4. QED
        BY <4>1, <4>3, CoolerRefuses, Zenon DEF Decode
    <3>9. Ignores
      BY <3>7, <3>8, RefusedIsIgnored, Zenon
    <3>10. QED
      BY <1>1, <3>6, <3>7, <3>9, Zenon
  <2>6. QED
    BY <2>1, <2>3, <2>4, <2>5, LookupCases, Zenon
<1>7. QED
  BY <1>5, <1>6, Zenon

-----------------------------------------------------------------------------
(* A read event on the line. *)

Line == ring \o wire

\* The line after n bytes have come to the ring: t, of which full is in the ring, has
\* lost its first c bytes to a full ring.
Coming(full, t, c, n) ==
  /\ t = full \o wire' /\ Begins(full, t)
  /\ IsRest(t, Line, c) /\ Len(full) + c = Len(ring) + n /\ Len(ring) + n <= Len(Line)
  /\ c = 0 \/ Len(full) = Capacity
  /\ Taken(full)

LEMMA LineType ==
  ASSUME TypeOK
  PROVE  Line \in Seq(Byte) /\ Len(Line) = Len(ring) + Len(wire)
  BY BasicsParts, Joined, Zenon DEF Line

LEMMA Arrival ==
  ASSUME TypeOK, NEW n \in ReadSizes, n <= Len(wire), Receive(n)
  PROVE  \E full \in Seq(Byte), t \in Seq(Byte), c \in Nat : Coming(full, t, c, n)
<1>1. wire \in Seq(Byte) /\ ring \in Seq(Byte) /\ n \in Nat /\ Capacity \in Nat
  BY BasicsParts, RoomAssumption
<1>2. PICK full : full = PushBack(ring, SubSeq(wire, 1, n), Capacity)
  OBVIOUS
<1>3. wire' = SubSeq(wire, n + 1, Len(wire)) /\ Taken(full)
  BY <1>2, Received, Zenon
<1>4. PICK c \in Nat : Arrive(full, wire', Line, c, n, Len(ring), Capacity)
  BY <1>1, <1>2, <1>3, Arrives, Zenon DEF Line
<1>5. /\ IsRest(full \o wire', Line, c) /\ Len(full) + c = Len(ring) + n
      /\ c = 0 \/ Len(full) = Capacity
  BY <1>4, Zenon DEF Arrive
<1>6. wire' \in Seq(Byte)
  BY <1>1, <1>3, RestSlice, Zenon DEF IsRest
<1>7. full \in Seq(Byte)
  <2>1. /\ SubSeq(wire, 0 + 1, n) \in Seq(Byte) /\ 0 + 1 = 1
    BY <1>1, Slice
  <2>2. QED
    BY <1>1, <1>2, <2>1, PushBackType, Zenon
<1>8. PICK a \in Nat, b \in Nat : a = Len(full) /\ b = Len(wire')
  <2>1. Len(full) \in Nat /\ Len(wire') \in Nat
    BY <1>6, <1>7
  <2>2. QED
    BY <2>1, Zenon
<1>9. PICK t \in Seq(Byte) : IsJoin(t, full, wire', a, b)
  BY <1>6, <1>7, <1>8, Joins, Zenon
<1>10. t = full \o wire' /\ Len(t) = a + b /\ \A i \in 1..a : t[i] = full[i]
  BY <1>9, Zenon DEF IsJoin
<1>11. Begins(full, t)
  <2>1. a <= a + b
    OBVIOUS
  <2>2. QED
    BY <1>8, <1>10, <2>1, Zenon DEF Begins
<1>12. Len(ring) + n <= Len(Line)
  <2>1. Len(Line) = Len(ring) + Len(wire)
    BY LineType, Zenon
  <2>2. QED
    BY <1>1, <2>1
<1>13. QED
  BY <1>3, <1>5, <1>7, <1>10, <1>11, <1>12, Zenon DEF Coming

\* What serial_read takes of the ring is gone from the line.
LEMMA LineLeft ==
  ASSUME NEW full \in Seq(Byte), NEW t \in Seq(Byte), NEW c, NEW n, Coming(full, t, c, n),
         wire' \in Seq(Byte), NEW d, IsRest(ring', full, d)
  PROVE  IsRest(Line', t, d)
<1>1. IsRest(ring' \o wire', full \o wire', d)
  BY RestJoin, Zenon
<1>2. QED
  BY <1>1, Zenon DEF Line, Coming

LEMMA LineStays ==
  ASSUME NEW full \in Seq(Byte), NEW t \in Seq(Byte), NEW c, NEW n, Coming(full, t, c, n),
         ring' = full
  PROVE  Line' = t
  BY Zenon DEF Line, Coming

-----------------------------------------------------------------------------
(* The answer under way. *)

Known == Tenths \cup Texts \cup {0, <<>>}

\* What is stored, logged and last said of each device.
StoreTypes ==
  /\ data \in [Devices -> [Fields[protocol] -> Known]]
  /\ truth \in [Devices -> [Fields[protocol] -> Known]]
  /\ logged \in [Devices -> [Fields[protocol] -> Known]]

Queried == asked.idf \in Fields[protocol]
Told == truth[asked.idd][asked.idf]

\* The device has said a value of the function it was asked for.
TruthInv == asked # None /\ answered /\ Queried => Told \in Values(asked.idf)

\* The text and the bytes of the answer under way.
Said == IF Queried THEN Text(asked.idf, Told) ELSE asked.text
Due == AnswerFrame(asked.idd, asked.idf, Said)

Pending == asked # None /\ answered /\ io = None /\ ~damaged

LEMMA SaidType ==
  ASSUME protocol \in Protocol, Meant, TruthInv, asked # None, answered
  PROVE  Said \in Seq(Byte) /\ Said \in Answers /\ (Queried => Said # <<>>)
<1>1. CASE Queried
  <2>1. Told \in Values(asked.idf) /\ Said = Text(asked.idf, Told)
    BY <1>1, Zenon DEF TruthInv, Said
  <2>2. Text(asked.idf, Told) # <<>>
    <3>1. CASE asked.idf = PRES
      <4>1. Told \in Texts /\ Text(asked.idf, Told) = Told
        BY <2>1, <3>1, Zenon DEF Values, Text
      <4>2. QED
        BY <4>1, ConstantsAssumption
    <3>2. CASE asked.idf # PRES
      <4>1. Told \in Tenths /\ Text(asked.idf, Told) = FormatTenths(Told)
        BY <2>1, <3>2, Zenon DEF Values, Text
      <4>2. Told \in Int
        BY <4>1, ConstantsAssumption
      <4>3. PICK s \in Seq(Byte) : s = FormatTenths(Told) /\ Len(s) >= 3
        BY <4>2, TenthsType, Zenon
      <4>4. s # <<>>
        BY <4>3
      <4>5. QED
        BY <4>1, <4>3, <4>4, Zenon
    <3>3. QED
      BY <3>1, <3>2, Zenon
  <2>3. QED
    BY <2>1, <2>2, TextType, TextIsAnswer, Zenon
<1>2. CASE ~Queried
  <2>1. Said = asked.text /\ asked.text \in Written
    BY <1>2, Zenon DEF Said, Meant, Queried
  <2>2. QED
    BY <1>2, <2>1, SettingType, Zenon DEF Answers
<1>3. QED
  BY <1>1, <1>2, Zenon

\* The number or the text that an answer is decoded as is what was said.
LEMMA SaidReads ==
  ASSUME protocol \in Protocol, Meant, TruthInv, asked # None, answered, Queried
  PROVE  /\ asked.idf # PRES => atof(Said) = Told
         /\ asked.idf = PRES => Said = Told
<1>1. Told \in Values(asked.idf) /\ Said = Text(asked.idf, Told)
  BY Zenon DEF TruthInv, Said
<1>2. CASE asked.idf = PRES
  BY <1>1, <1>2, Zenon DEF Text
<1>3. CASE asked.idf # PRES
  <2>1. Told \in Tenths /\ Said = FormatTenths(Told)
    BY <1>1, <1>3, Zenon DEF Values, Text
  <2>2. Told \in Int
    BY <2>1, ConstantsAssumption
  <2>3. QED
    BY <1>3, <2>1, <2>2, TenthsReadBack, Zenon
<1>4. QED
  BY <1>2, <1>3, Zenon

\* A frame that is decoded as the answer.
DecodesAsTold(g) ==
  \E r : /\ Decode(g) = r /\ r.ok = TRUE /\ r.idd = asked.idd /\ r.idf = asked.idf
         /\ Queried => r = Reading(asked.idd, asked.idf, Told)

\* A cooler's answer, for any reading or setting.
LEMMA CoolerDueIs ==
  ASSUME protocol = "cooler", Meant, TruthInv, asked # None, answered
  PROVE  /\ Framed(Due) /\ Len(Due) = 9 + 2 * Len(Said)
         /\ DecodesAsTold(Due)
<1>1. protocol \in Protocol
  BY DEF Protocol
<1>2. /\ asked.idd \in Byte /\ asked.idf \in Byte /\ Said \in Seq(Byte)
      /\ Queried => Said # <<>>
  BY <1>1, SaidType, DeviceIsByte DEF Meant
<1>3. CoolerShape(Due, asked.idd, asked.idf, Said)
  BY <1>2, CoolerAnswer, Zenon DEF Due
<1>4. Framed(Due)
  BY <1>2, <1>3, CoolerFramed, Zenon
<1>5. Len(Due) = 9 + 2 * Len(Said)
  BY <1>3, Zenon DEF CoolerShape
<1>6. Decode(Due) = Reading(asked.idd, asked.idf, IF Said = <<>> THEN Unset ELSE atof(Said))
  BY <1>2, <1>3, CoolerShapeDecodes, Zenon DEF Decode
<1>7. Queried => (IF Said = <<>> THEN Unset ELSE atof(Said)) = Told
  <2>1. Queried => asked.idf # PRES
    BY ConstantsAssumption DEF Queried
  <2>2. QED
    BY <1>1, <1>2, <2>1, SaidReads, Zenon
<1>8. DecodesAsTold(Due)
  <2>1. PICK v : v = IF Said = <<>> THEN Unset ELSE atof(Said)
    OBVIOUS
  <2>2. PICK r : r = Reading(asked.idd, asked.idf, v)
    OBVIOUS
  <2>3. r.ok = TRUE /\ r.idd = asked.idd /\ r.idf = asked.idf
    BY <2>2 DEF Reading
  <2>4. Decode(Due) = r
    BY <1>6, <2>1, <2>2, Zenon
  <2>5. Queried => r = Reading(asked.idd, asked.idf, Told)
    BY <1>7, <2>1, <2>2, Zenon
  <2>6. QED
    BY <2>3, <2>4, <2>5, Zenon DEF DecodesAsTold
<1>9. QED
  BY <1>4, <1>5, <1>8, Zenon

\* A gauge's answer, for any reading.
LEMMA GaugeDueIs ==
  ASSUME protocol = "vacuum", Meant, TruthInv, asked # None, answered
  PROVE  /\ GaugeShape(Due, asked.idd, Said) /\ DecodesAsTold(Due)
         /\ Said \in Seq(Byte) /\ Queried
<1>1. protocol \in Protocol /\ protocol # "cooler"
  BY DEF Protocol
<1>2. /\ asked.idd \in Byte /\ Said \in Seq(Byte)
      /\ Queried /\ Said # <<>>
  <2>1. Queried
    BY Zenon DEF Meant, Queried
  <2>2. QED
    BY <1>1, <2>1, SaidType, DeviceIsByte DEF Meant
<1>3. GaugeShape(Due, asked.idd, Said)
  BY <1>2, VacuumAnswer, Zenon DEF Due
<1>4. VacuumDecode(Due, asked.idf, asked.idf = PRES)
        = Reading(asked.idd, asked.idf, IF asked.idf = PRES THEN Said ELSE atof(Said))
  <2>1. PICK isText : isText = (asked.idf = PRES)
    OBVIOUS
  <2>2. VacuumDecode(Due, asked.idf, isText)
          = Reading(asked.idd, asked.idf, IF isText THEN Said ELSE atof(Said))
    BY <1>2, <1>3, GaugeShapeDecodes
  <2>3. QED
    BY <2>1, <2>2, Zenon
<1>5. (IF asked.idf = PRES THEN Said ELSE atof(Said)) = Told
  BY <1>1, <1>2, SaidReads, Zenon
<1>6. Decode(Due) = Reading(asked.idd, asked.idf, Told)
  BY <1>1, <1>4, <1>5, Zenon DEF Decode
<1>7. DecodesAsTold(Due)
  <2>1. PICK r : r = Reading(asked.idd, asked.idf, Told)
    OBVIOUS
  <2>2. r.ok = TRUE /\ r.idd = asked.idd /\ r.idf = asked.idf
    BY <2>1 DEF Reading
  <2>3. QED
    BY <1>6, <2>1, <2>2, Zenon DEF DecodesAsTold
<1>8. QED
  BY <1>2, <1>3, <1>7, Zenon

\* What a read event makes of the exchange: nothing, or what the device said.
HeardNow ==
  /\ Pending
  /\ \/ /\ Queried /\ asked' = asked
        /\ io' = [r |-> Reading(asked.idd, asked.idf, Told), step |-> "value"]
     \/ ~Queried /\ asked' = None /\ io' = None

LEMMA AnswerIsHeard ==
  ASSUME Pending, Meant, NEW g, DecodesAsTold(g), Heeds(Decode(g))
  PROVE  HeardNow
<1>1. PICK r : /\ Decode(g) = r /\ r.ok = TRUE /\ r.idd = asked.idd /\ r.idf = asked.idf
               /\ Queried => r = Reading(asked.idd, asked.idf, Told)
  BY Zenon DEF DecodesAsTold
<1>2. Heeds(r) /\ asked # None
  BY <1>1, Zenon DEF Pending
<1>3. asked.idd \in Devices
  BY <1>2, Zenon DEF Meant
<1>4. CASE Queried
  BY <1>1, <1>2, <1>3, <1>4, Zenon DEF Heeds, HeardNow, Queried
<1>5. CASE ~Queried
  BY <1>1, <1>2, <1>3, <1>5, Zenon DEF Heeds, HeardNow, Queried
<1>6. QED
  BY <1>4, <1>5, Zenon

-----------------------------------------------------------------------------
(* A read event of a cooler. *)

\* The answer is in the line, after k bytes, and not all of it has been read. Without
\* noise it is all of the line.
CoolerAwaits(k) ==
  /\ CoolerDue(Line, Due, k) /\ Len(ring) < k + Len(Due)
  /\ noise = 0 => k = 0 /\ Len(Line) = Len(Due)

CoolerLine ==
  protocol = "cooler" =>
    /\ damaged => asked # None /\ answered /\ io = None /\ noise = 0 /\ Broken(Line)
    /\ Pending => \E k : CoolerAwaits(k)
    /\ ~damaged /\ ~Pending => NoHead(Line) /\ (noise = 0 => Len(Line) = 0)

LEMMA RestZero ==
  ASSUME NEW s \in Seq(Byte), NEW t, IsRest(t, s, 0)
  PROVE  t = s
<1>1. PICK m \in Nat : m = Len(s)
  OBVIOUS
<1>2. m - 0 = m /\ \A i \in 1..m : 0 + i = i
  OBVIOUS
<1>3. t \in Seq(Byte) /\ Len(t) = m /\ \A i \in 1..m : t[i] = s[i]
  BY <1>1, <1>2, Zenon DEF IsRest
<1>4. QED
  BY <1>1, <1>3, SameBytes, Zenon

LEMMA SameDue ==
  ASSUME UNCHANGED <<protocol, asked, truth>>
  PROVE  Due' = Due
  BY Zenon DEF Due, Said, Queried, Told, AnswerFrame

LEMMA CoolerReads ==
  ASSUME Basics, TruthInv, CoolerLine, protocol = "cooler", Pending,
         NEW n \in ReadSizes, NEW full \in Seq(Byte), NEW t \in Seq(Byte), NEW c \in Nat,
         Coming(full, t, c, n), wire' \in Seq(Byte), ring' \in Seq(Byte)
  PROVE  \/ Ignores /\ \E k : /\ CoolerDue(Line', Due, k) /\ Len(ring') < k + Len(Due)
                              /\ noise = 0 => k = 0 /\ Len(Line') = Len(Due)
         \/ HeardNow /\ NoHead(Line') /\ (noise = 0 => Len(Line') = 0)
<1>1. PICK k : CoolerAwaits(k)
  BY Zenon DEF CoolerLine
<1>2. TypeOK /\ Meant /\ protocol \in Protocol /\ asked # None /\ answered
  BY BasicsParts, Zenon DEF Basics, Pending
<1>3. Framed(Due) /\ DecodesAsTold(Due) /\ Len(Due) = 9 + 2 * Len(Said)
  BY <1>2, CoolerDueIs, Zenon
<1>4. PICK g \in Seq(Byte), a \in Nat : g = Due /\ a = Len(g) /\ a >= 9
  <2>1. Due \in Seq(Byte) /\ Len(Due) >= 9
    BY <1>3, Zenon DEF Framed
  <2>2. Len(Due) \in Nat
    BY <2>1
  <2>3. QED
    BY <2>1, <2>2, Zenon
<1>5. PICK s \in Seq(Byte), m \in Nat : s = Line /\ m = Len(s)
  <2>1. Line \in Seq(Byte)
    BY <1>2, LineType, Zenon
  <2>2. Len(Line) \in Nat
    BY <2>1
  <2>3. QED
    BY <2>1, <2>2, Zenon
<1>6. PICK l \in Nat, r \in Nat : l = Len(full) /\ r = Len(ring)
  <2>1. Len(full) \in Nat /\ Len(ring) \in Nat
    BY <1>2, BasicsParts
  <2>2. QED
    BY <2>1, Zenon
<1>7. /\ k \in Nat /\ IsAt(s, g, k) /\ HeadAt(s, k) /\ r < k + a
      /\ noise = 0 => k = 0 /\ m = a
  BY <1>1, <1>4, <1>5, <1>6, Zenon DEF CoolerAwaits, CoolerDue
<1>8. /\ Begins(full, t) /\ IsRest(t, s, c) /\ l + c = r + n /\ (c = 0 \/ l = Capacity)
      /\ Taken(full)
  BY <1>5, <1>6, Zenon DEF Coming
<1>9. c <= k
  <2>1. a + 1 + n <= Capacity
    <3>1. Said \in Answers /\ Said \in Seq(Byte)
      BY <1>2, SaidType, Zenon
    <3>2. 10 + 2 * Len(Said) + n <= Capacity
      BY <3>1, RoomAssumption, Zenon
    <3>3. PICK y \in Nat : y = Len(Said)
      BY <3>1
    <3>4. a = 9 + 2 * y /\ 10 + 2 * y + n <= Capacity /\ n \in Nat /\ Capacity \in Nat
      BY <1>3, <1>4, <3>2, <3>3, RoomAssumption
    <3>5. QED
      BY <3>4
  <2>2. n \in Nat /\ Capacity \in Nat
    BY RoomAssumption
  <2>3. QED
    BY <1>4, <1>7, <1>8, <2>1, <2>2
<1>10. PICK j \in Nat : /\ j = k - c /\ IsAt(t, g, j) /\ HeadAt(t, j)
                        /\ noise = 0 => j = 0 /\ c = 0
  <2>1. k - c \in Nat /\ IsAt(t, g, k - c) /\ HeadAt(t, k - c)
    BY <1>7, <1>8, <1>9, FrameOfRest, HeadOfRest, Zenon
  <2>2. noise = 0 => k - c = 0 /\ c = 0
    BY <1>7, <1>9
  <2>3. QED
    BY <2>1, <2>2, Zenon
<1>11. CoolerDue(t, g, j)
  BY <1>10, Zenon DEF CoolerDue
<1>12. noise = 0 => t = s
  BY <1>8, <1>10, RestZero, Zenon
<1>13. CASE l < j + a
  <2>1. ring' = full /\ Ignores
    BY <1>3, <1>4, <1>6, <1>8, <1>11, <1>13, CoolerIncomplete, Zenon
  <2>2. Line' = t
    BY <2>1, LineStays, Zenon
  <2>3. noise = 0 => j = 0 /\ Len(t) = a
    BY <1>5, <1>7, <1>10, <1>12, Zenon
  <2>4. QED
    BY <1>4, <1>6, <1>11, <1>13, <2>1, <2>2, <2>3, Zenon
<1>14. CASE ~(l < j + a)
  <2>1. j + a <= l
    BY <1>14
  <2>2. /\ IsRest(ring', full, j + a)
        /\ Heeds(Decode(g))
    BY <1>3, <1>4, <1>6, <1>8, <1>11, <2>1, CoolerComplete, Zenon
  <2>3. HeardNow
    BY <1>2, <1>3, <1>4, <2>2, AnswerIsHeard, Zenon
  <2>4. IsRest(Line', t, j + a)
    BY <2>2, LineLeft, Zenon
  <2>5. j < j + a
    BY <1>4
  <2>6. NoHead(Line')
    BY <1>10, <2>4, <2>5, NoHeadAfter, Zenon
  <2>7. noise = 0 => Len(Line') = 0
    <3>1. SUFFICES ASSUME noise = 0
                   PROVE  Len(Line') = 0
      OBVIOUS
    <3>2. Len(t) = a /\ j = 0
      BY <1>5, <1>7, <1>10, <1>12, <3>1, Zenon
    <3>3. Len(Line') = Len(t) - (j + a)
      BY <2>4, Zenon DEF IsRest
    <3>4. QED
      BY <3>2, <3>3
  <2>8. QED
    BY <2>3, <2>6, <2>7, Zenon
<1>15. QED
  BY <1>13, <1>14, Zenon

\* A setter is not None: the reading of a device and a byte, of a value it may have.
LEMMA IoIsSome ==
  ASSUME protocol \in Protocol, Meant, TruthInv, asked # None, answered, Queried,
         NEW step \in {"value", "dirty"}
  PROVE  [r |-> Reading(asked.idd, asked.idf, Told), step |-> step] # None
<1>1. asked.idd \in Devices /\ asked.idf \in Byte /\ Told \in Values(asked.idf)
  BY Zenon DEF Meant, TruthInv
<1>2. PICK V : Told \in V /\ (V = Texts \/ V = Tenths)
  BY <1>1, Zenon DEF Values
<1>3. PICK d \in Devices, f \in Byte, v \in V : d = asked.idd /\ f = asked.idf /\ v = Told
  BY <1>1, <1>2, Zenon
<1>4. [r |-> Reading(d, f, v), step |-> step] \in Storing(V)
  BY DEF Storing, Reading
<1>5. None \notin Storing(V)
  BY <1>2, NoneAssumption, Zenon
<1>6. QED
  BY <1>3, <1>4, <1>5, Zenon

LEMMA HeardEnds ==
  ASSUME protocol \in Protocol, Meant, TruthInv, HeardNow
  PROVE  ~Pending'
<1>1. asked # None /\ answered
  BY Zenon DEF HeardNow, Pending
<1>2. "value" \in {"value", "dirty"}
  OBVIOUS
<1>3. Queried => [r |-> Reading(asked.idd, asked.idf, Told), step |-> "value"] # None
  BY <1>1, <1>2, IoIsSome, Zenon
<1>4. QED
  BY <1>3, Zenon DEF HeardNow, Pending

LEMMA BrokenReads ==
  ASSUME TypeOK, protocol = "cooler", Broken(Line),
         NEW n \in ReadSizes, NEW full \in Seq(Byte), NEW t \in Seq(Byte), NEW c \in Nat,
         Coming(full, t, c, n), wire' \in Seq(Byte)
  PROVE  Ignores /\ Broken(Line')
<1>1. PICK s \in Seq(Byte), m \in Nat : s = Line /\ m = Len(s)
  <2>1. Line \in Seq(Byte) /\ Len(Line) \in Nat
    BY LineType
  <2>2. QED
    BY <2>1, Zenon
<1>2. PICK l \in Nat, r \in Nat : l = Len(full) /\ r = Len(ring)
  <2>1. Len(full) \in Nat /\ Len(ring) \in Nat
    BY BasicsParts
  <2>2. QED
    BY <2>1, Zenon
<1>3. /\ Begins(full, t) /\ IsRest(t, s, c) /\ l + c = r + n /\ (c = 0 \/ l = Capacity)
      /\ Taken(full) /\ r + n <= m
  BY <1>1, <1>2, Zenon DEF Coming
<1>4. m <= Capacity
  BY <1>1, Zenon DEF Broken
<1>5. n \in Nat /\ Capacity \in Nat
  BY RoomAssumption
<1>6. c = 0
  BY <1>3, <1>4, <1>5
<1>7. t = s
  BY <1>3, <1>6, RestZero, Zenon
<1>8. /\ Ignores
      /\ \/ ring' = full
         \/ Len(full) = Len(t) /\ IsRest(ring', full, Len(full))
  BY <1>1, <1>3, <1>7, BrokenTaken, Zenon
<1>9. CASE ring' = full
  BY <1>1, <1>7, <1>8, <1>9, LineStays, Zenon
<1>10. CASE Len(full) = Len(t) /\ IsRest(ring', full, Len(full))
  <2>1. IsRest(Line', t, m)
    BY <1>1, <1>7, <1>10, LineLeft, Zenon
  <2>2. PICK u \in Seq(Byte) : u = Line' /\ Len(u) = m - m
    BY <1>1, <1>7, <2>1, Zenon DEF IsRest
  <2>3. Len(u) = 0 /\ (\A i \in 1..Len(u) : FALSE) /\ (\A i \in 1..Len(u) - 1 : FALSE)
        /\ Len(u) <= Capacity
    BY <1>5, <2>2
  <2>4. Broken(u)
    BY <2>3, Zenon DEF Broken
  <2>5. QED
    BY <1>8, <2>2, <2>4, Zenon
<1>11. QED
  BY <1>8, <1>9, <1>10, Zenon

LEMMA NoAnswerReads ==
  ASSUME TypeOK, protocol = "cooler", NoHead(Line), noise = 0 => Len(Line) = 0,
         NEW n \in ReadSizes, NEW full \in Seq(Byte), NEW t \in Seq(Byte), NEW c \in Nat,
         Coming(full, t, c, n), wire' \in Seq(Byte)
  PROVE  Ignores /\ NoHead(Line') /\ (noise = 0 => Len(Line') = 0)
<1>1. PICK s \in Seq(Byte), m \in Nat : s = Line /\ m = Len(s)
  <2>1. Line \in Seq(Byte) /\ Len(Line) \in Nat
    BY LineType
  <2>2. QED
    BY <2>1, Zenon
<1>2. Begins(full, t) /\ IsRest(t, s, c) /\ Taken(full)
  BY <1>1, Zenon DEF Coming
<1>3. NoHead(t)
  BY <1>1, <1>2, NoHeadOfRest, Zenon
<1>4. NoHead(full)
  <2>1. \A i \in 1..Len(full) : i \in 1..Len(t)
    BY <1>2 DEF Begins
  <2>2. QED
    BY <1>2, <1>3, <2>1, Zenon DEF NoHead, Begins
<1>5. ring' = full /\ Ignores
  BY <1>2, <1>4, PlacesNoHead, TakenNoHead, Zenon
<1>6. Line' = t
  BY <1>5, LineStays, Zenon
<1>7. m = 0 => Len(t) = 0
  <2>1. Len(t) = m - c /\ c <= m
    BY <1>1, <1>2, Zenon DEF IsRest
  <2>2. QED
    BY <2>1
<1>8. QED
  BY <1>1, <1>3, <1>5, <1>6, <1>7, Zenon

LEMMA CoolerReceive ==
  ASSUME Basics, TruthInv, CoolerLine, protocol = "cooler",
         NEW n \in ReadSizes, n <= Len(wire), Receive(n)
  PROVE  (Ignores \/ HeardNow) /\ CoolerLine'
<1>1. TypeOK /\ Meant /\ protocol \in Protocol
  BY BasicsParts, Zenon DEF Basics
<1>2. /\ io = None
      /\ UNCHANGED <<protocol, answered, truth, noise, damaged>>
  BY Received, Zenon
<1>3. wire' \in Seq(Byte) /\ ring' \in Seq(Byte)
  BY <1>1, ReceivedType, Zenon
<1>4. PICK full \in Seq(Byte), t \in Seq(Byte), c \in Nat : Coming(full, t, c, n)
  BY <1>1, Arrival, Zenon
<1>5. CASE damaged
  <2>1. Broken(Line) /\ asked # None /\ answered /\ noise = 0
    BY <1>5, Zenon DEF CoolerLine
  <2>2. Ignores /\ Broken(Line')
    BY <1>1, <1>3, <1>4, <2>1, BrokenReads, Zenon
  <2>3. CoolerLine'
    BY <1>2, <1>5, <2>1, <2>2, Zenon DEF CoolerLine, Ignores, Pending
  <2>4. QED
    BY <2>2, <2>3, Zenon
<1>6. CASE ~damaged /\ Pending
  <2>1. CASE Ignores /\ \E k : /\ CoolerDue(Line', Due, k) /\ Len(ring') < k + Len(Due)
                               /\ noise = 0 => k = 0 /\ Len(Line') = Len(Due)
    <3>1. Due' = Due
      BY <1>2, <2>1, SameDue, Zenon DEF Ignores
    <3>2. \E k : CoolerAwaits(k)'
      BY <1>2, <2>1, <3>1, Zenon DEF CoolerAwaits
    <3>3. Pending'
      BY <1>2, <1>6, <2>1, Zenon DEF Ignores, Pending
    <3>4. CoolerLine'
      BY <1>2, <1>6, <3>2, <3>3, Zenon DEF CoolerLine
    <3>5. QED
      BY <2>1, <3>4, Zenon
  <2>2. CASE HeardNow /\ NoHead(Line') /\ (noise = 0 => Len(Line') = 0)
    <3>1. ~Pending'
      BY <1>1, <2>2, HeardEnds, Zenon
    <3>2. CoolerLine'
      BY <1>2, <1>6, <2>2, <3>1, Zenon DEF CoolerLine
    <3>3. QED
      BY <2>2, <3>2, Zenon
  <2>3. QED
    BY <1>3, <1>4, <1>6, <2>1, <2>2, CoolerReads, Zenon
<1>7. CASE ~damaged /\ ~Pending
  <2>1. NoHead(Line) /\ (noise = 0 => Len(Line) = 0)
    BY <1>7, Zenon DEF CoolerLine
  <2>2. Ignores /\ NoHead(Line') /\ (noise = 0 => Len(Line') = 0)
    BY <1>1, <1>3, <1>4, <2>1, NoAnswerReads, Zenon
  <2>3. ~Pending'
    BY <1>2, <1>7, <2>2, Zenon DEF Ignores, Pending
  <2>4. CoolerLine'
    BY <1>2, <1>7, <2>2, <2>3, Zenon DEF CoolerLine
  <2>5. QED
    BY <2>2, <2>4, Zenon
<1>8. QED
  BY <1>5, <1>6, <1>7, Zenon

-----------------------------------------------------------------------------
(* A gauge's line: CR is where a frame ends, and what is not a frame is cut short. *)

\* At i, s is at most ten bytes from a CR that is not after e.
Soon(s, i, e) == \E q \in Nat : i <= q /\ q <= i + 10 /\ q <= e /\ s[q] = CR
Quiet(s) == \A i \in 1..Len(s) : Soon(s, i, Len(s))

LEMMA SoonOfRest ==
  ASSUME NEW s \in Seq(Byte), NEW t, NEW c, IsRest(t, s, c), NEW i \in Nat, i >= 1,
         NEW e \in Nat, e <= Len(s), Soon(s, c + i, e)
  PROVE  Soon(t, i, e - c)
<1>1. PICK m \in Nat : m = Len(s)
  OBVIOUS
<1>2. c \in Nat /\ Len(t) = m - c /\ c <= m
  BY <1>1, Zenon DEF IsRest
<1>3. PICK q \in Nat : c + i <= q /\ q <= (c + i) + 10 /\ q <= e /\ s[q] = CR
  BY Zenon DEF Soon
<1>4. PICK p \in Nat : p = q - c
  BY <1>2, <1>3
<1>5. i <= p /\ p <= i + 10 /\ p <= e - c /\ p \in 1..m - c /\ c + p = q
  BY <1>1, <1>2, <1>3, <1>4
<1>6. t[p] = CR
  BY <1>1, <1>3, <1>5, Zenon DEF IsRest
<1>7. QED
  BY <1>5, <1>6, Zenon DEF Soon

LEMMA QuietOfRest ==
  ASSUME NEW s \in Seq(Byte), NEW t, NEW c, IsRest(t, s, c), Quiet(s)
  PROVE  Quiet(t)
<1>1. PICK m \in Nat : m = Len(s)
  OBVIOUS
<1>2. c \in Nat /\ Len(t) = m - c
  BY <1>1, Zenon DEF IsRest
<1>3. ASSUME NEW i \in 1..m - c
      PROVE  Soon(t, i, m - c)
  <2>1. i \in Nat /\ i >= 1 /\ c + i \in 1..m /\ m <= m
    BY <1>2
  <2>2. Soon(s, c + i, m)
    BY <1>1, <2>1, Zenon DEF Quiet
  <2>3. QED
    BY <1>1, <2>1, <2>2, SoonOfRest, Zenon
<1>4. QED
  BY <1>2, <1>3, Zenon DEF Quiet

\* q is the place of the first CR, counted from 1.
FirstCR(r, q) == q \in 1..Len(r) /\ r[q] = CR /\ \A i \in 1..q - 1 : r[i] # CR
\* A ring without a line: no CR at all, or only an empty line that is never taken.
NoLine(r) == \A i \in 1..Len(r) : r[i] = CR => r[1] = CR
\* The first q bytes are taken and heeded.
Cut(full, q) ==
  \E f : /\ IsPart(f, full, 0, q) /\ IsRest(ring', full, q)
         /\ Heeds(Decode(f))

LEMMA GaugePlaces ==
  ASSUME protocol = "vacuum", NEW r
  PROVE  Places(r).head = 0 /\ Places(r).tail = Lookup(r, <<CR>>, 0)
<1>1. head_ = <<>> /\ tail_ = <<CR>>
  BY DEF head_, tail_
<1>2. Places(r) = [head |-> 0, tail |-> Lookup(r, <<CR>>, 0)]
  <2>1. 0 >= 0
    OBVIOUS
  <2>2. QED
    BY <1>1, <2>1, Zenon DEF Places
<1>3. QED
  BY <1>2

LEMMA GaugeTaken ==
  ASSUME protocol = "vacuum", NEW full \in Seq(Byte), Taken(full)
  PROVE  \/ NoLine(full) /\ ring' = full /\ Ignores
         \/ \E q \in Nat : q >= 2 /\ FirstCR(full, q) /\ Cut(full, q)
<1>1. PICK m \in Nat : m = Len(full)
  OBVIOUS
<1>2. Places(full).head = 0 /\ Places(full).tail = Lookup(full, <<CR>>, 0)
  BY GaugePlaces, Zenon
<1>3. <<CR>> \in Seq(Byte) /\ Len(tail_) = 1 /\ 0 \in Nat
  BY DEF CR, Byte, tail_
<1>4. CASE /\ Lookup(full, <<CR>>, 0) = -1
           /\ \A p \in Nat : p >= 0 => ~IsAt(full, <<CR>>, p)
  <2>1. ASSUME NEW i \in 1..m, full[i] = CR
        PROVE  FALSE
    <3>1. PICK p \in Nat : p = i - 1 /\ p >= 0 /\ p + 1 = i /\ p + 1 <= m
      OBVIOUS
    <3>2. OneFlag(full, CR, p)
      BY <1>1, <2>1, <3>1, Zenon DEF OneFlag
    <3>3. QED
      BY <1>4, <3>1, <3>2, OneAt, Zenon
  <2>2. ~(-1 > 0)
    OBVIOUS
  <2>3. QED
    BY <1>1, <1>2, <1>4, <2>1, <2>2, TakenNone, Zenon DEF NoLine
<1>5. ASSUME NEW k \in Nat, Lookup(full, <<CR>>, 0) = k, IsAt(full, <<CR>>, k),
             \A p \in 0..k - 1 : ~IsAt(full, <<CR>>, p)
      PROVE  \/ NoLine(full) /\ ring' = full /\ Ignores
             \/ \E q \in Nat : q >= 2 /\ FirstCR(full, q) /\ Cut(full, q)
  <2>1. k + 1 <= m /\ full[k + 1] = CR
    BY <1>1, <1>5, OneAt, Zenon DEF OneFlag
  <2>2. CASE k = 0
    <3>1. ~(0 > 0) /\ 0 + 1 = 1
      OBVIOUS
    <3>2. full[1] = CR
      BY <2>1, <2>2, <3>1, Zenon
    <3>3. QED
      BY <1>2, <1>5, <2>2, <3>1, <3>2, TakenNone, Zenon DEF NoLine
  <2>3. CASE k # 0
    <3>1. PICK q \in Nat : /\ q = k + 1 /\ q >= 2 /\ q \in 1..m /\ k > 0 /\ q - 0 = q
                           /\ q = k + Len(tail_) /\ q <= Len(full)
      BY <1>1, <1>3, <2>1, <2>3
    <3>2. ASSUME NEW i \in 1..q - 1
          PROVE  full[i] # CR
      <4>1. PICK p \in Nat : p = i - 1 /\ p + 1 = i /\ p \in 0..k - 1 /\ p + 1 <= m
        BY <2>1, <3>1
      <4>2. ~OneFlag(full, CR, p)
        BY <1>5, <4>1, OneAt, Zenon
      <4>3. QED
        BY <1>1, <4>1, <4>2, Zenon DEF OneFlag
    <3>3. FirstCR(full, q)
      BY <1>1, <2>1, <3>1, <3>2, Zenon DEF FirstCR
    <3>4. \E f : /\ IsPart(f, full, 0, q - 0) /\ IsRest(ring', full, q)
                 /\ Heeds(Decode(f))
      BY <1>2, <1>3, <1>5, <3>1, TakenFrame, Zenon
    <3>5. Cut(full, q)
      BY <3>1, <3>4, Zenon DEF Cut
    <3>6. QED
      BY <3>1, <3>3, <3>5, Zenon
  <2>4. QED
    BY <2>2, <2>3, Zenon
<1>6. QED
  BY <1>3, <1>4, <1>5, LookupCases, Zenon

\* A line shorter than a frame is taken and ignored.
LEMMA CutIgnored ==
  ASSUME protocol = "vacuum", NEW full \in Seq(Byte), NEW q \in Nat, q < 12, Cut(full, q)
  PROVE  Ignores
<1>1. PICK f : /\ IsPart(f, full, 0, q)
               /\ Heeds(Decode(f))
  BY Zenon DEF Cut
<1>2. Len(f) < 12
  BY <1>1, Zenon DEF IsPart
<1>3. protocol # "cooler"
  OBVIOUS
<1>4. CASE asked = None
  BY <1>1, <1>3, <1>4, RefusedIsIgnored, Zenon DEF Decode
<1>5. CASE asked # None
  <2>1. PICK isText : isText = (asked.idf = PRES)
    OBVIOUS
  <2>2. VacuumDecode(f, asked.idf, isText) = Refused
    BY <1>2, GaugeRefuses, Zenon
  <2>3. Decode(f) = Refused
    BY <1>3, <1>5, <2>1, <2>2, Zenon DEF Decode
  <2>4. QED
    BY <1>1, <2>3, RefusedIsIgnored, Zenon
<1>6. QED
  BY <1>4, <1>5, Zenon

\* The first CR of a prefix is no later than one of the whole.
LEMMA FirstIsFirst ==
  ASSUME NEW full \in Seq(Byte), NEW s \in Seq(Byte), Begins(full, s),
         NEW q \in Nat, FirstCR(full, q), NEW p \in Nat, p >= 1, s[p] = CR
  PROVE  q <= p /\ q <= Len(s) /\ q >= 1 /\ s[q] = CR
<1>1. PICK l \in Nat, m \in Nat : l = Len(full) /\ m = Len(s)
  OBVIOUS
<1>2. l <= m /\ q \in 1..l
  BY <1>1, Zenon DEF FirstCR, Begins
<1>3. s[q] = CR
  BY <1>1, <1>2, Zenon DEF FirstCR, Begins
<1>4. ASSUME p < q
      PROVE  FALSE
  <2>1. p \in 1..l /\ p \in 1..q - 1
    BY <1>2, <1>4
  <2>2. full[p] = CR
    BY <1>1, <2>1, Zenon DEF Begins
  <2>3. QED
    BY <2>1, <2>2, Zenon DEF FirstCR
<1>5. QED
  BY <1>1, <1>2, <1>3, <1>4

-----------------------------------------------------------------------------
(* A read event of a gauge. *)

StrayLength == CHOOSE l \in 0..Capacity : HoldsNoise(l)

LEMMA StrayLengthHolds == StrayLength \in 0..Capacity /\ HoldsNoise(StrayLength)
  BY RoomAssumption, Zenon DEF StrayLength

\* Stray bytes take no more room than all that may come.
LEMMA NoiseTakes ==
  ASSUME TypeOK
  PROVE  /\ noise * StrayLength \in Nat /\ (noise = 0 => noise * StrayLength = 0)
         /\ noise * StrayLength <= MaxNoise * StrayLength
         /\ (noise + 1) * StrayLength = noise * StrayLength + StrayLength
<1>1. PICK l \in Nat : l = StrayLength
  BY StrayLengthHolds, RoomAssumption
<1>2. PICK x \in Nat, y \in Nat : x = noise /\ y = MaxNoise /\ x <= y
  <2>1. noise \in Nat /\ MaxNoise \in Nat /\ noise <= MaxNoise
    BY ConstantsAssumption DEF TypeOK
  <2>2. QED
    BY <2>1, Zenon
<1>3. PICK z \in Nat : z = y - x
  BY <1>2
<1>4. y * l = x * l + z * l /\ z * l \in Nat /\ x * l \in Nat
  <2>1. y = x + z
    BY <1>2, <1>3
  <2>2. (x + z) * l = x * l + z * l
    OBVIOUS
  <2>3. z * l \in Nat /\ x * l \in Nat
    OBVIOUS
  <2>4. QED
    BY <2>1, <2>2, <2>3, Zenon
<1>5. PICK xl \in Nat, yl \in Nat, zl \in Nat : xl = x * l /\ yl = y * l /\ zl = z * l /\ yl = xl + zl
  <2>1. y * l \in Nat
    BY <1>4
  <2>2. QED
    BY <1>4, <2>1, Zenon
<1>6. xl <= yl
  BY <1>5
<1>7. (x + 1) * l = x * l + l /\ (x = 0 => x * l = 0)
  OBVIOUS
<1>8. QED
  BY <1>1, <1>2, <1>5, <1>6, <1>7, Zenon

\* The frame g is in the line after k bytes, and what is around it is cut short.
GaugeAt(s, g, k) ==
  /\ k \in Nat /\ IsAt(s, g, k)
  /\ \A i \in 1..k : Soon(s, i, k)
  /\ \A i \in k + Len(g) + 1..Len(s) : Soon(s, i, Len(s))

VacuumAwaits(k) ==
  /\ GaugeAt(Line, Due, k) /\ Len(Line) <= Len(Due) + noise * StrayLength
  /\ noise = 0 => k = 0 /\ Len(Line) = Len(Due) /\ Len(ring) < Len(Due)

VacuumLine ==
  protocol = "vacuum" =>
    /\ ~damaged
    /\ Pending => \E k : VacuumAwaits(k)
    /\ ~Pending => Quiet(Line) /\ Len(Line) <= noise * StrayLength

\* What is left of the line before and after a frame, when all that is read precedes it.
LEMMA GaugeOfRest ==
  ASSUME NEW s \in Seq(Byte), NEW t, NEW c, IsRest(t, s, c), NEW g \in Seq(Byte),
         NEW k, GaugeAt(s, g, k), c <= k
  PROVE  GaugeAt(t, g, k - c)
<1>1. PICK m \in Nat, a \in Nat : m = Len(s) /\ a = Len(g)
  OBVIOUS
<1>2. c \in Nat /\ Len(t) = m - c /\ k \in Nat /\ k + a <= m /\ IsAt(s, g, k)
  BY <1>1, Zenon DEF IsRest, GaugeAt, IsAt
<1>3. k - c \in Nat /\ IsAt(t, g, k - c)
  BY <1>2, FrameOfRest, Zenon
<1>4. ASSUME NEW i \in 1..k - c
      PROVE  Soon(t, i, k - c)
  <2>1. i \in Nat /\ i >= 1 /\ c + i \in 1..k /\ k <= m
    BY <1>2
  <2>2. Soon(s, c + i, k)
    BY <2>1, Zenon DEF GaugeAt
  <2>3. QED
    BY <1>1, <1>2, <2>1, <2>2, SoonOfRest, Zenon
<1>5. ASSUME NEW i \in (k - c) + a + 1..m - c
      PROVE  Soon(t, i, m - c)
  <2>1. i \in Nat /\ i >= 1 /\ c + i \in k + a + 1..m /\ m <= m
    BY <1>2
  <2>2. Soon(s, c + i, m)
    BY <1>1, <2>1, Zenon DEF GaugeAt
  <2>3. QED
    BY <1>1, <2>1, <2>2, SoonOfRest, Zenon
<1>6. QED
  BY <1>1, <1>2, <1>3, <1>4, <1>5, Zenon DEF GaugeAt

\* What is left of the line when the frame has been read.
LEMMA QuietAfter ==
  ASSUME NEW s \in Seq(Byte), NEW t, NEW g \in Seq(Byte), NEW k,
         GaugeAt(s, g, k), IsRest(t, s, k + Len(g))
  PROVE  Quiet(t)
<1>1. PICK m \in Nat, a \in Nat : m = Len(s) /\ a = Len(g)
  OBVIOUS
<1>2. k \in Nat /\ Len(t) = m - (k + a)
  BY <1>1, Zenon DEF IsRest, GaugeAt
<1>3. ASSUME NEW i \in 1..m - (k + a)
      PROVE  Soon(t, i, m - (k + a))
  <2>1. i \in Nat /\ i >= 1 /\ (k + a) + i \in k + a + 1..m /\ m <= m
    BY <1>2
  <2>2. Soon(s, (k + a) + i, m)
    BY <1>1, <2>1, Zenon DEF GaugeAt
  <2>3. QED
    BY <1>1, <2>1, <2>2, SoonOfRest, Zenon
<1>4. QED
  BY <1>2, <1>3, Zenon DEF Quiet

\* What matters of a gauge's frame.
Closed(g) ==
  /\ g \in Seq(Byte) /\ Len(g) >= 10 /\ g[Len(g)] = CR
  /\ \A i \in 1..Len(g) - 1 : g[i] # CR

LEMMA GaugeClosed ==
  ASSUME NEW g, NEW idd, NEW text \in Seq(Byte), GaugeShape(g, idd, text)
  PROVE  Closed(g)
<1>1. g \in Seq(Byte) /\ Len(g) = 10 + 2 * Len(text) /\ Len(g) >= 10
  BY GaugeShapeLen, Zenon
<1>2. PICK y \in Nat, a \in Nat : y = Len(text) /\ a = 10 + 2 * y /\ a - 1 = 9 + 2 * y
  <2>1. PICK y \in Nat : y = Len(text)
    OBVIOUS
  <2>2. 10 + 2 * y \in Nat /\ (10 + 2 * y) - 1 = 9 + 2 * y
    OBVIOUS
  <2>3. QED
    BY <2>1, <2>2, Zenon
<1>3. g[a] = CR /\ \A i \in 1..a - 1 : g[i] # CR
  BY <1>2, Zenon DEF GaugeShape
<1>4. QED
  BY <1>1, <1>2, <1>3, Zenon DEF Closed

\* Before the frame a line is cut that is too short for one.
LEMMA CutBefore ==
  ASSUME protocol = "vacuum", NEW full \in Seq(Byte), NEW s \in Seq(Byte), Begins(full, s),
         NEW q \in Nat, FirstCR(full, q), Cut(full, q), NEW e \in Nat, Soon(s, 1, e)
  PROVE  q <= e /\ Ignores
<1>1. PICK p \in Nat : 1 <= p /\ p <= 1 + 10 /\ p <= e /\ s[p] = CR
  BY Zenon DEF Soon
<1>2. q <= p
  <2>1. p >= 1
    BY <1>1
  <2>2. QED
    BY <1>1, <2>1, FirstIsFirst, Zenon
<1>3. q < 12 /\ q <= e
  BY <1>1, <1>2
<1>4. QED
  BY <1>3, CutIgnored, Zenon

\* At the head of the line the frame is what is cut.
LEMMA CutFrame ==
  ASSUME NEW full \in Seq(Byte), NEW s \in Seq(Byte), Begins(full, s),
         NEW q \in Nat, FirstCR(full, q), Cut(full, q), NEW g, Closed(g), IsAt(s, g, 0)
  PROVE  q = Len(g) /\ Heeds(Decode(g))
<1>1. PICK a \in Nat, l \in Nat : a = Len(g) /\ l = Len(full) /\ a >= 10
  <2>1. Len(g) \in Nat /\ Len(full) \in Nat /\ Len(g) >= 10
    BY DEF Closed
  <2>2. QED
    BY <2>1, Zenon
<1>2. \A i \in 1..a : 0 + i = i
  OBVIOUS
<1>3. \A i \in 1..a : s[i] = g[i]
  BY <1>1, <1>2, Zenon DEF IsAt
<1>4. s[a] = CR /\ a >= 1
  <2>1. a \in 1..a /\ a >= 1
    BY <1>1
  <2>2. QED
    BY <1>1, <1>3, <2>1, Zenon DEF Closed
<1>5. q <= a /\ q >= 1 /\ s[q] = CR
  BY <1>4, FirstIsFirst, Zenon
<1>6. q = a
  <2>1. q = a \/ q \in 1..a - 1
    BY <1>5
  <2>2. q \in 1..a - 1 => q \in 1..a
    OBVIOUS
  <2>3. QED
    BY <1>1, <1>3, <1>5, <2>1, <2>2, Zenon DEF Closed
<1>7. PICK f : /\ IsPart(f, full, 0, q)
               /\ Heeds(Decode(f))
  BY Zenon DEF Cut
<1>8. f = g
  <2>1. f \in Seq(Byte) /\ Len(f) = a /\ \A i \in 1..a : f[i] = full[0 + i]
    BY <1>6, <1>7, Zenon DEF IsPart
  <2>2. \A i \in 1..a : i \in 1..l
    BY <1>1, <1>6 DEF FirstCR
  <2>3. \A i \in 1..a : f[i] = g[i]
    BY <1>1, <1>2, <1>3, <2>1, <2>2, Zenon DEF Begins
  <2>4. g \in Seq(Byte)
    BY Zenon DEF Closed
  <2>5. QED
    BY <1>1, <2>1, <2>3, <2>4, SameBytes, Zenon
<1>9. QED
  BY <1>1, <1>6, <1>7, <1>8, Zenon

\* All that a gauge's ring can be asked to hold, with its answer, it holds.
LEMMA GaugeRoom ==
  ASSUME Basics, TruthInv, protocol = "vacuum", asked # None, answered,
         Len(Due) = 10 + 2 * Len(Said)
  PROVE  Len(Due) + noise * StrayLength <= Capacity
<1>1. TypeOK /\ Meant /\ protocol \in Protocol
  BY BasicsParts, Zenon DEF Basics
<1>2. Said \in Answers /\ Said \in Seq(Byte)
  BY <1>1, SaidType, Zenon
<1>3. PICK y \in Nat : y = Len(Said)
  BY <1>2
<1>4. 10 + 2 * Len(Said) + MaxNoise * StrayLength <= Capacity
  BY <1>2, StrayLengthHolds, Zenon DEF HoldsNoise
<1>5. /\ noise * StrayLength \in Nat
      /\ noise * StrayLength <= MaxNoise * StrayLength
  BY <1>1, NoiseTakes, Zenon
<1>6. MaxNoise * StrayLength \in Nat /\ Capacity \in Nat
  <2>1. MaxNoise \in Nat /\ StrayLength \in Nat /\ Capacity \in Nat
    BY ConstantsAssumption, StrayLengthHolds, RoomAssumption
  <2>2. QED
    BY <2>1
<1>7. PICK a \in Nat, u \in Nat, w \in Nat :
        a = 10 + 2 * y /\ u = noise * StrayLength /\ w = MaxNoise * StrayLength
  <2>1. 10 + 2 * y \in Nat
    OBVIOUS
  <2>2. QED
    BY <1>5, <1>6, <2>1, Zenon
<1>8. a + w <= Capacity /\ u <= w /\ Len(Due) = a
  BY <1>3, <1>4, <1>5, <1>7, Zenon
<1>9. a + u <= Capacity
  BY <1>6, <1>7, <1>8
<1>10. QED
  BY <1>7, <1>8, <1>9, Zenon

LEMMA GaugeReads ==
  ASSUME Basics, TruthInv, VacuumLine, protocol = "vacuum", Pending,
         NEW n \in ReadSizes, NEW full \in Seq(Byte), NEW t \in Seq(Byte), NEW c \in Nat,
         Coming(full, t, c, n), wire' \in Seq(Byte)
  PROVE  \/ Ignores /\ \E k : /\ GaugeAt(Line', Due, k)
                              /\ Len(Line') <= Len(Due) + noise * StrayLength
                              /\ noise = 0 => k = 0 /\ Len(Line') = Len(Due)
                                                    /\ Len(ring') < Len(Due)
         \/ HeardNow /\ Quiet(Line') /\ Len(Line') <= noise * StrayLength
<1>1. PICK k : VacuumAwaits(k)
  BY Zenon DEF VacuumLine
<1>2. TypeOK /\ Meant /\ protocol \in Protocol /\ asked # None /\ answered
  BY BasicsParts, Zenon DEF Basics, Pending
<1>3. /\ GaugeShape(Due, asked.idd, Said) /\ DecodesAsTold(Due) /\ Said \in Seq(Byte)
  BY <1>2, GaugeDueIs, Zenon
<1>4. Closed(Due) /\ Len(Due) = 10 + 2 * Len(Said)
  BY <1>3, GaugeClosed, GaugeShapeLen, Zenon
<1>5. PICK g \in Seq(Byte), a \in Nat : g = Due /\ a = Len(g) /\ a >= 10
  <2>1. Due \in Seq(Byte) /\ Len(Due) >= 10
    BY <1>4, Zenon DEF Closed
  <2>2. Len(Due) \in Nat
    BY <2>1
  <2>3. QED
    BY <2>1, <2>2, Zenon
<1>6. PICK s \in Seq(Byte), m \in Nat : s = Line /\ m = Len(s)
  <2>1. Line \in Seq(Byte)
    BY <1>2, LineType, Zenon
  <2>2. Len(Line) \in Nat
    BY <2>1
  <2>3. QED
    BY <2>1, <2>2, Zenon
<1>7. PICK l \in Nat, r \in Nat : l = Len(full) /\ r = Len(ring)
  <2>1. Len(full) \in Nat /\ Len(ring) \in Nat
    BY <1>2, BasicsParts
  <2>2. QED
    BY <2>1, Zenon
<1>8. PICK u \in Nat : u = noise * StrayLength
  BY <1>2, NoiseTakes, Zenon
<1>9. /\ GaugeAt(s, g, k) /\ m <= a + u
      /\ noise = 0 => k = 0 /\ m = a /\ r < a
  BY <1>1, <1>5, <1>6, <1>7, <1>8, Zenon DEF VacuumAwaits
<1>10. /\ Begins(full, t) /\ IsRest(t, s, c) /\ l + c = r + n /\ (c = 0 \/ l = Capacity)
       /\ Taken(full) /\ r + n <= m
  BY <1>6, <1>7, Zenon DEF Coming
<1>11. t = s
  <2>1. a + u <= Capacity
    BY <1>2, <1>4, <1>5, <1>8, GaugeRoom, Zenon
  <2>2. n \in Nat /\ Capacity \in Nat
    BY RoomAssumption
  <2>3. c = 0
    BY <1>9, <1>10, <2>1, <2>2
  <2>4. QED
    BY <1>10, <2>3, RestZero, Zenon
<1>12. k \in Nat /\ IsAt(s, g, k) /\ k + a <= m
  BY <1>5, <1>6, <1>9, Zenon DEF GaugeAt, IsAt
<1>13. ASSUME NoLine(full), ring' = full, noise = 0
       PROVE  l < a
  <2>1. SUFFICES ASSUME a <= l
                 PROVE  FALSE
    OBVIOUS
  <2>2. /\ 1 \in 1..l /\ a \in 1..l /\ 1 \in 1..a - 1 /\ 1 \in 1..a /\ a \in 1..a
        /\ 0 + 1 = 1 /\ 0 + a = a
    BY <1>5, <2>1
  <2>3. full[1] = g[1] /\ full[a] = g[a]
    <3>1. \A i \in 1..l : full[i] = s[i]
      BY <1>7, <1>10, <1>11, Zenon DEF Begins
    <3>2. k = 0
      BY <1>9, <1>13, Zenon
    <3>3. \A i \in 1..a : s[0 + i] = g[i]
      BY <1>5, <1>12, <3>2, Zenon DEF IsAt
    <3>4. s[0 + 1] = g[1] /\ s[0 + a] = g[a]
      BY <2>2, <3>3, Zenon
    <3>5. full[1] = s[1] /\ full[a] = s[a]
      BY <2>2, <3>1, Zenon
    <3>6. QED
      BY <2>2, <3>4, <3>5, Zenon
  <2>4. g[a] = CR /\ g[1] # CR
    BY <1>4, <1>5, <2>2, Zenon DEF Closed
  <2>5. QED
    BY <1>7, <1>13, <2>2, <2>3, <2>4, Zenon DEF NoLine
<1>14. CASE NoLine(full) /\ ring' = full /\ Ignores
  <2>1. Line' = s
    BY <1>11, <1>14, LineStays, Zenon
  <2>2. QED
    BY <1>5, <1>6, <1>7, <1>8, <1>9, <1>13, <1>14, <2>1, Zenon
<1>15. ASSUME NEW q \in Nat, q >= 2, FirstCR(full, q), Cut(full, q)
       PROVE  \/ Ignores /\ \E j : /\ GaugeAt(Line', g, j) /\ Len(Line') <= a + u
                                   /\ noise # 0
              \/ HeardNow /\ Quiet(Line') /\ Len(Line') <= u
  <2>1. IsRest(ring', full, q)
    BY <1>15, Zenon DEF Cut
  <2>2. IsRest(Line', s, q)
    BY <1>11, <2>1, LineLeft, Zenon
  <2>3. Len(Line') = m - q /\ q <= m
    BY <1>6, <2>2, Zenon DEF IsRest
  <2>4. CASE k = 0
    <3>1. IsAt(s, g, 0) /\ Begins(full, s)
      BY <1>10, <1>11, <1>12, <2>4, Zenon
    <3>2. q = a /\ Heeds(Decode(g))
      BY <1>4, <1>5, <1>15, <3>1, CutFrame, Zenon
    <3>3. HeardNow
      BY <1>2, <1>3, <1>5, <3>2, AnswerIsHeard, Zenon
    <3>4. k + a = q
      BY <2>4, <3>2
    <3>5. Quiet(Line')
      BY <1>5, <1>9, <2>2, <3>4, QuietAfter, Zenon
    <3>6. Len(Line') <= u
      BY <1>9, <2>3, <3>2
    <3>7. QED
      BY <3>3, <3>5, <3>6, Zenon
  <2>5. CASE k # 0
    <3>1. 1 \in 1..k
      BY <1>12, <2>5
    <3>2. Soon(s, 1, k)
      BY <1>9, <3>1, Zenon DEF GaugeAt
    <3>3. q <= k /\ Ignores
      BY <1>10, <1>11, <1>12, <1>15, <3>2, CutBefore, Zenon
    <3>4. GaugeAt(Line', g, k - q)
      BY <1>9, <2>2, <3>3, GaugeOfRest, Zenon
    <3>5. Len(Line') <= a + u
      BY <1>9, <2>3
    <3>6. noise # 0
      BY <1>9, <2>5, Zenon
    <3>7. QED
      BY <3>3, <3>4, <3>5, <3>6, Zenon
  <2>6. QED
    BY <2>4, <2>5, Zenon
<1>16. CASE \E q \in Nat : q >= 2 /\ FirstCR(full, q) /\ Cut(full, q)
  BY <1>5, <1>8, <1>15, <1>16, Zenon
<1>17. QED
  BY <1>10, <1>14, <1>16, GaugeTaken, Zenon

LEMMA QuietReads ==
  ASSUME TypeOK, protocol = "vacuum", Quiet(Line), NEW u \in Nat, Len(Line) <= u,
         NEW n \in ReadSizes, NEW full \in Seq(Byte), NEW t \in Seq(Byte), NEW c \in Nat,
         Coming(full, t, c, n), wire' \in Seq(Byte)
  PROVE  Ignores /\ Quiet(Line') /\ Len(Line') <= u
<1>1. PICK s \in Seq(Byte), m \in Nat : s = Line /\ m = Len(s)
  <2>1. Line \in Seq(Byte) /\ Len(Line) \in Nat
    BY LineType
  <2>2. QED
    BY <2>1, Zenon
<1>2. Begins(full, t) /\ IsRest(t, s, c) /\ Taken(full)
  BY <1>1, Zenon DEF Coming
<1>3. Quiet(t)
  BY <1>1, <1>2, QuietOfRest, Zenon
<1>4. PICK b \in Nat : b = Len(t) /\ b <= m
  <2>1. Len(t) = m - c /\ Len(t) \in Nat
    BY <1>1, <1>2 DEF IsRest
  <2>2. Len(t) <= m
    BY <2>1
  <2>3. QED
    BY <2>1, <2>2, Zenon
<1>5. CASE NoLine(full) /\ ring' = full /\ Ignores
  <2>1. Line' = t
    BY <1>5, LineStays, Zenon
  <2>2. b <= u
    BY <1>1, <1>4
  <2>3. QED
    BY <1>3, <1>4, <1>5, <2>1, <2>2, Zenon
<1>6. ASSUME NEW q \in Nat, q >= 2, FirstCR(full, q), Cut(full, q)
      PROVE  Ignores /\ Quiet(Line') /\ Len(Line') <= u
  <2>1. IsRest(ring', full, q)
    BY <1>6, Zenon DEF Cut
  <2>2. IsRest(Line', t, q)
    BY <2>1, LineLeft, Zenon
  <2>3. Quiet(Line')
    BY <1>3, <2>2, QuietOfRest, Zenon
  <2>4. Len(Line') <= u
    <3>1. Len(Line') = b - q
      BY <1>4, <2>2, Zenon DEF IsRest
    <3>2. QED
      BY <1>1, <1>4, <3>1
  <2>5. 1 \in 1..b
    <3>1. q \in 1..Len(full) /\ Len(full) \in Nat /\ Len(full) <= b
      BY <1>2, <1>4, <1>6 DEF FirstCR, Begins
    <3>2. QED
      BY <3>1
  <2>6. Soon(t, 1, b)
    BY <1>3, <1>4, <2>5, Zenon DEF Quiet
  <2>7. Ignores
    BY <1>2, <1>6, <2>6, CutBefore, Zenon
  <2>8. QED
    BY <2>3, <2>4, <2>7, Zenon
<1>7. QED
  BY <1>2, <1>5, <1>6, GaugeTaken, Zenon

LEMMA VacuumReceive ==
  ASSUME Basics, TruthInv, VacuumLine, protocol = "vacuum",
         NEW n \in ReadSizes, n <= Len(wire), Receive(n)
  PROVE  (Ignores \/ HeardNow) /\ VacuumLine'
<1>1. TypeOK /\ Meant /\ protocol \in Protocol
  BY BasicsParts, Zenon DEF Basics
<1>2. /\ io = None
      /\ UNCHANGED <<protocol, answered, truth, noise, damaged>>
  BY Received, Zenon
<1>3. wire' \in Seq(Byte)
  BY <1>1, ReceivedType, Zenon
<1>4. PICK full \in Seq(Byte), t \in Seq(Byte), c \in Nat : Coming(full, t, c, n)
  BY <1>1, Arrival, Zenon
<1>5. ~damaged
  BY Zenon DEF VacuumLine
<1>6. CASE Pending
  <2>1. CASE Ignores /\ \E k : /\ GaugeAt(Line', Due, k)
                               /\ Len(Line') <= Len(Due) + noise * StrayLength
                               /\ noise = 0 => k = 0 /\ Len(Line') = Len(Due)
                                                     /\ Len(ring') < Len(Due)
    <3>1. Due' = Due
      BY <1>2, <2>1, SameDue, Zenon DEF Ignores
    <3>2. \E k : VacuumAwaits(k)'
      BY <1>2, <2>1, <3>1, Zenon DEF VacuumAwaits
    <3>3. Pending'
      BY <1>2, <1>6, <2>1, Zenon DEF Ignores, Pending
    <3>4. VacuumLine'
      BY <1>2, <1>5, <3>2, <3>3, Zenon DEF VacuumLine
    <3>5. QED
      BY <2>1, <3>4, Zenon
  <2>2. CASE HeardNow /\ Quiet(Line') /\ Len(Line') <= noise * StrayLength
    <3>1. ~Pending'
      BY <1>1, <2>2, HeardEnds, Zenon
    <3>2. VacuumLine'
      BY <1>2, <1>5, <2>2, <3>1, Zenon DEF VacuumLine
    <3>3. QED
      BY <2>2, <3>2, Zenon
  <2>3. QED
    BY <1>3, <1>4, <1>6, <2>1, <2>2, GaugeReads, Zenon
<1>7. CASE ~Pending
  <2>1. PICK u \in Nat : u = noise * StrayLength
    BY <1>1, NoiseTakes, Zenon
  <2>2. Quiet(Line) /\ Len(Line) <= u
    BY <1>7, <2>1, Zenon DEF VacuumLine
  <2>3. Ignores /\ Quiet(Line') /\ Len(Line') <= u
    BY <1>1, <1>3, <1>4, <2>2, QuietReads, Zenon
  <2>4. ~Pending'
    BY <1>2, <1>5, <1>7, <2>3, Zenon DEF Ignores, Pending
  <2>5. VacuumLine'
    BY <1>2, <1>5, <2>1, <2>3, <2>4, Zenon DEF VacuumLine
  <2>6. QED
    BY <2>3, <2>5, Zenon
<1>8. QED
  BY <1>6, <1>7, Zenon

-----------------------------------------------------------------------------
(* What is stored. *)

\* g is h but for v of d and f.
NowTells(g, h, d, f, v) ==
  /\ g[d][f] = v
  /\ \A e \in Devices, j \in Fields[protocol] : (e = d /\ j = f) \/ g[e][j] = h[e][j]
  /\ \A e \in Devices : e = d \/ g[e] = h[e]

LEMMA Updated ==
  ASSUME NEW h \in [Devices -> [Fields[protocol] -> Known]],
         NEW d \in Devices, NEW f \in Fields[protocol], NEW v \in Known
  PROVE  /\ [h EXCEPT ![d][f] = v] \in [Devices -> [Fields[protocol] -> Known]]
         /\ NowTells([h EXCEPT ![d][f] = v], h, d, f, v)
  BY DEF NowTells

LEMMA ValueIsKnown ==
  ASSUME NEW f, NEW v \in Values(f)
  PROVE  v \in Known
  BY Zenon DEF Values, Known

\* The setter the I/O thread is in is that of the answer under way.
IoInv ==
  io # None =>
    /\ asked # None /\ answered /\ ~damaged /\ Queried
    /\ io = [r |-> Reading(asked.idd, asked.idf, Told), step |-> io.step]
    /\ io.step \in {"value", "dirty"}

\* A reading is what was last said, or it is the one that has been answered, has not
\* reached its setter's first step, and is what had been said before.
AsSaid(d, f) ==
  \/ data[d][f] = truth[d][f]
  \/ /\ asked # None /\ answered /\ asked.idd = d /\ asked.idf = f
     /\ data[d][f] = before
     /\ io # None => io.step = "value"
StoredInv == \A d \in Devices, f \in Fields[protocol] : AsSaid(d, f)

Logged(d) ==
  \/ d \in dirty \/ log = d
  \/ io # None /\ io.step = "dirty" /\ io.r.idd = d
  \/ logged[d] = data[d]

LEMMA LogParts == LogCurrent <=> \A d \in Devices : Logged(d)
  BY Zenon DEF LogCurrent, Logged

Store == StoreTypes /\ TruthInv /\ IoInv /\ StoredInv /\ LogCurrent

LEMMA InitStore ==
  ASSUME Init
  PROVE  Store
<1>1. /\ data = [d \in Devices |-> [f \in Fields[protocol] |-> Zero(f)]]
      /\ logged = data /\ truth = data /\ asked = None /\ io = None
  BY Zenon DEF Init
<1>2. \A f \in Fields[protocol] : Zero(f) \in Known
  BY Zenon DEF Zero, Known
<1>3. data \in [Devices -> [Fields[protocol] -> Known]]
  BY <1>1, <1>2
<1>4. StoreTypes
  BY <1>1, <1>3, Zenon DEF StoreTypes
<1>5. TruthInv /\ IoInv
  BY <1>1, Zenon DEF TruthInv, IoInv
<1>6. StoredInv
  BY <1>1, Zenon DEF StoredInv, AsSaid
<1>7. LogCurrent
  BY <1>1, LogParts, Zenon DEF Logged
<1>8. QED
  BY <1>4, <1>5, <1>6, <1>7, Zenon DEF Store

\* The device and the function of a query.
LEMMA QueryType ==
  ASSUME Meant, asked # None
  PROVE  asked.idd \in Devices /\ (Queried => asked.idf \in Fields[protocol])
  BY Zenon DEF Meant, Queried

\* What a setter's reading holds.
LEMMA IoReads ==
  ASSUME IoInv, io # None
  PROVE  io.r.idd = asked.idd /\ io.r.idf = asked.idf /\ io.r.value = Told
<1>1. io = [r |-> Reading(asked.idd, asked.idf, Told), step |-> io.step]
  BY Zenon DEF IoInv
<1>2. io.r = Reading(asked.idd, asked.idf, Told)
  <2>1. PICK x, y : x = Reading(asked.idd, asked.idf, Told) /\ y = io.step
    OBVIOUS
  <2>2. io = [r |-> x, step |-> y]
    BY <1>1, <2>1, Zenon
  <2>3. io.r = x
    BY <2>2
  <2>4. QED
    BY <2>1, <2>3, Zenon
<1>3. /\ Reading(asked.idd, asked.idf, Told).idd = asked.idd
      /\ Reading(asked.idd, asked.idf, Told).idf = asked.idf
      /\ Reading(asked.idd, asked.idf, Told).value = Told
  BY DEF Reading
<1>4. QED
  BY <1>2, <1>3, Zenon

LEMMA KeepsTruth ==
  ASSUME TruthInv, asked' = asked \/ asked' = None, UNCHANGED <<protocol, answered, truth>>
  PROVE  TruthInv'
  BY Zenon DEF TruthInv, Told, Queried

LEMMA KeepsStored ==
  ASSUME StoredInv, UNCHANGED <<protocol, asked, answered, io, data, truth, before>>
  PROVE  StoredInv'
<1>1. /\ protocol' = protocol /\ asked' = asked /\ answered' = answered /\ io' = io
      /\ data' = data /\ truth' = truth /\ before' = before
  OBVIOUS
<1>2. SUFFICES ASSUME NEW d \in Devices, NEW f \in Fields[protocol]
               PROVE  AsSaid(d, f)'
  BY <1>1, Zenon DEF StoredInv
<1>3. AsSaid(d, f)
  BY Zenon DEF StoredInv
<1>4. CASE data[d][f] = truth[d][f]
  <2>1. data'[d][f] = truth'[d][f]
    BY <1>1, <1>4, Zenon
  <2>2. QED
    BY <2>1, Zenon DEF AsSaid
<1>5. CASE /\ asked # None /\ answered /\ asked.idd = d /\ asked.idf = f
           /\ data[d][f] = before /\ (io # None => io.step = "value")
  <2>1. /\ asked' # None /\ answered' /\ asked'.idd = d /\ asked'.idf = f
        /\ data'[d][f] = before' /\ (io' # None => io'.step = "value")
    BY <1>1, <1>5
  <2>2. QED
    BY <2>1, Zenon DEF AsSaid
<1>6. QED
  BY <1>3, <1>4, <1>5, Zenon DEF AsSaid

\* Nothing that is said, stored or logged changes.
LEMMA KeepsStore ==
  ASSUME Store, UNCHANGED <<protocol, asked, answered, io, data, dirty, log, logged, truth,
                            before, damaged>>
  PROVE  Store'
<1>1. StoreTypes'
  BY Zenon DEF Store, StoreTypes
<1>2. TruthInv'
  BY KeepsTruth, Zenon DEF Store
<1>3. IoInv'
  BY Zenon DEF Store, IoInv, Queried, Told
<1>4. StoredInv'
  BY KeepsStored, Zenon DEF Store
<1>5. LogCurrent'
  BY Zenon DEF Store, LogCurrent
<1>6. QED
  BY <1>1, <1>2, <1>3, <1>4, <1>5, Zenon DEF Store

LEMMA AskStore ==
  ASSUME Store, NEW d, NEW f, NEW text, Ask(d, f, text)
  PROVE  Store'
<1>1. /\ asked = None /\ answered' = FALSE
      /\ UNCHANGED <<protocol, io, data, dirty, log, logged, truth, before, damaged>>
  BY Zenon DEF Ask
<1>2. StoreTypes'
  BY <1>1, Zenon DEF Store, StoreTypes
<1>3. TruthInv'
  BY <1>1, Zenon DEF TruthInv
<1>4. IoInv'
  BY <1>1, Zenon DEF Store, IoInv
<1>5. StoredInv'
  BY <1>1, Zenon DEF Store, StoredInv, AsSaid
<1>6. LogCurrent'
  BY <1>1, Zenon DEF Store, LogCurrent
<1>7. QED
  BY <1>2, <1>3, <1>4, <1>5, <1>6, Zenon DEF Store

\* What a device answers is said, and it is what the line brings.
LEMMA AnswerTells ==
  ASSUME Basics, Store, Answer
  PROVE  /\ TruthInv' /\ Said' \in Seq(Byte) /\ Due' \in Seq(Byte) /\ wire' = wire \o Due'
         /\ \/ ~Queried /\ truth' = truth /\ before' = before
            \/ /\ Queried /\ before' = Told
               /\ \E v \in Known : NowTells(truth', truth, asked.idd, asked.idf, v)
         /\ StoreTypes'
<1>1. TypeOK /\ Meant /\ StoreTypes
  BY Zenon DEF Basics, Store
<1>2. /\ asked # None /\ answered' = TRUE
      /\ UNCHANGED <<protocol, asked, data, logged>>
  BY <1>1, Answered, Zenon
<1>3. PICK text \in Seq(Byte) : AnswerOf(text)
  BY <1>1, Answered, Zenon
<1>4. asked.idd \in Devices
  BY <1>1, <1>2, QueryType, Zenon
<1>5. truth \in [Devices -> [Fields[protocol] -> Known]]
  BY <1>1, Zenon DEF StoreTypes
<1>6. CASE Queried
  <2>1. PICK v \in Values(asked.idf) :
          /\ text = Text(asked.idf, v)
          /\ truth' = [truth EXCEPT ![asked.idd][asked.idf] = v]
          /\ before' = truth[asked.idd][asked.idf]
    BY <1>3, <1>6, Zenon DEF AnswerOf, Queried
  <2>2. v \in Known /\ asked.idf \in Fields[protocol]
    BY <1>6, ValueIsKnown, Zenon DEF Queried
  <2>3. /\ truth' \in [Devices -> [Fields[protocol] -> Known]]
        /\ NowTells(truth', truth, asked.idd, asked.idf, v)
    BY <1>4, <1>5, <2>1, <2>2, Updated, Zenon
  <2>4. Told' = v
    BY <1>2, <2>3, Zenon DEF Told, NowTells
  <2>5. Queried'
    BY <1>2, <1>6, Zenon DEF Queried
  <2>6. TruthInv' /\ Said' = text
    BY <1>2, <2>1, <2>4, <2>5, Zenon DEF TruthInv, Said, Values, Text
  <2>7. before' = Told
    BY <2>1, Zenon DEF Told
  <2>8. StoreTypes'
    BY <1>1, <1>2, <2>3, Zenon DEF StoreTypes
  <2>9. Due' = AnswerFrame(asked.idd, asked.idf, text)
    BY <1>2, <2>6, Zenon DEF Due, AnswerFrame
  <2>10. wire' = wire \o Due'
    BY <1>3, <2>9, Zenon DEF AnswerOf
  <2>11. Due' \in Seq(Byte)
    <3>1. asked.idd \in Byte /\ asked.idf \in Byte
      BY <1>1, <1>2, DeviceIsByte DEF Meant
    <3>2. QED
      BY <1>1, <2>9, <3>1, AnswerType, BasicsParts, Zenon
  <2>12. QED
    BY <1>6, <2>2, <2>3, <2>6, <2>7, <2>8, <2>10, <2>11, Zenon
<1>7. CASE ~Queried
  <2>1. text = asked.text /\ truth' = truth /\ before' = before
    BY <1>3, <1>7, Zenon DEF AnswerOf, Queried
  <2>2. ~Queried'
    BY <1>2, <1>7, Zenon DEF Queried
  <2>3. TruthInv' /\ Said' = text
    BY <1>2, <2>1, <2>2, Zenon DEF TruthInv, Said
  <2>4. StoreTypes'
    BY <1>1, <1>2, <2>1, Zenon DEF StoreTypes
  <2>5. Due' = AnswerFrame(asked.idd, asked.idf, text)
    BY <1>2, <2>3, Zenon DEF Due, AnswerFrame
  <2>6. wire' = wire \o Due'
    BY <1>3, <2>5, Zenon DEF AnswerOf
  <2>7. Due' \in Seq(Byte)
    <3>1. asked.idd \in Byte /\ asked.idf \in Byte
      BY <1>1, <1>2, DeviceIsByte DEF Meant
    <3>2. QED
      BY <1>1, <2>5, <3>1, AnswerType, BasicsParts, Zenon
  <2>8. QED
    BY <1>7, <2>1, <2>3, <2>4, <2>6, <2>7, Zenon
<1>8. QED
  BY <1>6, <1>7, Zenon

LEMMA AnswerStore ==
  ASSUME Basics, Store, Answer
  PROVE  Store'
<1>1. TypeOK /\ Meant /\ StoreTypes /\ IoInv /\ StoredInv
  BY Zenon DEF Basics, Store
<1>2. /\ asked # None /\ ~answered /\ answered' = TRUE
      /\ UNCHANGED <<protocol, asked, io, data, dirty, log, logged, damaged>>
  BY <1>1, Answered, Zenon
<1>3. /\ TruthInv' /\ StoreTypes'
      /\ \/ ~Queried /\ truth' = truth /\ before' = before
         \/ /\ Queried /\ before' = Told
            /\ \E v \in Known : NowTells(truth', truth, asked.idd, asked.idf, v)
  BY AnswerTells, Zenon
<1>4. io = None
  BY <1>1, <1>2, Zenon DEF IoInv
<1>5. IoInv'
  BY <1>2, <1>4, Zenon DEF IoInv
<1>6. ASSUME NEW d \in Devices, NEW f \in Fields[protocol]
      PROVE  AsSaid(d, f)'
  <2>1. data[d][f] = truth[d][f]
    BY <1>1, <1>2, Zenon DEF StoredInv, AsSaid
  <2>2. CASE d = asked.idd /\ f = asked.idf
    <3>1. Queried
      BY <1>6, <2>2, Zenon DEF Queried
    <3>2. before' = data[d][f]
      BY <1>3, <2>1, <2>2, <3>1, Zenon DEF Told
    <3>3. QED
      BY <1>2, <1>4, <2>2, <3>2, Zenon DEF AsSaid
  <2>3. CASE ~(d = asked.idd /\ f = asked.idf)
    <3>1. truth'[d][f] = truth[d][f]
      BY <1>3, <1>6, <2>3, Zenon DEF NowTells
    <3>2. QED
      BY <1>2, <2>1, <3>1, Zenon DEF AsSaid
  <2>4. QED
    BY <2>2, <2>3, Zenon
<1>7. StoredInv'
  BY <1>2, <1>6, Zenon DEF StoredInv
<1>8. LogCurrent'
  BY <1>2, Zenon DEF Store, LogCurrent
<1>9. QED
  BY <1>3, <1>5, <1>7, <1>8, Zenon DEF Store

LEMMA ReceiveStore ==
  ASSUME Basics, Store, NEW n, Receive(n), Ignores \/ HeardNow
  PROVE  Store'
<1>1. Meant /\ StoreTypes /\ TruthInv /\ StoredInv
  BY Zenon DEF Basics, Store
<1>2. /\ io = None
      /\ UNCHANGED <<protocol, answered, data, dirty, log, logged, truth, before, damaged>>
  BY Received, Zenon
<1>3. CASE Ignores
  BY <1>2, <1>3, KeepsStore, Zenon DEF Ignores
<1>4. CASE HeardNow
  <2>1. asked # None /\ answered /\ ~damaged
    BY <1>4, Zenon DEF HeardNow, Pending
  <2>2. \/ /\ Queried /\ asked' = asked
           /\ io' = [r |-> Reading(asked.idd, asked.idf, Told), step |-> "value"]
        \/ ~Queried /\ asked' = None /\ io' = None
    BY <1>4, Zenon DEF HeardNow
  <2>3. PICK x : x = Reading(asked.idd, asked.idf, Told)
    OBVIOUS
  <2>4. /\ [r |-> x, step |-> "value"].step = "value" /\ "value" \in {"value", "dirty"}
        /\ "value" # "dirty"
    OBVIOUS
  <2>5. io' # None => io'.step = "value" /\ io' = [r |-> x, step |-> io'.step]
    BY <2>2, <2>3, <2>4, Zenon
  <2>6. IoInv'
    BY <1>2, <2>1, <2>2, <2>3, <2>4, <2>5, Zenon DEF IoInv, Queried, Told
  <2>7. TruthInv'
    BY <1>1, <1>2, <2>2, KeepsTruth, Zenon
  <2>8. StoreTypes'
    BY <1>1, <1>2, Zenon DEF StoreTypes
  <2>9. ASSUME NEW d \in Devices, NEW f \in Fields[protocol]
        PROVE  AsSaid(d, f)'
    <3>1. AsSaid(d, f)
      BY <1>1, Zenon DEF StoredInv
    <3>2. CASE Queried
      BY <1>2, <2>2, <2>5, <3>1, <3>2, Zenon DEF AsSaid
    <3>3. CASE ~Queried
      <4>1. data[d][f] = truth[d][f]
        BY <2>9, <3>1, <3>3, Zenon DEF AsSaid, Queried
      <4>2. QED
        BY <1>2, <4>1, Zenon DEF AsSaid
    <3>4. QED
      BY <3>2, <3>3, Zenon
  <2>10. StoredInv'
    BY <1>2, <2>9, Zenon DEF StoredInv
  <2>11. LogCurrent'
    <3>1. \A d \in Devices : Logged(d)
      BY LogParts, Zenon DEF Store
    <3>2. \A d \in Devices : d \in dirty \/ log = d \/ logged[d] = data[d]
      BY <1>2, <3>1, Zenon DEF Logged
    <3>3. QED
      BY <1>2, <3>2, Zenon DEF LogCurrent
  <2>12. QED
    BY <2>6, <2>7, <2>8, <2>10, <2>11, Zenon DEF Store
<1>5. QED
  BY <1>3, <1>4, Zenon

\* The setter's first step: nothing new, or the reading is stored.
LEMMA Sets ==
  ASSUME Basics, Store, SetValue
  PROVE  /\ asked # None /\ io # None /\ ~damaged /\ answered /\ Queried /\ io.step = "value"
         /\ UNCHANGED <<protocol, answered, dirty, log, logged, truth, before, damaged>>
         /\ \/ /\ data[asked.idd][asked.idf] = Told
               /\ io' = None /\ asked' = None /\ data' = data
            \/ /\ data' = [data EXCEPT ![asked.idd][asked.idf] = Told]
               /\ asked' = asked /\ io' # None
               /\ io' = [r |-> Reading(asked.idd, asked.idf, Told), step |-> "dirty"]
<1>1. /\ io # None /\ io.step = "value"
      /\ UNCHANGED <<protocol, answered, dirty, log, logged, truth, before, damaged>>
  BY Zenon DEF SetValue
<1>2. IoInv /\ TruthInv /\ Meant /\ protocol \in Protocol
  BY BasicsParts, Zenon DEF Store, Basics
<1>3. asked # None /\ answered /\ ~damaged /\ Queried
  BY <1>1, <1>2, Zenon DEF IoInv
<1>4. io.r.idd = asked.idd /\ io.r.idf = asked.idf /\ io.r.value = Told
  BY <1>1, <1>2, IoReads, Zenon
<1>5. \/ /\ data[asked.idd][asked.idf] = Told
         /\ io' = None /\ asked' = None /\ data' = data
      \/ /\ data' = [data EXCEPT ![asked.idd][asked.idf] = Told]
         /\ asked' = asked /\ io' = [io EXCEPT !.step = "dirty"]
  <2>1. IF data[io.r.idd][io.r.idf] = io.r.value
          THEN io' = None /\ asked' = None /\ data' = data
          ELSE /\ data' = [data EXCEPT ![io.r.idd][io.r.idf] = io.r.value]
               /\ io' = [io EXCEPT !.step = "dirty"]
               /\ asked' = asked
    BY Zenon DEF SetValue
  <2>2. PICK d, f, v : d = asked.idd /\ f = asked.idf /\ v = Told
    OBVIOUS
  <2>3. IF data[d][f] = v
          THEN io' = None /\ asked' = None /\ data' = data
          ELSE /\ data' = [data EXCEPT ![d][f] = v]
               /\ io' = [io EXCEPT !.step = "dirty"]
               /\ asked' = asked
    BY <1>4, <2>1, <2>2
  <2>4. QED
    BY <2>2, <2>3, Zenon
<1>6. [io EXCEPT !.step = "dirty"] = [r |-> Reading(asked.idd, asked.idf, Told), step |-> "dirty"]
  <2>1. PICK x, y : x = Reading(asked.idd, asked.idf, Told) /\ y = io.step
    OBVIOUS
  <2>2. io = [r |-> x, step |-> y]
    BY <1>1, <1>2, <2>1, Zenon DEF IoInv
  <2>3. [io EXCEPT !.step = "dirty"] = [r |-> x, step |-> "dirty"]
    BY <2>2
  <2>4. QED
    BY <2>1, <2>3, Zenon
<1>7. [r |-> Reading(asked.idd, asked.idf, Told), step |-> "dirty"] # None
  <2>1. "dirty" \in {"value", "dirty"}
    OBVIOUS
  <2>2. QED
    BY <1>2, <1>3, <2>1, IoIsSome, Zenon
<1>8. QED
  BY <1>1, <1>3, <1>5, <1>6, <1>7, Zenon

LEMMA SetValueStore ==
  ASSUME Basics, Store, SetValue
  PROVE  Store'
<1>1. Meant /\ StoreTypes /\ TruthInv /\ StoredInv
  BY Zenon DEF Basics, Store
<1>2. /\ asked # None /\ io # None /\ ~damaged /\ answered /\ Queried /\ io.step = "value"
      /\ UNCHANGED <<protocol, answered, dirty, log, logged, truth, before, damaged>>
  BY Sets, Zenon
<1>3. asked.idd \in Devices /\ asked.idf \in Fields[protocol]
  BY <1>1, <1>2, QueryType, Zenon
<1>4. TruthInv'
  BY <1>1, <1>2, Sets, KeepsTruth, Zenon
<1>5. \A d \in Devices : d \in dirty \/ log = d \/ logged[d] = data[d]
  <2>1. io.step # "dirty"
    BY <1>2
  <2>2. QED
    BY <2>1, LogParts, Zenon DEF Store, Logged
<1>6. CASE /\ data[asked.idd][asked.idf] = Told
           /\ io' = None /\ asked' = None /\ data' = data
  <2>1. StoreTypes' /\ IoInv'
    BY <1>1, <1>2, <1>6, Zenon DEF StoreTypes, IoInv
  <2>2. StoredInv'
    BY <1>1, <1>2, <1>6, Zenon DEF StoredInv, AsSaid, Told
  <2>3. LogCurrent'
    BY <1>2, <1>5, <1>6, Zenon DEF LogCurrent
  <2>4. QED
    BY <1>4, <2>1, <2>2, <2>3, Zenon DEF Store
<1>7. CASE /\ data' = [data EXCEPT ![asked.idd][asked.idf] = Told]
           /\ asked' = asked /\ io' # None
           /\ io' = [r |-> Reading(asked.idd, asked.idf, Told), step |-> "dirty"]
  <2>1. Told \in Known
    BY <1>1, <1>2, ValueIsKnown, Zenon DEF TruthInv
  <2>2. data \in [Devices -> [Fields[protocol] -> Known]]
    BY <1>1, Zenon DEF StoreTypes
  <2>3. /\ data' \in [Devices -> [Fields[protocol] -> Known]]
        /\ NowTells(data', data, asked.idd, asked.idf, Told)
    BY <1>3, <1>7, <2>1, <2>2, Updated, Zenon
  <2>4. StoreTypes'
    BY <1>1, <1>2, <2>3, Zenon DEF StoreTypes
  <2>5. /\ io'.step = "dirty" /\ "dirty" \in {"value", "dirty"}
        /\ io' = [r |-> Reading(asked.idd, asked.idf, Told), step |-> io'.step]
    BY <1>7
  <2>6. IoInv'
    BY <1>2, <1>7, <2>5, Zenon DEF IoInv, Queried, Told
  <2>7. ASSUME NEW d \in Devices, NEW f \in Fields[protocol]
        PROVE  data'[d][f] = truth'[d][f]
    <3>1. CASE d = asked.idd /\ f = asked.idf
      BY <1>2, <2>3, <3>1, Zenon DEF NowTells, Told
    <3>2. CASE ~(d = asked.idd /\ f = asked.idf)
      <4>1. data[d][f] = truth[d][f]
        BY <1>1, <2>7, <3>2, Zenon DEF StoredInv, AsSaid
      <4>2. data'[d][f] = data[d][f]
        BY <2>3, <2>7, <3>2, Zenon DEF NowTells
      <4>3. QED
        BY <1>2, <4>1, <4>2, Zenon
    <3>3. QED
      BY <3>1, <3>2, Zenon
  <2>8. StoredInv'
    BY <1>2, <2>7, Zenon DEF StoredInv, AsSaid
  <2>9. io'.r.idd = asked.idd
    BY <1>7 DEF Reading
  <2>10. ASSUME NEW d \in Devices
         PROVE  \/ d \in dirty' \/ log' = d
                \/ io' # None /\ io'.step = "dirty" /\ io'.r.idd = d
                \/ logged'[d] = data'[d]
    <3>1. CASE d = asked.idd
      BY <1>7, <2>5, <2>9, <3>1, Zenon
    <3>2. CASE d # asked.idd
      BY <1>2, <1>5, <2>3, <3>2, Zenon DEF NowTells
    <3>3. QED
      BY <3>1, <3>2, Zenon
  <2>11. LogCurrent'
    BY <2>10, Zenon DEF LogCurrent
  <2>12. QED
    BY <1>4, <2>4, <2>6, <2>8, <2>11, Zenon DEF Store
<1>8. QED
  BY <1>6, <1>7, Sets, Zenon

LEMMA SetDirtyStore ==
  ASSUME Basics, Store, SetDirty
  PROVE  Store'
<1>1. StoreTypes /\ TruthInv /\ StoredInv /\ IoInv
  BY Zenon DEF Store
<1>2. /\ io # None /\ io.step = "dirty" /\ dirty' = dirty \cup {io.r.idd}
      /\ io' = None /\ asked' = None
      /\ UNCHANGED <<protocol, answered, data, log, logged, truth, before, damaged>>
  BY Zenon DEF SetDirty
<1>3. StoreTypes' /\ TruthInv' /\ IoInv'
  BY <1>1, <1>2, KeepsTruth, Zenon DEF StoreTypes, IoInv
<1>4. StoredInv'
  <2>1. io.step # "value"
    BY <1>2
  <2>2. QED
    BY <1>1, <1>2, <2>1, Zenon DEF StoredInv, AsSaid
<1>5. LogCurrent'
  <2>1. io.r.idd \in dirty' /\ \A d \in dirty : d \in dirty'
    BY <1>2
  <2>2. \A d \in Devices : Logged(d)
    BY LogParts, Zenon DEF Store
  <2>3. QED
    BY <1>2, <2>1, <2>2, Zenon DEF Logged, LogCurrent
<1>6. QED
  BY <1>3, <1>4, <1>5, Zenon DEF Store

\* A step of the log.
LEMMA LogStore ==
  ASSUME Basics, Store, (\E d \in Devices : LogClear(d)) \/ LogPrint
  PROVE  Store'
<1>1. StoreTypes /\ TruthInv /\ StoredInv /\ IoInv /\ log \in Devices \cup {None}
  BY Zenon DEF Store, Basics, TypeOK
<1>2. UNCHANGED <<protocol, asked, answered, io, data, truth, before, damaged>>
  BY Zenon DEF LogClear, LogPrint
<1>3. TruthInv' /\ IoInv' /\ StoredInv'
  BY <1>1, <1>2, KeepsTruth, Zenon DEF IoInv, Queried, Told, StoredInv, AsSaid
<1>4. \A d \in Devices : Logged(d)
  BY LogParts, Zenon DEF Store
<1>5. ASSUME NEW d \in Devices, LogClear(d)
      PROVE  StoreTypes' /\ LogCurrent'
  <2>1. log = None /\ dirty' = dirty \ {d} /\ log' = d /\ logged' = logged
    BY <1>5, Zenon DEF LogClear
  <2>2. StoreTypes'
    BY <1>1, <1>2, <2>1, Zenon DEF StoreTypes
  <2>3. None \notin Devices
    BY NoneAssumption, Zenon
  <2>4. \A e \in Devices : e = d \/ (e \in dirty => e \in dirty')
    BY <2>1
  <2>5. LogCurrent'
    BY <1>2, <1>4, <2>1, <2>3, <2>4, Zenon DEF Logged, LogCurrent
  <2>6. QED
    BY <2>2, <2>5, Zenon
<1>6. ASSUME LogPrint
      PROVE  StoreTypes' /\ LogCurrent'
  <2>1. /\ log # None /\ logged' = [logged EXCEPT ![log] = data[log]] /\ log' = None
        /\ dirty' = dirty
    BY <1>6, Zenon DEF LogPrint
  <2>2. log \in Devices
    BY <1>1, <2>1, Zenon
  <2>3. /\ logged \in [Devices -> [Fields[protocol] -> Known]]
        /\ data \in [Devices -> [Fields[protocol] -> Known]]
    BY <1>1, Zenon DEF StoreTypes
  <2>4. /\ logged' \in [Devices -> [Fields[protocol] -> Known]]
        /\ logged'[log] = data[log]
        /\ \A e \in Devices : e = log \/ logged'[e] = logged[e]
    BY <2>1, <2>2, <2>3
  <2>5. StoreTypes'
    BY <1>1, <1>2, <2>4, Zenon DEF StoreTypes
  <2>6. LogCurrent'
    BY <1>2, <1>4, <2>1, <2>4, Zenon DEF Logged, LogCurrent
  <2>7. QED
    BY <2>5, <2>6, Zenon
<1>7. QED
  BY <1>3, <1>5, <1>6, Zenon DEF Store

-----------------------------------------------------------------------------
(* The line under the other actions. *)

Lines == CoolerLine /\ VacuumLine

\* What comes after the line leaves it as it was.
LEMMA LineGrows ==
  ASSUME TypeOK, NEW s \in Seq(Byte), wire' = wire \o s, ring' = ring
  PROVE  \E m \in Nat, b \in Nat : m = Len(Line) /\ b = Len(s) /\ IsJoin(Line', Line, s, m, b)
<1>1. ring \in Seq(Byte) /\ wire \in Seq(Byte)
  BY BasicsParts, Zenon
<1>2. (ring \o wire) \o s = ring \o (wire \o s)
  BY <1>1, ConcatAssociative
<1>3. Line' = Line \o s
  BY <1>2, Zenon DEF Line
<1>4. Line \in Seq(Byte)
  BY LineType, Zenon
<1>5. Len(Line) \in Nat /\ Len(s) \in Nat
  BY <1>4
<1>6. PICK m \in Nat, b \in Nat : m = Len(Line) /\ b = Len(s)
  BY <1>5, Zenon
<1>7. PICK t \in Seq(Byte) : IsJoin(t, Line, s, m, b)
  BY <1>4, <1>6, Joins, Zenon
<1>8. t = Line'
  BY <1>3, <1>7, Zenon DEF IsJoin
<1>9. QED
  BY <1>6, <1>7, <1>8, Zenon

\* What is due stays in the line.
LEMMA StaysAt ==
  ASSUME NEW t, NEW s, NEW u, NEW m \in Nat, NEW b \in Nat, IsJoin(t, s, u, m, b), m = Len(s),
         NEW g \in Seq(Byte), NEW k \in Nat, IsAt(s, g, k)
  PROVE  IsAt(t, g, k)
<1>1. PICK a \in Nat : a = Len(g)
  OBVIOUS
<1>2. k + a <= m /\ Len(t) = m + b /\ \A i \in 1..m : t[i] = s[i]
  BY <1>1, Zenon DEF IsAt, IsJoin
<1>3. k + a <= m + b /\ \A i \in 1..a : k + i \in 1..m
  BY <1>2
<1>4. QED
  BY <1>1, <1>2, <1>3, Zenon DEF IsAt

\* What comes is at the end of the line.
LEMMA ComesAt ==
  ASSUME NEW t, NEW s, NEW g, NEW m \in Nat, NEW b \in Nat, IsJoin(t, s, g, m, b), b = Len(g)
  PROVE  IsAt(t, g, m)
<1>1. Len(t) = m + b /\ \A i \in 1..b : t[m + i] = g[i]
  BY Zenon DEF IsJoin
<1>2. m + b <= m + b
  OBVIOUS
<1>3. QED
  BY <1>1, <1>2, Zenon DEF IsAt

\* A byte of the joined line is of one part or the other.
IsOf(t, s, u, m, b, i) ==
  \/ i \in 1..m /\ t[i] = s[i]
  \/ \E j \in 1..b : i = m + j /\ t[i] = u[j]

LEMMA PlaceOfJoin ==
  ASSUME NEW t, NEW s, NEW u, NEW m \in Nat, NEW b \in Nat, IsJoin(t, s, u, m, b),
         NEW i \in 1..Len(t)
  PROVE  IsOf(t, s, u, m, b, i)
<1>1. /\ Len(t) = m + b /\ \A j \in 1..m : t[j] = s[j]
      /\ \A j \in 1..b : t[m + j] = u[j]
  BY Zenon DEF IsJoin
<1>2. i \in 1..m + b
  BY <1>1, Zenon
<1>3. i \in 1..m \/ (i - m \in 1..b /\ i = m + (i - m))
  BY <1>2
<1>4. QED
  BY <1>1, <1>3, Zenon DEF IsOf

LEMMA SoonStays ==
  ASSUME NEW t, NEW s, NEW u, NEW m \in Nat, NEW b \in Nat, IsJoin(t, s, u, m, b),
         NEW i \in Nat, i >= 1, NEW e \in Nat, e <= m, Soon(s, i, e), NEW x \in Nat, e <= x
  PROVE  Soon(t, i, x)
<1>1. PICK q \in Nat : i <= q /\ q <= i + 10 /\ q <= e /\ s[q] = CR
  BY Zenon DEF Soon
<1>2. q \in 1..m /\ q <= x
  BY <1>1
<1>3. t[q] = CR
  BY <1>1, <1>2, Zenon DEF IsJoin
<1>4. QED
  BY <1>1, <1>2, <1>3, Zenon DEF Soon

\* Nothing on the line, nor what is due, changes.
LEMMA KeepsLines ==
  ASSUME Lines, UNCHANGED <<protocol, asked, answered, wire, ring, truth, noise, damaged>>,
         io' = None <=> io = None
  PROVE  Lines'
<1>1. Line' = Line /\ Due' = Due
  BY SameDue, Zenon DEF Line
<1>2. Pending' <=> Pending
  BY Zenon DEF Pending
<1>3. \A k : (CoolerAwaits(k) => CoolerAwaits(k)') /\ (VacuumAwaits(k) => VacuumAwaits(k)')
  BY <1>1, Zenon DEF CoolerAwaits, VacuumAwaits
<1>4. CoolerLine'
  BY <1>1, <1>2, <1>3, Zenon DEF Lines, CoolerLine
<1>5. VacuumLine'
  BY <1>1, <1>2, <1>3, Zenon DEF Lines, VacuumLine
<1>6. QED
  BY <1>4, <1>5, Zenon DEF Lines

\* No answer is due, before or after.
LEMMA KeepsQuiet ==
  ASSUME Lines, ~damaged, ~Pending, ~Pending',
         UNCHANGED <<protocol, wire, ring, noise, damaged>>
  PROVE  Lines'
<1>1. Line' = Line
  BY Zenon DEF Line
<1>2. QED
  BY <1>1, Zenon DEF Lines, CoolerLine, VacuumLine

LEMMA InitLines ==
  ASSUME Init
  PROVE  Lines
<1>1. /\ asked = None /\ wire = <<>> /\ ring = <<>> /\ damaged = FALSE /\ noise = 0
      /\ protocol \in Protocol
  BY Zenon DEF Init
<1>2. Line = <<>>
  BY <1>1 DEF Line
<1>3. Len(<<>>) = 0 /\ \A i \in 1..0 : FALSE
  OBVIOUS
<1>4. NoHead(Line) /\ Quiet(Line) /\ Len(Line) = 0
  BY <1>2, <1>3, Zenon DEF NoHead, Quiet
<1>5. 0 * StrayLength = 0
  <2>1. StrayLength \in Nat
    BY StrayLengthHolds, RoomAssumption
  <2>2. QED
    BY <2>1
<1>6. Len(Line) <= noise * StrayLength
  BY <1>1, <1>4, <1>5
<1>7. ~Pending
  BY <1>1, Zenon DEF Pending
<1>8. QED
  BY <1>1, <1>4, <1>6, <1>7, Zenon DEF Lines, CoolerLine, VacuumLine

LEMMA AskLines ==
  ASSUME Lines, NEW d, NEW f, NEW text, Ask(d, f, text), protocol \in Protocol
  PROVE  Lines'
<1>1. /\ asked = None /\ answered' = FALSE /\ UNCHANGED <<protocol, wire, ring, noise, damaged>>
  BY Zenon DEF Ask
<1>2. ~Pending /\ ~Pending'
  BY <1>1, Zenon DEF Pending
<1>3. ~damaged
  BY <1>1, Zenon DEF Lines, CoolerLine, VacuumLine, Protocol
<1>4. QED
  BY <1>1, <1>2, <1>3, KeepsQuiet, Zenon

\* A setter's steps find no answer due and leave none.
LEMMA SetLines ==
  ASSUME Basics, Store, Lines, SetValue \/ SetDirty
  PROVE  Lines'
<1>1. /\ io # None /\ ~damaged
      /\ UNCHANGED <<protocol, wire, ring, noise, damaged>>
  BY Zenon DEF SetValue, SetDirty, Store, IoInv
<1>2. ~Pending
  BY <1>1, Zenon DEF Pending
<1>3. ~Pending'
  <2>1. CASE SetValue
    BY <2>1, Sets, Zenon DEF Pending
  <2>2. CASE SetDirty
    BY <2>2, Zenon DEF SetDirty, Pending
  <2>3. QED
    BY <2>1, <2>2, Zenon
<1>4. QED
  BY <1>1, <1>2, <1>3, KeepsQuiet, Zenon

LEMMA ReceiveLines ==
  ASSUME Basics, Store, Lines, NEW n \in ReadSizes, n <= Len(wire), Receive(n)
  PROVE  (Ignores \/ HeardNow) /\ Lines'
<1>1. TruthInv /\ CoolerLine /\ VacuumLine /\ protocol \in Protocol
  BY BasicsParts, Zenon DEF Basics, Store, Lines
<1>2. protocol' = protocol
  BY Received, Zenon
<1>3. CASE protocol = "cooler"
  <2>1. protocol' # "vacuum"
    BY <1>2, <1>3
  <2>2. QED
    BY <1>1, <1>3, <2>1, CoolerReceive, Zenon DEF Lines, VacuumLine
<1>4. CASE protocol = "vacuum"
  <2>1. protocol' # "cooler"
    BY <1>2, <1>4
  <2>2. QED
    BY <1>1, <1>4, <2>1, VacuumReceive, Zenon DEF Lines, CoolerLine
<1>5. QED
  BY <1>1, <1>3, <1>4, Zenon DEF Protocol

\* Before the answer nothing was due; the answer comes at the end of the line.
LEMMA AnswerLines ==
  ASSUME Basics, Store, Lines, Answer
  PROVE  Lines'
<1>1. TypeOK /\ Meant /\ IoInv /\ protocol \in Protocol /\ CoolerLine /\ VacuumLine
  BY BasicsParts, Zenon DEF Basics, Store, Lines
<1>2. /\ asked # None /\ ~answered /\ answered' = TRUE
      /\ UNCHANGED <<protocol, asked, ring, io, noise, damaged>>
  BY <1>1, Answered, Zenon
<1>3. io = None /\ ~damaged
  BY <1>1, <1>2, Zenon DEF IoInv, CoolerLine, VacuumLine, Protocol
<1>4. ~Pending /\ Pending'
  BY <1>2, <1>3, Zenon DEF Pending
<1>5. PICK g \in Seq(Byte), text \in Seq(Byte) :
        g = Due' /\ text = Said' /\ wire' = wire \o g
  BY AnswerTells, Zenon
<1>6. g = AnswerFrame(asked.idd, asked.idf, text)
  BY <1>2, <1>5, Zenon DEF Due, AnswerFrame
<1>7. asked.idd \in Byte /\ asked.idf \in Byte
  BY <1>1, <1>2, DeviceIsByte DEF Meant
<1>8. PICK m \in Nat, b \in Nat : m = Len(Line) /\ b = Len(g) /\ IsJoin(Line', Line, g, m, b)
  BY <1>1, <1>2, <1>5, LineGrows, Zenon
<1>9. PICK t : /\ t = Line' /\ Len(t) = m + b /\ IsAt(t, g, m)
              /\ IsJoin(t, Line, g, m, b)
  BY <1>8, ComesAt, Zenon DEF IsJoin
<1>10. PICK r \in Nat : r = Len(ring) /\ r <= m
  <2>1. Len(Line) = Len(ring) + Len(wire) /\ ring \in Seq(Byte) /\ wire \in Seq(Byte)
    BY <1>1, LineType, BasicsParts, Zenon
  <2>2. Len(ring) \in Nat /\ Len(ring) <= m
    BY <1>8, <2>1
  <2>3. QED
    BY <2>2, Zenon
<1>11. CASE protocol = "cooler"
  <2>1. Framed(g)
    BY <1>5, <1>6, <1>7, <1>11, CoolerAnswer, CoolerFramed, Zenon
  <2>2. b >= 9 /\ g[1] = COLON /\ g[b - 1] = CR /\ g[b] = LF
        /\ \A i \in 2..b - 2 : g[i] \in HexChar
    BY <1>8, <2>1, Zenon DEF Framed
  <2>3. NoHead(Line) /\ (noise = 0 => m = 0)
    BY <1>3, <1>4, <1>8, <1>11, <1>1, Zenon DEF CoolerLine
  <2>4. ASSUME NEW j \in 1..b, g[j] = COLON
        PROVE  j = 1
    <3>1. j = 1 \/ j \in 2..b - 2 \/ j = b - 1 \/ j = b
      OBVIOUS
    <3>2. CR # COLON /\ LF # COLON /\ COLON \notin HexChar
      BY DEF CR, LF, COLON, HexChar
    <3>3. QED
      BY <2>2, <2>4, <3>1, <3>2, Zenon
  <2>5. HeadAt(t, m)
    <3>1. ASSUME NEW i \in 1..Len(t), t[i] = COLON
          PROVE  i = m + 1
      <4>1. IsOf(t, Line, g, m, b, i)
        BY <1>9, <3>1, PlaceOfJoin, Zenon
      <4>2. ~(i \in 1..m /\ t[i] = Line[i])
        BY <1>8, <2>3, <3>1, Zenon DEF NoHead
      <4>3. QED
        BY <2>4, <3>1, <4>1, <4>2, Zenon DEF IsOf
    <3>2. QED
      BY <3>1, Zenon DEF HeadAt
  <2>6. r < m + b /\ (m = 0 => m + b = b)
    BY <1>10, <2>2
  <2>7. CoolerDue(t, g, m)
    BY <1>9, <2>5, Zenon DEF CoolerDue
  <2>8. CoolerAwaits(m)'
    BY <1>2, <1>5, <1>8, <1>9, <1>10, <2>3, <2>6, <2>7, Zenon DEF CoolerAwaits
  <2>9. CoolerLine'
    BY <1>2, <1>3, <1>4, <2>8, Zenon DEF CoolerLine
  <2>10. protocol' # "vacuum"
    BY <1>2, <1>11
  <2>11. QED
    BY <2>9, <2>10, Zenon DEF Lines, VacuumLine
<1>12. CASE protocol = "vacuum"
  <2>1. Closed(g)
    BY <1>5, <1>6, <1>7, <1>12, VacuumAnswer, GaugeClosed, Zenon
  <2>2. b >= 10
    BY <1>8, <2>1, Zenon DEF Closed
  <2>3. PICK u \in Nat : u = noise * StrayLength /\ (noise = 0 => u = 0)
    BY <1>1, NoiseTakes, Zenon
  <2>4. Quiet(Line) /\ m <= u
    BY <1>4, <1>8, <1>12, <2>3, <1>1, Zenon DEF VacuumLine
  <2>5. ASSUME NEW i \in 1..m
        PROVE  Soon(t, i, m)
    <3>1. Soon(Line, i, m)
      BY <1>8, <2>4, Zenon DEF Quiet
    <3>2. i \in Nat /\ i >= 1 /\ m <= m
      OBVIOUS
    <3>3. QED
      BY <1>8, <1>9, <3>1, <3>2, SoonStays, Zenon
  <2>6. \A i \in m + b + 1..m + b : FALSE
    OBVIOUS
  <2>7. GaugeAt(t, g, m)
    BY <1>8, <1>9, <2>5, <2>6, Zenon DEF GaugeAt
  <2>8. m + b <= b + u /\ (noise = 0 => m = 0 /\ m + b = b /\ r < b)
    BY <1>10, <2>2, <2>3, <2>4
  <2>9. VacuumAwaits(m)'
    BY <1>2, <1>5, <1>8, <1>9, <1>10, <2>3, <2>7, <2>8, Zenon DEF VacuumAwaits
  <2>10. VacuumLine'
    BY <1>2, <1>3, <1>4, <2>9, Zenon DEF VacuumLine
  <2>11. protocol' # "cooler"
    BY <1>2, <1>12
  <2>12. QED
    BY <2>10, <2>11, Zenon DEF Lines, CoolerLine
<1>13. QED
  BY <1>1, <1>11, <1>12, Zenon DEF Protocol

LEMMA NoiseLines ==
  ASSUME HarmlessNoise, Basics, Store, Lines, Noise
  PROVE  Lines'
<1>1. TypeOK /\ Meant /\ TruthInv /\ protocol \in Protocol /\ CoolerLine /\ VacuumLine
  BY BasicsParts, Zenon DEF Basics, Store, Lines
<1>2. /\ ~damaged /\ noise' = noise + 1
      /\ UNCHANGED <<protocol, asked, answered, ring, io, truth, damaged>>
  BY Zenon DEF Noise
<1>3. Due' = Due /\ (Pending' <=> Pending)
  BY <1>2, SameDue, Zenon DEF Pending
<1>4. PICK s \in Stray[protocol] : s \in Seq(Byte) /\ wire' = wire \o s
  BY <1>1, NoiseWire, Zenon
<1>5. PICK m \in Nat, b \in Nat : m = Len(Line) /\ b = Len(s) /\ IsJoin(Line', Line, s, m, b)
  BY <1>1, <1>2, <1>4, LineGrows, Zenon
<1>6. PICK t : t = Line' /\ Len(t) = m + b /\ IsJoin(t, Line, s, m, b)
  BY <1>5, Zenon DEF IsJoin
<1>7. noise \in Nat /\ noise' # 0
  <2>1. noise \in Nat
    BY <1>1 DEF TypeOK
  <2>2. QED
    BY <1>2, <2>1
<1>8. CASE protocol = "cooler"
  <2>1. \A i \in 1..b : s[i] # COLON
    BY <1>4, <1>5, <1>8, Zenon DEF HarmlessNoise
  <2>2. ASSUME NEW i \in 1..Len(t), t[i] = COLON
        PROVE  i \in 1..m /\ Line[i] = COLON
    <3>1. IsOf(t, Line, s, m, b, i)
      BY <1>6, <2>2, PlaceOfJoin, Zenon
    <3>2. QED
      BY <2>1, <2>2, <3>1, Zenon DEF IsOf
  <2>3. ASSUME Pending
        PROVE  CoolerLine'
    <3>1. PICK k : CoolerAwaits(k)
      BY <1>1, <1>8, <2>3, Zenon DEF CoolerLine
    <3>2. k \in Nat /\ IsAt(Line, Due, k) /\ HeadAt(Line, k) /\ Len(ring) < k + Len(Due)
      BY <3>1, Zenon DEF CoolerAwaits, CoolerDue
    <3>3. Due \in Seq(Byte)
      BY <1>1, <1>8, <2>3, CoolerDueIs, Zenon DEF Pending, Framed
    <3>4. IsAt(t, Due, k)
      BY <1>5, <1>6, <3>2, <3>3, StaysAt, Zenon
    <3>5. HeadAt(t, k)
      BY <1>5, <2>2, <3>2, Zenon DEF HeadAt
    <3>6. CoolerAwaits(k)'
      BY <1>2, <1>3, <1>6, <1>7, <3>2, <3>4, <3>5, Zenon DEF CoolerAwaits, CoolerDue
    <3>7. QED
      BY <1>2, <1>3, <2>3, <3>6, Zenon DEF CoolerLine
  <2>4. ASSUME ~Pending
        PROVE  CoolerLine'
    <3>1. NoHead(Line)
      BY <1>1, <1>2, <1>8, <2>4, Zenon DEF CoolerLine
    <3>2. NoHead(t)
      BY <1>5, <2>2, <3>1, Zenon DEF NoHead
    <3>3. QED
      BY <1>2, <1>3, <1>6, <1>7, <2>4, <3>2, Zenon DEF CoolerLine
  <2>5. CoolerLine'
    BY <2>3, <2>4, Zenon
  <2>6. protocol' # "vacuum"
    BY <1>2, <1>8
  <2>7. QED
    BY <2>5, <2>6, Zenon DEF Lines, VacuumLine
<1>9. CASE protocol = "vacuum"
  <2>1. b \in 1..11 /\ s[b] = CR
    BY <1>4, <1>5, <1>9, Zenon DEF HarmlessNoise
  <2>2. PICK l \in Nat : l = StrayLength /\ b <= l
    <3>1. s \in Stray["vacuum"]
      BY <1>4, <1>9, Zenon
    <3>2. b <= StrayLength
      BY <1>5, <3>1, StrayLengthHolds, Zenon DEF HoldsNoise
    <3>3. StrayLength \in Nat
      BY StrayLengthHolds, RoomAssumption
    <3>4. QED
      BY <3>2, <3>3, Zenon
  <2>3. PICK u \in Nat, w \in Nat : u = noise * StrayLength /\ w = noise' * StrayLength /\ w = u + l
    <3>1. noise * StrayLength \in Nat /\ noise' * StrayLength = noise * StrayLength + l
      BY <1>1, <1>2, <2>2, NoiseTakes, Zenon
    <3>2. noise * StrayLength + l \in Nat
      BY <3>1
    <3>3. QED
      BY <3>1, <3>2, Zenon
  <2>4. ASSUME NEW i \in m + 1..m + b
        PROVE  Soon(t, i, m + b)
    <3>1. PICK q \in Nat : q = m + b
      OBVIOUS
    <3>2. i <= q /\ q <= i + 10 /\ q <= m + b /\ b \in 1..b
      BY <2>1, <3>1
    <3>3. t[q] = CR
      BY <1>5, <1>6, <2>1, <3>1, <3>2, Zenon DEF IsJoin
    <3>4. QED
      BY <3>2, <3>3, Zenon DEF Soon
  <2>5. ASSUME Pending
        PROVE  VacuumLine'
    <3>1. PICK k : VacuumAwaits(k)
      BY <1>1, <1>9, <2>5, Zenon DEF VacuumLine
    <3>2. GaugeAt(Line, Due, k)
      BY <3>1, Zenon DEF VacuumAwaits
    <3>3. GaugeShape(Due, asked.idd, Said) /\ Said \in Seq(Byte)
      BY <1>1, <1>9, <2>5, GaugeDueIs, Zenon DEF Pending
    <3>4. Due \in Seq(Byte)
      BY <3>3, GaugeShapeLen, Zenon
    <3>5. PICK a \in Nat : a = Len(Due)
      BY <3>4
    <3>6. k \in Nat /\ IsAt(Line, Due, k) /\ k + a <= m
      BY <1>5, <3>2, <3>5, Zenon DEF GaugeAt, IsAt
    <3>7. IsAt(t, Due, k)
      BY <1>5, <1>6, <3>4, <3>6, StaysAt, Zenon
    <3>8. ASSUME NEW i \in 1..k
          PROVE  Soon(t, i, k)
      <4>1. Soon(Line, i, k)
        BY <3>2, Zenon DEF GaugeAt
      <4>2. i \in Nat /\ i >= 1 /\ k <= m /\ k <= k
        BY <3>6
      <4>3. QED
        BY <1>5, <1>6, <3>6, <4>1, <4>2, SoonStays, Zenon
    <3>9. ASSUME NEW i \in k + a + 1..m + b
          PROVE  Soon(t, i, m + b)
      <4>1. CASE i \in m + 1..m + b
        BY <2>4, <4>1, Zenon
      <4>2. CASE i \notin m + 1..m + b
        <5>1. i \in k + a + 1..m /\ i \in Nat /\ i >= 1 /\ m <= m /\ m <= m + b /\ m + b \in Nat
          BY <3>6, <4>2
        <5>2. Soon(Line, i, m)
          BY <1>5, <3>2, <3>5, <5>1, Zenon DEF GaugeAt
        <5>3. QED
          BY <1>5, <1>6, <5>1, <5>2, SoonStays, Zenon
      <4>3. QED
        BY <4>1, <4>2, Zenon
    <3>10. GaugeAt(t, Due, k)
      BY <1>6, <3>5, <3>6, <3>7, <3>8, <3>9, Zenon DEF GaugeAt
    <3>11. m + b <= a + w
      <4>1. m <= a + u
        BY <1>5, <2>3, <3>1, <3>5, Zenon DEF VacuumAwaits
      <4>2. QED
        BY <2>2, <2>3, <4>1
    <3>12. VacuumAwaits(k)'
      BY <1>3, <1>6, <1>7, <2>3, <3>5, <3>10, <3>11, Zenon DEF VacuumAwaits
    <3>13. QED
      BY <1>2, <1>3, <2>5, <3>12, Zenon DEF VacuumLine
  <2>6. ASSUME ~Pending
        PROVE  VacuumLine'
    <3>1. Quiet(Line) /\ m <= u
      BY <1>1, <1>5, <1>9, <2>3, <2>6, Zenon DEF VacuumLine
    <3>2. ASSUME NEW i \in 1..m + b
          PROVE  Soon(t, i, m + b)
      <4>1. CASE i \in m + 1..m + b
        BY <2>4, <4>1, Zenon
      <4>2. CASE i \notin m + 1..m + b
        <5>1. i \in 1..m /\ i \in Nat /\ i >= 1 /\ m <= m /\ m <= m + b /\ m + b \in Nat
          BY <4>2
        <5>2. Soon(Line, i, m)
          BY <1>5, <3>1, <5>1, Zenon DEF Quiet
        <5>3. QED
          BY <1>5, <1>6, <5>1, <5>2, SoonStays, Zenon
      <4>3. QED
        BY <4>1, <4>2, Zenon
    <3>3. Quiet(t)
      BY <1>6, <3>2, Zenon DEF Quiet
    <3>4. m + b <= w
      BY <2>2, <2>3, <3>1
    <3>5. QED
      BY <1>2, <1>3, <1>6, <2>3, <2>6, <3>3, <3>4, Zenon DEF VacuumLine
  <2>7. VacuumLine'
    BY <2>5, <2>6, Zenon
  <2>8. protocol' # "cooler"
    BY <1>2, <1>9
  <2>9. QED
    BY <2>7, <2>8, Zenon DEF Lines, CoolerLine
<1>10. QED
  BY <1>1, <1>8, <1>9, Zenon DEF Protocol

\* What y has at i and x has not, y after ring has at r + i, and x after ring has not.
Shifted(s, t, a, x, y, i) ==
  /\ s = a \o y /\ t = a \o x /\ Len(a) + i \in 1..Len(s)
  /\ IsWithout(t, s, Len(a) + i) /\ s[Len(a) + i] = y[i]

LEMMA JoinWithout ==
  ASSUME NEW a \in Seq(Byte), NEW x \in Seq(Byte), NEW y \in Seq(Byte),
         NEW i \in 1..Len(y), IsWithout(x, y, i)
  PROVE  \E s \in Seq(Byte), t \in Seq(Byte) : Shifted(s, t, a, x, y, i)
<1>1. PICK r \in Nat, w \in Nat : r = Len(a) /\ w = Len(y)
  <2>1. Len(a) \in Nat /\ Len(y) \in Nat
    OBVIOUS
  <2>2. QED
    BY <2>1, Zenon
<1>2. IsWithout(x, y, i) /\ i \in 1..w
  BY <1>1, Zenon
<1>3. Len(x) + 1 = w
  BY <1>1, <1>2, Zenon DEF IsWithout
<1>4. PICK v \in Nat : v = Len(x) /\ v + 1 = w
  BY <1>3
<1>5. PICK s \in Seq(Byte) : IsJoin(s, a, y, r, w)
  BY <1>1, Joins, Zenon
<1>6. PICK t \in Seq(Byte) : IsJoin(t, a, x, r, v)
  BY <1>1, <1>4, Joins, Zenon
<1>7. s = a \o y /\ t = a \o x /\ Len(s) = r + w /\ Len(t) = r + v
  BY <1>5, <1>6, Zenon DEF IsJoin
<1>8. PICK j \in Nat : j = r + i /\ j \in 1..r + w
  BY <1>2
<1>9. s[j] = y[i]
  BY <1>2, <1>5, <1>8, Zenon DEF IsJoin
<1>10. ASSUME NEW k \in 1..j - 1
       PROVE  t[k] = s[k]
  <2>1. CASE k \in 1..r
    BY <1>5, <1>6, <2>1, Zenon DEF IsJoin
  <2>2. CASE k \notin 1..r
    <3>1. PICK q \in Nat : q = k - r /\ r + q = k /\ q \in 1..i - 1 /\ q \in 1..v /\ q \in 1..w
      <4>1. k - r \in Nat
        BY <1>8, <2>2
      <4>2. PICK q \in Nat : q = k - r
        BY <4>1, Zenon
      <4>3. r + q = k /\ q \in 1..i - 1 /\ q \in 1..v /\ q \in 1..w
        BY <1>2, <1>4, <1>8, <2>2, <4>2
      <4>4. QED
        BY <4>2, <4>3, Zenon
    <3>2. t[r + q] = x[q] /\ s[r + q] = y[q]
      BY <1>5, <1>6, <3>1, Zenon DEF IsJoin
    <3>3. x[q] = y[q]
      BY <1>2, <3>1, Zenon DEF IsWithout
    <3>4. QED
      BY <3>1, <3>2, <3>3, Zenon
  <2>3. QED
    BY <2>1, <2>2, Zenon
<1>11. ASSUME NEW k \in j..r + v
       PROVE  t[k] = s[k + 1]
  <2>1. PICK q \in Nat : q = k - r
    BY <1>2, <1>8
  <2>2. /\ r + q = k /\ q \in i..v /\ q \in 1..v /\ q + 1 \in 1..w /\ r + (q + 1) = k + 1
    BY <1>2, <1>4, <1>8, <2>1
  <2>3. t[r + q] = x[q] /\ s[r + (q + 1)] = y[q + 1]
    BY <1>5, <1>6, <2>2, Zenon DEF IsJoin
  <2>4. x[q] = y[q + 1]
    BY <1>2, <1>4, <2>2, Zenon DEF IsWithout
  <2>5. QED
    BY <2>2, <2>3, <2>4, Zenon
<1>12. (r + v) + 1 = r + w
  <2>1. \A p \in Nat, q \in Nat : (p + q) + 1 = p + (q + 1)
    OBVIOUS
  <2>2. QED
    BY <1>4, <2>1, Zenon
<1>13. IsWithout(t, s, j)
  BY <1>7, <1>10, <1>11, <1>12, Zenon DEF IsWithout
<1>14. QED
  BY <1>1, <1>7, <1>8, <1>9, <1>13, Zenon DEF Shifted

\* Without one of its bytes a cooler's frame is damaged.
LEMMA FrameLoses ==
  ASSUME NEW g, Framed(g), Len(g) <= Capacity, NEW j \in 1..Len(g), NEW t, IsWithout(t, g, j)
  PROVE  Broken(t)
<1>1. PICK a \in Nat, b \in Nat : a = Len(g) /\ b = Len(t) /\ b + 1 = a
  <2>1. Len(g) \in Nat /\ Len(t) \in Nat /\ Len(t) + 1 = Len(g)
    BY DEF Framed, IsWithout
  <2>2. QED
    BY <2>1, Zenon
<1>2. /\ a >= 9 /\ a % 2 = 1 /\ g[1] = COLON /\ g[a - 1] = CR /\ g[a] = LF
      /\ \A i \in 2..a - 2 : g[i] \in HexChar
  BY <1>1, Zenon DEF Framed
<1>3. b % 2 = 0 /\ b <= Capacity
  <2>1. b % 2 = 0
    <3>1. a % 2 = 1 /\ b = a - 1
      BY <1>1, <1>2
    <3>2. QED
      BY <3>1
  <2>2. a <= Capacity /\ Capacity \in Nat
    BY <1>1, RoomAssumption
  <2>3. b <= Capacity
    BY <1>1, <2>2
  <2>4. QED
    BY <2>1, <2>3, Zenon
<1>4. CR # COLON /\ LF # COLON /\ COLON \notin HexChar /\ LF # CR /\ LF \notin HexChar
      /\ LF # COLON
  BY DEF CR, LF, COLON, HexChar
<1>5. \A i \in 1..a : i = 1 \/ i \in 2..a - 2 \/ i = a - 1 \/ i = a
  BY <1>1
<1>6. \A i \in 1..a : g[i] = COLON => i = 1
  BY <1>2, <1>4, <1>5, Zenon
<1>7. \A i \in 1..a : g[i] = LF => i = a
  BY <1>2, <1>4, <1>5, Zenon
<1>8. ASSUME NEW i \in 1..b
      PROVE  \/ i \in 1..a /\ t[i] = g[i]
             \/ i + 1 \in 1..a /\ t[i] = g[i + 1]
  <2>1. i \in 1..j - 1 \/ i \in j..b
    BY <1>1
  <2>2. i \in 1..a /\ i + 1 \in 1..a
    BY <1>1
  <2>3. QED
    BY <1>1, <2>1, <2>2, Zenon DEF IsWithout
<1>9. ASSUME NEW i \in 1..b, t[i] = COLON
      PROVE  i = 1
  <2>1. i = 1 \/ i + 1 = 1
    BY <1>6, <1>8, <1>9, Zenon
  <2>2. QED
    BY <2>1
<1>10. ASSUME NEW i \in 1..b - 1, t[i] = CR, t[i + 1] = LF
       PROVE  i + 1 = b
  <2>1. i + 1 \in 1..b
    OBVIOUS
  <2>2. i + 1 = a \/ (i + 1) + 1 = a
    BY <1>7, <1>8, <1>10, <2>1, Zenon
  <2>3. QED
    BY <1>1, <2>1, <2>2
<1>11. QED
  BY <1>1, <1>3, <1>9, <1>10, Zenon DEF Broken

\* Nor has a frame with one byte more a length that is decoded.
LEMMA FrameGains ==
  ASSUME NEW g, Framed(g), NEW j \in 1..Len(g), j > 1, NEW t \in Seq(Byte), IsWithout(g, t, j),
         Len(t) <= Capacity, t[j] \notin {COLON, g[j]}
  PROVE  Broken(t)
<1>1. PICK a \in Nat, b \in Nat : a = Len(g) /\ b = Len(t) /\ b = a + 1
  <2>1. Len(g) \in Nat /\ Len(t) \in Nat /\ Len(g) + 1 = Len(t)
    BY DEF Framed, IsWithout
  <2>2. QED
    BY <2>1, Zenon
<1>2. /\ a >= 9 /\ a % 2 = 1 /\ g[1] = COLON /\ g[a - 1] = CR /\ g[a] = LF
      /\ \A i \in 2..a - 2 : g[i] \in HexChar
  BY <1>1, Zenon DEF Framed
<1>3. b % 2 = 0
  <2>1. a % 2 = 1 /\ b = a + 1
    BY <1>1, <1>2
  <2>2. QED
    BY <2>1
<1>4. CR # COLON /\ LF # COLON /\ COLON \notin HexChar /\ LF # CR /\ LF \notin HexChar
      /\ CR \notin HexChar
  BY DEF CR, LF, COLON, HexChar
<1>5. \A i \in 1..a : i = 1 \/ i \in 2..a - 2 \/ i = a - 1 \/ i = a
  BY <1>1
<1>6. \A i \in 1..a : g[i] = COLON => i = 1
  BY <1>2, <1>4, <1>5, Zenon
<1>7. \A i \in 1..a : (g[i] = LF => i = a) /\ (g[i] = CR => i = a - 1)
  BY <1>2, <1>4, <1>5, Zenon
<1>8. j \in 1..a
  BY <1>1
<1>9. ASSUME NEW i \in 1..b
      PROVE  \/ i \in 1..j - 1 /\ i \in 1..a /\ t[i] = g[i]
             \/ i = j
             \/ i - 1 \in j..a /\ i - 1 \in 1..a /\ t[i] = g[i - 1]
  <2>1. CASE i \in 1..j - 1
    <3>1. i \in 1..a
      BY <1>1, <1>8, <2>1
    <3>2. QED
      BY <2>1, <3>1, Zenon DEF IsWithout
  <2>2. CASE i \notin 1..j - 1 /\ i # j
    <3>1. i - 1 \in j..a /\ i - 1 \in 1..a /\ (i - 1) + 1 = i
      BY <1>1, <1>8, <2>2
    <3>2. QED
      BY <1>1, <3>1, Zenon DEF IsWithout
  <2>3. QED
    BY <2>1, <2>2, Zenon
<1>10. ASSUME NEW i \in 1..b, t[i] = COLON
       PROVE  i = 1
  <2>1. i = 1 \/ (i - 1 \in j..a /\ i - 1 = 1)
    BY <1>6, <1>9, <1>10, Zenon
  <2>2. QED
    BY <1>8, <2>1
<1>11. ASSUME NEW i \in 1..b - 1, t[i] = CR, t[i + 1] = LF
       PROVE  i + 1 = b
  <2>1. i \in 1..b /\ i + 1 \in 1..b /\ (i + 1) - 1 = i
    OBVIOUS
  <2>2. CASE i + 1 \in 1..j - 1
    <3>1. i + 1 # j /\ ~((i + 1) - 1 \in j..a)
      BY <1>8, <2>2
    <3>2. i + 1 \in 1..a /\ t[i + 1] = g[i + 1]
      BY <1>9, <2>1, <3>1, Zenon
    <3>3. i + 1 = a
      BY <1>7, <1>11, <3>2, Zenon
    <3>4. QED
      BY <1>8, <2>2, <3>3
  <2>3. CASE i + 1 = j
    <3>1. i # j /\ ~(i - 1 \in j..a)
      BY <1>8, <2>3
    <3>2. i \in 1..a /\ t[i] = g[i]
      BY <1>9, <2>1, <3>1, Zenon
    <3>3. i = a - 1
      BY <1>7, <1>11, <3>2, Zenon
    <3>4. j = a
      BY <2>3, <3>3
    <3>5. QED
      BY <1>2, <1>11, <2>3, <3>4
  <2>4. CASE (i + 1) - 1 \in j..a /\ (i + 1) - 1 \in 1..a /\ t[i + 1] = g[(i + 1) - 1]
    <3>1. i = a
      BY <1>7, <1>11, <2>1, <2>4, Zenon
    <3>2. QED
      BY <1>1, <3>1
  <2>5. QED
    BY <1>9, <2>1, <2>2, <2>3, <2>4, Zenon
<1>12. QED
  BY <1>1, <1>3, <1>10, <1>11, Zenon DEF Broken

LEMMA DamageLines ==
  ASSUME Basics, Store, Lines, Damage
  PROVE  Lines'
<1>1. TypeOK /\ Meant /\ TruthInv /\ protocol \in Protocol /\ CoolerLine
  BY BasicsParts, Zenon DEF Basics, Store, Lines
<1>2. /\ protocol = "cooler" /\ ~damaged /\ noise = 0 /\ damaged' = TRUE
      /\ UNCHANGED <<protocol, asked, answered, ring, io, noise>>
  BY Zenon DEF Damage
<1>3. wire' \in Seq(Byte) /\ ring \in Seq(Byte) /\ wire \in Seq(Byte)
  BY <1>1, BasicsParts, Damages, Zenon
<1>4. PICK i \in 1..Len(wire) : Loses(i) \/ Gains(i)
  BY <1>1, Damages, Zenon
<1>5. Pending
  <2>1. Len(Line) # 0
    <3>1. Len(Line) = Len(ring) + Len(wire)
      BY <1>1, LineType, Zenon
    <3>2. QED
      BY <1>3, <3>1
  <2>2. QED
    BY <1>1, <1>2, <2>1, Zenon DEF CoolerLine
<1>6. PICK k : CoolerAwaits(k)
  BY <1>1, <1>2, <1>5, Zenon DEF CoolerLine
<1>7. asked # None /\ answered /\ io = None
  BY <1>5, Zenon DEF Pending
<1>8. Framed(Due) /\ Len(Due) = 9 + 2 * Len(Said)
  BY <1>1, <1>2, <1>7, CoolerDueIs, Zenon
<1>9. Line = Due
  <2>1. k = 0 /\ Len(Line) = Len(Due) /\ IsAt(Line, Due, 0)
    BY <1>2, <1>6, Zenon DEF CoolerAwaits, CoolerDue
  <2>2. PICK g \in Seq(Byte), s \in Seq(Byte) : g = Due /\ s = Line
    BY <1>1, <1>8, LineType, Zenon DEF Framed
  <2>3. PICK a \in Nat : a = Len(g)
    OBVIOUS
  <2>4. \A x \in 1..a : 0 + x = x
    OBVIOUS
  <2>5. Len(s) = a /\ \A x \in 1..a : s[x] = g[x]
    BY <2>1, <2>2, <2>3, <2>4, Zenon DEF IsAt
  <2>6. QED
    BY <2>2, <2>3, <2>5, SameBytes, Zenon
<1>10. Len(Due) + 1 <= Capacity /\ Len(Due) <= Capacity
  <2>1. Said \in Answers /\ Said \in Seq(Byte)
    BY <1>1, <1>7, SaidType, Zenon
  <2>2. 10 + 2 * Len(Said) + MaxNoise * StrayLength <= Capacity
    BY <2>1, StrayLengthHolds, Zenon DEF HoldsNoise
  <2>3. MaxNoise \in Nat /\ StrayLength \in Nat /\ Capacity \in Nat
    BY ConstantsAssumption, StrayLengthHolds, RoomAssumption
  <2>4. PICK y \in Nat, w \in Nat : y = Len(Said) /\ w = MaxNoise * StrayLength
    <3>1. Len(Said) \in Nat /\ MaxNoise * StrayLength \in Nat
      BY <2>1, <2>3
    <3>2. QED
      BY <3>1, Zenon
  <2>5. 10 + 2 * y + w <= Capacity /\ Len(Due) = 9 + 2 * y
    BY <1>8, <2>2, <2>4, Zenon
  <2>6. QED
    BY <2>3, <2>4, <2>5
<1>11. ASSUME Loses(i)
       PROVE  Broken(Line')
  <2>1. IsWithout(wire', wire, i)
    BY <1>11, Zenon DEF Loses
  <2>2. PICK s \in Seq(Byte), t \in Seq(Byte) : Shifted(s, t, ring, wire', wire, i)
    BY <1>3, <2>1, JoinWithout, Zenon
  <2>3. PICK j : j = Len(ring) + i /\ j \in 1..Len(s) /\ IsWithout(t, s, j)
    BY <2>2, Zenon DEF Shifted
  <2>4. s = Due /\ t = Line'
    BY <1>2, <1>9, <2>2, Zenon DEF Line, Shifted
  <2>5. QED
    BY <1>8, <1>10, <2>3, <2>4, FrameLoses, Zenon
<1>12. ASSUME Gains(i)
       PROVE  Broken(Line')
  <2>1. PICK v \in Seq(Byte), w \in Nat : v = wire' /\ w = Len(wire) /\ Len(v) = w + 1
    <3>1. Len(wire) + 1 = Len(wire')
      BY <1>12, Zenon DEF Gains, IsWithout
    <3>2. Len(wire) \in Nat
      BY <1>3
    <3>3. QED
      BY <1>3, <3>1, <3>2, Zenon
  <2>2. i \in 1..Len(v) /\ i \in 1..w /\ i \in Nat
    BY <2>1
  <2>3a. PICK s \in Seq(Byte), t \in Seq(Byte) : Shifted(s, t, ring, wire, v, i)
    <3>1. IsWithout(wire, v, i)
      BY <1>12, <2>1, Zenon DEF Gains
    <3>2. QED
      BY <1>3, <2>2, <3>1, JoinWithout, Zenon
  <2>3. PICK j :
          /\ s = ring \o v /\ t = ring \o wire /\ j = Len(ring) + i /\ j \in 1..Len(s)
          /\ IsWithout(t, s, j) /\ s[j] = v[i]
    BY <2>3a, Zenon DEF Shifted
  <2>4. t = Due /\ s = Line'
    BY <1>2, <1>9, <2>1, <2>3, Zenon DEF Line
  <2>5. t[j] = wire[i] /\ j \in 1..Len(t) /\ j > 1
    <3>1. PICK r \in Nat : r = Len(ring)
      BY <1>3
    <3>2. IsJoin(t, ring, wire, r, w)
      <4>1. PICK u \in Seq(Byte) : IsJoin(u, ring, wire, r, w)
        BY <1>3, <2>1, <3>1, Joins, Zenon
      <4>2. u = t
        BY <2>3, <4>1, Zenon DEF IsJoin
      <4>3. QED
        BY <4>1, <4>2, Zenon
    <3>3. t[j] = wire[i] /\ Len(t) = r + w
      BY <2>2, <2>3, <3>1, <3>2, Zenon DEF IsJoin
    <3>4. Len(ring) + i > 1
      BY <1>12, Zenon DEF Gains
    <3>5. j \in 1..r + w /\ j > 1
      BY <2>2, <2>3, <3>1, <3>4
    <3>6. QED
      BY <3>3, <3>5, Zenon
  <2>6. s[j] \notin {COLON, t[j]}
    BY <1>12, <2>1, <2>3, <2>5, Zenon DEF Gains
  <2>7. Len(s) <= Capacity
    <3>1. Len(t) + 1 = Len(s)
      BY <2>3, Zenon DEF IsWithout
    <3>2. QED
      BY <1>10, <2>4, <3>1, Zenon
  <2>8. Broken(s)
    BY <1>8, <2>3, <2>4, <2>5, <2>6, <2>7, FrameGains, Zenon
  <2>9. QED
    BY <2>4, <2>8, Zenon
<1>13. Broken(Line')
  BY <1>4, <1>11, <1>12, Zenon
<1>14. CoolerLine'
  BY <1>2, <1>7, <1>13, Zenon DEF CoolerLine, Pending
<1>15. protocol' # "vacuum"
  BY <1>2
<1>16. QED
  BY <1>14, <1>15, Zenon DEF Lines, VacuumLine

-----------------------------------------------------------------------------
\* The inductive invariant: what is under way, what is stored, and what is on the line.
Inv == Basics /\ Store /\ Lines

LEMMA StepInv ==
  ASSUME HarmlessNoise, Inv, [Next]_vars
  PROVE  Inv'
<1>1. Basics /\ Store /\ Lines /\ TypeOK /\ Meant /\ protocol \in Protocol
  BY BasicsParts, Zenon DEF Inv, Basics
<1>2. Basics'
  BY <1>1, StepBasics, Zenon
<1>3. CASE UNCHANGED vars
  <2>1. UNCHANGED <<protocol, asked, answered, wire, ring, io, data, dirty, log, logged,
                    truth, before, noise, damaged>>
    BY <1>3, Zenon DEF vars
  <2>2. QED
    BY <1>1, <1>2, <2>1, KeepsStore, KeepsLines, Zenon DEF Inv
<1>4. CASE Next
  <2>1. ASSUME NEW d, NEW f, NEW text, Ask(d, f, text)
        PROVE  Inv'
    BY <1>1, <1>2, <2>1, AskStore, AskLines, Zenon DEF Inv
  <2>2. CASE Answer
    BY <1>1, <1>2, <2>2, AnswerStore, AnswerLines, Zenon DEF Inv
  <2>3. CASE Noise
    <3>1. UNCHANGED <<protocol, asked, answered, io, data, dirty, log, logged, truth, before,
                      damaged>>
      BY <2>3, Zenon DEF Noise
    <3>2. QED
      BY <1>1, <1>2, <2>3, <3>1, KeepsStore, NoiseLines, Zenon DEF Inv
  <2>4. CASE Damage
    <3>1. UNCHANGED <<protocol, asked, answered, io, data, dirty, log, logged, truth, before>>
      BY <2>4, Zenon DEF Damage
    <3>2. Lines'
      BY <1>1, <2>4, DamageLines, Zenon
    <3>3. StoreTypes' /\ TruthInv' /\ StoredInv' /\ LogCurrent'
      <4>1. StoreTypes /\ TruthInv /\ StoredInv /\ LogCurrent
        BY <1>1, Zenon DEF Store
      <4>2. TruthInv'
        BY <3>1, <4>1, KeepsTruth, Zenon
      <4>3. StoreTypes' /\ LogCurrent'
        BY <3>1, <4>1, Zenon DEF StoreTypes, LogCurrent
      <4>4. StoredInv'
        BY <3>1, <4>1, KeepsStored, Zenon
      <4>5. QED
        BY <4>2, <4>3, <4>4, Zenon
    <3>4. IoInv'
      <4>1. protocol' = "cooler" /\ damaged'
        BY <2>4, Zenon DEF Damage
      <4>2. io' = None
        BY <3>2, <4>1, Zenon DEF Lines, CoolerLine
      <4>3. QED
        BY <4>2, Zenon DEF IoInv
    <3>5. QED
      BY <1>2, <3>2, <3>3, <3>4, Zenon DEF Inv, Store
  <2>5. ASSUME NEW n \in ReadSizes, n <= Len(wire), Receive(n)
        PROVE  Inv'
    BY <1>1, <1>2, <2>5, ReceiveLines, ReceiveStore, Zenon DEF Inv
  <2>6. CASE SetValue
    BY <1>1, <1>2, <2>6, SetValueStore, SetLines, Zenon DEF Inv
  <2>7. CASE SetDirty
    BY <1>1, <1>2, <2>7, SetDirtyStore, SetLines, Zenon DEF Inv
  <2>8. CASE (\E d \in Devices : LogClear(d)) \/ LogPrint
    <3>1. UNCHANGED <<protocol, asked, answered, wire, ring, io, truth, noise, damaged>>
      BY <2>8, Zenon DEF LogClear, LogPrint
    <3>2. QED
      BY <1>1, <1>2, <2>8, <3>1, LogStore, KeepsLines, Zenon DEF Inv
  <2>9. QED
    BY <1>4, <2>1, <2>2, <2>3, <2>4, <2>5, <2>6, <2>7, <2>8, Zenon DEF Next
<1>5. QED
  BY <1>3, <1>4, Zenon

\* Every state keeps what the exchange means, what is stored and logged, and where on
\* the line the answer is, whatever the sizes of the reads, the stray sequences that
\* HarmlessNoise admits, and the byte that a cooler's answer loses or gains.
THEOREM InvHolds == HarmlessNoise => (Spec => []Inv)
<1> SUFFICES ASSUME HarmlessNoise PROVE Spec => []Inv
  OBVIOUS
<1>1. Init => Inv
  BY InitBasics, InitStore, InitLines, Zenon DEF Inv
<1>2. Inv /\ [Next]_vars => Inv'
  BY StepInv, Zenon
<1>3. QED
  BY <1>1, <1>2, PTL DEF Spec

\* A stored reading is what the device last said, or the answer to it is under way
\* (StoredAsSaid): serial_read, decode_data and the setters leave no other value. At a
\* cooler noise holds no ':', and damages at most one byte of an answer; at a gauge
\* it comes between the answers only, in short lines.
THEOREM ReadingsAsSaid == HarmlessNoise => (Spec => []StoredAsSaid)
<1>1. Inv => StoredAsSaid
  BY Zenon DEF Inv, Store, StoredInv, AsSaid, StoredAsSaid
<1>2. QED
  BY <1>1, InvHolds, PTL

\* What the log last said of a device is what is known of it, or a mark or a step says
\* otherwise (LogCurrent): write_log and the setters, without a lock, lose no change.
THEOREM LogIsCurrent == HarmlessNoise => (Spec => []LogCurrent)
<1>1. Inv => LogCurrent
  BY Zenon DEF Inv, Store
<1>2. QED
  BY <1>1, InvHolds, PTL

\* When the last byte of an answer has been read, the answer has been decoded (Heard):
\* serial_read takes a whole frame in the read event that completes it.
THEOREM AnswersHeard == HarmlessNoise => (Spec => []Heard)
<1>1. ASSUME Inv, answered, wire = <<>>, io = None, ~damaged, noise > 0 => protocol = "cooler"
      PROVE  asked = None
  <2>1. SUFFICES ASSUME asked # None
                 PROVE  FALSE
    OBVIOUS
  <2>2. TypeOK /\ protocol \in Protocol /\ CoolerLine /\ VacuumLine
    BY <1>1, BasicsParts, Zenon DEF Inv, Basics, Lines
  <2>3. Pending
    BY <1>1, <2>1, Zenon DEF Pending
  <2>4. Len(Line) = Len(ring) /\ Len(ring) \in Nat
    <3>1. Len(Line) = Len(ring) + Len(wire) /\ ring \in Seq(Byte)
      BY <2>2, LineType, BasicsParts, Zenon
    <3>2. Len(wire) = 0
      BY <1>1
    <3>3. QED
      BY <3>1, <3>2
  <2>5. CASE protocol = "cooler"
    <3>1. PICK k : CoolerAwaits(k)
      BY <2>2, <2>3, <2>5, Zenon DEF CoolerLine
    <3>2. k + Len(Due) <= Len(Line) /\ Len(ring) < k + Len(Due)
      BY <3>1, Zenon DEF CoolerAwaits, CoolerDue, IsAt
    <3>3. PICK x, y : x = k + Len(Due) /\ y = Len(ring)
      OBVIOUS
    <3>4. x \in Int
      <4>1. Meant /\ TruthInv
        BY <1>1, Zenon DEF Inv, Basics, Store
      <4>2. Framed(Due)
        BY <1>1, <2>1, <2>5, <4>1, CoolerDueIs, Zenon
      <4>3. PICK g \in Seq(Byte) : g = Due
        BY <4>2, Zenon DEF Framed
      <4>4. k \in Nat /\ Len(g) \in Nat
        BY <3>1 DEF CoolerAwaits, CoolerDue
      <4>5. QED
        BY <3>3, <4>3, <4>4
    <3>5. x <= y /\ y < x /\ y \in Int
      BY <2>4, <3>2, <3>3
    <3>6. QED
      BY <3>4, <3>5
  <2>6. CASE protocol = "vacuum"
    <3>1. PICK k : VacuumAwaits(k)
      BY <2>2, <2>3, <2>6, Zenon DEF VacuumLine
    <3>2. noise = 0
      <4>1. noise \in Nat /\ protocol # "cooler"
        BY <2>2, <2>6 DEF TypeOK
      <4>2. QED
        BY <1>1, <4>1
    <3>3. Len(Line) = Len(Due) /\ Len(ring) < Len(Due)
      BY <3>1, <3>2, Zenon DEF VacuumAwaits
    <3>4. PICK y \in Nat : y = Len(ring)
      BY <2>4
    <3>5. y < y
      BY <2>4, <3>3, <3>4, Zenon
    <3>6. QED
      BY <3>5
  <2>7. QED
    BY <2>2, <2>5, <2>6, Zenon DEF Protocol
<1>2. Inv => Heard
  BY <1>1, Zenon DEF Heard
<1>3. QED
  BY <1>2, InvHolds, PTL
=============================================================================
