----------------------------- MODULE Reception -----------------------------
(***************************************************************************)
(* A controller's exchanges with its devices, byte by byte: a directive is *)
(* encoded and sent, the device's answer comes in read events of any size, *)
(* SerialComm::handle_read and ControllerBase::serial_read look for a frame*)
(* and store its reading, and write_log reports what has changed.          *)
(*                                                                         *)
(* As in Controller, one exchange is on the line at a time. What Controller*)
(* has as an abstract answer is here its bytes, with stray sequences before*)
(* and after it, or one byte lost from it or slipped in.                   *)
(***************************************************************************)
EXTENDS Frames, SequencesExt

CONSTANTS
  Devices,      \* allDev_
  Fields,       \* for each protocol, the functions whose answers are stored
  WRITE,        \* CFID_WRITE_COOLSET
  PRES,         \* VFID_READ_PRES, the only reading that is a text
  Tenths,       \* readings, in tenths
  Texts,        \* readings of the pressure
  Settings,     \* numbers written to a cooler as double, in tenths
  IntSettings,  \* numbers written to a cooler as int
  Stray,        \* for each protocol, byte sequences that noise may add
  StrayByte,    \* the bytes that may slip into a cooler's answer
  Capacity,     \* capacity of crcrcv_
  ReadSizes,    \* how many bytes one read event may bring
  MsgSize,      \* sizeof Directive::msg
  MaxExchanges, \* bound on the exchanges
  MaxNoise,     \* bound on the stray byte sequences
  None

Protocol == {"cooler", "vacuum"}

ASSUME ConstantsAssumption ==
  /\ Devices \subseteq Byte
  /\ Fields \in [Protocol -> SUBSET Byte]
  /\ PRES \notin Fields["cooler"]
  /\ WRITE \in Byte
  /\ Texts \subseteq Seq(Byte) \ {<<>>}
  /\ Tenths \subseteq Int
  /\ MaxNoise \in Nat /\ MaxExchanges \in Nat

\* What io may be, for a reading of V.
Storing(V) == [r : [ok : {TRUE}, idd : Devices, idf : Byte, value : V],
               step : {"value", "dirty"}]

ASSUME NoneAssumption ==
  /\ None \notin Devices
  /\ None \notin [idd : Devices, idf : Byte, text : Seq(Byte)]
  /\ None \notin Storing(Texts) /\ None \notin Storing(Tenths)

\* The numbers written have at most eight digits before the point, or ten as an int,
\* a sign among them: temperatures, and settings of a controller.
ASSUME SettingsAssumption ==
  /\ MsgSize \in Nat /\ MsgSize >= 30
  /\ Settings \subseteq ShortTenths /\ IntSettings \subseteq ShortInts

ASSUME StrayAssumption ==
  /\ Stray \in [Protocol -> SUBSET Seq(Byte)]
  /\ StrayByte \subseteq Byte \ {COLON}

\* Noise makes no head of a cooler's frame, and at a gauge, whose frames have no head,
\* only lines of their own, too short for a frame.
HarmlessNoise ==
  /\ \A s \in Stray["cooler"] : \A i \in 1..Len(s) : s[i] # COLON
  /\ \A s \in Stray["vacuum"] : Len(s) \in 1..11 /\ s[Len(s)] = CR

\* What encode_data makes of the numbers, and what a device may say in an answer.
Written == {FormatTenths(v) : v \in Settings} \cup {FormatInt(n) : n \in IntSettings}
Answers == Texts \cup Written \cup {FormatTenths(v) : v \in Tenths}

\* l bytes each are as much as stray lines are long, and a gauge's ring holds them
\* all, with a frame.
HoldsNoise(l) ==
  /\ \A s \in Stray["vacuum"] : Len(s) <= l
  /\ \A text \in Answers : 10 + 2 * Len(text) + MaxNoise * l <= Capacity

\* The ring has room for a frame and what one read event brings.
ASSUME RoomAssumption ==
  /\ Capacity \in Nat /\ ReadSizes \subseteq Nat \ {0}
  /\ \A text \in Answers, n \in ReadSizes : 10 + 2 * Len(text) + n <= Capacity
  /\ \E l \in 0..Capacity : HoldsNoise(l)

VARIABLES
  protocol,  \* which controller this is; it never changes
  asked,     \* drct_.front(): device, function and data; or None
  msg,       \* its msg
  answered,  \* the device has answered it
  wire,      \* bytes on their way to handle_read
  ring,      \* crcrcv_
  io,        \* the setter the I/O thread is in, or None
  data,      \* data_
  dirty,     \* the devices whose data_[i].dirty is set
  log,       \* the device write_log is about to print, or None
  logged,    \* what was last printed of each device
  truth,     \* what each device last answered
  before,    \* what it had answered before
  noise,     \* how often stray bytes have been added
  damaged,   \* a cooler's answer has a byte less, or one more
  exchanges

vars == <<protocol, asked, msg, answered, wire, ring, io, data, dirty, log,
          logged, truth, before, noise, damaged, exchanges>>

Zero(f) == IF f = PRES THEN <<>> ELSE 0
Values(f) == IF f = PRES THEN Texts ELSE Tenths
Text(f, v) == IF f = PRES THEN v ELSE FormatTenths(v)

Init ==
  /\ protocol \in Protocol
  /\ data = [d \in Devices |-> [f \in Fields[protocol] |-> Zero(f)]]
  /\ logged = data
  /\ truth = data
  /\ before = None
  /\ asked = None /\ msg = <<>> /\ answered = FALSE
  /\ wire = <<>> /\ ring = <<>> /\ io = None
  /\ dirty = {} /\ log = None
  /\ noise = 0 /\ damaged = FALSE /\ exchanges = 0

-----------------------------------------------------------------------------
\* first_send of a directive of generate_directive or Write.
Encode(d, f, text) ==
  IF protocol = "cooler" THEN CoolerFrame(d, f, text) ELSE VacuumFrame(d, f)

Ask(d, f, text) ==
  /\ asked = None /\ wire = <<>>
  /\ exchanges < MaxExchanges
  /\ exchanges' = exchanges + 1
  /\ asked' = [idd |-> d, idf |-> f, text |-> text]
  /\ msg' = Encode(d, f, text)
  /\ answered' = FALSE
  /\ UNCHANGED <<protocol, wire, ring, io, data, dirty, log, logged, truth,
                 before, noise, damaged>>

\* The device, not code of the program: what it reads in a directive, whatever its
\* checksum, and its answer, of the form decode_data expects.
HexDigits == <<48, 49, 50, 51, 52, 53, 54, 55, 56, 57, 65, 66, 67, 68, 69, 70>>
HexValue(s, i) ==
  LET value(c) == (CHOOSE n \in 1..16 : HexDigits[n] = c) - 1
  IN  value(s[i]) * 16 + value(s[i + 1])

DeviceReads(m) ==
  IF protocol = "cooler"
    THEN [idd |-> HexValue(m, 2), idf |-> HexValue(m, 4),
          text |-> [i \in 1..(Len(m) - 9) \div 2 |-> HexValue(m, 4 + 2 * i)]]
    ELSE [idd |-> HexValue(m, 3), idf |-> HexValue(m, 6), text |-> <<>>]

AnswerFrame(d, f, text) ==
  IF protocol = "cooler" THEN CoolerFrame(d, f, text)
  ELSE LET body == Hex(d) \o <<SPACE, 79, 75, SPACE>> \o HexText(text) \o <<SPACE>>
       IN  body \o Hex(Checksum(body)) \o <<CR>>

Answer ==
  /\ asked # None /\ ~answered
  /\ LET q == DeviceReads(msg)
     IN  /\ q.idd \in Devices
         /\ IF q.idf \in Fields[protocol]
              THEN \E v \in Values(q.idf) :
                     /\ wire' = wire \o AnswerFrame(q.idd, q.idf, Text(q.idf, v))
                     /\ truth' = [truth EXCEPT ![q.idd][q.idf] = v]
                     /\ before' = truth[q.idd][q.idf]
              ELSE /\ wire' = wire \o AnswerFrame(q.idd, q.idf, q.text)
                   /\ UNCHANGED <<truth, before>>
  /\ answered' = TRUE
  /\ UNCHANGED <<protocol, asked, msg, ring, io, data, dirty, log, logged, noise,
                 damaged, exchanges>>

Noise ==
  /\ noise < MaxNoise /\ ~damaged
  /\ noise' = noise + 1
  /\ \E s \in Stray[protocol] : wire' = wire \o s
  /\ UNCHANGED <<protocol, asked, msg, answered, ring, io, data, dirty, log,
                 logged, truth, before, damaged, exchanges>>

\* One byte of a cooler's answer is lost, or one slips in after its first byte, unlike
\* the byte before which it comes.
Damage ==
  /\ protocol = "cooler" /\ ~damaged /\ noise = 0
  /\ damaged' = TRUE
  /\ \E i \in 1..Len(wire) :
       \/ wire' = RemoveAt(wire, i)
       \/ /\ Len(ring) + i > 1
          /\ \E b \in StrayByte \ {wire[i]} : wire' = InsertAt(wire, i, b)
  /\ UNCHANGED <<protocol, asked, msg, answered, ring, io, data, dirty, log,
                 logged, truth, before, noise, exchanges>>

-----------------------------------------------------------------------------
\* head_ and tail_, set by the constructors.
head_ == IF protocol = "cooler" THEN <<COLON>> ELSE <<>>
tail_ == IF protocol = "cooler" THEN <<CR, LF>> ELSE <<CR>>

\* The places of a frame that serial_read computes. Without a head the tail is
\* looked for nowhere, and itail stays 0.
Places_TailFirst(r) ==
  LET head == IF head_ = <<>> THEN 0 ELSE Lookup(r, head_, 0)
  IN  [head |-> head, tail |-> IF head >= 0 THEN Lookup(r, tail_, 0) ELSE 0]
Places(r) ==
  LET head == IF head_ = <<>> THEN 0 ELSE Lookup(r, head_, 0)
  IN  [head |-> head, tail |-> IF head >= 0 THEN Lookup(r, tail_, head) ELSE 0]

\* VacuumCtl looks at drct_.front(), which is no directive when nothing is asked; what
\* it makes of a whole frame then, the language does not define.
Decode(f) ==
  IF protocol = "cooler" THEN CoolerDecode(f)
  ELSE IF asked = None THEN Refused
  ELSE VacuumDecode(f, asked.idf, asked.idf = PRES)

\* handle_read of n bytes, then serial_read. A reading of a device and a function
\* that are known goes to its setter; otherwise the exchange ends at once.
Receive(n) ==
  /\ io = None
  /\ wire' = SubSeq(wire, n + 1, Len(wire))
  /\ LET full == PushBack(ring, SubSeq(wire, 1, n), Capacity)
         at == Places(full)
         len == at.tail - at.head + Len(tail_)
         got == Read(full, len, at.head)
         r == IF at.tail > at.head THEN Decode(got.frame) ELSE Refused
         field == r.ok /\ r.idd \in Devices /\ r.idf \in Fields[protocol]
     IN  /\ ring' = IF at.tail > at.head THEN got.ring ELSE full
         /\ io' = IF field THEN [r |-> r, step |-> "value"] ELSE None
         /\ asked' = IF r.ok /\ ~field THEN None ELSE asked
  /\ UNCHANGED <<protocol, msg, answered, data, dirty, log, logged, truth, before,
                 noise, damaged, exchanges>>

\* The setters of CoolerData and VacuumData: the value, then dirty, when it is new.
SetValue ==
  /\ io # None /\ io.step = "value"
  /\ LET r == io.r
     IN  IF data[r.idd][r.idf] = r.value
           THEN io' = None /\ asked' = None /\ UNCHANGED data
           ELSE /\ data' = [data EXCEPT ![r.idd][r.idf] = r.value]
                /\ io' = [io EXCEPT !.step = "dirty"]
                /\ UNCHANGED asked
  /\ UNCHANGED <<protocol, msg, answered, wire, ring, dirty, log, logged, truth,
                 before, noise, damaged, exchanges>>

SetDirty ==
  /\ io # None /\ io.step = "dirty"
  /\ dirty' = dirty \cup {io.r.idd}
  /\ io' = None /\ asked' = None
  /\ UNCHANGED <<protocol, msg, answered, wire, ring, data, log, logged, truth,
                 before, noise, damaged, exchanges>>

\* write_log, on another thread and without a lock, a device at a time: clear dirty,
\* then read and print the values.
LogClear_All(d) ==
  /\ log = None
  /\ d \in dirty
  /\ dirty' = {}
  /\ log' = d
  /\ UNCHANGED <<protocol, asked, msg, answered, wire, ring, io, data, logged,
                 truth, before, noise, damaged, exchanges>>
LogClear(d) ==
  /\ log = None
  /\ d \in dirty
  /\ dirty' = dirty \ {d}
  /\ log' = d
  /\ UNCHANGED <<protocol, asked, msg, answered, wire, ring, io, data, logged,
                 truth, before, noise, damaged, exchanges>>

LogPrint ==
  /\ log # None
  /\ logged' = [logged EXCEPT ![log] = data[log]]
  /\ log' = None
  /\ UNCHANGED <<protocol, asked, msg, answered, wire, ring, io, data, dirty,
                 truth, before, noise, damaged, exchanges>>

Next ==
  \/ \E d \in Devices, f \in Fields[protocol] : Ask(d, f, <<>>)
  \/ protocol = "cooler" /\ \E d \in Devices, s \in Written : Ask(d, WRITE, s)
  \/ Answer \/ Noise \/ Damage
  \/ \E n \in ReadSizes : n <= Len(wire) /\ Receive(n)
  \/ SetValue \/ SetDirty
  \/ \E d \in Devices : LogClear(d)
  \/ LogPrint

Spec == Init /\ [][Next]_vars

-----------------------------------------------------------------------------
TypeOK ==
  /\ protocol \in Protocol
  /\ asked \in [idd : Byte, idf : Byte, text : Seq(Byte)] \cup {None}
  /\ answered \in BOOLEAN /\ noise \in 0..MaxNoise /\ damaged \in BOOLEAN
  /\ \A s \in {msg, wire, ring} : s \in Seq(Byte)
  /\ Len(ring) <= Capacity
  /\ dirty \subseteq Devices
  /\ log \in Devices \cup {None}
  /\ exchanges \in 0..MaxExchanges

\* No directive, with its NUL, is longer than the array it is written to
\* (Directive::msg).
FitsMessage == Len(msg) + 1 <= MsgSize

\* Once the last byte of an answer has been read, the answer has been decoded: in
\* pieces of any size, and, for a cooler, whatever comes before or after it without
\* a ':' (serial_read).
Heard ==
  answered /\ wire = <<>> /\ io = None /\ ~damaged /\ (noise > 0 => protocol = "cooler")
    => asked = None

\* A stored reading is what the device last answered to that query; only the answer
\* under way may be missing. At a cooler, whose answers' checksum is not verified,
\* noise without ':' before and after an answer leaves no other value, nor does one
\* byte lost from an answer or slipped into it; at a gauge, no short line between the
\* answers (serial_read, decode_data and the setters).
StoredAsSaid ==
  \A d \in Devices, f \in Fields[protocol] :
    \/ data[d][f] = truth[d][f]
    \/ /\ asked # None /\ asked.idd = d /\ asked.idf = f
       /\ data[d][f] = before

\* What the log last said of a device is what is known of it, unless the device is
\* marked, or its setter or the log is between its two steps: no change is lost
\* between write_log and the setters, which share no lock.
LogCurrent ==
  \A d \in Devices :
    \/ d \in dirty \/ log = d
    \/ io # None /\ io.step = "dirty" /\ io.r.idd = d
    \/ logged[d] = data[d]
=============================================================================
