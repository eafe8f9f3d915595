------------------------------- MODULE Frames -------------------------------
(***************************************************************************)
(* The frames of the two serial protocols, byte by byte: encode_data and   *)
(* decode_data of CoolerCtl and VacuumCtl, with the helpers they share. A  *)
(* byte is a number below 256, a frame a sequence of them.                 *)
(*                                                                         *)
(* A reading is a number of tenths, or a text for the pressure of a gauge. *)
(*                                                                         *)
(* X_Variant, just before X, is X with a plausible slip; no specification   *)
(* uses it. It tells whether the properties notice the slip.               *)
(***************************************************************************)
EXTENDS Integers, Sequences

CONSTANT Unset  \* what an uninitialised double holds

CR == 13
LF == 10
SPACE == 32
MINUS == 45
POINT == 46
COLON == 58
TILDE == 126

Byte == 0..255
Digits == 48..57

\* The hexadecimal digits of a byte, '7' being 0x37.
HexDigit(t) == IF t >= 10 THEN t + 55 ELSE t + 48
Hex(b) == <<HexDigit(b \div 16), HexDigit(b % 16)>>
HexText(text) ==
  [i \in 1..2 * Len(text) |-> Hex(text[(i + 1) \div 2])[IF i % 2 = 1 THEN 1 ELSE 2]]

\* decode_uint8: anything but a digit or a capital letter counts as it is.
Nibble(b) == IF b \in Digits THEN b - 48 ELSE IF b \in 65..70 THEN b - 55 ELSE b
decode_uint8(b1, b2) == (((16 * Nibble(b1)) % 256) + Nibble(b2)) % 256
UnhexText(s) == [i \in 1..Len(s) \div 2 |-> decode_uint8(s[2 * i - 1], s[2 * i])]

Checksum(s) ==
  LET sum[i \in 0..Len(s)] == IF i = 0 THEN 0 ELSE (sum[i - 1] + s[i]) % 256
  IN  sum[Len(s)]
LRC(s) == (256 - Checksum(s)) % 256

-----------------------------------------------------------------------------
\* boost::format of an int with "%d", and of a double, in tenths, with "%.1f".
Magnitude(n) == IF n < 0 THEN -n ELSE n
Sign(n) == IF n < 0 THEN <<MINUS>> ELSE <<>>
Decimal[n \in Nat] ==
  IF n < 10 THEN <<48 + n>> ELSE Append(Decimal[n \div 10], 48 + (n % 10))
FormatInt(n) == Sign(n) \o Decimal[Magnitude(n)]
FormatTenths_TwoPlaces(n) ==
  Sign(n) \o Decimal[Magnitude(n) \div 10] \o <<POINT, 48 + (Magnitude(n) % 10), 48>>
FormatTenths(n) ==
  Sign(n) \o Decimal[Magnitude(n) \div 10] \o <<POINT, 48 + (Magnitude(n) % 10)>>

\* The tenths, and the ints, of at most ten characters.
ShortTenths == {v \in Int : v > -100000000 /\ v < 1000000000}
ShortInts == {n \in Int : n > -1000000000 /\ n <= 2147483647}

\* atof, in tenths: an optional sign, digits, and a digit after the point; the
\* first other character ends the number.
atof(s) ==
  LET signed == s # <<>> /\ s[1] = MINUS
      step(acc, b) ==
        IF acc.end \/ (b \notin Digits /\ (b # POINT \/ acc.point))
          THEN [acc EXCEPT !.end = TRUE]
        ELSE IF b = POINT THEN [acc EXCEPT !.point = TRUE]
        ELSE IF acc.point THEN [acc EXCEPT !.tenths = @ + b - 48, !.end = TRUE]
        ELSE [acc EXCEPT !.tenths = @ * 10 + (b - 48) * 10]
      run[i \in 0..Len(s)] ==
        IF i = 0 THEN [tenths |-> 0, point |-> FALSE, end |-> FALSE]
        ELSE IF i = 1 /\ signed THEN run[0] ELSE step(run[i - 1], s[i])
      value == run[Len(s)].tenths
  IN  IF signed THEN -value ELSE value

-----------------------------------------------------------------------------
\* CoolerCtl::encode_data: ':', device, function, data, LRC of all the rest.
CoolerFrame(idd, idf, text) ==
  LET body == <<COLON>> \o Hex(idd) \o Hex(idf) \o HexText(text)
      lrc == LRC(body \o <<0, 0, CR, LF>>)
  IN  body \o Hex(lrc) \o <<CR, LF>>

\* VacuumCtl::encode_data: '~', device, function, and their sum; it takes a value
\* and ignores it.
VacuumFrame(idd, idf) ==
  LET body == <<SPACE>> \o Hex(idd) \o <<SPACE>> \o Hex(idf) \o <<SPACE>>
  IN  <<TILDE>> \o body \o Hex(Checksum(body)) \o <<CR>>

\* What decode_data makes of a frame: refused, or a reading of a device. The
\* checksum is not looked at.
Refused == [ok |-> FALSE]
Reading(idd, idf, value) ==
  [ok |-> TRUE, idd |-> idd, idf |-> idf, value |-> value]

CoolerDecode_AnyLength(f) ==
  IF Len(f) < 9 THEN Refused
  ELSE Reading(decode_uint8(f[2], f[3]), decode_uint8(f[4], f[5]),
               atof(UnhexText(SubSeq(f, 6, Len(f) - 4))))
CoolerDecode(f) ==
  IF Len(f) < 9 \/ (Len(f) - 9) % 2 # 0 THEN Refused
  ELSE Reading(decode_uint8(f[2], f[3]), decode_uint8(f[4], f[5]),
               IF Len(f) > 9 THEN atof(UnhexText(SubSeq(f, 6, Len(f) - 4)))
                             ELSE Unset)

\* The bytes paired are those at 6, 8, .. up to Len(f) - 5, counted from 0, the last
\* of them with its successor. front is the function of drct_.front(); isText says
\* whether it is the pressure.
VacuumDecode(f, front, isText) ==
  IF Len(f) < 12 THEN Refused
  ELSE LET pairs == (Len(f) - 9) \div 2
           text == UnhexText(SubSeq(f, 7, 6 + 2 * pairs))
       IN  Reading(decode_uint8(f[1], f[2]), front, IF isText THEN text ELSE atof(text))

-----------------------------------------------------------------------------
\* The rings of the ports. Lookup returns the place of the first flag at or after
\* from, counted from 0, or -1.
Lookup(ring, flag, from) ==
  LET found == {p \in from..Len(ring) - Len(flag) :
                  SubSeq(ring, p + 1, p + Len(flag)) = flag}
  IN  IF found = {} THEN -1 ELSE CHOOSE p \in found : \A q \in found : p <= q

\* circular_buffer::push_back, which drops the oldest byte when the ring is full.
PushBack_Grow(ring, bytes, capacity) == ring \o bytes
PushBack(ring, bytes, capacity) ==
  LET all == ring \o bytes
  IN  IF Len(all) <= capacity THEN all
      ELSE SubSeq(all, Len(all) - capacity + 1, Len(all))

\* SerialComm::Read erases what precedes the frame along with it.
Read(ring, len, from) ==
  IF from < 0 \/ from >= Len(ring) THEN [frame |-> <<>>, ring |-> ring]
  ELSE LET last == IF Len(ring) < from + len THEN Len(ring) ELSE from + len
       IN  [frame |-> SubSeq(ring, from + 1, last),
            ring |-> SubSeq(ring, last + 1, Len(ring))]
=============================================================================
