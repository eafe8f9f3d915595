---------------------------- MODULE FramesProofs ----------------------------
(***************************************************************************)
(* Lemmas about the frames and the conversions of Frames, for bytes,       *)
(* numbers and frames of any size: what a checksum is, that a value written*)
(* in hexadecimal or decimal digits reads back, where a ring has a frame.  *)
(***************************************************************************)
EXTENDS Frames, Inductions, SequenceTheorems

-----------------------------------------------------------------------------
(* Checksum: the sum of the bytes, byte by byte, in eight bits. *)

LEMMA ByteSum ==
  ASSUME NEW a \in Byte, NEW b \in Byte
  PROVE  (a + b) % 256 \in Byte
  BY DEF Byte

LEMMA ZeroIsByte == 0 \in Byte
  BY DEF Byte

Running(sum, s, n) ==
  sum[0] = 0 /\ \A i \in 1..n : sum[i] = (sum[i - 1] + s[i]) % 256

LEMMA RunningExists ==
  ASSUME NEW n \in Nat, NEW s \in [1..n -> Byte]
  PROVE  \E sum \in [0..n -> Byte] : Running(sum, s, n)
<1>1. PICK step \in [1..n -> [Byte -> Byte]] :
        \A i \in 1..n, b \in Byte : step[i][b] = (b + s[i]) % 256
  <2> DEFINE step == [i \in 1..n |-> [b \in Byte |-> (b + s[i]) % 256]]
  <2>1. step \in [1..n -> [Byte -> Byte]]
    BY ByteSum
  <2>2. QED
    BY <2>1
<1>2. PICK f \in [0..n -> Byte] : Iterates(f, 0, step, n)
  BY ZeroIsByte, Iteration
<1>3. f[0] = 0 /\ \A i \in 1..n : f[i] = step[i][f[i - 1]]
  BY <1>2 DEF Iterates
<1>4. ASSUME NEW i \in 1..n
      PROVE  f[i] = (f[i - 1] + s[i]) % 256
  <2>1. f[i - 1] \in Byte
    OBVIOUS
  <2>2. QED
    BY <1>1, <1>3, <2>1
<1>5. QED
  BY <1>3, <1>4 DEF Running

\* Two sums agree as far as the sequences do.
LEMMA SumsAgree ==
  ASSUME NEW n \in Nat, NEW s, NEW t, \A i \in 1..n : s[i] = t[i],
         NEW f, Running(f, s, n), NEW g, Running(g, t, n)
  PROVE  \A i \in 0..n : f[i] = g[i]
<1> DEFINE S == {k \in Nat : k <= n => f[k] = g[k]}
<1>1. 0 \in S
  BY DEF Running
<1>2. ASSUME NEW k \in Nat, k \in S
      PROVE  k + 1 \in S
  <2>1. SUFFICES ASSUME k + 1 <= n
                 PROVE  f[k + 1] = g[k + 1]
    OBVIOUS
  <2>2. f[k] = g[k] /\ (k + 1) - 1 = k /\ k + 1 \in 1..n
    BY <1>2, <2>1
  <2>3. QED
    BY <2>2 DEF Running
<1>3. Nat \subseteq S
  <2> HIDE DEF S
  <2>1. QED
    BY <1>1, <1>2, Induction
<1>4. QED
  BY <1>3

\* The sum that Checksum chooses is one.
LEMMA ChecksumRuns ==
  ASSUME NEW s \in Seq(Byte), NEW n \in Nat, n = Len(s)
  PROVE  \E sum \in [0..n -> Byte] : Running(sum, s, n) /\ Checksum(s) = sum[n]
<1> DEFINE Def(g) == [i \in 0..Len(s) |-> IF i = 0 THEN 0 ELSE (g[i - 1] + s[i]) % 256]
           sum == CHOOSE g : g = Def(g)
<1>1. PICK f \in [0..n -> Byte] : Running(f, s, n)
  BY RunningExists
<1>2. f = Def(f)
  BY <1>1 DEF Running
<1>3. sum = Def(sum)
  <2> HIDE DEF Def
  <2>1. QED
    BY <1>2
<1>4. Checksum(s) = sum[n]
  BY DEF Checksum
<1> HIDE DEF sum
<1>5. Running(sum, s, n)
  BY <1>3 DEF Running
<1>6. \A i \in 0..n : sum[i] = f[i]
  BY <1>1, <1>5, SumsAgree
<1>7. sum \in [0..n -> Byte]
  BY <1>3, <1>6
<1>8. QED
  BY <1>4, <1>5, <1>7

LEMMA ChecksumType ==
  ASSUME NEW s \in Seq(Byte)
  PROVE  Checksum(s) \in Byte
  BY ChecksumRuns, LenProperties

LEMMA ChecksumAppend ==
  ASSUME NEW s \in Seq(Byte), NEW b \in Byte
  PROVE  Checksum(Append(s, b)) = (Checksum(s) + b) % 256
<1>1. ASSUME NEW n \in Nat, n = Len(s), NEW t \in Seq(Byte), t = Append(s, b)
      PROVE  Checksum(t) = (Checksum(s) + b) % 256
  <2>1. Len(t) = n + 1 /\ t[n + 1] = b /\ \A i \in 1..n : t[i] = s[i]
    BY <1>1
  <2>2. PICK f : Running(f, s, n) /\ Checksum(s) = f[n] /\ f[n] \in Byte
    BY <1>1, ChecksumRuns
  <2>3. PICK g : Running(g, t, n + 1) /\ Checksum(t) = g[n + 1]
    BY <1>1, <2>1, ChecksumRuns
  <2>4. Running(g, t, n)
    BY <2>3 DEF Running
  <2>5. \A i \in 0..n : f[i] = g[i]
    <3>1. \A i \in 1..n : s[i] = t[i]
      BY <2>1
    <3>2. QED
      BY <2>2, <2>4, <3>1, SumsAgree
  <2>6. g[n + 1] = (g[n] + b) % 256
    BY <2>1, <2>3 DEF Running
  <2>7. QED
    BY <2>2, <2>3, <2>5, <2>6
<1>2. Len(s) \in Nat /\ Append(s, b) \in Seq(Byte)
  OBVIOUS
<1>3. QED
  BY <1>1, <1>2

LEMMA ChecksumEmpty == Checksum(<<>>) = 0
<1>1. <<>> \in Seq(Byte) /\ Len(<<>>) = 0
  OBVIOUS
<1>2. QED
  BY <1>1, ChecksumRuns, ZenonT(60) DEF Running

-----------------------------------------------------------------------------
(* Hexadecimal digits: what encode_data writes, decode_data reads. *)

HexChar == 48..57 \cup 65..70

LEMMA HexDigitReads ==
  ASSUME NEW t \in 0..15
  PROVE  HexDigit(t) \in HexChar /\ Nibble(HexDigit(t)) = t
  BY DEF HexDigit, HexChar, Nibble, Digits

LEMMA ByteHalves ==
  ASSUME NEW b \in Byte
  PROVE  /\ b \div 16 \in 0..15 /\ b % 16 \in 0..15
         /\ (((16 * (b \div 16)) % 256) + (b % 16)) % 256 = b
<1>1. b \div 16 \in 0..15 /\ b % 16 \in 0..15 /\ b = 16 * (b \div 16) + (b % 16)
  BY DEF Byte
<1>2. (16 * (b \div 16)) % 256 = 16 * (b \div 16)
  BY <1>1
<1>3. QED
  BY <1>1, <1>2 DEF Byte

\* A byte's digits, and the byte they are read as.
LEMMA HexReads ==
  ASSUME NEW b \in Byte
  PROVE  /\ Len(Hex(b)) = 2 /\ Hex(b)[1] \in HexChar /\ Hex(b)[2] \in HexChar
         /\ Hex(b)[1] = HexDigit(b \div 16) /\ Hex(b)[2] = HexDigit(b % 16)
         /\ decode_uint8(Hex(b)[1], Hex(b)[2]) = b
<1>1. Len(Hex(b)) = 2 /\ Hex(b)[1] = HexDigit(b \div 16) /\ Hex(b)[2] = HexDigit(b % 16)
  BY DEF Hex
<1>2. /\ Nibble(HexDigit(b \div 16)) = b \div 16 /\ Nibble(HexDigit(b % 16)) = b % 16
      /\ HexDigit(b \div 16) \in HexChar /\ HexDigit(b % 16) \in HexChar
  BY ByteHalves, HexDigitReads
<1>3. decode_uint8(Hex(b)[1], Hex(b)[2]) = b
  BY <1>1, <1>2, ByteHalves DEF decode_uint8
<1>4. QED
  BY <1>1, <1>2, <1>3

LEMMA HexCharIsByte == HexChar \subseteq Byte
  BY DEF HexChar, Byte

LEMMA HexTextReads ==
  ASSUME NEW text \in Seq(Byte)
  PROVE  /\ HexText(text) \in Seq(HexChar)
         /\ Len(HexText(text)) = 2 * Len(text)
         /\ \A i \in 1..Len(text) : /\ HexText(text)[2 * i - 1] = Hex(text[i])[1]
                                    /\ HexText(text)[2 * i] = Hex(text[i])[2]
<1>1. ASSUME NEW n \in Nat, n = Len(text), NEW i \in 1..2 * n
      PROVE  /\ (i + 1) \div 2 \in 1..n
             /\ HexText(text)[i] = Hex(text[(i + 1) \div 2])[IF i % 2 = 1 THEN 1 ELSE 2]
             /\ HexText(text)[i] \in HexChar
  <2>1. (i + 1) \div 2 \in 1..n
    BY <1>1
  <2>2. HexText(text)[i] = Hex(text[(i + 1) \div 2])[IF i % 2 = 1 THEN 1 ELSE 2]
    BY <1>1 DEF HexText
  <2>3. text[(i + 1) \div 2] \in Byte
    BY <1>1, <2>1
  <2>4. QED
    BY <2>1, <2>2, <2>3, HexReads
<1>2. ASSUME NEW n \in Nat, n = Len(text)
      PROVE  /\ Len(HexText(text)) = 2 * n
             /\ HexText(text) \in Seq(HexChar)
             /\ \A i \in 1..n : /\ HexText(text)[2 * i - 1] = Hex(text[i])[1]
                                /\ HexText(text)[2 * i] = Hex(text[i])[2]
  <2>1. DOMAIN HexText(text) = 1..2 * n
        /\ HexText(text) = [i \in 1..2 * n |-> HexText(text)[i]]
    BY <1>2 DEF HexText
  <2>2. HexText(text) \in [1..2 * n -> HexChar]
    BY <1>1, <1>2, <2>1
  <2>3. HexText(text) \in Seq(HexChar)
    <3>1. 2 * n \in Nat
      OBVIOUS
    <3>2. QED
      BY <2>2, <3>1, SeqDef
  <2>4. Len(HexText(text)) = 2 * n
    BY <2>1, <2>3
  <2>5. ASSUME NEW i \in 1..n
        PROVE  /\ HexText(text)[2 * i - 1] = Hex(text[i])[1]
               /\ HexText(text)[2 * i] = Hex(text[i])[2]
    <3>1. /\ 2 * i - 1 \in 1..2 * n /\ 2 * i \in 1..2 * n
          /\ ((2 * i - 1) + 1) \div 2 = i /\ (2 * i + 1) \div 2 = i
          /\ (2 * i - 1) % 2 = 1 /\ (2 * i) % 2 = 0
      OBVIOUS
    <3>2. QED
      BY <1>1, <1>2, <3>1
  <2>6. QED
    BY <2>3, <2>4, <2>5
<1>3. Len(text) \in Nat
  OBVIOUS
<1>4. QED
  BY <1>2, <1>3

\* Any sequence with the digits of a text at its places reads as the text.
LEMMA UnhexReads ==
  ASSUME NEW text \in Seq(Byte), NEW s, Len(s) \div 2 = Len(text),
         \A i \in 1..Len(text) : /\ s[2 * i - 1] = Hex(text[i])[1]
                                 /\ s[2 * i] = Hex(text[i])[2]
  PROVE  UnhexText(s) = text
<1>1. \A i \in 1..Len(text) : decode_uint8(s[2 * i - 1], s[2 * i]) = text[i]
  <2>1. \A i \in 1..Len(text) : text[i] \in Byte
    OBVIOUS
  <2>2. QED
    BY <2>1, HexReads
<1>2. UnhexText(s) = [i \in 1..Len(text) |-> decode_uint8(s[2 * i - 1], s[2 * i])]
  BY DEF UnhexText
<1>3. UnhexText(s) = [i \in 1..Len(text) |-> text[i]]
  BY <1>1, <1>2
<1>4. QED
  BY <1>3

-----------------------------------------------------------------------------
(* Decimal: the recursive function is the one its definition describes. *)

Digit(g, n) == IF n < 10 THEN <<48 + n>> ELSE Append(g[n \div 10], 48 + (n % 10))
Upto(g, k) == \A n \in 0..k : g[n] = Digit(g, n)

LEMMA TenthIsLess ==
  ASSUME NEW n \in Nat
  PROVE  n \div 10 \in 0..n /\ (n >= 10 => n \div 10 \in 0..n - 1)
  OBVIOUS

LEMMA DigitSame ==
  ASSUME NEW n \in Nat, NEW g, NEW h, n >= 10 => g[n \div 10] = h[n \div 10]
  PROVE  Digit(g, n) = Digit(h, n)
  BY DEF Digit

LEMMA UptoUnique ==
  ASSUME NEW k \in Nat, NEW g, NEW h, Upto(g, k), Upto(h, k)
  PROVE  \A n \in 0..k : g[n] = h[n]
<1> DEFINE S == {n \in Nat : n <= k => g[n] = h[n]}
<1>1. ASSUME NEW n \in Nat, \A m \in 0..n - 1 : m \in S
      PROVE  n \in S
  <2>1. SUFFICES ASSUME n <= k
                 PROVE  g[n] = h[n]
    OBVIOUS
  <2>2. n >= 10 => g[n \div 10] = h[n \div 10]
    BY <1>1, <2>1, TenthIsLess
  <2>3. Digit(g, n) = Digit(h, n)
    BY <2>2, DigitSame
  <2>4. QED
    BY <2>1, <2>3 DEF Upto
<1>2. Nat \subseteq S
  <2> HIDE DEF S
  <2>1. QED
    BY <1>1, StrongInduction
<1>3. QED
  BY <1>2

LEMMA UptoExists ==
  ASSUME NEW k \in Nat
  PROVE  \E g : Upto(g, k)
<1> DEFINE S == {n \in Nat : \E g : Upto(g, n)}
<1>1. 0 \in S
  <2>1. Upto([n \in 0..0 |-> <<48>>], 0)
    BY DEF Upto, Digit
  <2>2. QED
    BY <2>1
<1>2. ASSUME NEW n \in Nat, n \in S
      PROVE  n + 1 \in S
  <2>1. PICK g : Upto(g, n)
    BY <1>2
  <2> DEFINE h == [m \in 0..n + 1 |-> IF m = n + 1 THEN Digit(g, n + 1) ELSE g[m]]
  <2>2. ASSUME NEW m \in 0..n + 1
        PROVE  h[m] = Digit(h, m)
    <3>1. m \in Nat /\ (m >= 10 => m \div 10 \in 0..n)
      BY TenthIsLess
    <3>2. m >= 10 => h[m \div 10] = g[m \div 10]
      BY <3>1
    <3>3. Digit(h, m) = Digit(g, m)
      <4> HIDE DEF h
      <4>1. QED
        BY <3>1, <3>2, DigitSame
    <3>4. CASE m = n + 1
      <4>1. h[m] = Digit(g, m)
        BY <3>4
      <4>2. QED
        BY <3>3, <4>1
    <3>5. CASE m # n + 1
      <4>1. h[m] = g[m] /\ m \in 0..n
        BY <3>5
      <4>2. QED
        BY <2>1, <3>3, <4>1 DEF Upto
    <3>6. QED
      BY <3>4, <3>5
  <2>3. Upto(h, n + 1)
    <3> HIDE DEF h
    <3>1. QED
      BY <2>2 DEF Upto
  <2>4. QED
    BY <2>3
<1>3. Nat \subseteq S
  <2> HIDE DEF S
  <2>1. QED
    BY <1>1, <1>2, Induction
<1>4. QED
  BY <1>3

LEMMA DecimalDef ==
  \A n \in Nat : Decimal[n] = IF n < 10 THEN <<48 + n>>
                              ELSE Append(Decimal[n \div 10], 48 + (n % 10))
<1> DEFINE G(k) == CHOOSE g : Upto(g, k)
           f == [n \in Nat |-> G(n)[n]]
           Def(g) == [n \in Nat |-> Digit(g, n)]
<1>1. ASSUME NEW k \in Nat
      PROVE  Upto(G(k), k)
  BY UptoExists
<1> HIDE DEF G
<1>2. ASSUME NEW n \in Nat
      PROVE  f[n] = Digit(f, n)
  <2>1. f[n] = Digit(G(n), n)
    BY <1>1 DEF Upto
  <2>2. n \div 10 \in Nat /\ Upto(G(n), n \div 10)
    BY <1>1, TenthIsLess DEF Upto
  <2>3. G(n)[n \div 10] = G(n \div 10)[n \div 10]
    BY <1>1, <2>2, UptoUnique
  <2>4. f[n \div 10] = G(n \div 10)[n \div 10]
    BY <2>2
  <2>5. Digit(f, n) = Digit(G(n), n)
    <3> HIDE DEF f
    <3>1. QED
      BY <2>3, <2>4, DigitSame
  <2>6. QED
    BY <2>1, <2>5
<1>3. f = Def(f)
  BY <1>2
<1> HIDE DEF f
<1>4. Decimal = CHOOSE g : g = Def(g)
  BY DEF Decimal, Digit
<1>5. Decimal = Def(Decimal)
  <2> HIDE DEF Def
  <2>1. QED
    BY <1>3, <1>4
<1>6. QED
  BY <1>5 DEF Digit

\* The two cases, for the provers.
LEMMA DecimalOne ==
  ASSUME NEW n \in Nat, n < 10
  PROVE  Decimal[n] = <<48 + n>> /\ 48 + n \in Digits
<1>1. Decimal[n] = <<48 + n>>
  BY DecimalDef
<1>2. 48 + n \in Digits
  BY DEF Digits
<1>3. QED
  BY <1>1, <1>2

LEMMA DecimalMore ==
  ASSUME NEW n \in Nat, n >= 10
  PROVE  /\ n \div 10 \in 0..n - 1
         /\ 48 + (n % 10) \in Digits
         /\ Decimal[n] = Append(Decimal[n \div 10], 48 + (n % 10))
<1>1. Decimal[n] = Append(Decimal[n \div 10], 48 + (n % 10))
  <2>1. ~(n < 10)
    OBVIOUS
  <2>2. QED
    BY <2>1, DecimalDef, Zenon
<1>2. 48 + (n % 10) \in Digits
  BY DEF Digits
<1>3. n \div 10 \in 0..n - 1
  OBVIOUS
<1>4. QED
  BY <1>1, <1>2, <1>3

LEMMA DecimalType ==
  \A n \in Nat : Decimal[n] \in Seq(Digits) /\ Len(Decimal[n]) >= 1
<1> DEFINE S == {n \in Nat : Decimal[n] \in Seq(Digits) /\ Len(Decimal[n]) >= 1}
<1>1. ASSUME NEW n \in Nat, \A m \in 0..n - 1 : m \in S
      PROVE  n \in S
  <2>1. CASE n < 10
    <3>1. PICK d \in Digits : Decimal[n] = <<d>>
      BY <2>1, DecimalOne
    <3>2. <<d>> \in Seq(Digits) /\ Len(<<d>>) >= 1
      OBVIOUS
    <3>3. Decimal[n] \in Seq(Digits) /\ Len(Decimal[n]) >= 1
      BY <3>1, <3>2, Zenon
    <3>4. QED
      BY <3>3
  <2>2. CASE n >= 10
    <3>1. n \div 10 \in S
      BY <1>1, <2>2, DecimalMore
    <3>2. PICK s \in Seq(Digits), d \in Digits : Decimal[n] = Append(s, d)
      BY <2>2, <3>1, DecimalMore
    <3>3. Append(s, d) \in Seq(Digits) /\ Len(Append(s, d)) >= 1
      OBVIOUS
    <3>4. QED
      BY <3>2, <3>3
  <2>3. QED
    BY <2>1, <2>2
<1>2. Nat \subseteq S
  <2> HIDE DEF S
  <2>1. QED
    BY <1>1, StrongInduction
<1>3. QED
  BY <1>2

\* A number has no more digits than its size allows.
Digits_Below(m, k) == \A n \in Nat : n < m => Len(Decimal[n]) <= k

LEMMA OneDigit == Digits_Below(10, 1)
<1>1. ASSUME NEW n \in Nat, n < 10
      PROVE  Len(Decimal[n]) <= 1
  <2>1. PICK d \in Digits : Decimal[n] = <<d>>
    BY <1>1, DecimalOne
  <2>2. Len(<<d>>) = 1
    OBVIOUS
  <2>3. QED
    BY <2>1, <2>2
<1>2. QED
  BY <1>1 DEF Digits_Below

LEMMA OneMoreDigit ==
  ASSUME NEW m \in Nat, m >= 10, NEW k \in Nat, k >= 1, Digits_Below(m, k)
  PROVE  Digits_Below(10 * m, k + 1)
<1>1. ASSUME NEW n \in Nat, n < 10 * m
      PROVE  Len(Decimal[n]) <= k + 1
  <2>1. CASE n < 10
    BY <2>1, OneDigit DEF Digits_Below
  <2>2. CASE n >= 10
    <3>1. n \div 10 \in Nat /\ n \div 10 < m
      BY <1>1, <2>2
    <3>2. Decimal[n \div 10] \in Seq(Digits) /\ Len(Decimal[n \div 10]) <= k
      BY <3>1, DecimalType DEF Digits_Below
    <3>3. Decimal[n] = Append(Decimal[n \div 10], 48 + (n % 10))
      BY <2>2, DecimalMore
    <3>4. Len(Decimal[n]) = Len(Decimal[n \div 10]) + 1
      BY <3>2, <3>3
    <3>5. QED
      BY <3>2, <3>4
  <2>3. QED
    BY <2>1, <2>2
<1>2. QED
  BY <1>1 DEF Digits_Below

LEMMA EightDigits ==
  /\ Digits_Below(10000000, 7) /\ Digits_Below(100000000, 8) /\ Digits_Below(1000000000, 9)
<1>1. Digits_Below(100, 2)
  BY OneDigit, OneMoreDigit, SMT
<1>2. Digits_Below(1000, 3)
  BY <1>1, OneMoreDigit, SMT
<1>3. Digits_Below(10000, 4)
  BY <1>2, OneMoreDigit, SMT
<1>4. Digits_Below(100000, 5)
  BY <1>3, OneMoreDigit, SMT
<1>5. Digits_Below(1000000, 6)
  BY <1>4, OneMoreDigit, SMT
<1>6. Digits_Below(10000000, 7)
  BY <1>5, OneMoreDigit, SMT
<1>7. Digits_Below(100000000, 8)
  BY <1>6, OneMoreDigit, SMT
<1>8. Digits_Below(1000000000, 9)
  BY <1>7, OneMoreDigit, SMT
<1>9. QED
  BY <1>6, <1>7, <1>8, SMT

\* An int has ten digits at most.
LEMMA IntDigits == Digits_Below(2147483648, 10)
<1>1. Digits_Below(10 * 1000000000, 10)
  BY EightDigits, OneMoreDigit, SMT
<1>2. QED
  BY <1>1, SMT DEF Digits_Below

-----------------------------------------------------------------------------
(* The text of a number of tenths, and what atof reads in it. *)

Number(t, point, end) == [tenths |-> t, point |-> point, end |-> end]
Numbers == [tenths : Int, point : BOOLEAN, end : BOOLEAN]

Signed(s) == s # <<>> /\ s[1] = MINUS

\* The step and the run of atof.
AtofStep(acc, b) ==
  IF acc.end \/ (b \notin Digits /\ (b # POINT \/ acc.point))
    THEN [acc EXCEPT !.end = TRUE]
  ELSE IF b = POINT THEN [acc EXCEPT !.point = TRUE]
  ELSE IF acc.point THEN [acc EXCEPT !.tenths = @ + b - 48, !.end = TRUE]
  ELSE [acc EXCEPT !.tenths = @ * 10 + (b - 48) * 10]

Scans(run, s, n) ==
  /\ run[0] = Number(0, FALSE, FALSE)
  /\ \A i \in 1..n :
       run[i] = IF i = 1 /\ Signed(s) THEN run[0] ELSE AtofStep(run[i - 1], s[i])

LEMMA AtofStepType ==
  ASSUME NEW acc \in Numbers, NEW b \in Byte
  PROVE  AtofStep(acc, b) \in Numbers
<1>1. acc.tenths \in Int /\ b \in Int
  BY DEF Numbers, Byte
<1>2. acc.tenths + b - 48 \in Int /\ acc.tenths * 10 + (b - 48) * 10 \in Int
  BY <1>1
<1>3. QED
  BY <1>2, Zenon DEF AtofStep, Numbers

LEMMA NumbersHasZero == Number(0, FALSE, FALSE) \in Numbers
<1>1. 0 \in Int
  OBVIOUS
<1>2. QED
  BY <1>1, Zenon DEF Number, Numbers

LEMMA ScansExists ==
  ASSUME NEW n \in Nat, NEW s \in [1..n -> Byte]
  PROVE  \E run \in [0..n -> Numbers] : Scans(run, s, n)
<1> DEFINE st == [i \in 1..n |-> [a \in Numbers |->
                    IF i = 1 /\ Signed(s) THEN Number(0, FALSE, FALSE)
                    ELSE AtofStep(a, s[i])]]
<1>1. ASSUME NEW i \in 1..n, NEW a \in Numbers
      PROVE  (IF i = 1 /\ Signed(s) THEN Number(0, FALSE, FALSE)
              ELSE AtofStep(a, s[i])) \in Numbers
  <2>1. s[i] \in Byte
    OBVIOUS
  <2>2. QED
    BY <2>1, AtofStepType, NumbersHasZero, Zenon
<1>2. st \in [1..n -> [Numbers -> Numbers]]
  BY <1>1, Zenon
<1>3. \A i \in 1..n, a \in Numbers :
        st[i][a] = IF i = 1 /\ Signed(s) THEN Number(0, FALSE, FALSE)
                   ELSE AtofStep(a, s[i])
  BY Zenon
<1> HIDE DEF st
<1>4. PICK z \in Numbers : z = Number(0, FALSE, FALSE)
  BY NumbersHasZero, Zenon
<1>5. PICK g \in [1..n -> [Numbers -> Numbers]] : g = st
  BY <1>2, Zenon
<1>6. PICK f \in [0..n -> Numbers] : f[0] = z /\ \A i \in 1..n : f[i] = g[i][f[i - 1]]
  BY Iteration DEF Iterates
<1>7. ASSUME NEW i \in 1..n
      PROVE  f[i] = IF i = 1 /\ Signed(s) THEN f[0] ELSE AtofStep(f[i - 1], s[i])
  <2>1. i - 1 \in 0..n
    OBVIOUS
  <2>2. f[i - 1] \in Numbers
    BY <2>1, Zenon
  <2>3. QED
    BY <1>3, <1>4, <1>5, <1>6, <2>2, Zenon
<1>8. QED
  BY <1>4, <1>6, <1>7, Zenon DEF Scans

\* Two scans of one sequence are the same.
LEMMA ScansAgree ==
  ASSUME NEW n \in Nat, NEW s, NEW f, Scans(f, s, n), NEW g, Scans(g, s, n)
  PROVE  \A i \in 0..n : f[i] = g[i]
<1> DEFINE S == {k \in Nat : k <= n => f[k] = g[k]}
<1>1. 0 \in S
  BY DEF Scans
<1>2. ASSUME NEW k \in Nat, k \in S
      PROVE  k + 1 \in S
  <2>1. SUFFICES ASSUME k + 1 <= n
                 PROVE  f[k + 1] = g[k + 1]
    OBVIOUS
  <2>2. f[k] = g[k] /\ (k + 1) - 1 = k /\ k + 1 \in 1..n
    BY <1>2, <2>1
  <2>3. /\ f[k + 1] = IF k + 1 = 1 /\ Signed(s) THEN f[0] ELSE AtofStep(f[(k + 1) - 1], s[k + 1])
        /\ g[k + 1] = IF k + 1 = 1 /\ Signed(s) THEN g[0] ELSE AtofStep(g[(k + 1) - 1], s[k + 1])
        /\ f[0] = g[0]
    BY <2>2, Zenon DEF Scans
  <2>4. QED
    BY <2>2, <2>3, Zenon
<1>3. Nat \subseteq S
  <2> HIDE DEF S
  <2>1. QED
    BY <1>1, <1>2, Induction
<1>4. QED
  BY <1>3

LEMMA AtofScans ==
  ASSUME NEW s \in Seq(Byte), NEW n \in Nat, n = Len(s)
  PROVE  \E run \in [0..n -> Numbers] :
           /\ Scans(run, s, n)
           /\ atof(s) = IF Signed(s) THEN -run[n].tenths ELSE run[n].tenths
<1> DEFINE Def(g) == [i \in 0..Len(s) |->
                        IF i = 0 THEN Number(0, FALSE, FALSE)
                        ELSE IF i = 1 /\ Signed(s) THEN g[0] ELSE AtofStep(g[i - 1], s[i])]
           run == CHOOSE g : g = Def(g)
<1>1. PICK f \in [0..n -> Numbers] : Scans(f, s, n)
  BY ScansExists
<1>2. f = Def(f)
  <2>1. f = [i \in 0..n |-> f[i]]
    OBVIOUS
  <2>2. ASSUME NEW i \in 0..n
        PROVE  f[i] = IF i = 0 THEN Number(0, FALSE, FALSE)
                      ELSE IF i = 1 /\ Signed(s) THEN f[0] ELSE AtofStep(f[i - 1], s[i])
    <3>1. i = 0 \/ i \in 1..n
      OBVIOUS
    <3>2. i \in 1..n => i # 0
      OBVIOUS
    <3>3. QED
      BY <1>1, <3>1, <3>2, Zenon DEF Scans
  <2>3. QED
    BY <2>1, <2>2, Zenon
<1>3. run = Def(run)
  <2> HIDE DEF Def
  <2>1. QED
    BY <1>2
<1>4. atof(s) = IF Signed(s) THEN -run[n].tenths ELSE run[n].tenths
  <2>1. atof(s) = IF Signed(s) THEN -run[Len(s)].tenths ELSE run[Len(s)].tenths
    BY DEF atof, Signed, AtofStep, Number
  <2>2. QED
    BY <2>1
<1> HIDE DEF run
<1>5. Scans(run, s, n)
  <2>1. 0 \in 0..n /\ \A i \in 1..n : i \in 0..n /\ i # 0
    OBVIOUS
  <2>2. \A i \in 0..n : run[i] = Def(run)[i]
    BY <1>3, Zenon
  <2>3. QED
    BY <2>1, <2>2, Zenon DEF Scans
<1>6. \A i \in 0..n : run[i] = f[i]
  BY <1>1, <1>5, ScansAgree
<1>7. run \in [0..n -> Numbers]
  <2>1. run = [i \in 0..n |-> run[i]]
    BY <1>3, Zenon
  <2>2. QED
    BY <1>6, <2>1
<1>8. QED
  BY <1>4, <1>5, <1>7

\* What a digit does before the point and after it, and the point.
LEMMA AtofDigit ==
  ASSUME NEW t \in Int, NEW b \in Digits
  PROVE  /\ AtofStep(Number(t, FALSE, FALSE), b) = Number(10 * (t + (b - 48)), FALSE, FALSE)
         /\ AtofStep(Number(t, TRUE, FALSE), b) = Number(t + (b - 48), TRUE, TRUE)
         /\ AtofStep(Number(t, FALSE, FALSE), POINT) = Number(t, TRUE, FALSE)
<1>1. b # POINT /\ POINT \notin Digits
  BY DEF Digits, POINT
<1>2. t * 10 + (b - 48) * 10 = 10 * (t + (b - 48)) /\ t + b - 48 = t + (b - 48)
  BY DEF Digits
<1>3. AtofStep(Number(t, FALSE, FALSE), b) = Number(t * 10 + (b - 48) * 10, FALSE, FALSE)
  BY <1>1, Zenon DEF AtofStep, Number
<1>4. AtofStep(Number(t, TRUE, FALSE), b) = Number(t + b - 48, TRUE, TRUE)
  BY <1>1, Zenon DEF AtofStep, Number
<1>5. AtofStep(Number(t, FALSE, FALSE), POINT) = Number(t, TRUE, FALSE)
  BY <1>1, Zenon DEF AtofStep, Number
<1>6. QED
  BY <1>2, <1>3, <1>4, <1>5, Zenon

\* A scan that has found nothing yet after o characters.
Ready(run, s, n, o) ==
  /\ Scans(run, s, n) /\ o \in Nat /\ run[o] = Number(0, FALSE, FALSE)
  /\ Signed(s) => o >= 1

\* The digits of a number make the scan that number.
Counts(run, s, n, o) ==
  \A m \in Nat :
    (/\ o + Len(Decimal[m]) <= n
     /\ \A i \in 1..Len(Decimal[m]) : s[o + i] = Decimal[m][i])
      => run[o + Len(Decimal[m])] = Number(10 * m, FALSE, FALSE)

LEMMA AtofDecimal ==
  ASSUME NEW n \in Nat, NEW s, NEW run, NEW o, Ready(run, s, n, o)
  PROVE  Counts(run, s, n, o)
<1>0. Scans(run, s, n) /\ o \in Nat /\ run[o] = Number(0, FALSE, FALSE)
      /\ (Signed(s) => o >= 1)
  BY Zenon DEF Ready
<1> DEFINE Here(m) == /\ o + Len(Decimal[m]) <= n
                      /\ \A i \in 1..Len(Decimal[m]) : s[o + i] = Decimal[m][i]
           S == {m \in Nat : Here(m) => run[o + Len(Decimal[m])] = Number(10 * m, FALSE, FALSE)}
<1>1. ASSUME NEW m \in Nat, \A k \in 0..m - 1 : k \in S
      PROVE  m \in S
  <2>1. SUFFICES ASSUME Here(m)
                 PROVE  run[o + Len(Decimal[m])] = Number(10 * m, FALSE, FALSE)
    OBVIOUS
  \* What the last digit does, after k digits that have given t tenths.
  <2>2. ASSUME NEW k \in Nat, NEW t \in Int, NEW d \in Digits,
               k + 1 = Len(Decimal[m]), Decimal[m][k + 1] = d,
               run[o + k] = Number(t, FALSE, FALSE),
               10 * (t + (d - 48)) = 10 * m
        PROVE  run[o + Len(Decimal[m])] = Number(10 * m, FALSE, FALSE)
    <3>1. o + (k + 1) = o + k + 1 /\ o + k + 1 \in 1..n /\ (o + k + 1) - 1 = o + k
      BY <1>0, <2>1, <2>2
    <3>2. s[o + k + 1] = d
      BY <1>0, <2>1, <2>2, <3>1
    <3>3. ~(o + k + 1 = 1 /\ Signed(s))
      BY <1>0, <3>1
    <3>4. run[o + k + 1] = AtofStep(run[o + k], d)
      <4>1. run[o + k + 1] = IF o + k + 1 = 1 /\ Signed(s) THEN run[0]
                             ELSE AtofStep(run[(o + k + 1) - 1], s[o + k + 1])
        BY <1>0, <3>1, Zenon DEF Scans
      <4>2. QED
        BY <1>0, <3>1, <3>2, <3>3, <4>1, Zenon
    <3>5. run[o + k + 1] = Number(10 * (t + (d - 48)), FALSE, FALSE)
      BY <1>0, <2>2, <3>4, AtofDigit, Zenon
    <3>6. QED
      BY <1>0, <2>2, <3>1, <3>5, Zenon
  <2>3. CASE m < 10
    <3>1. PICK d \in Digits : Decimal[m] = <<d>> /\ d = 48 + m
      BY <1>0, <2>3, DecimalOne
    <3>2. Len(<<d>>) = 1 /\ <<d>>[1] = d /\ d - 48 = m
      BY <1>0, <3>1
    <3>3. Len(Decimal[m]) = 0 + 1 /\ Decimal[m][0 + 1] = d
      BY <1>0, <3>1, <3>2
    <3>4. 10 * (0 + (d - 48)) = 10 * m /\ 0 \in Nat /\ 0 \in Int
      BY <1>0, <3>2
    <3>5. run[o + 0] = Number(0, FALSE, FALSE)
      <4>1. o + 0 = o
        BY <1>0
      <4>2. QED
        BY <1>0, <4>1, Zenon
    <3>6. 0 + 1 = Len(Decimal[m])
      BY <1>0, <3>3
    <3>7. QED
      BY <1>0, <2>2, <3>3, <3>4, <3>5, <3>6, Zenon
  <2>4. CASE m >= 10
    <3> DEFINE q == m \div 10
               d == 48 + (m % 10)
               k == Len(Decimal[q])
    <3>1. q \in 0..m - 1 /\ q \in Nat /\ d \in Digits
      BY <1>0, <2>4, DecimalMore
    <3>2. Decimal[m] = Append(Decimal[q], d)
      BY <1>0, <2>4, DecimalMore
    <3>3. Decimal[q] \in Seq(Digits) /\ k \in Nat
      BY <1>0, <3>1, DecimalType
    <3>4. /\ Len(Decimal[m]) = k + 1 /\ Decimal[m][k + 1] = d
          /\ \A i \in 1..k : Decimal[m][i] = Decimal[q][i]
      <4> HIDE DEF q, d
      <4>1. QED
        BY <1>0, <3>1, <3>2, <3>3
    <3>5. Here(q)
      <4>1. o + k <= n
        BY <1>0, <2>1, <3>3, <3>4
      <4>2. \A i \in 1..k : s[o + i] = Decimal[m][i]
        BY <1>0, <2>1, <3>3, <3>4
      <4>3. QED
        BY <1>0, <3>4, <4>1, <4>2
    <3>6. run[o + k] = Number(10 * q, FALSE, FALSE)
      BY <1>1, <3>1, <3>5
    <3>7. 10 * q \in Int /\ 10 * (10 * q + (d - 48)) = 10 * m
      BY <1>0, <2>4
    <3>8. QED
      <4> HIDE DEF q, d, k
      <4>1. QED
        BY <1>0, <2>2, <3>1, <3>3, <3>4, <3>6, <3>7
  <2>5. m < 10 \/ m >= 10
    OBVIOUS
  <2>6. QED
    BY <1>0, <2>3, <2>4, <2>5, Zenon
<1>2. Nat \subseteq S
  <2> HIDE DEF S
  <2>1. QED
    BY <1>1, StrongInduction
<1>3. QED
  BY <1>2 DEF Counts


\* The characters of a number of tenths: its sign, the digits of its whole part,
\* the point and a digit.
SignLength(v) == IF v < 0 THEN 1 ELSE 0
Whole(v) == Magnitude(v) \div 10
Tenth(v) == 48 + (Magnitude(v) % 10)

LEMMA WholeType ==
  ASSUME NEW v \in Int
  PROVE  /\ Magnitude(v) \in Nat /\ Whole(v) \in Nat
         /\ 10 * Whole(v) + (Tenth(v) - 48) = Magnitude(v)
         /\ SignLength(v) \in 0..1 /\ Tenth(v) \in Digits
         /\ Decimal[Whole(v)] \in Seq(Digits) /\ Len(Decimal[Whole(v)]) >= 1
<1>1. Magnitude(v) \in Nat
  BY DEF Magnitude
<1>2. /\ Whole(v) \in Nat /\ Tenth(v) \in Digits
      /\ 10 * Whole(v) + (Tenth(v) - 48) = Magnitude(v)
  BY <1>1 DEF Whole, Tenth, Digits
<1>3. SignLength(v) \in 0..1
  BY DEF SignLength
<1>4. QED
  BY <1>1, <1>2, <1>3, DecimalType

\* Where the elements of a concatenation are.
LEMMA Joined ==
  ASSUME NEW p \in Seq(Byte), NEW e \in Seq(Byte)
  PROVE  /\ p \o e \in Seq(Byte) /\ Len(p \o e) = Len(p) + Len(e)
         /\ \A i \in 1..Len(p) : (p \o e)[i] = p[i]
         /\ \A i \in 1..Len(e) : (p \o e)[Len(p) + i] = e[i]
<1>1. PICK m \in Nat, n \in Nat : m = Len(p) /\ n = Len(e)
  BY LenProperties
<1>2. p \o e \in Seq(Byte) /\ Len(p \o e) = m + n
  BY <1>1, ConcatProperties
<1>3. \A i \in 1..m + n : (p \o e)[i] = IF i <= m THEN p[i] ELSE e[i - m]
  BY <1>1, ConcatProperties, Zenon
<1>4. /\ \A i \in 1..m : i \in 1..m + n /\ i <= m
      /\ \A i \in 1..n : m + i \in 1..m + n /\ ~(m + i <= m) /\ (m + i) - m = i
  OBVIOUS
<1>5. QED
  BY <1>1, <1>2, <1>3, <1>4, Zenon

LEMMA Pair ==
  ASSUME NEW c \in Byte, NEW d \in Byte
  PROVE  <<c, d>> \in Seq(Byte) /\ Len(<<c, d>>) = 2 /\ <<c, d>>[1] = c /\ <<c, d>>[2] = d
  OBVIOUS

LEMMA DigitsAreBytes == Seq(Digits) \subseteq Seq(Byte)
<1>1. Digits \subseteq Byte
  BY DEF Digits, Byte
<1>2. QED
  BY <1>1

LEMMA TenthsText ==
  ASSUME NEW v \in Int
  PROVE  LET s == FormatTenths(v)
             o == SignLength(v)
             D == Decimal[Whole(v)]
         IN  /\ s \in Seq(Byte) /\ Len(s) = o + Len(D) + 2
             /\ v < 0 => s[1] = MINUS
             /\ \A i \in 1..Len(D) : s[o + i] = D[i]
             /\ s[o + Len(D) + 1] = POINT /\ s[o + Len(D) + 2] = Tenth(v)
<1>1. /\ Sign(v) \in Seq(Byte) /\ Len(Sign(v)) = SignLength(v)
      /\ v < 0 => Sign(v)[1] = MINUS
  <2>1. MINUS \in Byte
    BY DEF MINUS, Byte
  <2>2. CASE v < 0
    BY <2>1, <2>2 DEF Sign, SignLength
  <2>3. CASE ~(v < 0)
    BY <2>3 DEF Sign, SignLength
  <2>4. QED
    BY <2>2, <2>3
<1>2. Digits \subseteq Byte /\ POINT \in Byte
  BY DEF Digits, Byte, POINT
<1>3. Decimal[Whole(v)] \in Seq(Byte) /\ Tenth(v) \in Byte
  BY <1>2, WholeType, DigitsAreBytes, Zenon
<1>4. FormatTenths(v) = (Sign(v) \o Decimal[Whole(v)]) \o <<POINT, Tenth(v)>>
  BY Zenon DEF FormatTenths, Whole, Tenth
<1>5. v < 0 => 1 \in 1..Len(Sign(v))
  BY <1>1 DEF SignLength
<1>6. PICK a \in Seq(Byte), b \in Seq(Byte), c \in Byte, d \in Byte :
        a = Sign(v) /\ b = Decimal[Whole(v)] /\ c = POINT /\ d = Tenth(v)
  BY <1>1, <1>2, <1>3, Zenon
<1>7. PICK e \in Seq(Byte) : e = <<c, d>> /\ Len(e) = 2 /\ e[1] = c /\ e[2] = d
  BY Pair, ZenonT(30)
<1>8. PICK ab \in Seq(Byte) :
        /\ ab = a \o b /\ Len(ab) = Len(a) + Len(b)
        /\ \A i \in 1..Len(a) : ab[i] = a[i]
        /\ \A i \in 1..Len(b) : ab[Len(a) + i] = b[i]
  BY Joined
<1>9. PICK t \in Seq(Byte) :
        /\ t = ab \o e /\ Len(t) = Len(ab) + Len(e)
        /\ \A i \in 1..Len(ab) : t[i] = ab[i]
        /\ \A i \in 1..Len(e) : t[Len(ab) + i] = e[i]
  BY Joined
<1>10. t = FormatTenths(v)
  BY <1>4, <1>6, <1>7, <1>8, <1>9, Zenon
<1>11. /\ Len(t) = Len(a) + Len(b) + 2
       /\ t[Len(a) + Len(b) + 1] = c /\ t[Len(a) + Len(b) + 2] = d
       /\ v < 0 => t[1] = a[1]
  BY <1>5, <1>6, <1>7, <1>8, <1>9
<1>12. \A i \in 1..Len(b) : t[Len(a) + i] = b[i]
  BY <1>8, <1>9
<1>13. QED
  BY <1>1, <1>6, <1>10, <1>11, <1>12, Zenon

LEMMA TenthsType ==
  ASSUME NEW v \in Int
  PROVE  FormatTenths(v) \in Seq(Byte) /\ Len(FormatTenths(v)) >= 3
<1>1. FormatTenths(v) \in Seq(Byte)
  BY TenthsText, Zenon
<1>2. Len(FormatTenths(v)) = SignLength(v) + Len(Decimal[Whole(v)]) + 2
  BY TenthsText, Zenon
<1>3. SignLength(v) \in 0..1 /\ Len(Decimal[Whole(v)]) >= 1
  BY WholeType, Zenon
<1>4. QED
  <2>1. \A n : n >= 1 /\ n \in Nat => SignLength(v) + n + 2 >= 3
    BY <1>3
  <2>2. Len(Decimal[Whole(v)]) \in Nat
    BY WholeType, LenProperties, Zenon
  <2>3. QED
    BY <1>1, <1>2, <1>3, <2>1, <2>2, Zenon

LEMMA TenthsLength ==
  ASSUME NEW v \in Int
  PROVE  \E n \in Nat : /\ n = Len(Decimal[Whole(v)])
                        /\ Len(FormatTenths(v)) = SignLength(v) + n + 2
<1>1. Len(FormatTenths(v)) = SignLength(v) + Len(Decimal[Whole(v)]) + 2
  BY TenthsText, Zenon
<1>2. Len(Decimal[Whole(v)]) \in Nat
  BY WholeType, LenProperties, Zenon
<1>3. QED
  BY <1>1, <1>2, Zenon

LEMMA WholeSize ==
  ASSUME NEW v \in Int, NEW m \in Nat
  PROVE  /\ v < 0 /\ -v < 10 * m => Whole(v) < m
         /\ v >= 0 /\ v < 10 * m => Whole(v) < m
  BY DEF Whole, Magnitude

\* A number of tenths with at most seven digits before the point, or eight without
\* a sign, is at most ten characters long: it fits Directive::msg in a frame
\* (encode_data of a double).
THEOREM TenthsFit ==
  ASSUME NEW v \in ShortTenths
  PROVE  FormatTenths(v) \in Seq(Byte) /\ Len(FormatTenths(v)) <= 10
<1>1. v \in Int
  BY SMT DEF ShortTenths
<1>2. FormatTenths(v) \in Seq(Byte)
  BY <1>1, TenthsType, Zenon
<1>3. PICK n \in Nat, w \in Nat, o \in 0..1 :
        /\ w = Whole(v) /\ n = Len(Decimal[w]) /\ o = SignLength(v)
        /\ Len(FormatTenths(v)) = o + n + 2
  <2>1. /\ Whole(v) \in Nat /\ SignLength(v) \in 0..1 /\ Decimal[Whole(v)] \in Seq(Digits)
        /\ Len(FormatTenths(v)) = SignLength(v) + Len(Decimal[Whole(v)]) + 2
    BY <1>1, WholeType, TenthsLength, Zenon
  <2>2. Len(Decimal[Whole(v)]) \in Nat
    BY <2>1
  <2>3. QED
    BY <2>1, <2>2, Zenon
<1>4. CASE v < 0
  <2>1. w < 10000000
    BY <1>1, <1>3, <1>4, WholeSize, SMT DEF ShortTenths
  <2>2. n <= 7
    BY <1>3, <2>1, EightDigits, SMT DEF Digits_Below
  <2>3. QED
    BY <1>2, <1>3, <2>2
<1>5. CASE v >= 0
  <2>1. w < 100000000
    BY <1>1, <1>3, <1>5, WholeSize, SMT DEF ShortTenths
  <2>2. n <= 8
    BY <1>3, <2>1, EightDigits, SMT DEF Digits_Below
  <2>3. o = 0
    BY <1>1, <1>3, <1>5 DEF SignLength
  <2>4. QED
    BY <1>2, <1>3, <2>2, <2>3
<1>6. QED
  BY <1>1, <1>4, <1>5

LEMMA IntLength ==
  ASSUME NEW n \in Int
  PROVE  /\ FormatInt(n) \in Seq(Byte)
         /\ \E m \in Nat, k \in Nat, o \in 0..1 :
              /\ m = Magnitude(n) /\ k = Len(Decimal[m]) /\ o = SignLength(n)
              /\ Len(FormatInt(n)) = o + k
<1>1. PICK m \in Nat : m = Magnitude(n)
  BY DEF Magnitude
<1>2. PICK D \in Seq(Byte) : D = Decimal[m]
  <2>1. Decimal[m] \in Seq(Digits)
    BY DecimalType
  <2>2. Digits \subseteq Byte
    BY DEF Digits, Byte
  <2>3. Decimal[m] \in Seq(Byte)
    BY <2>1, <2>2, SeqMonotonic
  <2>4. QED
    BY <2>3, Zenon
<1>3. CASE n < 0
  <2>1. PICK o \in Seq(Byte) : o = <<MINUS>> /\ Len(o) = 1
    <3>1. MINUS \in Byte
      BY DEF MINUS, Byte
    <3>2. <<MINUS>> \in Seq(Byte) /\ Len(<<MINUS>>) = 1
      BY <3>1
    <3>3. QED
      BY <3>2, Zenon
  <2>2. FormatInt(n) = o \o D
    BY <1>1, <1>2, <1>3, <2>1, Zenon DEF FormatInt, Sign
  <2>3. o \o D \in Seq(Byte) /\ Len(o \o D) = 1 + Len(D)
    BY <2>1
  <2>4. SignLength(n) = 1
    BY <1>3, Zenon DEF SignLength
  <2>5. Len(D) \in Nat /\ 1 \in 0..1
    OBVIOUS
  <2>6. QED
    BY <1>1, <1>2, <2>2, <2>3, <2>4, <2>5, Zenon
<1>4. CASE ~(n < 0)
  <2>1. FormatInt(n) = <<>> \o D
    BY <1>1, <1>2, <1>4, Zenon DEF FormatInt, Sign
  <2>2. <<>> \o D = D /\ Len(D) = 0 + Len(D) /\ Len(D) \in Nat /\ 0 \in 0..1
    OBVIOUS
  <2>3. SignLength(n) = 0
    BY <1>4, Zenon DEF SignLength
  <2>4. QED
    BY <1>1, <1>2, <2>1, <2>2, <2>3, Zenon
<1>5. QED
  BY <1>3, <1>4, Zenon

\* An int, of ten digits or of nine and a sign, is at most ten characters long: it
\* fits Directive::msg in a frame (encode_data of an int).
THEOREM IntsFit ==
  ASSUME NEW n \in ShortInts
  PROVE  FormatInt(n) \in Seq(Byte) /\ Len(FormatInt(n)) <= 10
<1>1. n \in Int
  BY SMT DEF ShortInts
<1>2. FormatInt(n) \in Seq(Byte)
  BY <1>1, IntLength, Zenon
<1>3. PICK m \in Nat, k \in Nat, o \in 0..1 :
        /\ m = Magnitude(n) /\ k = Len(Decimal[m]) /\ o = SignLength(n)
        /\ Len(FormatInt(n)) = o + k
  BY <1>1, IntLength, Zenon
<1>4. CASE n < 0
  <2>1. m < 1000000000
    BY <1>1, <1>3, <1>4, SMT DEF Magnitude, ShortInts
  <2>2. k <= 9
    BY <1>3, <2>1, EightDigits, SMT DEF Digits_Below
  <2>3. QED
    BY <1>2, <1>3, <2>2
<1>5. CASE n >= 0
  <2>1. m < 2147483648
    BY <1>1, <1>3, <1>5, SMT DEF Magnitude, ShortInts
  <2>2. k <= 10
    BY <1>3, <2>1, IntDigits, SMT DEF Digits_Below
  <2>3. o = 0
    BY <1>1, <1>3, <1>5 DEF SignLength
  <2>4. QED
    BY <1>2, <1>3, <2>2, <2>3
<1>6. QED
  BY <1>1, <1>4, <1>5

\* What encode_data makes of a number of tenths, atof reads as that number, of
\* whatever size and sign (encode_data of a double, and decode_data of both controllers).
THEOREM TenthsReadBack ==
  ASSUME NEW v \in Int
  PROVE  atof(FormatTenths(v)) = v
<1>1. PICK s \in Seq(Byte), D \in Seq(Digits), o \in 0..1, q \in Nat, d \in Digits :
        /\ s = FormatTenths(v) /\ q = Whole(v) /\ D = Decimal[q]
        /\ o = SignLength(v) /\ d = Tenth(v)
  BY TenthsText, WholeType
<1>2. /\ Len(D) >= 1 /\ Len(s) = o + Len(D) + 2
      /\ v < 0 => s[1] = MINUS
      /\ \A i \in 1..Len(D) : s[o + i] = D[i]
      /\ s[o + Len(D) + 1] = POINT /\ s[o + Len(D) + 2] = d
  <2>1. Len(D) >= 1
    BY <1>1, WholeType
  <2>2. QED
    BY <1>1, <2>1, TenthsText, Zenon
<1>3. PICK n \in Nat : n = Len(s)
  OBVIOUS
<1>4. PICK run :
        /\ Scans(run, s, n)
        /\ atof(s) = IF Signed(s) THEN -run[n].tenths ELSE run[n].tenths
  BY <1>3, AtofScans
<1>5. (o = 1 <=> v < 0) /\ (o = 0 <=> ~(v < 0))
  BY <1>1 DEF SignLength
<1>6. Signed(s) <=> v < 0
  <2>1. s # <<>>
    BY <1>2
  <2>2. CASE v < 0
    BY <1>2, <2>1, <2>2 DEF Signed
  <2>3. CASE ~(v < 0)
    <3>1. s[0 + 1] = D[1] /\ 0 + 1 = 1
      BY <1>2, <1>5, <2>3
    <3>2. D[1] \in Digits
      BY <1>2
    <3>3. s[1] # MINUS
      BY <3>1, <3>2 DEF Digits, MINUS
    <3>4. QED
      BY <2>3, <3>3 DEF Signed
  <2>4. QED
    BY <2>2, <2>3
<1>7. run[o] = Number(0, FALSE, FALSE)
  <2>1. run[0] = Number(0, FALSE, FALSE)
    BY <1>4, Zenon DEF Scans
  <2>2. 1 \in 1..n
    BY <1>2, <1>3
  <2>3. CASE v < 0
    <3>1. run[1] = run[0]
      BY <1>4, <1>6, <2>2, <2>3, Zenon DEF Scans
    <3>2. QED
      BY <1>5, <2>1, <2>3, <3>1, Zenon
  <2>4. CASE ~(v < 0)
    BY <1>5, <2>1, <2>4, Zenon
  <2>5. QED
    BY <2>3, <2>4, Zenon
<1>8. PICK k \in Nat : k = o + Len(D)
  OBVIOUS
<1>9. /\ k >= 1 /\ n = k + 2 /\ k + 1 \in 1..n /\ k + 2 \in 1..n
      /\ (k + 1) - 1 = k /\ (k + 2) - 1 = k + 1 /\ k + 1 # 1 /\ k + 2 # 1
  BY <1>2, <1>3, <1>8
<1>10. run[k] = Number(10 * q, FALSE, FALSE)
  <2>1. o \in Nat /\ (Signed(s) => o >= 1)
    BY <1>5, <1>6
  <2>2. o + Len(Decimal[q]) <= n /\ \A i \in 1..Len(Decimal[q]) : s[o + i] = Decimal[q][i]
    <3>1. o + Len(D) <= n
      BY <1>8, <1>9
    <3>2. QED
      BY <1>1, <1>2, <3>1, Zenon
  <2>3. run[o + Len(Decimal[q])] = Number(10 * q, FALSE, FALSE)
    <3>1. Ready(run, s, n, o)
      BY <1>4, <1>7, <2>1, Zenon DEF Ready
    <3>2. Counts(run, s, n, o)
      BY <3>1, AtofDecimal
    <3>3. QED
      BY <2>2, <3>2 DEF Counts
  <2>4. QED
    BY <1>1, <1>8, <2>3, Zenon
<1>11. s[k + 1] = POINT /\ s[k + 2] = d
  BY <1>2, <1>8, Zenon
<1>12. 10 * q \in Int /\ 10 * q + (d - 48) = Magnitude(v)
  BY <1>1, WholeType
<1>13. run[k + 1] = Number(10 * q, TRUE, FALSE)
  <2>1. run[k + 1] = AtofStep(run[(k + 1) - 1], s[k + 1])
    BY <1>4, <1>9, Zenon DEF Scans
  <2>2. QED
    BY <1>9, <1>10, <1>11, <1>12, <2>1, AtofDigit, Zenon
<1>14. run[n] = Number(Magnitude(v), TRUE, TRUE)
  <2>1. run[k + 2] = AtofStep(run[(k + 2) - 1], s[k + 2])
    BY <1>4, <1>9, Zenon DEF Scans
  <2>2. run[k + 2] = Number(10 * q + (d - 48), TRUE, TRUE)
    BY <1>9, <1>11, <1>12, <1>13, <2>1, AtofDigit, ZenonT(30)
  <2>3. QED
    BY <1>9, <1>12, <2>2, Zenon
<1>15. run[n].tenths = Magnitude(v)
  <2>1. Number(Magnitude(v), TRUE, TRUE).tenths = Magnitude(v)
    BY DEF Number
  <2>2. QED
    BY <1>14, <2>1, Zenon
<1>16. atof(s) = IF v < 0 THEN -Magnitude(v) ELSE Magnitude(v)
  BY <1>4, <1>6, <1>15, Zenon
<1>17. QED
  BY <1>1, <1>16 DEF Magnitude

-----------------------------------------------------------------------------
(* The frames: where their bytes are. *)

\* Sequences of bytes, for the provers.
LEMMA SameBytes ==
  ASSUME NEW s \in Seq(Byte), NEW t \in Seq(Byte), Len(s) = Len(t),
         \A i \in 1..Len(s) : s[i] = t[i]
  PROVE  s = t
  BY SeqEqual

LEMMA Slice ==
  ASSUME NEW s \in Seq(Byte), NEW a \in Nat, NEW b \in Nat, a <= b, b <= Len(s)
  PROVE  /\ SubSeq(s, a + 1, b) \in Seq(Byte) /\ Len(SubSeq(s, a + 1, b)) = b - a
         /\ \A i \in 1..b - a : SubSeq(s, a + 1, b)[i] = s[a + i]
<1>1. \A i \in a + 1..b : s[i] \in Byte
  OBVIOUS
<1>2. /\ SubSeq(s, a + 1, b) \in Seq(Byte)
      /\ Len(SubSeq(s, a + 1, b)) = IF a + 1 <= b THEN b - (a + 1) + 1 ELSE 0
      /\ \A i \in 1..b - (a + 1) + 1 : SubSeq(s, a + 1, b)[i] = s[a + 1 + i - 1]
  BY <1>1, SubSeqProperties
<1>3. /\ b - (a + 1) + 1 = b - a /\ (~(a + 1 <= b) => b - a = 0)
      /\ \A i \in 1..b - a : a + 1 + i - 1 = a + i
  OBVIOUS
<1>4. QED
  BY <1>2, <1>3, Zenon

\* t is p, of m bytes, and e, of n.
IsJoin(t, p, e, m, n) ==
  /\ t = p \o e /\ Len(t) = m + n
  /\ \A i \in 1..m : t[i] = p[i]
  /\ \A i \in 1..n : t[m + i] = e[i]

LEMMA Joins ==
  ASSUME NEW p \in Seq(Byte), NEW e \in Seq(Byte), NEW m, NEW n, Len(p) = m, Len(e) = n
  PROVE  \E t \in Seq(Byte) : IsJoin(t, p, e, m, n)
<1>1. p \o e \in Seq(Byte) /\ Len(p \o e) = m + n
  BY Joined
<1>2. /\ \A i \in 1..m : (p \o e)[i] = p[i]
      /\ \A i \in 1..n : (p \o e)[m + i] = e[i]
  BY Joined, Zenon
<1>3. QED
  BY <1>1, <1>2, Zenon DEF IsJoin

LEMMA OneByte ==
  ASSUME NEW c \in Byte
  PROVE  <<c>> \in Seq(Byte) /\ Len(<<c>>) = 1 /\ <<c>>[1] = c
  OBVIOUS

LEMMA NamedBytes ==
  /\ {CR, LF, SPACE, MINUS, POINT, COLON, TILDE} \subseteq Byte
  /\ HexChar \subseteq Byte \ {CR, LF, SPACE, COLON, TILDE}
  BY DEF CR, LF, SPACE, MINUS, POINT, COLON, TILDE, Byte, HexChar

LEMMA HexBytes ==
  ASSUME NEW b \in Byte
  PROVE  Hex(b) \in Seq(Byte) /\ Len(Hex(b)) = 2
<1>1. HexDigit(b \div 16) \in Byte /\ HexDigit(b % 16) \in Byte
  BY ByteHalves, HexDigitReads, HexCharIsByte
<1>2. QED
  BY <1>1, Pair DEF Hex

LEMMA HexTextBytes ==
  ASSUME NEW text \in Seq(Byte)
  PROVE  HexText(text) \in Seq(Byte) /\ Len(HexText(text)) = 2 * Len(text)
<1>1. HexText(text) \in Seq(HexChar)
  BY HexTextReads
<1>2. HexText(text) \in Seq(Byte)
  BY <1>1, HexCharIsByte, SeqMonotonic
<1>3. QED
  BY <1>2, HexTextReads

CoolerBody(idd, idf, text) == <<COLON>> \o Hex(idd) \o Hex(idf) \o HexText(text)

\* s begins with what says the device, the function and the text to a cooler.
SaysCooler(s, idd, idf, text) ==
  /\ s[1] = COLON
  /\ s[2] = Hex(idd)[1] /\ s[3] = Hex(idd)[2]
  /\ s[4] = Hex(idf)[1] /\ s[5] = Hex(idf)[2]
  /\ \A i \in 1..2 * Len(text) : s[5 + i] = HexText(text)[i]

LEMMA CoolerBodyShape ==
  ASSUME NEW idd \in Byte, NEW idf \in Byte, NEW text \in Seq(Byte)
  PROVE  LET s == CoolerBody(idd, idf, text)
         IN  /\ s \in Seq(Byte) /\ Len(s) = 5 + 2 * Len(text)
             /\ SaysCooler(s, idd, idf, text)
<1>1. PICK a \in Seq(Byte) : a = <<COLON>> /\ Len(a) = 1 /\ a[1] = COLON
  BY OneByte, NamedBytes
<1>2. PICK b \in Seq(Byte), c \in Seq(Byte), d \in Seq(Byte), n \in Nat :
        /\ b = Hex(idd) /\ c = Hex(idf) /\ d = HexText(text) /\ n = Len(text)
        /\ Len(b) = 2 /\ Len(c) = 2 /\ Len(d) = 2 * n
  BY HexBytes, HexTextBytes, LenProperties
<1>3. PICK p \in Seq(Byte) : IsJoin(p, a, b, 1, 2)
  BY <1>1, <1>2, Joins, Zenon
<1>4. Len(p) = 3
  BY <1>3 DEF IsJoin
<1>5. PICK q \in Seq(Byte) : IsJoin(q, p, c, 3, 2)
  BY <1>2, <1>4, Joins, Zenon
<1>6. Len(q) = 5
  BY <1>5 DEF IsJoin
<1>7. PICK r \in Seq(Byte) : IsJoin(r, q, d, 5, 2 * n)
  BY <1>2, <1>6, Joins, Zenon
<1>8. r = CoolerBody(idd, idf, text) /\ Len(r) = 5 + 2 * n
  BY <1>1, <1>2, <1>3, <1>5, <1>7, Zenon DEF CoolerBody, IsJoin
<1>9. r[1] = COLON /\ r[2] = b[1] /\ r[3] = b[2] /\ r[4] = c[1] /\ r[5] = c[2]
  <2>1. p[1] = a[1] /\ p[1 + 1] = b[1] /\ p[1 + 2] = b[2]
    BY <1>3 DEF IsJoin
  <2>2. q[1] = p[1] /\ q[2] = p[2] /\ q[3] = p[3] /\ q[3 + 1] = c[1] /\ q[3 + 2] = c[2]
    <3>1. {1, 2, 3} \subseteq 1..3 /\ {1, 2} \subseteq 1..2
      OBVIOUS
    <3>2. (\A i \in 1..3 : q[i] = p[i]) /\ (\A i \in 1..2 : q[3 + i] = c[i])
      BY <1>5, Zenon DEF IsJoin
    <3>3. QED
      BY <3>1, <3>2, Zenon
  <2>3. r[1] = q[1] /\ r[2] = q[2] /\ r[3] = q[3] /\ r[4] = q[4] /\ r[5] = q[5]
    <3>1. {1, 2, 3, 4, 5} \subseteq 1..5
      OBVIOUS
    <3>2. \A i \in 1..5 : r[i] = q[i]
      BY <1>7, Zenon DEF IsJoin
    <3>3. QED
      BY <3>1, <3>2, Zenon
  <2>4. QED
    BY <1>1, <2>1, <2>2, <2>3
<1>10. \A i \in 1..2 * n : r[5 + i] = d[i]
  BY <1>7, Zenon DEF IsJoin
<1>11. SaysCooler(r, idd, idf, text)
  BY <1>2, <1>9, <1>10, Zenon DEF SaysCooler
<1>12. QED
  BY <1>2, <1>8, <1>11, Zenon

LEMMA AppendByte ==
  ASSUME NEW s \in Seq(Byte), NEW c \in Byte
  PROVE  \E t \in Seq(Byte) : t = Append(s, c) /\ Checksum(t) = (Checksum(s) + c) % 256
<1>1. Append(s, c) \in Seq(Byte)
  BY AppendProperties
<1>2. Checksum(Append(s, c)) = (Checksum(s) + c) % 256
  BY ChecksumAppend, Zenon
<1>3. QED
  BY <1>1, <1>2, Zenon

LEMMA SumOfTail ==
  ASSUME NEW c \in 0..255
  PROVE  /\ (c + 0) % 256 = c
         /\ (((c + 13) % 256) + 10) % 256 = (c + 23) % 256
         /\ (256 - ((c + 23) % 256)) % 256 \in 0..255
         /\ (c + 23 + ((256 - ((c + 23) % 256)) % 256)) % 256 = 0
<1>1. CASE c + 23 < 256
  <2>1. (c + 0) % 256 = c /\ (c + 13) % 256 = c + 13 /\ (c + 23) % 256 = c + 23
    BY <1>1
  <2>2. (256 - (c + 23)) % 256 = 256 - (c + 23)
    BY <1>1
  <2>3. QED
    BY <1>1, <2>1, <2>2
<1>2. CASE c + 23 >= 256
  <2>1. (c + 0) % 256 = c /\ (c + 23) % 256 = c - 233
    BY <1>2
  <2>2. (256 - (c - 233)) % 256 = (IF c = 233 THEN 0 ELSE 489 - c)
    BY <1>2
  <2>3. (((c + 13) % 256) + 10) % 256 = c - 233
    BY <1>2
  <2>4. QED
    BY <1>2, <2>1, <2>2, <2>3
<1>3. QED
  BY <1>1, <1>2

LEMMA ChecksumTail ==
  ASSUME NEW b \in Seq(Byte)
  PROVE  /\ b \o <<0, 0, CR, LF>> \in Seq(Byte)
         /\ Checksum(b \o <<0, 0, CR, LF>>) = (Checksum(b) + 23) % 256
<1>1. 0 \in Byte /\ CR \in Byte /\ LF \in Byte /\ CR = 13 /\ LF = 10
  BY NamedBytes, ZeroIsByte DEF CR, LF
<1>2. PICK b1 \in Seq(Byte) : b1 = Append(b, 0) /\ Checksum(b1) = (Checksum(b) + 0) % 256
  BY <1>1, AppendByte, ZenonT(30)
<1>3. PICK b2 \in Seq(Byte) : b2 = Append(b1, 0) /\ Checksum(b2) = (Checksum(b1) + 0) % 256
  BY <1>1, AppendByte, ZenonT(30)
<1>4. PICK b3 \in Seq(Byte) : b3 = Append(b2, CR) /\ Checksum(b3) = (Checksum(b2) + CR) % 256
  BY <1>1, AppendByte, ZenonT(30)
<1>5. PICK b4 \in Seq(Byte) : b4 = Append(b3, LF) /\ Checksum(b4) = (Checksum(b3) + LF) % 256
  BY <1>1, AppendByte, ZenonT(30)
<1>6. b4 = b \o <<0, 0, CR, LF>>
  <2>1. b4 = Append(Append(Append(Append(b, 0), 0), CR), LF)
    BY <1>2, <1>3, <1>4, <1>5, Zenon
  <2>2. Append(Append(Append(Append(b, 0), 0), CR), LF) = b \o <<0, 0, CR, LF>>
    BY <1>1, SMTT(30)
  <2>3. QED
    BY <2>1, <2>2, Zenon
<1>7. Checksum(b) \in 0..255
  BY ChecksumType DEF Byte
<1>8. Checksum(b4) = (Checksum(b) + 23) % 256
  <2>1. PICK c \in 0..255, c1 \in Byte, c2 \in Byte, c3 \in Byte :
          /\ c = Checksum(b) /\ c1 = Checksum(b1) /\ c2 = Checksum(b2) /\ c3 = Checksum(b3)
    BY <1>7, ChecksumType, Zenon
  <2>2. c1 = (c + 0) % 256 /\ c2 = (c1 + 0) % 256
    BY <1>2, <1>3, <2>1, Zenon
  <2>3. c3 = (c2 + 13) % 256 /\ Checksum(b4) = (c3 + 10) % 256
    BY <1>1, <1>4, <1>5, <2>1, Zenon
  <2>4. c1 = c /\ c2 = c
    <3>1. (c + 0) % 256 = c
      BY SumOfTail, Zenon
    <3>2. c1 = c
      BY <2>2, <3>1, Zenon
    <3>3. QED
      BY <2>2, <3>1, <3>2, Zenon
  <2>5. (c3 + 10) % 256 = (c + 23) % 256
    BY <2>3, <2>4, SumOfTail
  <2>6. QED
    BY <2>1, <2>3, <2>5, Zenon
<1>9. QED
  BY <1>6, <1>8, Zenon

\* The LRC of a frame brings the sum of its bytes to 0.
LEMMA LRCBalances ==
  ASSUME NEW b \in Seq(Byte), NEW lrc, lrc = LRC(b \o <<0, 0, CR, LF>>)
  PROVE  lrc \in Byte /\ (Checksum(b) + 23 + lrc) % 256 = 0
<1>1. PICK c \in 0..255 : c = Checksum(b)
  BY ChecksumType DEF Byte
<1>2. lrc = (256 - ((c + 23) % 256)) % 256
  BY <1>1, ChecksumTail DEF LRC
<1>3. lrc \in 0..255 /\ (c + 23 + lrc) % 256 = 0
  BY <1>2, SumOfTail
<1>4. QED
  BY <1>1, <1>3 DEF Byte

\* A cooler's frame.
CoolerShape(f, idd, idf, text) ==
  /\ f \in Seq(Byte) /\ Len(f) = 9 + 2 * Len(text)
  /\ SaysCooler(f, idd, idf, text)
  /\ SubSeq(f, 1, 5 + 2 * Len(text)) = CoolerBody(idd, idf, text)
  /\ \E lrc \in Byte : /\ f[6 + 2 * Len(text)] = Hex(lrc)[1]
                       /\ f[7 + 2 * Len(text)] = Hex(lrc)[2]
                       /\ (Checksum(CoolerBody(idd, idf, text)) + 23 + lrc) % 256 = 0
  /\ f[8 + 2 * Len(text)] = CR /\ f[9 + 2 * Len(text)] = LF
  /\ \A i \in 2..7 + 2 * Len(text) : f[i] \in HexChar

LEMMA CoolerFrameShape ==
  ASSUME NEW idd \in Byte, NEW idf \in Byte, NEW text \in Seq(Byte)
  PROVE  CoolerShape(CoolerFrame(idd, idf, text), idd, idf, text)
<1>1. PICK b \in Seq(Byte), n \in Nat :
        /\ b = CoolerBody(idd, idf, text) /\ n = Len(text) /\ Len(b) = 5 + 2 * n
        /\ SaysCooler(b, idd, idf, text)
  BY CoolerBodyShape, LenProperties
<1>2. PICK lrc \in Byte :
        /\ lrc = LRC(b \o <<0, 0, CR, LF>>) /\ (Checksum(b) + 23 + lrc) % 256 = 0
  BY LRCBalances
<1>3. PICK h \in Seq(Byte), e \in Seq(Byte) :
        /\ h = Hex(lrc) /\ Len(h) = 2
        /\ e = <<CR, LF>> /\ Len(e) = 2 /\ e[1] = CR /\ e[2] = LF
  <2>1. CR \in Byte /\ LF \in Byte
    BY NamedBytes
  <2>2. /\ Hex(lrc) \in Seq(Byte) /\ Len(Hex(lrc)) = 2 /\ <<CR, LF>> \in Seq(Byte)
        /\ Len(<<CR, LF>>) = 2 /\ <<CR, LF>>[1] = CR /\ <<CR, LF>>[2] = LF
    BY <2>1, HexBytes, Pair
  <2>3. QED
    BY <2>2, Zenon
<1>4. PICK g \in Seq(Byte) : IsJoin(g, b, h, 5 + 2 * n, 2)
  BY <1>1, <1>3, Joins, Zenon
<1>5. Len(g) = 7 + 2 * n
  BY <1>4 DEF IsJoin
<1>6. PICK f \in Seq(Byte) : IsJoin(f, g, e, 7 + 2 * n, 2)
  BY <1>3, <1>5, Joins, Zenon
<1>7. f = CoolerFrame(idd, idf, text)
  BY <1>1, <1>2, <1>3, <1>4, <1>6, Zenon DEF CoolerFrame, CoolerBody, IsJoin
<1>8. Len(f) = 9 + 2 * n
  BY <1>6 DEF IsJoin
<1>9. f[8 + 2 * n] = CR /\ f[9 + 2 * n] = LF
  <2>1. f[7 + 2 * n + 1] = CR /\ f[7 + 2 * n + 2] = LF
    BY <1>3, <1>6 DEF IsJoin
  <2>2. QED
    BY <2>1
<1>10. f[6 + 2 * n] = Hex(lrc)[1] /\ f[7 + 2 * n] = Hex(lrc)[2]
  <2>1. g[5 + 2 * n + 1] = h[1] /\ g[5 + 2 * n + 2] = h[2]
    BY <1>4 DEF IsJoin
  <2>2. f[6 + 2 * n] = g[6 + 2 * n] /\ f[7 + 2 * n] = g[7 + 2 * n]
    BY <1>6, SMTT(30) DEF IsJoin
  <2>3. QED
    BY <1>3, <2>1, <2>2
<1>11. \A i \in 1..5 + 2 * n : f[i] = b[i]
  BY <1>4, <1>6 DEF IsJoin
<1>12. SaysCooler(f, idd, idf, text)
  <2>1. f[1] = b[1] /\ f[2] = b[2] /\ f[3] = b[3] /\ f[4] = b[4] /\ f[5] = b[5]
    BY <1>11
  <2>2. \A i \in 1..2 * n : f[5 + i] = b[5 + i]
    <3>1. \A i \in 1..2 * n : 5 + i \in 1..5 + 2 * n
      OBVIOUS
    <3>2. QED
      BY <1>11, <3>1, Zenon
  <2>3. QED
    BY <1>1, <2>1, <2>2, Zenon DEF SaysCooler
<1>13. SubSeq(f, 1, 5 + 2 * n) = b
  <2>1. 0 \in Nat /\ 5 + 2 * n \in Nat /\ 0 <= 5 + 2 * n /\ 5 + 2 * n <= Len(f)
    BY <1>8
  <2>2. /\ SubSeq(f, 0 + 1, 5 + 2 * n) \in Seq(Byte)
        /\ Len(SubSeq(f, 0 + 1, 5 + 2 * n)) = 5 + 2 * n - 0
        /\ \A i \in 1..5 + 2 * n - 0 : SubSeq(f, 0 + 1, 5 + 2 * n)[i] = f[0 + i]
    BY <2>1, Slice
  <2>3. 0 + 1 = 1 /\ 5 + 2 * n - 0 = 5 + 2 * n /\ \A i \in 1..5 + 2 * n : 0 + i = i
    OBVIOUS
  <2>4. /\ SubSeq(f, 1, 5 + 2 * n) \in Seq(Byte)
        /\ Len(SubSeq(f, 1, 5 + 2 * n)) = 5 + 2 * n
        /\ \A i \in 1..5 + 2 * n : SubSeq(f, 1, 5 + 2 * n)[i] = f[i]
    BY <2>2, <2>3, Zenon
  <2>5. QED
    BY <1>1, <1>11, <2>4, SameBytes
<1>14. ASSUME NEW i \in 2..7 + 2 * n
       PROVE  f[i] \in HexChar
  <2>1. CASE i \in 2..5
    BY <1>12, <2>1, HexReads DEF SaysCooler
  <2>2. CASE i \in 6..5 + 2 * n
    <3>1. i - 5 \in 1..2 * n /\ 5 + (i - 5) = i
      BY <2>2
    <3>2. f[i] = HexText(text)[i - 5]
      BY <1>1, <1>12, <3>1, Zenon DEF SaysCooler
    <3>3. HexText(text) \in Seq(HexChar) /\ Len(HexText(text)) = 2 * n
      BY <1>1, HexTextReads
    <3>4. QED
      BY <3>1, <3>2, <3>3, ElementOfSeq
  <2>3. CASE i = 6 + 2 * n \/ i = 7 + 2 * n
    BY <1>10, <2>3, HexReads
  <2>4. QED
    BY <2>1, <2>2, <2>3
<1>15. QED
  BY <1>1, <1>2, <1>7, <1>8, <1>9, <1>10, <1>12, <1>13, <1>14, Zenon DEF CoolerShape

LEMMA CoolerShapeLen ==
  ASSUME NEW f, NEW idd, NEW idf, NEW text \in Seq(Byte), CoolerShape(f, idd, idf, text)
  PROVE  f \in Seq(Byte) /\ Len(f) = 9 + 2 * Len(text) /\ Len(f) >= 9
<1>1. f \in Seq(Byte) /\ Len(f) = 9 + 2 * Len(text)
  BY Zenon DEF CoolerShape
<1>2. QED
  BY <1>1

\* The text of a part of a frame that has its hexadecimal digits.
LEMMA UnhexSlice ==
  ASSUME NEW f \in Seq(Byte), NEW text \in Seq(Byte), NEW n \in Nat, n = Len(text),
         NEW k \in Nat, k + 2 * n <= Len(f),
         \A i \in 1..2 * n : f[k + i] = HexText(text)[i]
  PROVE  UnhexText(SubSeq(f, k + 1, k + 2 * n)) = text
<1>1. PICK m \in Nat : m = k + 2 * n
  OBVIOUS
<1>2. PICK s \in Seq(Byte) : /\ s = SubSeq(f, k + 1, m) /\ Len(s) = m - k
                             /\ \A i \in 1..m - k : s[i] = f[k + i]
  <2>1. k <= m /\ m <= Len(f)
    BY <1>1
  <2>2. QED
    BY <2>1, Slice, ZenonT(30)
<1>3. m - k = 2 * n /\ Len(s) = 2 * n /\ Len(s) \div 2 = n
  <2>1. m - k = 2 * n /\ (2 * n) \div 2 = n
    BY <1>1
  <2>2. QED
    BY <1>2, <2>1, Zenon
<1>4. \A i \in 1..2 * n : s[i] = HexText(text)[i]
  BY <1>2, <1>3, Zenon
<1>5. ASSUME NEW i \in 1..Len(text)
      PROVE  s[2 * i - 1] = Hex(text[i])[1] /\ s[2 * i] = Hex(text[i])[2]
  <2>1. 2 * i - 1 \in 1..2 * n /\ 2 * i \in 1..2 * n
    OBVIOUS
  <2>2. s[2 * i - 1] = HexText(text)[2 * i - 1] /\ s[2 * i] = HexText(text)[2 * i]
    BY <1>4, <2>1, Zenon
  <2>3. QED
    BY <2>2, HexTextReads, Zenon
<1>6. Len(s) \div 2 = Len(text)
  BY <1>3
<1>7. UnhexText(s) = text
  BY <1>5, <1>6, UnhexReads
<1>8. QED
  BY <1>1, <1>2, <1>7, Zenon

LEMMA CoolerShapeDecodes ==
  ASSUME NEW idd \in Byte, NEW idf \in Byte, NEW text \in Seq(Byte),
         NEW f, CoolerShape(f, idd, idf, text)
  PROVE  CoolerDecode(f) = Reading(idd, idf, IF text = <<>> THEN Unset ELSE atof(text))
<1>1. PICK n \in Nat : n = Len(text) /\ (n = 0 <=> text = <<>>)
  BY LenProperties, EmptySeq
<1>2. f \in Seq(Byte) /\ Len(f) = 9 + 2 * n /\ SaysCooler(f, idd, idf, text)
  BY <1>1, Zenon DEF CoolerShape
<1>3. decode_uint8(f[2], f[3]) = idd /\ decode_uint8(f[4], f[5]) = idf
  BY <1>2, HexReads, Zenon DEF SaysCooler
<1>4. ~(Len(f) < 9 \/ (Len(f) - 9) % 2 # 0)
  BY <1>2
<1>5. (Len(f) > 9 <=> ~(text = <<>>)) /\ Len(f) - 4 = 5 + 2 * n /\ 5 + 1 = 6
  BY <1>1, <1>2
<1>6. UnhexText(SubSeq(f, 6, Len(f) - 4)) = text
  <2>1. 5 \in Nat /\ 5 + 2 * n <= Len(f)
    BY <1>2
  <2>2. \A i \in 1..2 * n : f[5 + i] = HexText(text)[i]
    BY <1>1, <1>2, Zenon DEF SaysCooler
  <2>3. UnhexText(SubSeq(f, 5 + 1, 5 + 2 * n)) = text
    BY <1>1, <1>2, <2>1, <2>2, UnhexSlice
  <2>4. QED
    BY <1>5, <2>3, Zenon
<1>7. CoolerDecode(f) = Reading(decode_uint8(f[2], f[3]), decode_uint8(f[4], f[5]),
               IF Len(f) > 9 THEN atof(UnhexText(SubSeq(f, 6, Len(f) - 4)))
                             ELSE Unset)
  BY <1>4, Zenon DEF CoolerDecode
<1>8. QED
  BY <1>3, <1>5, <1>6, <1>7, Zenon

\* A cooler's frame is decoded as the device, the function and the number, in tenths,
\* that it was made of, for all of them (CoolerCtl::encode_data, decode_data).
THEOREM CoolerFrameDecodes ==
  ASSUME NEW idd \in Byte, NEW idf \in Byte, NEW v \in Int
  PROVE  CoolerDecode(CoolerFrame(idd, idf, FormatTenths(v))) = Reading(idd, idf, v)
<1>1. FormatTenths(v) \in Seq(Byte) /\ Len(FormatTenths(v)) >= 3
  BY TenthsType, Zenon
<1>2. PICK text \in Seq(Byte) : text = FormatTenths(v) /\ text # <<>>
  BY <1>1
<1>3. PICK f : f = CoolerFrame(idd, idf, text)
  OBVIOUS
<1>4. CoolerShape(f, idd, idf, text)
  BY <1>3, CoolerFrameShape, Zenon
<1>5. CoolerDecode(f) = Reading(idd, idf, IF text = <<>> THEN Unset ELSE atof(text))
  BY <1>4, CoolerShapeDecodes, Zenon
<1>6. QED
  BY <1>2, <1>3, <1>5, TenthsReadBack, Zenon

LEMMA CoolerRefuses ==
  ASSUME NEW f \in Seq(Byte), Len(f) % 2 = 0
  PROVE  CoolerDecode(f) = Refused
<1>1. Len(f) < 9 \/ (Len(f) - 9) % 2 # 0
  OBVIOUS
<1>2. QED
  BY <1>1, Zenon DEF CoolerDecode

\* A gauge's directive.
GaugeAsks(f, idd, idf) ==
  LET body == <<SPACE>> \o Hex(idd) \o <<SPACE>> \o Hex(idf) \o <<SPACE>>
  IN  /\ f \in Seq(Byte) /\ Len(f) = 11 /\ f[1] = TILDE /\ f[11] = CR
      /\ body \in Seq(Byte) /\ SubSeq(f, 2, 8) = body
      /\ f[3] = Hex(idd)[1] /\ f[4] = Hex(idd)[2]
      /\ f[6] = Hex(idf)[1] /\ f[7] = Hex(idf)[2]
      /\ f[9] = Hex(Checksum(body))[1] /\ f[10] = Hex(Checksum(body))[2]

LEMMA VacuumFrameShape ==
  ASSUME NEW idd \in Byte, NEW idf \in Byte
  PROVE  GaugeAsks(VacuumFrame(idd, idf), idd, idf)
<1>1. PICK sp \in Seq(Byte), ti \in Seq(Byte), cr \in Seq(Byte) :
        /\ sp = <<SPACE>> /\ ti = <<TILDE>> /\ cr = <<CR>>
        /\ Len(sp) = 1 /\ Len(ti) = 1 /\ Len(cr) = 1
        /\ sp[1] = SPACE /\ ti[1] = TILDE /\ cr[1] = CR
  <2>1. SPACE \in Byte /\ TILDE \in Byte /\ CR \in Byte
    BY NamedBytes
  <2>2. /\ <<SPACE>> \in Seq(Byte) /\ <<TILDE>> \in Seq(Byte) /\ <<CR>> \in Seq(Byte)
        /\ Len(<<SPACE>>) = 1 /\ Len(<<TILDE>>) = 1 /\ Len(<<CR>>) = 1
        /\ <<SPACE>>[1] = SPACE /\ <<TILDE>>[1] = TILDE /\ <<CR>>[1] = CR
    BY <2>1, OneByte
  <2>3. QED
    BY <2>2, Zenon
<1>2. PICK b \in Seq(Byte), c \in Seq(Byte) :
        b = Hex(idd) /\ c = Hex(idf) /\ Len(b) = 2 /\ Len(c) = 2
  BY HexBytes
<1>3. PICK p \in Seq(Byte) : IsJoin(p, sp, b, 1, 2)
  BY <1>1, <1>2, Joins, Zenon
<1>4. Len(p) = 3
  BY <1>3 DEF IsJoin
<1>5. PICK q \in Seq(Byte) : IsJoin(q, p, sp, 3, 1)
  BY <1>1, <1>4, Joins, Zenon
<1>6. Len(q) = 4
  BY <1>5 DEF IsJoin
<1>7. PICK r \in Seq(Byte) : IsJoin(r, q, c, 4, 2)
  BY <1>2, <1>6, Joins, Zenon
<1>8. Len(r) = 6
  BY <1>7 DEF IsJoin
<1>9. PICK body \in Seq(Byte) : IsJoin(body, r, sp, 6, 1)
  BY <1>1, <1>8, Joins, Zenon
<1>10. Len(body) = 7
  BY <1>9 DEF IsJoin
<1>11. PICK h \in Seq(Byte) : h = Hex(Checksum(body)) /\ Len(h) = 2
  BY ChecksumType, HexBytes
<1>12. PICK s \in Seq(Byte) : IsJoin(s, ti, body, 1, 7)
  BY <1>1, <1>10, Joins, Zenon
<1>13. Len(s) = 8
  BY <1>12 DEF IsJoin
<1>14. PICK t \in Seq(Byte) : IsJoin(t, s, h, 8, 2)
  BY <1>11, <1>13, Joins, Zenon
<1>15. Len(t) = 10
  BY <1>14 DEF IsJoin
<1>16. PICK f \in Seq(Byte) : IsJoin(f, t, cr, 10, 1)
  BY <1>1, <1>15, Joins, Zenon
<1>17. Len(f) = 11
  BY <1>16 DEF IsJoin
<1>18. body = <<SPACE>> \o Hex(idd) \o <<SPACE>> \o Hex(idf) \o <<SPACE>>
  BY <1>1, <1>2, <1>3, <1>5, <1>7, <1>9, Zenon DEF IsJoin
<1>19. f = VacuumFrame(idd, idf)
  BY <1>1, <1>11, <1>12, <1>14, <1>16, <1>18, Zenon DEF VacuumFrame, IsJoin
<1>20. body[2] = b[1] /\ body[3] = b[2] /\ body[5] = c[1] /\ body[6] = c[2]
  <2>1. p[1 + 1] = b[1] /\ p[1 + 2] = b[2]
    BY <1>3, SMTT(30) DEF IsJoin
  <2>2. q[2] = p[2] /\ q[3] = p[3]
    <3>1. 2 \in 1..3 /\ 3 \in 1..3
      OBVIOUS
    <3>2. QED
      BY <1>5, <3>1, Zenon DEF IsJoin
  <2>3. r[2] = q[2] /\ r[3] = q[3] /\ r[4 + 1] = c[1] /\ r[4 + 2] = c[2]
    <3>1. 2 \in 1..4 /\ 3 \in 1..4 /\ 1 \in 1..2 /\ 2 \in 1..2
      OBVIOUS
    <3>2. QED
      BY <1>7, <3>1, Zenon DEF IsJoin
  <2>4. \A i \in 1..6 : body[i] = r[i]
    BY <1>9 DEF IsJoin
  <2>5. body[2] = r[2] /\ body[3] = r[3] /\ body[5] = r[5] /\ body[6] = r[6]
    BY <2>4
  <2>6. QED
    BY <2>1, <2>2, <2>3, <2>5
<1>21. /\ f[1] = TILDE /\ f[11] = CR /\ f[9] = h[1] /\ f[10] = h[2]
       /\ \A i \in 1..7 : f[1 + i] = body[i]
  <2>1. \A i \in 1..10 : f[i] = t[i]
    BY <1>16 DEF IsJoin
  <2>2. \A i \in 1..8 : t[i] = s[i]
    BY <1>14 DEF IsJoin
  <2>3. s[1] = TILDE /\ \A i \in 1..7 : s[1 + i] = body[i]
    BY <1>1, <1>12 DEF IsJoin
  <2>4. t[8 + 1] = h[1] /\ t[8 + 2] = h[2]
    <3>1. 1 \in 1..2 /\ 2 \in 1..2
      OBVIOUS
    <3>2. QED
      BY <1>14, <3>1, Zenon DEF IsJoin
  <2>5. f[10 + 1] = CR
    BY <1>1, <1>16 DEF IsJoin
  <2>6. f[1] = s[1] /\ f[9] = t[9] /\ f[10] = t[10] /\ \A i \in 1..7 : f[1 + i] = s[1 + i]
    BY <2>1, <2>2
  <2>7. QED
    BY <2>3, <2>4, <2>5, <2>6
<1>22. f[3] = b[1] /\ f[4] = b[2] /\ f[6] = c[1] /\ f[7] = c[2]
  <2>1. f[1 + 2] = body[2] /\ f[1 + 3] = body[3] /\ f[1 + 5] = body[5] /\ f[1 + 6] = body[6]
    BY <1>21
  <2>2. QED
    BY <1>20, <2>1
<1>23. SubSeq(f, 2, 8) = body
  <2>1. PICK u \in Seq(Byte) : u = SubSeq(f, 2, 8) /\ Len(u) = 7 /\ \A i \in 1..7 : u[i] = f[1 + i]
    <3>1. /\ SubSeq(f, 1 + 1, 8) \in Seq(Byte) /\ Len(SubSeq(f, 1 + 1, 8)) = 8 - 1
          /\ \A i \in 1..8 - 1 : SubSeq(f, 1 + 1, 8)[i] = f[1 + i]
      <4>1. 1 \in Nat /\ 8 \in Nat /\ 1 <= 8 /\ 8 <= Len(f)
        BY <1>17
      <4>2. QED
        BY <4>1, Slice, Zenon
    <3>2. 1 + 1 = 2 /\ 8 - 1 = 7
      OBVIOUS
    <3>3. QED
      BY <3>1, <3>2, Zenon
  <2>2. \A i \in 1..7 : u[i] = body[i]
    BY <1>21, <2>1, Zenon
  <2>3. u = body
    BY <1>10, <2>1, <2>2, SameBytes
  <2>4. QED
    BY <2>1, <2>3, Zenon
<1>24. QED
  BY <1>2, <1>11, <1>17, <1>18, <1>19, <1>21, <1>22, <1>23, Zenon DEF GaugeAsks

\* A gauge's answer.
GaugeAnswer(idd, text) ==
  LET body == Hex(idd) \o <<SPACE, 79, 75, SPACE>> \o HexText(text) \o <<SPACE>>
  IN  body \o Hex(Checksum(body)) \o <<CR>>

GaugeShape(f, idd, text) ==
  /\ f \in Seq(Byte) /\ Len(f) = 10 + 2 * Len(text)
  /\ f[1] = Hex(idd)[1] /\ f[2] = Hex(idd)[2]
  /\ \A i \in 1..2 * Len(text) : f[6 + i] = HexText(text)[i]
  /\ f[10 + 2 * Len(text)] = CR
  /\ \A i \in 1..9 + 2 * Len(text) : f[i] # CR

LEMMA GaugeShapeLen ==
  ASSUME NEW f, NEW idd, NEW text \in Seq(Byte), GaugeShape(f, idd, text)
  PROVE  f \in Seq(Byte) /\ Len(f) = 10 + 2 * Len(text) /\ Len(f) >= 10
<1>1. f \in Seq(Byte) /\ Len(f) = 10 + 2 * Len(text)
  BY Zenon DEF GaugeShape
<1>2. QED
  BY <1>1

LEMMA GaugeAnswerShape ==
  ASSUME NEW idd \in Byte, NEW text \in Seq(Byte)
  PROVE  GaugeShape(GaugeAnswer(idd, text), idd, text)
<1>1. PICK ok \in Seq(Byte), sp \in Seq(Byte), cr \in Seq(Byte) :
        /\ ok = <<SPACE, 79, 75, SPACE>> /\ sp = <<SPACE>> /\ cr = <<CR>>
        /\ Len(ok) = 4 /\ Len(sp) = 1 /\ Len(cr) = 1
        /\ ok[1] # CR /\ ok[2] # CR /\ ok[3] # CR /\ ok[4] # CR /\ sp[1] # CR /\ cr[1] = CR
  <2>1. SPACE \in Byte /\ CR \in Byte /\ 79 \in Byte /\ 75 \in Byte
    BY NamedBytes DEF Byte
  <2>2. /\ <<SPACE>> \in Seq(Byte) /\ <<CR>> \in Seq(Byte)
        /\ Len(<<SPACE>>) = 1 /\ Len(<<CR>>) = 1
        /\ <<SPACE>>[1] = SPACE /\ <<CR>>[1] = CR
    BY <2>1, OneByte
  <2>3. <<SPACE, 79, 75, SPACE>> \in Seq(Byte)
    BY <2>1
  <2>4. /\ Len(<<SPACE, 79, 75, SPACE>>) = 4
        /\ <<SPACE, 79, 75, SPACE>>[1] = SPACE /\ <<SPACE, 79, 75, SPACE>>[2] = 79
        /\ <<SPACE, 79, 75, SPACE>>[3] = 75 /\ <<SPACE, 79, 75, SPACE>>[4] = SPACE
    OBVIOUS
  <2>5. SPACE # CR /\ 79 # CR /\ 75 # CR
    BY DEF SPACE, CR
  <2>6. PICK o \in Seq(Byte) : o = <<SPACE, 79, 75, SPACE>>
    BY <2>3, Zenon
  <2>7. PICK b \in Seq(Byte), e \in Seq(Byte) : b = <<SPACE>> /\ e = <<CR>>
    BY <2>2, Zenon
  <2>8. Len(o) = 4 /\ o[1] # CR /\ o[2] # CR /\ o[3] # CR /\ o[4] # CR
    BY <2>4, <2>5, <2>6, Zenon
  <2>9. Len(b) = 1 /\ Len(e) = 1 /\ b[1] # CR /\ e[1] = CR
    BY <2>2, <2>5, <2>7, Zenon
  <2>10. QED
    BY <2>6, <2>7, <2>8, <2>9, Zenon
<1>2. PICK a \in Seq(Byte), d \in Seq(Byte), n \in Nat :
        /\ a = Hex(idd) /\ d = HexText(text) /\ n = Len(text)
        /\ Len(a) = 2 /\ Len(d) = 2 * n
        /\ a[1] # CR /\ a[2] # CR
        /\ \A i \in 1..2 * n : d[i] # CR
  <2>1. CR \notin HexChar
    BY NamedBytes
  <2>2. Hex(idd)[1] # CR /\ Hex(idd)[2] # CR
    BY <2>1, HexReads
  <2>3. \A i \in 1..2 * Len(text) : HexText(text)[i] # CR
    <3>1. HexText(text) \in Seq(HexChar) /\ Len(HexText(text)) = 2 * Len(text)
      BY HexTextReads
    <3>2. QED
      BY <2>1, <3>1, ElementOfSeq
  <2>4. Len(text) \in Nat
    OBVIOUS
  <2>5. QED
    BY <2>2, <2>3, <2>4, HexBytes, HexTextBytes, ZenonT(30)
<1>3. PICK p \in Seq(Byte) : IsJoin(p, a, ok, 2, 4)
  BY <1>1, <1>2, Joins, Zenon
<1>4. Len(p) = 6
  BY <1>3 DEF IsJoin
<1>5. PICK q \in Seq(Byte) : IsJoin(q, p, d, 6, 2 * n)
  BY <1>2, <1>4, Joins, Zenon
<1>6. Len(q) = 6 + 2 * n
  BY <1>5 DEF IsJoin
<1>7. PICK body \in Seq(Byte) : IsJoin(body, q, sp, 6 + 2 * n, 1)
  BY <1>1, <1>6, Joins, Zenon
<1>8. Len(body) = 7 + 2 * n
  BY <1>7 DEF IsJoin
<1>9. PICK h \in Seq(Byte) : /\ h = Hex(Checksum(body)) /\ Len(h) = 2
                             /\ h[1] # CR /\ h[2] # CR
  <2>1. CR \notin HexChar /\ Checksum(body) \in Byte
    BY NamedBytes, ChecksumType
  <2>2. Hex(Checksum(body))[1] # CR /\ Hex(Checksum(body))[2] # CR
    BY <2>1, HexReads
  <2>3. QED
    BY <2>1, <2>2, HexBytes, Zenon
<1>10. PICK t \in Seq(Byte) : IsJoin(t, body, h, 7 + 2 * n, 2)
  BY <1>8, <1>9, Joins, Zenon
<1>11. Len(t) = 9 + 2 * n
  BY <1>10 DEF IsJoin
<1>12. PICK f \in Seq(Byte) : IsJoin(f, t, cr, 9 + 2 * n, 1)
  BY <1>1, <1>11, Joins, Zenon
<1>13. Len(f) = 10 + 2 * n
  BY <1>12 DEF IsJoin
<1>14. f = GaugeAnswer(idd, text)
  BY <1>1, <1>2, <1>3, <1>5, <1>7, <1>9, <1>10, <1>12, Zenon DEF GaugeAnswer, IsJoin
<1>15. /\ \A i \in 1..9 + 2 * n : f[i] = t[i]
       /\ \A i \in 1..7 + 2 * n : t[i] = body[i]
       /\ t[7 + 2 * n + 1] = h[1] /\ t[7 + 2 * n + 2] = h[2]
       /\ \A i \in 1..6 + 2 * n : body[i] = q[i]
       /\ body[6 + 2 * n + 1] = sp[1]
       /\ \A i \in 1..6 : q[i] = p[i]
       /\ \A i \in 1..2 * n : q[6 + i] = d[i]
       /\ \A i \in 1..2 : p[i] = a[i]
       /\ \A i \in 1..4 : p[2 + i] = ok[i]
       /\ f[9 + 2 * n + 1] = cr[1]
  <2>1. 1 \in 1..2 /\ 2 \in 1..2 /\ 1 \in 1..1
    OBVIOUS
  <2>2. QED
    BY <1>3, <1>5, <1>7, <1>10, <1>12, <2>1, Zenon DEF IsJoin
<1>16. \A i \in 1..6 + 2 * n : f[i] = q[i]
  <2>1. \A i \in 1..6 + 2 * n : i \in 1..9 + 2 * n /\ i \in 1..7 + 2 * n
    OBVIOUS
  <2>2. QED
    BY <1>15, <2>1, Zenon
<1>17. f[1] = a[1] /\ f[2] = a[2]
  <2>1. /\ 1 \in 1..6 + 2 * n /\ 1 \in 1..6 /\ 1 \in 1..2
        /\ 2 \in 1..6 + 2 * n /\ 2 \in 1..6 /\ 2 \in 1..2
    OBVIOUS
  <2>2. f[1] = q[1] /\ f[2] = q[2]
    BY <1>16, <2>1, Zenon
  <2>3. q[1] = p[1] /\ q[2] = p[2]
    BY <1>15, <2>1, Zenon
  <2>4. p[1] = a[1] /\ p[2] = a[2]
    BY <1>15, <2>1, Zenon
  <2>5. QED
    BY <2>2, <2>3, <2>4, Zenon
<1>18. \A i \in 1..2 * n : f[6 + i] = d[i]
  <2>1. \A i \in 1..2 * n : 6 + i \in 1..6 + 2 * n
    OBVIOUS
  <2>2. QED
    BY <1>15, <1>16, <2>1, Zenon
<1>19. f[10 + 2 * n] = CR
  <2>1. 9 + 2 * n + 1 = 10 + 2 * n
    OBVIOUS
  <2>2. QED
    BY <1>1, <1>15, <2>1, Zenon
<1>20. ASSUME NEW i \in 1..9 + 2 * n
       PROVE  f[i] # CR
  <2>1. f[i] = t[i]
    BY <1>15
  <2>2. CASE i \in 1..6
    <3>1. f[i] = q[i] /\ q[i] = p[i]
      <4>1. i \in 1..6 + 2 * n
        BY <2>2
      <4>2. QED
        BY <1>15, <1>16, <2>2, <4>1, Zenon
    <3>2. CASE i \in 1..2
      <4>1. i = 1 \/ i = 2
        BY <3>2
      <4>2. p[i] = a[i]
        BY <1>15, <3>2, Zenon
      <4>3. QED
        BY <1>2, <3>1, <4>1, <4>2, Zenon
    <3>3. CASE i \in 3..6
      <4>1. i - 2 \in 1..4 /\ 2 + (i - 2) = i
        BY <3>3
      <4>2. p[i] = ok[i - 2]
        BY <1>15, <4>1, Zenon
      <4>3. \A k \in 1..4 : ok[k] # CR
        <5>1. \A k \in 1..4 : k = 1 \/ k = 2 \/ k = 3 \/ k = 4
          OBVIOUS
        <5>2. QED
          BY <1>1, <5>1, Zenon
      <4>4. QED
        BY <3>1, <4>1, <4>2, <4>3, Zenon
    <3>4. QED
      BY <2>2, <3>2, <3>3
  <2>3. CASE i \in 7..6 + 2 * n
    <3>1. i - 6 \in 1..2 * n /\ 6 + (i - 6) = i
      BY <2>3
    <3>2. QED
      BY <1>2, <1>18, <3>1, ZenonT(30)
  <2>4. CASE i = 6 + 2 * n + 1
    <3>1. i \in 1..7 + 2 * n
      BY <2>4
    <3>2. QED
      BY <1>1, <1>15, <2>1, <2>4, <3>1, ZenonT(30)
  <2>5. CASE i = 7 + 2 * n + 1 \/ i = 7 + 2 * n + 2
    BY <1>9, <1>15, <2>1, <2>5, Zenon
  <2>6. QED
    BY <2>2, <2>3, <2>4, <2>5
<1>21. QED
  BY <1>2, <1>13, <1>14, <1>17, <1>18, <1>19, <1>20, Zenon DEF GaugeShape

LEMMA GaugeShapeDecodes ==
  ASSUME NEW idd \in Byte, NEW text \in Seq(Byte), text # <<>>,
         NEW f, GaugeShape(f, idd, text), NEW front, NEW isText
  PROVE  VacuumDecode(f, front, isText) =
           Reading(idd, front, IF isText THEN text ELSE atof(text))
<1>1. PICK n \in Nat : n = Len(text) /\ n >= 1
  BY LenProperties, EmptySeq
<1>2. f \in Seq(Byte) /\ Len(f) = 10 + 2 * n
  BY <1>1, Zenon DEF GaugeShape
<1>3. decode_uint8(f[1], f[2]) = idd
  BY HexReads, Zenon DEF GaugeShape
<1>4. ~(Len(f) < 12) /\ (Len(f) - 9) \div 2 = n
  BY <1>1, <1>2
<1>5. UnhexText(SubSeq(f, 7, 6 + 2 * n)) = text
  <2>1. 6 \in Nat /\ 6 + 2 * n <= Len(f) /\ 6 + 1 = 7
    BY <1>2
  <2>2. \A i \in 1..2 * n : f[6 + i] = HexText(text)[i]
    BY <1>1, Zenon DEF GaugeShape
  <2>3. UnhexText(SubSeq(f, 6 + 1, 6 + 2 * n)) = text
    BY <1>1, <1>2, <2>1, <2>2, UnhexSlice
  <2>4. QED
    BY <2>1, <2>3, Zenon
<1>6. VacuumDecode(f, front, isText) =
        Reading(decode_uint8(f[1], f[2]), front,
                IF isText THEN UnhexText(SubSeq(f, 7, 6 + 2 * ((Len(f) - 9) \div 2)))
                ELSE atof(UnhexText(SubSeq(f, 7, 6 + 2 * ((Len(f) - 9) \div 2)))))
  BY <1>4, Zenon DEF VacuumDecode
<1>7. QED
  BY <1>3, <1>4, <1>5, <1>6, Zenon

\* A gauge's answer of any text is decoded as that text, or as the number it is, from
\* the device that answered and for the function that was asked (VacuumCtl::decode_data).
THEOREM GaugeAnswerDecodes ==
  ASSUME NEW idd \in Byte, NEW text \in Seq(Byte), text # <<>>, NEW front, NEW isText
  PROVE  VacuumDecode(GaugeAnswer(idd, text), front, isText) =
           Reading(idd, front, IF isText THEN text ELSE atof(text))
<1>1. PICK f : f = GaugeAnswer(idd, text)
  OBVIOUS
<1>2. GaugeShape(f, idd, text)
  BY <1>1, GaugeAnswerShape, Zenon
<1>3. VacuumDecode(f, front, isText) = Reading(idd, front, IF isText THEN text ELSE atof(text))
  BY <1>2, GaugeShapeDecodes
<1>4. QED
  BY <1>1, <1>3, Zenon

LEMMA GaugeRefuses ==
  ASSUME NEW f, Len(f) < 12, NEW front, NEW isText
  PROVE  VacuumDecode(f, front, isText) = Refused
  BY Zenon DEF VacuumDecode

-----------------------------------------------------------------------------
(* The rings. *)

\* The flag is in the ring at p, counted from 0.
IsAt(ring, flag, p) ==
  /\ p + Len(flag) <= Len(ring)
  /\ \A i \in 1..Len(flag) : ring[p + i] = flag[i]

LEMMA FlagAt ==
  ASSUME NEW ring \in Seq(Byte), NEW flag \in Seq(Byte), NEW p \in Nat,
         p + Len(flag) <= Len(ring)
  PROVE  SubSeq(ring, p + 1, p + Len(flag)) = flag <=> IsAt(ring, flag, p)
<1>1. PICK n \in Nat, b \in Nat : n = Len(flag) /\ b = p + n
  BY LenProperties
<1>2. PICK s \in Seq(Byte) : /\ s = SubSeq(ring, p + 1, b) /\ Len(s) = n
                             /\ \A i \in 1..n : s[i] = ring[p + i]
  <2>1. p <= b /\ b <= Len(ring) /\ b - p = n
    BY <1>1
  <2>2. QED
    BY <2>1, Slice, ZenonT(30)
<1>3. s = flag <=> \A i \in 1..n : s[i] = flag[i]
  BY <1>1, <1>2, SameBytes
<1>4. QED
  BY <1>1, <1>2, <1>3, Zenon DEF IsAt

LEMMA LookupNone ==
  ASSUME NEW ring \in Seq(Byte), NEW flag \in Seq(Byte), NEW from \in Nat,
         \A p \in Nat : p >= from => ~IsAt(ring, flag, p)
  PROVE  Lookup(ring, flag, from) = -1
<1> DEFINE found == {p \in from..Len(ring) - Len(flag) :
                       SubSeq(ring, p + 1, p + Len(flag)) = flag}
<1>1. ASSUME NEW p \in from..Len(ring) - Len(flag)
      PROVE  ~(SubSeq(ring, p + 1, p + Len(flag)) = flag)
  <2>1. p \in Nat /\ p >= from /\ p + Len(flag) <= Len(ring)
    <3>1. Len(ring) \in Nat /\ Len(flag) \in Nat
      OBVIOUS
    <3>2. QED
      BY <3>1
  <2>2. QED
    BY <2>1, FlagAt, Zenon
<1>2. found = {}
  BY <1>1, Zenon
<1>3. QED
  BY <1>2, Zenon DEF Lookup

LEMMA LookupFirst ==
  ASSUME NEW ring \in Seq(Byte), NEW flag \in Seq(Byte), NEW from \in Nat,
         NEW k \in Nat, k >= from, IsAt(ring, flag, k),
         \A p \in from..k - 1 : ~IsAt(ring, flag, p)
  PROVE  Lookup(ring, flag, from) = k
<1> DEFINE found == {p \in from..Len(ring) - Len(flag) :
                       SubSeq(ring, p + 1, p + Len(flag)) = flag}
<1>1. Len(ring) \in Nat /\ Len(flag) \in Nat /\ k + Len(flag) <= Len(ring)
  BY LenProperties, Zenon DEF IsAt
<1>2. k \in from..Len(ring) - Len(flag)
  BY <1>1
<1>3. SubSeq(ring, k + 1, k + Len(flag)) = flag
  BY <1>1, FlagAt, Zenon
<1>4. k \in found
  BY <1>2, <1>3, Zenon
<1>5. ASSUME NEW q \in found
      PROVE  q \in Nat /\ k <= q
  <2>1. q \in from..Len(ring) - Len(flag)
    BY Zenon
  <2>2. q \in Nat /\ q >= from /\ q + Len(flag) <= Len(ring)
    BY <1>1, <2>1
  <2>3. IsAt(ring, flag, q)
    BY <2>2, FlagAt, Zenon
  <2>4. ~(q \in from..k - 1)
    BY <2>3, Zenon
  <2>5. QED
    BY <2>2, <2>4
<1>6. Lookup(ring, flag, from) = CHOOSE p \in found : \A q \in found : p <= q
  BY <1>4, Zenon DEF Lookup
<1> HIDE DEF found
<1>7. \A p \in found : (\A q \in found : p <= q) => p = k
  BY <1>4, <1>5
<1>8. \A q \in found : k <= q
  BY <1>5
<1>9. QED
  BY <1>4, <1>6, <1>7, <1>8, Zenon

\* t is what is left of s without its first c bytes.
IsRest(t, s, c) ==
  /\ t \in Seq(Byte) /\ c \in Nat /\ c <= Len(s) /\ Len(t) = Len(s) - c
  /\ \A i \in 1..Len(s) - c : t[i] = s[c + i]

LEMMA RestSlice ==
  ASSUME NEW s \in Seq(Byte), NEW c \in Nat, c <= Len(s)
  PROVE  IsRest(SubSeq(s, c + 1, Len(s)), s, c)
<1>1. PICK b \in Nat : b = Len(s)
  OBVIOUS
<1>2. /\ SubSeq(s, c + 1, b) \in Seq(Byte) /\ Len(SubSeq(s, c + 1, b)) = b - c
      /\ \A i \in 1..b - c : SubSeq(s, c + 1, b)[i] = s[c + i]
  BY <1>1, Slice
<1>3. QED
  BY <1>1, <1>2, Zenon DEF IsRest

LEMMA RestWhole ==
  ASSUME NEW s \in Seq(Byte)
  PROVE  IsRest(s, s, 0)
<1>1. Len(s) \in Nat /\ 0 <= Len(s) /\ Len(s) - 0 = Len(s) /\ \A i \in 1..Len(s) : 0 + i = i
  OBVIOUS
<1>2. QED
  BY <1>1, Zenon DEF IsRest

LEMMA RestOfRest ==
  ASSUME NEW s \in Seq(Byte), NEW t, NEW u, NEW c, NEW d,
         IsRest(t, s, c), IsRest(u, t, d)
  PROVE  IsRest(u, s, c + d)
<1>1. /\ c \in Nat /\ d \in Nat /\ t \in Seq(Byte) /\ u \in Seq(Byte)
      /\ Len(t) = Len(s) - c /\ Len(u) = Len(t) - d /\ c <= Len(s) /\ d <= Len(t)
  BY Zenon DEF IsRest
<1>2. PICK m \in Nat : m = Len(s)
  OBVIOUS
<1>3. c + d \in Nat /\ c + d <= m /\ Len(u) = m - (c + d)
  BY <1>1, <1>2
<1>4. ASSUME NEW i \in 1..m - (c + d)
      PROVE  u[i] = s[(c + d) + i]
  <2>1. i \in 1..Len(t) - d /\ d + i \in 1..Len(s) - c /\ c + (d + i) = (c + d) + i
    BY <1>1, <1>2
  <2>2. u[i] = t[d + i] /\ t[d + i] = s[c + (d + i)]
    BY <2>1, Zenon DEF IsRest
  <2>3. QED
    BY <2>1, <2>2, Zenon
<1>5. QED
  BY <1>1, <1>2, <1>3, <1>4, Zenon DEF IsRest

\* What follows both stays the same.
LEMMA RestJoin ==
  ASSUME NEW s \in Seq(Byte), NEW t, NEW c, IsRest(t, s, c), NEW w \in Seq(Byte)
  PROVE  IsRest(t \o w, s \o w, c)
<1>1. c \in Nat /\ t \in Seq(Byte) /\ c <= Len(s) /\ Len(t) = Len(s) - c
  BY Zenon DEF IsRest
<1>2. PICK a \in Nat, b \in Nat, m \in Nat : a = Len(s) /\ b = Len(t) /\ m = Len(w)
  BY <1>1
<1>3. PICK p \in Seq(Byte) : IsJoin(p, t, w, b, m)
  BY <1>1, <1>2, Joins, Zenon
<1>4. PICK q \in Seq(Byte) : IsJoin(q, s, w, a, m)
  BY <1>2, Joins, Zenon
<1>5. p = t \o w /\ q = s \o w /\ Len(p) = b + m /\ Len(q) = a + m
  BY <1>3, <1>4, Zenon DEF IsJoin
<1>6. b = a - c /\ c <= a /\ c <= a + m /\ b + m = (a + m) - c
  BY <1>1, <1>2
<1>7. ASSUME NEW i \in 1..(a + m) - c
      PROVE  p[i] = q[c + i]
  <2>0. i \in Int /\ 1 <= i /\ i <= b + m /\ a \in Int /\ b \in Int /\ c \in Int
        /\ m \in Int /\ a = b + c /\ 0 <= c
    BY <1>1, <1>2, <1>6
  <2>1. CASE i <= b
    <3>1. i \in 1..b /\ i \in 1..a - c /\ c + i \in 1..a
      BY <2>0, <2>1
    <3>2. p[i] = t[i] /\ q[c + i] = s[c + i]
      BY <1>3, <1>4, <3>1, Zenon DEF IsJoin
    <3>3. t[i] = s[c + i]
      BY <1>2, <3>1, Zenon DEF IsRest
    <3>4. QED
      BY <3>2, <3>3, Zenon
  <2>2. CASE i > b
    <3>1. i - b \in 1..m /\ b + (i - b) = i /\ a + (i - b) = c + i
      BY <2>0, <2>2
    <3>2. p[b + (i - b)] = w[i - b] /\ q[a + (i - b)] = w[i - b]
      BY <1>3, <1>4, <3>1, Zenon DEF IsJoin
    <3>3. QED
      BY <3>1, <3>2, Zenon
  <2>3. QED
    BY <2>0, <2>1, <2>2
<1>8. IsRest(p, q, c)
  BY <1>1, <1>5, <1>6, <1>7, Zenon DEF IsRest
<1>9. QED
  BY <1>5, <1>8, Zenon

\* push_back keeps the last bytes, and all that the ring has room for.
LEMMA PushBackKeeps ==
  ASSUME NEW ring \in Seq(Byte), NEW bytes \in Seq(Byte), NEW capacity \in Nat
  PROVE  \E c \in Nat : /\ IsRest(PushBack(ring, bytes, capacity), ring \o bytes, c)
                        /\ \/ c = 0 /\ Len(ring \o bytes) <= capacity
                           \/ Len(PushBack(ring, bytes, capacity)) = capacity
<1>1. PICK all \in Seq(Byte) : all = ring \o bytes
  BY Joined, Zenon
<1>2. CASE Len(all) <= capacity
  <2>1. PushBack(ring, bytes, capacity) = all
    BY <1>1, <1>2, Zenon DEF PushBack
  <2>2. QED
    BY <1>1, <1>2, <2>1, RestWhole, Zenon
<1>3. CASE ~(Len(all) <= capacity)
  <2>0. Len(all) - capacity \in Nat
    BY <1>3
  <2>1. PICK c \in Nat : c = Len(all) - capacity
    BY <2>0, Zenon
  <2>2. c <= Len(all) /\ Len(all) - c = capacity
    BY <2>1
  <2>3. PushBack(ring, bytes, capacity) = SubSeq(all, c + 1, Len(all))
    BY <1>1, <1>3, <2>1, Zenon DEF PushBack
  <2>4. IsRest(SubSeq(all, c + 1, Len(all)), all, c)
    BY <2>2, RestSlice, Zenon
  <2>5. Len(SubSeq(all, c + 1, Len(all))) = capacity
    BY <2>2, <2>4, Zenon DEF IsRest
  <2>6. QED
    BY <1>1, <2>3, <2>4, <2>5, Zenon
<1>4. QED
  BY <1>2, <1>3, Zenon

\* Read takes the frame and what precedes it.
LEMMA ReadTakes ==
  ASSUME NEW ring \in Seq(Byte), NEW from \in Nat, NEW len \in Nat, len >= 1,
         from + len <= Len(ring)
  PROVE  /\ Read(ring, len, from).frame \in Seq(Byte)
         /\ Len(Read(ring, len, from).frame) = len
         /\ \A i \in 1..len : Read(ring, len, from).frame[i] = ring[from + i]
         /\ IsRest(Read(ring, len, from).ring, ring, from + len)
<1>1. PICK last \in Nat : last = from + len
  OBVIOUS
<1>2. ~(from < 0 \/ from >= Len(ring)) /\ ~(Len(ring) < from + len)
      /\ last - from = len /\ from <= last /\ last <= Len(ring)
  BY <1>1
<1>3. Read(ring, len, from) = [frame |-> SubSeq(ring, from + 1, last),
                               ring |-> SubSeq(ring, last + 1, Len(ring))]
  BY <1>1, <1>2, Zenon DEF Read
<1>4. /\ SubSeq(ring, from + 1, last) \in Seq(Byte)
      /\ Len(SubSeq(ring, from + 1, last)) = last - from
      /\ \A i \in 1..last - from : SubSeq(ring, from + 1, last)[i] = ring[from + i]
  BY <1>2, Slice
<1>5. IsRest(SubSeq(ring, last + 1, Len(ring)), ring, last)
  BY <1>2, RestSlice, Zenon
<1>6. /\ Read(ring, len, from).frame = SubSeq(ring, from + 1, last)
      /\ Read(ring, len, from).ring = SubSeq(ring, last + 1, Len(ring))
  BY <1>3
<1>7. QED
  BY <1>1, <1>2, <1>4, <1>5, <1>6, Zenon

LEMMA ReadNothing ==
  ASSUME NEW ring, NEW len
  PROVE  Read(ring, len, -1) = [frame |-> <<>>, ring |-> ring]
<1>1. -1 < 0
  OBVIOUS
<1>2. QED
  BY <1>1, Zenon DEF Read

LEMMA LookupCases ==
  ASSUME NEW ring \in Seq(Byte), NEW flag \in Seq(Byte), NEW from \in Nat
  PROVE  \/ /\ Lookup(ring, flag, from) = -1
            /\ \A p \in Nat : p >= from => ~IsAt(ring, flag, p)
         \/ \E k \in Nat : /\ Lookup(ring, flag, from) = k
                           /\ k >= from /\ IsAt(ring, flag, k)
                           /\ \A p \in from..k - 1 : ~IsAt(ring, flag, p)
<1> DEFINE T == {p \in Nat : p >= from /\ IsAt(ring, flag, p)}
<1>1. CASE T = {}
  <2>1. \A p \in Nat : p >= from => ~IsAt(ring, flag, p)
    BY <1>1, Zenon
  <2>2. QED
    BY <2>1, LookupNone, Zenon
<1>2. CASE T # {}
  <2>1. PICK k \in T : \A p \in T : k <= p
    <3>1. T \subseteq Nat
      BY Zenon
    <3> HIDE DEF T
    <3>2. QED
      BY <1>2, <3>1, LeastElement, Zenon
  <2>2. k \in Nat /\ k >= from /\ IsAt(ring, flag, k)
    BY <2>1, Zenon
  <2>3. ASSUME NEW p \in from..k - 1
        PROVE  ~IsAt(ring, flag, p)
    <3>1. p \in Nat /\ p >= from /\ ~(k <= p)
      BY <2>2
    <3>2. QED
      BY <2>1, <3>1, Zenon
  <2>4. Lookup(ring, flag, from) = k
    BY <2>2, <2>3, LookupFirst, Zenon
  <2>5. QED
    BY <2>2, <2>3, <2>4, Zenon
<1>3. QED
  BY <1>1, <1>2, Zenon

LEMMA PushBackType ==
  ASSUME NEW ring \in Seq(Byte), NEW bytes \in Seq(Byte), NEW capacity \in Nat
  PROVE  /\ PushBack(ring, bytes, capacity) \in Seq(Byte)
         /\ Len(PushBack(ring, bytes, capacity)) <= capacity
<1>1. PICK c \in Nat : /\ IsRest(PushBack(ring, bytes, capacity), ring \o bytes, c)
                       /\ \/ c = 0 /\ Len(ring \o bytes) <= capacity
                          \/ Len(PushBack(ring, bytes, capacity)) = capacity
  BY PushBackKeeps, Zenon
<1>2. PICK s \in Seq(Byte), t \in Seq(Byte) : s = ring \o bytes /\ t = PushBack(ring, bytes, capacity)
  BY <1>1, Joined, Zenon DEF IsRest
<1>3. Len(t) = Len(s) - c
  BY <1>1, <1>2, Zenon DEF IsRest
<1>4. (c = 0 /\ Len(s) <= capacity) \/ Len(t) = capacity
  BY <1>1, <1>2, Zenon
<1>5. Len(t) <= capacity
  BY <1>3, <1>4
<1>6. QED
  BY <1>2, <1>5, Zenon

\* Read leaves a part of the ring.
LEMMA ReadLeaves ==
  ASSUME NEW ring \in Seq(Byte), NEW len \in Nat, NEW from \in Int
  PROVE  /\ Read(ring, len, from).ring \in Seq(Byte)
         /\ Len(Read(ring, len, from).ring) <= Len(ring)
<1>1. CASE from < 0 \/ from >= Len(ring)
  <2>1. Read(ring, len, from).ring = ring
    BY <1>1 DEF Read
  <2>2. Len(ring) <= Len(ring)
    OBVIOUS
  <2>3. QED
    BY <2>1, <2>2, Zenon
<1>2. CASE ~(from < 0 \/ from >= Len(ring))
  <2>1. PICK last \in Nat : /\ last = IF Len(ring) < from + len THEN Len(ring) ELSE from + len
                            /\ last <= Len(ring)
    BY <1>2
  <2>2. Read(ring, len, from).ring = SubSeq(ring, last + 1, Len(ring))
    BY <1>2, <2>1 DEF Read
  <2>3. PICK t \in Seq(Byte) : /\ t = SubSeq(ring, last + 1, Len(ring))
                               /\ Len(t) = Len(ring) - last
    BY <2>1, RestSlice, Zenon DEF IsRest
  <2>4. Len(t) <= Len(ring)
    BY <2>3
  <2>5. QED
    BY <2>2, <2>3, <2>4, Zenon
<1>3. QED
  BY <1>1, <1>2, Zenon

\* n bytes come to the ring: what it has and what is on its way are what they were,
\* without the c first bytes that a full ring drops.
Arrive(full, later, line, c, n, len, capacity) ==
  /\ IsRest(full \o later, line, c)
  /\ Len(full) + c = len + n
  /\ c = 0 \/ Len(full) = capacity

LEMMA Arrives ==
  ASSUME NEW ring \in Seq(Byte), NEW wire \in Seq(Byte), NEW n \in Nat, n <= Len(wire),
         NEW capacity \in Nat
  PROVE  \E c \in Nat :
           Arrive(PushBack(ring, SubSeq(wire, 1, n), capacity), SubSeq(wire, n + 1, Len(wire)),
                  ring \o wire, c, n, Len(ring), capacity)
<1>1. PICK now \in Seq(Byte) : now = SubSeq(wire, 1, n) /\ Len(now) = n
  <2>1. /\ SubSeq(wire, 0 + 1, n) \in Seq(Byte) /\ Len(SubSeq(wire, 0 + 1, n)) = n - 0
        /\ 0 + 1 = 1 /\ n - 0 = n
    BY Slice
  <2>2. QED
    BY <2>1, Zenon
<1>2. PICK later \in Seq(Byte) : later = SubSeq(wire, n + 1, Len(wire))
  BY RestSlice, Zenon DEF IsRest
<1>3. now \o later = wire
  <2>1. /\ 1 \in 1..Len(wire) + 1 /\ n \in 1 - 1..Len(wire) /\ Len(wire) \in n..Len(wire)
    OBVIOUS
  <2>2. SubSeq(wire, 1, n) \o SubSeq(wire, n + 1, Len(wire)) = SubSeq(wire, 1, Len(wire))
    BY <2>1, ConcatAdjacentSubSeq, Zenon
  <2>3. QED
    BY <1>1, <1>2, <2>2, SubSeqFull, Zenon
<1>4. PICK joined \in Seq(Byte) : joined = ring \o now /\ Len(joined) = Len(ring) + n
  <2>1. ring \o now \in Seq(Byte) /\ Len(ring \o now) = Len(ring) + Len(now)
    BY Joined, Zenon
  <2>2. QED
    BY <1>1, <2>1, Zenon
<1>5. joined \o later = ring \o wire
  <2>1. (ring \o now) \o later = ring \o (now \o later)
    BY ConcatAssociative, SMTT(30)
  <2>2. QED
    BY <1>3, <1>4, <2>1, Zenon
<1>6. PICK c \in Nat : /\ IsRest(PushBack(ring, now, capacity), joined, c)
                       /\ c = 0 \/ Len(PushBack(ring, now, capacity)) = capacity
  <2>1. PICK c \in Nat : /\ IsRest(PushBack(ring, now, capacity), ring \o now, c)
                         /\ \/ c = 0 /\ Len(ring \o now) <= capacity
                            \/ Len(PushBack(ring, now, capacity)) = capacity
    BY PushBackKeeps, Zenon
  <2>2. QED
    BY <1>4, <2>1, Zenon
<1>6a. PICK full : full = PushBack(ring, now, capacity)
  OBVIOUS
<1>7. IsRest(full \o later, joined \o later, c)
  BY <1>6, <1>6a, RestJoin, Zenon
<1>8. Len(full) = Len(joined) - c /\ full \in Seq(Byte)
  BY <1>6, <1>6a, Zenon DEF IsRest
<1>9. Len(full) + c = Len(ring) + n
  BY <1>4, <1>8
<1>10. QED
  BY <1>1, <1>2, <1>5, <1>6, <1>6a, <1>7, <1>9, Zenon DEF Arrive
=============================================================================
