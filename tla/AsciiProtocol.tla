--------------------------- MODULE AsciiProtocol ---------------------------
(***************************************************************************)
(* The text protocol to the server: what network_respond of a controller   *)
(* has AsciiProtocol say of each device, and what a receiver resolves of   *)
(* it. A text is a sequence of words and separators; a number that is a    *)
(* reading is a word, which format writes and atof reads back.             *)
(*                                                                         *)
(* X_Variant, just before X, is X with a plausible slip; no specification  *)
(* uses it. It tells whether the properties notice the slip.               *)
(***************************************************************************)
EXTENDS Naturals, Sequences, SequencesExt

CONSTANTS
  Slots,     \* how many output buffers there are
  Texts,     \* what a text field may hold
  Numbers,   \* the readings
  MaxSaid    \* bound on the messages

Words == UNION {ToSet(v) : v \in Texts \cup Numbers}

\* There is an output buffer; a text is a sequence of words, and a number has a digit.
ASSUME TextAssumption ==
  /\ Slots \in Nat \ {0}
  /\ Texts \cup Numbers \subseteq Seq(Words)
  /\ <<>> \notin Numbers

COMMA == ","
EQUALS == "="
SPC == " "
NEWLINE == "\n"
PUNCT == {COMMA, EQUALS, "-", "."}

Names == [cooler |-> <<"time", "group_id", "unit_id", "cam_id", "voltage", "current",
                       "hotend", "coolget", "coolset">>,
          vacuum |-> <<"time", "group_id", "unit_id", "cam_id", "voltage", "current",
                       "pressure">>]
Fields(type) == ToSet(Names[type])
Numeric == {"voltage", "current", "hotend", "coolget", "coolset"}

\* The constructors: FLT_MIN, whose six digits are not read back as FLT_MIN.
FLT_MIN == <<"FLT_MIN">>
Fresh(type) == [f \in Fields(type) |-> IF f \in Numeric THEN FLT_MIN ELSE <<>>]
Written(f, v) == IF f \in Numeric /\ v = FLT_MIN THEN <<"1.17549e-38">> ELSE v

-----------------------------------------------------------------------------
\* join_kv: "keyword=value,".
join_kv(f, v) == <<f, EQUALS>> \o Written(f, v) \o <<COMMA>>

\* output_compacted: cut what is punctuation or space at the end, and end the line.
trim_right(s, cut) ==
  LET kept == {i \in 1..Len(s) : s[i] \notin cut}
  IN  IF kept = {} THEN <<>> ELSE SubSeq(s, 1, Max(kept))

\* CompactCooler and CompactVacuum; only an empty time is left out.
Compact(type, proto) ==
  LET said == IF proto["time"] = <<>> THEN Tail(Names[type]) ELSE Names[type]
      pairs == [i \in 1..Len(said) |-> join_kv(said[i], proto[said[i]])]
  IN  Append(trim_right(<<type, SPC>> \o FlattenSeq(pairs), PUNCT \cup {SPC}), NEWLINE)

-----------------------------------------------------------------------------
\* split with token_compress_on: the stretches without the separator, in order. A
\* stretch that is empty, at an end, says nothing to resolve_kv and is left out.
Starts(s, sep) == {i \in 1..Len(s) : s[i] # sep /\ (i = 1 \/ s[i - 1] = sep)}
Stretch(s, sep, i) ==
  SubSeq(s, i, Min({j \in i..Len(s) : j = Len(s) \/ s[j + 1] = sep}))

trim(s) ==
  LET inner == {i \in 1..Len(s) : s[i] \notin {SPC, NEWLINE}}
  IN  IF inner = {} THEN <<>> ELSE SubSeq(s, Min(inner), Max(inner))

\* resolve_kv: what is before the first "=", and from there to the next.
Keyword(kv) == IF kv[1] = EQUALS THEN <<>> ELSE trim(Stretch(kv, EQUALS, 1))
Value(kv) ==
  LET later == {i \in Starts(kv, EQUALS) : i > 1}
  IN  IF later = {} THEN <<>>
      ELSE trim(Stretch(kv, EQUALS, Min(later)))

\* Resolve, resolve_cooler and resolve_vacuum: the last value that each name was given.
Resolve(text) ==
  LET type == text[1]
      rest == SubSeq(text, 3, Len(text))
      given(f) == {i \in Starts(rest, COMMA) :
                     LET kv == Stretch(rest, COMMA, i)
                     IN  Keyword(kv) = <<f>> /\ Value(kv) # <<>>}
  IN  [f \in Fields(type) |->
         IF given(f) = {} THEN Fresh(type)[f]
         ELSE Value(Stretch(rest, COMMA, Max(given(f))))]

-----------------------------------------------------------------------------
VARIABLES
  ibuf,    \* the output buffer that is next
  buff,    \* what the buffers hold
  protos,  \* the last messages, newest first: type, contents and buffer
  said

textVars == <<ibuf, buff, protos, said>>

TextInit ==
  /\ ibuf = 0
  /\ buff = [i \in 0..Slots - 1 |-> <<>>]
  /\ protos = <<>>
  /\ said = 0

after_Short(i) == IF i + 2 >= Slots THEN 0 ELSE i + 1
after(i) == IF i + 1 = Slots THEN 0 ELSE i + 1

\* CompactCooler or CompactVacuum, called by network_respond, with the buffer that it
\* returns a pointer to.
Say(type, proto) ==
  /\ said < MaxSaid
  /\ said' = said + 1
  /\ buff' = [buff EXCEPT ![ibuf] = Compact(type, proto)]
  /\ protos' = <<[type |-> type, proto |-> proto, slot |-> ibuf]>>
                 \o SubSeq(protos, 1, IF Len(protos) < Slots THEN Len(protos) ELSE Slots - 1)
  /\ ibuf' = after(ibuf)

\* What network_respond has to say: the configured group, a unit and a camera, and
\* readings or what a new proto holds; it sets no time, other callers may.
Dates == {<<>>, <<"2017", "-", "10">>}
Protos(type, text) ==
  {[Fresh(type) EXCEPT !["time"] = t, ![text] = x, !["cam_id"] = <<"010">>,
                       !["voltage"] = v] :
     t \in Dates, x \in Texts, v \in Numbers \cup {FLT_MIN}}

SayCooler == \E p \in Protos("cooler", "group_id") : Say("cooler", p)
SayVacuum == \E p \in Protos("vacuum", "pressure") : Say("vacuum", p)

TextNext == SayCooler \/ SayVacuum

TextSpec == TextInit /\ [][TextNext]_textVars

-----------------------------------------------------------------------------
\* A text that survives: no separator of the protocol, no space at an end.
Plain(v) == /\ \A i \in 1..Len(v) : v[i] \notin {COMMA, EQUALS, NEWLINE}
            /\ trim(v) = v

\* Each of the last messages can still be read in its buffer, and a receiver makes of
\* it what was said, as long as the texts are plain: an empty field and one that was
\* never set included (Compact, output_compacted, Resolve). Two exceptions: the six
\* digits of FLT_MIN are not FLT_MIN, and the last field loses all the punctuation and
\* space at its end, a space before a final "-" with it.
ReadBack ==
  \A i \in 1..Len(protos) :
    LET p == protos[i]
        heard == Resolve(buff[p.slot])
        last == Last(Names[p.type])
    IN  (\A f \in Fields(p.type) : Plain(p.proto[f])) =>
          \A f \in Fields(p.type) :
            heard[f] = IF f = last THEN trim_right(Written(f, p.proto[f]), PUNCT \cup {SPC})
                       ELSE Written(f, p.proto[f])
=============================================================================
