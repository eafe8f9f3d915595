---------------------------- MODULE MCReception ----------------------------
(***************************************************************************)
(* Reception for TLC: two devices, one of them with a letter in its number,*)
(* two fields for each protocol.                                           *)
(***************************************************************************)
EXTENDS Reception

MCDevices == {1, 175}
MCFields == [p \in Protocol |-> IF p = "cooler" THEN {21, 34} ELSE {11, 12}]
MCTenths == {-15, 4}
MCTexts == {<<49, 46, 50, 69, 45, 55>>}

\* The longest settings that fit, and a short one.
MCSettings == {-99999999}
MCIntSettings == {-203456789, 4}

\* Stray bytes for a cooler hold no ':', and outnumber what the ring has room for
\* beside a frame. For a gauge they are a short line and an empty one.
MCStray ==
  [p \in Protocol |->
     IF p = "cooler" THEN {<<CR, LF>>, [i \in 1..14 |-> IF i = 7 THEN LF ELSE 70]}
     ELSE {<<120, CR>>, <<CR>>}]

\* A digit, a letter and the ends of a frame.
MCStrayByte == {48, 70, CR, LF}
=============================================================================
