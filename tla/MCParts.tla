------------------------------ MODULE MCParts ------------------------------
(* Instances of the parts for TLC. *)
EXTENDS Parts

MCDayOfMonth == [d \in 0..5 |-> (d % 3) + 1]
MCErrors == {-7, 50}
MCDrift == {-1}
MCTexts ==
  {<<>>, <<"001">>, <<"a", " ", "-">>, <<"a", " ", "b">>, <<"a", ",", "unit_id", "=", "9">>}

\* In ticks of two seconds: Cycle and Beat are 20 and 30 s, and 6 s is what decides.
MCJumps == {-3, 3}

MCNumbers == {<<"-", "3">>}

\* A file of the owner's, with two coolers, some keys left out, one ID out of range and
\* the database disabled, and one that names no port.
MCFiles ==
  {[server |-> TRUE, enableDB |-> FALSE, urlDB |-> "http://db/",
    cooler |-> <<Node("/dev/ttyS0", 2, <<10, 266>>), Node("/dev/ttyS1", Missing, <<>>)>>,
    vacuum |-> <<>>],
   [server |-> Missing, enableDB |-> Missing, urlDB |-> "", cooler |-> <<Node("", 1, <<>>)>>,
    vacuum |-> <<Node(Missing, 1, <<7>>)>>]}
=============================================================================
