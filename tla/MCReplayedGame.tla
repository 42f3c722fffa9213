--------------------------- MODULE MCReplayedGame ---------------------------
(***************************************************************************)
(* Small deals for ReplayedGame.  A hand has two to four tiles instead of  *)
(* 13 and the wall has as many as the deal names; build_replay never looks *)
(* at the size of either.                                                  *)
(***************************************************************************)
EXTENDS ReplayedGame

Hands(h0, h1, h2, h3) == [p \in 0..3 |-> <<h0, h1, h2, h3>>[p + 1]]

\* Four players, manzu 4, 5 and 6 (12..23, of which 16 is red) and white dragons:
\* chi of 456 with and without the red five, pon and every kan of the fives.
FourDeals ==
  { [dora |-> 120, wall |-> <<17, 18, 20>>,
     hands |-> Hands(<<124, 16, 12>>, <<19, 21, 13>>, <<125, 14>>, <<126>>)],
    [dora |-> 124, wall |-> <<19, 20, 21, 22>>,
     hands |-> Hands(<<16, 17>>, <<18, 12>>, <<23>>, <<13>>)],
    [dora |-> 124, wall |-> <<19, 20, 21, 22>>,
     hands |-> Hands(<<16, 17, 18>>, <<23>>, <<12>>, <<13, 14>>)],
    [dora |-> 124, wall |-> <<20, 12, 13, 14, 19, 15>>,
     hands |-> Hands(<<16>>, <<17, 18, 21>>, <<22>>, <<23>>)] }

\* Three players, pinzu 5 and 6 (52..59, of which 52 is red) and norths: pon, added
\* kan and nuki.
ThreeDeals ==
  { [dora |-> 124, wall |-> <<56, 122, 55, 57, 58>>,
     hands |-> Hands(<<54, 121>>, <<52, 53, 120>>, <<59>>, <<>>)],
    [dora |-> 124, wall |-> <<120, 56, 123, 57>>,
     hands |-> Hands(<<52, 53, 54>>, <<59, 121>>, <<122, 55>>, <<>>)] }

\* Rounds so short that several fit: what is carried from one to the next.
ShortDeals ==
  { [dora |-> 124, wall |-> <<20, 21>>, hands |-> Hands(<<16>>, <<19>>, <<23>>, <<13>>)] }

Calls == [players |-> 4, deals |-> FourDeals, rounds |-> 1, reconnects |-> 0]
Nukis == [players |-> 3, deals |-> ThreeDeals, rounds |-> 1, reconnects |-> 0]
Rounds == [players |-> 4, deals |-> ShortDeals, rounds |-> 2, reconnects |-> 1]

AllSetups == {Calls, Nukis, Rounds}
AllIds == (12..23) \cup (52..59) \cup (120..127)
Shown == {127}
=============================================================================
