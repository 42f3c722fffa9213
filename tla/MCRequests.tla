------------------------------ MODULE MCRequests ------------------------------
(***************************************************************************)
(* Requests: every hand of four or five tiles over a few kinds, beside     *)
(* three melds, in both game modes; hands beside two melds; closed hands   *)
(* for the special types; and requests with something to object to.        *)
(***************************************************************************)
EXTENDS Requests

Doc(mode, tiles, melds) ==
  [game_mode |-> mode, dora_indicators |-> <<10>>, hand |-> tiles, melds |-> melds,
   nuki_count |-> 0, enable_reddora |-> TRUE, wall |-> << >>]
Pon(t) == [type |-> "Pon", tiles |-> <<t, t, t>>]
Chi(t) == [type |-> "Chi", tiles |-> <<t, t + 1, t + 2>>]
Kan(t) == [type |-> "Ankan", tiles |-> <<t, t, t, t>>]

\* Hands of n tiles of some kinds, written in order.
Hands(K, n) ==
  {FlattenSeq([i \in 1..34 |-> IF i - 1 \in K THEN Repeat(i - 1, h[i - 1]) ELSE << >>]) :
     h \in {f \in [K -> 0..4] : MapThenSumSet(LAMBDA k : f[k], K) = n}}

ThreeMelds ==
  {Doc(Yonma, h, <<Chi(18), Pon(29), Kan(33)>>) : h \in UNION {Hands({2, 3, 4, 6, 13, 27}, n) : n \in {4, 5}}}
  \cup {Doc(Sanma, h, <<Pon(28), Pon(29), Kan(33)>>) : h \in UNION {Hands({0, 8, 9, 11, 27}, n) : n \in {4, 5}}}
TwoMelds ==
  {Doc(Yonma, h, <<Pon(28), Pon(29)>>) : h \in UNION {Hands({11, 12, 14}, n) : n \in {7, 8}}}
  \cup {Doc(Sanma, h \o <<9, 10>>, <<Pon(28), Pon(29)>>) : h \in UNION {Hands({0, 8, 27}, n) : n \in {5, 6}}}

\* Seven pairs and orphans, one tile short, one too many, complete, with four of a kind.
Orphans == <<0, 8, 9, 17, 18, 26, 27, 28, 29, 30, 31, 32, 33>>
Pairs7 == <<0, 0, 8, 8, 9, 9, 13, 13, 27, 27, 30, 30, 31>>
Closed ==
  {Doc(mode, h, << >>) : mode \in {Yonma, Sanma}, h \in
     {Orphans, Append(Orphans, 0), Append(Orphans, 9), Append(Orphans, 13), Tail(Orphans) \o <<33, 33>>,
      Pairs7, Append(Pairs7, 31), Append(Pairs7, 32), Append(Pairs7, 30), <<0, 0, 0, 0, 8, 8, 9, 9, 13, 13, 27, 27, 30, 30>>,
      <<0, 0, 0, 0, 8, 8, 9, 9, 9, 27, 27, 27, 30>>, <<0, 0, 0, 0, 8, 8, 8, 8, 9, 9, 9, 27, 27, 27>>,
      <<0, 0, 0, 8, 8, 8, 9, 9, 9, 27, 27, 30, 30, 30>>}}

\* Red fives, indicators, norths, walls of the client's and tiles beyond what there is.
Odd ==
  LET d == Doc(Yonma, <<3, 4, 34, 6>>, <<Chi(18), Pon(29), Kan(33)>>)
      s == Doc(Sanma, <<0, 8, 30, 30>>, <<Pon(28), Pon(29), Kan(33)>>)
      wall(n, red) == [c \in Codes |-> IF c \in Reds THEN red ELSE IF c \in {5, 6, 8} THEN n ELSE 0]
  IN  {[d EXCEPT !.enable_reddora = red, !.dora_indicators = i] :
         red \in BOOLEAN, i \in {<< >>, <<34>>, <<35, 13>>, <<4, 4, 4>>, <<29, 29>>, <<33>>}}
      \cup {[d EXCEPT !.wall = wall(n, red)] : n \in 0..4, red \in {0, 1}}
      \cup {[d EXCEPT !.hand = h] : h \in {<<3, 4, 34>>, <<34, 34, 6, 6>>, <<4, 4, 4, 4, 4>>, <<3, 4, 34, 6, 6, 13, 13>>}}
      \cup {[d EXCEPT !.nuki_count = 1]} \cup {[s EXCEPT !.nuki_count = n] : n \in 0..4}
      \cup {[s EXCEPT !.melds = <<Pon(28), m>> \o <<Kan(33)>>] : m \in
              {Chi(9), Pon(4), [Pon(9) EXCEPT !.tiles = <<9, 9, 10>>], Kan(9), [Kan(13) EXCEPT !.tiles[4] = 35],
               [Pon(9) EXCEPT !.tiles = <<9, 9, 9, 9>>], [Kan(34) EXCEPT !.tiles = <<34, 34, 34, 34>>],
               [Chi(18) EXCEPT !.tiles = <<7, 8, 9>>]}}
      \cup {[d EXCEPT !.melds = <<m>> \o <<Pon(29), Kan(33)>>] : m \in
              {[Chi(21) EXCEPT !.tiles = <<23, 36, 21>>], [Chi(18) EXCEPT !.tiles = <<7, 8, 9>>], Kan(28),
               [Pon(22) EXCEPT !.tiles = <<22, 36, 22>>], [Pon(4) EXCEPT !.tiles = <<4, 34, 4>>]}}
      \cup {[s EXCEPT !.hand = <<1, 8, 30, 30>>], [s EXCEPT !.dora_indicators = <<4>>], [s EXCEPT !.wall = wall(1, 0)]}

\* The hand with the largest hash.
Largest == {Doc(Yonma, <<0, 0, 0, 0, 1, 1, 1, 1, 2, 2, 2, 2, 3, 3>>, << >>)}

MCDocuments == ThreeMelds \cup TwoMelds \cup Closed \cup Largest \cup Odd

\* What the calculators look up for these, and for open hands when a tile is drawn or,
\* if it is the turn for that, discarded.
LookupsOf(d) ==
  LET hand == to_hand(d.hand)
      m == 4 - Len(d.melds)
      change == IF m = 4 THEN 0 ELSE IF Total(hand) % 3 = 1 THEN 1 ELSE -1
      counts == {Counts(hand, 9 * s, 9) : s \in 0..2} \cup {Counts(hand, East, 7)}
      near == UNION {{[x EXCEPT ![k] = @ + change] : k \in DOMAIN x} : x \in counts}
  IN  {<<c, m>> : c \in {x \in counts \cup near : \A k \in DOMAIN x : x[k] \in 0..4}}
MCLookups == UNION {LookupsOf(d) : d \in ThreeMelds \cup TwoMelds \cup Closed \cup Largest \cup {x \in Odd : Accepted(x)}}

\* A wall of five tiles, supplied by the client.
MCShortWalls ==
  {[Doc(Yonma, <<3, 4, 5, 6>>, <<Chi(18), Pon(29), Kan(33)>>) EXCEPT
      !.wall = [c \in Codes |-> IF c \in {3, 6} THEN 2 ELSE IF c = 5 THEN 1 ELSE 0]]}
MCShortLookups == UNION {LookupsOf(d) : d \in MCShortWalls}
=============================================================================
