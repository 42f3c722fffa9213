------------------------------- MODULE Uradora -------------------------------
(***************************************************************************)
(* The score the expected score calculator gives a drawn win               *)
(* (calc_score in mahjong/core/expected_score_calculator.cpp): that of     *)
(* ScoreCalculator, and after riichi the average over the ura dora that    *)
(* may come up.  Probabilities are left as numbers of ways; a score is     *)
(* scaled by AllWays, the number of ways to choose the indicators.         *)
(***************************************************************************)
EXTENDS ScoreCalculator

combination(n, r) ==
  IF r < 0 \/ r > n THEN 0
  ELSE LET k == IF r < n - r THEN r ELSE n - r
           value[i \in 0..k] == IF i = 0 THEN 1 ELSE (value[i - 1] * (n - k + i)) \div i
       IN  value[k]

\* So many indicators chosen, so many ura dora, in so many ways; past 12 all is one.
Choice(selected, uradora, ways) == [selected |-> selected, uradora |-> uradora, ways |-> ways]
Capped(uradora) == IF uradora > 12 THEN 12 ELSE uradora

\* Mutant of TakeIndicators: an indicator counts the tiles of its own kind.
TakeOwnKind(wall, held, num_indicators, game_mode, dp, tile) ==
  LET count == wall[tile]
      taken == {x \in dp \X (0..4) : x[2] <= count /\ x[1].selected + x[2] <= num_indicators}
      To(x) == <<x[1].selected + x[2], Capped(x[1].uradora + held[tile] * x[2])>>
  IN  {Choice(to[1], to[2], MapThenSumSet(LAMBDA x : x[1].ways * combination(count, x[2]),
                                          {x \in taken : To(x) = to})) : to \in {To(x) : x \in taken}}

\* The choices so far, with none or some of the tiles that indicate one kind.
TakeIndicators(wall, held, num_indicators, game_mode, dp, tile) ==
  LET indicator == to_indicator(tile, game_mode)
      count == IF indicator = Null THEN 0 ELSE wall[indicator]
      taken == {x \in dp \X (0..4) : x[2] <= count /\ x[1].selected + x[2] <= num_indicators}
      To(x) == <<x[1].selected + x[2], Capped(x[1].uradora + held[tile] * x[2])>>
  IN  {Choice(to[1], to[2], MapThenSumSet(LAMBDA x : x[1].ways * combination(count, x[2]),
                                          {x \in taken : To(x) = to})) : to \in {To(x) : x \in taken}}

\* In how many ways so many ura dora come up, by their number.
calc_uradora_distribution(wall, held, num_indicators, game_mode) ==
  LET dp == FoldLeft(LAMBDA c, i : TakeIndicators(wall, held, num_indicators, game_mode, c, i - 1),
                     {Choice(0, 0, 1)}, [i \in 1..34 |-> i])
  IN  [u \in 0..12 |-> MapThenSumSet(LAMBDA c : c.ways, {c \in dp : c.selected = num_indicators /\ c.uradora = u})]

\* The denominator of the distribution.
AllWays(s, wall) == combination(MapThenSumSet(LAMBDA k : wall[k], Kinds), Len(s.table.dora_indicators))

\* The hand and the melds; extracted norths are neither.
hand_and_melds(player) ==
  to_hand(FlattenSeq([k \in 1..34 |-> Repeat(k - 1, player.hand[k - 1])])
          \o FlattenSeq([m \in DOMAIN player.melds |-> player.melds[m].tiles]))

calc_uradora_score(s, player, wall, result, win_flag) ==
  LET distribution == calc_uradora_distribution(wall, hand_and_melds(player), Len(s.table.dora_indicators),
                                                s.rules.game_mode)
      up_scores == get_up_scores(s, player, result, win_flag, 12)
  IN  MapThenSumSet(LAMBDA u : distribution[u] * (CHOOSE x \in up_scores[u + 1] : TRUE), 0..12)

\* calc_score: every win counts as drawn.  shanten_type is that of the hand before the
\* draw or after it, by the node that adds the edge.
expected_score(s, player, wall, shanten_type, win_tile, riichi, enable_uradora) ==
  LET win_flag == IF riichi THEN {"Tsumo", "Riichi"} ELSE {"Tsumo"}
      Scored(result) ==
        CASE ~result.success -> 0
          [] result.success /\ (~enable_uradora \/ ~riichi \/ s.table.dora_indicators = << >>
                                  \/ result.score_limit >= CountedYakuman) ->
               AllWays(s, wall) * result.payments[1]
          [] OTHER -> calc_uradora_score(s, player, wall, result, win_flag)
  IN  {Scored(r) : r \in calc_fast(s, player, win_tile, win_flag, shanten_type)}
=============================================================================
