-------------------------------- MODULE Wins --------------------------------
(***************************************************************************)
(* Wins put to ScoreCalculator::calc.  A hand is collected group by group  *)
(* - concealed sequences, triplets and pairs, and melds - from the groups  *)
(* of a family, with a red five where a group has one; then one of its     *)
(* concealed tiles is declared the winning tile, in a situation of the     *)
(* family.  The properties relate the answer to the rules of the game and  *)
(* to the answers for related hands.                                       *)
(***************************************************************************)
EXTENDS Uradora

CONSTANT Families      \* records: groups, a sequence of [form, tiles]; situations, a set

\* A group has at most one red five, the indicators are tiles of the game played, and
\* norths are extracted one by one.
ASSUME FamilyAssumption ==
  \A f \in Families :
    /\ f.situations # {}
    /\ \A i \in DOMAIN f.groups :
         /\ f.groups[i].tiles \in Seq(Codes)
         /\ \A j, k \in DOMAIN f.groups[i].tiles :
              is_red(f.groups[i].tiles[j]) /\ is_red(f.groups[i].tiles[k]) => j = k
    /\ \A s \in f.situations :
         /\ s.nuki_count \in Nat
         /\ \A list \in {s.table.dora_indicators, s.table.uradora_indicators} :
              /\ list \in Seq(Codes)
              /\ s.rules.game_mode = Sanma => \A i \in DOMAIN list : ~is_sanma_disabled(list[i])

VARIABLES family, chosen, situation, win_tile, result
vars == <<family, chosen, situation, win_tile, result>>

Concealed == {"Triplet", "Sequence", "Pair", "Orphans", "Single"}
ChosenGroups == [i \in DOMAIN chosen |-> family.groups[chosen[i]]]

TilesOf(groups) == FlattenSeq([i \in DOMAIN groups |-> groups[i].tiles])
ConcealedTiles(groups) ==
  FlattenSeq([i \in DOMAIN groups |-> IF groups[i].form \in Concealed THEN groups[i].tiles ELSE << >>])
Melds(groups) ==
  FlattenSeq([i \in DOMAIN groups |->
    IF groups[i].form \in Concealed THEN << >> ELSE <<[type |-> groups[i].form, tiles |-> groups[i].tiles]>>])

\* The player whose hand and melds are made of some groups.
Player(groups, s) ==
  [hand |-> to_hand(ConcealedTiles(groups)), melds |-> Melds(groups),
   seat_wind |-> s.seat_wind, nuki_count |-> s.nuki_count]

\* There are four tiles of a kind, and one red five of a suit.
Dealable(groups) ==
  LET counts == to_hand(TilesOf(groups))
  IN  (\A k \in Kinds : counts[k] <= 4) /\ (\A r \in Reds : counts[r] <= 1)

Pairs_(groups) == Cardinality({i \in DOMAIN groups : groups[i].form = "Pair"})
\* Four groups and a pair, seven pairs, or the orphans.
Complete(groups) ==
  \/ Len(groups) = 5 /\ Pairs_(groups) = 1
  \/ Len(groups) = 7
  \/ Len(groups) = 2 /\ groups[1].form = "Orphans" /\ groups[2].form = "Single"

Situated(f) == CHOOSE s \in f.situations : TRUE

Init ==
  /\ family \in Families
  /\ chosen = << >>
  /\ situation = Situated(family)
  /\ win_tile = Null
  /\ result = {}

Collect(i) ==
  /\ result = {} /\ ~Complete(ChosenGroups)
  /\ \A j \in DOMAIN chosen : IF family.groups[i].form \in {"Pair", "Orphans"} THEN chosen[j] < i ELSE chosen[j] <= i
  /\ LET groups == Append(ChosenGroups, family.groups[i])
     IN  /\ Pairs_(groups) <= 1 \/ Pairs_(groups) = Len(groups)
         /\ Len(groups) < 5 \/ Pairs_(groups) > 0
         /\ Dealable(groups)
  /\ chosen' = Append(chosen, i)
  /\ UNCHANGED <<family, situation, win_tile, result>>

\* The call: one answer, or several where the code reads outside its tables.
Win(s, t) ==
  /\ result = {} /\ Complete(ChosenGroups)
  /\ situation' = s
  /\ win_tile' = t
  /\ result' = calc(s, Player(ChosenGroups, s), t, s.win_flag)
  /\ UNCHANGED <<family, chosen>>

\* The next hand, after an answer or in place of a hand that cannot be completed.
NextHand ==
  /\ chosen # << >>
  /\ chosen' = << >> /\ situation' = Situated(family) /\ win_tile' = Null /\ result' = {}
  /\ UNCHANGED family

Next ==
  \/ \E i \in DOMAIN family.groups : Collect(i)
  \/ \E s \in family.situations : \E t \in ToSet(ConcealedTiles(ChosenGroups)) : Win(s, t)
  \/ NextHand

Spec == Init /\ [][Next]_vars

-----------------------------------------------------------------------------
ThePlayer == Player(ChosenGroups, situation)
Tsumo == "Tsumo" \in situation.win_flag
Sanma_ == situation.rules.game_mode = Sanma
Wins == {r \in result : r.success}

(* What the rules pay: fu doubled for every han and twice more, capped at  *)
(* mangan and by the limits from five han on, or 8000 for every yakuman;   *)
(* the dealer pays and receives double.                                    *)
LimitOf(han) == CASE han = 5 -> 2000 [] han \in 6..7 -> 3000 [] han \in 8..10 -> 4000
                  [] han \in 11..12 -> 6000 [] OTHER -> 8000
Basic(r) ==
  CASE r.yaku = {"NagashiMangan"} -> 2000
    [] r.yaku \cap YakumanMask # {} -> 8000 * MapThenSumSet(LAMBDA y : YakumanMultiplier[y], r.yaku)
    [] r.yaku \cap (YakumanMask \cup {"NagashiMangan"}) = {} ->
         IF r.han >= 5 THEN LimitOf(r.han)
         ELSE LET b == r.fu * (2 ^ (r.han + 2)) IN IF b > 2000 THEN 2000 ELSE b

Due(r) ==
  LET pays(n) == RoundUp(n * Basic(r), 100)
      honba == situation.round.honba
      others == IF Sanma_ THEN 2 ELSE 3
      deposits == 1000 * situation.table.kyotaku
      each == 100 * honba
  IN  CASE ~Tsumo /\ r.yaku # {"NagashiMangan"} ->
             LET p == pays(IF is_dealer(ThePlayer) THEN 6 ELSE 4) + others * each
             IN  <<p + deposits, p>>
        [] (Tsumo \/ r.yaku = {"NagashiMangan"}) /\ is_dealer(ThePlayer) ->
             <<others * (pays(2) + each) + deposits, pays(2) + each>>
        [] OTHER -> <<pays(2) + each + (others - 1) * (pays(1) + each) + deposits,
                      pays(2) + each, pays(1) + each>>

\* A win pays what the rules compute from its fu, han or yakuman: the
\* hand-written tables and their lookup (score_table.hpp, calc_score) agree
\* with the rules' formula, for every payer, counter and deposit.
PaidByTheRules == \A r \in Wins : r.payments = Due(r)

(* The groups as blocks. *)
AsBlock(g) == CASE g.form = "Pon" -> Block("Triplet", TRUE, to_normal(g.tiles[1]))
                [] g.form = "Chi" -> Block("Sequence", TRUE, to_normal(g.tiles[1]))
                [] g.form = "Ankan" -> Block("Kan", FALSE, to_normal(g.tiles[1]))
                [] g.form \in {"Daiminkan", "Kakan"} -> Block("Kan", TRUE, to_normal(g.tiles[1]))
                [] OTHER -> Block(g.form, FALSE, to_normal(g.tiles[1]))
AsBag(blocks) == [b \in ToSet(blocks) |-> Cardinality({i \in DOMAIN blocks : blocks[i] = b})]
BlockTiles(b) == CASE b.type = "Sequence" -> <<b.min_tile, b.min_tile + 1, b.min_tile + 2>>
                   [] b.type = "Pair" -> <<b.min_tile, b.min_tile>>
                   [] OTHER -> <<b.min_tile, b.min_tile, b.min_tile>>
Standard == Len(chosen) = 5 /\ Pairs_(ChosenGroups) = 1

\* separate splits a hand into all of its tiles and no others, and one of the
\* splits is the hand as it was collected with the winning tile completing any
\* of the concealed groups that hold it (opened when it was discarded).
SplitsTheHand ==
  result # {} /\ Standard =>
    LET patterns == separate(ThePlayer, win_tile, Tsumo)
        built == [i \in DOMAIN chosen |-> AsBlock(ChosenGroups[i])]
        w == to_normal(win_tile)
    IN  /\ \A p \in patterns :
             /\ to_hand(FlattenSeq([i \in DOMAIN p.blocks |-> BlockTiles(p.blocks[i])]))
                  = [c \in Codes |-> IF c \in Kinds THEN merge_hand(ThePlayer)[c] ELSE 0]
             /\ Cardinality({i \in DOMAIN p.blocks : p.blocks[i].type = "Pair"}) = 1
        /\ \A i \in DOMAIN chosen :
             ChosenGroups[i].form \in Concealed /\ w \in ToSet(BlockTiles(built[i])) =>
               \E p \in patterns : AsBag(p.blocks) = AsBag([built EXCEPT ![i].open = ~Tsumo])

(* Other readings of a winning hand. *)
PointsOf(answers) == {IF r.success THEN r.payments[1] ELSE 0 : r \in answers}
ReadAs(p, others) ==
  LET r == Reading(situation.round, ThePlayer, p, Tsumo)
  IN  aggregate(situation, ThePlayer, situation.win_flag, others \cup r.yaku, [r EXCEPT !.fu = RoundUp(@, 10)])
AsSevenPairs ==
  calc_fast(situation, ThePlayer, win_tile, situation.win_flag, {"SevenPairs"})

\* No other split of the hand, and not seven pairs either, would pay the winner
\* more: choosing by han and then fu before rounding (check_pattern_yaku) and
\* preferring four groups to seven pairs (check_not_pattern_yaku) is choosing by
\* points.
BestReadingIsPaid ==
  \A r \in Wins : r.yaku \cap (YakumanMask \cup {"NagashiMangan"}) = {} =>
    LET others == check_not_pattern_yaku(situation.rules, situation.round, ThePlayer, win_tile,
                                         situation.win_flag, WinningForms(ThePlayer))
    IN  /\ "StandardHand" \in WinningForms(ThePlayer) =>
             \A p \in separate(ThePlayer, win_tile, Tsumo) :
               (others \cup PatternYaku(situation.round, ThePlayer, p) # {}) =>
                 \A x \in PointsOf(ReadAs(p, others)) : x <= r.payments[1]
        /\ "SevenPairs" \in WinningForms(ThePlayer) => \A x \in PointsOf(AsSevenPairs) : x <= r.payments[1]

(* The same hand in other suits, or counted from nine to one. *)
Rotated(t) == CASE t \in Honors -> t
                [] t \in Reds -> IF t = 36 THEN 34 ELSE t + 1
                [] OTHER -> (t + 9) % 27
Mirrored(t) == IF t \in Honors \cup Reds THEN t ELSE 9 * (t \div 9) + 8 - (t % 9)
MapGroup(F(_), g) ==
  [form |-> g.form,
   tiles |-> LET u == [i \in DOMAIN g.tiles |-> F(g.tiles[i])]
             IN  IF g.form = "Chi" THEN SortSeq(u, LAMBDA x, y : to_normal(x) < to_normal(y)) ELSE u]
MapIndicators(F(_), list) ==
  [i \in DOMAIN list |-> to_indicator(F(to_dora(list[i], Yonma)), Yonma)]
AnswerFor(F(_)) ==
  LET s == [situation EXCEPT !.table.dora_indicators = MapIndicators(F, @),
                             !.table.uradora_indicators = MapIndicators(F, @)]
  IN  calc(s, Player([i \in DOMAIN chosen |-> MapGroup(F, ChosenGroups[i])], s), F(win_tile), s.win_flag)

Alike(answers, others) ==
  (\A r \in answers \cup others : r.success => "AllGreen" \notin r.yaku) =>
    {IF r.success THEN <<r.yaku, r.han, r.fu, r.payments>> ELSE << >> : r \in answers}
      = {IF r.success THEN <<r.yaku, r.han, r.fu, r.payments>> ELSE << >> : r \in others}

\* Suits and the direction of counting do not matter: a hand moved to the next
\* suit, or mirrored, with its dora, is worth the same yaku, fu and points, all
\* green apart.  (The tile tables and the octal masks are written out suit by suit.)
SuitsAreAlike ==
  result # {} /\ ~Sanma_ => Alike(result, AnswerFor(Rotated)) /\ Alike(result, AnswerFor(Mirrored))

(* Dora counted from the rules: the tile that follows the indicator. *)
Following(i) ==
  CASE Sanma_ /\ i \in {0, 8} -> 8 - i
    [] i \in 27..30 -> 27 + ((i - 26) % 4)
    [] i \in 31..33 -> 31 + ((i - 30) % 3)
    [] OTHER -> LET k == to_normal(i) IN 9 * (k \div 9) + (((k % 9) + 1) % 9)
\* The dragons follow one another as white, green, red; the codes are in that order.
DoraTiles ==
  LET tiles == TilesOf(ChosenGroups) \o [i \in 1..nuki_count(situation, ThePlayer) |-> North]
      shown == situation.table.dora_indicators \o situation.table.uradora_indicators
  IN  Cardinality({p \in (DOMAIN shown) \X (DOMAIN tiles) : Following(shown[p[1]]) = to_normal(tiles[p[2]])})
      + (IF situation.rules.red_dora THEN Cardinality({j \in DOMAIN tiles : is_red(tiles[j])}) ELSE 0)
      + nuki_count(situation, ThePlayer)

\* Every dora is counted once and only once: a win's han are those of its yaku
\* and one for each tile an indicator points at, each red five and each
\* extracted North, melds, kans and double indicators included.
EveryDoraCounts ==
  \A r \in Wins : r.yaku \cap (YakumanMask \cup {"NagashiMangan"}) = {} =>
    r.han = HanOf(r.yaku, is_closed(ThePlayer)) + DoraTiles

(* Calling a tile that could have been kept. *)
Opened(g) == CASE g.form = "Triplet" -> [g EXCEPT !.form = "Pon"]
               [] g.form = "Sequence" -> [g EXCEPT !.form = "Chi"]
               [] OTHER -> g
OpenedAnswer(i) ==
  LET groups == [ChosenGroups EXCEPT ![i] = Opened(@)]
      s == [situation EXCEPT !.win_flag = @ \ {"Riichi", "DoubleRiichi", "Ippatsu"}]
  IN  calc(s, Player(groups, s), win_tile, s.win_flag)

\* A hand is never worth more for having called one of its groups: the open
\* values of the yaku, the fu of open blocks and the closed-only yaku agree.
CallingNeverPays ==
  result # {} /\ Standard /\ check_arguments(ThePlayer, win_tile, situation.win_flag) =>
    \A i \in DOMAIN chosen :
      Opened(ChosenGroups[i]) # ChosenGroups[i]
      /\ to_normal(win_tile) \in {to_normal(t) : t \in
           ToSet(ConcealedTiles([ChosenGroups EXCEPT ![i] = Opened(@)]))} =>
        \A x \in PointsOf(OpenedAnswer(i)), y \in PointsOf(result) : x <= y

(* Wins as the expected score calculator puts them: drawn after riichi,    *)
(* before the ura dora indicators are turned over.                         *)
Expectable == /\ \E r \in Wins : TRUE
              /\ situation.win_flag = {"Tsumo", "Riichi"}
              /\ situation.table.dora_indicators # << >> /\ situation.table.uradora_indicators = << >>
Unseen ==
  LET shown == TilesOf(ChosenGroups) \o situation.table.dora_indicators
               \o [i \in 1..nuki_count(situation, ThePlayer) |-> North]
  IN  [k \in Kinds |-> IF Sanma_ /\ is_sanma_disabled(k) THEN 0
                       ELSE 4 - Cardinality({i \in DOMAIN shown : to_normal(shown[i]) = k})]

\* Indicators in the order of their kinds, and the ways to take these from the wall.
Indicators(n) == {q \in [1..n -> {k \in Kinds : Unseen[k] > 0}] : \A i \in 1..n - 1 : q[i] <= q[i + 1]}
Ways(q) ==
  LET of(k) == Cardinality(kSubset(Cardinality({i \in DOMAIN q : q[i] = k}), 1..Unseen[k]))
  IN  FoldSet(LAMBDA k, n : n * of(k), 1, ToSet(q))

\* The forms a hand waited for, before its winning tile was drawn.
AwaitedForms ==
  UNION {WinningForms([ThePlayer EXCEPT !.hand = AddTile(k, [c \in Codes |->
           @[c] - (IF c \in {win_tile, to_normal(win_tile)} THEN 1 ELSE 0)])]) : k \in Kinds}

\* The expected score of a win after riichi is the average of what the win pays over
\* all the ura dora indicators that may lie under the dora indicators: choosing kind by
\* kind, counting up to twelve and adding han to the score without them
\* (calc_uradora_score) comes to the same as scoring the hand with each of them, and so
\* does scoring it in the forms it waited for (draw_node) instead of those it has
\* (discard_node).
UradoraIsAverage ==
  Expectable /\ (\A k \in Kinds : Unseen[k] >= 0) =>
    \A player \in {ThePlayer}, unseen \in {Unseen}, forms \in {WinningForms(ThePlayer), AwaitedForms} :
      LET Turned(q) == [situation EXCEPT !.table.uradora_indicators = q]
          Paid(q) == CHOOSE x \in PointsOf(calc(Turned(q), player, win_tile, situation.win_flag)) : TRUE
      IN  expected_score(situation, player, unseen, forms, win_tile, TRUE, TRUE)
            = {MapThenSumSet(LAMBDA q : Ways(q) * Paid(q), Indicators(Len(situation.table.dora_indicators)))}
=============================================================================
