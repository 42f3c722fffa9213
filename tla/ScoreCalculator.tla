--------------------------- MODULE ScoreCalculator ---------------------------
(***************************************************************************)
(* mahjong/core/score_calculator.cpp: yaku, fu, dora and points of a win.  *)
(* Names are the code's; sets of flags are sets of names, and checks that  *)
(* return one of several yaku or none return a set.  Results are sets too: *)
(* more than one element means that the code reads outside its tables.     *)
(***************************************************************************)
EXTENDS HandSeparator, ScoreTable

is_closed(player) == \A i \in DOMAIN player.melds : player.melds[i].type = "Ankan"

-----------------------------------------------------------------------------
(* The default values of yaku. *)

ClosedHan ==
  [y \in {"DoubleRiichi", "SevenPairs", "AllTriplets", "ThreeConcealedTriplets",
          "MixedTripleTriplets", "MixedTripleSequence", "AllTerminalsAndHonors", "PureStraight",
          "HalfOutsideHand", "LittleThreeDragons", "ThreeKans"} |-> 2]
  @@ [y \in {"HalfFlush", "FullyOutsideHand", "TwicePureDoubleSequence"} |-> 3]
  @@ [y \in {"FullFlush"} |-> 6] @@ [y \in {"NagashiMangan"} |-> 0]
  @@ [y \in {"Tsumo", "Riichi", "Ippatsu", "Tanyao", "Pinfu", "PureDoubleSequence",
             "RobbingAKan", "AfterAKan", "UnderTheSea", "UnderTheRiver",
             "WhiteDragon", "GreenDragon", "RedDragon",
             "SelfWindEast", "SelfWindSouth", "SelfWindWest", "SelfWindNorth",
             "RoundWindEast", "RoundWindSouth", "RoundWindWest", "RoundWindNorth"} |-> 1]

\* An open hand gets one han less for some yaku and none for some that need a closed one.
OpenHan ==
  [y \in DOMAIN ClosedHan |->
     CASE y \in {"MixedTripleSequence", "PureStraight", "HalfOutsideHand",
                 "HalfFlush", "FullyOutsideHand", "FullFlush"} -> ClosedHan[y] - 1
       [] y \in {"DoubleRiichi", "SevenPairs", "TwicePureDoubleSequence"} -> 0
       [] OTHER -> ClosedHan[y]]

YakumanMultiplier ==
  [y \in {"HeavenlyHand", "EarthlyHand", "HandOfMan", "AllGreen", "BigThreeDragons",
          "LittleFourWinds", "AllHonors", "ThirteenOrphans", "NineGates",
          "FourConcealedTriplets", "AllTerminals", "FourKans"} |-> 1]
  @@ [y \in {"SingleWaitFourConcealedTriplets", "BigFourWinds", "TrueNineGates",
             "ThirteenWaitThirteenOrphans"} |-> 2]

YakumanMask == DOMAIN YakumanMultiplier

\* Mutant of get_yaku_han: the two values of a yaku are swapped.
HanSwapped(yaku, closed) == IF closed THEN OpenHan[yaku] ELSE ClosedHan[yaku]

get_yaku_han(yaku, closed) == IF closed THEN ClosedHan[yaku] ELSE OpenHan[yaku]
HanOf(yaku_list, closed) == MapThenSumSet(LAMBDA y : get_yaku_han(y, closed), yaku_list)

-----------------------------------------------------------------------------
(* What may be asked. *)

check_exclusive(flags) == Cardinality(flags) <= 1

check_arguments(player, win_tile, win_flag) ==
  /\ player.hand[to_normal(win_tile)] > 0
  /\ check_exclusive(win_flag \cap {"Riichi", "DoubleRiichi"})
  /\ check_exclusive(win_flag \cap {"RobbingAKan", "AfterAKan", "UnderTheSea", "UnderTheRiver"})
  /\ check_exclusive(win_flag \cap {"HeavenlyHand", "EarthlyHand", "HandOfMan"})
  /\ win_flag \cap {"Riichi", "DoubleRiichi"} # {} => is_closed(player)
  /\ "Ippatsu" \in win_flag => win_flag \cap {"Riichi", "DoubleRiichi"} # {}
  /\ win_flag \cap {"UnderTheSea", "AfterAKan"} # {} => "Tsumo" \in win_flag

-----------------------------------------------------------------------------
(* Yaku of the tiles as a whole.  h is the merged hand: melds added, a kan *)
(* as three tiles.                                                         *)

merge_hand(player) ==
  LET added(m, h) ==
        LET t == to_normal(Head(m.tiles))
        IN  IF m.type = "Chi" THEN [h EXCEPT ![t] = @ + 1, ![t + 1] = @ + 1, ![t + 2] = @ + 1]
            ELSE [h EXCEPT ![t] = @ + 3]
  IN  FoldSeq(added, player.hand, player.melds)

Present(h) == {k \in Kinds : h[k] > 0}
SuitsOf(h) == {d \in 0..2 : Present(h) \cap Suit(d) # {}}
HasHonors(h) == Present(h) \cap Honors # {}
Orphans == {k \in Kinds : is_terminal_or_honor(k)}

check_all_green(h) == IF Present(h) \subseteq {19, 20, 21, 23, 25, GreenDragon} THEN {"AllGreen"} ELSE {}

check_three_dragons(h) ==
  LET sum == h[WhiteDragon] + h[GreenDragon] + h[RedDragon]
  IN  CASE sum = 8 -> {"LittleThreeDragons"} [] sum = 9 -> {"BigThreeDragons"} [] OTHER -> {}

check_four_winds(h) ==
  LET sum == h[27] + h[28] + h[29] + h[30]
  IN  CASE sum = 11 -> {"LittleFourWinds"} [] sum = 12 -> {"BigFourWinds"} [] OTHER -> {}

check_all_honors(h) == IF SuitsOf(h) = {} THEN {"AllHonors"} ELSE {}

check_four_concealed_triplets(player, h, win_tile, win_flag) ==
  LET single_wait == h[win_tile] = 2
  IN  IF /\ is_closed(player)
         /\ Cardinality({k \in Kinds : h[k] = 3}) = 4
         /\ Cardinality({k \in Kinds : h[k] = 2}) = 1
         /\ "Tsumo" \in win_flag \/ single_wait
      THEN {IF single_wait THEN "SingleWaitFourConcealedTriplets" ELSE "FourConcealedTriplets"}
      ELSE {}

check_all_terminals(h) ==
  IF ~(Present(h) \subseteq Orphans) THEN {}
  ELSE IF HasHonors(h) THEN {"AllTerminalsAndHonors"} ELSE {"AllTerminals"}

check_kongs(player) ==
  LET num_kongs == Cardinality({i \in DOMAIN player.melds : player.melds[i].type \notin {"Pon", "Chi"}})
  IN  CASE num_kongs = 4 -> {"FourKans"} [] num_kongs = 3 -> {"ThreeKans"} [] OTHER -> {}

\* Three of each terminal and one of each number between.
Gates(k) == IF k % 9 \in {0, 8} THEN 3 ELSE 1

check_nine_gates(player, h, win_tile) ==
  LET d == win_tile \div 9
      is_valid == /\ player.melds = << >> /\ d \in 0..2
                  /\ \A k \in Suit(d) : h[k] >= Gates(k)
      is_true == \A k \in Suit(d) : h[k] - (IF k = win_tile THEN 1 ELSE 0) = Gates(k)
  IN  IF ~is_valid THEN {} ELSE {IF is_true THEN "TrueNineGates" ELSE "NineGates"}

check_thirteen_wait_thirteen_orphans(h, win_tile) ==
  \A k \in Kinds : h[k] - (IF k = win_tile THEN 1 ELSE 0) = (IF k \in Orphans THEN 1 ELSE 0)

check_tanyao(player, h, rule_open_tanyao) ==
  IF (rule_open_tanyao \/ is_closed(player)) /\ Present(h) \cap Orphans = {} THEN {"Tanyao"} ELSE {}

check_flush(h) ==
  IF Cardinality(SuitsOf(h)) # 1 THEN {}
  ELSE IF HasHonors(h) THEN {"HalfFlush"} ELSE {"FullFlush"}

WindName == 27 :> "East" @@ 28 :> "South" @@ 29 :> "West" @@ 30 :> "North"

check_value_tile(round, player, h) ==
  {y \in {"WhiteDragon", "GreenDragon", "RedDragon"} :
     h[CASE y = "WhiteDragon" -> WhiteDragon [] y = "GreenDragon" -> GreenDragon [] OTHER -> RedDragon] = 3}
  \cup (IF h[round.round_wind] = 3 THEN {"RoundWind" \o WindName[round.round_wind]} ELSE {})
  \cup (IF h[player.seat_wind] = 3 THEN {"SelfWind" \o WindName[player.seat_wind]} ELSE {})

\* The flags of a win become yaku of the same name.
FlagYaku(player, win_flag) ==
  (win_flag \ {"Tsumo"}) \cup (IF "Tsumo" \in win_flag /\ is_closed(player) THEN {"Tsumo"} ELSE {})

\* shanten_type: the set of forms in which the hand is complete.
check_not_pattern_yaku(rules, round, player, win_tile, win_flag, shanten_type) ==
  LET h == merge_hand(player)
      w == to_normal(win_tile)
  IN  FlagYaku(player, win_flag) \cup
      (CASE "StandardHand" \in shanten_type ->
              check_all_green(h) \cup check_three_dragons(h) \cup check_four_winds(h)
              \cup check_all_honors(h) \cup check_four_concealed_triplets(player, h, w, win_flag)
              \cup check_all_terminals(h) \cup check_kongs(player) \cup check_nine_gates(player, h, w)
              \cup check_tanyao(player, h, rules.open_tanyao) \cup check_flush(h)
              \cup check_value_tile(round, player, h)
         [] "StandardHand" \notin shanten_type /\ "SevenPairs" \in shanten_type ->
              {"SevenPairs"} \cup check_all_honors(h) \cup check_all_terminals(h)
              \cup check_tanyao(player, h, rules.open_tanyao) \cup check_flush(h)
         [] OTHER -> {IF check_thirteen_wait_thirteen_orphans(h, w)
                      THEN "ThirteenWaitThirteenOrphans" ELSE "ThirteenOrphans"})

-----------------------------------------------------------------------------
(* Yaku of the blocks. *)

\* How many blocks of some types start at a tile.
Count(blocks, types, k) ==
  Cardinality({i \in DOMAIN blocks : blocks[i].type \in types /\ blocks[i].min_tile = k})
Starts(blocks, types) == {blocks[i].min_tile : i \in {j \in DOMAIN blocks : blocks[j].type \in types}}

check_pinfu(blocks, wait_type, round_wind, wind) ==
  /\ wait_type = "TwoSidedWait"
  /\ Starts(blocks, {"Triplet", "Kan"}) = {}
  /\ Starts(blocks, {"Pair"}) \cap ({round_wind, wind} \cup WhiteDragon..RedDragon) = {}

check_pure_double_sequence(blocks) ==
  LET doubles(k) == Count(blocks, {"Sequence"}, k) \div 2
      num_double_sequences == MapThenSumSet(doubles, Starts(blocks, {"Sequence"}))
  IN  CASE num_double_sequences = 1 -> {"PureDoubleSequence"}
        [] num_double_sequences = 2 -> {"TwicePureDoubleSequence"}
        [] OTHER -> {}

check_all_triplets(blocks) == IF Starts(blocks, {"Sequence"}) = {} THEN {"AllTriplets"} ELSE {}

check_three_concealed_triplets(blocks) ==
  IF Cardinality({i \in DOMAIN blocks : blocks[i].type \in {"Triplet", "Kan"} /\ ~blocks[i].open}) = 3
  THEN {"ThreeConcealedTriplets"} ELSE {}

\* Blocks of one number in all three suits.
InThreeSuits(starts) == \E k \in 0..8 : {k, k + 9, k + 18} \subseteq starts
check_triple_triplets(blocks) == InThreeSuits(Starts(blocks, {"Triplet", "Kan"}))
check_mixed_triple_sequence(blocks) == InThreeSuits(Starts(blocks, {"Sequence"}))
\* Mutant of check_pure_straight: the third suit is forgotten.
StraightInTwoSuits(blocks) ==
  \E d \in 0..1 : {9*d, 9*d + 3, 9*d + 6} \subseteq Starts(blocks, {"Sequence"})

check_pure_straight(blocks) ==
  \E d \in 0..2 : {9*d, 9*d + 3, 9*d + 6} \subseteq Starts(blocks, {"Sequence"})

check_outside_hand(blocks) ==
  LET sequences == Starts(blocks, {"Sequence"})
      others == Starts(blocks, {"Triplet", "Kan", "Pair"})
  IN  IF \/ ~(sequences \subseteq {0, 6, 9, 15, 18, 24}) \/ ~(others \subseteq Orphans)
         \/ sequences = {}
      THEN {}
      ELSE IF others \cap Honors # {} THEN {"HalfOutsideHand"} ELSE {"FullyOutsideHand"}

BlockFu(b, round_wind, wind) ==
  LET value == CASE b.type = "Triplet" -> IF b.open THEN 2 ELSE 4
                 [] b.type = "Kan" -> IF b.open THEN 8 ELSE 16
                 [] OTHER -> 0
  IN  CASE b.type = "Pair" -> (IF b.min_tile = wind THEN 2 ELSE 0) + (IF b.min_tile = round_wind THEN 2 ELSE 0)
                              + (IF b.min_tile >= WhiteDragon THEN 2 ELSE 0)
        [] b.type # "Pair" /\ is_terminal_or_honor(b.min_tile) -> 2 * value
        [] OTHER -> value

calc_fu(blocks, wait_type, closed, tsumo, is_pinfu, round_wind, wind) ==
  CASE is_pinfu /\ tsumo /\ closed -> 20
    [] is_pinfu /\ ~tsumo /\ ~closed -> 30
    [] OTHER -> 20 + (CASE tsumo -> 2 [] closed /\ ~tsumo -> 10 [] OTHER -> 0)
                + (IF wait_type \in {"MiddleWait", "EdgeWait", "SingleTileWait"} THEN 2 ELSE 0)
                + MapThenSumSet(LAMBDA i : BlockFu(blocks[i], round_wind, wind), DOMAIN blocks)

PatternYaku(round, player, pattern) ==
  LET blocks == pattern.blocks
      closed == is_closed(player)
  IN  (IF closed /\ check_pinfu(blocks, pattern.wait_type, round.round_wind, player.seat_wind)
       THEN {"Pinfu"} ELSE {})
      \cup (IF closed THEN check_pure_double_sequence(blocks) ELSE {})
      \cup (CASE check_pure_straight(blocks) -> {"PureStraight"}
              [] ~check_pure_straight(blocks) /\ check_triple_triplets(blocks) -> {"MixedTripleTriplets"}
              [] ~check_pure_straight(blocks) /\ ~check_triple_triplets(blocks)
                 /\ check_mixed_triple_sequence(blocks) -> {"MixedTripleSequence"}
              [] OTHER -> {})
      \cup check_outside_hand(blocks) \cup check_all_triplets(blocks)
      \cup check_three_concealed_triplets(blocks)

PatternFu(round, player, pattern, tsumo) ==
  calc_fu(pattern.blocks, pattern.wait_type, is_closed(player), tsumo,
          check_pinfu(pattern.blocks, pattern.wait_type, round.round_wind, player.seat_wind),
          round.round_wind, player.seat_wind)

RoundUp(n, unit) == ((n + unit - 1) \div unit) * unit

\* What check_pattern_yaku makes of one pattern.
Reading(round, player, pattern, tsumo) ==
  LET yaku == PatternYaku(round, player, pattern)
  IN  [yaku |-> yaku, han |-> HanOf(yaku, is_closed(player)),
       fu |-> PatternFu(round, player, pattern, tsumo),
       blocks |-> pattern.blocks, wait_type |-> pattern.wait_type]

\* Mutant of BetterReading: fu before han.
FuFirst(r, best) == r.fu > best.fu \/ (r.fu = best.fu /\ r.han > best.han)

\* The reading with the most han and, among those, the most fu before rounding.
BetterReading(r, best) == r.han > best.han \/ (r.han = best.han /\ r.fu > best.fu)

check_pattern_yaku(round, player, win_tile, win_flag, shanten_type) ==
  IF shanten_type = {"SevenPairs"}
  THEN [yaku |-> {}, han |-> 0, fu |-> 25, blocks |-> << >>, wait_type |-> "SingleTileWait"]
  ELSE LET tsumo == "Tsumo" \in win_flag
           readings == {Reading(round, player, p, tsumo) : p \in separate(player, win_tile, tsumo)}
           best == CHOOSE r \in readings : \A s \in readings : ~BetterReading(s, r)
       IN  [best EXCEPT !.fu = RoundUp(@, 10)]

-----------------------------------------------------------------------------
(* Dora. *)

\* Mutant of count_dora: the tiles of melds are not counted.
DoraInHand(player, indicators, game_mode, nuki_count) ==
  MapThenSumSet(LAMBDA i : LET dora == to_dora(indicators[i], game_mode)
                           IN  player.hand[dora] + (IF dora = North THEN nuki_count ELSE 0),
                DOMAIN indicators)

count_dora(player, indicators, game_mode, nuki_count) ==
  LET dora(i) == to_dora(indicators[i], game_mode)
      in_melds(k) == MapThenSumSet(LAMBDA m : Cardinality({t \in DOMAIN player.melds[m].tiles :
                                                to_normal(player.melds[m].tiles[t]) = k}),
                                   DOMAIN player.melds)
  IN  MapThenSumSet(LAMBDA i : player.hand[dora(i)] + in_melds(dora(i))
                               + (IF dora(i) = North THEN nuki_count ELSE 0),
                    DOMAIN indicators)

count_reddora(rule_reddora, player) ==
  IF ~rule_reddora THEN 0
  ELSE MapThenSumSet(LAMBDA r : player.hand[r], Reds)
       + Cardinality({m \in DOMAIN player.melds : \E t \in DOMAIN player.melds[m].tiles :
                        is_red(player.melds[m].tiles[t])})

-----------------------------------------------------------------------------
(* Points. *)

\* get_score_title for fu and han.
title_of_han(fu, han) ==
  CASE han < 5  -> {IF m THEN Mangan ELSE NoLimit : m \in IsMangan(fu_to_index(fu), han)}
    [] han = 5  -> {Mangan}
    [] han \in 6..7   -> {Mangan + 1}
    [] han \in 8..10  -> {Mangan + 2}
    [] han \in 11..12 -> {Mangan + 3}
    [] OTHER -> {CountedYakuman}

\* get_score_title for a yakuman multiplier.
title_of_yakuman(n) == IF n \in 1..6 THEN Yakuman + n - 1 ELSE NoLimit

\* An entry of the tables.
Points(table, score_title, han, fu) ==
  IF score_title # NoLimit THEN {AboveMangan[table][score_title + 1]}
  ELSE IF fu_to_index(fu) = -1 \/ han \notin 1..4 THEN Garbage
  ELSE {BelowMangan[table][fu_to_index(fu) + 1][han]}

\* Winner's points, then the payments: by all, or by dealer and others, or by the discarder.
calc_score(is_dealer, tsumo, honba, kyotaku, game_mode, score_title, han, fu) ==
  LET payers == IF game_mode = Sanma THEN 2 ELSE 3
      P(table) == Points(table, score_title, han, fu)
      honba_payment == 100 * payers * honba
  IN  CASE tsumo /\ is_dealer ->
             {LET p == e + 100 * honba IN <<1000 * kyotaku + payers * p, p>> : e \in P("TsumoPlayerToDealer")}
        [] tsumo /\ ~is_dealer ->
             {LET d == e[1] + 100 * honba
                  p == e[2] + 100 * honba
              IN  <<1000 * kyotaku + d + p * (payers - 1), d, p>> :
                e \in P("TsumoDealerToPlayer") \X P("TsumoPlayerToPlayer")}
        [] ~tsumo ->
             {LET p == e + honba_payment IN <<1000 * kyotaku + p, p>> :
                e \in P(IF is_dealer THEN "RonDiscarderToDealer" ELSE "RonDiscarderToPlayer")}

-----------------------------------------------------------------------------
(* The whole calculation.  situation: rules (open_tanyao, red_dora,        *)
(* game_mode), round (round_wind, honba), table (kyotaku, dora and uradora *)
(* indicators).                                                            *)

NoWin(err_msg) == [success |-> FALSE, err_msg |-> err_msg]
is_dealer(player) == player.seat_wind = East

aggregate_limit(s, player, win_flag, yaku_list) ==
  LET nagashi == "NagashiMangan" \in yaku_list
      title == IF nagashi THEN Mangan
               ELSE title_of_yakuman(MapThenSumSet(LAMBDA y : YakumanMultiplier[y], yaku_list))
  IN  {[success |-> TRUE, yaku |-> yaku_list, han |-> 0, fu |-> 0, score_limit |-> title, payments |-> p,
        blocks |-> << >>, wait_type |-> "None"] :
         p \in calc_score(is_dealer(player), nagashi \/ "Tsumo" \in win_flag, s.round.honba,
                          s.table.kyotaku, s.rules.game_mode, title, 0, 0)}

nuki_count(s, player) == IF s.rules.game_mode = Sanma THEN player.nuki_count ELSE 0

\* Dora of every kind.
Bonus(s, player) ==
  count_dora(player, s.table.dora_indicators, s.rules.game_mode, nuki_count(s, player))
  + count_dora(player, s.table.uradora_indicators, s.rules.game_mode, nuki_count(s, player))
  + count_reddora(s.rules.red_dora, player) + nuki_count(s, player)

aggregate(s, player, win_flag, yaku_list, reading) ==
  LET han == HanOf(yaku_list, is_closed(player)) + Bonus(s, player)
  IN  UNION {{[success |-> TRUE, yaku |-> yaku_list, han |-> han, fu |-> reading.fu,
               score_limit |-> title, payments |-> p,
               blocks |-> reading.blocks, wait_type |-> reading.wait_type] :
                p \in calc_score(is_dealer(player), "Tsumo" \in win_flag, s.round.honba, s.table.kyotaku,
                                 s.rules.game_mode, title, han, reading.fu)} :
              title \in title_of_han(reading.fu, han)}

calc_fast(s, player, win_tile, win_flag, shanten_type) ==
  LET yaku == check_not_pattern_yaku(s.rules, s.round, player, win_tile, win_flag, shanten_type)
      reading == check_pattern_yaku(s.round, player, win_tile, win_flag, shanten_type)
  IN  IF "NagashiMangan" \in yaku THEN aggregate_limit(s, player, win_flag, {"NagashiMangan"})
      ELSE IF yaku \cap YakumanMask # {} THEN aggregate_limit(s, player, win_flag, yaku \cap YakumanMask)
      ELSE IF yaku \cup reading.yaku = {} THEN {NoWin("No yaku is established.")}
      ELSE aggregate(s, player, win_flag, yaku \cup reading.yaku, reading)

\* The forms in which a hand is complete: shanten number -1.
WinningForms(player) ==
  LET hand == player.hand
      melds == Len(player.melds)
      splits(d) == SuitPatterns(hand, d)
  IN  (IF /\ Total(hand) = 14 - 3 * melds
          /\ \E m \in splits(0), p \in splits(1), s \in splits(2), h \in HonorPatterns(hand) :
               Cardinality({i \in DOMAIN (m \o p \o s \o h) : (m \o p \o s \o h)[i].type = "Pair"}) = 1
       THEN {"StandardHand"} ELSE {})
      \cup (IF Cardinality({k \in Kinds : hand[k] = 2}) = 7 THEN {"SevenPairs"} ELSE {})
      \cup (IF /\ Total(hand) = 14 /\ \A k \in Kinds : hand[k] > 0 <=> k \in Orphans
            THEN {"ThirteenOrphans"} ELSE {})

calc(s, player, win_tile, win_flag) ==
  IF ~check_arguments(player, win_tile, win_flag) THEN {NoWin("arguments")}
  ELSE IF WinningForms(player) = {} THEN {NoWin("The hand is not winning form.")}
  ELSE calc_fast(s, player, win_tile, win_flag, WinningForms(player))

\* Mutant of get_up_scores: the first score is that of one han more.
UpScoresFromNext(s, player, result, win_flag, n) ==
  IF ~result.success THEN << >>
  ELSE IF result.score_limit >= CountedYakuman THEN << {result.payments[1]} >>
  ELSE [i \in 1..n + 1 |->
          {p[1] : p \in UNION {calc_score(is_dealer(player), "Tsumo" \in win_flag, s.round.honba,
                                          s.table.kyotaku, s.rules.game_mode, title,
                                          result.han + i, result.fu) :
                               title \in title_of_han(result.fu, result.han + i)}}]

\* Points for i more han, i in 0..n, as a sequence; one element from yakuman on.
get_up_scores(s, player, result, win_flag, n) ==
  IF ~result.success THEN << >>
  ELSE IF result.score_limit >= CountedYakuman THEN << {result.payments[1]} >>
  ELSE [i \in 1..n + 1 |->
          {p[1] : p \in UNION {calc_score(is_dealer(player), "Tsumo" \in win_flag, s.round.honba,
                                          s.table.kyotaku, s.rules.game_mode, title,
                                          result.han + i - 1, result.fu) :
                               title \in title_of_han(result.fu, result.han + i - 1)}}]
=============================================================================
