-------------------------------- MODULE Tiles --------------------------------
(***************************************************************************)
(* Tile codes, as in mahjong/types/tile.hpp: 0..8 manzu, 9..17 pinzu,      *)
(* 18..26 souzu, 27..30 winds, 31..33 dragons, 34..36 the red fives.  A    *)
(* hand maps the 37 codes to counts; a red five counts as a red five and   *)
(* as a five (mahjong/core/utils.hpp).                                     *)
(***************************************************************************)
EXTENDS Integers, Sequences, SequencesExt

Null == -1
Kinds == 0..33
Reds == 34..36
Codes == 0..36
East == 27
North == 30
WhiteDragon == 31
GreenDragon == 32
RedDragon == 33

\* The red five of a suit, and the five it is one of.
to_normal(tile) == IF tile \in Reds THEN 4 + 9 * (tile - 34) ELSE tile
is_red(tile) == tile \in Reds

Suit(d) == 9*d .. 9*d + 8
Honors == East..RedDragon
is_terminal_or_honor(tile) == tile \in Honors \/ \E d \in 0..2 : tile \in {9*d, 9*d + 8}
is_sanma_disabled(tile) == tile \in 1..7 \cup {34}

Yonma == "Yonma"
Sanma == "Sanma"

IndicatorToDoraYonma ==
  << 1, 2, 3, 4, 5, 6, 7, 8, 0,  10, 11, 12, 13, 14, 15, 16, 17, 9,
     19, 20, 21, 22, 23, 24, 25, 26, 18,  28, 29, 30, 27,  32, 33, 31,  5, 14, 23 >>
IndicatorToDoraSanma ==
  << 8, Null, Null, Null, Null, Null, Null, Null, 0,  10, 11, 12, 13, 14, 15, 16, 17, 9,
     19, 20, 21, 22, 23, 24, 25, 26, 18,  28, 29, 30, 27,  32, 33, 31,  Null, 14, 23 >>
DoraToIndicatorYonma ==
  << 8, 0, 1, 2, 3, 4, 5, 6, 7,  17, 9, 10, 11, 12, 13, 14, 15, 16,
     26, 18, 19, 20, 21, 22, 23, 24, 25,  30, 27, 28, 29,  33, 31, 32,  3, 12, 21 >>
DoraToIndicatorSanma ==
  << 8, Null, Null, Null, Null, Null, Null, Null, 0,  17, 9, 10, 11, 12, 13, 14, 15, 16,
     26, 18, 19, 20, 21, 22, 23, 24, 25,  30, 27, 28, 29,  33, 31, 32,  Null, 12, 21 >>

to_dora(indicator, game_mode) ==
  IF game_mode = Sanma THEN IndicatorToDoraSanma[indicator + 1]
  ELSE IndicatorToDoraYonma[indicator + 1]
to_indicator(dora, game_mode) ==
  IF game_mode = Sanma THEN DoraToIndicatorSanma[dora + 1]
  ELSE DoraToIndicatorYonma[dora + 1]

-----------------------------------------------------------------------------
\* A hand from a list of tiles, red fives counted under both codes.
NoTiles == [c \in Codes |-> 0]
AddTile(tile, hand) ==
  IF is_red(tile) THEN [hand EXCEPT ![tile] = @ + 1, ![to_normal(tile)] = @ + 1]
  ELSE [hand EXCEPT ![tile] = @ + 1]
to_hand(tiles) == FoldSeq(AddTile, NoTiles, tiles)

\* The number of tiles of a hand: the red codes repeat fives.
Total(hand) == MapThenSumSet(LAMBDA k : hand[k], Kinds)

\* Whether check_hand accepts a hand instead of throwing.
check_hand(hand) ==
  /\ \A k \in Kinds : hand[k] \in 0..4
  /\ \A r \in Reds : hand[r] \in 0..1 /\ hand[r] <= hand[to_normal(r)]
  /\ Total(hand) <= 14
  /\ Total(hand) % 3 # 0

has_sanma_disabled_tiles(hand) == \E c \in Codes : is_sanma_disabled(c) /\ hand[c] > 0
=============================================================================
