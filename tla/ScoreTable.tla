------------------------------ MODULE ScoreTable ------------------------------
(***************************************************************************)
(* mahjong/core/score_table.hpp: the points of a win below mangan by fu    *)
(* and han, and from mangan on by limit; and the two lookups of            *)
(* score_calculator.cpp that read it.  A fu count without a row has index  *)
(* -1; what the code then reads lies outside the arrays, and the value is  *)
(* any of Garbage.                                                         *)
(***************************************************************************)
EXTENDS Integers, Sequences

CONSTANT Garbage     \* points a read outside the arrays can return

Rows == << 20, 25, 30, 40, 50, 60, 70, 80, 90, 100, 110 >>

fu_to_index(fu) ==
  IF \E i \in DOMAIN Rows : Rows[i] = fu THEN (CHOOSE i \in DOMAIN Rows : Rows[i] = fu) - 1 ELSE -1

\* Mutant of IsMangan: 40 fu and 4 han is below mangan.
ManganFrom50(fu_idx, han) ==
  IF fu_idx = -1 THEN BOOLEAN
  ELSE {\/ fu_idx > fu_to_index(40) /\ han = 4
        \/ fu_idx >= fu_to_index(70) /\ han >= 3}

\* IsMangan[fu_idx][han_idx], han below 5.
IsMangan(fu_idx, han) ==
  IF fu_idx = -1 THEN BOOLEAN
  ELSE {\/ fu_idx >= fu_to_index(40) /\ han = 4
        \/ fu_idx >= fu_to_index(70) /\ han >= 3}

\* BelowMangan: a row per fu, a column per han.
BelowMangan ==
  [ RonDiscarderToDealer |->
      << <<0, 0, 0, 0>>, <<0, 2400, 4800, 9600>>, <<1500, 2900, 5800, 11600>>,
         <<2000, 3900, 7700, 0>>, <<2400, 4800, 9600, 0>>, <<2900, 5800, 11600, 0>>,
         <<3400, 6800, 0, 0>>, <<3900, 7700, 0, 0>>, <<4400, 8700, 0, 0>>,
         <<4800, 9600, 0, 0>>, <<5300, 10600, 0, 0>> >>,
    RonDiscarderToPlayer |->
      << <<0, 0, 0, 0>>, <<0, 1600, 3200, 6400>>, <<1000, 2000, 3900, 7700>>,
         <<1300, 2600, 5200, 0>>, <<1600, 3200, 6400, 0>>, <<2000, 3900, 7700, 0>>,
         <<2300, 4500, 0, 0>>, <<2600, 5200, 0, 0>>, <<2900, 5800, 0, 0>>,
         <<3200, 6400, 0, 0>>, <<3600, 7100, 0, 0>> >>,
    TsumoPlayerToDealer |->
      << <<0, 700, 1300, 2600>>, <<0, 0, 1600, 3200>>, <<500, 1000, 2000, 3900>>,
         <<700, 1300, 2600, 0>>, <<800, 1600, 3200, 0>>, <<1000, 2000, 3900, 0>>,
         <<1200, 2300, 0, 0>>, <<1300, 2600, 0, 0>>, <<1500, 2900, 0, 0>>,
         <<1600, 3200, 0, 0>>, <<1800, 3600, 0, 0>> >>,
    TsumoDealerToPlayer |->
      << <<0, 700, 1300, 2600>>, <<0, 0, 1600, 3200>>, <<500, 1000, 2000, 3900>>,
         <<700, 1300, 2600, 0>>, <<800, 1600, 3200, 0>>, <<1000, 2000, 3900, 0>>,
         <<1200, 2300, 0, 0>>, <<1300, 2600, 0, 0>>, <<1500, 2900, 0, 0>>,
         <<1600, 3200, 0, 0>>, <<1800, 3600, 0, 0>> >>,
    TsumoPlayerToPlayer |->
      << <<0, 400, 700, 1300>>, <<0, 0, 800, 1600>>, <<300, 500, 1000, 2000>>,
         <<400, 700, 1300, 0>>, <<400, 800, 1600, 0>>, <<500, 1000, 2000, 0>>,
         <<600, 1200, 0, 0>>, <<700, 1300, 0, 0>>, <<800, 1500, 0, 0>>,
         <<800, 1600, 0, 0>>, <<900, 800, 0, 0>> >> ]

\* AboveMangan: a column per limit, from mangan to six-fold yakuman.
AboveMangan ==
  [ RonDiscarderToDealer |-> <<12000, 18000, 24000, 36000, 48000, 48000, 96000, 144000, 192000, 240000, 288000>>,
    RonDiscarderToPlayer |-> <<8000, 12000, 16000, 24000, 32000, 32000, 64000, 96000, 128000, 160000, 192000>>,
    TsumoPlayerToDealer  |-> <<4000, 6000, 8000, 12000, 16000, 16000, 32000, 48000, 64000, 80000, 96000>>,
    TsumoDealerToPlayer  |-> <<4000, 6000, 8000, 12000, 16000, 16000, 32000, 48000, 64000, 80000, 96000>>,
    TsumoPlayerToPlayer  |-> <<2000, 3000, 4000, 6000, 8000, 8000, 16000, 24000, 32000, 40000, 48000>> ]

\* ScoreLimit: Null, or a column of AboveMangan.
NoLimit == -1
Mangan == 0
CountedYakuman == 4
Yakuman == 5
SextupleYakuman == 10
=============================================================================
