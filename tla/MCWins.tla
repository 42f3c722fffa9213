------------------------------- MODULE MCWins -------------------------------
(***************************************************************************)
(* Families of groups that meet every yaku, wait and kind of block.        *)
(***************************************************************************)
EXTENDS Wins

Trip(t) == [form |-> "Triplet", tiles |-> <<t, t, t>>]
Seq3(t) == [form |-> "Sequence", tiles |-> <<t, t + 1, t + 2>>]
Pair(t) == [form |-> "Pair", tiles |-> <<t, t>>]
Pon(t) == [form |-> "Pon", tiles |-> <<t, t, t>>]
Chi(t) == [form |-> "Chi", tiles |-> <<t, t + 1, t + 2>>]
Kan(form, t) == [form |-> form, tiles |-> <<t, t, t, t>>]

MCGarbage == {0, 800}     \* the values the neighbours of a row can hold

\* East round; who sits where, how the tile came, and the rest of the table.
Sit(seat, flags, mode, honba, kyotaku, ind, ura, nuki) ==
  [rules |-> [open_tanyao |-> TRUE, red_dora |-> TRUE, game_mode |-> mode],
   round |-> [round_wind |-> East, honba |-> honba],
   table |-> [kyotaku |-> kyotaku, dora_indicators |-> ind, uradora_indicators |-> ura],
   seat_wind |-> seat, nuki_count |-> nuki, win_flag |-> flags]

Plain(seat, flags) == Sit(seat, flags, Yonma, 0, 0, << >>, << >>, 0)
Quiet == {Plain(28, {}), Plain(East, {"Tsumo"})}
Rich == {Plain(East, {}), Plain(28, {"Riichi"}),
         Sit(28, {"Tsumo", "Riichi", "Ippatsu"}, Yonma, 2, 1, <<3, 25>>, <<36>>, 0)}

\* 111222333 and 123123123, with what can stand beside them.
OneSuit == [groups |-> <<Seq3(0), Seq3(1), Seq3(6), Trip(0), Trip(1), Trip(2), Pair(3), Pair(27)>>,
            situations |-> Quiet]
\* The three suits, a red five, and calls.
Colours == [groups |-> <<Seq3(0), Seq3(9), Seq3(18), Trip(0), Trip(9), Pon(18), Chi(0),
                         [form |-> "Sequence", tiles |-> <<3, 34, 5>>], Pair(26)>>,
            situations |-> Rich]
Outside == [groups |-> <<Seq3(6), Seq3(15), Seq3(24), Chi(18), Trip(17), Trip(30), Pair(31), Pair(9)>>,
            situations |-> Quiet]
Straight == [groups |-> <<Seq3(9), Seq3(12), Seq3(15), Chi(12), Seq3(14), Pair(13), Pair(4)>>,
             situations |-> Rich]
Winds == [groups |-> <<Trip(27), Pon(28), Trip(29), Trip(30), Pon(31), Trip(32), Trip(33), Seq3(24), Pair(27),
                       Pair(30), Pair(33)>>, situations |-> Quiet]
Green == [groups |-> <<Seq3(19), Trip(23), Pon(25), Trip(32), Trip(21), Pair(25), Pair(32)>>, situations |-> Quiet]
Kans == [groups |-> <<Kan("Ankan", 1), Kan("Daiminkan", 10), Kan("Ankan", 19), Kan("Kakan", 31), Trip(7), Chi(3),
                      Pair(22), Pair(27)>>,
         situations |-> Quiet \cup {Sit(28, {"Tsumo"}, Yonma, 0, 0, <<0, 30>>, << >>, 0)}]
Terminals == [groups |-> <<Kan("Ankan", 0), Trip(8), Trip(9), Kan("Ankan", 17), Pon(18), Trip(31), Pair(26), Pair(29)>>,
              situations |-> Quiet]
NineGates == [groups |-> <<Trip(18), Trip(26), Seq3(19), Seq3(22), Seq3(20), Seq3(23), Pair(21), Pair(25)>>,
          situations |-> Quiet]
SevenPairs == [groups |-> <<Pair(0), Pair(1), Pair(2), Pair(4), Pair(5), Pair(6), Pair(8), Pair(27), Pair(33)>>,
               situations |-> Quiet \cup {Sit(28, {"Tsumo", "Riichi"}, Yonma, 0, 0, <<4>>, << >>, 0)}]
HonorPairs == [groups |-> [i \in 1..7 |-> Pair(26 + i)], situations |-> Quiet]
Orphans_ == [groups |-> << [form |-> "Orphans", tiles |-> <<0,8,9,17,18,26,27,28,29,30,31,32,33>>],
                           [form |-> "Single", tiles |-> <<18>>], [form |-> "Single", tiles |-> <<33>>] >>,
             situations |-> Quiet \cup {Plain(28, {"NagashiMangan"}), Plain(28, {"Tsumo", "EarthlyHand"})}]
\* Every way to win, on one hand.
Flags == [groups |-> <<Seq3(1), Seq3(10), Trip(22), Trip(32), Pair(30)>>,
          situations |-> {Plain(29, f) : f \in
            {{"DoubleRiichi"}, {"DoubleRiichi", "Ippatsu", "Tsumo"}, {"Riichi", "RobbingAKan"}, {"Tsumo", "AfterAKan"},
             {"Tsumo", "UnderTheSea"}, {"UnderTheRiver"}, {"HandOfMan"}, {"Riichi", "DoubleRiichi"}, {"Ippatsu"},
             {"UnderTheSea"}}} \cup {Plain(East, {"Tsumo", "HeavenlyHand"})}]
Sextuple == [groups |-> <<Kan("Ankan", 27), Kan("Ankan", 28), Kan("Ankan", 29), Kan("Ankan", 30), Pair(31)>>,
             situations |-> Quiet]
Three == [groups |-> <<Trip(0), Pon(8), Seq3(9), Trip(26), Trip(30), Pair(30), Pair(27)>>,
          situations |-> {Sit(East, {"Tsumo"}, Sanma, 1, 0, <<29, 0>>, <<>>, 1),
                          Sit(29, {"Tsumo", "Riichi"}, Sanma, 2, 2, <<8>>, <<33>>, 0),
                          Sit(29, {"Tsumo", "Riichi"}, Sanma, 0, 1, <<27>>, << >>, 0),
                          Sit(29, {"Riichi"}, Sanma, 1, 0, <<26>>, <<16>>, 2)}]
\* A hand with three dora indicated by two tiles, whose points pass every limit.
Indicated == [groups |-> <<Seq3(1), Trip(10), [form |-> "Sequence", tiles |-> <<21, 36, 23>>], Pair(6)>>,
              situations |-> {Sit(28, {"Tsumo", "Riichi"}, Yonma, 1, 0, <<1, 1>>, << >>, 0)}]

MCFamilies == {OneSuit, Colours, Outside, Straight, Winds, Green, Kans, Terminals, NineGates, SevenPairs,
               HonorPairs, Orphans_, Flags, Sextuple, Three, Indicated}

\* Three kans of terminals, won by tsumo: 110 fu and two han.
HighFu == [groups |-> <<Kan("Ankan", 0), Kan("Ankan", 8), Kan("Daiminkan", 17), Seq3(19), Pair(21)>>,
           situations |-> {Plain(28, {"Tsumo"})}]
MCHighFu == {HighFu}

\* A three-player hand with riichi and an extracted north.
Nuki == [groups |-> <<Seq3(9), Seq3(12), Trip(19), Trip(31), Pair(23)>>,
         situations |-> {Sit(29, {"Tsumo", "Riichi"}, Sanma, 0, 0, <<10>>, << >>, 1)}]
MCNuki == {Nuki}
=============================================================================
