---------------------------- MODULE ReplayBuilder ----------------------------
(***************************************************************************)
(* build_replay of tools/tenhou/replay_builder.cpp: a game record is built *)
(* by applying the events of a Tenhou log one after the other.  Every      *)
(* operator maps a record to the record the function of that name leaves.  *)
(*                                                                         *)
(* A record of a round keeps the snapshot at its start, the snapshot after *)
(* the events applied so far, those events and the results.  Hands are     *)
(* counts per tile code; a red five is counted under its own code only.    *)
(***************************************************************************)
EXTENDS Mjlog, SequencesExt

CONSTANT Ids  \* the tile numbers in play

Codes == {to_tile(id) : id \in Ids}

make_hand(ids) ==
  [c \in Codes |-> Cardinality({i \in DOMAIN ids : to_tile(ids[i]) = c})]

\* PlayerState::num_tiles adds up the counts of the 34 kinds of tiles.
num_tiles(player) ==
  MapThenSumSet(LAMBDA c : player.hand[c], {c \in Codes : c < RedManzu5})

\* The log always names four seats; the last is empty in a three-player game.
make_players(e) == IF e.names[4] = "" THEN SubSeq(e.names, 1, 3) ELSE e.names

make_player_states(e, num_players) ==
  [p \in 0..(num_players - 1) |->
    [hand |-> make_hand(e.hands[p]), melds |-> <<>>, nuki_count |-> 0,
     score |-> e.ten[p] * 100,
     seat_wind |-> (p - e.oya + num_players) % num_players]]

make_round_record(e, num_players) ==
  LET start == [kyotaku |-> e.kyotaku, dora_indicators |-> <<to_tile(e.dora)>>,
                dealer |-> e.oya, players |-> make_player_states(e, num_players)]
  IN  [initial |-> start, last |-> start, events |-> <<>>, results |-> <<>>]

\* What a handler does to the current state of player p.
OnPlayer(record, p, Change(_)) == [record EXCEPT !.last.players[p] = Change(@)]
Push(record, event) == [record EXCEPT !.events = Append(@, event)]

add_tile(record, p, tile) ==
  LET Add(player) == [player EXCEPT !.hand[tile] = @ + 1]
  IN  OnPlayer(record, p, Add)

remove_tiles(record, p, tiles) ==
  LET Times(c) == Cardinality({i \in DOMAIN tiles : tiles[i] = c})
      Remove1(player) == [player EXCEPT !.hand = [c \in Codes |-> @[c] - Times(c)]]
  IN  OnPlayer(record, p, Remove1)

\* Mutant of meld_tiles_in_hand: every tile equal to the called one is skipped.
meld_tiles_skipping_all(meld) ==
  LET Other(t) == t # meld.discarded_tile
  IN  CASE meld.type = "Ankan" -> meld.tiles
        [] meld.type = "Kakan" -> <<meld.discarded_tile>>
        [] OTHER -> SelectSeq(meld.tiles, Other)

\* Mutant of meld_tiles_in_hand: an added kan takes four tiles like any other.
meld_tiles_of_any_kan(meld) ==
  CASE meld.type \in {"Ankan", "Kakan"} -> meld.tiles
    [] OTHER -> RemoveFirst(meld.tiles, meld.discarded_tile)

\* The tiles remove_meld_tiles takes from the caller's hand: all four of a closed
\* kan, the added tile of an added kan, and otherwise all but one called tile.
meld_tiles_in_hand(meld) ==
  CASE meld.type = "Ankan" -> meld.tiles
    [] meld.type = "Kakan" -> <<meld.discarded_tile>>
    [] OTHER -> RemoveFirst(meld.tiles, meld.discarded_tile)

\* The meld is appended to the others; a pon that is extended stays in the list.
apply_call_event(record, who, meld) ==
  LET Call(player) == [player EXCEPT !.melds = Append(@, meld)]
  IN  Push(OnPlayer(remove_tiles(record, who, meld_tiles_in_hand(meld)), who, Call),
           [tag |-> "Call", actor |-> who, meld |-> meld])

\* Mutant of apply_nuki_event: the north stays in the hand.
apply_nuki_uncounted(record, who) ==
  LET Nuki(player) == [player EXCEPT !.nuki_count = @ + 1]
  IN  OnPlayer(record, who, Nuki)

\* Mutant of apply_nuki_event: the north goes, but is not counted as a nuki.
apply_nuki_as_call(record, who) == remove_tiles(record, who, <<North>>)

\* A nuki leaves no event in the record.
apply_nuki_event(record, who) ==
  LET Nuki(player) == [player EXCEPT !.nuki_count = @ + 1]
  IN  OnPlayer(remove_tiles(record, who, <<North>>), who, Nuki)

\* sc alternates a player's points and change of points, in hundreds.
to_score_deltas(sc, num_players) ==
  [p \in 0..(num_players - 1) |-> sc[2 * p + 2] * 100]

Lowest(S) == CHOOSE p \in S : \A q \in S : p <= q

\* Mutant of to_pao_info: on a ron the discarder is taken for the liable player.
to_pao_info_discarder(deltas, winner, loser, pao_yaku) ==
  LET payers == {p \in DOMAIN deltas \ {winner} : deltas[p] < 0}
  IN  IF \/ ~pao_yaku
         \/ payers = {}
         \/ loser = Null /\ Cardinality(payers) # 1 THEN Null ELSE Lowest(payers)

\* Who pays for a hand with a liability yaku is read off the payments: on a ron
\* the first payer besides the discarder, on a tsumo the only payer.
to_pao_info(deltas, winner, loser, pao_yaku) ==
  LET payers == {p \in DOMAIN deltas \ {winner, loser} : deltas[p] < 0}
  IN  IF \/ ~pao_yaku
         \/ payers = {}
         \/ loser = Null /\ Cardinality(payers) # 1 THEN Null ELSE Lowest(payers)

make_win_result(state, e) ==
  LET decoded == decode_melds(e.m)
      deltas == to_score_deltas(e.sc, Cardinality(DOMAIN state.players))
      loser == IF e.who = e.from_who THEN Null ELSE e.from_who
  IN  [tag |-> "Win", winner |-> e.who, loser |-> loser, winning_tile |-> to_tile(e.machi),
       kyotaku |-> e.kyotaku, score_deltas |-> deltas,
       pao |-> to_pao_info(deltas, e.who, loser, e.pao_yaku),
       player |-> [state.players[e.who] EXCEPT !.hand = make_hand(e.hai),
                                               !.melds = decoded[1],
                                               !.nuki_count = decoded[2]]]

make_ryukyoku_result(state, e, type) ==
  [tag |-> "Ryukyoku", type |-> type, kyotaku |-> e.kyotaku,
   score_deltas |-> to_score_deltas(e.sc, Cardinality(DOMAIN state.players))]

apply_draw(record, e) ==
  Push(add_tile(record, e.who, to_tile(e.tile)),
       [tag |-> "Draw", actor |-> e.who, tile |-> to_tile(e.tile)])

apply_discard(record, e) ==
  Push(remove_tiles(record, e.who, <<to_tile(e.tile)>>),
       [tag |-> "Discard", actor |-> e.who, tile |-> to_tile(e.tile), tsumogiri |-> FALSE])

apply_meld(record, e) ==
  IF is_nuki(e.m) THEN apply_nuki_event(record, e.who)
  ELSE apply_call_event(record, e.who, decode_meld(e.m))

\* Mutant of apply_dora: the indicator is shown but leaves no event.
apply_dora_unlogged(record, e) ==
  [record EXCEPT !.last.dora_indicators = Append(@, to_tile(e.tile))]

apply_dora(record, e) ==
  Push([record EXCEPT !.last.dora_indicators = Append(@, to_tile(e.tile))],
       [tag |-> "DoraOpen", tile |-> to_tile(e.tile)])

\* Mutant of apply_reach: the deposit is counted at the declaration.
apply_reach_declared(record, e) ==
  IF e.step = 1
  THEN Push([record EXCEPT !.last.kyotaku = @ + 1], [tag |-> "Riichi", actor |-> e.who])
  ELSE record

\* Step 1, the declaration, changes nothing; the points of step 2 are not read.
apply_reach(record, e) ==
  IF e.step = 2
  THEN Push([record EXCEPT !.last.kyotaku = @ + 1], [tag |-> "Riichi", actor |-> e.who])
  ELSE record

apply_agari(record, e) ==
  LET event == IF e.who = e.from_who
               THEN [tag |-> "Tsumo", winner |-> e.who, tile |-> to_tile(e.machi)]
               ELSE [tag |-> "Ron", winner |-> e.who, loser |-> e.from_who,
                     tile |-> to_tile(e.machi)]
  IN  [Push(record, event) EXCEPT !.results = Append(@, make_win_result(record.last, e))]

apply_ryukyoku(record, e) ==
  LET type == to_ryukyoku_type(e.type)
  IN  [Push(record, [tag |-> "Ryukyoku", type |-> type])
         EXCEPT !.results = Append(@, make_ryukyoku_result(record.last, e, type))]

\* Events of no other kind (SHUFFLE, TAIKYOKU, BYE, unknown tags) change anything.
apply_event(record, e) ==
  CASE e.tag = "draw"     -> apply_draw(record, e)
    [] e.tag = "discard"  -> apply_discard(record, e)
    [] e.tag = "meld"     -> apply_meld(record, e)
    [] e.tag = "dora"     -> apply_dora(record, e)
    [] e.tag = "reach"    -> apply_reach(record, e)
    [] e.tag = "agari"    -> apply_agari(record, e)
    [] e.tag = "ryukyoku" -> apply_ryukyoku(record, e)
    [] OTHER -> record

\* Mutant of build_replay: a second UN event replaces the players.
build_replay_renaming(game, e) ==
  CASE e.tag = "UN" -> [game EXCEPT !.players = make_players(e)]
    [] e.tag = "INIT" -> [game EXCEPT !.rounds = Append(@, make_round_record(e, Len(game.players)))]
    [] e.tag \notin {"UN", "INIT"} /\ game.rounds # <<>> ->
         [game EXCEPT !.rounds[Len(game.rounds)] = apply_event(@, e)]
    [] OTHER -> game

\* One turn of build_replay's loop.  UN comes again when a player reconnects, and
\* then lists that player only: the first one counts.
build_replay(game, e) ==
  CASE e.tag = "UN" /\ game.players = <<>> -> [game EXCEPT !.players = make_players(e)]
    [] e.tag = "INIT" -> [game EXCEPT !.rounds = Append(@, make_round_record(e, Len(game.players)))]
    [] e.tag \notin {"UN", "INIT"} /\ game.rounds # <<>> ->
         [game EXCEPT !.rounds[Len(game.rounds)] = apply_event(@, e)]
    [] OTHER -> game

NoGame == [players |-> <<>>, rounds |-> <<>>]
=============================================================================
