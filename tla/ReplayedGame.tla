---------------------------- MODULE ReplayedGame ----------------------------
(***************************************************************************)
(* A game as a Tenhou server plays and logs it, read event by event by     *)
(* build_replay.  The game itself is not code of the repository: its       *)
(* actions are the legal moves, in the order in which the log can hold     *)
(* them, as docs/tenhou_mjlog.md describes the log.  Each action hands the *)
(* event it logs to build_replay, whose record is the variable game; the   *)
(* other variables are the table, in tile numbers, which build_replay      *)
(* never sees.                                                             *)
(***************************************************************************)
EXTENDS ReplayBuilder, MeldCodes

CONSTANTS
  Setups,           \* the games that are played: how many players (3 or 4), the deals
                    \* a round can start with (hands and wall, in tile numbers), bounds
                    \* on the rounds of a game and on the players who leave and come back
  Indicators,       \* tile numbers shown as dora indicators for kans
  KansToAbort       \* kans after which a round is drawn (4 with full hands)

\* There is one tile of each number: none is dealt twice, nor dealt and in the wall.
DealtOnce(d, seats) ==
  /\ IsInjective(d.wall)
  /\ \A p \in seats : IsInjective(d.hands[p]) /\ Range(d.hands[p]) \cap Range(d.wall) = {}
  /\ \A p, q \in seats : p # q => Range(d.hands[p]) \cap Range(d.hands[q]) = {}

\* Hands and walls are lists of tiles in play.
ASSUME SetupsAssumption ==
  /\ Ids \subseteq 0..135
  /\ \A s \in Setups :
       /\ s.players \in {3, 4}
       /\ \A d \in s.deals :
            /\ d.wall \in Seq(Ids) /\ \A p \in 0..(s.players - 1) : d.hands[p] \in Seq(Ids)
            /\ DealtOnce(d, 0..(s.players - 1))

VARIABLES
  setup,            \* the one of Setups that is being played
  game,             \* the record build_replay has made so far
  held, codes,      \* each player's concealed tiles and the codes of their calls
  points, pot,      \* in hundreds; riichi deposits on the table
  wall, dora,       \* the tiles to come; all dora indicators shown so far
  kans, owed,       \* kans made; indicators still to be shown for them
  phase, turn,      \* what the player of the turn may do next
  drew, tile,       \* the tile drawn, and the one discarded or added, if any
  riichi,           \* players whose riichi stands
  declaring,        \* a riichi is declared and its deposit not yet made
  wins,             \* winner, loser and liable player of each win of the round
  ending,           \* why the round ended without a win, if it did
  reconnects

vars == <<setup, game, held, codes, points, pot, wall, dora, kans, owed, phase, turn, drew,
          tile, riichi, declaring, wins, ending, reconnects>>

NumPlayers == setup.players
Players == 0..(NumPlayers - 1)
Names == [i \in 1..4 |-> IF i <= NumPlayers THEN <<"A", "B", "C", "D">>[i] ELSE ""]
Following(p) == (p + 1) % NumPlayers
Round == Last(game.rounds)
\* The game being played stays the same.
Log(e) == game' = build_replay(game, e) /\ UNCHANGED setup

Zeros == [p \in Players |-> 0]

Init ==
  /\ setup \in Setups
  /\ game = build_replay(NoGame, [tag |-> "UN", names |-> Names])
  /\ held = [p \in Players |-> {}] /\ codes = [p \in Players |-> <<>>]
  /\ points = [p \in Players |-> 250] /\ pot = 0
  /\ wall = <<>> /\ dora = <<>> /\ kans = 0 /\ owed = 0
  /\ phase = "over" /\ turn = NumPlayers - 1
  /\ drew = Null /\ tile = Null /\ riichi = {} /\ declaring = FALSE
  /\ wins = <<>> /\ ending = "none" /\ reconnects = 0

-----------------------------------------------------------------------------
(* The log's events: the player's name comes first.                        *)

Deal(oya) ==
  /\ phase = "over" /\ Len(game.rounds) < setup.rounds
  /\ IF game.rounds = <<>> THEN oya = 0
     ELSE oya \in {Round.initial.dealer, Following(Round.initial.dealer)}
  /\ \E d \in setup.deals :
       /\ Log([tag |-> "INIT", oya |-> oya, ten |-> points, kyotaku |-> pot,
               dora |-> d.dora, hands |-> d.hands])
       /\ held' = [p \in Players |-> Range(d.hands[p])]
       /\ wall' = d.wall
       /\ dora' = <<d.dora>>
  /\ turn' = oya /\ phase' = "draw"
  /\ codes' = [p \in Players |-> <<>>]
  /\ kans' = 0 /\ owed' = 0 /\ drew' = Null /\ tile' = Null
  /\ riichi' = {} /\ declaring' = FALSE /\ wins' = <<>> /\ ending' = "none"
  /\ UNCHANGED <<points, pot, reconnects>>

\* A player who was disconnected comes back, at any moment: UN names only them.
Reconnect(p) ==
  /\ reconnects < setup.reconnects
  /\ Log([tag |-> "UN", names |-> [i \in 1..4 |-> IF i = p + 1 THEN Names[i] ELSE ""]])
  /\ reconnects' = reconnects + 1
  /\ UNCHANGED <<held, codes, points, pot, wall, dora, kans, owed, phase, turn, drew,
                 tile, riichi, declaring, wins, ending>>

\* Nobody can win on the last tile any more, and no deposit is outstanding.
Free == phase \in {"discarded", "safe"} /\ ~declaring

Draw(p) ==
  /\ wall # <<>>
  /\ \/ phase \in {"draw", "added"} /\ p = turn
     \/ Free /\ p = Following(turn)
  /\ Log([tag |-> "draw", who |-> p, tile |-> Head(wall)])
  /\ held' = [held EXCEPT ![p] = @ \cup {Head(wall)}]
  /\ wall' = Tail(wall) /\ drew' = Head(wall) /\ tile' = Null
  /\ turn' = p /\ phase' = "discard"
  /\ UNCHANGED <<codes, points, pot, dora, kans, owed, riichi, declaring, wins, ending, reconnects>>

Discard(p) ==
  /\ phase = "discard" /\ p = turn
  /\ \E id \in held[p] :
       /\ p \in riichi => id = drew
       /\ Log([tag |-> "discard", who |-> p, tile |-> id])
       /\ held' = [held EXCEPT ![p] = @ \ {id}]
       /\ tile' = id
  /\ phase' = "discarded"
  /\ UNCHANGED <<codes, points, pot, wall, dora, kans, owed, turn, drew, riichi,
                 declaring, wins, ending, reconnects>>

\* The player has just drawn, and is free to do something else than discard.
OwnTurn(p) == phase = "discard" /\ p = turn /\ drew # Null /\ ~declaring

\* Codes 0 in the two low bits: a closed kan, or a nuki.
Closed(p) == \A i \in DOMAIN codes[p] : Bits(codes[p][i], 0, 2) = 0

Declare(p) ==
  /\ OwnTurn(p) /\ p \notin riichi /\ Closed(p) /\ points[p] >= 10 /\ wall # <<>>
  /\ Log([tag |-> "reach", who |-> p, step |-> 1])
  /\ declaring' = TRUE
  /\ UNCHANGED <<held, codes, points, pot, wall, dora, kans, owed, phase, turn, drew,
                 tile, riichi, wins, ending, reconnects>>

\* Nobody won on the tile discarded with the declaration.
Deposit(p) ==
  /\ phase = "discarded" /\ declaring /\ p = turn
  /\ Log([tag |-> "reach", who |-> p, step |-> 2])
  /\ declaring' = FALSE /\ riichi' = riichi \cup {p}
  /\ points' = [points EXCEPT ![p] = @ - 10] /\ pot' = pot + 1
  /\ phase' = "safe"
  /\ UNCHANGED <<held, codes, wall, dora, kans, owed, turn, drew, tile, wins, ending, reconnects>>

-----------------------------------------------------------------------------
(* Calls.  ids are the tiles that leave the caller's hand.                 *)

NewKan == kans' = kans + 1 /\ owed' = owed + 1

Call(p, ids, newcodes, m) ==
  /\ Log([tag |-> "meld", who |-> p, m |-> m])
  /\ held' = [held EXCEPT ![p] = @ \ ids]
  /\ codes' = [codes EXCEPT ![p] = newcodes]
  /\ turn' = p /\ drew' = Null
  /\ UNCHANGED <<points, pot, wall, dora, riichi, declaring, wins, ending, reconnects>>

CanCall(p) == Free /\ p # turn /\ p \notin riichi /\ wall # <<>>
From(p) == (turn - p + NumPlayers) % NumPlayers
Kind(id) == id \div 4
Copies(kind) == {4 * kind + i : i \in 0..3}
Nth(id, kind) == id - 4 * kind

Chi(p) ==
  /\ CanCall(p) /\ NumPlayers = 4 /\ p = Following(turn)
  /\ \E low \in {Kind(id) : id \in held[p] \cup {tile}}, called \in 1..3 :
       /\ low < 27 /\ low % 9 <= 6 /\ Kind(tile) = low + called - 1
       /\ \E id \in [1..3 -> held[p] \cup {tile}] :
            /\ id[called] = tile
            /\ \A i \in 1..3 : Kind(id[i]) = low + i - 1
            /\ LET m == ChiCode(From(p), low, [i \in 1..3 |-> Nth(id[i], low + i - 1)], called)
               IN  Call(p, Range(id), Append(codes[p], m), m)
  /\ phase' = "discard" /\ tile' = Null
  /\ UNCHANGED <<kans, owed>>

Pon(p) ==
  /\ CanCall(p)
  /\ \E unused \in Copies(Kind(tile)) \ {tile} :
       LET ids == Copies(Kind(tile)) \ {unused, tile}
           called == 1 + Cardinality({id \in ids : id < tile})
           m == PonCode(From(p), Kind(tile), Nth(unused, Kind(tile)), called)
       IN  /\ ids \subseteq held[p]
           /\ Call(p, ids, Append(codes[p], m), m)
  /\ phase' = "discard" /\ tile' = Null
  /\ UNCHANGED <<kans, owed>>

Daiminkan(p) ==
  /\ CanCall(p)
  /\ LET ids == Copies(Kind(tile)) \ {tile}
         m == KanCode(From(p), tile)
     IN  /\ ids \subseteq held[p]
         /\ Call(p, ids, Append(codes[p], m), m)
  /\ phase' = "draw" /\ tile' = Null /\ NewKan

Ankan(p) ==
  /\ OwnTurn(p) /\ p \notin riichi /\ wall # <<>>
  /\ \E kind \in {Kind(id) : id \in held[p]} :
       LET m == KanCode(0, 4 * kind)
       IN  /\ Copies(kind) \subseteq held[p]
           /\ Call(p, Copies(kind), Append(codes[p], m), m)
  /\ phase' = "draw" /\ UNCHANGED tile /\ NewKan

\* The code of a pon gives way to that of the kan it becomes.
Kakan(p) ==
  /\ OwnTurn(p) /\ wall # <<>>
  /\ \E i \in DOMAIN codes[p], id \in held[p] :
       LET pon == codes[p][i]
           m == KakanCode(Bits(pon, 0, 2), Kind(id), Nth(id, Kind(id)), (Bits(pon, 9, 7) % 3) + 1)
       IN  /\ is_pon(pon)
           /\ Bits(pon, 9, 7) \div 3 = Kind(id)
           /\ Call(p, {id}, [codes[p] EXCEPT ![i] = m], m)
           /\ tile' = id
  /\ phase' = "added" /\ NewKan

Nuki(p) ==
  /\ OwnTurn(p) /\ NumPlayers = 3 /\ wall # <<>>
  /\ \E id \in held[p] :
       /\ to_tile(id) = North
       /\ p \in riichi => id = drew
       /\ Call(p, {id}, Append(codes[p], NukiCode(id)), NukiCode(id))
  /\ phase' = "draw" /\ UNCHANGED <<tile, kans, owed>>

\* A kan's indicator is shown at once or after the next draw.
ShowDora ==
  /\ owed > 0 /\ phase \in {"draw", "discard", "discarded"}
  /\ \E id \in Indicators \ Range(dora) :
       /\ Log([tag |-> "dora", tile |-> id])
       /\ dora' = Append(dora, id)
  /\ owed' = owed - 1
  /\ UNCHANGED <<held, codes, points, pot, wall, kans, phase, turn, drew, tile, riichi,
                 declaring, wins, ending, reconnects>>

-----------------------------------------------------------------------------
(* Ends of a round.  Amounts are small: build_replay tells only signs.     *)

\* sc: each player's points before, then the change.
Sc(delta) == [i \in 1..(2 * NumPlayers) |->
                LET p == (i - 1) \div 2 IN IF i % 2 = 1 THEN points[p] ELSE delta[p]]

\* A tsumo is paid by all, or by the liable player alone; a ron by the discarder,
\* or by the discarder and the liable player by halves, who also pays the honba.
\* No win has a second yakuman that nobody is liable for.
Pays(q, winner, loser, liable) ==
  CASE q = winner -> 0
    [] q # winner /\ loser = Null /\ liable = Null -> 8
    [] q # winner /\ loser = Null /\ liable # Null -> IF q = liable THEN 16 ELSE 0
    [] q # winner /\ loser # Null /\ liable \in {Null, loser} -> IF q = loser THEN 16 ELSE 0
    [] OTHER -> IF q = loser THEN 8 ELSE IF q = liable THEN 11 ELSE 0

\* The players who gave p a call; with some yaku one of them may be liable for it.
CalledFrom(p) ==
  {(p + Bits(codes[p][i], 0, 2)) % NumPlayers : i \in DOMAIN codes[p]} \ {p}

Win(winner, loser, machi, hai) ==
  \E liable \in {Null} \cup CalledFrom(winner), pao_yaku \in BOOLEAN :
    LET paid == [q \in Players |-> Pays(q, winner, loser, liable)]
        delta == [q \in Players |->
                    IF q = winner
                    THEN 10 * pot + FoldLeft(+, 0, [i \in 1..NumPlayers |-> paid[i - 1]])
                    ELSE 0 - paid[q]]
    IN  /\ liable # Null => pao_yaku
        /\ Log([tag |-> "agari", who |-> winner,
                from_who |-> IF loser = Null THEN winner ELSE loser,
                machi |-> machi, hai |-> Sorted(hai), m |-> codes[winner],
                kyotaku |-> pot, pao_yaku |-> pao_yaku, sc |-> Sc(delta)])
        /\ points' = [q \in Players |-> points[q] + delta[q]]
        /\ pot' = 0
        /\ wins' = Append(wins, [winner |-> winner, loser |-> loser, liable |-> liable])
        /\ UNCHANGED ending

EndRound ==
  /\ phase' = "over" /\ declaring' = FALSE
  /\ UNCHANGED <<held, codes, wall, dora, kans, owed, turn, drew, tile, riichi, reconnects>>

Tsumo(p) ==
  /\ OwnTurn(p)
  /\ Win(p, Null, drew, held[p])
  /\ EndRound

\* A ron on the discarded tile or on the tile added to a pon.  A second player may
\* win on the same tile; the first to play after the loser is logged first.
Ron(p) ==
  /\ \/ phase \in {"discarded", "added"} /\ wins = <<>>
     \/ phase = "over" /\ Len(wins) = 1 /\ wins[1].loser # Null
        /\ (p - turn + NumPlayers) % NumPlayers
             > (wins[1].winner - turn + NumPlayers) % NumPlayers
  /\ p # turn
  /\ Win(p, turn, tile, held[p] \cup {tile})
  /\ EndRound

EndInDraw(type, delta) ==
  /\ Log([tag |-> "ryukyoku", type |-> type, kyotaku |-> pot, sc |-> Sc(delta)])
  /\ points' = [p \in Players |-> points[p] + delta[p]]
  /\ ending' = type
  /\ UNCHANGED <<pot, wins>>
  /\ EndRound

\* Players who are not one tile from winning pay those who are.
Exhausted ==
  /\ Free /\ wall = <<>>
  /\ \E ready \in {S \in SUBSET Players : riichi \subseteq S} :
       LET n == Cardinality(ready)
           delta == [p \in Players |-> IF p \in ready THEN 30 \div n ELSE 0 - 30 \div (NumPlayers - n)]
       IN  EndInDraw("", IF n \in {0, NumPlayers} THEN Zeros ELSE delta)

FourKans ==
  /\ Free /\ kans >= KansToAbort
  /\ EndInDraw("kan4", Zeros)

Next ==
  \/ \E p \in Players :
       \/ Deal(p) \/ Reconnect(p)
       \/ Draw(p) \/ Discard(p) \/ Declare(p) \/ Deposit(p)
       \/ Chi(p) \/ Pon(p) \/ Daiminkan(p) \/ Ankan(p) \/ Kakan(p) \/ Nuki(p)
       \/ Tsumo(p) \/ Ron(p)
  \/ ShowDora \/ Exhausted \/ FourKans

Spec == Init /\ [][Next]_vars

-----------------------------------------------------------------------------
Started == game.rounds # <<>>
State(p) == Round.last.players[p]
Count(ids) == [c \in Codes |-> Cardinality({id \in ids : to_tile(id) = c})]

\* Before a game: the calls its players can make.  There is no chi with three players,
\* and a nuki only with three.
ItsCalls == {call \in MadeCalls : IF call.type = "Chi" THEN NumPlayers = 4
                                  ELSE call.type = "Nuki" => NumPlayers = 3}

\* Decoding is the inverse of encoding for every call of a game: the tiles, red
\* fives included, the called (or added) tile, the direction and the type come
\* back, and a nuki is never taken for a meld nor a meld for a nuki.
DecodedAsMade ==
  game.rounds = << >> => \A call \in ItsCalls : decode_meld(call.code) = AsMade(call)

\* The record follows the table.  Its hands are the concealed hands the players hold,
\* red fives and the other fives apart, whatever was drawn, discarded, called from
\* others, extended to a kan or taken out as a nuki before (add_tile, remove_meld_tiles
\* and apply_nuki_event each change them; remove_tile only asserts a tile is there).
\* And the players are those who sat down, whoever reconnected in the meantime: their
\* number decides how many hands every later round is read with.
RecordFollowsTable ==
  Started =>
    /\ game.players = SubSeq(Names, 1, NumPlayers)
    /\ \A i \in DOMAIN game.rounds : DOMAIN game.rounds[i].last.players = Players
    /\ \A p \in Players : State(p).hand = Count(held[p])

\* Two roads to the winner's hand agree: the one the log states at the end of the
\* round, which make_win_result decodes, and the one replayed from the events.
\* They differ by the tile won on from another player and by the pons that
\* became kans, which the replayed state keeps.
WinnerAgrees ==
  Started =>
    \A i \in DOMAIN wins :
      LET result == Round.results[i]
          replayed == State(wins[i].winner)
          kans_of == {m \in Range(replayed.melds) : m.type = "Kakan"}
          extended == {m \in Range(replayed.melds) :
                         m.type = "Pon" /\ \E k \in kans_of : Range(m.tiles) \subseteq Range(k.tiles)}
      IN  /\ \A c \in Codes :
               result.player.hand[c] = replayed.hand[c]
                 + IF result.loser # Null /\ c = result.winning_tile THEN 1 ELSE 0
          /\ Range(result.player.melds) = Range(replayed.melds) \ extended
          /\ result.player.nuki_count = replayed.nuki_count

\* The record is closed: its events, applied to its first snapshot, give its last
\* one.  A nuki has no event, so a player's nuki are missing norths.
AfterEvent(state, event) ==
  LET Hand(p, change(_)) == [state EXCEPT !.players[p].hand =
                               [c \in Codes |-> @[c] + change(c)]]
  IN  CASE event.tag = "Draw" -> Hand(event.actor, LAMBDA c : IF c = event.tile THEN 1 ELSE 0)
        [] event.tag = "Discard" -> Hand(event.actor, LAMBDA c : IF c = event.tile THEN -1 ELSE 0)
        [] event.tag = "Call" ->
             LET gone == meld_tiles_in_hand(event.meld)
                 called == Hand(event.actor, LAMBDA c : -Cardinality({i \in DOMAIN gone : gone[i] = c}))
             IN  [called EXCEPT !.players[event.actor].melds = Append(@, event.meld)]
        [] event.tag = "Riichi" -> [state EXCEPT !.kyotaku = @ + 1]
        [] event.tag = "DoraOpen" -> [state EXCEPT !.dora_indicators = Append(@, event.tile)]
        [] OTHER -> state

EventsReproduceLast ==
  Started =>
    LET replayed == FoldLeft(AfterEvent, Round.initial, Round.events)
        NukiBack(p) == [State(p) EXCEPT !.nuki_count = 0,
                          !.hand = [c \in Codes |-> @[c] + IF c = North THEN State(p).nuki_count ELSE 0]]
    IN  replayed = [Round.last EXCEPT !.players = [p \in DOMAIN @ |-> NukiBack(p)]]

\* The liable player that to_pao_info infers from signs of payments is the one
\* who was liable, whenever somebody other than the discarder was, for wins whose
\* yakuman are all the liable player's: of a composite yakuman by tsumo the others pay
\* a part too, nobody is inferred, and no such win is among those of Win.
PaoRecovered ==
  Started =>
    \A i \in DOMAIN wins :
      Round.results[i].pao =
        IF wins[i].liable = wins[i].loser THEN Null ELSE wins[i].liable

\* Points and deposits add up across the rounds, although the log tells them in pieces.
\* The deposits counted from REACH events are those the log pays out: a riichi whose
\* discard was won on is not counted, and of two winners on one tile only the first
\* takes the deposits.  And a round starts with the scores the records before it lead
\* to: the first round's start, less each riichi event, plus the changes of each result.
PointsAddUp ==
  /\ Started =>
       /\ \A i \in DOMAIN Round.results :
            Round.results[i].kyotaku = IF i = 1 THEN Round.last.kyotaku ELSE 0
       /\ Round.results = <<>> => Round.last.kyotaku = pot
  /\ \A i \in 2..Len(game.rounds), p \in Players :
       LET before == game.rounds[i - 1]
           riichis == {j \in DOMAIN before.events : before.events[j].tag = "Riichi" /\ before.events[j].actor = p}
           deltas == [j \in DOMAIN before.results |-> before.results[j].score_deltas[p]]
       IN  game.rounds[i].initial.players[p].score =
             before.initial.players[p].score - 1000 * Cardinality(riichis) + FoldLeft(+, 0, deltas)
=============================================================================
