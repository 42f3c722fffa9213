------------------------------- MODULE Requests -------------------------------
(***************************************************************************)
(* One request of the server, from the document that the schema has        *)
(* accepted to the answer: server/json_parser.cpp (deserialize_request,    *)
(* build_success_response), server/request_processor.cpp, and create_wall  *)
(* of mahjong/core/expected_score_calculator.cpp.  The statistics that     *)
(* ExpectedScoreCalculator adds to the answer are those of ExpectedScore.  *)
(* A document without a wall has << >> for it.                             *)
(***************************************************************************)
EXTENDS ShantenTables

CONSTANT Documents    \* documents that the schema accepts

\* request_schema.json; a wall is a list of 37 counts.
MeldRecords == [type : {"Pon", "Chi", "Ankan", "Daiminkan", "Kakan"}, tiles : Seq(Codes)]
DocumentRecords ==
  [game_mode : {Yonma, Sanma}, dora_indicators : Seq(Codes), hand : Seq(Codes), melds : Seq(MeldRecords),
   nuki_count : 0..4, enable_reddora : BOOLEAN, wall : {<< >>} \cup [Codes -> 0..4]]

ASSUME SchemaAssumption == Documents \subseteq DocumentRecords

VARIABLES
  doc,        \* the document
  phase,      \* "parsed", "made", "melds", "sanma", "valid", "calculated", "answered", "refused"
  req,        \* the Request made of it
  result,     \* the CalculationResult
  answer      \* what a success response repeats: the input and the configuration
vars == <<doc, phase, req, result, answer>>

MeldTiles(r) == FlattenSeq([i \in DOMAIN r.melds |-> r.melds[i].tiles])
num_tiles(r) == Total(r.hand)

\* Mutant of create_wall: extracted norths are left in the wall.
WallWithNuki(r) ==
  LET melds == to_hand(MeldTiles(r))
      indicators == to_hand(r.dora_indicators)
      used == [c \in Codes |-> r.hand[c] + melds[c] + indicators[c]]
  IN  [c \in Codes |->
         IF (r.game_mode = Sanma /\ is_sanma_disabled(c)) \/ (is_red(c) /\ ~r.enable_reddora) THEN 0
         ELSE (IF is_red(c) THEN 1 ELSE 4) - used[c]]

\* The wall that hand, melds, indicators and extracted norths leave.
create_wall(r) ==
  LET melds == to_hand(MeldTiles(r))
      indicators == to_hand(r.dora_indicators)
      used == [c \in Codes |-> r.hand[c] + melds[c] + indicators[c]]
      left == [c \in Codes |->
                 IF (r.game_mode = Sanma /\ is_sanma_disabled(c)) \/ (is_red(c) /\ ~r.enable_reddora) THEN 0
                 ELSE (IF is_red(c) THEN 1 ELSE 4) - used[c]]
  IN  [left EXCEPT ![North] = @ - r.nuki_count]

\* A five in the wall counted without the red one.
to_separated_count(h) ==
  [c \in Codes |-> h[c] - Cardinality({r \in Reds : to_normal(r) = c /\ c # r /\ h[r] > 0})]

-----------------------------------------------------------------------------
(* deserialize_request: make_request and three validations.                *)

make_request(d) ==
  LET r == [d EXCEPT !.hand = to_hand(d.hand)]
  IN  IF d.wall = << >> THEN [r EXCEPT !.wall = create_wall(r)] ELSE r

is_same_tile_meld(m) == \A i \in DOMAIN m.tiles : to_normal(m.tiles[i]) = to_normal(Head(m.tiles))

is_chow_meld(m) ==
  /\ Len(m.tiles) = 3
  /\ \E k \in 0..26 : k % 9 < 7 /\ {to_normal(t) : t \in ToSet(m.tiles)} = k..k + 2

validate_melds(r) ==
  \A m \in ToSet(r.melds) :
    \/ m.type = "Pon" /\ Len(m.tiles) = 3 /\ is_same_tile_meld(m)
    \/ m.type = "Chi" /\ is_chow_meld(m)
    \/ m.type \in {"Ankan", "Daiminkan", "Kakan"} /\ Len(m.tiles) = 4 /\ is_same_tile_meld(m)

validate_sanma_tiles(r) ==
  IF r.game_mode # Sanma THEN r.nuki_count = 0
  ELSE /\ ~has_sanma_disabled_tiles(r.hand)
       /\ \A m \in ToSet(r.melds) : m.type # "Chi"
       /\ \A t \in ToSet(MeldTiles(r)) : ~is_sanma_disabled(t)
       /\ \A t \in ToSet(r.dora_indicators) : ~is_sanma_disabled(t)
       /\ \A c \in Codes : is_sanma_disabled(c) => r.wall[c] <= 0

validate_tile_counts(r) ==
  LET wall == create_wall(r)
      total_count == num_tiles(r) + 3 * Len(r.melds)
  IN  /\ \A c \in Codes : wall[c] >= 0
      /\ \A c \in Codes : r.wall[c] <= wall[c]
      /\ total_count % 3 # 0 /\ total_count <= 14

Accepted(d) ==
  LET r == make_request(d)
  IN  check_hand(r.hand) /\ validate_melds(r) /\ validate_sanma_tiles(r) /\ validate_tile_counts(r)

\* The tables, which hold all counts of the code, hold those of accepted hands, and of
\* what a tile drawn or discarded makes of open ones.
Neighbors(hand) ==
  IF Total(hand) % 3 = 1 THEN {AddTile(k, hand) : k \in {j \in Kinds : hand[j] < 4}}
  ELSE {[hand EXCEPT ![k] = @ - 1] : k \in {j \in Kinds : hand[j] > 0}}
LookedUp(hand, m) == {<<Counts(hand, first, IF first = East THEN 7 ELSE 9), m>> : first \in {0, 9, 18, East}}
Needed(d) ==
  LET hand == to_hand(d.hand)
  IN  UNION {LookedUp(h, 4 - Len(d.melds)) : h \in {hand} \cup IF d.melds = << >> THEN {} ELSE Neighbors(hand)}
ASSUME LookupsAssumption == \A d \in Documents : Accepted(d) => Needed(d) \subseteq Lookups

-----------------------------------------------------------------------------
(* calculate_result, and what build_success_response writes.               *)

All == {"StandardHand", "SevenPairs", "ThirteenOrphans"}

calculate_result(r) ==
  LET Answer(shanten) ==
      [shanten |-> shanten[All], regular_shanten |-> shanten[{"StandardHand"}],
       seven_pairs_shanten |-> shanten[{"SevenPairs"}],
       thirteen_orphans_shanten |-> shanten[{"ThirteenOrphans"}],
       enable_reddora |-> r.enable_reddora,
       sum |-> MapThenSumSet(LAMBDA k : r.wall[k], Kinds),
       t_min |-> 1, t_max |-> 18,
       calc_stats |-> shanten[All] <= 3,
       root |-> IF num_tiles(r) + 3 * Len(r.melds) = 13 THEN "draw_node" ELSE "discard_node"]
  IN  Answer([type \in {All} \cup {{t} : t \in All} |-> calc(r.hand, Len(r.melds), type, r.game_mode).shanten])

\* Mutant of serialize_input: a red five is also written as a five.
InputWithBoth(r) ==
  [game_mode |-> r.game_mode, dora_indicators |-> r.dora_indicators,
   hand |-> FlattenSeq([i \in 1..37 |-> Repeat(i - 1, r.hand[i - 1])]),
   melds |-> r.melds, nuki_count |-> r.nuki_count, wall |-> r.wall]

\* The hand is written out again tile by tile, a red five as a red five only.  The options
\* of the request are not among its input.
serialize_input(r) ==
  LET written(c) == r.hand[c] - MapThenSumSet(LAMBDA red : IF to_normal(red) = c THEN r.hand[red] ELSE 0, Reds)
  IN  [game_mode |-> r.game_mode, dora_indicators |-> r.dora_indicators,
       hand |-> FlattenSeq([i \in 1..37 |-> Repeat(i - 1, written(i - 1))]),
       melds |-> r.melds, nuki_count |-> r.nuki_count, wall |-> r.wall]

build_success_response(r, found) ==
  [input |-> serialize_input(r),
   config |-> [enable_reddora |-> found.enable_reddora, t_min |-> found.t_min, t_max |-> found.t_max,
               sum |-> found.sum, calc_stats |-> found.calc_stats]]

-----------------------------------------------------------------------------
None == << >>

Init ==
  /\ doc \in Documents
  /\ phase = "parsed" /\ req = None /\ result = None /\ answer = None

\* An exception: the answer is an error response.
Refuse == phase' = "refused" /\ UNCHANGED <<doc, req, result, answer>>

MakeRequest ==
  /\ phase = "parsed"
  /\ LET r == make_request(doc)
     IN  IF check_hand(r.hand) THEN phase' = "made" /\ req' = r /\ UNCHANGED <<doc, result, answer>>
         ELSE Refuse

\* One validation after the other.
Validate(from, valid, to) ==
  /\ phase = from
  /\ IF valid THEN phase' = to /\ UNCHANGED <<doc, req, result, answer>> ELSE Refuse

\* Mutant of Calculate: a complete hand is calculated too.
CalculateWins ==
  /\ phase = "valid"
  /\ phase' = "calculated" /\ result' = calculate_result(req) /\ UNCHANGED <<doc, req, answer>>

Calculate ==
  /\ phase = "valid"
  /\ \E c \in {calculate_result(req)} :
       IF c.shanten = -1 THEN Refuse       \* the hand is complete already
       ELSE phase' = "calculated" /\ result' = c /\ UNCHANGED <<doc, req, answer>>

Respond ==
  /\ phase = "calculated"
  /\ phase' = "answered" /\ answer' = build_success_response(req, result)
  /\ UNCHANGED <<doc, req, result>>

Next ==
  \/ MakeRequest
  \/ Validate("made", validate_melds(req), "melds")
  \/ Validate("melds", validate_sanma_tiles(req), "sanma")
  \/ Validate("sanma", validate_tile_counts(req), "valid")
  \/ Calculate
  \/ Respond

Spec == Init /\ [][Next]_vars

-----------------------------------------------------------------------------
(* Properties.                                                             *)

\* Nothing is overdrawn in an accepted request: hand, melds, indicators, extracted norths
\* and wall hold at most four of each kind, a red five counted as a five, and with red
\* fives at most one of each; in sanma none of them is a tile sanma is played without.
\* Kinds and red fives are bounded one by one, and so a generated wall (create_wall) has a
\* red five beyond its fives, a negative count of ordinary fives, in exactly one case:
\* four ordinary fives are shown.  That request is accepted, and no table is like it.
NothingIsOverdrawn ==
  phase = "valid" =>
    LET shown == doc.hand \o MeldTiles(doc) \o doc.dora_indicators \o Repeat(North, doc.nuki_count)
        count == to_hand(shown)
    IN  \A c \in Codes :
          /\ req.wall[c] \in 0..4
          /\ c \in Kinds => count[c] + req.wall[c] <= 4
          /\ c \in Reds /\ req.enable_reddora => count[c] + req.wall[c] <= 1
          /\ req.game_mode = Sanma /\ is_sanma_disabled(c) => count[c] = 0 /\ req.wall[c] = 0
          /\ c \in Reds /\ req.enable_reddora /\ doc.wall = << >> =>
               LET five == to_normal(c)
               IN  to_separated_count(req.wall)[five] < 0 <=> count[five] - count[c] = 4

\* What a client can ask with what it was answered: the input repeated, the option taken
\* from the configuration.
AskedAgain(a) ==
  [game_mode |-> a.input.game_mode, dora_indicators |-> a.input.dora_indicators, hand |-> a.input.hand,
   melds |-> a.input.melds, nuki_count |-> a.input.nuki_count,
   enable_reddora |-> a.config.enable_reddora, wall |-> a.input.wall]

\* The input that an answer repeats is the input it answers: asked again, with the wall
\* spelled out now and the options the answer states beside it, it is accepted and makes
\* the same request.
AnswerRepeatsInput ==
  phase = "answered" => Accepted(AskedAgain(answer)) /\ make_request(AskedAgain(answer)) = req

\* A hand is complete: one group of tiles holds the pair, the others split into groups.
IsComplete(hand, m) ==
  LET sum(S) == MapThenSumSet(LAMBDA k : hand[k], S)
      areas == {Suit(d) : d \in 0..2} \cup {Honors}
  IN  /\ Total(hand) = 3 * m + 2
      /\ Cardinality({S \in areas : sum(S) % 3 = 2}) = 1
      /\ \A d \in 0..2 : SuitPatterns(hand, d) # {}
      /\ HonorPatterns(hand) # {}

\* The calculators and the hand separator agree on which hands are complete: no
\* statistics are worked out for a hand that could be declared, and no hand that
\* cannot is turned away.  (Types are taken one by one for hands without melds.)
CompleteIsRefused ==
  /\ phase \in {"calculated", "answered"} =>
       /\ ~IsComplete(req.hand, 4 - Len(req.melds))
       /\ Len(req.melds) = 0 => Cardinality({k \in Kinds : req.hand[k] = 2}) # 7
       /\ Len(req.melds) = 0 /\ num_tiles(req) = 14 =>
            ~\A k \in Kinds : is_terminal_or_honor(k) <=> req.hand[k] > 0
  /\ phase = "refused" /\ req # None /\ Accepted(doc) =>
       \/ IsComplete(req.hand, 4 - Len(req.melds))
       \/ Len(req.melds) = 0 /\ Cardinality({k \in Kinds : req.hand[k] = 2}) = 7
       \/ Len(req.melds) = 0 /\ num_tiles(req) = 14
            /\ \A k \in Kinds : is_terminal_or_honor(k) <=> req.hand[k] > 0

\* The types a hand is examined for on its own: those its tables are computed for.
Types(r) == IF Len(r.melds) > 0 THEN {All}
            ELSE {{"SevenPairs"}, {"ThirteenOrphans"}, {"SevenPairs", "ThirteenOrphans"}}

\* The answers mean what they say, for every type of hand.  Drawing a tile brings a hand
\* nearer exactly if the tile is among the necessary ones, and then by one; discarding a
\* tile costs nothing exactly if it is among the unnecessary ones, and otherwise one.
\* With a complete hand as -1 this makes the number what it is said to be, the draws
\* that are missing.
TilesMoveTheHand ==
  phase = "valid" =>
    \A type \in Types(req) :
      LET drawing == num_tiles(req) % 3 = 1
          movable == IF drawing THEN {k \in Kinds : req.hand[k] < 4 /\ ~(req.game_mode = Sanma /\ is_sanma_disabled(k))}
                     ELSE {k \in Kinds : req.hand[k] > 0}
          Moved(k) == IF drawing THEN AddTile(k, req.hand) ELSE [req.hand EXCEPT ![k] = @ - 1]
          Due(before, k) == IF drawing THEN before.shanten - (IF k \in before.wait THEN 1 ELSE 0)
                            ELSE before.shanten + (IF k \in before.disc THEN 0 ELSE 1)
          answer_to == [hand \in {req.hand} \cup {Moved(k) : k \in movable} |->
                          calc(hand, Len(req.melds), type, req.game_mode)]
          Moves(answers) == \A k \in movable : answers[Moved(k)].shanten = Due(answers[req.hand], k)
      IN  Moves(answer_to)

\* The tables and the joining of suits find what comparing the hand with all complete
\* hands finds, whichever way the suits are joined.
OneGroup == INSTANCE HandShape WITH Kinds <- 0..33, NumGroups <- 1
CalculatorsFindTheClosest ==
  phase = "valid" /\ req.game_mode = Yonma /\ Len(req.melds) = 3 =>
    LET Agree(found, shanten, closest) ==
          /\ \A w \in closest : OneGroup!Missing(req.hand, w) = found.shanten + 1
          /\ shanten = found.shanten
          /\ found.wait = {k \in Kinds : \E w \in closest : w[k] > req.hand[k]}
          /\ found.disc = {k \in Kinds : \E w \in closest : w[k] < req.hand[k]}
    IN  Agree(calc_regular(req.hand, 3, Yonma), calc_regular_shanten(req.hand, 3, Yonma), OneGroup!Closest(req.hand))

\* The hand-written sanma table is the one that create_table computes for two kinds of
\* tile that make no sequences.
SanmaTableIsComputed ==
  phase = "valid" /\ req.game_mode = Sanma =>
    LET patterns == WinPatterns(2, triplets(2))
        kind == [k \in {0, 1} |-> 8 * k]
    IN  \A a, b \in 0..4 : \A i \in Indices(4) :
          LET e == Entry([k \in {0, 1} |-> IF k = 0 THEN a ELSE b], patterns[i])
          IN  sanma_manzu_table[1 + sanma_manzu_hash(a, b)][i]
                = [dist |-> e.dist, wait |-> {kind[k] : k \in e.wait}, disc |-> {kind[k] : k \in e.disc}]

\* There is a wall left at every turn for which probabilities are worked out: the
\* divisor sum - t is zero at none of them.
TurnsFitTheWall ==
  phase = "calculated" /\ result.calc_stats => \A t \in result.t_min..result.t_max - 1 : result.sum # t
=============================================================================
