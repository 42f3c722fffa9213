---------------------------- MODULE Requests_proofs ----------------------------
(***************************************************************************)
(* Theorems about requests, for whatever documents the schema accepts.     *)
(* They rest on what HandSeparator_proofs says of lists of tiles.          *)
(* Induction is by a smallest counterexample.  The last theorems are about *)
(* the calculators: what the tables say of each suit, joined, is true of   *)
(* the hand, a tile drawn or discarded does what the answer says, the      *)
(* table written by hand is the computed one, and the separator splits     *)
(* the hands that the calculators find complete.                           *)
(***************************************************************************)
EXTENDS Requests, HandSeparator_proofs

-----------------------------------------------------------------------------
(* Requests.                                                               *)

RequestRecords ==
  [game_mode : {Yonma, Sanma}, dora_indicators : Seq(Codes), hand : [Codes -> Nat], melds : Seq(MeldRecords),
   nuki_count : 0..4, enable_reddora : BOOLEAN, wall : [Codes -> Int]]

LEMMA MeldsAreCodes ==
  ASSUME NEW r, r.melds \in Seq(MeldRecords)
  PROVE  MeldTiles(r) \in Seq(Codes)
<1>1. PICK Q : Q = [i \in DOMAIN r.melds |-> r.melds[i].tiles]  OBVIOUS
<1>2. PICK n \in Nat : n = Len(r.melds) /\ DOMAIN r.melds = 1..n /\ \A i \in 1..n : r.melds[i] \in MeldRecords
  OBVIOUS
<1>3. \A i \in 1..n : r.melds[i].tiles \in Seq(Codes)  BY <1>2 DEF MeldRecords
<1>4. Q \in Seq(Seq(Codes))  BY <1>1, <1>2, <1>3
<1>5. MeldTiles(r) = FlattenSeq(Q)  BY <1>1, Zenon DEF MeldTiles
<1>. QED  BY <1>4, <1>5, FlattenIsList

\* How often a code is on the table besides the extracted norths.
Used(r, c) == r.hand[c] + Tally(MeldTiles(r), c) + Tally(r.dora_indicators, c)
Extracted(r, c) == IF c = North THEN r.nuki_count ELSE 0

LEMMA WallOf ==
  ASSUME NEW r, r.hand \in [Codes -> Nat], r.melds \in Seq(MeldRecords),
         r.dora_indicators \in Seq(Codes), r.nuki_count \in 0..4
  PROVE  /\ create_wall(r) \in [Codes -> Int]
         /\ \A c \in Codes :
              /\ Used(r, c) \in Nat /\ r.hand[c] <= Used(r, c)
              /\ create_wall(r)[c] =
                   (IF (r.game_mode = Sanma /\ is_sanma_disabled(c)) \/ (is_red(c) /\ ~r.enable_reddora) THEN 0
                    ELSE (IF is_red(c) THEN 1 ELSE 4) - Used(r, c)) - Extracted(r, c)
<1>1. PICK melds, indicators, used :
        /\ melds = to_hand(MeldTiles(r)) /\ indicators = to_hand(r.dora_indicators)
        /\ used = [c \in Codes |-> r.hand[c] + melds[c] + indicators[c]]
  OBVIOUS
<1>2. /\ melds \in [Codes -> Nat] /\ \A c \in Codes : melds[c] = Tally(MeldTiles(r), c)
      /\ indicators \in [Codes -> Nat] /\ \A c \in Codes : indicators[c] = Tally(r.dora_indicators, c)
  BY <1>1, MeldsAreCodes, HandCounts
<1>3. /\ used \in [Codes -> Nat]
      /\ \A c \in Codes : used[c] = Used(r, c) /\ Used(r, c) \in Nat /\ r.hand[c] <= Used(r, c)
  BY <1>1, <1>2 DEF Used
<1>4. PICK left :
        left = [c \in Codes |->
                  IF (r.game_mode = Sanma /\ is_sanma_disabled(c)) \/ (is_red(c) /\ ~r.enable_reddora) THEN 0
                  ELSE (IF is_red(c) THEN 1 ELSE 4) - used[c]]
  OBVIOUS
<1>5. left \in [Codes -> Int]  BY <1>3, <1>4
<1>6. create_wall(r) = [left EXCEPT ![North] = @ - r.nuki_count]
  BY <1>1, <1>4, Zenon DEF create_wall
<1>7. North \in Codes  BY DEF North, Codes
<1>8. /\ create_wall(r) \in [Codes -> Int]
      /\ \A c \in Codes : create_wall(r)[c] = left[c] - Extracted(r, c)
  BY <1>5, <1>6, <1>7 DEF Extracted
<1>. QED  BY <1>3, <1>4, <1>8

LEMMA RequestMade ==
  ASSUME NEW d \in DocumentRecords
  PROVE  LET r == make_request(d)
         IN  /\ r \in RequestRecords
             /\ r.hand = to_hand(d.hand) /\ r.wall = (IF d.wall = << >> THEN create_wall(r) ELSE d.wall)
             /\ r.game_mode = d.game_mode /\ r.dora_indicators = d.dora_indicators /\ r.melds = d.melds
             /\ r.nuki_count = d.nuki_count /\ r.enable_reddora = d.enable_reddora
<1>1. PICK r : r = [d EXCEPT !.hand = to_hand(d.hand)]  OBVIOUS
<1>2. PICK w : w = create_wall(r)  OBVIOUS
<1>3. to_hand(d.hand) \in [Codes -> Nat]  BY HandCounts DEF DocumentRecords
<1>4. /\ r.hand = to_hand(d.hand) /\ r.game_mode = d.game_mode /\ r.dora_indicators = d.dora_indicators
      /\ r.melds = d.melds /\ r.nuki_count = d.nuki_count /\ r.enable_reddora = d.enable_reddora
      /\ r.wall = d.wall
  BY <1>1 DEF DocumentRecords
<1>5. /\ d.game_mode \in {Yonma, Sanma} /\ d.dora_indicators \in Seq(Codes) /\ d.melds \in Seq(MeldRecords)
      /\ d.nuki_count \in 0..4 /\ d.enable_reddora \in BOOLEAN
      /\ d.wall = << >> \/ d.wall \in [Codes -> 0..4]
  BY DEF DocumentRecords
<1>6. w \in [Codes -> Int]  BY <1>2, <1>3, <1>4, <1>5, WallOf
<1>7. PICK q : q = make_request(d)  OBVIOUS
<1>8. q = IF d.wall = << >> THEN [r EXCEPT !.wall = w] ELSE r  BY <1>1, <1>2, <1>7, Zenon DEF make_request
<1>9. q = [game_mode |-> d.game_mode, dora_indicators |-> d.dora_indicators, hand |-> to_hand(d.hand),
           melds |-> d.melds, nuki_count |-> d.nuki_count, enable_reddora |-> d.enable_reddora,
           wall |-> IF d.wall = << >> THEN w ELSE d.wall]
  BY <1>1, <1>8 DEF DocumentRecords
<1>10. q \in RequestRecords
  <2>1. d.wall = << >> \/ d.wall \in [Codes -> Int]  BY <1>5
  <2>2. (IF d.wall = << >> THEN w ELSE d.wall) \in [Codes -> Int]  BY <1>6, <2>1, Zenon
  <2>. QED  BY <1>3, <1>5, <1>9, <2>2 DEF RequestRecords
<1>11. create_wall(q) = w
  <2>1. /\ q.hand = r.hand /\ q.game_mode = r.game_mode /\ q.dora_indicators = r.dora_indicators
        /\ q.melds = r.melds /\ q.nuki_count = r.nuki_count /\ q.enable_reddora = r.enable_reddora
    BY <1>4, <1>9
  <2>. QED  BY <1>2, <2>1, Zenon DEF create_wall, MeldTiles
<1>. QED  BY <1>7, <1>9, <1>10, <1>11

\* What has been found out about a request so far.
ReqInv ==
  /\ doc \in Documents
  /\ phase \in {"parsed", "made", "melds", "sanma", "valid", "calculated", "answered", "refused"}
  /\ phase \in {"made", "melds", "sanma", "valid", "calculated", "answered"} =>
       req = make_request(doc) /\ check_hand(req.hand)
  /\ phase \in {"melds", "sanma", "valid", "calculated", "answered"} => validate_melds(req)
  /\ phase \in {"sanma", "valid", "calculated", "answered"} => validate_sanma_tiles(req)
  /\ phase \in {"valid", "calculated", "answered"} => validate_tile_counts(req)
  /\ phase = "calculated" => result.enable_reddora = req.enable_reddora
  /\ phase = "answered" => answer.input = serialize_input(req) /\ answer.config.enable_reddora = req.enable_reddora

LEMMA ResultHasOption ==
  ASSUME NEW r
  PROVE  calculate_result(r).enable_reddora = r.enable_reddora
<1>1. PICK f : f = [type \in {All} \cup {{t} : t \in All} |-> calc(r.hand, Len(r.melds), type, r.game_mode).shanten]  OBVIOUS
<1>. QED  BY <1>1 DEF calculate_result

LEMMA ResponseParts ==
  ASSUME NEW r, NEW found
  PROVE  /\ build_success_response(r, found).input = serialize_input(r)
         /\ build_success_response(r, found).config.enable_reddora = found.enable_reddora
BY DEF build_success_response

\* An answer is given only after every validation, and about the request they passed.
THEOREM ReqInvHolds == Spec => []ReqInv
<1>1. Init => ReqInv  BY DEF Init, ReqInv
<1>2. ReqInv /\ [Next]_vars => ReqInv'
  <2>1. SUFFICES ASSUME ReqInv, [Next]_vars  PROVE ReqInv'  OBVIOUS
  <2>2. CASE MakeRequest  BY <2>1, <2>2 DEF ReqInv, MakeRequest, Refuse
  <2>3. CASE Validate("made", validate_melds(req), "melds")  BY <2>1, <2>3 DEF ReqInv, Validate, Refuse
  <2>4. CASE Validate("melds", validate_sanma_tiles(req), "sanma")  BY <2>1, <2>4 DEF ReqInv, Validate, Refuse
  <2>5. CASE Validate("sanma", validate_tile_counts(req), "valid")  BY <2>1, <2>5 DEF ReqInv, Validate, Refuse
  <2>6. CASE Calculate
    <3>1. /\ phase = "valid" /\ doc' = doc /\ req' = req /\ answer' = answer
          /\ phase' = "refused" \/ (phase' = "calculated" /\ result' = calculate_result(req))
      BY <2>6 DEF Calculate, Refuse
    <3>2. phase' = "calculated" => result'.enable_reddora = req.enable_reddora  BY <3>1, ResultHasOption, Zenon
    <3>. QED  BY <2>1, <3>1, <3>2 DEF ReqInv
  <2>7. CASE Respond
    <3>1. /\ phase = "calculated" /\ phase' = "answered" /\ doc' = doc /\ req' = req
          /\ answer' = build_success_response(req, result)
      BY <2>7 DEF Respond
    <3>2. result.enable_reddora = req.enable_reddora  BY <2>1, <3>1 DEF ReqInv
    <3>3. answer'.input = serialize_input(req) /\ answer'.config.enable_reddora = req.enable_reddora
      BY <3>1, <3>2, ResponseParts, Zenon
    <3>. QED  BY <2>1, <3>1, <3>3 DEF ReqInv
  <2>8. CASE UNCHANGED vars  BY <2>1, <2>8 DEF ReqInv, vars
  <2>. QED  BY <2>1, <2>2, <2>3, <2>4, <2>5, <2>6, <2>7, <2>8 DEF Next
<1>. QED  BY <1>1, <1>2, PTL DEF Spec

-----------------------------------------------------------------------------
(* What is accepted is not overdrawn.                                      *)

\* A list without tiles that sanma is played without has none counted as one.
LEMMA DisabledAbsent ==
  ASSUME NEW s \in Seq(Codes), \A t \in ToSet(s) : ~is_sanma_disabled(t),
         NEW c \in Codes, is_sanma_disabled(c)
  PROVE  Tally(s, c) = 0
<1>1. ASSUME NEW i \in 1..Len(s), Counted(s[i], c)  PROVE FALSE
  <2>1. PICK t \in Codes : t = s[i]  OBVIOUS
  <2>2. ~is_sanma_disabled(t)  BY <2>1 DEF ToSet
  <2>3. t = c \/ (t \in Reds /\ to_normal(t) = c)  BY <1>1, <2>1 DEF Counted
  <2>. QED  BY <2>2, <2>3 DEF is_sanma_disabled, to_normal, Reds, Codes
<1>2. {i \in 1..Len(s) : Counted(s[i], c)} = {}  BY <1>1
<1>. QED  BY <1>2, CountsOf, FS_EmptySet

\* What can be seen of the table a document is about.
Shown(d) == d.hand \o MeldTiles(d) \o d.dora_indicators \o Repeat(North, d.nuki_count)

LEMMA ShownCounts ==
  ASSUME NEW d \in DocumentRecords, NEW c \in Codes
  PROVE  to_hand(Shown(d))[c] = Used(make_request(d), c) + Extracted(make_request(d), c)
<1>1. PICK r : r = make_request(d)  OBVIOUS
<1>2. /\ r.hand = to_hand(d.hand) /\ r.melds = d.melds /\ r.dora_indicators = d.dora_indicators
      /\ r.nuki_count = d.nuki_count
  BY <1>1, RequestMade
<1>3. PICK h, m, i, n : h = d.hand /\ m = MeldTiles(d) /\ i = d.dora_indicators /\ n = d.nuki_count  OBVIOUS
<1>4. h \in Seq(Codes) /\ m \in Seq(Codes) /\ i \in Seq(Codes) /\ n \in 0..4
  BY <1>3, MeldsAreCodes DEF DocumentRecords
<1>5. MeldTiles(r) = m  BY <1>2, <1>3, Zenon DEF MeldTiles
<1>6. North \in Codes /\ n \in Nat  BY <1>4 DEF North, Codes
<1>7. PICK x : x = Repeat(North, n)  OBVIOUS
<1>8. x \in Seq(Codes) /\ Tally(x, c) = n * One(North, c)  BY <1>6, <1>7, CountRepeat
<1>9. n * One(North, c) = (IF c = North THEN n ELSE 0)
  <2>1. One(North, c) = IF c = North THEN 1 ELSE 0  BY DEF One, Counted, North, Reds
  <2>. QED  BY <1>6, <2>1
<1>10. PICK hm \in Seq(Codes) : hm = h \o m  BY <1>4, ConcatProperties
<1>11. PICK hmi \in Seq(Codes) : hmi = hm \o i  BY <1>4, <1>10, ConcatProperties
<1>12. PICK all \in Seq(Codes) : all = hmi \o x  BY <1>8, <1>11, ConcatProperties
<1>13. Tally(hm, c) = Tally(h, c) + Tally(m, c)  BY <1>4, <1>10, CountConcat
<1>14. Tally(hmi, c) = Tally(hm, c) + Tally(i, c)  BY <1>4, <1>11, CountConcat
<1>15. Tally(all, c) = Tally(hmi, c) + Tally(x, c)  BY <1>8, <1>12, CountConcat
<1>16. all = Shown(d)  BY <1>3, <1>7, <1>10, <1>11, <1>12, Zenon DEF Shown
<1>17. to_hand(all)[c] = Tally(all, c) /\ to_hand(h)[c] = Tally(h, c)  BY <1>4, HandCounts
<1>18. Used(r, c) = Tally(h, c) + Tally(m, c) + Tally(i, c)  BY <1>2, <1>3, <1>5, <1>17, Zenon DEF Used
<1>19. Extracted(r, c) = IF c = North THEN n ELSE 0  BY <1>2, <1>3 DEF Extracted
<1>20. /\ Tally(h, c) \in Nat /\ Tally(m, c) \in Nat /\ Tally(i, c) \in Nat /\ Tally(x, c) \in Nat
  BY <1>4, <1>8, CountsOf
<1>. QED  BY <1>1, <1>8, <1>9, <1>13, <1>14, <1>15, <1>16, <1>17, <1>18, <1>19, <1>20

LEMMA SanmaAbsent ==
  ASSUME NEW d \in DocumentRecords, NEW r, r = make_request(d), r.game_mode = Sanma, validate_sanma_tiles(r),
         NEW c \in Codes, is_sanma_disabled(c)
  PROVE  to_hand(Shown(d))[c] = 0
<1>1. r \in RequestRecords  BY RequestMade
<1>2. Extracted(r, c) = 0  BY DEF Extracted, is_sanma_disabled, North
<1>3. r.hand[c] = 0
  <2>1. ~(r.hand[c] > 0)  BY DEF validate_sanma_tiles, has_sanma_disabled_tiles
  <2>2. r.hand[c] \in Nat  BY <1>1 DEF RequestRecords
  <2>. QED  BY <2>1, <2>2
<1>4. Tally(MeldTiles(r), c) = 0
  <2>1. \A t \in ToSet(MeldTiles(r)) : ~is_sanma_disabled(t)  BY DEF validate_sanma_tiles
  <2>2. MeldTiles(r) \in Seq(Codes)  BY <1>1, MeldsAreCodes DEF RequestRecords
  <2>. QED  BY <2>1, <2>2, DisabledAbsent
<1>5. Tally(r.dora_indicators, c) = 0
  <2>1. \A t \in ToSet(r.dora_indicators) : ~is_sanma_disabled(t)  BY DEF validate_sanma_tiles
  <2>2. r.dora_indicators \in Seq(Codes)  BY <1>1 DEF RequestRecords
  <2>. QED  BY <2>1, <2>2, DisabledAbsent
<1>6. to_hand(Shown(d))[c] = Used(r, c) + Extracted(r, c)  BY ShownCounts
<1>. QED  BY <1>2, <1>3, <1>4, <1>5, <1>6 DEF Used

\* Of the fives of a suit one is red.
LEMMA SeparatedFive ==
  ASSUME NEW w \in [Codes -> Int], NEW c \in Reds
  PROVE  to_separated_count(w)[to_normal(c)] = w[to_normal(c)] - (IF w[c] > 0 THEN 1 ELSE 0)
<1>1. PICK five, R : five = to_normal(c) /\ R = {r \in Reds : to_normal(r) = five /\ five # r /\ w[r] > 0}  OBVIOUS
<1>2. five \in Codes /\ five \notin Reds /\ \A r \in Reds : to_normal(r) = five <=> r = c
  BY <1>1 DEF to_normal, Reds, Codes
<1>3. R = IF w[c] > 0 THEN {c} ELSE {}  BY <1>1, <1>2
<1>4. Cardinality(R) = IF w[c] > 0 THEN 1 ELSE 0  BY <1>3, FS_EmptySet, FS_Singleton
<1>5. to_separated_count(w)[five] = w[five] - Cardinality(R)  BY <1>1, <1>2 DEF to_separated_count
<1>. QED  BY <1>1, <1>4, <1>5

\* No kind, no red five and no tile that sanma is played without is there more often than
\* the tiles of the game; a generated wall lacks an ordinary five in one case only.
THEOREM NothingIsOverdrawnCorrect == Spec => []NothingIsOverdrawn
<1>1. ReqInv => NothingIsOverdrawn
  <2>1. SUFFICES ASSUME ReqInv, phase = "valid", NEW c \in Codes, NEW k, k = to_hand(Shown(doc))[c]
                 PROVE  /\ req.wall[c] \in 0..4
                        /\ c \in Kinds => k + req.wall[c] <= 4
                        /\ c \in Reds /\ req.enable_reddora => k + req.wall[c] <= 1
                        /\ req.game_mode = Sanma /\ is_sanma_disabled(c) => k = 0 /\ req.wall[c] = 0
                        /\ c \in Reds /\ req.enable_reddora /\ doc.wall = << >> =>
                             (to_separated_count(req.wall)[to_normal(c)] < 0 <=>
                                to_hand(Shown(doc))[to_normal(c)] - k = 4)
    BY Zenon DEF NothingIsOverdrawn, Shown
  <2>2. /\ doc \in DocumentRecords /\ req = make_request(doc) /\ check_hand(req.hand)
        /\ validate_sanma_tiles(req) /\ validate_tile_counts(req)
    BY <2>1, SchemaAssumption DEF ReqInv
  <2>3. PICK w : w = create_wall(req)  OBVIOUS
  <2>4. /\ req \in RequestRecords /\ req.hand = to_hand(doc.hand)
        /\ req.wall = (IF doc.wall = << >> THEN w ELSE doc.wall)
        /\ req.melds = doc.melds /\ req.dora_indicators = doc.dora_indicators
    BY <2>2, <2>3, RequestMade
  <2>5. /\ Used(req, c) \in Nat /\ req.hand[c] <= Used(req, c)
        /\ w[c] = (IF (req.game_mode = Sanma /\ is_sanma_disabled(c)) \/ (is_red(c) /\ ~req.enable_reddora) THEN 0
                   ELSE (IF is_red(c) THEN 1 ELSE 4) - Used(req, c)) - Extracted(req, c)
    BY <2>3, <2>4, WallOf DEF RequestRecords
  <2>6. Extracted(req, c) \in 0..4  BY <2>4 DEF RequestRecords, Extracted
  <2>7. k = Used(req, c) + Extracted(req, c)  BY <2>1, <2>2, ShownCounts
  <2>8. w[c] >= 0 /\ req.wall[c] <= w[c]  BY <2>2, <2>3 DEF validate_tile_counts
  <2>9. w[c] \in 0..4  BY <2>5, <2>6, <2>8
  <2>10. req.wall[c] \in 0..4
    <3>1. CASE doc.wall = << >>  BY <2>4, <2>9, <3>1
    <3>2. CASE doc.wall # << >>
      <4>1. doc.wall \in [Codes -> 0..4]  BY <2>2, <3>2 DEF DocumentRecords
      <4>. QED  BY <2>4, <3>2, <4>1
    <3>. QED  BY <3>1, <3>2
  <2>11. ASSUME req.game_mode = Sanma, is_sanma_disabled(c)  PROVE k = 0 /\ req.wall[c] = 0
    <3>1. k = 0  BY <2>1, <2>2, <2>11, SanmaAbsent
    <3>2. Extracted(req, c) = 0  BY <2>11 DEF Extracted, is_sanma_disabled, North
    <3>3. w[c] = 0  BY <2>5, <2>11, <3>2
    <3>. QED  BY <2>8, <2>10, <3>1, <3>3
  <2>12. c \in Kinds => ~is_red(c)  BY DEF Kinds, is_red, Reds
  <2>13. c \in Kinds => k + req.wall[c] <= 4
    <3>1. CASE req.game_mode = Sanma /\ is_sanma_disabled(c)  BY <2>11, <3>1
    <3>2. CASE ~(req.game_mode = Sanma /\ is_sanma_disabled(c))
      <4>1. c \in Kinds => w[c] = 4 - Used(req, c) - Extracted(req, c)  BY <2>5, <2>6, <2>12, <3>2
      <4>2. Used(req, c) \in Nat /\ Extracted(req, c) \in Nat /\ req.wall[c] \in Nat  BY <2>5, <2>6, <2>10
      <4>. QED  BY <2>7, <2>8, <4>1, <4>2
    <3>. QED  BY <3>1, <3>2
  <2>14. c \in Reds /\ req.enable_reddora => k + req.wall[c] <= 1
    <3>1. CASE req.game_mode = Sanma /\ is_sanma_disabled(c)  BY <2>11, <3>1
    <3>2. CASE ~(req.game_mode = Sanma /\ is_sanma_disabled(c))
      <4>1. c \in Reds /\ req.enable_reddora => w[c] = 1 - Used(req, c) - Extracted(req, c)
        BY <2>5, <2>6, <3>2 DEF is_red
      <4>2. Used(req, c) \in Nat /\ Extracted(req, c) \in Nat /\ req.wall[c] \in Nat  BY <2>5, <2>6, <2>10
      <4>. QED  BY <2>7, <2>8, <4>1, <4>2
    <3>. QED  BY <3>1, <3>2
  <2>15. ASSUME c \in Reds, req.enable_reddora, doc.wall = << >>
         PROVE  to_separated_count(req.wall)[to_normal(c)] < 0 <=> to_hand(Shown(doc))[to_normal(c)] - k = 4
    <3>1. PICK five, n : five = to_normal(c) /\ n = to_hand(Shown(doc))[five]  OBVIOUS
    <3>2. /\ five \in Codes /\ ~is_red(five) /\ is_red(c) /\ five # North /\ c # North
          /\ is_sanma_disabled(five) <=> is_sanma_disabled(c)
      BY <2>15, <3>1 DEF to_normal, is_red, is_sanma_disabled, Reds, Codes, North
    <3>3. req.wall = w /\ w \in [Codes -> Int]  BY <2>4, <2>15 DEF RequestRecords
    <3>4. to_separated_count(w)[five] = w[five] - (IF w[c] > 0 THEN 1 ELSE 0)  BY <2>15, <3>1, <3>3, SeparatedFive
    <3>5. n = Used(req, five) + Extracted(req, five)  BY <2>2, <3>1, <3>2, ShownCounts
    <3>6. Extracted(req, five) = 0 /\ Extracted(req, c) = 0  BY <3>2 DEF Extracted
    <3>7. /\ Used(req, five) \in Nat
          /\ w[five] = (IF (req.game_mode = Sanma /\ is_sanma_disabled(five)) \/ (is_red(five) /\ ~req.enable_reddora) THEN 0
                        ELSE (IF is_red(five) THEN 1 ELSE 4) - Used(req, five)) - Extracted(req, five)
      BY <2>3, <2>4, <3>2, WallOf DEF RequestRecords
    <3>8. w[five] >= 0  BY <2>2, <2>3, <3>2 DEF validate_tile_counts
    <3>9. CASE req.game_mode = Sanma /\ is_sanma_disabled(c)
      <4>1. k = 0 /\ w[c] = 0 /\ w[five] = 0  BY <2>11, <3>2, <3>3, <3>6, <3>7, <3>9
      <4>2. n = 0  BY <2>2, <3>1, <3>2, <3>9, SanmaAbsent
      <4>. QED  BY <3>1, <3>3, <3>4, <4>1, <4>2
    <3>10. CASE ~(req.game_mode = Sanma /\ is_sanma_disabled(c))
      <4>1. w[five] = 4 - n  BY <3>2, <3>5, <3>6, <3>7, <3>10
      <4>2. w[c] = 1 - k /\ w[c] >= 0 /\ k \in Nat  BY <2>5, <2>7, <2>8, <2>15, <3>2, <3>6, <3>10
      <4>3. n \in Nat /\ n <= 4  BY <3>5, <3>6, <3>7, <3>8, <4>1
      <4>4. w[five] - (IF w[c] > 0 THEN 1 ELSE 0) < 0 <=> n - k = 4
        <5>1. w[c] > 0 <=> k = 0  BY <4>2
        <5>2. k \in {0, 1}  BY <4>2
        <5>. QED  BY <4>1, <4>3, <5>1, <5>2
      <4>. QED  BY <3>1, <3>3, <3>4, <4>4
    <3>. QED  BY <3>9, <3>10
  <2>. QED  BY <2>10, <2>11, <2>13, <2>14, <2>15
<1>. QED  BY <1>1, ReqInvHolds, PTL

-----------------------------------------------------------------------------
(* What is answered is what was asked.                                     *)

\* How many of a kind are the red one, as serialize_input adds it up.
RedsOf(h, c) == MapThenSumSet(LAMBDA red : IF to_normal(red) = c THEN h[red] ELSE 0, Reds)

Part(h, c, red) == IF to_normal(red) = c THEN h[red] ELSE 0
SumsUp(g, h, c) ==
  g = [T \in SUBSET Reds |-> IF T = {} THEN 0 ELSE Part(h, c, Chosen(T)) + g[T \ {Chosen(T)}]]

LEMMA RedsOfDef ==
  ASSUME NEW h, NEW c
  PROVE  RedsOf(h, c) = (CHOOSE g : SumsUp(g, h, c))[Reds]
BY Zenon DEF RedsOf, MapThenSumSet, MapThenFoldSet, SumsUp, Part, Chosen

LEMMA PartType ==
  ASSUME NEW h \in [Codes -> Nat], NEW c
  PROVE  Part(h, c, 34) \in Nat /\ Part(h, c, 35) \in Nat /\ Part(h, c, 36) \in Nat
BY DEF Part, Codes

\* The red five of a kind; 37 is none.
RedFive(c) == IF c = 4 THEN 34 ELSE IF c = 13 THEN 35 ELSE IF c = 22 THEN 36 ELSE 37
RedPart(h, c) == IF RedFive(c) = 37 THEN 0 ELSE h[RedFive(c)]

LEMMA SumExists ==
  ASSUME NEW h \in [Codes -> Nat], NEW c
  PROVE  \E g : SumsUp(g, h, c)
<1>1. PICK g : g = [T \in SUBSET Reds |-> (IF 34 \in T THEN Part(h, c, 34) ELSE 0) + (IF 35 \in T THEN Part(h, c, 35) ELSE 0)
                                          + (IF 36 \in T THEN Part(h, c, 36) ELSE 0)]
  OBVIOUS
<1>2. Reds = {34, 35, 36}  BY DEF Reds
<1>3. Part(h, c, 34) \in Nat /\ Part(h, c, 35) \in Nat /\ Part(h, c, 36) \in Nat  BY PartType
<1>4. ASSUME NEW T \in SUBSET Reds
      PROVE  g[T] = IF T = {} THEN 0 ELSE Part(h, c, Chosen(T)) + g[T \ {Chosen(T)}]
  <2>1. CASE T = {}  BY <1>1, <2>1
  <2>2. CASE T # {}
    <3>1. PICK x, U : x = Chosen(T) /\ U = T \ {x}  OBVIOUS
    <3>2. x \in T /\ U \in SUBSET Reds  BY <2>2, <3>1, ChosenIn
    <3>3. x = 34 \/ x = 35 \/ x = 36  BY <1>2, <3>2
    <3>4. g[T] = Part(h, c, x) + g[U]  BY <1>1, <1>3, <3>1, <3>2, <3>3
    <3>. QED  BY <2>2, <3>1, <3>4
  <2>. QED  BY <2>1, <2>2
<1>5. g = [T \in SUBSET Reds |-> g[T]]  BY <1>1
<1>6. g = [T \in SUBSET Reds |-> IF T = {} THEN 0 ELSE Part(h, c, Chosen(T)) + g[T \ {Chosen(T)}]]
  BY <1>4, <1>5, Zenon
<1>. QED  BY <1>6, Zenon DEF SumsUp

LEMMA SumIs ==
  ASSUME NEW h \in [Codes -> Nat], NEW c, NEW g, SumsUp(g, h, c)
  PROVE  g[Reds] = Part(h, c, 34) + Part(h, c, 35) + Part(h, c, 36)
<1>1. Reds = {34, 35, 36}  BY DEF Reds
<1>2. ASSUME NEW T \in SUBSET Reds, T # {}
      PROVE  \E x \in T : g[T] = Part(h, c, x) + g[T \ {x}]
  <2>1. g[T] = Part(h, c, Chosen(T)) + g[T \ {Chosen(T)}]  BY <1>2, Zenon DEF SumsUp
  <2>. QED  BY <1>2, <2>1, ChosenIn, Zenon
<1>3. g[{}] = 0
  <2>1. {} \in SUBSET Reds  OBVIOUS
  <2>. QED  BY <2>1, Zenon DEF SumsUp
<1>4. PICK x \in Reds : g[Reds] = Part(h, c, x) + g[Reds \ {x}]  BY <1>1, <1>2
<1>5. PICK y \in Reds \ {x} : g[Reds \ {x}] = Part(h, c, y) + g[(Reds \ {x}) \ {y}]
  <2>1. Reds \ {x} \in SUBSET Reds /\ Reds \ {x} # {}  BY <1>1
  <2>. QED  BY <1>2, <2>1
<1>6. PICK z \in (Reds \ {x}) \ {y} : g[(Reds \ {x}) \ {y}] = Part(h, c, z) + g[((Reds \ {x}) \ {y}) \ {z}]
  <2>1. (Reds \ {x}) \ {y} \in SUBSET Reds /\ (Reds \ {x}) \ {y} # {}  BY <1>1
  <2>. QED  BY <1>2, <2>1
<1>7. ((Reds \ {x}) \ {y}) \ {z} = {}  BY <1>1
<1>8. g[Reds] = Part(h, c, x) + (Part(h, c, y) + (Part(h, c, z) + 0))  BY <1>3, <1>4, <1>5, <1>6, <1>7
<1>9. Part(h, c, 34) \in Nat /\ Part(h, c, 35) \in Nat /\ Part(h, c, 36) \in Nat  BY PartType
<1>10. x \in {34, 35, 36} /\ y \in {34, 35, 36} \ {x} /\ z \in {34, 35, 36} \ {x, y}  BY <1>1
<1>. QED  BY <1>8, <1>9, <1>10

LEMMA RedsCount ==
  ASSUME NEW h \in [Codes -> Nat], NEW c \in Codes
  PROVE  RedsOf(h, c) = RedPart(h, c)
<1>1. PICK g : SumsUp(g, h, c) /\ RedsOf(h, c) = g[Reds]  BY RedsOfDef, SumExists, Zenon
<1>2. RedsOf(h, c) = Part(h, c, 34) + Part(h, c, 35) + Part(h, c, 36)  BY <1>1, SumIs
<1>3. /\ Part(h, c, 34) = (IF c = 4 THEN h[34] ELSE 0)
      /\ Part(h, c, 35) = (IF c = 13 THEN h[35] ELSE 0)
      /\ Part(h, c, 36) = (IF c = 22 THEN h[36] ELSE 0)
  BY DEF Part, Reds, to_normal
<1>4. h[34] \in Nat /\ h[35] \in Nat /\ h[36] \in Nat  BY DEF Codes
<1>. QED  BY <1>2, <1>3, <1>4 DEF RedPart, RedFive

\* The lists that serialize_input writes out, and how long they are.
Written(h, c) == h[c] - RedPart(h, c)
Listed(h) == [i \in 1..37 |-> Repeat(i - 1, h[i - 1] - RedsOf(h, i - 1))]

LEMMA SerializedHand ==
  ASSUME NEW h \in [Codes -> Nat], \A red \in Reds : h[red] <= h[to_normal(red)]
  PROVE  /\ FlattenSeq(Listed(h)) \in Seq(Codes)
         /\ to_hand(FlattenSeq(Listed(h))) = h
<1>1. PICK Q : Q = Listed(h)  OBVIOUS
<1>2. ASSUME NEW c \in Codes
      PROVE  /\ RedFive(c) # 37 => RedFive(c) \in Reds /\ to_normal(RedFive(c)) = c /\ RedFive(c) \in Codes
             /\ RedPart(h, c) \in Nat /\ Written(h, c) \in Nat
             /\ c \in Reds => Written(h, c) = h[c]
  <2>1. RedFive(c) # 37 => RedFive(c) \in Reds /\ to_normal(RedFive(c)) = c /\ RedFive(c) \in Codes
    BY DEF RedFive, Reds, to_normal, Codes
  <2>2. h[c] \in Nat  OBVIOUS
  <2>3. RedPart(h, c) \in Nat /\ RedPart(h, c) <= h[c]
    <3>1. CASE RedFive(c) = 37  BY <2>2, <3>1 DEF RedPart
    <3>2. CASE RedFive(c) # 37
      <4>1. PICK red \in Reds : red = RedFive(c) /\ to_normal(red) = c /\ red \in Codes  BY <2>1, <3>2
      <4>2. h[red] \in Nat /\ h[red] <= h[c]  BY <4>1
      <4>. QED  BY <3>2, <4>1, <4>2 DEF RedPart
    <3>. QED  BY <3>1, <3>2
  <2>4. c \in Reds => RedFive(c) = 37  BY DEF RedFive, Reds
  <2>. QED  BY <2>1, <2>2, <2>3, <2>4 DEF Written, RedPart
<1>3. ASSUME NEW i \in 1..37
      PROVE  /\ i - 1 \in Codes /\ Q[i] = Repeat(i - 1, Written(h, i - 1)) /\ Q[i] \in Seq(Codes)
             /\ \A d \in Codes : Tally(Q[i], d) = Written(h, i - 1) * One(i - 1, d)
  <2>1. PICK c \in Codes : c = i - 1  BY DEF Codes
  <2>2. Q[i] = Repeat(i - 1, h[i - 1] - RedsOf(h, i - 1))  BY <1>1, Zenon DEF Listed
  <2>3. RedsOf(h, c) = RedPart(h, c) /\ Written(h, c) \in Nat  BY <1>2, RedsCount
  <2>4. Q[i] = Repeat(c, Written(h, c))  BY <2>1, <2>2, <2>3, Zenon DEF Written
  <2>. QED  BY <2>1, <2>3, <2>4, CountRepeat
<1>4. Q \in Seq(Seq(Codes)) /\ Len(Q) = 37
  <2>1. DOMAIN Q = 1..37 /\ Q = [i \in 1..37 |-> Q[i]]  BY <1>1, Zenon DEF Listed
  <2>. QED  BY <1>3, <2>1
<1>5. PICK f : Flattened(f, Q, Codes) /\ FlattenSeq(Q) = f[37]
  <2>1. Len(Q) # 0  BY <1>4
  <2>2. PICK f : Flattened(f, Q, Codes) /\ FlattenSeq(Q) = f[Len(Q)]  BY <1>4, <2>1, FlattenPrefixes
  <2>. QED  BY <1>4, <2>2, Zenon
<1>6. /\ f[1] = Q[1]
      /\ \A i \in 1..37 : f[i] \in Seq(Codes)
      /\ \A i \in 1..37 : i # 1 => f[i] = f[i-1] \o Q[i]
  BY <1>4, <1>5, Zenon DEF Flattened
<1>7. ASSUME NEW d \in Codes  PROVE Tally(f[37], d) = h[d]
  <2>. DEFINE Due(i) == (IF d < i THEN Written(h, d) ELSE 0) + (IF RedFive(d) < i THEN RedPart(h, d) ELSE 0)
              F == {i \in 1..37 : Tally(f[i], d) # Due(i)}
  <2>1. /\ RedFive(d) \in 34..37 /\ RedFive(d) # d
        /\ \A c \in Codes : One(c, d) = IF c = d \/ c = RedFive(d) THEN 1 ELSE 0
    <3>1. RedFive(d) \in 34..37 /\ RedFive(d) # d  BY DEF RedFive, Codes
    <3>2. ASSUME NEW c \in Codes  PROVE One(c, d) = IF c = d \/ c = RedFive(d) THEN 1 ELSE 0
      BY DEF One, Counted, RedFive, Reds, to_normal, Codes
    <3>. QED  BY <3>1, <3>2
  <2>2. /\ RedPart(h, d) \in Nat /\ Written(h, d) \in Nat
        /\ RedFive(d) # 37 => RedFive(d) \in Codes /\ Written(h, RedFive(d)) = RedPart(h, d)
    <3>1. RedFive(d) # 37 => RedFive(d) \in Codes /\ Written(h, RedFive(d)) = h[RedFive(d)]  BY <1>2
    <3>. QED  BY <1>2, <3>1 DEF RedPart
  <2>3. ASSUME NEW i \in 1..37
        PROVE  /\ Tally(Q[i], d) \in Nat
               /\ Tally(Q[i], d) = IF i - 1 = d THEN Written(h, d)
                                   ELSE IF i - 1 = RedFive(d) THEN RedPart(h, d) ELSE 0
    <3>1. PICK c \in Codes : c = i - 1 /\ Tally(Q[i], d) = Written(h, c) * One(c, d) /\ Written(h, c) \in Nat
      BY <1>2, <1>3
    <3>2. CASE c = d
      <4>1. Written(h, c) * One(c, d) = Written(h, c)  BY <2>1, <3>1, <3>2
      <4>. QED  BY <3>1, <3>2, <4>1
    <3>3. CASE c # d /\ c = RedFive(d)
      <4>1. Written(h, c) * One(c, d) = Written(h, c)  BY <2>1, <3>1, <3>3
      <4>2. RedFive(d) # 37  BY <3>3 DEF Codes
      <4>. QED  BY <2>2, <3>1, <3>3, <4>1, <4>2
    <3>4. CASE c # d /\ c # RedFive(d)
      <4>1. Written(h, c) * One(c, d) = 0  BY <2>1, <3>1, <3>4
      <4>. QED  BY <3>1, <3>4, <4>1
    <3>. QED  BY <3>2, <3>3, <3>4
  <2>4. F = {}
    <3>1. SUFFICES ASSUME F # {} PROVE FALSE  OBVIOUS
    <3>2. F \in SUBSET Nat  OBVIOUS
    <3>3. PICK n \in F : \A m \in F : n <= m
      <4>. HIDE DEF F
      <4>. QED  BY <3>1, <3>2, MinOf
    <3>4. n \in 1..37 /\ Tally(f[n], d) # Due(n)  BY <3>3
    <3>5. n # 1
      <4>1. SUFFICES ASSUME n = 1 PROVE FALSE  OBVIOUS
      <4>2. Tally(f[1], d) = IF 0 = d THEN Written(h, d) ELSE 0
        <5>1. 1 \in 1..37 /\ 1 - 1 = 0  OBVIOUS
        <5>2. Tally(Q[1], d) = IF 0 = d THEN Written(h, d) ELSE IF 0 = RedFive(d) THEN RedPart(h, d) ELSE 0
          BY <2>3, <5>1
        <5>. QED  BY <1>6, <2>1, <5>2
      <4>3. Due(1) = IF 0 = d THEN Written(h, d) ELSE 0  BY <2>1, <2>2 DEF Codes
      <4>. QED  BY <3>4, <4>1, <4>2, <4>3
    <3>6. n - 1 \in 1..37 /\ ~(n <= n - 1)  BY <3>4, <3>5
    <3>7. n - 1 \notin F
      <4>. HIDE DEF F
      <4>. QED  BY <3>3, <3>6
    <3>8. Tally(f[n - 1], d) = Due(n - 1)  BY <3>6, <3>7
    <3>9. Tally(f[n], d) = Tally(f[n - 1], d) + Tally(Q[n], d)
      <4>1. f[n] = f[n - 1] \o Q[n]  BY <1>6, <3>4, <3>5
      <4>2. f[n - 1] \in Seq(Codes) /\ Q[n] \in Seq(Codes)  BY <1>3, <1>6, <3>4, <3>6
      <4>. QED  BY <4>1, <4>2, CountConcat
    <3>10. PICK q : q = Tally(Q[n], d)  OBVIOUS
    <3>11. q \in Nat /\ q = IF n - 1 = d THEN Written(h, d) ELSE IF n - 1 = RedFive(d) THEN RedPart(h, d) ELSE 0
      BY <2>3, <3>4, <3>10
    <3>12. Due(n) = Due(n - 1) + q  BY <2>1, <2>2, <3>4, <3>11 DEF Codes
    <3>. QED  BY <3>4, <3>8, <3>9, <3>10, <3>12
  <2>5. Tally(f[37], d) = Due(37)  BY <2>4
  <2>6. h[d] \in Nat  OBVIOUS
  <2>7. RedFive(d) = 37 => RedPart(h, d) = 0  BY DEF RedPart
  <2>8. Due(37) = Written(h, d) + RedPart(h, d)  BY <2>1, <2>2, <2>7 DEF Codes
  <2>. QED  BY <2>2, <2>5, <2>6, <2>8 DEF Written
<1>8. PICK s \in Seq(Codes) : s = FlattenSeq(Q) /\ s = f[37]
  <2>1. 37 \in 1..37  OBVIOUS
  <2>. QED  BY <1>5, <1>6, <2>1
<1>9. to_hand(s) \in [Codes -> Nat] /\ \A d \in Codes : to_hand(s)[d] = h[d]  BY <1>7, <1>8, HandCounts
<1>. QED  BY <1>1, <1>8, <1>9

LEMMA SerializedDef ==
  ASSUME NEW r
  PROVE  serialize_input(r) =
           [game_mode |-> r.game_mode, dora_indicators |-> r.dora_indicators,
            hand |-> FlattenSeq(Listed(r.hand)),
            melds |-> r.melds, nuki_count |-> r.nuki_count, wall |-> r.wall]
BY Zenon DEF serialize_input, Listed, RedsOf

\* The input that an answer repeats, asked again with the options stated beside it, is
\* accepted and makes the same request.
THEOREM AnswerRepeatsInputCorrect == Spec => []AnswerRepeatsInput
<1>1. ReqInv => AnswerRepeatsInput
  <2>1. SUFFICES ASSUME ReqInv, phase = "answered"
                 PROVE  Accepted(AskedAgain(answer)) /\ make_request(AskedAgain(answer)) = req
    BY Zenon DEF AnswerRepeatsInput
  <2>2. /\ doc \in DocumentRecords /\ req = make_request(doc) /\ check_hand(req.hand) /\ validate_melds(req)
        /\ validate_sanma_tiles(req) /\ validate_tile_counts(req)
        /\ answer.input = serialize_input(req) /\ answer.config.enable_reddora = req.enable_reddora
    BY <2>1, SchemaAssumption DEF ReqInv
  <2>3. req \in RequestRecords  BY <2>2, RequestMade
  <2>4. PICK h, s : h = req.hand /\ s = FlattenSeq(Listed(h))  OBVIOUS
  <2>5. h \in [Codes -> Nat] /\ req.wall \in [Codes -> Int]  BY <2>3, <2>4 DEF RequestRecords
  <2>6. \A red \in Reds : h[red] <= h[to_normal(red)]  BY <2>2, <2>4 DEF check_hand
  <2>7. s \in Seq(Codes) /\ to_hand(s) = h  BY <2>4, <2>5, <2>6, SerializedHand
  <2>8. PICK a : a = AskedAgain(answer)  OBVIOUS
  <2>9. a = [req EXCEPT !.hand = s]
    <3>1. answer.input = [game_mode |-> req.game_mode, dora_indicators |-> req.dora_indicators, hand |-> s,
                          melds |-> req.melds, nuki_count |-> req.nuki_count, wall |-> req.wall]
      BY <2>2, <2>4, SerializedDef, Zenon
    <3>2. a = [game_mode |-> req.game_mode, dora_indicators |-> req.dora_indicators, hand |-> s,
               melds |-> req.melds, nuki_count |-> req.nuki_count,
               enable_reddora |-> req.enable_reddora, wall |-> req.wall]
      BY <2>2, <2>8, <3>1 DEF AskedAgain
    <3>3. req = [game_mode |-> req.game_mode, dora_indicators |-> req.dora_indicators, hand |-> req.hand,
                 melds |-> req.melds, nuki_count |-> req.nuki_count,
                 enable_reddora |-> req.enable_reddora, wall |-> req.wall]
      BY <2>3 DEF RequestRecords
    <3>4. PICK g, i, m, n, e, w : /\ g = req.game_mode /\ i = req.dora_indicators /\ m = req.melds
                                  /\ n = req.nuki_count /\ e = req.enable_reddora /\ w = req.wall
      OBVIOUS
    <3>5. req = [game_mode |-> g, dora_indicators |-> i, hand |-> h, melds |-> m, nuki_count |-> n,
                 enable_reddora |-> e, wall |-> w]
      BY <2>4, <3>3, <3>4, Zenon
    <3>6. a = [game_mode |-> g, dora_indicators |-> i, hand |-> s, melds |-> m, nuki_count |-> n,
               enable_reddora |-> e, wall |-> w]
      BY <3>2, <3>4, Zenon
    <3>. QED  BY ONLY <3>5, <3>6
  <2>10. a.hand = s /\ a.wall = req.wall  BY <2>3, <2>9 DEF RequestRecords
  <2>11. a.wall # << >>
    <3>1. DOMAIN req.wall = Codes /\ 0 \in Codes /\ DOMAIN << >> = {}  BY <2>5 DEF Codes
    <3>. QED  BY <2>10, <3>1
  <2>12. make_request(a) = [a EXCEPT !.hand = h]
    BY <2>7, <2>10, <2>11, Zenon DEF make_request
  <2>13. make_request(a) = req  BY <2>3, <2>4, <2>9, <2>12 DEF RequestRecords
  <2>14. Accepted(a)  BY <2>2, <2>13, Zenon DEF Accepted
  <2>. QED  BY <2>8, <2>13, <2>14
<1>. QED  BY <1>1, ReqInvHolds, PTL

-----------------------------------------------------------------------------
(* How far counts are from others: the tiles that the others have more of. *)

Cells(b, w, X) == UNION {{k} \X (b[k] + 1..w[k]) : k \in X}
Away(b, w, X) == Cardinality(Cells(b, w, X))
IsCounts(b, X) == \A k \in X : b[k] \in Nat
IsPattern(w, X) == \A k \in X : w[k] \in 0..4
IsCell(b, w, X, z) == \E k \in X : z[1] = k /\ z = <<k, z[2]>> /\ z[2] \in b[k] + 1..w[k]

LEMMA CellsAre ==
  ASSUME NEW b, NEW w, NEW X, NEW z
  PROVE  z \in Cells(b, w, X) <=> IsCell(b, w, X, z)
<1>1. z \in Cells(b, w, X) <=> \E k \in X : z \in {k} \X (b[k] + 1..w[k])  BY DEF Cells
<1>2. ASSUME NEW k
      PROVE  z \in {k} \X (b[k] + 1..w[k]) <=> z[1] = k /\ z = <<k, z[2]>> /\ z[2] \in b[k] + 1..w[k]
  OBVIOUS
<1>. QED  BY <1>1, <1>2, Zenon DEF IsCell

LEMMA CellsFinite ==
  ASSUME NEW X, IsFiniteSet(X), NEW b, NEW w, IsCounts(b, X), IsPattern(w, X)
  PROVE  IsFiniteSet(Cells(b, w, X)) /\ Away(b, w, X) \in Nat
<1>1. PICK l, h : l = 0 /\ h = 4 /\ l \in Int /\ h \in Int  OBVIOUS
<1>2. IsFiniteSet(l..h)  BY <1>1, FS_Interval
<1>3. IsFiniteSet(X \X (l..h))  BY <1>2, FS_Product
<1>4. ASSUME NEW z, z \in Cells(b, w, X)  PROVE z \in X \X (l..h)
  <2>1. IsCell(b, w, X, z)  BY <1>4, CellsAre
  <2>2. PICK k \in X : z = <<k, z[2]>> /\ z[2] \in b[k] + 1..w[k]  BY <2>1 DEF IsCell
  <2>3. z[2] \in l..h  BY <1>1, <2>2 DEF IsCounts, IsPattern
  <2>. QED  BY <2>2, <2>3
<1>5. Cells(b, w, X) \in SUBSET (X \X (l..h))  BY <1>4
<1>6. IsFiniteSet(Cells(b, w, X))  BY <1>3, <1>5, FS_Subset
<1>. QED  BY <1>6, FS_CardinalityType DEF Away

\* Only the counts of the tiles considered matter.
LEMMA CellsSame ==
  ASSUME NEW X, NEW b, NEW w, NEW c, NEW v, \A k \in X : b[k] = c[k] /\ w[k] = v[k]
  PROVE  Away(b, w, X) = Away(c, v, X)
<1>1. ASSUME NEW z  PROVE z \in Cells(b, w, X) <=> z \in Cells(c, v, X)
  <2>1. IsCell(b, w, X, z) <=> IsCell(c, v, X, z)  BY DEF IsCell
  <2>. QED  BY <2>1, CellsAre
<1>2. Cells(b, w, X) = Cells(c, v, X)  BY <1>1
<1>. QED  BY <1>2 DEF Away

LEMMA AwayUnion ==
  ASSUME NEW X, NEW Y, IsFiniteSet(X), IsFiniteSet(Y), X \cap Y = {},
         NEW b, NEW w, IsCounts(b, X \cup Y), IsPattern(w, X \cup Y)
  PROVE  Away(b, w, X \cup Y) = Away(b, w, X) + Away(b, w, Y)
<1>1. PICK C, D, B : C = Cells(b, w, X) /\ D = Cells(b, w, Y) /\ B = Cells(b, w, X \cup Y)  OBVIOUS
<1>2. B = C \cup D
  <2>1. ASSUME NEW z  PROVE z \in B <=> z \in C \/ z \in D
    <3>1. IsCell(b, w, X \cup Y, z) <=> IsCell(b, w, X, z) \/ IsCell(b, w, Y, z)  BY DEF IsCell
    <3>. QED  BY <1>1, <3>1, CellsAre
  <2>. QED  BY <2>1
<1>3. C \cap D = {}
  <2>1. ASSUME NEW z, z \in C, z \in D  PROVE FALSE
    <3>1. z[1] \in X /\ z[1] \in Y  BY <1>1, <2>1, CellsAre DEF IsCell
    <3>. QED  BY <3>1
  <2>. QED  BY <2>1
<1>4. IsCounts(b, X) /\ IsPattern(w, X) /\ IsCounts(b, Y) /\ IsPattern(w, Y)
  BY DEF IsCounts, IsPattern
<1>5. IsFiniteSet(C) /\ Cardinality(C) \in Nat  BY <1>1, <1>4, CellsFinite DEF Away
<1>6. IsFiniteSet(D) /\ Cardinality(D) \in Nat  BY <1>1, <1>4, CellsFinite DEF Away
<1>7. Cardinality(C \cup D) = Cardinality(C) + Cardinality(D) - Cardinality(C \cap D)
  BY <1>5, <1>6, FS_Union
<1>8. Cardinality(C \cap D) = 0  BY <1>3, FS_EmptySet
<1>9. Away(b, w, X \cup Y) = Cardinality(B) /\ Away(b, w, X) = Cardinality(C) /\ Away(b, w, Y) = Cardinality(D)
  BY <1>1 DEF Away
<1>. QED  BY <1>2, <1>5, <1>6, <1>7, <1>8, <1>9

\* A place o further on.
IsMoved(X, Y, o) == \A k : k \in Y <=> \E j \in X : k = j + o
IsCopied(b, c, X, o) == \A k \in X : c[k + o] = b[k]

LEMMA AwayMoved ==
  ASSUME NEW o \in Int, NEW X \in SUBSET Int, IsFiniteSet(X), NEW Y, IsMoved(X, Y, o),
         NEW b, NEW w, NEW c, NEW v, IsCounts(b, X), IsPattern(w, X), IsCopied(b, c, X, o), IsCopied(w, v, X, o)
  PROVE  Away(c, v, Y) = Away(b, w, X)
<1>0. /\ \A k : k \in Y <=> \E j \in X : k = j + o
      /\ \A k \in X : c[k + o] = b[k] /\ v[k + o] = w[k]
  BY DEF IsMoved, IsCopied
<1>1. PICK C, D : C = Cells(b, w, X) /\ D = Cells(c, v, Y)  OBVIOUS
<1>2. IsFiniteSet(C)  BY <1>1, CellsFinite
<1>3. PICK f : f = [z \in C |-> <<z[1] + o, z[2]>>]  OBVIOUS
<1>4. \A z \in C : z[1] \in X /\ z = <<z[1], z[2]>> /\ z[2] \in b[z[1]] + 1..w[z[1]]
  BY <1>1, CellsAre DEF IsCell
<1>5. f \in [C -> D]
  <2>1. ASSUME NEW z \in C  PROVE f[z] \in D
    <3>1. PICK k, i : k = z[1] /\ i = z[2] /\ k \in X /\ i \in b[k] + 1..w[k]  BY <1>4
    <3>2. f[z] = <<k + o, i>>  BY <1>3, <3>1
    <3>3. k + o \in Y  BY <1>0, <3>1
    <3>4. c[k + o] = b[k] /\ v[k + o] = w[k]  BY <1>0, <3>1
    <3>5. i \in c[k + o] + 1..v[k + o]  BY <3>1, <3>4
    <3>6. IsCell(c, v, Y, f[z])  BY <3>2, <3>3, <3>5 DEF IsCell
    <3>. QED  BY <1>1, <3>6, CellsAre
  <2>. QED  BY <1>3, <2>1
<1>6. ASSUME NEW y \in C, NEW z \in C, f[y] = f[z]  PROVE y = z
  <2>1. <<y[1] + o, y[2]>> = <<z[1] + o, z[2]>>  BY <1>3, <1>6
  <2>2. y[1] \in Int /\ z[1] \in Int  BY <1>4
  <2>3. y[1] + o = z[1] + o /\ y[2] = z[2]  BY <2>1
  <2>4. y[1] = z[1]
    <3>1. PICK p, q : p = y[1] /\ q = z[1] /\ p \in Int /\ q \in Int /\ p + o = q + o  BY <2>2, <2>3
    <3>2. p = q  BY <3>1
    <3>. QED  BY <3>1, <3>2
  <2>. QED  BY <1>4, <2>3, <2>4, Zenon
<1>7. ASSUME NEW d \in D  PROVE \E z \in C : f[z] = d
  <2>1. PICK l \in Y : d = <<l, d[2]>> /\ d[2] \in c[l] + 1..v[l]  BY <1>1, CellsAre DEF IsCell
  <2>2. PICK k \in X : l = k + o  BY <1>0, <2>1, Zenon
  <2>3. c[l] = b[k] /\ v[l] = w[k]  BY <1>0, <2>2
  <2>4. PICK i : i = d[2] /\ i \in b[k] + 1..w[k]  BY <2>1, <2>3
  <2>5. IsCell(b, w, X, <<k, i>>)  BY <2>4 DEF IsCell
  <2>6. <<k, i>> \in C  BY <1>1, <2>5, CellsAre
  <2>7. f[<<k, i>>] = d  BY <1>3, <2>1, <2>2, <2>4, <2>6
  <2>. QED  BY <2>6, <2>7
<1>8. f \in Bijection(C, D)
  <2>1. f \in Injection(C, D)  BY <1>5, <1>6 DEF Injection, IsInjective
  <2>2. f \in Surjection(C, D)  BY <1>5, <1>7 DEF Surjection
  <2>. QED  BY <2>1, <2>2 DEF Bijection
<1>9. ExistsBijection(C, D)  BY <1>8 DEF ExistsBijection
<1>10. Cardinality(D) = Cardinality(C)  BY <1>2, <1>9, FS_Bijection
<1>. QED  BY <1>1, <1>10 DEF Away

-----------------------------------------------------------------------------
(* Entries.  F is a set of patterns of the tiles X, and b counts a hand.   *)

Patterns4(X) == [X -> 0..4]
IsEntry(e, b, X, F) ==
  /\ e.dist \in Nat
  /\ \A w \in F : e.dist <= Away(b, w, X)
  /\ \E w \in F : e.dist = Away(b, w, X)

\* The tiles of an entry are numbered from o.
Wanted(e, b, X, F, k) == k \in X /\ \E w \in F : e.dist = Away(b, w, X) /\ w[k] > b[k]
Spare(e, b, X, F, k) == k \in X /\ \E w \in F : e.dist = Away(b, w, X) /\ w[k] < b[k]
HasTiles(e, o, b, X, F) ==
  /\ \A j : j \in e.wait => j \in Int
  /\ \A j : j \in e.disc => j \in Int
  /\ \A j \in Int : j \in e.wait <=> Wanted(e, b, X, F, j + o)
  /\ \A j \in Int : j \in e.disc <=> Spare(e, b, X, F, j + o)

\* The entries of a region of tiles.
Region(E, b, X, F, m) ==
  /\ IsFiniteSet(X) /\ X \in SUBSET Int /\ IsCounts(b, X)
  /\ \A i \in Indices(m) : IsEntry(E[i], b, X, F[i]) /\ F[i] \subseteq Patterns4(X)

Apart(X, Y) == X \cap Y = {}
On(w, X) == [k \in X |-> w[k]]
Glue(u, v, X, Y) == [k \in X \cup Y |-> IF k \in X THEN u[k] ELSE v[k]]
Glued(F, G, X, Y, i) ==
  {w \in Patterns4(X \cup Y) : \E s \in Splits(i) : On(w, X) \in F[s[1]] /\ On(w, Y) \in G[s[2]]}

LEMMA SplitsAre ==
  ASSUME NEW m \in 0..4, NEW i \in Indices(m)
  PROVE  /\ \A s \in Splits(i) : /\ s[1] \in Indices(m) /\ s[2] \in Indices(m) /\ s[1] + s[2] = i
                                 /\ i < 5 => s[1] < 5 /\ s[2] < 5
                                 /\ i >= 5 => (s[1] < 5 <=> s[2] >= 5)
         /\ \A x, y \in Indices(m) : /\ x + y = i /\ (i < 5 => x < 5 /\ y < 5) /\ (i >= 5 => (x < 5 <=> y >= 5))
                                     => <<x, y>> \in Splits(i)
<1>1. i \in Nat /\ (i \in 0..m \/ i \in 5..5 + m)  BY DEF Indices
<1>2. CASE i < 5
  <2>1. Splits(i) = {<<j, i - j>> : j \in 0..i}  BY <1>2 DEF Splits
  <2>2. i \in 0..m  BY <1>1, <1>2
  <2>3. ASSUME NEW s \in Splits(i)
        PROVE  s[1] \in Indices(m) /\ s[2] \in Indices(m) /\ s[1] + s[2] = i /\ s[1] < 5 /\ s[2] < 5
    <3>1. PICK j \in 0..i : s = <<j, i - j>>  BY <2>1
    <3>. QED  BY <2>2, <3>1 DEF Indices
  <2>4. ASSUME NEW x \in Indices(m), NEW y \in Indices(m), x + y = i, x < 5, y < 5
        PROVE  <<x, y>> \in Splits(i)
    <3>1. x \in 0..i /\ y = i - x  BY <2>4 DEF Indices
    <3>. QED  BY <2>1, <3>1
  <2>. QED  BY <1>1, <1>2, <2>3, <2>4
<1>3. CASE i >= 5
  <2>1. Splits(i) = {<<j, i - j>> : j \in 5..i} \cup {<<i - j, j>> : j \in 5..i}  BY <1>1, <1>3 DEF Splits
  <2>2. i \in 5..5 + m  BY <1>1, <1>3
  <2>3. ASSUME NEW s \in Splits(i)
        PROVE  s[1] \in Indices(m) /\ s[2] \in Indices(m) /\ s[1] + s[2] = i /\ (s[1] < 5 <=> s[2] >= 5)
    <3>1. PICK j \in 5..i : s = <<j, i - j>> \/ s = <<i - j, j>>  BY <2>1
    <3>2. j \in Indices(m) /\ i - j \in Indices(m) /\ i - j < 5 /\ j >= 5  BY <2>2 DEF Indices
    <3>. QED  BY <1>1, <3>1, <3>2
  <2>4. ASSUME NEW x \in Indices(m), NEW y \in Indices(m), x + y = i, x < 5 <=> y >= 5
        PROVE  <<x, y>> \in Splits(i)
    <3>1. x \in Nat /\ y \in Nat  BY DEF Indices
    <3>2. CASE y >= 5
      <4>1. y \in 5..i /\ x = i - y  BY <2>4, <3>1, <3>2
      <4>. QED  BY <2>1, <4>1
    <3>3. CASE y < 5
      <4>1. x \in 5..i /\ y = i - x  BY <2>4, <3>1, <3>3
      <4>. QED  BY <2>1, <4>1
    <3>. QED  BY <3>1, <3>2, <3>3
  <2>. QED  BY <1>1, <1>3, <2>3, <2>4
<1>. QED  BY <1>1, <1>2, <1>3

LEMMA NearestIs ==
  ASSUME NEW S, S # {}, \A e \in S : e.dist \in Nat, NEW n, n = Nearest(S)
  PROVE  /\ \E e \in S : e.dist = n.dist
         /\ \A e \in S : n.dist <= e.dist
         /\ \A j : j \in n.wait <=> \E e \in S : e.dist = n.dist /\ j \in e.wait
         /\ \A j : j \in n.disc <=> \E e \in S : e.dist = n.dist /\ j \in e.disc
<1>. DEFINE D == {e.dist : e \in S}
            near == {e \in S : \A f \in S : e.dist <= f.dist}
<1>1. D \in SUBSET Nat /\ D # {}  OBVIOUS
<1>2. PICK d \in D : \A x \in D : d <= x
  <2>. HIDE DEF D
  <2>. QED  BY <1>1, MinOf
<1>3. \A e \in S : d <= e.dist  BY <1>2
<1>4. PICK c \in S : c.dist = d  OBVIOUS
<1>5. d \in Nat  BY <1>4
<1>6. \A e \in S : e \in near <=> e.dist = d
  <2>1. ASSUME NEW e \in S, e \in near  PROVE e.dist = d
    <3>1. e.dist <= c.dist  BY <2>1
    <3>. QED  BY <1>3, <1>4, <1>5, <3>1
  <2>2. ASSUME NEW e \in S, e.dist = d  PROVE e \in near  BY <1>3, <2>2
  <2>. QED  BY <2>1, <2>2
<1>7. c \in near /\ \A e \in near : e \in S  BY <1>4, <1>6
<1>8. n = [dist |-> (CHOOSE r \in near : TRUE).dist, wait |-> UNION {r.wait : r \in near}, disc |-> UNION {r.disc : r \in near}]
  BY DEF Nearest
<1>. HIDE DEF near
<1>9. PICK r : r = CHOOSE x \in near : TRUE  OBVIOUS
<1>10. r \in near  BY <1>7, <1>9
<1>11. n.dist = d  BY <1>6, <1>7, <1>8, <1>9, <1>10
<1>12. n.wait = UNION {x.wait : x \in near} /\ n.disc = UNION {x.disc : x \in near}  BY <1>8
<1>13. ASSUME NEW j  PROVE j \in n.wait <=> \E e \in S : e.dist = d /\ j \in e.wait
  <2>1. j \in n.wait <=> \E e \in near : j \in e.wait  BY <1>12
  <2>. QED  BY <1>6, <1>7, <2>1
<1>14. ASSUME NEW j  PROVE j \in n.disc <=> \E e \in S : e.dist = d /\ j \in e.disc
  <2>1. j \in n.disc <=> \E e \in near : j \in e.disc  BY <1>12
  <2>. QED  BY <1>6, <1>7, <2>1
<1>. QED  BY <1>3, <1>4, <1>11, <1>13, <1>14

\* Parts of a pattern, and a pattern made of parts.
LEMMA OnIs ==
  ASSUME NEW X, NEW Y, NEW b, NEW w \in Patterns4(X \cup Y)
  PROVE  /\ On(w, X) \in Patterns4(X) /\ Away(b, On(w, X), X) = Away(b, w, X)
         /\ \A k \in X : On(w, X)[k] = w[k]
<1>1. \A k \in X : On(w, X)[k] = w[k]  BY DEF On
<1>2. On(w, X) \in Patterns4(X)  BY DEF On, Patterns4
<1>3. Away(b, On(w, X), X) = Away(b, w, X)
  <2>1. PICK v : v = On(w, X)  OBVIOUS
  <2>2. \A k \in X : b[k] = b[k] /\ v[k] = w[k]  BY <1>1, <2>1
  <2>. QED  BY <2>1, <2>2, CellsSame
<1>. QED  BY <1>1, <1>2, <1>3

Sides(b, X, Y) == IsFiniteSet(X) /\ IsFiniteSet(Y) /\ Apart(X, Y) /\ IsCounts(b, X) /\ IsCounts(b, Y)
Parted(L, R, b, X, Y, F, G, m) == Region(L, b, X, F, m) /\ Region(R, b, Y, G, m) /\ Sides(b, X, Y)

LEMMA PartsAdd ==
  ASSUME NEW b, NEW X, NEW Y, Sides(b, X, Y), NEW w \in Patterns4(X \cup Y)
  PROVE  /\ Away(b, w, X \cup Y) = Away(b, w, X) + Away(b, w, Y)
         /\ Away(b, w, X) \in Nat /\ Away(b, w, Y) \in Nat
         /\ On(w, X) \in Patterns4(X) /\ On(w, Y) \in Patterns4(Y)
         /\ Away(b, On(w, X), X) = Away(b, w, X) /\ Away(b, On(w, Y), Y) = Away(b, w, Y)
<1>1. /\ IsFiniteSet(X) /\ IsFiniteSet(Y) /\ X \cap Y = {} /\ IsCounts(b, X) /\ IsCounts(b, Y)
  BY DEF Sides, Apart
<1>2. IsCounts(b, X \cup Y)  BY <1>1 DEF IsCounts
<1>3. IsPattern(w, X \cup Y) /\ IsPattern(w, X) /\ IsPattern(w, Y)  BY DEF IsPattern, Patterns4
<1>4. Away(b, w, X \cup Y) = Away(b, w, X) + Away(b, w, Y)  BY <1>1, <1>2, <1>3, AwayUnion
<1>5. Away(b, w, X) \in Nat /\ Away(b, w, Y) \in Nat  BY <1>1, <1>3, CellsFinite
<1>6. On(w, X) \in Patterns4(X) /\ Away(b, On(w, X), X) = Away(b, w, X)  BY OnIs
<1>7. w \in Patterns4(Y \cup X)
  <2>1. X \cup Y = Y \cup X  OBVIOUS
  <2>. QED  BY <2>1, Zenon
<1>8. On(w, Y) \in Patterns4(Y) /\ Away(b, On(w, Y), Y) = Away(b, w, Y)  BY <1>7, OnIs
<1>. QED  BY <1>4, <1>5, <1>6, <1>8

\* Entries of both sides at each of some splits Ss of an index, and the nearest of their joins.
Halves(L, R, b, X, Y, F, G, Ss) ==
  /\ Sides(b, X, Y)
  /\ \A s \in Ss : /\ IsEntry(L[s[1]], b, X, F[s[1]]) /\ F[s[1]] \subseteq Patterns4(X)
                   /\ IsEntry(R[s[2]], b, Y, G[s[2]]) /\ G[s[2]] \subseteq Patterns4(Y)
GluedBy(F, G, X, Y, Ss) ==
  {w \in Patterns4(X \cup Y) : \E s \in Ss : On(w, X) \in F[s[1]] /\ On(w, Y) \in G[s[2]]}
NearestOf(L, R, Ss) == Nearest({Joined(L[s[1]], R[s[2]]) : s \in Ss})

InParts(F, G, s, u, v) == u \in F[s[1]] /\ v \in G[s[2]]
IsGlue(b, X, Y, w, u, v) ==
  /\ Away(b, w, X \cup Y) = Away(b, u, X) + Away(b, v, Y)
  /\ \A k \in X : w[k] = u[k]
  /\ \A k \in Y : w[k] = v[k]

\* Two patterns glued are as far as they are together.
LEMMA GluedFrom ==
  ASSUME NEW b, NEW X, NEW Y, NEW F, NEW G, NEW Ss, NEW s, NEW u, NEW v, Sides(b, X, Y), s \in Ss,
         u \in Patterns4(X), v \in Patterns4(Y), InParts(F, G, s, u, v)
  PROVE  \E w \in GluedBy(F, G, X, Y, Ss) : IsGlue(b, X, Y, w, u, v)
<1>2. Apart(X, Y)  BY DEF Sides
<1>3. PICK w : w = Glue(u, v, X, Y)  OBVIOUS
<1>4. w \in Patterns4(X \cup Y) /\ (\A k \in X : w[k] = u[k]) /\ \A k \in Y : w[k] = v[k]
  BY <1>2, <1>3 DEF Glue, Patterns4, Apart
<1>7. On(w, X) = u  BY <1>2, <1>4 DEF On, Patterns4
<1>8. On(w, Y) = v  BY <1>2, <1>4 DEF On, Patterns4
<1>5. w \in GluedBy(F, G, X, Y, Ss)  BY <1>4, <1>7, <1>8 DEF GluedBy, InParts
<1>6. Away(b, w, X \cup Y) = Away(b, u, X) + Away(b, v, Y)
  <2>1. /\ Away(b, w, X \cup Y) = Away(b, w, X) + Away(b, w, Y)
        /\ Away(b, On(w, X), X) = Away(b, w, X) /\ Away(b, On(w, Y), Y) = Away(b, w, Y)
    <3>1. w \in Patterns4(X \cup Y)  BY <1>4
    <3>. QED  BY ONLY Sides(b, X, Y), <3>1, PartsAdd
  <2>. QED  BY <1>7, <1>8, <2>1, Zenon
<1>. QED  BY <1>4, <1>5, <1>6 DEF IsGlue

\* The splits that give the distance of an entry, and the tiles they give.
Gives(L, R, s, e) == L[s[1]].dist + R[s[2]].dist = e.dist
GivesWait(L, R, s, j) == j \in Shift(L[s[1]].wait) \/ j \in R[s[2]].wait
GivesDisc(L, R, s, j) == j \in Shift(L[s[1]].disc) \/ j \in R[s[2]].disc
TilesFrom(L, R, Ss, e) ==
  /\ \A j : j \in e.wait <=> \E s \in Ss : Gives(L, R, s, e) /\ GivesWait(L, R, s, j)
  /\ \A j : j \in e.disc <=> \E s \in Ss : Gives(L, R, s, e) /\ GivesDisc(L, R, s, j)
Alike(w, u, X) == \A k \in X : w[k] = u[k]

\* The distance found for patterns that are glued.
LEMMA NearestDistance ==
  ASSUME NEW L, NEW R, NEW b, NEW X, NEW Y, NEW F, NEW G, NEW Ss, Halves(L, R, b, X, Y, F, G, Ss),
         GluedBy(F, G, X, Y, Ss) # {}, NEW e, e = NearestOf(L, R, Ss)
  PROVE  /\ IsEntry(e, b, X \cup Y, GluedBy(F, G, X, Y, Ss))
         /\ \A s \in Ss : e.dist <= L[s[1]].dist + R[s[2]].dist
         /\ TilesFrom(L, R, Ss, e)
<1>0. Sides(b, X, Y)  BY DEF Halves
<1>. DEFINE S == {Joined(L[s[1]], R[s[2]]) : s \in Ss}
            H == GluedBy(F, G, X, Y, Ss)
<1>2. \A s \in Ss : IsEntry(L[s[1]], b, X, F[s[1]]) /\ IsEntry(R[s[2]], b, Y, G[s[2]])
  BY DEF Halves
<1>3. \A s \in Ss : /\ L[s[1]].dist \in Nat /\ R[s[2]].dist \in Nat
                    /\ Joined(L[s[1]], R[s[2]]).dist = L[s[1]].dist + R[s[2]].dist
                    /\ Joined(L[s[1]], R[s[2]]).wait = Shift(L[s[1]].wait) \cup R[s[2]].wait
                    /\ Joined(L[s[1]], R[s[2]]).disc = Shift(L[s[1]].disc) \cup R[s[2]].disc
  BY <1>2 DEF IsEntry, Joined
<1>4. \A w \in H : /\ w \in Patterns4(X \cup Y)
                   /\ \E s \in Ss : On(w, X) \in F[s[1]] /\ On(w, Y) \in G[s[2]]
  BY DEF GluedBy
<1>5. PICK w0 \in H : TRUE  OBVIOUS
<1>6. S # {}  BY <1>4, <1>5
<1>7. e = Nearest(S)  BY DEF NearestOf
<1>8. \A f \in S : f.dist \in Nat  BY <1>3
<1>9. /\ \E f \in S : f.dist = e.dist
      /\ \A f \in S : e.dist <= f.dist
      /\ \A j : j \in e.wait <=> \E f \in S : f.dist = e.dist /\ j \in f.wait
      /\ \A j : j \in e.disc <=> \E f \in S : f.dist = e.dist /\ j \in f.disc
  <2>. HIDE DEF S
  <2>. QED  BY <1>6, <1>7, <1>8, NearestIs
<1>10. \A s \in Ss : e.dist <= L[s[1]].dist + R[s[2]].dist  BY <1>3, <1>9
<1>11. PICK s0 \in Ss : e.dist = L[s0[1]].dist + R[s0[2]].dist  BY <1>3, <1>9
<1>12. e.dist \in Nat  BY <1>3, <1>11
<1>. HIDE DEF H
<1>13. ASSUME NEW w \in H  PROVE e.dist <= Away(b, w, X \cup Y)
  <2>1. PICK s \in Ss : On(w, X) \in F[s[1]] /\ On(w, Y) \in G[s[2]]  BY <1>4
  <2>2. L[s[1]].dist <= Away(b, On(w, X), X) /\ R[s[2]].dist <= Away(b, On(w, Y), Y)
    BY <1>2, <2>1 DEF IsEntry
  <2>3. PICK x, y : /\ Away(b, w, X \cup Y) = x + y /\ x \in Nat /\ y \in Nat
                    /\ Away(b, On(w, X), X) = x /\ Away(b, On(w, Y), Y) = y
    <3>1. w \in Patterns4(X \cup Y)  BY <1>4
    <3>. QED  BY <1>0, <3>1, PartsAdd
  <2>4. PICK p, q : p = L[s[1]].dist /\ q = R[s[2]].dist /\ p \in Nat /\ q \in Nat /\ e.dist <= p + q
    BY <1>3, <1>10
  <2>5. p <= x /\ q <= y  BY <2>2, <2>3, <2>4
  <2>. QED  BY <1>12, <2>3, <2>4, <2>5
<1>15. \E w \in H : e.dist = Away(b, w, X \cup Y)
  <2>1. PICK u \in F[s0[1]], v \in G[s0[2]] : L[s0[1]].dist = Away(b, u, X) /\ R[s0[2]].dist = Away(b, v, Y)
    BY <1>2 DEF IsEntry
  <2>2. PICK w \in GluedBy(F, G, X, Y, Ss) : Away(b, w, X \cup Y) = Away(b, u, X) + Away(b, v, Y)
    <3>1. u \in Patterns4(X) /\ v \in Patterns4(Y)  BY DEF Halves
    <3>2. InParts(F, G, s0, u, v)  BY DEF InParts
    <3>3. \E w \in GluedBy(F, G, X, Y, Ss) : IsGlue(b, X, Y, w, u, v)
      BY ONLY <1>0, <3>1, <3>2, s0 \in Ss, GluedFrom, Zenon
    <3>. QED  BY <3>3 DEF IsGlue
  <2>3. w \in H  BY DEF H
  <2>. QED  BY <1>11, <2>1, <2>2, <2>3
<1>16. IsEntry(e, b, X \cup Y, H)  BY <1>12, <1>13, <1>15 DEF IsEntry
<1>17. ASSUME NEW j  PROVE j \in e.wait <=> \E s \in Ss : Gives(L, R, s, e) /\ GivesWait(L, R, s, j)
  <2>1. j \in e.wait <=> \E f \in S : f.dist = e.dist /\ j \in f.wait  BY <1>9
  <2>. QED  BY <1>3, <2>1 DEF Gives, GivesWait
<1>18. ASSUME NEW j  PROVE j \in e.disc <=> \E s \in Ss : Gives(L, R, s, e) /\ GivesDisc(L, R, s, j)
  <2>1. j \in e.disc <=> \E f \in S : f.dist = e.dist /\ j \in f.disc  BY <1>9
  <2>. QED  BY <1>3, <2>1 DEF Gives, GivesDisc
<1>. QED  BY <1>10, <1>16, <1>17, <1>18, Zenon DEF H, TilesFrom

\* The closest glued patterns are made of the closest ones of both sides, for the splits
\* that give the distance.
Near(e, b, X, F, u) == u \in F /\ e.dist = Away(b, u, X)

LEMMA ClosestSplit ==
  ASSUME NEW L, NEW R, NEW b, NEW X, NEW Y, NEW F, NEW G, NEW Ss, Halves(L, R, b, X, Y, F, G, Ss),
         GluedBy(F, G, X, Y, Ss) # {}, NEW e, e = NearestOf(L, R, Ss),
         NEW w, Near(e, b, X \cup Y, GluedBy(F, G, X, Y, Ss), w)
  PROVE  \E s \in Ss : /\ Gives(L, R, s, e)
                       /\ Near(L[s[1]], b, X, F[s[1]], On(w, X))
                       /\ Near(R[s[2]], b, Y, G[s[2]], On(w, Y))
<1>1. PICK s \in Ss : On(w, X) \in F[s[1]] /\ On(w, Y) \in G[s[2]]  BY DEF Near, GluedBy
<1>2. w \in Patterns4(X \cup Y)  BY DEF Near, GluedBy
<1>3. Sides(b, X, Y)  BY DEF Halves
<1>4. PICK x, y : /\ Away(b, w, X \cup Y) = x + y /\ x \in Nat /\ y \in Nat
                  /\ Away(b, On(w, X), X) = x /\ Away(b, On(w, Y), Y) = y
  BY <1>2, <1>3, PartsAdd
<1>6. IsEntry(L[s[1]], b, X, F[s[1]]) /\ IsEntry(R[s[2]], b, Y, G[s[2]])  BY DEF Halves
<1>7. PICK p, q : p = L[s[1]].dist /\ q = R[s[2]].dist /\ p \in Nat /\ q \in Nat  BY <1>6 DEF IsEntry
<1>8. p <= x /\ q <= y  BY <1>1, <1>4, <1>6, <1>7 DEF IsEntry
<1>9. e.dist <= p + q  BY <1>7, NearestDistance
<1>10. e.dist = x + y  BY <1>4 DEF Near
<1>11. p = x /\ q = y  BY <1>4, <1>7, <1>8, <1>9, <1>10
<1>. QED  BY <1>1, <1>4, <1>7, <1>10, <1>11 DEF Near, Gives

LEMMA ClosestGlue ==
  ASSUME NEW L, NEW R, NEW b, NEW X, NEW Y, NEW F, NEW G, NEW Ss, Halves(L, R, b, X, Y, F, G, Ss),
         GluedBy(F, G, X, Y, Ss) # {}, NEW e, e = NearestOf(L, R, Ss),
         NEW s, s \in Ss, Gives(L, R, s, e)
  PROVE  /\ \A u : Near(L[s[1]], b, X, F[s[1]], u) =>
              \E w : Near(e, b, X \cup Y, GluedBy(F, G, X, Y, Ss), w) /\ Alike(w, u, X)
         /\ \A v : Near(R[s[2]], b, Y, G[s[2]], v) =>
              \E w : Near(e, b, X \cup Y, GluedBy(F, G, X, Y, Ss), w) /\ Alike(w, v, Y)
<1>2. IsEntry(L[s[1]], b, X, F[s[1]]) /\ IsEntry(R[s[2]], b, Y, G[s[2]])  BY DEF Halves
<1>3. /\ \A u \in F[s[1]] : u \in Patterns4(X)
      /\ \A v \in G[s[2]] : v \in Patterns4(Y)
      /\ Sides(b, X, Y)
  BY DEF Halves
<1>6. PICK u0 : Near(L[s[1]], b, X, F[s[1]], u0)  BY <1>2 DEF IsEntry, Near
<1>7. PICK v0 : Near(R[s[2]], b, Y, G[s[2]], v0)  BY <1>2 DEF IsEntry, Near
<1>8. ASSUME NEW u, NEW v, Near(L[s[1]], b, X, F[s[1]], u), Near(R[s[2]], b, Y, G[s[2]], v)
      PROVE  \E w : /\ Near(e, b, X \cup Y, GluedBy(F, G, X, Y, Ss), w)
                    /\ Alike(w, u, X) /\ Alike(w, v, Y)
  <2>1. u \in Patterns4(X) /\ v \in Patterns4(Y) /\ InParts(F, G, s, u, v)
    BY <1>3, <1>8 DEF Near, InParts
  <2>2. PICK w \in GluedBy(F, G, X, Y, Ss) : IsGlue(b, X, Y, w, u, v)
    BY ONLY <1>3, <2>1, s \in Ss, GluedFrom, Zenon
  <2>3. Away(b, w, X \cup Y) = e.dist  BY <1>8, <2>2 DEF IsGlue, Near, Gives
  <2>. QED  BY <2>2, <2>3 DEF Near, IsGlue, Alike
<1>. QED  BY <1>6, <1>7, <1>8, Zenon

\* The tiles found for patterns that are glued.
LEMMA NearestTiles ==
  ASSUME NEW L, NEW R, NEW b, NEW X, NEW Y, NEW F, NEW G, NEW Ss, Halves(L, R, b, X, Y, F, G, Ss),
         GluedBy(F, G, X, Y, Ss) # {}, NEW e, e = NearestOf(L, R, Ss), NEW o \in Int,
         \A s \in Ss : HasTiles(L[s[1]], o + 9, b, X, F[s[1]]) /\ HasTiles(R[s[2]], o, b, Y, G[s[2]])
  PROVE  HasTiles(e, o, b, X \cup Y, GluedBy(F, G, X, Y, Ss))
<1>. DEFINE H == GluedBy(F, G, X, Y, Ss)
<1>2. \A s \in Ss : HasTiles(L[s[1]], o + 9, b, X, F[s[1]]) /\ HasTiles(R[s[2]], o, b, Y, G[s[2]])
  OBVIOUS
<1>3. /\ \A j : j \in e.wait <=> \E s \in Ss : Gives(L, R, s, e) /\ GivesWait(L, R, s, j)
      /\ \A j : j \in e.disc <=> \E s \in Ss : Gives(L, R, s, e) /\ GivesDisc(L, R, s, j)
  <2>1. TilesFrom(L, R, Ss, e)
    BY ONLY Halves(L, R, b, X, Y, F, G, Ss), GluedBy(F, G, X, Y, Ss) # {}, e = NearestOf(L, R, Ss), NearestDistance
  <2>. QED  BY <2>1, Zenon DEF TilesFrom
<1>4. ASSUME NEW w, Near(e, b, X \cup Y, H, w)
      PROVE  \E s \in Ss : /\ Gives(L, R, s, e)
                           /\ Near(L[s[1]], b, X, F[s[1]], On(w, X))
                           /\ Near(R[s[2]], b, Y, G[s[2]], On(w, Y))
  BY <1>4, ClosestSplit
<1>5. ASSUME NEW s \in Ss, Gives(L, R, s, e)
      PROVE  /\ \A u : Near(L[s[1]], b, X, F[s[1]], u) => \E w : Near(e, b, X \cup Y, H, w) /\ Alike(w, u, X)
             /\ \A v : Near(R[s[2]], b, Y, G[s[2]], v) => \E w : Near(e, b, X \cup Y, H, w) /\ Alike(w, v, Y)
  BY <1>5, ClosestGlue
<1>6. \A w : (\A k \in X : On(w, X)[k] = w[k]) /\ (\A k \in Y : On(w, Y)[k] = w[k])  BY DEF On
<1>7. \A K, j : j \in Shift(K) <=> \E q \in K : j = q + 9  BY DEF Shift
<1>8. \A s \in Ss : /\ \A j : j \in L[s[1]].wait \/ j \in L[s[1]].disc => j \in Int
                    /\ \A j : j \in R[s[2]].wait \/ j \in R[s[2]].disc => j \in Int
  BY <1>2 DEF HasTiles
<1>9. ASSUME NEW s \in Ss, NEW j \in Int
      PROVE  /\ j \in Shift(L[s[1]].wait) <=> Wanted(L[s[1]], b, X, F[s[1]], j + o)
             /\ j \in R[s[2]].wait <=> Wanted(R[s[2]], b, Y, G[s[2]], j + o)
             /\ j \in Shift(L[s[1]].disc) <=> Spare(L[s[1]], b, X, F[s[1]], j + o)
             /\ j \in R[s[2]].disc <=> Spare(R[s[2]], b, Y, G[s[2]], j + o)
  <2>1. PICK q \in Int : q = j - 9 /\ q + (o + 9) = j + o  OBVIOUS
  <2>2. \A K : (\A y \in K : y \in Int) => (j \in Shift(K) <=> q \in K)
    <3>1. ASSUME NEW K, \A y \in K : y \in Int  PROVE j \in Shift(K) <=> q \in K
      <4>1. \A y \in K : j = y + 9 <=> y = q  BY <2>1, <3>1
      <4>. QED  BY <1>7, <4>1
    <3>. QED  BY <3>1
  <2>3. /\ q \in L[s[1]].wait <=> Wanted(L[s[1]], b, X, F[s[1]], q + (o + 9))
        /\ q \in L[s[1]].disc <=> Spare(L[s[1]], b, X, F[s[1]], q + (o + 9))
        /\ j \in R[s[2]].wait <=> Wanted(R[s[2]], b, Y, G[s[2]], j + o)
        /\ j \in R[s[2]].disc <=> Spare(R[s[2]], b, Y, G[s[2]], j + o)
    BY <1>2 DEF HasTiles
  <2>4. /\ j \in Shift(L[s[1]].wait) <=> q \in L[s[1]].wait
        /\ j \in Shift(L[s[1]].disc) <=> q \in L[s[1]].disc
    BY <1>8, <2>2
  <2>. QED  BY <2>1, <2>3, <2>4
<1>. HIDE DEF H
<1>10. ASSUME NEW s \in Ss, Gives(L, R, s, e), NEW k
       PROVE  /\ Wanted(L[s[1]], b, X, F[s[1]], k) \/ Wanted(R[s[2]], b, Y, G[s[2]], k) => Wanted(e, b, X \cup Y, H, k)
              /\ Spare(L[s[1]], b, X, F[s[1]], k) \/ Spare(R[s[2]], b, Y, G[s[2]], k) => Spare(e, b, X \cup Y, H, k)
  BY <1>5, <1>10 DEF Wanted, Spare, Near, Alike
<1>11. ASSUME NEW k, Wanted(e, b, X \cup Y, H, k)
       PROVE  \E s \in Ss : /\ Gives(L, R, s, e)
                            /\ Wanted(L[s[1]], b, X, F[s[1]], k) \/ Wanted(R[s[2]], b, Y, G[s[2]], k)
  <2>1. PICK w : Near(e, b, X \cup Y, H, w) /\ w[k] > b[k] /\ (k \in X \/ k \in Y)
    BY <1>11 DEF Wanted, Near
  <2>2. PICK s \in Ss : /\ Gives(L, R, s, e)
                        /\ Near(L[s[1]], b, X, F[s[1]], On(w, X))
                        /\ Near(R[s[2]], b, Y, G[s[2]], On(w, Y))
    BY <1>4, <2>1
  <2>3. CASE k \in X
    <3>1. Wanted(L[s[1]], b, X, F[s[1]], k)  BY <1>6, <2>1, <2>2, <2>3 DEF Wanted, Near
    <3>. QED  BY <2>2, <3>1
  <2>4. CASE k \in Y
    <3>1. Wanted(R[s[2]], b, Y, G[s[2]], k)  BY <1>6, <2>1, <2>2, <2>4 DEF Wanted, Near
    <3>. QED  BY <2>2, <3>1
  <2>. QED  BY <2>1, <2>3, <2>4
<1>12. ASSUME NEW k, Spare(e, b, X \cup Y, H, k)
       PROVE  \E s \in Ss : /\ Gives(L, R, s, e)
                            /\ Spare(L[s[1]], b, X, F[s[1]], k) \/ Spare(R[s[2]], b, Y, G[s[2]], k)
  <2>1. PICK w : Near(e, b, X \cup Y, H, w) /\ w[k] < b[k] /\ (k \in X \/ k \in Y)
    BY <1>12 DEF Spare, Near
  <2>2. PICK s \in Ss : /\ Gives(L, R, s, e)
                        /\ Near(L[s[1]], b, X, F[s[1]], On(w, X))
                        /\ Near(R[s[2]], b, Y, G[s[2]], On(w, Y))
    BY <1>4, <2>1
  <2>3. CASE k \in X
    <3>1. Spare(L[s[1]], b, X, F[s[1]], k)  BY <1>6, <2>1, <2>2, <2>3 DEF Spare, Near
    <3>. QED  BY <2>2, <3>1
  <2>4. CASE k \in Y
    <3>1. Spare(R[s[2]], b, Y, G[s[2]], k)  BY <1>6, <2>1, <2>2, <2>4 DEF Spare, Near
    <3>. QED  BY <2>2, <3>1
  <2>. QED  BY <2>1, <2>3, <2>4
<1>13. ASSUME NEW j, j \in e.wait \/ j \in e.disc  PROVE j \in Int
  <2>1. PICK s \in Ss : GivesWait(L, R, s, j) \/ GivesDisc(L, R, s, j)  BY <1>3, <1>13
  <2>. QED  BY <1>7, <1>8, <2>1 DEF GivesWait, GivesDisc
<1>14. ASSUME NEW j \in Int
       PROVE  /\ j \in e.wait <=> Wanted(e, b, X \cup Y, H, j + o)
              /\ j \in e.disc <=> Spare(e, b, X \cup Y, H, j + o)
  <2>1. j \in e.wait <=> \E s \in Ss : Gives(L, R, s, e) /\ GivesWait(L, R, s, j)  BY <1>3
  <2>2. j \in e.disc <=> \E s \in Ss : Gives(L, R, s, e) /\ GivesDisc(L, R, s, j)  BY <1>3
  <2>3. j \in e.wait <=> Wanted(e, b, X \cup Y, H, j + o)
    BY <1>9, <1>10, <1>11, <2>1, Zenon DEF GivesWait
  <2>4. j \in e.disc <=> Spare(e, b, X \cup Y, H, j + o)
    BY <1>9, <1>10, <1>12, <2>2, Zenon DEF GivesDisc
  <2>. QED  BY <2>3, <2>4
<1>15. HasTiles(e, o, b, X \cup Y, H)  BY <1>13, <1>14, Zenon DEF HasTiles
<1>. QED  BY <1>15 DEF H

\* All splits of an index.
LEMMA RegionHalves ==
  ASSUME NEW L, NEW R, NEW b, NEW X, NEW Y, NEW F, NEW G, NEW m \in 0..4, Parted(L, R, b, X, Y, F, G, m),
         NEW i \in Indices(m)
  PROVE  /\ Halves(L, R, b, X, Y, F, G, Splits(i))
         /\ Glued(F, G, X, Y, i) = GluedBy(F, G, X, Y, Splits(i))
         /\ add2(L, R, i) = NearestOf(L, R, Splits(i))
<1>1. \A s \in Splits(i) : s[1] \in Indices(m) /\ s[2] \in Indices(m)  BY SplitsAre
<1>2. Halves(L, R, b, X, Y, F, G, Splits(i))  BY <1>1 DEF Parted, Region, Halves
<1>. QED  BY <1>2, Zenon DEF Glued, GluedBy, add2, NearestOf

LEMMA JoinedDistance ==
  ASSUME NEW L, NEW R, NEW b, NEW X, NEW Y, NEW F, NEW G, NEW m \in 0..4, Parted(L, R, b, X, Y, F, G, m),
         NEW i \in Indices(m), Glued(F, G, X, Y, i) # {}, NEW e, e = add2(L, R, i)
  PROVE  IsEntry(e, b, X \cup Y, Glued(F, G, X, Y, i))
<1>1. PICK Ss, H : Ss = Splits(i) /\ H = GluedBy(F, G, X, Y, Ss)  OBVIOUS
<1>2. Halves(L, R, b, X, Y, F, G, Ss) /\ Glued(F, G, X, Y, i) = H /\ e = NearestOf(L, R, Ss)
  BY <1>1, RegionHalves
<1>3. IsEntry(e, b, X \cup Y, H)  BY <1>1, <1>2, NearestDistance
<1>. QED  BY <1>2, <1>3

LEMMA JoinedTiles ==
  ASSUME NEW L, NEW R, NEW b, NEW X, NEW Y, NEW F, NEW G, NEW m \in 0..4, Parted(L, R, b, X, Y, F, G, m),
         NEW i \in Indices(m), Glued(F, G, X, Y, i) # {}, NEW e, e = add2(L, R, i), NEW o \in Int,
         \A h \in Indices(m) : HasTiles(L[h], o + 9, b, X, F[h]) /\ HasTiles(R[h], o, b, Y, G[h])
  PROVE  HasTiles(e, o, b, X \cup Y, Glued(F, G, X, Y, i))
<1>1. PICK Ss, H : Ss = Splits(i) /\ H = GluedBy(F, G, X, Y, Ss)  OBVIOUS
<1>2. Halves(L, R, b, X, Y, F, G, Ss) /\ Glued(F, G, X, Y, i) = H /\ e = NearestOf(L, R, Ss)
  BY <1>1, RegionHalves
<1>3. \A s \in Ss : HasTiles(L[s[1]], o + 9, b, X, F[s[1]]) /\ HasTiles(R[s[2]], o, b, Y, G[s[2]])
  BY <1>1, SplitsAre
<1>4. HasTiles(e, o, b, X \cup Y, H)  BY <1>1, <1>2, <1>3, NearestTiles
<1>. QED  BY <1>2, <1>4

-----------------------------------------------------------------------------
(* Joined regions, and the entries of the tables.                          *)

Joint(F, G, X, Y, m) == [i \in Indices(m) |-> Glued(F, G, X, Y, i)]

LEMMA IndicesIn ==
  ASSUME NEW m \in 0..4
  PROVE  0 \in Indices(m) /\ 5 + m \in Indices(m) /\ Indices(m) \subseteq Int
BY DEF Indices

LEMMA JointFilled ==
  ASSUME NEW L, NEW R, NEW b, NEW X, NEW Y, NEW F, NEW G, NEW m \in 0..4, Parted(L, R, b, X, Y, F, G, m),
         NEW i \in Indices(m)
  PROVE  Glued(F, G, X, Y, i) # {}
<1>1. i \in Int /\ 0 \in Indices(m) /\ i + 0 = i  BY IndicesIn
<1>2. PICK s : s = <<i, 0>>  OBVIOUS
<1>7. s[1] = i /\ s[2] = 0  BY <1>2
<1>3. s \in Splits(i)  BY <1>1, <1>2, SplitsAre
<1>4. PICK u \in F[i], v \in G[0] : u \in Patterns4(X) /\ v \in Patterns4(Y) /\ Sides(b, X, Y)
  BY <1>1 DEF Parted, Region, IsEntry
<1>5. InParts(F, G, s, u, v)  BY <1>4, <1>7 DEF InParts
<1>8. PICK Ss : Ss = Splits(i) /\ Glued(F, G, X, Y, i) = GluedBy(F, G, X, Y, Ss)  BY RegionHalves
<1>9. s \in Ss  BY <1>3, <1>8
<1>6. \E w \in GluedBy(F, G, X, Y, Ss) : IsGlue(b, X, Y, w, u, v)
  BY ONLY <1>4, <1>5, <1>9, GluedFrom, Zenon
<1>. QED  BY <1>6, <1>8

LEMMA JoinedRegion ==
  ASSUME NEW L, NEW R, NEW b, NEW X, NEW Y, NEW F, NEW G, NEW m \in 0..4, Parted(L, R, b, X, Y, F, G, m)
  PROVE  Region(add1(L, R, m), b, X \cup Y, Joint(F, G, X, Y, m), m)
<1>1. PICK E, J, Z : E = add1(L, R, m) /\ J = Joint(F, G, X, Y, m) /\ Z = X \cup Y  OBVIOUS
<1>2. IsFiniteSet(Z) /\ Z \in SUBSET Int /\ IsCounts(b, Z)
  <2>1. IsFiniteSet(X) /\ IsFiniteSet(Y) /\ X \in SUBSET Int /\ Y \in SUBSET Int /\ IsCounts(b, X) /\ IsCounts(b, Y)
    BY DEF Parted, Region
  <2>. QED  BY <1>1, <2>1, FS_Union DEF IsCounts
<1>3. ASSUME NEW i \in Indices(m)
      PROVE  IsEntry(E[i], b, Z, J[i]) /\ J[i] \subseteq Patterns4(Z)
  <2>1. J[i] = Glued(F, G, X, Y, i) /\ E[i] = add2(L, R, i)  BY <1>1 DEF Joint, add1
  <2>2. Glued(F, G, X, Y, i) # {}  BY JointFilled
  <2>3. IsEntry(E[i], b, X \cup Y, Glued(F, G, X, Y, i))  BY <2>1, <2>2, JoinedDistance
  <2>4. J[i] \subseteq Patterns4(Z)  BY <1>1, <2>1 DEF Glued
  <2>. QED  BY <1>1, <2>1, <2>3, <2>4
<1>4. Region(E, b, Z, J, m)  BY <1>2, <1>3 DEF Region
<1>. QED  BY <1>1, <1>4

\* An entry of a table: the patterns of size kinds from o on whose counts are in P.
Area(o, size) == o..o + size - 1
Made(o, size, P) == {u \in Patterns4(Area(o, size)) : Counts(u, o, size) \in P}

LEMMA CountsAway ==
  ASSUME NEW o \in Nat, NEW size \in Nat, NEW b, NEW u, IsCounts(b, Area(o, size)), IsPattern(u, Area(o, size))
  PROVE  calc_distance(Counts(b, o, size), Counts(u, o, size)) = Away(b, u, Area(o, size))
<1>1. PICK c, v, X : c = Counts(b, o, size) /\ v = Counts(u, o, size) /\ X = 0..size - 1  OBVIOUS
<1>2. DOMAIN c = X /\ \A k \in X : c[k] = b[o + k] /\ v[k] = u[o + k]  BY <1>1 DEF Counts
<1>3. calc_distance(c, v) = Away(c, v, X)  BY <1>2 DEF calc_distance, Away, Cells
<1>4. \A k \in X : k + o \in Area(o, size) /\ k + o = o + k  BY <1>1 DEF Area
<1>5. IsCounts(c, X) /\ IsPattern(v, X)  BY <1>2, <1>4 DEF IsCounts, IsPattern
<1>6. \A k : k \in Area(o, size) <=> \E j \in X : k = j + o
  <2>1. ASSUME NEW k \in Area(o, size)  PROVE \E j \in X : k = j + o
    <3>1. k - o \in X /\ k = (k - o) + o  BY <1>1 DEF Area
    <3>. QED  BY <3>1
  <2>. QED  BY <1>4, <2>1
<1>7. IsFiniteSet(X) /\ X \in SUBSET Int
  <2>1. PICK l, h : l = 0 /\ h = size - 1 /\ l \in Int /\ h \in Int  OBVIOUS
  <2>2. IsFiniteSet(l..h)  BY <2>1, FS_Interval
  <2>. QED  BY <1>1, <2>1, <2>2
<1>8. IsCopied(c, b, X, o) /\ IsCopied(v, u, X, o)  BY <1>2, <1>4 DEF IsCopied
<1>9. PICK Y : Y = Area(o, size)  OBVIOUS
<1>10. o \in Int /\ IsMoved(X, Y, o)  BY <1>6, <1>9 DEF IsMoved
<1>11. Away(b, u, Y) = Away(c, v, X)  BY ONLY <1>5, <1>7, <1>8, <1>10, AwayMoved, SMTT(60)
<1>. QED  BY <1>1, <1>3, <1>9, <1>11

LEMMA CountsBack ==
  ASSUME NEW o \in Nat, NEW size \in Nat, NEW p \in Patterns4(0..size - 1)
  PROVE  \E u \in Patterns4(Area(o, size)) : Counts(u, o, size) = p
<1>1. PICK u : u = [k \in Area(o, size) |-> p[k - o]]  OBVIOUS
<1>2. u \in Patterns4(Area(o, size))  BY <1>1 DEF Patterns4, Area
<1>3. \A k \in 0..size - 1 : o + k \in Area(o, size) /\ (o + k) - o = k  BY DEF Area
<1>4. \A k \in 0..size - 1 : u[o + k] = p[k]
  <2>1. ASSUME NEW k \in 0..size - 1  PROVE u[o + k] = p[k]
    <3>1. PICK x : x = o + k /\ x \in Area(o, size) /\ x - o = k  BY <1>3
    <3>2. u[x] = p[x - o]  BY <1>1, <3>1
    <3>. QED  BY <3>1, <3>2
  <2>. QED  BY <2>1
<1>5. Counts(u, o, size) = p  BY <1>4 DEF Counts, Patterns4
<1>. QED  BY <1>2, <1>5

LEMMA EntryDef ==
  ASSUME NEW c, NEW P, P # {}, \A p \in P : calc_distance(c, p) \in Nat, NEW e, e = Entry(c, P)
  PROVE  /\ e.dist \in Nat
         /\ \A p \in P : e.dist <= calc_distance(c, p)
         /\ \E p \in P : e.dist = calc_distance(c, p)
         /\ \A j : j \in e.wait <=> j \in DOMAIN c /\ \E p \in P : e.dist = calc_distance(c, p) /\ p[j] > c[j]
         /\ \A j : j \in e.disc <=> j \in DOMAIN c /\ \E p \in P : e.dist = calc_distance(c, p) /\ p[j] < c[j]
<1>. DEFINE away == {<<calc_distance(c, p), p>> : p \in P}
            D == {a[1] : a \in away}
            closest == {a[2] : a \in {y \in away : y[1] = Min(D)}}
<1>1. e = [dist |-> Min(D), wait |-> {k \in DOMAIN c : \E p \in closest : p[k] > c[k]},
           disc |-> {k \in DOMAIN c : \E p \in closest : p[k] < c[k]}]
  BY Zenon DEF Entry
<1>2. \A a : a \in away <=> \E p \in P : a = <<calc_distance(c, p), p>>  OBVIOUS
<1>3. \A p \in P : <<calc_distance(c, p), p>>[1] = calc_distance(c, p) /\ <<calc_distance(c, p), p>>[2] = p  OBVIOUS
<1>4. \A d : d \in D <=> \E a \in away : d = a[1]
  <2>. HIDE DEF away
  <2>. QED  OBVIOUS
<1>5. \A p : p \in closest <=> \E a \in away : a[1] = Min(D) /\ p = a[2]
  <2>. HIDE DEF away, D
  <2>. QED  OBVIOUS
<1>. HIDE DEF away, D, closest
<1>6. \A d : d \in D <=> \E p \in P : d = calc_distance(c, p)
  <2>1. ASSUME NEW d \in D  PROVE \E p \in P : d = calc_distance(c, p)
    <3>1. PICK a \in away : d = a[1]  BY <1>4
    <3>. QED  BY <1>2, <1>3, <3>1
  <2>2. ASSUME NEW p \in P  PROVE calc_distance(c, p) \in D
    <3>1. PICK a : a = <<calc_distance(c, p), p>>  OBVIOUS
    <3>2. a \in away /\ a[1] = calc_distance(c, p)  BY <1>2, <1>3, <3>1
    <3>. QED  BY <1>4, <3>2
  <2>. QED  BY <2>1, <2>2
<1>7. \A p : p \in closest <=> p \in P /\ calc_distance(c, p) = Min(D)
  <2>1. ASSUME NEW p \in closest  PROVE p \in P /\ calc_distance(c, p) = Min(D)
    <3>1. PICK a \in away : a[1] = Min(D) /\ p = a[2]  BY <1>5
    <3>. QED  BY <1>2, <1>3, <3>1
  <2>2. ASSUME NEW p \in P, calc_distance(c, p) = Min(D)  PROVE p \in closest
    <3>1. PICK a : a = <<calc_distance(c, p), p>>  OBVIOUS
    <3>2. a \in away /\ a[1] = Min(D) /\ a[2] = p  BY <1>2, <1>3, <2>2, <3>1
    <3>. QED  BY <1>5, <3>2
  <2>. QED  BY <2>1, <2>2
<1>8. D \in SUBSET Nat /\ D # {}  BY <1>6
<1>9. \E x \in D : \A y \in D : x <= y  BY <1>8, MinOf
<1>10. Min(D) \in D /\ \A y \in D : Min(D) <= y  BY <1>9 DEF Min
<1>11. PICK d : d = Min(D)  OBVIOUS
<1>12. e.dist = d /\ d \in Nat
  <2>1. e.dist = Min(D)  BY <1>1
  <2>. QED  BY <1>8, <1>10, <1>11, <2>1
<1>13. \A j : j \in e.wait <=> j \in DOMAIN c /\ \E p \in closest : p[j] > c[j]  BY <1>1
<1>14. \A j : j \in e.disc <=> j \in DOMAIN c /\ \E p \in closest : p[j] < c[j]  BY <1>1
<1>15. \A p : p \in closest <=> p \in P /\ d = calc_distance(c, p)  BY <1>7, <1>11
<1>16. (\A p \in P : d <= calc_distance(c, p)) /\ \E p \in P : d = calc_distance(c, p)  BY <1>6, <1>10, <1>11
<1>. QED  BY <1>12, <1>13, <1>14, <1>15, <1>16

LEMMA EntryIs ==
  ASSUME NEW o \in Nat, NEW size \in Nat, NEW b, IsCounts(b, Area(o, size)),
         NEW P \in SUBSET Patterns4(0..size - 1), P # {}, NEW e, e = Entry(Counts(b, o, size), P)
  PROVE  /\ IsEntry(e, b, Area(o, size), Made(o, size, P))
         /\ HasTiles(e, o, b, Area(o, size), Made(o, size, P))
<1>1. PICK c, X, F : c = Counts(b, o, size) /\ X = Area(o, size) /\ F = Made(o, size, P)  OBVIOUS
<1>2. \A u \in F : u \in Patterns4(X) /\ Counts(u, o, size) \in P
                   /\ calc_distance(c, Counts(u, o, size)) = Away(b, u, X) /\ Away(b, u, X) \in Nat
  <2>1. ASSUME NEW u \in F
        PROVE  u \in Patterns4(X) /\ Counts(u, o, size) \in P
               /\ calc_distance(c, Counts(u, o, size)) = Away(b, u, X) /\ Away(b, u, X) \in Nat
    <3>1. u \in Patterns4(X) /\ Counts(u, o, size) \in P  BY <1>1 DEF Made
    <3>2. IsPattern(u, X)  BY <3>1 DEF IsPattern, Patterns4
    <3>3. calc_distance(c, Counts(u, o, size)) = Away(b, u, X)  BY <1>1, <3>2, CountsAway
    <3>4. IsFiniteSet(X)
      <4>1. PICK l, h : l = o /\ h = o + size - 1 /\ l \in Int /\ h \in Int  OBVIOUS
      <4>2. IsFiniteSet(l..h)  BY <4>1, FS_Interval
      <4>. QED  BY <1>1, <4>1, <4>2 DEF Area
    <3>5. Away(b, u, X) \in Nat  BY <1>1, <3>2, <3>4, CellsFinite
    <3>. QED  BY <3>1, <3>3, <3>5
  <2>. QED  BY <2>1
<1>3. \A p \in P : \E u \in F : Counts(u, o, size) = p
  <2>1. ASSUME NEW p \in P  PROVE \E u \in F : Counts(u, o, size) = p
    <3>1. PICK u \in Patterns4(X) : Counts(u, o, size) = p  BY <1>1, CountsBack
    <3>. QED  BY <1>1, <3>1 DEF Made
  <2>. QED  BY <2>1
<1>4. /\ \A k \in 0..size - 1 : o + k \in X /\ c[k] = b[o + k] /\ \A u : Counts(u, o, size)[k] = u[o + k]
      /\ DOMAIN c = 0..size - 1
  BY <1>1 DEF Counts, Area
<1>5. \A j \in Int : j + o \in X <=> j \in 0..size - 1  BY <1>1 DEF Area
<1>6. \A p \in P : calc_distance(c, p) \in Nat  BY <1>2, <1>3
<1>7. /\ e.dist \in Nat
      /\ \A p \in P : e.dist <= calc_distance(c, p)
      /\ \E p \in P : e.dist = calc_distance(c, p)
      /\ \A j : j \in e.wait <=> j \in DOMAIN c /\ \E p \in P : e.dist = calc_distance(c, p) /\ p[j] > c[j]
      /\ \A j : j \in e.disc <=> j \in DOMAIN c /\ \E p \in P : e.dist = calc_distance(c, p) /\ p[j] < c[j]
  BY <1>1, <1>6, EntryDef
<1>8. \A u \in F : e.dist <= Away(b, u, X)  BY <1>2, <1>7
<1>9. \E u \in F : e.dist = Away(b, u, X)
  <2>1. PICK p \in P : e.dist = calc_distance(c, p)  BY <1>7
  <2>2. PICK u \in F : Counts(u, o, size) = p  BY <1>3
  <2>. QED  BY <1>2, <2>1, <2>2
<1>10. IsEntry(e, b, X, F)  BY <1>7, <1>8, <1>9 DEF IsEntry
<1>11. ASSUME NEW j \in Int
       PROVE  /\ j \in e.wait <=> Wanted(e, b, X, F, j + o)
              /\ j \in e.disc <=> Spare(e, b, X, F, j + o)
  <2>1. CASE j \in 0..size - 1
    <3>1. j + o \in X /\ c[j] = b[j + o] /\ j + o = o + j
      <4>1. j + o = o + j  OBVIOUS
      <4>2. o + j \in X /\ c[j] = b[o + j]  BY ONLY <1>4, <2>1
      <4>. QED  BY ONLY <4>1, <4>2
    <3>2. \A u : Counts(u, o, size)[j] = u[j + o]  BY <1>4, <2>1, <3>1
    <3>3. ASSUME NEW u \in F, e.dist = Away(b, u, X)
          PROVE  \E p \in P : e.dist = calc_distance(c, p) /\ p[j] = u[j + o]
      BY <1>2, <3>2, <3>3
    <3>4. ASSUME NEW p \in P, e.dist = calc_distance(c, p)
          PROVE  \E u \in F : e.dist = Away(b, u, X) /\ p[j] = u[j + o]
      <4>1. PICK u \in F : Counts(u, o, size) = p  BY <1>3
      <4>. QED  BY <1>2, <3>2, <3>4, <4>1
    <3>5. (\E p \in P : e.dist = calc_distance(c, p) /\ p[j] > c[j])
            <=> \E u \in F : e.dist = Away(b, u, X) /\ u[j + o] > b[j + o]
      BY <3>1, <3>3, <3>4
    <3>6. (\E p \in P : e.dist = calc_distance(c, p) /\ p[j] < c[j])
            <=> \E u \in F : e.dist = Away(b, u, X) /\ u[j + o] < b[j + o]
      BY <3>1, <3>3, <3>4
    <3>. QED  BY <1>4, <1>7, <2>1, <3>1, <3>5, <3>6 DEF Wanted, Spare
  <2>2. CASE j \notin 0..size - 1
    <3>1. j \notin e.wait /\ j \notin e.disc  BY <1>4, <1>7, <2>2
    <3>2. j + o \notin X  BY <1>5, <2>2
    <3>. QED  BY <3>1, <3>2 DEF Wanted, Spare
  <2>. QED  BY <2>1, <2>2
<1>12. \A j : j \in e.wait \/ j \in e.disc => j \in Int  BY <1>4, <1>7
<1>13. HasTiles(e, o, b, X, F)  BY <1>11, <1>12, Zenon DEF HasTiles
<1>. QED  BY <1>1, <1>10, <1>13

-----------------------------------------------------------------------------
(* Patterns of one group at most: index 5 is for a pair, 1 for a group and *)
(* 6 for both.                                                             *)

HasPair(i) == i \in {5, 6}
HasGroup(i) == i \in {1, 6}
IsSplit(i, x, y) ==
  /\ HasPair(i) <=> HasPair(x) \/ HasPair(y)
  /\ HasGroup(i) <=> HasGroup(x) \/ HasGroup(y)
  /\ ~(HasPair(x) /\ HasPair(y)) /\ ~(HasGroup(x) /\ HasGroup(y))

LEMMA SplitsOne ==
  /\ Indices(1) = {0, 1, 5, 6}
  /\ \A i \in Indices(1) : \A s \in Splits(i) :
       s[1] \in Indices(1) /\ s[2] \in Indices(1) /\ IsSplit(i, s[1], s[2])
  /\ \A i, x, y \in Indices(1) : IsSplit(i, x, y) => <<x, y>> \in Splits(i)
  /\ \A a, g \in BOOLEAN : \E x \in Indices(1) : (HasPair(x) <=> a) /\ (HasGroup(x) <=> g)
<1>1. Indices(1) = {0, 1, 5, 6}
  <2>1. 0..1 = {0, 1} /\ 5..5 + 1 = {5, 6}  OBVIOUS
  <2>. QED  BY <2>1 DEF Indices
<1>2. ASSUME NEW i \in Indices(1)
      PROVE  /\ \A s \in Splits(i) : /\ s[1] \in Indices(1) /\ s[2] \in Indices(1) /\ s[1] + s[2] = i
                                     /\ i < 5 => s[1] < 5 /\ s[2] < 5
                                     /\ i >= 5 => (s[1] < 5 <=> s[2] >= 5)
             /\ \A x, y \in Indices(1) : /\ x + y = i /\ (i < 5 => x < 5 /\ y < 5) /\ (i >= 5 => (x < 5 <=> y >= 5))
                                         => <<x, y>> \in Splits(i)
  <2>1. PICK m : m = 1 /\ m \in 0..4  OBVIOUS
  <2>2. i \in Indices(m)  BY <2>1
  <2>. QED  BY <2>1, <2>2, SplitsAre
<1>3. ASSUME NEW i \in Indices(1), NEW s \in Splits(i)
      PROVE  s[1] \in Indices(1) /\ s[2] \in Indices(1) /\ IsSplit(i, s[1], s[2])
  <2>1. PICK x, y : x = s[1] /\ y = s[2] /\ x \in Indices(1) /\ y \in Indices(1) /\ x + y = i
                    /\ (i < 5 => x < 5 /\ y < 5) /\ (i >= 5 => (x < 5 <=> y >= 5))
    BY <1>2
  <2>2. IsSplit(i, x, y)  BY <1>1, <2>1 DEF IsSplit, HasPair, HasGroup
  <2>. QED  BY <2>1, <2>2
<1>4. ASSUME NEW i \in Indices(1), NEW x \in Indices(1), NEW y \in Indices(1), IsSplit(i, x, y)
      PROVE  <<x, y>> \in Splits(i)
  <2>1. x + y = i /\ (i < 5 => x < 5 /\ y < 5) /\ (i >= 5 => (x < 5 <=> y >= 5))
    BY <1>1, <1>4 DEF IsSplit, HasPair, HasGroup
  <2>. QED  BY <1>2, <2>1
<1>5. ASSUME NEW a \in BOOLEAN, NEW g \in BOOLEAN
      PROVE  \E x \in Indices(1) : (HasPair(x) <=> a) /\ (HasGroup(x) <=> g)
  <2>1. PICK x : x = IF a THEN IF g THEN 6 ELSE 5 ELSE IF g THEN 1 ELSE 0  OBVIOUS
  <2>. QED  BY <1>1, <2>1 DEF HasPair, HasGroup
<1>. QED  BY <1>1, <1>3, <1>4, <1>5

\* Pairs and groups of all tiles, and what of them lies within a region.
Blank == [k \in 0..33 |-> 0]
Groups == OneGroup!Triplets \cup OneGroup!Sequences
PairOr(i) == IF HasPair(i) THEN OneGroup!Pairs ELSE {Blank}
GroupOr(i) == IF HasGroup(i) THEN Groups ELSE {Blank}
Within(q, X) == \A k \in 0..33 : k \notin X => q[k] = 0
IsSum(w, p, q, X) == \A k \in X : w[k] = p[k] + q[k]
Consists(w, X, i) == \E p \in PairOr(i), q \in GroupOr(i) : Within(p, X) /\ Within(q, X) /\ IsSum(w, p, q, X)
Shapes(X) == [i \in Indices(1) |-> {w \in Patterns4(X) : Consists(w, X, i)}]

\* No pair and no group is in both of two regions.
IsIn(q, X, Y) == Within(q, X \cup Y) => Within(q, X) \/ Within(q, Y)

LEMMA PiecesAre ==
  /\ \A i : \A p \in PairOr(i) : p \in [0..33 -> 0..3]
  /\ \A i : \A q \in GroupOr(i) : q \in [0..33 -> 0..3]
  /\ \A X : Within(Blank, X)
  /\ \A i, X, Y : \A p \in PairOr(i) : IsIn(p, X, Y)
<1>1. Blank \in [0..33 -> 0..3] /\ \A X : Within(Blank, X)  BY DEF Blank, Within
<1>2. \A K : \A n \in 0..3 : OneGroup!Of(K, n) \in [0..33 -> 0..3]  BY DEF OneGroup!Of
<1>3. OneGroup!Pairs \subseteq [0..33 -> 0..3]
  <2>1. ASSUME NEW p \in OneGroup!Pairs  PROVE \E K : p = OneGroup!Of(K, 2)  BY DEF OneGroup!Pairs
  <2>2. 2 \in 0..3  OBVIOUS
  <2>. QED  BY <1>2, <2>1, <2>2
<1>4. Groups \subseteq [0..33 -> 0..3]
  <2>1. \A p \in Groups : \E K : p = OneGroup!Of(K, 3) \/ p = OneGroup!Of(K, 1)
    BY DEF Groups, OneGroup!Triplets, OneGroup!Sequences
  <2>. QED  BY <1>2, <2>1
<1>5. ASSUME NEW X, NEW Y, NEW p \in OneGroup!Pairs  PROVE IsIn(p, X, Y)
  <2>1. PICK k \in 0..33 : p = OneGroup!Of({k}, 2)  BY DEF OneGroup!Pairs
  <2>2. p[k] = 2 /\ \A j \in 0..33 : j # k => p[j] = 0  BY <2>1 DEF OneGroup!Of
  <2>. QED  BY <2>2 DEF IsIn, Within
<1>6. \A X, Y : IsIn(Blank, X, Y)  BY <1>1 DEF IsIn
<1>. QED  BY <1>1, <1>3, <1>4, <1>5, <1>6 DEF PairOr, GroupOr

\* The part of a piece in one of two regions.
PartIn(q, X) == IF Within(q, X) THEN q ELSE Blank
PartOut(q, X) == IF Within(q, X) THEN Blank ELSE q

LEMMA PartsAre ==
  ASSUME NEW q, NEW X \in SUBSET (0..33), NEW Y \in SUBSET (0..33), Apart(X, Y), IsIn(q, X, Y), Within(q, X \cup Y)
  PROVE  /\ Within(PartIn(q, X), X) /\ Within(PartOut(q, X), Y)
         /\ \A k \in X : PartIn(q, X)[k] = q[k]
         /\ \A k \in Y : PartOut(q, X)[k] = q[k]
BY DEF PartIn, PartOut, Apart, IsIn, Within, Blank

LEMMA GluedShapes ==
  ASSUME NEW X \in SUBSET (0..33), NEW Y \in SUBSET (0..33), Apart(X, Y), \A q \in Groups : IsIn(q, X, Y),
         NEW i \in Indices(1)
  PROVE  Glued(Shapes(X), Shapes(Y), X, Y, i) = Shapes(X \cup Y)[i]
<1>1. \A q \in GroupOr(i) : IsIn(q, X, Y)
  <2>1. IsIn(Blank, X, Y)  BY PiecesAre DEF IsIn
  <2>. QED  BY <2>1 DEF GroupOr
<1>2. \A p \in PairOr(i) : IsIn(p, X, Y)  BY PiecesAre
<1>3. ASSUME NEW w \in Patterns4(X \cup Y), NEW s \in Splits(i),
             On(w, X) \in Shapes(X)[s[1]], On(w, Y) \in Shapes(Y)[s[2]]
      PROVE  Consists(w, X \cup Y, i)
  <2>1. PICK x, y : x = s[1] /\ y = s[2] /\ x \in Indices(1) /\ y \in Indices(1) /\ IsSplit(i, x, y)
    BY SplitsOne
  <2>2. Consists(On(w, X), X, x) /\ Consists(On(w, Y), Y, y)  BY <1>3, <2>1 DEF Shapes
  <2>3. PICK p1 \in PairOr(x), q1 \in GroupOr(x) : Within(p1, X) /\ Within(q1, X) /\ IsSum(On(w, X), p1, q1, X)
    BY <2>2 DEF Consists
  <2>4. PICK p2 \in PairOr(y), q2 \in GroupOr(y) : Within(p2, Y) /\ Within(q2, Y) /\ IsSum(On(w, Y), p2, q2, Y)
    BY <2>2 DEF Consists
  <2>5. PICK p : p = IF HasPair(x) THEN p1 ELSE p2  OBVIOUS
  <2>6. PICK q : q = IF HasGroup(x) THEN q1 ELSE q2  OBVIOUS
  <2>7. p \in PairOr(i) /\ q \in GroupOr(i)  BY <2>1, <2>3, <2>4, <2>5, <2>6 DEF IsSplit, PairOr, GroupOr
  <2>8. Within(p, X \cup Y) /\ Within(q, X \cup Y)  BY <2>3, <2>4, <2>5, <2>6 DEF Within
  <2>9. /\ p1 \in [0..33 -> 0..3] /\ q1 \in [0..33 -> 0..3]
        /\ p2 \in [0..33 -> 0..3] /\ q2 \in [0..33 -> 0..3]
    BY <2>3, <2>4, PiecesAre
  <2>10. ASSUME NEW k \in X  PROVE w[k] = p[k] + q[k]
    <3>1. w[k] = p1[k] + q1[k]  BY <2>3 DEF IsSum, On
    <3>2. k \in 0..33 /\ p2[k] = 0 /\ q2[k] = 0  BY <2>4 DEF Within, Apart
    <3>3. (~HasPair(x) => p1[k] = 0) /\ (~HasGroup(x) => q1[k] = 0)
      BY <2>3, <3>2 DEF PairOr, GroupOr, Blank
    <3>. QED  BY <2>5, <2>6, <2>9, <3>1, <3>2, <3>3
  <2>11. ASSUME NEW k \in Y  PROVE w[k] = p[k] + q[k]
    <3>1. w[k] = p2[k] + q2[k]  BY <2>4 DEF IsSum, On
    <3>2. k \in 0..33 /\ p1[k] = 0 /\ q1[k] = 0  BY <2>3 DEF Within, Apart
    <3>3. (HasPair(x) => p2[k] = 0) /\ (HasGroup(x) => q2[k] = 0)
      BY <2>1, <2>4, <3>2 DEF IsSplit, PairOr, GroupOr, Blank
    <3>. QED  BY <2>5, <2>6, <2>9, <3>1, <3>2, <3>3
  <2>12. IsSum(w, p, q, X \cup Y)  BY <2>10, <2>11 DEF IsSum
  <2>. QED  BY <2>7, <2>8, <2>12 DEF Consists
<1>4. ASSUME NEW w \in Patterns4(X \cup Y), Consists(w, X \cup Y, i)
      PROVE  \E s \in Splits(i) : On(w, X) \in Shapes(X)[s[1]] /\ On(w, Y) \in Shapes(Y)[s[2]]
  <2>1. PICK p \in PairOr(i), q \in GroupOr(i) : /\ Within(p, X \cup Y) /\ Within(q, X \cup Y)
                                                 /\ IsSum(w, p, q, X \cup Y)
    BY <1>4 DEF Consists
  <2>2. PICK x \in Indices(1) : /\ HasPair(x) <=> HasPair(i) /\ Within(p, X)
                                /\ HasGroup(x) <=> HasGroup(i) /\ Within(q, X)
    <3>1. PICK a, g \in BOOLEAN : (a <=> HasPair(i) /\ Within(p, X)) /\ (g <=> HasGroup(i) /\ Within(q, X))
      OBVIOUS
    <3>. QED  BY <3>1, SplitsOne
  <2>3. PICK y \in Indices(1) : /\ HasPair(y) <=> HasPair(i) /\ ~Within(p, X)
                                /\ HasGroup(y) <=> HasGroup(i) /\ ~Within(q, X)
    <3>1. PICK a, g \in BOOLEAN : (a <=> HasPair(i) /\ ~Within(p, X)) /\ (g <=> HasGroup(i) /\ ~Within(q, X))
      OBVIOUS
    <3>. QED  BY <3>1, SplitsOne
  <2>4. <<x, y>> \in Splits(i)
    <3>1. IsSplit(i, x, y)  BY <2>2, <2>3 DEF IsSplit
    <3>. QED  BY <3>1, SplitsOne
  <2>5. PartIn(p, X) \in PairOr(x) /\ PartOut(p, X) \in PairOr(y)
    BY <2>1, <2>2, <2>3 DEF PartIn, PartOut, PairOr
  <2>6. PartIn(q, X) \in GroupOr(x) /\ PartOut(q, X) \in GroupOr(y)
    BY <2>1, <2>2, <2>3 DEF PartIn, PartOut, GroupOr
  <2>7. /\ Within(PartIn(p, X), X) /\ Within(PartOut(p, X), Y)
        /\ \A k \in X : PartIn(p, X)[k] = p[k]
        /\ \A k \in Y : PartOut(p, X)[k] = p[k]
    BY <1>2, <2>1, PartsAre
  <2>8. /\ Within(PartIn(q, X), X) /\ Within(PartOut(q, X), Y)
        /\ \A k \in X : PartIn(q, X)[k] = q[k]
        /\ \A k \in Y : PartOut(q, X)[k] = q[k]
    BY <1>1, <2>1, PartsAre
  <2>9. IsSum(On(w, X), PartIn(p, X), PartIn(q, X), X)  BY <2>1, <2>7, <2>8 DEF IsSum, On
  <2>10. IsSum(On(w, Y), PartOut(p, X), PartOut(q, X), Y)  BY <2>1, <2>7, <2>8 DEF IsSum, On
  <2>11. Consists(On(w, X), X, x) /\ Consists(On(w, Y), Y, y)
    BY <2>5, <2>6, <2>7, <2>8, <2>9, <2>10 DEF Consists
  <2>12. On(w, X) \in Patterns4(X) /\ On(w, Y) \in Patterns4(Y)  BY DEF On, Patterns4
  <2>13. On(w, X) \in Shapes(X)[x] /\ On(w, Y) \in Shapes(Y)[y]  BY <2>11, <2>12 DEF Shapes
  <2>14. <<x, y>>[1] = x /\ <<x, y>>[2] = y  OBVIOUS
  <2>. QED  BY <2>4, <2>13, <2>14, Zenon
<1>. QED  BY <1>3, <1>4, Zenon DEF Glued, Shapes

-----------------------------------------------------------------------------
(* The patterns that create_distance_table makes.                          *)

LocalPairs(size) == {Of(size, {k}, 2) : k \in 0..size - 1}
Zero(size) == Of(size, {}, 0)
LocalPair(size, i) == IF HasPair(i) THEN LocalPairs(size) ELSE {Zero(size)}
LocalGroup(size, groups, i) == IF HasGroup(i) THEN groups ELSE {Zero(size)}
IsMade(r, size, groups, i) ==
  \E p \in LocalPair(size, i), q \in LocalGroup(size, groups, i) : \A k \in 0..size - 1 : r[k] = p[k] + q[k]

MakesPatterns(f, size, groups) ==
  f = [g \in 0..4 |-> IF g = 0 THEN {Of(size, {}, 0)} ELSE With(f[g - 1], groups)]
MadePatterns(size, groups) == CHOOSE f : MakesPatterns(f, size, groups)

LEMMA WinPatternsDef ==
  ASSUME NEW size, NEW groups
  PROVE  WinPatterns(size, groups)
           = [i \in Indices(4) |-> IF i < 5 THEN MadePatterns(size, groups)[i]
                                   ELSE With(MadePatterns(size, groups)[i - 5], LocalPairs(size))]
BY Zenon DEF WinPatterns, MadePatterns, MakesPatterns, LocalPairs

\* Made group by group, then with a pair.
IsMadeOf(made, P, size, groups) ==
  /\ made[0] = {Zero(size)}
  /\ made[1] = With(made[0], groups) /\ made[2] = With(made[1], groups)
  /\ made[3] = With(made[2], groups) /\ made[4] = With(made[3], groups)
  /\ P = [i \in Indices(4) |-> IF i < 5 THEN made[i] ELSE With(made[i - 5], LocalPairs(size))]

LEMMA WinPatternsAre ==
  ASSUME NEW size, NEW groups, NEW P, P = WinPatterns(size, groups)
  PROVE  \E made : IsMadeOf(made, P, size, groups)
<1>1. \E f : MakesPatterns(f, size, groups)
  <2>1. PICK m0, m1 : m0 = {Of(size, {}, 0)} /\ m1 = With(m0, groups)  OBVIOUS
  <2>2. PICK m2, m3 : m2 = With(m1, groups) /\ m3 = With(m2, groups)  OBVIOUS
  <2>3. PICK m4 : m4 = With(m3, groups)  OBVIOUS
  <2>4. PICK f : f = [g \in 0..4 |-> IF g = 0 THEN m0 ELSE IF g = 1 THEN m1 ELSE IF g = 2 THEN m2
                                     ELSE IF g = 3 THEN m3 ELSE m4]
    OBVIOUS
  <2>5. f[0] = m0 /\ f[1] = m1 /\ f[2] = m2 /\ f[3] = m3 /\ f[4] = m4  BY <2>4
  <2>6. \A g \in 0..4 : f[g] = IF g = 0 THEN {Of(size, {}, 0)} ELSE With(f[g - 1], groups)
    <3>1. ASSUME NEW g \in 0..4
          PROVE  f[g] = IF g = 0 THEN {Of(size, {}, 0)} ELSE With(f[g - 1], groups)
      <4>1. g = 0 \/ g = 1 \/ g = 2 \/ g = 3 \/ g = 4  OBVIOUS
      <4>2. CASE g = 0  BY <2>1, <2>5, <4>2
      <4>3. CASE g = 1
        <5>1. g - 1 = 0 /\ g # 0  BY <4>3
        <5>. QED  BY <2>1, <2>5, <4>3, <5>1
      <4>4. CASE g = 2
        <5>1. g - 1 = 1 /\ g # 0  BY <4>4
        <5>. QED  BY <2>2, <2>5, <4>4, <5>1
      <4>5. CASE g = 3
        <5>1. g - 1 = 2 /\ g # 0  BY <4>5
        <5>. QED  BY <2>2, <2>5, <4>5, <5>1
      <4>6. CASE g = 4
        <5>1. g - 1 = 3 /\ g # 0  BY <4>6
        <5>. QED  BY <2>3, <2>5, <4>6, <5>1
      <4>. QED  BY <4>1, <4>2, <4>3, <4>4, <4>5, <4>6
    <3>. QED  BY <3>1
  <2>7. f = [g \in 0..4 |-> f[g]]  BY <2>4
  <2>8. f = [g \in 0..4 |-> IF g = 0 THEN {Of(size, {}, 0)} ELSE With(f[g - 1], groups)]
    BY <2>6, <2>7, Zenon
  <2>. QED  BY <2>8, Zenon DEF MakesPatterns
<1>2. PICK made : made = MadePatterns(size, groups)  OBVIOUS
<1>3. MakesPatterns(made, size, groups)  BY <1>1, <1>2, Zenon DEF MadePatterns
<1>4. made = [g \in 0..4 |-> IF g = 0 THEN {Of(size, {}, 0)} ELSE With(made[g - 1], groups)]
  BY <1>3, Zenon DEF MakesPatterns
<1>5. made[0] = {Zero(size)}  BY <1>4 DEF Zero
<1>6. ASSUME NEW g \in 1..4  PROVE made[g] = With(made[g - 1], groups)
  <2>1. g \in 0..4 /\ g # 0  OBVIOUS
  <2>. QED  BY <1>4, <2>1
<1>8. /\ made[1] = With(made[0], groups) /\ made[2] = With(made[1], groups)
      /\ made[3] = With(made[2], groups) /\ made[4] = With(made[3], groups)
  <2>1. /\ 1 \in 1..4 /\ 2 \in 1..4 /\ 3 \in 1..4 /\ 4 \in 1..4
        /\ 1 - 1 = 0 /\ 2 - 1 = 1 /\ 3 - 1 = 2 /\ 4 - 1 = 3
    OBVIOUS
  <2>. QED  BY <1>6, <2>1
<1>7. P = [i \in Indices(4) |-> IF i < 5 THEN made[i] ELSE With(made[i - 5], LocalPairs(size))]
  BY <1>2, WinPatternsDef
<1>. QED  BY <1>5, <1>7, <1>8, Zenon DEF IsMadeOf

LEMMA WithIs ==
  ASSUME NEW size \in Nat, NEW M, NEW Q, M \subseteq Patterns4(0..size - 1), Q \subseteq Patterns4(0..size - 1),
         NEW r
  PROVE  r \in With(M, Q) <=> r \in Patterns4(0..size - 1) /\ \E p \in M, q \in Q : \A k \in 0..size - 1 : r[k] = p[k] + q[k]
<1>1. ASSUME NEW p \in M, NEW q \in Q, \A k \in DOMAIN r : r[k] <= 4
      PROVE  r = Add(p, q) <=> r \in Patterns4(0..size - 1) /\ \A k \in 0..size - 1 : r[k] = p[k] + q[k]
  <2>1. Add(p, q) = [k \in 0..size - 1 |-> p[k] + q[k]]  BY DEF Add, Patterns4
  <2>2. \A k \in 0..size - 1 : p[k] \in 0..4 /\ q[k] \in 0..4  BY DEF Patterns4
  <2>3. ASSUME r = Add(p, q)  PROVE r \in Patterns4(0..size - 1)
    <3>1. DOMAIN r = 0..size - 1 /\ r = [k \in 0..size - 1 |-> r[k]]  BY <2>1, <2>3
    <3>2. \A k \in 0..size - 1 : r[k] = p[k] + q[k]  BY <2>1, <2>3
    <3>3. \A k \in 0..size - 1 : r[k] \in 0..4  BY <1>1, <2>2, <3>1, <3>2
    <3>. QED  BY <3>1, <3>3 DEF Patterns4
  <2>4. ASSUME r \in Patterns4(0..size - 1), \A k \in 0..size - 1 : r[k] = p[k] + q[k]  PROVE r = Add(p, q)
    <3>1. r = [k \in 0..size - 1 |-> r[k]]  BY <2>4 DEF Patterns4
    <3>. QED  BY <2>1, <2>4, <3>1
  <2>. QED  BY <2>1, <2>3, <2>4
<1>2. \A x : x \in With(M, Q) <=> (\E p \in M, q \in Q : x = Add(p, q)) /\ \A k \in DOMAIN x : x[k] <= 4
  BY DEF With, Fits
<1>3. r \in Patterns4(0..size - 1) => \A k \in DOMAIN r : r[k] <= 4  BY DEF Patterns4
<1>. QED  BY <1>1, <1>2, <1>3

LEMMA LocalPatterns ==
  ASSUME NEW size \in Nat, NEW groups, groups \subseteq [0..size - 1 -> 0..3], NEW i \in Indices(1), NEW r
  PROVE  r \in WinPatterns(size, groups)[i] <=> r \in Patterns4(0..size - 1) /\ IsMade(r, size, groups, i)
<1>1. PICK P : P = WinPatterns(size, groups)  OBVIOUS
<1>17. PICK made : IsMadeOf(made, P, size, groups)  BY <1>1, WinPatternsAre
<1>2. /\ made[0] = {Zero(size)}
      /\ made[1] = With(made[0], groups)
      /\ P = [j \in Indices(4) |-> IF j < 5 THEN made[j] ELSE With(made[j - 5], LocalPairs(size))]
  BY <1>17, Zenon DEF IsMadeOf
<1>3. /\ 0 \in Indices(4) /\ 1 \in Indices(4) /\ 5 \in Indices(4) /\ 6 \in Indices(4)
      /\ 0 < 5 /\ 1 < 5 /\ ~(5 < 5) /\ ~(6 < 5) /\ 5 - 5 = 0 /\ 6 - 5 = 1
  BY DEF Indices
<1>4. P[0] = made[0] /\ P[1] = made[1] /\ P[5] = With(made[0], LocalPairs(size)) /\ P[6] = With(made[1], LocalPairs(size))
  BY <1>2, <1>3
<1>. DEFINE X == 0..size - 1
<1>5. Zero(size) \in Patterns4(X) /\ \A k \in X : Zero(size)[k] = 0  BY DEF Zero, Of, Patterns4
<1>6. groups \subseteq Patterns4(X) /\ \A q \in groups : \A k \in X : q[k] \in 0..3  BY DEF Patterns4
<1>7. LocalPairs(size) \subseteq Patterns4(X)
  <2>1. ASSUME NEW p \in LocalPairs(size)  PROVE p \in Patterns4(X)
    <3>1. PICK k : p = Of(size, {k}, 2)  BY DEF LocalPairs
    <3>. QED  BY <3>1 DEF Of, Patterns4
  <2>. QED  BY <2>1
<1>8. made[0] \subseteq Patterns4(X)  BY <1>2, <1>5
<1>9. \A x : x \in made[1] <=> x \in groups
  <2>1. ASSUME NEW x  PROVE x \in made[1] <=> x \in Patterns4(X) /\ \E q \in groups : \A k \in X : x[k] = q[k]
    <3>1. x \in made[1] <=> x \in Patterns4(X) /\ \E p \in made[0], q \in groups : \A k \in X : x[k] = p[k] + q[k]
      BY <1>2, <1>6, <1>8, WithIs
    <3>2. \A p \in made[0] : \A q \in groups : \A k \in X : p[k] + q[k] = q[k]  BY <1>2, <1>5, <1>6
    <3>3. \E p \in made[0] : TRUE  BY <1>2
    <3>. QED  BY <3>1, <3>2, <3>3
  <2>2. \A x \in Patterns4(X), q \in Patterns4(X) : (\A k \in X : x[k] = q[k]) => x = q
    BY DEF Patterns4
  <2>. QED  BY <1>6, <2>1, <2>2
<1>10. made[1] = groups  BY <1>9
<1>. HIDE DEF X
<1>11. Indices(1) = {0, 1, 5, 6}  BY SplitsOne
<1>12. CASE i = 0
  <2>1. ~HasPair(i) /\ ~HasGroup(i)  BY <1>12 DEF HasPair, HasGroup
  <2>2. IsMade(r, size, groups, i) <=> \A k \in X : r[k] = Zero(size)[k] + Zero(size)[k]
    BY <2>1 DEF IsMade, LocalPair, LocalGroup, X
  <2>3. \A k \in X : Zero(size)[k] + Zero(size)[k] = Zero(size)[k]  BY <1>5
  <2>4. r \in Patterns4(X) => (r = Zero(size) <=> \A k \in X : r[k] = Zero(size)[k])  BY <1>5 DEF Patterns4
  <2>. QED  BY <1>1, <1>2, <1>4, <1>5, <1>12, <2>2, <2>3, <2>4 DEF X
<1>13. CASE i = 1
  <2>1. ~HasPair(i) /\ HasGroup(i)  BY <1>13 DEF HasPair, HasGroup
  <2>2. IsMade(r, size, groups, i) <=> \E p \in made[0], q \in groups : \A k \in X : r[k] = p[k] + q[k]
    BY <1>2, <2>1 DEF IsMade, LocalPair, LocalGroup, X
  <2>3. r \in made[1] <=> r \in Patterns4(X) /\ \E p \in made[0], q \in groups : \A k \in X : r[k] = p[k] + q[k]
    BY <1>2, <1>6, <1>8, WithIs DEF X
  <2>. QED  BY <1>1, <1>4, <1>13, <2>2, <2>3 DEF X
<1>14. CASE i = 5
  <2>1. HasPair(i) /\ ~HasGroup(i)  BY <1>14 DEF HasPair, HasGroup
  <2>2. IsMade(r, size, groups, i) <=> \E p \in LocalPairs(size), q \in made[0] : \A k \in X : r[k] = p[k] + q[k]
    BY <1>2, <2>1 DEF IsMade, LocalPair, LocalGroup, X
  <2>3. r \in P[5] <=> r \in Patterns4(X) /\ \E p \in made[0], q \in LocalPairs(size) : \A k \in X : r[k] = p[k] + q[k]
    BY <1>4, <1>7, <1>8, WithIs DEF X
  <2>4. \A p \in made[0], q \in LocalPairs(size) : \A k \in X : p[k] + q[k] = q[k] + p[k]
    BY <1>7, <1>8 DEF Patterns4
  <2>. QED  BY <1>1, <1>14, <2>2, <2>3, <2>4 DEF X
<1>15. CASE i = 6
  <2>1. HasPair(i) /\ HasGroup(i)  BY <1>15 DEF HasPair, HasGroup
  <2>2. IsMade(r, size, groups, i) <=> \E p \in LocalPairs(size), q \in groups : \A k \in X : r[k] = p[k] + q[k]
    BY <2>1 DEF IsMade, LocalPair, LocalGroup, X
  <2>3. r \in P[6] <=> r \in Patterns4(X) /\ \E p \in groups, q \in LocalPairs(size) : \A k \in X : r[k] = p[k] + q[k]
    BY <1>4, <1>6, <1>7, <1>10, WithIs DEF X
  <2>4. \A p \in groups, q \in LocalPairs(size) : \A k \in X : p[k] + q[k] = q[k] + p[k]
    BY <1>6, <1>7 DEF Patterns4
  <2>. QED  BY <1>1, <1>15, <2>2, <2>3, <2>4 DEF X
<1>. QED  BY <1>11, <1>12, <1>13, <1>14, <1>15

-----------------------------------------------------------------------------
(* The patterns of a table are those of the tiles from o on.               *)

Matches(p, q, o, size) == Within(q, Area(o, size)) /\ \A k \in 0..size - 1 : q[o + k] = p[k]
SameParts(A, B, o, size) ==
  /\ \A p \in A : \E q \in B : Matches(p, q, o, size)
  /\ \A q \in B : Within(q, Area(o, size)) => \E p \in A : Matches(p, q, o, size)
IsPlace(o, size) == o \in 0..33 /\ size \in 1..34 /\ o + size <= 34

LEMMA PlaceIn ==
  ASSUME NEW o, NEW size, IsPlace(o, size)
  PROVE  /\ o \in Nat /\ size \in Nat /\ Area(o, size) \in SUBSET (0..33)
         /\ \A k \in 0..size - 1 : o + k \in Area(o, size)
         /\ \A j \in Area(o, size) : j - o \in 0..size - 1 /\ o + (j - o) = j
BY DEF IsPlace, Area

LEMMA SetMatches ==
  ASSUME NEW o, NEW size, IsPlace(o, size), NEW K, NEW L \in SUBSET Area(o, size), NEW n \in Nat,
         \A k \in 0..size - 1 : k \in K <=> o + k \in L
  PROVE  Matches(Of(size, K, n), OneGroup!Of(L, n), o, size)
<1>1. PICK p, q : p = Of(size, K, n) /\ q = OneGroup!Of(L, n)  OBVIOUS
<1>2. \A k \in 0..size - 1 : p[k] = IF k \in K THEN n ELSE 0  BY <1>1 DEF Of
<1>3. \A j \in 0..33 : q[j] = IF j \in L THEN n ELSE 0  BY <1>1 DEF OneGroup!Of
<1>4. Within(q, Area(o, size))  BY <1>3 DEF Within
<1>5. \A k \in 0..size - 1 : q[o + k] = p[k]
  <2>1. ASSUME NEW k \in 0..size - 1  PROVE q[o + k] = p[k]
    <3>1. PICK j \in 0..33 : j = o + k  BY PlaceIn
    <3>2. k \in K <=> j \in L  BY <3>1
    <3>. QED  BY <1>2, <1>3, <3>1, <3>2
  <2>. QED  BY <2>1
<1>. QED  BY <1>1, <1>4, <1>5 DEF Matches

\* A set of tiles that all lie in an area.
LEMMA SetWithin ==
  ASSUME NEW X, NEW L \in SUBSET (0..33), NEW n \in Nat \ {0}, Within(OneGroup!Of(L, n), X)
  PROVE  L \subseteq X
<1>1. \A j \in L : OneGroup!Of(L, n)[j] = n  BY DEF OneGroup!Of
<1>. QED  BY <1>1 DEF Within

\* One kind of tile, n times.
LEMMA KindsMatch ==
  ASSUME NEW o, NEW size, IsPlace(o, size), NEW n \in Nat \ {0}
  PROVE  SameParts({Of(size, {k}, n) : k \in 0..size - 1}, {OneGroup!Of({k}, n) : k \in 0..33}, o, size)
<1>. DEFINE A == {Of(size, {k}, n) : k \in 0..size - 1}
            B == {OneGroup!Of({k}, n) : k \in 0..33}
<1>1. ASSUME NEW k \in 0..size - 1
      PROVE  o + k \in 0..33 /\ Matches(Of(size, {k}, n), OneGroup!Of({o + k}, n), o, size)
  <2>1. o + k \in Area(o, size) /\ o + k \in 0..33  BY PlaceIn
  <2>2. \A j \in 0..size - 1 : j \in {k} <=> o + j \in {o + k}  BY PlaceIn
  <2>3. PICK L \in SUBSET Area(o, size) : L = {o + k}  BY <2>1
  <2>. QED  BY <2>1, <2>2, <2>3, SetMatches
<1>2. ASSUME NEW j \in 0..33, Within(OneGroup!Of({j}, n), Area(o, size))
      PROVE  \E k \in 0..size - 1 : Matches(Of(size, {k}, n), OneGroup!Of({j}, n), o, size)
  <2>1. j \in Area(o, size)
    <3>1. PICK L \in SUBSET (0..33) : L = {j}  OBVIOUS
    <3>2. L \subseteq Area(o, size)  BY <1>2, <3>1, SetWithin
    <3>. QED  BY <3>1, <3>2
  <2>2. PICK k \in 0..size - 1 : o + k = j  BY <2>1, PlaceIn
  <2>. QED  BY <1>1, <2>2
<1>3. \A p \in A : \E q \in B : Matches(p, q, o, size)  BY <1>1
<1>4. \A q \in B : Within(q, Area(o, size)) => \E p \in A : Matches(p, q, o, size)  BY <1>2
<1>. QED  BY <1>3, <1>4, Zenon DEF SameParts

LEMMA PairsMatch ==
  ASSUME NEW o, NEW size, IsPlace(o, size), NEW i
  PROVE  SameParts(LocalPair(size, i), PairOr(i), o, size)
<1>1. CASE HasPair(i)
  <2>1. 2 \in Nat \ {0}  OBVIOUS
  <2>2. SameParts(LocalPairs(size), OneGroup!Pairs, o, size)
    BY <2>1, KindsMatch DEF LocalPairs, OneGroup!Pairs
  <2>. QED  BY <1>1, <2>2 DEF LocalPair, PairOr
<1>2. CASE ~HasPair(i)
  <2>1. Matches(Zero(size), Blank, o, size)
    <3>1. \A k \in 0..size - 1 : o + k \in 0..33  BY PlaceIn
    <3>. QED  BY <3>1, PiecesAre DEF Matches, Zero, Of, Blank
  <2>. QED  BY <1>2, <2>1 DEF LocalPair, PairOr, SameParts
<1>. QED  BY <1>1, <1>2

LEMMA BlankMatches ==
  ASSUME NEW o, NEW size, IsPlace(o, size)
  PROVE  SameParts({Zero(size)}, {Blank}, o, size)
<1>1. \A k \in 0..size - 1 : o + k \in 0..33  BY PlaceIn
<1>2. Matches(Zero(size), Blank, o, size)  BY <1>1, PiecesAre DEF Matches, Zero, Of, Blank
<1>. QED  BY <1>2 DEF SameParts

LEMMA SuitGroupsMatch ==
  ASSUME NEW o \in {0, 9, 18}
  PROVE  SameParts(triplets(9) \cup {Of(9, k..k + 2, 1) : k \in 0..6}, Groups, o, 9)
<1>1. IsPlace(o, 9)  BY DEF IsPlace
<1>2. SameParts(triplets(9), OneGroup!Triplets, o, 9)
  <2>1. 3 \in Nat \ {0}  OBVIOUS
  <2>. QED  BY <1>1, <2>1, KindsMatch DEF triplets, OneGroup!Triplets
<1>. DEFINE A == {Of(9, k..k + 2, 1) : k \in 0..6}
            J == {j \in 0..33 : j < 27 /\ j % 9 < 7 /\ j..(j + 2) \subseteq 0..33}
<1>3. ASSUME NEW k \in 0..6
      PROVE  o + k \in J /\ Matches(Of(9, k..k + 2, 1), OneGroup!Of((o + k)..((o + k) + 2), 1), o, 9)
  <2>1. PICK j \in Int : j = o + k  OBVIOUS
  <2>2. j \in J
    <3>1. j \in 0..26 /\ j % 9 < 7  BY <2>1
    <3>. QED  BY <3>1
  <2>3. PICK L \in SUBSET Area(o, 9) : L = j..(j + 2)
    <3>1. j..(j + 2) \in SUBSET Area(o, 9)  BY <2>1 DEF Area
    <3>. QED  BY <3>1
  <2>4. \A l \in 0..9 - 1 : l \in k..k + 2 <=> o + l \in L  BY <2>1, <2>3
  <2>5. 1 \in Nat  OBVIOUS
  <2>6. Matches(Of(9, k..k + 2, 1), OneGroup!Of(L, 1), o, 9)
    <3>1. PICK K : K = k..k + 2  OBVIOUS
    <3>. QED  BY <1>1, <2>4, <2>5, <3>1, SetMatches
  <2>. QED  BY <2>1, <2>2, <2>3, <2>6
<1>4. ASSUME NEW j \in J, Within(OneGroup!Of(j..(j + 2), 1), Area(o, 9))
      PROVE  \E k \in 0..6 : o + k = j
  <2>1. PICK L \in SUBSET (0..33) : L = j..(j + 2)  OBVIOUS
  <2>2. L \subseteq Area(o, 9)
    <3>1. 1 \in Nat \ {0}  OBVIOUS
    <3>. QED  BY <1>4, <2>1, <3>1, SetWithin
  <2>3. j \in Area(o, 9) /\ j % 9 < 7  BY <2>1, <2>2
  <2>4. j - o \in 0..8 /\ j \in Int  BY <2>3 DEF Area
  <2>5. j - o \in 0..6
    <3>1. j \in 0..33 /\ j + 2 \in Area(o, 9)  BY <2>1, <2>2
    <3>. QED  BY <2>4, <3>1 DEF Area
  <2>6. o + (j - o) = j  BY <2>4
  <2>. QED  BY <2>5, <2>6
<1>5. SameParts(A, OneGroup!Sequences, o, 9)
  <2>1. \A q : q \in OneGroup!Sequences <=> \E j \in J : q = OneGroup!Of(j..(j + 2), 1)
    BY DEF OneGroup!Sequences
  <2>. HIDE DEF J
  <2>2. \A p \in A : \E q \in OneGroup!Sequences : Matches(p, q, o, 9)  BY <1>3, <2>1
  <2>3. ASSUME NEW q \in OneGroup!Sequences, Within(q, Area(o, 9))
        PROVE  \E p \in A : Matches(p, q, o, 9)
    <3>1. PICK j \in J : q = OneGroup!Of(j..(j + 2), 1)  BY <2>1
    <3>2. PICK k \in 0..6 : o + k = j  BY <1>4, <2>3, <3>1
    <3>. QED  BY <1>3, <3>1, <3>2
  <2>. QED  BY <2>2, <2>3, Zenon DEF SameParts
<1>. QED  BY <1>2, <1>5 DEF SameParts, Groups

LEMMA HonorGroupsMatch == SameParts(triplets(7), Groups, East, 7)
<1>1. IsPlace(East, 7)  BY DEF IsPlace, East
<1>2. SameParts(triplets(7), OneGroup!Triplets, East, 7)
  <2>1. 3 \in Nat \ {0}  OBVIOUS
  <2>. QED  BY <1>1, <2>1, KindsMatch DEF triplets, OneGroup!Triplets
<1>3. ASSUME NEW q \in OneGroup!Sequences, Within(q, Area(East, 7))  PROVE FALSE
  <2>1. PICK j \in 0..33 : j < 27 /\ j..(j + 2) \subseteq 0..33 /\ q = OneGroup!Of(j..(j + 2), 1)
    BY DEF OneGroup!Sequences
  <2>2. PICK L \in SUBSET (0..33) : L = j..(j + 2)  BY <2>1
  <2>3. L \subseteq Area(East, 7)
    <3>1. 1 \in Nat \ {0}  OBVIOUS
    <3>. QED  BY <1>3, <2>1, <2>2, <3>1, SetWithin
  <2>. QED  BY <2>1, <2>2, <2>3 DEF Area, East
<1>. QED  BY <1>2, <1>3 DEF SameParts, Groups

LEMMA TableShapes ==
  ASSUME NEW o, NEW size, IsPlace(o, size), NEW groups, groups \subseteq [0..size - 1 -> 0..3],
         SameParts(groups, Groups, o, size), NEW i \in Indices(1)
  PROVE  /\ WinPatterns(size, groups)[i] \subseteq Patterns4(0..size - 1)
         /\ Made(o, size, WinPatterns(size, groups)[i]) = Shapes(Area(o, size))[i]
<1>1. /\ o \in Nat /\ size \in Nat /\ Area(o, size) \in SUBSET (0..33)
      /\ \A k \in 0..size - 1 : o + k \in Area(o, size)
      /\ \A j \in Area(o, size) : j - o \in 0..size - 1 /\ o + (j - o) = j
  BY PlaceIn
<1>2. PICK P : P = WinPatterns(size, groups)[i]  OBVIOUS
<1>3. \A r : r \in P <=> r \in Patterns4(0..size - 1) /\ IsMade(r, size, groups, i)
  BY <1>1, <1>2, LocalPatterns
<1>4. SameParts(LocalPair(size, i), PairOr(i), o, size)  BY PairsMatch
<1>5. SameParts(LocalGroup(size, groups, i), GroupOr(i), o, size)
  BY BlankMatches DEF LocalGroup, GroupOr
<1>6. ASSUME NEW u \in Patterns4(Area(o, size))
      PROVE  Counts(u, o, size) \in P <=> Consists(u, Area(o, size), i)
  <2>1. PICK c : c = Counts(u, o, size)  OBVIOUS
  <2>2. c \in Patterns4(0..size - 1) /\ \A k \in 0..size - 1 : c[k] = u[o + k]
    <3>1. c = [k \in 0..size - 1 |-> u[o + k]]  BY <2>1 DEF Counts
    <3>2. \A k \in 0..size - 1 : u[o + k] \in 0..4  BY <1>1 DEF Patterns4
    <3>. QED  BY <3>1, <3>2 DEF Patterns4
  <2>3. ASSUME NEW p, NEW q, NEW P1, NEW Q1, Matches(p, P1, o, size), Matches(q, Q1, o, size)
        PROVE  (\A k \in 0..size - 1 : c[k] = p[k] + q[k]) <=> IsSum(u, P1, Q1, Area(o, size))
    <3>1. \A k \in 0..size - 1 : P1[o + k] = p[k] /\ Q1[o + k] = q[k]  BY <2>3 DEF Matches
    <3>2. ASSUME \A k \in 0..size - 1 : c[k] = p[k] + q[k], NEW j \in Area(o, size)
          PROVE  u[j] = P1[j] + Q1[j]
      <4>1. PICK k \in 0..size - 1 : o + k = j  BY <1>1
      <4>. QED  BY <2>2, <3>1, <3>2, <4>1
    <3>3. ASSUME \A j \in Area(o, size) : u[j] = P1[j] + Q1[j], NEW k \in 0..size - 1
          PROVE  c[k] = p[k] + q[k]
      <4>1. PICK j \in Area(o, size) : o + k = j  BY <1>1
      <4>. QED  BY <2>2, <3>1, <3>3, <4>1
    <3>. QED  BY <3>2, <3>3 DEF IsSum
  <2>4. ASSUME IsMade(c, size, groups, i)  PROVE Consists(u, Area(o, size), i)
    <3>1. PICK p \in LocalPair(size, i), q \in LocalGroup(size, groups, i) : \A k \in 0..size - 1 : c[k] = p[k] + q[k]
      BY <2>4 DEF IsMade
    <3>2. PICK P1 \in PairOr(i) : Matches(p, P1, o, size)  BY <1>4, <3>1 DEF SameParts
    <3>3. PICK Q1 \in GroupOr(i) : Matches(q, Q1, o, size)  BY <1>5, <3>1 DEF SameParts
    <3>4. IsSum(u, P1, Q1, Area(o, size))  BY <2>3, <3>1, <3>2, <3>3
    <3>. QED  BY <3>2, <3>3, <3>4 DEF Matches, Consists
  <2>5. ASSUME Consists(u, Area(o, size), i)  PROVE IsMade(c, size, groups, i)
    <3>1. PICK P1 \in PairOr(i), Q1 \in GroupOr(i) : /\ Within(P1, Area(o, size)) /\ Within(Q1, Area(o, size))
                                                     /\ IsSum(u, P1, Q1, Area(o, size))
      BY <2>5 DEF Consists
    <3>2. PICK p \in LocalPair(size, i) : Matches(p, P1, o, size)  BY <1>4, <3>1 DEF SameParts
    <3>3. PICK q \in LocalGroup(size, groups, i) : Matches(q, Q1, o, size)  BY <1>5, <3>1 DEF SameParts
    <3>4. \A k \in 0..size - 1 : c[k] = p[k] + q[k]  BY <2>3, <3>1, <3>2, <3>3
    <3>. QED  BY <3>2, <3>3, <3>4 DEF IsMade
  <2>. QED  BY <1>3, <2>1, <2>2, <2>4, <2>5
<1>7. \A u : u \in Made(o, size, P) <=> u \in Patterns4(Area(o, size)) /\ Consists(u, Area(o, size), i)
  BY <1>6 DEF Made
<1>8. \A u : u \in Shapes(Area(o, size))[i] <=> u \in Patterns4(Area(o, size)) /\ Consists(u, Area(o, size), i)
  BY DEF Shapes
<1>9. Made(o, size, P) = Shapes(Area(o, size))[i]
  <2>1. PICK A, B : A = Made(o, size, P) /\ B = Shapes(Area(o, size))[i]  OBVIOUS
  <2>2. \A u : u \in A <=> u \in B  BY <1>7, <1>8, <2>1
  <2>3. A = B  BY <2>2
  <2>. QED  BY <2>1, <2>3
<1>. QED  BY <1>2, <1>3, <1>9

\* There is a pattern for every index: a pair of one kind, three of another.
LEMMA SomePattern ==
  ASSUME NEW size \in Nat, size >= 2, NEW groups, groups \subseteq [0..size - 1 -> 0..3],
         triplets(size) \subseteq groups, NEW i \in Indices(1)
  PROVE  WinPatterns(size, groups)[i] # {}
<1>. DEFINE X == 0..size - 1
<1>1. 0 \in X /\ 1 \in X  OBVIOUS
<1>2. PICK p, q : /\ p = IF HasPair(i) THEN Of(size, {0}, 2) ELSE Zero(size)
                  /\ q = IF HasGroup(i) THEN Of(size, {1}, 3) ELSE Zero(size)
  OBVIOUS
<1>3. p \in LocalPair(size, i)  BY <1>1, <1>2 DEF LocalPair, LocalPairs
<1>4. q \in LocalGroup(size, groups, i)  BY <1>1, <1>2 DEF LocalGroup, triplets
<1>5. \A k \in X : p[k] \in 0..2 /\ q[k] \in 0..3 /\ (p[k] = 0 \/ q[k] = 0)  BY <1>2 DEF Of, Zero
<1>6. PICK r : r = [k \in X |-> p[k] + q[k]]  OBVIOUS
<1>7. r \in Patterns4(X)  BY <1>5, <1>6 DEF Patterns4
<1>8. IsMade(r, size, groups, i)  BY <1>3, <1>4, <1>6 DEF IsMade
<1>. QED  BY <1>7, <1>8, LocalPatterns

LEMMA PatternsFit ==
  /\ triplets(9) \subseteq [0..9 - 1 -> 0..3] /\ triplets(7) \subseteq [0..7 - 1 -> 0..3]
  /\ {Of(9, k..k + 2, 1) : k \in 0..6} \subseteq [0..9 - 1 -> 0..3]
<1>1. \A size : \A K : Of(size, K, 3) \in [0..size - 1 -> 0..3] /\ Of(size, K, 1) \in [0..size - 1 -> 0..3]
  BY DEF Of
<1>2. ASSUME NEW size, NEW p \in triplets(size)  PROVE p \in [0..size - 1 -> 0..3]
  <2>1. PICK k : p = Of(size, {k}, 3)  BY <1>2 DEF triplets
  <2>. QED  BY <1>1, <2>1
<1>3. ASSUME NEW p \in {Of(9, k..k + 2, 1) : k \in 0..6}  PROVE p \in [0..9 - 1 -> 0..3]
  <2>1. PICK K : p = Of(9, K, 1)  BY <1>3
  <2>. QED  BY <1>1, <2>1
<1>. QED  BY <1>2, <1>3

\* What a table holds for the tiles from o on.
IsTable(E, b, o, X) ==
  /\ Region(E, b, X, Shapes(X), 1)
  /\ \A h \in Indices(1) : HasTiles(E[h], o, b, X, Shapes(X)[h])

LEMMA TableEntries ==
  ASSUME NEW o, NEW size, IsPlace(o, size), size >= 2, NEW groups, groups \subseteq [0..size - 1 -> 0..3],
         triplets(size) \subseteq groups, SameParts(groups, Groups, o, size),
         NEW b, IsCounts(b, 0..33), NEW E, \A i \in Indices(1) : E[i] = Entry(Counts(b, o, size), WinPatterns(size, groups)[i])
  PROVE  IsTable(E, b, o, Area(o, size))
<1>1. o \in Nat /\ size \in Nat /\ Area(o, size) \in SUBSET (0..33)  BY PlaceIn
<1>2. PICK X : X = Area(o, size)  OBVIOUS
<1>3. IsCounts(b, X)  BY <1>1, <1>2 DEF IsCounts
<1>4. IsFiniteSet(X) /\ X \in SUBSET Int
  <2>1. PICK l, h : l = o /\ h = o + size - 1 /\ l \in Int /\ h \in Int  BY <1>1
  <2>2. IsFiniteSet(l..h)  BY <2>1, FS_Interval
  <2>. QED  BY <1>2, <2>1, <2>2 DEF Area
<1>5. ASSUME NEW i \in Indices(1)
      PROVE  /\ IsEntry(E[i], b, X, Shapes(X)[i]) /\ Shapes(X)[i] \subseteq Patterns4(X)
             /\ HasTiles(E[i], o, b, X, Shapes(X)[i])
  <2>1. PICK P, F : P = WinPatterns(size, groups)[i] /\ F = Shapes(X)[i]  OBVIOUS
  <2>2. P \subseteq Patterns4(0..size - 1) /\ Made(o, size, P) = F  BY <1>2, <2>1, TableShapes
  <2>3. P # {}  BY <1>1, <2>1, SomePattern
  <2>4. PICK e : e = Entry(Counts(b, o, size), P)  OBVIOUS
  <2>5. E[i] = e  BY <2>1, <2>4
  <2>6. IsEntry(e, b, X, Made(o, size, P)) /\ HasTiles(e, o, b, X, Made(o, size, P))
    BY <1>1, <1>2, <1>3, <2>2, <2>3, <2>4, EntryIs
  <2>7. IsEntry(e, b, X, F) /\ HasTiles(e, o, b, X, F)  BY <2>2, <2>6
  <2>8. F \subseteq Patterns4(X)  BY <2>1 DEF Shapes
  <2>. QED  BY <2>1, <2>5, <2>7, <2>8
<1>6. Region(E, b, X, Shapes(X), 1)  BY <1>3, <1>4, <1>5 DEF Region
<1>. QED  BY <1>2, <1>5, <1>6 DEF IsTable

LEMMA SuitsTable ==
  ASSUME NEW o \in {0, 9, 18}, NEW b, IsCounts(b, 0..33), <<Counts(b, o, 9), 1>> \in Lookups
  PROVE  IsTable(suits_table[<<Counts(b, o, 9), 1>>], b, o, Area(o, 9))
<1>1. PICK c, l : c = Counts(b, o, 9) /\ l = <<c, 1>>  OBVIOUS
<1>2. DOMAIN c = 0..9 - 1 /\ l[1] = c /\ l[2] = 1  BY <1>1 DEF Counts
<1>3. l \in {k \in Lookups : DOMAIN k[1] = 0..9 - 1}  BY <1>1, <1>2
<1>4. suits_table[l] = [i \in Indices(1) |-> Entry(c, list_suits_win_patterns[i])]
  BY <1>2, <1>3 DEF suits_table, load_table
<1>5. PICK groups : groups = triplets(9) \cup {Of(9, k..k + 2, 1) : k \in 0..6}  OBVIOUS
<1>6. list_suits_win_patterns = WinPatterns(9, groups)  BY <1>5 DEF list_suits_win_patterns
<1>7. IsPlace(o, 9) /\ 9 >= 2  BY DEF IsPlace
<1>8. groups \subseteq [0..9 - 1 -> 0..3] /\ triplets(9) \subseteq groups  BY <1>5, PatternsFit
<1>9. SameParts(groups, Groups, o, 9)  BY <1>5, SuitGroupsMatch
<1>10. PICK E : E = suits_table[l]  OBVIOUS
<1>11. \A i \in Indices(1) : E[i] = Entry(Counts(b, o, 9), WinPatterns(9, groups)[i])  BY <1>1, <1>4, <1>6, <1>10
<1>12. IsTable(E, b, o, Area(o, 9))  BY <1>7, <1>8, <1>9, <1>11, TableEntries
<1>. QED  BY <1>1, <1>10, <1>12

LEMMA HonorsTable ==
  ASSUME NEW b, IsCounts(b, 0..33), <<Counts(b, East, 7), 1>> \in Lookups
  PROVE  IsTable(honors_table[<<Counts(b, East, 7), 1>>], b, East, Area(East, 7))
<1>1. PICK c, l : c = Counts(b, East, 7) /\ l = <<c, 1>>  OBVIOUS
<1>2. DOMAIN c = 0..7 - 1 /\ l[1] = c /\ l[2] = 1  BY <1>1 DEF Counts
<1>3. l \in {k \in Lookups : DOMAIN k[1] = 0..7 - 1}  BY <1>1, <1>2
<1>4. honors_table[l] = [i \in Indices(1) |-> Entry(c, list_honors_win_patterns[i])]
  BY <1>2, <1>3 DEF honors_table, load_table
<1>5. PICK groups : groups = triplets(7)  OBVIOUS
<1>6. list_honors_win_patterns = WinPatterns(7, groups)  BY <1>5 DEF list_honors_win_patterns
<1>7. IsPlace(East, 7) /\ 7 >= 2  BY DEF IsPlace, East
<1>8. groups \subseteq [0..7 - 1 -> 0..3] /\ triplets(7) \subseteq groups  BY <1>5, PatternsFit
<1>9. SameParts(groups, Groups, East, 7)  BY <1>5, HonorGroupsMatch
<1>10. PICK E : E = honors_table[l]  OBVIOUS
<1>11. \A i \in Indices(1) : E[i] = Entry(Counts(b, East, 7), WinPatterns(7, groups)[i])  BY <1>1, <1>4, <1>6, <1>10
<1>12. IsTable(E, b, East, Area(East, 7))  BY <1>7, <1>8, <1>9, <1>11, TableEntries
<1>. QED  BY <1>1, <1>10, <1>12

-----------------------------------------------------------------------------
(* The areas joined.                                                       *)

\* No group has tiles on both sides of where a suit ends.
LEMMA GroupsInOne ==
  ASSUME NEW s \in {9, 18, 27}, NEW X \in SUBSET (s..33), NEW Y \in SUBSET (0..s - 1), NEW q \in Groups
  PROVE  IsIn(q, X, Y) /\ IsIn(q, Y, X)
<1>1. PICK L \in SUBSET (0..33), n \in {1, 3} :
        /\ q = OneGroup!Of(L, n)
        /\ L \subseteq s..33 \/ L \subseteq 0..s - 1
  <2>1. CASE q \in OneGroup!Triplets
    <3>1. PICK k \in 0..33 : q = OneGroup!Of({k}, 3)  BY <2>1 DEF OneGroup!Triplets
    <3>2. PICK L \in SUBSET (0..33) : L = {k}  OBVIOUS
    <3>3. L \subseteq s..33 \/ L \subseteq 0..s - 1  BY <3>2
    <3>. QED  BY <3>1, <3>2, <3>3
  <2>2. CASE q \in OneGroup!Sequences
    <3>1. PICK j \in 0..33 : j < 27 /\ j % 9 < 7 /\ j..(j + 2) \subseteq 0..33 /\ q = OneGroup!Of(j..(j + 2), 1)
      BY <2>2 DEF OneGroup!Sequences
    <3>2. PICK L \in SUBSET (0..33) : L = j..(j + 2)  BY <3>1
    <3>3. j >= s \/ j + 2 <= s - 1  BY <3>1
    <3>4. L \subseteq s..33 \/ L \subseteq 0..s - 1  BY <3>2, <3>3
    <3>. QED  BY <3>1, <3>2, <3>4
  <2>. QED  BY <2>1, <2>2 DEF Groups
<1>2. n \in Nat \ {0}  OBVIOUS
<1>3. ASSUME NEW Z, Within(q, Z)  PROVE L \subseteq Z  BY <1>1, <1>2, <1>3, SetWithin
<1>4. ASSUME NEW Z, L \subseteq Z  PROVE Within(q, Z)
  <2>1. \A k \in 0..33 : k \notin L => q[k] = 0  BY <1>1 DEF OneGroup!Of
  <2>. QED  BY <1>4, <2>1 DEF Within
<1>5. ASSUME Within(q, X \cup Y) \/ Within(q, Y \cup X)  PROVE Within(q, X) \/ Within(q, Y)
  <2>1. L \subseteq X \cup Y  BY <1>3, <1>5
  <2>2. L \subseteq X \/ L \subseteq Y  BY <1>1, <2>1
  <2>. QED  BY <1>4, <2>2
<1>. QED  BY <1>5 DEF IsIn

\* Regions on both sides of where a suit ends.
Beside(X, Y) ==
  /\ X \in SUBSET (0..33) /\ Y \in SUBSET (0..33) /\ Apart(X, Y)
  /\ \A q \in Groups : IsIn(q, X, Y)

LEMMA SidesOf ==
  ASSUME NEW s \in {9, 18, 27}, NEW X \in SUBSET (s..33), NEW Y \in SUBSET (0..s - 1)
  PROVE  Beside(X, Y) /\ Beside(Y, X)
<1>1. X \in SUBSET (0..33) /\ Y \in SUBSET (0..33)  OBVIOUS
<1>2. Apart(X, Y) /\ Apart(Y, X)  BY DEF Apart
<1>3. (\A q \in Groups : IsIn(q, X, Y)) /\ \A q \in Groups : IsIn(q, Y, X)  BY GroupsInOne
<1>. QED  BY <1>1, <1>2, <1>3 DEF Beside

LEMMA JointShapes ==
  ASSUME NEW X, NEW Y, Beside(X, Y)
  PROVE  Joint(Shapes(X), Shapes(Y), X, Y, 1) = Shapes(X \cup Y)
<1>1. \A i \in Indices(1) : Glued(Shapes(X), Shapes(Y), X, Y, i) = Shapes(X \cup Y)[i]
  BY GluedShapes DEF Beside
<1>2. PICK Z : Z = X \cup Y  OBVIOUS
<1>3. Shapes(Z) = [i \in Indices(1) |-> Shapes(Z)[i]]  BY DEF Shapes
<1>. QED  BY <1>1, <1>2, <1>3, Zenon DEF Joint

LEMMA JoinedShapes ==
  ASSUME NEW L, NEW R, NEW b, NEW X, NEW Y, Beside(X, Y),
         Region(L, b, X, Shapes(X), 1), Region(R, b, Y, Shapes(Y), 1)
  PROVE  /\ Parted(L, R, b, X, Y, Shapes(X), Shapes(Y), 1)
         /\ Region(add1(L, R, 1), b, X \cup Y, Shapes(X \cup Y), 1)
<1>1. PICK F, G, m : F = Shapes(X) /\ G = Shapes(Y) /\ m = 1 /\ m \in 0..4  OBVIOUS
<1>2. Sides(b, X, Y)  BY DEF Sides, Region, Beside
<1>3. Parted(L, R, b, X, Y, F, G, m)  BY <1>1, <1>2 DEF Parted
<1>4. Region(add1(L, R, m), b, X \cup Y, Joint(F, G, X, Y, m), m)  BY <1>1, <1>3, JoinedRegion
<1>5. Joint(F, G, X, Y, m) = Shapes(X \cup Y)  BY <1>1, JointShapes
<1>. QED  BY <1>1, <1>3, <1>4, <1>5

LEMMA JoinedTables ==
  ASSUME NEW L, NEW R, NEW b, NEW X, NEW Y, NEW o \in Int, Beside(X, Y), IsTable(L, b, o + 9, X), IsTable(R, b, o, Y)
  PROVE  IsTable(add1(L, R, 1), b, o, X \cup Y)
<1>1. Region(L, b, X, Shapes(X), 1) /\ Region(R, b, Y, Shapes(Y), 1)  BY DEF IsTable
<1>2. PICK F, G, m : F = Shapes(X) /\ G = Shapes(Y) /\ m = 1 /\ m \in 0..4  OBVIOUS
<1>3. Parted(L, R, b, X, Y, F, G, m) /\ Region(add1(L, R, m), b, X \cup Y, Shapes(X \cup Y), m)
  BY <1>1, <1>2, JoinedShapes
<1>4. ASSUME NEW h \in Indices(m)  PROVE HasTiles(add1(L, R, m)[h], o, b, X \cup Y, Shapes(X \cup Y)[h])
  <2>1. \A i \in Indices(m) : HasTiles(L[i], o + 9, b, X, F[i]) /\ HasTiles(R[i], o, b, Y, G[i])
    BY <1>2 DEF IsTable
  <2>2. Glued(F, G, X, Y, h) # {}  BY <1>2, <1>3, JointFilled
  <2>3. PICK e : e = add2(L, R, h)  OBVIOUS
  <2>4. HasTiles(e, o, b, X \cup Y, Glued(F, G, X, Y, h))  BY <1>2, <1>3, <2>1, <2>2, <2>3, JoinedTiles
  <2>5. add1(L, R, m)[h] = e  BY <2>3 DEF add1
  <2>6. Glued(F, G, X, Y, h) = Shapes(X \cup Y)[h]  BY <1>2, GluedShapes DEF Beside
  <2>. QED  BY <2>4, <2>5, <2>6
<1>. QED  BY <1>2, <1>3, <1>4 DEF IsTable

\* What is looked up for a hand with room for m groups.
LooksUp(b, m) ==
  /\ \A o \in {0, 9, 18} : <<Counts(b, o, 9), m>> \in Lookups
  /\ <<Counts(b, East, 7), m>> \in Lookups

LEMMA LookedUpIs ==
  ASSUME NEW b, NEW m, LookedUp(b, m) \subseteq Lookups
  PROVE  LooksUp(b, m)
<1>1. ASSUME NEW first \in {0, 9, 18, East}
      PROVE  <<Counts(b, first, IF first = East THEN 7 ELSE 9), m>> \in Lookups
  BY DEF LookedUp
<1>2. 0 # East /\ 9 # East /\ 18 # East  BY DEF East
<1>. QED  BY <1>1, <1>2 DEF LooksUp

LEMMA Unions ==
  /\ Area(East, 7) = 27..33 /\ Area(18, 9) = 18..26 /\ Area(9, 9) = 9..17 /\ Area(0, 9) = 0..8
  /\ (27..33) \cup (18..26) = 18..33 /\ (18..33) \cup (9..17) = 9..33 /\ (9..33) \cup (0..8) = 0..33
  /\ (0..8) \cup (9..17) = 0..17 /\ (0..17) \cup (18..26) = 0..26 /\ (0..26) \cup (27..33) = 0..33
BY DEF Area, East

LEMMA AllJoined ==
  ASSUME NEW b, IsCounts(b, 0..33), LooksUp(b, 1),
         NEW honors, honors = honors_table[<<Counts(b, East, 7), 1>>],
         NEW souzu, souzu = suits_table[<<Counts(b, 18, 9), 1>>],
         NEW pinzu, pinzu = suits_table[<<Counts(b, 9, 9), 1>>],
         NEW manzu, manzu = suits_table[<<Counts(b, 0, 9), 1>>]
  PROVE  /\ IsTable(add1(add1(add1(honors, souzu, 1), pinzu, 1), manzu, 1), b, 0, 0..33)
         /\ Region(add1(add1(add1(manzu, pinzu, 1), souzu, 1), honors, 1), b, 0..33, Shapes(0..33), 1)
<1>1. /\ Area(East, 7) = 27..33 /\ Area(18, 9) = 18..26 /\ Area(9, 9) = 9..17 /\ Area(0, 9) = 0..8
      /\ (27..33) \cup (18..26) = 18..33 /\ (18..33) \cup (9..17) = 9..33 /\ (9..33) \cup (0..8) = 0..33
      /\ (0..8) \cup (9..17) = 0..17 /\ (0..17) \cup (18..26) = 0..26 /\ (0..26) \cup (27..33) = 0..33
  BY Unions
<1>2. \A o \in {0, 9, 18} : IsTable(suits_table[<<Counts(b, o, 9), 1>>], b, o, Area(o, 9))  BY SuitsTable DEF LooksUp
<1>3. IsTable(souzu, b, 18, 18..26) /\ IsTable(pinzu, b, 9, 9..17) /\ IsTable(manzu, b, 0, 0..8)
  BY <1>1, <1>2
<1>4. IsTable(honors, b, 27, 27..33)  BY <1>1, HonorsTable DEF LooksUp, East
<1>5. /\ Beside(27..33, 18..26) /\ Beside(18..33, 9..17) /\ Beside(9..33, 0..8)
      /\ Beside(0..8, 9..17) /\ Beside(0..17, 18..26) /\ Beside(0..26, 27..33)
  <2>1. /\ 9..33 \in SUBSET (9..33) /\ 0..8 \in SUBSET (0..9 - 1) /\ 9..17 \in SUBSET (9..33)
        /\ 18..33 \in SUBSET (18..33) /\ 9..17 \in SUBSET (0..18 - 1) /\ 0..17 \in SUBSET (0..18 - 1)
        /\ 18..26 \in SUBSET (18..33) /\ 27..33 \in SUBSET (27..33) /\ 18..26 \in SUBSET (0..27 - 1)
        /\ 0..26 \in SUBSET (0..27 - 1)
    OBVIOUS
  <2>. QED  BY <2>1, SidesOf
<1>6. 27 = 18 + 9 /\ 18 = 9 + 9 /\ 9 = 0 + 9 /\ 18 \in Int /\ 9 \in Int /\ 0 \in Int  OBVIOUS
<1>7. PICK h2 : h2 = add1(honors, souzu, 1)  OBVIOUS
<1>8. IsTable(h2, b, 18, 18..33)
  <2>1. IsTable(honors, b, 18 + 9, 27..33)  BY <1>4, <1>6
  <2>2. IsTable(h2, b, 18, (27..33) \cup (18..26))  BY <1>3, <1>5, <1>6, <1>7, <2>1, JoinedTables
  <2>. QED  BY <1>1, <2>2
<1>9. PICK h3 : h3 = add1(h2, pinzu, 1)  OBVIOUS
<1>10. IsTable(h3, b, 9, 9..33)
  <2>1. IsTable(h2, b, 9 + 9, 18..33)  BY <1>6, <1>8
  <2>2. IsTable(h3, b, 9, (18..33) \cup (9..17))  BY <1>3, <1>5, <1>6, <1>9, <2>1, JoinedTables
  <2>. QED  BY <1>1, <2>2
<1>11. IsTable(add1(h3, manzu, 1), b, 0, 0..33)
  <2>1. IsTable(h3, b, 0 + 9, 9..33)  BY <1>6, <1>10
  <2>2. IsTable(add1(h3, manzu, 1), b, 0, (9..33) \cup (0..8))  BY <1>3, <1>5, <1>6, <2>1, JoinedTables
  <2>. QED  BY <1>1, <2>2
<1>12. /\ Region(manzu, b, 0..8, Shapes(0..8), 1) /\ Region(pinzu, b, 9..17, Shapes(9..17), 1)
       /\ Region(souzu, b, 18..26, Shapes(18..26), 1) /\ Region(honors, b, 27..33, Shapes(27..33), 1)
  BY <1>3, <1>4 DEF IsTable
<1>13. PICK m2 : m2 = add1(manzu, pinzu, 1)  OBVIOUS
<1>14. Region(m2, b, 0..17, Shapes(0..17), 1)
  <2>1. Region(m2, b, (0..8) \cup (9..17), Shapes((0..8) \cup (9..17)), 1)  BY <1>5, <1>12, <1>13, JoinedShapes
  <2>. QED  BY <1>1, <2>1
<1>15. PICK m3 : m3 = add1(m2, souzu, 1)  OBVIOUS
<1>16. Region(m3, b, 0..26, Shapes(0..26), 1)
  <2>1. Region(m3, b, (0..17) \cup (18..26), Shapes((0..17) \cup (18..26)), 1)  BY <1>5, <1>12, <1>14, <1>15, JoinedShapes
  <2>. QED  BY <1>1, <2>1
<1>17. Region(add1(m3, honors, 1), b, 0..33, Shapes(0..33), 1)
  <2>1. Region(add1(m3, honors, 1), b, (0..26) \cup (27..33), Shapes((0..26) \cup (27..33)), 1)
    BY <1>5, <1>12, <1>16, JoinedShapes
  <2>. QED  BY <1>1, <2>1
<1>. QED  BY <1>7, <1>9, <1>11, <1>13, <1>15, <1>17

-----------------------------------------------------------------------------
(* Complete hands of one group and a pair, and what a hand lacks of them.  *)

OneBuilds(f) ==
  f = [n \in 0..4 |-> IF n = 0 THEN OneGroup!Pairs ELSE OneGroup!Sums(f[n - 1], Groups)]

LEMMA SomeOneBuilds == \E f : OneBuilds(f)
<1>1. PICK c0, c1 : c0 = OneGroup!Pairs /\ c1 = OneGroup!Sums(c0, Groups)  OBVIOUS
<1>2. PICK c2, c3 : c2 = OneGroup!Sums(c1, Groups) /\ c3 = OneGroup!Sums(c2, Groups)  OBVIOUS
<1>3. PICK c4 : c4 = OneGroup!Sums(c3, Groups)  OBVIOUS
<1>4. PICK f : f = [n \in 0..4 |-> IF n = 0 THEN c0 ELSE IF n = 1 THEN c1 ELSE IF n = 2 THEN c2
                                   ELSE IF n = 3 THEN c3 ELSE c4]
  OBVIOUS
<1>5. f[0] = c0 /\ f[1] = c1 /\ f[2] = c2 /\ f[3] = c3 /\ f[4] = c4  BY <1>4
<1>6. ASSUME NEW n \in 0..4  PROVE f[n] = IF n = 0 THEN OneGroup!Pairs ELSE OneGroup!Sums(f[n - 1], Groups)
  <2>1. n = 0 \/ (n = 1 /\ n - 1 = 0) \/ (n = 2 /\ n - 1 = 1) \/ (n = 3 /\ n - 1 = 2) \/ (n = 4 /\ n - 1 = 3)
    OBVIOUS
  <2>2. CASE n = 0  BY <1>1, <1>5, <2>2
  <2>3. CASE n # 0  BY <1>1, <1>2, <1>3, <1>5, <2>1, <2>3
  <2>. QED  BY <2>2, <2>3
<1>7. f = [n \in 0..4 |-> f[n]]  BY <1>4
<1>8. f = [n \in 0..4 |-> IF n = 0 THEN OneGroup!Pairs ELSE OneGroup!Sums(f[n - 1], Groups)]  BY <1>6, <1>7, Zenon
<1>. QED  BY <1>8, Zenon DEF OneBuilds

LEMMA CompleteOne == OneGroup!CompleteHands = OneGroup!Sums(OneGroup!Pairs, Groups)
<1>1. OneGroup!Complete = CHOOSE c : OneBuilds(c)  BY DEF OneGroup!Complete, OneBuilds, Groups
<1>2. OneBuilds(OneGroup!Complete)  BY <1>1, SomeOneBuilds
<1>3. \A n \in 0..4 : OneGroup!Complete[n] = IF n = 0 THEN OneGroup!Pairs ELSE OneGroup!Sums(OneGroup!Complete[n - 1], Groups)
  BY <1>2 DEF OneBuilds
<1>4. 0 \in 0..4 /\ 1 \in 0..4 /\ 1 # 0 /\ 1 - 1 = 0  OBVIOUS
<1>5. OneGroup!Complete[0] = OneGroup!Pairs  BY <1>3, <1>4
<1>6. OneGroup!Complete[1] = OneGroup!Sums(OneGroup!Complete[0], Groups)  BY <1>3, <1>4
<1>. QED  BY <1>5, <1>6 DEF OneGroup!CompleteHands

LEMMA CompleteShapes == OneGroup!CompleteHands = Shapes(0..33)[6]
<1>1. 6 \in Indices(1) /\ HasPair(6) /\ HasGroup(6)  BY SplitsOne DEF HasPair, HasGroup
<1>2. PairOr(6) = OneGroup!Pairs /\ GroupOr(6) = Groups  BY <1>1 DEF PairOr, GroupOr
<1>3. (\A p \in OneGroup!Pairs : p \in [0..33 -> 0..3]) /\ (\A q \in Groups : q \in [0..33 -> 0..3])
  BY <1>2, PiecesAre
<1>4. \A q : Within(q, 0..33)  BY DEF Within
<1>5. ASSUME NEW w, NEW p \in OneGroup!Pairs, NEW q \in Groups
      PROVE  w = [k \in 0..33 |-> p[k] + q[k]] /\ (\A k \in 0..33 : w[k] <= 4)
               <=> w \in Patterns4(0..33) /\ IsSum(w, p, q, 0..33)
  <2>1. \A k \in 0..33 : p[k] \in 0..3 /\ q[k] \in 0..3  BY <1>3
  <2>2. ASSUME w = [k \in 0..33 |-> p[k] + q[k]], \A k \in 0..33 : w[k] <= 4
        PROVE  w \in Patterns4(0..33) /\ IsSum(w, p, q, 0..33)
    <3>1. \A k \in 0..33 : w[k] = p[k] + q[k]  BY <2>2
    <3>2. \A k \in 0..33 : w[k] \in 0..4  BY <2>1, <2>2, <3>1
    <3>. QED  BY <2>2, <3>1, <3>2 DEF Patterns4, IsSum
  <2>3. ASSUME w \in Patterns4(0..33), IsSum(w, p, q, 0..33)
        PROVE  w = [k \in 0..33 |-> p[k] + q[k]] /\ \A k \in 0..33 : w[k] <= 4
    <3>1. w = [k \in 0..33 |-> w[k]] /\ \A k \in 0..33 : w[k] <= 4  BY <2>3 DEF Patterns4
    <3>. QED  BY <2>3, <3>1 DEF IsSum
  <2>. QED  BY <2>2, <2>3
<1>6. \A w : w \in OneGroup!Sums(OneGroup!Pairs, Groups) <=>
        \E p \in OneGroup!Pairs, q \in Groups : w = [k \in 0..33 |-> p[k] + q[k]] /\ \A k \in 0..33 : w[k] <= 4
  BY DEF OneGroup!Sums
<1>7. \A w : w \in Shapes(0..33)[6] <=> w \in Patterns4(0..33) /\ Consists(w, 0..33, 6)  BY <1>1 DEF Shapes
<1>8. \A w : Consists(w, 0..33, 6) <=> \E p \in OneGroup!Pairs, q \in Groups : IsSum(w, p, q, 0..33)
  BY <1>2, <1>4 DEF Consists
<1>9. PICK A, B : A = OneGroup!CompleteHands /\ B = Shapes(0..33)[6]  OBVIOUS
<1>10. \A w : w \in A <=> w \in B  BY <1>5, <1>6, <1>7, <1>8, <1>9, CompleteOne
<1>11. A = B  BY <1>10
<1>. QED  BY <1>9, <1>11

\* The sum of a function whose values count the cells of a kind.
CellSums(g, f, S) ==
  g = [T \in SUBSET S |-> IF T = {} THEN 0 ELSE f[Chosen(T)] + g[T \ {Chosen(T)}]]

LEMMA SumFunctionDef ==
  ASSUME NEW f
  PROVE  OneGroup!SumFunction(f) = (CHOOSE g : CellSums(g, f, DOMAIN f))[DOMAIN f]
BY Zenon DEF OneGroup!SumFunction, OneGroup!SumFunctionOnSet, OneGroup!FoldFunctionOnSet, OneGroup!MapThenFoldSet,
             CellSums, Chosen

LEMMA AwayOne ==
  ASSUME NEW b, NEW w, NEW k, b[k] \in Nat, w[k] \in 0..4
  PROVE  Away(b, w, {k}) = IF w[k] > b[k] THEN w[k] - b[k] ELSE 0
<1>1. PICK l, h : l = b[k] + 1 /\ h = w[k] /\ l \in Int /\ h \in Int  OBVIOUS
<1>2. IsFiniteSet(l..h) /\ Cardinality(l..h) = IF l > h THEN 0 ELSE h - l + 1  BY <1>1, FS_Interval
<1>3. IsFiniteSet({k}) /\ Cardinality({k}) = 1  BY FS_Singleton
<1>4. Cardinality({k} \X (l..h)) = 1 * Cardinality(l..h)  BY <1>2, <1>3, FS_Product
<1>5. Cells(b, w, {k}) = {k} \X (l..h)  BY <1>1 DEF Cells
<1>6. Away(b, w, {k}) = 1 * Cardinality(l..h)  BY <1>4, <1>5 DEF Away
<1>7. Cardinality(l..h) \in Nat /\ (w[k] > b[k] <=> ~(l > h))  BY <1>1, <1>2
<1>8. Away(b, w, {k}) = Cardinality(l..h)
  <2>1. PICK n \in Nat : n = Cardinality(l..h)  BY <1>7
  <2>. QED  BY <1>6, <2>1
<1>9. CASE w[k] > b[k]
  <2>1. Cardinality(l..h) = h - l + 1  BY <1>2, <1>7, <1>9
  <2>. QED  BY <1>1, <1>8, <1>9, <2>1
<1>10. CASE ~(w[k] > b[k])
  <2>1. Cardinality(l..h) = 0  BY <1>2, <1>7, <1>10
  <2>. QED  BY <1>8, <1>10, <2>1
<1>. QED  BY <1>9, <1>10

LEMMA AwayLess ==
  ASSUME NEW S, IsFiniteSet(S), NEW b, NEW w, IsCounts(b, S), IsPattern(w, S), NEW T \in SUBSET S, NEW k \in T
  PROVE  Away(b, w, T) = (IF w[k] > b[k] THEN w[k] - b[k] ELSE 0) + Away(b, w, T \ {k})
<1>1. PICK U, V : U = {k} /\ V = T \ {k}  OBVIOUS
<1>2. IsFiniteSet(U) /\ IsFiniteSet(V)
  <2>1. U \subseteq S /\ V \subseteq S  BY <1>1
  <2>. QED  BY <2>1, FS_Subset
<1>3. U \cap V = {} /\ U \cup V = T  BY <1>1
<1>4. IsCounts(b, U \cup V) /\ IsPattern(w, U \cup V)  BY <1>3 DEF IsCounts, IsPattern
<1>5. Away(b, w, U \cup V) = Away(b, w, U) + Away(b, w, V)  BY <1>2, <1>3, <1>4, AwayUnion
<1>6. Away(b, w, {k}) = IF w[k] > b[k] THEN w[k] - b[k] ELSE 0  BY AwayOne DEF IsCounts, IsPattern
<1>. QED  BY <1>1, <1>3, <1>5, <1>6

LEMMA AwayEmpty == \A b, w : Away(b, w, {}) = 0
<1>1. \A b, w : Cells(b, w, {}) = {}  BY DEF Cells
<1>. QED  BY <1>1, FS_EmptySet DEF Away

LEMMA CellsSumUp ==
  ASSUME NEW S, IsFiniteSet(S), NEW b, NEW w, IsCounts(b, S), IsPattern(w, S),
         NEW f, \A k \in S : f[k] = IF w[k] > b[k] THEN w[k] - b[k] ELSE 0
  PROVE  (CHOOSE g : CellSums(g, f, S))[S] = Away(b, w, S)
<1>1. \A T \in SUBSET S : T # {} => Away(b, w, T) = f[Chosen(T)] + Away(b, w, T \ {Chosen(T)})
  <2>1. ASSUME NEW T \in SUBSET S, T # {}
        PROVE  Away(b, w, T) = f[Chosen(T)] + Away(b, w, T \ {Chosen(T)})
    <3>1. PICK k : k = Chosen(T)  OBVIOUS
    <3>2. k \in T  BY <2>1, <3>1, ChosenIn
    <3>3. Away(b, w, T) = (IF w[k] > b[k] THEN w[k] - b[k] ELSE 0) + Away(b, w, T \ {k})  BY <3>2, AwayLess
    <3>. QED  BY <3>1, <3>2, <3>3
  <2>. QED  BY <2>1
<1>2. \E g : CellSums(g, f, S)
  <2>1. PICK g : g = [T \in SUBSET S |-> Away(b, w, T)]  OBVIOUS
  <2>2. ASSUME NEW T \in SUBSET S
        PROVE  g[T] = IF T = {} THEN 0 ELSE f[Chosen(T)] + g[T \ {Chosen(T)}]
    <3>1. T \ {Chosen(T)} \in SUBSET S  OBVIOUS
    <3>2. g[T] = Away(b, w, T) /\ g[T \ {Chosen(T)}] = Away(b, w, T \ {Chosen(T)})  BY <2>1, <3>1
    <3>. QED  BY <1>1, <3>2, AwayEmpty
  <2>3. g = [T \in SUBSET S |-> g[T]]  BY <2>1
  <2>4. g = [T \in SUBSET S |-> IF T = {} THEN 0 ELSE f[Chosen(T)] + g[T \ {Chosen(T)}]]  BY <2>2, <2>3, Zenon
  <2>. QED  BY <2>4, Zenon DEF CellSums
<1>3. PICK g : CellSums(g, f, S) /\ g = CHOOSE h : CellSums(h, f, S)  BY <1>2, Zenon
<1>4. ASSUME NEW T \in SUBSET S
      PROVE  g[T] = IF T = {} THEN 0 ELSE f[Chosen(T)] + g[T \ {Chosen(T)}]
  BY <1>3, Zenon DEF CellSums
<1>. DEFINE F == {n \in Nat : \E T \in SUBSET S : Cardinality(T) = n /\ g[T] # Away(b, w, T)}
<1>5. F = {}
  <2>1. SUFFICES ASSUME F # {} PROVE FALSE  OBVIOUS
  <2>2. F \in SUBSET Nat  OBVIOUS
  <2>3. PICK n \in F : \A m \in F : n <= m
    <3>. HIDE DEF F
    <3>. QED  BY <2>1, <2>2, MinOf
  <2>4. PICK T \in SUBSET S : Cardinality(T) = n /\ g[T] # Away(b, w, T)  BY <2>3
  <2>5. T # {}  BY <1>4, <2>4, AwayEmpty
  <2>6. PICK U : U = T \ {Chosen(T)}  OBVIOUS
  <2>7. U \in SUBSET S /\ Cardinality(T) \in Nat /\ Cardinality(U) = Cardinality(T) - 1  BY <2>5, <2>6, Without
  <2>8. Cardinality(U) \in Nat
    <3>1. IsFiniteSet(U)  BY <2>7, FS_Subset
    <3>. QED  BY <3>1, FS_CardinalityType
  <2>9. g[U] = Away(b, w, U)
    <3>1. ~(n <= Cardinality(U))  BY <2>4, <2>7
    <3>2. Cardinality(U) \notin F
      <4>. HIDE DEF F
      <4>. QED  BY <2>3, <3>1
    <3>. QED  BY <2>7, <2>8, <3>2
  <2>10. g[T] = f[Chosen(T)] + g[U] /\ Away(b, w, T) = f[Chosen(T)] + Away(b, w, U)  BY <1>1, <1>4, <2>5, <2>6
  <2>. QED  BY <2>4, <2>9, <2>10
<1>6. Cardinality(S) \in Nat  BY FS_CardinalityType
<1>7. g[S] = Away(b, w, S)  BY <1>5, <1>6
<1>. QED  BY <1>3, <1>7

LEMMA SumIsAway ==
  ASSUME NEW S, IsFiniteSet(S), NEW b, NEW w, IsCounts(b, S), IsPattern(w, S),
         NEW f, DOMAIN f = S, \A k \in S : f[k] = IF w[k] > b[k] THEN w[k] - b[k] ELSE 0
  PROVE  OneGroup!SumFunction(f) = Away(b, w, S)
<1>1. OneGroup!SumFunction(f) = (CHOOSE g : CellSums(g, f, S))[S]  BY SumFunctionDef, Zenon
<1>. QED  BY <1>1, CellsSumUp, Zenon

LEMMA MissingIs ==
  ASSUME NEW b, IsCounts(b, 0..33), NEW w \in Patterns4(0..33)
  PROVE  OneGroup!Missing(b, w) = Away(b, w, 0..33)
<1>1. PICK f : f = [k \in 0..33 |-> IF w[k] > b[k] THEN w[k] - b[k] ELSE 0]  OBVIOUS
<1>2. OneGroup!Missing(b, w) = OneGroup!SumFunction(f)  BY <1>1 DEF OneGroup!Missing
<1>3. PICK S : S = 0..33  OBVIOUS
<1>4. IsFiniteSet(S)
  <2>1. PICK l, h : l = 0 /\ h = 33 /\ l \in Int /\ h \in Int  OBVIOUS
  <2>. QED  BY <1>3, <2>1, FS_Interval
<1>5. IsCounts(b, S) /\ IsPattern(w, S) /\ DOMAIN f = S  BY <1>1, <1>3 DEF IsPattern, Patterns4
<1>6. \A k \in S : f[k] = IF w[k] > b[k] THEN w[k] - b[k] ELSE 0  BY <1>1, <1>3
<1>7. OneGroup!SumFunction(f) = Away(b, w, S)  BY <1>4, <1>5, <1>6, SumIsAway
<1>. QED  BY <1>2, <1>3, <1>7

-----------------------------------------------------------------------------
(* The calculators' answers are those of the closest complete hands.       *)

LEMMA ClosestAre ==
  ASSUME NEW b, IsCounts(b, 0..33), NEW e, IsEntry(e, b, 0..33, OneGroup!CompleteHands)
  PROVE  \A w : w \in OneGroup!Closest(b) <=> w \in OneGroup!CompleteHands /\ Away(b, w, 0..33) = e.dist
<1>1. PICK H : H = OneGroup!CompleteHands  OBVIOUS
<1>2. \A w \in H : w \in Patterns4(0..33)
  <2>1. 6 \in Indices(1)  BY SplitsOne
  <2>2. \A w \in Shapes(0..33)[6] : w \in Patterns4(0..33)  BY <2>1 DEF Shapes
  <2>. QED  BY <1>1, <2>2, CompleteShapes
<1>3. \A w \in H : OneGroup!Missing(b, w) = Away(b, w, 0..33)  BY <1>2, MissingIs
<1>4. PICK D : D = {OneGroup!Missing(b, w) : w \in H}  OBVIOUS
<1>5. e.dist \in D /\ e.dist \in Nat
  <2>1. PICK w \in H : e.dist = Away(b, w, 0..33)  BY <1>1 DEF IsEntry
  <2>. QED  BY <1>3, <1>4, <2>1 DEF IsEntry
<1>6. ASSUME NEW x \in D  PROVE e.dist <= x
  <2>1. PICK w \in H : x = OneGroup!Missing(b, w)  BY <1>4
  <2>. QED  BY <1>1, <1>3, <2>1 DEF IsEntry
<1>7. \A x \in D : x \in Nat
  <2>1. IsFiniteSet(0..33)
    <3>1. PICK l, h : l = 0 /\ h = 33 /\ l \in Int /\ h \in Int  OBVIOUS
    <3>. QED  BY <3>1, FS_Interval
  <2>2. ASSUME NEW w \in H  PROVE Away(b, w, 0..33) \in Nat
    <3>1. IsPattern(w, 0..33)  BY <1>2 DEF IsPattern, Patterns4
    <3>2. PICK X : X = 0..33  OBVIOUS
    <3>. QED  BY <2>1, <3>1, <3>2, CellsFinite
  <2>. QED  BY <1>3, <1>4, <2>2
<1>8. OneGroup!Distance(b) = CHOOSE x \in D : \A y \in D : x <= y
  BY <1>1, <1>4 DEF OneGroup!Distance, OneGroup!Min
<1>9. PICK d : d = OneGroup!Distance(b)  OBVIOUS
<1>10. d \in D /\ \A y \in D : d <= y  BY <1>5, <1>6, <1>8, <1>9
<1>11. d = e.dist  BY <1>5, <1>6, <1>7, <1>10
<1>12. OneGroup!Closest(b) = {w \in H : OneGroup!Missing(b, w) = d}  BY <1>1, <1>9 DEF OneGroup!Closest
<1>. QED  BY <1>1, <1>3, <1>11, <1>12

\* Two entries of the same patterns have the same distance.
LEMMA SameDistance ==
  ASSUME NEW b, NEW X, NEW F, NEW e, NEW f, IsEntry(e, b, X, F), IsEntry(f, b, X, F)
  PROVE  e.dist = f.dist
<1>1. PICK w \in F : e.dist = Away(b, w, X)  BY DEF IsEntry
<1>2. PICK v \in F : f.dist = Away(b, v, X)  BY DEF IsEntry
<1>3. f.dist <= e.dist /\ e.dist <= f.dist /\ e.dist \in Nat /\ f.dist \in Nat  BY <1>1, <1>2 DEF IsEntry
<1>. QED  BY <1>3

Agrees(hand, found, shanten, closest) ==
  /\ \A w \in closest : OneGroup!Missing(hand, w) = found.shanten + 1
  /\ shanten = found.shanten
  /\ found.wait = {k \in Kinds : \E w \in closest : w[k] > hand[k]}
  /\ found.disc = {k \in Kinds : \E w \in closest : w[k] < hand[k]}

LEMMA EntryAgrees ==
  ASSUME NEW b, IsCounts(b, 0..33), NEW e, IsEntry(e, b, 0..33, OneGroup!CompleteHands),
         HasTiles(e, 0, b, 0..33, OneGroup!CompleteHands), NEW shanten, shanten = e.dist - 1
  PROVE  Agrees(b, Found(e), shanten, OneGroup!Closest(b))
<1>1. PICK H, C : H = OneGroup!CompleteHands /\ C = OneGroup!Closest(b)  OBVIOUS
<1>2. \A w : w \in C <=> w \in H /\ Away(b, w, 0..33) = e.dist  BY <1>1, ClosestAre
<1>3. \A w \in H : OneGroup!Missing(b, w) = Away(b, w, 0..33)
  <2>1. 6 \in Indices(1)  BY SplitsOne
  <2>2. \A w \in Shapes(0..33)[6] : w \in Patterns4(0..33)  BY <2>1 DEF Shapes
  <2>. QED  BY <1>1, <2>2, CompleteShapes, MissingIs
<1>4. Found(e).shanten = e.dist - 1 /\ Found(e).wait = e.wait /\ Found(e).disc = e.disc  BY DEF Found
<1>5. e.dist \in Nat  BY DEF IsEntry
<1>6. \A w \in C : OneGroup!Missing(b, w) = Found(e).shanten + 1  BY <1>2, <1>3, <1>4, <1>5
<1>7. HasTiles(e, 0, b, 0..33, H)  BY <1>1
<1>8. ASSUME NEW j
      PROVE  /\ j \in e.wait <=> j \in 0..33 /\ \E w \in C : w[j] > b[j]
             /\ j \in e.disc <=> j \in 0..33 /\ \E w \in C : w[j] < b[j]
  <2>1. CASE j \notin Int  BY <1>7, <2>1 DEF HasTiles
  <2>2. CASE j \in Int
    <3>1. j + 0 = j  BY <2>2
    <3>2. (j \in e.wait <=> Wanted(e, b, 0..33, H, j)) /\ (j \in e.disc <=> Spare(e, b, 0..33, H, j))
      BY <1>7, <2>2, <3>1 DEF HasTiles
    <3>3. Wanted(e, b, 0..33, H, j) <=> j \in 0..33 /\ \E w \in C : w[j] > b[j]  BY <1>2 DEF Wanted
    <3>4. Spare(e, b, 0..33, H, j) <=> j \in 0..33 /\ \E w \in C : w[j] < b[j]  BY <1>2 DEF Spare
    <3>. QED  BY <3>2, <3>3, <3>4
  <2>. QED  BY <2>1, <2>2
<1>9. e.wait = {k \in Kinds : \E w \in C : w[k] > b[k]} /\ e.disc = {k \in Kinds : \E w \in C : w[k] < b[k]}
  BY <1>8 DEF Kinds
<1>. QED  BY <1>1, <1>4, <1>6, <1>9 DEF Agrees

LEMMA CalculatorsAgree ==
  ASSUME NEW b, IsCounts(b, 0..33), LooksUp(b, 1)
  PROVE  Agrees(b, calc_regular(b, 3, Yonma), calc_regular_shanten(b, 3, Yonma), OneGroup!Closest(b))
<1>1. PICK honors : honors = honors_table[<<Counts(b, East, 7), 1>>]  OBVIOUS
<1>2. PICK souzu : souzu = suits_table[<<Counts(b, 18, 9), 1>>]  OBVIOUS
<1>3. PICK pinzu : pinzu = suits_table[<<Counts(b, 9, 9), 1>>]  OBVIOUS
<1>4. PICK manzu : manzu = suits_table[<<Counts(b, 0, 9), 1>>]  OBVIOUS
<1>5. PICK down, up : down = add1(add1(honors, souzu, 1), pinzu, 1) /\ up = add1(add1(manzu, pinzu, 1), souzu, 1)
  OBVIOUS
<1>6. /\ IsTable(add1(down, manzu, 1), b, 0, 0..33)
      /\ Region(add1(up, honors, 1), b, 0..33, Shapes(0..33), 1)
  BY <1>1, <1>2, <1>3, <1>4, <1>5, AllJoined
<1>7. PICK e, f : e = add2(down, manzu, 6) /\ f = add2(up, honors, 6)  OBVIOUS
<1>8. 6 \in Indices(1)  BY SplitsOne
<1>9. add1(down, manzu, 1)[6] = e /\ add1(up, honors, 1)[6] = f  BY <1>7, <1>8 DEF add1
<1>10. IsEntry(e, b, 0..33, Shapes(0..33)[6]) /\ HasTiles(e, 0, b, 0..33, Shapes(0..33)[6])
  BY <1>6, <1>8, <1>9 DEF IsTable, Region
<1>11. IsEntry(f, b, 0..33, Shapes(0..33)[6])  BY <1>6, <1>8, <1>9 DEF Region
<1>12. e.dist = f.dist  BY <1>10, <1>11, SameDistance
<1>13. Manzu(b, 1, Yonma) = manzu  BY <1>4 DEF Manzu, Yonma, Sanma
<1>14. 4 - 3 = 1 /\ 5 + 1 = 6  OBVIOUS
<1>15. calc_regular(b, 3, Yonma)
         = Found(add2(add1(add1(honors_table[<<Counts(b, East, 7), 1>>], suits_table[<<Counts(b, 18, 9), 1>>], 1),
                           suits_table[<<Counts(b, 9, 9), 1>>], 1), Manzu(b, 1, Yonma), 6))
  BY <1>14, Zenon DEF calc_regular
<1>16. calc_regular(b, 3, Yonma) = Found(e)  BY <1>1, <1>2, <1>3, <1>5, <1>7, <1>13, <1>15, Zenon
<1>17. calc_regular_shanten(b, 3, Yonma)
         = add2(add1(add1(Manzu(b, 1, Yonma), suits_table[<<Counts(b, 9, 9), 1>>], 1),
                     suits_table[<<Counts(b, 18, 9), 1>>], 1), honors_table[<<Counts(b, East, 7), 1>>], 6).dist - 1
  BY <1>14, Zenon DEF calc_regular_shanten
<1>18. calc_regular_shanten(b, 3, Yonma) = f.dist - 1  BY <1>1, <1>2, <1>3, <1>5, <1>7, <1>13, <1>17, Zenon
<1>19. calc_regular_shanten(b, 3, Yonma) = e.dist - 1  BY <1>12, <1>18
<1>. QED  BY <1>10, <1>16, <1>19, CompleteShapes, EntryAgrees

LEMMA ClosestUnfolded ==
  (phase = "valid" /\ req.game_mode = Yonma /\ Len(req.melds) = 3 =>
     Agrees(req.hand, calc_regular(req.hand, 3, Yonma), calc_regular_shanten(req.hand, 3, Yonma),
            OneGroup!Closest(req.hand)))
  => CalculatorsFindTheClosest
BY Zenon DEF CalculatorsFindTheClosest, Agrees

\* For whatever hand of four players is accepted with three melds, the tables and the joining
\* of the suits, in either order, find the shanten number and the necessary and unnecessary
\* tiles that the complete hands closest to it have.
THEOREM CalculatorsFindTheClosestCorrect == Spec => []CalculatorsFindTheClosest
<1>1. ReqInv => CalculatorsFindTheClosest
  <2>1. SUFFICES ASSUME ReqInv, phase = "valid", req.game_mode = Yonma, Len(req.melds) = 3
        PROVE Agrees(req.hand, calc_regular(req.hand, 3, Yonma), calc_regular_shanten(req.hand, 3, Yonma),
                     OneGroup!Closest(req.hand))
    BY ClosestUnfolded
  <2>2. doc \in DocumentRecords  BY <2>1, SchemaAssumption DEF ReqInv
  <2>3. PICK r : r = make_request(doc)  OBVIOUS
  <2>4. r.hand = to_hand(doc.hand) /\ r.melds = doc.melds /\ r \in RequestRecords
    BY <2>2, <2>3, RequestMade
  <2>5. /\ req = r
        /\ check_hand(r.hand) /\ validate_melds(r) /\ validate_sanma_tiles(r) /\ validate_tile_counts(r)
    BY <2>1, <2>3 DEF ReqInv
  <2>6. Accepted(doc)  BY <2>3, <2>5, Zenon DEF Accepted
  <2>7. PICK b : b = to_hand(doc.hand)  OBVIOUS
  <2>8. b = req.hand /\ Len(doc.melds) = 3  BY <2>1, <2>4, <2>5, <2>7
  <2>9. IsCounts(b, 0..33)
    <3>1. b \in [Codes -> Nat]  BY <2>4, <2>7 DEF RequestRecords
    <3>2. \A k \in 0..33 : k \in Codes  BY DEF Codes
    <3>. QED  BY <3>1, <3>2 DEF IsCounts
  <2>10. LooksUp(b, 1)
    <3>1. doc \in Documents /\ 4 - Len(doc.melds) = 1  BY <2>1, <2>8 DEF ReqInv
    <3>2. Needed(doc) \subseteq Lookups  BY <2>6, <3>1, LookupsAssumption
    <3>3. LookedUp(b, 1) \subseteq Needed(doc)  BY <2>7, <3>1 DEF Needed
    <3>. QED  BY <3>2, <3>3, LookedUpIs
  <2>11. Agrees(b, calc_regular(b, 3, Yonma), calc_regular_shanten(b, 3, Yonma), OneGroup!Closest(b))
    BY <2>9, <2>10, CalculatorsAgree
  <2>. QED  BY <2>8, <2>11, Zenon
<1>. QED  BY <1>1, ReqInvHolds, PTL

-----------------------------------------------------------------------------
(* Open hands: tables for any number of groups.  It does not matter which  *)
(* patterns the joined tables stand for, only that they are the same       *)
(* whatever the hand is.                                                   *)

\* Three each of g kinds, and n of another.
Tower(size, g, n) == [k \in 0..size - 1 |-> IF k < g THEN 3 ELSE IF k = 4 THEN n ELSE 0]
TowerOf(size, i) == IF i < 5 THEN Tower(size, i, 0) ELSE Tower(size, i - 5, 2)
Builds(M, size, g) == M \subseteq Patterns4(0..size - 1) /\ Tower(size, g, 0) \in M

LEMMA TowerGrows ==
  ASSUME NEW size \in Nat, size >= 5, NEW groups, groups \subseteq [0..size - 1 -> 0..3], triplets(size) \subseteq groups,
         NEW g \in 0..3, NEW M, Builds(M, size, g)
  PROVE  Builds(With(M, groups), size, g + 1)
<1>. DEFINE X == 0..size - 1
<1>1. M \subseteq Patterns4(X) /\ groups \subseteq Patterns4(X)  BY DEF Builds, Patterns4
<1>2. PICK p, q, r : p = Tower(size, g, 0) /\ q = Of(size, {g}, 3) /\ r = Tower(size, g + 1, 0)  OBVIOUS
<1>3. p \in M  BY <1>2 DEF Builds
<1>4. q \in groups
  <2>1. g \in X  OBVIOUS
  <2>. QED  BY <1>2, <2>1 DEF triplets
<1>5. \A k \in X : r[k] = p[k] + q[k]  BY <1>2 DEF Tower, Of
<1>6. r \in Patterns4(X)  BY <1>2 DEF Tower, Patterns4
<1>7. r \in With(M, groups)  BY <1>1, <1>3, <1>4, <1>5, <1>6, WithIs
<1>8. With(M, groups) \subseteq Patterns4(X)  BY <1>1, WithIs
<1>. QED  BY <1>2, <1>7, <1>8 DEF Builds

LEMMA TowerPair ==
  ASSUME NEW size \in Nat, size >= 5, NEW g \in 0..4, NEW M, Builds(M, size, g)
  PROVE  /\ With(M, LocalPairs(size)) \subseteq Patterns4(0..size - 1)
         /\ Tower(size, g, 2) \in With(M, LocalPairs(size))
<1>. DEFINE X == 0..size - 1
<1>1. M \subseteq Patterns4(X)  BY DEF Builds
<1>2. LocalPairs(size) \subseteq Patterns4(X)
  <2>1. ASSUME NEW p \in LocalPairs(size)  PROVE p \in Patterns4(X)
    <3>1. PICK k : p = Of(size, {k}, 2)  BY DEF LocalPairs
    <3>. QED  BY <3>1 DEF Of, Patterns4
  <2>. QED  BY <2>1
<1>3. PICK p, q, r : p = Tower(size, g, 0) /\ q = Of(size, {4}, 2) /\ r = Tower(size, g, 2)  OBVIOUS
<1>4. p \in M  BY <1>3 DEF Builds
<1>5. q \in LocalPairs(size)
  <2>1. 4 \in X  OBVIOUS
  <2>. QED  BY <1>3, <2>1 DEF LocalPairs
<1>6. \A k \in X : r[k] = p[k] + q[k]  BY <1>3 DEF Tower, Of
<1>7. r \in Patterns4(X)  BY <1>3 DEF Tower, Patterns4
<1>8. r \in With(M, LocalPairs(size))  BY <1>1, <1>2, <1>4, <1>5, <1>6, <1>7, WithIs
<1>9. With(M, LocalPairs(size)) \subseteq Patterns4(X)  BY <1>1, <1>2, WithIs
<1>. QED  BY <1>3, <1>8, <1>9

\* Every index of a table has such a pattern.
LEMMA Towers ==
  ASSUME NEW size \in Nat, size >= 5, NEW groups, groups \subseteq [0..size - 1 -> 0..3], triplets(size) \subseteq groups,
         NEW i \in Indices(4)
  PROVE  /\ WinPatterns(size, groups)[i] \subseteq Patterns4(0..size - 1)
         /\ TowerOf(size, i) \in WinPatterns(size, groups)[i]
<1>1. PICK P : P = WinPatterns(size, groups)  OBVIOUS
<1>2. PICK made : IsMadeOf(made, P, size, groups)  BY <1>1, WinPatternsAre
<1>13. /\ made[0] = {Zero(size)}
       /\ made[1] = With(made[0], groups) /\ made[2] = With(made[1], groups)
       /\ made[3] = With(made[2], groups) /\ made[4] = With(made[3], groups)
  BY <1>2 DEF IsMadeOf
<1>14. P[i] = IF i < 5 THEN made[i] ELSE With(made[i - 5], LocalPairs(size))
  BY <1>2, Zenon DEF IsMadeOf
<1>3. Builds(made[0], size, 0)
  <2>1. Zero(size) = Tower(size, 0, 0)  BY DEF Zero, Of, Tower
  <2>2. Zero(size) \in Patterns4(0..size - 1)  BY DEF Zero, Of, Patterns4
  <2>. QED  BY <1>13, <2>1, <2>2 DEF Builds
<1>4. /\ 0 \in 0..3 /\ 1 \in 0..3 /\ 2 \in 0..3 /\ 3 \in 0..3
      /\ 0 + 1 = 1 /\ 1 + 1 = 2 /\ 2 + 1 = 3 /\ 3 + 1 = 4
  OBVIOUS
<1>5. Builds(made[1], size, 1)  BY <1>13, <1>3, <1>4, TowerGrows
<1>6. Builds(made[2], size, 2)  BY <1>13, <1>4, <1>5, TowerGrows
<1>7. Builds(made[3], size, 3)  BY <1>13, <1>4, <1>6, TowerGrows
<1>8. Builds(made[4], size, 4)  BY <1>13, <1>4, <1>7, TowerGrows
<1>9. \A g \in 0..4 : Builds(made[g], size, g)
  <2>1. \A g \in 0..4 : g = 0 \/ g = 1 \/ g = 2 \/ g = 3 \/ g = 4  OBVIOUS
  <2>. QED  BY <1>3, <1>5, <1>6, <1>7, <1>8, <2>1
<1>10. CASE i < 5
  <2>1. i \in 0..4  BY <1>10 DEF Indices
  <2>2. P[i] = made[i]  BY <1>14, <1>10
  <2>. QED  BY <1>1, <1>9, <1>10, <2>1, <2>2 DEF Builds, TowerOf
<1>11. CASE ~(i < 5)
  <2>1. i - 5 \in 0..4  BY <1>11 DEF Indices
  <2>2. P[i] = With(made[i - 5], LocalPairs(size))  BY <1>14, <1>11
  <2>3. PICK g \in 0..4 : g = i - 5  BY <2>1
  <2>4. Builds(made[g], size, g)  BY <1>9
  <2>5. /\ With(made[g], LocalPairs(size)) \subseteq Patterns4(0..size - 1)
        /\ Tower(size, g, 2) \in With(made[g], LocalPairs(size))
    BY <2>4, TowerPair
  <2>. QED  BY <1>1, <1>11, <2>2, <2>3, <2>5 DEF TowerOf
<1>. QED  BY <1>10, <1>11

\* No hand is further from it than its 14 tiles, and none is away from no groups.
LEMMA TowerAway ==
  ASSUME NEW o \in Nat, NEW size \in Nat, size >= 5, NEW i \in Indices(4), NEW b, IsCounts(b, Area(o, size)),
         NEW u \in Patterns4(Area(o, size)), Counts(u, o, size) = TowerOf(size, i)
  PROVE  Away(b, u, Area(o, size)) <= 14 /\ (i = 0 => Away(b, u, Area(o, size)) = 0)
<1>1. PICK g \in 0..4, n \in {0, 2} : TowerOf(size, i) = Tower(size, g, n) /\ (i = 0 => g = 0 /\ n = 0)
  BY DEF TowerOf, Indices
<1>2. ASSUME NEW j \in Area(o, size)  PROVE u[j] = IF j < o + g THEN 3 ELSE IF j = o + 4 THEN n ELSE 0
  <2>1. PICK k \in 0..size - 1 : k = j - o /\ o + k = j  BY DEF Area
  <2>2. Counts(u, o, size)[k] = u[j]  BY <2>1 DEF Counts
  <2>3. Tower(size, g, n)[k] = IF k < g THEN 3 ELSE IF k = 4 THEN n ELSE 0  BY DEF Tower
  <2>4. (k < g <=> j < o + g) /\ (k = 4 <=> j = o + 4)  BY <2>1
  <2>. QED  BY <1>1, <2>2, <2>3, <2>4
<1>3. PICK a1, a2, c1, c2, d1, d2 : /\ a1 = o /\ a2 = o + 3 /\ c1 = 1 /\ c2 = 3 /\ d1 = o + 4 /\ d2 = 2
                                    /\ a1 \in Int /\ a2 \in Int /\ c1 \in Int /\ c2 \in Int /\ d2 \in Int
  OBVIOUS
<1>4. /\ IsFiniteSet(a1..a2) /\ Cardinality(a1..a2) = 4 /\ IsFiniteSet(c1..c2) /\ Cardinality(c1..c2) = 3
      /\ IsFiniteSet(c1..d2) /\ Cardinality(c1..d2) = 2 /\ IsFiniteSet({d1}) /\ Cardinality({d1}) = 1
  <2>1. IsFiniteSet(a1..a2) /\ Cardinality(a1..a2) = 4
    <3>1. IsFiniteSet(a1..a2) /\ Cardinality(a1..a2) = IF a1 > a2 THEN 0 ELSE a2 - a1 + 1  BY <1>3, FS_Interval
    <3>2. ~(a1 > a2) /\ a2 - a1 + 1 = 4  BY <1>3
    <3>. QED  BY <3>1, <3>2
  <2>2. IsFiniteSet(c1..c2) /\ Cardinality(c1..c2) = 3
    <3>1. IsFiniteSet(c1..c2) /\ Cardinality(c1..c2) = IF c1 > c2 THEN 0 ELSE c2 - c1 + 1  BY <1>3, FS_Interval
    <3>2. ~(c1 > c2) /\ c2 - c1 + 1 = 3  BY <1>3
    <3>. QED  BY <3>1, <3>2
  <2>3. IsFiniteSet(c1..d2) /\ Cardinality(c1..d2) = 2
    <3>1. IsFiniteSet(c1..d2) /\ Cardinality(c1..d2) = IF c1 > d2 THEN 0 ELSE d2 - c1 + 1  BY <1>3, FS_Interval
    <3>2. ~(c1 > d2) /\ d2 - c1 + 1 = 2  BY <1>3
    <3>. QED  BY <3>1, <3>2
  <2>. QED  BY <2>1, <2>2, <2>3, FS_Singleton
<1>5. PICK S, T : S = (a1..a2) \X (c1..c2) /\ T = {d1} \X (c1..d2)  OBVIOUS
<1>6. IsFiniteSet(S) /\ Cardinality(S) = 12
  <2>1. IsFiniteSet(S) /\ Cardinality(S) = Cardinality(a1..a2) * Cardinality(c1..c2)  BY <1>4, <1>5, FS_Product
  <2>. QED  BY <1>4, <2>1
<1>7. IsFiniteSet(T) /\ Cardinality(T) = 2
  <2>1. IsFiniteSet(T) /\ Cardinality(T) = Cardinality({d1}) * Cardinality(c1..d2)  BY <1>4, <1>5, FS_Product
  <2>. QED  BY <1>4, <2>1
<1>8. IsFiniteSet(S \cup T) /\ Cardinality(S \cup T) <= 14
  <2>1. IsFiniteSet(S \cap T) /\ Cardinality(S \cap T) \in Nat  BY <1>6, FS_Intersection, FS_CardinalityType
  <2>2. Cardinality(S \cup T) = Cardinality(S) + Cardinality(T) - Cardinality(S \cap T)  BY <1>6, <1>7, FS_Union
  <2>. QED  BY <1>6, <1>7, <2>1, <2>2, FS_Union
<1>9. PICK C : C = Cells(b, u, Area(o, size))  OBVIOUS
<1>10. ASSUME NEW z \in C  PROVE z \in S \cup T /\ ~(g = 0 /\ n = 0)
  <2>1. IsCell(b, u, Area(o, size), z)  BY <1>9, CellsAre
  <2>2. PICK k \in Area(o, size) : z = <<k, z[2]>> /\ z[2] \in b[k] + 1..u[k]  BY <2>1 DEF IsCell
  <2>3. k \in Int /\ k >= o /\ b[k] \in Nat  BY DEF Area, IsCounts
  <2>4. z[2] \in Int /\ z[2] >= 1 /\ z[2] <= u[k]  BY <1>2, <2>2, <2>3
  <2>5. CASE k < o + g
    <3>1. k \in a1..a2 /\ z[2] \in c1..c2 /\ g # 0  BY <1>2, <1>3, <2>3, <2>4, <2>5
    <3>. QED  BY <1>5, <2>2, <3>1
  <2>6. CASE ~(k < o + g)
    <3>1. k = d1 /\ z[2] \in c1..d2 /\ n # 0  BY <1>2, <1>3, <2>3, <2>4, <2>6
    <3>. QED  BY <1>5, <2>2, <3>1
  <2>. QED  BY <2>5, <2>6
<1>11. Cardinality(C) <= 14
  <2>1. C \in SUBSET (S \cup T)  BY <1>10
  <2>2. Cardinality(C) <= Cardinality(S \cup T) /\ Cardinality(C) \in Nat /\ Cardinality(S \cup T) \in Nat
    BY <1>8, <2>1, FS_Subset, FS_CardinalityType
  <2>. QED  BY <1>8, <2>2
<1>12. ASSUME i = 0  PROVE Cardinality(C) = 0
  <2>1. C = {}  BY <1>1, <1>10, <1>12
  <2>. QED  BY <2>1, FS_EmptySet
<1>. QED  BY <1>9, <1>11, <1>12 DEF Away

\* What is found for the tiles X, numbered from o, for each number of groups.
Finds(E, b, o, X, F, m) ==
  /\ Region(E, b, X, F, m)
  /\ \A h \in Indices(m) : HasTiles(E[h], o, b, X, F[h])
IsNear(E, m) == E[0].dist = 0 /\ \A h \in Indices(m) : E[h].dist <= 14

\* E holds the entries of a table for the tiles from o on, F their patterns.
Holds(E, F, b, o, size, groups, m) ==
  \A i \in Indices(m) : /\ E[i] = Entry(Counts(b, o, size), WinPatterns(size, groups)[i])
                        /\ F[i] = Made(o, size, WinPatterns(size, groups)[i])

LEMMA OpenEntries ==
  ASSUME NEW o \in Nat, NEW size \in Nat, size >= 5, NEW groups, groups \subseteq [0..size - 1 -> 0..3],
         triplets(size) \subseteq groups, NEW m \in 0..4, NEW b, IsCounts(b, Area(o, size)),
         NEW E, NEW F, Holds(E, F, b, o, size, groups, m)
  PROVE  Finds(E, b, o, Area(o, size), F, m) /\ IsNear(E, m)
<1>1. PICK X : X = Area(o, size)  OBVIOUS
<1>2. IsFiniteSet(X) /\ X \in SUBSET Int
  <2>1. PICK l, h : l = o /\ h = o + size - 1 /\ l \in Int /\ h \in Int  OBVIOUS
  <2>2. IsFiniteSet(l..h)  BY <2>1, FS_Interval
  <2>. QED  BY <1>1, <2>1, <2>2 DEF Area
<1>3. ASSUME NEW i \in Indices(m)
      PROVE  /\ IsEntry(E[i], b, X, F[i]) /\ F[i] \subseteq Patterns4(X)
             /\ HasTiles(E[i], o, b, X, F[i])
             /\ E[i].dist <= 14 /\ (i = 0 => E[i].dist = 0)
  <2>1. PICK P : P = WinPatterns(size, groups)[i]  OBVIOUS
  <2>2. i \in Indices(4)  BY DEF Indices
  <2>3. P \in SUBSET Patterns4(0..size - 1) /\ TowerOf(size, i) \in P  BY <2>1, <2>2, Towers
  <2>4. PICK e : e = Entry(Counts(b, o, size), P)  OBVIOUS
  <2>5. E[i] = e /\ F[i] = Made(o, size, P)  BY <2>1, <2>4 DEF Holds
  <2>6. IsEntry(e, b, X, Made(o, size, P)) /\ HasTiles(e, o, b, X, Made(o, size, P))
    BY <1>1, <2>3, <2>4, EntryIs
  <2>7. Made(o, size, P) \subseteq Patterns4(X)  BY <1>1 DEF Made
  <2>8. PICK p : p = TowerOf(size, i) /\ p \in Patterns4(0..size - 1)  BY <2>3
  <2>9. PICK u \in Patterns4(X) : Counts(u, o, size) = p  BY <1>1, <2>8, CountsBack
  <2>10. u \in Made(o, size, P)  BY <1>1, <2>3, <2>8, <2>9 DEF Made
  <2>11. Away(b, u, X) <= 14 /\ (i = 0 => Away(b, u, X) = 0)  BY <1>1, <2>2, <2>8, <2>9, TowerAway
  <2>12. e.dist \in Nat /\ e.dist <= Away(b, u, X)  BY <2>6, <2>10 DEF IsEntry
  <2>13. Away(b, u, X) \in Nat
    <3>1. IsPattern(u, X)  BY DEF IsPattern, Patterns4
    <3>. QED  BY <1>1, <1>2, <3>1, CellsFinite
  <2>14. e.dist <= 14 /\ (i = 0 => e.dist = 0)  BY <2>11, <2>12, <2>13
  <2>. QED  BY <2>5, <2>6, <2>7, <2>14
<1>4. Region(E, b, X, F, m)  BY <1>1, <1>2, <1>3 DEF Region
<1>5. Finds(E, b, o, X, F, m)  BY <1>3, <1>4 DEF Finds
<1>6. IsNear(E, m)  BY <1>3, IndicesIn DEF IsNear
<1>. QED  BY <1>1, <1>5, <1>6

\* The patterns of the tables.
SuitShapes(o, m) == [i \in Indices(m) |-> Made(o, 9, list_suits_win_patterns[i])]
HonorShapes(m) == [i \in Indices(m) |-> Made(East, 7, list_honors_win_patterns[i])]

LEMMA SuitFinds ==
  ASSUME NEW o \in {0, 9, 18}, NEW m \in 0..4, NEW b, IsCounts(b, 0..33), <<Counts(b, o, 9), m>> \in Lookups
  PROVE  /\ Finds(suits_table[<<Counts(b, o, 9), m>>], b, o, Area(o, 9), SuitShapes(o, m), m)
         /\ IsNear(suits_table[<<Counts(b, o, 9), m>>], m)
<1>1. PICK c, l : c = Counts(b, o, 9) /\ l = <<c, m>>  OBVIOUS
<1>2. DOMAIN c = 0..9 - 1 /\ l[1] = c /\ l[2] = m  BY <1>1 DEF Counts
<1>3. l \in {k \in Lookups : DOMAIN k[1] = 0..9 - 1}  BY <1>1, <1>2
<1>4. suits_table[l] = [i \in Indices(m) |-> Entry(c, list_suits_win_patterns[i])]
  BY <1>2, <1>3 DEF suits_table, load_table
<1>5. PICK groups : groups = triplets(9) \cup {Of(9, k..k + 2, 1) : k \in 0..6}  OBVIOUS
<1>6. list_suits_win_patterns = WinPatterns(9, groups)  BY <1>5 DEF list_suits_win_patterns
<1>7. o \in Nat /\ 9 \in Nat /\ 9 >= 5  OBVIOUS
<1>8. groups \subseteq [0..9 - 1 -> 0..3] /\ triplets(9) \subseteq groups  BY <1>5, PatternsFit
<1>9. IsCounts(b, Area(o, 9))  BY DEF IsCounts, Area
<1>10. PICK E, F : E = suits_table[l] /\ F = SuitShapes(o, m)  OBVIOUS
<1>11. \A i \in Indices(m) : E[i] = Entry(Counts(b, o, 9), WinPatterns(9, groups)[i])  BY <1>1, <1>4, <1>6, <1>10
<1>12. \A i \in Indices(m) : F[i] = Made(o, 9, WinPatterns(9, groups)[i])  BY <1>6, <1>10 DEF SuitShapes
<1>14. Holds(E, F, b, o, 9, groups, m)  BY <1>11, <1>12, Zenon DEF Holds
<1>13. Finds(E, b, o, Area(o, 9), F, m) /\ IsNear(E, m)
  BY ONLY <1>7, <1>8, <1>9, <1>14, m \in 0..4, OpenEntries
<1>. QED  BY <1>1, <1>10, <1>13

LEMMA HonorFinds ==
  ASSUME NEW m \in 0..4, NEW b, IsCounts(b, 0..33), <<Counts(b, East, 7), m>> \in Lookups
  PROVE  /\ Finds(honors_table[<<Counts(b, East, 7), m>>], b, East, Area(East, 7), HonorShapes(m), m)
         /\ IsNear(honors_table[<<Counts(b, East, 7), m>>], m)
<1>1. PICK c, l : c = Counts(b, East, 7) /\ l = <<c, m>>  OBVIOUS
<1>2. DOMAIN c = 0..7 - 1 /\ l[1] = c /\ l[2] = m  BY <1>1 DEF Counts
<1>3. l \in {k \in Lookups : DOMAIN k[1] = 0..7 - 1}  BY <1>1, <1>2
<1>4. honors_table[l] = [i \in Indices(m) |-> Entry(c, list_honors_win_patterns[i])]
  BY <1>2, <1>3 DEF honors_table, load_table
<1>5. PICK groups : groups = triplets(7)  OBVIOUS
<1>6. list_honors_win_patterns = WinPatterns(7, groups)  BY <1>5 DEF list_honors_win_patterns
<1>7. East \in Nat /\ 7 \in Nat /\ 7 >= 5  BY DEF East
<1>8. groups \subseteq [0..7 - 1 -> 0..3] /\ triplets(7) \subseteq groups  BY <1>5, PatternsFit
<1>9. IsCounts(b, Area(East, 7))  BY DEF IsCounts, Area, East
<1>10. PICK E, F : E = honors_table[l] /\ F = HonorShapes(m)  OBVIOUS
<1>11. \A i \in Indices(m) : E[i] = Entry(Counts(b, East, 7), WinPatterns(7, groups)[i])  BY <1>1, <1>4, <1>6, <1>10
<1>12. \A i \in Indices(m) : F[i] = Made(East, 7, WinPatterns(7, groups)[i])  BY <1>6, <1>10 DEF HonorShapes
<1>14. Holds(E, F, b, East, 7, groups, m)  BY <1>11, <1>12, Zenon DEF Holds
<1>13. Finds(E, b, East, Area(East, 7), F, m) /\ IsNear(E, m)
  BY ONLY <1>7, <1>8, <1>9, <1>14, m \in 0..4, OpenEntries
<1>. QED  BY <1>1, <1>10, <1>13

\* Joined tables.
LEMMA JoinedFinds ==
  ASSUME NEW L, NEW R, NEW b, NEW X, NEW Y, NEW F, NEW G, NEW o \in Int, NEW m \in 0..4, Apart(X, Y),
         Finds(L, b, o + 9, X, F, m), Finds(R, b, o, Y, G, m), IsNear(R, m)
  PROVE  /\ Finds(add1(L, R, m), b, o, X \cup Y, Joint(F, G, X, Y, m), m)
         /\ \A i \in Indices(m) : add1(L, R, m)[i].dist <= L[i].dist
<1>1. Region(L, b, X, F, m) /\ Region(R, b, Y, G, m)  BY DEF Finds
<1>2. Parted(L, R, b, X, Y, F, G, m)  BY <1>1 DEF Parted, Region, Sides
<1>3. Region(add1(L, R, m), b, X \cup Y, Joint(F, G, X, Y, m), m)  BY <1>2, JoinedRegion
<1>4. ASSUME NEW h \in Indices(m)
      PROVE  /\ HasTiles(add1(L, R, m)[h], o, b, X \cup Y, Joint(F, G, X, Y, m)[h])
             /\ add1(L, R, m)[h].dist <= L[h].dist
  <2>1. \A i \in Indices(m) : HasTiles(L[i], o + 9, b, X, F[i]) /\ HasTiles(R[i], o, b, Y, G[i])
    BY DEF Finds
  <2>2. Glued(F, G, X, Y, h) # {}  BY <1>2, JointFilled
  <2>3. PICK e : e = add2(L, R, h)  OBVIOUS
  <2>4. HasTiles(e, o, b, X \cup Y, Glued(F, G, X, Y, h))  BY <1>2, <2>1, <2>2, <2>3, JoinedTiles
  <2>5. add1(L, R, m)[h] = e  BY <2>3 DEF add1
  <2>6. Joint(F, G, X, Y, m)[h] = Glued(F, G, X, Y, h)  BY DEF Joint
  <2>7. PICK Ss : Ss = Splits(h) /\ Halves(L, R, b, X, Y, F, G, Ss)
                  /\ Glued(F, G, X, Y, h) = GluedBy(F, G, X, Y, Ss) /\ e = NearestOf(L, R, Ss)
    BY <1>2, <2>3, RegionHalves
  <2>8. PICK s : s = <<h, 0>>  OBVIOUS
  <2>9. s[1] = h /\ s[2] = 0  BY <2>8
  <2>10. s \in Ss
    <3>1. h \in Int /\ 0 \in Indices(m) /\ h + 0 = h  BY IndicesIn
    <3>. QED  BY <2>7, <2>8, <3>1, SplitsAre
  <2>11. \A t \in Ss : e.dist <= L[t[1]].dist + R[t[2]].dist
    BY ONLY <2>2, <2>7, NearestDistance
  <2>12. L[h].dist \in Nat /\ R[0].dist = 0  BY <1>1 DEF Region, IsEntry, IsNear
  <2>13. e.dist <= L[h].dist  BY <2>9, <2>10, <2>11, <2>12
  <2>. QED  BY <2>4, <2>5, <2>6, <2>13
<1>5. \A h \in Indices(m) : HasTiles(add1(L, R, m)[h], o, b, X \cup Y, Joint(F, G, X, Y, m)[h])  BY <1>4
<1>6. Finds(add1(L, R, m), b, o, X \cup Y, Joint(F, G, X, Y, m), m)  BY <1>3, <1>5, Zenon DEF Finds
<1>. QED  BY <1>4, <1>6

-----------------------------------------------------------------------------
(* The hand-written table of manzu 1 and 9 in sanma.                       *)

\* Counts of manzu 1 and 9: index i is made of two patterns, one the other way round.
First(i) == IF i = 0 THEN 0 ELSE IF i \in {1, 2} THEN 3 ELSE 2
Second(i) == IF i \in {2, 6} THEN 3 ELSE 0
Lack(x, a) == IF x > a THEN x - a ELSE 0

\* What is found for counts a and c if the patterns have x and y, or y and x.
FindsBoth(dist, wait, disc, a, c, x, y) ==
  LET d == Lack(x, a) + Lack(y, c)
      f == Lack(y, a) + Lack(x, c)
  IN  /\ dist \in Nat /\ dist <= d /\ dist <= f /\ (dist = d \/ dist = f)
      /\ wait \subseteq {0, 8} /\ disc \subseteq {0, 8}
      /\ 0 \in wait <=> (dist = d /\ x > a) \/ (dist = f /\ y > a)
      /\ 8 \in wait <=> (dist = d /\ y > c) \/ (dist = f /\ x > c)
      /\ 0 \in disc <=> (dist = d /\ x < a) \/ (dist = f /\ y < a)
      /\ 8 \in disc <=> (dist = d /\ y < c) \/ (dist = f /\ x < c)
CellFinds(e, a, c, x, y) == FindsBoth(e.dist, e.wait, e.disc, a, c, x, y)

Cell(dist, wait, disc) == [dist |-> dist, wait |-> wait, disc |-> disc]
SanmaIndices == {0, 1, 2, 5, 6}
HasParts(e) == e = Cell(e.dist, e.wait, e.disc)
RowFinds(row, a, c) ==
  /\ \A i \in SanmaIndices : CellFinds(row[i], a, c, First(i), Second(i)) /\ HasParts(row[i])
  /\ \A i \in Indices(4) \ SanmaIndices : row[i] = Cell(TooFar, {}, {})
PartsFind(dist, wait, disc, a, c) ==
  /\ FindsBoth(dist[1], wait[1], disc[1], a, c, 0, 0)
  /\ FindsBoth(dist[2], wait[2], disc[2], a, c, 3, 0)
  /\ FindsBoth(dist[3], wait[3], disc[3], a, c, 3, 3)
  /\ FindsBoth(dist[4], wait[4], disc[4], a, c, 2, 0)
  /\ FindsBoth(dist[5], wait[5], disc[5], a, c, 2, 3)

IsRow(row, dist, wait, disc) ==
  /\ row[0] = Cell(dist[1], wait[1], disc[1]) /\ row[1] = Cell(dist[2], wait[2], disc[2])
  /\ row[2] = Cell(dist[3], wait[3], disc[3]) /\ row[5] = Cell(dist[4], wait[4], disc[4])
  /\ row[6] = Cell(dist[5], wait[5], disc[5])
  /\ \A i \in Indices(4) \ SanmaIndices : row[i] = Cell(TooFar, {}, {})

LEMMA RowIs ==
  ASSUME NEW dist, NEW wait, NEW disc, NEW row, row = Row(dist, wait, disc)
  PROVE  IsRow(row, dist, wait, disc)
<1>1. PICK at : at = [i \in {0, 1, 2, 5, 6} |-> IF i < 5 THEN i + 1 ELSE i - 1]  OBVIOUS
<1>2. row = [i \in Indices(4) |-> IF i \in DOMAIN at
                                  THEN Cell(dist[at[i]], wait[at[i]], disc[at[i]])
                                  ELSE Cell(TooFar, {}, {})]
  BY <1>1, Zenon DEF Row, Cell
<1>3. at[0] = 1 /\ at[1] = 2 /\ at[2] = 3 /\ at[5] = 4 /\ at[6] = 5 /\ DOMAIN at = SanmaIndices
  BY <1>1 DEF SanmaIndices
<1>4. \A i \in Indices(4) : row[i] = IF i \in DOMAIN at
                                     THEN Cell(dist[at[i]], wait[at[i]], disc[at[i]])
                                     ELSE Cell(TooFar, {}, {})
  BY <1>2
<1>5. 0 \in Indices(4) /\ 1 \in Indices(4) /\ 2 \in Indices(4) /\ 5 \in Indices(4) /\ 6 \in Indices(4)
  BY DEF Indices
<1>6. \A i \in SanmaIndices : row[i] = Cell(dist[at[i]], wait[at[i]], disc[at[i]])
  BY <1>3, <1>4, <1>5 DEF SanmaIndices
<1>7. \A i \in Indices(4) \ SanmaIndices : row[i] = Cell(TooFar, {}, {})
  BY <1>3, <1>4
<1>. QED  BY <1>3, <1>6, <1>7, Zenon DEF SanmaIndices, IsRow

LEMMA RowFits ==
  ASSUME NEW dist, NEW wait, NEW disc, NEW a, NEW c, PartsFind(dist, wait, disc, a, c)
  PROVE  RowFinds(Row(dist, wait, disc), a, c)
<1>1. PICK row : row = Row(dist, wait, disc)  OBVIOUS
<1>2. /\ row[0].dist = dist[1] /\ row[0].wait = wait[1] /\ row[0].disc = disc[1]
      /\ row[1].dist = dist[2] /\ row[1].wait = wait[2] /\ row[1].disc = disc[2]
      /\ row[2].dist = dist[3] /\ row[2].wait = wait[3] /\ row[2].disc = disc[3]
      /\ row[5].dist = dist[4] /\ row[5].wait = wait[4] /\ row[5].disc = disc[4]
      /\ row[6].dist = dist[5] /\ row[6].wait = wait[5] /\ row[6].disc = disc[5]
  <2>1. IsRow(row, dist, wait, disc)  BY <1>1, RowIs
  <2>. QED  BY <2>1 DEF IsRow, Cell
<1>3. /\ First(0) = 0 /\ Second(0) = 0 /\ First(1) = 3 /\ Second(1) = 0 /\ First(2) = 3 /\ Second(2) = 3
      /\ First(5) = 2 /\ Second(5) = 0 /\ First(6) = 2 /\ Second(6) = 3
  BY DEF First, Second
<1>4. \A i \in SanmaIndices : CellFinds(row[i], a, c, First(i), Second(i))
  <2>1. CellFinds(row[0], a, c, First(0), Second(0))  BY <1>2, <1>3 DEF CellFinds, PartsFind
  <2>2. CellFinds(row[1], a, c, First(1), Second(1))  BY <1>2, <1>3 DEF CellFinds, PartsFind
  <2>3. CellFinds(row[2], a, c, First(2), Second(2))  BY <1>2, <1>3 DEF CellFinds, PartsFind
  <2>4. CellFinds(row[5], a, c, First(5), Second(5))  BY <1>2, <1>3 DEF CellFinds, PartsFind
  <2>5. CellFinds(row[6], a, c, First(6), Second(6))  BY <1>2, <1>3 DEF CellFinds, PartsFind
  <2>. QED  BY <2>1, <2>2, <2>3, <2>4, <2>5, Zenon DEF SanmaIndices
<1>5. \A i \in Indices(4) \ SanmaIndices : row[i] = Cell(TooFar, {}, {})
  <2>1. IsRow(row, dist, wait, disc)  BY <1>1, RowIs
  <2>. QED  BY <2>1, Zenon DEF IsRow
<1>6. \A i \in SanmaIndices : HasParts(row[i])
  <2>1. IsRow(row, dist, wait, disc)  BY <1>1, RowIs
  <2>2. \A x, y, z : HasParts(Cell(x, y, z))  BY DEF HasParts, Cell
  <2>. QED  BY <2>1, <2>2 DEF IsRow, SanmaIndices
<1>. QED  BY <1>1, <1>4, <1>5, <1>6 DEF RowFinds

\* The hand-written table finds what the patterns of two kinds of tile are.
LEMMA SanmaTable ==
  ASSUME NEW a \in 0..4, NEW c \in 0..4
  PROVE  RowFinds(sanma_manzu_table[1 + sanma_manzu_hash(a, c)], a, c)
<1>1. RowFinds(sanma_manzu_table[1], 0, 0)
  <2>1. PICK dist, wait, disc : /\ dist = <<0, 3, 6, 2, 5>>
                                /\ wait = <<{}, {0, 8}, {0, 8}, {0, 8}, {0, 8}>>
                                /\ disc = <<{}, {}, {}, {}, {}>>
    OBVIOUS
  <2>2. sanma_manzu_table[1] = Row(dist, wait, disc)  BY <2>1 DEF sanma_manzu_table
  <2>3. PartsFind(dist, wait, disc, 0, 0)  BY <2>1 DEF PartsFind, FindsBoth, Lack
  <2>. QED  BY <2>2, <2>3, RowFits
<1>2. RowFinds(sanma_manzu_table[2], 0, 1)
  <2>1. PICK dist, wait, disc : /\ dist = <<0, 2, 5, 1, 4>>
                                /\ wait = <<{}, {8}, {0, 8}, {8}, {0, 8}>>
                                /\ disc = <<{8}, {}, {}, {}, {}>>
    OBVIOUS
  <2>2. sanma_manzu_table[2] = Row(dist, wait, disc)  BY <2>1 DEF sanma_manzu_table
  <2>3. PartsFind(dist, wait, disc, 0, 1)  BY <2>1 DEF PartsFind, FindsBoth, Lack
  <2>. QED  BY <2>2, <2>3, RowFits
<1>3. RowFinds(sanma_manzu_table[3], 0, 2)
  <2>1. PICK dist, wait, disc : /\ dist = <<0, 1, 4, 0, 3>>
                                /\ wait = <<{}, {8}, {0, 8}, {}, {0, 8}>>
                                /\ disc = <<{8}, {}, {}, {}, {}>>
    OBVIOUS
  <2>2. sanma_manzu_table[3] = Row(dist, wait, disc)  BY <2>1 DEF sanma_manzu_table
  <2>3. PartsFind(dist, wait, disc, 0, 2)  BY <2>1 DEF PartsFind, FindsBoth, Lack
  <2>. QED  BY <2>2, <2>3, RowFits
<1>4. RowFinds(sanma_manzu_table[4], 0, 3)
  <2>1. PICK dist, wait, disc : /\ dist = <<0, 0, 3, 0, 2>>
                                /\ wait = <<{}, {}, {0}, {}, {0}>>
                                /\ disc = <<{8}, {}, {}, {8}, {}>>
    OBVIOUS
  <2>2. sanma_manzu_table[4] = Row(dist, wait, disc)  BY <2>1 DEF sanma_manzu_table
  <2>3. PartsFind(dist, wait, disc, 0, 3)  BY <2>1 DEF PartsFind, FindsBoth, Lack
  <2>. QED  BY <2>2, <2>3, RowFits
<1>5. RowFinds(sanma_manzu_table[5], 0, 4)
  <2>1. PICK dist, wait, disc : /\ dist = <<0, 0, 3, 0, 2>>
                                /\ wait = <<{}, {}, {0}, {}, {0}>>
                                /\ disc = <<{8}, {8}, {8}, {8}, {8}>>
    OBVIOUS
  <2>2. sanma_manzu_table[5] = Row(dist, wait, disc)  BY <2>1 DEF sanma_manzu_table
  <2>3. PartsFind(dist, wait, disc, 0, 4)  BY <2>1 DEF PartsFind, FindsBoth, Lack
  <2>. QED  BY <2>2, <2>3, RowFits
<1>6. RowFinds(sanma_manzu_table[6], 1, 0)
  <2>1. PICK dist, wait, disc : /\ dist = <<0, 2, 5, 1, 4>>
                                /\ wait = <<{}, {0}, {0, 8}, {0}, {0, 8}>>
                                /\ disc = <<{0}, {}, {}, {}, {}>>
    OBVIOUS
  <2>2. sanma_manzu_table[6] = Row(dist, wait, disc)  BY <2>1 DEF sanma_manzu_table
  <2>3. PartsFind(dist, wait, disc, 1, 0)  BY <2>1 DEF PartsFind, FindsBoth, Lack
  <2>. QED  BY <2>2, <2>3, RowFits
<1>7. RowFinds(sanma_manzu_table[7], 1, 1)
  <2>1. PICK dist, wait, disc : /\ dist = <<0, 2, 4, 1, 3>>
                                /\ wait = <<{}, {0, 8}, {0, 8}, {0, 8}, {0, 8}>>
                                /\ disc = <<{0, 8}, {0, 8}, {}, {0, 8}, {}>>
    OBVIOUS
  <2>2. sanma_manzu_table[7] = Row(dist, wait, disc)  BY <2>1 DEF sanma_manzu_table
  <2>3. PartsFind(dist, wait, disc, 1, 1)  BY <2>1 DEF PartsFind, FindsBoth, Lack
  <2>. QED  BY <2>2, <2>3, RowFits
<1>8. RowFinds(sanma_manzu_table[8], 1, 2)
  <2>1. PICK dist, wait, disc : /\ dist = <<0, 1, 3, 0, 2>>
                                /\ wait = <<{}, {8}, {0, 8}, {}, {0, 8}>>
                                /\ disc = <<{0, 8}, {0}, {}, {0}, {}>>
    OBVIOUS
  <2>2. sanma_manzu_table[8] = Row(dist, wait, disc)  BY <2>1 DEF sanma_manzu_table
  <2>3. PartsFind(dist, wait, disc, 1, 2)  BY <2>1 DEF PartsFind, FindsBoth, Lack
  <2>. QED  BY <2>2, <2>3, RowFits
<1>9. RowFinds(sanma_manzu_table[9], 1, 3)
  <2>1. PICK dist, wait, disc : /\ dist = <<0, 0, 2, 0, 1>>
                                /\ wait = <<{}, {}, {0}, {}, {0}>>
                                /\ disc = <<{0, 8}, {0}, {}, {0, 8}, {}>>
    OBVIOUS
  <2>2. sanma_manzu_table[9] = Row(dist, wait, disc)  BY <2>1 DEF sanma_manzu_table
  <2>3. PartsFind(dist, wait, disc, 1, 3)  BY <2>1 DEF PartsFind, FindsBoth, Lack
  <2>. QED  BY <2>2, <2>3, RowFits
<1>10. RowFinds(sanma_manzu_table[10], 1, 4)
  <2>1. PICK dist, wait, disc : /\ dist = <<0, 0, 2, 0, 1>>
                                /\ wait = <<{}, {}, {0}, {}, {0}>>
                                /\ disc = <<{0, 8}, {0, 8}, {8}, {0, 8}, {8}>>
    OBVIOUS
  <2>2. sanma_manzu_table[10] = Row(dist, wait, disc)  BY <2>1 DEF sanma_manzu_table
  <2>3. PartsFind(dist, wait, disc, 1, 4)  BY <2>1 DEF PartsFind, FindsBoth, Lack
  <2>. QED  BY <2>2, <2>3, RowFits
<1>11. RowFinds(sanma_manzu_table[11], 2, 0)
  <2>1. PICK dist, wait, disc : /\ dist = <<0, 1, 4, 0, 3>>
                                /\ wait = <<{}, {0}, {0, 8}, {}, {0, 8}>>
                                /\ disc = <<{0}, {}, {}, {}, {}>>
    OBVIOUS
  <2>2. sanma_manzu_table[11] = Row(dist, wait, disc)  BY <2>1 DEF sanma_manzu_table
  <2>3. PartsFind(dist, wait, disc, 2, 0)  BY <2>1 DEF PartsFind, FindsBoth, Lack
  <2>. QED  BY <2>2, <2>3, RowFits
<1>12. RowFinds(sanma_manzu_table[12], 2, 1)
  <2>1. PICK dist, wait, disc : /\ dist = <<0, 1, 3, 0, 2>>
                                /\ wait = <<{}, {0}, {0, 8}, {}, {0, 8}>>
                                /\ disc = <<{0, 8}, {8}, {}, {8}, {}>>
    OBVIOUS
  <2>2. sanma_manzu_table[12] = Row(dist, wait, disc)  BY <2>1 DEF sanma_manzu_table
  <2>3. PartsFind(dist, wait, disc, 2, 1)  BY <2>1 DEF PartsFind, FindsBoth, Lack
  <2>. QED  BY <2>2, <2>3, RowFits
<1>13. RowFinds(sanma_manzu_table[13], 2, 2)
  <2>1. PICK dist, wait, disc : /\ dist = <<0, 1, 2, 0, 1>>
                                /\ wait = <<{}, {0, 8}, {0, 8}, {}, {0, 8}>>
                                /\ disc = <<{0, 8}, {0, 8}, {}, {0, 8}, {}>>
    OBVIOUS
  <2>2. sanma_manzu_table[13] = Row(dist, wait, disc)  BY <2>1 DEF sanma_manzu_table
  <2>3. PartsFind(dist, wait, disc, 2, 2)  BY <2>1 DEF PartsFind, FindsBoth, Lack
  <2>. QED  BY <2>2, <2>3, RowFits
<1>14. RowFinds(sanma_manzu_table[14], 2, 3)
  <2>1. PICK dist, wait, disc : /\ dist = <<0, 0, 1, 0, 0>>
                                /\ wait = <<{}, {}, {0}, {}, {}>>
                                /\ disc = <<{0, 8}, {0}, {}, {0, 8}, {}>>
    OBVIOUS
  <2>2. sanma_manzu_table[14] = Row(dist, wait, disc)  BY <2>1 DEF sanma_manzu_table
  <2>3. PartsFind(dist, wait, disc, 2, 3)  BY <2>1 DEF PartsFind, FindsBoth, Lack
  <2>. QED  BY <2>2, <2>3, RowFits
<1>15. RowFinds(sanma_manzu_table[15], 2, 4)
  <2>1. PICK dist, wait, disc : /\ dist = <<0, 0, 1, 0, 0>>
                                /\ wait = <<{}, {}, {0}, {}, {}>>
                                /\ disc = <<{0, 8}, {0, 8}, {8}, {0, 8}, {8}>>
    OBVIOUS
  <2>2. sanma_manzu_table[15] = Row(dist, wait, disc)  BY <2>1 DEF sanma_manzu_table
  <2>3. PartsFind(dist, wait, disc, 2, 4)  BY <2>1 DEF PartsFind, FindsBoth, Lack
  <2>. QED  BY <2>2, <2>3, RowFits
<1>16. RowFinds(sanma_manzu_table[16], 3, 0)
  <2>1. PICK dist, wait, disc : /\ dist = <<0, 0, 3, 0, 2>>
                                /\ wait = <<{}, {}, {8}, {}, {8}>>
                                /\ disc = <<{0}, {}, {}, {0}, {}>>
    OBVIOUS
  <2>2. sanma_manzu_table[16] = Row(dist, wait, disc)  BY <2>1 DEF sanma_manzu_table
  <2>3. PartsFind(dist, wait, disc, 3, 0)  BY <2>1 DEF PartsFind, FindsBoth, Lack
  <2>. QED  BY <2>2, <2>3, RowFits
<1>17. RowFinds(sanma_manzu_table[17], 3, 1)
  <2>1. PICK dist, wait, disc : /\ dist = <<0, 0, 2, 0, 1>>
                                /\ wait = <<{}, {}, {8}, {}, {8}>>
                                /\ disc = <<{0, 8}, {8}, {}, {0, 8}, {}>>
    OBVIOUS
  <2>2. sanma_manzu_table[17] = Row(dist, wait, disc)  BY <2>1 DEF sanma_manzu_table
  <2>3. PartsFind(dist, wait, disc, 3, 1)  BY <2>1 DEF PartsFind, FindsBoth, Lack
  <2>. QED  BY <2>2, <2>3, RowFits
<1>18. RowFinds(sanma_manzu_table[18], 3, 2)
  <2>1. PICK dist, wait, disc : /\ dist = <<0, 0, 1, 0, 0>>
                                /\ wait = <<{}, {}, {8}, {}, {}>>
                                /\ disc = <<{0, 8}, {8}, {}, {0, 8}, {}>>
    OBVIOUS
  <2>2. sanma_manzu_table[18] = Row(dist, wait, disc)  BY <2>1 DEF sanma_manzu_table
  <2>3. PartsFind(dist, wait, disc, 3, 2)  BY <2>1 DEF PartsFind, FindsBoth, Lack
  <2>. QED  BY <2>2, <2>3, RowFits
<1>19. RowFinds(sanma_manzu_table[19], 3, 3)
  <2>1. PICK dist, wait, disc : /\ dist = <<0, 0, 0, 0, 0>>
                                /\ wait = <<{}, {}, {}, {}, {}>>
                                /\ disc = <<{0, 8}, {0, 8}, {}, {0, 8}, {0, 8}>>
    OBVIOUS
  <2>2. sanma_manzu_table[19] = Row(dist, wait, disc)  BY <2>1 DEF sanma_manzu_table
  <2>3. PartsFind(dist, wait, disc, 3, 3)  BY <2>1 DEF PartsFind, FindsBoth, Lack
  <2>. QED  BY <2>2, <2>3, RowFits
<1>20. RowFinds(sanma_manzu_table[20], 3, 4)
  <2>1. PICK dist, wait, disc : /\ dist = <<0, 0, 0, 0, 0>>
                                /\ wait = <<{}, {}, {}, {}, {}>>
                                /\ disc = <<{0, 8}, {0, 8}, {8}, {0, 8}, {0, 8}>>
    OBVIOUS
  <2>2. sanma_manzu_table[20] = Row(dist, wait, disc)  BY <2>1 DEF sanma_manzu_table
  <2>3. PartsFind(dist, wait, disc, 3, 4)  BY <2>1 DEF PartsFind, FindsBoth, Lack
  <2>. QED  BY <2>2, <2>3, RowFits
<1>21. RowFinds(sanma_manzu_table[21], 4, 0)
  <2>1. PICK dist, wait, disc : /\ dist = <<0, 0, 3, 0, 2>>
                                /\ wait = <<{}, {}, {8}, {}, {8}>>
                                /\ disc = <<{0}, {0}, {0}, {0}, {0}>>
    OBVIOUS
  <2>2. sanma_manzu_table[21] = Row(dist, wait, disc)  BY <2>1 DEF sanma_manzu_table
  <2>3. PartsFind(dist, wait, disc, 4, 0)  BY <2>1 DEF PartsFind, FindsBoth, Lack
  <2>. QED  BY <2>2, <2>3, RowFits
<1>22. RowFinds(sanma_manzu_table[22], 4, 1)
  <2>1. PICK dist, wait, disc : /\ dist = <<0, 0, 2, 0, 1>>
                                /\ wait = <<{}, {}, {8}, {}, {8}>>
                                /\ disc = <<{0, 8}, {0, 8}, {0}, {0, 8}, {0}>>
    OBVIOUS
  <2>2. sanma_manzu_table[22] = Row(dist, wait, disc)  BY <2>1 DEF sanma_manzu_table
  <2>3. PartsFind(dist, wait, disc, 4, 1)  BY <2>1 DEF PartsFind, FindsBoth, Lack
  <2>. QED  BY <2>2, <2>3, RowFits
<1>23. RowFinds(sanma_manzu_table[23], 4, 2)
  <2>1. PICK dist, wait, disc : /\ dist = <<0, 0, 1, 0, 0>>
                                /\ wait = <<{}, {}, {8}, {}, {}>>
                                /\ disc = <<{0, 8}, {0, 8}, {0}, {0, 8}, {0}>>
    OBVIOUS
  <2>2. sanma_manzu_table[23] = Row(dist, wait, disc)  BY <2>1 DEF sanma_manzu_table
  <2>3. PartsFind(dist, wait, disc, 4, 2)  BY <2>1 DEF PartsFind, FindsBoth, Lack
  <2>. QED  BY <2>2, <2>3, RowFits
<1>24. RowFinds(sanma_manzu_table[24], 4, 3)
  <2>1. PICK dist, wait, disc : /\ dist = <<0, 0, 0, 0, 0>>
                                /\ wait = <<{}, {}, {}, {}, {}>>
                                /\ disc = <<{0, 8}, {0, 8}, {0}, {0, 8}, {0, 8}>>
    OBVIOUS
  <2>2. sanma_manzu_table[24] = Row(dist, wait, disc)  BY <2>1 DEF sanma_manzu_table
  <2>3. PartsFind(dist, wait, disc, 4, 3)  BY <2>1 DEF PartsFind, FindsBoth, Lack
  <2>. QED  BY <2>2, <2>3, RowFits
<1>25. RowFinds(sanma_manzu_table[25], 4, 4)
  <2>1. PICK dist, wait, disc : /\ dist = <<0, 0, 0, 0, 0>>
                                /\ wait = <<{}, {}, {}, {}, {}>>
                                /\ disc = <<{0, 8}, {0, 8}, {0, 8}, {0, 8}, {0, 8}>>
    OBVIOUS
  <2>2. sanma_manzu_table[25] = Row(dist, wait, disc)  BY <2>1 DEF sanma_manzu_table
  <2>3. PartsFind(dist, wait, disc, 4, 4)  BY <2>1 DEF PartsFind, FindsBoth, Lack
  <2>. QED  BY <2>2, <2>3, RowFits
<1>26. 1 + sanma_manzu_hash(a, c) = 5 * a + c + 1  BY DEF sanma_manzu_hash
<1>27. a = 0 \/ a = 1 \/ a = 2 \/ a = 3 \/ a = 4  OBVIOUS
<1>28. c = 0 \/ c = 1 \/ c = 2 \/ c = 3 \/ c = 4  OBVIOUS
<1>29. CASE a = 0
  BY <1>26, <1>28, <1>1, <1>2, <1>3, <1>4, <1>5, <1>29
<1>30. CASE a = 1
  BY <1>26, <1>28, <1>6, <1>7, <1>8, <1>9, <1>10, <1>30
<1>31. CASE a = 2
  BY <1>26, <1>28, <1>11, <1>12, <1>13, <1>14, <1>15, <1>31
<1>32. CASE a = 3
  BY <1>26, <1>28, <1>16, <1>17, <1>18, <1>19, <1>20, <1>32
<1>33. CASE a = 4
  BY <1>26, <1>28, <1>21, <1>22, <1>23, <1>24, <1>25, <1>33
<1>. QED  BY <1>27, <1>29, <1>30, <1>31, <1>32, <1>33

At(x, y) == [k \in {0, 8} |-> IF k = 0 THEN x ELSE y]
SanmaShapes == [i \in SanmaIndices |-> {At(First(i), Second(i)), At(Second(i), First(i))}]

LEMMA AwayBoth ==
  ASSUME NEW b, IsCounts(b, {0, 8}), NEW x \in 0..4, NEW y \in 0..4
  PROVE  /\ At(x, y) \in Patterns4({0, 8}) /\ At(x, y)[0] = x /\ At(x, y)[8] = y
         /\ Away(b, At(x, y), {0, 8}) = Lack(x, b[0]) + Lack(y, b[8])
<1>1. PICK w : w = At(x, y)  OBVIOUS
<1>2. w \in Patterns4({0, 8}) /\ w[0] = x /\ w[8] = y  BY <1>1 DEF At, Patterns4
<1>8. PICK X, Y : X = {0} /\ Y = {8}  OBVIOUS
<1>3. X = {0} /\ Y = {8} /\ X \cup Y = {0, 8}  BY <1>8
<1>4. IsFiniteSet(X) /\ IsFiniteSet(Y) /\ X \cap Y = {} /\ IsCounts(b, X \cup Y) /\ IsPattern(w, X \cup Y)
  <2>1. IsFiniteSet(X) /\ IsFiniteSet(Y)  BY <1>3, FS_Singleton
  <2>2. IsPattern(w, {0, 8})  BY <1>2 DEF IsPattern
  <2>. QED  BY <1>3, <2>1, <2>2
<1>5. Away(b, w, X \cup Y) = Away(b, w, X) + Away(b, w, Y)  BY <1>4, AwayUnion
<1>6. b[0] \in Nat /\ b[8] \in Nat  BY DEF IsCounts
<1>7. Away(b, w, {0}) = Lack(x, b[0]) /\ Away(b, w, {8}) = Lack(y, b[8])
  BY <1>2, <1>6, AwayOne DEF Lack
<1>. QED  BY <1>1, <1>2, <1>3, <1>5, <1>7

LEMMA SanmaFinds ==
  ASSUME NEW b, IsCounts(b, {0, 8}), NEW i \in SanmaIndices, NEW e, CellFinds(e, b[0], b[8], First(i), Second(i))
  PROVE  /\ IsEntry(e, b, {0, 8}, SanmaShapes[i]) /\ HasTiles(e, 0, b, {0, 8}, SanmaShapes[i])
         /\ SanmaShapes[i] \subseteq Patterns4({0, 8}) /\ (i = 0 => e.dist = 0)
<1>1. PICK x, y, a, c : x = First(i) /\ y = Second(i) /\ a = b[0] /\ c = b[8]  OBVIOUS
<1>2. x \in 0..4 /\ y \in 0..4 /\ a \in Nat /\ c \in Nat /\ (i = 0 => x = 0 /\ y = 0)
  BY <1>1 DEF First, Second, IsCounts
<1>3. PICK u, v, F, X : u = At(x, y) /\ v = At(y, x) /\ F = {u, v} /\ X = {0, 8}  OBVIOUS
<1>4. PICK d, f : d = Lack(x, a) + Lack(y, c) /\ f = Lack(y, a) + Lack(x, c)  OBVIOUS
<1>5. /\ u \in Patterns4(X) /\ u[0] = x /\ u[8] = y /\ Away(b, u, X) = d
      /\ v \in Patterns4(X) /\ v[0] = y /\ v[8] = x /\ Away(b, v, X) = f
  BY <1>1, <1>2, <1>3, <1>4, AwayBoth
<1>6. /\ e.dist \in Nat /\ e.dist <= d /\ e.dist <= f /\ (e.dist = d \/ e.dist = f)
      /\ e.wait \subseteq {0, 8} /\ e.disc \subseteq {0, 8}
      /\ 0 \in e.wait <=> (e.dist = d /\ x > a) \/ (e.dist = f /\ y > a)
      /\ 8 \in e.wait <=> (e.dist = d /\ y > c) \/ (e.dist = f /\ x > c)
      /\ 0 \in e.disc <=> (e.dist = d /\ x < a) \/ (e.dist = f /\ y < a)
      /\ 8 \in e.disc <=> (e.dist = d /\ y < c) \/ (e.dist = f /\ x < c)
  BY <1>1, <1>4, Zenon DEF CellFinds, FindsBoth
<1>7. IsEntry(e, b, X, F)  BY <1>3, <1>5, <1>6 DEF IsEntry
<1>8. ASSUME NEW j \in Int
      PROVE  (j \in e.wait <=> Wanted(e, b, X, F, j)) /\ (j \in e.disc <=> Spare(e, b, X, F, j))
  <2>1. CASE j = 0  BY <1>1, <1>3, <1>5, <1>6, <2>1 DEF Wanted, Spare
  <2>2. CASE j = 8  BY <1>1, <1>3, <1>5, <1>6, <2>2 DEF Wanted, Spare
  <2>3. CASE j \notin {0, 8}  BY <1>3, <1>6, <2>3 DEF Wanted, Spare
  <2>. QED  BY <2>1, <2>2, <2>3
<1>9. HasTiles(e, 0, b, X, F)
  <2>1. \A j : j \in e.wait \/ j \in e.disc => j \in Int  BY <1>6
  <2>2. \A j \in Int : j + 0 = j  OBVIOUS
  <2>. QED  BY <1>8, <2>1, <2>2 DEF HasTiles
<1>10. SanmaShapes[i] = F  BY <1>1, <1>3 DEF SanmaShapes
<1>11. i = 0 => e.dist = 0  BY <1>2, <1>4, <1>6 DEF Lack
<1>. QED  BY <1>3, <1>5, <1>7, <1>9, <1>10, <1>11

-----------------------------------------------------------------------------
\* Entries that are too far count for nothing.
NearOf(S) == {e \in S : \A f \in S : e.dist <= f.dist}
Gather(near) == [dist |-> (CHOOSE e \in near : TRUE).dist,
                 wait |-> UNION {e.wait : e \in near}, disc |-> UNION {e.disc : e \in near}]

LEMMA NearestDef == \A S : Nearest(S) = Gather(NearOf(S))
BY Zenon DEF Nearest, NearOf, Gather

LEMMA NearestSame ==
  ASSUME NEW T, NEW S \in SUBSET T, \A e \in T : e.dist \in Nat, NEW e0 \in S, \A f \in T \ S : e0.dist < f.dist
  PROVE  Nearest(S) = Nearest(T)
<1>1. ASSUME NEW e \in NearOf(S)  PROVE e \in NearOf(T)
  <2>1. e \in S /\ \A f \in S : e.dist <= f.dist  BY <1>1 DEF NearOf
  <2>2. \A f \in T \ S : e.dist <= f.dist  BY <2>1
  <2>. QED  BY <2>1, <2>2 DEF NearOf
<1>2. ASSUME NEW e \in NearOf(T)  PROVE e \in NearOf(S)
  <2>1. e \in T /\ \A f \in T : e.dist <= f.dist  BY <1>2 DEF NearOf
  <2>2. e \in S  BY <2>1
  <2>. QED  BY <2>1, <2>2 DEF NearOf
<1>3. NearOf(S) = NearOf(T)  BY <1>1, <1>2
<1>. QED  BY <1>3, NearestDef

\* The last join: right of L, what is known of R for some of the splits.
KnownAt(R, b, Y, G, i) ==
  IsEntry(R[i], b, Y, G[i]) /\ HasTiles(R[i], 0, b, Y, G[i]) /\ G[i] \subseteq Patterns4(Y)
Known(R, b, Y, G, m, K) ==
  /\ 0 \in K /\ R[0].dist = 0
  /\ \A i \in Indices(m) : IF i \in K THEN KnownAt(R, b, Y, G, i) ELSE R[i].dist = TooFar
SplitsIn(i, K) == {s \in Splits(i) : s[2] \in K}

LEMMA LastJoin ==
  ASSUME NEW L, NEW R, NEW b, NEW X, NEW Y, NEW F, NEW G, NEW m \in 0..4, NEW K,
         IsFiniteSet(Y), IsCounts(b, Y), Apart(X, Y),
         Finds(L, b, 9, X, F, m), \A i \in Indices(m) : L[i].dist <= 14, Known(R, b, Y, G, m, K),
         NEW e, e = add2(L, R, 5 + m)
  PROVE  /\ IsEntry(e, b, X \cup Y, GluedBy(F, G, X, Y, SplitsIn(5 + m, K)))
         /\ HasTiles(e, 0, b, X \cup Y, GluedBy(F, G, X, Y, SplitsIn(5 + m, K)))
         /\ e.dist <= 14
<1>1. PICK n, Ss, Ts : n = 5 + m /\ Ss = SplitsIn(n, K) /\ Ts = Splits(n)  OBVIOUS
<1>2. n \in Indices(m) /\ 0 \in Indices(m) /\ n \in Int  BY <1>1, IndicesIn
<1>3. \A s \in Ts : s[1] \in Indices(m) /\ s[2] \in Indices(m)  BY <1>1, <1>2, SplitsAre
<1>4. \A s : s \in Ss <=> s \in Ts /\ s[2] \in K  BY <1>1 DEF SplitsIn
<1>5. \A i \in Indices(m) : /\ IsEntry(L[i], b, X, F[i]) /\ F[i] \subseteq Patterns4(X)
                            /\ HasTiles(L[i], 9, b, X, F[i]) /\ L[i].dist \in Nat
  BY DEF Finds, Region, IsEntry
<1>6. \A i \in Indices(m) : i \in K => KnownAt(R, b, Y, G, i)  BY DEF Known
<1>7. Halves(L, R, b, X, Y, F, G, Ss)
  <2>1. Sides(b, X, Y)  BY DEF Finds, Region, Sides
  <2>. QED  BY <1>3, <1>4, <1>5, <1>6, <2>1 DEF Halves, KnownAt
<1>8. PICK s0 : s0 = <<n, 0>>  OBVIOUS
<1>9. s0 \in Ss /\ s0[1] = n /\ s0[2] = 0
  <2>1. s0[1] = n /\ s0[2] = 0  BY <1>8
  <2>2. n + 0 = n  BY <1>2
  <2>3. s0 \in Ts  BY <1>1, <1>2, <1>8, <2>2, SplitsAre
  <2>. QED  BY <1>4, <2>1, <2>3 DEF Known
<1>10. GluedBy(F, G, X, Y, Ss) # {}
  <2>1. PICK u \in F[n], v \in G[0] : u \in Patterns4(X) /\ v \in Patterns4(Y)
    <3>1. \E u \in F[n] : TRUE  BY <1>2, <1>5 DEF IsEntry
    <3>2. \E v \in G[0] : TRUE  BY <1>2, <1>6 DEF IsEntry, Known, KnownAt
    <3>3. G[0] \subseteq Patterns4(Y)  BY <1>2, <1>6 DEF Known, KnownAt
    <3>. QED  BY <1>2, <1>5, <3>1, <3>2, <3>3
  <2>2. InParts(F, G, s0, u, v) /\ Sides(b, X, Y)  BY <1>7, <1>9 DEF InParts, Halves
  <2>3. \E w \in GluedBy(F, G, X, Y, Ss) : IsGlue(b, X, Y, w, u, v)
    BY ONLY <1>9, <2>1, <2>2, GluedFrom, Zenon
  <2>. QED  BY <2>3
<1>11. L[n].dist <= 14 /\ R[0].dist = 0 /\ L[n].dist \in Nat  BY <1>2, <1>5 DEF Known
<1>12. e = NearestOf(L, R, Ss)
  <2>1. PICK S, T : S = {Joined(L[s[1]], R[s[2]]) : s \in Ss} /\ T = {Joined(L[s[1]], R[s[2]]) : s \in Ts}  OBVIOUS
  <2>2. \A s : Joined(L[s[1]], R[s[2]]).dist = L[s[1]].dist + R[s[2]].dist  BY DEF Joined
  <2>3. \A s \in Ts : R[s[2]].dist \in Nat /\ (s \notin Ss => R[s[2]].dist = 15)
    BY <1>3, <1>4 DEF Known, KnownAt, IsEntry, TooFar
  <2>4. S \in SUBSET T  BY <1>4, <2>1
  <2>5. ASSUME NEW f \in T  PROVE f.dist \in Nat /\ (f \notin S => f.dist >= 15)
    <3>1. PICK s \in Ts : f = Joined(L[s[1]], R[s[2]])  BY <2>1
    <3>2. L[s[1]].dist \in Nat  BY <1>3, <1>5
    <3>3. f \notin S => s \notin Ss  BY <2>1, <3>1
    <3>. QED  BY <2>2, <2>3, <3>1, <3>2, <3>3
  <2>6. PICK e0 \in S : e0.dist <= 14
    <3>1. PICK e0 : e0 = Joined(L[s0[1]], R[s0[2]])  OBVIOUS
    <3>2. e0 \in S /\ e0.dist = L[n].dist + R[0].dist  BY <1>9, <2>1, <2>2, <3>1
    <3>. QED  BY <1>11, <3>2
  <2>7. \A f \in T \ S : e0.dist < f.dist  BY <2>4, <2>5, <2>6
  <2>8. Nearest(S) = Nearest(T)  BY <2>4, <2>5, <2>7, NearestSame
  <2>9. e = Nearest(T)  BY <1>1, <2>1, Zenon DEF add2
  <2>. QED  BY <2>1, <2>8, <2>9 DEF NearestOf
<1>13. IsEntry(e, b, X \cup Y, GluedBy(F, G, X, Y, Ss)) /\ \A s \in Ss : e.dist <= L[s[1]].dist + R[s[2]].dist
  BY ONLY <1>7, <1>10, <1>12, NearestDistance
<1>14. HasTiles(e, 0, b, X \cup Y, GluedBy(F, G, X, Y, Ss))
  <2>1. 0 \in Int /\ 0 + 9 = 9  OBVIOUS
  <2>2. \A s \in Ss : HasTiles(L[s[1]], 0 + 9, b, X, F[s[1]]) /\ HasTiles(R[s[2]], 0, b, Y, G[s[2]])
    BY <1>3, <1>4, <1>5, <1>6, <2>1 DEF KnownAt
  <2>. QED  BY ONLY <1>7, <1>10, <1>12, <2>1, <2>2, NearestTiles
<1>15. e.dist <= 14
  <2>1. e.dist <= L[n].dist + 0 /\ e.dist \in Nat  BY <1>9, <1>11, <1>13 DEF IsEntry
  <2>. QED  BY <1>11, <2>1
<1>. QED  BY <1>1, <1>13, <1>14, <1>15

-----------------------------------------------------------------------------
(* What the calculator of regular hands finds.                             *)

\* The patterns of the tiles from pinzu up, and of all tiles in play.
Above(m) == Joint(Joint(HonorShapes(m), SuitShapes(18, m), 27..33, 18..26, m), SuitShapes(9, m), 18..33, 9..17, m)
ManzuTiles(mode) == IF mode = Sanma THEN {0, 8} ELSE 0..8
ManzuShapes(mode, m) == IF mode = Sanma THEN SanmaShapes ELSE SuitShapes(0, m)
ManzuIndices(mode, m) == IF mode = Sanma THEN SanmaIndices ELSE Indices(m)
InPlay(mode) == (9..33) \cup ManzuTiles(mode)
OpenShapes(mode, m) ==
  GluedBy(Above(m), ManzuShapes(mode, m), 9..33, ManzuTiles(mode), SplitsIn(5 + m, ManzuIndices(mode, m)))

LEMMA AboveFinds ==
  ASSUME NEW b, IsCounts(b, 0..33), NEW m \in 0..4, LooksUp(b, m),
         NEW honors, honors = honors_table[<<Counts(b, East, 7), m>>],
         NEW souzu, souzu = suits_table[<<Counts(b, 18, 9), m>>],
         NEW pinzu, pinzu = suits_table[<<Counts(b, 9, 9), m>>],
         NEW L, L = add1(add1(honors, souzu, m), pinzu, m)
  PROVE  Finds(L, b, 9, 9..33, Above(m), m) /\ \A i \in Indices(m) : L[i].dist <= 14
<1>1. /\ Area(East, 7) = 27..33 /\ Area(18, 9) = 18..26 /\ Area(9, 9) = 9..17
      /\ (27..33) \cup (18..26) = 18..33 /\ (18..33) \cup (9..17) = 9..33
  BY Unions
<1>2. \A o \in {0, 9, 18} : /\ Finds(suits_table[<<Counts(b, o, 9), m>>], b, o, Area(o, 9), SuitShapes(o, m), m)
                            /\ IsNear(suits_table[<<Counts(b, o, 9), m>>], m)
  BY SuitFinds DEF LooksUp
<1>3. /\ Finds(souzu, b, 18, 18..26, SuitShapes(18, m), m) /\ IsNear(souzu, m)
      /\ Finds(pinzu, b, 9, 9..17, SuitShapes(9, m), m) /\ IsNear(pinzu, m)
  BY <1>1, <1>2
<1>4. Finds(honors, b, 18 + 9, 27..33, HonorShapes(m), m) /\ IsNear(honors, m)
  <2>1. Finds(honors, b, East, Area(East, 7), HonorShapes(m), m) /\ IsNear(honors, m)  BY HonorFinds DEF LooksUp
  <2>2. East = 18 + 9  BY DEF East
  <2>. QED  BY <1>1, <2>1, <2>2
<1>5. Apart(27..33, 18..26) /\ Apart(18..33, 9..17)  BY DEF Apart
<1>6. PICK h, H : h = add1(honors, souzu, m) /\ H = Joint(HonorShapes(m), SuitShapes(18, m), 27..33, 18..26, m)
  OBVIOUS
<1>7. Finds(h, b, 9 + 9, 18..33, H, m) /\ \A i \in Indices(m) : h[i].dist <= honors[i].dist
  <2>1. /\ Finds(h, b, 18, (27..33) \cup (18..26), H, m)
        /\ \A i \in Indices(m) : h[i].dist <= honors[i].dist
    <3>1. 18 \in Int /\ m \in 0..4  OBVIOUS
    <3>. QED  BY ONLY <1>3, <1>4, <1>5, <1>6, <3>1, JoinedFinds, Zenon
  <2>2. 9 + 9 = 18  OBVIOUS
  <2>. QED  BY <1>1, <2>1, <2>2
<1>8. /\ Finds(L, b, 9, (18..33) \cup (9..17), Joint(H, SuitShapes(9, m), 18..33, 9..17, m), m)
      /\ \A i \in Indices(m) : L[i].dist <= h[i].dist
  <2>1. 9 \in Int /\ m \in 0..4 /\ L = add1(h, pinzu, m)  BY <1>6
  <2>. QED  BY ONLY <1>3, <1>5, <1>7, <2>1, JoinedFinds, Zenon
<1>9. Finds(L, b, 9, 9..33, Above(m), m)  BY <1>1, <1>6, <1>8 DEF Above
<1>10. ASSUME NEW i \in Indices(m)  PROVE L[i].dist <= 14
  <2>1. L[i].dist <= h[i].dist /\ h[i].dist <= honors[i].dist  BY <1>7, <1>8
  <2>2. honors[i].dist <= 14  BY <1>4 DEF IsNear
  <2>3. L[i].dist \in Nat /\ h[i].dist \in Nat /\ honors[i].dist \in Nat
    BY <1>4, <1>7, <1>9 DEF Finds, Region, IsEntry
  <2>. QED  BY <2>1, <2>2, <2>3
<1>. QED  BY <1>9, <1>10

\* The manzu of either number of players.
LEMMA ManzuKnown ==
  ASSUME NEW b, IsCounts(b, 0..33), b[0] \in 0..4, b[8] \in 0..4, NEW m \in 0..4, LooksUp(b, m), NEW mode,
         NEW Y, Y = ManzuTiles(mode)
  PROVE  /\ IsFiniteSet(Y) /\ IsCounts(b, Y) /\ Apart(9..33, Y)
         /\ Known(Manzu(b, m, mode), b, Y, ManzuShapes(mode, m), m, ManzuIndices(mode, m))
<1>1. CASE mode = Sanma
  <2>1. Y = {0, 8} /\ ManzuShapes(mode, m) = SanmaShapes /\ ManzuIndices(mode, m) = SanmaIndices
    BY <1>1 DEF ManzuTiles, ManzuShapes, ManzuIndices
  <2>2. IsFiniteSet(Y)
    <3>1. PICK x, y : x = 0 /\ y = 8  OBVIOUS
    <3>2. IsFiniteSet({x}) /\ IsFiniteSet({y})  BY FS_Singleton
    <3>3. IsFiniteSet({x} \cup {y})  BY <3>2, FS_Union
    <3>4. {x} \cup {y} = Y  BY <2>1, <3>1
    <3>. QED  BY <3>3, <3>4
  <2>3. IsCounts(b, Y) /\ Apart(9..33, Y)  BY <2>1 DEF IsCounts, Apart
  <2>4. PICK R : R = Manzu(b, m, mode)  OBVIOUS
  <2>5. RowFinds(R, b[0], b[8])  BY <1>1, <2>4, SanmaTable DEF Manzu
  <2>6. \A i \in SanmaIndices : KnownAt(R, b, Y, SanmaShapes, i) /\ (i = 0 => R[i].dist = 0)
    BY <2>1, <2>3, <2>5, SanmaFinds DEF RowFinds, KnownAt
  <2>7. \A i \in Indices(m) \ SanmaIndices : R[i].dist = TooFar
    <3>1. Indices(m) \subseteq Indices(4)  BY DEF Indices
    <3>. QED  BY <2>5, <3>1 DEF RowFinds, Cell
  <2>8. 0 \in SanmaIndices  BY DEF SanmaIndices
  <2>9. Known(R, b, Y, SanmaShapes, m, SanmaIndices)  BY <2>6, <2>7, <2>8 DEF Known
  <2>. QED  BY <2>1, <2>2, <2>3, <2>4, <2>9
<1>2. CASE mode # Sanma
  <2>1. Y = 0..8 /\ ManzuShapes(mode, m) = SuitShapes(0, m) /\ ManzuIndices(mode, m) = Indices(m)
    BY <1>2 DEF ManzuTiles, ManzuShapes, ManzuIndices
  <2>2. PICK R : R = Manzu(b, m, mode)  OBVIOUS
  <2>3. R = suits_table[<<Counts(b, 0, 9), m>>]  BY <1>2, <2>2 DEF Manzu
  <2>4. Finds(R, b, 0, Y, SuitShapes(0, m), m) /\ IsNear(R, m)
    <3>1. 0 \in {0, 9, 18} /\ Area(0, 9) = 0..8  BY Unions
    <3>. QED  BY <2>1, <2>3, <3>1, SuitFinds DEF LooksUp
  <2>5. IsFiniteSet(Y) /\ IsCounts(b, Y)  BY <2>4 DEF Finds, Region
  <2>6. Apart(9..33, Y)  BY <2>1 DEF Apart
  <2>7. \A i \in Indices(m) : KnownAt(R, b, Y, SuitShapes(0, m), i)  BY <2>4 DEF Finds, Region, KnownAt
  <2>8. 0 \in Indices(m)  BY IndicesIn
  <2>9. Known(R, b, Y, SuitShapes(0, m), m, Indices(m))  BY <2>4, <2>7, <2>8 DEF Known, IsNear
  <2>. QED  BY <2>1, <2>2, <2>5, <2>6, <2>9
<1>. QED  BY <1>1, <1>2

\* What the calculator finds of a regular hand.
IsFound(r, e, b, X, F) ==
  r = Found(e) /\ IsEntry(e, b, X, F) /\ HasTiles(e, 0, b, X, F) /\ e.dist <= 14

LEMMA RegularFinds ==
  ASSUME NEW b, IsCounts(b, 0..33), b[0] \in 0..4, b[8] \in 0..4, NEW n \in 0..4, LooksUp(b, 4 - n), NEW mode
  PROVE  \E e : IsFound(calc_regular(b, n, mode), e, b, InPlay(mode), OpenShapes(mode, 4 - n))
<1>1. PICK m \in 0..4 : m = 4 - n  OBVIOUS
<1>2. PICK honors : honors = honors_table[<<Counts(b, East, 7), m>>]  OBVIOUS
<1>3. PICK souzu : souzu = suits_table[<<Counts(b, 18, 9), m>>]  OBVIOUS
<1>4. PICK pinzu : pinzu = suits_table[<<Counts(b, 9, 9), m>>]  OBVIOUS
<1>5. PICK L : L = add1(add1(honors, souzu, m), pinzu, m)  OBVIOUS
<1>6. Finds(L, b, 9, 9..33, Above(m), m) /\ \A i \in Indices(m) : L[i].dist <= 14
  <2>1. LooksUp(b, m)  BY <1>1
  <2>. QED  BY ONLY IsCounts(b, 0..33), m \in 0..4, <1>2, <1>3, <1>4, <1>5, <2>1, AboveFinds, Zenon
<1>7. PICK R, Y, G, K : R = Manzu(b, m, mode) /\ Y = ManzuTiles(mode) /\ G = ManzuShapes(mode, m) /\ K = ManzuIndices(mode, m)
  OBVIOUS
<1>8. IsFiniteSet(Y) /\ IsCounts(b, Y) /\ Apart(9..33, Y) /\ Known(R, b, Y, G, m, K)
  BY <1>1, <1>7, ManzuKnown
<1>9. PICK e : e = add2(L, R, 5 + m)  OBVIOUS
<1>10. /\ IsEntry(e, b, (9..33) \cup Y, GluedBy(Above(m), G, 9..33, Y, SplitsIn(5 + m, K)))
       /\ HasTiles(e, 0, b, (9..33) \cup Y, GluedBy(Above(m), G, 9..33, Y, SplitsIn(5 + m, K)))
       /\ e.dist <= 14
  BY <1>6, <1>8, <1>9, LastJoin
<1>11. (9..33) \cup Y = InPlay(mode) /\ GluedBy(Above(m), G, 9..33, Y, SplitsIn(5 + m, K)) = OpenShapes(mode, m)
  BY <1>7, Zenon DEF InPlay, OpenShapes
<1>12. calc_regular(b, n, mode)
         = Found(add2(add1(add1(honors_table[<<Counts(b, East, 7), m>>], suits_table[<<Counts(b, 18, 9), m>>], m),
                           suits_table[<<Counts(b, 9, 9), m>>], m), Manzu(b, m, mode), 5 + m))
  BY <1>1, Zenon DEF calc_regular
<1>13. calc_regular(b, n, mode) = Found(e)  BY <1>2, <1>3, <1>4, <1>5, <1>7, <1>9, <1>12, Zenon
<1>. QED  BY <1>1, <1>10, <1>11, <1>13 DEF IsFound

-----------------------------------------------------------------------------
(* A tile drawn or discarded.                                              *)

\* Of the tiles X, c has one k more than b.
Drawn(b, c, k, X) ==
  /\ IsFiniteSet(X) /\ k \in X /\ IsCounts(b, X) /\ IsCounts(c, X)
  /\ c[k] = b[k] + 1
  /\ \A j \in X \ {k} : c[j] = b[j]

LEMMA AwayDrawn ==
  ASSUME NEW X, NEW b, NEW c, NEW k, Drawn(b, c, k, X), NEW w \in Patterns4(X)
  PROVE  /\ Away(b, w, X) \in Nat /\ Away(c, w, X) \in Nat /\ w[k] \in Nat
         /\ Away(b, w, X) = Away(c, w, X) + (IF w[k] > b[k] THEN 1 ELSE 0)
<1>1. IsFiniteSet(X) /\ k \in X /\ IsCounts(b, X) /\ IsCounts(c, X) /\ c[k] = b[k] + 1  BY DEF Drawn
<1>2. IsPattern(w, X)  BY DEF IsPattern, Patterns4
<1>3. PICK Y : Y = X \ {k}  OBVIOUS
<1>4. Away(b, w, Y) = Away(c, w, Y)  BY <1>3, CellsSame DEF Drawn
<1>5. /\ Away(b, w, X) = (IF w[k] > b[k] THEN w[k] - b[k] ELSE 0) + Away(b, w, Y)
      /\ Away(c, w, X) = (IF w[k] > c[k] THEN w[k] - c[k] ELSE 0) + Away(c, w, Y)
  BY <1>1, <1>2, <1>3, AwayLess
<1>6. Away(b, w, X) \in Nat /\ Away(c, w, X) \in Nat  BY <1>1, <1>2, CellsFinite
<1>7. Away(b, w, Y) \in Nat
  <2>1. IsFiniteSet(Y)  BY <1>1, <1>3, FS_Subset
  <2>2. IsCounts(b, Y) /\ IsPattern(w, Y)  BY <1>1, <1>2, <1>3 DEF IsCounts, IsPattern
  <2>. QED  BY <2>1, <2>2, CellsFinite
<1>8. w[k] \in Nat /\ b[k] \in Nat  BY <1>1, <1>2 DEF IsPattern, IsCounts
<1>. QED  BY <1>1, <1>4, <1>5, <1>6, <1>7, <1>8

\* A tile brings the hand nearer exactly if it is wanted.
LEMMA DrawnEntry ==
  ASSUME NEW X, NEW F, F \subseteq Patterns4(X), NEW b, NEW c, NEW k, Drawn(b, c, k, X),
         NEW e, IsEntry(e, b, X, F), NEW f, IsEntry(f, c, X, F)
  PROVE  f.dist = e.dist - (IF Wanted(e, b, X, F, k) THEN 1 ELSE 0)
<1>1. \A w \in F : /\ Away(b, w, X) \in Nat /\ Away(c, w, X) \in Nat
                   /\ Away(b, w, X) = Away(c, w, X) + (IF w[k] > b[k] THEN 1 ELSE 0)
  BY AwayDrawn
<1>2. PICK u \in F : e.dist = Away(b, u, X)  BY DEF IsEntry
<1>3. PICK v \in F : f.dist = Away(c, v, X)  BY DEF IsEntry
<1>4. e.dist \in Nat /\ f.dist \in Nat /\ e.dist <= Away(b, v, X) /\ \A w \in F : f.dist <= Away(c, w, X)
  BY DEF IsEntry
<1>5. k \in X  BY DEF Drawn
<1>6. CASE Wanted(e, b, X, F, k)
  <2>1. PICK w \in F : e.dist = Away(b, w, X) /\ w[k] > b[k]  BY <1>6 DEF Wanted
  <2>2. e.dist = Away(c, w, X) + 1 /\ Away(c, w, X) \in Nat  BY <1>1, <2>1
  <2>3. f.dist <= e.dist - 1  BY <1>4, <2>2
  <2>4. Away(b, v, X) <= f.dist + 1  BY <1>1, <1>3
  <2>5. Away(b, v, X) \in Nat  BY <1>1
  <2>6. f.dist = e.dist - 1  BY <1>4, <2>3, <2>4, <2>5
  <2>. QED  BY <1>6, <2>6
<1>7. CASE ~Wanted(e, b, X, F, k)
  <2>1. \A w \in F : e.dist = Away(b, w, X) => ~(w[k] > b[k])  BY <1>5, <1>7 DEF Wanted
  <2>2. Away(c, u, X) = e.dist  BY <1>1, <1>2, <2>1
  <2>3. f.dist <= e.dist  BY <1>4, <2>2
  <2>4. e.dist <= f.dist
    <3>1. CASE e.dist = Away(b, v, X)  BY <1>1, <1>3, <1>4, <2>1, <3>1
    <3>2. CASE e.dist # Away(b, v, X)
      <4>1. Away(b, v, X) \in Nat /\ Away(b, v, X) <= f.dist + 1  BY <1>1, <1>3
      <4>. QED  BY <1>4, <3>2, <4>1
    <3>. QED  BY <3>1, <3>2
  <2>5. f.dist = e.dist  BY <1>4, <2>3, <2>4
  <2>. QED  BY <1>4, <1>7, <2>5
<1>. QED  BY <1>6, <1>7

\* Without a tile the hand is as near as before exactly if the tile is to spare.
LEMMA DiscardedEntry ==
  ASSUME NEW X, NEW F, F \subseteq Patterns4(X), NEW b, NEW c, NEW k, Drawn(c, b, k, X),
         NEW e, IsEntry(e, b, X, F), NEW f, IsEntry(f, c, X, F)
  PROVE  f.dist = e.dist + (IF Spare(e, b, X, F, k) THEN 0 ELSE 1)
<1>1. \A w \in F : /\ Away(b, w, X) \in Nat /\ Away(c, w, X) \in Nat
                   /\ Away(c, w, X) = Away(b, w, X) + (IF w[k] < b[k] THEN 0 ELSE 1)
  <2>1. ASSUME NEW w \in F
        PROVE  /\ Away(b, w, X) \in Nat /\ Away(c, w, X) \in Nat
               /\ Away(c, w, X) = Away(b, w, X) + (IF w[k] < b[k] THEN 0 ELSE 1)
    <3>1. w \in Patterns4(X)  OBVIOUS
    <3>2. /\ Away(c, w, X) \in Nat /\ Away(b, w, X) \in Nat /\ w[k] \in Nat
          /\ Away(c, w, X) = Away(b, w, X) + (IF w[k] > c[k] THEN 1 ELSE 0)
      BY <3>1, AwayDrawn
    <3>3. b[k] = c[k] + 1 /\ c[k] \in Nat  BY DEF Drawn, IsCounts
    <3>4. w[k] > c[k] <=> ~(w[k] < b[k])  BY <3>2, <3>3
    <3>. QED  BY <3>2, <3>4
  <2>. QED  BY <2>1
<1>2. PICK u \in F : e.dist = Away(b, u, X)  BY DEF IsEntry
<1>3. PICK v \in F : f.dist = Away(c, v, X)  BY DEF IsEntry
<1>4. e.dist \in Nat /\ f.dist \in Nat /\ e.dist <= Away(b, v, X) /\ \A w \in F : f.dist <= Away(c, w, X)
  BY DEF IsEntry
<1>5. k \in X  BY DEF Drawn
<1>6. e.dist <= f.dist  BY <1>1, <1>3, <1>4
<1>7. CASE Spare(e, b, X, F, k)
  <2>1. PICK w \in F : e.dist = Away(b, w, X) /\ w[k] < b[k]  BY <1>7 DEF Spare
  <2>2. e.dist = Away(c, w, X)  BY <1>1, <2>1
  <2>3. f.dist <= e.dist  BY <1>4, <2>2
  <2>4. f.dist = e.dist  BY <1>4, <1>6, <2>3
  <2>. QED  BY <1>4, <1>7, <2>4
<1>8. CASE ~Spare(e, b, X, F, k)
  <2>1. \A w \in F : e.dist = Away(b, w, X) => ~(w[k] < b[k])  BY <1>5, <1>8 DEF Spare
  <2>2. Away(c, u, X) = e.dist + 1  BY <1>1, <1>2, <2>1
  <2>3. f.dist <= e.dist + 1  BY <1>4, <2>2
  <2>4. e.dist + 1 <= f.dist
    <3>1. CASE e.dist = Away(b, v, X)
      <4>1. ~(v[k] < b[k])  BY <2>1, <3>1
      <4>2. Away(c, v, X) = Away(b, v, X) + 1  BY <1>1, <4>1
      <4>. QED  BY <1>3, <1>4, <3>1, <4>2
    <3>2. CASE e.dist # Away(b, v, X)
      <4>1. Away(b, v, X) \in Nat /\ Away(b, v, X) <= f.dist  BY <1>1, <1>3
      <4>. QED  BY <1>4, <3>2, <4>1
    <3>. QED  BY <3>1, <3>2
  <2>5. f.dist = e.dist + 1  BY <1>4, <2>3, <2>4
  <2>. QED  BY <1>8, <2>5
<1>. QED  BY <1>7, <1>8

-----------------------------------------------------------------------------
\* What an answer r says of the tile k, and what is true if q is the answer with it moved.
Moving(r, q, k, drawing) ==
  q.shanten = IF drawing THEN r.shanten - (IF k \in r.wait THEN 1 ELSE 0)
              ELSE r.shanten + (IF k \in r.disc THEN 0 ELSE 1)
Moves(b, c, k, X, drawing) == IF drawing THEN Drawn(b, c, k, X) ELSE Drawn(c, b, k, X)
Bounded(r) == r.shanten \in Int /\ r.shanten < 100

LEMMA FoundMoves ==
  ASSUME NEW X, X \subseteq Int, NEW F, F \subseteq Patterns4(X), NEW b, NEW c, NEW k, NEW drawing, Moves(b, c, k, X, drawing),
         NEW r, NEW q, NEW e, NEW f, IsFound(r, e, b, X, F), IsFound(q, f, c, X, F)
  PROVE  Moving(r, q, k, drawing) /\ Bounded(r) /\ Bounded(q)
<1>1. /\ r.shanten = e.dist - 1 /\ r.wait = e.wait /\ r.disc = e.disc /\ q.shanten = f.dist - 1
      /\ e.dist \in Nat /\ f.dist \in Nat /\ e.dist <= 14 /\ f.dist <= 14
  BY DEF IsFound, Found, IsEntry
<1>2. k \in X  BY DEF Moves, Drawn
<1>3. k \in Int /\ k + 0 = k  BY <1>2
<1>4. (k \in r.wait <=> Wanted(e, b, X, F, k)) /\ (k \in r.disc <=> Spare(e, b, X, F, k))
  BY <1>1, <1>3 DEF IsFound, HasTiles
<1>5. IsEntry(e, b, X, F) /\ IsEntry(f, c, X, F)  BY DEF IsFound
<1>6. CASE drawing
  <2>1. Drawn(b, c, k, X)  BY <1>6 DEF Moves
  <2>2. f.dist = e.dist - (IF Wanted(e, b, X, F, k) THEN 1 ELSE 0)  BY <1>5, <2>1, DrawnEntry
  <2>. QED  BY <1>1, <1>4, <1>6, <2>2 DEF Moving, Bounded
<1>7. CASE ~drawing
  <2>1. Drawn(c, b, k, X)  BY <1>7 DEF Moves
  <2>2. f.dist = e.dist + (IF Spare(e, b, X, F, k) THEN 0 ELSE 1)  BY <1>5, <2>1, DiscardedEntry
  <2>. QED  BY <1>1, <1>4, <1>7, <2>2 DEF Moving, Bounded
<1>. QED  BY <1>6, <1>7

\* The nearest of several answers.
NoneFound == [shanten |-> 100, wait |-> {}, disc |-> {}]
Merged(near) == [shanten |-> Chosen(near).shanten,
                 wait |-> UNION {r.wait : r \in near}, disc |-> UNION {r.disc : r \in near}]
Of2(r, q) == Merged(Closest({r, q} \cup {NoneFound}))

LEMMA OfTwo ==
  ASSUME NEW r, NEW q, Bounded(r), Bounded(q), NEW a, a = Of2(r, q)
  PROVE  /\ a.shanten = IF r.shanten <= q.shanten THEN r.shanten ELSE q.shanten
         /\ \A j : j \in a.wait <=> (r.shanten <= q.shanten /\ j \in r.wait) \/ (q.shanten <= r.shanten /\ j \in q.wait)
         /\ \A j : j \in a.disc <=> (r.shanten <= q.shanten /\ j \in r.disc) \/ (q.shanten <= r.shanten /\ j \in q.disc)
<1>1. PICK S : S = {r, q} \cup {NoneFound}  OBVIOUS
<1>2. PICK N : N = Closest(S)  OBVIOUS
<1>3. NoneFound.shanten = 100  BY DEF NoneFound
<1>4. \A x : x \in N <=> x \in S /\ \A y \in S : x.shanten <= y.shanten  BY <1>2 DEF Closest
<1>5. \A x : x \in N <=> (x = r /\ r.shanten <= q.shanten) \/ (x = q /\ q.shanten <= r.shanten)
  BY <1>1, <1>3, <1>4 DEF Bounded
<1>6. a = Merged(N)  BY <1>1, <1>2, Zenon DEF Of2
<1>7. N # {}  BY <1>5 DEF Bounded
<1>8. PICK x \in N : a.shanten = x.shanten
  <2>1. a.shanten = Chosen(N).shanten  BY <1>6 DEF Merged
  <2>. QED  BY <1>7, <2>1, ChosenIn
<1>9. a.shanten = IF r.shanten <= q.shanten THEN r.shanten ELSE q.shanten  BY <1>5, <1>8 DEF Bounded
<1>10. \A j : j \in a.wait <=> \E y \in N : j \in y.wait  BY <1>6 DEF Merged
<1>11. \A j : j \in a.disc <=> \E y \in N : j \in y.disc  BY <1>6 DEF Merged
<1>. QED  BY <1>5, <1>9, <1>10, <1>11

LEMMA TwoMove ==
  ASSUME NEW r, NEW q, NEW s, NEW t, Bounded(r), Bounded(q), Bounded(s), Bounded(t), NEW k, NEW drawing,
         Moving(r, s, k, drawing), Moving(q, t, k, drawing)
  PROVE  Moving(Of2(r, q), Of2(s, t), k, drawing)
<1>1. PICK a, d : a = Of2(r, q) /\ d = Of2(s, t)  OBVIOUS
<1>2. /\ a.shanten = IF r.shanten <= q.shanten THEN r.shanten ELSE q.shanten
      /\ k \in a.wait <=> (r.shanten <= q.shanten /\ k \in r.wait) \/ (q.shanten <= r.shanten /\ k \in q.wait)
      /\ k \in a.disc <=> (r.shanten <= q.shanten /\ k \in r.disc) \/ (q.shanten <= r.shanten /\ k \in q.disc)
  BY <1>1, OfTwo
<1>3. d.shanten = IF s.shanten <= t.shanten THEN s.shanten ELSE t.shanten  BY <1>1, OfTwo
<1>4. r.shanten \in Int /\ q.shanten \in Int /\ s.shanten \in Int /\ t.shanten \in Int  BY DEF Bounded
<1>5. Moving(a, d, k, drawing)
  <2>1. CASE drawing  BY <1>2, <1>3, <1>4, <2>1 DEF Moving
  <2>2. CASE ~drawing  BY <1>2, <1>3, <1>4, <2>2 DEF Moving
  <2>. QED  BY <2>1, <2>2
<1>. QED  BY <1>1, <1>5

-----------------------------------------------------------------------------
(* Seven pairs and thirteen orphans.                                       *)

\* The tiles of which there are at least n.
AtLeast(b, P, n) == {j \in P : b[j] >= n}
NumAtLeast(b, P, n) == Cardinality(AtLeast(b, P, n))

LEMMA AtLeastFinite ==
  ASSUME NEW P, IsFiniteSet(P), NEW b, NEW n
  PROVE  IsFiniteSet(AtLeast(b, P, n)) /\ NumAtLeast(b, P, n) \in Nat
<1>1. AtLeast(b, P, n) \in SUBSET P  BY DEF AtLeast
<1>2. IsFiniteSet(AtLeast(b, P, n))  BY <1>1, FS_Subset
<1>. QED  BY <1>2, FS_CardinalityType DEF NumAtLeast

Adds(k, P, b, n) == IF k \in P /\ b[k] = n - 1 THEN 1 ELSE 0

\* One more tile is one more kind of which there are n, or none.
LEMMA DrawnCounts ==
  ASSUME NEW b, NEW c, NEW k, NEW X, Drawn(b, c, k, X), NEW P \in SUBSET X, NEW n \in {1, 2}
  PROVE  NumAtLeast(c, P, n) = NumAtLeast(b, P, n) + Adds(k, P, b, n)
<1>1. IsFiniteSet(P)  BY FS_Subset DEF Drawn
<1>2. PICK A, B : A = AtLeast(b, P, n) /\ B = AtLeast(c, P, n)  OBVIOUS
<1>3. IsFiniteSet(A) /\ Cardinality(A) \in Nat  BY <1>1, <1>2, AtLeastFinite DEF NumAtLeast
<1>4. \A j \in P : b[j] \in Nat /\ c[j] = IF j = k THEN b[j] + 1 ELSE b[j]  BY DEF Drawn, IsCounts
<1>5. CASE k \in P /\ b[k] = n - 1
  <2>1. B = A \cup {k} /\ k \notin A  BY <1>2, <1>4, <1>5 DEF AtLeast
  <2>2. Cardinality(B) = Cardinality(A) + 1  BY <1>3, <2>1, FS_AddElement
  <2>. QED  BY <1>2, <1>5, <2>2 DEF NumAtLeast, Adds
<1>6. CASE ~(k \in P /\ b[k] = n - 1)
  <2>1. B = A
    <3>1. \A j \in P : b[j] >= n <=> c[j] >= n  BY <1>4, <1>6
    <3>. QED  BY <1>2, <3>1 DEF AtLeast
  <2>. QED  BY <1>2, <1>3, <1>6, <2>1 DEF NumAtLeast, Adds
<1>. QED  BY <1>5, <1>6

CountedIn(b, c, k, P) ==
  /\ NumAtLeast(c, P, 2) = NumAtLeast(b, P, 2) + Adds(k, P, b, 2)
  /\ NumAtLeast(c, P, 1) = NumAtLeast(b, P, 1) + Adds(k, P, b, 1)

LEMMA DrawnPairs ==
  ASSUME NEW b, NEW c, NEW k, NEW X, Drawn(b, c, k, X), NEW P \in SUBSET X
  PROVE  CountedIn(b, c, k, P)
<1>1. \A n \in {1, 2} : NumAtLeast(c, P, n) = NumAtLeast(b, P, n) + Adds(k, P, b, n)
  BY DrawnCounts
<1>. QED  BY <1>1 DEF CountedIn

LEMMA MaxOf ==
  ASSUME NEW n \in Int
  PROVE  Max({0, n}) = IF n > 0 THEN n ELSE 0
<1>1. PICK S : S = {0, n}  OBVIOUS
<1>2. \E x \in S : \A y \in S : x >= y  BY <1>1
<1>3. Max(S) \in S /\ \A y \in S : Max(S) >= y  BY <1>2 DEF Max
<1>. QED  BY <1>1, <1>3

\* Seven pairs.
Playable(mode) == {k \in Kinds : mode = Sanma => ~is_sanma_disabled(k)}

LEMMA SevenPairsAre ==
  ASSUME NEW b, IsCounts(b, 0..33), NEW mode, NEW P, P = Playable(mode), NEW r, r = calc_seven_pairs(b, mode),
         NEW p, p = NumAtLeast(b, P, 2), NEW t, t = NumAtLeast(b, P, 1), NEW k \in P
  PROVE  /\ p \in Nat /\ t \in Nat
         /\ r.shanten = 6 - p + (IF t < 7 THEN 7 - t ELSE 0)
         /\ k \in r.wait <=> IF t < 7 THEN b[k] \in {0, 1} ELSE b[k] = 1 /\ p # 7
         /\ k \in r.disc <=> b[k] >= 3 \/ (t > 7 /\ b[k] = 1)
<1>1. IsFiniteSet(Kinds) /\ IsFiniteSet(P)
  <2>1. PICK l, h : l = 0 /\ h = 33 /\ l \in Int /\ h \in Int  OBVIOUS
  <2>2. IsFiniteSet(l..h)  BY <2>1, FS_Interval
  <2>3. P \in SUBSET Kinds  BY DEF Playable
  <2>. QED  BY <2>1, <2>2, <2>3, FS_Subset DEF Kinds
<1>2. p \in Nat /\ t \in Nat  BY <1>1, AtLeastFinite
<1>3. \A j \in P : b[j] \in Nat  BY DEF Playable, Kinds, IsCounts
<1>4. PICK pairs, singles, absent, excess :
        /\ pairs = {j \in P : b[j] >= 2} /\ singles = {j \in P : b[j] = 1}
        /\ absent = {j \in P : b[j] = 0} /\ excess = {j \in P : b[j] >= 3}
  OBVIOUS
<1>5. r = [shanten |-> 6 - Cardinality(pairs) + Max({0, 7 - Cardinality(pairs \cup singles)}),
           wait |-> IF Cardinality(pairs \cup singles) < 7 THEN absent \cup singles
                    ELSE IF Cardinality(pairs) = 7 THEN {} ELSE singles,
           disc |-> IF Cardinality(pairs \cup singles) > 7 THEN singles \cup excess ELSE excess]
  BY <1>4, Zenon DEF calc_seven_pairs, Playable
<1>6. pairs = AtLeast(b, P, 2)  BY <1>4 DEF AtLeast
<1>7. pairs \cup singles = AtLeast(b, P, 1)  BY <1>3, <1>4 DEF AtLeast
<1>8. Cardinality(pairs) = p /\ Cardinality(pairs \cup singles) = t  BY <1>6, <1>7, Zenon DEF NumAtLeast
<1>9. Max({0, 7 - t}) = IF t < 7 THEN 7 - t ELSE 0  BY <1>2, MaxOf
<1>10. r.shanten = 6 - p + (IF t < 7 THEN 7 - t ELSE 0)  BY <1>5, <1>8, <1>9
<1>11. /\ k \in pairs <=> b[k] >= 2
       /\ k \in singles <=> b[k] = 1
       /\ k \in absent <=> b[k] = 0
       /\ k \in excess <=> b[k] >= 3
  BY <1>4
<1>12. k \in r.wait <=> IF t < 7 THEN b[k] \in {0, 1} ELSE b[k] = 1 /\ p # 7  BY <1>5, <1>8, <1>11
<1>13. k \in r.disc <=> b[k] >= 3 \/ (t > 7 /\ b[k] = 1)  BY <1>5, <1>8, <1>11
<1>. QED  BY <1>2, <1>10, <1>12, <1>13

LEMMA SevenPairsMove ==
  ASSUME NEW b, IsCounts(b, 0..33), NEW c, IsCounts(c, 0..33), NEW mode, NEW P, P = Playable(mode),
         NEW k \in P, NEW drawing, Moves(b, c, k, 0..33, drawing), drawing => NumAtLeast(b, P, 2) # 7,
         NEW r, r = calc_seven_pairs(b, mode), NEW q, q = calc_seven_pairs(c, mode)
  PROVE  Moving(r, q, k, drawing) /\ Bounded(r) /\ Bounded(q)
<1>1. P \in SUBSET (0..33)  BY DEF Playable, Kinds
<1>2. PICK p, t, s, u : /\ p = NumAtLeast(b, P, 2) /\ t = NumAtLeast(b, P, 1)
                        /\ s = NumAtLeast(c, P, 2) /\ u = NumAtLeast(c, P, 1)
  OBVIOUS
<1>3. /\ p \in Nat /\ t \in Nat
      /\ r.shanten = 6 - p + (IF t < 7 THEN 7 - t ELSE 0)
      /\ k \in r.wait <=> IF t < 7 THEN b[k] \in {0, 1} ELSE b[k] = 1 /\ p # 7
      /\ k \in r.disc <=> b[k] >= 3 \/ (t > 7 /\ b[k] = 1)
  BY <1>2, SevenPairsAre
<1>4. s \in Nat /\ u \in Nat /\ q.shanten = 6 - s + (IF u < 7 THEN 7 - u ELSE 0)
  BY <1>2, SevenPairsAre
<1>5. Bounded(r) /\ Bounded(q)  BY <1>3, <1>4 DEF Bounded
<1>6. b[k] \in Nat /\ c[k] \in Nat  BY <1>1 DEF IsCounts
<1>8. CASE drawing
  <2>1. Drawn(b, c, k, 0..33)  BY <1>8 DEF Moves
  <2>2. s = p + Adds(k, P, b, 2) /\ u = t + Adds(k, P, b, 1)
    BY <1>1, <1>2, <2>1, DrawnPairs DEF CountedIn
  <2>. QED  BY <1>2, <1>3, <1>4, <1>5, <1>6, <1>8, <2>2 DEF Moving, Adds
<1>9. CASE ~drawing
  <2>1. Drawn(c, b, k, 0..33)  BY <1>9 DEF Moves
  <2>2. p = s + Adds(k, P, c, 2) /\ t = u + Adds(k, P, c, 1)
    BY <1>1, <1>2, <2>1, DrawnPairs DEF CountedIn
  <2>3. b[k] = c[k] + 1  BY <2>1 DEF Drawn
  <2>. QED  BY <1>3, <1>4, <1>5, <1>6, <1>9, <2>2, <2>3 DEF Moving, Adds
<1>. QED  BY <1>8, <1>9

\* Thirteen orphans.
Yaochuu == {k \in Kinds : is_terminal_or_honor(k)}

LEMMA OrphansAre ==
  ASSUME NEW b, IsCounts(b, 0..33), NEW r, r = calc_thirteen_orphans(b),
         NEW p, p = NumAtLeast(b, Yaochuu, 2), NEW t, t = NumAtLeast(b, Yaochuu, 1), NEW k \in Kinds
  PROVE  /\ p \in Nat /\ t \in Nat
         /\ r.shanten = 13 - t - (IF p = 0 THEN 0 ELSE 1)
         /\ k \in r.wait <=> k \in Yaochuu /\ (b[k] = 0 \/ (p = 0 /\ b[k] = 1))
         /\ k \in r.disc <=> IF k \in Yaochuu THEN b[k] >= 3 \/ (p >= 2 /\ b[k] = 2) ELSE b[k] > 0
<1>1. PICK Y : Y = Yaochuu  OBVIOUS
<1>2. IsFiniteSet(Y) /\ Y \in SUBSET Kinds
  <2>1. PICK l, h : l = 0 /\ h = 33 /\ l \in Int /\ h \in Int  OBVIOUS
  <2>2. IsFiniteSet(l..h)  BY <2>1, FS_Interval
  <2>3. Y \in SUBSET Kinds  BY <1>1 DEF Yaochuu
  <2>. QED  BY <2>1, <2>2, <2>3, FS_Subset DEF Kinds
<1>3. p \in Nat /\ t \in Nat  BY <1>1, <1>2, AtLeastFinite
<1>4. \A j \in Y : b[j] \in Nat  BY <1>2 DEF Kinds, IsCounts
<1>5. PICK pairs, held0, held1, held2 :
        /\ pairs = {j \in Y : b[j] >= 2} /\ held0 = {j \in Y : b[j] = 0}
        /\ held1 = {j \in Y : b[j] = 1} /\ held2 = {j \in Y : b[j] = 2}
  OBVIOUS
<1>6. r = [shanten |-> 13 - Cardinality({j \in Y : b[j] > 0}) - (IF pairs = {} THEN 0 ELSE 1),
           wait |-> IF pairs = {} THEN held0 \cup held1 ELSE held0,
           disc |-> {j \in Kinds \ Y : b[j] > 0} \cup (pairs \ held2)
                    \cup (IF Cardinality(pairs) >= 2 THEN held2 ELSE {})]
  BY <1>1, <1>5, Zenon DEF calc_thirteen_orphans, Yaochuu
<1>7. pairs = AtLeast(b, Y, 2)  BY <1>5 DEF AtLeast
<1>8. {j \in Y : b[j] > 0} = AtLeast(b, Y, 1)  BY <1>4 DEF AtLeast
<1>9. Cardinality(pairs) = p /\ Cardinality({j \in Y : b[j] > 0}) = t  BY <1>1, <1>7, <1>8, Zenon DEF NumAtLeast
<1>10. pairs = {} <=> p = 0
  <2>1. IsFiniteSet(pairs)  BY <1>2, <1>7, AtLeastFinite
  <2>. QED  BY <1>9, <2>1, FS_EmptySet
<1>11. r.shanten = 13 - t - (IF p = 0 THEN 0 ELSE 1)  BY <1>6, <1>9, <1>10
<1>12. /\ k \in pairs <=> k \in Y /\ b[k] >= 2
       /\ k \in held0 <=> k \in Y /\ b[k] = 0
       /\ k \in held1 <=> k \in Y /\ b[k] = 1
       /\ k \in held2 <=> k \in Y /\ b[k] = 2
       /\ k \in {j \in Kinds \ Y : b[j] > 0} <=> k \notin Y /\ b[k] > 0
  BY <1>5
<1>13. k \in r.wait <=> k \in Y /\ (b[k] = 0 \/ (p = 0 /\ b[k] = 1))  BY <1>6, <1>10, <1>12
<1>14. k \in r.disc <=> k \in {j \in Kinds \ Y : b[j] > 0} \/ (k \in pairs /\ k \notin held2) \/ (p >= 2 /\ k \in held2)
  BY <1>6, <1>9
<1>15. k \in r.disc <=> IF k \in Y THEN b[k] >= 3 \/ (p >= 2 /\ b[k] = 2) ELSE b[k] > 0
  <2>1. k \in Y => b[k] \in Nat  BY <1>4
  <2>. QED  BY <1>12, <1>14, <2>1
<1>. QED  BY <1>1, <1>3, <1>11, <1>13, <1>15

LEMMA OrphansMove ==
  ASSUME NEW b, IsCounts(b, 0..33), NEW c, IsCounts(c, 0..33),
         NEW k \in Kinds, NEW drawing, Moves(b, c, k, 0..33, drawing),
         NEW r, r = calc_thirteen_orphans(b), NEW q, q = calc_thirteen_orphans(c)
  PROVE  Moving(r, q, k, drawing) /\ Bounded(r) /\ Bounded(q)
<1>0. PICK Y : Y = Yaochuu  OBVIOUS
<1>1. Y \in SUBSET (0..33)  BY <1>0 DEF Yaochuu, Kinds
<1>2. PICK p, t, s, u : /\ p = NumAtLeast(b, Y, 2) /\ t = NumAtLeast(b, Y, 1)
                        /\ s = NumAtLeast(c, Y, 2) /\ u = NumAtLeast(c, Y, 1)
  OBVIOUS
<1>3. /\ p \in Nat /\ t \in Nat
      /\ r.shanten = 13 - t - (IF p = 0 THEN 0 ELSE 1)
      /\ k \in r.wait <=> k \in Y /\ (b[k] = 0 \/ (p = 0 /\ b[k] = 1))
      /\ k \in r.disc <=> IF k \in Y THEN b[k] >= 3 \/ (p >= 2 /\ b[k] = 2) ELSE b[k] > 0
  BY <1>0, <1>2, OrphansAre
<1>4. s \in Nat /\ u \in Nat /\ q.shanten = 13 - u - (IF s = 0 THEN 0 ELSE 1)
  BY <1>0, <1>2, OrphansAre
<1>5. Bounded(r) /\ Bounded(q)  BY <1>3, <1>4 DEF Bounded
<1>6. b[k] \in Nat /\ c[k] \in Nat  BY DEF IsCounts, Kinds
<1>8. CASE drawing
  <2>1. Drawn(b, c, k, 0..33)  BY <1>8 DEF Moves
  <2>2. /\ s = p + Adds(k, Y, b, 2)
        /\ u = t + Adds(k, Y, b, 1)
    <3>1. CountedIn(b, c, k, Y)  BY <1>1, <2>1, DrawnPairs
    <3>. QED  BY <1>2, <3>1 DEF CountedIn
  <2>. QED  BY <1>3, <1>4, <1>5, <1>6, <1>8, <2>2 DEF Moving, Adds
<1>9. CASE ~drawing
  <2>1. Drawn(c, b, k, 0..33)  BY <1>9 DEF Moves
  <2>2. /\ p = s + Adds(k, Y, c, 2)
        /\ t = u + Adds(k, Y, c, 1)
    <3>1. CountedIn(c, b, k, Y)  BY <1>1, <2>1, DrawnPairs
    <3>. QED  BY <1>2, <3>1 DEF CountedIn
  <2>3. b[k] = c[k] + 1  BY <2>1 DEF Drawn
  <2>. QED  BY <1>3, <1>4, <1>5, <1>6, <1>9, <2>2, <2>3 DEF Moving, Adds
<1>. QED  BY <1>8, <1>9

\* A hand without tiles: what a hand has more than it is how many tiles it has.
Bare == [j \in Kinds |-> 0]

LEMMA TotalIs ==
  ASSUME NEW h, \A k \in Kinds : h[k] \in 0..4
  PROVE  IsFiniteSet(Kinds) /\ Total(h) = Away(Bare, h, Kinds)
<1>1. IsFiniteSet(Kinds)
  <2>1. PICK l, u : l = 0 /\ u = 33 /\ l \in Int /\ u \in Int  OBVIOUS
  <2>2. IsFiniteSet(l..u)  BY <2>1, FS_Interval
  <2>. QED  BY <2>1, <2>2 DEF Kinds
<1>2. IsCounts(Bare, Kinds) /\ IsPattern(h, Kinds)  BY DEF IsCounts, IsPattern, Bare
<1>3. \A k \in Kinds : h[k] = IF h[k] > Bare[k] THEN h[k] - Bare[k] ELSE 0  BY DEF Bare
<1>4. Total(h) = (CHOOSE g : CellSums(g, h, Kinds))[Kinds]
  BY Zenon DEF Total, MapThenSumSet, MapThenFoldSet, CellSums, Chosen
<1>. QED  BY <1>1, <1>2, <1>3, <1>4, CellsSumUp

\* Seven pairs are fourteen tiles.
LEMMA PairsAreTiles ==
  ASSUME NEW h, \A k \in Kinds : h[k] \in 0..4, NEW P \in SUBSET Kinds, NumAtLeast(h, P, 2) = 7
  PROVE  Total(h) \in Nat /\ Total(h) >= 14
<1>1. PICK A, D : A = AtLeast(h, P, 2) /\ D = 1..2  OBVIOUS
<1>2. IsFiniteSet(Kinds) /\ Total(h) = Away(Bare, h, Kinds)  BY TotalIs
<1>3. IsFiniteSet(A) /\ Cardinality(A) = 7
  <2>1. IsFiniteSet(P)  BY <1>2, FS_Subset
  <2>. QED  BY <1>1, <2>1, AtLeastFinite DEF NumAtLeast
<1>4. IsFiniteSet(D) /\ Cardinality(D) = 2
  <2>1. PICK l, u : l = 1 /\ u = 2 /\ l \in Int /\ u \in Int  OBVIOUS
  <2>2. IsFiniteSet(l..u) /\ Cardinality(l..u) = IF l > u THEN 0 ELSE u - l + 1  BY <2>1, FS_Interval
  <2>. QED  BY <1>1, <2>1, <2>2
<1>5. PICK B : B = A \X D  OBVIOUS
<1>6. IsFiniteSet(B) /\ Cardinality(B) = 14  BY <1>3, <1>4, <1>5, FS_Product
<1>7. PICK C : C = Cells(Bare, h, Kinds)  OBVIOUS
<1>8. B \subseteq C
  <2>1. ASSUME NEW z \in B  PROVE z \in C
    <3>1. z[1] \in A /\ z[2] \in D /\ z = <<z[1], z[2]>>  BY <1>5
    <3>2. z[1] \in Kinds /\ h[z[1]] >= 2 /\ Bare[z[1]] = 0  BY <1>1, <3>1 DEF AtLeast, Bare
    <3>3. h[z[1]] \in 0..4  BY <3>2
    <3>4. z[2] \in Bare[z[1]] + 1..h[z[1]]  BY <1>1, <3>1, <3>2, <3>3
    <3>5. IsCell(Bare, h, Kinds, z)  BY <3>1, <3>2, <3>4, Zenon DEF IsCell
    <3>. QED  BY <1>7, <3>5, CellsAre
  <2>. QED  BY <2>1
<1>9. IsFiniteSet(C)
  <2>1. IsCounts(Bare, Kinds) /\ IsPattern(h, Kinds)  BY DEF IsCounts, IsPattern, Bare
  <2>. QED  BY <1>2, <1>7, <2>1, CellsFinite
<1>10. Cardinality(C) \in Nat /\ 14 <= Cardinality(C)  BY <1>6, <1>8, <1>9, FS_Subset, FS_CardinalityType
<1>. QED  BY <1>2, <1>7, <1>10 DEF Away

-----------------------------------------------------------------------------
(* All types of hand.                                                      *)

\* The answer for the types a hand is examined for.
SpecialTypes == {{"SevenPairs"}, {"ThirteenOrphans"}, {"SevenPairs", "ThirteenOrphans"}}

Results(h, n, type, mode) ==
  (IF "StandardHand" \in type THEN {calc_regular(h, n, mode)} ELSE {})
  \cup (IF "SevenPairs" \in type /\ n = 0 THEN {calc_seven_pairs(h, mode)} ELSE {})
  \cup (IF "ThirteenOrphans" \in type /\ n = 0 THEN {calc_thirteen_orphans(h)} ELSE {})

LEMMA CalcIs ==
  ASSUME NEW h, NEW n, NEW type, NEW mode
  PROVE  calc(h, n, type, mode) = Merged(Closest(Results(h, n, type, mode) \cup {NoneFound}))
BY Zenon DEF calc, Merged, Chosen, NoneFound, Results

LEMMA CalcOpen ==
  ASSUME NEW h, NEW n \in 1..4, NEW mode
  PROVE  calc(h, n, All, mode) = Of2(calc_regular(h, n, mode), calc_regular(h, n, mode))
<1>1. PICK r : r = calc_regular(h, n, mode)  OBVIOUS
<1>2. PICK R : R = Results(h, n, All, mode)  OBVIOUS
<1>5. calc(h, n, All, mode) = Merged(Closest(R \cup {NoneFound}))  BY <1>2, CalcIs, Zenon
<1>6. "StandardHand" \in All  BY DEF All
<1>8. R = {r, r}  BY <1>1, <1>2, <1>6 DEF Results
<1>. QED  BY <1>1, <1>5, <1>8, Zenon DEF Of2

\* The two calculators that a type of a hand without melds asks.
Asked(type, x, y) == IF type = {"SevenPairs"} THEN Of2(x, x) ELSE IF type = {"ThirteenOrphans"} THEN Of2(y, y) ELSE Of2(x, y)

LEMMA CalcClosed ==
  ASSUME NEW h, NEW type \in SpecialTypes, NEW mode
  PROVE  calc(h, 0, type, mode) = Asked(type, calc_seven_pairs(h, mode), calc_thirteen_orphans(h))
<1>1. PICK x, y : x = calc_seven_pairs(h, mode) /\ y = calc_thirteen_orphans(h)  OBVIOUS
<1>2. PICK R : R = Results(h, 0, type, mode)  OBVIOUS
<1>5. calc(h, 0, type, mode) = Merged(Closest(R \cup {NoneFound}))  BY <1>2, CalcIs, Zenon
<1>7. CASE type = {"SevenPairs"}
  <2>2. R = {x, x}  BY <1>1, <1>2, <1>7 DEF Results
  <2>3. calc(h, 0, type, mode) = Of2(x, x)  BY <1>5, <2>2, Zenon DEF Of2
  <2>. QED  BY <1>1, <1>7, <2>3 DEF Asked
<1>8. CASE type = {"ThirteenOrphans"}
  <2>2. R = {y, y}  BY <1>1, <1>2, <1>8 DEF Results
  <2>3. calc(h, 0, type, mode) = Of2(y, y)  BY <1>5, <2>2, Zenon DEF Of2
  <2>4. type # {"SevenPairs"}  BY <1>8
  <2>. QED  BY <1>1, <1>8, <2>3, <2>4 DEF Asked
<1>9. CASE type = {"SevenPairs", "ThirteenOrphans"}
  <2>2. R = {x, y}  BY <1>1, <1>2, <1>9 DEF Results
  <2>3. calc(h, 0, type, mode) = Of2(x, y)  BY <1>5, <2>2, Zenon DEF Of2
  <2>4. type # {"SevenPairs"} /\ type # {"ThirteenOrphans"}  BY <1>9
  <2>. QED  BY <1>1, <2>3, <2>4 DEF Asked
<1>. QED  BY <1>7, <1>8, <1>9 DEF SpecialTypes

LEMMA ClosedMoves ==
  ASSUME NEW b, IsCounts(b, 0..33), NEW c, IsCounts(c, 0..33), NEW mode, NEW type \in SpecialTypes,
         NEW k \in Playable(mode), NEW drawing, Moves(b, c, k, 0..33, drawing),
         drawing => NumAtLeast(b, Playable(mode), 2) # 7
  PROVE  Moving(calc(b, 0, type, mode), calc(c, 0, type, mode), k, drawing)
<1>1. PICK x : x = calc_seven_pairs(b, mode)  OBVIOUS
<1>2. PICK y : y = calc_thirteen_orphans(b)  OBVIOUS
<1>3. PICK s : s = calc_seven_pairs(c, mode)  OBVIOUS
<1>4. PICK t : t = calc_thirteen_orphans(c)  OBVIOUS
<1>5. PICK P : P = Playable(mode)  OBVIOUS
<1>6. Moving(x, s, k, drawing) /\ Bounded(x) /\ Bounded(s)  BY <1>1, <1>3, <1>5, SevenPairsMove
<1>7. Moving(y, t, k, drawing) /\ Bounded(y) /\ Bounded(t)
  <2>1. k \in Kinds  BY DEF Playable
  <2>. QED  BY <1>2, <1>4, <2>1, OrphansMove
<1>8. calc(b, 0, type, mode) = Asked(type, x, y) /\ calc(c, 0, type, mode) = Asked(type, s, t)
  BY <1>1, <1>2, <1>3, <1>4, CalcClosed
<1>9. /\ Moving(Of2(x, x), Of2(s, s), k, drawing) /\ Moving(Of2(y, y), Of2(t, t), k, drawing)
      /\ Moving(Of2(x, y), Of2(s, t), k, drawing)
  BY <1>6, <1>7, TwoMove
<1>10. Moving(Asked(type, x, y), Asked(type, s, t), k, drawing)  BY <1>9 DEF Asked
<1>. QED  BY <1>8, <1>10

LEMMA OpenMoves ==
  ASSUME NEW b, \A j \in 0..33 : b[j] \in 0..4, NEW c, \A j \in 0..33 : c[j] \in 0..4, NEW mode \in {Yonma, Sanma}, NEW n \in 1..4,
         LooksUp(b, 4 - n), LooksUp(c, 4 - n),
         NEW k \in Playable(mode), NEW drawing, Moves(b, c, k, 0..33, drawing)
  PROVE  Moving(calc(b, n, All, mode), calc(c, n, All, mode), k, drawing)
<1>1. PICK X : X = InPlay(mode)  OBVIOUS
<1>2. PICK F : F = OpenShapes(mode, 4 - n)  OBVIOUS
<1>3. PICK r : r = calc_regular(b, n, mode)  OBVIOUS
<1>4. PICK q : q = calc_regular(c, n, mode)  OBVIOUS
<1>5. IsCounts(b, 0..33) /\ IsCounts(c, 0..33)  BY DEF IsCounts
<1>6. b[0] \in 0..4 /\ b[8] \in 0..4 /\ c[0] \in 0..4 /\ c[8] \in 0..4 /\ n \in 0..4  OBVIOUS
<1>7. (\E e : IsFound(r, e, b, X, F)) /\ (\E f : IsFound(q, f, c, X, F))
  BY <1>1, <1>2, <1>3, <1>4, <1>5, <1>6, RegularFinds
<1>8. X \in SUBSET (0..33) /\ X \subseteq Int /\ k \in X
  BY <1>1 DEF InPlay, ManzuTiles, Playable, Kinds, is_sanma_disabled, Yonma, Sanma
<1>9. F \subseteq Patterns4(X)
  <2>1. (9..33) \cup ManzuTiles(mode) = X  BY <1>1, Zenon DEF InPlay
  <2>2. F = GluedBy(Above(4 - n), ManzuShapes(mode, 4 - n), 9..33, ManzuTiles(mode), SplitsIn(5 + (4 - n), ManzuIndices(mode, 4 - n)))
    BY <1>2, Zenon DEF OpenShapes
  <2>. QED  BY <2>1, <2>2, Zenon DEF GluedBy
<1>10. \A x, y : Drawn(x, y, k, 0..33) => Drawn(x, y, k, X)
  <2>1. ASSUME NEW x, NEW y, Drawn(x, y, k, 0..33)  PROVE Drawn(x, y, k, X)
    <3>1. IsFiniteSet(X)  BY <1>8, <2>1, FS_Subset DEF Drawn
    <3>. QED  BY <1>8, <2>1, <3>1 DEF Drawn, IsCounts
  <2>. QED  BY <2>1
<1>11. Moves(b, c, k, X, drawing)  BY <1>10 DEF Moves
<1>12. Moving(r, q, k, drawing) /\ Bounded(r) /\ Bounded(q)  BY <1>7, <1>8, <1>9, <1>11, FoundMoves
<1>13. Moving(Of2(r, r), Of2(q, q), k, drawing)  BY <1>12, TwoMove
<1>. QED  BY <1>3, <1>4, <1>13, CalcOpen

\* The tiles that may be moved, the hand without or with one of them, and all answers.
Movable(hand, drawing, mode) ==
  IF drawing THEN {k \in Kinds : hand[k] < 4 /\ ~(mode = Sanma /\ is_sanma_disabled(k))} ELSE {k \in Kinds : hand[k] > 0}
After(hand, drawing, k) == IF drawing THEN AddTile(k, hand) ELSE [hand EXCEPT ![k] = @ - 1]
AnswersTo(hand, drawing, n, type, mode) ==
  [h \in {hand} \cup {After(hand, drawing, k) : k \in Movable(hand, drawing, mode)} |-> calc(h, n, type, mode)]
DueAfter(before, drawing, k) ==
  IF drawing THEN before.shanten - (IF k \in before.wait THEN 1 ELSE 0)
  ELSE before.shanten + (IF k \in before.disc THEN 0 ELSE 1)
AllMove(answers, hand, drawing, mode) ==
  \A k \in Movable(hand, drawing, mode) : answers[After(hand, drawing, k)].shanten = DueAfter(answers[hand], drawing, k)

LEMMA MovesUnfolded ==
  (phase = "valid" =>
     \A type \in Types(req) :
       AllMove(AnswersTo(req.hand, num_tiles(req) % 3 = 1, Len(req.melds), type, req.game_mode),
               req.hand, num_tiles(req) % 3 = 1, req.game_mode))
  => TilesMoveTheHand
BY Zenon DEF TilesMoveTheHand, AllMove, AnswersTo, Movable, After, DueAfter

LEMMA AllMoveIs ==
  ASSUME NEW hand, NEW drawing, NEW n, NEW type, NEW mode,
         \A k \in Movable(hand, drawing, mode) :
           Moving(calc(hand, n, type, mode), calc(After(hand, drawing, k), n, type, mode), k, drawing)
  PROVE  AllMove(AnswersTo(hand, drawing, n, type, mode), hand, drawing, mode)
<1>1. PICK M : M = Movable(hand, drawing, mode)  OBVIOUS
<1>2. PICK a : a = AnswersTo(hand, drawing, n, type, mode)  OBVIOUS
<1>3. a[hand] = calc(hand, n, type, mode)  BY <1>2 DEF AnswersTo
<1>4. \A k \in M : a[After(hand, drawing, k)] = calc(After(hand, drawing, k), n, type, mode)
  BY <1>1, <1>2 DEF AnswersTo
<1>5. ASSUME NEW k \in M  PROVE a[After(hand, drawing, k)].shanten = DueAfter(a[hand], drawing, k)
  <2>1. Moving(a[hand], a[After(hand, drawing, k)], k, drawing)  BY <1>1, <1>3, <1>4
  <2>. QED  BY <2>1, Zenon DEF Moving, DueAfter
<1>. QED  BY <1>1, <1>2, <1>5, Zenon DEF AllMove

\* A hand that a tile is moved to is a hand, and differs in that tile.
LEMMA AfterIs ==
  ASSUME NEW b \in [Codes -> Nat], \A j \in Kinds : b[j] \in 0..4, NEW drawing, NEW mode,
         NEW k \in Movable(b, drawing, mode), NEW c, c = After(b, drawing, k)
  PROVE  k \in Kinds /\ (\A j \in Kinds : c[j] \in 0..4) /\ Moves(b, c, k, 0..33, drawing)
<1>1. k \in Kinds /\ (drawing => b[k] < 4) /\ (~drawing => b[k] > 0)  BY DEF Movable
<1>2. k \in Codes /\ ~is_red(k)  BY <1>1 DEF Kinds, Codes, is_red, Reds
<1>3. c = IF drawing THEN [b EXCEPT ![k] = @ + 1] ELSE [b EXCEPT ![k] = @ - 1]  BY <1>2, Zenon DEF After, AddTile
<1>4. c[k] = (IF drawing THEN b[k] + 1 ELSE b[k] - 1)  BY <1>2, <1>3
<1>5. \A j \in Kinds \ {k} : c[j] = b[j]  BY <1>3 DEF Kinds, Codes
<1>6. \A j \in Kinds : c[j] \in 0..4
  <2>1. c[k] \in 0..4  BY <1>1, <1>4
  <2>. QED  BY <1>5, <2>1
<1>7. Kinds = 0..33 /\ IsFiniteSet(0..33)
  <2>1. PICK l, u : l = 0 /\ u = 33 /\ l \in Int /\ u \in Int  OBVIOUS
  <2>2. IsFiniteSet(l..u)  BY <2>1, FS_Interval
  <2>. QED  BY <2>1, <2>2 DEF Kinds
<1>8. IsCounts(b, 0..33) /\ IsCounts(c, 0..33)  BY <1>6, <1>7 DEF IsCounts
<1>9. CASE drawing
  <2>1. Drawn(b, c, k, 0..33)  BY <1>1, <1>4, <1>5, <1>7, <1>8, <1>9 DEF Drawn
  <2>. QED  BY <1>1, <1>6, <1>9, <2>1 DEF Moves
<1>10. CASE ~drawing
  <2>1. b[k] = c[k] + 1  BY <1>1, <1>4, <1>10
  <2>2. Drawn(c, b, k, 0..33)  BY <1>1, <1>5, <1>7, <1>8, <2>1 DEF Drawn
  <2>. QED  BY <1>1, <1>6, <1>10, <2>2 DEF Moves
<1>. QED  BY <1>9, <1>10

\* What may be moved is a tile that is played with.
LEMMA MovableIsPlayable ==
  ASSUME NEW r, validate_sanma_tiles(r), NEW drawing, NEW k \in Movable(r.hand, drawing, r.game_mode)
  PROVE  k \in Playable(r.game_mode)
<1>1. k \in Kinds /\ k \in Codes  BY DEF Movable, Kinds, Codes
<1>2. CASE drawing  BY <1>1, <1>2 DEF Movable, Playable
<1>3. CASE ~drawing
  <2>1. r.hand[k] > 0  BY <1>3 DEF Movable
  <2>2. r.game_mode = Sanma => ~is_sanma_disabled(k)
    BY <1>1, <2>1 DEF validate_sanma_tiles, has_sanma_disabled_tiles
  <2>. QED  BY <1>1, <2>2 DEF Playable
<1>. QED  BY <1>2, <1>3

\* The tables hold what a tile makes of an open hand.
LEMMA AfterLooksUp ==
  ASSUME NEW d \in Documents, Accepted(d), NEW b, b = to_hand(d.hand), NEW m, m = 4 - Len(d.melds)
  PROVE  /\ LooksUp(b, m)
         /\ Len(d.melds) # 0 =>
              \A mode : \A k \in Movable(b, Total(b) % 3 = 1, mode) : LooksUp(After(b, Total(b) % 3 = 1, k), m)
<1>1. Needed(d) \subseteq Lookups  BY LookupsAssumption
<1>2. PICK H : H = {b} \cup IF d.melds = << >> THEN {} ELSE Neighbors(b)  OBVIOUS
<1>3. Needed(d) = UNION {LookedUp(h, m) : h \in H}  BY <1>2, Zenon DEF Needed
<1>4. \A h \in H : LooksUp(h, m)
  <2>1. \A h \in H : LookedUp(h, m) \subseteq Lookups  BY <1>1, <1>3
  <2>. QED  BY <2>1, LookedUpIs
<1>5. ASSUME Len(d.melds) # 0, NEW mode, NEW k \in Movable(b, Total(b) % 3 = 1, mode)
      PROVE  After(b, Total(b) % 3 = 1, k) \in H
  <2>1. d.melds # << >>  BY <1>5
  <2>2. After(b, Total(b) % 3 = 1, k) \in Neighbors(b)
    <3>1. CASE Total(b) % 3 = 1
      <4>1. k \in {j \in Kinds : b[j] < 4} /\ After(b, Total(b) % 3 = 1, k) = AddTile(k, b)
        BY <1>5, <3>1 DEF Movable, After
      <4>. QED  BY <3>1, <4>1 DEF Neighbors
    <3>2. CASE ~(Total(b) % 3 = 1)
      <4>1. k \in {j \in Kinds : b[j] > 0} /\ After(b, Total(b) % 3 = 1, k) = [b EXCEPT ![k] = @ - 1]
        BY <1>5, <3>2 DEF Movable, After
      <4>. QED  BY <3>2, <4>1 DEF Neighbors
    <3>. QED  BY <3>1, <3>2
  <2>. QED  BY <1>2, <2>1, <2>2
<1>. QED  BY <1>2, <1>4, <1>5

\* The answers mean what they say, whatever hand is accepted: a drawn tile brings the hand
\* one nearer exactly if it is among the necessary ones, and a discarded one costs nothing
\* exactly if it is among the unnecessary ones.
THEOREM TilesMoveTheHandCorrect == Spec => []TilesMoveTheHand
<1>1. ReqInv => TilesMoveTheHand
  <2>1. SUFFICES ASSUME ReqInv, phase = "valid", NEW type \in Types(req)
        PROVE  AllMove(AnswersTo(req.hand, num_tiles(req) % 3 = 1, Len(req.melds), type, req.game_mode),
                       req.hand, num_tiles(req) % 3 = 1, req.game_mode)
    BY MovesUnfolded
  <2>2. doc \in DocumentRecords  BY <2>1, SchemaAssumption DEF ReqInv
  <2>3. PICK r : r = make_request(doc)  OBVIOUS
  <2>4. /\ r.hand = to_hand(doc.hand) /\ r.melds = doc.melds /\ r.game_mode = doc.game_mode
        /\ r \in RequestRecords
    BY <2>2, <2>3, RequestMade
  <2>5. /\ req = r
        /\ check_hand(r.hand) /\ validate_melds(r) /\ validate_sanma_tiles(r) /\ validate_tile_counts(r)
    BY <2>1, <2>3 DEF ReqInv
  <2>6. doc \in Documents /\ Accepted(doc)  BY <2>1, <2>3, <2>5, Zenon DEF Accepted, ReqInv
  <2>7. PICK b, n, mode : b = req.hand /\ n = Len(req.melds) /\ mode = req.game_mode  OBVIOUS
  <2>8. b \in [Codes -> Nat] /\ n \in Nat /\ mode \in {Yonma, Sanma}
    BY <2>4, <2>5, <2>7 DEF RequestRecords
  <2>9. (\A j \in Kinds : b[j] \in 0..4) /\ Total(b) <= 14 /\ Total(b) % 3 # 0  BY <2>5, <2>7 DEF check_hand
  <2>10. Total(b) \in Nat
    <3>1. IsFiniteSet(Kinds) /\ Total(b) = Away(Bare, b, Kinds)  BY <2>9, TotalIs
    <3>2. IsCounts(Bare, Kinds) /\ IsPattern(b, Kinds)  BY <2>9 DEF IsCounts, IsPattern, Bare
    <3>. QED  BY <3>1, <3>2, CellsFinite
  <2>11. n \in 0..4
    <3>1. Total(b) + 3 * n <= 14  BY <2>5, <2>7 DEF validate_tile_counts, num_tiles
    <3>. QED  BY <2>8, <2>10, <3>1
  <2>12. PICK drawing \in BOOLEAN : drawing = (Total(b) % 3 = 1)  OBVIOUS
  <2>13. ASSUME NEW k \in Movable(b, drawing, mode)
         PROVE  Moving(calc(b, n, type, mode), calc(After(b, drawing, k), n, type, mode), k, drawing)
    <3>1. PICK c : c = After(b, drawing, k)  OBVIOUS
    <3>2. k \in Kinds /\ (\A j \in Kinds : c[j] \in 0..4) /\ Moves(b, c, k, 0..33, drawing)
      BY <2>8, <2>9, <3>1, AfterIs
    <3>3. k \in Playable(mode)  BY <2>5, <2>7, MovableIsPlayable
    <3>4. Kinds = 0..33  BY DEF Kinds
    <3>5. CASE n = 0
      <4>1. type \in SpecialTypes  BY <2>7, <3>5 DEF Types, SpecialTypes
      <4>2. IsCounts(b, 0..33) /\ IsCounts(c, 0..33)  BY <2>9, <3>2, <3>4 DEF IsCounts
      <4>3. ASSUME drawing  PROVE NumAtLeast(b, Playable(mode), 2) # 7
        <5>1. Playable(mode) \in SUBSET Kinds  BY DEF Playable
        <5>2. NumAtLeast(b, Playable(mode), 2) = 7 => Total(b) >= 14  BY <2>9, <5>1, PairsAreTiles
        <5>3. Total(b) % 3 = 1  BY <2>12, <4>3
        <5>4. Total(b) # 14  BY <5>3
        <5>. QED  BY <2>9, <2>10, <5>2, <5>4
      <4>4. Moving(calc(b, 0, type, mode), calc(c, 0, type, mode), k, drawing)
        BY <3>2, <3>3, <4>1, <4>2, <4>3, ClosedMoves
      <4>. QED  BY <3>1, <3>5, <4>4
    <3>6. CASE n # 0
      <4>1. n \in 1..4 /\ type = All  BY <2>7, <2>11, <3>6 DEF Types
      <4>2. LooksUp(b, 4 - n) /\ LooksUp(c, 4 - n)
        <5>1. b = to_hand(doc.hand) /\ n = Len(doc.melds)  BY <2>4, <2>5, <2>7
        <5>. QED  BY <2>6, <2>12, <3>1, <3>6, <5>1, AfterLooksUp
      <4>3. Moving(calc(b, n, All, mode), calc(c, n, All, mode), k, drawing)
        BY <2>8, <2>9, <3>2, <3>3, <3>4, <4>1, <4>2, OpenMoves
      <4>. QED  BY <3>1, <4>1, <4>3
    <3>. QED  BY <3>5, <3>6
  <2>14. AllMove(AnswersTo(b, drawing, n, type, mode), b, drawing, mode)  BY <2>13, AllMoveIs
  <2>15. num_tiles(req) = Total(b)  BY <2>7, Zenon DEF num_tiles
  <2>. QED  BY <2>7, <2>12, <2>14, <2>15, Zenon
<1>. QED  BY <1>1, ReqInvHolds, PTL

-----------------------------------------------------------------------------
(* The hand-written table is the computed one.                             *)

\* Patterns of two kinds of tile: x of the one and y of the other, either way round.
Two == Patterns4(0..1)
TwoOf(x, y) == [k \in 0..1 |-> IF k = 0 THEN x ELSE y]
Either(r, x, y) == (r[0] = x /\ r[1] = y) \/ (r[0] = y /\ r[1] = x)
IsTwo(M, x, y) == M \subseteq Two /\ \A r \in Two : r \in M <=> Either(r, x, y)

LEMMA TwoOfIs ==
  ASSUME NEW x \in 0..4, NEW y \in 0..4
  PROVE  TwoOf(x, y) \in Two /\ TwoOf(x, y)[0] = x /\ TwoOf(x, y)[1] = y
BY DEF TwoOf, Two, Patterns4

LEMMA TwoTogether ==
  ASSUME NEW M, NEW x \in 0..4, NEW y \in 0..4, IsTwo(M, x, y), NEW Q, NEW z \in 0..4, IsTwo(Q, z, 0)
  PROVE  /\ With(M, Q) \subseteq Two
         /\ \A r \in Two : r \in With(M, Q) <=> Either(r, x + z, y) \/ Either(r, x, y + z)
<1>0. PICK size \in Nat : size = 2  OBVIOUS
<1>1. M \subseteq Patterns4(0..size - 1) /\ Q \subseteq Patterns4(0..size - 1) /\ 0..size - 1 = 0..1
  <2>1. 0..size - 1 = 0..1  BY <1>0
  <2>. QED  BY <2>1 DEF IsTwo, Two
<1>2. \A r : r \in With(M, Q) <=> r \in Two /\ \E p \in M, q \in Q : \A k \in 0..1 : r[k] = p[k] + q[k]
  <2>1. \A r : r \in With(M, Q) <=> r \in Patterns4(0..size - 1) /\ \E p \in M, q \in Q : \A k \in 0..size - 1 : r[k] = p[k] + q[k]
    BY <1>1, WithIs
  <2>2. Patterns4(0..size - 1) = Two  BY <1>1 DEF Two
  <2>3. \A k : k \in 0..size - 1 <=> k \in 0..1  BY <1>1
  <2>. QED  BY ONLY <2>1, <2>2, <2>3
<1>3. \A k : k \in 0..1 <=> k = 0 \/ k = 1  OBVIOUS
<1>4. ASSUME NEW r \in Two
      PROVE  (\E p \in M, q \in Q : \A k \in 0..1 : r[k] = p[k] + q[k]) <=> Either(r, x + z, y) \/ Either(r, x, y + z)
  <2>1. ASSUME NEW p \in M, NEW q \in Q, \A k \in 0..1 : r[k] = p[k] + q[k]
        PROVE  Either(r, x + z, y) \/ Either(r, x, y + z)
    <3>1. Either(p, x, y) /\ Either(q, z, 0)  BY DEF IsTwo
    <3>2. r[0] = p[0] + q[0] /\ r[1] = p[1] + q[1]  BY <1>3, <2>1
    <3>. QED  BY <3>1, <3>2 DEF Either
  <2>2. PICK u, v : u = TwoOf(x, y) /\ v = TwoOf(y, x)  OBVIOUS
  <2>3. u \in M /\ v \in M /\ u[0] = x /\ u[1] = y /\ v[0] = y /\ v[1] = x  BY <2>2, TwoOfIs DEF IsTwo, Either
  <2>4. PICK s, t : s = TwoOf(z, 0) /\ t = TwoOf(0, z)  OBVIOUS
  <2>5. s \in Q /\ t \in Q /\ s[0] = z /\ s[1] = 0 /\ t[0] = 0 /\ t[1] = z
    <3>1. 0 \in 0..4  OBVIOUS
    <3>. QED  BY <2>4, <3>1, TwoOfIs DEF IsTwo, Either
  <2>6. ASSUME Either(r, x + z, y) \/ Either(r, x, y + z)
        PROVE  \E p \in M, q \in Q : \A k \in 0..1 : r[k] = p[k] + q[k]
    <3>1. \/ r[0] = u[0] + s[0] /\ r[1] = u[1] + s[1]
          \/ r[0] = v[0] + t[0] /\ r[1] = v[1] + t[1]
          \/ r[0] = u[0] + t[0] /\ r[1] = u[1] + t[1]
          \/ r[0] = v[0] + s[0] /\ r[1] = v[1] + s[1]
      BY <2>3, <2>5, <2>6 DEF Either
    <3>. QED  BY <1>3, <2>3, <2>5, <3>1
  <2>. QED  BY <2>1, <2>6
<1>. QED  BY <1>2, <1>4

\* What two kinds of tile can be made to, by index.
LEMMA SanmaPatterns ==
  ASSUME NEW P, P = WinPatterns(2, triplets(2))
  PROVE  /\ \A i \in SanmaIndices : IsTwo(P[i], First(i), Second(i))
         /\ \A i \in Indices(4) \ SanmaIndices : P[i] = {}
<1>1. PICK T : T = triplets(2)  OBVIOUS
<1>2. PICK L : L = LocalPairs(2)  OBVIOUS
<1>3. PICK made : IsMadeOf(made, P, 2, T)  BY <1>1, WinPatternsAre
<1>4. /\ made[0] = {Zero(2)}
      /\ made[1] = With(made[0], T) /\ made[2] = With(made[1], T)
      /\ made[3] = With(made[2], T) /\ made[4] = With(made[3], T)
      /\ P = [i \in Indices(4) |-> IF i < 5 THEN made[i] ELSE With(made[i - 5], L)]
  BY <1>2, <1>3, Zenon DEF IsMadeOf
<1>5. \A r \in Two : r[0] \in 0..4 /\ r[1] \in 0..4  BY DEF Two, Patterns4
<1>6. \A r \in Two, q \in Two : r[0] = q[0] /\ r[1] = q[1] => r = q  BY DEF Two, Patterns4
<1>7. ASSUME NEW n \in 1..4, NEW Q, \A r : r \in Q <=> \E k \in 0..1 : r = Of(2, {k}, n)
      PROVE  IsTwo(Q, n, 0)
  <2>1. PICK u, v : u = Of(2, {0}, n) /\ v = Of(2, {1}, n)  OBVIOUS
  <2>2. u \in Two /\ v \in Two /\ u[0] = n /\ u[1] = 0 /\ v[0] = 0 /\ v[1] = n
    BY <2>1 DEF Of, Two, Patterns4
  <2>3. \A r : r \in Q <=> r = u \/ r = v
    <3>1. \A k : k \in 0..1 <=> k = 0 \/ k = 1  OBVIOUS
    <3>. QED  BY <1>7, <2>1, <3>1
  <2>. QED  BY <1>6, <2>2, <2>3 DEF IsTwo, Either
<1>8. IsTwo(T, 3, 0)
  <2>1. 0..2 - 1 = 0..1  OBVIOUS
  <2>2. \A r : r \in T <=> \E k \in 0..1 : r = Of(2, {k}, 3)  BY <1>1, <2>1 DEF triplets
  <2>. QED  BY <1>7, <2>2
<1>9. IsTwo(L, 2, 0)
  <2>1. 0..2 - 1 = 0..1  OBVIOUS
  <2>2. \A r : r \in L <=> \E k \in 0..1 : r = Of(2, {k}, 2)  BY <1>2, <2>1 DEF LocalPairs
  <2>. QED  BY <1>7, <2>2
<1>10. IsTwo(made[0], 0, 0)
  <2>1. PICK u : u = Zero(2)  OBVIOUS
  <2>2. u \in Two /\ u[0] = 0 /\ u[1] = 0  BY <2>1 DEF Zero, Of, Two, Patterns4
  <2>. QED  BY <1>4, <1>6, <2>1, <2>2 DEF IsTwo, Either
<1>11. IsTwo(made[1], 3, 0)
  <2>1. PICK M, N : M = made[0] /\ N = made[1]  OBVIOUS
  <2>2. N \subseteq Two /\ \A r \in Two : r \in N <=> Either(r, 0 + 3, 0) \/ Either(r, 0, 0 + 3)
    <3>1. N = With(M, T) /\ IsTwo(M, 0, 0) /\ IsTwo(T, 3, 0) /\ 0 \in 0..4 /\ 3 \in 0..4  BY <1>4, <1>8, <1>10, <2>1
    <3>. QED  BY ONLY <3>1, TwoTogether
  <2>. QED  BY <2>1, <2>2 DEF IsTwo, Either
<1>12. IsTwo(made[2], 3, 3)
  <2>1. PICK M, N : M = made[1] /\ N = made[2]  OBVIOUS
  <2>2. N \subseteq Two /\ \A r \in Two : r \in N <=> Either(r, 3 + 3, 0) \/ Either(r, 3, 0 + 3)
    <3>1. N = With(M, T) /\ IsTwo(M, 3, 0) /\ IsTwo(T, 3, 0) /\ 0 \in 0..4 /\ 3 \in 0..4  BY <1>4, <1>8, <1>11, <2>1
    <3>. QED  BY ONLY <3>1, TwoTogether
  <2>. QED  BY <1>5, <2>1, <2>2 DEF IsTwo, Either
<1>13. made[3] = {}
  <2>1. PICK M, N : M = made[2] /\ N = made[3]  OBVIOUS
  <2>2. N \subseteq Two /\ \A r \in Two : r \in N <=> Either(r, 3 + 3, 3) \/ Either(r, 3, 3 + 3)
    <3>1. N = With(M, T) /\ IsTwo(M, 3, 3) /\ IsTwo(T, 3, 0) /\ 0 \in 0..4 /\ 3 \in 0..4  BY <1>4, <1>8, <1>12, <2>1
    <3>. QED  BY ONLY <3>1, TwoTogether
  <2>. QED  BY <1>5, <2>1, <2>2 DEF Either
<1>14. \A Q : With({}, Q) = {}  BY DEF With, Fits
<1>15. made[4] = {}  BY <1>4, <1>13, <1>14
<1>16. IsTwo(With(made[0], L), 2, 0)
  <2>1. PICK M, N : M = made[0] /\ N = With(M, L)  OBVIOUS
  <2>2. N \subseteq Two /\ \A r \in Two : r \in N <=> Either(r, 0 + 2, 0) \/ Either(r, 0, 0 + 2)
    BY <1>9, <1>10, <2>1, TwoTogether
  <2>. QED  BY <2>1, <2>2 DEF IsTwo, Either
<1>17. IsTwo(With(made[1], L), 2, 3)
  <2>1. PICK M, N : M = made[1] /\ N = With(M, L)  OBVIOUS
  <2>2. N \subseteq Two /\ \A r \in Two : r \in N <=> Either(r, 3 + 2, 0) \/ Either(r, 3, 0 + 2)
    BY <1>9, <1>11, <2>1, TwoTogether
  <2>. QED  BY <1>5, <2>1, <2>2 DEF IsTwo, Either
<1>18. With(made[2], L) = {}
  <2>1. PICK M, N : M = made[2] /\ N = With(M, L)  OBVIOUS
  <2>2. N \subseteq Two /\ \A r \in Two : r \in N <=> Either(r, 3 + 2, 3) \/ Either(r, 3, 3 + 2)
    BY <1>9, <1>12, <2>1, TwoTogether
  <2>. QED  BY <1>5, <2>1, <2>2 DEF Either
<1>19. With(made[3], L) = {} /\ With(made[4], L) = {}  BY <1>13, <1>14, <1>15
<1>20. \A i \in Indices(4) : P[i] = IF i < 5 THEN made[i] ELSE With(made[i - 5], L)  BY <1>4
<1>21. Indices(4) = {0, 1, 2, 3, 4, 5, 6, 7, 8, 9}  BY DEF Indices
<1>22. /\ P[0] = made[0] /\ P[1] = made[1] /\ P[2] = made[2] /\ P[3] = made[3] /\ P[4] = made[4]
       /\ P[5] = With(made[0], L) /\ P[6] = With(made[1], L) /\ P[7] = With(made[2], L)
       /\ P[8] = With(made[3], L) /\ P[9] = With(made[4], L)
  BY <1>20, <1>21
<1>23. /\ First(0) = 0 /\ Second(0) = 0 /\ First(1) = 3 /\ Second(1) = 0 /\ First(2) = 3 /\ Second(2) = 3
       /\ First(5) = 2 /\ Second(5) = 0 /\ First(6) = 2 /\ Second(6) = 3
  BY DEF First, Second
<1>24. IsTwo(P[0], 0, 0) /\ IsTwo(P[1], 3, 0) /\ IsTwo(P[2], 3, 3) /\ IsTwo(P[5], 2, 0) /\ IsTwo(P[6], 2, 3)
  BY <1>10, <1>11, <1>12, <1>16, <1>17, <1>22
<1>25. \A i \in SanmaIndices : IsTwo(P[i], First(i), Second(i))
  <2>1. ASSUME NEW i \in SanmaIndices  PROVE IsTwo(P[i], First(i), Second(i))
    <3>1. i = 0 \/ i = 1 \/ i = 2 \/ i = 5 \/ i = 6  BY DEF SanmaIndices
    <3>. QED  BY <1>23, <1>24, <3>1
  <2>. QED  BY <2>1
<1>26. \A i \in Indices(4) \ SanmaIndices : P[i] = {}
  BY <1>13, <1>15, <1>18, <1>19, <1>21, <1>22 DEF SanmaIndices
<1>. QED  BY <1>25, <1>26

\* The tiles of two kinds by their places in a count of two, manzu 1 and 9.
InTable(e) == Cell(e.dist, {8 * k : k \in e.wait}, {8 * k : k \in e.disc})

LEMMA TwoAway ==
  ASSUME NEW a \in 0..4, NEW c \in 0..4, NEW p \in Two
  PROVE  calc_distance(TwoOf(a, c), p) = Lack(p[0], a) + Lack(p[1], c)
<1>1. PICK b : b = TwoOf(a, c)  OBVIOUS
<1>2. b \in Two /\ b[0] = a /\ b[1] = c  BY <1>1, TwoOfIs
<1>3. PICK X, Y, Z : X = {0} /\ Y = {1} /\ Z = 0..1  OBVIOUS
<1>4. X \cup Y = Z  BY <1>3
<1>5. DOMAIN b = Z  BY <1>2, <1>3 DEF Two, Patterns4
<1>6. calc_distance(b, p) = Away(b, p, Z)  BY <1>5 DEF calc_distance, Away, Cells
<1>7. IsCounts(b, Z) /\ IsPattern(p, Z)  BY <1>2, <1>3 DEF Two, Patterns4, IsCounts, IsPattern
<1>8. IsFiniteSet(X) /\ IsFiniteSet(Y) /\ X \cap Y = {}  BY <1>3, FS_Singleton
<1>9. Away(b, p, Z) = Away(b, p, X) + Away(b, p, Y)  BY <1>4, <1>7, <1>8, AwayUnion
<1>10. p[0] \in 0..4 /\ p[1] \in 0..4 /\ b[0] \in Nat /\ b[1] \in Nat  BY <1>2 DEF Two, Patterns4
<1>11. Away(b, p, {0}) = Lack(p[0], a) /\ Away(b, p, {1}) = Lack(p[1], c)
  BY <1>2, <1>10, AwayOne DEF Lack
<1>. QED  BY <1>1, <1>3, <1>6, <1>9, <1>11

\* What create_table computes for two kinds of tile.
LEMMA ComputedFinds ==
  ASSUME NEW a \in 0..4, NEW c \in 0..4, NEW x \in 0..4, NEW y \in 0..4, NEW P, IsTwo(P, x, y),
         NEW t, t = InTable(Entry(TwoOf(a, c), P))
  PROVE  CellFinds(t, a, c, x, y) /\ HasParts(t)
<1>1. PICK b, e : b = TwoOf(a, c) /\ e = Entry(b, P)  OBVIOUS
<1>2. b \in Two /\ b[0] = a /\ b[1] = c /\ DOMAIN b = 0..1  BY <1>1, TwoOfIs DEF Two, Patterns4
<1>3. PICK u, v : u = TwoOf(x, y) /\ v = TwoOf(y, x)  OBVIOUS
<1>4. u \in P /\ v \in P /\ u[0] = x /\ u[1] = y /\ v[0] = y /\ v[1] = x
  BY <1>3, TwoOfIs DEF IsTwo, Either
<1>5. PICK d, f : d = Lack(x, a) + Lack(y, c) /\ f = Lack(y, a) + Lack(x, c)  OBVIOUS
<1>6. d \in Nat /\ f \in Nat  BY <1>5 DEF Lack
<1>7. \A p \in P : \/ p[0] = x /\ p[1] = y /\ calc_distance(b, p) = d
                   \/ p[0] = y /\ p[1] = x /\ calc_distance(b, p) = f
  <2>1. ASSUME NEW p \in P
        PROVE  \/ p[0] = x /\ p[1] = y /\ calc_distance(b, p) = d
               \/ p[0] = y /\ p[1] = x /\ calc_distance(b, p) = f
    <3>1. p \in Two /\ Either(p, x, y)  BY DEF IsTwo
    <3>2. calc_distance(b, p) = Lack(p[0], a) + Lack(p[1], c)  BY <1>1, <3>1, TwoAway
    <3>. QED  BY <1>5, <3>1, <3>2 DEF Either
  <2>. QED  BY <2>1
<1>8. calc_distance(b, u) = d /\ calc_distance(b, v) = f
  <2>1. u \in Two /\ v \in Two  BY <1>4 DEF IsTwo
  <2>2. calc_distance(b, u) = Lack(u[0], a) + Lack(u[1], c) /\ calc_distance(b, v) = Lack(v[0], a) + Lack(v[1], c)
    BY <1>1, <2>1, TwoAway
  <2>. QED  BY <1>4, <1>5, <2>2
<1>9. P # {} /\ \A p \in P : calc_distance(b, p) \in Nat  BY <1>4, <1>6, <1>7
<1>10. /\ e.dist \in Nat
       /\ \A p \in P : e.dist <= calc_distance(b, p)
       /\ \E p \in P : e.dist = calc_distance(b, p)
       /\ \A j : j \in e.wait <=> j \in DOMAIN b /\ \E p \in P : e.dist = calc_distance(b, p) /\ p[j] > b[j]
       /\ \A j : j \in e.disc <=> j \in DOMAIN b /\ \E p \in P : e.dist = calc_distance(b, p) /\ p[j] < b[j]
  BY <1>1, <1>9, EntryDef
<1>11. e.dist \in Nat /\ e.dist <= d /\ e.dist <= f /\ (e.dist = d \/ e.dist = f)  BY <1>4, <1>7, <1>8, <1>10
<1>12. \A p \in P : (e.dist = calc_distance(b, p)) <=> (e.dist = d /\ p[0] = x /\ p[1] = y) \/ (e.dist = f /\ p[0] = y /\ p[1] = x)
  <2>1. x = y => d = f  BY <1>5
  <2>. QED  BY <1>7, <1>11, <2>1
<1>13. /\ 0 \in e.wait <=> (e.dist = d /\ x > a) \/ (e.dist = f /\ y > a)
       /\ 1 \in e.wait <=> (e.dist = d /\ y > c) \/ (e.dist = f /\ x > c)
       /\ 0 \in e.disc <=> (e.dist = d /\ x < a) \/ (e.dist = f /\ y < a)
       /\ 1 \in e.disc <=> (e.dist = d /\ y < c) \/ (e.dist = f /\ x < c)
  <2>1. 0 \in DOMAIN b /\ 1 \in DOMAIN b  BY <1>2
  <2>2. 0 \in e.wait <=> (e.dist = d /\ x > a) \/ (e.dist = f /\ y > a)  BY <1>2, <1>4, <1>10, <1>12, <2>1
  <2>3. 1 \in e.wait <=> (e.dist = d /\ y > c) \/ (e.dist = f /\ x > c)  BY <1>2, <1>4, <1>10, <1>12, <2>1
  <2>4. 0 \in e.disc <=> (e.dist = d /\ x < a) \/ (e.dist = f /\ y < a)  BY <1>2, <1>4, <1>10, <1>12, <2>1
  <2>5. 1 \in e.disc <=> (e.dist = d /\ y < c) \/ (e.dist = f /\ x < c)  BY <1>2, <1>4, <1>10, <1>12, <2>1
  <2>. QED  BY <2>2, <2>3, <2>4, <2>5
<1>14. \A j : (j \in e.wait => j = 0 \/ j = 1) /\ (j \in e.disc => j = 0 \/ j = 1)  BY <1>2, <1>10
<1>15. t.dist = e.dist /\ t.wait = {8 * k : k \in e.wait} /\ t.disc = {8 * k : k \in e.disc}
  BY <1>1 DEF InTable, Cell
<1>16. /\ t.wait \subseteq {0, 8} /\ t.disc \subseteq {0, 8}
       /\ 0 \in t.wait <=> 0 \in e.wait
       /\ 8 \in t.wait <=> 1 \in e.wait
       /\ 0 \in t.disc <=> 0 \in e.disc
       /\ 8 \in t.disc <=> 1 \in e.disc
  BY <1>14, <1>15
<1>17. CellFinds(t, a, c, x, y)  BY <1>5, <1>11, <1>13, <1>15, <1>16 DEF CellFinds, FindsBoth
<1>18. HasParts(t)  BY DEF HasParts, InTable, Cell
<1>. QED  BY <1>17, <1>18

\* Only one entry finds that.
LEMMA CellSame ==
  ASSUME NEW e, NEW t, NEW a, NEW c, NEW x, NEW y, CellFinds(e, a, c, x, y), CellFinds(t, a, c, x, y),
         Lack(x, a) + Lack(y, c) \in Nat, Lack(y, a) + Lack(x, c) \in Nat, HasParts(e), HasParts(t)
  PROVE  e = t
<1>1. PICK d, f : d = Lack(x, a) + Lack(y, c) /\ f = Lack(y, a) + Lack(x, c) /\ d \in Nat /\ f \in Nat  OBVIOUS
<1>2. e.dist = t.dist
  <2>1. e.dist \in Nat /\ e.dist <= d /\ e.dist <= f /\ (e.dist = d \/ e.dist = f)  BY <1>1 DEF CellFinds, FindsBoth
  <2>2. t.dist \in Nat /\ t.dist <= d /\ t.dist <= f /\ (t.dist = d \/ t.dist = f)  BY <1>1 DEF CellFinds, FindsBoth
  <2>. QED  BY <1>1, <2>1, <2>2
<1>3. /\ e.wait \subseteq {0, 8} /\ e.disc \subseteq {0, 8} /\ t.wait \subseteq {0, 8} /\ t.disc \subseteq {0, 8}
      /\ 0 \in e.wait <=> 0 \in t.wait
      /\ 8 \in e.wait <=> 8 \in t.wait
      /\ 0 \in e.disc <=> 0 \in t.disc
      /\ 8 \in e.disc <=> 8 \in t.disc
  BY <1>2 DEF CellFinds, FindsBoth
<1>4. e.wait = t.wait /\ e.disc = t.disc
  <2>1. \A j : (j \in e.wait <=> j \in t.wait) /\ (j \in e.disc <=> j \in t.disc)
    <3>1. ASSUME NEW j  PROVE (j \in e.wait <=> j \in t.wait) /\ (j \in e.disc <=> j \in t.disc)
      <4>1. CASE j = 0  BY <1>3, <4>1
      <4>2. CASE j = 8  BY <1>3, <4>2
      <4>3. CASE j \notin {0, 8}  BY <1>3, <4>3
      <4>. QED  BY <4>1, <4>2, <4>3
    <3>. QED  BY <3>1
  <2>. QED  BY <2>1
<1>5. e = Cell(e.dist, e.wait, e.disc) /\ t = Cell(t.dist, t.wait, t.disc)  BY DEF HasParts
<1>. QED  BY <1>2, <1>4, <1>5

LEMMA SanmaComputed ==
  ASSUME NEW a \in 0..4, NEW c \in 0..4, NEW i \in Indices(4), NEW P, P = WinPatterns(2, triplets(2))
  PROVE  sanma_manzu_table[1 + sanma_manzu_hash(a, c)][i] = InTable(Entry(TwoOf(a, c), P[i]))
<1>1. PICK row : row = sanma_manzu_table[1 + sanma_manzu_hash(a, c)]  OBVIOUS
<1>2. RowFinds(row, a, c)  BY <1>1, SanmaTable
<1>3. PICK t : t = InTable(Entry(TwoOf(a, c), P[i]))  OBVIOUS
<1>4. CASE i \in SanmaIndices
  <2>1. PICK x, y : x = First(i) /\ y = Second(i)  OBVIOUS
  <2>2. x \in 0..4 /\ y \in 0..4  BY <2>1 DEF First, Second
  <2>3. IsTwo(P[i], x, y)  BY <1>4, <2>1, SanmaPatterns
  <2>4. CellFinds(t, a, c, x, y) /\ HasParts(t)  BY <1>3, <2>2, <2>3, ComputedFinds
  <2>5. CellFinds(row[i], a, c, x, y) /\ HasParts(row[i])  BY <1>2, <1>4, <2>1 DEF RowFinds
  <2>6. Lack(x, a) + Lack(y, c) \in Nat /\ Lack(y, a) + Lack(x, c) \in Nat  BY <2>2 DEF Lack
  <2>7. row[i] = t  BY <2>4, <2>5, <2>6, CellSame
  <2>. QED  BY <1>1, <1>3, <2>7
<1>5. CASE i \notin SanmaIndices
  <2>1. P[i] = {}  BY <1>5, SanmaPatterns
  <2>2. Entry(TwoOf(a, c), P[i]) = Cell(TooFar, {}, {})  BY <2>1 DEF Entry, Cell
  <2>3. t = Cell(TooFar, {}, {})
    <3>1. {8 * k : k \in {}} = {}  OBVIOUS
    <3>2. PICK e : e = Cell(TooFar, {}, {})  OBVIOUS
    <3>3. e.dist = TooFar /\ e.wait = {} /\ e.disc = {}  BY <3>2 DEF Cell
    <3>. QED  BY <1>3, <2>2, <3>1, <3>2, <3>3 DEF InTable
  <2>4. row[i] = Cell(TooFar, {}, {})  BY <1>2, <1>5 DEF RowFinds
  <2>. QED  BY <1>1, <1>3, <2>3, <2>4
<1>. QED  BY <1>4, <1>5

\* The tile of a place, as the property names it.
Placed(kind, e) == [dist |-> e.dist, wait |-> {kind[k] : k \in e.wait}, disc |-> {kind[k] : k \in e.disc}]
Ninefold == [k \in {0, 1} |-> 8 * k]
TwoCounts(a, b) == [k \in {0, 1} |-> IF k = 0 THEN a ELSE b]

LEMMA SanmaUnfolded ==
  (\A a, b \in 0..4 : \A i \in Indices(4) :
     sanma_manzu_table[1 + sanma_manzu_hash(a, b)][i]
       = Placed(Ninefold, Entry(TwoCounts(a, b), WinPatterns(2, triplets(2))[i])))
  => SanmaTableIsComputed
BY Zenon DEF SanmaTableIsComputed, Placed, Ninefold, TwoCounts

\* The hand-written sanma table is the one that create_table computes.
THEOREM SanmaTableIsComputedCorrect == Spec => []SanmaTableIsComputed
<1>1. SanmaTableIsComputed
  <2>1. PICK P : P = WinPatterns(2, triplets(2))  OBVIOUS
  <2>2. ASSUME NEW a \in 0..4, NEW b \in 0..4, NEW i \in Indices(4)
        PROVE  sanma_manzu_table[1 + sanma_manzu_hash(a, b)][i] = Placed(Ninefold, Entry(TwoCounts(a, b), P[i]))
    <3>1. PICK e : e = Entry(TwoCounts(a, b), P[i])  OBVIOUS
    <3>2. TwoCounts(a, b) = TwoOf(a, b)
      <4>1. {0, 1} = 0..1  OBVIOUS
      <4>. QED  BY <4>1 DEF TwoCounts, TwoOf
    <3>3. sanma_manzu_table[1 + sanma_manzu_hash(a, b)][i] = InTable(e)  BY <2>1, <3>1, <3>2, SanmaComputed
    <3>4. e.wait \subseteq {0, 1} /\ e.disc \subseteq {0, 1}
      <4>1. DOMAIN TwoOf(a, b) = {0, 1}  BY DEF TwoOf
      <4>2. CASE P[i] = {}  BY <3>1, <3>2, <4>2 DEF Entry
      <4>3. CASE P[i] # {}  BY <3>1, <3>2, <4>1, <4>3 DEF Entry
      <4>. QED  BY <4>2, <4>3
    <3>5. Ninefold[0] = 8 * 0 /\ Ninefold[1] = 8 * 1  BY DEF Ninefold
    <3>6. {Ninefold[k] : k \in e.wait} = {8 * k : k \in e.wait} /\ {Ninefold[k] : k \in e.disc} = {8 * k : k \in e.disc}
      BY <3>4, <3>5
    <3>7. Placed(Ninefold, e) = InTable(e)  BY <3>6, Zenon DEF Placed, InTable, Cell
    <3>. QED  BY <3>1, <3>3, <3>7
  <2>. QED  BY <2>1, <2>2, SanmaUnfolded
<1>. QED  BY <1>1, PTL

-----------------------------------------------------------------------------
(* Hands that split into triplets, sequences and pairs.  The patterns of an*)
(* index are the counts of its size that split into groups and at most one *)
(* pair: a group more or less changes one kind, or three in a row.         *)

\* Triplets of T, pairs of Q, and s[k] sequences from k on, which start at tiles of V only.
Runs(s, k) == s[k] + s[k - 1] + s[k - 2]
Parts(k, T, Q) == (IF k \in T THEN 3 ELSE 0) + (IF k \in Q THEN 2 ELSE 0)
IsRuns(s, size, V) == s \in [-2..size - 1 -> Nat] /\ \A k \in -2..size - 1 : k \notin V => s[k] = 0
SplitBy(c, T, Q, s, size, V) ==
  /\ T \in SUBSET (0..size - 1) /\ IsRuns(s, size, V)
  /\ \A k \in 0..size - 1 : c[k] = Parts(k, T, Q) + Runs(s, k)
SplitWith(c, Q, size, V) == \E T, s : SplitBy(c, T, Q, s, size, V)
SplitGroups(size, V) == triplets(size) \cup {Of(size, k..k + 2, 1) : k \in V}
IsArea(size, V) == (size = 9 /\ V = 0..6) \/ (size = 7 /\ V = {})

SumOf(c, size) == c[0] + c[1] + c[2] + c[3] + c[4] + c[5] + c[6] + (IF size = 9 THEN c[7] + c[8] ELSE 0)
Exactly(M, size, V, g) ==
  /\ M \subseteq Patterns4(0..size - 1)
  /\ \A c \in Patterns4(0..size - 1) : c \in M <=> SplitWith(c, {}, size, V) /\ SumOf(c, size) = 3 * g

AreSums(u, v, w, size) == \A k \in 0..size - 1 : v[k] \in Int /\ w[k] \in Int /\ u[k] = v[k] + w[k]
LEMMA SumAdds ==
  ASSUME NEW size \in {7, 9}, NEW u, NEW v, NEW w, AreSums(u, v, w, size)
  PROVE  SumOf(u, size) = SumOf(v, size) + SumOf(w, size) /\ SumOf(v, size) \in Int /\ SumOf(w, size) \in Int
<1>1. CASE size = 7
  <2>1. \A k \in {0, 1, 2, 3, 4, 5, 6} : v[k] \in Int /\ w[k] \in Int /\ u[k] = v[k] + w[k]  BY <1>1 DEF AreSums
  <2>. QED  BY <1>1, <2>1 DEF SumOf
<1>2. CASE size = 9
  <2>1. \A k \in {0, 1, 2, 3, 4, 5, 6, 7, 8} : v[k] \in Int /\ w[k] \in Int /\ u[k] = v[k] + w[k]  BY <1>2 DEF AreSums
  <2>. QED  BY <1>2, <2>1 DEF SumOf
<1>. QED  BY <1>1, <1>2

LEMMA SumTriples ==
  ASSUME NEW size \in {7, 9}, NEW t, NEW x, \A k \in 0..size - 1 : x[k] \in Int /\ t[k] = 3 * x[k]
  PROVE  \E a \in Int : SumOf(t, size) = 3 * a
<1>1. PICK y : y = [k \in 0..size - 1 |-> 2 * x[k]]  OBVIOUS
<1>2. AreSums(y, x, x, size)  BY <1>1 DEF AreSums
<1>3. AreSums(t, x, y, size)  BY <1>1 DEF AreSums
<1>4. SumOf(y, size) = SumOf(x, size) + SumOf(x, size) /\ SumOf(x, size) \in Int  BY <1>2, SumAdds
<1>5. SumOf(t, size) = SumOf(x, size) + SumOf(y, size)  BY <1>3, SumAdds
<1>6. SumOf(t, size) = 3 * SumOf(x, size)  BY <1>4, <1>5
<1>. QED  BY <1>4, <1>6

LEMMA SumOne ==
  ASSUME NEW size \in {7, 9}, NEW n \in 0..size - 1, NEW x \in Int, NEW u, \A k \in 0..size - 1 : u[k] = IF k = n THEN x ELSE 0
  PROVE  SumOf(u, size) = x
<1>1. CASE size = 7
  <2>1. \A k \in {0, 1, 2, 3, 4, 5, 6} : u[k] = IF k = n THEN x ELSE 0  BY <1>1
  <2>2. n = 0 \/ n = 1 \/ n = 2 \/ n = 3 \/ n = 4 \/ n = 5 \/ n = 6  BY <1>1
  <2>. QED  BY <1>1, <2>1, <2>2 DEF SumOf
<1>2. CASE size = 9
  <2>1. \A k \in {0, 1, 2, 3, 4, 5, 6, 7, 8} : u[k] = IF k = n THEN x ELSE 0  BY <1>2
  <2>2. n = 0 \/ n = 1 \/ n = 2 \/ n = 3 \/ n = 4 \/ n = 5 \/ n = 6 \/ n = 7 \/ n = 8  BY <1>2
  <2>. QED  BY <1>2, <2>1, <2>2 DEF SumOf
<1>. QED  BY <1>1, <1>2

LEMMA NoneOfSeven ==
  ASSUME NEW u, u[0] \in Nat /\ u[1] \in Nat /\ u[2] \in Nat /\ u[3] \in Nat /\ u[4] \in Nat /\ u[5] \in Nat /\ u[6] \in Nat
  PROVE  /\ u[0] + u[1] + u[2] + u[3] + u[4] + u[5] + u[6] \in Nat
         /\ u[0] + u[1] + u[2] + u[3] + u[4] + u[5] + u[6] = 0 <=> u[0] = 0 /\ u[1] = 0 /\ u[2] = 0 /\ u[3] = 0 /\ u[4] = 0 /\ u[5] = 0 /\ u[6] = 0
<1>5. PICK w \in Nat : w = u[0]  OBVIOUS
<1>1. PICK x \in Nat : x = w + u[1] + u[2] /\ (x = 0 <=> w = 0 /\ u[1] = 0 /\ u[2] = 0)  OBVIOUS
<1>2. PICK y \in Nat : y = x + u[3] + u[4] /\ (y = 0 <=> x = 0 /\ u[3] = 0 /\ u[4] = 0)  OBVIOUS
<1>3. PICK z \in Nat : z = y + u[5] + u[6] /\ (z = 0 <=> y = 0 /\ u[5] = 0 /\ u[6] = 0)  OBVIOUS
<1>4. z = u[0] + u[1] + u[2] + u[3] + u[4] + u[5] + u[6]  BY <1>1, <1>2, <1>3, <1>5
<1>. QED  BY <1>1, <1>2, <1>3, <1>4, <1>5

LEMMA SumNone ==
  ASSUME NEW size \in {7, 9}, NEW u, \A k \in 0..size - 1 : u[k] \in Nat
  PROVE  /\ SumOf(u, size) \in Nat
         /\ SumOf(u, size) = 0 <=> \A k \in 0..size - 1 : u[k] = 0
<1>1. CASE size = 7
  <2>1. 0..size - 1 = {0, 1, 2, 3, 4, 5, 6}  BY <1>1
  <2>2. u[0] \in Nat /\ u[1] \in Nat /\ u[2] \in Nat /\ u[3] \in Nat /\ u[4] \in Nat /\ u[5] \in Nat /\ u[6] \in Nat
    BY <2>1
  <2>3. (\A k \in 0..size - 1 : u[k] = 0)
          <=> u[0] = 0 /\ u[1] = 0 /\ u[2] = 0 /\ u[3] = 0 /\ u[4] = 0 /\ u[5] = 0 /\ u[6] = 0
    BY <2>1
  <2>4. SumOf(u, size) = u[0] + u[1] + u[2] + u[3] + u[4] + u[5] + u[6] + 0  BY <1>1 DEF SumOf
  <2>5. /\ u[0] + u[1] + u[2] + u[3] + u[4] + u[5] + u[6] \in Nat
        /\ u[0] + u[1] + u[2] + u[3] + u[4] + u[5] + u[6] = 0 <=> u[0] = 0 /\ u[1] = 0 /\ u[2] = 0 /\ u[3] = 0 /\ u[4] = 0 /\ u[5] = 0 /\ u[6] = 0
    BY ONLY <2>2, NoneOfSeven, Zenon
  <2>. QED  BY <2>3, <2>4, <2>5
<1>2. CASE size = 9
  <2>1. 0..size - 1 = {0, 1, 2, 3, 4, 5, 6, 7, 8}  BY <1>2
  <2>2. /\ u[0] \in Nat /\ u[1] \in Nat /\ u[2] \in Nat /\ u[3] \in Nat /\ u[4] \in Nat /\ u[5] \in Nat /\ u[6] \in Nat
        /\ u[7] \in Nat /\ u[8] \in Nat
    BY <2>1
  <2>3. (\A k \in 0..size - 1 : u[k] = 0)
          <=> /\ u[0] = 0 /\ u[1] = 0 /\ u[2] = 0 /\ u[3] = 0 /\ u[4] = 0 /\ u[5] = 0 /\ u[6] = 0
              /\ u[7] = 0 /\ u[8] = 0
    BY <2>1
  <2>4. SumOf(u, size) = u[0] + u[1] + u[2] + u[3] + u[4] + u[5] + u[6] + (u[7] + u[8])  BY <1>2 DEF SumOf
  <2>5. /\ u[0] + u[1] + u[2] + u[3] + u[4] + u[5] + u[6] \in Nat
        /\ u[0] + u[1] + u[2] + u[3] + u[4] + u[5] + u[6] = 0 <=> u[0] = 0 /\ u[1] = 0 /\ u[2] = 0 /\ u[3] = 0 /\ u[4] = 0 /\ u[5] = 0 /\ u[6] = 0
    BY ONLY <2>2, NoneOfSeven, Zenon
  <2>6. PICK y \in Nat : y = u[0] + u[1] + u[2] + u[3] + u[4] + u[5] + u[6]  BY <2>5
  <2>7. SumOf(u, size) \in Nat /\ (SumOf(u, size) = 0 <=> y = 0 /\ u[7] = 0 /\ u[8] = 0)
    <3>1. PICK a, b \in Nat : a = u[7] /\ b = u[8]  BY <2>2
    <3>2. SumOf(u, size) = y + (a + b)  BY <2>4, <2>6, <3>1
    <3>3. y + (a + b) \in Nat /\ (y + (a + b) = 0 <=> y = 0 /\ a = 0 /\ b = 0)  BY ONLY y \in Nat, a \in Nat, b \in Nat
    <3>. QED  BY ONLY <3>1, <3>2, <3>3
  <2>. QED  BY ONLY <2>3, <2>5, <2>6, <2>7
<1>. QED  BY <1>1, <1>2

LEMMA RunSum ==
  ASSUME NEW size, NEW V, IsArea(size, V), NEW n \in V, NEW u,
         \A k \in 0..size - 1 : u[k] = IF k \in n..n + 2 THEN 1 ELSE 0
  PROVE  SumOf(u, size) = 3
<1>1. size = 9 /\ n \in 0..6  BY DEF IsArea
<1>2. n = 0 \/ n = 1 \/ n = 2 \/ n = 3 \/ n = 4 \/ n = 5 \/ n = 6  BY <1>1
<1>3. \A k \in {0, 1, 2, 3, 4, 5, 6, 7, 8} : u[k] = IF n <= k /\ k <= n + 2 THEN 1 ELSE 0  BY <1>1
<1>. QED  BY <1>1, <1>2, <1>3 DEF SumOf

LEMMA NoGroups ==
  ASSUME NEW size, NEW V, IsArea(size, V)
  PROVE  Exactly({Zero(size)}, size, V, 0)
<1>1. size \in {7, 9}  BY DEF IsArea
<1>5. PICK z : z = Zero(size)  OBVIOUS
<1>2. z = Zero(size) /\ z \in Patterns4(0..size - 1) /\ \A k \in 0..size - 1 : z[k] = 0
  <2>1. z = [k \in 0..size - 1 |-> 0]  BY <1>5 DEF Zero, Of
  <2>. QED  BY <1>5, <2>1 DEF Patterns4
<1>3. SplitWith(z, {}, size, V) /\ SumOf(z, size) = 0
  <2>1. PICK s : s = [k \in -2..size - 1 |-> 0]  OBVIOUS
  <2>2. IsRuns(s, size, V) /\ \A k \in 0..size - 1 : Runs(s, k) = 0  BY <1>1, <2>1 DEF IsRuns, Runs
  <2>3. SplitBy(z, {}, {}, s, size, V)  BY <1>2, <2>2 DEF SplitBy, Parts
  <2>. QED  BY <1>1, <1>2, <2>3, SumNone DEF SplitWith
<1>4. ASSUME NEW c \in Patterns4(0..size - 1), SumOf(c, size) = 0  PROVE c = z
  <2>1. \A k \in 0..size - 1 : c[k] \in Nat  BY DEF Patterns4
  <2>2. \A k \in 0..size - 1 : c[k] = 0  BY <1>1, <1>4, <2>1, SumNone
  <2>3. c = [k \in 0..size - 1 |-> c[k]] /\ z = [k \in 0..size - 1 |-> z[k]]  BY <1>2 DEF Patterns4
  <2>4. \A k \in 0..size - 1 : c[k] = z[k]  BY <1>2, <2>2
  <2>. QED  BY <2>3, <2>4
<1>. QED  BY <1>2, <1>3, <1>4 DEF Exactly

\* So many more sequences from one tile on.
RunsFrom(s, t, n, x, size) ==
  /\ s \in [-2..size - 1 -> Nat] /\ t \in [-2..size - 1 -> Nat] /\ t[n] = s[n] + x
  /\ \A k \in -2..size - 1 : k # n => t[k] = s[k]
RunsOf(s, t, n, x, size) ==
  \A k \in 0..size - 1 : /\ Runs(s, k) \in Nat /\ Runs(t, k) \in Nat
                         /\ Runs(t, k) = Runs(s, k) + (IF k \in n..n + 2 THEN x ELSE 0)
LEMMA RunsChanged ==
  ASSUME NEW size \in {7, 9}, NEW s, NEW n \in 0..size - 1, NEW x \in Int, NEW t, RunsFrom(s, t, n, x, size)
  PROVE  RunsOf(s, t, n, x, size)
<1>1. PICK D : D = -2..size - 1  OBVIOUS
<1>2. n \in D /\ n \in Int /\ D \subseteq Int  BY <1>1
<1>3. s \in [D -> Nat]  BY <1>1 DEF RunsFrom
<1>4. t \in [D -> Nat] /\ t[n] = s[n] + x /\ \A k \in D : k # n => t[k] = s[k]  BY <1>1 DEF RunsFrom
<1>6. ASSUME NEW k \in D  PROVE s[k] \in Nat /\ t[k] \in Nat /\ t[k] = s[k] + (IF k = n THEN x ELSE 0)
  <2>1. s[k] \in Nat /\ t[k] \in Nat  BY <1>3, <1>4
  <2>2. k = n => t[k] = s[k] + x  BY <1>4
  <2>3. k # n => t[k] = s[k]  BY <1>4
  <2>. QED  BY <2>1, <2>2, <2>3
<1>5. ASSUME NEW k \in 0..size - 1
      PROVE  /\ Runs(s, k) \in Nat /\ Runs(t, k) \in Nat
             /\ Runs(t, k) = Runs(s, k) + (IF k \in n..n + 2 THEN x ELSE 0)
  <2>1. k \in D /\ k - 1 \in D /\ k - 2 \in D /\ k \in Int  BY <1>1
  <2>2. PICK a, b, c, d, e, f \in Nat :
          a = s[k] /\ b = s[k - 1] /\ c = s[k - 2] /\ d = t[k] /\ e = t[k - 1] /\ f = t[k - 2]
    BY ONLY <1>6, <2>1, Zenon
  <2>4. d = a + (IF k = n THEN x ELSE 0) /\ e = b + (IF k - 1 = n THEN x ELSE 0) /\ f = c + (IF k - 2 = n THEN x ELSE 0)
    BY ONLY <1>6, <2>1, <2>2, Zenon
  <2>5. Runs(s, k) = a + b + c /\ Runs(t, k) = d + e + f  BY ONLY <2>2, Zenon DEF Runs
  <2>6. k \in n..n + 2 <=> k = n \/ k - 1 = n \/ k - 2 = n  BY ONLY <1>2, <2>1
  <2>7. d + e + f = a + b + c + (IF k = n \/ k - 1 = n \/ k - 2 = n THEN x ELSE 0)
    BY ONLY <1>2, <2>1, <2>2, <2>4, x \in Int
  <2>8. Runs(s, k) \in Nat /\ Runs(t, k) \in Nat  BY ONLY <2>2, <2>5
  <2>. QED  BY ONLY <2>5, <2>6, <2>7, <2>8, Zenon
<1>. QED  BY <1>5 DEF RunsOf

LEMMA RunsType ==
  ASSUME NEW size \in {7, 9}, NEW s \in [-2..size - 1 -> Nat], NEW k \in 0..size - 1
  PROVE  Runs(s, k) \in Nat
<1>1. k \in -2..size - 1 /\ k - 1 \in -2..size - 1 /\ k - 2 \in -2..size - 1  OBVIOUS
<1>2. s[k] \in Nat /\ s[k - 1] \in Nat /\ s[k - 2] \in Nat  BY <1>1
<1>. QED  BY <1>2 DEF Runs

\* One group more.
LEMMA GroupAdded ==
  ASSUME NEW size, NEW V, IsArea(size, V), NEW p \in Patterns4(0..size - 1), NEW q \in SplitGroups(size, V),
         NEW r \in Patterns4(0..size - 1), \A k \in 0..size - 1 : r[k] = p[k] + q[k], SplitWith(p, {}, size, V)
  PROVE  SplitWith(r, {}, size, V) /\ SumOf(r, size) = SumOf(p, size) + 3
<1>. DEFINE X == 0..size - 1
<1>1. size \in {7, 9} /\ V \subseteq 0..size - 3  BY DEF IsArea
<1>2. \A k \in X : p[k] \in 0..4 /\ r[k] \in 0..4  BY DEF Patterns4
<1>3. PICK T, s : SplitBy(p, T, {}, s, size, V)  BY DEF SplitWith
<1>4. T \in SUBSET X /\ s \in [-2..size - 1 -> Nat] /\ IsRuns(s, size, V)  BY <1>3 DEF SplitBy, IsRuns
<1>7. \A k \in X : Runs(s, k) \in Nat  BY <1>1, <1>4, RunsType
<1>8. \A k \in X : p[k] = (IF k \in T THEN 3 ELSE 0) + Runs(s, k)  BY <1>3, <1>7 DEF SplitBy, Parts
<1>9. ASSUME \A k \in X : q[k] \in Int, SumOf(q, size) = 3  PROVE SumOf(r, size) = SumOf(p, size) + 3
  <2>1. AreSums(r, p, q, size)  BY <1>2, <1>9 DEF AreSums
  <2>2. SumOf(r, size) = SumOf(p, size) + SumOf(q, size)  BY <1>1, <2>1, SumAdds
  <2>. QED  BY <1>9, <2>2
<1>5. CASE q \in triplets(size)
  <2>1. PICK n \in X : \A k \in X : q[k] = IF k = n THEN 3 ELSE 0  BY <1>5 DEF triplets, Of
  <2>2. n \notin T
    <3>1. Runs(s, n) \in Nat /\ q[n] = 3 /\ r[n] = p[n] + q[n] /\ r[n] \in 0..4 /\ p[n] \in 0..4  BY <1>2, <1>7, <2>1
    <3>2. p[n] = (IF n \in T THEN 3 ELSE 0) + Runs(s, n)  BY <1>8
    <3>. QED  BY <3>1, <3>2
  <2>3. SplitBy(r, T \cup {n}, {}, s, size, V)
    <3>1. T \cup {n} \in SUBSET X  BY <1>4
    <3>2. ASSUME NEW k \in X  PROVE r[k] = Parts(k, T \cup {n}, {}) + Runs(s, k)
      <4>1. PICK x \in Nat : x = Runs(s, k)  BY <1>7
      <4>2. p[k] = (IF k \in T THEN 3 ELSE 0) + x /\ r[k] = p[k] + (IF k = n THEN 3 ELSE 0)  BY <1>8, <2>1, <4>1
      <4>3. r[k] = (IF k \in T \cup {n} THEN 3 ELSE 0) + x  BY <2>2, <4>2
      <4>. QED  BY <4>1, <4>3 DEF Parts
    <3>. QED  BY <1>4, <3>1, <3>2 DEF SplitBy
  <2>4. SumOf(r, size) = SumOf(p, size) + 3
    <3>1. SumOf(q, size) = 3  BY <1>1, <2>1, SumOne
    <3>. QED  BY <1>9, <2>1, <3>1
  <2>. QED  BY <2>3, <2>4 DEF SplitWith
<1>6. CASE q \notin triplets(size)
  <2>1. PICK n \in V : \A k \in X : q[k] = IF k \in n..n + 2 THEN 1 ELSE 0
    <3>1. PICK n \in V : q = Of(size, n..n + 2, 1)  BY <1>6 DEF SplitGroups
    <3>. QED  BY <3>1 DEF Of
  <2>2. n \in 0..size - 1 /\ s[n] \in Nat /\ s[n] + 1 >= 0  BY <1>1, <1>4
  <2>9. PICK x \in Int : x = 1  OBVIOUS
  <2>3. PICK t : t = [s EXCEPT ![n] = @ + x]  OBVIOUS
  <2>4. /\ t \in [-2..size - 1 -> Nat] /\ \A k \in -2..size - 1 : k # n => t[k] = s[k]
        /\ \A k \in X : Runs(t, k) = Runs(s, k) + (IF k \in n..n + 2 THEN x ELSE 0) /\ Runs(t, k) \in Nat
    <3>1. s[n] + x \in Nat  BY <2>2, <2>9
    <3>2. n \in -2..size - 1  BY <1>1, <2>2
    <3>3. RunsFrom(s, t, n, x, size)  BY <1>4, <2>3, <3>1, <3>2, Zenon DEF RunsFrom
    <3>4. RunsOf(s, t, n, x, size)  BY <1>1, <2>2, <3>3, RunsChanged
    <3>. QED  BY <3>3, <3>4, Zenon DEF RunsFrom, RunsOf
  <2>5. IsRuns(t, size, V)  BY <1>4, <2>4 DEF IsRuns
  <2>6. ASSUME NEW k \in X  PROVE r[k] = Parts(k, T, {}) + Runs(t, k)
    <3>1. PICK y, z \in Nat : z = Runs(s, k) /\ y = Runs(t, k) /\ y = z + q[k]  BY <1>7, <2>1, <2>4, <2>9
    <3>2. p[k] = (IF k \in T THEN 3 ELSE 0) + z /\ r[k] = p[k] + q[k] /\ q[k] \in Int  BY <1>8, <2>1, <3>1
    <3>3. r[k] = (IF k \in T THEN 3 ELSE 0) + y  BY <3>1, <3>2
    <3>. QED  BY <3>1, <3>3 DEF Parts
  <2>7. SplitBy(r, T, {}, t, size, V)  BY <1>4, <2>5, <2>6 DEF SplitBy
  <2>8. SumOf(r, size) = SumOf(p, size) + 3
    <3>1. SumOf(q, size) = 3  BY <2>1, RunSum
    <3>. QED  BY <1>9, <2>1, <3>1
  <2>. QED  BY <2>7, <2>8 DEF SplitWith
<1>. QED  BY <1>5, <1>6

\* One group less.
LEMMA GroupTaken ==
  ASSUME NEW size, NEW V, IsArea(size, V), NEW r \in Patterns4(0..size - 1), SplitWith(r, {}, size, V),
         SumOf(r, size) # 0
  PROVE  \E p \in Patterns4(0..size - 1), q \in SplitGroups(size, V) :
           SplitWith(p, {}, size, V) /\ \A k \in 0..size - 1 : r[k] = p[k] + q[k]
<1>. DEFINE X == 0..size - 1
<1>1. size \in {7, 9} /\ V \subseteq 0..size - 3  BY DEF IsArea
<1>2. \A k \in X : r[k] \in 0..4  BY DEF Patterns4
<1>3. PICK T, s : SplitBy(r, T, {}, s, size, V)  BY DEF SplitWith
<1>4. T \in SUBSET X /\ s \in [-2..size - 1 -> Nat] /\ IsRuns(s, size, V)  BY <1>3 DEF SplitBy, IsRuns
<1>7. \A k \in X : Runs(s, k) \in Nat  BY <1>1, <1>4, RunsType
<1>8. \A k \in X : r[k] = (IF k \in T THEN 3 ELSE 0) + Runs(s, k)  BY <1>3, <1>7 DEF SplitBy, Parts
<1>9. ASSUME NEW q \in SplitGroups(size, V), NEW U \in SUBSET X, NEW t, IsRuns(t, size, V),
             \A k \in X : q[k] \in Nat /\ Runs(t, k) \in Nat /\ r[k] = (IF k \in U THEN 3 ELSE 0) + Runs(t, k) + q[k]
      PROVE  \E p \in Patterns4(X), g \in SplitGroups(size, V) :
               SplitWith(p, {}, size, V) /\ \A k \in X : r[k] = p[k] + g[k]
  <2>1. PICK p : p = [k \in X |-> r[k] - q[k]]  OBVIOUS
  <2>2. ASSUME NEW k \in X
        PROVE  p[k] \in 0..4 /\ p[k] = Parts(k, U, {}) + Runs(t, k) /\ r[k] = p[k] + q[k]
    <3>1. PICK x, y \in Nat : x = Runs(t, k) /\ y = q[k] /\ r[k] = (IF k \in U THEN 3 ELSE 0) + x + y  BY <1>9
    <3>2. p[k] = r[k] - y  BY <2>1, <3>1
    <3>3. p[k] = (IF k \in U THEN 3 ELSE 0) + x /\ p[k] \in 0..4 /\ r[k] = p[k] + y  BY <1>2, <3>1, <3>2
    <3>. QED  BY <3>1, <3>3 DEF Parts
  <2>3. p \in Patterns4(X)  BY <2>1, <2>2 DEF Patterns4
  <2>4. SplitBy(p, U, {}, t, size, V)  BY <1>9, <2>2 DEF SplitBy
  <2>. QED  BY <1>9, <2>2, <2>3, <2>4 DEF SplitWith
<1>5. ASSUME NEW n \in T
      PROVE  \E p \in Patterns4(X), q \in SplitGroups(size, V) :
               SplitWith(p, {}, size, V) /\ \A k \in X : r[k] = p[k] + q[k]
  <2>1. PICK q : q = Of(size, {n}, 3)  OBVIOUS
  <2>2. q \in SplitGroups(size, V) /\ \A k \in X : q[k] = IF k = n THEN 3 ELSE 0
    BY <1>4, <2>1 DEF SplitGroups, triplets, Of
  <2>3. ASSUME NEW k \in X
        PROVE  q[k] \in Nat /\ r[k] = (IF k \in T \ {n} THEN 3 ELSE 0) + Runs(s, k) + q[k]
    <3>1. PICK x \in Nat : x = Runs(s, k)  BY <1>7
    <3>2. r[k] = (IF k \in T THEN 3 ELSE 0) + x  BY <1>8, <3>1
    <3>3. r[k] = (IF k \in T \ {n} THEN 3 ELSE 0) + x + (IF k = n THEN 3 ELSE 0)  BY <3>2
    <3>. QED  BY <2>2, <3>1, <3>3
  <2>4. T \ {n} \in SUBSET X  BY <1>4
  <2>5. \A k \in X : q[k] \in Nat /\ Runs(s, k) \in Nat /\ r[k] = (IF k \in T \ {n} THEN 3 ELSE 0) + Runs(s, k) + q[k]
    BY <1>7, <2>3
  <2>. QED  BY ONLY <1>4, <1>9, <2>2, <2>4, <2>5, Zenon
<1>6. ASSUME NEW n \in V, s[n] # 0
      PROVE  \E p \in Patterns4(X), q \in SplitGroups(size, V) :
               SplitWith(p, {}, size, V) /\ \A k \in X : r[k] = p[k] + q[k]
  <2>1. PICK q : q = Of(size, n..n + 2, 1)  OBVIOUS
  <2>2. n \in 0..size - 1 /\ s[n] \in Nat /\ s[n] > 0  BY <1>1, <1>4, <1>6
  <2>3. q \in SplitGroups(size, V) /\ \A k \in X : q[k] = IF k \in n..n + 2 THEN 1 ELSE 0
    BY <2>1 DEF SplitGroups, Of
  <2>9. PICK x \in Int : x = -1  OBVIOUS
  <2>4. PICK t : t = [s EXCEPT ![n] = @ + x]  OBVIOUS
  <2>5. /\ t \in [-2..size - 1 -> Nat] /\ \A k \in -2..size - 1 : k # n => t[k] = s[k]
        /\ \A k \in X : Runs(t, k) = Runs(s, k) + (IF k \in n..n + 2 THEN x ELSE 0) /\ Runs(t, k) \in Nat
    <3>1. s[n] + x \in Nat  BY <2>2, <2>9
    <3>2. n \in -2..size - 1  BY <1>1, <2>2
    <3>3. RunsFrom(s, t, n, x, size)  BY <1>4, <2>4, <3>1, <3>2, Zenon DEF RunsFrom
    <3>4. RunsOf(s, t, n, x, size)  BY <1>1, <2>2, <3>3, RunsChanged
    <3>. QED  BY <3>3, <3>4, Zenon DEF RunsFrom, RunsOf
  <2>6. IsRuns(t, size, V)  BY <1>4, <2>5 DEF IsRuns
  <2>7. ASSUME NEW k \in X
        PROVE  q[k] \in Nat /\ r[k] = (IF k \in T THEN 3 ELSE 0) + Runs(t, k) + q[k]
    <3>1. PICK y, z \in Nat : y = Runs(s, k) /\ z = Runs(t, k) /\ z = y + (IF k \in n..n + 2 THEN x ELSE 0)
      BY <1>7, <2>5
    <3>2. r[k] = (IF k \in T THEN 3 ELSE 0) + y  BY <1>8, <3>1
    <3>. QED  BY <2>3, <2>9, <3>1, <3>2
  <2>8. \A k \in X : q[k] \in Nat /\ Runs(t, k) \in Nat /\ r[k] = (IF k \in T THEN 3 ELSE 0) + Runs(t, k) + q[k]
    BY <2>5, <2>7
  <2>. QED  BY ONLY <1>4, <1>9, <2>3, <2>6, <2>8, Zenon
<1>10. CASE T = {} /\ \A n \in V : s[n] = 0
  <2>1. \A k \in -2..size - 1 : s[k] = 0  BY <1>4, <1>10 DEF IsRuns
  <2>2. ASSUME NEW k \in X  PROVE r[k] = 0
    <3>1. k \in -2..size - 1 /\ k - 1 \in -2..size - 1 /\ k - 2 \in -2..size - 1  BY <1>1
    <3>2. Runs(s, k) = 0  BY <2>1, <3>1 DEF Runs
    <3>. QED  BY <1>8, <1>10, <3>2
  <2>3. \A k \in 0..size - 1 : r[k] \in Nat /\ r[k] = 0  BY <2>2
  <2>. QED  BY <1>1, <2>3, SumNone
<1>. QED  BY <1>5, <1>6, <1>10

LEMMA SplitGroupsFit ==
  ASSUME NEW size, NEW V, IsArea(size, V)
  PROVE  size \in {7, 9} /\ SplitGroups(size, V) \subseteq Patterns4(0..size - 1)
<1>1. \A K : Of(size, K, 3) \in [0..size - 1 -> 0..4] /\ Of(size, K, 1) \in [0..size - 1 -> 0..4]
  BY DEF Of
<1>2. ASSUME NEW q \in SplitGroups(size, V)  PROVE q \in [0..size - 1 -> 0..4]
  <2>1. \E K : q = Of(size, K, 3) \/ q = Of(size, K, 1)  BY DEF SplitGroups, triplets
  <2>. QED  BY <1>1, <2>1
<1>. QED  BY <1>2 DEF IsArea, Patterns4

LEMMA GroupsGrow ==
  ASSUME NEW size, NEW V, IsArea(size, V), NEW g \in 0..3, NEW M, Exactly(M, size, V, g)
  PROVE  Exactly(With(M, SplitGroups(size, V)), size, V, g + 1)
<1>. DEFINE X == 0..size - 1
<1>. DEFINE N == With(M, SplitGroups(size, V))
<1>1. size \in Nat /\ size \in {7, 9} /\ M \subseteq Patterns4(X) /\ SplitGroups(size, V) \subseteq Patterns4(X)
  BY SplitGroupsFit DEF Exactly
<1>2. \A r : r \in N <=> r \in Patterns4(X) /\ \E p \in M, q \in SplitGroups(size, V) : \A k \in X : r[k] = p[k] + q[k]
  BY <1>1, WithIs
<1>6. ASSUME NEW r \in Patterns4(X)  PROVE SumOf(r, size) \in Nat
  <2>1. \A k \in 0..size - 1 : r[k] \in Nat  BY DEF Patterns4
  <2>. QED  BY <1>1, <2>1, SumNone
<1>3. ASSUME NEW r \in N  PROVE SplitWith(r, {}, size, V) /\ SumOf(r, size) = 3 * (g + 1)
  <2>1. PICK p \in M, q \in SplitGroups(size, V) : \A k \in X : r[k] = p[k] + q[k]  BY <1>2
  <2>2. p \in Patterns4(X) /\ r \in Patterns4(X)  BY <1>1, <1>2
  <2>3. SplitWith(p, {}, size, V) /\ SumOf(p, size) = 3 * g  BY <2>2 DEF Exactly
  <2>4. SplitWith(r, {}, size, V) /\ SumOf(r, size) = SumOf(p, size) + 3  BY <2>1, <2>2, <2>3, GroupAdded
  <2>. QED  BY <2>3, <2>4
<1>4. ASSUME NEW r \in Patterns4(X), SplitWith(r, {}, size, V), SumOf(r, size) = 3 * (g + 1)
      PROVE  r \in N
  <2>1. SumOf(r, size) # 0  BY <1>4
  <2>2. PICK p \in Patterns4(X), q \in SplitGroups(size, V) :
          SplitWith(p, {}, size, V) /\ \A k \in X : r[k] = p[k] + q[k]
    BY <1>4, <2>1, GroupTaken
  <2>3. SumOf(r, size) = SumOf(p, size) + 3  BY <2>2, GroupAdded
  <2>4. SumOf(p, size) = 3 * g  BY <1>4, <1>6, <2>3
  <2>5. p \in M  BY <2>2, <2>4 DEF Exactly
  <2>. QED  BY <1>2, <2>2, <2>5
<1>5. N \subseteq Patterns4(X)  BY <1>2
<1>. QED  BY <1>3, <1>4, <1>5 DEF Exactly

LEMMA PairAdded ==
  ASSUME NEW size, NEW V, IsArea(size, V), NEW g \in 0..4, NEW M, Exactly(M, size, V, g), NEW r \in Patterns4(0..size - 1)
  PROVE  r \in With(M, LocalPairs(size)) <=> \E k \in 0..size - 1 : SplitWith(r, {k}, size, V) /\ SumOf(r, size) = 3 * g + 2
<1>. DEFINE X == 0..size - 1
<1>1. size \in Nat /\ size \in {7, 9} /\ M \subseteq Patterns4(X)  BY DEF Exactly, IsArea
<1>2. LocalPairs(size) \subseteq Patterns4(X)
  <2>1. ASSUME NEW p \in LocalPairs(size)  PROVE p \in Patterns4(X)
    <3>1. PICK k : p = Of(size, {k}, 2)  BY DEF LocalPairs
    <3>. QED  BY <3>1 DEF Of, Patterns4
  <2>. QED  BY <2>1
<1>3. r \in With(M, LocalPairs(size)) <=> \E p \in M, q \in LocalPairs(size) : \A k \in X : r[k] = p[k] + q[k]
  BY <1>1, <1>2, WithIs
<1>4. ASSUME NEW n \in X, NEW p \in Patterns4(X), \A k \in X : r[k] = p[k] + (IF k = n THEN 2 ELSE 0)
      PROVE  SumOf(r, size) = SumOf(p, size) + 2 /\ SumOf(p, size) \in Int
  <2>1. PICK q : q = [k \in X |-> IF k = n THEN 2 ELSE 0]  OBVIOUS
  <2>2. \A k \in 0..size - 1 : q[k] = IF k = n THEN 2 ELSE 0  BY <2>1
  <2>3. AreSums(r, p, q, size)  BY <1>4, <2>2 DEF Patterns4, AreSums
  <2>4. SumOf(q, size) = 2  BY <1>1, <2>2, SumOne
  <2>5. SumOf(r, size) = SumOf(p, size) + SumOf(q, size) /\ SumOf(p, size) \in Int  BY <1>1, <2>3, SumAdds
  <2>. QED  BY <2>4, <2>5
<1>5. ASSUME NEW p \in M, NEW q \in LocalPairs(size), \A k \in X : r[k] = p[k] + q[k]
      PROVE  \E k \in X : SplitWith(r, {k}, size, V) /\ SumOf(r, size) = 3 * g + 2
  <2>1. PICK n \in X : \A k \in X : q[k] = IF k = n THEN 2 ELSE 0  BY DEF LocalPairs, Of
  <2>2. p \in Patterns4(X) /\ SplitWith(p, {}, size, V) /\ SumOf(p, size) = 3 * g  BY <1>1 DEF Exactly
  <2>3. \A k \in X : r[k] = p[k] + (IF k = n THEN 2 ELSE 0)  BY <1>5, <2>1
  <2>4. SumOf(r, size) = 3 * g + 2  BY <1>4, <2>2, <2>3
  <2>5. PICK T, s : SplitBy(p, T, {}, s, size, V)  BY <2>2 DEF SplitWith
  <2>6. T \in SUBSET X /\ IsRuns(s, size, V) /\ \A k \in X : Runs(s, k) \in Nat
    BY <1>1, <2>5, RunsType DEF SplitBy, IsRuns
  <2>7. ASSUME NEW k \in X  PROVE r[k] = Parts(k, T, {n}) + Runs(s, k)
    <3>1. PICK x \in Nat : x = Runs(s, k)  BY <2>6
    <3>2. p[k] = (IF k \in T THEN 3 ELSE 0) + x  BY <2>5, <3>1 DEF SplitBy, Parts
    <3>3. r[k] = p[k] + (IF k = n THEN 2 ELSE 0)  BY <2>3
    <3>. QED  BY <3>1, <3>2, <3>3 DEF Parts
  <2>8. SplitBy(r, T, {n}, s, size, V)  BY <2>6, <2>7 DEF SplitBy
  <2>. QED  BY <2>4, <2>8 DEF SplitWith
<1>6. ASSUME NEW n \in X, SplitWith(r, {n}, size, V), SumOf(r, size) = 3 * g + 2
      PROVE  \E p \in M, q \in LocalPairs(size) : \A k \in X : r[k] = p[k] + q[k]
  <2>5. PICK T, s : SplitBy(r, T, {n}, s, size, V)  BY <1>6 DEF SplitWith
  <2>6. T \in SUBSET X /\ IsRuns(s, size, V) /\ \A k \in X : Runs(s, k) \in Nat
    BY <1>1, <2>5, RunsType DEF SplitBy, IsRuns
  <2>1. PICK p : p = [k \in X |-> r[k] - (IF k = n THEN 2 ELSE 0)]  OBVIOUS
  <2>2. ASSUME NEW k \in X
        PROVE  p[k] \in 0..4 /\ p[k] = Parts(k, T, {}) + Runs(s, k) /\ r[k] = p[k] + (IF k = n THEN 2 ELSE 0)
    <3>1. PICK x \in Nat : x = Runs(s, k)  BY <2>6
    <3>2. r[k] = (IF k \in T THEN 3 ELSE 0) + (IF k = n THEN 2 ELSE 0) + x /\ r[k] \in 0..4
      BY <2>5, <3>1 DEF SplitBy, Parts, Patterns4
    <3>3. p[k] = r[k] - (IF k = n THEN 2 ELSE 0)  BY <2>1
    <3>. QED  BY <3>1, <3>2, <3>3 DEF Parts
  <2>3. p \in Patterns4(X)  BY <2>1, <2>2 DEF Patterns4
  <2>4. SplitWith(p, {}, size, V)
    <3>1. SplitBy(p, T, {}, s, size, V)  BY <2>2, <2>6 DEF SplitBy
    <3>. QED  BY <3>1 DEF SplitWith
  <2>7. SumOf(p, size) = 3 * g  BY <1>4, <1>6, <2>2, <2>3
  <2>8. p \in M  BY <2>3, <2>4, <2>7 DEF Exactly
  <2>9. PICK q : q = Of(size, {n}, 2)  OBVIOUS
  <2>10. q \in LocalPairs(size) /\ \A k \in X : q[k] = IF k = n THEN 2 ELSE 0  BY <2>9 DEF LocalPairs, Of
  <2>11. \A k \in X : r[k] = p[k] + q[k]  BY <2>2, <2>10
  <2>. QED  BY <2>8, <2>10, <2>11
<1>. QED  BY <1>3, <1>5, <1>6

\* A count that splits is a multiple of three, and two more with a pair.
LEMMA SplitSum ==
  ASSUME NEW size, NEW V, IsArea(size, V), NEW c, NEW Q, SplitWith(c, Q, size, V), NEW n \in 0..size - 1, Q \in {{}, {n}}
  PROVE  SumOf(c, size) \in Nat /\ SumOf(c, size) % 3 = IF Q = {} THEN 0 ELSE 2
<1>. DEFINE X == 0..size - 1
<1>1. size \in {7, 9}  BY DEF IsArea
<1>2. PICK T, s : SplitBy(c, T, Q, s, size, V)  BY DEF SplitWith
<1>3. IsRuns(s, size, V) /\ \A k \in X : Runs(s, k) \in Nat  BY <1>1, <1>2, RunsType DEF SplitBy, IsRuns
<1>4. PICK x : x = [k \in X |-> IF k \in T THEN 1 ELSE 0]  OBVIOUS
<1>5. PICK y : y = [k \in X |-> IF k \in Q THEN 2 ELSE 0]  OBVIOUS
<1>6. PICK z : z = [k \in X |-> 3 * x[k] + Runs(s, k)]  OBVIOUS
<1>7. PICK t : t = [k \in X |-> 3 * x[k]]  OBVIOUS
<1>8. PICK u : u = [k \in X |-> Runs(s, k)]  OBVIOUS
<1>9. ASSUME NEW k \in X
      PROVE  /\ x[k] \in Nat /\ y[k] \in Nat /\ t[k] = 3 * x[k] /\ u[k] = Runs(s, k) /\ t[k] \in Nat /\ u[k] \in Nat
             /\ z[k] = t[k] + u[k] /\ z[k] \in Nat /\ c[k] = z[k] + y[k]
  <2>1. x[k] \in Nat /\ y[k] \in Nat /\ x[k] = (IF k \in T THEN 1 ELSE 0) /\ y[k] = (IF k \in Q THEN 2 ELSE 0)
    BY <1>4, <1>5
  <2>2. PICK a \in Nat : a = Runs(s, k)  BY <1>3
  <2>3. z[k] = 3 * x[k] + a /\ t[k] = 3 * x[k] /\ u[k] = a  BY <1>6, <1>7, <1>8, <2>2
  <2>4. c[k] = Parts(k, T, Q) + a  BY <1>2, <2>2 DEF SplitBy
  <2>5. Parts(k, T, Q) = 3 * x[k] + y[k]  BY <2>1 DEF Parts
  <2>. QED  BY <2>1, <2>2, <2>3, <2>4, <2>5
<1>10. SumOf(c, size) = SumOf(z, size) + SumOf(y, size) /\ SumOf(z, size) \in Int /\ SumOf(y, size) \in Int
  <2>1. AreSums(c, z, y, size)  BY <1>9 DEF AreSums
  <2>. QED  BY ONLY <1>1, <2>1, SumAdds, Zenon
<1>11. SumOf(z, size) = SumOf(t, size) + SumOf(u, size) /\ SumOf(t, size) \in Int /\ SumOf(u, size) \in Int
  <2>1. AreSums(z, t, u, size)  BY <1>9 DEF AreSums
  <2>. QED  BY ONLY <1>1, <2>1, SumAdds, Zenon
<1>12. SumOf(y, size) = IF Q = {} THEN 0 ELSE 2
  <2>1. PICK w \in {0, 2} : w = IF Q = {} THEN 0 ELSE 2  OBVIOUS
  <2>2. \A k \in 0..size - 1 : y[k] = IF k = n THEN w ELSE 0  BY <1>5, <2>1
  <2>. QED  BY <1>1, <2>1, <2>2, SumOne
<1>13. PICK a \in Int : SumOf(t, size) = 3 * a
  <2>1. \A k \in 0..size - 1 : x[k] \in Int /\ t[k] = 3 * x[k]  BY <1>9
  <2>. QED  BY <1>1, <2>1, SumTriples
<1>14. PICK b \in Int : SumOf(u, size) = 3 * b
  <2>1. \A k \in X : u[k] = Runs(s, k)  BY <1>9
  <2>2. CASE size = 7
    <3>1. V = {}  BY <2>2 DEF IsArea
    <3>2. \A k \in -2..6 : s[k] = 0  BY <1>3, <2>2, <3>1 DEF IsRuns
    <3>3. \A k \in {0, 1, 2, 3, 4, 5, 6} : u[k] = s[k] + s[k - 1] + s[k - 2]  BY <2>1, <2>2 DEF Runs
    <3>4. \A k \in {0, 1, 2, 3, 4, 5, 6} : u[k] = 0
      <4>1. \A k \in {0, 1, 2, 3, 4, 5, 6} : k \in -2..6 /\ k - 1 \in -2..6 /\ k - 2 \in -2..6  OBVIOUS
      <4>. QED  BY <3>2, <3>3, <4>1
    <3>5. SumOf(u, size) = 3 * 0  BY <2>2, <3>4 DEF SumOf
    <3>. QED  BY <3>5
  <2>3. CASE size = 9
    <3>1. V = 0..6  BY <2>3 DEF IsArea
    <3>2. s \in [-2..8 -> Nat] /\ \A k \in -2..8 : k \notin 0..6 => s[k] = 0  BY <1>3, <2>3, <3>1 DEF IsRuns
    <3>3. \A k \in 0..8 : u[k] = s[k] + s[k - 1] + s[k - 2]  BY <2>1, <2>3 DEF Runs
    <3>4. s[-2] = 0 /\ s[-1] = 0 /\ s[7] = 0 /\ s[8] = 0  BY <3>2
    <3>5. PICK a0, a1, a2, a3, a4, a5, a6 \in Int :
            a0 = s[0] /\ a1 = s[1] /\ a2 = s[2] /\ a3 = s[3] /\ a4 = s[4] /\ a5 = s[5] /\ a6 = s[6]
      <4>1. /\ s[0] \in Int /\ s[1] \in Int /\ s[2] \in Int /\ s[3] \in Int /\ s[4] \in Int /\ s[5] \in Int
            /\ s[6] \in Int
        BY <3>2
      <4>. QED  BY ONLY <4>1, Zenon
    <3>6. /\ u[0] = s[0] + s[-1] + s[-2] /\ u[1] = s[1] + s[0] + s[-1] /\ u[2] = s[2] + s[1] + s[0]
          /\ u[3] = s[3] + s[2] + s[1] /\ u[4] = s[4] + s[3] + s[2] /\ u[5] = s[5] + s[4] + s[3]
          /\ u[6] = s[6] + s[5] + s[4] /\ u[7] = s[7] + s[6] + s[5] /\ u[8] = s[8] + s[7] + s[6]
      <4>1. /\ 0 \in 0..8 /\ 0 - 1 = -1 /\ 0 - 2 = -2 /\ 1 \in 0..8 /\ 1 - 1 = 0 /\ 1 - 2 = -1
            /\ 2 \in 0..8 /\ 2 - 1 = 1 /\ 2 - 2 = 0 /\ 3 \in 0..8 /\ 3 - 1 = 2 /\ 3 - 2 = 1
            /\ 4 \in 0..8 /\ 4 - 1 = 3 /\ 4 - 2 = 2 /\ 5 \in 0..8 /\ 5 - 1 = 4 /\ 5 - 2 = 3
            /\ 6 \in 0..8 /\ 6 - 1 = 5 /\ 6 - 2 = 4 /\ 7 \in 0..8 /\ 7 - 1 = 6 /\ 7 - 2 = 5
            /\ 8 \in 0..8 /\ 8 - 1 = 7 /\ 8 - 2 = 6
        OBVIOUS
      <4>. QED  BY ONLY <3>3, <4>1
    <3>7. /\ u[0] = a0 /\ u[1] = a1 + a0 /\ u[2] = a2 + a1 + a0 /\ u[3] = a3 + a2 + a1 /\ u[4] = a4 + a3 + a2
          /\ u[5] = a5 + a4 + a3 /\ u[6] = a6 + a5 + a4 /\ u[7] = a6 + a5 /\ u[8] = a6
      BY ONLY <3>4, <3>5, <3>6
    <3>8. SumOf(u, size) = 3 * (a0 + a1 + a2 + a3 + a4 + a5 + a6)
      <4>1. SumOf(u, size) = u[0] + u[1] + u[2] + u[3] + u[4] + u[5] + u[6] + (u[7] + u[8])  BY <2>3 DEF SumOf
      <4>2. SumOf(u, size) = a0 + (a1 + a0) + (a2 + a1 + a0) + (a3 + a2 + a1) + (a4 + a3 + a2) + (a5 + a4 + a3)
                               + (a6 + a5 + a4) + ((a6 + a5) + a6)
        BY ONLY <3>7, <4>1
      <4>3. /\ a0 \in Int /\ a1 \in Int /\ a2 \in Int /\ a3 \in Int /\ a4 \in Int /\ a5 \in Int /\ a6 \in Int
        OBVIOUS
      <4>. QED  BY ONLY <4>2, <4>3
    <3>9. a0 + a1 + a2 + a3 + a4 + a5 + a6 \in Int  OBVIOUS
    <3>. QED  BY <3>8, <3>9
  <2>. QED  BY <1>1, <2>2, <2>3
<1>15. SumOf(c, size) = 3 * (a + b) + IF Q = {} THEN 0 ELSE 2  BY <1>10, <1>11, <1>12, <1>13, <1>14
<1>16. \A k \in 0..size - 1 : c[k] \in Nat  BY <1>9
<1>17. SumOf(c, size) \in Nat  BY <1>1, <1>16, SumNone
<1>18. \A d \in Int : (3 * d + 0) % 3 = 0 /\ (3 * d + 2) % 3 = 2  OBVIOUS
<1>19. a + b \in Int  OBVIOUS
<1>. QED  BY <1>15, <1>17, <1>18, <1>19

\* A count splits into groups, or into groups and a pair.
HasSplit(c, size, V) == \E Q \in {{}} \cup {{k} : k \in 0..size - 1} : SplitWith(c, Q, size, V)
SizeOf(i) == IF i < 5 THEN 3 * i ELSE 3 * (i - 5) + 2

LEMMA HasSplitSum ==
  ASSUME NEW size, NEW V, IsArea(size, V), NEW c, HasSplit(c, size, V)
  PROVE  /\ SumOf(c, size) \in Nat /\ SumOf(c, size) % 3 \in {0, 2}
         /\ SumOf(c, size) % 3 = 0 => SplitWith(c, {}, size, V)
         /\ SumOf(c, size) % 3 = 2 => \E k \in 0..size - 1 : SplitWith(c, {k}, size, V)
<1>1. PICK Q \in {{}} \cup {{k} : k \in 0..size - 1} : SplitWith(c, Q, size, V)  BY DEF HasSplit
<1>2. PICK n \in 0..size - 1 : Q \in {{}, {n}}
  <2>1. 0 \in 0..size - 1  BY DEF IsArea
  <2>. QED  BY <2>1
<1>3. SumOf(c, size) \in Nat /\ SumOf(c, size) % 3 = IF Q = {} THEN 0 ELSE 2  BY <1>1, <1>2, SplitSum
<1>4. CASE Q = {}  BY <1>1, <1>3, <1>4
<1>5. CASE Q = {n}
  <2>1. SumOf(c, size) % 3 = 2  BY <1>3, <1>5
  <2>2. \E k \in 0..size - 1 : SplitWith(c, {k}, size, V)  BY <1>1, <1>5
  <2>3. SumOf(c, size) % 3 \in {0, 2} /\ SumOf(c, size) % 3 # 0  BY <2>1
  <2>. QED  BY ONLY <1>3, <2>2, <2>3, Zenon
<1>. QED  BY <1>2, <1>4, <1>5

\* The patterns of an index are the counts of its size that split.
LEMMA PatternIs ==
  ASSUME NEW size, NEW V, IsArea(size, V), NEW i \in Indices(4), NEW r \in Patterns4(0..size - 1)
  PROVE  r \in WinPatterns(size, SplitGroups(size, V))[i] <=> HasSplit(r, size, V) /\ SumOf(r, size) = SizeOf(i)
<1>. DEFINE groups == SplitGroups(size, V)
<1>1. PICK P : P = WinPatterns(size, groups)  OBVIOUS
<1>2. PICK made : IsMadeOf(made, P, size, groups)  BY <1>1, WinPatternsAre
<1>13. /\ made[0] = {Zero(size)}
       /\ made[1] = With(made[0], groups) /\ made[2] = With(made[1], groups)
       /\ made[3] = With(made[2], groups) /\ made[4] = With(made[3], groups)
  BY <1>2 DEF IsMadeOf
<1>14. P[i] = IF i < 5 THEN made[i] ELSE With(made[i - 5], LocalPairs(size))
  BY <1>2, Zenon DEF IsMadeOf
<1>3. Exactly(made[0], size, V, 0)  BY <1>13, NoGroups
<1>4. /\ 0 \in 0..3 /\ 1 \in 0..3 /\ 2 \in 0..3 /\ 3 \in 0..3
      /\ 0 + 1 = 1 /\ 1 + 1 = 2 /\ 2 + 1 = 3 /\ 3 + 1 = 4
  OBVIOUS
<1>5. Exactly(made[1], size, V, 1)  BY <1>13, <1>3, <1>4, GroupsGrow
<1>6. Exactly(made[2], size, V, 2)  BY <1>13, <1>4, <1>5, GroupsGrow
<1>7. Exactly(made[3], size, V, 3)  BY <1>13, <1>4, <1>6, GroupsGrow
<1>8. Exactly(made[4], size, V, 4)  BY <1>13, <1>4, <1>7, GroupsGrow
<1>9. \A g \in 0..4 : Exactly(made[g], size, V, g)
  <2>1. \A g \in 0..4 : g = 0 \/ g = 1 \/ g = 2 \/ g = 3 \/ g = 4  OBVIOUS
  <2>. QED  BY <1>3, <1>5, <1>6, <1>7, <1>8, <2>1
<1>12. \A Q : Q \in {{}} \cup {{k} : k \in 0..size - 1} /\ SplitWith(r, Q, size, V) => HasSplit(r, size, V)
  BY DEF HasSplit
<1>15. \A g \in 0..4 : (3 * g) % 3 = 0 /\ (3 * g + 2) % 3 = 2  OBVIOUS
<1>10. CASE i < 5
  <2>1. i \in 0..4 /\ SizeOf(i) = 3 * i  BY <1>10 DEF Indices, SizeOf
  <2>2. r \in P[i] <=> SplitWith(r, {}, size, V) /\ SumOf(r, size) = 3 * i  BY <1>9, <1>10, <1>14, <2>1 DEF Exactly
  <2>3. HasSplit(r, size, V) /\ SumOf(r, size) = 3 * i => SplitWith(r, {}, size, V)
    BY <1>15, <2>1, HasSplitSum
  <2>. QED  BY <1>1, <1>12, <2>1, <2>2, <2>3
<1>11. CASE ~(i < 5)
  <2>1. PICK g \in 0..4 : g = i - 5 /\ SizeOf(i) = 3 * g + 2  BY <1>11 DEF Indices, SizeOf
  <2>7. PICK M : M = made[g]  OBVIOUS
  <2>2. P[i] = With(M, LocalPairs(size))  BY <1>11, <1>14, <2>1, <2>7
  <2>3. Exactly(M, size, V, g)  BY <1>9, <2>7
  <2>4. r \in P[i] <=> \E k \in 0..size - 1 : SplitWith(r, {k}, size, V) /\ SumOf(r, size) = 3 * g + 2
    <3>1. r \in With(M, LocalPairs(size)) <=> \E k \in 0..size - 1 : SplitWith(r, {k}, size, V) /\ SumOf(r, size) = 3 * g + 2
      BY <2>3, PairAdded, Zenon
    <3>. QED  BY <2>2, <3>1
  <2>5. HasSplit(r, size, V) /\ SumOf(r, size) = 3 * g + 2 => \E k \in 0..size - 1 : SplitWith(r, {k}, size, V)
    BY <1>15, HasSplitSum
  <2>6. \A k \in 0..size - 1 : SplitWith(r, {k}, size, V) => HasSplit(r, size, V)  BY <1>12
  <2>. QED  BY <1>1, <2>1, <2>4, <2>5, <2>6
<1>. QED  BY <1>10, <1>11

-----------------------------------------------------------------------------
\* How many sequences start at each tile, from what is left of the tiles.
LeftOf(count, first, T, P, k) ==
  IF k < first THEN 0 ELSE count[k] - (IF k \in T THEN 3 ELSE 0) - (IF k \in P THEN 2 ELSE 0)

LEMMA SequencesAre ==
  ASSUME NEW count, NEW first, NEW T, NEW P, NEW k \in first..first + 8
  PROVE  SequencesLeft(count, first, T, P)[k]
           = (LeftOf(count, first, T, P, k) - LeftOf(count, first, T, P, k - 1))
               + (LeftOf(count, first, T, P, k - 3) - LeftOf(count, first, T, P, k - 3 - 1))
               + (LeftOf(count, first, T, P, k - 6) - LeftOf(count, first, T, P, k - 6 - 1))
BY DEF SequencesLeft, LeftOf

Solves(s, x, first) ==
  /\ s[first] = x[0] /\ s[first + 1] = x[1] - x[0] /\ s[first + 2] = x[2] - x[1]
  /\ s[first + 3] = x[3] - x[2] + x[0] /\ s[first + 4] = x[4] - x[3] + x[1] - x[0]
  /\ s[first + 5] = x[5] - x[4] + x[2] - x[1] /\ s[first + 6] = x[6] - x[5] + x[3] - x[2] + x[0]
  /\ s[first + 7] = x[7] - x[6] + x[4] - x[3] + x[1] - x[0]
  /\ s[first + 8] = x[8] - x[7] + x[5] - x[4] + x[2] - x[1]

LEMMA SequencesSolve ==
  ASSUME NEW count, NEW first \in Nat, NEW T, NEW P, NEW x,
         \A j \in 0..8 : x[j] \in Int /\ x[j] = LeftOf(count, first, T, P, first + j),
         NEW s, s = SequencesLeft(count, first, T, P)
  PROVE  Solves(s, x, first)
<1>1. PICK L : L = [k \in Int |-> LeftOf(count, first, T, P, k)]  OBVIOUS
<1>2. ASSUME NEW j \in 0..8
      PROVE  s[first + j] = (L[first + j] - L[first + (j - 1)]) + (L[first + (j - 3)] - L[first + (j - 4)])
                              + (L[first + (j - 6)] - L[first + (j - 7)])
  <2>1. PICK k \in first..first + 8 : k = first + j  OBVIOUS
  <2>2. k \in Int /\ k - 1 \in Int /\ k - 3 \in Int /\ k - 3 - 1 \in Int /\ k - 6 \in Int /\ k - 6 - 1 \in Int
    BY <2>1
  <2>3. s[k] = (L[k] - L[k - 1]) + (L[k - 3] - L[k - 3 - 1]) + (L[k - 6] - L[k - 6 - 1])
    BY <1>1, <2>2, SequencesAre
  <2>4. /\ k - 1 = first + (j - 1) /\ k - 3 = first + (j - 3) /\ k - 3 - 1 = first + (j - 4)
        /\ k - 6 = first + (j - 6) /\ k - 6 - 1 = first + (j - 7)
    BY <2>1
  <2>. QED  BY ONLY <2>1, <2>3, <2>4
<1>3. ASSUME NEW j \in -7..8  PROVE L[first + j] = IF j < 0 THEN 0 ELSE x[j]
  <2>1. first + j \in Int /\ L[first + j] = LeftOf(count, first, T, P, first + j)  BY <1>1
  <2>2. CASE j < 0
    <3>1. first + j < first  BY <2>2
    <3>. QED  BY <2>1, <2>2, <3>1 DEF LeftOf
  <2>3. CASE ~(j < 0)
    <3>1. j \in 0..8  BY <2>3
    <3>. QED  BY <2>1, <2>3, <3>1
  <2>. QED  BY <2>2, <2>3
<1>4. PICK x0, x1, x2, x3, x4, x5, x6, x7, x8 \in Int :
        /\ x0 = x[0] /\ x1 = x[1] /\ x2 = x[2] /\ x3 = x[3] /\ x4 = x[4] /\ x5 = x[5] /\ x6 = x[6]
        /\ x7 = x[7] /\ x8 = x[8]
  <2>1. /\ x[0] \in Int /\ x[1] \in Int /\ x[2] \in Int /\ x[3] \in Int /\ x[4] \in Int /\ x[5] \in Int
        /\ x[6] \in Int /\ x[7] \in Int /\ x[8] \in Int
    OBVIOUS
  <2>. QED  BY ONLY <2>1, Zenon
<1>5. /\ L[first + 0] = x0 /\ L[first + 1] = x1 /\ L[first + 2] = x2 /\ L[first + 3] = x3 /\ L[first + 4] = x4
      /\ L[first + 5] = x5 /\ L[first + 6] = x6 /\ L[first + 7] = x7 /\ L[first + 8] = x8
      /\ L[first + (-1)] = 0 /\ L[first + (-2)] = 0 /\ L[first + (-3)] = 0 /\ L[first + (-4)] = 0
      /\ L[first + (-5)] = 0 /\ L[first + (-6)] = 0 /\ L[first + (-7)] = 0
  BY ONLY <1>3, <1>4
<1>6. /\ s[first + 0] = x0 /\ s[first + 1] = x1 - x0 /\ s[first + 2] = x2 - x1
  <2>1. s[first + 0] = (L[first + 0] - L[first + (-1)]) + (L[first + (-3)] - L[first + (-4)]) + (L[first + (-6)] - L[first + (-7)])
    <3>1. 0 \in 0..8 /\ 0 - 1 = -1 /\ 0 - 3 = -3 /\ 0 - 4 = -4 /\ 0 - 6 = -6 /\ 0 - 7 = -7  OBVIOUS
    <3>. QED  BY ONLY <1>2, <3>1
  <2>2. s[first + 1] = (L[first + 1] - L[first + 0]) + (L[first + (-2)] - L[first + (-3)]) + (L[first + (-5)] - L[first + (-6)])
    <3>1. 1 \in 0..8 /\ 1 - 1 = 0 /\ 1 - 3 = -2 /\ 1 - 4 = -3 /\ 1 - 6 = -5 /\ 1 - 7 = -6  OBVIOUS
    <3>. QED  BY ONLY <1>2, <3>1
  <2>3. s[first + 2] = (L[first + 2] - L[first + 1]) + (L[first + (-1)] - L[first + (-2)]) + (L[first + (-4)] - L[first + (-5)])
    <3>1. 2 \in 0..8 /\ 2 - 1 = 1 /\ 2 - 3 = -1 /\ 2 - 4 = -2 /\ 2 - 6 = -4 /\ 2 - 7 = -5  OBVIOUS
    <3>. QED  BY ONLY <1>2, <3>1
  <2>. QED  BY ONLY <1>5, <2>1, <2>2, <2>3, x0 \in Int, x1 \in Int, x2 \in Int
<1>7. /\ s[first + 3] = x3 - x2 + x0 /\ s[first + 4] = x4 - x3 + x1 - x0 /\ s[first + 5] = x5 - x4 + x2 - x1
  <2>1. s[first + 3] = (L[first + 3] - L[first + 2]) + (L[first + 0] - L[first + (-1)]) + (L[first + (-3)] - L[first + (-4)])
    <3>1. 3 \in 0..8 /\ 3 - 1 = 2 /\ 3 - 3 = 0 /\ 3 - 4 = -1 /\ 3 - 6 = -3 /\ 3 - 7 = -4  OBVIOUS
    <3>. QED  BY ONLY <1>2, <3>1
  <2>2. s[first + 4] = (L[first + 4] - L[first + 3]) + (L[first + 1] - L[first + 0]) + (L[first + (-2)] - L[first + (-3)])
    <3>1. 4 \in 0..8 /\ 4 - 1 = 3 /\ 4 - 3 = 1 /\ 4 - 4 = 0 /\ 4 - 6 = -2 /\ 4 - 7 = -3  OBVIOUS
    <3>. QED  BY ONLY <1>2, <3>1
  <2>3. s[first + 5] = (L[first + 5] - L[first + 4]) + (L[first + 2] - L[first + 1]) + (L[first + (-1)] - L[first + (-2)])
    <3>1. 5 \in 0..8 /\ 5 - 1 = 4 /\ 5 - 3 = 2 /\ 5 - 4 = 1 /\ 5 - 6 = -1 /\ 5 - 7 = -2  OBVIOUS
    <3>. QED  BY ONLY <1>2, <3>1
  <2>. QED  BY ONLY <1>5, <2>1, <2>2, <2>3, x0 \in Int, x1 \in Int, x2 \in Int, x3 \in Int, x4 \in Int, x5 \in Int
<1>8. /\ s[first + 6] = x6 - x5 + x3 - x2 + x0 /\ s[first + 7] = x7 - x6 + x4 - x3 + x1 - x0
      /\ s[first + 8] = x8 - x7 + x5 - x4 + x2 - x1
  <2>1. s[first + 6] = (L[first + 6] - L[first + 5]) + (L[first + 3] - L[first + 2]) + (L[first + 0] - L[first + (-1)])
    <3>1. 6 \in 0..8 /\ 6 - 1 = 5 /\ 6 - 3 = 3 /\ 6 - 4 = 2 /\ 6 - 6 = 0 /\ 6 - 7 = -1  OBVIOUS
    <3>. QED  BY ONLY <1>2, <3>1
  <2>2. s[first + 7] = (L[first + 7] - L[first + 6]) + (L[first + 4] - L[first + 3]) + (L[first + 1] - L[first + 0])
    <3>1. 7 \in 0..8 /\ 7 - 1 = 6 /\ 7 - 3 = 4 /\ 7 - 4 = 3 /\ 7 - 6 = 1 /\ 7 - 7 = 0  OBVIOUS
    <3>. QED  BY ONLY <1>2, <3>1
  <2>3. s[first + 8] = (L[first + 8] - L[first + 7]) + (L[first + 5] - L[first + 4]) + (L[first + 2] - L[first + 1])
    <3>1. 8 \in 0..8 /\ 8 - 1 = 7 /\ 8 - 3 = 5 /\ 8 - 4 = 4 /\ 8 - 6 = 2 /\ 8 - 7 = 1  OBVIOUS
    <3>. QED  BY ONLY <1>2, <3>1
  <2>. QED  BY ONLY <1>5, <2>1, <2>2, <2>3, x0 \in Int, x1 \in Int, x2 \in Int, x3 \in Int, x4 \in Int, x5 \in Int,
                    x6 \in Int, x7 \in Int, x8 \in Int
<1>9. first + 0 = first  OBVIOUS
<1>. QED  BY ONLY <1>4, <1>6, <1>7, <1>8, <1>9, Zenon DEF Solves

\* Sequences that solve the equations are runs, and runs are what solves them.
LEMMA SolvedRuns ==
  ASSUME NEW first \in Nat, NEW x, \A j \in 0..8 : x[j] \in Int, NEW s, Solves(s, x, first),
         NEW t, t[-2] = 0, t[-1] = 0, \A j \in 0..8 : t[j] = s[first + j]
  PROVE  \A j \in 0..8 : Runs(t, j) = x[j]
<1>1. PICK x0, x1, x2, x3, x4, x5, x6, x7, x8 \in Int :
        /\ x0 = x[0] /\ x1 = x[1] /\ x2 = x[2] /\ x3 = x[3] /\ x4 = x[4] /\ x5 = x[5] /\ x6 = x[6] /\ x7 = x[7] /\ x8 = x[8]
  <2>1. /\ x[0] \in Int /\ x[1] \in Int /\ x[2] \in Int /\ x[3] \in Int /\ x[4] \in Int /\ x[5] \in Int
        /\ x[6] \in Int /\ x[7] \in Int /\ x[8] \in Int
    OBVIOUS
  <2>. QED  BY ONLY <2>1, Zenon
<1>2. first + 0 = first  OBVIOUS
<1>3. /\ 0 \in 0..8 /\ 1 \in 0..8 /\ 2 \in 0..8 /\ 3 \in 0..8 /\ 4 \in 0..8 /\ 5 \in 0..8 /\ 6 \in 0..8 /\ 7 \in 0..8
      /\ 8 \in 0..8
  OBVIOUS
<1>4. /\ t[0] = s[first] /\ t[1] = s[first + 1] /\ t[2] = s[first + 2] /\ t[3] = s[first + 3] /\ t[4] = s[first + 4]
      /\ t[5] = s[first + 5] /\ t[6] = s[first + 6] /\ t[7] = s[first + 7] /\ t[8] = s[first + 8]
  BY <1>2, <1>3
<1>5. /\ t[0] = x0 /\ t[1] = x1 - x0 /\ t[2] = x2 - x1 /\ t[3] = x3 - x2 + x0 /\ t[4] = x4 - x3 + x1 - x0
      /\ t[5] = x5 - x4 + x2 - x1 /\ t[6] = x6 - x5 + x3 - x2 + x0 /\ t[7] = x7 - x6 + x4 - x3 + x1 - x0 /\ t[8] = x8 - x7 + x5 - x4 + x2 - x1
  BY ONLY <1>1, <1>4, Solves(s, x, first) DEF Solves
<1>6. ASSUME NEW j \in 0..8  PROVE Runs(t, j) = x[j]
  <2>1. Runs(t, j) = t[j] + t[j - 1] + t[j - 2]  BY DEF Runs
  <2>2. j = 0 \/ j = 1 \/ j = 2 \/ j = 3 \/ j = 4 \/ j = 5 \/ j = 6 \/ j = 7 \/ j = 8
    OBVIOUS
  <2>10. CASE j = 0
    <3>1. j - 1 = -1 /\ j - 2 = -2 /\ t[-1] = 0 /\ t[-2] = 0  BY <2>10
    <3>2. Runs(t, j) = (x0) + 0 + 0
      BY ONLY <1>5, <2>1, <2>10, <3>1
    <3>3. (x0) + 0 + 0 = x0  OBVIOUS
    <3>. QED  BY ONLY <1>1, <2>10, <3>2, <3>3
  <2>11. CASE j = 1
    <3>1. j - 1 = 0 /\ j - 2 = -1 /\ t[-1] = 0 /\ t[-2] = 0  BY <2>11
    <3>2. Runs(t, j) = (x1 - x0) + (x0) + 0
      BY ONLY <1>5, <2>1, <2>11, <3>1
    <3>3. (x1 - x0) + (x0) + 0 = x1  OBVIOUS
    <3>. QED  BY ONLY <1>1, <2>11, <3>2, <3>3
  <2>12. CASE j = 2
    <3>1. j - 1 = 1 /\ j - 2 = 0 /\ t[-1] = 0 /\ t[-2] = 0  BY <2>12
    <3>2. Runs(t, j) = (x2 - x1) + (x1 - x0) + (x0)
      BY ONLY <1>5, <2>1, <2>12, <3>1
    <3>3. (x2 - x1) + (x1 - x0) + (x0) = x2  OBVIOUS
    <3>. QED  BY ONLY <1>1, <2>12, <3>2, <3>3
  <2>13. CASE j = 3
    <3>1. j - 1 = 2 /\ j - 2 = 1 /\ t[-1] = 0 /\ t[-2] = 0  BY <2>13
    <3>2. Runs(t, j) = (x3 - x2 + x0) + (x2 - x1) + (x1 - x0)
      BY ONLY <1>5, <2>1, <2>13, <3>1
    <3>3. (x3 - x2 + x0) + (x2 - x1) + (x1 - x0) = x3  OBVIOUS
    <3>. QED  BY ONLY <1>1, <2>13, <3>2, <3>3
  <2>14. CASE j = 4
    <3>1. j - 1 = 3 /\ j - 2 = 2 /\ t[-1] = 0 /\ t[-2] = 0  BY <2>14
    <3>2. Runs(t, j) = (x4 - x3 + x1 - x0) + (x3 - x2 + x0) + (x2 - x1)
      BY ONLY <1>5, <2>1, <2>14, <3>1
    <3>3. (x4 - x3 + x1 - x0) + (x3 - x2 + x0) + (x2 - x1) = x4  OBVIOUS
    <3>. QED  BY ONLY <1>1, <2>14, <3>2, <3>3
  <2>15. CASE j = 5
    <3>1. j - 1 = 4 /\ j - 2 = 3 /\ t[-1] = 0 /\ t[-2] = 0  BY <2>15
    <3>2. Runs(t, j) = (x5 - x4 + x2 - x1) + (x4 - x3 + x1 - x0) + (x3 - x2 + x0)
      BY ONLY <1>5, <2>1, <2>15, <3>1
    <3>3. (x5 - x4 + x2 - x1) + (x4 - x3 + x1 - x0) + (x3 - x2 + x0) = x5  OBVIOUS
    <3>. QED  BY ONLY <1>1, <2>15, <3>2, <3>3
  <2>16. CASE j = 6
    <3>1. j - 1 = 5 /\ j - 2 = 4 /\ t[-1] = 0 /\ t[-2] = 0  BY <2>16
    <3>2. Runs(t, j) = (x6 - x5 + x3 - x2 + x0) + (x5 - x4 + x2 - x1) + (x4 - x3 + x1 - x0)
      BY ONLY <1>5, <2>1, <2>16, <3>1
    <3>3. (x6 - x5 + x3 - x2 + x0) + (x5 - x4 + x2 - x1) + (x4 - x3 + x1 - x0) = x6  OBVIOUS
    <3>. QED  BY ONLY <1>1, <2>16, <3>2, <3>3
  <2>17. CASE j = 7
    <3>1. j - 1 = 6 /\ j - 2 = 5 /\ t[-1] = 0 /\ t[-2] = 0  BY <2>17
    <3>2. Runs(t, j) = (x7 - x6 + x4 - x3 + x1 - x0) + (x6 - x5 + x3 - x2 + x0) + (x5 - x4 + x2 - x1)
      BY ONLY <1>5, <2>1, <2>17, <3>1
    <3>3. (x7 - x6 + x4 - x3 + x1 - x0) + (x6 - x5 + x3 - x2 + x0) + (x5 - x4 + x2 - x1) = x7  OBVIOUS
    <3>. QED  BY ONLY <1>1, <2>17, <3>2, <3>3
  <2>18. CASE j = 8
    <3>1. j - 1 = 7 /\ j - 2 = 6 /\ t[-1] = 0 /\ t[-2] = 0  BY <2>18
    <3>2. Runs(t, j) = (x8 - x7 + x5 - x4 + x2 - x1) + (x7 - x6 + x4 - x3 + x1 - x0) + (x6 - x5 + x3 - x2 + x0)
      BY ONLY <1>5, <2>1, <2>18, <3>1
    <3>3. (x8 - x7 + x5 - x4 + x2 - x1) + (x7 - x6 + x4 - x3 + x1 - x0) + (x6 - x5 + x3 - x2 + x0) = x8  OBVIOUS
    <3>. QED  BY ONLY <1>1, <2>18, <3>2, <3>3
  <2>. QED  BY <2>2, <2>10, <2>11, <2>12, <2>13, <2>14, <2>15, <2>16, <2>17, <2>18
<1>. QED  BY <1>6

LEMMA RunsSolved ==
  ASSUME NEW first \in Nat, NEW x, NEW s, Solves(s, x, first),
         NEW t \in [-2..8 -> Nat], t[-2] = 0, t[-1] = 0, \A j \in 0..8 : x[j] = Runs(t, j)
  PROVE  \A j \in 0..8 : s[first + j] = t[j]
<1>1. PICK t0, t1, t2, t3, t4, t5, t6, t7, t8 \in Int :
        /\ t0 = t[0] /\ t1 = t[1] /\ t2 = t[2] /\ t3 = t[3] /\ t4 = t[4] /\ t5 = t[5] /\ t6 = t[6] /\ t7 = t[7] /\ t8 = t[8]
  <2>1. /\ t[0] \in Int /\ t[1] \in Int /\ t[2] \in Int /\ t[3] \in Int /\ t[4] \in Int /\ t[5] \in Int
        /\ t[6] \in Int /\ t[7] \in Int /\ t[8] \in Int
    OBVIOUS
  <2>. QED  BY ONLY <2>1, Zenon
<1>2. /\ x[0] = t[0] + t[-1] + t[-2] /\ x[1] = t[1] + t[0] + t[-1] /\ x[2] = t[2] + t[1] + t[0]
      /\ x[3] = t[3] + t[2] + t[1] /\ x[4] = t[4] + t[3] + t[2] /\ x[5] = t[5] + t[4] + t[3]
      /\ x[6] = t[6] + t[5] + t[4] /\ x[7] = t[7] + t[6] + t[5] /\ x[8] = t[8] + t[7] + t[6]
  <2>1. /\ 0 \in 0..8 /\ 0 - 1 = -1 /\ 0 - 2 = -2 /\ 1 \in 0..8 /\ 1 - 1 = 0 /\ 1 - 2 = -1
        /\ 2 \in 0..8 /\ 2 - 1 = 1 /\ 2 - 2 = 0 /\ 3 \in 0..8 /\ 3 - 1 = 2 /\ 3 - 2 = 1
        /\ 4 \in 0..8 /\ 4 - 1 = 3 /\ 4 - 2 = 2 /\ 5 \in 0..8 /\ 5 - 1 = 4 /\ 5 - 2 = 3
        /\ 6 \in 0..8 /\ 6 - 1 = 5 /\ 6 - 2 = 4 /\ 7 \in 0..8 /\ 7 - 1 = 6 /\ 7 - 2 = 5
        /\ 8 \in 0..8 /\ 8 - 1 = 7 /\ 8 - 2 = 6
    OBVIOUS
  <2>2. \A j \in 0..8 : x[j] = t[j] + t[j - 1] + t[j - 2]  BY DEF Runs
  <2>. QED  BY ONLY <2>1, <2>2
<1>3. /\ x[0] = t0 /\ x[1] = t1 + t0 /\ x[2] = t2 + t1 + t0
      /\ x[3] = t3 + t2 + t1 /\ x[4] = t4 + t3 + t2 /\ x[5] = t5 + t4 + t3
      /\ x[6] = t6 + t5 + t4 /\ x[7] = t7 + t6 + t5 /\ x[8] = t8 + t7 + t6
  <2>1. t[-2] = 0 /\ t[-1] = 0  OBVIOUS
  <2>. QED  BY ONLY <1>1, <1>2, <2>1
<1>4. /\ s[first] = t0 /\ s[first + 1] = t1 /\ s[first + 2] = t2
      /\ s[first + 3] = t3 /\ s[first + 4] = t4 /\ s[first + 5] = t5
      /\ s[first + 6] = t6 /\ s[first + 7] = t7 /\ s[first + 8] = t8
  BY ONLY <1>1, <1>3, Solves(s, x, first) DEF Solves
<1>5. first + 0 = first  OBVIOUS
<1>6. ASSUME NEW j \in 0..8  PROVE s[first + j] = t[j]
  <2>2. j = 0 \/ j = 1 \/ j = 2 \/ j = 3 \/ j = 4 \/ j = 5 \/ j = 6 \/ j = 7 \/ j = 8
    OBVIOUS
  <2>. QED  BY ONLY <1>1, <1>4, <1>5, <2>2
<1>. QED  BY <1>6

-----------------------------------------------------------------------------
(* The separator's patterns of a suit, and of the honors, exist exactly if it*)
(* splits.                                                                 *)

\* The separator's tables have a hand's suit exactly if it splits.
AreSequences(s, first) == (\A k \in first..first + 8 : s[k] >= 0) /\ s[first + 7] = 0 /\ s[first + 8] = 0
Chosen2(h, S, first, u) ==
  u \in Triplets(h, S) \X Pairs(h, S) /\ AreSequences(SequencesLeft(h, first, u[1], u[2]), first)

LEMMA SuitPatternsDef ==
  ASSUME NEW h, NEW d \in 0..2, NEW S, S = Suit(d), NEW f, f = 9 * d
  PROVE  SuitPatterns(h, d) # {} <=> \E u : Chosen2(h, S, f, u)
<1>1. PICK U : U = {u \in Triplets(h, S) \X Pairs(h, S) : AreSequences(SequencesLeft(h, f, u[1], u[2]), f)}  OBVIOUS
<1>2. S = f..f + 8  BY DEF Suit
<1>3. SuitPatterns(h, d) = {BlocksOf(f, f + 8, t[1], t[2], SequencesLeft(h, f, t[1], t[2])) : t \in U}
  BY <1>1, <1>2, Zenon DEF SuitPatterns, AreSequences
<1>4. SuitPatterns(h, d) # {} <=> U # {}  BY <1>3
<1>5. U # {} <=> \E u : Chosen2(h, S, f, u)  BY <1>1 DEF Chosen2
<1>. QED  BY <1>4, <1>5

LEMMA SuitSplits ==
  ASSUME NEW h, NEW d \in 0..2, NEW S, S = Suit(d), \A k \in S : h[k] \in 0..4, NEW c, c = Counts(h, 9 * d, 9)
  PROVE  SuitPatterns(h, d) # {} <=> HasSplit(c, 9, 0..6)
<1>1. PICK f \in Nat : f = 9 * d  OBVIOUS
<1>2. S = f..f + 8 /\ \A j \in 0..8 : f + j \in S  BY <1>1 DEF Suit
<1>3. \A j \in 0..8 : c[j] = h[f + j] /\ c[j] \in 0..4  BY <1>1, <1>2 DEF Counts
<1>4. SuitPatterns(h, d) # {} <=> \E u : Chosen2(h, S, f, u)  BY <1>1, SuitPatternsDef
<1>5. ASSUME NEW u, Chosen2(h, S, f, u)  PROVE HasSplit(c, 9, 0..6)
  <2>1. PICK T, P : T = u[1] /\ P = u[2] /\ T \in Triplets(h, S) /\ P \in Pairs(h, S)  BY <1>5 DEF Chosen2
  <2>2. PICK s : s = SequencesLeft(h, f, T, P)  OBVIOUS
  <2>3. \A j \in 0..8 : s[f + j] >= 0  BY <1>2, <1>5, <2>1, <2>2 DEF Chosen2, AreSequences
  <2>4. s[f + 7] = 0 /\ s[f + 8] = 0  BY <1>5, <2>1, <2>2 DEF Chosen2, AreSequences
  <2>5. PICK U, Q : U = {j \in 0..8 : f + j \in T} /\ Q = {j \in 0..8 : f + j \in P}  OBVIOUS
  <2>6. Q \in {{}} \cup {{k} : k \in 0..8}
    <3>1. CASE P = {}
      <4>1. Q = {}  BY <2>5, <3>1
      <4>. QED  BY <4>1
    <3>2. CASE P # {}
      <4>1. PICK q \in S : P = {q}  BY <2>1, <3>2 DEF Pairs
      <4>2. PICK k \in 0..8 : q = f + k
        <5>1. q \in Int /\ f <= q /\ q <= f + 8  BY <1>2
        <5>2. q - f \in 0..8 /\ q = f + (q - f)  BY <5>1
        <5>. QED  BY <5>2
      <4>3. \A j \in 0..8 : f + j \in P <=> j = k  BY <4>1, <4>2
      <4>4. Q = {k}  BY <2>5, <4>3
      <4>. QED  BY <4>4
    <3>. QED  BY <3>1, <3>2
  <2>7. PICK x : x = [j \in 0..8 |-> c[j] - Parts(j, U, Q)]  OBVIOUS
  <2>8. ASSUME NEW j \in 0..8
        PROVE  x[j] \in Int /\ x[j] = LeftOf(h, f, T, P, f + j) /\ c[j] = Parts(j, U, Q) + x[j] /\ Parts(j, U, Q) \in Nat
    <3>1. Parts(j, U, Q) = (IF f + j \in T THEN 3 ELSE 0) + (IF f + j \in P THEN 2 ELSE 0)  BY <2>5 DEF Parts
    <3>2. x[j] = c[j] - Parts(j, U, Q)  BY <2>7
    <3>3. LeftOf(h, f, T, P, f + j) = h[f + j] - (IF f + j \in T THEN 3 ELSE 0) - (IF f + j \in P THEN 2 ELSE 0)
      BY DEF LeftOf
    <3>. QED  BY <1>3, <3>1, <3>2, <3>3
  <2>9. Solves(s, x, f)  BY <2>2, <2>8, SequencesSolve
  <2>10. PICK t : t = [j \in -2..8 |-> IF j < 0 THEN 0 ELSE s[f + j]]  OBVIOUS
  <2>11. t[-2] = 0 /\ t[-1] = 0 /\ \A j \in 0..8 : t[j] = s[f + j]  BY <2>10
  <2>12. \A j \in 0..8 : Runs(t, j) = x[j]  BY <2>8, <2>9, <2>11, SolvedRuns
  <2>13. \A j \in 0..8 : s[f + j] \in Int
    <3>1. PICK x0, x1, x2, x3, x4, x5, x6, x7, x8 \in Int :
            /\ x0 = x[0] /\ x1 = x[1] /\ x2 = x[2] /\ x3 = x[3] /\ x4 = x[4] /\ x5 = x[5] /\ x6 = x[6] /\ x7 = x[7] /\ x8 = x[8]
      <4>1. /\ x[0] \in Int /\ x[1] \in Int /\ x[2] \in Int /\ x[3] \in Int /\ x[4] \in Int /\ x[5] \in Int
            /\ x[6] \in Int /\ x[7] \in Int /\ x[8] \in Int
        BY <2>8
      <4>. QED  BY ONLY <4>1, Zenon
    <3>2. /\ s[f] \in Int /\ s[f + 1] \in Int /\ s[f + 2] \in Int /\ s[f + 3] \in Int /\ s[f + 4] \in Int
          /\ s[f + 5] \in Int /\ s[f + 6] \in Int /\ s[f + 7] \in Int /\ s[f + 8] \in Int
      BY <2>9, <3>1 DEF Solves
    <3>3. f + 0 = f  OBVIOUS
    <3>4. \A j \in 0..8 : j = 0 \/ j = 1 \/ j = 2 \/ j = 3 \/ j = 4 \/ j = 5 \/ j = 6 \/ j = 7 \/ j = 8  OBVIOUS
    <3>. QED  BY ONLY <3>2, <3>3, <3>4
  <2>14. IsRuns(t, 9, 0..6)
    <3>1. \A j \in 0..8 : s[f + j] \in Nat  BY <2>3, <2>13
    <3>2. t \in [-2..9 - 1 -> Nat]  BY <2>10, <3>1
    <3>3. ASSUME NEW k \in -2..9 - 1, k \notin 0..6  PROVE t[k] = 0
      <4>1. k = -2 \/ k = -1 \/ k = 7 \/ k = 8  BY <3>3
      <4>2. t[7] = 0 /\ t[8] = 0  BY <2>4, <2>11
      <4>. QED  BY ONLY <2>11, <4>1, <4>2
    <3>. QED  BY <3>2, <3>3 DEF IsRuns
  <2>15. SplitBy(c, U, Q, t, 9, 0..6)
    <3>1. U \in SUBSET (0..9 - 1)  BY <2>5
    <3>2. \A k \in 0..9 - 1 : c[k] = Parts(k, U, Q) + Runs(t, k)  BY <2>8, <2>12
    <3>. QED  BY <2>14, <3>1, <3>2 DEF SplitBy
  <2>16. Q \in {{}} \cup {{k} : k \in 0..9 - 1}  BY <2>6
  <2>. QED  BY <2>15, <2>16 DEF HasSplit, SplitWith
<1>6. ASSUME HasSplit(c, 9, 0..6)  PROVE \E u : Chosen2(h, S, f, u)
  <2>1. PICK Q \in {{}} \cup {{k} : k \in 0..9 - 1} : SplitWith(c, Q, 9, 0..6)  BY <1>6 DEF HasSplit
  <2>2. PICK U, t : SplitBy(c, U, Q, t, 9, 0..6)  BY <2>1 DEF SplitWith
  <2>3. U \in SUBSET (0..8) /\ Q \in SUBSET (0..8) /\ IsRuns(t, 9, 0..6)  BY <2>1, <2>2 DEF SplitBy
  <2>4. t \in [-2..8 -> Nat] /\ t[-2] = 0 /\ t[-1] = 0 /\ t[7] = 0 /\ t[8] = 0
    <3>1. t \in [-2..8 -> Nat]  BY <2>3 DEF IsRuns
    <3>2. \A k \in -2..8 : k \notin 0..6 => t[k] = 0  BY <2>3 DEF IsRuns
    <3>. QED  BY <3>1, <3>2
  <2>5. PICK T, P : T = {f + j : j \in U} /\ P = {f + j : j \in Q}  OBVIOUS
  <2>6. \A j \in 0..8 : (f + j \in T <=> j \in U) /\ (f + j \in P <=> j \in Q)  BY <2>3, <2>5
  <2>7. PICK x : x = [j \in 0..8 |-> Runs(t, j)]  OBVIOUS
  <2>8. ASSUME NEW j \in 0..8
        PROVE  /\ x[j] \in Nat /\ x[j] = Runs(t, j) /\ x[j] = LeftOf(h, f, T, P, f + j)
               /\ j \in U => h[f + j] >= 3
               /\ j \in Q => h[f + j] >= 2
    <3>1. PICK y \in Nat : y = Runs(t, j)  BY <2>4, RunsType
    <3>2. x[j] = y  BY <2>7, <3>1
    <3>3. h[f + j] = (IF j \in U THEN 3 ELSE 0) + (IF j \in Q THEN 2 ELSE 0) + y
      BY <1>3, <2>2, <3>1 DEF SplitBy, Parts
    <3>4. LeftOf(h, f, T, P, f + j) = h[f + j] - (IF f + j \in T THEN 3 ELSE 0) - (IF f + j \in P THEN 2 ELSE 0)
      BY DEF LeftOf
    <3>5. (f + j \in T <=> j \in U) /\ (f + j \in P <=> j \in Q)  BY <2>6
    <3>6. LeftOf(h, f, T, P, f + j) = y  BY <3>3, <3>4, <3>5
    <3>. QED  BY <3>1, <3>2, <3>3, <3>6
  <2>9. PICK s : s = SequencesLeft(h, f, T, P)  OBVIOUS
  <2>10. Solves(s, x, f)
    <3>1. \A j \in 0..8 : x[j] \in Int /\ x[j] = LeftOf(h, f, T, P, f + j)  BY <2>8
    <3>. QED  BY <2>9, <3>1, SequencesSolve
  <2>11. \A j \in 0..8 : s[f + j] = t[j]
    <3>1. \A j \in 0..8 : x[j] = Runs(t, j)  BY <2>8
    <3>. QED  BY <2>4, <2>10, <3>1, RunsSolved
  <2>12. AreSequences(s, f)
    <3>1. s[f + 7] = 0 /\ s[f + 8] = 0  BY <2>4, <2>11
    <3>2. ASSUME NEW k \in f..f + 8  PROVE s[k] >= 0
      <4>1. PICK j \in 0..8 : k = f + j
        <5>1. k - f \in 0..8 /\ k = f + (k - f)  OBVIOUS
        <5>. QED  BY <5>1
      <4>2. s[k] = t[j] /\ t[j] \in Nat  BY <2>4, <2>11, <4>1
      <4>. QED  BY <4>2
    <3>. QED  BY <3>1, <3>2 DEF AreSequences
  <2>13. T \in Triplets(h, S)
    <3>1. ASSUME NEW k \in T  PROVE k \in S /\ h[k] >= 3
      <4>1. PICK j \in 0..8 : j \in U /\ k = f + j  BY <2>3, <2>5
      <4>. QED  BY <1>2, <2>8, <4>1
    <3>. QED  BY <3>1 DEF Triplets
  <2>14. P \in Pairs(h, S)
    <3>1. CASE Q = {}
      <4>1. P = {}  BY <2>5, <3>1
      <4>. QED  BY <4>1 DEF Pairs
    <3>2. CASE Q # {}
      <4>1. PICK k \in 0..8 : Q = {k}  BY <2>1, <3>2
      <4>2. P = {f + k}  BY <2>5, <4>1
      <4>3. f + k \in S /\ h[f + k] >= 2  BY <1>2, <2>8, <4>1
      <4>. QED  BY <4>2, <4>3 DEF Pairs
    <3>. QED  BY <3>1, <3>2
  <2>15. PICK u : u = <<T, P>>  OBVIOUS
  <2>16. Chosen2(h, S, f, u)  BY <2>9, <2>12, <2>13, <2>14, <2>15 DEF Chosen2
  <2>. QED  BY <2>16
<1>. QED  BY <1>4, <1>5, <1>6

ChosenHonors(h, u) ==
  /\ u \in Triplets(h, Honors) \X Pairs(h, Honors)
  /\ \A k \in Honors : h[k] = (IF k \in u[1] THEN 3 ELSE 0) + (IF k \in u[2] THEN 2 ELSE 0)

LEMMA HonorPatternsDef ==
  ASSUME NEW h
  PROVE  HonorPatterns(h) # {} <=> \E u : ChosenHonors(h, u)
<1>1. PICK U : U = {u \in Triplets(h, Honors) \X Pairs(h, Honors) :
                      \A k \in Honors : h[k] = (IF k \in u[1] THEN 3 ELSE 0) + (IF k \in u[2] THEN 2 ELSE 0)}
  OBVIOUS
<1>2. HonorPatterns(h) = {BlocksOf(East, RedDragon, t[1], t[2], [k \in Honors |-> 0]) : t \in U}
  BY <1>1, Zenon DEF HonorPatterns
<1>3. HonorPatterns(h) # {} <=> U # {}  BY <1>2
<1>4. U # {} <=> \E u : ChosenHonors(h, u)  BY <1>1 DEF ChosenHonors
<1>. QED  BY <1>3, <1>4

LEMMA HonorsSplit ==
  ASSUME NEW h, \A k \in Honors : h[k] \in 0..4, NEW c, c = Counts(h, East, 7)
  PROVE  HonorPatterns(h) # {} <=> HasSplit(c, 7, {})
<1>1. East = 27 /\ Honors = 27..33  BY DEF East, Honors, RedDragon
<1>3. \A j \in 0..6 : c[j] = h[27 + j] /\ 27 + j \in Honors  BY <1>1 DEF Counts
<1>4. \A k \in Honors : k - 27 \in 0..6 /\ 27 + (k - 27) = k  BY <1>1
<1>5. ASSUME NEW u, ChosenHonors(h, u)  PROVE HasSplit(c, 7, {})
  <2>1. PICK T, P : T = u[1] /\ P = u[2] /\ T \in Triplets(h, Honors) /\ P \in Pairs(h, Honors)
    BY <1>5 DEF ChosenHonors
  <2>5. PICK U, Q : U = {j \in 0..6 : 27 + j \in T} /\ Q = {j \in 0..6 : 27 + j \in P}  OBVIOUS
  <2>6. Q \in {{}} \cup {{k} : k \in 0..6}
    <3>1. CASE P = {}
      <4>1. Q = {}  BY <2>5, <3>1
      <4>. QED  BY <4>1
    <3>2. CASE P # {}
      <4>1. PICK q \in Honors : P = {q}  BY <2>1, <3>2 DEF Pairs
      <4>2. PICK k \in 0..6 : q = 27 + k  BY <1>4
      <4>3. \A j \in 0..6 : 27 + j \in P <=> j = k  BY <4>1, <4>2
      <4>4. Q = {k}  BY <2>5, <4>3
      <4>. QED  BY <4>4
    <3>. QED  BY <3>1, <3>2
  <2>7. PICK s : s = [j \in -2..6 |-> 0]  OBVIOUS
  <2>8. IsRuns(s, 7, {}) /\ \A k \in 0..6 : Runs(s, k) = 0  BY <2>7 DEF IsRuns, Runs
  <2>9. ASSUME NEW k \in 0..6  PROVE c[k] = Parts(k, U, Q) + Runs(s, k)
    <3>1. h[27 + k] = (IF 27 + k \in T THEN 3 ELSE 0) + (IF 27 + k \in P THEN 2 ELSE 0)
      BY <1>3, <1>5, <2>1 DEF ChosenHonors
    <3>2. (27 + k \in T <=> k \in U) /\ (27 + k \in P <=> k \in Q)  BY <2>5
    <3>. QED  BY <1>3, <2>8, <3>1, <3>2 DEF Parts
  <2>10. SplitBy(c, U, Q, s, 7, {})
    <3>1. U \in SUBSET (0..7 - 1)  BY <2>5
    <3>2. \A k \in 0..7 - 1 : c[k] = Parts(k, U, Q) + Runs(s, k)  BY <2>9
    <3>. QED  BY <2>8, <3>1, <3>2 DEF SplitBy
  <2>11. Q \in {{}} \cup {{k} : k \in 0..7 - 1}  BY <2>6
  <2>. QED  BY <2>10, <2>11 DEF HasSplit, SplitWith
<1>6. ASSUME HasSplit(c, 7, {})  PROVE \E u : ChosenHonors(h, u)
  <2>1. PICK Q \in {{}} \cup {{k} : k \in 0..7 - 1} : SplitWith(c, Q, 7, {})  BY <1>6 DEF HasSplit
  <2>2. PICK U, s : SplitBy(c, U, Q, s, 7, {})  BY <2>1 DEF SplitWith
  <2>3. U \in SUBSET (0..6) /\ Q \in SUBSET (0..6) /\ IsRuns(s, 7, {})  BY <2>1, <2>2 DEF SplitBy
  <2>4. \A k \in 0..6 : Runs(s, k) = 0
    <3>1. \A k \in -2..6 : s[k] = 0  BY <2>3 DEF IsRuns
    <3>2. \A k \in 0..6 : k \in -2..6 /\ k - 1 \in -2..6 /\ k - 2 \in -2..6  OBVIOUS
    <3>. QED  BY <3>1, <3>2 DEF Runs
  <2>5. PICK T, P : T = {27 + j : j \in U} /\ P = {27 + j : j \in Q}  OBVIOUS
  <2>6. \A j \in 0..6 : (27 + j \in T <=> j \in U) /\ (27 + j \in P <=> j \in Q)  BY <2>3, <2>5
  <2>7. ASSUME NEW j \in 0..6
        PROVE  h[27 + j] = (IF 27 + j \in T THEN 3 ELSE 0) + (IF 27 + j \in P THEN 2 ELSE 0)
    <3>1. c[j] = (IF j \in U THEN 3 ELSE 0) + (IF j \in Q THEN 2 ELSE 0)  BY <2>2, <2>4 DEF SplitBy, Parts
    <3>. QED  BY <1>3, <2>6, <3>1
  <2>8. \A k \in Honors : h[k] = (IF k \in T THEN 3 ELSE 0) + (IF k \in P THEN 2 ELSE 0)
    <3>1. ASSUME NEW k \in Honors  PROVE h[k] = (IF k \in T THEN 3 ELSE 0) + (IF k \in P THEN 2 ELSE 0)
      <4>1. PICK j \in 0..6 : k = 27 + j  BY <1>4
      <4>. QED  BY <2>7, <4>1
    <3>. QED  BY <3>1
  <2>9. T \in SUBSET Honors /\ P \in SUBSET Honors
    <3>1. \A j \in 0..6 : 27 + j \in Honors  BY <1>3
    <3>. QED  BY <2>3, <2>5, <3>1
  <2>13. T \in Triplets(h, Honors)
    <3>1. ASSUME NEW k \in T  PROVE h[k] >= 3  BY <2>8, <2>9
    <3>. QED  BY <2>9, <3>1 DEF Triplets
  <2>14. P \in Pairs(h, Honors)
    <3>1. CASE Q = {}
      <4>1. P = {}  BY <2>5, <3>1
      <4>. QED  BY <4>1 DEF Pairs
    <3>2. CASE Q # {}
      <4>1. PICK k \in 0..6 : Q = {k}  BY <2>1, <3>2
      <4>2. P = {27 + k}  BY <2>5, <4>1
      <4>3. 27 + k \in Honors /\ h[27 + k] >= 2  BY <2>8, <2>9, <4>2
      <4>. QED  BY <4>2, <4>3 DEF Pairs
    <3>. QED  BY <3>1, <3>2
  <2>15. PICK u : u = <<T, P>>  OBVIOUS
  <2>16. ChosenHonors(h, u)  BY <2>8, <2>13, <2>14, <2>15 DEF ChosenHonors
  <2>. QED  BY <2>16
<1>. QED  BY <1>5, <1>6, HonorPatternsDef

-----------------------------------------------------------------------------
(* The tiles of a hand within a suit, and within two sides of the tiles.   *)

\* The number of tiles of w among X.
Held(w, X) == Away(Bare, w, X)

LEMMA HeldType ==
  ASSUME NEW X \in SUBSET Kinds, NEW w, IsPattern(w, X)
  PROVE  IsFiniteSet(X) /\ IsCounts(Bare, X) /\ Held(w, X) \in Nat
<1>1. IsFiniteSet(Kinds)
  <2>1. PICK l, u : l = 0 /\ u = 33 /\ l \in Int /\ u \in Int  OBVIOUS
  <2>2. IsFiniteSet(l..u)  BY <2>1, FS_Interval
  <2>. QED  BY <2>1, <2>2 DEF Kinds
<1>2. IsFiniteSet(X) /\ IsCounts(Bare, X)  BY <1>1, FS_Subset DEF IsCounts, Bare
<1>. QED  BY <1>2, CellsFinite DEF Held

LEMMA HeldStep ==
  ASSUME NEW h \in Kinds, NEW l \in 0..h, NEW w, IsPattern(w, l..h)
  PROVE  Held(w, l..h) = w[l] + Held(w, l + 1..h) /\ IsPattern(w, l + 1..h)
<1>1. PICK S, T : S = l..h /\ T = l + 1..h  OBVIOUS
<1>2. S \in SUBSET Kinds /\ l \in S /\ S \ {l} = T /\ T \in SUBSET S  BY <1>1 DEF Kinds
<1>3. IsPattern(w, S) /\ IsPattern(w, T)  BY <1>1, <1>2 DEF IsPattern
<1>4. IsFiniteSet(S) /\ IsCounts(Bare, S)  BY <1>2, <1>3, HeldType
<1>5. Away(Bare, w, S) = (IF w[l] > Bare[l] THEN w[l] - Bare[l] ELSE 0) + Away(Bare, w, S \ {l})
  <2>1. PICK b : b = Bare  OBVIOUS
  <2>2. PICK U : U = S /\ U \in SUBSET S /\ l \in U  BY <1>2
  <2>3. IsCounts(b, S)  BY <1>4, <2>1
  <2>4. Away(b, w, U) = (IF w[l] > b[l] THEN w[l] - b[l] ELSE 0) + Away(b, w, U \ {l})
    BY ONLY <1>3, <1>4, <2>2, <2>3, AwayLess
  <2>. QED  BY <2>1, <2>2, <2>4, Zenon
<1>6. Bare[l] = 0 /\ w[l] \in 0..4  BY <1>2, <1>3 DEF Bare, IsPattern
<1>7. (IF w[l] > Bare[l] THEN w[l] - Bare[l] ELSE 0) = w[l]  BY <1>6
<1>. QED  BY <1>1, <1>2, <1>3, <1>5, <1>7 DEF Held

LEMMA HeldLast ==
  ASSUME NEW h \in Kinds, NEW w, IsPattern(w, h..h)
  PROVE  Held(w, h..h) = w[h]
<1>1. Held(w, h..h) = w[h] + Held(w, h + 1..h)
  <2>1. h \in 0..h  BY DEF Kinds
  <2>. QED  BY <2>1, HeldStep
<1>2. h + 1..h = {}  BY DEF Kinds
<1>3. Held(w, h + 1..h) = 0  BY <1>2, AwayEmpty DEF Held
<1>4. w[h] \in 0..4  BY DEF IsPattern, Kinds
<1>. QED  BY <1>1, <1>3, <1>4

\* A suit, or the honors.
IsRegion(o, size) == (o \in {0, 9, 18} /\ size = 9) \/ (o = East /\ size = 7)

LEMMA HeldArea ==
  ASSUME NEW o, NEW size, IsRegion(o, size), NEW w, IsPattern(w, Area(o, size))
  PROVE  Held(w, Area(o, size)) = SumOf(Counts(w, o, size), size)
<1>1. PICK h : h = o + size - 1  OBVIOUS
<1>2. h \in Kinds /\ o \in Nat /\ o + 6 \in 0..h /\ (size = 9 => h = o + 8) /\ (size = 7 => h = o + 6) /\ size \in {7, 9}
  BY <1>1 DEF IsRegion, Kinds, East
<1>3. Area(o, size) = o..h  BY <1>1 DEF Area
<1>4. PICK c : c = Counts(w, o, size)  OBVIOUS
<1>5. \A k \in 0..size - 1 : c[k] = w[o + k]  BY <1>4 DEF Counts
<1>6. \A k \in o..h : w[k] \in 0..4  BY <1>3 DEF IsPattern
<1>7. ASSUME NEW l \in o..h - 1
      PROVE  IsPattern(w, l..h) => IsPattern(w, l + 1..h) /\ Held(w, l..h) = w[l] + Held(w, l + 1..h)
  <2>1. l \in 0..h  BY <1>2
  <2>. QED  BY <1>2, <2>1, HeldStep
<1>8. IsPattern(w, o..h)  BY <1>3
<1>9. /\ Held(w, o..h) = w[o] + Held(w, o + 1..h) /\ Held(w, o + 1..h) = w[o + 1] + Held(w, o + 2..h)
      /\ Held(w, o + 2..h) = w[o + 2] + Held(w, o + 3..h) /\ Held(w, o + 3..h) = w[o + 3] + Held(w, o + 4..h)
      /\ Held(w, o + 4..h) = w[o + 4] + Held(w, o + 5..h) /\ Held(w, o + 5..h) = w[o + 5] + Held(w, o + 6..h)
      /\ IsPattern(w, o + 6..h)
  <2>1. IsPattern(w, o + 1..h) /\ Held(w, o..h) = w[o] + Held(w, o + 1..h)
    <3>1. o \in o..h - 1  BY <1>2
    <3>. QED  BY <1>7, <1>8, <3>1
  <2>2. IsPattern(w, o + 2..h) /\ Held(w, o + 1..h) = w[o + 1] + Held(w, o + 2..h)
    <3>1. o + 1 \in o..h - 1 /\ o + 1 + 1 = o + 2  BY <1>2
    <3>. QED  BY <1>7, <2>1, <3>1
  <2>3. IsPattern(w, o + 3..h) /\ Held(w, o + 2..h) = w[o + 2] + Held(w, o + 3..h)
    <3>1. o + 2 \in o..h - 1 /\ o + 2 + 1 = o + 3  BY <1>2
    <3>. QED  BY <1>7, <2>2, <3>1
  <2>4. IsPattern(w, o + 4..h) /\ Held(w, o + 3..h) = w[o + 3] + Held(w, o + 4..h)
    <3>1. o + 3 \in o..h - 1 /\ o + 3 + 1 = o + 4  BY <1>2
    <3>. QED  BY <1>7, <2>3, <3>1
  <2>5. IsPattern(w, o + 5..h) /\ Held(w, o + 4..h) = w[o + 4] + Held(w, o + 5..h)
    <3>1. o + 4 \in o..h - 1 /\ o + 4 + 1 = o + 5  BY <1>2
    <3>. QED  BY <1>7, <2>4, <3>1
  <2>6. IsPattern(w, o + 6..h) /\ Held(w, o + 5..h) = w[o + 5] + Held(w, o + 6..h)
    <3>1. o + 5 \in o..h - 1 /\ o + 5 + 1 = o + 6  BY <1>2
    <3>. QED  BY <1>7, <2>5, <3>1
  <2>. QED  BY <2>1, <2>2, <2>3, <2>4, <2>5, <2>6
<1>10. PICK tail \in Nat : tail = Held(w, o + 6..h)
  <2>1. o + 6..h \in SUBSET Kinds  BY <1>2 DEF Kinds
  <2>. QED  BY <1>9, <2>1, HeldType
<1>11. PICK w0, w1, w2, w3, w4, w5, w6 \in 0..4 :
         /\ w0 = w[o] /\ w1 = w[o + 1] /\ w2 = w[o + 2] /\ w3 = w[o + 3] /\ w4 = w[o + 4] /\ w5 = w[o + 5] /\ w6 = w[o + 6]
  <2>1. o \in o..h /\ o + 1 \in o..h /\ o + 2 \in o..h /\ o + 3 \in o..h /\ o + 4 \in o..h /\ o + 5 \in o..h /\ o + 6 \in o..h
    BY <1>2
  <2>. QED  BY <1>6, <2>1, Zenon
<1>12. Held(w, o..h) = w0 + (w1 + (w2 + (w3 + (w4 + (w5 + tail)))))  BY ONLY <1>9, <1>10, <1>11, Zenon
<1>13. c[0] = w0 /\ c[1] = w1 /\ c[2] = w2 /\ c[3] = w3 /\ c[4] = w4 /\ c[5] = w5 /\ c[6] = w6
  <2>1. /\ 0 \in 0..size - 1 /\ 1 \in 0..size - 1 /\ 2 \in 0..size - 1 /\ 3 \in 0..size - 1
        /\ 4 \in 0..size - 1 /\ 5 \in 0..size - 1 /\ 6 \in 0..size - 1 /\ o + 0 = o
    BY <1>2
  <2>2. c[0] = w[o] /\ c[1] = w[o + 1] /\ c[2] = w[o + 2] /\ c[3] = w[o + 3] /\ c[4] = w[o + 4] /\ c[5] = w[o + 5] /\ c[6] = w[o + 6]
    BY <1>5, <2>1
  <2>. QED  BY <1>11, <2>2, Zenon
<1>14. CASE size = 7
  <2>1. h \in Kinds /\ o + 6 = h  BY <1>2, <1>14
  <2>2. tail = w6  BY <1>9, <1>10, <1>11, <2>1, HeldLast
  <2>3. SumOf(c, size) = w0 + w1 + w2 + w3 + w4 + w5 + w6 + 0  BY ONLY <1>13, <1>14 DEF SumOf
  <2>4. w0 + (w1 + (w2 + (w3 + (w4 + (w5 + w6))))) = w0 + w1 + w2 + w3 + w4 + w5 + w6 + 0  OBVIOUS
  <2>. QED  BY ONLY <1>3, <1>4, <1>12, <2>2, <2>3, <2>4
<1>15. CASE size = 9
  <2>1. h = o + 8 /\ h \in Kinds  BY <1>2, <1>15
  <2>2. IsPattern(w, o + 7..h) /\ Held(w, o + 6..h) = w[o + 6] + Held(w, o + 7..h)
    <3>1. o + 6 \in o..h - 1 /\ o + 6 + 1 = o + 7  BY <1>2, <2>1
    <3>. QED  BY <1>7, <1>9, <3>1
  <2>3. IsPattern(w, o + 8..h) /\ Held(w, o + 7..h) = w[o + 7] + Held(w, o + 8..h)
    <3>1. o + 7 \in o..h - 1 /\ o + 7 + 1 = o + 8  BY <1>2, <2>1
    <3>. QED  BY <1>7, <2>2, <3>1
  <2>4. Held(w, o + 8..h) = w[o + 8]  BY <2>1, <2>3, HeldLast
  <2>5. PICK w7, w8 \in 0..4 : w7 = w[o + 7] /\ w8 = w[o + 8]
    <3>1. o + 7 \in o..h /\ o + 8 \in o..h  BY <1>2, <2>1
    <3>. QED  BY <1>6, <3>1, Zenon
  <2>6. tail = w6 + (w7 + w8)  BY ONLY <1>10, <1>11, <2>2, <2>3, <2>4, <2>5, Zenon
  <2>7. c[7] = w7 /\ c[8] = w8
    <3>1. 7 \in 0..size - 1 /\ 8 \in 0..size - 1  BY <1>15
    <3>. QED  BY <1>5, <2>5, <3>1
  <2>8. SumOf(c, size) = w0 + w1 + w2 + w3 + w4 + w5 + w6 + (w7 + w8)  BY ONLY <1>13, <1>15, <2>7 DEF SumOf
  <2>9. w0 + (w1 + (w2 + (w3 + (w4 + (w5 + (w6 + (w7 + w8))))))) = w0 + w1 + w2 + w3 + w4 + w5 + w6 + (w7 + w8)  OBVIOUS
  <2>. QED  BY ONLY <1>3, <1>4, <1>12, <2>6, <2>8, <2>9
<1>. QED  BY <1>2, <1>14, <1>15

\* The sizes of two sides that an index is divided between.
LEMMA SizeIs ==
  ASSUME NEW m \in 0..4, NEW i \in Indices(m)
  PROVE  /\ SizeOf(i) \in Nat /\ SizeOf(i) % 3 # 1 /\ i \in Nat
         /\ i < 5 => i <= m /\ SizeOf(i) = 3 * i
         /\ i >= 5 => i <= 5 + m /\ SizeOf(i) = 3 * (i - 5) + 2
<1>1. i \in Nat /\ (i < 5 => i <= m) /\ (i >= 5 => i <= 5 + m)  BY DEF Indices
<1>. QED  BY <1>1 DEF SizeOf

LEMMA SizesAdd ==
  ASSUME NEW m \in 0..4, NEW i \in Indices(m), NEW s \in Splits(i)
  PROVE  /\ s[1] \in Indices(m) /\ s[2] \in Indices(m)
         /\ SizeOf(s[1]) + SizeOf(s[2]) = SizeOf(i)
<1>1. PICK j, k : j = s[1] /\ k = s[2]  OBVIOUS
<1>2. /\ j \in Indices(m) /\ k \in Indices(m) /\ j + k = i
      /\ i < 5 => j < 5 /\ k < 5
      /\ i >= 5 => (j < 5 <=> k >= 5)
  BY <1>1, SplitsAre
<1>3. /\ i \in Nat /\ (i < 5 => SizeOf(i) = 3 * i) /\ (i >= 5 => SizeOf(i) = 3 * (i - 5) + 2)  BY SizeIs
<1>4. /\ j \in Nat /\ (j < 5 => SizeOf(j) = 3 * j) /\ (j >= 5 => SizeOf(j) = 3 * (j - 5) + 2)  BY <1>2, SizeIs
<1>5. /\ k \in Nat /\ (k < 5 => SizeOf(k) = 3 * k) /\ (k >= 5 => SizeOf(k) = 3 * (k - 5) + 2)  BY <1>2, SizeIs
<1>6. SizeOf(j) + SizeOf(k) = SizeOf(i)
  <2>1. CASE i < 5  BY <1>2, <1>3, <1>4, <1>5, <2>1
  <2>2. CASE i >= 5 /\ j < 5  BY <1>2, <1>3, <1>4, <1>5, <2>2
  <2>3. CASE i >= 5 /\ j >= 5  BY <1>2, <1>3, <1>4, <1>5, <2>3
  <2>. QED  BY <1>3, <1>4, <2>1, <2>2, <2>3
<1>. QED  BY <1>1, <1>2, <1>6

Divides(i, m, x, y) == \E j, k \in Indices(m) : x = SizeOf(j) /\ y = SizeOf(k) /\ <<j, k>> \in Splits(i)

LEMMA SizesSplit ==
  ASSUME NEW m \in 0..4, NEW i \in Indices(m), NEW x \in Nat, NEW y \in Nat, x % 3 # 1, y % 3 # 1, x + y = SizeOf(i)
  PROVE  Divides(i, m, x, y)
<1>1. PICK a \in Nat : x = 3 * a \/ x = 3 * a + 2
  <2>1. x \div 3 \in Nat /\ (x = 3 * (x \div 3) \/ x = 3 * (x \div 3) + 2)  OBVIOUS
  <2>. QED  BY <2>1
<1>2. PICK c \in Nat : y = 3 * c \/ y = 3 * c + 2
  <2>1. y \div 3 \in Nat /\ (y = 3 * (y \div 3) \/ y = 3 * (y \div 3) + 2)  OBVIOUS
  <2>. QED  BY <2>1
<1>3. PICK j, k : j = (IF x = 3 * a THEN a ELSE 5 + a) /\ k = (IF y = 3 * c THEN c ELSE 5 + c)  OBVIOUS
<1>4. /\ i \in Nat /\ (i < 5 => i <= m /\ SizeOf(i) = 3 * i) /\ (i >= 5 => i <= 5 + m /\ SizeOf(i) = 3 * (i - 5) + 2)
  BY SizeIs
<1>5. CASE i < 5
  <2>1. x + y = 3 * i  BY <1>4, <1>5
  <2>2. x = 3 * a /\ y = 3 * c /\ a + c = i  BY <1>1, <1>2, <1>4, <2>1
  <2>3. j = a /\ k = c /\ a \in 0..m /\ c \in 0..m /\ a < 5 /\ c < 5  BY <1>3, <1>4, <1>5, <2>2
  <2>4. j \in Indices(m) /\ k \in Indices(m)  BY <2>3 DEF Indices
  <2>5. x = SizeOf(j) /\ y = SizeOf(k)  BY <2>2, <2>3 DEF SizeOf
  <2>6. <<j, k>> \in Splits(i)  BY <1>5, <2>2, <2>3, <2>4, SplitsAre
  <2>. QED  BY <2>4, <2>5, <2>6 DEF Divides
<1>6. CASE i >= 5 /\ x = 3 * a
  <2>1. x + y = 3 * (i - 5) + 2  BY <1>4, <1>6
  <2>2. y = 3 * c + 2 /\ a + c = i - 5  BY <1>2, <1>4, <1>6, <2>1
  <2>3. j = a /\ k = 5 + c /\ a \in 0..m /\ c \in 0..m /\ a < 5 /\ ~(k < 5) /\ j + k = i  BY <1>3, <1>4, <1>6, <2>2
  <2>4. j \in Indices(m) /\ k \in Indices(m)  BY <2>3 DEF Indices
  <2>5. x = SizeOf(j) /\ y = SizeOf(k)  BY <1>6, <2>2, <2>3 DEF SizeOf
  <2>6. <<j, k>> \in Splits(i)  BY <1>6, <2>3, <2>4, SplitsAre
  <2>. QED  BY <2>4, <2>5, <2>6 DEF Divides
<1>7. CASE i >= 5 /\ x # 3 * a
  <2>1. x + y = 3 * (i - 5) + 2 /\ x = 3 * a + 2  BY <1>1, <1>4, <1>7
  <2>2. y = 3 * c /\ a + c = i - 5  BY <1>2, <1>4, <2>1
  <2>3. j = 5 + a /\ k = c /\ a \in 0..m /\ c \in 0..m /\ c < 5 /\ ~(j < 5) /\ j + k = i  BY <1>3, <1>4, <1>7, <2>2
  <2>4. j \in Indices(m) /\ k \in Indices(m)  BY <2>3 DEF Indices
  <2>5. x = SizeOf(j) /\ y = SizeOf(k)  BY <2>1, <2>2, <2>3 DEF SizeOf
  <2>6. <<j, k>> \in Splits(i)  BY <1>7, <2>3, <2>4, SplitsAre
  <2>. QED  BY <2>4, <2>5, <2>6 DEF Divides
<1>. QED  BY <1>4, <1>5, <1>6, <1>7

\* The hands G, by the index of their size, are the patterns F; K are the indices there are.
Sized(F, X, G, m, K) ==
  /\ G \subseteq Patterns4(X)
  /\ \A w \in G : Held(w, X) % 3 # 1
  /\ \A i \in Indices(m) : \A w \in G : Held(w, X) = SizeOf(i) => i \in K /\ w \in F[i]
  /\ \A i \in Indices(m) : i \in K => \A w \in F[i] : w \in G /\ Held(w, X) = SizeOf(i)

\* Hands whose sides are of G and J, without two pairs.
Both(G, J, X, Y) == {w \in Patterns4(X \cup Y) : On(w, X) \in G /\ On(w, Y) \in J /\ Held(w, X \cup Y) % 3 # 1}

LEMMA HeldSides ==
  ASSUME NEW X \in SUBSET Kinds, NEW Y \in SUBSET Kinds, Apart(X, Y), NEW w \in Patterns4(X \cup Y)
  PROVE  /\ Held(w, X \cup Y) = Held(On(w, X), X) + Held(On(w, Y), Y)
         /\ Held(On(w, X), X) \in Nat /\ Held(On(w, Y), Y) \in Nat
<1>1. IsPattern(w, X) /\ IsPattern(w, Y)  BY DEF IsPattern, Patterns4
<1>2. IsFiniteSet(X) /\ IsCounts(Bare, X) /\ IsFiniteSet(Y) /\ IsCounts(Bare, Y)  BY <1>1, HeldType
<1>3. Sides(Bare, X, Y)  BY <1>2 DEF Sides
<1>. QED  BY <1>3, PartsAdd DEF Held

\* The glued patterns of index i are the hands of both sides that have its size.
JoinIs(F, H, G, J, X, Y, K, i, w) ==
  w \in GluedBy(F, H, X, Y, SplitsIn(i, K)) <=> w \in Both(G, J, X, Y) /\ Held(w, X \cup Y) = SizeOf(i)

LEMMA SizedJoin ==
  ASSUME NEW m \in 0..4, NEW X \in SUBSET Kinds, NEW Y \in SUBSET Kinds, Apart(X, Y), NEW F, NEW H, NEW G, NEW J, NEW K,
         Sized(F, X, G, m, Indices(m)), Sized(H, Y, J, m, K), NEW i \in Indices(m), NEW w
  PROVE  JoinIs(F, H, G, J, X, Y, K, i, w)
<1>1. SizeOf(i) % 3 # 1  BY SizeIs
<1>2. ASSUME w \in GluedBy(F, H, X, Y, SplitsIn(i, K))
      PROVE  w \in Both(G, J, X, Y) /\ Held(w, X \cup Y) = SizeOf(i)
  <2>1. w \in Patterns4(X \cup Y)  BY <1>2 DEF GluedBy
  <2>2. PICK s \in SplitsIn(i, K) : On(w, X) \in F[s[1]] /\ On(w, Y) \in H[s[2]]  BY <1>2 DEF GluedBy
  <2>3. s \in Splits(i) /\ s[2] \in K  BY DEF SplitsIn
  <2>4. s[1] \in Indices(m) /\ s[2] \in Indices(m) /\ SizeOf(s[1]) + SizeOf(s[2]) = SizeOf(i)  BY <2>3, SizesAdd
  <2>5. On(w, X) \in G /\ Held(On(w, X), X) = SizeOf(s[1])  BY <2>2, <2>4 DEF Sized
  <2>6. On(w, Y) \in J /\ Held(On(w, Y), Y) = SizeOf(s[2])  BY <2>2, <2>3, <2>4 DEF Sized
  <2>7. Held(w, X \cup Y) = SizeOf(i)
    <3>1. Held(w, X \cup Y) = Held(On(w, X), X) + Held(On(w, Y), Y)  BY <2>1, HeldSides
    <3>. QED  BY ONLY <2>4, <2>5, <2>6, <3>1
  <2>. QED  BY <1>1, <2>1, <2>5, <2>6, <2>7 DEF Both
<1>3. ASSUME w \in Both(G, J, X, Y), Held(w, X \cup Y) = SizeOf(i)
      PROVE  w \in GluedBy(F, H, X, Y, SplitsIn(i, K))
  <2>1. w \in Patterns4(X \cup Y) /\ On(w, X) \in G /\ On(w, Y) \in J  BY <1>3 DEF Both
  <2>2. PICK x, y : x = Held(On(w, X), X) /\ y = Held(On(w, Y), Y)  OBVIOUS
  <2>9. x \in Nat /\ y \in Nat /\ Held(w, X \cup Y) = x + y
    BY ONLY <2>1, <2>2, Apart(X, Y), X \in SUBSET Kinds, Y \in SUBSET Kinds, HeldSides, Zenon
  <2>3. x % 3 # 1 /\ y % 3 # 1  BY <2>1, <2>2 DEF Sized
  <2>10. x + y = SizeOf(i)  BY <1>3, <2>9
  <2>4. PICK j, k \in Indices(m) : x = SizeOf(j) /\ y = SizeOf(k) /\ <<j, k>> \in Splits(i)
    <3>1. Divides(i, m, x, y)  BY ONLY m \in 0..4, i \in Indices(m), <2>3, <2>9, <2>10, SizesSplit
    <3>. QED  BY <3>1 DEF Divides
  <2>5. On(w, X) \in F[j]  BY <2>1, <2>2, <2>4 DEF Sized
  <2>6. k \in K /\ On(w, Y) \in H[k]  BY <2>1, <2>2, <2>4 DEF Sized
  <2>7. PICK s : s = <<j, k>> /\ s[1] = j /\ s[2] = k
    <3>1. <<j, k>>[1] = j /\ <<j, k>>[2] = k  OBVIOUS
    <3>. QED  BY <3>1, Zenon
  <2>8. s \in SplitsIn(i, K)  BY <2>4, <2>6, <2>7 DEF SplitsIn
  <2>. QED  BY <2>1, <2>5, <2>6, <2>7, <2>8 DEF GluedBy
<1>. QED  BY <1>2, <1>3, Zenon DEF JoinIs

LEMMA SizedJoint ==
  ASSUME NEW m \in 0..4, NEW X \in SUBSET Kinds, NEW Y \in SUBSET Kinds, Apart(X, Y), NEW F, NEW H, NEW G, NEW J,
         NEW K, K = Indices(m), Sized(F, X, G, m, K), Sized(H, Y, J, m, K)
  PROVE  Sized(Joint(F, H, X, Y, m), X \cup Y, Both(G, J, X, Y), m, K)
<1>1. PICK D, B : D = Joint(F, H, X, Y, m) /\ B = Both(G, J, X, Y)  OBVIOUS
<1>2. ASSUME NEW i \in Indices(m), NEW w
      PROVE  w \in D[i] <=> w \in B /\ Held(w, X \cup Y) = SizeOf(i)
  <2>1. D[i] = GluedBy(F, H, X, Y, Splits(i))  BY <1>1 DEF Joint, Glued, GluedBy
  <2>2. SplitsIn(i, K) = Splits(i)
    <3>1. \A s \in Splits(i) : s[2] \in K  BY SplitsAre
    <3>. QED  BY <3>1 DEF SplitsIn
  <2>3. w \in GluedBy(F, H, X, Y, SplitsIn(i, K)) <=> w \in Both(G, J, X, Y) /\ Held(w, X \cup Y) = SizeOf(i)
    BY SizedJoin DEF JoinIs
  <2>. QED  BY <1>1, <2>1, <2>2, <2>3
<1>3. B \subseteq Patterns4(X \cup Y) /\ \A w \in B : Held(w, X \cup Y) % 3 # 1  BY <1>1 DEF Both
<1>. QED  BY <1>1, <1>2, <1>3 DEF Sized

-----------------------------------------------------------------------------
(* The patterns that the tables stand for, joined: the complete hands.     *)

\* The hands of a suit, or of the honors, that split into groups and at most one pair.
AreaHands(o, size, V) == {w \in Patterns4(Area(o, size)) : HasSplit(Counts(w, o, size), size, V)}
IsMadeBy(F, o, size, V, m) ==
  \A i \in Indices(m) : F[i] = Made(o, size, WinPatterns(size, SplitGroups(size, V))[i])

LEMMA AreaSized ==
  ASSUME NEW o, NEW size, IsRegion(o, size), NEW V, IsArea(size, V), NEW m \in 0..4, NEW F, IsMadeBy(F, o, size, V, m)
  PROVE  Sized(F, Area(o, size), AreaHands(o, size, V), m, Indices(m))
<1>1. PICK X, G : X = Area(o, size) /\ G = AreaHands(o, size, V)  OBVIOUS
<1>2. o \in Nat /\ size \in Nat /\ size \in {7, 9}  BY DEF IsRegion, East
<1>3. G \subseteq Patterns4(X)  BY <1>1 DEF AreaHands
<1>4. ASSUME NEW w \in Patterns4(X)
      PROVE  /\ Held(w, X) = SumOf(Counts(w, o, size), size)
             /\ w \in G <=> HasSplit(Counts(w, o, size), size, V)
             /\ Counts(w, o, size) \in Patterns4(0..size - 1)
  <2>1. IsPattern(w, X)  BY DEF IsPattern, Patterns4
  <2>2. Held(w, X) = SumOf(Counts(w, o, size), size)  BY <1>1, <2>1, HeldArea
  <2>3. \A k \in 0..size - 1 : o + k \in X  BY <1>1, <1>2 DEF Area
  <2>4. Counts(w, o, size) \in Patterns4(0..size - 1)  BY <2>3 DEF Counts, Patterns4
  <2>. QED  BY <1>1, <2>2, <2>4 DEF AreaHands
<1>5. \A w \in G : Held(w, X) % 3 # 1
  <2>1. SUFFICES ASSUME NEW w \in G  PROVE Held(w, X) % 3 # 1  OBVIOUS
  <2>2. w \in Patterns4(X)  BY <1>3
  <2>3. HasSplit(Counts(w, o, size), size, V) /\ Held(w, X) = SumOf(Counts(w, o, size), size)  BY <1>4, <2>2
  <2>4. SumOf(Counts(w, o, size), size) % 3 \in {0, 2}  BY <2>3, HasSplitSum
  <2>. QED  BY <2>3, <2>4
<1>6. ASSUME NEW i \in Indices(m), NEW w \in Patterns4(X)
      PROVE  w \in F[i] <=> w \in G /\ Held(w, X) = SizeOf(i)
  <2>1. i \in Indices(4)  BY DEF Indices
  <2>2. w \in F[i] <=> Counts(w, o, size) \in WinPatterns(size, SplitGroups(size, V))[i]  BY <1>1 DEF IsMadeBy, Made
  <2>3. Counts(w, o, size) \in WinPatterns(size, SplitGroups(size, V))[i]
          <=> HasSplit(Counts(w, o, size), size, V) /\ SumOf(Counts(w, o, size), size) = SizeOf(i)
    BY <1>4, <2>1, PatternIs
  <2>. QED  BY <1>4, <2>2, <2>3
<1>7. \A i \in Indices(m) : \A w \in F[i] : w \in Patterns4(X)  BY <1>1 DEF IsMadeBy, Made
<1>. QED  BY <1>1, <1>3, <1>5, <1>6, <1>7 DEF Sized

LEMMA SuitSized ==
  ASSUME NEW o \in {0, 9, 18}, NEW m \in 0..4
  PROVE  Sized(SuitShapes(o, m), Area(o, 9), AreaHands(o, 9, 0..6), m, Indices(m))
<1>1. list_suits_win_patterns = WinPatterns(9, SplitGroups(9, 0..6))
  BY Zenon DEF list_suits_win_patterns, SplitGroups
<1>2. IsMadeBy(SuitShapes(o, m), o, 9, 0..6, m)  BY <1>1 DEF IsMadeBy, SuitShapes
<1>3. IsRegion(o, 9) /\ IsArea(9, 0..6)  BY DEF IsRegion, IsArea
<1>. QED  BY <1>2, <1>3, AreaSized

LEMMA HonorSized ==
  ASSUME NEW m \in 0..4
  PROVE  Sized(HonorShapes(m), Area(East, 7), AreaHands(East, 7, {}), m, Indices(m))
<1>1. SplitGroups(7, {}) = triplets(7)  BY DEF SplitGroups
<1>2. list_honors_win_patterns = WinPatterns(7, SplitGroups(7, {}))  BY <1>1 DEF list_honors_win_patterns
<1>3. IsMadeBy(HonorShapes(m), East, 7, {}, m)  BY <1>2 DEF IsMadeBy, HonorShapes
<1>4. IsRegion(East, 7) /\ IsArea(7, {})  BY DEF IsRegion, IsArea
<1>. QED  BY <1>3, <1>4, AreaSized

\* Manzu of sanma, with the other seven kinds.
Padded(w) == [k \in 0..8 |-> IF k \in {0, 8} THEN w[k] ELSE 0]
SanmaHands == {w \in Patterns4({0, 8}) : HasSplit(Padded(w), 9, 0..6)}

\* Two kinds that make no sequences split if each is a group, the pair or none.
LEMMA PaddedSplits ==
  ASSUME NEW w \in Patterns4({0, 8})
  PROVE  HasSplit(Padded(w), 9, 0..6) <=> w[0] \in {0, 2, 3} /\ w[8] \in {0, 2, 3} /\ ~(w[0] = 2 /\ w[8] = 2)
<1>1. PICK c : c = Padded(w)  OBVIOUS
<1>2. /\ c[0] = w[0] /\ c[8] = w[8] /\ c[1] = 0 /\ c[2] = 0 /\ c[3] = 0 /\ c[4] = 0 /\ c[5] = 0 /\ c[6] = 0 /\ c[7] = 0
      /\ w[0] \in 0..4 /\ w[8] \in 0..4
  BY <1>1 DEF Padded, Patterns4
<1>3. ASSUME HasSplit(c, 9, 0..6)
      PROVE  w[0] \in {0, 2, 3} /\ w[8] \in {0, 2, 3} /\ ~(w[0] = 2 /\ w[8] = 2)
  <2>1. PICK Q, T, s : Q \in {{}} \cup {{k} : k \in 0..9 - 1} /\ SplitBy(c, T, Q, s, 9, 0..6)
    BY <1>3 DEF HasSplit, SplitWith
  <2>2. IsRuns(s, 9, 0..6) /\ \A k \in 0..8 : c[k] = Parts(k, T, Q) + Runs(s, k)  BY <2>1 DEF SplitBy
  <2>3. /\ \A k \in -2..8 : s[k] \in Nat
        /\ s[-2] = 0 /\ s[-1] = 0 /\ s[7] = 0 /\ s[8] = 0
    BY <2>2 DEF IsRuns
  <2>4. \A k \in 0..8 : Parts(k, T, Q) \in {0, 2, 3, 5}  BY DEF Parts
  <2>5. s[0] = 0
    <3>1. s[-1] \in Nat /\ s[0] \in Nat /\ s[1] \in Nat  BY <2>3
    <3>2. c[1] = Parts(1, T, Q) + (s[1] + s[0] + s[-1])
      <4>1. 1 - 1 = 0 /\ 1 - 2 = -1  OBVIOUS
      <4>. QED  BY <2>2, <4>1 DEF Runs
    <3>3. Parts(1, T, Q) \in Nat  BY <2>4
    <3>4. \A p, x, y, z \in Nat : 0 = p + (x + y + z) => y = 0  OBVIOUS
    <3>5. 0 = Parts(1, T, Q) + (s[1] + s[0] + s[-1])  BY ONLY <1>2, <3>2
    <3>. QED  BY ONLY <3>1, <3>3, <3>4, <3>5
  <2>6. s[6] = 0
    <3>1. s[7] \in Nat /\ s[6] \in Nat /\ s[5] \in Nat  BY <2>3
    <3>2. c[7] = Parts(7, T, Q) + (s[7] + s[6] + s[5])
      <4>1. 7 - 1 = 6 /\ 7 - 2 = 5  OBVIOUS
      <4>. QED  BY <2>2, <4>1 DEF Runs
    <3>3. Parts(7, T, Q) \in Nat  BY <2>4
    <3>4. \A p, x, y, z \in Nat : 0 = p + (x + y + z) => y = 0  OBVIOUS
    <3>5. 0 = Parts(7, T, Q) + (s[7] + s[6] + s[5])  BY ONLY <1>2, <3>2
    <3>. QED  BY ONLY <3>1, <3>3, <3>4, <3>5
  <2>7. c[0] = Parts(0, T, Q)
    <3>1. Runs(s, 0) = s[0] + s[-1] + s[-2]
      <4>1. 0 - 1 = -1 /\ 0 - 2 = -2  OBVIOUS
      <4>. QED  BY <4>1 DEF Runs
    <3>2. Runs(s, 0) = 0  BY <2>3, <2>5, <3>1
    <3>3. Parts(0, T, Q) \in Nat /\ c[0] = Parts(0, T, Q) + Runs(s, 0)  BY <2>2, <2>4
    <3>. QED  BY <3>2, <3>3
  <2>8. c[8] = Parts(8, T, Q)
    <3>1. Runs(s, 8) = s[8] + s[7] + s[6]
      <4>1. 8 - 1 = 7 /\ 8 - 2 = 6  OBVIOUS
      <4>. QED  BY <4>1 DEF Runs
    <3>2. Runs(s, 8) = 0  BY <2>3, <2>6, <3>1
    <3>3. Parts(8, T, Q) \in Nat /\ c[8] = Parts(8, T, Q) + Runs(s, 8)  BY <2>2, <2>4
    <3>. QED  BY <3>2, <3>3
  <2>9. ~(0 \in Q /\ 8 \in Q)  BY <2>1
  <2>10. Parts(0, T, Q) = 2 => 0 \in Q  BY DEF Parts
  <2>11. Parts(8, T, Q) = 2 => 8 \in Q  BY DEF Parts
  <2>12. w[0] \in {0, 2, 3} /\ w[8] \in {0, 2, 3}
    <3>1. w[0] \in {0, 2, 3, 5} /\ w[8] \in {0, 2, 3, 5}  BY <1>2, <2>4, <2>7, <2>8
    <3>. QED  BY <1>2, <3>1
  <2>. QED  BY <1>2, <2>7, <2>8, <2>9, <2>10, <2>11, <2>12
<1>4. ASSUME w[0] \in {0, 2, 3}, w[8] \in {0, 2, 3}, ~(w[0] = 2 /\ w[8] = 2)
      PROVE  HasSplit(c, 9, 0..6)
  <2>1. PICK T, Q, s : /\ T = {k \in {0, 8} : w[k] = 3} /\ Q = {k \in {0, 8} : w[k] = 2}
                       /\ s = [k \in -2..9 - 1 |-> 0]
    OBVIOUS
  <2>2. T \in SUBSET (0..9 - 1) /\ Q \in {{}} \cup {{k} : k \in 0..9 - 1}
    <3>1. Q = {} \/ Q = {0} \/ Q = {8}  BY <1>4, <2>1
    <3>2. {0} \in {{k} : k \in 0..9 - 1} /\ {8} \in {{k} : k \in 0..9 - 1}  OBVIOUS
    <3>. QED  BY <2>1, <3>1, <3>2
  <2>3. IsRuns(s, 9, 0..6)  BY <2>1 DEF IsRuns
  <2>4. \A k \in 0..9 - 1 : c[k] = Parts(k, T, Q) + Runs(s, k)
    <3>1. SUFFICES ASSUME NEW k \in 0..9 - 1  PROVE c[k] = Parts(k, T, Q) + Runs(s, k)  OBVIOUS
    <3>2. Runs(s, k) = 0  BY <2>1 DEF Runs
    <3>3. c[k] = Parts(k, T, Q)
      <4>1. CASE k \in {0, 8}
        <5>1. c[k] = w[k] /\ w[k] \in {0, 2, 3} /\ (k \in T <=> w[k] = 3) /\ (k \in Q <=> w[k] = 2)
          BY <1>2, <1>4, <2>1, <4>1
        <5>. QED  BY <5>1 DEF Parts
      <4>2. CASE k \notin {0, 8}
        <5>1. c[k] = 0 /\ k \notin T /\ k \notin Q  BY <1>1, <2>1, <4>2 DEF Padded
        <5>. QED  BY <5>1 DEF Parts
      <4>. QED  BY <4>1, <4>2
    <3>4. Parts(k, T, Q) \in Nat  BY DEF Parts
    <3>. QED  BY <3>2, <3>3, <3>4
  <2>5. SplitBy(c, T, Q, s, 9, 0..6)  BY <2>2, <2>3, <2>4 DEF SplitBy
  <2>. QED  BY <2>2, <2>5 DEF HasSplit, SplitWith
<1>. QED  BY <1>1, <1>3, <1>4

LEMMA HeldBoth ==
  ASSUME NEW w \in Patterns4({0, 8})
  PROVE  /\ w = At(w[0], w[8]) /\ w[0] \in 0..4 /\ w[8] \in 0..4
         /\ Held(w, {0, 8}) = w[0] + w[8]
<1>1. w[0] \in 0..4 /\ w[8] \in 0..4 /\ w = At(w[0], w[8])  BY DEF Patterns4, At
<1>2. PICK x \in 0..4, y \in 0..4 : x = w[0] /\ y = w[8]  BY <1>1
<1>3. IsCounts(Bare, {0, 8}) /\ Bare[0] = 0 /\ Bare[8] = 0  BY DEF IsCounts, Bare, Kinds
<1>4. Away(Bare, At(x, y), {0, 8}) = Lack(x, Bare[0]) + Lack(y, Bare[8])  BY <1>3, AwayBoth
<1>5. Lack(x, 0) = x /\ Lack(y, 0) = y  BY DEF Lack
<1>. QED  BY <1>1, <1>2, <1>3, <1>4, <1>5 DEF Held

LEMMA SanmaSized ==
  ASSUME NEW m \in 0..4
  PROVE  Sized(SanmaShapes, {0, 8}, SanmaHands, m, SanmaIndices)
<1>1. SanmaHands \subseteq Patterns4({0, 8})  BY DEF SanmaHands
<1>2. \A w \in SanmaHands : /\ w[0] \in {0, 2, 3} /\ w[8] \in {0, 2, 3} /\ ~(w[0] = 2 /\ w[8] = 2)
                            /\ Held(w, {0, 8}) = w[0] + w[8]
  BY PaddedSplits, HeldBoth DEF SanmaHands
<1>3. \A w \in SanmaHands : Held(w, {0, 8}) % 3 # 1  BY <1>2
<1>4. ASSUME NEW i \in Indices(m), NEW w \in SanmaHands, Held(w, {0, 8}) = SizeOf(i)
      PROVE  i \in SanmaIndices /\ w \in SanmaShapes[i]
  <2>1. PICK x, y : x = w[0] /\ y = w[8]  OBVIOUS
  <2>2. x \in {0, 2, 3} /\ y \in {0, 2, 3} /\ ~(x = 2 /\ y = 2) /\ x + y = SizeOf(i)  BY <1>2, <1>4, <2>1
  <2>3. i \in 0..4 \/ i \in 5..9  BY DEF Indices
  <2>4. /\ i = 0 => x = 0 /\ y = 0
        /\ i = 1 => {x, y} = {0, 3}
        /\ i = 2 => x = 3 /\ y = 3
        /\ i = 5 => {x, y} = {0, 2}
        /\ i = 6 => {x, y} = {2, 3}
        /\ i \in {0, 1, 2, 5, 6}
    <3>1. x + y \in {0, 2, 3, 5, 6}  BY <2>2
    <3>2. SizeOf(i) = IF i < 5 THEN 3 * i ELSE 3 * (i - 5) + 2  BY DEF SizeOf
    <3>3. i \in {0, 1, 2, 5, 6}  BY <2>2, <2>3, <3>1, <3>2
    <3>. QED  BY <2>2, <3>2, <3>3
  <2>5. i \in SanmaIndices  BY <2>4 DEF SanmaIndices
  <2>6. w = At(x, y)  BY <1>1, <2>1, HeldBoth
  <2>7. (x = First(i) /\ y = Second(i)) \/ (x = Second(i) /\ y = First(i))  BY <2>2, <2>4 DEF First, Second
  <2>8. SanmaShapes[i] = {At(First(i), Second(i)), At(Second(i), First(i))}  BY <2>5 DEF SanmaShapes
  <2>. QED  BY <2>5, <2>6, <2>7, <2>8
<1>5. ASSUME NEW i \in Indices(m), i \in SanmaIndices, NEW w \in SanmaShapes[i]
      PROVE  w \in SanmaHands /\ Held(w, {0, 8}) = SizeOf(i)
  <2>1. PICK x, y : w = At(x, y) /\ ((x = First(i) /\ y = Second(i)) \/ (x = Second(i) /\ y = First(i)))
    BY <1>5 DEF SanmaShapes
  <2>2. /\ x \in {0, 2, 3} /\ y \in {0, 2, 3} /\ ~(x = 2 /\ y = 2) /\ x + y = SizeOf(i)
    BY <1>5, <2>1 DEF SanmaIndices, First, Second, SizeOf
  <2>3. w \in Patterns4({0, 8}) /\ w[0] = x /\ w[8] = y
    <3>1. x \in 0..4 /\ y \in 0..4  BY <2>2
    <3>. QED  BY <2>1, <3>1 DEF At, Patterns4
  <2>4. w \in SanmaHands  BY <2>2, <2>3, PaddedSplits DEF SanmaHands
  <2>. QED  BY <1>2, <2>2, <2>3, <2>4
<1>. QED  BY <1>1, <1>3, <1>4, <1>5 DEF Sized

ManzuHands(mode) == IF mode = Sanma THEN SanmaHands ELSE AreaHands(0, 9, 0..6)
HandsAbove ==
  Both(Both(AreaHands(East, 7, {}), AreaHands(18, 9, 0..6), 27..33, 18..26), AreaHands(9, 9, 0..6), 18..33, 9..17)
\* The complete hands.
CompleteHands(mode) == Both(HandsAbove, ManzuHands(mode), 9..33, ManzuTiles(mode))

LEMMA OpenShapesAre ==
  ASSUME NEW m \in 0..4, NEW mode, NEW w
  PROVE  w \in OpenShapes(mode, m) <=> w \in CompleteHands(mode) /\ Held(w, InPlay(mode)) = 3 * m + 2
<1>1. PICK A, B, C, I : A = 27..33 /\ B = 18..26 /\ C = 9..17 /\ I = Indices(m)  OBVIOUS
<1>2. /\ A \in SUBSET Kinds /\ B \in SUBSET Kinds /\ C \in SUBSET Kinds
      /\ Apart(A, B) /\ Apart(A \cup B, C) /\ A \cup B \in SUBSET Kinds
  BY <1>1 DEF Kinds, Apart
<1>3. A \cup B = 18..33 /\ (18..33) \cup C = 9..33  BY <1>1, Unions
<1>4. Sized(HonorShapes(m), A, AreaHands(East, 7, {}), m, I)  BY <1>1, Unions, HonorSized
<1>5. Sized(SuitShapes(18, m), B, AreaHands(18, 9, 0..6), m, I)
  <2>1. 18 \in {0, 9, 18}  OBVIOUS
  <2>. QED  BY <1>1, <2>1, Unions, SuitSized
<1>6. Sized(SuitShapes(9, m), C, AreaHands(9, 9, 0..6), m, I)
  <2>1. 9 \in {0, 9, 18}  OBVIOUS
  <2>. QED  BY <1>1, <2>1, Unions, SuitSized
<1>7. PICK F, G : F = Joint(HonorShapes(m), SuitShapes(18, m), A, B, m) /\ G = Both(AreaHands(East, 7, {}), AreaHands(18, 9, 0..6), A, B)
  OBVIOUS
<1>8. Sized(F, A \cup B, G, m, I)  BY ONLY m \in 0..4, <1>1, <1>2, <1>4, <1>5, <1>7, SizedJoint
<1>9. Sized(Joint(F, SuitShapes(9, m), A \cup B, C, m), (A \cup B) \cup C, Both(G, AreaHands(9, 9, 0..6), A \cup B, C), m, I)
  BY ONLY m \in 0..4, <1>1, <1>2, <1>6, <1>8, SizedJoint
<1>10. Sized(Above(m), 9..33, HandsAbove, m, I)
  <2>1. Above(m) = Joint(F, SuitShapes(9, m), A \cup B, C, m)  BY <1>1, <1>3, <1>7, Zenon DEF Above
  <2>2. HandsAbove = Both(G, AreaHands(9, 9, 0..6), A \cup B, C)  BY <1>1, <1>3, <1>7, Zenon DEF HandsAbove
  <2>. QED  BY <1>3, <1>9, <2>1, <2>2, Zenon
<1>11. PICK Y, H, J, K : Y = ManzuTiles(mode) /\ H = ManzuShapes(mode, m) /\ J = ManzuHands(mode) /\ K = ManzuIndices(mode, m)
  OBVIOUS
<1>12. Sized(H, Y, J, m, K) /\ Y \in SUBSET (0..8)
  <2>1. CASE mode = Sanma
    <3>1. Y = {0, 8} /\ H = SanmaShapes /\ J = SanmaHands /\ K = SanmaIndices
      BY <1>11, <2>1 DEF ManzuTiles, ManzuShapes, ManzuHands, ManzuIndices
    <3>2. {0, 8} \in SUBSET (0..8)  OBVIOUS
    <3>. QED  BY <3>1, <3>2, SanmaSized
  <2>2. CASE mode # Sanma
    <3>1. Y = 0..8 /\ H = SuitShapes(0, m) /\ J = AreaHands(0, 9, 0..6) /\ K = Indices(m)
      BY <1>11, <2>2 DEF ManzuTiles, ManzuShapes, ManzuHands, ManzuIndices
    <3>2. 0 \in {0, 9, 18} /\ Area(0, 9) = 0..8  BY Unions
    <3>3. Sized(SuitShapes(0, m), 0..8, AreaHands(0, 9, 0..6), m, Indices(m))  BY <3>2, SuitSized
    <3>. QED  BY <3>1, <3>3
  <2>. QED  BY <2>1, <2>2
<1>13. PICK X : X = 9..33  OBVIOUS
<1>14. X \in SUBSET Kinds /\ Y \in SUBSET Kinds /\ Apart(X, Y)  BY <1>12, <1>13 DEF Kinds, Apart
<1>15. 5 + m \in Indices(m) /\ SizeOf(5 + m) = 3 * m + 2  BY IndicesIn DEF SizeOf
<1>16. w \in GluedBy(Above(m), H, X, Y, SplitsIn(5 + m, K)) <=> w \in Both(HandsAbove, J, X, Y) /\ Held(w, X \cup Y) = SizeOf(5 + m)
  <2>1. PICK i \in Indices(m) : i = 5 + m  BY <1>15
  <2>2. PICK E, M : E = Above(m) /\ M = HandsAbove  OBVIOUS
  <2>3. Sized(E, X, M, m, Indices(m))  BY <1>1, <1>10, <1>13, <2>2
  <2>4. JoinIs(E, H, M, J, X, Y, K, i, w)
    BY ONLY m \in 0..4, i \in Indices(m), <1>12, <1>14, <2>3, SizedJoin
  <2>. QED  BY <2>1, <2>2, <2>4, Zenon DEF JoinIs
<1>17. X \cup Y = InPlay(mode)  BY <1>11, <1>13 DEF InPlay
<1>18. OpenShapes(mode, m) = GluedBy(Above(m), H, X, Y, SplitsIn(5 + m, K))  BY <1>11, <1>13, Zenon DEF OpenShapes
<1>19. CompleteHands(mode) = Both(HandsAbove, J, X, Y)  BY <1>11, <1>13, Zenon DEF CompleteHands
<1>. QED  BY <1>15, <1>16, <1>17, <1>18, <1>19

-----------------------------------------------------------------------------
(* What the separator calls complete: all suits split, one with the pair.  *)

\* Of four numbers of tiles one is that of groups and a pair.
OnePair(z, p, s, a) ==
  \/ z % 3 = 2 /\ p % 3 # 2 /\ s % 3 # 2 /\ a % 3 # 2
  \/ z % 3 # 2 /\ p % 3 = 2 /\ s % 3 # 2 /\ a % 3 # 2
  \/ z % 3 # 2 /\ p % 3 # 2 /\ s % 3 = 2 /\ a % 3 # 2
  \/ z % 3 # 2 /\ p % 3 # 2 /\ s % 3 # 2 /\ a % 3 = 2
SplitUp(h) == HasSplit(Counts(h, East, 7), 7, {}) /\ \A o \in {0, 9, 18} : HasSplit(Counts(h, o, 9), 9, 0..6)

SumIn(h, S) == MapThenSumSet(LAMBDA k : h[k], S)
SuitsAndHonors == {Suit(d) : d \in 0..2} \cup {Honors}
WithPair(h) == {S \in SuitsAndHonors : SumIn(h, S) % 3 = 2}

LEMMA CompleteUnfolded ==
  ASSUME NEW h, NEW m
  PROVE  IsComplete(h, m) <=> /\ Total(h) = 3 * m + 2
                              /\ Cardinality(WithPair(h)) = 1
                              /\ \A d \in 0..2 : SuitPatterns(h, d) # {}
                              /\ HonorPatterns(h) # {}
BY Zenon DEF IsComplete, WithPair, SumIn, SuitsAndHonors

LEMMA SumInIs ==
  ASSUME NEW h, NEW S \in SUBSET Kinds, \A k \in S : h[k] \in 0..4
  PROVE  SumIn(h, S) = Held(h, S)
<1>1. IsPattern(h, S)  BY DEF IsPattern
<1>2. IsFiniteSet(S) /\ IsCounts(Bare, S)  BY <1>1, HeldType
<1>3. \A k \in S : h[k] = IF h[k] > Bare[k] THEN h[k] - Bare[k] ELSE 0  BY DEF Bare
<1>4. SumIn(h, S) = (CHOOSE g : CellSums(g, h, S))[S]
  BY Zenon DEF SumIn, MapThenSumSet, MapThenFoldSet, CellSums, Chosen
<1>. QED  BY <1>1, <1>2, <1>3, <1>4, CellsSumUp DEF Held

LEMMA HeldApart ==
  ASSUME NEW h, \A k \in Kinds : h[k] \in 0..4, NEW X \in SUBSET Kinds, NEW Y \in SUBSET Kinds, Apart(X, Y)
  PROVE  Held(h, X \cup Y) = Held(h, X) + Held(h, Y) /\ Held(h, X) \in Nat /\ Held(h, Y) \in Nat
<1>1. IsPattern(h, X) /\ IsPattern(h, Y) /\ IsPattern(h, X \cup Y)  BY DEF IsPattern
<1>2. IsFiniteSet(X) /\ IsCounts(Bare, X) /\ Held(h, X) \in Nat  BY <1>1, HeldType
<1>3. IsFiniteSet(Y) /\ IsCounts(Bare, Y) /\ Held(h, Y) \in Nat  BY <1>1, HeldType
<1>4. IsCounts(Bare, X \cup Y) /\ X \cap Y = {}  BY <1>2, <1>3 DEF IsCounts, Apart
<1>. QED  BY <1>1, <1>2, <1>3, <1>4, AwayUnion DEF Held

\* The tiles of a hand, by suit.
LEMMA HeldParts ==
  ASSUME NEW h, \A k \in Kinds : h[k] \in 0..4,
         NEW z, z = Held(h, 0..8), NEW p, p = Held(h, 9..17), NEW s, s = Held(h, 18..26), NEW a, a = Held(h, 27..33)
  PROVE  /\ z \in Nat /\ p \in Nat /\ s \in Nat /\ a \in Nat /\ Total(h) = a + s + p + z
         /\ Held(h, 18..33) = a + s /\ Held(h, 9..33) = a + s + p
<1>1. PICK A, B, C, D : A = 27..33 /\ B = 18..26 /\ C = 9..17 /\ D = 0..8  OBVIOUS
<1>2. /\ A \in SUBSET Kinds /\ B \in SUBSET Kinds /\ C \in SUBSET Kinds /\ D \in SUBSET Kinds
      /\ Apart(A, B) /\ Apart(A \cup B, C) /\ Apart((A \cup B) \cup C, D)
      /\ A \cup B \in SUBSET Kinds /\ (A \cup B) \cup C \in SUBSET Kinds
      /\ ((A \cup B) \cup C) \cup D = Kinds
  BY <1>1 DEF Kinds, Apart
<1>3. A \cup B = 18..33 /\ (A \cup B) \cup C = 9..33  BY <1>1, Unions
<1>4. Held(h, A \cup B) = Held(h, A) + Held(h, B) /\ Held(h, A) \in Nat /\ Held(h, B) \in Nat  BY <1>2, HeldApart
<1>5. Held(h, (A \cup B) \cup C) = Held(h, A \cup B) + Held(h, C) /\ Held(h, C) \in Nat  BY <1>2, HeldApart
<1>6. Held(h, ((A \cup B) \cup C) \cup D) = Held(h, (A \cup B) \cup C) + Held(h, D) /\ Held(h, D) \in Nat
  BY <1>2, HeldApart
<1>7. Total(h) = Held(h, Kinds)  BY TotalIs DEF Held
<1>. QED  BY <1>1, <1>2, <1>3, <1>4, <1>5, <1>6, <1>7

LEMMA OneOfFour ==
  ASSUME NEW A, NEW B, NEW C, NEW D, A # B, A # C, A # D, B # C, B # D, C # D, NEW W \in SUBSET {A, B, C, D}
  PROVE  Cardinality(W) = 1 <=> \/ A \in W /\ B \notin W /\ C \notin W /\ D \notin W
                                \/ A \notin W /\ B \in W /\ C \notin W /\ D \notin W
                                \/ A \notin W /\ B \notin W /\ C \in W /\ D \notin W
                                \/ A \notin W /\ B \notin W /\ C \notin W /\ D \in W
<1>1. IsFiniteSet(W)
  <2>1. IsFiniteSet({A}) /\ IsFiniteSet({B}) /\ IsFiniteSet({C}) /\ IsFiniteSet({D})  BY FS_Singleton
  <2>2. IsFiniteSet({A} \cup {B})  BY <2>1, FS_Union
  <2>3. IsFiniteSet(({A} \cup {B}) \cup {C})  BY <2>1, <2>2, FS_Union
  <2>4. IsFiniteSet((({A} \cup {B}) \cup {C}) \cup {D})  BY <2>1, <2>3, FS_Union
  <2>5. W \in SUBSET ((({A} \cup {B}) \cup {C}) \cup {D})  OBVIOUS
  <2>. QED  BY <2>4, <2>5, FS_Subset
<1>2. Cardinality(W) = 1 <=> \E x : W = {x}  BY <1>1, FS_Singleton
<1>3. (\E x : W = {x}) <=> W = {A} \/ W = {B} \/ W = {C} \/ W = {D}  OBVIOUS
<1>4. (A \in W /\ B \notin W /\ C \notin W /\ D \notin W) <=> W = {A}  OBVIOUS
<1>5. (A \notin W /\ B \in W /\ C \notin W /\ D \notin W) <=> W = {B}  OBVIOUS
<1>6. (A \notin W /\ B \notin W /\ C \in W /\ D \notin W) <=> W = {C}  OBVIOUS
<1>7. (A \notin W /\ B \notin W /\ C \notin W /\ D \in W) <=> W = {D}  OBVIOUS
<1>. QED  BY <1>2, <1>3, <1>4, <1>5, <1>6, <1>7

\* A hand is complete if its suits and honors split, one of them with the pair.
LEMMA CompleteIs ==
  ASSUME NEW h, \A k \in Kinds : h[k] \in 0..4, NEW m,
         NEW z, z = Held(h, 0..8), NEW p, p = Held(h, 9..17), NEW s, s = Held(h, 18..26), NEW a, a = Held(h, 27..33)
  PROVE  IsComplete(h, m) <=> Total(h) = 3 * m + 2 /\ OnePair(z, p, s, a) /\ SplitUp(h)
<1>1. PICK A, B, C, D : A = 0..8 /\ B = 9..17 /\ C = 18..26 /\ D = 27..33  OBVIOUS
<1>2. Suit(0) = A /\ Suit(1) = B /\ Suit(2) = C /\ Honors = D  BY <1>1 DEF Suit, Honors, East, RedDragon
<1>3. SuitsAndHonors = {A, B, C, D}
  <2>1. {Suit(d) : d \in 0..2} = {Suit(0), Suit(1), Suit(2)}
    <3>1. 0..2 = {0, 1, 2}  OBVIOUS
    <3>. QED  BY <3>1
  <2>. QED  BY <1>2, <2>1 DEF SuitsAndHonors
<1>4. A # B /\ A # C /\ A # D /\ B # C /\ B # D /\ C # D
  <2>1. 0 \in A /\ 0 \notin B /\ 0 \notin C /\ 0 \notin D  BY <1>1
  <2>2. 9 \in B /\ 9 \notin C /\ 9 \notin D /\ 18 \in C /\ 18 \notin D  BY <1>1
  <2>. QED  BY <2>1, <2>2
<1>5. SumIn(h, A) = z /\ SumIn(h, B) = p /\ SumIn(h, C) = s /\ SumIn(h, D) = a
  <2>1. A \in SUBSET Kinds /\ B \in SUBSET Kinds /\ C \in SUBSET Kinds /\ D \in SUBSET Kinds  BY <1>1 DEF Kinds
  <2>. QED  BY <1>1, <2>1, SumInIs
<1>6. PICK W : W = WithPair(h)  OBVIOUS
<1>7. /\ W \in SUBSET {A, B, C, D}
      /\ (A \in W <=> z % 3 = 2) /\ (B \in W <=> p % 3 = 2) /\ (C \in W <=> s % 3 = 2) /\ (D \in W <=> a % 3 = 2)
  BY <1>3, <1>5, <1>6 DEF WithPair
<1>8. Cardinality(W) = 1 <=> OnePair(z, p, s, a)
  <2>1. Cardinality(W) = 1 <=> \/ A \in W /\ B \notin W /\ C \notin W /\ D \notin W
                               \/ A \notin W /\ B \in W /\ C \notin W /\ D \notin W
                               \/ A \notin W /\ B \notin W /\ C \in W /\ D \notin W
                               \/ A \notin W /\ B \notin W /\ C \notin W /\ D \in W
    BY <1>4, <1>7, OneOfFour
  <2>. QED  BY ONLY <1>7, <2>1, Zenon DEF OnePair
<1>9. (\A d \in 0..2 : SuitPatterns(h, d) # {}) <=> \A o \in {0, 9, 18} : HasSplit(Counts(h, o, 9), 9, 0..6)
  <2>1. ASSUME NEW d \in 0..2, NEW o, o = 9 * d  PROVE SuitPatterns(h, d) # {} <=> HasSplit(Counts(h, o, 9), 9, 0..6)
    <3>1. \A k \in Suit(d) : h[k] \in 0..4  BY DEF Suit, Kinds
    <3>. QED  BY <2>1, <3>1, SuitSplits
  <2>2. SuitPatterns(h, 0) # {} <=> HasSplit(Counts(h, 0, 9), 9, 0..6)  BY <2>1
  <2>3. SuitPatterns(h, 1) # {} <=> HasSplit(Counts(h, 9, 9), 9, 0..6)  BY <2>1
  <2>4. SuitPatterns(h, 2) # {} <=> HasSplit(Counts(h, 18, 9), 9, 0..6)  BY <2>1
  <2>5. 0..2 = {0, 1, 2}  OBVIOUS
  <2>. QED  BY <2>2, <2>3, <2>4, <2>5
<1>10. HonorPatterns(h) # {} <=> HasSplit(Counts(h, East, 7), 7, {})
  <2>1. \A k \in Honors : h[k] \in 0..4  BY <1>1, <1>2 DEF Kinds
  <2>. QED  BY <2>1, HonorsSplit
<1>11. SplitUp(h) <=> (\A d \in 0..2 : SuitPatterns(h, d) # {}) /\ HonorPatterns(h) # {}
  BY ONLY <1>9, <1>10, Zenon DEF SplitUp
<1>12. IsComplete(h, m) <=> /\ Total(h) = 3 * m + 2
                            /\ Cardinality(W) = 1
                            /\ \A d \in 0..2 : SuitPatterns(h, d) # {}
                            /\ HonorPatterns(h) # {}
  BY <1>6, CompleteUnfolded
<1>. QED  BY ONLY <1>8, <1>11, <1>12, Zenon

IsHand(h) == \A k \in Kinds : h[k] \in 0..4

LEMMA OnHand ==
  ASSUME NEW h, IsHand(h), NEW X \in SUBSET Kinds
  PROVE  /\ On(h, X) \in Patterns4(X) /\ Held(On(h, X), X) = Held(h, X)
         /\ \A A \in SUBSET X : On(On(h, X), A) = On(h, A)
<1>1. On(h, X) \in Patterns4(X)  BY DEF IsHand, On, Patterns4
<1>2. \A k \in X : On(h, X)[k] = h[k]  BY DEF On
<1>3. Held(On(h, X), X) = Held(h, X)
  <2>1. \A k \in X : Bare[k] = Bare[k] /\ On(h, X)[k] = h[k]  BY <1>2
  <2>. QED  BY <2>1, CellsSame DEF Held
<1>4. \A A \in SUBSET X : On(On(h, X), A) = On(h, A)  BY DEF On
<1>. QED  BY <1>1, <1>3, <1>4

LEMMA BothHas ==
  ASSUME NEW h, IsHand(h), NEW X \in SUBSET Kinds, NEW Y \in SUBSET Kinds, NEW G, NEW J
  PROVE  On(h, X \cup Y) \in Both(G, J, X, Y) <=> On(h, X) \in G /\ On(h, Y) \in J /\ Held(h, X \cup Y) % 3 # 1
<1>1. PICK Z : Z = X \cup Y  OBVIOUS
<1>2. Z \in SUBSET Kinds /\ X \in SUBSET Z /\ Y \in SUBSET Z  BY <1>1
<1>3. PICK w : w = On(h, Z)  OBVIOUS
<1>4. /\ w \in Patterns4(Z) /\ Held(w, Z) = Held(h, Z)
      /\ On(w, X) = On(h, X) /\ On(w, Y) = On(h, Y)
  BY <1>2, <1>3, OnHand
<1>5. w \in Both(G, J, X, Y) <=> w \in Patterns4(Z) /\ On(w, X) \in G /\ On(w, Y) \in J /\ Held(w, Z) % 3 # 1
  BY <1>1 DEF Both
<1>. QED  BY <1>1, <1>3, <1>4, <1>5

LEMMA AreaHas ==
  ASSUME NEW h, IsHand(h), NEW o, NEW size, IsRegion(o, size), NEW V, NEW X, X = Area(o, size)
  PROVE  On(h, X) \in AreaHands(o, size, V) <=> HasSplit(Counts(h, o, size), size, V)
<1>1. X \in SUBSET Kinds /\ \A k \in 0..size - 1 : o + k \in X
  <2>1. o \in Nat /\ size \in Nat /\ o + size <= 34  BY DEF IsRegion, East
  <2>2. X = o..o + size - 1  BY DEF Area
  <2>. QED  BY <2>1, <2>2 DEF Kinds
<1>2. PICK w : w = On(h, X)  OBVIOUS
<1>3. w \in Patterns4(X)  BY <1>1, <1>2, OnHand
<1>4. Counts(w, o, size) = Counts(h, o, size)
  <2>1. \A k \in 0..size - 1 : w[o + k] = h[o + k]  BY <1>1, <1>2 DEF On
  <2>. QED  BY <2>1 DEF Counts
<1>. QED  BY <1>2, <1>3, <1>4 DEF AreaHands

\* Sanma is played without seven kinds of manzu.
InMode(h, mode) == mode = Sanma => \A k \in 1..7 : h[k] = 0

LEMMA ManzuHas ==
  ASSUME NEW h, IsHand(h), NEW mode, InMode(h, mode), NEW Y, Y = ManzuTiles(mode)
  PROVE  /\ On(h, Y) \in ManzuHands(mode) <=> HasSplit(Counts(h, 0, 9), 9, 0..6)
         /\ Held(h, Y) = Held(h, 0..8) /\ Y \in SUBSET (0..8)
<1>1. CASE mode # Sanma
  <2>1. Y = 0..8 /\ ManzuHands(mode) = AreaHands(0, 9, 0..6)  BY <1>1 DEF ManzuTiles, ManzuHands
  <2>2. Y = Area(0, 9) /\ IsRegion(0, 9)  BY <2>1, Unions DEF IsRegion
  <2>. QED  BY <2>1, <2>2, AreaHas
<1>2. CASE mode = Sanma
  <2>1. Y = {0, 8} /\ ManzuHands(mode) = SanmaHands  BY <1>2 DEF ManzuTiles, ManzuHands
  <2>2. \A k \in 1..7 : h[k] = 0  BY <1>2 DEF InMode
  <2>3. PICK w : w = On(h, Y)  OBVIOUS
  <2>4. Y \in SUBSET Kinds /\ Y \in SUBSET (0..8)  BY <2>1 DEF Kinds
  <2>5. w \in Patterns4({0, 8}) /\ w[0] = h[0] /\ w[8] = h[8]
    <3>1. w \in Patterns4(Y)  BY <2>3, <2>4, OnHand
    <3>2. w[0] = h[0] /\ w[8] = h[8]  BY <2>1, <2>3 DEF On
    <3>. QED  BY <2>1, <3>1, <3>2
  <2>6. Padded(w) = Counts(h, 0, 9)
    <3>1. \A k \in 0..8 : (IF k \in {0, 8} THEN w[k] ELSE 0) = h[0 + k]
      <4>1. SUFFICES ASSUME NEW k \in 0..8  PROVE (IF k \in {0, 8} THEN w[k] ELSE 0) = h[0 + k]  OBVIOUS
      <4>2. 0 + k = k  OBVIOUS
      <4>3. k \notin {0, 8} => k \in 1..7  OBVIOUS
      <4>. QED  BY <2>2, <2>5, <4>2, <4>3
    <3>2. 9 - 1 = 8  OBVIOUS
    <3>. QED  BY <3>1, <3>2 DEF Padded, Counts
  <2>7. On(h, Y) \in SanmaHands <=> HasSplit(Counts(h, 0, 9), 9, 0..6)  BY <2>3, <2>5, <2>6 DEF SanmaHands
  <2>8. Held(h, Y) = Held(h, 0..8)
    <3>1. PICK Z : Z = 1..7  OBVIOUS
    <3>2. Z \in SUBSET Kinds /\ Apart(Y, Z) /\ Y \cup Z = 0..8  BY <2>1, <3>1 DEF Kinds, Apart
    <3>3. Held(h, Y \cup Z) = Held(h, Y) + Held(h, Z) /\ Held(h, Y) \in Nat  BY <2>4, <3>2, HeldApart DEF IsHand
    <3>4. Held(h, Z) = 0
      <4>1. \A k \in Z : Bare[k] = 0 /\ h[k] = 0  BY <2>2, <3>1, <3>2 DEF Bare
      <4>2. Cells(Bare, h, Z) = {}  BY <4>1 DEF Cells
      <4>. QED  BY <4>2, FS_EmptySet DEF Held, Away
    <3>5. PICK n \in Nat : n = Held(h, Y)  BY <3>3
    <3>6. Held(h, 0..8) = n + 0  BY ONLY <3>2, <3>3, <3>4, <3>5
    <3>7. n + 0 = n  OBVIOUS
    <3>. QED  BY ONLY <3>5, <3>6, <3>7
  <2>. QED  BY <2>1, <2>4, <2>7, <2>8
<1>. QED  BY <1>1, <1>2

\* The patterns are the complete hands.
LEMMA ShapeIsComplete ==
  ASSUME NEW h, IsHand(h), NEW mode, InMode(h, mode), NEW m \in 0..4
  PROVE  /\ On(h, InPlay(mode)) \in OpenShapes(mode, m) <=> IsComplete(h, m)
         /\ Held(h, InPlay(mode)) = Total(h) /\ Total(h) \in Nat /\ InPlay(mode) \in SUBSET Kinds
<1>1. PICK Y : Y = ManzuTiles(mode)  OBVIOUS
<1>2. PICK A, B, C : A = 27..33 /\ B = 18..26 /\ C = 9..17  OBVIOUS
<1>3. /\ On(h, Y) \in ManzuHands(mode) <=> HasSplit(Counts(h, 0, 9), 9, 0..6)
      /\ Held(h, Y) = Held(h, 0..8) /\ Y \in SUBSET (0..8)
  BY <1>1, ManzuHas
<1>4. /\ A \in SUBSET Kinds /\ B \in SUBSET Kinds /\ C \in SUBSET Kinds /\ Y \in SUBSET Kinds
      /\ A \cup B = 18..33 /\ (18..33) \cup C = 9..33 /\ 18..33 \in SUBSET Kinds /\ 9..33 \in SUBSET Kinds
      /\ Apart(9..33, Y) /\ InPlay(mode) = (9..33) \cup Y
  BY <1>1, <1>2, <1>3, Unions DEF Kinds, Apart, InPlay
<1>5. PICK z, p, s, a : z = Held(h, 0..8) /\ p = Held(h, 9..17) /\ s = Held(h, 18..26) /\ a = Held(h, 27..33)  OBVIOUS
<1>6. /\ z \in Nat /\ p \in Nat /\ s \in Nat /\ a \in Nat /\ Total(h) = a + s + p + z
      /\ Held(h, 18..33) = a + s /\ Held(h, 9..33) = a + s + p
  BY <1>5, HeldParts DEF IsHand
<1>7. PICK X : X = InPlay(mode)  OBVIOUS
<1>8. X \in SUBSET Kinds /\ Held(h, X) = Total(h)
  <2>1. Held(h, (9..33) \cup Y) = Held(h, 9..33) + Held(h, Y)  BY <1>4, HeldApart DEF IsHand
  <2>. QED  BY <1>3, <1>4, <1>5, <1>6, <1>7, <2>1
<1>9. PICK w : w = On(h, X)  OBVIOUS
<1>10. Held(w, X) = Held(h, X)  BY <1>8, <1>9, OnHand
<1>11. w \in OpenShapes(mode, m) <=> w \in CompleteHands(mode) /\ Held(w, X) = 3 * m + 2  BY <1>7, OpenShapesAre
<1>12. On(h, A) \in AreaHands(East, 7, {}) <=> HasSplit(Counts(h, East, 7), 7, {})
  <2>1. IsRegion(East, 7) /\ A = Area(East, 7)  BY <1>2, Unions DEF IsRegion
  <2>. QED  BY <2>1, AreaHas
<1>13. On(h, B) \in AreaHands(18, 9, 0..6) <=> HasSplit(Counts(h, 18, 9), 9, 0..6)
  <2>1. IsRegion(18, 9) /\ B = Area(18, 9)  BY <1>2, Unions DEF IsRegion
  <2>. QED  BY <2>1, AreaHas
<1>14. On(h, C) \in AreaHands(9, 9, 0..6) <=> HasSplit(Counts(h, 9, 9), 9, 0..6)
  <2>1. IsRegion(9, 9) /\ C = Area(9, 9)  BY <1>2, Unions DEF IsRegion
  <2>. QED  BY <2>1, AreaHas
<1>15. PICK G, H : G = Both(AreaHands(East, 7, {}), AreaHands(18, 9, 0..6), A, B) /\ H = Both(G, AreaHands(9, 9, 0..6), 18..33, C)
  OBVIOUS
<1>16. H = HandsAbove /\ CompleteHands(mode) = Both(H, ManzuHands(mode), 9..33, Y)
  BY <1>1, <1>2, <1>15, Zenon DEF HandsAbove, CompleteHands
<1>17. On(h, 18..33) \in G <=> On(h, A) \in AreaHands(East, 7, {}) /\ On(h, B) \in AreaHands(18, 9, 0..6) /\ Held(h, 18..33) % 3 # 1
  BY <1>4, <1>15, BothHas
<1>18. On(h, 9..33) \in H <=> On(h, 18..33) \in G /\ On(h, C) \in AreaHands(9, 9, 0..6) /\ Held(h, 9..33) % 3 # 1
  BY <1>4, <1>15, BothHas
<1>19. w \in CompleteHands(mode) <=> On(h, 9..33) \in H /\ On(h, Y) \in ManzuHands(mode) /\ Held(h, X) % 3 # 1
  <2>1. PICK M, D : M = ManzuHands(mode) /\ D = 9..33  OBVIOUS
  <2>2. D \in SUBSET Kinds /\ Y \in SUBSET Kinds /\ X = D \cup Y  BY <1>4, <1>7, <2>1
  <2>3. On(h, D \cup Y) \in Both(H, M, D, Y) <=> On(h, D) \in H /\ On(h, Y) \in M /\ Held(h, D \cup Y) % 3 # 1
    BY <2>2, BothHas
  <2>. QED  BY ONLY <1>9, <1>16, <2>1, <2>2, <2>3
<1>20. SplitUp(h) <=> /\ HasSplit(Counts(h, East, 7), 7, {}) /\ HasSplit(Counts(h, 18, 9), 9, 0..6)
                      /\ HasSplit(Counts(h, 9, 9), 9, 0..6) /\ HasSplit(Counts(h, 0, 9), 9, 0..6)
  BY DEF SplitUp
<1>21. w \in CompleteHands(mode) <=> SplitUp(h) /\ (a + s) % 3 # 1 /\ (a + s + p) % 3 # 1 /\ Total(h) % 3 # 1
  BY ONLY <1>3, <1>6, <1>8, <1>12, <1>13, <1>14, <1>17, <1>18, <1>19, <1>20
<1>22. IsComplete(h, m) <=> Total(h) = 3 * m + 2 /\ OnePair(z, p, s, a) /\ SplitUp(h)
  BY <1>5, CompleteIs DEF IsHand
<1>23. SplitUp(h) => z % 3 # 1 /\ p % 3 # 1 /\ s % 3 # 1 /\ a % 3 # 1
  <2>1. SUFFICES ASSUME SplitUp(h)  PROVE z % 3 # 1 /\ p % 3 # 1 /\ s % 3 # 1 /\ a % 3 # 1  OBVIOUS
  <2>2. ASSUME NEW o, NEW size, IsRegion(o, size), NEW V, IsArea(size, V), HasSplit(Counts(h, o, size), size, V)
        PROVE  Held(h, Area(o, size)) % 3 # 1
    <3>1. IsPattern(h, Area(o, size))  BY <2>2 DEF IsHand, IsPattern, IsRegion, Area, Kinds, East
    <3>2. Held(h, Area(o, size)) = SumOf(Counts(h, o, size), size)  BY <2>2, <3>1, HeldArea
    <3>3. SumOf(Counts(h, o, size), size) % 3 \in {0, 2}  BY <2>2, HasSplitSum
    <3>. QED  BY <3>2, <3>3
  <2>3. ASSUME NEW o \in {0, 9, 18}  PROVE Held(h, Area(o, 9)) % 3 # 1
    <3>1. IsRegion(o, 9) /\ IsArea(9, 0..6)  BY DEF IsRegion, IsArea
    <3>2. HasSplit(Counts(h, o, 9), 9, 0..6)  BY <2>1 DEF SplitUp
    <3>. QED  BY <2>2, <3>1, <3>2
  <2>4. Held(h, Area(East, 7)) % 3 # 1
    <3>1. IsRegion(East, 7) /\ IsArea(7, {})  BY DEF IsRegion, IsArea
    <3>2. HasSplit(Counts(h, East, 7), 7, {})  BY <2>1 DEF SplitUp
    <3>. QED  BY <2>2, <3>1, <3>2
  <2>. QED  BY <1>5, <2>3, <2>4, Unions
<1>24. z % 3 # 1 /\ p % 3 # 1 /\ s % 3 # 1 /\ a % 3 # 1 =>
         (a + s + p + z = 3 * m + 2 =>
            (OnePair(z, p, s, a) <=> (a + s) % 3 # 1 /\ (a + s + p) % 3 # 1 /\ (a + s + p + z) % 3 # 1))
  <2>1. (a + s + p + z = 3 * m + 2) => (a + s + p + z) % 3 = 2  BY <1>6
  <2>. QED  BY <1>6, <2>1 DEF OnePair
<1>25. w \in OpenShapes(mode, m) <=> IsComplete(h, m)
  BY ONLY <1>6, <1>8, <1>10, <1>11, <1>21, <1>22, <1>23, <1>24
<1>. QED  BY <1>6, <1>7, <1>8, <1>9, <1>25

-----------------------------------------------------------------------------
(* The calculators' answers for hands that are complete, and that are not. *)

\* A hand that misses nothing of as many tiles is that hand.
LEMMA NothingMissing ==
  ASSUME NEW h, IsHand(h), NEW X \in SUBSET Kinds, NEW w \in Patterns4(X), Held(h, X) <= Held(w, X), Away(h, w, X) = 0
  PROVE  w = On(h, X)
<1>1. IsPattern(h, X) /\ IsPattern(w, X) /\ IsCounts(h, X)  BY DEF IsHand, IsPattern, Patterns4, IsCounts
<1>2. IsFiniteSet(X) /\ IsCounts(Bare, X)  BY <1>1, HeldType
<1>3. PICK C, D : C = Cells(Bare, h, X) /\ D = Cells(Bare, w, X)  OBVIOUS
<1>4. IsFiniteSet(C) /\ IsFiniteSet(D) /\ Cardinality(C) \in Nat /\ Cardinality(D) \in Nat
  BY <1>1, <1>2, <1>3, CellsFinite DEF Away
<1>5. \A k \in X : Bare[k] = 0 /\ h[k] \in 0..4 /\ w[k] \in 0..4  BY <1>1 DEF Bare, IsPattern
<1>6. ASSUME NEW k \in X  PROVE w[k] <= h[k]
  <2>1. PICK E : E = Cells(h, w, X)  OBVIOUS
  <2>2. IsFiniteSet(E) /\ Cardinality(E) = 0  BY <1>1, <1>2, <2>1, CellsFinite DEF Away
  <2>3. E = {}  BY <2>2, FS_EmptySet
  <2>4. ASSUME w[k] > h[k]  PROVE FALSE
    <3>1. PICK z : z = <<k, w[k]>>  OBVIOUS
    <3>2. z[1] = k /\ z[2] = w[k] /\ z = <<k, z[2]>>  BY <3>1
    <3>3. z[2] \in h[k] + 1..w[k]  BY <1>5, <2>4, <3>2
    <3>4. IsCell(h, w, X, z)  BY <3>2, <3>3, Zenon DEF IsCell
    <3>. QED  BY <2>1, <2>3, <3>4, CellsAre
  <2>. QED  BY <1>5, <2>4
<1>7. D \in SUBSET C
  <2>1. ASSUME NEW z \in D  PROVE z \in C
    <3>1. IsCell(Bare, w, X, z)  BY <1>3, <2>1, CellsAre
    <3>2. PICK k \in X : z[1] = k /\ z = <<k, z[2]>> /\ z[2] \in Bare[k] + 1..w[k]  BY <3>1, Zenon DEF IsCell
    <3>3. z[2] \in Bare[k] + 1..h[k]  BY <1>5, <1>6, <3>2
    <3>4. IsCell(Bare, h, X, z)  BY <3>2, <3>3, Zenon DEF IsCell
    <3>. QED  BY <1>3, <3>4, CellsAre
  <2>. QED  BY <2>1
<1>8. C = D
  <2>1. Cardinality(D) <= Cardinality(C) /\ (Cardinality(C) = Cardinality(D) => C = D)  BY <1>4, <1>7, FS_Subset
  <2>2. Cardinality(C) <= Cardinality(D)  BY <1>3 DEF Held, Away
  <2>. QED  BY <1>4, <2>1, <2>2
<1>9. ASSUME NEW k \in X  PROVE w[k] = h[k]
  <2>1. ASSUME h[k] > w[k]  PROVE FALSE
    <3>1. PICK z : z = <<k, h[k]>>  OBVIOUS
    <3>2. z[1] = k /\ z[2] = h[k] /\ z = <<k, z[2]>>  BY <3>1
    <3>3. z[2] \in Bare[k] + 1..h[k]  BY <1>5, <2>1, <3>2
    <3>4. IsCell(Bare, h, X, z)  BY <3>2, <3>3, Zenon DEF IsCell
    <3>5. IsCell(Bare, w, X, z)  BY <1>3, <1>8, <3>4, CellsAre
    <3>6. PICK j \in X : z[1] = j /\ z[2] \in Bare[j] + 1..w[j]  BY <3>5, Zenon DEF IsCell
    <3>7. j = k  BY <3>2, <3>6
    <3>. QED  BY <1>5, <2>1, <3>2, <3>6, <3>7
  <2>. QED  BY <1>5, <1>6, <2>1
<1>. QED  BY <1>9 DEF On, Patterns4

\* The result r says how far the hand is, and -1 exactly if it is complete.
Says(r, complete) == r.shanten \in Int /\ r.shanten >= -1 /\ r.shanten < 100 /\ (r.shanten = -1 <=> complete)

LEMMA RegularSays ==
  ASSUME NEW h, IsHand(h), NEW mode, InMode(h, mode), NEW n \in 0..4, NEW m, m = 4 - n, LooksUp(h, m),
         Total(h) <= 3 * m + 2
  PROVE  Says(calc_regular(h, n, mode), IsComplete(h, m))
<1>1. PICK X, F : X = InPlay(mode) /\ F = OpenShapes(mode, m)  OBVIOUS
<1>2. m \in 0..4 /\ IsCounts(h, 0..33) /\ h[0] \in 0..4 /\ h[8] \in 0..4  BY DEF IsHand, IsCounts, Kinds
<1>3. PICK e : IsFound(calc_regular(h, n, mode), e, h, X, F)
  <2>1. LooksUp(h, 4 - n)  OBVIOUS
  <2>2. \E x : IsFound(calc_regular(h, n, mode), x, h, InPlay(mode), OpenShapes(mode, 4 - n))
    BY <1>2, <2>1, RegularFinds
  <2>. QED  BY <1>1, <2>2
<1>4. calc_regular(h, n, mode) = Found(e) /\ IsEntry(e, h, X, F) /\ e.dist <= 14  BY <1>3 DEF IsFound
<1>5. PICK r : r = calc_regular(h, n, mode)  OBVIOUS
<1>6. e.dist \in Nat /\ r.shanten = e.dist - 1  BY <1>4, <1>5 DEF Found, IsEntry
<1>7. /\ On(h, X) \in F <=> IsComplete(h, m)
      /\ Held(h, X) = Total(h) /\ Total(h) \in Nat /\ X \in SUBSET Kinds
  BY <1>1, <1>2, ShapeIsComplete
<1>8. ASSUME e.dist = 0  PROVE IsComplete(h, m)
  <2>1. PICK w \in F : Away(h, w, X) = 0  BY <1>4, <1>8 DEF IsEntry
  <2>2. w \in CompleteHands(mode) /\ Held(w, X) = 3 * m + 2  BY <1>1, <1>2, OpenShapesAre
  <2>3. w \in Patterns4(X)
    <3>1. X = (9..33) \cup ManzuTiles(mode)  BY <1>1 DEF InPlay
    <3>. QED  BY <2>2, <3>1 DEF CompleteHands, Both
  <2>4. Held(h, X) <= Held(w, X)  BY <1>7, <2>2
  <2>5. w = On(h, X)  BY <1>7, <2>1, <2>3, <2>4, NothingMissing
  <2>. QED  BY <1>7, <2>1, <2>5
<1>9. ASSUME IsComplete(h, m)  PROVE e.dist = 0
  <2>1. On(h, X) \in F  BY <1>7, <1>9
  <2>2. e.dist <= Away(h, On(h, X), X)  BY <1>4, <2>1 DEF IsEntry
  <2>3. Away(h, On(h, X), X) = 0
    <3>1. \A k \in X : On(h, X)[k] = h[k] /\ h[k] \in 0..4  BY <1>7 DEF On, IsHand
    <3>2. Cells(h, On(h, X), X) = {}  BY <3>1 DEF Cells
    <3>. QED  BY <3>2, FS_EmptySet DEF Away
  <2>. QED  BY <1>6, <2>2, <2>3
<1>. QED  BY <1>4, <1>5, <1>6, <1>8, <1>9 DEF Says

LEMMA HandCells ==
  ASSUME NEW h, IsHand(h), NEW C, C = Cells(Bare, h, Kinds)
  PROVE  /\ IsFiniteSet(Kinds) /\ IsFiniteSet(C) /\ Total(h) = Cardinality(C) /\ Total(h) \in Nat
         /\ \A k, n : <<k, n>> \in C <=> k \in Kinds /\ n \in 1..h[k]
<1>1. IsCounts(Bare, Kinds) /\ IsPattern(h, Kinds)  BY DEF IsCounts, IsPattern, Bare, IsHand
<1>2. IsFiniteSet(Kinds) /\ Total(h) = Away(Bare, h, Kinds)  BY TotalIs DEF IsHand
<1>3. IsFiniteSet(C) /\ Total(h) = Cardinality(C) /\ Total(h) \in Nat  BY <1>1, <1>2, CellsFinite DEF Away
<1>4. ASSUME NEW k, NEW n  PROVE <<k, n>> \in C <=> k \in Kinds /\ n \in 1..h[k]
  <2>1. PICK z : z = <<k, n>> /\ z[1] = k /\ z[2] = n
    <3>1. <<k, n>>[1] = k /\ <<k, n>>[2] = n  OBVIOUS
    <3>. QED  BY <3>1, Zenon
  <2>2. z \in C <=> IsCell(Bare, h, Kinds, z)  BY CellsAre
  <2>3. IsCell(Bare, h, Kinds, z) <=> k \in Kinds /\ n \in Bare[k] + 1..h[k]  BY ONLY <2>1, Zenon DEF IsCell
  <2>4. k \in Kinds => Bare[k] + 1 = 1  BY DEF Bare
  <2>. QED  BY <2>1, <2>2, <2>3, <2>4
<1>. QED  BY <1>2, <1>3, <1>4

\* Pairs are two tiles each; if they are all tiles, no kind has more, and the others have none.
LEMMA PairTiles ==
  ASSUME NEW h, IsHand(h), NEW P \in SUBSET Kinds, NEW p, p = NumAtLeast(h, P, 2)
  PROVE  /\ p \in Nat /\ Total(h) \in Nat /\ 2 * p <= Total(h)
         /\ Total(h) = 2 * p => \A k \in Kinds : h[k] = IF k \in AtLeast(h, P, 2) THEN 2 ELSE 0
<1>1. PICK A, D, C : A = AtLeast(h, P, 2) /\ D = 1..2 /\ C = Cells(Bare, h, Kinds)  OBVIOUS
<1>2. /\ IsFiniteSet(Kinds) /\ IsFiniteSet(C) /\ Total(h) = Cardinality(C) /\ Total(h) \in Nat
      /\ \A k, n : <<k, n>> \in C <=> k \in Kinds /\ n \in 1..h[k]
  BY <1>1, HandCells
<1>3. IsFiniteSet(A) /\ Cardinality(A) = p /\ p \in Nat
  <2>1. IsFiniteSet(P)  BY <1>2, FS_Subset
  <2>. QED  BY <1>1, <2>1, AtLeastFinite DEF NumAtLeast
<1>4. IsFiniteSet(D) /\ Cardinality(D) = 2
  <2>1. PICK l, u : l = 1 /\ u = 2 /\ l \in Int /\ u \in Int  OBVIOUS
  <2>2. IsFiniteSet(l..u) /\ Cardinality(l..u) = IF l > u THEN 0 ELSE u - l + 1  BY <2>1, FS_Interval
  <2>. QED  BY <1>1, <2>1, <2>2
<1>5. PICK B : B = A \X D  OBVIOUS
<1>6. IsFiniteSet(B) /\ Cardinality(B) = p * 2  BY <1>3, <1>4, <1>5, FS_Product
<1>7. \A k \in A : k \in Kinds /\ h[k] \in 2..4  BY <1>1 DEF AtLeast, IsHand
<1>8. B \in SUBSET C
  <2>1. ASSUME NEW k \in A, NEW n \in D  PROVE <<k, n>> \in C
    <3>1. n \in 1..h[k]  BY <1>1, <1>7
    <3>. QED  BY <1>2, <1>7, <3>1
  <2>. QED  BY <1>5, <2>1
<1>9. Cardinality(B) <= Cardinality(C) /\ (Cardinality(C) = Cardinality(B) => C = B)  BY <1>2, <1>8, FS_Subset
<1>10. ASSUME Total(h) = 2 * p, NEW k \in Kinds
       PROVE  h[k] = IF k \in A THEN 2 ELSE 0
  <2>1. C = B  BY <1>2, <1>3, <1>6, <1>9, <1>10
  <2>2. h[k] \in 0..4  BY DEF IsHand
  <2>3. CASE k \in A
    <3>1. ASSUME h[k] # 2  PROVE FALSE
      <4>1. 3 \in 1..h[k]  BY <1>7, <2>3, <3>1
      <4>2. <<k, 3>> \in B  BY <1>2, <2>1, <4>1
      <4>3. 3 \in D  BY <1>5, <4>2
      <4>. QED  BY <1>1, <4>3
    <3>. QED  BY <2>3, <3>1
  <2>4. CASE k \notin A
    <3>1. ASSUME h[k] # 0  PROVE FALSE
      <4>1. 1 \in 1..h[k]  BY <2>2, <3>1
      <4>2. <<k, 1>> \in B  BY <1>2, <2>1, <4>1
      <4>. QED  BY <1>5, <2>4, <4>2
    <3>. QED  BY <2>4, <3>1
  <2>. QED  BY <2>3, <2>4
<1>11. 2 * p <= Total(h)
  <2>1. p * 2 = 2 * p  BY <1>3
  <2>. QED  BY <1>2, <1>6, <1>9, <2>1
<1>. QED  BY <1>1, <1>2, <1>3, <1>10, <1>11

Twos(h) == {k \in Kinds : h[k] = 2}

LEMMA SevenPairsSay ==
  ASSUME NEW h, IsHand(h), NEW mode, InMode(h, mode), Total(h) <= 14
  PROVE  Says(calc_seven_pairs(h, mode), Cardinality(Twos(h)) = 7)
<1>1. PICK P : P = Playable(mode) /\ P \in SUBSET Kinds  BY DEF Playable
<1>2. PICK p, t : p = NumAtLeast(h, P, 2) /\ t = NumAtLeast(h, P, 1)  OBVIOUS
<1>3. IsCounts(h, 0..33)  BY DEF IsHand, IsCounts, Kinds
<1>4. PICK r : r = calc_seven_pairs(h, mode)  OBVIOUS
<1>5. p \in Nat /\ t \in Nat /\ r.shanten = 6 - p + (IF t < 7 THEN 7 - t ELSE 0)
  <2>1. 9 \in P  BY <1>1 DEF Playable, Kinds, is_sanma_disabled
  <2>. QED  BY <1>1, <1>2, <1>3, <1>4, <2>1, SevenPairsAre
<1>6. /\ Total(h) \in Nat /\ 2 * p <= Total(h)
      /\ Total(h) = 2 * p => \A k \in Kinds : h[k] = IF k \in AtLeast(h, P, 2) THEN 2 ELSE 0
  BY <1>1, <1>2, PairTiles
<1>7. p <= 7 /\ (p = 7 => Total(h) = 2 * p)  BY <1>5, <1>6
<1>8. IsFiniteSet(P) /\ IsFiniteSet(Kinds)
  <2>1. IsFiniteSet(Kinds)  BY HandCells
  <2>. QED  BY <1>1, <2>1, FS_Subset
<1>9. p <= t
  <2>1. AtLeast(h, P, 2) \in SUBSET AtLeast(h, P, 1)  BY <1>1 DEF AtLeast, IsHand
  <2>2. IsFiniteSet(AtLeast(h, P, 1))  BY <1>8, AtLeastFinite
  <2>. QED  BY <1>2, <2>1, <2>2, FS_Subset DEF NumAtLeast
<1>10. ASSUME p = 7  PROVE Cardinality(Twos(h)) = 7
  <2>1. \A k \in Kinds : h[k] = IF k \in AtLeast(h, P, 2) THEN 2 ELSE 0  BY <1>6, <1>7, <1>10
  <2>2. AtLeast(h, P, 2) \in SUBSET Kinds  BY <1>1 DEF AtLeast
  <2>3. Twos(h) = AtLeast(h, P, 2)  BY <2>1, <2>2 DEF Twos
  <2>. QED  BY <1>2, <1>10, <2>3 DEF NumAtLeast
<1>11. ASSUME Cardinality(Twos(h)) = 7  PROVE p = 7
  <2>1. \A k \in Twos(h) : k \in P
    <3>1. SUFFICES ASSUME NEW k \in Kinds, h[k] = 2  PROVE k \in P  BY DEF Twos
    <3>2. ASSUME mode = Sanma, is_sanma_disabled(k)  PROVE FALSE
      <4>1. k \in 1..7  BY <3>2 DEF is_sanma_disabled, Kinds
      <4>. QED  BY <3>1, <3>2, <4>1 DEF InMode
    <3>. QED  BY <1>1, <3>1, <3>2 DEF Playable
  <2>2. Twos(h) \in SUBSET AtLeast(h, P, 2)  BY <2>1 DEF Twos, AtLeast
  <2>3. IsFiniteSet(AtLeast(h, P, 2))  BY <1>8, AtLeastFinite
  <2>4. Cardinality(Twos(h)) <= p  BY <1>2, <2>2, <2>3, FS_Subset DEF NumAtLeast
  <2>. QED  BY <1>5, <1>7, <1>11, <2>4
<1>12. r.shanten \in Int /\ r.shanten >= -1 /\ r.shanten < 100 /\ (r.shanten = -1 <=> p = 7)
  BY <1>5, <1>7, <1>9
<1>. QED  BY <1>4, <1>10, <1>11, <1>12 DEF Says

\* Thirteen orphans with one of them twice.
OneOfEach(h) == \A k \in Kinds : is_terminal_or_honor(k) <=> h[k] > 0

LEMMA ThirteenKinds == IsFiniteSet(Yaochuu) /\ Cardinality(Yaochuu) = 13
<1>1. PICK H : H = 27..33  OBVIOUS
<1>2. IsFiniteSet(H) /\ Cardinality(H) = 7
  <2>1. PICK l, u : l = 27 /\ u = 33 /\ l \in Int /\ u \in Int  OBVIOUS
  <2>2. IsFiniteSet(l..u) /\ Cardinality(l..u) = IF l > u THEN 0 ELSE u - l + 1  BY <2>1, FS_Interval
  <2>. QED  BY <1>1, <2>1, <2>2
<1>3. PICK A : A = H \cup {0}  OBVIOUS
<1>4. IsFiniteSet(A) /\ Cardinality(A) = 8
  <2>1. 0 \notin H  BY <1>1
  <2>. QED  BY <1>2, <1>3, <2>1, FS_AddElement
<1>5. PICK B : B = A \cup {8}  OBVIOUS
<1>6. IsFiniteSet(B) /\ Cardinality(B) = 9
  <2>1. 8 \notin A  BY <1>1, <1>3
  <2>. QED  BY <1>4, <1>5, <2>1, FS_AddElement
<1>7. PICK C : C = B \cup {9}  OBVIOUS
<1>8. IsFiniteSet(C) /\ Cardinality(C) = 10
  <2>1. 9 \notin B  BY <1>1, <1>3, <1>5
  <2>. QED  BY <1>6, <1>7, <2>1, FS_AddElement
<1>9. PICK D : D = C \cup {17}  OBVIOUS
<1>10. IsFiniteSet(D) /\ Cardinality(D) = 11
  <2>1. 17 \notin C  BY <1>1, <1>3, <1>5, <1>7
  <2>. QED  BY <1>8, <1>9, <2>1, FS_AddElement
<1>11. PICK E : E = D \cup {18}  OBVIOUS
<1>12. IsFiniteSet(E) /\ Cardinality(E) = 12
  <2>1. 18 \notin D  BY <1>1, <1>3, <1>5, <1>7, <1>9
  <2>. QED  BY <1>10, <1>11, <2>1, FS_AddElement
<1>13. PICK F : F = E \cup {26}  OBVIOUS
<1>14. IsFiniteSet(F) /\ Cardinality(F) = 13
  <2>1. 26 \notin E  BY <1>1, <1>3, <1>5, <1>7, <1>9, <1>11
  <2>. QED  BY <1>12, <1>13, <2>1, FS_AddElement
<1>15. Yaochuu = F
  <2>1. ASSUME NEW k \in Kinds  PROVE is_terminal_or_honor(k) <=> k \in H \/ k \in {0, 8, 9, 17, 18, 26}
    <3>1. (\E d \in 0..2 : k \in {9 * d, 9 * d + 8}) <=> k \in {0, 8, 9, 17, 18, 26}
      <4>1. 0..2 = {0, 1, 2}  OBVIOUS
      <4>. QED  BY <4>1
    <3>. QED  BY <1>1, <3>1 DEF is_terminal_or_honor, Honors, East, RedDragon
  <2>2. H \in SUBSET Kinds /\ {0, 8, 9, 17, 18, 26} \in SUBSET Kinds  BY <1>1 DEF Kinds
  <2>3. F = H \cup {0, 8, 9, 17, 18, 26}  BY <1>3, <1>5, <1>7, <1>9, <1>11, <1>13
  <2>. QED  BY <2>1, <2>2, <2>3 DEF Yaochuu
<1>. QED  BY <1>14, <1>15

LEMMA OrphansSay ==
  ASSUME NEW h, IsHand(h), Total(h) <= 14
  PROVE  Says(calc_thirteen_orphans(h), Total(h) = 14 /\ OneOfEach(h))
<1>1. PICK Y, C : Y = Yaochuu /\ C = Cells(Bare, h, Kinds)  OBVIOUS
<1>2. IsFiniteSet(Y) /\ Cardinality(Y) = 13 /\ Y \in SUBSET Kinds  BY <1>1, ThirteenKinds DEF Yaochuu
<1>3. PICK p, t : p = NumAtLeast(h, Y, 2) /\ t = NumAtLeast(h, Y, 1)  OBVIOUS
<1>4. PICK r : r = calc_thirteen_orphans(h)  OBVIOUS
<1>5. p \in Nat /\ t \in Nat /\ r.shanten = 13 - t - (IF p = 0 THEN 0 ELSE 1)
  <2>1. IsCounts(h, 0..33) /\ 0 \in Kinds  BY DEF IsHand, IsCounts, Kinds
  <2>. QED  BY <1>1, <1>3, <1>4, <2>1, OrphansAre
<1>6. /\ IsFiniteSet(C) /\ Total(h) = Cardinality(C) /\ Total(h) \in Nat
      /\ \A k, n : <<k, n>> \in C <=> k \in Kinds /\ n \in 1..h[k]
  BY <1>1, HandCells
<1>7. PICK A : A = AtLeast(h, Y, 1)  OBVIOUS
<1>8. A \in SUBSET Y /\ t = Cardinality(A)  BY <1>3, <1>7 DEF AtLeast, NumAtLeast
<1>9. t <= 13 /\ (t = 13 => A = Y)  BY <1>2, <1>8, FS_Subset
<1>10. PICK U : U = AtLeast(h, Y, 2)  OBVIOUS
<1>11. IsFiniteSet(U) /\ p = Cardinality(U)  BY <1>2, <1>3, <1>10, AtLeastFinite DEF NumAtLeast
<1>12. p = 0 <=> U = {}  BY <1>11, FS_EmptySet
<1>13. PICK S : S = Y \X {1}  OBVIOUS
<1>14. IsFiniteSet(S) /\ Cardinality(S) = 13
  <2>1. IsFiniteSet({1}) /\ Cardinality({1}) = 1  BY FS_Singleton
  <2>2. IsFiniteSet(Y \X {1}) /\ Cardinality(Y \X {1}) = 13 * 1  BY <1>2, <2>1, FS_Product
  <2>. QED  BY <1>13, <2>2
<1>15. ASSUME t = 13, p # 0  PROVE Total(h) = 14 /\ OneOfEach(h)
  <2>1. \A k \in Y : h[k] >= 1 /\ h[k] \in 0..4  BY <1>2, <1>7, <1>9, <1>15 DEF AtLeast, IsHand
  <2>2. PICK q \in Y : h[q] >= 2  BY <1>10, <1>12, <1>15 DEF AtLeast
  <2>3. PICK B : B = S \cup {<<q, 2>>}  OBVIOUS
  <2>4. IsFiniteSet(B) /\ Cardinality(B) = 14
    <3>1. <<q, 2>> \notin S  BY <1>13
    <3>. QED  BY <1>14, <2>3, <3>1, FS_AddElement
  <2>5. B \in SUBSET C
    <3>1. ASSUME NEW k \in Y  PROVE <<k, 1>> \in C
      <4>1. k \in Kinds /\ 1 \in 1..h[k]  BY <1>2, <2>1
      <4>. QED  BY <1>6, <4>1
    <3>2. <<q, 2>> \in C
      <4>1. q \in Kinds /\ 2 \in 1..h[q]  BY <1>2, <2>1, <2>2
      <4>. QED  BY <1>6, <4>1
    <3>3. S \in SUBSET C  BY <1>13, <3>1
    <3>. QED  BY <2>3, <3>2, <3>3
  <2>6. Cardinality(B) <= Cardinality(C) /\ (Cardinality(C) = Cardinality(B) => C = B)  BY <1>6, <2>5, FS_Subset
  <2>7. Total(h) = 14 /\ C = B  BY <1>6, <2>4, <2>6
  <2>8. ASSUME NEW k \in Kinds  PROVE is_terminal_or_honor(k) <=> h[k] > 0
    <3>1. is_terminal_or_honor(k) <=> k \in Y  BY <1>1 DEF Yaochuu
    <3>2. h[k] \in 0..4  BY DEF IsHand
    <3>3. k \in Y => h[k] > 0  BY <2>1
    <3>4. ASSUME h[k] > 0, k \notin Y  PROVE FALSE
      <4>1. 1 \in 1..h[k]  BY <3>2, <3>4
      <4>2. <<k, 1>> \in B  BY <1>6, <2>7, <4>1
      <4>. QED  BY <1>13, <2>2, <2>3, <3>4, <4>2
    <3>. QED  BY <3>1, <3>3, <3>4
  <2>. QED  BY <2>7, <2>8 DEF OneOfEach
<1>16. ASSUME Total(h) = 14, OneOfEach(h)  PROVE t = 13 /\ p # 0
  <2>1. \A k \in Kinds : (k \in Y <=> h[k] > 0) /\ h[k] \in 0..4  BY <1>1, <1>16 DEF OneOfEach, Yaochuu, IsHand
  <2>2. A = Y
    <3>1. \A k \in Y : h[k] >= 1  BY <1>2, <2>1
    <3>. QED  BY <1>7, <3>1 DEF AtLeast
  <2>3. ASSUME p = 0  PROVE FALSE
    <3>1. \A k \in Kinds : h[k] = IF k \in Y THEN 1 ELSE 0
      <4>1. \A k \in Y : ~(h[k] >= 2)  BY <1>10, <1>12, <2>3 DEF AtLeast
      <4>. QED  BY <2>1, <4>1
    <3>2. C \in SUBSET S
      <4>1. ASSUME NEW z \in C  PROVE z \in S
        <5>1. IsCell(Bare, h, Kinds, z)  BY <1>1, CellsAre
        <5>2. PICK k \in Kinds : z[1] = k /\ z = <<k, z[2]>> /\ z[2] \in Bare[k] + 1..h[k]  BY <5>1, Zenon DEF IsCell
        <5>3. Bare[k] = 0 /\ (h[k] = 1 \/ h[k] = 0)  BY <3>1 DEF Bare
        <5>4. z[2] = 1 /\ h[k] = 1  BY <5>2, <5>3
        <5>5. k \in Y  BY <2>1, <5>4
        <5>. QED  BY <1>13, <5>2, <5>4, <5>5
      <4>. QED  BY <4>1
    <3>3. Cardinality(C) <= 13  BY <1>14, <3>2, FS_Subset
    <3>. QED  BY <1>6, <1>16, <3>3
  <2>. QED  BY <1>2, <1>8, <2>2, <2>3
<1>17. r.shanten \in Int /\ r.shanten >= -1 /\ r.shanten < 100 /\ (r.shanten = -1 <=> t = 13 /\ p # 0)
  BY <1>5, <1>9
<1>. QED  BY <1>4, <1>15, <1>16, <1>17 DEF Says

\* Of three results one says that the hand is complete, or none.
Of3(r, q, s) == Merged(Closest({r, q, s} \cup {NoneFound}))
Within100(r) == r.shanten \in Int /\ r.shanten >= -1 /\ r.shanten < 100

LEMMA OfThree ==
  ASSUME NEW r, Within100(r), NEW q, Within100(q), NEW s, Within100(s)
  PROVE  Of3(r, q, s).shanten = -1 <=> r.shanten = -1 \/ q.shanten = -1 \/ s.shanten = -1
<1>1. PICK U, V : U = {r, q, s} \cup {NoneFound} /\ V = Closest(U)  OBVIOUS
<1>2. /\ r.shanten \in Int /\ r.shanten >= -1 /\ r.shanten < 100 /\ q.shanten \in Int /\ q.shanten >= -1 /\ q.shanten < 100
      /\ s.shanten \in Int /\ s.shanten >= -1 /\ s.shanten < 100 /\ NoneFound.shanten = 100
  BY DEF Within100, NoneFound
<1>3. PICK a, b, c : a = r.shanten /\ b = q.shanten /\ c = s.shanten  OBVIOUS
<1>4. \E x \in {r, q, s} : x.shanten <= a /\ x.shanten <= b /\ x.shanten <= c  BY <1>2, <1>3
<1>5. PICK x \in {r, q, s} : x.shanten <= a /\ x.shanten <= b /\ x.shanten <= c  BY <1>4
<1>6. x \in V  BY <1>1, <1>2, <1>3, <1>5 DEF Closest
<1>7. Chosen(V) \in V  BY <1>6, ChosenIn
<1>8. PICK y \in V : y = Chosen(V)  BY <1>7
<1>9. y \in U /\ \A u \in U : y.shanten <= u.shanten  BY <1>1 DEF Closest
<1>10. y.shanten <= a /\ y.shanten <= b /\ y.shanten <= c  BY <1>1, <1>3, <1>9
<1>11. y \in {r, q, s}
  <2>1. y # NoneFound  BY <1>2, <1>3, <1>10
  <2>. QED  BY <1>1, <1>9, <2>1
<1>12. Of3(r, q, s).shanten = y.shanten  BY <1>1, <1>8 DEF Of3, Merged
<1>13. y.shanten = -1 <=> a = -1 \/ b = -1 \/ c = -1  BY <1>2, <1>3, <1>10, <1>11
<1>. QED  BY <1>3, <1>12, <1>13

LEMMA CalcAll ==
  ASSUME NEW h, NEW n \in 0..4, NEW mode
  PROVE  calc(h, n, All, mode) = IF n = 0 THEN Of3(calc_regular(h, n, mode), calc_seven_pairs(h, mode), calc_thirteen_orphans(h))
                                 ELSE Of3(calc_regular(h, n, mode), calc_regular(h, n, mode), calc_regular(h, n, mode))
<1>1. calc(h, n, All, mode) = Merged(Closest(Results(h, n, All, mode) \cup {NoneFound}))  BY CalcIs
<1>2. "StandardHand" \in All /\ "SevenPairs" \in All /\ "ThirteenOrphans" \in All  BY DEF All
<1>3. CASE n = 0
  <2>1. Results(h, n, All, mode) = {calc_regular(h, n, mode), calc_seven_pairs(h, mode), calc_thirteen_orphans(h)}
    BY <1>2, <1>3 DEF Results
  <2>. QED  BY <1>1, <1>3, <2>1 DEF Of3
<1>4. CASE n # 0
  <2>1. Results(h, n, All, mode) = {calc_regular(h, n, mode), calc_regular(h, n, mode), calc_regular(h, n, mode)}
    BY <1>2, <1>4 DEF Results
  <2>. QED  BY <1>1, <1>4, <2>1 DEF Of3
<1>. QED  BY <1>3, <1>4

\* The hand is complete in one of the three ways.
Finished(h, n) ==
  \/ IsComplete(h, 4 - n)
  \/ n = 0 /\ Cardinality(Twos(h)) = 7
  \/ n = 0 /\ Total(h) = 14 /\ OneOfEach(h)

LEMMA CalcSays ==
  ASSUME NEW h, IsHand(h), NEW mode, InMode(h, mode), NEW n \in 0..4, LooksUp(h, 4 - n), Total(h) + 3 * n <= 14
  PROVE  calc(h, n, All, mode).shanten = -1 <=> Finished(h, n)
<1>1. Total(h) \in Nat  BY HandCells
<1>2. PICK m \in 0..4 : m = 4 - n  OBVIOUS
<1>3. PICK r, q, s : r = calc_regular(h, n, mode) /\ q = calc_seven_pairs(h, mode) /\ s = calc_thirteen_orphans(h)  OBVIOUS
<1>4. Says(r, IsComplete(h, m))
  <2>1. Total(h) <= 3 * m + 2 /\ LooksUp(h, m)  BY <1>1, <1>2
  <2>. QED  BY <1>2, <1>3, <2>1, RegularSays
<1>5. Total(h) <= 14  BY <1>1
<1>6. Says(q, Cardinality(Twos(h)) = 7) /\ Says(s, Total(h) = 14 /\ OneOfEach(h))
  BY <1>3, <1>5, SevenPairsSay, OrphansSay
<1>7. Within100(r) /\ Within100(q) /\ Within100(s)  BY <1>4, <1>6 DEF Says, Within100
<1>8. /\ r.shanten = -1 <=> IsComplete(h, m)
      /\ q.shanten = -1 <=> Cardinality(Twos(h)) = 7
      /\ s.shanten = -1 <=> Total(h) = 14 /\ OneOfEach(h)
  BY <1>4, <1>6, Zenon DEF Says
<1>9. CASE n = 0
  <2>1. calc(h, n, All, mode) = Of3(r, q, s)  BY <1>3, <1>9, CalcAll
  <2>2. Of3(r, q, s).shanten = -1 <=> r.shanten = -1 \/ q.shanten = -1 \/ s.shanten = -1  BY <1>7, OfThree
  <2>. QED  BY ONLY <1>2, <1>8, <1>9, <2>1, <2>2 DEF Finished
<1>10. CASE n # 0
  <2>1. calc(h, n, All, mode) = Of3(r, r, r)  BY <1>3, <1>10, CalcAll
  <2>2. Of3(r, r, r).shanten = -1 <=> r.shanten = -1 \/ r.shanten = -1 \/ r.shanten = -1  BY <1>7, OfThree
  <2>. QED  BY ONLY <1>2, <1>8, <1>10, <2>1, <2>2 DEF Finished
<1>. QED  BY <1>9, <1>10

-----------------------------------------------------------------------------
(* Complete hands are refused, and no other is.                            *)

LEMMA ResultIs ==
  ASSUME NEW r
  PROVE  calculate_result(r).shanten = calc(r.hand, Len(r.melds), All, r.game_mode).shanten
<1>1. PICK f : f = [type \in {All} \cup {{t} : t \in All} |-> calc(r.hand, Len(r.melds), type, r.game_mode).shanten]  OBVIOUS
<1>2. calculate_result(r).shanten = f[All]  BY <1>1 DEF calculate_result
<1>3. All \in {All} \cup {{t} : t \in All}  OBVIOUS
<1>. QED  BY <1>1, <1>2, <1>3

\* The request of an accepted document is calculated as complete exactly if it is.
LEMMA AcceptedSays ==
  ASSUME NEW d \in Documents, Accepted(d), NEW r, r = make_request(d)
  PROVE  calculate_result(r).shanten = -1 <=> Finished(r.hand, Len(r.melds))
<1>1. d \in DocumentRecords  BY SchemaAssumption
<1>2. /\ r.hand = to_hand(d.hand) /\ r.melds = d.melds /\ r.game_mode = d.game_mode /\ r \in RequestRecords
  BY <1>1, RequestMade
<1>3. check_hand(r.hand) /\ validate_sanma_tiles(r) /\ validate_tile_counts(r)  BY Zenon DEF Accepted
<1>4. PICK h, n, mode : h = r.hand /\ n = Len(r.melds) /\ mode = r.game_mode  OBVIOUS
<1>5. h \in [Codes -> Nat] /\ n \in Nat  BY <1>2, <1>4 DEF RequestRecords
<1>6. IsHand(h)  BY <1>3, <1>4 DEF check_hand, IsHand
<1>7. Total(h) \in Nat /\ Total(h) + 3 * n <= 14
  <2>1. Total(h) \in Nat  BY <1>6, HandCells
  <2>2. Total(h) + 3 * n <= 14  BY <1>3, <1>4 DEF validate_tile_counts, num_tiles
  <2>. QED  BY <2>1, <2>2
<1>8. n \in 0..4  BY <1>5, <1>7
<1>9. InMode(h, mode)
  <2>1. SUFFICES ASSUME mode = Sanma, NEW k \in 1..7  PROVE h[k] = 0  BY DEF InMode
  <2>2. k \in Codes /\ is_sanma_disabled(k)  BY DEF Codes, is_sanma_disabled
  <2>3. ~(h[k] > 0)  BY <1>3, <1>4, <2>1, <2>2 DEF validate_sanma_tiles, has_sanma_disabled_tiles
  <2>. QED  BY <1>5, <2>2, <2>3
<1>10. LooksUp(h, 4 - n)
  <2>1. PICK b, m : b = to_hand(d.hand) /\ m = 4 - Len(d.melds)  OBVIOUS
  <2>2. LooksUp(b, m)  BY <2>1, AfterLooksUp
  <2>. QED  BY <1>2, <1>4, <2>1, <2>2
<1>11. calc(h, n, All, mode).shanten = -1 <=> Finished(h, n)  BY <1>6, <1>7, <1>8, <1>9, <1>10, CalcSays
<1>12. calculate_result(r).shanten = calc(h, n, All, mode).shanten  BY <1>4, ResultIs
<1>. QED  BY <1>4, <1>11, <1>12

\* What is calculated is not said to be complete; an accepted document whose request is
\* refused is.
RefusedInv ==
  /\ ReqInv
  /\ phase \in {"calculated", "answered"} => calculate_result(req).shanten # -1
  /\ phase = "refused" /\ req # None /\ Accepted(doc) => req = make_request(doc) /\ calculate_result(req).shanten = -1

THEOREM RefusedInvHolds == Spec => []RefusedInv
<1>1. Init => RefusedInv
  <2>1. Init => ReqInv  BY SMT DEF Init, ReqInv
  <2>. QED  BY <2>1 DEF Init, RefusedInv
<1>2. RefusedInv /\ ReqInv' /\ [Next]_vars => RefusedInv'
  <2>1. SUFFICES ASSUME RefusedInv, ReqInv', [Next]_vars  PROVE RefusedInv'  OBVIOUS
  <2>2. ReqInv  BY <2>1 DEF RefusedInv
  <2>3. CASE MakeRequest
    <3>1. phase = "parsed" /\ doc' = doc  BY <2>3 DEF MakeRequest, Refuse
    <3>2. CASE check_hand(make_request(doc).hand)
      <4>1. phase' = "made"  BY <2>3, <3>2 DEF MakeRequest
      <4>. QED  BY <2>1, <4>1 DEF RefusedInv
    <3>3. CASE ~check_hand(make_request(doc).hand)
      <4>1. phase' = "refused"  BY <2>3, <3>3 DEF MakeRequest, Refuse
      <4>2. ~Accepted(doc)  BY <3>3 DEF Accepted
      <4>3. ~Accepted(doc')  BY <3>1, <4>2
      <4>. QED  BY <2>1, <4>1, <4>3 DEF RefusedInv
    <3>. QED  BY <3>2, <3>3
  <2>4. CASE Validate("made", validate_melds(req), "melds")
    <3>1. phase = "made" /\ doc' = doc /\ req = make_request(doc)  BY <2>2, <2>4 DEF Validate, Refuse, ReqInv
    <3>2. phase' = "melds" \/ (phase' = "refused" /\ ~validate_melds(req))  BY <2>4 DEF Validate, Refuse
    <3>3. ~validate_melds(req) => ~Accepted(doc')  BY <3>1, Zenon DEF Accepted
    <3>. QED  BY <2>1, <3>2, <3>3 DEF RefusedInv
  <2>5. CASE Validate("melds", validate_sanma_tiles(req), "sanma")
    <3>1. phase = "melds" /\ doc' = doc /\ req = make_request(doc)  BY <2>2, <2>5 DEF Validate, Refuse, ReqInv
    <3>2. phase' = "sanma" \/ (phase' = "refused" /\ ~validate_sanma_tiles(req))  BY <2>5 DEF Validate, Refuse
    <3>3. ~validate_sanma_tiles(req) => ~Accepted(doc')  BY <3>1, Zenon DEF Accepted
    <3>. QED  BY <2>1, <3>2, <3>3 DEF RefusedInv
  <2>6. CASE Validate("sanma", validate_tile_counts(req), "valid")
    <3>1. phase = "sanma" /\ doc' = doc /\ req = make_request(doc)  BY <2>2, <2>6 DEF Validate, Refuse, ReqInv
    <3>2. phase' = "valid" \/ (phase' = "refused" /\ ~validate_tile_counts(req))  BY <2>6 DEF Validate, Refuse
    <3>3. ~validate_tile_counts(req) => ~Accepted(doc')  BY <3>1, Zenon DEF Accepted
    <3>. QED  BY <2>1, <3>2, <3>3 DEF RefusedInv
  <2>7. CASE Calculate
    <3>1. phase = "valid" /\ doc' = doc /\ req' = req /\ req = make_request(doc)
      BY <2>2, <2>7 DEF Calculate, Refuse, ReqInv
    <3>2. IF calculate_result(req).shanten = -1 THEN phase' = "refused" ELSE phase' = "calculated"
      BY <2>7 DEF Calculate, Refuse
    <3>3. calculate_result(req') = calculate_result(req) /\ make_request(doc') = make_request(doc)  BY <3>1, Zenon
    <3>. QED  BY <2>1, <3>1, <3>2, <3>3 DEF RefusedInv
  <2>8. CASE Respond
    <3>1. phase = "calculated" /\ phase' = "answered" /\ req' = req  BY <2>8 DEF Respond
    <3>2. calculate_result(req).shanten # -1  BY <2>1, <3>1 DEF RefusedInv
    <3>3. calculate_result(req') = calculate_result(req)  BY <3>1, Zenon
    <3>. QED  BY <2>1, <3>1, <3>2, <3>3 DEF RefusedInv
  <2>9. CASE UNCHANGED vars
    <3>1. phase' = phase /\ req' = req /\ doc' = doc  BY <2>9 DEF vars
    <3>2. /\ calculate_result(req') = calculate_result(req) /\ make_request(doc') = make_request(doc)
          /\ Accepted(doc') <=> Accepted(doc)
      BY <3>1, Zenon
    <3>. QED  BY <2>1, <3>1, <3>2 DEF RefusedInv
  <2>. QED  BY <2>1, <2>3, <2>4, <2>5, <2>6, <2>7, <2>8, <2>9 DEF Next
<1>. QED  BY <1>1, <1>2, ReqInvHolds, PTL DEF Spec

LEMMA CompleteIsRefusedUnfolded ==
  /\ phase \in {"calculated", "answered"} => ~Finished(req.hand, Len(req.melds))
  /\ phase = "refused" /\ req # None /\ Accepted(doc) => Finished(req.hand, Len(req.melds))
  => CompleteIsRefused
BY Zenon DEF CompleteIsRefused, Finished, Twos, OneOfEach, num_tiles

\* Whatever hand is accepted, the calculators and the hand separator agree on whether it
\* is complete: no statistics are worked out for a hand that could be declared, and no
\* accepted hand that cannot is turned away.
THEOREM CompleteIsRefusedCorrect == Spec => []CompleteIsRefused
<1>1. RefusedInv => CompleteIsRefused
  <2>1. SUFFICES ASSUME RefusedInv
        PROVE  /\ phase \in {"calculated", "answered"} => ~Finished(req.hand, Len(req.melds))
               /\ phase = "refused" /\ req # None /\ Accepted(doc) => Finished(req.hand, Len(req.melds))
    BY CompleteIsRefusedUnfolded
  <2>2. doc \in Documents  BY <2>1 DEF RefusedInv, ReqInv
  <2>3. ASSUME phase \in {"calculated", "answered"}  PROVE ~Finished(req.hand, Len(req.melds))
    <3>1. /\ req = make_request(doc) /\ check_hand(req.hand)
          /\ validate_melds(req) /\ validate_sanma_tiles(req) /\ validate_tile_counts(req)
      BY <2>1, <2>3 DEF RefusedInv, ReqInv
    <3>2. Accepted(doc)  BY <3>1, Zenon DEF Accepted
    <3>3. calculate_result(req).shanten # -1  BY <2>1, <2>3 DEF RefusedInv
    <3>. QED  BY <2>2, <3>1, <3>2, <3>3, AcceptedSays
  <2>4. ASSUME phase = "refused", req # None, Accepted(doc)  PROVE Finished(req.hand, Len(req.melds))
    <3>1. req = make_request(doc) /\ calculate_result(req).shanten = -1  BY <2>1, <2>4 DEF RefusedInv
    <3>. QED  BY <2>2, <2>4, <3>1, AcceptedSays
  <2>. QED  BY <2>3, <2>4
<1>. QED  BY <1>1, RefusedInvHolds, PTL
=============================================================================
