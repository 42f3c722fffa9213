----------------------------- MODULE Replay_proofs -----------------------------
(***************************************************************************)
(* Theorems about replayed games: what build_replay keeps of a round,      *)
(* whatever is dealt and whatever the players do.  First come the events   *)
(* and the points; then calls: what decode_meld makes of their codes, that *)
(* the hands of the record are those at the table, and that the winner's   *)
(* hand in the log is the one a replay arrives at.                         *)
(***************************************************************************)
EXTENDS ReplayedGame, FiniteSetTheorems, SequenceTheorems, TLAPS

-----------------------------------------------------------------------------
(* Lists, whatever they hold.                                              *)

IsList(s) == \E S : s \in Seq(S)

LEMMA AppendList ==
  ASSUME NEW s, IsList(s), NEW x
  PROVE  /\ Len(s) \in Nat /\ DOMAIN s = 1..Len(s)
         /\ IsList(Append(s, x)) /\ Len(Append(s, x)) = Len(s) + 1
         /\ DOMAIN Append(s, x) = 1..Len(s) + 1
         /\ Append(s, x)[Len(s) + 1] = x /\ \A i \in 1..Len(s) : Append(s, x)[i] = s[i]
<1>1. PICK S : s \in Seq(S)  BY DEF IsList
<1>2. PICK T : T = S \cup {x}  OBVIOUS
<1>3. s \in Seq(T) /\ x \in T  BY <1>1, <1>2, SeqMonotonic
<1>4. Append(s, x) \in Seq(T) /\ Len(s) \in Nat /\ Len(Append(s, x)) = Len(s) + 1  BY <1>3
<1>5. DOMAIN s = 1..Len(s) /\ DOMAIN Append(s, x) = 1..Len(s) + 1  BY <1>3, <1>4
<1>6. Append(s, x)[Len(s) + 1] = x /\ \A i \in 1..Len(s) : Append(s, x)[i] = s[i]  BY <1>3, <1>4
<1>. QED  BY <1>4, <1>5, <1>6 DEF IsList

LEMMA EmptyList == IsList(<< >>) /\ Len(<< >>) = 0
<1>1. << >> \in Seq({})  OBVIOUS
<1>. QED  BY <1>1 DEF IsList

-----------------------------------------------------------------------------
(* The record of a round, and what the handlers make of it.                *)

IsPlayer(q) ==
  /\ q = [hand |-> q.hand, melds |-> q.melds, nuki_count |-> q.nuki_count,
          score |-> q.score, seat_wind |-> q.seat_wind]
  /\ q.hand \in [Codes -> Int] /\ q.nuki_count \in Int /\ q.score \in Int

IsState(s, P) ==
  /\ s = [kyotaku |-> s.kyotaku, dora_indicators |-> s.dora_indicators,
          dealer |-> s.dealer, players |-> s.players]
  /\ DOMAIN s.players = P /\ s.players = [p \in P |-> s.players[p]]
  /\ \A p \in P : IsPlayer(s.players[p])

IsRound(r, P) ==
  /\ r = [initial |-> r.initial, last |-> r.last, events |-> r.events, results |-> r.results]
  /\ IsState(r.initial, P) /\ IsState(r.last, P)
  /\ IsList(r.events) /\ IsList(r.results)

\* Player p of the last state has become q.
WithPlayer(r, p, q) ==
  [initial |-> r.initial,
   last |-> [kyotaku |-> r.last.kyotaku, dora_indicators |-> r.last.dora_indicators,
             dealer |-> r.last.dealer, players |-> [r.last.players EXCEPT ![p] = q]],
   events |-> r.events, results |-> r.results]

LEMMA WithPlayerRound ==
  ASSUME NEW P, NEW r, IsRound(r, P), NEW p \in P, NEW q, IsPlayer(q)
  PROVE  IsRound(WithPlayer(r, p, q), P)
<1>1. PICK s : s = WithPlayer(r, p, q)  OBVIOUS
<1>2. /\ s = [initial |-> s.initial, last |-> s.last, events |-> s.events, results |-> s.results]
      /\ s.initial = r.initial /\ s.events = r.events /\ s.results = r.results
  BY <1>1 DEF WithPlayer
<1>3. /\ s.last = [kyotaku |-> s.last.kyotaku, dora_indicators |-> s.last.dora_indicators,
                   dealer |-> s.last.dealer, players |-> s.last.players]
      /\ s.last.players = [r.last.players EXCEPT ![p] = q]
  BY <1>1 DEF WithPlayer
<1>4. IsState(r.last, P) /\ IsState(r.initial, P) /\ IsList(r.events) /\ IsList(r.results)  BY DEF IsRound
<1>5. /\ DOMAIN s.last.players = P
      /\ \A i \in P : s.last.players[i] = IF i = p THEN q ELSE r.last.players[i]
  BY <1>3, <1>4 DEF IsState
<1>6. s.last.players = [i \in P |-> s.last.players[i]]
  <2>1. s.last.players = [i \in DOMAIN r.last.players |-> IF i = p THEN q ELSE r.last.players[i]]  BY <1>3
  <2>2. DOMAIN r.last.players = P  BY <1>4 DEF IsState
  <2>. QED  BY <1>5, <2>1, <2>2
<1>7. \A i \in P : IsPlayer(s.last.players[i])
  <2>1. \A i \in P : IsPlayer(r.last.players[i])  BY <1>4, Zenon DEF IsState
  <2>. QED  BY <1>5, <2>1, Zenon
<1>8. IsState(s.last, P)  BY <1>3, <1>5, <1>6, <1>7, Zenon DEF IsState
<1>. QED  BY <1>1, <1>2, <1>4, <1>8, Zenon DEF IsRound

\* A list of codes, and how often a code is in it.
Times(tiles, c) == Cardinality({i \in DOMAIN tiles : tiles[i] = c})

WithHand(q, h) ==
  [hand |-> h, melds |-> q.melds, nuki_count |-> q.nuki_count, score |-> q.score, seat_wind |-> q.seat_wind]

LEMMA AddTileIs ==
  ASSUME NEW P, NEW r, IsRound(r, P), NEW p \in P, NEW x
  PROVE  LET q == r.last.players[p]
             h == [c \in Codes |-> q.hand[c] + IF c = x THEN 1 ELSE 0]
         IN  /\ add_tile(r, p, x) = WithPlayer(r, p, WithHand(q, h))
             /\ IsPlayer(q) /\ IsPlayer(WithHand(q, h))
<1>1. PICK q : q = r.last.players[p]  OBVIOUS
<1>2. IsState(r.last, P) /\ IsPlayer(q)  BY <1>1 DEF IsRound, IsState
<1>3. PICK h : h = [c \in Codes |-> q.hand[c] + IF c = x THEN 1 ELSE 0]  OBVIOUS
<1>4. [q.hand EXCEPT ![x] = @ + 1] = h  BY <1>2, <1>3 DEF IsPlayer
<1>5. PICK t : t = [q EXCEPT !.hand[x] = @ + 1]  OBVIOUS
<1>6. t = WithHand(q, h)  BY <1>2, <1>4, <1>5 DEF IsPlayer, WithHand
<1>7. add_tile(r, p, x) = [r EXCEPT !.last.players[p] = t]
  BY <1>1, <1>5, Zenon DEF add_tile, OnPlayer
<1>8. [r EXCEPT !.last.players[p] = t] = WithPlayer(r, p, t)
  BY <1>2 DEF WithPlayer, IsRound, IsState
<1>9. IsPlayer(t)
  <2>1. h \in [Codes -> Int]  BY <1>2, <1>3 DEF IsPlayer
  <2>. QED  BY <1>2, <1>6, <2>1 DEF IsPlayer, WithHand
<1>. QED  BY <1>1, <1>2, <1>3, <1>6, <1>7, <1>8, <1>9

\* Tiles whose number can be taken from a count.
Countable(tiles) == \A c \in Codes : Times(tiles, c) \in Nat

LEMMA ListCountable == ASSUME NEW tiles, IsList(tiles)  PROVE Countable(tiles)
<1>1. PICK S : tiles \in Seq(S)  BY DEF IsList
<1>2. IsFiniteSet(DOMAIN tiles)
  <2>1. DOMAIN tiles = 1..Len(tiles) /\ Len(tiles) \in Nat  BY <1>1
  <2>. QED  BY <2>1, FS_Interval
<1>3. \A c : {i \in DOMAIN tiles : tiles[i] = c} \subseteq DOMAIN tiles  OBVIOUS
<1>. QED  BY <1>2, <1>3, FS_Subset, FS_CardinalityType DEF Countable, Times

LEMMA RemoveTilesIs ==
  ASSUME NEW P, NEW r, IsRound(r, P), NEW p \in P, NEW tiles, Countable(tiles)
  PROVE  LET q == r.last.players[p]
             h == [c \in Codes |-> q.hand[c] - Times(tiles, c)]
         IN  /\ remove_tiles(r, p, tiles) = WithPlayer(r, p, WithHand(q, h))
             /\ IsPlayer(q) /\ IsPlayer(WithHand(q, h))
<1>1. PICK q : q = r.last.players[p]  OBVIOUS
<1>2. IsState(r.last, P) /\ IsPlayer(q)  BY <1>1 DEF IsRound, IsState
<1>3. PICK h : h = [c \in Codes |-> q.hand[c] - Times(tiles, c)]  OBVIOUS
<1>4. PICK t : t = [q EXCEPT !.hand = [c \in Codes |-> @[c] - Cardinality({i \in DOMAIN tiles : tiles[i] = c})]]
  OBVIOUS
<1>5. t = [q EXCEPT !.hand = [c \in Codes |-> @[c] - Times(tiles, c)]]  BY <1>4, Zenon DEF Times
<1>6. t = WithHand(q, h)  BY <1>2, <1>3, <1>5 DEF IsPlayer, WithHand
<1>7. remove_tiles(r, p, tiles) = [r EXCEPT !.last.players[p] = t]
  BY <1>1, <1>4, Zenon DEF remove_tiles, OnPlayer
<1>8. [r EXCEPT !.last.players[p] = t] = WithPlayer(r, p, t)
  BY <1>2 DEF WithPlayer, IsRound, IsState
<1>9. IsPlayer(t)
  <2>1. h \in [Codes -> Int]  BY <1>2, <1>3 DEF IsPlayer, Countable
  <2>. QED  BY <1>2, <1>6, <2>1 DEF IsPlayer, WithHand
<1>. QED  BY <1>1, <1>2, <1>3, <1>6, <1>7, <1>8, <1>9

\* A second change of the same player.
LEMMA OnPlayerIs ==
  ASSUME NEW P, NEW r, IsRound(r, P), NEW p \in P, NEW q, NEW t, NEW s, s = WithPlayer(r, p, q)
  PROVE  [s EXCEPT !.last.players[p] = t] = WithPlayer(r, p, t)
<1>1. PICK f : f = r.last.players  OBVIOUS
<1>2. f = [i \in P |-> f[i]]  BY <1>1 DEF IsRound, IsState
<1>3. PICK g : g = [f EXCEPT ![p] = q]  OBVIOUS
<1>4. PICK h : h = [f EXCEPT ![p] = t]  OBVIOUS
<1>5. [g EXCEPT ![p] = t] = h  BY <1>2, <1>3, <1>4
<1>6. s = [initial |-> r.initial,
           last |-> [kyotaku |-> r.last.kyotaku, dora_indicators |-> r.last.dora_indicators,
                     dealer |-> r.last.dealer, players |-> g],
           events |-> r.events, results |-> r.results]
  BY <1>1, <1>3, Zenon DEF WithPlayer
<1>7. WithPlayer(r, p, t) = [initial |-> r.initial,
           last |-> [kyotaku |-> r.last.kyotaku, dora_indicators |-> r.last.dora_indicators,
                     dealer |-> r.last.dealer, players |-> h],
           events |-> r.events, results |-> r.results]
  BY <1>1, <1>4, Zenon DEF WithPlayer
<1>8. [s EXCEPT !.last.players[p] = t]
        = [initial |-> r.initial,
           last |-> [kyotaku |-> r.last.kyotaku, dora_indicators |-> r.last.dora_indicators,
                     dealer |-> r.last.dealer, players |-> [g EXCEPT ![p] = t]],
           events |-> r.events, results |-> r.results]
  BY ONLY <1>6
<1>. QED  BY <1>5, <1>7, <1>8, Zenon

WithNuki(q, h) ==
  [hand |-> h, melds |-> q.melds, nuki_count |-> q.nuki_count + 1, score |-> q.score, seat_wind |-> q.seat_wind]
WithMeld(q, h, meld) ==
  [hand |-> h, melds |-> Append(q.melds, meld), nuki_count |-> q.nuki_count, score |-> q.score,
   seat_wind |-> q.seat_wind]

LEMMA NukiIs ==
  ASSUME NEW P, NEW r, IsRound(r, P), NEW p \in P
  PROVE  LET q == r.last.players[p]
             h == [c \in Codes |-> q.hand[c] - IF c = North THEN 1 ELSE 0]
         IN  /\ apply_nuki_event(r, p) = WithPlayer(r, p, WithNuki(q, h))
             /\ IsPlayer(q) /\ IsPlayer(WithNuki(q, h))
<1>1. PICK q : q = r.last.players[p]  OBVIOUS
<1>2. PICK g : g = [c \in Codes |-> q.hand[c] - Times(<<North>>, c)]  OBVIOUS
<1>3. ASSUME NEW c  PROVE Times(<<North>>, c) = IF c = North THEN 1 ELSE 0
  <2>1. c = North => {i \in DOMAIN <<North>> : <<North>>[i] = c} = {1}  OBVIOUS
  <2>2. c # North => {i \in DOMAIN <<North>> : <<North>>[i] = c} = {}  OBVIOUS
  <2>3. Cardinality({1}) = 1 /\ Cardinality({}) = 0  BY FS_Singleton, FS_EmptySet
  <2>. QED  BY <2>1, <2>2, <2>3, Zenon DEF Times
<1>4. PICK h : h = [c \in Codes |-> q.hand[c] - IF c = North THEN 1 ELSE 0]  OBVIOUS
<1>5. g = h  BY <1>2, <1>3, <1>4
<1>6. Countable(<<North>>)  BY <1>3 DEF Countable
<1>7. PICK s : s = remove_tiles(r, p, <<North>>)  OBVIOUS
<1>8. s = WithPlayer(r, p, WithHand(q, h)) /\ IsPlayer(q) /\ IsPlayer(WithHand(q, h))
  BY <1>1, <1>2, <1>5, <1>6, <1>7, RemoveTilesIs
<1>9. s.last.players[p] = WithHand(q, h)
  <2>1. DOMAIN r.last.players = P  BY DEF IsRound, IsState
  <2>. QED  BY <1>8, <2>1 DEF WithPlayer
<1>10. PICK t : t = [WithHand(q, h) EXCEPT !.nuki_count = @ + 1]  OBVIOUS
<1>11. t = WithNuki(q, h)  BY <1>10 DEF WithHand, WithNuki
<1>12. apply_nuki_event(r, p) = [s EXCEPT !.last.players[p] = t]
  BY <1>7, <1>9, <1>10, Zenon DEF apply_nuki_event, OnPlayer
<1>13. [s EXCEPT !.last.players[p] = t] = WithPlayer(r, p, t)  BY <1>8, OnPlayerIs
<1>14. IsPlayer(WithNuki(q, h))  BY <1>8 DEF IsPlayer, WithHand, WithNuki
<1>. QED  BY <1>1, <1>4, <1>8, <1>11, <1>12, <1>13, <1>14

\* An event has been entered.
Logged(r, event) ==
  [initial |-> r.initial, last |-> r.last, events |-> Append(r.events, event), results |-> r.results]

LEMMA PushIs ==
  ASSUME NEW P, NEW r, IsRound(r, P), NEW event
  PROVE  Push(r, event) = Logged(r, event) /\ IsRound(Logged(r, event), P)
<1>1. Push(r, event) = Logged(r, event)  BY DEF Push, Logged, IsRound
<1>2. PICK s : s = Logged(r, event)  OBVIOUS
<1>3. /\ s = [initial |-> s.initial, last |-> s.last, events |-> s.events, results |-> s.results]
      /\ s.initial = r.initial /\ s.last = r.last /\ s.events = Append(r.events, event) /\ s.results = r.results
  BY <1>2 DEF Logged
<1>4. IsState(r.initial, P) /\ IsState(r.last, P) /\ IsList(r.events) /\ IsList(r.results)  BY Zenon DEF IsRound
<1>5. IsList(s.events)  BY <1>3, <1>4, AppendList
<1>6. IsRound(s, P)  BY <1>3, <1>4, <1>5, Zenon DEF IsRound
<1>. QED  BY <1>1, <1>2, <1>6

-----------------------------------------------------------------------------
(* The tiles of a call.                                                    *)

LEMMA FunIsList ==
  ASSUME NEW n \in Nat, NEW f, DOMAIN f = 1..n, f = [i \in 1..n |-> f[i]]
  PROVE  IsList(f) /\ Len(f) = n
<1>1. PICK S : S = {f[i] : i \in 1..n}  OBVIOUS
<1>2. f \in [1..n -> S]  BY <1>1
<1>3. f \in Seq(S) /\ Len(f) = n  BY <1>2
<1>. QED  BY <1>3 DEF IsList

LEMMA ToTilesList ==
  ASSUME NEW ids, NEW n \in Nat, DOMAIN ids = 1..n
  PROVE  IsList(to_tiles(ids))
<1>1. PICK f : f = [i \in DOMAIN ids |-> to_tile(ids[i])]  OBVIOUS
<1>2. DOMAIN f = 1..n /\ f = [i \in 1..n |-> f[i]]  BY <1>1
<1>3. IsList(f)  BY <1>2, FunIsList
<1>. QED  BY <1>1, <1>3 DEF to_tiles

LEMMA RemoveFirstList ==
  ASSUME NEW s, IsList(s), NEW x
  PROVE  IsList(RemoveFirst(s, x))
<1>1. CASE \E i \in 1..Len(s) : s[i] = x
  <2>1. PICK I : I = {i \in 1..Len(s) : s[i] = x}  OBVIOUS
  <2>2. PICK k : k = SelectInSeq(s, LAMBDA v : v = x)  OBVIOUS
  <2>3. I # {}  BY <1>1, <2>1
  <2>4. k = Min(I)  BY <2>1, <2>2, <2>3, Zenon DEF SelectInSeq
  <2>5. PICK S : s \in Seq(S)  BY DEF IsList
  <2>6. k \in 1..Len(s)
    <3>1. Len(s) \in Nat /\ I \in SUBSET Nat  BY <2>1, <2>5
    <3>2. \E m \in I : \A n \in I : m <= n
      <4>1. IsWellFoundedOn(OpToRel(<, Nat), Nat)  BY NatLessThanWellFounded
      <4>2. PICK m \in I : \A n \in I : ~ (<<n, m>> \in OpToRel(<, Nat))  BY <2>3, <3>1, <4>1, WFMin
      <4>3. \A n \in I : ~ (n < m)  BY <3>1, <4>2 DEF OpToRel
      <4>. QED  BY <3>1, <4>3
    <3>3. Min(I) \in I  BY <3>2 DEF Min
    <3>. QED  BY <2>1, <2>4, <3>3
  <2>7. PICK a, b : a = SubSeq(s, 1, k - 1) /\ b = SubSeq(s, k + 1, Len(s))  OBVIOUS
  <2>8. a \in Seq(S) /\ b \in Seq(S)  BY <2>5, <2>6, <2>7, SubSeqProperties
  <2>9. a \o b \in Seq(S)  BY <2>8
  <2>10. RemoveFirst(s, x) = a \o b  BY <1>1, <2>2, <2>7, Zenon DEF RemoveFirst, RemoveAt
  <2>. QED  BY <2>9, <2>10 DEF IsList
<1>2. CASE ~ \E i \in 1..Len(s) : s[i] = x
  <2>1. RemoveFirst(s, x) = s  BY <1>2, Zenon DEF RemoveFirst
  <2>. QED  BY <2>1
<1>. QED  BY <1>1, <1>2

LEMMA DecodedTiles ==
  ASSUME NEW v, ~is_nuki(v)
  PROVE  IsList(decode_meld(v).tiles)
<1>1. ASSUME NEW type, NEW ids, NEW called, NEW n \in Nat, DOMAIN ids = 1..n
      PROVE  IsList(Meld(type, ids, called, v).tiles)
  <2>1. Meld(type, ids, called, v).tiles = to_tiles(ids)  BY DEF Meld
  <2>. QED  BY <1>1, <2>1, ToTilesList
<1>2. ASSUME NEW b  PROVE DOMAIN FourFrom(b) = 1..4  BY DEF FourFrom
<1>3. IsList(decode_chi(v).tiles)
  <2>1. PICK encoded : encoded = Bits(v, 10, 6)  OBVIOUS
  <2>2. PICK base : base = (((encoded \div 3) \div 7) * 9 + ((encoded \div 3) % 7)) * 4  OBVIOUS
  <2>3. PICK ids : ids = << base + Bits(v, 3, 2), base + 4 + Bits(v, 5, 2), base + 8 + Bits(v, 7, 2) >>  OBVIOUS
  <2>4. DOMAIN ids = 1..3  BY <2>3
  <2>5. decode_chi(v) = Meld("Chi", ids, to_tile(ids[(encoded % 3) + 1]), v)
    BY <2>1, <2>2, <2>3, Zenon DEF decode_chi
  <2>. QED  BY <1>1, <2>4, <2>5
<1>4. IsList(decode_pon(v).tiles)
  <2>1. PICK encoded : encoded = Bits(v, 9, 7)  OBVIOUS
  <2>2. PICK base : base = (encoded \div 3) * 4  OBVIOUS
  <2>3. PICK ids : ids = [i \in 1..3 |-> base + (IF i <= Bits(v, 5, 2) THEN i - 1 ELSE i)]  OBVIOUS
  <2>4. DOMAIN ids = 1..3  BY <2>3
  <2>5. decode_pon(v) = Meld("Pon", ids, to_tile(ids[(encoded % 3) + 1]), v)
    BY <2>1, <2>2, <2>3, Zenon DEF decode_pon
  <2>. QED  BY <1>1, <2>4, <2>5
<1>5. IsList(decode_kakan(v).tiles)
  <2>1. PICK base : base = (Bits(v, 9, 7) \div 3) * 4  OBVIOUS
  <2>2. decode_kakan(v) = Meld("Kakan", FourFrom(base), to_tile(base + Bits(v, 5, 2)), v)
    BY <2>1, Zenon DEF decode_kakan
  <2>. QED  BY <1>1, <1>2, <2>2
<1>6. IsList(decode_kan(v).tiles)
  <2>1. PICK raw : raw = Bits(v, 8, 8)  OBVIOUS
  <2>2. PICK base : base = raw - (raw % 4)  OBVIOUS
  <2>3. \/ decode_kan(v) = Meld("Ankan", FourFrom(base), Null, v)
        \/ decode_kan(v) = Meld("Daiminkan", FourFrom(base), to_tile(raw), v)
    BY <2>1, <2>2, Zenon DEF decode_kan
  <2>. QED  BY <1>1, <1>2, <2>3
<1>. QED  BY <1>3, <1>4, <1>5, <1>6 DEF decode_meld

LEMMA CallCountable ==
  ASSUME NEW v, ~is_nuki(v)
  PROVE  Countable(meld_tiles_in_hand(decode_meld(v)))
<1>1. PICK meld : meld = decode_meld(v) /\ IsList(meld.tiles)  BY DecodedTiles
<1>2. PICK ts : ts = meld_tiles_in_hand(meld)  OBVIOUS
<1>3. \/ ts = meld.tiles \/ ts = <<meld.discarded_tile>> \/ ts = RemoveFirst(meld.tiles, meld.discarded_tile)
  BY <1>2 DEF meld_tiles_in_hand
<1>4. IsList(<<meld.discarded_tile>>)
  <2>1. <<meld.discarded_tile>> \in Seq({meld.discarded_tile})  OBVIOUS
  <2>. QED  BY <2>1 DEF IsList
<1>5. IsList(ts)  BY <1>1, <1>3, <1>4, RemoveFirstList
<1>. QED  BY <1>1, <1>2, <1>5, ListCountable

-----------------------------------------------------------------------------
(* Folding a list from the left: one step for each item.  The folds of     *)
(* the game's properties and of decode_melds share the argument, so a step *)
(* is named by the kind of fold.                                           *)

FoldStep(k, acc, x) ==
  IF k = "add" THEN acc + x ELSE IF k = "event" THEN AfterEvent(acc, x) ELSE Decoded(acc, x)

Folds(h, k, base, s, n) ==
  h = [T \in SUBSET (1..n) |->
         IF T = {} THEN base ELSE FoldStep(k, h[T \ {Max(T)}], s[Max(T)])]

\* A non-empty set of naturals has a least element.
LEMMA LeastOf ==
  ASSUME NEW S \in SUBSET Nat, S # {}
  PROVE  \E m \in S : \A x \in S : m <= x
<1>1. IsWellFoundedOn(OpToRel(<, Nat), Nat)  BY NatLessThanWellFounded
<1>2. PICK m \in S : \A x \in S : ~ (<<x, m>> \in OpToRel(<, Nat))  BY <1>1, WFMin
<1>3. ASSUME NEW x \in S  PROVE m <= x
  <2>1. <<x, m>> \in Nat \X Nat /\ <<x, m>>[1] = x /\ <<x, m>>[2] = m  OBVIOUS
  <2>2. ~ (x < m)  BY <1>2, <2>1 DEF OpToRel
  <2>. QED  BY <2>1, <2>2
<1>. QED  BY <1>3

LEMMA MaxOf ==
  ASSUME NEW n \in Nat, NEW T \in SUBSET (1..n)
  PROVE  /\ T # {} => Max(T) \in T /\ \A x \in T : x <= Max(T)
         /\ n \in T => Max(T) = n
<1>1. ASSUME n \in T  PROVE Max(T) = n
  <2>1. \A y \in T : n >= y  OBVIOUS
  <2>2. \A x \in T : (\A y \in T : x >= y) => x = n  BY <1>1
  <2>. QED  BY <1>1, <2>1, <2>2 DEF Max
<1>2. ASSUME T # {}  PROVE Max(T) \in T /\ \A x \in T : x <= Max(T)
  <2>1. PICK D : D = {n - x : x \in T}  OBVIOUS
  <2>2. \A x \in T : n - x \in Nat  OBVIOUS
  <2>3. D \in SUBSET Nat /\ D # {}  BY <1>2, <2>1, <2>2
  <2>4. PICK m \in D : \A x \in D : m <= x
    <3>. QED  BY <2>3, LeastOf
  <2>5. \A x \in D : ~ (x < m)  BY <2>3, <2>4
  <2>6. PICK t \in T : m = n - t  BY <2>1, <2>4
  <2>7. \A x \in T : t >= x
    <3>1. \A x \in T : n - x \in D  BY <2>1
    <3>. QED  BY <2>5, <2>6, <3>1
  <2>8. \E x \in T : \A y \in T : x >= y  BY <2>7
  <2>9. Max(T) \in T /\ \A y \in T : Max(T) >= y  BY <2>8 DEF Max
  <2>. QED  BY <2>9
<1>. QED  BY <1>1, <1>2

LEMMA FoldsExist ==
  ASSUME NEW k, NEW base, NEW s
  PROVE  \A n \in Nat : \E h : Folds(h, k, base, s, n)
<1>1. SUFFICES ASSUME \E n \in Nat : ~ \E h : Folds(h, k, base, s, n)  PROVE FALSE  OBVIOUS
<1>. DEFINE F == {n \in Nat : ~ \E h : Folds(h, k, base, s, n)}
<1>2. F \in SUBSET Nat /\ F # {}  BY <1>1
<1>3. PICK n \in F : \A m \in F : n <= m
  <2>. HIDE DEF F
  <2>. QED  BY <1>2, LeastOf
<1>4. n \in Nat /\ ~ \E h : Folds(h, k, base, s, n)  BY <1>3
<1>5. n # 0
  <2>1. SUFFICES ASSUME n = 0 PROVE FALSE  OBVIOUS
  <2>2. \A T \in SUBSET (1..0) : T = {}  OBVIOUS
  <2>3. PICK h : h = [T \in SUBSET (1..0) |-> base]  OBVIOUS
  <2>4. h = [T \in SUBSET (1..0) |-> IF T = {} THEN base ELSE FoldStep(k, h[T \ {Max(T)}], s[Max(T)])]
    BY <2>2, <2>3, Zenon
  <2>5. Folds(h, k, base, s, 0)  BY <2>4, Zenon DEF Folds
  <2>. QED  BY <1>4, <2>1, <2>5
<1>6. n - 1 \in Nat /\ ~(n <= n - 1)  BY <1>4, <1>5
<1>7. PICK g : Folds(g, k, base, s, n - 1)
  <2>1. n - 1 \notin F
    <3>. HIDE DEF F
    <3>. QED  BY <1>3, <1>6
  <2>. QED  BY <1>6, <2>1
<1>8. PICK h : h = [T \in SUBSET (1..n) |-> IF n \in T THEN FoldStep(k, g[T \ {n}], s[n]) ELSE g[T]]  OBVIOUS
<1>9. ASSUME NEW T \in SUBSET (1..n)
      PROVE  h[T] = IF T = {} THEN base ELSE FoldStep(k, h[T \ {Max(T)}], s[Max(T)])
  <2>1. CASE n \in T
    <3>1. Max(T) = n /\ T # {}  BY <1>4, <2>1, MaxOf
    <3>2. T \ {n} \in SUBSET (1..n) /\ n \notin T \ {n}  OBVIOUS
    <3>3. h[T \ {n}] = g[T \ {n}]  BY <1>8, <3>2
    <3>4. h[T] = FoldStep(k, g[T \ {n}], s[n])  BY <1>8, <2>1
    <3>. QED  BY <3>1, <3>3, <3>4, Zenon
  <2>2. CASE n \notin T
    <3>1. T \in SUBSET (1..(n - 1))  BY <1>4, <1>5, <2>2
    <3>2. T \ {Max(T)} \in SUBSET (1..n) /\ n \notin T \ {Max(T)}  BY <2>2
    <3>3. h[T] = g[T] /\ h[T \ {Max(T)}] = g[T \ {Max(T)}]  BY <1>8, <2>2, <3>2
    <3>4. g[T] = IF T = {} THEN base ELSE FoldStep(k, g[T \ {Max(T)}], s[Max(T)])
      BY <1>7, <3>1, Zenon DEF Folds
    <3>. QED  BY <3>3, <3>4, Zenon
  <2>. QED  BY <2>1, <2>2
<1>10. h = [T \in SUBSET (1..n) |-> h[T]]  BY <1>8
<1>11. [T \in SUBSET (1..n) |-> h[T]]
         = [T \in SUBSET (1..n) |-> IF T = {} THEN base ELSE FoldStep(k, h[T \ {Max(T)}], s[Max(T)])]
  BY <1>9, Zenon
<1>12. Folds(h, k, base, s, n)  BY <1>10, <1>11, Zenon DEF Folds
<1>. QED  BY <1>4, <1>12

Steps(h, k, base, s, n) ==
  h[1..0] = base /\ \A i \in 1..n : h[1..i] = FoldStep(k, h[1..(i - 1)], s[i])

LEMMA FoldsStep ==
  ASSUME NEW k, NEW base, NEW s, NEW n \in Nat, NEW h, Folds(h, k, base, s, n)
  PROVE  Steps(h, k, base, s, n)
<1>1. ASSUME NEW T \in SUBSET (1..n)
      PROVE  h[T] = IF T = {} THEN base ELSE FoldStep(k, h[T \ {Max(T)}], s[Max(T)])
  BY <1>1, Zenon DEF Folds
<1>2. 1..0 = {} /\ {} \in SUBSET (1..n)  OBVIOUS
<1>3. ASSUME NEW i \in 1..n  PROVE h[1..i] = FoldStep(k, h[1..(i - 1)], s[i])
  <2>1. PICK T : T = 1..i  OBVIOUS
  <2>2. T \in SUBSET (1..n) /\ T \in SUBSET (1..i) /\ T # {} /\ i \in T /\ i \in Nat  BY <2>1
  <2>3. Max(T) = i  BY <2>2, MaxOf
  <2>4. T \ {i} = 1..(i - 1)  BY <2>1
  <2>. QED  BY <1>1, <2>1, <2>2, <2>3, <2>4, Zenon
<1>. QED  BY <1>1, <1>2, <1>3, Zenon DEF Steps

\* A longer list is folded like the shorter one, and then one step more.
LEMMA FoldsAppend ==
  ASSUME NEW k, NEW base, NEW s, IsList(s), NEW x,
         NEW h, Folds(h, k, base, s, Len(s)),
         NEW g, Folds(g, k, base, Append(s, x), Len(s) + 1)
  PROVE  g[1..(Len(s) + 1)] = FoldStep(k, h[1..Len(s)], x)
<1>1. PICK n, t : n = Len(s) /\ t = Append(s, x)  OBVIOUS
<1>2. n \in Nat /\ t[n + 1] = x /\ \A i \in 1..n : t[i] = s[i]  BY <1>1, AppendList
<1>3. h[1..0] = base /\ \A i \in 1..n : h[1..i] = FoldStep(k, h[1..(i - 1)], s[i])
  <2>1. Folds(h, k, base, s, n)  BY <1>1
  <2>2. Steps(h, k, base, s, n)  BY <1>2, <2>1, FoldsStep, Zenon
  <2>. QED  BY <2>2, Zenon DEF Steps
<1>4. Folds(g, k, base, t, n + 1)  BY <1>1
<1>5. n + 1 \in Nat  BY <1>2
<1>6. g[1..0] = base /\ \A i \in 1..(n + 1) : g[1..i] = FoldStep(k, g[1..(i - 1)], t[i])
  <2>1. Steps(g, k, base, t, n + 1)  BY <1>4, <1>5, FoldsStep, Zenon
  <2>. QED  BY <2>1, Zenon DEF Steps
<1>. DEFINE F == {i \in 0..n : g[1..i] # h[1..i]}
<1>7. F = {}
  <2>1. SUFFICES ASSUME F # {} PROVE FALSE  OBVIOUS
  <2>2. F \in SUBSET Nat  BY <1>2
  <2>3. PICK i \in F : \A m \in F : i <= m
    <3>. HIDE DEF F
    <3>. QED  BY <2>1, <2>2, LeastOf
  <2>4. i \in 0..n /\ g[1..i] # h[1..i]  BY <2>3
  <2>5. i # 0  BY <1>3, <1>6, <2>4, Zenon
  <2>6. i - 1 \in 0..n /\ ~(i <= i - 1) /\ i \in 1..n /\ i \in 1..(n + 1)  BY <1>2, <2>4, <2>5
  <2>7. i - 1 \notin F
    <3>. HIDE DEF F
    <3>. QED  BY <2>3, <2>6
  <2>8. g[1..(i - 1)] = h[1..(i - 1)]  BY <2>6, <2>7
  <2>9. t[i] = s[i]  BY <1>2, <2>6
  <2>10. g[1..i] = FoldStep(k, g[1..(i - 1)], t[i]) /\ h[1..i] = FoldStep(k, h[1..(i - 1)], s[i])
    BY <1>3, <1>6, <2>6
  <2>. QED  BY <2>4, <2>8, <2>9, <2>10, Zenon
<1>8. g[1..n] = h[1..n]
  <2>1. n \in 0..n  BY <1>2
  <2>. QED  BY <1>7, <2>1
<1>9. n + 1 \in 1..(n + 1) /\ (n + 1) - 1 = n  BY <1>2
<1>10. g[1..(n + 1)] = FoldStep(k, g[1..((n + 1) - 1)], t[n + 1])  BY <1>6, <1>9
<1>. QED  BY <1>1, <1>2, <1>8, <1>9, <1>10, Zenon

LEMMA FoldAddDef ==
  ASSUME NEW base, NEW s
  PROVE  FoldLeft(+, base, s)
           = (CHOOSE h : h = [T \in SUBSET (DOMAIN s) |->
                                IF T = {} THEN base ELSE h[T \ {Max(T)}] + s[Max(T)]])[DOMAIN s]
BY Zenon DEF FoldLeft, MapThenFoldSet

LEMMA FoldEventsDef ==
  ASSUME NEW base, NEW s
  PROVE  FoldLeft(AfterEvent, base, s)
           = (CHOOSE h : h = [T \in SUBSET (DOMAIN s) |->
                                IF T = {} THEN base ELSE AfterEvent(h[T \ {Max(T)}], s[Max(T)])])[DOMAIN s]
BY Zenon DEF FoldLeft, MapThenFoldSet

LEMMA FoldIs ==
  ASSUME NEW base, NEW s, IsList(s)
  PROVE  /\ \E h : Folds(h, "add", base, s, Len(s)) /\ FoldLeft(+, base, s) = h[1..Len(s)]
         /\ \E h : Folds(h, "event", base, s, Len(s)) /\ FoldLeft(AfterEvent, base, s) = h[1..Len(s)]
<1>1. PICK n : n = Len(s)  OBVIOUS
<1>2. n \in Nat /\ DOMAIN s = 1..n  BY <1>1, AppendList
<1>. DEFINE A(h) == h = [T \in SUBSET (1..n) |-> IF T = {} THEN base ELSE h[T \ {Max(T)}] + s[Max(T)]]
            E(h) == h = [T \in SUBSET (1..n) |->
                           IF T = {} THEN base ELSE AfterEvent(h[T \ {Max(T)}], s[Max(T)])]
<1>3. \A acc, x : FoldStep("add", acc, x) = acc + x /\ FoldStep("event", acc, x) = AfterEvent(acc, x)
  BY DEF FoldStep
<1>4. \A h : A(h) <=> Folds(h, "add", base, s, n)  BY <1>3, Zenon DEF Folds
<1>5. \A h : E(h) <=> Folds(h, "event", base, s, n)  BY <1>3, Zenon DEF Folds
<1>6. \E h : Folds(h, "add", base, s, n)  BY <1>2, FoldsExist
<1>7. \E h : Folds(h, "event", base, s, n)  BY <1>2, FoldsExist
<1>8. FoldLeft(+, base, s) = (CHOOSE h : A(h))[1..n]
  <2>1. FoldLeft(+, base, s)
           = (CHOOSE h : h = [T \in SUBSET (DOMAIN s) |->
                                IF T = {} THEN base ELSE h[T \ {Max(T)}] + s[Max(T)]])[DOMAIN s]
    BY FoldAddDef
  <2>. QED  BY <1>2, <2>1, Zenon
<1>9. FoldLeft(AfterEvent, base, s) = (CHOOSE h : E(h))[1..n]
  <2>1. FoldLeft(AfterEvent, base, s)
           = (CHOOSE h : h = [T \in SUBSET (DOMAIN s) |->
                                IF T = {} THEN base ELSE AfterEvent(h[T \ {Max(T)}], s[Max(T)])])[DOMAIN s]
    BY FoldEventsDef
  <2>. QED  BY <1>2, <2>1, Zenon
<1>. HIDE DEF A, E
<1>10. A(CHOOSE h : A(h)) /\ E(CHOOSE h : E(h))  BY <1>4, <1>5, <1>6, <1>7, Zenon
<1>. QED  BY <1>1, <1>4, <1>5, <1>8, <1>9, <1>10, Zenon

\* The two folds: the points of a list added up, and the events of a round applied.
Added(base, s) == FoldLeft(+, base, s)
Replayed(base, events) == FoldLeft(AfterEvent, base, events)

LEMMA FoldAppend ==
  ASSUME NEW base, NEW s, IsList(s), NEW x
  PROVE  /\ Added(base, Append(s, x)) = Added(base, s) + x
         /\ Replayed(base, Append(s, x)) = AfterEvent(Replayed(base, s), x)
<1>0. ASSUME NEW k, NEW h, Folds(h, k, base, s, Len(s)), NEW g, Folds(g, k, base, Append(s, x), Len(s) + 1)
      PROVE  g[1..(Len(s) + 1)] = FoldStep(k, h[1..Len(s)], x)
  BY <1>0, FoldsAppend
<1>1. PICK t : t = Append(s, x)  OBVIOUS
<1>2. IsList(t) /\ Len(t) = Len(s) + 1  BY <1>1, AppendList
<1>3. PICK h : Folds(h, "add", base, s, Len(s)) /\ FoldLeft(+, base, s) = h[1..Len(s)]  BY FoldIs, Zenon
<1>4. PICK g : Folds(g, "add", base, t, Len(t)) /\ FoldLeft(+, base, t) = g[1..Len(t)]  BY <1>2, FoldIs, Zenon
<1>5. Folds(g, "add", base, Append(s, x), Len(s) + 1)  BY <1>1, <1>2, <1>4, Zenon
<1>6. g[1..(Len(s) + 1)] = FoldStep("add", h[1..Len(s)], x)  BY <1>0, <1>3, <1>5, Zenon
<1>7. FoldLeft(+, base, t) = FoldLeft(+, base, s) + x  BY <1>2, <1>3, <1>4, <1>6, Zenon DEF FoldStep
<1>8. PICK u : Folds(u, "event", base, s, Len(s)) /\ FoldLeft(AfterEvent, base, s) = u[1..Len(s)]
  BY FoldIs, Zenon
<1>9. PICK v : Folds(v, "event", base, t, Len(t)) /\ FoldLeft(AfterEvent, base, t) = v[1..Len(t)]
  BY <1>2, FoldIs, Zenon
<1>10. Folds(v, "event", base, Append(s, x), Len(s) + 1)  BY <1>1, <1>2, <1>9, Zenon
<1>11. v[1..(Len(s) + 1)] = FoldStep("event", u[1..Len(s)], x)  BY <1>0, <1>8, <1>10, Zenon
<1>12. "event" # "add"  OBVIOUS
<1>13. FoldLeft(AfterEvent, base, t) = AfterEvent(FoldLeft(AfterEvent, base, s), x)
  BY <1>2, <1>8, <1>9, <1>11, <1>12, Zenon DEF FoldStep
<1>. QED  BY <1>1, <1>7, <1>13, Zenon DEF Added, Replayed

LEMMA FoldEmpty ==
  ASSUME NEW base
  PROVE  Added(base, << >>) = base /\ Replayed(base, << >>) = base
<1>1. IsList(<< >>) /\ Len(<< >>) = 0  BY EmptyList
<1>2. ASSUME NEW k, NEW h, Folds(h, k, base, << >>, 0)  PROVE h[1..0] = base
  <2>1. Steps(h, k, base, << >>, 0)  BY <1>2, FoldsStep
  <2>. QED  BY <2>1, Zenon DEF Steps
<1>3. PICK h : Folds(h, "add", base, << >>, Len(<< >>)) /\ FoldLeft(+, base, << >>) = h[1..Len(<< >>)]
  BY <1>1, FoldIs, Zenon
<1>4. PICK g : Folds(g, "event", base, << >>, Len(<< >>)) /\ FoldLeft(AfterEvent, base, << >>) = g[1..Len(<< >>)]
  BY <1>1, FoldIs, Zenon
<1>. QED  BY <1>1, <1>2, <1>3, <1>4, Zenon DEF Added, Replayed

-----------------------------------------------------------------------------
(* The handlers of the events of a round, written out.                     *)

LEMMA CallIs ==
  ASSUME NEW P, NEW r, IsRound(r, P), NEW p \in P, NEW meld, Countable(meld_tiles_in_hand(meld))
  PROVE  LET q == r.last.players[p]
             h == [c \in Codes |-> q.hand[c] - Times(meld_tiles_in_hand(meld), c)]
             event == [tag |-> "Call", actor |-> p, meld |-> meld]
         IN  /\ apply_call_event(r, p, meld) = Logged(WithPlayer(r, p, WithMeld(q, h, meld)), event)
             /\ IsPlayer(q) /\ IsPlayer(WithMeld(q, h, meld))
<1>1. PICK q : q = r.last.players[p]  OBVIOUS
<1>2. PICK tiles : tiles = meld_tiles_in_hand(meld)  OBVIOUS
<1>3. PICK h : h = [c \in Codes |-> q.hand[c] - Times(tiles, c)]  OBVIOUS
<1>4. PICK s : s = remove_tiles(r, p, tiles)  OBVIOUS
<1>5. s = WithPlayer(r, p, WithHand(q, h)) /\ IsPlayer(q) /\ IsPlayer(WithHand(q, h))
  BY <1>1, <1>2, <1>3, <1>4, RemoveTilesIs
<1>6. s.last.players[p] = WithHand(q, h)
  <2>1. DOMAIN r.last.players = P  BY DEF IsRound, IsState
  <2>. QED  BY <1>5, <2>1 DEF WithPlayer
<1>7. PICK t : t = [WithHand(q, h) EXCEPT !.melds = Append(@, meld)]  OBVIOUS
<1>8. t = WithMeld(q, h, meld)  BY <1>7 DEF WithHand, WithMeld
<1>9. PICK event : event = [tag |-> "Call", actor |-> p, meld |-> meld]  OBVIOUS
<1>10. apply_call_event(r, p, meld) = Push([s EXCEPT !.last.players[p] = t], event)
  BY <1>2, <1>4, <1>6, <1>7, <1>9, Zenon DEF apply_call_event, OnPlayer
<1>11. [s EXCEPT !.last.players[p] = t] = WithPlayer(r, p, t)  BY <1>5, OnPlayerIs
<1>12. IsPlayer(t)  BY <1>5, <1>8 DEF IsPlayer, WithHand, WithMeld
<1>13. IsRound(WithPlayer(r, p, t), P)  BY <1>12, WithPlayerRound
<1>14. Push(WithPlayer(r, p, t), event) = Logged(WithPlayer(r, p, t), event)  BY <1>13, PushIs
<1>. QED  BY <1>1, <1>2, <1>3, <1>5, <1>8, <1>9, <1>10, <1>11, <1>12, <1>14, Zenon

LEMMA DrawIs ==
  ASSUME NEW P, NEW r, IsRound(r, P), NEW e, e.who \in P
  PROVE  LET q == r.last.players[e.who]
             x == to_tile(e.tile)
             h == [c \in Codes |-> q.hand[c] + IF c = x THEN 1 ELSE 0]
             event == [tag |-> "Draw", actor |-> e.who, tile |-> x]
         IN  /\ apply_draw(r, e) = Logged(WithPlayer(r, e.who, WithHand(q, h)), event)
             /\ IsPlayer(q) /\ IsPlayer(WithHand(q, h))
<1>1. PICK p, x : p = e.who /\ x = to_tile(e.tile)  OBVIOUS
<1>2. PICK q : q = r.last.players[p]  OBVIOUS
<1>3. PICK h : h = [c \in Codes |-> q.hand[c] + IF c = x THEN 1 ELSE 0]  OBVIOUS
<1>4. PICK event : event = [tag |-> "Draw", actor |-> p, tile |-> x]  OBVIOUS
<1>5. p \in P  BY <1>1
<1>6. add_tile(r, p, x) = WithPlayer(r, p, WithHand(q, h)) /\ IsPlayer(q) /\ IsPlayer(WithHand(q, h))
  BY <1>2, <1>3, <1>5, AddTileIs
<1>7. IsRound(WithPlayer(r, p, WithHand(q, h)), P)  BY <1>5, <1>6, WithPlayerRound
<1>8. Push(WithPlayer(r, p, WithHand(q, h)), event) = Logged(WithPlayer(r, p, WithHand(q, h)), event)
  BY <1>7, PushIs
<1>9. apply_draw(r, e) = Push(add_tile(r, p, x), event)  BY <1>1, <1>4, Zenon DEF apply_draw
<1>. QED  BY <1>1, <1>2, <1>3, <1>4, <1>6, <1>8, <1>9, Zenon

LEMMA DiscardIs ==
  ASSUME NEW P, NEW r, IsRound(r, P), NEW e, e.who \in P
  PROVE  LET q == r.last.players[e.who]
             x == to_tile(e.tile)
             h == [c \in Codes |-> q.hand[c] - IF c = x THEN 1 ELSE 0]
             event == [tag |-> "Discard", actor |-> e.who, tile |-> x, tsumogiri |-> FALSE]
         IN  /\ apply_discard(r, e) = Logged(WithPlayer(r, e.who, WithHand(q, h)), event)
             /\ IsPlayer(q) /\ IsPlayer(WithHand(q, h))
<1>1. PICK p, x : p = e.who /\ x = to_tile(e.tile)  OBVIOUS
<1>2. PICK q : q = r.last.players[p]  OBVIOUS
<1>3. PICK g : g = [c \in Codes |-> q.hand[c] - Times(<<x>>, c)]  OBVIOUS
<1>4. PICK event : event = [tag |-> "Discard", actor |-> p, tile |-> x, tsumogiri |-> FALSE]  OBVIOUS
<1>5. p \in P  BY <1>1
<1>6. ASSUME NEW c  PROVE Times(<<x>>, c) = IF c = x THEN 1 ELSE 0
  <2>1. c = x => {i \in DOMAIN <<x>> : <<x>>[i] = c} = {1}  OBVIOUS
  <2>2. c # x => {i \in DOMAIN <<x>> : <<x>>[i] = c} = {}  OBVIOUS
  <2>3. Cardinality({1}) = 1 /\ Cardinality({}) = 0  BY FS_Singleton, FS_EmptySet
  <2>. QED  BY <2>1, <2>2, <2>3, Zenon DEF Times
<1>7. Countable(<<x>>)  BY <1>6 DEF Countable
<1>8. PICK h : h = [c \in Codes |-> q.hand[c] - IF c = x THEN 1 ELSE 0]  OBVIOUS
<1>9. g = h  BY <1>3, <1>6, <1>8
<1>10. remove_tiles(r, p, <<x>>) = WithPlayer(r, p, WithHand(q, g)) /\ IsPlayer(q) /\ IsPlayer(WithHand(q, g))
  BY <1>2, <1>3, <1>5, <1>7, RemoveTilesIs
<1>11. IsRound(WithPlayer(r, p, WithHand(q, h)), P)  BY <1>5, <1>9, <1>10, WithPlayerRound
<1>12. Push(WithPlayer(r, p, WithHand(q, h)), event) = Logged(WithPlayer(r, p, WithHand(q, h)), event)
  BY <1>11, PushIs
<1>13. apply_discard(r, e) = Push(remove_tiles(r, p, <<x>>), event)  BY <1>1, <1>4, Zenon DEF apply_discard
<1>. QED  BY <1>1, <1>2, <1>4, <1>8, <1>9, <1>10, <1>12, <1>13, Zenon

\* The deposits and the indicators on the table have changed.
WithTable(r, deposits, indicators) ==
  [initial |-> r.initial,
   last |-> [kyotaku |-> deposits, dora_indicators |-> indicators,
             dealer |-> r.last.dealer, players |-> r.last.players],
   events |-> r.events, results |-> r.results]

LEMMA WithTableRound ==
  ASSUME NEW P, NEW r, IsRound(r, P), NEW deposits, NEW indicators
  PROVE  IsRound(WithTable(r, deposits, indicators), P)
<1>1. PICK s : s = WithTable(r, deposits, indicators)  OBVIOUS
<1>2. /\ s = [initial |-> s.initial, last |-> s.last, events |-> s.events, results |-> s.results]
      /\ s.initial = r.initial /\ s.events = r.events /\ s.results = r.results
  BY <1>1 DEF WithTable
<1>3. /\ s.last = [kyotaku |-> s.last.kyotaku, dora_indicators |-> s.last.dora_indicators,
                   dealer |-> s.last.dealer, players |-> s.last.players]
      /\ s.last.players = r.last.players
  BY <1>1 DEF WithTable
<1>4. IsState(r.last, P) /\ IsState(r.initial, P) /\ IsList(r.events) /\ IsList(r.results)
  BY Zenon DEF IsRound
<1>5. IsState(s.last, P)  BY <1>3, <1>4, Zenon DEF IsState
<1>. QED  BY <1>1, <1>2, <1>4, <1>5, Zenon DEF IsRound

LEMMA DoraIs ==
  ASSUME NEW P, NEW r, IsRound(r, P), NEW e
  PROVE  apply_dora(r, e)
           = Logged(WithTable(r, r.last.kyotaku, Append(r.last.dora_indicators, to_tile(e.tile))),
                    [tag |-> "DoraOpen", tile |-> to_tile(e.tile)])
<1>1. PICK x, d : x = to_tile(e.tile) /\ d = Append(r.last.dora_indicators, x)  OBVIOUS
<1>2. PICK s : s = [r EXCEPT !.last.dora_indicators = d]  OBVIOUS
<1>3. s = WithTable(r, r.last.kyotaku, d)  BY <1>2 DEF WithTable, IsRound, IsState
<1>4. IsRound(s, P)  BY <1>3, WithTableRound
<1>5. PICK event : event = [tag |-> "DoraOpen", tile |-> x]  OBVIOUS
<1>6. apply_dora(r, e) = Push(s, event)  BY <1>1, <1>2, <1>5, Zenon DEF apply_dora
<1>7. Push(s, event) = Logged(s, event)  BY <1>4, PushIs
<1>. QED  BY <1>1, <1>3, <1>5, <1>6, <1>7, Zenon

LEMMA ReachIs ==
  ASSUME NEW P, NEW r, IsRound(r, P), NEW e
  PROVE  apply_reach(r, e)
           = IF e.step = 2
             THEN Logged(WithTable(r, r.last.kyotaku + 1, r.last.dora_indicators),
                         [tag |-> "Riichi", actor |-> e.who])
             ELSE r
<1>1. CASE e.step = 2
  <2>1. PICK k : k = r.last.kyotaku + 1  OBVIOUS
  <2>2. PICK s : s = [r EXCEPT !.last.kyotaku = k]  OBVIOUS
  <2>3. s = WithTable(r, k, r.last.dora_indicators)  BY <2>2 DEF WithTable, IsRound, IsState
  <2>4. IsRound(s, P)  BY <2>3, WithTableRound
  <2>5. PICK event : event = [tag |-> "Riichi", actor |-> e.who]  OBVIOUS
  <2>6. apply_reach(r, e) = Push(s, event)  BY <1>1, <2>1, <2>2, <2>5, Zenon DEF apply_reach
  <2>7. Push(s, event) = Logged(s, event)  BY <2>4, PushIs
  <2>. QED  BY <1>1, <2>1, <2>3, <2>5, <2>6, <2>7, Zenon
<1>2. CASE e.step # 2  BY <1>2, Zenon DEF apply_reach
<1>. QED  BY <1>1, <1>2

\* A result has been entered, with the event that leads to it.
Ended(r, event, result) ==
  [initial |-> r.initial, last |-> r.last, events |-> Append(r.events, event),
   results |-> Append(r.results, result)]

LEMMA EndedRound ==
  ASSUME NEW P, NEW r, IsRound(r, P), NEW event, NEW result
  PROVE  /\ [Push(r, event) EXCEPT !.results = Append(@, result)] = Ended(r, event, result)
         /\ IsRound(Ended(r, event, result), P)
<1>1. PICK s : s = Logged(r, event)  OBVIOUS
<1>2. Push(r, event) = s /\ IsRound(s, P)  BY <1>1, PushIs
<1>3. [s EXCEPT !.results = Append(@, result)] = Ended(r, event, result)
  <2>1. PICK a, b : a = Append(r.events, event) /\ b = Append(r.results, result)  OBVIOUS
  <2>2. s = [initial |-> r.initial, last |-> r.last, events |-> a, results |-> r.results]
    BY <1>1, <2>1, Zenon DEF Logged
  <2>3. s.results = r.results  BY ONLY <2>2
  <2>4. [s EXCEPT !.results = b] = [initial |-> r.initial, last |-> r.last, events |-> a, results |-> b]
    BY ONLY <2>2
  <2>. QED  BY <2>1, <2>3, <2>4, Zenon DEF Ended
<1>4. PICK t : t = Ended(r, event, result)  OBVIOUS
<1>5. /\ t = [initial |-> t.initial, last |-> t.last, events |-> t.events, results |-> t.results]
      /\ t.initial = r.initial /\ t.last = r.last
      /\ t.events = Append(r.events, event) /\ t.results = Append(r.results, result)
  BY <1>4 DEF Ended
<1>6. IsState(r.last, P) /\ IsState(r.initial, P) /\ IsList(r.events) /\ IsList(r.results)
  BY Zenon DEF IsRound
<1>7. IsList(t.events) /\ IsList(t.results)  BY <1>5, <1>6, AppendList
<1>. QED  BY <1>2, <1>3, <1>4, <1>5, <1>6, <1>7, Zenon DEF IsRound

-----------------------------------------------------------------------------
(* What the events of a round leave alone.                                 *)

\* From r to s, nothing that has to do with points has happened.
Quiet(r, s) ==
  /\ s.initial = r.initial /\ s.results = r.results /\ s.last.kyotaku = r.last.kyotaku
  /\ s.events = r.events \/ \E event : event.tag # "Riichi" /\ s.events = Append(r.events, event)

LEMMA WithPlayerQuiet ==
  ASSUME NEW P, NEW r, NEW p, NEW q, NEW event, event.tag # "Riichi"
  PROVE  Quiet(r, WithPlayer(r, p, q)) /\ Quiet(r, Logged(WithPlayer(r, p, q), event))
<1>1. PICK s : s = WithPlayer(r, p, q)  OBVIOUS
<1>2. /\ s.initial = r.initial /\ s.results = r.results /\ s.events = r.events
      /\ s.last.kyotaku = r.last.kyotaku
  BY <1>1 DEF WithPlayer
<1>3. PICK t : t = Logged(s, event)  OBVIOUS
<1>4. /\ t.initial = s.initial /\ t.last = s.last /\ t.results = s.results
      /\ t.events = Append(s.events, event)
  BY <1>3 DEF Logged
<1>. QED  BY <1>1, <1>2, <1>3, <1>4, Zenon DEF Quiet

LEMMA QuietEvents ==
  ASSUME NEW P, NEW r, IsRound(r, P), NEW e,
         \/ e.tag \in {"draw", "discard", "meld"} /\ e.who \in P
         \/ e.tag = "dora"
         \/ e.tag = "reach" /\ e.step = 1
  PROVE  IsRound(apply_event(r, e), P) /\ Quiet(r, apply_event(r, e))
<1>1. CASE e.tag = "draw" /\ e.who \in P
  <2>1. apply_event(r, e) = apply_draw(r, e)  BY <1>1 DEF apply_event
  <2>2. PICK q, event : /\ apply_draw(r, e) = Logged(WithPlayer(r, e.who, q), event)
                        /\ IsPlayer(q) /\ event.tag = "Draw"
    <3>1. PICK x : x = to_tile(e.tile)  OBVIOUS
    <3>2. PICK event : event = [tag |-> "Draw", actor |-> e.who, tile |-> x]  OBVIOUS
    <3>3. event.tag = "Draw"  BY <3>2
    <3>4. PICK old, h : /\ old = r.last.players[e.who]
                        /\ h = [c \in Codes |-> old.hand[c] + IF c = x THEN 1 ELSE 0]
      OBVIOUS
    <3>5. apply_draw(r, e) = Logged(WithPlayer(r, e.who, WithHand(old, h)), event) /\ IsPlayer(WithHand(old, h))
      BY <1>1, <3>1, <3>2, <3>4, DrawIs
    <3>. QED  BY <3>3, <3>5, Zenon
  <2>3. IsRound(WithPlayer(r, e.who, q), P)  BY <1>1, <2>2, WithPlayerRound
  <2>4. IsRound(Logged(WithPlayer(r, e.who, q), event), P)  BY <2>3, PushIs
  <2>5. event.tag # "Riichi"  BY <2>2
  <2>. QED  BY <2>1, <2>2, <2>4, <2>5, WithPlayerQuiet
<1>2. CASE e.tag = "discard" /\ e.who \in P
  <2>1. apply_event(r, e) = apply_discard(r, e)  BY <1>2 DEF apply_event
  <2>2. PICK q, event : /\ apply_discard(r, e) = Logged(WithPlayer(r, e.who, q), event)
                        /\ IsPlayer(q) /\ event.tag = "Discard"
    <3>1. PICK x : x = to_tile(e.tile)  OBVIOUS
    <3>2. PICK event : event = [tag |-> "Discard", actor |-> e.who, tile |-> x, tsumogiri |-> FALSE]  OBVIOUS
    <3>3. event.tag = "Discard"  BY <3>2
    <3>4. PICK old, h : /\ old = r.last.players[e.who]
                        /\ h = [c \in Codes |-> old.hand[c] - IF c = x THEN 1 ELSE 0]
      OBVIOUS
    <3>5. apply_discard(r, e) = Logged(WithPlayer(r, e.who, WithHand(old, h)), event) /\ IsPlayer(WithHand(old, h))
      BY <1>2, <3>1, <3>2, <3>4, DiscardIs
    <3>. QED  BY <3>3, <3>5, Zenon
  <2>3. IsRound(WithPlayer(r, e.who, q), P)  BY <1>2, <2>2, WithPlayerRound
  <2>4. IsRound(Logged(WithPlayer(r, e.who, q), event), P)  BY <2>3, PushIs
  <2>5. event.tag # "Riichi"  BY <2>2
  <2>. QED  BY <2>1, <2>2, <2>4, <2>5, WithPlayerQuiet
<1>3. CASE e.tag = "meld" /\ e.who \in P /\ is_nuki(e.m)
  <2>1. apply_event(r, e) = apply_nuki_event(r, e.who)  BY <1>3 DEF apply_event, apply_meld
  <2>2. PICK q : apply_nuki_event(r, e.who) = WithPlayer(r, e.who, q) /\ IsPlayer(q)
    BY <1>3, NukiIs
  <2>3. IsRound(WithPlayer(r, e.who, q), P)  BY <1>3, <2>2, WithPlayerRound
  <2>4. PICK event : event = [tag |-> "none"]  OBVIOUS
  <2>5. event.tag # "Riichi"  BY <2>4
  <2>. QED  BY <2>1, <2>2, <2>3, <2>5, WithPlayerQuiet
<1>4. CASE e.tag = "meld" /\ e.who \in P /\ ~is_nuki(e.m)
  <2>1. PICK meld : meld = decode_meld(e.m)  OBVIOUS
  <2>2. Countable(meld_tiles_in_hand(meld))  BY <1>4, <2>1, CallCountable
  <2>3. apply_event(r, e) = apply_call_event(r, e.who, meld)  BY <1>4, <2>1 DEF apply_event, apply_meld
  <2>4. PICK q, event : /\ apply_call_event(r, e.who, meld) = Logged(WithPlayer(r, e.who, q), event)
                        /\ IsPlayer(q) /\ event.tag = "Call"
    <3>1. PICK event : event = [tag |-> "Call", actor |-> e.who, meld |-> meld]  OBVIOUS
    <3>2. event.tag = "Call"  BY <3>1
    <3>3. PICK old, h : /\ old = r.last.players[e.who]
                        /\ h = [c \in Codes |-> old.hand[c] - Times(meld_tiles_in_hand(meld), c)]
      OBVIOUS
    <3>4. /\ apply_call_event(r, e.who, meld) = Logged(WithPlayer(r, e.who, WithMeld(old, h, meld)), event)
          /\ IsPlayer(WithMeld(old, h, meld))
      BY <1>4, <2>2, <3>1, <3>3, CallIs
    <3>. QED  BY <3>2, <3>4, Zenon
  <2>5. IsRound(WithPlayer(r, e.who, q), P)  BY <1>4, <2>4, WithPlayerRound
  <2>6. IsRound(Logged(WithPlayer(r, e.who, q), event), P)  BY <2>5, PushIs
  <2>7. event.tag # "Riichi"  BY <2>4
  <2>. QED  BY <2>3, <2>4, <2>6, <2>7, WithPlayerQuiet
<1>5. CASE e.tag = "dora"
  <2>1. apply_event(r, e) = apply_dora(r, e)  BY <1>5 DEF apply_event
  <2>2. PICK d, event : /\ apply_dora(r, e) = Logged(WithTable(r, r.last.kyotaku, d), event)
                        /\ event.tag = "DoraOpen"
    <3>1. PICK event : event = [tag |-> "DoraOpen", tile |-> to_tile(e.tile)]  OBVIOUS
    <3>2. event.tag = "DoraOpen"  BY <3>1
    <3>. QED  BY <3>1, <3>2, DoraIs
  <2>3. PICK s, t : s = WithTable(r, r.last.kyotaku, d) /\ t = Logged(s, event)  OBVIOUS
  <2>4. IsRound(s, P)  BY <2>3, WithTableRound
  <2>5. IsRound(t, P)  BY <2>3, <2>4, PushIs
  <2>6. /\ s.initial = r.initial /\ s.results = r.results /\ s.events = r.events
        /\ s.last.kyotaku = r.last.kyotaku
    BY <2>3 DEF WithTable
  <2>7. /\ t.initial = s.initial /\ t.last = s.last /\ t.results = s.results
        /\ t.events = Append(s.events, event)
    BY <2>3 DEF Logged
  <2>8. event.tag # "Riichi"  BY <2>2
  <2>9. Quiet(r, t)  BY <2>6, <2>7, <2>8, Zenon DEF Quiet
  <2>. QED  BY <2>1, <2>2, <2>3, <2>5, <2>9, Zenon
<1>6. CASE e.tag = "reach" /\ e.step = 1
  <2>1. apply_event(r, e) = apply_reach(r, e)  BY <1>6 DEF apply_event
  <2>2. e.step # 2  BY <1>6
  <2>3. apply_reach(r, e) = r  BY <2>2, ReachIs
  <2>. QED  BY <2>1, <2>3, Zenon DEF Quiet
<1>. QED  BY <1>1, <1>2, <1>3, <1>4, <1>5, <1>6

\* The two events that end a round enter a result and leave the state of the table alone.
LEMMA ResultEvents ==
  ASSUME NEW P, NEW r, IsRound(r, P), NEW e
  PROVE  /\ e.tag = "agari" =>
              \E event : event.tag \in {"Tsumo", "Ron", "Ryukyoku"} /\ event.tag # "Riichi"
                         /\ apply_event(r, e) = Ended(r, event, make_win_result(r.last, e))
         /\ e.tag = "ryukyoku" =>
              \E event, type : event.tag \in {"Tsumo", "Ron", "Ryukyoku"} /\ event.tag # "Riichi"
                         /\ apply_event(r, e) = Ended(r, event, make_ryukyoku_result(r.last, e, type))
<1>1. CASE e.tag = "agari"
  <2>1. apply_event(r, e) = apply_agari(r, e)  BY <1>1 DEF apply_event
  <2>2. PICK event : event = IF e.who = e.from_who
               THEN [tag |-> "Tsumo", winner |-> e.who, tile |-> to_tile(e.machi)]
               ELSE [tag |-> "Ron", winner |-> e.who, loser |-> e.from_who,
                     tile |-> to_tile(e.machi)]
    OBVIOUS
  <2>3. event.tag \in {"Tsumo", "Ron", "Ryukyoku"} /\ event.tag # "Riichi"  BY <2>2
  <2>4. PICK result : result = make_win_result(r.last, e)  OBVIOUS
  <2>5. apply_agari(r, e) = [Push(r, event) EXCEPT !.results = Append(@, result)]
    BY <2>2, <2>4, Zenon DEF apply_agari
  <2>6. apply_agari(r, e) = Ended(r, event, result)  BY <2>5, EndedRound
  <2>. QED  BY <1>1, <2>1, <2>3, <2>4, <2>6
<1>2. CASE e.tag = "ryukyoku"
  <2>1. apply_event(r, e) = apply_ryukyoku(r, e)  BY <1>2 DEF apply_event
  <2>2. PICK type : type = to_ryukyoku_type(e.type)  OBVIOUS
  <2>3. PICK event : event = [tag |-> "Ryukyoku", type |-> type]  OBVIOUS
  <2>4. event.tag \in {"Tsumo", "Ron", "Ryukyoku"} /\ event.tag # "Riichi"  BY <2>3
  <2>5. PICK result : result = make_ryukyoku_result(r.last, e, type)  OBVIOUS
  <2>6. apply_ryukyoku(r, e) = [Push(r, event) EXCEPT !.results = Append(@, result)]
    BY <2>2, <2>3, <2>5, Zenon DEF apply_ryukyoku
  <2>7. apply_ryukyoku(r, e) = Ended(r, event, result)  BY <2>6, EndedRound
  <2>. QED  BY <1>2, <2>1, <2>4, <2>5, <2>7
<1>. QED  BY <1>1, <1>2

-----------------------------------------------------------------------------
(* The points that the record of a round leads to.                         *)

Riichis(r, p) == {j \in DOMAIN r.events : r.events[j].tag = "Riichi" /\ r.events[j].actor = p}
Deltas(r, p) == [j \in DOMAIN r.results |-> r.results[j].score_deltas[p]]
Total(s) == FoldLeft(+, 0, s)
Paid(r, p) == Total(Deltas(r, p))
Balance(r, p) == r.initial.players[p].score - 1000 * Cardinality(Riichis(r, p)) + Paid(r, p)

LEMMA TotalAppend ==
  ASSUME NEW s, IsList(s), NEW x
  PROVE  Total(Append(s, x)) = Total(s) + x
<1>1. Added(0, Append(s, x)) = Added(0, s) + x  BY FoldAppend, Zenon
<1>. QED  BY <1>1, Zenon DEF Total, Added

LEMMA RiichisType ==
  ASSUME NEW P, NEW r, IsRound(r, P), NEW p
  PROVE  IsFiniteSet(Riichis(r, p)) /\ Cardinality(Riichis(r, p)) \in Nat
<1>1. PICK n : n = Len(r.events)  OBVIOUS
<1>2. n \in Nat /\ DOMAIN r.events = 1..n  BY <1>1, AppendList DEF IsRound
<1>3. IsFiniteSet(1..n)  BY <1>2, FS_Interval
<1>4. Riichis(r, p) \subseteq 1..n  BY <1>2 DEF Riichis
<1>. QED  BY <1>3, <1>4, FS_Subset, FS_CardinalityType

LEMMA RiichisAppend ==
  ASSUME NEW P, NEW r, IsRound(r, P), NEW s, NEW event, s.events = Append(r.events, event), NEW p
  PROVE  Cardinality(Riichis(s, p))
           = Cardinality(Riichis(r, p)) + IF event.tag = "Riichi" /\ event.actor = p THEN 1 ELSE 0
<1>1. PICK a, b, n : a = r.events /\ b = s.events /\ n = Len(a)  OBVIOUS
<1>2. IsList(a) /\ b = Append(a, event)  BY <1>1 DEF IsRound
<1>3. /\ n \in Nat /\ DOMAIN a = 1..n /\ DOMAIN b = 1..n + 1
      /\ b[n + 1] = event /\ \A i \in 1..n : b[i] = a[i]
  BY <1>1, <1>2, AppendList
<1>4. PICK R, S : R = Riichis(r, p) /\ S = Riichis(s, p)  OBVIOUS
<1>5. /\ R = {j \in 1..n : a[j].tag = "Riichi" /\ a[j].actor = p}
      /\ S = {j \in 1..n + 1 : b[j].tag = "Riichi" /\ b[j].actor = p}
  BY <1>1, <1>3, <1>4, Zenon DEF Riichis
<1>6. IsFiniteSet(R) /\ Cardinality(R) \in Nat  BY <1>4, RiichisType
<1>7. CASE event.tag = "Riichi" /\ event.actor = p
  <2>1. S = R \cup {n + 1} /\ n + 1 \notin R  BY <1>3, <1>5, <1>7
  <2>2. Cardinality(S) = Cardinality(R) + 1  BY <1>6, <2>1, FS_AddElement
  <2>. QED  BY <1>4, <1>7, <2>2
<1>8. CASE ~(event.tag = "Riichi" /\ event.actor = p)
  <2>1. S = R  BY <1>3, <1>5, <1>8
  <2>. QED  BY <1>4, <1>6, <1>8, <2>1
<1>. QED  BY <1>7, <1>8

LEMMA DeltasAppend ==
  ASSUME NEW P, NEW r, IsRound(r, P), NEW s, NEW result, s.results = Append(r.results, result), NEW p
  PROVE  Paid(s, p) = Paid(r, p) + result.score_deltas[p]
<1>1. PICK a, b, n : a = r.results /\ b = s.results /\ n = Len(a)  OBVIOUS
<1>2. IsList(a) /\ b = Append(a, result)  BY <1>1 DEF IsRound
<1>3. /\ n \in Nat /\ DOMAIN a = 1..n /\ DOMAIN b = 1..n + 1
      /\ b[n + 1] = result /\ \A i \in 1..n : b[i] = a[i]
  BY <1>1, <1>2, AppendList
<1>4. PICK f, g : /\ f = [j \in 1..n |-> a[j].score_deltas[p]]
                  /\ g = [j \in 1..n + 1 |-> b[j].score_deltas[p]]
  OBVIOUS
<1>5. Deltas(r, p) = f /\ Deltas(s, p) = g  BY <1>1, <1>3, <1>4, Zenon DEF Deltas
<1>6. DOMAIN f = 1..n /\ f = [j \in 1..n |-> f[j]]  BY <1>4
<1>7. IsList(f) /\ Len(f) = n  BY <1>3, <1>6, FunIsList
<1>8. PICK x : x = result.score_deltas[p]  OBVIOUS
<1>9. g = Append(f, x)
  <2>1. PICK h : h = Append(f, x)  OBVIOUS
  <2>2. DOMAIN h = 1..n + 1 /\ h[n + 1] = x /\ \A i \in 1..n : h[i] = f[i]  BY <1>7, <2>1, AppendList
  <2>3. h = [j \in 1..n + 1 |-> h[j]]
    <3>1. IsList(h)  BY <1>7, <2>1, AppendList
    <3>2. PICK S : h \in Seq(S)  BY <3>1 DEF IsList
    <3>. QED  BY <2>2, <3>2
  <2>4. \A j \in 1..n + 1 : h[j] = g[j]
    <3>1. \A j \in 1..n : h[j] = g[j]  BY <1>3, <1>4, <2>2
    <3>2. h[n + 1] = g[n + 1]  BY <1>3, <1>4, <1>8, <2>2
    <3>3. \A j \in 1..n + 1 : j \in 1..n \/ j = n + 1  BY <1>3
    <3>. QED  BY <3>1, <3>2, <3>3, Zenon
  <2>5. g = [j \in 1..n + 1 |-> g[j]]  BY <1>4
  <2>. QED  BY <2>1, <2>3, <2>4, <2>5, Zenon
<1>10. Total(g) = Total(f) + x  BY <1>7, <1>9, TotalAppend
<1>. QED  BY <1>5, <1>8, <1>10, Zenon DEF Paid

\* Points in a round, in the unit of the record.
IsPaid(r, P) == \A p \in P : Paid(r, p) \in Int

LEMMA BalanceType ==
  ASSUME NEW P, NEW r, IsRound(r, P), IsPaid(r, P), NEW p \in P
  PROVE  Balance(r, p) \in Int /\ r.initial.players[p].score \in Int
<1>1. Cardinality(Riichis(r, p)) \in Nat  BY RiichisType
<1>2. r.initial.players[p].score \in Int
  <2>1. IsState(r.initial, P)  BY Zenon DEF IsRound
  <2>2. IsPlayer(r.initial.players[p])  BY <2>1, Zenon DEF IsState
  <2>. QED  BY <2>2, Zenon DEF IsPlayer
<1>3. Paid(r, p) \in Int  BY Zenon DEF IsPaid
<1>. QED  BY <1>1, <1>2, <1>3 DEF Balance

LEMMA QuietBalance ==
  ASSUME NEW P, NEW r, IsRound(r, P), NEW s, Quiet(r, s), NEW p
  PROVE  Balance(s, p) = Balance(r, p) /\ Paid(s, p) = Paid(r, p)
<1>1. s.initial = r.initial /\ s.results = r.results  BY Zenon DEF Quiet
<1>2. Paid(s, p) = Paid(r, p)  BY <1>1, Zenon DEF Paid, Deltas
<1>3. Cardinality(Riichis(s, p)) = Cardinality(Riichis(r, p))
  <2>1. CASE s.events = r.events  BY <2>1, Zenon DEF Riichis
  <2>2. CASE \E event : event.tag # "Riichi" /\ s.events = Append(r.events, event)
    <3>1. PICK event : event.tag # "Riichi" /\ s.events = Append(r.events, event)  BY <2>2
    <3>2. Cardinality(Riichis(s, p))
           = Cardinality(Riichis(r, p)) + IF event.tag = "Riichi" /\ event.actor = p THEN 1 ELSE 0
      BY <3>1, RiichisAppend
    <3>3. Cardinality(Riichis(r, p)) \in Nat  BY RiichisType
    <3>. QED  BY <3>1, <3>2, <3>3
  <2>. QED  BY <2>1, <2>2, Zenon DEF Quiet
<1>. QED  BY <1>1, <1>2, <1>3 DEF Balance

\* What a riichi of player w costs player p.
Deposit1(p, w) == IF p = w THEN 1000 ELSE 0

\* From r to s, a riichi of player w has been entered.
Bets(r, s, w) ==
  /\ s.initial = r.initial /\ s.results = r.results
  /\ \E event : event.tag = "Riichi" /\ event.actor = w /\ s.events = Append(r.events, event)

LEMMA RiichiBalance ==
  ASSUME NEW P, NEW r, IsRound(r, P), IsPaid(r, P), NEW s, NEW w, Bets(r, s, w), NEW p \in P
  PROVE  Balance(s, p) = Balance(r, p) - Deposit1(p, w) /\ Paid(s, p) = Paid(r, p)
<1>1. s.initial = r.initial /\ s.results = r.results  BY Zenon DEF Bets
<1>2. PICK event : event.tag = "Riichi" /\ event.actor = w /\ s.events = Append(r.events, event)  BY DEF Bets
<1>3. Paid(s, p) = Paid(r, p)  BY <1>1, Zenon DEF Paid, Deltas
<1>4. Cardinality(Riichis(s, p))
           = Cardinality(Riichis(r, p)) + IF event.tag = "Riichi" /\ event.actor = p THEN 1 ELSE 0
  BY <1>2, RiichisAppend
<1>5. PICK m, n : m = Cardinality(Riichis(r, p)) /\ n = Cardinality(Riichis(s, p))  OBVIOUS
<1>6. m \in Nat /\ n = m + IF p = w THEN 1 ELSE 0  BY <1>2, <1>4, <1>5, RiichisType
<1>7. PICK i, d : i = r.initial.players[p].score /\ d = Paid(r, p)  OBVIOUS
<1>8. i \in Int /\ d \in Int  BY <1>7, BalanceType DEF IsPaid
<1>9. Balance(r, p) = i - 1000 * m + d /\ Balance(s, p) = i - 1000 * n + d
  BY <1>1, <1>3, <1>5, <1>7 DEF Balance
<1>. QED  BY <1>3, <1>6, <1>8, <1>9 DEF Deposit1

LEMMA EndedBalance ==
  ASSUME NEW P, NEW r, IsRound(r, P), IsPaid(r, P), NEW p \in P, NEW event, event.tag # "Riichi",
         NEW result, result.score_deltas[p] \in Int
  PROVE  LET s == Ended(r, event, result)
         IN  /\ Balance(s, p) = Balance(r, p) + result.score_deltas[p]
             /\ Paid(s, p) \in Int
<1>1. PICK s : s = Ended(r, event, result)  OBVIOUS
<1>2. /\ s.initial = r.initial /\ s.events = Append(r.events, event)
      /\ s.results = Append(r.results, result)
  BY <1>1 DEF Ended
<1>3. PICK x : x = result.score_deltas[p]  OBVIOUS
<1>4. Paid(s, p) = Paid(r, p) + x  BY <1>2, <1>3, DeltasAppend
<1>5. Cardinality(Riichis(s, p))
           = Cardinality(Riichis(r, p)) + IF event.tag = "Riichi" /\ event.actor = p THEN 1 ELSE 0
  BY <1>2, RiichisAppend
<1>6. PICK m, n : m = Cardinality(Riichis(r, p)) /\ n = Cardinality(Riichis(s, p))  OBVIOUS
<1>7. m \in Nat /\ n = m  BY <1>5, <1>6, RiichisType
<1>8. PICK i, d : i = r.initial.players[p].score /\ d = Paid(r, p)  OBVIOUS
<1>9. i \in Int /\ d \in Int /\ x \in Int  BY <1>3, <1>8, BalanceType DEF IsPaid
<1>10. Balance(r, p) = i - 1000 * m + d /\ Balance(s, p) = i - 1000 * n + (d + x)
  BY <1>2, <1>4, <1>6, <1>8 DEF Balance
<1>. QED  BY <1>1, <1>3, <1>4, <1>7, <1>8, <1>9, <1>10

-----------------------------------------------------------------------------
(* The record of a game.                                                   *)

IsGame(g, P, n) ==
  /\ g = [players |-> g.players, rounds |-> g.rounds]
  /\ g.players # << >> /\ Len(g.players) = n
  /\ IsList(g.rounds) /\ \A i \in 1..Len(g.rounds) : IsRound(g.rounds[i], P)

\* A round starts with the points that the record of the round before leads to.
History(g, P) ==
  \A i \in 2..Len(g.rounds), p \in P :
    g.rounds[i].initial.players[p].score = Balance(g.rounds[i - 1], p)

LEMMA LastIs ==
  ASSUME NEW s, IsList(s)
  PROVE  /\ Last(s) = s[Len(s)] /\ (s # << >> <=> Len(s) # 0)
         /\ Len(s) \in Nat
         /\ \A x : Last(Append(s, x)) = x
<1>1. PICK S : s \in Seq(S)  BY DEF IsList
<1>2. Last(s) = s[Len(s)]  BY DEF Last
<1>3. ASSUME NEW x  PROVE Last(Append(s, x)) = x
  <2>1. Append(s, x)[Len(s) + 1] = x /\ Len(Append(s, x)) = Len(s) + 1  BY AppendList
  <2>. QED  BY <2>1, Zenon DEF Last
<1>4. s # << >> <=> Len(s) # 0  BY <1>1
<1>. QED  BY <1>1, <1>2, <1>3, <1>4

\* An event of a round changes the last round of the record and nothing else.
LEMMA InRound ==
  ASSUME NEW P, NEW n, NEW g, IsGame(g, P, n), Len(g.rounds) # 0,
         NEW e, e.tag \notin {"UN", "INIT"},
         IsRound(apply_event(Last(g.rounds), e), P)
  PROVE  LET h == build_replay(g, e)
         IN  /\ IsGame(h, P, n) /\ Len(h.rounds) = Len(g.rounds) /\ h.players = g.players
             /\ Last(h.rounds) = apply_event(Last(g.rounds), e)
             /\ \A i \in 1..(Len(g.rounds) - 1) : h.rounds[i] = g.rounds[i]
<1>1. PICK s, m, t : s = g.rounds /\ m = Len(s) /\ t = apply_event(Last(s), e)  OBVIOUS
<1>2. IsList(s) /\ m \in Nat /\ m # 0 /\ DOMAIN s = 1..m /\ s # << >> /\ Last(s) = s[m]
  <2>1. IsList(s)  BY <1>1 DEF IsGame
  <2>. QED  BY <1>1, <2>1, AppendList, LastIs
<1>3. PICK u : u = [s EXCEPT ![m] = t]  OBVIOUS
<1>4. IsList(u) /\ Len(u) = m /\ u[m] = t /\ \A i \in 1..(m - 1) : u[i] = s[i]
  <2>1. PICK S : s \in Seq(S)  BY <1>2 DEF IsList
  <2>2. PICK T : T = S \cup {t}  OBVIOUS
  <2>3. s \in Seq(T) /\ t \in T  BY <2>1, <2>2, SeqMonotonic
  <2>4. m \in 1..m  BY <1>2
  <2>5. u \in Seq(T) /\ Len(u) = m  BY <1>1, <1>2, <1>3, <2>3, <2>4
  <2>6. u[m] = t /\ \A i \in 1..(m - 1) : u[i] = s[i]  BY <1>2, <1>3, <2>4
  <2>. QED  BY <2>5, <2>6 DEF IsList
<1>5. PICK h : h = build_replay(g, e)  OBVIOUS
<1>6. h = [g EXCEPT !.rounds[m] = t]
  <2>1. h = [g EXCEPT !.rounds[Len(g.rounds)] = apply_event(@, e)]
    BY <1>1, <1>2, <1>5 DEF build_replay
  <2>2. g.rounds[Len(g.rounds)] = Last(s)  BY <1>1, <1>2
  <2>3. h = [g EXCEPT !.rounds[Len(g.rounds)] = apply_event(g.rounds[Len(g.rounds)], e)]
    BY <2>1, Zenon
  <2>. QED  BY <1>1, <2>2, <2>3, Zenon
<1>7. h = [players |-> g.players, rounds |-> u]
  <2>1. PICK a : a = g.players  OBVIOUS
  <2>2. g = [players |-> a, rounds |-> s]  BY <1>1, <2>1, Zenon DEF IsGame
  <2>3. h = [g EXCEPT !.rounds = [s EXCEPT ![m] = t]]
    <3>1. g.rounds = s  BY ONLY <2>2
    <3>. QED  BY <1>6, <3>1, Zenon
  <2>4. h = [g EXCEPT !.rounds = u]  BY <1>3, <2>3, Zenon
  <2>5. [g EXCEPT !.rounds = u] = [players |-> a, rounds |-> u]  BY ONLY <2>2
  <2>. QED  BY <2>1, <2>4, <2>5, Zenon
<1>8. h.players = g.players /\ h.rounds = u  BY <1>7
<1>9. ASSUME NEW i \in 1..m  PROVE IsRound(u[i], P)
  <2>1. CASE i = m  BY <1>1, <1>4, <2>1
  <2>2. CASE i # m
    <3>1. i \in 1..(m - 1)  BY <1>2, <2>2
    <3>2. u[i] = s[i] /\ IsRound(s[i], P)  BY <1>1, <1>4, <3>1 DEF IsGame
    <3>. QED  BY <3>2
  <2>. QED  BY <2>1, <2>2
<1>10. IsGame(h, P, n)
  <2>1. g.players # << >> /\ Len(g.players) = n  BY DEF IsGame
  <2>2. h = [players |-> h.players, rounds |-> h.rounds]  BY <1>7, <1>8, Zenon
  <2>. QED  BY <1>4, <1>8, <1>9, <2>1, <2>2, Zenon DEF IsGame
<1>11. Last(h.rounds) = t  BY <1>4, <1>8, LastIs
<1>. QED  BY <1>1, <1>4, <1>5, <1>8, <1>10, <1>11, Zenon

LEMMA HistoryKept ==
  ASSUME NEW P, NEW g, NEW h, Len(g.rounds) \in Nat \ {0}, Len(h.rounds) = Len(g.rounds),
         \A i \in 1..(Len(g.rounds) - 1) : h.rounds[i] = g.rounds[i],
         h.rounds[Len(g.rounds)].initial = g.rounds[Len(g.rounds)].initial,
         History(g, P)
  PROVE  History(h, P)
<1>1. PICK m : m = Len(g.rounds)  OBVIOUS
<1>2. ASSUME NEW i \in 2..m, NEW p \in P
      PROVE  h.rounds[i].initial.players[p].score = Balance(h.rounds[i - 1], p)
  <2>1. i - 1 \in 1..(m - 1)  BY <1>1
  <2>2. h.rounds[i - 1] = g.rounds[i - 1]  BY <1>1, <2>1, Zenon
  <2>3. h.rounds[i].initial = g.rounds[i].initial
    <3>1. CASE i = m  BY <1>1, <3>1, Zenon
    <3>2. CASE i # m
      <4>1. i \in 1..(m - 1)  BY <1>1, <3>2
      <4>. QED  BY <1>1, <4>1, Zenon
    <3>. QED  BY <3>1, <3>2
  <2>4. g.rounds[i].initial.players[p].score = Balance(g.rounds[i - 1], p)  BY <1>1, Zenon DEF History
  <2>. QED  BY <2>2, <2>3, <2>4, Zenon
<1>. QED  BY <1>1, <1>2, Zenon DEF History

LEMMA TotalType ==
  ASSUME NEW s, IsList(s), \A i \in 1..Len(s) : s[i] \in Int
  PROVE  Total(s) \in Int
<1>1. PICK n : n = Len(s)  OBVIOUS
<1>2. n \in Nat  BY <1>1, AppendList
<1>3. PICK h : Folds(h, "add", 0, s, Len(s)) /\ FoldLeft(+, 0, s) = h[1..Len(s)]  BY FoldIs, Zenon
<1>4. Steps(h, "add", 0, s, n)  BY <1>1, <1>2, <1>3, FoldsStep
<1>5. h[1..0] = 0 /\ \A i \in 1..n : h[1..i] = h[1..(i - 1)] + s[i]
  <2>1. h[1..0] = 0 /\ \A i \in 1..n : h[1..i] = FoldStep("add", h[1..(i - 1)], s[i])  BY <1>4, Zenon DEF Steps
  <2>. QED  BY <2>1, Zenon DEF FoldStep
<1>. DEFINE F == {i \in 0..n : h[1..i] \notin Int}
<1>6. F = {}
  <2>1. SUFFICES ASSUME F # {} PROVE FALSE  OBVIOUS
  <2>2. F \in SUBSET Nat  BY <1>2
  <2>3. PICK i \in F : \A m \in F : i <= m
    <3>. HIDE DEF F
    <3>. QED  BY <2>1, <2>2, LeastOf
  <2>4. i \in 0..n /\ h[1..i] \notin Int  BY <2>3
  <2>5. i # 0  BY <1>5, <2>4
  <2>6. i - 1 \in 0..n /\ ~(i <= i - 1) /\ i \in 1..n  BY <1>2, <2>4, <2>5
  <2>7. i - 1 \notin F
    <3>. HIDE DEF F
    <3>. QED  BY <2>3, <2>6
  <2>8. h[1..(i - 1)] \in Int  BY <2>6, <2>7
  <2>9. h[1..i] = h[1..(i - 1)] + s[i] /\ s[i] \in Int  BY <1>1, <1>5, <2>6
  <2>. QED  BY <2>4, <2>8, <2>9
<1>7. h[1..n] \in Int
  <2>1. n \in 0..n  BY <1>2
  <2>. QED  BY <1>6, <2>1
<1>. QED  BY <1>1, <1>3, <1>7, Zenon DEF Total

-----------------------------------------------------------------------------
(* The record of a round and the table: pts points, dep deposits, ws wins  *)
(* and the phase ph of the round.                                          *)

Follows(r, P, pts, dep, ws, ph) ==
  /\ IsPaid(r, P) /\ \A p \in P : pts[p] \in Int /\ 100 * pts[p] = Balance(r, p)
  /\ \A i \in 1..Len(r.results) : r.results[i].kyotaku = IF i = 1 THEN r.last.kyotaku ELSE 0
  /\ r.results = << >> => r.last.kyotaku = dep
  /\ ph # "over" => r.results = << >> /\ ws = << >>
  /\ IsList(ws) /\ (ws # << >> => Len(r.results) = Len(ws) /\ dep = 0)
  /\ \A i \in 1..Len(ws) :
       r.results[i].pao = IF ws[i].liable = ws[i].loser THEN Null ELSE ws[i].liable

LEMMA FollowsQuiet ==
  ASSUME NEW P, NEW r, IsRound(r, P), NEW s, Quiet(r, s), NEW pts, NEW dep, NEW ws, NEW ph, NEW after,
         Follows(r, P, pts, dep, ws, ph), ph # "over" \/ after = "over"
  PROVE  Follows(s, P, pts, dep, ws, after)
<1>1. s.results = r.results /\ s.last.kyotaku = r.last.kyotaku  BY Zenon DEF Quiet
<1>2. \A p \in P : Balance(s, p) = Balance(r, p) /\ Paid(s, p) = Paid(r, p)  BY QuietBalance
<1>3. IsPaid(s, P)  BY <1>2, Zenon DEF IsPaid, Follows
<1>4. \A p \in P : pts[p] \in Int /\ 100 * pts[p] = Balance(s, p)
  <2>1. \A p \in P : pts[p] \in Int /\ 100 * pts[p] = Balance(r, p)  BY DEF Follows
  <2>. QED  BY <1>2, <2>1
<1>. QED  BY <1>1, <1>3, <1>4 DEF Follows

LEMMA FollowsRiichi ==
  ASSUME NEW P, NEW r, IsRound(r, P), NEW w \in P, NEW e, e.tag = "reach", e.step = 2, e.who = w,
         NEW pts, DOMAIN pts = P, NEW dep \in Int, NEW ws, NEW ph, NEW after,
         Follows(r, P, pts, dep, ws, ph), ph # "over"
  PROVE  LET s == apply_event(r, e)
         IN  /\ IsRound(s, P) /\ s.initial = r.initial
             /\ Follows(s, P, [pts EXCEPT ![w] = @ - 10], dep + 1, ws, after)
<1>1. PICK k : k = r.last.kyotaku + 1  OBVIOUS
<1>2. PICK t : t = WithTable(r, k, r.last.dora_indicators)  OBVIOUS
<1>3. PICK event : event = [tag |-> "Riichi", actor |-> w]  OBVIOUS
<1>4. PICK s : s = Logged(t, event)  OBVIOUS
<1>5. apply_event(r, e) = s
  <2>1. apply_event(r, e) = apply_reach(r, e)  BY DEF apply_event
  <2>. QED  BY <1>1, <1>2, <1>3, <1>4, <2>1, ReachIs
<1>6. IsRound(s, P)
  <2>1. IsRound(t, P)  BY <1>2, WithTableRound
  <2>. QED  BY <1>4, <2>1, PushIs
<1>7. t.initial = r.initial /\ t.results = r.results /\ t.events = r.events /\ t.last.kyotaku = k
  BY <1>2 DEF WithTable
<1>8. s.initial = t.initial /\ s.last = t.last /\ s.results = t.results /\ s.events = Append(t.events, event)
  BY <1>4 DEF Logged
<1>9. r.results = << >> /\ ws = << >> /\ IsPaid(r, P) /\ r.last.kyotaku = dep  BY DEF Follows
<1>10. ASSUME NEW p \in P
       PROVE  Balance(s, p) = Balance(r, p) - Deposit1(p, w) /\ Paid(s, p) = Paid(r, p)
  <2>1. s.events = Append(r.events, event) /\ event.tag = "Riichi" /\ event.actor = w  BY <1>3, <1>7, <1>8
  <2>2. s.initial = r.initial /\ s.results = r.results  BY <1>7, <1>8
  <2>3. IsPaid(r, P) /\ IsRound(r, P) /\ p \in P  BY <1>9
  <2>4. Bets(r, s, w)  BY <2>1, <2>2, Zenon DEF Bets
  <2>. QED  BY <2>3, <2>4, RiichiBalance
<1>11. IsPaid(s, P)  BY <1>9, <1>10, Zenon DEF IsPaid
<1>12. PICK new : new = [pts EXCEPT ![w] = @ - 10]  OBVIOUS
<1>13. ASSUME NEW p \in P  PROVE new[p] \in Int /\ 100 * new[p] = Balance(s, p)
  <2>1. PICK a, b, c : a = pts[p] /\ b = Balance(r, p) /\ c = Balance(s, p)  OBVIOUS
  <2>2. a \in Int /\ 100 * a = b  BY <2>1 DEF Follows
  <2>3. new[p] = IF p = w THEN a - 10 ELSE a  BY <1>12, <2>1
  <2>4. c = b - (IF p = w THEN 1000 ELSE 0)  BY <1>10, <2>1 DEF Deposit1
  <2>5. new[p] \in Int /\ 100 * new[p] = c  BY <2>2, <2>3, <2>4
  <2>. QED  BY <2>1, <2>5
<1>14. s.results = << >> /\ Len(s.results) = 0  BY <1>7, <1>8, <1>9
<1>15. s.last.kyotaku = dep + 1  BY <1>1, <1>7, <1>8, <1>9
<1>16. IsList(ws) /\ Len(ws) = 0  BY <1>9, EmptyList
<1>17. Follows(s, P, new, dep + 1, ws, after)  BY <1>9, <1>11, <1>13, <1>14, <1>15, <1>16 DEF Follows
<1>. QED  BY <1>5, <1>6, <1>7, <1>8, <1>12, <1>17, Zenon

\* The points and changes of points of n players, as the log tells them.
ScOf(n, pts, delta) ==
  [i \in 1..(2 * n) |-> LET p == (i - 1) \div 2 IN IF i % 2 = 1 THEN pts[p] ELSE delta[p]]

\* The changes of points that the log states are read as they were written.
Hundreds(deltas, n, delta) ==
  DOMAIN deltas = 0..(n - 1) /\ \A p \in 0..(n - 1) : deltas[p] = delta[p] * 100

LEMMA DeltasRead ==
  ASSUME NEW n, n \in Nat, NEW pts, NEW delta
  PROVE  Hundreds(to_score_deltas(ScOf(n, pts, delta), n), n, delta)
<1>0. PICK sc : sc = ScOf(n, pts, delta)  OBVIOUS
<1>a. sc = [i \in 1..(2 * n) |-> LET p == (i - 1) \div 2 IN IF i % 2 = 1 THEN pts[p] ELSE delta[p]]
  BY <1>0, Zenon DEF ScOf
<1>1. ASSUME NEW p \in 0..(n - 1)  PROVE sc[2 * p + 2] = delta[p]
  <2>1. 2 * p + 2 \in 1..(2 * n) /\ ((2 * p + 2) - 1) \div 2 = p /\ (2 * p + 2) % 2 # 1  OBVIOUS
  <2>. QED  BY <1>a, <2>1
<1>2. to_score_deltas(sc, n) = [p \in 0..(n - 1) |-> sc[2 * p + 2] * 100]  BY SMT DEF to_score_deltas
<1>3. Hundreds([p \in 0..(n - 1) |-> sc[2 * p + 2] * 100], n, delta)  BY <1>1, SMT DEF Hundreds
<1>. QED  BY <1>0, <1>2, <1>3, Zenon

\* A result states the changes delta and the deposits dep.
States(result, P, delta, dep) ==
  /\ result.kyotaku = dep
  /\ \A p \in P : delta[p] \in Int /\ result.score_deltas[p] = delta[p] * 100

LEMMA FollowsEnded ==
  ASSUME NEW P, NEW r, IsRound(r, P), NEW event, event.tag # "Riichi", NEW result, NEW delta, NEW dep,
         States(result, P, delta, dep), NEW pts, NEW ws, NEW ph, Follows(r, P, pts, dep, ws, ph),
         r.results # << >> => dep = 0,
         NEW after, \A p \in P : after[p] = pts[p] + delta[p]
  PROVE  LET s == Ended(r, event, result)
         IN  /\ IsRound(s, P) /\ s.initial = r.initial
             /\ IsPaid(s, P) /\ \A p \in P : after[p] \in Int /\ 100 * after[p] = Balance(s, p)
             /\ \A i \in 1..Len(s.results) : s.results[i].kyotaku = IF i = 1 THEN s.last.kyotaku ELSE 0
             /\ s.results # << >>
<1>1. PICK s : s = Ended(r, event, result)  OBVIOUS
<1>2. s.initial = r.initial /\ s.last = r.last /\ s.results = Append(r.results, result)
  BY <1>1 DEF Ended
<1>3. IsRound(s, P)  BY <1>1, EndedRound
<1>4. IsPaid(r, P)  BY DEF Follows
<1>5. ASSUME NEW p \in P
      PROVE  after[p] \in Int /\ 100 * after[p] = Balance(s, p) /\ Paid(s, p) \in Int
  <2>1. PICK x, d : x = result.score_deltas[p] /\ d = delta[p]  OBVIOUS
  <2>2. d \in Int /\ x = d * 100 /\ x \in Int  BY <2>1 DEF States
  <2>3. Balance(s, p) = Balance(r, p) + x /\ Paid(s, p) \in Int
    <3>1. result.score_deltas[p] \in Int  BY <2>1, <2>2
    <3>. QED  BY <1>1, <1>4, <2>1, <3>1, EndedBalance
  <2>4. PICK a, b : a = pts[p] /\ b = Balance(r, p)  OBVIOUS
  <2>5. a \in Int /\ 100 * a = b  BY <2>4 DEF Follows
  <2>6. after[p] = a + d  BY <2>1, <2>4
  <2>. QED  BY <2>2, <2>3, <2>4, <2>5, <2>6
<1>6. IsPaid(s, P)  BY <1>5, Zenon DEF IsPaid
<1>7. PICK a, b, n : a = r.results /\ b = s.results /\ n = Len(a)  OBVIOUS
<1>8. /\ IsList(a) /\ n \in Nat /\ Len(b) = n + 1 /\ b[n + 1] = result /\ \A i \in 1..n : b[i] = a[i]
  BY <1>2, <1>7, AppendList DEF IsRound
<1>9. b # << >>
  <2>1. IsList(b)  BY <1>2, <1>7, <1>8, AppendList
  <2>. QED  BY <1>8, <2>1, LastIs
<1>10. ASSUME NEW i \in 1..(n + 1)  PROVE b[i].kyotaku = IF i = 1 THEN s.last.kyotaku ELSE 0
  <2>1. CASE i \in 1..n
    <3>1. a[i].kyotaku = IF i = 1 THEN r.last.kyotaku ELSE 0  BY <1>7, <2>1 DEF Follows
    <3>. QED  BY <1>2, <1>8, <2>1, <3>1
  <2>2. CASE i = n + 1
    <3>1. b[i].kyotaku = dep  BY <1>8, <2>2 DEF States
    <3>2. i = 1 => a = << >>
      <4>1. i = 1 => n = 0  BY <1>8, <2>2
      <4>. QED  BY <1>7, <1>8, <4>1, LastIs
    <3>3. i = 1 => r.last.kyotaku = dep  BY <1>7, <3>2 DEF Follows
    <3>4. i # 1 => a # << >>
      <4>1. i # 1 => n # 0  BY <1>8, <2>2
      <4>. QED  BY <1>7, <1>8, <4>1, LastIs
    <3>5. i # 1 => dep = 0  BY <1>7, <3>4
    <3>. QED  BY <1>2, <3>1, <3>3, <3>5
  <2>. QED  BY <1>8, <2>1, <2>2
<1>. QED  BY <1>1, <1>2, <1>3, <1>5, <1>6, <1>7, <1>8, <1>9, <1>10, Zenon

\* The liable player, if the payments tell who that is.
Told(liable, loser) == IF liable = loser THEN Null ELSE liable

\* The round r, in a game of the players P, ends in s with a result.
EndsWith(r, s, P, result) ==
  IsRound(r, P) /\ \E event : event.tag # "Riichi" /\ s = Ended(r, event, result)

Moved(after, P, pts, delta) == \A p \in P : after[p] = pts[p] + delta[p]

Leads(r, s, P) == IsRound(s, P) /\ s.initial = r.initial

\* A drawn round.
LEMMA FollowsDraw ==
  ASSUME NEW P, NEW r, NEW s, NEW result, EndsWith(r, s, P, result), NEW delta, NEW dep,
         States(result, P, delta, dep), NEW pts, NEW ws, NEW ph, Follows(r, P, pts, dep, ws, ph),
         ph # "over", NEW after, Moved(after, P, pts, delta)
  PROVE  Leads(r, s, P) /\ Follows(s, P, after, dep, ws, "over")
<1>0. IsRound(r, P) /\ \A p \in P : after[p] = pts[p] + delta[p]  BY Zenon DEF EndsWith, Moved
<1>1. PICK event : event.tag # "Riichi" /\ s = Ended(r, event, result)  BY Zenon DEF EndsWith
<1>2. r.results = << >> /\ ws = << >>  BY DEF Follows
<1>3. /\ IsRound(s, P) /\ s.initial = r.initial
      /\ IsPaid(s, P) /\ \A p \in P : after[p] \in Int /\ 100 * after[p] = Balance(s, p)
      /\ \A i \in 1..Len(s.results) : s.results[i].kyotaku = IF i = 1 THEN s.last.kyotaku ELSE 0
      /\ s.results # << >>
  <2>1. r.results # << >> => dep = 0  BY <1>2
  <2>. QED  BY <1>0, <1>1, <2>1, FollowsEnded
<1>4. IsList(ws) /\ Len(ws) = 0  BY <1>2, EmptyList
<1>5. Follows(s, P, after, dep, ws, "over")  BY <1>2, <1>3, <1>4 DEF Follows
<1>. QED  BY <1>3, <1>5, Zenon DEF Leads

\* A win, the first of the round or the second on the same tile.
LEMMA FollowsWin ==
  ASSUME NEW P, NEW r, NEW s, NEW result, EndsWith(r, s, P, result), NEW delta, NEW dep,
         States(result, P, delta, dep), NEW pts, NEW ws, NEW ph, Follows(r, P, pts, dep, ws, ph),
         ph # "over" \/ ws # << >>, NEW after, Moved(after, P, pts, delta),
         NEW win, result.pao = Told(win.liable, win.loser)
  PROVE  Leads(r, s, P) /\ Follows(s, P, after, 0, Append(ws, win), "over")
<1>0. IsRound(r, P) /\ \A p \in P : after[p] = pts[p] + delta[p]  BY Zenon DEF EndsWith, Moved
<1>1. PICK event : event.tag # "Riichi" /\ s = Ended(r, event, result)  BY Zenon DEF EndsWith
<1>a. result.pao = IF win.liable = win.loser THEN Null ELSE win.liable  BY DEF Told
<1>2. PICK a, b, u, m : a = r.results /\ b = s.results /\ u = Append(ws, win) /\ m = Len(ws)  OBVIOUS
<1>3. IsList(a) /\ b = Append(a, result) /\ IsList(ws)
  <2>1. s.results = Append(r.results, result)  BY <1>1 DEF Ended
  <2>. QED  BY <1>0, <1>2, <2>1 DEF IsRound, Follows
<1>4. m = Len(a) /\ (a # << >> => dep = 0)
  <2>1. CASE ph # "over"  BY <1>2, <2>1 DEF Follows
  <2>2. CASE ws # << >>  BY <1>2, <2>2 DEF Follows
  <2>. QED  BY <2>1, <2>2
<1>5. /\ IsRound(s, P) /\ s.initial = r.initial
      /\ IsPaid(s, P) /\ \A p \in P : after[p] \in Int /\ 100 * after[p] = Balance(s, p)
      /\ \A i \in 1..Len(s.results) : s.results[i].kyotaku = IF i = 1 THEN s.last.kyotaku ELSE 0
      /\ s.results # << >>
  <2>1. r.results # << >> => dep = 0  BY <1>2, <1>4
  <2>. QED  BY <1>0, <1>1, <2>1, FollowsEnded
<1>6. /\ m \in Nat /\ IsList(u) /\ Len(u) = m + 1 /\ u[m + 1] = win /\ \A i \in 1..m : u[i] = ws[i]
  BY <1>2, <1>3, AppendList
<1>7. Len(b) = m + 1 /\ b[m + 1] = result /\ \A i \in 1..m : b[i] = a[i]
  BY <1>2, <1>3, <1>4, AppendList
<1>8. ASSUME NEW i \in 1..(m + 1)
      PROVE  b[i].pao = IF u[i].liable = u[i].loser THEN Null ELSE u[i].liable
  <2>1. CASE i \in 1..m
    <3>1. a[i].pao = IF ws[i].liable = ws[i].loser THEN Null ELSE ws[i].liable
      BY <1>2, <2>1 DEF Follows
    <3>. QED  BY <1>6, <1>7, <2>1, <3>1
  <2>2. CASE i = m + 1  BY <1>a, <1>6, <1>7, <2>2
  <2>. QED  BY <1>6, <2>1, <2>2
<1>9. Follows(s, P, after, 0, u, "over")
  <2>1. Len(s.results) = Len(u) /\ s.results # << >>  BY <1>2, <1>5, <1>6, <1>7
  <2>2. \A i \in 1..Len(u) : s.results[i].pao = IF u[i].liable = u[i].loser THEN Null ELSE u[i].liable
    BY <1>2, <1>6, <1>8
  <2>. QED  BY <1>5, <1>6, <2>1, <2>2 DEF Follows
<1>. QED  BY <1>2, <1>5, <1>9, Zenon DEF Leads

-----------------------------------------------------------------------------
(* The liable player, read off the signs of the payments.                  *)

LEMMA LowestOfOne == ASSUME NEW x \in Int  PROVE Lowest({x}) = x
<1>1. \A q \in {x} : x <= q  OBVIOUS
<1>2. \A p \in {x} : (\A q \in {x} : p <= q) => p = x  OBVIOUS
<1>. QED  BY <1>1, <1>2 DEF Lowest

\* What to_pao_info is told of a win.
PaysFor(n, w, loser, liable, pao_yaku, deltas) ==
  /\ n \in {3, 4} /\ w \in 0..(n - 1)
  /\ loser \in (0..(n - 1)) \cup {Null} /\ loser # w
  /\ liable \in (0..(n - 1)) \cup {Null} /\ liable # w
  /\ pao_yaku \in BOOLEAN /\ (liable # Null => pao_yaku)
  /\ DOMAIN deltas = 0..(n - 1)
  /\ \A q \in (0..(n - 1)) \ {w} : deltas[q] = (0 - Pays(q, w, loser, liable)) * 100

Inferred(deltas, w, loser, liable, pao_yaku) ==
  to_pao_info(deltas, w, loser, pao_yaku) = Told(liable, loser)

LEMMA PaoRead ==
  ASSUME NEW n, NEW w, NEW loser, NEW liable, NEW pao_yaku, NEW deltas,
         PaysFor(n, w, loser, liable, pao_yaku, deltas)
  PROVE  Inferred(deltas, w, loser, liable, pao_yaku)
<1>0. /\ n \in {3, 4} /\ w \in 0..(n - 1)
      /\ loser \in (0..(n - 1)) \cup {Null} /\ loser # w
      /\ liable \in (0..(n - 1)) \cup {Null} /\ liable # w
      /\ pao_yaku \in BOOLEAN /\ (liable # Null => pao_yaku)
      /\ DOMAIN deltas = 0..(n - 1)
      /\ \A q \in (0..(n - 1)) \ {w} : deltas[q] = (0 - Pays(q, w, loser, liable)) * 100
  BY Zenon DEF PaysFor
<1>. USE <1>0 DEF Told, Inferred
<1>1. PICK payers : payers = {p \in DOMAIN deltas \ {w, loser} : deltas[p] < 0}  OBVIOUS
<1>2. to_pao_info(deltas, w, loser, pao_yaku)
        = IF \/ ~pao_yaku
             \/ payers = {}
             \/ loser = Null /\ Cardinality(payers) # 1 THEN Null ELSE Lowest(payers)
  BY <1>1, Zenon DEF to_pao_info
<1>3. ASSUME NEW q \in (0..(n - 1)) \ {w}
      PROVE  /\ loser = Null /\ liable = Null => Pays(q, w, loser, liable) = 8
             /\ loser = Null /\ liable # Null => Pays(q, w, loser, liable) = IF q = liable THEN 16 ELSE 0
             /\ loser # Null /\ liable \in {Null, loser} => Pays(q, w, loser, liable) = IF q = loser THEN 16 ELSE 0
             /\ loser # Null /\ liable \notin {Null, loser} =>
                  Pays(q, w, loser, liable) = IF q = loser THEN 8 ELSE IF q = liable THEN 11 ELSE 0
  BY SMT DEF Pays
<1>4. Null \notin 0..(n - 1)  BY DEF Null
<1>5. CASE loser = Null /\ liable = Null
  <2>1. \A q \in (0..(n - 1)) \ {w} : deltas[q] < 0  BY <1>3, <1>5
  <2>2. payers = (0..(n - 1)) \ {w}  BY <1>1, <1>4, <1>5, <2>1
  <2>3. \E x, y : x # y /\ x \in payers /\ y \in payers
    <3>1. CASE w = 0
      <4>1. 1 \in payers /\ 2 \in payers  BY <2>2, <3>1
      <4>. QED  BY <4>1
    <3>2. CASE w = 1
      <4>1. 0 \in payers /\ 2 \in payers  BY <2>2, <3>2
      <4>. QED  BY <4>1
    <3>3. CASE w # 0 /\ w # 1
      <4>1. 0 \in payers /\ 1 \in payers  BY <2>2, <3>3
      <4>. QED  BY <4>1
    <3>. QED  BY <3>1, <3>2, <3>3
  <2>4. Cardinality(payers) # 1
    <3>1. SUFFICES ASSUME Cardinality(payers) = 1 PROVE FALSE  OBVIOUS
    <3>2. IsFiniteSet(payers)
      <4>1. IsFiniteSet(0..(n - 1))  BY FS_Interval
      <4>. QED  BY <2>2, <4>1, FS_Subset
    <3>3. \E x : payers = {x}  BY <3>1, <3>2, FS_Singleton
    <3>. QED  BY <2>3, <3>3
  <2>. QED  BY <1>2, <1>5, <2>4
<1>6. CASE liable # Null /\ liable # loser
  <2>1. liable \in (0..(n - 1)) \ {w} /\ pao_yaku  BY <1>6
  <2>2. \A q \in (0..(n - 1)) \ {w} : q # loser => (deltas[q] < 0 <=> q = liable)
    <3>1. CASE loser = Null  BY <1>3, <1>6, <3>1
    <3>2. CASE loser # Null  BY <1>3, <1>6, <3>2
    <3>. QED  BY <3>1, <3>2
  <2>3. payers = {liable}  BY <1>1, <1>6, <2>1, <2>2
  <2>4. Cardinality(payers) = 1 /\ payers # {}  BY <2>3, FS_Singleton
  <2>5. Lowest(payers) = liable  BY <2>1, <2>3, LowestOfOne
  <2>. QED  BY <1>2, <1>6, <2>1, <2>4, <2>5
<1>7. CASE loser # Null /\ liable \in {Null, loser}
  <2>1. \A q \in (0..(n - 1)) \ {w} : q # loser => ~(deltas[q] < 0)  BY <1>3, <1>7
  <2>2. payers = {}  BY <1>1, <2>1
  <2>. QED  BY <1>2, <1>7, <2>2
<1>. QED  BY <1>5, <1>6, <1>7

-----------------------------------------------------------------------------
(* The table: everything on it is a number or a set of numbers.            *)

TableInv ==
  /\ setup \in Setups /\ turn \in Players
  /\ points \in [Players -> Int] /\ pot \in Int
  /\ held \in [Players -> SUBSET Int] /\ codes \in [Players -> Seq(Int)]
  /\ wall \in Seq(Int) /\ tile \in Int /\ drew \in Int

LEMMA PlayersAre ==
  ASSUME TableInv
  PROVE  /\ NumPlayers \in {3, 4} /\ Players = 0..(NumPlayers - 1)
         /\ Null \notin Players /\ IsFiniteSet(Players) /\ Cardinality(Players) = NumPlayers
         /\ \A p \in Int : p % NumPlayers \in Players
<1>1. NumPlayers \in {3, 4}  BY SetupsAssumption DEF TableInv, NumPlayers
<1>2. IsFiniteSet(Players) /\ Cardinality(Players) = NumPlayers
  <2>1. IsFiniteSet(0..(NumPlayers - 1)) /\ Cardinality(0..(NumPlayers - 1)) = NumPlayers
    BY <1>1, FS_Interval
  <2>. QED  BY <2>1 DEF Players
<1>. QED  BY <1>1, <1>2 DEF Players, Null

LEMMA BitsInt ==
  ASSUME NEW v \in Int
  PROVE  Bits(v, 0, 2) \in Int /\ Bits(v, 9, 7) \in Int
BY DEF Bits

LEMMA TableInit == Init => TableInv
<1>. SUFFICES ASSUME Init PROVE TableInv  OBVIOUS
<1>1. setup \in Setups /\ NumPlayers \in {3, 4}  BY SetupsAssumption DEF Init, NumPlayers
<1>2. turn \in Players  BY <1>1 DEF Init, Players
<1>. QED  BY <1>1, <1>2 DEF Init, TableInv, Null

\* A call leaves numbers on the table, if its code is one.
LEMMA CallTable ==
  ASSUME TableInv, NEW p \in Players, NEW ids, NEW new \in Seq(Int), NEW m, Call(p, ids, new, m),
         tile' \in Int
  PROVE  TableInv'
<1>1. setup' = setup /\ Players' = Players  BY DEF Call, Log, Players, NumPlayers
<1>2. held' \in [Players -> SUBSET Int]  BY DEF Call, TableInv
<1>3. codes' \in [Players -> Seq(Int)]  BY DEF Call, TableInv
<1>. QED  BY <1>1, <1>2, <1>3 DEF Call, TableInv, Null

LEMMA KindInt == ASSUME NEW id \in Int  PROVE Kind(id) \in Int /\ \A k \in Int : Nth(id, k) \in Int
BY DEF Kind, Nth

LEMMA CopiesAre ==
  ASSUME NEW k \in Int
  PROVE  Copies(k) \in SUBSET Int /\ IsFiniteSet(Copies(k))
<1>1. PICK a, b : a = 4 * k /\ b = 4 * k + 3  OBVIOUS
<1>2. a \in Int /\ b \in Int  BY <1>1
<1>3. IsFiniteSet(a..b)  BY <1>2, FS_Interval
<1>4. Copies(k) \subseteq a..b  BY <1>1 DEF Copies
<1>. QED  BY <1>2, <1>3, <1>4, FS_Subset

LEMMA FromInt == ASSUME TableInv, NEW p \in Players  PROVE From(p) \in Int
<1>1. PICK n : n = NumPlayers  OBVIOUS
<1>2. n \in {3, 4} /\ turn \in 0..(n - 1) /\ p \in 0..(n - 1)  BY <1>1, PlayersAre DEF TableInv
<1>3. (turn - p + n) % n \in Int  BY <1>2
<1>. QED  BY <1>1, <1>3 DEF From

LEMMA ChiTable == ASSUME TableInv, NEW p \in Players, Chi(p)  PROVE TableInv'
<1>1. PICK low \in {Kind(id) : id \in held[p] \cup {tile}}, called \in 1..3 :
         \E id \in [1..3 -> held[p] \cup {tile}] :
            LET m == ChiCode(From(p), low, [i \in 1..3 |-> Nth(id[i], low + i - 1)], called)
            IN  Call(p, Range(id), Append(codes[p], m), m)
  BY DEF Chi
<1>2. PICK id \in [1..3 -> held[p] \cup {tile}] :
         LET m == ChiCode(From(p), low, [i \in 1..3 |-> Nth(id[i], low + i - 1)], called)
         IN  Call(p, Range(id), Append(codes[p], m), m)
  BY <1>1
<1>3. held[p] \cup {tile} \in SUBSET Int  BY DEF TableInv
<1>4. low \in Int  BY <1>3, KindInt
<1>5. PICK idx : idx = [i \in 1..3 |-> Nth(id[i], low + i - 1)]  OBVIOUS
<1>6. idx \in [1..3 -> Int]
  <2>1. \A i \in 1..3 : id[i] \in Int /\ low + i - 1 \in Int  BY <1>3, <1>4
  <2>2. \A i \in 1..3 : Nth(id[i], low + i - 1) \in Int  BY <2>1, KindInt
  <2>. QED  BY <1>5, <2>2
<1>7. From(p) \in Int  BY FromInt
<1>8. PICK m : m = ChiCode(From(p), low, idx, called)  OBVIOUS
<1>9. m \in Int  BY <1>4, <1>6, <1>7, <1>8 DEF ChiCode
<1>10. Append(codes[p], m) \in Seq(Int)  BY <1>9 DEF TableInv
<1>11. Call(p, Range(id), Append(codes[p], m), m)  BY <1>2, <1>5, <1>8, Zenon
<1>12. tile' \in Int  BY DEF Chi, Null
<1>. QED  BY <1>10, <1>11, <1>12, CallTable

LEMMA PonTable == ASSUME TableInv, NEW p \in Players, Pon(p)  PROVE TableInv'
<1>1. Kind(tile) \in Int  BY KindInt DEF TableInv
<1>2. PICK unused \in Copies(Kind(tile)) \ {tile} :
         LET ids == Copies(Kind(tile)) \ {unused, tile}
             called == 1 + Cardinality({id \in ids : id < tile})
             m == PonCode(From(p), Kind(tile), Nth(unused, Kind(tile)), called)
         IN  Call(p, ids, Append(codes[p], m), m)
  BY DEF Pon
<1>3. PICK ids : ids = Copies(Kind(tile)) \ {unused, tile}  OBVIOUS
<1>4. PICK called : called = 1 + Cardinality({id \in ids : id < tile})  OBVIOUS
<1>5. called \in Int
  <2>1. IsFiniteSet(Copies(Kind(tile)))  BY <1>1, CopiesAre
  <2>2. {id \in ids : id < tile} \subseteq Copies(Kind(tile))  BY <1>3
  <2>3. Cardinality({id \in ids : id < tile}) \in Nat  BY <2>1, <2>2, FS_Subset, FS_CardinalityType
  <2>. QED  BY <1>4, <2>3
<1>6. unused \in Int  BY <1>1, CopiesAre
<1>7. PICK x : x = Nth(unused, Kind(tile))  OBVIOUS
<1>8. x \in Int  BY <1>1, <1>6, <1>7, KindInt
<1>9. From(p) \in Int  BY FromInt
<1>10. PICK m : m = PonCode(From(p), Kind(tile), x, called)  OBVIOUS
<1>11. m \in Int  BY <1>1, <1>5, <1>8, <1>9, <1>10 DEF PonCode
<1>12. Append(codes[p], m) \in Seq(Int)  BY <1>11 DEF TableInv
<1>13. Call(p, ids, Append(codes[p], m), m)  BY <1>2, <1>3, <1>4, <1>7, <1>10, Zenon
<1>14. tile' \in Int  BY DEF Pon, Null
<1>. QED  BY <1>12, <1>13, <1>14, CallTable

LEMMA DaiminkanTable == ASSUME TableInv, NEW p \in Players, Daiminkan(p)  PROVE TableInv'
<1>1. PICK m : m = KanCode(From(p), tile)  OBVIOUS
<1>2. Call(p, Copies(Kind(tile)) \ {tile}, Append(codes[p], m), m)  BY <1>1, Zenon DEF Daiminkan
<1>3. From(p) \in Int  BY FromInt
<1>4. m \in Int  BY <1>1, <1>3 DEF KanCode, TableInv
<1>5. Append(codes[p], m) \in Seq(Int)  BY <1>4 DEF TableInv
<1>6. tile' \in Int  BY DEF Daiminkan, Null
<1>. QED  BY <1>2, <1>5, <1>6, CallTable

LEMMA AnkanTable == ASSUME TableInv, NEW p \in Players, Ankan(p)  PROVE TableInv'
<1>1. PICK kind \in {Kind(id) : id \in held[p]} :
         LET m == KanCode(0, 4 * kind) IN Call(p, Copies(kind), Append(codes[p], m), m)
  BY DEF Ankan
<1>2. PICK m : m = KanCode(0, 4 * kind)  OBVIOUS
<1>3. Call(p, Copies(kind), Append(codes[p], m), m)  BY <1>1, <1>2, Zenon
<1>4. kind \in Int
  <2>1. held[p] \in SUBSET Int  BY DEF TableInv
  <2>. QED  BY <2>1, KindInt
<1>5. m \in Int  BY <1>2, <1>4 DEF KanCode
<1>6. Append(codes[p], m) \in Seq(Int)  BY <1>5 DEF TableInv
<1>7. tile' \in Int  BY DEF Ankan, TableInv
<1>. QED  BY <1>3, <1>6, <1>7, CallTable

LEMMA KakanTable == ASSUME TableInv, NEW p \in Players, Kakan(p)  PROVE TableInv'
<1>1. PICK i \in DOMAIN codes[p], id \in held[p] :
         LET pon == codes[p][i]
             m == KakanCode(Bits(pon, 0, 2), Kind(id), Nth(id, Kind(id)), (Bits(pon, 9, 7) % 3) + 1)
         IN  Call(p, {id}, [codes[p] EXCEPT ![i] = m], m) /\ tile' = id
  BY DEF Kakan
<1>2. PICK pon : pon = codes[p][i]  OBVIOUS
<1>3. PICK m : m = KakanCode(Bits(pon, 0, 2), Kind(id), Nth(id, Kind(id)), (Bits(pon, 9, 7) % 3) + 1)  OBVIOUS
<1>4. Call(p, {id}, [codes[p] EXCEPT ![i] = m], m) /\ tile' = id  BY <1>1, <1>2, <1>3, Zenon
<1>5. id \in Int /\ codes[p] \in Seq(Int) /\ pon \in Int  BY <1>2 DEF TableInv
<1>6. Bits(pon, 0, 2) \in Int /\ Bits(pon, 9, 7) \in Int  BY <1>5, BitsInt
<1>7. Kind(id) \in Int /\ Nth(id, Kind(id)) \in Int  BY <1>5, KindInt
<1>8. (Bits(pon, 9, 7) % 3) + 1 \in Int  BY <1>6
<1>9. m \in Int  BY <1>3, <1>6, <1>7, <1>8 DEF KakanCode
<1>10. [codes[p] EXCEPT ![i] = m] \in Seq(Int)  BY <1>5, <1>9
<1>. QED  BY <1>4, <1>5, <1>10, CallTable

LEMMA NukiTable == ASSUME TableInv, NEW p \in Players, Nuki(p)  PROVE TableInv'
<1>1. PICK id \in held[p] : Call(p, {id}, Append(codes[p], NukiCode(id)), NukiCode(id))  BY DEF Nuki
<1>2. NukiCode(id) \in Int
  <2>1. id \in Int  BY DEF TableInv
  <2>. QED  BY <2>1 DEF NukiCode
<1>3. Append(codes[p], NukiCode(id)) \in Seq(Int)  BY <1>2 DEF TableInv
<1>4. tile' \in Int  BY DEF Nuki, TableInv
<1>. QED  BY <1>1, <1>3, <1>4, CallTable

LEMMA PaysType ==
  ASSUME NEW q, NEW winner, NEW loser, NEW liable
  PROVE  Pays(q, winner, loser, liable) \in Int
<1>1. CASE q = winner  BY <1>1, SMT DEF Pays
<1>2. CASE q # winner /\ loser = Null  BY <1>2, SMT DEF Pays
<1>3. CASE q # winner /\ loser # Null  BY <1>3, SMT DEF Pays
<1>. QED  BY <1>1, <1>2, <1>3

\* What everybody's points change by in a win.
WinDelta(winner, loser, liable) ==
  LET paid == [q \in Players |-> Pays(q, winner, loser, liable)]
  IN  [q \in Players |->
         IF q = winner
         THEN 10 * pot + Total([i \in 1..NumPlayers |-> paid[i - 1]])
         ELSE 0 - paid[q]]

LEMMA WinDeltaType ==
  ASSUME TableInv, NEW winner \in Players, NEW loser, NEW liable
  PROVE  LET delta == WinDelta(winner, loser, liable)
         IN  /\ delta \in [Players -> Int]
             /\ \A q \in Players \ {winner} : delta[q] = 0 - Pays(q, winner, loser, liable)
<1>1. PICK n : n = NumPlayers  OBVIOUS
<1>2. n \in {3, 4} /\ Players = 0..(n - 1)  BY <1>1, PlayersAre
<1>3. PICK paid : paid = [q \in Players |-> Pays(q, winner, loser, liable)]  OBVIOUS
<1>4. \A q \in Players : paid[q] = Pays(q, winner, loser, liable) /\ paid[q] \in Int  BY <1>3, PaysType
<1>5. PICK s : s = [i \in 1..n |-> paid[i - 1]]  OBVIOUS
<1>6. DOMAIN s = 1..n /\ s = [i \in 1..n |-> s[i]]  BY <1>5
<1>7. IsList(s) /\ Len(s) = n  BY <1>2, <1>6, FunIsList
<1>8. \A i \in 1..n : s[i] \in Int
  <2>1. \A i \in 1..n : i - 1 \in Players  BY <1>2
  <2>. QED  BY <1>4, <1>5, <2>1
<1>9. Total(s) \in Int  BY <1>7, <1>8, TotalType
<1>10. PICK delta : delta = WinDelta(winner, loser, liable)  OBVIOUS
<1>11. delta = [q \in Players |-> IF q = winner THEN 10 * pot + Total(s) ELSE 0 - paid[q]]
  BY <1>1, <1>3, <1>5, <1>10 DEF WinDelta
<1>12. 10 * pot + Total(s) \in Int  BY <1>9 DEF TableInv
<1>. QED  BY <1>4, <1>10, <1>11, <1>12

\* A win, its payments named.
WinWith(winner, loser, machi, hai, liable, pao_yaku) ==
  LET delta == WinDelta(winner, loser, liable)
  IN  /\ liable # Null => pao_yaku
      /\ Log([tag |-> "agari", who |-> winner,
              from_who |-> IF loser = Null THEN winner ELSE loser,
              machi |-> machi, hai |-> Sorted(hai), m |-> codes[winner],
              kyotaku |-> pot, pao_yaku |-> pao_yaku, sc |-> Sc(delta)])
      /\ points' = [q \in Players |-> points[q] + delta[q]]
      /\ pot' = 0
      /\ wins' = Append(wins, [winner |-> winner, loser |-> loser, liable |-> liable])

LEMMA WinIs ==
  ASSUME NEW winner, NEW loser, NEW machi, NEW hai, Win(winner, loser, machi, hai)
  PROVE  \E liable \in {Null} \cup CalledFrom(winner), pao_yaku \in BOOLEAN :
           WinWith(winner, loser, machi, hai, liable, pao_yaku)
BY Zenon DEF Win, WinWith, WinDelta, Total

LEMMA EndTable ==
  ASSUME TableInv, EndRound, setup' = setup, points' \in [Players -> Int], pot' \in Int
  PROVE  TableInv'
<1>1. Players' = Players  BY DEF Players, NumPlayers
<1>. QED  BY <1>1 DEF TableInv, EndRound

LEMMA WinTable ==
  ASSUME TableInv, NEW winner \in Players, NEW loser, NEW machi, NEW hai,
         Win(winner, loser, machi, hai), EndRound
  PROVE  TableInv'
<1>1. PICK liable \in {Null} \cup CalledFrom(winner), pao_yaku \in BOOLEAN :
         WinWith(winner, loser, machi, hai, liable, pao_yaku)
  BY WinIs
<1>2. PICK delta : delta = WinDelta(winner, loser, liable)  OBVIOUS
<1>3. delta \in [Players -> Int]  BY <1>2, WinDeltaType
<1>4. points' = [q \in Players |-> points[q] + delta[q]] /\ pot' = 0
  BY <1>1, <1>2, Zenon DEF WinWith
<1>5. points' \in [Players -> Int]  BY <1>3, <1>4 DEF TableInv
<1>6. setup' = setup  BY <1>1 DEF WinWith, Log
<1>. QED  BY <1>4, <1>5, <1>6, EndTable

LEMMA DrawnTable ==
  ASSUME TableInv, NEW type, NEW delta \in [Players -> Int], EndInDraw(type, delta)
  PROVE  TableInv'
<1>1. points' \in [Players -> Int] /\ pot' \in Int  BY DEF EndInDraw, TableInv
<1>2. setup' = setup /\ EndRound  BY DEF EndInDraw, Log
<1>. QED  BY <1>1, <1>2, EndTable

\* What the players who are ready are paid when the wall runs out.
ReadyDelta(ready) ==
  LET n == Cardinality(ready)
      delta == [p \in Players |-> IF p \in ready THEN 30 \div n ELSE 0 - 30 \div (NumPlayers - n)]
  IN  IF n \in {0, NumPlayers} THEN Zeros ELSE delta

LEMMA ReadyDeltaType ==
  ASSUME TableInv, NEW ready \in SUBSET Players
  PROVE  ReadyDelta(ready) \in [Players -> Int]
<1>1. PICK k, n : k = NumPlayers /\ n = Cardinality(ready)  OBVIOUS
<1>2. k \in {3, 4} /\ IsFiniteSet(Players) /\ Cardinality(Players) = k  BY <1>1, PlayersAre
<1>3. n \in Nat /\ n <= k  BY <1>1, <1>2, FS_Subset, FS_CardinalityType
<1>4. CASE n \in {0, k}  BY <1>1, <1>4 DEF ReadyDelta, Zeros
<1>5. CASE n \notin {0, k}
  <2>1. 30 \div n \in Int /\ 0 - 30 \div (k - n) \in Int  BY <1>2, <1>3, <1>5
  <2>2. ReadyDelta(ready) = [p \in Players |-> IF p \in ready THEN 30 \div n ELSE 0 - 30 \div (k - n)]
    BY <1>1, <1>5 DEF ReadyDelta
  <2>. QED  BY <2>1, <2>2
<1>. QED  BY <1>4, <1>5

LEMMA TableStep == TableInv /\ [Next]_vars => TableInv'
<1>. SUFFICES ASSUME TableInv, [Next]_vars PROVE TableInv'  OBVIOUS
<1>1. ASSUME NEW p \in Players, Deal(p)  PROVE TableInv'
  <2>1. setup' = setup /\ Players' = Players  BY <1>1 DEF Deal, Log, Players, NumPlayers
  <2>2. PICK d \in setup.deals : held' = [q \in Players |-> Range(d.hands[q])] /\ wall' = d.wall
    BY <1>1 DEF Deal
  <2>3. d.wall \in Seq(Int) /\ \A q \in Players : d.hands[q] \in Seq(Int)
    <3>1. setup \in Setups  BY DEF TableInv
    <3>2. d.wall \in Seq(Ids) /\ \A q \in Players : d.hands[q] \in Seq(Ids)
      BY <3>1, SetupsAssumption DEF Players, NumPlayers
    <3>3. Ids \subseteq Int  BY SetupsAssumption
    <3>. QED  BY <3>2, <3>3, SeqMonotonic
  <2>4. \A q \in Players : Range(d.hands[q]) \in SUBSET Int  BY <2>3 DEF Range
  <2>. QED  BY <1>1, <2>1, <2>2, <2>3, <2>4 DEF Deal, TableInv, Null
<1>2. ASSUME NEW p \in Players, Reconnect(p)  PROVE TableInv'
  <2>1. Players' = Players  BY <1>2 DEF Reconnect, Log, Players, NumPlayers
  <2>. QED  BY <1>2, <2>1 DEF Reconnect, Log, TableInv
<1>3. ASSUME NEW p \in Players, Draw(p)  PROVE TableInv'
  <2>1. Players' = Players /\ setup' = setup  BY <1>3 DEF Draw, Log, Players, NumPlayers
  <2>2. Head(wall) \in Int /\ Tail(wall) \in Seq(Int)  BY <1>3 DEF Draw, TableInv
  <2>3. held' \in [Players -> SUBSET Int]  BY <1>3, <2>2 DEF Draw, TableInv
  <2>. QED  BY <1>3, <2>1, <2>2, <2>3 DEF Draw, TableInv, Null
<1>4. ASSUME NEW p \in Players, Discard(p)  PROVE TableInv'
  <2>1. Players' = Players /\ setup' = setup  BY <1>4 DEF Discard, Log, Players, NumPlayers
  <2>2. PICK id \in held[p] : held' = [held EXCEPT ![p] = @ \ {id}] /\ tile' = id  BY <1>4 DEF Discard
  <2>. QED  BY <1>4, <2>1, <2>2 DEF Discard, TableInv
<1>5. ASSUME NEW p \in Players, Declare(p)  PROVE TableInv'
  <2>1. Players' = Players  BY <1>5 DEF Declare, Log, Players, NumPlayers
  <2>. QED  BY <1>5, <2>1 DEF Declare, Log, TableInv
<1>6. ASSUME NEW p \in Players, Deposit(p)  PROVE TableInv'
  <2>1. Players' = Players  BY <1>6 DEF Deposit, Log, Players, NumPlayers
  <2>. QED  BY <1>6, <2>1 DEF Deposit, Log, TableInv
<1>7. ASSUME NEW p \in Players, Chi(p) \/ Pon(p) \/ Daiminkan(p) \/ Ankan(p) \/ Kakan(p) \/ Nuki(p)
      PROVE  TableInv'
  BY <1>7, ChiTable, PonTable, DaiminkanTable, AnkanTable, KakanTable, NukiTable
<1>8. ASSUME NEW p \in Players, Tsumo(p)  PROVE TableInv'  BY <1>8, WinTable DEF Tsumo
<1>9. ASSUME NEW p \in Players, Ron(p)  PROVE TableInv'  BY <1>9, WinTable DEF Ron
<1>10. ASSUME ShowDora  PROVE TableInv'
  <2>1. Players' = Players  BY <1>10 DEF ShowDora, Log, Players, NumPlayers
  <2>. QED  BY <1>10, <2>1 DEF ShowDora, Log, TableInv
<1>11. ASSUME Exhausted  PROVE TableInv'
  <2>1. PICK ready \in SUBSET Players : EndInDraw("", ReadyDelta(ready))
    BY <1>11, Zenon DEF Exhausted, ReadyDelta
  <2>. QED  BY <2>1, ReadyDeltaType, DrawnTable
<1>12. ASSUME FourKans  PROVE TableInv'
  <2>1. Zeros \in [Players -> Int]  BY DEF Zeros
  <2>. QED  BY <1>12, <2>1, DrawnTable DEF FourKans
<1>13. ASSUME UNCHANGED vars  PROVE TableInv'
  BY <1>13 DEF vars, TableInv, Players, NumPlayers
<1>. QED
  BY <1>1, <1>2, <1>3, <1>4, <1>5, <1>6, <1>7, <1>8, <1>9, <1>10, <1>11, <1>12, <1>13 DEF Next

-----------------------------------------------------------------------------
(* The record and the table, through a whole game.                         *)

RecordInv ==
  /\ IsGame(game, Players, NumPlayers) /\ History(game, Players)
  /\ phase # "over" => Started
  /\ Started => Follows(Round, Players, points, pot, wins, phase)
  /\ ~Started => wins = << >>

LEMMA NamesSeat ==
  ASSUME NumPlayers \in {3, 4}, NEW e, e.names = Names
  PROVE  Len(make_players(e)) = NumPlayers
<1>1. PICK n, s : n = NumPlayers /\ s = Names  OBVIOUS
<1>2. PICK S, l : l = <<"A", "B", "C", "D">> /\ S = {"A", "B", "C", "D", ""}  OBVIOUS
<1>3. /\ l[1] = "A" /\ l[2] = "B" /\ l[3] = "C" /\ l[4] = "D" /\ "D" # ""
      /\ "A" \in S /\ "B" \in S /\ "C" \in S /\ "D" \in S /\ "" \in S
  BY <1>2
<1>4. s = [i \in 1..4 |-> IF i <= n THEN l[i] ELSE ""]  BY <1>1, <1>2, Zenon DEF Names
<1>5. \A i \in 1..4 : s[i] \in S
  <2>1. \A i \in 1..4 : i = 1 \/ i = 2 \/ i = 3 \/ i = 4  OBVIOUS
  <2>2. \A i \in 1..4 : l[i] \in S  BY <1>3, <2>1, Zenon
  <2>. QED  BY <1>3, <1>4, <2>2
<1>6. s \in [1..4 -> S]  BY <1>4, <1>5
<1>7. s \in Seq(S) /\ Len(s) = 4
  <2>1. PICK k \in Nat : k = 4  OBVIOUS
  <2>2. s \in [1..k -> S]  BY <1>6, <2>1
  <2>3. s \in Seq(S) /\ Len(s) = k  BY ONLY <2>2, k \in Nat
  <2>. QED  BY <2>1, <2>3
<1>8. CASE n = 3
  <2>1. s[4] = ""
    <3>1. 4 \in 1..4 /\ ~(4 <= n)  BY <1>8
    <3>2. s[4] = IF 4 <= n THEN l[4] ELSE ""  BY <1>4, <3>1, Zenon
    <3>. QED  BY <3>1, <3>2, Zenon
  <2>2. make_players(e) = SubSeq(s, 1, 3)  BY <1>1, <2>1, Zenon DEF make_players
  <2>3. Len(SubSeq(s, 1, 3)) = 3  BY <1>7
  <2>. QED  BY <1>1, <1>8, <2>2, <2>3
<1>9. CASE n = 4
  <2>1. s[4] = l[4]  BY <1>4, <1>9
  <2>2. s[4] # ""  BY <1>3, <2>1
  <2>3. make_players(e) = s  BY <1>1, <2>2, Zenon DEF make_players
  <2>. QED  BY <1>1, <1>7, <1>9, <2>3
<1>. QED  BY <1>1, <1>8, <1>9

LEMMA RecordInit == Init => RecordInv
<1>. SUFFICES ASSUME Init PROVE RecordInv  OBVIOUS
<1>1. PICK n : n = NumPlayers  OBVIOUS
<1>2. n \in {3, 4}  BY <1>1, SetupsAssumption DEF Init, NumPlayers
<1>3. PICK e : e = [tag |-> "UN", names |-> Names]  OBVIOUS
<1>4. game = [NoGame EXCEPT !.players = make_players(e)]
  BY <1>3 DEF Init, build_replay, NoGame
<1>5. PICK s : s = make_players(e)  OBVIOUS
<1>6. game = [players |-> s, rounds |-> << >>]  BY <1>4, <1>5 DEF NoGame
<1>9. Len(s) = n
  <2>1. e.names = Names  BY <1>3
  <2>. QED  BY <1>1, <1>2, <1>5, <2>1, NamesSeat
<1>10. s # << >>  BY <1>2, <1>9, EmptyList
<1>11. game.players = s /\ game.rounds = << >> /\ game = [players |-> game.players, rounds |-> game.rounds]
  BY <1>6
<1>12. IsGame(game, Players, NumPlayers)
  <2>1. IsList(<< >>) /\ Len(<< >>) = 0  BY EmptyList
  <2>2. 1..0 = {}  OBVIOUS
  <2>. QED  BY <1>1, <1>9, <1>10, <1>11, <2>1, <2>2 DEF IsGame
<1>13. History(game, Players)
  <2>1. Len(game.rounds) = 0  BY <1>11, EmptyList
  <2>. QED  BY <2>1 DEF History
<1>14. ~Started /\ phase = "over" /\ wins = << >>  BY <1>11 DEF Started, Init
<1>. QED  BY <1>12, <1>13, <1>14 DEF RecordInv

LEMMA RoundIs ==
  ASSUME RecordInv, Started
  PROVE  /\ Len(game.rounds) \in Nat \ {0} /\ Round = game.rounds[Len(game.rounds)]
         /\ IsRound(Round, Players) /\ IsList(game.rounds)
<1>1. IsList(game.rounds)  BY DEF RecordInv, IsGame
<1>2. /\ Len(game.rounds) \in Nat \ {0} /\ Last(game.rounds) = game.rounds[Len(game.rounds)]
  BY <1>1, LastIs DEF Started
<1>3. \A i \in 1..Len(game.rounds) : IsRound(game.rounds[i], Players)  BY DEF RecordInv, IsGame
<1>. QED  BY <1>1, <1>2, <1>3 DEF Round

LEMMA RoundStep ==
  ASSUME RecordInv, Started, NEW e, e.tag \notin {"UN", "INIT"}, Log(e),
         NEW s, s = apply_event(Round, e), IsRound(s, Players), s.initial = Round.initial
  PROVE  /\ Players' = Players /\ NumPlayers' = NumPlayers
         /\ Started' /\ Round' = s
         /\ IsGame(game', Players, NumPlayers) /\ History(game', Players)
<1>1. Players' = Players /\ NumPlayers' = NumPlayers  BY DEF Log, Players, NumPlayers
<1>2. PICK g, h : g = game /\ h = game'  OBVIOUS
<1>3. h = build_replay(g, e)  BY <1>2 DEF Log
<1>4. PICK P, n : P = Players /\ n = NumPlayers  OBVIOUS
<1>5. IsGame(g, P, n) /\ History(g, P)  BY <1>2, <1>4 DEF RecordInv
<1>6. Len(g.rounds) \in Nat \ {0} /\ Last(g.rounds) = g.rounds[Len(g.rounds)]
  BY <1>2, RoundIs DEF Round
<1>7. s = apply_event(Last(g.rounds), e) /\ s.initial = Last(g.rounds).initial
  BY <1>2 DEF Round
<1>8. Len(g.rounds) # 0 /\ IsRound(apply_event(Last(g.rounds), e), P)  BY <1>4, <1>6, <1>7
<1>9. /\ IsGame(h, P, n) /\ Len(h.rounds) = Len(g.rounds) /\ h.players = g.players
      /\ Last(h.rounds) = apply_event(Last(g.rounds), e)
      /\ \A i \in 1..(Len(g.rounds) - 1) : h.rounds[i] = g.rounds[i]
  BY <1>3, <1>5, <1>8, InRound
<1>10. Last(h.rounds) = h.rounds[Len(g.rounds)] /\ h.rounds # << >>
  <2>1. IsList(h.rounds)  BY <1>9 DEF IsGame
  <2>. QED  BY <1>6, <1>9, <2>1, LastIs
<1>11. h.rounds[Len(g.rounds)].initial = g.rounds[Len(g.rounds)].initial
  BY <1>6, <1>7, <1>9, <1>10, Zenon
<1>12. History(h, P)  BY <1>5, <1>6, <1>9, <1>11, HistoryKept
<1>13. Round' = Last(game'.rounds) /\ (Started' <=> game'.rounds # << >>)  BY DEF Round, Started
<1>14. Round' = s /\ Started'  BY <1>2, <1>7, <1>9, <1>10, <1>13, Zenon
<1>. QED  BY <1>1, <1>2, <1>4, <1>9, <1>12, <1>14, Zenon

LEMMA QuietStep ==
  ASSUME RecordInv, Started, NEW e, Log(e),
         \/ e.tag \in {"draw", "discard", "meld"} /\ e.who \in Players
         \/ e.tag = "dora"
         \/ e.tag = "reach" /\ e.step = 1,
         phase # "over", UNCHANGED <<points, pot, wins>>
  PROVE  RecordInv'
<1>1. PICK s : s = apply_event(Round, e)  OBVIOUS
<1>2. IsRound(Round, Players)  BY RoundIs
<1>3. IsRound(s, Players) /\ Quiet(Round, s)  BY <1>1, <1>2, QuietEvents
<1>4. s.initial = Round.initial  BY <1>3, Zenon DEF Quiet
<1>5. e.tag \notin {"UN", "INIT"}  OBVIOUS
<1>6. /\ Players' = Players /\ NumPlayers' = NumPlayers
      /\ Started' /\ Round' = s
      /\ IsGame(game', Players, NumPlayers) /\ History(game', Players)
  BY <1>1, <1>3, <1>4, <1>5, RoundStep
<1>7. Follows(Round, Players, points, pot, wins, phase)  BY DEF RecordInv
<1>8. \A after : Follows(s, Players, points, pot, wins, after)  BY <1>2, <1>3, <1>7, FollowsQuiet
<1>9. Follows(s, Players, points', pot', wins', phase')  BY <1>8, Zenon
<1>10. Follows(Round', Players', points', pot', wins', phase')  BY <1>6, <1>9, Zenon
<1>11. IsGame(game', Players', NumPlayers') /\ History(game', Players')  BY <1>6, Zenon
<1>. QED  BY <1>6, <1>10, <1>11, Zenon DEF RecordInv

\* A round that has just been dealt from the event e.
Dealt(r, P, e) ==
  /\ IsRound(r, P) /\ r.initial = r.last /\ r.events = << >> /\ r.results = << >>
  /\ \A p \in P : r.initial.players[p].score = e.ten[p] * 100 /\ r.initial.players[p].nuki_count = 0
  /\ r.last.kyotaku = e.kyotaku

Deals(e, P) == e.ten \in [P -> Int] /\ \A p \in P : IsList(e.hands[p])

LEMMA DealtRound ==
  ASSUME NEW n, n \in {3, 4}, NEW P, P = 0..(n - 1), NEW e, Deals(e, P), NEW r, r = make_round_record(e, n)
  PROVE  Dealt(r, P, e)
<1>0. PICK pts : pts = e.ten  OBVIOUS
<1>a. pts \in [P -> Int] /\ \A p \in P : IsList(e.hands[p])  BY <1>0 DEF Deals
<1>1. PICK s, t : s = make_player_states(e, n) /\ t = <<to_tile(e.dora)>>  OBVIOUS
<1>2. PICK start : start = [kyotaku |-> e.kyotaku, dora_indicators |-> t, dealer |-> e.oya, players |-> s]
  OBVIOUS
<1>3. r = [initial |-> start, last |-> start, events |-> << >>, results |-> << >>]
  BY <1>1, <1>2, Zenon DEF make_round_record
<1>4. s = [p \in P |->
            [hand |-> make_hand(e.hands[p]), melds |-> << >>, nuki_count |-> 0,
             score |-> pts[p] * 100, seat_wind |-> (p - e.oya + n) % n]]
  BY <1>0, <1>1, Zenon DEF make_player_states
<1>5. ASSUME NEW p \in P
      PROVE  IsPlayer(s[p]) /\ s[p].score = pts[p] * 100 /\ s[p].nuki_count = 0
  <2>1. PICK h, w : h = make_hand(e.hands[p]) /\ w = (p - e.oya + n) % n  OBVIOUS
  <2>2. s[p] = [hand |-> h, melds |-> << >>, nuki_count |-> 0, score |-> pts[p] * 100, seat_wind |-> w]
    BY <1>4, <2>1
  <2>3. h \in [Codes -> Int]
    <3>1. PICK ids : ids = e.hands[p] /\ IsList(ids)  BY <1>a
    <3>2. IsFiniteSet(DOMAIN ids)
      <4>1. DOMAIN ids = 1..Len(ids) /\ Len(ids) \in Nat  BY <3>1, AppendList
      <4>. QED  BY <4>1, FS_Interval
    <3>3. \A c : {i \in DOMAIN ids : to_tile(ids[i]) = c} \subseteq DOMAIN ids  OBVIOUS
    <3>. DEFINE N(c) == Cardinality({i \in DOMAIN ids : to_tile(ids[i]) = c})
    <3>4. \A c : N(c) \in Nat  BY <3>2, <3>3, FS_Subset, FS_CardinalityType
    <3>5. h = [c \in Codes |-> N(c)]  BY <2>1, <3>1, Zenon DEF make_hand
    <3>. HIDE DEF N
    <3>. QED  BY <3>4, <3>5
  <2>4. pts[p] * 100 \in Int  BY <1>a
  <2>. QED  BY <2>2, <2>3, <2>4 DEF IsPlayer
<1>6. s = [p \in P |-> s[p]] /\ DOMAIN s = P  BY <1>4
<1>7. /\ start = [kyotaku |-> start.kyotaku, dora_indicators |-> start.dora_indicators,
                  dealer |-> start.dealer, players |-> start.players]
      /\ start.players = s /\ start.kyotaku = e.kyotaku
  BY <1>2
<1>8. IsState(start, P)  BY <1>5, <1>6, <1>7, Zenon DEF IsState
<1>9. /\ r = [initial |-> r.initial, last |-> r.last, events |-> r.events, results |-> r.results]
      /\ r.initial = start /\ r.last = start /\ r.events = << >> /\ r.results = << >>
  BY <1>3
<1>10. IsRound(r, P)  BY <1>8, <1>9, EmptyList, Zenon DEF IsRound
<1>. QED  BY <1>0, <1>5, <1>7, <1>9, <1>10, Zenon DEF Dealt

LEMMA DealtBalance ==
  ASSUME NEW P, NEW r, r.events = << >>, r.results = << >>, NEW p, r.initial.players[p].score \in Int
  PROVE  Paid(r, p) = 0 /\ Balance(r, p) = r.initial.players[p].score
<1>1. PICK f : f = Deltas(r, p)  OBVIOUS
<1>2. DOMAIN f = 1..0 /\ f = [i \in 1..0 |-> f[i]]
  <2>1. f = [j \in DOMAIN << >> |-> r.results[j].score_deltas[p]]  BY <1>1, Zenon DEF Deltas
  <2>2. DOMAIN << >> = 1..0  BY EmptyList, AppendList
  <2>. QED  BY <2>1, <2>2
<1>3. IsList(f) /\ Len(f) = 0  BY <1>2, FunIsList
<1>4. f = << >>  BY <1>3, LastIs
<1>5. Total(<< >>) = 0
  <2>1. Added(0, << >>) = 0  BY FoldEmpty, Zenon
  <2>. QED  BY <2>1, Zenon DEF Total, Added
<1>6. Paid(r, p) = 0  BY <1>1, <1>4, <1>5, Zenon DEF Paid
<1>7. Riichis(r, p) = {}
  <2>1. DOMAIN r.events = {}
    <3>1. DOMAIN << >> = 1..0  BY EmptyList, AppendList
    <3>. QED  BY <3>1
  <2>. QED  BY <2>1 DEF Riichis
<1>8. Cardinality(Riichis(r, p)) = 0  BY <1>7, FS_EmptySet
<1>. QED  BY <1>6, <1>8 DEF Balance

\* A round is appended to the record.
LEMMA NewRound ==
  ASSUME NEW P, NEW n, NEW g, IsGame(g, P, n), History(g, P),
         NEW e, e.tag = "INIT", NEW r, r = make_round_record(e, n), IsRound(r, P),
         g.rounds # << >> =>
           \A p \in P : r.initial.players[p].score = Balance(Last(g.rounds), p)
  PROVE  LET h == build_replay(g, e)
         IN  /\ IsGame(h, P, n) /\ History(h, P) /\ h.rounds # << >> /\ Last(h.rounds) = r
<1>1. PICK s, m, t : s = g.rounds /\ m = Len(s) /\ t = Append(s, r)  OBVIOUS
<1>2. /\ IsList(s) /\ m \in Nat /\ IsList(t) /\ Len(t) = m + 1 /\ t[m + 1] = r
      /\ \A i \in 1..m : t[i] = s[i]
  BY <1>1, AppendList DEF IsGame
<1>3. PICK h : h = build_replay(g, e)  OBVIOUS
<1>4. h = [players |-> g.players, rounds |-> t]
  <2>1. PICK a : a = g.players  OBVIOUS
  <2>2. g = [players |-> a, rounds |-> s] /\ Len(a) = n  BY <1>1, <2>1, Zenon DEF IsGame
  <2>3. h = [g EXCEPT !.rounds = Append(@, r)]
    <3>1. h = [g EXCEPT !.rounds = Append(@, make_round_record(e, Len(g.players)))]
      BY <1>3 DEF build_replay
    <3>. QED  BY <2>1, <2>2, <3>1, Zenon
  <2>4. h = [g EXCEPT !.rounds = t]  BY <1>1, <2>3, Zenon
  <2>5. [g EXCEPT !.rounds = t] = [players |-> a, rounds |-> t]  BY ONLY <2>2
  <2>. QED  BY <2>1, <2>4, <2>5, Zenon
<1>5. h.players = g.players /\ h.rounds = t /\ h = [players |-> h.players, rounds |-> h.rounds]  BY <1>4
<1>6. ASSUME NEW i \in 1..(m + 1)  PROVE IsRound(t[i], P)
  <2>1. CASE i = m + 1  BY <1>2, <2>1
  <2>2. CASE i # m + 1
    <3>1. i \in 1..m  BY <1>2, <2>2
    <3>2. t[i] = s[i] /\ IsRound(s[i], P)  BY <1>1, <1>2, <3>1 DEF IsGame
    <3>. QED  BY <3>2
  <2>. QED  BY <2>1, <2>2
<1>7. IsGame(h, P, n)
  <2>1. g.players # << >> /\ Len(g.players) = n  BY DEF IsGame
  <2>. QED  BY <1>2, <1>5, <1>6, <2>1, Zenon DEF IsGame
<1>8. ASSUME NEW i \in 2..(m + 1), NEW p \in P
      PROVE  t[i].initial.players[p].score = Balance(t[i - 1], p)
  <2>1. i - 1 \in 1..m /\ t[i - 1] = s[i - 1]  BY <1>2
  <2>2. CASE i = m + 1
    <3>1. s # << >> /\ Last(s) = s[m] /\ i - 1 = m
      <4>1. m # 0 /\ i - 1 = m  BY <1>2, <2>2
      <4>. QED  BY <1>1, <1>2, <4>1, LastIs
    <3>2. r.initial.players[p].score = Balance(Last(s), p)  BY <1>1, <3>1
    <3>3. t[i] = r  BY <1>2, <2>2
    <3>. QED  BY <2>1, <3>1, <3>2, <3>3, Zenon
  <2>3. CASE i # m + 1
    <3>1. i \in 2..m /\ i \in 1..m  BY <1>2, <2>3
    <3>2. s[i].initial.players[p].score = Balance(s[i - 1], p)  BY <1>1, <3>1, Zenon DEF History
    <3>3. t[i] = s[i]  BY <1>2, <3>1
    <3>. QED  BY <2>1, <3>2, <3>3, Zenon
  <2>. QED  BY <2>2, <2>3
<1>9. History(h, P)  BY <1>2, <1>5, <1>8, Zenon DEF History
<1>10. h.rounds # << >> /\ Last(h.rounds) = r
  <2>1. t # << >>
    <3>1. Len(t) # 0  BY <1>2
    <3>. QED  BY <1>2, <3>1, LastIs
  <2>2. Last(t) = r  BY <1>1, <1>2, LastIs
  <2>. QED  BY <1>5, <2>1, <2>2
<1>. QED  BY <1>3, <1>7, <1>9, <1>10, Zenon

LEMMA DealStep == ASSUME TableInv, RecordInv, NEW oya \in Players, Deal(oya)  PROVE RecordInv'
<1>1. PICK n, P : n = NumPlayers /\ P = Players  OBVIOUS
<1>2. n \in {3, 4} /\ P = 0..(n - 1)  BY <1>1, PlayersAre
<1>3. PICK d \in setup.deals :
         Log([tag |-> "INIT", oya |-> oya, ten |-> points, kyotaku |-> pot, dora |-> d.dora, hands |-> d.hands])
  BY Zenon DEF Deal
<1>4. PICK e : e = [tag |-> "INIT", oya |-> oya, ten |-> points, kyotaku |-> pot, dora |-> d.dora,
                    hands |-> d.hands]
  OBVIOUS
<1>5. e.tag = "INIT" /\ e.ten = points /\ e.kyotaku = pot /\ e.hands = d.hands  BY <1>4
<1>6. Players' = P /\ NumPlayers' = n  BY <1>1, <1>3 DEF Log, Players, NumPlayers
<1>7. points \in [P -> Int] /\ pot \in Int  BY <1>1 DEF TableInv
<1>8. \A p \in P : IsList(e.hands[p])
  <2>1. setup \in Setups  BY DEF TableInv
  <2>2. \A p \in P : d.hands[p] \in Seq(Ids)  BY <1>1, <2>1, SetupsAssumption DEF Players, NumPlayers
  <2>. QED  BY <1>5, <2>2 DEF IsList
<1>9. PICK r : r = make_round_record(e, n)  OBVIOUS
<1>10. PICK pts : pts = points  OBVIOUS
<1>11. /\ IsRound(r, P) /\ r.initial = r.last /\ r.events = << >> /\ r.results = << >>
       /\ \A p \in P : r.initial.players[p].score = pts[p] * 100
       /\ r.last.kyotaku = e.kyotaku
  <2>1. Deals(e, P)  BY <1>5, <1>7, <1>8, Zenon DEF Deals
  <2>2. Dealt(r, P, e)  BY <1>2, <1>9, <2>1, DealtRound, Zenon
  <2>. QED  BY <1>5, <1>10, <2>2, Zenon DEF Dealt
<1>12. ASSUME NEW p \in P  PROVE Paid(r, p) = 0 /\ pts[p] \in Int /\ 100 * pts[p] = Balance(r, p)
  <2>1. r.initial.players[p].score \in Int /\ pts[p] \in Int /\ r.initial.players[p].score = 100 * pts[p]
    BY <1>7, <1>10, <1>11
  <2>2. Paid(r, p) = 0 /\ Balance(r, p) = r.initial.players[p].score  BY <1>11, <2>1, DealtBalance
  <2>. QED  BY <2>1, <2>2
<1>13. PICK g, h : g = game /\ h = game'  OBVIOUS
<1>14. h = build_replay(g, e)  BY <1>3, <1>4, <1>13, Zenon DEF Log
<1>15. IsGame(g, P, n) /\ History(g, P)  BY <1>1, <1>13, Zenon DEF RecordInv
<1>16. ASSUME g.rounds # << >>, NEW p \in P
       PROVE  r.initial.players[p].score = Balance(Last(g.rounds), p)
  <2>1. Follows(Last(g.rounds), P, pts, pot, wins, phase)
    BY <1>1, <1>10, <1>13, <1>16 DEF RecordInv, Started, Round
  <2>2. 100 * pts[p] = Balance(Last(g.rounds), p)  BY <2>1, Zenon DEF Follows
  <2>. QED  BY <1>11, <1>12, <2>2
<1>17. IsGame(h, P, n) /\ History(h, P) /\ h.rounds # << >> /\ Last(h.rounds) = r
  BY <1>5, <1>9, <1>11, <1>14, <1>15, <1>16, NewRound
<1>18. Started' /\ Round' = r
  <2>1. Round' = Last(game'.rounds) /\ (Started' <=> game'.rounds # << >>)  BY DEF Round, Started
  <2>. QED  BY <1>13, <1>17, <2>1, Zenon
<1>19. points' = pts /\ pot' = pot /\ wins' = << >>  BY <1>10 DEF Deal
<1>20. \A after : Follows(r, P, pts, pot, << >>, after)
  <2>1. IsPaid(r, P)  BY <1>12 DEF IsPaid
  <2>2. IsList(<< >>) /\ Len(<< >>) = 0 /\ 1..0 = {}  BY EmptyList
  <2>. QED  BY <1>5, <1>11, <1>12, <2>1, <2>2 DEF Follows
<1>21. Follows(Round', Players', points', pot', wins', phase')  BY <1>6, <1>18, <1>19, <1>20, Zenon
<1>22. IsGame(game', Players', NumPlayers') /\ History(game', Players')  BY <1>6, <1>13, <1>17, Zenon
<1>. QED  BY <1>18, <1>21, <1>22, Zenon DEF RecordInv

\* The players who come back are already known.
LEMMA ReconnectStep == ASSUME TableInv, RecordInv, NEW p \in Players, Reconnect(p)  PROVE RecordInv'
<1>1. PICK names : game' = build_replay(game, [tag |-> "UN", names |-> names])  BY DEF Reconnect, Log
<1>2. game.players # << >>  BY DEF RecordInv, IsGame
<1>3. game' = game  BY <1>1, <1>2 DEF build_replay
<1>4. /\ Players' = Players /\ NumPlayers' = NumPlayers /\ points' = points /\ pot' = pot
      /\ wins' = wins /\ phase' = phase
  BY DEF Reconnect, Log, Players, NumPlayers
<1>5. Round' = Round /\ (Started' <=> Started)  BY <1>3 DEF Round, Started
<1>. QED  BY <1>3, <1>4, <1>5, Zenon DEF RecordInv

\* A riichi is deposited.
LEMMA DepositStep == ASSUME TableInv, RecordInv, NEW p \in Players, Deposit(p)  PROVE RecordInv'
<1>1. Started /\ phase # "over"  BY DEF RecordInv, Deposit
<1>2. PICK e : e = [tag |-> "reach", who |-> p, step |-> 2]  OBVIOUS
<1>3. e.tag = "reach" /\ e.step = 2 /\ e.who = p  BY <1>2
<1>4. Log(e)  BY <1>2, Zenon DEF Deposit
<1>5. PICK s : s = apply_event(Round, e)  OBVIOUS
<1>6. IsRound(Round, Players)  BY <1>1, RoundIs
<1>7. PICK P, r, pts, dep, ws, ph :
         P = Players /\ r = Round /\ pts = points /\ dep = pot /\ ws = wins /\ ph = phase
  OBVIOUS
<1>8. Follows(r, P, pts, dep, ws, ph)  BY <1>1, <1>7 DEF RecordInv
<1>9. \A after : IsRound(s, P) /\ s.initial = r.initial
                 /\ Follows(s, P, [pts EXCEPT ![p] = @ - 10], dep + 1, ws, after)
  <2>1. DOMAIN pts = P /\ dep \in Int /\ p \in P /\ IsRound(r, P) /\ s = apply_event(r, e) /\ ph # "over"
    BY <1>1, <1>5, <1>6, <1>7 DEF TableInv
  <2>. QED  BY <1>3, <1>8, <2>1, FollowsRiichi
<1>10. e.tag \notin {"UN", "INIT"}  BY <1>3
<1>11. /\ Players' = Players /\ NumPlayers' = NumPlayers
       /\ Started' /\ Round' = s
       /\ IsGame(game', Players, NumPlayers) /\ History(game', Players)
  <2>1. IsRound(s, Players) /\ s.initial = Round.initial  BY <1>7, <1>9, Zenon
  <2>. QED  BY <1>1, <1>4, <1>5, <1>10, <2>1, RoundStep
<1>12. points' = [pts EXCEPT ![p] = @ - 10] /\ pot' = dep + 1 /\ wins' = ws  BY <1>7 DEF Deposit
<1>13. Follows(Round', Players', points', pot', wins', phase')  BY <1>7, <1>9, <1>11, <1>12, Zenon
<1>14. IsGame(game', Players', NumPlayers') /\ History(game', Players')  BY <1>11, Zenon
<1>. QED  BY <1>11, <1>13, <1>14, Zenon DEF RecordInv

\* Nobody is liable to themselves for a call.
LEMMA CallersAre ==
  ASSUME TableInv, NEW p \in Players
  PROVE  CalledFrom(p) \subseteq Players \ {p}
<1>1. \A i \in DOMAIN codes[p] : codes[p][i] \in Int  BY DEF TableInv
<1>2. \A i \in DOMAIN codes[p] : Bits(codes[p][i], 0, 2) \in Int  BY <1>1, BitsInt
<1>3. p \in Int  BY PlayersAre
<1>4. \A i \in DOMAIN codes[p] : p + Bits(codes[p][i], 0, 2) \in Int  BY <1>2, <1>3
<1>5. \A i \in DOMAIN codes[p] : (p + Bits(codes[p][i], 0, 2)) % NumPlayers \in Players
  BY <1>4, PlayersAre, Zenon
<1>. QED  BY <1>5, Zenon DEF CalledFrom

\* A win of w among n players, its payments named, and the event that tells it.
WinOf(n, P, w, loser, liable, pao_yaku, delta) ==
  /\ n \in {3, 4} /\ P = 0..(n - 1) /\ w \in P
  /\ loser \in P \cup {Null} /\ loser # w /\ liable \in P \cup {Null} /\ liable # w
  /\ pao_yaku \in BOOLEAN /\ (liable # Null => pao_yaku)
  /\ delta \in [P -> Int] /\ \A q \in P \ {w} : delta[q] = 0 - Pays(q, w, loser, liable)

Tells(e, n, w, loser, pao_yaku, dep, pts, delta) ==
  /\ e.who = w /\ e.from_who = (IF loser = Null THEN w ELSE loser)
  /\ e.kyotaku = dep /\ e.pao_yaku = pao_yaku /\ e.sc = ScOf(n, pts, delta)

Exact(deltas, P, delta) == \A p \in P : delta[p] \in Int /\ deltas[p] = delta[p] * 100

LEMMA WinDeltas ==
  ASSUME NEW n, NEW P, NEW w, NEW loser, NEW liable, NEW pao_yaku, NEW delta,
         WinOf(n, P, w, loser, liable, pao_yaku, delta), NEW pts,
         NEW deltas, deltas = to_score_deltas(ScOf(n, pts, delta), n)
  PROVE  /\ PaysFor(n, w, loser, liable, pao_yaku, deltas)
         /\ Exact(deltas, P, delta)
<1>1. /\ n \in {3, 4} /\ P = 0..(n - 1) /\ w \in P
      /\ loser \in P \cup {Null} /\ loser # w /\ liable \in P \cup {Null} /\ liable # w
      /\ pao_yaku \in BOOLEAN /\ (liable # Null => pao_yaku)
      /\ delta \in [P -> Int] /\ \A q \in P \ {w} : delta[q] = 0 - Pays(q, w, loser, liable)
  BY Zenon DEF WinOf
<1>2. DOMAIN deltas = 0..(n - 1) /\ \A p \in 0..(n - 1) : deltas[p] = delta[p] * 100
  <2>1. n \in Nat  BY <1>1
  <2>2. Hundreds(to_score_deltas(ScOf(n, pts, delta), n), n, delta)  BY <2>1, DeltasRead, Zenon
  <2>. QED  BY <2>2, Zenon DEF Hundreds
<1>3. ASSUME NEW q \in (0..(n - 1)) \ {w}  PROVE deltas[q] = (0 - Pays(q, w, loser, liable)) * 100
  <2>1. deltas[q] = delta[q] * 100 /\ delta[q] = 0 - Pays(q, w, loser, liable)  BY <1>1, <1>2
  <2>. QED  BY <2>1, Zenon
<1>4. w \in 0..(n - 1) /\ loser \in (0..(n - 1)) \cup {Null} /\ liable \in (0..(n - 1)) \cup {Null}
  BY <1>1
<1>5. PaysFor(n, w, loser, liable, pao_yaku, deltas)  BY <1>1, <1>2, <1>3, <1>4, Zenon DEF PaysFor
<1>6. \A p \in P : delta[p] \in Int /\ deltas[p] = delta[p] * 100  BY <1>1, <1>2
<1>. QED  BY <1>5, <1>6, Zenon DEF Exact

LEMMA SeatsCount == ASSUME NEW n \in {3, 4}  PROVE Cardinality(0..(n - 1)) = n
BY FS_Interval

Reads(result, P, delta, dep, liable, loser) ==
  States(result, P, delta, dep) /\ result.pao = Told(liable, loser)

LEMMA WinResult ==
  ASSUME NEW n, NEW P, NEW w, NEW loser, NEW liable, NEW pao_yaku, NEW delta,
         WinOf(n, P, w, loser, liable, pao_yaku, delta), NEW pts, NEW dep,
         NEW state, IsState(state, P), NEW e, Tells(e, n, w, loser, pao_yaku, dep, pts, delta)
  PROVE  Reads(make_win_result(state, e), P, delta, dep, liable, loser)
<1>1. PICK deltas : deltas = to_score_deltas(ScOf(n, pts, delta), n)  OBVIOUS
<1>2. PaysFor(n, w, loser, liable, pao_yaku, deltas) /\ Exact(deltas, P, delta)
  BY <1>1, WinDeltas, Zenon
<1>3. Inferred(deltas, w, loser, liable, pao_yaku)  BY <1>2, PaoRead, Zenon
<1>4. Cardinality(DOMAIN state.players) = n
  <2>1. n \in {3, 4} /\ P = 0..(n - 1)  BY Zenon DEF WinOf
  <2>2. Cardinality(0..(n - 1)) = n  BY <2>1, SeatsCount, Zenon
  <2>3. DOMAIN state.players = P  BY Zenon DEF IsState
  <2>. QED  BY <2>1, <2>2, <2>3, Zenon
<1>5. (IF e.who = e.from_who THEN Null ELSE e.from_who) = loser
  <2>1. loser # w  BY Zenon DEF WinOf
  <2>2. CASE loser = Null  BY <2>2 DEF Tells
  <2>3. CASE loser # Null  BY <2>1, <2>3 DEF Tells
  <2>. QED  BY <2>2, <2>3
<1>6. PICK result : result = make_win_result(state, e)  OBVIOUS
<1>7. /\ result.kyotaku = dep /\ result.score_deltas = deltas
      /\ result.pao = to_pao_info(deltas, w, loser, pao_yaku)
  <2>1. PICK l : l = IF e.who = e.from_who THEN Null ELSE e.from_who  OBVIOUS
  <2>2. PICK d : d = to_score_deltas(e.sc, Cardinality(DOMAIN state.players))  OBVIOUS
  <2>3. l = loser /\ d = deltas  BY <1>1, <1>4, <1>5, <2>1, <2>2, Zenon DEF Tells
  <2>4. /\ result.kyotaku = e.kyotaku /\ result.score_deltas = d
        /\ result.pao = to_pao_info(d, e.who, l, e.pao_yaku)
    BY <1>6, <2>1, <2>2 DEF make_win_result
  <2>. QED  BY <2>3, <2>4, Zenon DEF Tells
<1>8. States(result, P, delta, dep)  BY <1>2, <1>7, Zenon DEF States, Exact
<1>. QED  BY <1>3, <1>6, <1>7, <1>8, Zenon DEF Inferred, Reads

\* A win is recorded.
LEMMA WinStep ==
  ASSUME TableInv, RecordInv, NEW winner \in Players, NEW loser \in Players \cup {Null}, loser # winner,
         NEW machi, NEW hai, Win(winner, loser, machi, hai), EndRound, phase # "over" \/ wins # << >>
  PROVE  RecordInv'
<1>1. PICK n, P, r, pts, dep, ws, ph :
         n = NumPlayers /\ P = Players /\ r = Round /\ pts = points /\ dep = pot /\ ws = wins /\ ph = phase
  OBVIOUS
<1>2. Started  BY DEF RecordInv
<1>3. PICK liable \in {Null} \cup CalledFrom(winner), pao_yaku \in BOOLEAN :
         WinWith(winner, loser, machi, hai, liable, pao_yaku)
  BY WinIs
<1>4. PICK delta : delta = WinDelta(winner, loser, liable)  OBVIOUS
<1>5. WinOf(n, P, winner, loser, liable, pao_yaku, delta)
  <2>1. n \in {3, 4} /\ P = 0..(n - 1) /\ Null \notin P  BY <1>1, PlayersAre
  <2>2. liable \in P \cup {Null} /\ liable # winner  BY <1>1, <1>3, <2>1, CallersAre
  <2>3. liable # Null => pao_yaku  BY <1>3 DEF WinWith
  <2>4. /\ delta \in [Players -> Int]
        /\ \A q \in Players \ {winner} : delta[q] = 0 - Pays(q, winner, loser, liable)
    BY <1>4, WinDeltaType, Zenon
  <2>. QED  BY <1>1, <2>1, <2>2, <2>3, <2>4, Zenon DEF WinOf
<1>6. PICK e : e = [tag |-> "agari", who |-> winner,
                    from_who |-> IF loser = Null THEN winner ELSE loser,
                    machi |-> machi, hai |-> Sorted(hai), m |-> codes[winner],
                    kyotaku |-> pot, pao_yaku |-> pao_yaku, sc |-> Sc(delta)]
  OBVIOUS
<1>7. e.tag = "agari" /\ Tells(e, n, winner, loser, pao_yaku, dep, pts, delta)
  <2>1. Sc(delta) = ScOf(n, pts, delta)  BY <1>1, Zenon DEF Sc, ScOf
  <2>. QED  BY <1>1, <1>6, <2>1 DEF Tells
<1>8. Log(e)  BY <1>3, <1>4, <1>6, Zenon DEF WinWith
<1>9. IsRound(r, P)  BY <1>1, <1>2, RoundIs
<1>10. PICK s : s = apply_event(r, e)  OBVIOUS
<1>11. PICK result : result = make_win_result(r.last, e)  OBVIOUS
<1>12. PICK event : event.tag # "Riichi" /\ s = Ended(r, event, result)
  BY <1>7, <1>9, <1>10, <1>11, ResultEvents
<1>13. States(result, P, delta, dep) /\ result.pao = Told(liable, loser)
  <2>1. IsState(r.last, P)  BY <1>9, Zenon DEF IsRound
  <2>2. Tells(e, n, winner, loser, pao_yaku, dep, pts, delta)  BY <1>7
  <2>3. Reads(make_win_result(r.last, e), P, delta, dep, liable, loser)
    BY <1>5, <2>1, <2>2, WinResult, Zenon
  <2>. QED  BY <1>11, <2>3, Zenon DEF Reads
<1>14. PICK win : win = [winner |-> winner, loser |-> loser, liable |-> liable]  OBVIOUS
<1>15. result.pao = Told(win.liable, win.loser)
  <2>1. win.liable = liable /\ win.loser = loser  BY <1>14
  <2>. QED  BY <1>13, <2>1, Zenon
<1>16. PICK after : after = [q \in P |-> pts[q] + delta[q]]  OBVIOUS
<1>17. Moved(after, P, pts, delta)  BY <1>16, Zenon DEF Moved
<1>18. Follows(r, P, pts, dep, ws, ph) /\ (ph # "over" \/ ws # << >>)  BY <1>1, <1>2 DEF RecordInv
<1>19. IsRound(s, P) /\ s.initial = r.initial /\ Follows(s, P, after, 0, Append(ws, win), "over")
  <2>1. EndsWith(r, s, P, result)  BY <1>9, <1>12, Zenon DEF EndsWith
  <2>2. Leads(r, s, P) /\ Follows(s, P, after, 0, Append(ws, win), "over")
    BY <1>13, <1>15, <1>17, <1>18, <2>1, FollowsWin, Zenon
  <2>. QED  BY <2>2, Zenon DEF Leads
<1>20. /\ Players' = Players /\ NumPlayers' = NumPlayers
       /\ Started' /\ Round' = s
       /\ IsGame(game', Players, NumPlayers) /\ History(game', Players)
  <2>1. IsRound(s, Players) /\ s.initial = Round.initial /\ s = apply_event(Round, e)
    BY <1>1, <1>10, <1>19, Zenon
  <2>2. e.tag \notin {"UN", "INIT"}  BY <1>7
  <2>. QED  BY <1>2, <1>8, <2>1, <2>2, RoundStep
<1>21. points' = after /\ pot' = 0 /\ wins' = Append(ws, win) /\ phase' = "over"
  BY <1>1, <1>3, <1>4, <1>14, <1>16, Zenon DEF WinWith, EndRound
<1>22. Follows(Round', Players', points', pot', wins', phase')  BY <1>1, <1>19, <1>20, <1>21, Zenon
<1>23. IsGame(game', Players', NumPlayers') /\ History(game', Players')  BY <1>20, Zenon
<1>. QED  BY <1>20, <1>22, <1>23, Zenon DEF RecordInv

\* A round that ends without a win is recorded.
LEMMA DrawnStep ==
  ASSUME TableInv, RecordInv, phase # "over", NEW type, NEW delta \in [Players -> Int], EndInDraw(type, delta)
  PROVE  RecordInv'
<1>1. PICK n, P, r, pts, dep, ws, ph :
         n = NumPlayers /\ P = Players /\ r = Round /\ pts = points /\ dep = pot /\ ws = wins /\ ph = phase
  OBVIOUS
<1>2. Started  BY DEF RecordInv
<1>3. PICK e : e = [tag |-> "ryukyoku", type |-> type, kyotaku |-> pot, sc |-> Sc(delta)]  OBVIOUS
<1>4. e.tag = "ryukyoku" /\ e.kyotaku = dep /\ e.sc = ScOf(n, pts, delta)
  <2>1. Sc(delta) = ScOf(n, pts, delta)  BY <1>1, Zenon DEF Sc, ScOf
  <2>. QED  BY <1>1, <1>3, <2>1
<1>5. Log(e)  BY <1>3, Zenon DEF EndInDraw
<1>6. IsRound(r, P)  BY <1>1, <1>2, RoundIs
<1>7. PICK s : s = apply_event(r, e)  OBVIOUS
<1>8. PICK event, kind : event.tag # "Riichi" /\ s = Ended(r, event, make_ryukyoku_result(r.last, e, kind))
  BY <1>4, <1>6, <1>7, ResultEvents
<1>9. PICK result : result = make_ryukyoku_result(r.last, e, kind)  OBVIOUS
<1>10. States(result, P, delta, dep)
  <2>1. n \in {3, 4} /\ P = 0..(n - 1)  BY <1>1, PlayersAre
  <2>2. DOMAIN r.last.players = P  BY <1>6, Zenon DEF IsRound, IsState
  <2>3. Cardinality(DOMAIN r.last.players) = n
    <3>1. Cardinality(0..(n - 1)) = n  BY <2>1, SeatsCount, Zenon
    <3>. QED  BY <2>1, <2>2, <3>1, Zenon
  <2>4. PICK deltas : deltas = to_score_deltas(e.sc, Cardinality(DOMAIN r.last.players))  OBVIOUS
  <2>5. Hundreds(deltas, n, delta)
    <3>1. n \in Nat  BY <2>1
    <3>2. Hundreds(to_score_deltas(ScOf(n, pts, delta), n), n, delta)  BY <3>1, DeltasRead, Zenon
    <3>. QED  BY <1>4, <2>3, <2>4, <3>2, Zenon
  <2>6. result.kyotaku = e.kyotaku /\ result.score_deltas = deltas
    BY <1>9, <2>4 DEF make_ryukyoku_result
  <2>7. \A p \in P : delta[p] \in Int  BY <1>1
  <2>. QED  BY <1>4, <2>1, <2>5, <2>6, <2>7, Zenon DEF States, Hundreds
<1>11. PICK after : after = [q \in P |-> pts[q] + delta[q]]  OBVIOUS
<1>12. Moved(after, P, pts, delta)  BY <1>11, Zenon DEF Moved
<1>13. Follows(r, P, pts, dep, ws, ph) /\ ph # "over"  BY <1>1, <1>2 DEF RecordInv
<1>14. s = Ended(r, event, result)  BY <1>8, <1>9, Zenon
<1>15. IsRound(s, P) /\ s.initial = r.initial /\ Follows(s, P, after, dep, ws, "over")
  <2>1. EndsWith(r, s, P, result)  BY <1>6, <1>8, <1>14, Zenon DEF EndsWith
  <2>2. Leads(r, s, P) /\ Follows(s, P, after, dep, ws, "over")
    BY <1>10, <1>12, <1>13, <2>1, FollowsDraw, Zenon
  <2>. QED  BY <2>2, Zenon DEF Leads
<1>16. /\ Players' = Players /\ NumPlayers' = NumPlayers
       /\ Started' /\ Round' = s
       /\ IsGame(game', Players, NumPlayers) /\ History(game', Players)
  <2>1. IsRound(s, Players) /\ s.initial = Round.initial /\ s = apply_event(Round, e)
    BY <1>1, <1>7, <1>15, Zenon
  <2>2. e.tag \notin {"UN", "INIT"}  BY <1>4
  <2>. QED  BY <1>2, <1>5, <2>1, <2>2, RoundStep
<1>17. points' = after /\ pot' = dep /\ wins' = ws /\ phase' = "over"
  BY <1>1, <1>11, Zenon DEF EndInDraw, EndRound
<1>18. Follows(Round', Players', points', pot', wins', phase')  BY <1>1, <1>15, <1>16, <1>17, Zenon
<1>19. IsGame(game', Players', NumPlayers') /\ History(game', Players')  BY <1>16, Zenon
<1>. QED  BY <1>16, <1>18, <1>19, Zenon DEF RecordInv

LEMMA CallStep ==
  ASSUME RecordInv, phase # "over", NEW p \in Players, NEW ids, NEW newcodes, NEW m, Call(p, ids, newcodes, m)
  PROVE  RecordInv'
<1>1. PICK e : e = [tag |-> "meld", who |-> p, m |-> m]  OBVIOUS
<1>2. e.tag \in {"draw", "discard", "meld"} /\ e.who \in Players  BY <1>1
<1>3. Log(e) /\ UNCHANGED <<points, pot, wins>>  BY <1>1 DEF Call
<1>4. Started  BY DEF RecordInv
<1>. QED  BY <1>2, <1>3, <1>4, QuietStep

LEMMA CallsStep ==
  ASSUME RecordInv, NEW p \in Players, Chi(p) \/ Pon(p) \/ Daiminkan(p) \/ Ankan(p) \/ Kakan(p) \/ Nuki(p)
  PROVE  RecordInv'
<1>1. \E ids, newcodes, m : Call(p, ids, newcodes, m)
  <2>1. CASE Chi(p)  BY <2>1, Zenon DEF Chi
  <2>2. CASE Pon(p)  BY <2>2, Zenon DEF Pon
  <2>3. CASE Daiminkan(p)  BY <2>3, Zenon DEF Daiminkan
  <2>4. CASE Ankan(p)  BY <2>4, Zenon DEF Ankan
  <2>5. CASE Kakan(p)  BY <2>5, Zenon DEF Kakan
  <2>6. CASE Nuki(p)  BY <2>6, Zenon DEF Nuki
  <2>. QED  BY <2>1, <2>2, <2>3, <2>4, <2>5, <2>6
<1>2. phase # "over"
  <2>1. CanCall(p) \/ OwnTurn(p)  BY DEF Chi, Pon, Daiminkan, Ankan, Kakan, Nuki
  <2>. QED  BY <2>1 DEF CanCall, Free, OwnTurn
<1>. QED  BY <1>1, <1>2, CallStep

\* Every move keeps the record and the table together.
LEMMA RecordStep == TableInv /\ RecordInv /\ [Next]_vars => RecordInv'
<1>. SUFFICES ASSUME TableInv, RecordInv, [Next]_vars PROVE RecordInv'  OBVIOUS
<1>0. phase # "over" => Started  BY DEF RecordInv
<1>1. ASSUME NEW p \in Players, Deal(p)  PROVE RecordInv'  BY <1>1, DealStep
<1>2. ASSUME NEW p \in Players, Reconnect(p)  PROVE RecordInv'  BY <1>2, ReconnectStep
<1>3. ASSUME NEW p \in Players, Draw(p)  PROVE RecordInv'
  <2>1. PICK e : e = [tag |-> "draw", who |-> p, tile |-> Head(wall)]  OBVIOUS
  <2>2. e.tag \in {"draw", "discard", "meld"} /\ e.who \in Players  BY <2>1
  <2>3. Log(e) /\ UNCHANGED <<points, pot, wins>> /\ phase # "over"  BY <1>3, <2>1 DEF Draw, Free
  <2>. QED  BY <1>0, <2>2, <2>3, QuietStep
<1>4. ASSUME NEW p \in Players, Discard(p)  PROVE RecordInv'
  <2>1. PICK id : Log([tag |-> "discard", who |-> p, tile |-> id])  BY <1>4, Zenon DEF Discard
  <2>2. PICK e : e = [tag |-> "discard", who |-> p, tile |-> id]  OBVIOUS
  <2>3. e.tag \in {"draw", "discard", "meld"} /\ e.who \in Players  BY <2>2
  <2>4. Log(e) /\ UNCHANGED <<points, pot, wins>> /\ phase # "over"  BY <1>4, <2>1, <2>2 DEF Discard
  <2>. QED  BY <1>0, <2>3, <2>4, QuietStep
<1>5. ASSUME NEW p \in Players, Declare(p)  PROVE RecordInv'
  <2>1. PICK e : e = [tag |-> "reach", who |-> p, step |-> 1]  OBVIOUS
  <2>2. e.tag = "reach" /\ e.step = 1  BY <2>1
  <2>3. Log(e) /\ UNCHANGED <<points, pot, wins>> /\ phase # "over"  BY <1>5, <2>1 DEF Declare, OwnTurn
  <2>. QED  BY <1>0, <2>2, <2>3, QuietStep
<1>6. ASSUME NEW p \in Players, Deposit(p)  PROVE RecordInv'  BY <1>6, DepositStep
<1>7. ASSUME NEW p \in Players, Chi(p) \/ Pon(p) \/ Daiminkan(p) \/ Ankan(p) \/ Kakan(p) \/ Nuki(p)
      PROVE  RecordInv'
  BY <1>7, CallsStep
<1>8. ASSUME NEW p \in Players, Tsumo(p)  PROVE RecordInv'
  <2>1. p # Null  BY PlayersAre
  <2>2. Win(p, Null, drew, held[p]) /\ EndRound /\ phase # "over"  BY <1>8 DEF Tsumo, OwnTurn
  <2>. QED  BY <2>1, <2>2, WinStep
<1>9. ASSUME NEW p \in Players, Ron(p)  PROVE RecordInv'
  <2>1. Win(p, turn, tile, held[p] \cup {tile}) /\ EndRound /\ p # turn  BY <1>9 DEF Ron
  <2>2. turn \in Players \cup {Null}  BY DEF TableInv
  <2>3. phase # "over" \/ wins # << >>
    <3>1. phase \in {"discarded", "added"} \/ Len(wins) = 1  BY <1>9 DEF Ron
    <3>2. Len(<< >>) = 0  BY EmptyList
    <3>. QED  BY <3>1, <3>2
  <2>. QED  BY <2>1, <2>2, <2>3, WinStep
<1>10. ASSUME ShowDora  PROVE RecordInv'
  <2>1. PICK id : Log([tag |-> "dora", tile |-> id])  BY <1>10, Zenon DEF ShowDora
  <2>2. PICK e : e = [tag |-> "dora", tile |-> id]  OBVIOUS
  <2>3. e.tag = "dora"  BY <2>2
  <2>4. Log(e) /\ UNCHANGED <<points, pot, wins>> /\ phase # "over"  BY <1>10, <2>1, <2>2 DEF ShowDora
  <2>. QED  BY <1>0, <2>3, <2>4, QuietStep
<1>11. ASSUME Exhausted  PROVE RecordInv'
  <2>1. PICK ready \in SUBSET Players : EndInDraw("", ReadyDelta(ready))
    BY <1>11, Zenon DEF Exhausted, ReadyDelta
  <2>2. phase # "over"  BY <1>11 DEF Exhausted, Free
  <2>. QED  BY <2>1, <2>2, ReadyDeltaType, DrawnStep
<1>12. ASSUME FourKans  PROVE RecordInv'
  <2>1. Zeros \in [Players -> Int] /\ phase # "over"  BY <1>12 DEF Zeros, FourKans, Free
  <2>. QED  BY <1>12, <2>1, DrawnStep DEF FourKans
<1>13. ASSUME UNCHANGED vars  PROVE RecordInv'
  <2>1. Players' = Players /\ NumPlayers' = NumPlayers  BY <1>13 DEF vars, Players, NumPlayers
  <2>2. Round' = Round /\ (Started' <=> Started)  BY <1>13 DEF vars, Round, Started
  <2>. QED  BY <1>13, <2>1, <2>2, Zenon DEF vars, RecordInv
<1>. QED
  BY <1>1, <1>2, <1>3, <1>4, <1>5, <1>6, <1>7, <1>8, <1>9, <1>10, <1>11, <1>12, <1>13 DEF Next

\* The record of every game stays well-formed and accounts for every point and every
\* deposit, and the table stays one of tile numbers.
THEOREM RecordCorrect == Spec => [](TableInv /\ RecordInv)
<1>1. Init => TableInv /\ RecordInv  BY TableInit, RecordInit
<1>2. TableInv /\ RecordInv /\ [Next]_vars => (TableInv /\ RecordInv)'  BY TableStep, RecordStep
<1>. QED  BY <1>1, <1>2, PTL DEF Spec

\* Whatever is dealt and however it is played, each result names the player who was liable
\* for the hand, as to_pao_info reads it off the signs of the payments, unless the
\* discarder was.
THEOREM PaoRecoveredCorrect == Spec => []PaoRecovered
<1>1. TableInv /\ RecordInv => PaoRecovered
  <2>. SUFFICES ASSUME RecordInv, Started, NEW i \in DOMAIN wins
                PROVE  Round.results[i].pao = IF wins[i].liable = wins[i].loser THEN Null ELSE wins[i].liable
    BY DEF PaoRecovered
  <2>1. Follows(Round, Players, points, pot, wins, phase)  BY DEF RecordInv
  <2>2. DOMAIN wins = 1..Len(wins)  BY <2>1, AppendList DEF Follows
  <2>. QED  BY <2>1, <2>2 DEF Follows
<1>. QED  BY <1>1, RecordCorrect, PTL

\* And the points of the record add up: deposits are counted once and paid out once, and a
\* round starts with what the rounds before it left.
THEOREM PointsAddUpCorrect == Spec => []PointsAddUp
<1>1. TableInv /\ RecordInv => PointsAddUp
  <2>. SUFFICES ASSUME TableInv, RecordInv PROVE PointsAddUp  OBVIOUS
  <2>1. ASSUME Started
        PROVE  /\ \A i \in DOMAIN Round.results :
                    Round.results[i].kyotaku = IF i = 1 THEN Round.last.kyotaku ELSE 0
               /\ Round.results = << >> => Round.last.kyotaku = pot
    <3>1. Follows(Round, Players, points, pot, wins, phase)  BY <2>1 DEF RecordInv
    <3>2. IsRound(Round, Players)  BY <2>1, RoundIs
    <3>3. DOMAIN Round.results = 1..Len(Round.results)  BY <3>2, AppendList DEF IsRound
    <3>. QED  BY <3>1, <3>3 DEF Follows
  <2>2. ASSUME NEW i \in 2..Len(game.rounds), NEW p \in Players
        PROVE  game.rounds[i].initial.players[p].score = Balance(game.rounds[i - 1], p)
    BY DEF RecordInv, History
  <2>. QED  BY <2>1, <2>2, Zenon DEF PointsAddUp, Balance, Paid, Total, Riichis, Deltas
<1>. QED  BY <1>1, RecordCorrect, PTL

-----------------------------------------------------------------------------
(* The events of a round, applied to its first snapshot, give its last one. *)

\* A player whose nuki are norths of the hand again.
BackHand(q) == [c \in Codes |-> q.hand[c] + IF c = North THEN q.nuki_count ELSE 0]
Back(q) ==
  [hand |-> BackHand(q), melds |-> q.melds, nuki_count |-> 0, score |-> q.score, seat_wind |-> q.seat_wind]

WithPlayers(s, f) ==
  [kyotaku |-> s.kyotaku, dora_indicators |-> s.dora_indicators, dealer |-> s.dealer, players |-> f]
Restored(s, P) == WithPlayers(s, [p \in P |-> Back(s.players[p])])

Reproduces(r, P) == Replayed(r.initial, r.events) = Restored(r.last, P)

LEMMA ReplayedAppend ==
  ASSUME NEW base, NEW s, IsList(s), NEW x
  PROVE  Replayed(base, Append(s, x)) = AfterEvent(Replayed(base, s), x)
BY FoldAppend, Zenon

LEMMA ReplayedEmpty == ASSUME NEW base  PROVE Replayed(base, << >>) = base
BY FoldEmpty, Zenon

\* What an event does to a hand, and a call to the calls.
Shifted(s, p, h) == WithPlayers(s, [s.players EXCEPT ![p] = WithHand(@, h)])

LEMMA HandChanged ==
  ASSUME NEW P, NEW s, IsState(s, P), NEW p \in P, NEW h
  PROVE  [s EXCEPT !.players[p].hand = h] = Shifted(s, p, h)
<1>1. PICK f, q : f = s.players /\ q = f[p]  OBVIOUS
<1>2. IsPlayer(q) /\ DOMAIN f = P  BY <1>1, Zenon DEF IsState
<1>3. q = [hand |-> q.hand, melds |-> q.melds, nuki_count |-> q.nuki_count,
           score |-> q.score, seat_wind |-> q.seat_wind]
  BY <1>2, Zenon DEF IsPlayer
<1>4. PICK t : t = [q EXCEPT !.hand = h]  OBVIOUS
<1>5. t = WithHand(q, h)  BY <1>3, <1>4 DEF WithHand
<1>6. PICK g : g = [f EXCEPT ![p] = t]  OBVIOUS
<1>7. s = [kyotaku |-> s.kyotaku, dora_indicators |-> s.dora_indicators, dealer |-> s.dealer, players |-> f]
  BY <1>1, Zenon DEF IsState
<1>8. [s EXCEPT !.players[p].hand = h] = [s EXCEPT !.players = [f EXCEPT ![p] = t]]
  BY <1>1, <1>4, <1>7
<1>9. [s EXCEPT !.players = g]
        = [kyotaku |-> s.kyotaku, dora_indicators |-> s.dora_indicators, dealer |-> s.dealer, players |-> g]
  BY ONLY <1>7
<1>10. [f EXCEPT ![p] = WithHand(@, h)] = g  BY <1>1, <1>5, <1>6, Zenon
<1>. QED  BY <1>1, <1>6, <1>8, <1>9, <1>10, Zenon DEF Shifted, WithPlayers

Adds(h, hand, x, k) == h = [c \in Codes |-> hand[c] + IF c = x THEN k ELSE 0]
MovesOne(e, p, x, k) ==
  /\ e.actor = p /\ e.tile = x
  /\ (e.tag = "Draw" /\ k = 1) \/ (e.tag = "Discard" /\ k = -1)

LEMMA AfterTile ==
  ASSUME NEW P, NEW s, IsState(s, P), NEW p \in P, NEW x, NEW h, NEW k, Adds(h, s.players[p].hand, x, k),
         NEW e, MovesOne(e, p, x, k)
  PROVE  AfterEvent(s, e) = Shifted(s, p, h)
<1>1. PICK hand : hand = s.players[p].hand  OBVIOUS
<1>2. [s EXCEPT !.players[p].hand = h] = Shifted(s, p, h)  BY HandChanged
<1>a. e.actor = p /\ e.tile = x  BY Zenon DEF MovesOne
<1>3. CASE e.tag = "Draw" /\ k = 1
  <2>1. h = [c \in Codes |-> s.players[p].hand[c] + IF c = x THEN 1 ELSE 0]  BY <1>3, Zenon DEF Adds
  <2>. QED  BY <1>2, <1>a, <1>3, <2>1, Zenon DEF AfterEvent
<1>4. CASE e.tag = "Discard" /\ k = -1
  <2>1. h = [c \in Codes |-> s.players[p].hand[c] + IF c = x THEN -1 ELSE 0]  BY <1>4, Zenon DEF Adds
  <2>. QED  BY <1>2, <1>a, <1>4, <2>1, Zenon DEF AfterEvent
<1>. QED  BY <1>3, <1>4, Zenon DEF MovesOne

Takes(h, hand, gone) == h = [c \in Codes |-> hand[c] + (-Times(gone, c))]
IsCall(e, p, meld) == e.tag = "Call" /\ e.actor = p /\ e.meld = meld
Called(s, p, h, meld) == WithPlayers(s, [s.players EXCEPT ![p] = WithMeld(@, h, meld)])

LEMMA AfterCall ==
  ASSUME NEW P, NEW s, IsState(s, P), NEW p \in P, NEW meld,
         NEW h, Takes(h, s.players[p].hand, meld_tiles_in_hand(meld)), NEW e, IsCall(e, p, meld)
  PROVE  AfterEvent(s, e) = Called(s, p, h, meld)
<1>1. PICK gone : gone = meld_tiles_in_hand(meld)  OBVIOUS
<1>2. Takes(h, s.players[p].hand, gone)  BY <1>1, Zenon
<1>4. e.tag = "Call" /\ e.actor = p /\ e.meld = meld  BY Zenon DEF IsCall
<1>5. PICK called : called = [s EXCEPT !.players[p].hand = h]  OBVIOUS
<1>6. AfterEvent(s, e) = [called EXCEPT !.players[p].melds = Append(@, meld)]
  <2>1. called = [s EXCEPT !.players[p].hand =
                    [c \in Codes |-> @[c] + (-Cardinality({i \in DOMAIN gone : gone[i] = c}))]]
    BY <1>1, <1>2, <1>5, Zenon DEF Takes, Times
  <2>. QED  BY <1>1, <1>4, <2>1, Zenon DEF AfterEvent
<1>7. called = Shifted(s, p, h)  BY <1>5, HandChanged
<1>8. PICK f, q : f = s.players /\ q = WithHand(f[p], h)  OBVIOUS
<1>9. DOMAIN f = P /\ f = [i \in P |-> f[i]]  BY <1>8, Zenon DEF IsState
<1>10. PICK g : g = [f EXCEPT ![p] = q]  OBVIOUS
<1>11. g[p] = q  BY <1>9, <1>10
<1>12. called = [kyotaku |-> s.kyotaku, dora_indicators |-> s.dora_indicators, dealer |-> s.dealer, players |-> g]
  BY <1>7, <1>8, <1>10, Zenon DEF Shifted, WithPlayers
<1>13. PICK t : t = [q EXCEPT !.melds = Append(@, meld)]  OBVIOUS
<1>14. [called EXCEPT !.players[p].melds = Append(@, meld)] = [called EXCEPT !.players = [g EXCEPT ![p] = t]]
  BY <1>11, <1>12, <1>13
<1>15. [g EXCEPT ![p] = t] = [f EXCEPT ![p] = t]  BY <1>9, <1>10
<1>16. PICK u : u = [f EXCEPT ![p] = t]  OBVIOUS
<1>17. [called EXCEPT !.players = u] = WithPlayers(s, u)
  <2>1. [called EXCEPT !.players = u]
          = [kyotaku |-> s.kyotaku, dora_indicators |-> s.dora_indicators, dealer |-> s.dealer, players |-> u]
    BY ONLY <1>12
  <2>. QED  BY <2>1, Zenon DEF WithPlayers
<1>18. t = WithMeld(f[p], h, meld)  BY <1>8, <1>13 DEF WithHand, WithMeld
<1>. QED  BY <1>6, <1>8, <1>14, <1>15, <1>16, <1>17, <1>18, Zenon DEF Called

LEMMA AfterTable ==
  ASSUME NEW P, NEW s, IsState(s, P), NEW p, NEW x
  PROVE  /\ AfterEvent(s, [tag |-> "Riichi", actor |-> p])
              = [kyotaku |-> s.kyotaku + 1, dora_indicators |-> s.dora_indicators,
                 dealer |-> s.dealer, players |-> s.players]
         /\ AfterEvent(s, [tag |-> "DoraOpen", tile |-> x])
              = [kyotaku |-> s.kyotaku, dora_indicators |-> Append(s.dora_indicators, x),
                 dealer |-> s.dealer, players |-> s.players]
<1>1. s = [kyotaku |-> s.kyotaku, dora_indicators |-> s.dora_indicators, dealer |-> s.dealer, players |-> s.players]
  BY Zenon DEF IsState
<1>2. PICK a, b : a = s.kyotaku + 1 /\ b = Append(s.dora_indicators, x)  OBVIOUS
<1>3. PICK e : e = [tag |-> "Riichi", actor |-> p]  OBVIOUS
<1>4. AfterEvent(s, e) = [s EXCEPT !.kyotaku = a]
  <2>1. e.tag = "Riichi"  BY <1>3
  <2>. QED  BY <1>2, <2>1, Zenon DEF AfterEvent
<1>5. PICK d : d = [tag |-> "DoraOpen", tile |-> x]  OBVIOUS
<1>6. AfterEvent(s, d) = [s EXCEPT !.dora_indicators = b]
  <2>1. d.tag = "DoraOpen" /\ d.tile = x  BY <1>5
  <2>. QED  BY <1>2, <2>1, Zenon DEF AfterEvent
<1>7. [s EXCEPT !.kyotaku = a]
        = [kyotaku |-> a, dora_indicators |-> s.dora_indicators, dealer |-> s.dealer, players |-> s.players]
  BY ONLY <1>1
<1>8. [s EXCEPT !.dora_indicators = b]
        = [kyotaku |-> s.kyotaku, dora_indicators |-> b, dealer |-> s.dealer, players |-> s.players]
  BY ONLY <1>1
<1>. QED  BY <1>2, <1>3, <1>4, <1>5, <1>6, <1>7, <1>8, Zenon

LEMMA AfterEnd ==
  ASSUME NEW s, NEW e, e.tag \in {"Tsumo", "Ron", "Ryukyoku"}
  PROVE  AfterEvent(s, e) = s
<1>1. e.tag # "Draw" /\ e.tag # "Discard" /\ e.tag # "Call" /\ e.tag # "Riichi" /\ e.tag # "DoraOpen"
  OBVIOUS
<1>. QED  BY <1>1, Zenon DEF AfterEvent

LEMMA BackIs ==
  ASSUME NEW q, IsPlayer(q)
  PROVE  IsPlayer(Back(q)) /\ BackHand(q) \in [Codes -> Int] /\ Back(q).hand = BackHand(q)
<1>1. PICK h : h = BackHand(q)  OBVIOUS
<1>2. h \in [Codes -> Int]  BY <1>1, SMT DEF BackHand, IsPlayer
<1>3. PICK b : b = Back(q)  OBVIOUS
<1>4. b = [hand |-> h, melds |-> q.melds, nuki_count |-> 0, score |-> q.score, seat_wind |-> q.seat_wind]
  BY <1>1, <1>3, Zenon DEF Back
<1>5. q.score \in Int  BY DEF IsPlayer
<1>6. IsPlayer(b)  BY <1>2, <1>4, <1>5 DEF IsPlayer
<1>7. b.hand = h  BY <1>4
<1>. QED  BY <1>1, <1>2, <1>3, <1>6, <1>7, Zenon

LEMMA RestoredIs ==
  ASSUME NEW P, NEW s, IsState(s, P)
  PROVE  /\ IsState(Restored(s, P), P)
         /\ \A p \in P : Restored(s, P).players[p] = Back(s.players[p]) /\ IsPlayer(s.players[p])
<1>1. PICK f : f = [p \in P |-> Back(s.players[p])]  OBVIOUS
<1>2. PICK t : t = WithPlayers(s, f)  OBVIOUS
<1>3. /\ t = [kyotaku |-> t.kyotaku, dora_indicators |-> t.dora_indicators, dealer |-> t.dealer,
              players |-> t.players]
      /\ t.players = f
  BY <1>2 DEF WithPlayers
<1>4. \A p \in P : IsPlayer(s.players[p])  BY Zenon DEF IsState
<1>5. \A p \in P : f[p] = Back(s.players[p]) /\ IsPlayer(f[p])  BY <1>1, <1>4, BackIs
<1>6. DOMAIN f = P /\ f = [p \in P |-> f[p]]  BY <1>1
<1>7. IsState(t, P)  BY <1>3, <1>5, <1>6, Zenon DEF IsState
<1>. QED  BY <1>1, <1>2, <1>3, <1>4, <1>5, <1>7, Zenon DEF Restored

\* A changed player is restored like the others.
LEMMA RestoredPlayer ==
  ASSUME NEW P, NEW s, IsState(s, P), NEW p \in P, NEW q
  PROVE  Restored(WithPlayers(s, [s.players EXCEPT ![p] = q]), P)
           = WithPlayers(Restored(s, P), [Restored(s, P).players EXCEPT ![p] = Back(q)])
<1>1. PICK f, g : f = s.players /\ g = [f EXCEPT ![p] = q]  OBVIOUS
<1>2. DOMAIN f = P  BY <1>1, Zenon DEF IsState
<1>3. \A i \in P : g[i] = IF i = p THEN q ELSE f[i]  BY <1>1, <1>2
<1>4. PICK u, v : u = [i \in P |-> Back(f[i])] /\ v = [i \in P |-> Back(g[i])]  OBVIOUS
<1>5. \A i \in P : Back(g[i]) = IF i = p THEN Back(q) ELSE Back(f[i])  BY <1>3, Zenon
<1>6. [u EXCEPT ![p] = Back(q)] = v  BY <1>4, <1>5
<1>7. PICK t, a : t = WithPlayers(s, g) /\ a = WithPlayers(s, u)  OBVIOUS
<1>8. /\ t.kyotaku = s.kyotaku /\ t.dora_indicators = s.dora_indicators /\ t.dealer = s.dealer /\ t.players = g
      /\ a.kyotaku = s.kyotaku /\ a.dora_indicators = s.dora_indicators /\ a.dealer = s.dealer /\ a.players = u
  BY <1>7 DEF WithPlayers
<1>9. Restored(s, P) = a  BY <1>1, <1>4, <1>7, Zenon DEF Restored
<1>10. Restored(t, P) = WithPlayers(t, v)  BY <1>4, <1>8, Zenon DEF Restored
<1>11. WithPlayers(t, v) = WithPlayers(a, v)  BY <1>8, Zenon DEF WithPlayers
<1>. QED  BY <1>1, <1>6, <1>7, <1>8, <1>9, <1>10, <1>11, Zenon

\* Taking back the nuki and changing the hand go together.
LEMMA BackShift ==
  ASSUME NEW q, IsPlayer(q), NEW d \in [Codes -> Int], NEW h, h = [c \in Codes |-> q.hand[c] + d[c]]
  PROVE  /\ BackHand(WithHand(q, h)) = [c \in Codes |-> Back(q).hand[c] + d[c]]
         /\ Back(WithHand(q, h)) = WithHand(Back(q), BackHand(WithHand(q, h)))
         /\ h \in [Codes -> Int]
<1>1. PICK n : n = q.nuki_count  OBVIOUS
<1>2. n \in Int /\ q.hand \in [Codes -> Int]  BY <1>1 DEF IsPlayer
<1>3. PICK t : t = WithHand(q, h)  OBVIOUS
<1>4. t.hand = h /\ t.melds = q.melds /\ t.nuki_count = n /\ t.score = q.score /\ t.seat_wind = q.seat_wind
  BY <1>1, <1>3 DEF WithHand
<1>5. PICK b : b = Back(q)  OBVIOUS
<1>6. b.hand = BackHand(q) /\ b.melds = q.melds /\ b.nuki_count = 0 /\ b.score = q.score /\ b.seat_wind = q.seat_wind
  BY <1>5 DEF Back
<1>7. BackHand(q) = [c \in Codes |-> q.hand[c] + IF c = North THEN n ELSE 0]  BY <1>1, Zenon DEF BackHand
<1>8. BackHand(t) = [c \in Codes |-> h[c] + IF c = North THEN n ELSE 0]  BY <1>4, Zenon DEF BackHand
<1>9. ASSUME NEW c \in Codes
      PROVE  h[c] + (IF c = North THEN n ELSE 0) = BackHand(q)[c] + d[c] /\ h[c] \in Int
  <2>1. PICK x, y, k : x = q.hand[c] /\ y = d[c] /\ k = IF c = North THEN n ELSE 0  OBVIOUS
  <2>2. x \in Int /\ y \in Int /\ k \in Int  BY <1>2, <2>1
  <2>3. h[c] = x + y /\ BackHand(q)[c] = x + k  BY <1>7, <2>1
  <2>4. (x + y) + k = (x + k) + y /\ x + y \in Int  BY <2>2
  <2>. QED  BY <2>1, <2>3, <2>4, Zenon
<1>10. BackHand(t) = [c \in Codes |-> BackHand(q)[c] + d[c]]  BY <1>8, <1>9, Zenon
<1>11. Back(t) = WithHand(b, BackHand(t))
  <2>1. Back(t) = [hand |-> BackHand(t), melds |-> q.melds, nuki_count |-> 0, score |-> q.score,
                   seat_wind |-> q.seat_wind]
    BY <1>4, Zenon DEF Back
  <2>. QED  BY <1>6, <2>1, Zenon DEF WithHand
<1>12. h \in [Codes -> Int]  BY <1>9
<1>. QED  BY <1>3, <1>5, <1>6, <1>10, <1>11, <1>12, Zenon

\* One more event.
OneEvent(r, s, P, event) ==
  /\ s.initial = r.initial /\ s.events = Append(r.events, event)
  /\ AfterEvent(Restored(r.last, P), event) = Restored(s.last, P)

LEMMA OneEventReproduced ==
  ASSUME NEW P, NEW r, IsRound(r, P), Reproduces(r, P), NEW s, NEW event, OneEvent(r, s, P, event)
  PROVE  Reproduces(s, P)
<1>1. IsList(r.events)  BY Zenon DEF IsRound
<1>2. PICK b, u : b = r.initial /\ u = r.events  OBVIOUS
<1>3. Replayed(b, Append(u, event)) = AfterEvent(Replayed(b, u), event)  BY <1>1, <1>2, ReplayedAppend, Zenon
<1>4. Replayed(b, u) = Restored(r.last, P)  BY <1>2, Zenon DEF Reproduces
<1>. QED  BY <1>2, <1>3, <1>4, Zenon DEF OneEvent, Reproduces

\* A player's state has changed and an event was entered.
Replaced(s, P, p, q) == WithPlayers(Restored(s, P), [Restored(s, P).players EXCEPT ![p] = Back(q)])
PlayerLogged(r, s, P, p, q, event) ==
  Leads(r, s, P) /\ s.events = Append(r.events, event) /\ Restored(s.last, P) = Replaced(r.last, P, p, q)

LEMMA LoggedPlayer ==
  ASSUME NEW P, NEW r, IsRound(r, P), NEW p \in P, NEW q, IsPlayer(q), NEW event
  PROVE  PlayerLogged(r, Logged(WithPlayer(r, p, q), event), P, p, q, event)
<1>0. PICK s : s = Logged(WithPlayer(r, p, q), event)  OBVIOUS
<1>1. PICK t : t = WithPlayer(r, p, q)  OBVIOUS
<1>2. IsRound(t, P)  BY <1>1, WithPlayerRound
<1>3. s = Logged(t, event) /\ IsRound(s, P)  BY <1>0, <1>1, <1>2, PushIs
<1>4. PICK l : l = WithPlayers(r.last, [r.last.players EXCEPT ![p] = q])  OBVIOUS
<1>5. t.initial = r.initial /\ t.events = r.events /\ t.last = l
  <2>1. t = [initial |-> r.initial, last |-> l, events |-> r.events, results |-> r.results]
    BY <1>1, <1>4, Zenon DEF WithPlayer, WithPlayers
  <2>. QED  BY <2>1
<1>6. s.initial = r.initial /\ s.events = Append(r.events, event) /\ s.last = l
  <2>1. PICK a : a = Append(r.events, event)  OBVIOUS
  <2>2. s = [initial |-> r.initial, last |-> l, events |-> a, results |-> t.results]
    BY <1>3, <1>5, <2>1, Zenon DEF Logged
  <2>3. s.initial = r.initial /\ s.events = a /\ s.last = l  BY ONLY <2>2
  <2>. QED  BY <2>1, <2>3, Zenon
<1>7. IsState(r.last, P)  BY Zenon DEF IsRound
<1>8. Restored(l, P) = Replaced(r.last, P, p, q)  BY <1>4, <1>7, RestoredPlayer, Zenon DEF Replaced
<1>. QED  BY <1>0, <1>3, <1>6, <1>8, Zenon DEF PlayerLogged, Leads

\* A tile has come to a hand, or left it.
LEMMA TileReproduced ==
  ASSUME NEW P, NEW r, IsRound(r, P), Reproduces(r, P), NEW p \in P, NEW d \in [Codes -> Int],
         NEW h, h = [c \in Codes |-> r.last.players[p].hand[c] + d[c]], NEW event,
         AfterEvent(Restored(r.last, P), event)
           = Shifted(Restored(r.last, P), p, [c \in Codes |-> Restored(r.last, P).players[p].hand[c] + d[c]]),
         NEW s, s = Logged(WithPlayer(r, p, WithHand(r.last.players[p], h)), event)
  PROVE  Leads(r, s, P) /\ Reproduces(s, P)
<1>1. PICK q, u : q = r.last.players[p] /\ u = WithHand(q, h)  OBVIOUS
<1>2. IsState(r.last, P)  BY Zenon DEF IsRound
<1>3. PICK R : R = Restored(r.last, P)  OBVIOUS
<1>4. R.players[p] = Back(q) /\ IsPlayer(q)  BY <1>1, <1>2, <1>3, RestoredIs, Zenon
<1>5. h = [c \in Codes |-> q.hand[c] + d[c]]  BY <1>1, Zenon
<1>6. PICK g : g = BackHand(u)  OBVIOUS
<1>7. /\ g = [c \in Codes |-> Back(q).hand[c] + d[c]] /\ Back(u) = WithHand(Back(q), g)
      /\ h \in [Codes -> Int]
  <2>1. /\ BackHand(WithHand(q, h)) = [c \in Codes |-> Back(q).hand[c] + d[c]]
        /\ Back(WithHand(q, h)) = WithHand(Back(q), BackHand(WithHand(q, h)))
        /\ h \in [Codes -> Int]
    BY ONLY <1>4, <1>5, d \in [Codes -> Int], BackShift
  <2>. QED  BY <1>1, <1>6, <2>1, Zenon
<1>8. IsPlayer(u)
  <2>1. u = [hand |-> h, melds |-> q.melds, nuki_count |-> q.nuki_count, score |-> q.score,
             seat_wind |-> q.seat_wind]
    BY <1>1, Zenon DEF WithHand
  <2>2. q.nuki_count \in Int /\ q.score \in Int  BY <1>4 DEF IsPlayer
  <2>. QED  BY <1>7, <2>1, <2>2 DEF IsPlayer
<1>9. s = Logged(WithPlayer(r, p, u), event)  BY <1>1, Zenon
<1>10. PlayerLogged(r, s, P, p, u, event)  BY <1>8, <1>9, LoggedPlayer, Zenon
<1>11. AfterEvent(R, event) = Shifted(R, p, g)  BY <1>3, <1>4, <1>7, Zenon
<1>12. Shifted(R, p, g) = Replaced(r.last, P, p, u)  BY <1>3, <1>4, <1>7, Zenon DEF Shifted, Replaced
<1>13. OneEvent(r, s, P, event)  BY <1>3, <1>10, <1>11, <1>12, Zenon DEF OneEvent, PlayerLogged, Leads
<1>. QED  BY <1>10, <1>13, OneEventReproduced, Zenon DEF PlayerLogged

\* The handlers keep the record of a round closed.
Closes(r, s, P) == Leads(r, s, P) /\ Reproduces(s, P)

LEMMA DrawCloses ==
  ASSUME NEW P, NEW r, IsRound(r, P), Reproduces(r, P), NEW e, e.who \in P
  PROVE  Closes(r, apply_draw(r, e), P)
<1>1. PICK p, x : p = e.who /\ x = to_tile(e.tile)  OBVIOUS
<1>2. PICK q, R : q = r.last.players[p] /\ R = Restored(r.last, P)  OBVIOUS
<1>3. PICK event : event = [tag |-> "Draw", actor |-> p, tile |-> x]  OBVIOUS
<1>4. PICK d : d = [c \in Codes |-> IF c = x THEN 1 ELSE 0]  OBVIOUS
<1>5. d \in [Codes -> Int]  BY <1>4
<1>6. PICK h : h = [c \in Codes |-> q.hand[c] + d[c]]  OBVIOUS
<1>7. h = [c \in Codes |-> q.hand[c] + IF c = x THEN 1 ELSE 0]  BY <1>4, <1>6
<1>8. apply_draw(r, e) = Logged(WithPlayer(r, p, WithHand(q, h)), event)
  BY <1>1, <1>2, <1>3, <1>7, DrawIs
<1>9. PICK g : g = [c \in Codes |-> R.players[p].hand[c] + d[c]]  OBVIOUS
<1>10. g = [c \in Codes |-> R.players[p].hand[c] + IF c = x THEN 1 ELSE 0]  BY <1>4, <1>9
<1>11. IsState(R, P)  BY <1>2, RestoredIs, Zenon DEF IsRound
<1>12. AfterEvent(R, event) = Shifted(R, p, g)
  <2>1. p \in P  BY <1>1
  <2>2. event.tag = "Draw" /\ event.actor = p /\ event.tile = x  BY <1>3
  <2>3. PICK k : k = 1  OBVIOUS
  <2>4. Adds(g, R.players[p].hand, x, k)  BY <1>10, <2>3, Zenon DEF Adds
  <2>5. MovesOne(event, p, x, k)  BY <2>2, <2>3, Zenon DEF MovesOne
  <2>. QED  BY <1>11, <2>1, <2>4, <2>5, AfterTile, Zenon
<1>. QED
  BY <1>1, <1>2, <1>5, <1>6, <1>8, <1>9, <1>12, TileReproduced DEF Closes

LEMMA DiscardCloses ==
  ASSUME NEW P, NEW r, IsRound(r, P), Reproduces(r, P), NEW e, e.who \in P
  PROVE  Closes(r, apply_discard(r, e), P)
<1>1. PICK p, x : p = e.who /\ x = to_tile(e.tile)  OBVIOUS
<1>2. PICK q, R : q = r.last.players[p] /\ R = Restored(r.last, P)  OBVIOUS
<1>3. PICK event : event = [tag |-> "Discard", actor |-> p, tile |-> x, tsumogiri |-> FALSE]  OBVIOUS
<1>4. PICK d : d = [c \in Codes |-> IF c = x THEN -1 ELSE 0]  OBVIOUS
<1>5. d \in [Codes -> Int]  BY <1>4
<1>6. PICK h : h = [c \in Codes |-> q.hand[c] + d[c]]  OBVIOUS
<1>7. h = [c \in Codes |-> q.hand[c] - IF c = x THEN 1 ELSE 0]
  <2>1. q.hand \in [Codes -> Int]
    <3>1. IsPlayer(q)  BY <1>1, <1>2, Zenon DEF IsRound, IsState
    <3>. QED  BY <3>1 DEF IsPlayer
  <2>2. ASSUME NEW c \in Codes  PROVE q.hand[c] + d[c] = q.hand[c] - IF c = x THEN 1 ELSE 0
    <3>1. q.hand[c] \in Int  BY <2>1
    <3>2. d[c] = IF c = x THEN -1 ELSE 0  BY <1>4
    <3>. QED  BY <3>1, <3>2
  <2>. QED  BY <1>6, <2>2, Zenon
<1>8. apply_discard(r, e) = Logged(WithPlayer(r, p, WithHand(q, h)), event)
  BY <1>1, <1>2, <1>3, <1>7, DiscardIs
<1>9. PICK g : g = [c \in Codes |-> R.players[p].hand[c] + d[c]]  OBVIOUS
<1>10. g = [c \in Codes |-> R.players[p].hand[c] + IF c = x THEN -1 ELSE 0]  BY <1>4, <1>9
<1>11. IsState(R, P)  BY <1>2, RestoredIs, Zenon DEF IsRound
<1>12. AfterEvent(R, event) = Shifted(R, p, g)
  <2>1. p \in P  BY <1>1
  <2>2. event.tag = "Discard" /\ event.actor = p /\ event.tile = x  BY <1>3
  <2>3. PICK k : k = -1  OBVIOUS
  <2>4. Adds(g, R.players[p].hand, x, k)  BY <1>10, <2>3, Zenon DEF Adds
  <2>5. MovesOne(event, p, x, k)  BY <2>2, <2>3, Zenon DEF MovesOne
  <2>. QED  BY <1>11, <2>1, <2>4, <2>5, AfterTile, Zenon
<1>. QED
  BY <1>1, <1>2, <1>5, <1>6, <1>8, <1>9, <1>12, TileReproduced DEF Closes

\* A nuki leaves no event: the norths of the hand and the nuki make up for each other.
LEMMA NukiCloses ==
  ASSUME NEW P, NEW r, IsRound(r, P), Reproduces(r, P), NEW p \in P
  PROVE  Closes(r, apply_nuki_event(r, p), P)
<1>1. PICK q : q = r.last.players[p]  OBVIOUS
<1>2. PICK h : h = [c \in Codes |-> q.hand[c] - IF c = North THEN 1 ELSE 0]  OBVIOUS
<1>3. PICK u : u = WithNuki(q, h)  OBVIOUS
<1>4. PICK s : s = apply_nuki_event(r, p)  OBVIOUS
<1>5. s = WithPlayer(r, p, u) /\ IsPlayer(q) /\ IsPlayer(u)  BY <1>1, <1>2, <1>3, <1>4, NukiIs
<1>6. BackHand(u) = BackHand(q)
  <2>1. PICK n : n = q.nuki_count  OBVIOUS
  <2>2. u.hand = h /\ u.nuki_count = n + 1  BY <1>3, <2>1 DEF WithNuki
  <2>3. n \in Int /\ q.hand \in [Codes -> Int]  BY <1>5, <2>1 DEF IsPlayer
  <2>4. ASSUME NEW c \in Codes
        PROVE  h[c] + (IF c = North THEN n + 1 ELSE 0) = q.hand[c] + (IF c = North THEN n ELSE 0)
    <3>1. h[c] = q.hand[c] - IF c = North THEN 1 ELSE 0  BY <1>2
    <3>2. q.hand[c] \in Int  BY <2>3
    <3>. QED  BY <2>3, <3>1, <3>2
  <2>5. BackHand(u) = [c \in Codes |-> h[c] + IF c = North THEN n + 1 ELSE 0]  BY <2>2, Zenon DEF BackHand
  <2>6. BackHand(q) = [c \in Codes |-> q.hand[c] + IF c = North THEN n ELSE 0]  BY <2>1, Zenon DEF BackHand
  <2>. QED  BY <2>4, <2>5, <2>6, Zenon
<1>7. Back(u) = Back(q)
  <2>1. u.melds = q.melds /\ u.score = q.score /\ u.seat_wind = q.seat_wind  BY <1>3 DEF WithNuki
  <2>. QED  BY <1>6, <2>1, Zenon DEF Back
<1>8. IsRound(s, P)  BY <1>5, WithPlayerRound
<1>9. PICK f, g : f = r.last.players /\ g = [f EXCEPT ![p] = u]  OBVIOUS
<1>10. s.initial = r.initial /\ s.events = r.events /\ s.last = WithPlayers(r.last, g)
  <2>1. PICK l : l = WithPlayers(r.last, g)  OBVIOUS
  <2>2. s = [initial |-> r.initial, last |-> l, events |-> r.events, results |-> r.results]
    BY <1>5, <1>9, <2>1, Zenon DEF WithPlayer, WithPlayers
  <2>. QED  BY <2>1, <2>2
<1>11. Restored(WithPlayers(r.last, g), P) = Restored(r.last, P)
  <2>1. DOMAIN f = P  BY <1>9, Zenon DEF IsRound, IsState
  <2>2. \A i \in P : g[i] = IF i = p THEN u ELSE f[i]  BY <1>9, <2>1
  <2>3. \A i \in P : Back(g[i]) = Back(f[i])  BY <1>1, <1>7, <1>9, <2>2, Zenon
  <2>4. [i \in P |-> Back(g[i])] = [i \in P |-> Back(f[i])]  BY <2>3, Zenon
  <2>5. PICK t : t = WithPlayers(r.last, g)  OBVIOUS
  <2>6. /\ t.kyotaku = r.last.kyotaku /\ t.dora_indicators = r.last.dora_indicators
        /\ t.dealer = r.last.dealer /\ t.players = g
    BY <2>5 DEF WithPlayers
  <2>. QED  BY <1>9, <2>4, <2>5, <2>6, Zenon DEF Restored, WithPlayers
<1>. QED  BY <1>4, <1>8, <1>10, <1>11, Zenon DEF Closes, Leads, Reproduces

LEMMA CallCloses ==
  ASSUME NEW P, NEW r, IsRound(r, P), Reproduces(r, P), NEW p \in P,
         NEW meld, Countable(meld_tiles_in_hand(meld))
  PROVE  Closes(r, apply_call_event(r, p, meld), P)
<1>1. PICK gone : gone = meld_tiles_in_hand(meld)  OBVIOUS
<1>2. PICK q, R : q = r.last.players[p] /\ R = Restored(r.last, P)  OBVIOUS
<1>3. PICK event : event = [tag |-> "Call", actor |-> p, meld |-> meld]  OBVIOUS
<1>4. PICK d : d = [c \in Codes |-> -Times(gone, c)]  OBVIOUS
<1>5. ASSUME NEW c \in Codes  PROVE d[c] = -Times(gone, c) /\ Times(gone, c) \in Int
  BY <1>1, <1>4 DEF Countable
<1>6. d \in [Codes -> Int]  BY <1>4, <1>5
<1>7. PICK h : h = [c \in Codes |-> q.hand[c] + d[c]]  OBVIOUS
<1>8. h = [c \in Codes |-> q.hand[c] - Times(gone, c)]
  <2>1. q.hand \in [Codes -> Int]
    <3>1. IsPlayer(q)  BY <1>2, Zenon DEF IsRound, IsState
    <3>. QED  BY <3>1 DEF IsPlayer
  <2>2. ASSUME NEW c \in Codes  PROVE q.hand[c] + d[c] = q.hand[c] - Times(gone, c)
    <3>1. q.hand[c] \in Int  BY <2>1
    <3>. QED  BY <1>5, <3>1
  <2>. QED  BY <1>7, <2>2, Zenon
<1>9. PICK u : u = WithMeld(q, h, meld)  OBVIOUS
<1>10. PICK s : s = apply_call_event(r, p, meld)  OBVIOUS
<1>11. s = Logged(WithPlayer(r, p, u), event) /\ IsPlayer(q) /\ IsPlayer(u)
  BY <1>1, <1>2, <1>3, <1>8, <1>9, <1>10, CallIs
<1>12. PlayerLogged(r, s, P, p, u, event)  BY <1>11, LoggedPlayer, Zenon
<1>13. IsState(R, P) /\ R.players[p] = Back(q)  BY <1>2, RestoredIs, Zenon DEF IsRound
<1>14. PICK g : g = BackHand(WithHand(q, h))  OBVIOUS
<1>15. g = [c \in Codes |-> Back(q).hand[c] + d[c]]
  <2>1. BackHand(WithHand(q, h)) = [c \in Codes |-> Back(q).hand[c] + d[c]]
    BY ONLY <1>6, <1>7, <1>11, BackShift
  <2>. QED  BY <1>14, <2>1, Zenon
<1>16. AfterEvent(R, event) = Called(R, p, g, meld)
  <2>1. g = [c \in Codes |-> R.players[p].hand[c] + (-Times(gone, c))]
    <3>1. \A c \in Codes : R.players[p].hand[c] + d[c] = R.players[p].hand[c] + (-Times(gone, c))
      BY <1>5, Zenon
    <3>. QED  BY <1>13, <1>15, <3>1, Zenon
  <2>2. Takes(g, R.players[p].hand, meld_tiles_in_hand(meld))  BY <1>1, <2>1, Zenon DEF Takes
  <2>3. IsCall(event, p, meld)  BY <1>3 DEF IsCall
  <2>. QED  BY <1>13, <2>2, <2>3, AfterCall, Zenon
<1>17. Back(u) = WithMeld(Back(q), g, meld)
  <2>1. PICK t, b : t = WithHand(q, h) /\ b = Back(q)  OBVIOUS
  <2>2. /\ t.hand = h /\ t.nuki_count = q.nuki_count /\ u.hand = h /\ u.nuki_count = q.nuki_count
        /\ u.melds = Append(q.melds, meld) /\ u.score = q.score /\ u.seat_wind = q.seat_wind
    BY <1>9, <2>1 DEF WithHand, WithMeld
  <2>3. BackHand(u) = g  BY <1>14, <2>1, <2>2, Zenon DEF BackHand
  <2>4. b.melds = q.melds /\ b.nuki_count = 0 /\ b.score = q.score /\ b.seat_wind = q.seat_wind
    BY <2>1 DEF Back
  <2>5. Back(u) = [hand |-> g, melds |-> Append(q.melds, meld), nuki_count |-> 0, score |-> q.score,
                   seat_wind |-> q.seat_wind]
    BY <2>2, <2>3, Zenon DEF Back
  <2>. QED  BY <2>1, <2>4, <2>5, Zenon DEF WithMeld
<1>18. Called(R, p, g, meld) = Replaced(r.last, P, p, u)
  BY <1>2, <1>13, <1>17, Zenon DEF Called, Replaced
<1>19. OneEvent(r, s, P, event)  BY <1>2, <1>12, <1>16, <1>18, Zenon DEF OneEvent, PlayerLogged, Leads
<1>. QED  BY <1>10, <1>12, <1>19, OneEventReproduced, Zenon DEF PlayerLogged, Closes

\* The deposits or the indicators have changed and an event was entered.
LEMMA TableCloses ==
  ASSUME NEW P, NEW r, IsRound(r, P), Reproduces(r, P), NEW e, e.tag \in {"dora", "reach"}
  PROVE  Closes(r, apply_event(r, e), P)
<1>1. PICK R, l : R = Restored(r.last, P) /\ l = r.last  OBVIOUS
<1>2. IsState(R, P) /\ IsState(l, P)  BY <1>1, RestoredIs, Zenon DEF IsRound
<1>3. ASSUME NEW k, NEW d, NEW event,
             AfterEvent(R, event)
               = [kyotaku |-> k, dora_indicators |-> d, dealer |-> R.dealer, players |-> R.players]
      PROVE  Closes(r, Logged(WithTable(r, k, d), event), P)
  <2>1. PICK t, s : t = WithTable(r, k, d) /\ s = Logged(t, event)  OBVIOUS
  <2>2. IsRound(t, P)  BY <2>1, WithTableRound
  <2>3. IsRound(s, P)  BY <2>1, <2>2, PushIs
  <2>4. /\ s.initial = r.initial /\ s.events = Append(r.events, event)
        /\ s.last = [kyotaku |-> k, dora_indicators |-> d, dealer |-> l.dealer, players |-> l.players]
    <3>1. /\ t.initial = r.initial /\ t.events = r.events
          /\ t.last = [kyotaku |-> k, dora_indicators |-> d, dealer |-> l.dealer, players |-> l.players]
      BY <1>1, <2>1 DEF WithTable
    <3>2. s.initial = t.initial /\ s.events = Append(t.events, event) /\ s.last = t.last
      BY <2>1 DEF Logged
    <3>. QED  BY <3>1, <3>2, Zenon
  <2>5. /\ s.last.kyotaku = k /\ s.last.dora_indicators = d /\ s.last.dealer = l.dealer
        /\ s.last.players = l.players
    BY <2>4
  <2>6. R.dealer = l.dealer /\ R.players = [p \in P |-> Back(l.players[p])]
    BY <1>1 DEF Restored, WithPlayers
  <2>7. Restored(s.last, P) = AfterEvent(R, event)
    BY <1>3, <2>5, <2>6, Zenon DEF Restored, WithPlayers
  <2>8. OneEvent(r, s, P, event)  BY <1>1, <2>4, <2>7, Zenon DEF OneEvent
  <2>9. Reproduces(s, P)  BY <2>8, OneEventReproduced, Zenon
  <2>. QED  BY <2>1, <2>3, <2>4, <2>9, Zenon DEF Closes, Leads
<1>4. R.kyotaku = l.kyotaku /\ R.dora_indicators = l.dora_indicators
  BY <1>1 DEF Restored, WithPlayers
<1>5. CASE e.tag = "dora"
  <2>1. apply_event(r, e) = apply_dora(r, e)  BY <1>5 DEF apply_event
  <2>2. PICK x : x = to_tile(e.tile)  OBVIOUS
  <2>3. PICK event : event = [tag |-> "DoraOpen", tile |-> x]  OBVIOUS
  <2>4. AfterEvent(R, event)
          = [kyotaku |-> R.kyotaku, dora_indicators |-> Append(R.dora_indicators, x),
             dealer |-> R.dealer, players |-> R.players]
    BY <1>2, <2>3, AfterTable
  <2>5. Closes(r, Logged(WithTable(r, l.kyotaku, Append(l.dora_indicators, x)), event), P)
    BY <1>3, <1>4, <2>4, Zenon
  <2>. QED  BY <1>1, <2>1, <2>2, <2>3, <2>5, DoraIs
<1>6. CASE e.tag = "reach" /\ e.step = 2
  <2>1. apply_event(r, e) = apply_reach(r, e)  BY <1>6 DEF apply_event
  <2>2. PICK event : event = [tag |-> "Riichi", actor |-> e.who]  OBVIOUS
  <2>3. AfterEvent(R, event)
          = [kyotaku |-> R.kyotaku + 1, dora_indicators |-> R.dora_indicators,
             dealer |-> R.dealer, players |-> R.players]
    BY <1>2, <2>2, AfterTable
  <2>4. Closes(r, Logged(WithTable(r, l.kyotaku + 1, l.dora_indicators), event), P)
    BY <1>3, <1>4, <2>3, Zenon
  <2>. QED  BY <1>1, <1>6, <2>1, <2>2, <2>4, ReachIs
<1>7. CASE e.tag = "reach" /\ e.step # 2
  <2>1. apply_event(r, e) = r  BY <1>7, ReachIs DEF apply_event
  <2>. QED  BY <2>1, Zenon DEF Closes, Leads
<1>. QED  BY <1>5, <1>6, <1>7

LEMMA ResultCloses ==
  ASSUME NEW P, NEW r, IsRound(r, P), Reproduces(r, P), NEW e, e.tag \in {"agari", "ryukyoku"}
  PROVE  Closes(r, apply_event(r, e), P)
<1>1. PICK s : s = apply_event(r, e)  OBVIOUS
<1>2. PICK event, result : event.tag \in {"Tsumo", "Ron", "Ryukyoku"} /\ s = Ended(r, event, result)
  BY <1>1, ResultEvents
<1>3. IsRound(s, P)  BY <1>2, EndedRound
<1>4. s.initial = r.initial /\ s.events = Append(r.events, event) /\ s.last = r.last  BY <1>2 DEF Ended
<1>5. AfterEvent(Restored(r.last, P), event) = Restored(r.last, P)
  <2>1. event.tag \in {"Tsumo", "Ron", "Ryukyoku"}  BY <1>2
  <2>. QED  BY ONLY <2>1, AfterEnd
<1>6. OneEvent(r, s, P, event)  BY <1>4, <1>5, Zenon DEF OneEvent
<1>. QED  BY <1>1, <1>3, <1>4, <1>6, OneEventReproduced, Zenon DEF Closes, Leads

\* The events of a round.
InTheRound(e, P) ==
  \/ e.tag \in {"draw", "discard", "meld"} /\ e.who \in P
  \/ e.tag \in {"dora", "reach", "agari", "ryukyoku"}

LEMMA EventCloses ==
  ASSUME NEW P, NEW r, IsRound(r, P), Reproduces(r, P), NEW e, InTheRound(e, P)
  PROVE  Closes(r, apply_event(r, e), P)
<1>1. CASE e.tag = "draw" /\ e.who \in P
  <2>1. apply_event(r, e) = apply_draw(r, e)  BY <1>1 DEF apply_event
  <2>. QED  BY <1>1, <2>1, DrawCloses
<1>2. CASE e.tag = "discard" /\ e.who \in P
  <2>1. apply_event(r, e) = apply_discard(r, e)  BY <1>2 DEF apply_event
  <2>. QED  BY <1>2, <2>1, DiscardCloses
<1>3. CASE e.tag = "meld" /\ e.who \in P /\ is_nuki(e.m)
  <2>1. apply_event(r, e) = apply_nuki_event(r, e.who)  BY <1>3 DEF apply_event, apply_meld
  <2>. QED  BY <1>3, <2>1, NukiCloses
<1>4. CASE e.tag = "meld" /\ e.who \in P /\ ~is_nuki(e.m)
  <2>1. PICK meld : meld = decode_meld(e.m)  OBVIOUS
  <2>2. apply_event(r, e) = apply_call_event(r, e.who, meld)  BY <1>4, <2>1 DEF apply_event, apply_meld
  <2>3. Countable(meld_tiles_in_hand(meld))  BY <1>4, <2>1, CallCountable
  <2>. QED  BY <1>4, <2>2, <2>3, CallCloses
<1>5. CASE e.tag \in {"dora", "reach"}  BY <1>5, TableCloses
<1>6. CASE e.tag \in {"agari", "ryukyoku"}  BY <1>6, ResultCloses
<1>. QED  BY <1>1, <1>2, <1>3, <1>4, <1>5, <1>6 DEF InTheRound

\* The record of a round that is just dealt has no event, and no nuki.
LEMMA DealtReproduces == ASSUME NEW P, NEW r, NEW e, Dealt(r, P, e)  PROVE Reproduces(r, P)
<1>1. /\ IsRound(r, P) /\ r.initial = r.last /\ r.events = << >>
      /\ \A p \in P : r.last.players[p].nuki_count = 0
  BY Zenon DEF Dealt
<1>2. PICK l, f : l = r.last /\ f = l.players  OBVIOUS
<1>3. l = WithPlayers(l, f) /\ f = [p \in P |-> f[p]] /\ \A p \in P : IsPlayer(f[p])
  BY <1>1, <1>2, Zenon DEF IsRound, IsState, WithPlayers
<1>4. ASSUME NEW p \in P  PROVE Back(f[p]) = f[p]
  <2>1. PICK q : q = f[p]  OBVIOUS
  <2>2. IsPlayer(q) /\ q.nuki_count = 0  BY <1>1, <1>2, <1>3, <2>1, Zenon
  <2>3. PICK h : h = q.hand  OBVIOUS
  <2>4. h \in [Codes -> Int]  BY <2>2, <2>3 DEF IsPlayer
  <2>5. \A c \in Codes : h[c] + (IF c = North THEN 0 ELSE 0) = h[c]  BY <2>4
  <2>6. [c \in Codes |-> h[c] + IF c = North THEN 0 ELSE 0] = h  BY <2>4, <2>5
  <2>7. BackHand(q) = h  BY <2>2, <2>3, <2>6, Zenon DEF BackHand
  <2>. QED  BY <2>1, <2>2, <2>3, <2>7, Zenon DEF Back, IsPlayer
<1>5. [p \in P |-> Back(f[p])] = f  BY <1>3, <1>4, Zenon
<1>6. Restored(l, P) = l  BY <1>2, <1>3, <1>5, Zenon DEF Restored
<1>7. Replayed(r.initial, r.events) = r.initial  BY <1>1, ReplayedEmpty, Zenon
<1>. QED  BY <1>1, <1>2, <1>6, <1>7, Zenon DEF Reproduces

ClosedInv == Started => Reproduces(Round, Players)

LEMMA EventStep ==
  ASSUME RecordInv, ClosedInv, Started, NEW e, Log(e), InTheRound(e, Players)
  PROVE  ClosedInv'
<1>1. PICK P, r : P = Players /\ r = Round  OBVIOUS
<1>2. PICK s : s = apply_event(r, e)  OBVIOUS
<1>3. IsRound(r, P) /\ Reproduces(r, P)  BY <1>1, RoundIs DEF ClosedInv
<1>4. IsRound(s, P) /\ s.initial = r.initial /\ Reproduces(s, P)
  <2>1. Closes(r, s, P)  BY <1>1, <1>2, <1>3, EventCloses, Zenon
  <2>. QED  BY <2>1, Zenon DEF Closes, Leads
<1>5. e.tag \notin {"UN", "INIT"}  BY DEF InTheRound
<1>6. Players' = Players /\ Round' = s
  <2>1. IsRound(s, Players) /\ s.initial = Round.initial /\ s = apply_event(Round, e)
    BY <1>1, <1>2, <1>4, Zenon
  <2>. QED  BY <1>5, <2>1, RoundStep
<1>. QED  BY <1>1, <1>4, <1>6, Zenon DEF ClosedInv

LEMMA ClosedDeal == ASSUME TableInv, RecordInv, NEW oya \in Players, Deal(oya)  PROVE ClosedInv'
<1>1. PICK n, P : n = NumPlayers /\ P = Players  OBVIOUS
<1>2. n \in {3, 4} /\ P = 0..(n - 1)  BY <1>1, PlayersAre
<1>3. PICK d \in setup.deals :
         Log([tag |-> "INIT", oya |-> oya, ten |-> points, kyotaku |-> pot, dora |-> d.dora, hands |-> d.hands])
  BY Zenon DEF Deal
<1>4. PICK e : e = [tag |-> "INIT", oya |-> oya, ten |-> points, kyotaku |-> pot, dora |-> d.dora,
                    hands |-> d.hands]
  OBVIOUS
<1>5. e.tag = "INIT" /\ e.ten = points /\ e.hands = d.hands  BY <1>4
<1>6. Deals(e, P)
  <2>1. setup \in Setups /\ points \in [P -> Int]  BY <1>1 DEF TableInv
  <2>2. \A p \in P : d.hands[p] \in Seq(Ids)  BY <1>1, <2>1, SetupsAssumption DEF Players, NumPlayers
  <2>. QED  BY <1>5, <2>1, <2>2 DEF Deals, IsList
<1>7. PICK r : r = make_round_record(e, n)  OBVIOUS
<1>8. Dealt(r, P, e)  BY <1>2, <1>6, <1>7, DealtRound, Zenon
<1>9. Reproduces(r, P)  BY <1>8, DealtReproduces, Zenon
<1>10. Players' = P  BY <1>1, <1>3 DEF Log, Players, NumPlayers
<1>11. Round' = r
  <2>1. game' = [game EXCEPT !.rounds = Append(@, r)]
    <3>1. Len(game.players) = n  BY <1>1 DEF RecordInv, IsGame
    <3>2. game' = build_replay(game, e)  BY <1>3, <1>4, Zenon DEF Log
    <3>3. game' = [game EXCEPT !.rounds = Append(@, make_round_record(e, Len(game.players)))]
      BY <1>5, <3>2 DEF build_replay
    <3>. QED  BY <1>7, <3>1, <3>3, Zenon
  <2>2. PICK g, s, t : g = game /\ s = g.rounds /\ t = Append(s, r)  OBVIOUS
  <2>3. IsList(s) /\ g = [players |-> g.players, rounds |-> s]  BY <2>2, Zenon DEF RecordInv, IsGame
  <2>4. game' = [g EXCEPT !.rounds = t]  BY <2>1, <2>2, Zenon
  <2>5. game'.rounds = t
    <3>1. [g EXCEPT !.rounds = t] = [players |-> g.players, rounds |-> t]  BY ONLY <2>3
    <3>. QED  BY <2>4, <3>1
  <2>6. Last(t) = r
    <3>1. IsList(t) /\ Len(t) = Len(s) + 1 /\ Len(s) \in Nat /\ t[Len(s) + 1] = r  BY <2>2, <2>3, AppendList
    <3>. QED  BY <3>1, LastIs
  <2>7. Round' = Last(game'.rounds)  BY DEF Round
  <2>. QED  BY <2>5, <2>6, <2>7, Zenon
<1>. QED  BY <1>9, <1>10, <1>11, Zenon DEF ClosedInv

\* Every move logs at most one event.
LEMMA ClosedStep == TableInv /\ RecordInv /\ ClosedInv /\ [Next]_vars => ClosedInv'
<1>. SUFFICES ASSUME TableInv, RecordInv, ClosedInv, [Next]_vars PROVE ClosedInv'  OBVIOUS
<1>0. (phase # "over" => Started) /\ (~Started => wins = << >>)  BY DEF RecordInv
<1>1. ASSUME NEW p \in Players, Deal(p)  PROVE ClosedInv'  BY <1>1, ClosedDeal
<1>2. ASSUME NEW p \in Players, Reconnect(p)  PROVE ClosedInv'
  <2>1. PICK names : game' = build_replay(game, [tag |-> "UN", names |-> names])  BY <1>2 DEF Reconnect, Log
  <2>2. game.players # << >>  BY DEF RecordInv, IsGame
  <2>3. game' = game /\ setup' = setup  BY <1>2, <2>1, <2>2 DEF build_replay, Reconnect, Log
  <2>. QED  BY <2>3 DEF ClosedInv, Started, Round, Players, NumPlayers
<1>3. ASSUME NEW p \in Players, Draw(p)  PROVE ClosedInv'
  <2>1. PICK e : e = [tag |-> "draw", who |-> p, tile |-> Head(wall)]  OBVIOUS
  <2>2. InTheRound(e, Players)  BY <2>1 DEF InTheRound
  <2>3. Log(e) /\ phase # "over"  BY <1>3, <2>1 DEF Draw, Free
  <2>. QED  BY <1>0, <2>2, <2>3, EventStep
<1>4. ASSUME NEW p \in Players, Discard(p)  PROVE ClosedInv'
  <2>1. PICK id : Log([tag |-> "discard", who |-> p, tile |-> id])  BY <1>4, Zenon DEF Discard
  <2>2. PICK e : e = [tag |-> "discard", who |-> p, tile |-> id]  OBVIOUS
  <2>3. InTheRound(e, Players)  BY <2>2 DEF InTheRound
  <2>4. Log(e) /\ phase # "over"  BY <1>4, <2>1, <2>2 DEF Discard
  <2>. QED  BY <1>0, <2>3, <2>4, EventStep
<1>5. ASSUME NEW p \in Players, Declare(p) \/ Deposit(p)  PROVE ClosedInv'
  <2>1. PICK k : Log([tag |-> "reach", who |-> p, step |-> k])
    <3>1. CASE Declare(p)  BY <3>1, Zenon DEF Declare
    <3>2. CASE Deposit(p)  BY <3>2, Zenon DEF Deposit
    <3>. QED  BY <1>5, <3>1, <3>2
  <2>2. PICK e : e = [tag |-> "reach", who |-> p, step |-> k]  OBVIOUS
  <2>3. InTheRound(e, Players)  BY <2>2 DEF InTheRound
  <2>4. Log(e) /\ phase # "over"  BY <1>5, <2>1, <2>2 DEF Declare, OwnTurn, Deposit
  <2>. QED  BY <1>0, <2>3, <2>4, EventStep
<1>6. ASSUME NEW p \in Players, Chi(p) \/ Pon(p) \/ Daiminkan(p) \/ Ankan(p) \/ Kakan(p) \/ Nuki(p)
      PROVE  ClosedInv'
  <2>1. PICK ids, newcodes, m : Call(p, ids, newcodes, m)
    <3>1. CASE Chi(p)  BY <3>1, Zenon DEF Chi
    <3>2. CASE Pon(p)  BY <3>2, Zenon DEF Pon
    <3>3. CASE Daiminkan(p)  BY <3>3, Zenon DEF Daiminkan
    <3>4. CASE Ankan(p)  BY <3>4, Zenon DEF Ankan
    <3>5. CASE Kakan(p)  BY <3>5, Zenon DEF Kakan
    <3>6. CASE Nuki(p)  BY <3>6, Zenon DEF Nuki
    <3>. QED  BY <1>6, <3>1, <3>2, <3>3, <3>4, <3>5, <3>6
  <2>2. phase # "over"
    <3>1. CanCall(p) \/ OwnTurn(p)  BY <1>6 DEF Chi, Pon, Daiminkan, Ankan, Kakan, Nuki
    <3>. QED  BY <3>1 DEF CanCall, Free, OwnTurn
  <2>3. PICK e : e = [tag |-> "meld", who |-> p, m |-> m]  OBVIOUS
  <2>4. InTheRound(e, Players) /\ Log(e)  BY <2>1, <2>3 DEF InTheRound, Call
  <2>. QED  BY <1>0, <2>2, <2>4, EventStep
<1>7. ASSUME NEW p, NEW q, NEW machi, NEW hai, Win(p, q, machi, hai), Started  PROVE ClosedInv'
  <2>1. PICK liable, pao_yaku : WinWith(p, q, machi, hai, liable, pao_yaku)  BY <1>7, WinIs
  <2>2. PICK from, m, sc :
           Log([tag |-> "agari", who |-> p, from_who |-> from, machi |-> machi, hai |-> Sorted(hai), m |-> m,
                kyotaku |-> pot, pao_yaku |-> pao_yaku, sc |-> sc])
    BY <2>1, Zenon DEF WinWith
  <2>3. PICK e : e = [tag |-> "agari", who |-> p, from_who |-> from, machi |-> machi, hai |-> Sorted(hai),
                      m |-> m, kyotaku |-> pot, pao_yaku |-> pao_yaku, sc |-> sc]
    OBVIOUS
  <2>4. InTheRound(e, Players)  BY <2>3 DEF InTheRound
  <2>. QED  BY <1>7, <2>2, <2>3, <2>4, EventStep, Zenon
<1>8. ASSUME NEW p \in Players, Tsumo(p)  PROVE ClosedInv'
  <2>1. Win(p, Null, drew, held[p]) /\ phase # "over"  BY <1>8 DEF Tsumo, OwnTurn
  <2>. QED  BY <1>0, <1>7, <2>1
<1>9. ASSUME NEW p \in Players, Ron(p)  PROVE ClosedInv'
  <2>1. Win(p, turn, tile, held[p] \cup {tile})  BY <1>9 DEF Ron
  <2>2. phase # "over" \/ wins # << >>
    <3>1. phase \in {"discarded", "added"} \/ Len(wins) = 1  BY <1>9 DEF Ron
    <3>2. Len(<< >>) = 0  BY EmptyList
    <3>. QED  BY <3>1, <3>2
  <2>. QED  BY <1>0, <1>7, <2>1, <2>2
<1>10. ASSUME ShowDora  PROVE ClosedInv'
  <2>1. PICK id : Log([tag |-> "dora", tile |-> id])  BY <1>10, Zenon DEF ShowDora
  <2>2. PICK e : e = [tag |-> "dora", tile |-> id]  OBVIOUS
  <2>3. InTheRound(e, Players)  BY <2>2 DEF InTheRound
  <2>4. Log(e) /\ phase # "over"  BY <1>10, <2>1, <2>2 DEF ShowDora
  <2>. QED  BY <1>0, <2>3, <2>4, EventStep
<1>11. ASSUME Exhausted \/ FourKans  PROVE ClosedInv'
  <2>1. PICK type, delta : EndInDraw(type, delta)
    <3>1. CASE Exhausted  BY <3>1, Zenon DEF Exhausted
    <3>2. CASE FourKans  BY <3>2, Zenon DEF FourKans
    <3>. QED  BY <1>11, <3>1, <3>2
  <2>2. PICK e : e = [tag |-> "ryukyoku", type |-> type, kyotaku |-> pot, sc |-> Sc(delta)]  OBVIOUS
  <2>3. InTheRound(e, Players)  BY <2>2 DEF InTheRound
  <2>4. Log(e)  BY <2>1, <2>2, Zenon DEF EndInDraw
  <2>5. phase # "over"  BY <1>11 DEF Exhausted, FourKans, Free
  <2>. QED  BY <1>0, <2>3, <2>4, <2>5, EventStep
<1>12. ASSUME UNCHANGED vars  PROVE ClosedInv'
  BY <1>12 DEF vars, ClosedInv, Started, Round, Players, NumPlayers
<1>. QED
  BY <1>1, <1>2, <1>3, <1>4, <1>5, <1>6, <1>8, <1>9, <1>10, <1>11, <1>12 DEF Next

\* Whatever is played, the record of a round is closed: whoever applies its events to its
\* first snapshot gets its last one, but for the nuki, which leave no event.
THEOREM EventsReproduceLastCorrect == Spec => []EventsReproduceLast
<1>1. Init => ClosedInv
  <2>1. Init => game.rounds = << >>  BY DEF Init, build_replay, NoGame
  <2>. QED  BY <2>1 DEF ClosedInv, Started
<1>2. RecordInv /\ ClosedInv => EventsReproduceLast
  <2>. SUFFICES ASSUME RecordInv, ClosedInv, Started PROVE EventsReproduceLast  BY DEF EventsReproduceLast
  <2>1. PICK P, l, f : P = Players /\ l = Round.last /\ f = l.players  OBVIOUS
  <2>2. DOMAIN f = P /\ l = WithPlayers(l, f)
    <3>1. IsState(l, P)  BY <2>1, RoundIs, Zenon DEF IsRound
    <3>. QED  BY <2>1, <3>1, Zenon DEF IsState, WithPlayers
  <2>3. PICK g : g = [p \in P |-> [f[p] EXCEPT !.nuki_count = 0,
                       !.hand = [c \in Codes |-> @[c] + IF c = North THEN f[p].nuki_count ELSE 0]]]
    OBVIOUS
  <2>4. [l EXCEPT !.players = g] = WithPlayers(l, g)
    <3>1. l = [kyotaku |-> l.kyotaku, dora_indicators |-> l.dora_indicators, dealer |-> l.dealer, players |-> f]
      BY <2>2, Zenon DEF WithPlayers
    <3>2. [l EXCEPT !.players = g]
            = [kyotaku |-> l.kyotaku, dora_indicators |-> l.dora_indicators, dealer |-> l.dealer, players |-> g]
      BY ONLY <3>1
    <3>. QED  BY <3>2, Zenon DEF WithPlayers
  <2>5. g = [p \in P |-> Back(f[p])]
    <3>1. ASSUME NEW p \in P
          PROVE  [f[p] EXCEPT !.nuki_count = 0,
                    !.hand = [c \in Codes |-> @[c] + IF c = North THEN f[p].nuki_count ELSE 0]] = Back(f[p])
      <4>1. PICK q : q = f[p]  OBVIOUS
      <4>2. IsPlayer(q)  BY <2>1, <4>1, RoundIs, Zenon DEF IsRound, IsState
      <4>3. q = [hand |-> q.hand, melds |-> q.melds, nuki_count |-> q.nuki_count,
                 score |-> q.score, seat_wind |-> q.seat_wind]
        BY <4>2, Zenon DEF IsPlayer
      <4>4. PICK h : h = [c \in Codes |-> q.hand[c] + IF c = North THEN q.nuki_count ELSE 0]  OBVIOUS
      <4>5. [q EXCEPT !.nuki_count = 0, !.hand = h]
              = [hand |-> h, melds |-> q.melds, nuki_count |-> 0, score |-> q.score, seat_wind |-> q.seat_wind]
        <5>1. PICK a : a = [q EXCEPT !.nuki_count = 0, !.hand = h]  OBVIOUS
        <5>2. DOMAIN a = DOMAIN q /\ \A x \in DOMAIN q : a[x] = IF x = "hand" THEN h ELSE IF x = "nuki_count" THEN 0 ELSE q[x]
          BY <4>3, <5>1
        <5>. QED  BY <4>3, <5>1, <5>2
      <4>6. [q EXCEPT !.nuki_count = 0,
               !.hand = [c \in Codes |-> @[c] + IF c = North THEN q.nuki_count ELSE 0]]
              = [q EXCEPT !.nuki_count = 0, !.hand = h]
        BY <4>3, <4>4
      <4>7. Back(q) = [hand |-> h, melds |-> q.melds, nuki_count |-> 0, score |-> q.score, seat_wind |-> q.seat_wind]
        BY <4>4, Zenon DEF Back, BackHand
      <4>. QED  BY <4>1, <4>5, <4>6, <4>7, Zenon
    <3>. QED  BY <2>3, <3>1, Zenon
  <2>6. Replayed(Round.initial, Round.events) = Restored(Round.last, P)  BY <2>1, Zenon DEF ClosedInv, Reproduces
  <2>7. Restored(Round.last, P) = [l EXCEPT !.players = g]  BY <2>1, <2>4, <2>5, Zenon DEF Restored
  <2>8. FoldLeft(AfterEvent, Round.initial, Round.events) = [l EXCEPT !.players = g]
    BY <2>6, <2>7, Zenon DEF Replayed
  <2>9. [l EXCEPT !.players = g]
          = [Round.last EXCEPT !.players =
              [p \in DOMAIN @ |-> [State(p) EXCEPT !.nuki_count = 0,
                 !.hand = [c \in Codes |-> @[c] + IF c = North THEN State(p).nuki_count ELSE 0]]]]
    BY <2>1, <2>2, <2>3, Zenon DEF State
  <2>. QED  BY <2>8, <2>9, Zenon DEF EventsReproduceLast
<1>. QED  BY <1>1, <1>2, ClosedStep, RecordCorrect, PTL DEF Spec

-----------------------------------------------------------------------------
(* The bits of a code: a sum of fields, each shifted to its place.         *)

ChiSum(from, a, b, c, e) == from + 4 + 8 * a + 32 * b + 128 * c + 1024 * e

ChiFields(v, from, a, b, c, e) ==
  /\ v \in Nat /\ ~is_nuki(v) /\ is_chi(v) /\ ~is_pon(v)
  /\ Bits(v, 0, 2) = from
  /\ Bits(v, 3, 2) = a /\ Bits(v, 5, 2) = b /\ Bits(v, 7, 2) = c /\ Bits(v, 10, 6) = e
IsChiCode(from, a, b, c, e) ==
  from \in 0..3 /\ a \in 0..3 /\ b \in 0..3 /\ c \in 0..3 /\ e \in 0..63

LEMMA ChiBits ==
  ASSUME NEW from, NEW a, NEW b, NEW c, NEW e, IsChiCode(from, a, b, c, e),
         NEW v, v = ChiSum(from, a, b, c, e)
  PROVE  ChiFields(v, from, a, b, c, e)
<1>. from \in 0..3 /\ a \in 0..3 /\ b \in 0..3 /\ c \in 0..3 /\ e \in 0..63  BY DEF IsChiCode
<1>. DEFINE w == from + 4 + 8 * a + 32 * b + 128 * c + 1024 * e
<1>0. v = w /\ v \in Nat  BY DEF ChiSum
<1>1. v \div 4 = 1 + 2 * a + 8 * b + 32 * c + 256 * e  BY <1>0
<1>2. v \div 8 = a + 4 * b + 16 * c + 128 * e  BY <1>0
<1>3. v \div 32 = b + 4 * c + 32 * e  BY <1>0
<1>4. v \div 128 = c + 8 * e  BY <1>0
<1>5. v \div 1024 = e  BY <1>0
<1>6. 2^0 = 1 /\ 2^1 = 2 /\ 2^2 = 4 /\ 2^3 = 8 /\ 2^4 = 16 /\ 2^5 = 32 /\ 2^6 = 64 /\ 2^7 = 128 /\ 2^10 = 1024
  OBVIOUS
<1>7. Bits(v, 0, 2) = from
  <2>1. v % 4 = from /\ v \div 1 = v  BY <1>0
  <2>. QED  BY <1>6, <2>1 DEF Bits
<1>8. Bits(v, 3, 2) = a
  <2>1. (a + 4 * b + 16 * c + 128 * e) % 4 = a  OBVIOUS
  <2>. QED  BY <1>2, <1>6, <2>1 DEF Bits
<1>9. Bits(v, 5, 2) = b
  <2>1. (b + 4 * c + 32 * e) % 4 = b  OBVIOUS
  <2>. QED  BY <1>3, <1>6, <2>1 DEF Bits
<1>10. Bits(v, 7, 2) = c
  <2>1. (c + 8 * e) % 4 = c  OBVIOUS
  <2>. QED  BY <1>4, <1>6, <2>1 DEF Bits
<1>11. Bits(v, 10, 6) = e
  <2>1. e % 64 = e  OBVIOUS
  <2>. QED  BY <1>5, <1>6, <2>1 DEF Bits
<1>12. is_chi(v)
  <2>1. (1 + 2 * a + 8 * b + 32 * c + 256 * e) % 2 = 1  OBVIOUS
  <2>. QED  BY <1>1, <1>6, <2>1 DEF Bits, is_chi
<1>13. ~is_nuki(v)
  <2>1. (1 + 2 * a + 8 * b + 32 * c + 256 * e) % 16 # 8  OBVIOUS
  <2>. QED  BY <1>1, <1>6, <2>1 DEF Bits, is_nuki
<1>14. ~is_pon(v)
  <2>1. (1 + 2 * a + 8 * b + 32 * c + 256 * e) % 4 # 2  OBVIOUS
  <2>. QED  BY <1>1, <1>6, <2>1 DEF Bits, is_pon
<1>. QED  BY <1>0, <1>7, <1>8, <1>9, <1>10, <1>11, <1>12, <1>13, <1>14 DEF ChiFields

LEMMA PonBits ==
  ASSUME NEW from \in 0..3, NEW u \in 0..3, NEW e \in 0..127,
         NEW v, v = from + 8 + 32 * u + 512 * e
  PROVE  /\ ~is_nuki(v) /\ ~is_chi(v) /\ is_pon(v)
         /\ Bits(v, 0, 2) = from /\ Bits(v, 5, 2) = u /\ Bits(v, 9, 7) = e
<1>0. v \in Nat  OBVIOUS
<1>1. v \div 4 = 2 + 8 * u + 128 * e  OBVIOUS
<1>2. v \div 32 = u + 16 * e  OBVIOUS
<1>3. v \div 512 = e  OBVIOUS
<1>4. 2^0 = 1 /\ 2^1 = 2 /\ 2^2 = 4 /\ 2^4 = 16 /\ 2^5 = 32 /\ 2^7 = 128 /\ 2^9 = 512  OBVIOUS
<1>5. Bits(v, 0, 2) = from
  <2>1. v % 4 = from /\ v \div 1 = v  BY <1>0
  <2>. QED  BY <1>4, <2>1 DEF Bits
<1>6. Bits(v, 5, 2) = u
  <2>1. (u + 16 * e) % 4 = u  OBVIOUS
  <2>. QED  BY <1>2, <1>4, <2>1 DEF Bits
<1>7. Bits(v, 9, 7) = e
  <2>1. e % 128 = e  OBVIOUS
  <2>. QED  BY <1>3, <1>4, <2>1 DEF Bits
<1>8. ~is_chi(v) /\ is_pon(v)
  <2>1. (2 + 8 * u + 128 * e) % 2 = 0 /\ (2 + 8 * u + 128 * e) % 4 = 2  OBVIOUS
  <2>. QED  BY <1>1, <1>4, <2>1 DEF Bits, is_chi, is_pon
<1>9. ~is_nuki(v)
  <2>1. (2 + 8 * u + 128 * e) % 16 # 8  OBVIOUS
  <2>. QED  BY <1>1, <1>4, <2>1 DEF Bits, is_nuki
<1>. QED  BY <1>5, <1>6, <1>7, <1>8, <1>9

LEMMA KakanBits ==
  ASSUME NEW from \in 0..3, NEW u \in 0..3, NEW e \in 0..127,
         NEW v, v = from + 16 + 32 * u + 512 * e
  PROVE  /\ ~is_nuki(v) /\ ~is_chi(v) /\ ~is_pon(v) /\ is_kakan(v)
         /\ Bits(v, 0, 2) = from /\ Bits(v, 5, 2) = u /\ Bits(v, 9, 7) = e
<1>0. v \in Nat  OBVIOUS
<1>1. v \div 4 = 4 + 8 * u + 128 * e  OBVIOUS
<1>2. v \div 32 = u + 16 * e  OBVIOUS
<1>3. v \div 512 = e  OBVIOUS
<1>4. v \div 16 = 1 + 2 * u + 32 * e  OBVIOUS
<1>5. 2^0 = 1 /\ 2^1 = 2 /\ 2^2 = 4 /\ 2^4 = 16 /\ 2^5 = 32 /\ 2^7 = 128 /\ 2^9 = 512  OBVIOUS
<1>6. Bits(v, 0, 2) = from
  <2>1. v % 4 = from /\ v \div 1 = v  BY <1>0
  <2>. QED  BY <1>5, <2>1 DEF Bits
<1>7. Bits(v, 5, 2) = u
  <2>1. (u + 16 * e) % 4 = u  OBVIOUS
  <2>. QED  BY <1>2, <1>5, <2>1 DEF Bits
<1>8. Bits(v, 9, 7) = e
  <2>1. e % 128 = e  OBVIOUS
  <2>. QED  BY <1>3, <1>5, <2>1 DEF Bits
<1>9. ~is_chi(v) /\ ~is_pon(v)
  <2>1. (4 + 8 * u + 128 * e) % 2 = 0 /\ (4 + 8 * u + 128 * e) % 4 = 0  OBVIOUS
  <2>. QED  BY <1>1, <1>5, <2>1 DEF Bits, is_chi, is_pon
<1>10. ~is_nuki(v)
  <2>1. (4 + 8 * u + 128 * e) % 16 # 8  OBVIOUS
  <2>. QED  BY <1>1, <1>5, <2>1 DEF Bits, is_nuki
<1>11. is_kakan(v)
  <2>1. (1 + 2 * u + 32 * e) % 2 = 1 /\ (4 + 8 * u + 128 * e) % 2 = 0  OBVIOUS
  <2>. QED  BY <1>1, <1>4, <1>5, <2>1 DEF Bits, is_kakan
<1>. QED  BY <1>6, <1>7, <1>8, <1>9, <1>10, <1>11

LEMMA KanBits ==
  ASSUME NEW from \in 0..3, NEW id \in 0..135, NEW v, v = KanCode(from, id)
  PROVE  /\ ~is_nuki(v) /\ ~is_chi(v) /\ ~is_pon(v) /\ ~is_kakan(v)
         /\ Bits(v, 0, 2) = from /\ Bits(v, 8, 8) = id
<1>0. v = from + 256 * id /\ v \in Nat  BY DEF KanCode
<1>1. v \div 4 = 64 * id  BY <1>0
<1>2. v \div 16 = 16 * id  BY <1>0
<1>3. v \div 256 = id  BY <1>0
<1>4. 2^0 = 1 /\ 2^1 = 2 /\ 2^2 = 4 /\ 2^4 = 16 /\ 2^8 = 256  OBVIOUS
<1>5. Bits(v, 0, 2) = from
  <2>1. v % 4 = from /\ v \div 1 = v  BY <1>0
  <2>. QED  BY <1>4, <2>1 DEF Bits
<1>6. Bits(v, 8, 8) = id
  <2>1. id % 256 = id  OBVIOUS
  <2>. QED  BY <1>3, <1>4, <2>1 DEF Bits
<1>7. (64 * id) % 2 = 0 /\ (64 * id) % 4 = 0 /\ (64 * id) % 16 = 0 /\ (16 * id) % 2 = 0  OBVIOUS
<1>8. ~is_nuki(v) /\ ~is_chi(v) /\ ~is_pon(v) /\ ~is_kakan(v)
  BY <1>1, <1>2, <1>4, <1>7 DEF Bits, is_nuki, is_chi, is_pon, is_kakan
<1>. QED  BY <1>5, <1>6, <1>8

LEMMA NukiBits == ASSUME NEW id \in 0..135  PROVE is_nuki(NukiCode(id)) /\ NukiCode(id) \in Nat
<1>1. PICK v : v = 32 + 256 * id  OBVIOUS
<1>2. v \div 4 = 8 + 64 * id  BY <1>1
<1>3. (8 + 64 * id) % 16 = 8  OBVIOUS
<1>4. 2^2 = 4 /\ 2^4 = 16  OBVIOUS
<1>5. is_nuki(v)  BY <1>2, <1>3, <1>4 DEF Bits, is_nuki
<1>. QED  BY <1>1, <1>5 DEF NukiCode

-----------------------------------------------------------------------------
(* What decode_meld makes of the codes of the log.                         *)

MeldOf(type, ids, called, from) ==
  [type |-> type, tiles |-> to_tiles(ids), discarded_tile |-> called, from |-> to_meld_from_seat(from)]

LEMMA MeldIs ==
  ASSUME NEW type, NEW ids, NEW called, NEW v, NEW from, Bits(v, 0, 2) = from
  PROVE  Meld(type, ids, called, v) = MeldOf(type, ids, called, from)
BY Zenon DEF Meld, MeldOf

ChiIds(low, idx) == [i \in 1..3 |-> 4 * (low + i - 1) + idx[i]]

LEMMA ChiDecoded ==
  ASSUME NEW from \in 0..3, NEW low \in Sequences3, NEW idx \in [1..3 -> 0..3], NEW called \in 1..3,
         NEW v, v = ChiCode(from, low, idx, called)
  PROVE  /\ v \in Nat /\ ~is_nuki(v) /\ is_chi(v) /\ ~is_pon(v)
         /\ decode_meld(v) = MeldOf("Chi", ChiIds(low, idx), to_tile(ChiIds(low, idx)[called]), from)
<1>1. PICK a, b, c : a = idx[1] /\ b = idx[2] /\ c = idx[3]  OBVIOUS
<1>2. a \in 0..3 /\ b \in 0..3 /\ c \in 0..3 /\ low \in 0..26 /\ low % 9 <= 6  BY <1>1 DEF Sequences3
<1>3. PICK q, r : q = low \div 9 /\ r = low % 9  OBVIOUS
<1>4. q \in 0..2 /\ r \in 0..6 /\ low = 9 * q + r  BY <1>2, <1>3
<1>5. PICK s, e : s = 7 * q + r /\ e = 3 * s + called - 1  OBVIOUS
<1>6. s \in 0..20 /\ e \in 0..63 /\ e \div 3 = s /\ e % 3 = called - 1  BY <1>4, <1>5
<1>7. s \div 7 = q /\ s % 7 = r  BY <1>4, <1>5
<1>8. v = ChiSum(from, a, b, c, e)
  <2>1. v = from + 4 + 8 * idx[1] + 32 * idx[2] + 128 * idx[3]
              + 1024 * (3 * (7 * (low \div 9) + (low % 9)) + called - 1)
    BY DEF ChiCode
  <2>. QED  BY ONLY <1>1, <1>2, <1>3, <1>4, <1>5, <2>1 DEF ChiSum
<1>9. /\ v \in Nat /\ ~is_nuki(v) /\ is_chi(v) /\ ~is_pon(v) /\ Bits(v, 0, 2) = from
      /\ Bits(v, 3, 2) = a /\ Bits(v, 5, 2) = b /\ Bits(v, 7, 2) = c /\ Bits(v, 10, 6) = e
  <2>1. IsChiCode(from, a, b, c, e)  BY <1>2, <1>6 DEF IsChiCode
  <2>2. ChiFields(v, from, a, b, c, e)  BY <1>8, <2>1, ChiBits, Zenon
  <2>. QED  BY ONLY <2>2 DEF ChiFields
<1>10. PICK base : base = (((e \div 3) \div 7) * 9 + ((e \div 3) % 7)) * 4  OBVIOUS
<1>11. base = 4 * low  BY <1>4, <1>6, <1>7, <1>10
<1>12. PICK ids : ids = << base + a, base + 4 + b, base + 8 + c >>  OBVIOUS
<1>13. ids = ChiIds(low, idx)
  <2>1. PICK t : t = ChiIds(low, idx)  OBVIOUS
  <2>2. t = [i \in 1..3 |-> 4 * (low + i - 1) + idx[i]]  BY <2>1, Zenon DEF ChiIds
  <2>3. t[1] = base + a /\ t[2] = base + 4 + b /\ t[3] = base + 8 + c
    BY <1>1, <1>2, <1>11, <2>2
  <2>4. t = << t[1], t[2], t[3] >>  BY <2>2
  <2>. QED  BY <1>12, <2>1, <2>3, <2>4
<1>14. (e % 3) + 1 = called  BY <1>6
<1>15. decode_chi(v) = Meld("Chi", ids, to_tile(ids[called]), v)
  BY <1>9, <1>10, <1>12, <1>14, Zenon DEF decode_chi
<1>16. decode_meld(v) = decode_chi(v)  BY <1>9, Zenon DEF decode_meld
<1>. QED  BY <1>9, <1>13, <1>15, <1>16, MeldIs, Zenon

PonIds(kind, unused) == [i \in 1..3 |-> 4 * kind + (IF i <= unused THEN i - 1 ELSE i)]

LEMMA PonDecoded ==
  ASSUME NEW from \in 0..3, NEW kind \in Kinds, NEW unused \in Nths, NEW called \in 1..3,
         NEW v, v = PonCode(from, kind, unused, called)
  PROVE  /\ v \in Nat /\ ~is_nuki(v) /\ is_pon(v) /\ ~is_chi(v)
         /\ Bits(v, 9, 7) \div 3 = kind /\ (Bits(v, 9, 7) % 3) + 1 = called
         /\ decode_meld(v) = MeldOf("Pon", PonIds(kind, unused), to_tile(PonIds(kind, unused)[called]), from)
<1>1. kind \in 0..33 /\ unused \in 0..3  BY DEF Kinds, Nths
<1>2. PICK e : e = 3 * kind + called - 1  OBVIOUS
<1>3. e \in 0..127 /\ e \div 3 = kind /\ (e % 3) + 1 = called  BY <1>1, <1>2
<1>4. v = from + 8 + 32 * unused + 512 * e  BY <1>2 DEF PonCode
<1>5. /\ ~is_nuki(v) /\ ~is_chi(v) /\ is_pon(v)
      /\ Bits(v, 0, 2) = from /\ Bits(v, 5, 2) = unused /\ Bits(v, 9, 7) = e
  BY <1>1, <1>3, <1>4, PonBits
<1>6. PICK base : base = (e \div 3) * 4  OBVIOUS
<1>7. base = 4 * kind  BY <1>1, <1>3, <1>6
<1>8. PICK ids : ids = [i \in 1..3 |-> base + (IF i <= unused THEN i - 1 ELSE i)]  OBVIOUS
<1>9. ids = PonIds(kind, unused)  BY <1>7, <1>8, Zenon DEF PonIds
<1>10. decode_pon(v) = Meld("Pon", ids, to_tile(ids[called]), v)
  BY <1>3, <1>5, <1>6, <1>8, Zenon DEF decode_pon
<1>11. decode_meld(v) = decode_pon(v)  BY <1>5, Zenon DEF decode_meld
<1>12. v \in Nat  BY <1>1, <1>3, <1>4
<1>13. decode_meld(v) = MeldOf("Pon", PonIds(kind, unused), to_tile(PonIds(kind, unused)[called]), from)
  BY <1>5, <1>9, <1>10, <1>11, MeldIs, Zenon
<1>. QED  BY <1>3, <1>5, <1>12, <1>13

LEMMA KakanDecoded ==
  ASSUME NEW from \in 0..3, NEW kind \in Kinds, NEW added \in Nths, NEW called \in 1..3,
         NEW v, v = KakanCode(from, kind, added, called)
  PROVE  /\ v \in Nat /\ ~is_nuki(v) /\ is_kakan(v) /\ ~is_chi(v) /\ ~is_pon(v)
         /\ Bits(v, 9, 7) \div 3 = kind
         /\ decode_meld(v) = MeldOf("Kakan", FourFrom(4 * kind), to_tile(4 * kind + added), from)
<1>1. kind \in 0..33 /\ added \in 0..3  BY DEF Kinds, Nths
<1>2. PICK e : e = 3 * kind + called - 1  OBVIOUS
<1>3. e \in 0..127 /\ e \div 3 = kind  BY <1>1, <1>2
<1>4. v = from + 16 + 32 * added + 512 * e  BY <1>2 DEF KakanCode
<1>5. /\ ~is_nuki(v) /\ ~is_chi(v) /\ ~is_pon(v) /\ is_kakan(v)
      /\ Bits(v, 0, 2) = from /\ Bits(v, 5, 2) = added /\ Bits(v, 9, 7) = e
  BY <1>1, <1>3, <1>4, KakanBits
<1>6. PICK base : base = (e \div 3) * 4  OBVIOUS
<1>7. base = 4 * kind  BY <1>1, <1>3, <1>6
<1>8. decode_kakan(v) = Meld("Kakan", FourFrom(base), to_tile(base + added), v)
  BY <1>5, <1>6, Zenon DEF decode_kakan
<1>9. decode_meld(v) = decode_kakan(v)  BY <1>5, Zenon DEF decode_meld
<1>10. v \in Nat  BY <1>1, <1>3, <1>4
<1>11. decode_meld(v) = MeldOf("Kakan", FourFrom(4 * kind), to_tile(4 * kind + added), from)
  <2>1. decode_meld(v) = Meld("Kakan", FourFrom(4 * kind), to_tile(4 * kind + added), v)
    BY <1>7, <1>8, <1>9, Zenon
  <2>. QED  BY <1>5, <2>1, MeldIs, Zenon
<1>. QED  BY <1>3, <1>5, <1>10, <1>11

LEMMA KanDecoded ==
  ASSUME NEW from \in 0..3, NEW id \in 0..135, NEW v, v = KanCode(from, id)
  PROVE  /\ v \in Nat /\ ~is_nuki(v) /\ ~is_chi(v) /\ ~is_pon(v) /\ ~is_kakan(v)
         /\ decode_meld(v) = IF from = 0 THEN MeldOf("Ankan", FourFrom(id - (id % 4)), Null, from)
                             ELSE MeldOf("Daiminkan", FourFrom(id - (id % 4)), to_tile(id), from)
<1>1. /\ ~is_nuki(v) /\ ~is_chi(v) /\ ~is_pon(v) /\ ~is_kakan(v)
      /\ Bits(v, 0, 2) = from /\ Bits(v, 8, 8) = id
  BY KanBits
<1>2. v \in Nat  BY DEF KanCode
<1>3. decode_meld(v) = decode_kan(v)  BY <1>1, Zenon DEF decode_meld
<1>4. decode_kan(v) = IF from = 0 THEN Meld("Ankan", FourFrom(id - (id % 4)), Null, v)
                      ELSE Meld("Daiminkan", FourFrom(id - (id % 4)), to_tile(id), v)
  BY <1>1, Zenon DEF decode_kan
<1>. QED  BY <1>1, <1>2, <1>3, <1>4, MeldIs, Zenon

LEMMA NukiDecoded ==
  ASSUME NEW id \in 0..135
  PROVE  NukiCode(id) \in Nat /\ is_nuki(NukiCode(id)) /\ decode_meld(NukiCode(id)) = NoMeld
BY NukiBits, Zenon DEF decode_meld

-----------------------------------------------------------------------------
(* The list of a set's numbers in ascending order.                         *)

Below(S, x) == {y \in S : y < x}
Ascending(t, n) == \A i, j \in 1..n : i < j => t[i] < t[j]

LEMMA RankGrows ==
  ASSUME NEW S \in SUBSET Int, IsFiniteSet(S), NEW x \in S, NEW y \in S, x < y
  PROVE  Cardinality(Below(S, x)) < Cardinality(Below(S, y))
<1>1. PICK A, B : A = Below(S, x) /\ B = Below(S, y)  OBVIOUS
<1>2. A \subseteq B /\ x \in B /\ x \notin A /\ B \subseteq S
  <2>1. x \in Int /\ y \in Int /\ \A z \in S : z < x => z < y  OBVIOUS
  <2>2. ~(x < x)  BY <2>1
  <2>. QED  BY <1>1, <2>1, <2>2, Zenon DEF Below
<1>3. IsFiniteSet(B)  BY <1>2, FS_Subset
<1>4. IsFiniteSet(A) /\ Cardinality(A) <= Cardinality(B) /\ (Cardinality(B) = Cardinality(A) => B = A)
  BY <1>2, <1>3, FS_Subset
<1>5. Cardinality(A) \in Nat /\ Cardinality(B) \in Nat  BY <1>3, <1>4, FS_CardinalityType
<1>. QED  BY <1>1, <1>2, <1>4, <1>5

LEMMA SortedIs ==
  ASSUME NEW S \in SUBSET Int, IsFiniteSet(S)
  PROVE  /\ Cardinality(S) \in Nat
         /\ Sorted(S) \in [1..Cardinality(S) -> S] /\ Ascending(Sorted(S), Cardinality(S))
         /\ Range(Sorted(S)) = S /\ IsInjective(Sorted(S))
<1>1. PICK n : n = Cardinality(S)  OBVIOUS
<1>2. n \in Nat  BY <1>1, FS_CardinalityType
<1>3. PICK rank : rank = [x \in S |-> Cardinality(Below(S, x)) + 1]  OBVIOUS
<1>4. \A x \in S : rank[x] \in 1..n
  <2>. SUFFICES ASSUME NEW x \in S  PROVE rank[x] \in 1..n  OBVIOUS
  <2>1. Below(S, x) \subseteq S /\ Below(S, x) # S  BY DEF Below
  <2>2. /\ IsFiniteSet(Below(S, x)) /\ Cardinality(Below(S, x)) <= n /\ Cardinality(Below(S, x)) # n
    BY <1>1, <2>1, FS_Subset
  <2>3. Cardinality(Below(S, x)) \in Nat  BY <2>2, FS_CardinalityType
  <2>. QED  BY <1>2, <1>3, <2>2, <2>3
<1>5. \A x, y \in S : x < y => rank[x] < rank[y]
  <2>. SUFFICES ASSUME NEW x \in S, NEW y \in S, x < y  PROVE rank[x] < rank[y]  OBVIOUS
  <2>1. Cardinality(Below(S, x)) < Cardinality(Below(S, y))  BY RankGrows
  <2>2. rank[x] \in Int /\ rank[y] \in Int  BY <1>2, <1>4
  <2>3. PICK a, b : a = Cardinality(Below(S, x)) /\ b = Cardinality(Below(S, y))  OBVIOUS
  <2>4. IsFiniteSet(Below(S, x)) /\ IsFiniteSet(Below(S, y))  BY FS_Subset DEF Below
  <2>5. a \in Nat /\ b \in Nat  BY <2>3, <2>4, FS_CardinalityType
  <2>. QED  BY <1>3, <2>1, <2>3, <2>5
<1>6. \A x, y \in S : rank[x] = rank[y] => x = y
  <2>. SUFFICES ASSUME NEW x \in S, NEW y \in S, x # y  PROVE rank[x] # rank[y]  OBVIOUS
  <2>1. x < y \/ y < x  OBVIOUS
  <2>2. rank[x] \in Int /\ rank[y] \in Int  BY <1>2, <1>4
  <2>. QED  BY <1>5, <2>1, <2>2
<1>7. rank \in Injection(S, 1..n)
  <2>1. rank \in [S -> 1..n]  BY <1>3, <1>4
  <2>. QED  BY <1>6, <2>1 DEF Injection, IsInjective
<1>8. rank \in Surjection(S, 1..n)
  <2>1. IsFiniteSet(1..n) /\ Cardinality(1..n) = n
    <3>1. IsFiniteSet(1..n) /\ Cardinality(1..n) = IF 1 > n THEN 0 ELSE n - 1 + 1  BY <1>2, FS_Interval
    <3>. QED  BY <1>2, <3>1
  <2>. QED  BY <1>1, <1>7, <2>1, FS_Injection
<1>9. \A i \in 1..n : \E x \in S : rank[x] = i  BY <1>8 DEF Surjection
<1>10. PICK t : t = Sorted(S)  OBVIOUS
<1>11. t = [i \in 1..n |-> CHOOSE x \in S : Cardinality(Below(S, x)) = i - 1]
  BY <1>1, <1>10, Zenon DEF Sorted, Below
<1>12. \A i \in 1..n : t[i] \in S /\ rank[t[i]] = i
  <2>. SUFFICES ASSUME NEW i \in 1..n  PROVE t[i] \in S /\ rank[t[i]] = i  OBVIOUS
  <2>1. PICK x \in S : rank[x] = i  BY <1>9
  <2>2. PICK k : k = i - 1  OBVIOUS
  <2>3. \A y \in S : Cardinality(Below(S, y)) \in Nat
    <3>1. \A y \in S : Below(S, y) \subseteq S  BY DEF Below
    <3>. QED  BY <3>1, FS_Subset, FS_CardinalityType
  <2>4. Cardinality(Below(S, x)) = k  BY <1>3, <2>1, <2>2, <2>3
  <2>5. t[i] = CHOOSE y \in S : Cardinality(Below(S, y)) = k  BY <1>11, <2>2, Zenon
  <2>6. t[i] \in S /\ Cardinality(Below(S, t[i])) = k  BY <2>4, <2>5, Zenon
  <2>. QED  BY <1>3, <2>2, <2>6
<1>13. t \in [1..n -> S]  BY <1>11, <1>12
<1>14. IsInjective(t)  BY <1>12, <1>13 DEF IsInjective
<1>15. Range(t) = S
  <2>1. \A x \in S : rank[x] \in 1..n /\ t[rank[x]] = x  BY <1>4, <1>6, <1>12
  <2>. QED  BY <1>12, <1>13, <2>1 DEF Range
<1>16. Ascending(t, n)
  <2>. SUFFICES ASSUME NEW i \in 1..n, NEW j \in 1..n, i < j  PROVE t[i] < t[j]  BY DEF Ascending
  <2>1. t[i] \in S /\ t[j] \in S /\ rank[t[i]] = i /\ rank[t[j]] = j  BY <1>12
  <2>2. ~(j < i) /\ i # j  BY <1>2
  <2>3. ~(t[j] < t[i]) /\ t[i] # t[j]  BY <1>5, <2>1, <2>2
  <2>4. t[i] \in Int /\ t[j] \in Int  BY <2>1
  <2>. QED  BY <2>3, <2>4
<1>. QED  BY <1>1, <1>2, <1>10, <1>13, <1>14, <1>15, <1>16

-----------------------------------------------------------------------------
(* Decoding undoes encoding, for every call of the game.                   *)

Undone(call) == decode_meld(call.code) = AsMade(call)

LEMMA AsMadeIs ==
  ASSUME NEW type, type # "Nuki", NEW ids, NEW called, NEW from, NEW code, NEW call,
         call = LoggedCall(type, ids, called, from, code),
         decode_meld(code) = MeldOf(type, ids, IF called = Null THEN Null ELSE to_tile(called), from)
  PROVE  Undone(call)
<1>1. /\ call.type = type /\ call.ids = ids /\ call.called = called /\ call.from = from /\ call.code = code
  BY DEF LoggedCall
<1>2. AsMade(call) = MeldOf(type, ids, IF called = Null THEN Null ELSE to_tile(called), from)
  BY <1>1, Zenon DEF AsMade, MeldOf
<1>. QED  BY <1>1, <1>2, Zenon DEF Undone

LEMMA ChiUndone == ASSUME NEW call \in ChiCalls  PROVE Undone(call)
<1>1. PICK low \in Sequences3, idx \in [1..3 -> Nths], called \in 1..3 :
        call = LoggedCall("Chi", ChiIds(low, idx), ChiIds(low, idx)[called], 3, ChiCode(3, low, idx, called))
  <2>1. PICK c \in [low : Sequences3, idx : [1..3 -> Nths], called : 1..3] :
          call = LoggedCall("Chi", ChiIds(c.low, c.idx), ChiIds(c.low, c.idx)[c.called], 3,
                            ChiCode(3, c.low, c.idx, c.called))
    BY Zenon DEF ChiCalls, ChiIds
  <2>2. c.low \in Sequences3 /\ c.idx \in [1..3 -> Nths] /\ c.called \in 1..3  OBVIOUS
  <2>. QED  BY <2>1, <2>2, Zenon
<1>2. PICK from \in 0..3 : from = 3  OBVIOUS
<1>3. PICK ids, code : ids = ChiIds(low, idx) /\ code = ChiCode(from, low, idx, called)  OBVIOUS
<1>4. idx \in [1..3 -> 0..3]  BY DEF Nths
<1>5. decode_meld(code) = MeldOf("Chi", ids, to_tile(ids[called]), from)
  BY <1>3, <1>4, ChiDecoded, Zenon
<1>6. ids[called] # Null
  <2>1. idx[called] \in 0..3 /\ low \in Nat  BY <1>4 DEF Sequences3
  <2>2. ids[called] = 4 * (low + called - 1) + idx[called]  BY <1>3 DEF ChiIds
  <2>. QED  BY <2>1, <2>2 DEF Null
<1>7. call = LoggedCall("Chi", ids, ids[called], from, code)  BY <1>1, <1>2, <1>3, Zenon
<1>. QED  BY <1>5, <1>6, <1>7, AsMadeIs, Zenon

\* The list of three of the four tiles of a kind, in order.
LEMMA PonSorted ==
  ASSUME NEW kind \in Kinds, NEW unused \in Nths
  PROVE  Sorted({4 * kind + n : n \in Nths \ {unused}}) = PonIds(kind, unused)
<1>1. PICK S : S = {4 * kind + n : n \in Nths \ {unused}}  OBVIOUS
<1>2. PICK u \in 0..3 : u = unused  BY DEF Nths
<1>3. PICK k \in Nat : k = 4 * kind  BY DEF Kinds
<1>4. PICK t : t = PonIds(kind, unused)  OBVIOUS
<1>5. t = [i \in 1..3 |-> k + (IF i <= u THEN i - 1 ELSE i)]  BY <1>2, <1>3, <1>4, Zenon DEF PonIds
<1>6. /\ t[1] \in S /\ t[2] \in S /\ t[3] \in S
      /\ \A x \in S : x = t[1] \/ x = t[2] \/ x = t[3]
      /\ t[1] < t[2] /\ t[2] < t[3] /\ S \in SUBSET Int
  <2>1. S = {k + n : n \in 0..3 \ {u}}  BY <1>1, <1>2, <1>3, Zenon DEF Nths
  <2>2. CASE u = 0
    <3>1. t[1] = k + 1 /\ t[2] = k + 2 /\ t[3] = k + 3  BY <1>5, <2>2
    <3>. QED  BY <2>1, <2>2, <3>1
  <2>3. CASE u = 1
    <3>1. t[1] = k /\ t[2] = k + 2 /\ t[3] = k + 3  BY <1>5, <2>3
    <3>. QED  BY <2>1, <2>3, <3>1
  <2>4. CASE u = 2
    <3>1. t[1] = k /\ t[2] = k + 1 /\ t[3] = k + 3  BY <1>5, <2>4
    <3>. QED  BY <2>1, <2>4, <3>1
  <2>5. CASE u = 3
    <3>1. t[1] = k /\ t[2] = k + 1 /\ t[3] = k + 2  BY <1>5, <2>5
    <3>. QED  BY <2>1, <2>5, <3>1
  <2>. QED  BY <2>2, <2>3, <2>4, <2>5
<1>7. IsFiniteSet(S) /\ Cardinality(S) = 3
  <2>1. S = {t[1], t[2], t[3]}  BY <1>6
  <2>2. t[1] \in Int /\ t[2] \in Int /\ t[3] \in Int  BY <1>6
  <2>3. t[1] # t[2] /\ t[1] # t[3] /\ t[2] # t[3]  BY <1>6, <2>2
  <2>4. {t[1], t[2], t[3]} = ({t[1]} \cup {t[2]}) \cup {t[3]}  OBVIOUS
  <2>5. IsFiniteSet({t[1]}) /\ Cardinality({t[1]}) = 1  BY FS_Singleton
  <2>6. IsFiniteSet({t[1]} \cup {t[2]}) /\ Cardinality({t[1]} \cup {t[2]}) = 2
    <3>1. /\ IsFiniteSet({t[1]} \cup {t[2]})
          /\ Cardinality({t[1]} \cup {t[2]})
               = IF t[2] \in {t[1]} THEN Cardinality({t[1]}) ELSE Cardinality({t[1]}) + 1
      BY <2>5, FS_AddElement
    <3>. QED  BY <2>3, <2>5, <3>1
  <2>7. PICK A, x : A = {t[1]} \cup {t[2]} /\ x = t[3]  OBVIOUS
  <2>8. /\ IsFiniteSet(A \cup {x})
        /\ Cardinality(A \cup {x}) = IF x \in A THEN Cardinality(A) ELSE Cardinality(A) + 1
    BY <2>6, <2>7, FS_AddElement
  <2>9. x \notin A  BY <2>3, <2>7
  <2>. QED  BY <2>1, <2>4, <2>6, <2>7, <2>8, <2>9
<1>8. PICK s : s = Sorted(S)  OBVIOUS
<1>9. s \in [1..3 -> S] /\ Ascending(s, 3)
  <2>1. s \in [1..Cardinality(S) -> S] /\ Ascending(s, Cardinality(S))  BY <1>6, <1>7, <1>8, SortedIs
  <2>. QED  BY <1>7, <2>1
<1>10. s[1] \in S /\ s[2] \in S /\ s[3] \in S /\ s[1] < s[2] /\ s[2] < s[3]  BY <1>9 DEF Ascending
<1>11. s[1] = t[1] /\ s[2] = t[2] /\ s[3] = t[3]
  <2>1. PICK a, b, c, x, y, z : /\ a = t[1] /\ b = t[2] /\ c = t[3]
                                /\ x = s[1] /\ y = s[2] /\ z = s[3]
    OBVIOUS
  <2>2. a \in Int /\ b \in Int /\ c \in Int /\ a < b /\ b < c  BY <1>6, <2>1
  <2>3. /\ x = a \/ x = b \/ x = c
        /\ y = a \/ y = b \/ y = c
        /\ z = a \/ z = b \/ z = c
        /\ x < y /\ y < z
    BY <1>6, <1>10, <2>1
  <2>4. x = a /\ y = b /\ z = c  BY ONLY <2>2, <2>3
  <2>. QED  BY <2>1, <2>4
<1>12. \A i \in 1..3 : s[i] = t[i]
  <2>1. \A i \in 1..3 : i = 1 \/ i = 2 \/ i = 3  OBVIOUS
  <2>. QED  BY <1>11, <2>1
<1>13. s = t  BY <1>5, <1>9, <1>12
<1>. QED  BY <1>1, <1>4, <1>8, <1>13

LEMMA PonUndone == ASSUME NEW call \in PonCalls  PROVE Undone(call)
<1>1. PICK kind \in Kinds, unused \in Nths, called \in 1..3, from \in 1..3 :
        call = LoggedCall("Pon", PonIds(kind, unused), PonIds(kind, unused)[called], from,
                          PonCode(from, kind, unused, called))
  <2>1. PICK c \in [kind : Kinds, unused : Nths, called : 1..3, from : 1..3] :
          call = LET ids == Sorted({4 * c.kind + n : n \in Nths \ {c.unused}})
                 IN  LoggedCall("Pon", ids, ids[c.called], c.from, PonCode(c.from, c.kind, c.unused, c.called))
    BY Zenon DEF PonCalls
  <2>2. c.kind \in Kinds /\ c.unused \in Nths /\ c.called \in 1..3 /\ c.from \in 1..3  OBVIOUS
  <2>3. Sorted({4 * c.kind + n : n \in Nths \ {c.unused}}) = PonIds(c.kind, c.unused)
    BY <2>2, PonSorted, Zenon
  <2>. QED  BY <2>1, <2>2, <2>3, Zenon
<1>2. PICK ids, code : ids = PonIds(kind, unused) /\ code = PonCode(from, kind, unused, called)  OBVIOUS
<1>3. from \in 0..3  OBVIOUS
<1>4. decode_meld(code) = MeldOf("Pon", ids, to_tile(ids[called]), from)
  BY <1>2, <1>3, PonDecoded, Zenon
<1>5. ids[called] # Null
  <2>1. ids[called] = 4 * kind + (IF called <= unused THEN called - 1 ELSE called)  BY <1>2 DEF PonIds
  <2>. QED  BY <2>1 DEF Null, Kinds, Nths
<1>6. call = LoggedCall("Pon", ids, ids[called], from, code)  BY <1>1, <1>2, Zenon
<1>. QED  BY <1>4, <1>5, <1>6, AsMadeIs, Zenon

LEMMA KakanUndone == ASSUME NEW call \in KakanCalls  PROVE Undone(call)
<1>1. PICK kind \in Kinds, added \in Nths, called \in 1..3, from \in 1..3 :
        call = LoggedCall("Kakan", FourFrom(4 * kind), 4 * kind + added, from,
                          KakanCode(from, kind, added, called))
  <2>1. PICK c \in [kind : Kinds, added : Nths, called : 1..3, from : 1..3] :
          call = LoggedCall("Kakan", FourFrom(4 * c.kind), 4 * c.kind + c.added, c.from,
                            KakanCode(c.from, c.kind, c.added, c.called))
    BY Zenon DEF KakanCalls
  <2>2. c.kind \in Kinds /\ c.added \in Nths /\ c.called \in 1..3 /\ c.from \in 1..3  OBVIOUS
  <2>. QED  BY <2>1, <2>2, Zenon
<1>2. PICK ids, id, code :
        ids = FourFrom(4 * kind) /\ id = 4 * kind + added /\ code = KakanCode(from, kind, added, called)
  OBVIOUS
<1>3. from \in 0..3  OBVIOUS
<1>4. decode_meld(code) = MeldOf("Kakan", ids, to_tile(id), from)
  BY <1>2, <1>3, KakanDecoded, Zenon
<1>5. id # Null  BY <1>2 DEF Null, Kinds, Nths
<1>6. call = LoggedCall("Kakan", ids, id, from, code)  BY <1>1, <1>2, Zenon
<1>. QED  BY <1>4, <1>5, <1>6, AsMadeIs, Zenon

LEMMA KanUndone == ASSUME NEW call \in DaiminkanCalls \cup AnkanCalls  PROVE Undone(call)
<1>1. CASE call \in DaiminkanCalls
  <2>1. PICK id \in 0..135, from \in 1..3 :
          call = LoggedCall("Daiminkan", FourFrom(id - (id % 4)), id, from, KanCode(from, id))
    <3>1. PICK c \in [id : 0..135, from : 1..3] :
            call = LoggedCall("Daiminkan", FourFrom(c.id - (c.id % 4)), c.id, c.from, KanCode(c.from, c.id))
      BY <1>1, Zenon DEF DaiminkanCalls
    <3>2. c.id \in 0..135 /\ c.from \in 1..3  OBVIOUS
    <3>. QED  BY <3>1, <3>2, Zenon
  <2>2. PICK ids, code : ids = FourFrom(id - (id % 4)) /\ code = KanCode(from, id)  OBVIOUS
  <2>3. from \in 0..3 /\ from # 0 /\ id # Null  BY DEF Null
  <2>4. decode_meld(code) = MeldOf("Daiminkan", ids, to_tile(id), from)
    BY <2>2, <2>3, KanDecoded, Zenon
  <2>5. call = LoggedCall("Daiminkan", ids, id, from, code)  BY <2>1, <2>2, Zenon
  <2>. QED  BY <2>3, <2>4, <2>5, AsMadeIs, Zenon
<1>2. CASE call \in AnkanCalls
  <2>1. PICK id \in 0..135 : call = LoggedCall("Ankan", FourFrom(id - (id % 4)), Null, 0, KanCode(0, id))
    BY <1>2, Zenon DEF AnkanCalls
  <2>2. PICK ids, code, from : ids = FourFrom(id - (id % 4)) /\ from = 0 /\ code = KanCode(from, id)  OBVIOUS
  <2>3. from \in 0..3  BY <2>2
  <2>4. decode_meld(code) = MeldOf("Ankan", ids, Null, from)
    BY <2>2, <2>3, KanDecoded, Zenon
  <2>5. call = LoggedCall("Ankan", ids, Null, from, code)  BY <2>1, <2>2, Zenon
  <2>. QED  BY <2>4, <2>5, AsMadeIs, Zenon
<1>. QED  BY <1>1, <1>2

LEMMA NukiUndone == ASSUME NEW call \in NukiCalls  PROVE Undone(call)
<1>1. PICK id \in 120..123 : call = LoggedCall("Nuki", <<id>>, Null, 0, NukiCode(id))
  BY DEF NukiCalls
<1>2. call.type = "Nuki" /\ call.code = NukiCode(id)  BY <1>1 DEF LoggedCall
<1>3. AsMade(call) = NoMeld  BY <1>2, Zenon DEF AsMade
<1>4. id \in 0..135  OBVIOUS
<1>. QED  BY <1>2, <1>3, <1>4, NukiDecoded, Zenon DEF Undone

\* Decoding undoes encoding for every call a game can contain, whatever the tiles.
LEMMA EveryCallUndone == \A call \in MadeCalls : Undone(call)
BY ChiUndone, PonUndone, KakanUndone, KanUndone, NukiUndone, Zenon DEF MadeCalls

\* Every call that a game can contain is decoded as it was made: the code's tiles,
\* red fives included, its called tile, direction and type, for every one of the
\* codes of a full set of tiles.
THEOREM DecodedAsMadeCorrect == Spec => []DecodedAsMade
<1>1. DecodedAsMade  BY EveryCallUndone, Zenon DEF DecodedAsMade, ItsCalls, Undone
<1>. QED  BY <1>1, PTL

-----------------------------------------------------------------------------
(* How many tiles of a set have a code.                                    *)

Of(S, c) == {id \in S : to_tile(id) = c}
Share(S, c) == Cardinality(Of(S, c))

LEMMA ShareType ==
  ASSUME NEW S, IsFiniteSet(S), NEW c
  PROVE  IsFiniteSet(Of(S, c)) /\ Share(S, c) \in Nat
<1>1. Of(S, c) \subseteq S  BY DEF Of
<1>2. IsFiniteSet(Of(S, c))  BY <1>1, FS_Subset
<1>. QED  BY <1>2, FS_CardinalityType DEF Share

LEMMA CountIs == ASSUME NEW S, NEW c \in Codes  PROVE Count(S)[c] = Share(S, c)
BY DEF Count, Share, Of

LEMMA ShareOfOne == ASSUME NEW x, NEW c  PROVE Share({x}, c) = IF c = to_tile(x) THEN 1 ELSE 0
<1>1. CASE c = to_tile(x)
  <2>1. Of({x}, c) = {x}  BY <1>1, Zenon DEF Of
  <2>2. Cardinality({x}) = 1  BY FS_Singleton
  <2>. QED  BY <1>1, <2>1, <2>2 DEF Share
<1>2. CASE c # to_tile(x)
  <2>1. Of({x}, c) = {}  BY <1>2, Zenon DEF Of
  <2>2. Cardinality({}) = 0  BY FS_EmptySet
  <2>. QED  BY <1>2, <2>1, <2>2 DEF Share
<1>. QED  BY <1>1, <1>2

LEMMA ShareAdded ==
  ASSUME NEW S, IsFiniteSet(S), NEW x, x \notin S, NEW c
  PROVE  Share(S \cup {x}, c) = Share(S, c) + IF c = to_tile(x) THEN 1 ELSE 0
<1>1. IsFiniteSet(Of(S, c)) /\ Share(S, c) \in Nat  BY ShareType
<1>2. CASE c = to_tile(x)
  <2>1. Of(S \cup {x}, c) = Of(S, c) \cup {x} /\ x \notin Of(S, c)  BY <1>2, Zenon DEF Of
  <2>2. Cardinality(Of(S, c) \cup {x}) = IF x \in Of(S, c) THEN Cardinality(Of(S, c)) ELSE Cardinality(Of(S, c)) + 1
    BY <1>1, FS_AddElement
  <2>. QED  BY <1>2, <2>1, <2>2 DEF Share
<1>3. CASE c # to_tile(x)
  <2>1. Of(S \cup {x}, c) = Of(S, c)
    <3>1. ASSUME NEW y  PROVE y \in Of(S \cup {x}, c) <=> y \in Of(S, c)
      BY <1>3, Zenon DEF Of
    <3>. QED  BY <3>1
  <2>. QED  BY <1>1, <1>3, <2>1 DEF Share
<1>. QED  BY <1>2, <1>3

LEMMA ShareTaken ==
  ASSUME NEW S, IsFiniteSet(S), NEW T, T \subseteq S, NEW c
  PROVE  Share(S \ T, c) = Share(S, c) - Share(T, c)
<1>1. Of(S \ T, c) = Of(S, c) \ Of(T, c) /\ Of(S, c) \cap Of(T, c) = Of(T, c)
  <2>1. ASSUME NEW y  PROVE y \in Of(S \ T, c) <=> y \in Of(S, c) \ Of(T, c)
    BY Zenon DEF Of
  <2>2. ASSUME NEW y  PROVE y \in Of(S, c) \cap Of(T, c) <=> y \in Of(T, c)
    BY Zenon DEF Of
  <2>. QED  BY <2>1, <2>2
<1>2. IsFiniteSet(Of(S, c))  BY ShareType
<1>3. Cardinality(Of(S, c) \ Of(T, c)) = Cardinality(Of(S, c)) - Cardinality(Of(S, c) \cap Of(T, c))
  BY <1>2, FS_Difference
<1>. QED  BY <1>1, <1>3 DEF Share

\* A list of different tiles has as many of a code as its set.
LEMMA PlacesAre ==
  ASSUME NEW ids, IsInjective(ids), IsFiniteSet(DOMAIN ids), NEW c
  PROVE  Cardinality({i \in DOMAIN ids : to_tile(ids[i]) = c}) = Share(Range(ids), c)
<1>1. PICK I, J : I = {i \in DOMAIN ids : to_tile(ids[i]) = c} /\ J = Of(Range(ids), c)  OBVIOUS
<1>2. PICK f : f = [i \in I |-> ids[i]]  OBVIOUS
<1>3. \A i \in I : f[i] \in J  BY <1>1, <1>2 DEF Of, Range
<1>4. f \in [I -> J]  BY <1>2, <1>3
<1>5. \A y \in J : \E i \in I : f[i] = y  BY <1>1, <1>2 DEF Of, Range
<1>6. IsInjective(f)  BY <1>1, <1>2 DEF IsInjective
<1>7. f \in Bijection(I, J)  BY <1>4, <1>5, <1>6 DEF Bijection, Injection, Surjection
<1>8. ExistsBijection(I, J)  BY <1>7 DEF ExistsBijection
<1>9. IsFiniteSet(I)  BY <1>1, FS_Subset
<1>10. Cardinality(J) = Cardinality(I)  BY <1>8, <1>9, FS_Bijection
<1>. QED  BY <1>1, <1>10 DEF Share

LEMMA TimesAre ==
  ASSUME NEW ids, IsInjective(ids), IsFiniteSet(DOMAIN ids), NEW c
  PROVE  Times(to_tiles(ids), c) = Share(Range(ids), c)
<1>1. PICK t : t = to_tiles(ids)  OBVIOUS
<1>2. t = [i \in DOMAIN ids |-> to_tile(ids[i])]  BY <1>1, Zenon DEF to_tiles
<1>3. {i \in DOMAIN t : t[i] = c} = {i \in DOMAIN ids : to_tile(ids[i]) = c}
  <2>1. DOMAIN t = DOMAIN ids /\ \A i \in DOMAIN ids : t[i] = to_tile(ids[i])  BY <1>2
  <2>. QED  BY <2>1
<1>. QED  BY <1>1, <1>3, PlacesAre DEF Times

LEMMA MadeHand ==
  ASSUME NEW ids, IsInjective(ids), IsFiniteSet(DOMAIN ids)
  PROVE  make_hand(ids) = Count(Range(ids))
<1>1. \A c : Cardinality({i \in DOMAIN ids : to_tile(ids[i]) = c}) = Share(Range(ids), c)  BY PlacesAre
<1>2. make_hand(ids) = [c \in Codes |-> Share(Range(ids), c)]
  <2>. DEFINE N(c) == Cardinality({i \in DOMAIN ids : to_tile(ids[i]) = c})
  <2>1. make_hand(ids) = [c \in Codes |-> N(c)]  BY Zenon DEF make_hand
  <2>2. \A c : N(c) = Share(Range(ids), c)  BY <1>1
  <2>. HIDE DEF N
  <2>. QED  BY <2>1, <2>2
<1>3. Count(Range(ids)) = [c \in Codes |-> Share(Range(ids), c)]  BY Zenon DEF Count, Share, Of
<1>. QED  BY <1>2, <1>3

\* One tile less of the code taken out of a list.
LEMMA TimesRemoved ==
  ASSUME NEW s, IsList(s), NEW k \in DOMAIN s, NEW c
  PROVE  Times(RemoveFirst(s, s[k]), c) = Times(s, c) - IF c = s[k] THEN 1 ELSE 0
<1>1. PICK x, n, S : x = s[k] /\ n = Len(s) /\ s \in Seq(S)  BY DEF IsList
<1>2. n \in Nat /\ DOMAIN s = 1..n  BY <1>1
<1>3. PICK I : I = {i \in 1..Len(s) : s[i] = x}  OBVIOUS
<1>4. k \in I /\ I \in SUBSET Nat  BY <1>1, <1>2, <1>3
<1>5. PICK m : m = SelectInSeq(s, LAMBDA v : v = x)  OBVIOUS
<1>6. m = Min(I)
  <2>1. I # {}  BY <1>4
  <2>. QED  BY <1>3, <1>5, <2>1, Zenon DEF SelectInSeq
<1>7. m \in I
  <2>1. \E j \in I : \A i \in I : j <= i  BY <1>4, LeastOf
  <2>. QED  BY <1>6, <2>1 DEF Min
<1>8. m \in 1..n /\ s[m] = x  BY <1>1, <1>3, <1>7
<1>9. PICK r : r = RemoveFirst(s, x)  OBVIOUS
<1>10. r = SubSeq(s, 1, m - 1) \o SubSeq(s, m + 1, n)
  <2>1. \E i \in 1..Len(s) : s[i] = x  BY <1>3, <1>4
  <2>. QED  BY <1>1, <1>5, <1>9, <2>1, Zenon DEF RemoveFirst, RemoveAt
<1>11. PICK a, b : a = SubSeq(s, 1, m - 1) /\ b = SubSeq(s, m + 1, n)  OBVIOUS
<1>12. /\ a \in Seq(S) /\ Len(a) = m - 1 /\ \A i \in 1..(m - 1) : a[i] = s[i]
       /\ b \in Seq(S) /\ Len(b) = n - m /\ \A i \in 1..(n - m) : b[i] = s[m + i]
  <2>1. PICK l, u : l = m - 1 /\ u = m + 1  OBVIOUS
  <2>2. /\ 1 \in 1..(Len(s) + 1) /\ l \in (1 - 1)..Len(s)
        /\ u \in 1..(Len(s) + 1) /\ n \in (u - 1)..Len(s)
    BY <1>1, <1>2, <1>8, <2>1
  <2>3. a \in Seq(S) /\ Len(a) = l - 1 + 1 /\ \A i \in 1..(l - 1 + 1) : a[i] = s[1 + i - 1]
    BY <1>1, <1>11, <2>1, <2>2, SubSeqProperties
  <2>4. b \in Seq(S) /\ Len(b) = n - u + 1 /\ \A i \in 1..(n - u + 1) : b[i] = s[u + i - 1]
    BY <1>1, <1>11, <2>1, <2>2, SubSeqProperties
  <2>5. l - 1 + 1 = m - 1 /\ n - u + 1 = n - m  BY <1>2, <1>8, <2>1
  <2>6. a \in Seq(S) /\ Len(a) = m - 1 /\ b \in Seq(S) /\ Len(b) = n - m  BY <2>3, <2>4, <2>5
  <2>7. ASSUME NEW i \in 1..(m - 1)  PROVE a[i] = s[i]
    <3>1. i \in 1..(l - 1 + 1) /\ 1 + i - 1 = i  BY <2>5
    <3>. QED  BY <2>3, <3>1
  <2>8. ASSUME NEW i \in 1..(n - m)  PROVE b[i] = s[m + i]
    <3>1. i \in 1..(n - u + 1) /\ u + i - 1 = m + i  BY <1>2, <1>8, <2>1, <2>5
    <3>. QED  BY <2>4, <3>1
  <2>. QED  BY <2>6, <2>7, <2>8
<1>13. /\ DOMAIN r = 1..(n - 1)
       /\ \A i \in 1..(n - 1) : r[i] = IF i < m THEN s[i] ELSE s[i + 1]
  <2>1. r = a \o b  BY <1>10, <1>11
  <2>2. r \in Seq(S) /\ Len(r) = n - 1  BY <1>2, <1>8, <1>12, <2>1
  <2>3. \A i \in 1..(n - 1) : r[i] = IF i <= m - 1 THEN a[i] ELSE b[i - (m - 1)]
    BY <1>2, <1>8, <1>12, <2>1
  <2>4. DOMAIN r = 1..(n - 1)  BY <2>2
  <2>5. \A i \in 1..(n - 1) : i <= m - 1 => a[i] = s[i] /\ i < m  BY <1>2, <1>8, <1>12
  <2>6. \A i \in 1..(n - 1) : ~(i <= m - 1) => b[i - (m - 1)] = s[i + 1] /\ ~(i < m)
    <3>. SUFFICES ASSUME NEW i \in 1..(n - 1), ~(i <= m - 1)
                  PROVE  b[i - (m - 1)] = s[i + 1] /\ ~(i < m)
      OBVIOUS
    <3>1. PICK j : j = i - (m - 1)  OBVIOUS
    <3>2. j \in 1..(n - m) /\ m + j = i + 1 /\ ~(i < m)  BY <1>2, <1>8, <3>1
    <3>3. b[j] = s[m + j]  BY <1>12, <3>2
    <3>. QED  BY <3>1, <3>2, <3>3
  <2>. QED  BY <2>3, <2>4, <2>5, <2>6
<1>14. PICK A, B : A = {i \in DOMAIN s : s[i] = c} /\ B = {i \in DOMAIN r : r[i] = c}  OBVIOUS
<1>15. IsFiniteSet(A)
  <2>1. IsFiniteSet(1..n)  BY <1>2, FS_Interval
  <2>. QED  BY <1>2, <1>14, <2>1, FS_Subset
<1>16. Cardinality(B) = Cardinality(A \ {m}) /\ IsFiniteSet(A \ {m})
  <2>1. PICK f : f = [i \in A \ {m} |-> IF i < m THEN i ELSE i - 1]  OBVIOUS
  <2>2. \A i \in A \ {m} : f[i] \in B
    BY <1>2, <1>8, <1>13, <1>14, <2>1
  <2>3. f \in [A \ {m} -> B]  BY <2>1, <2>2
  <2>4. IsInjective(f)
    <3>1. \A i, j \in A \ {m} : f[i] = f[j] => i = j  BY <1>2, <1>8, <1>14, <2>1
    <3>. QED  BY <2>1, <3>1 DEF IsInjective
  <2>5. \A y \in B : \E i \in A \ {m} : f[i] = y
    <3>. SUFFICES ASSUME NEW y \in B  PROVE \E i \in A \ {m} : f[i] = y  OBVIOUS
    <3>1. y \in 1..(n - 1) /\ r[y] = c  BY <1>13, <1>14
    <3>2. CASE y < m
      <4>1. y \in A \ {m}  BY <1>2, <1>8, <1>13, <1>14, <3>1, <3>2
      <4>. QED  BY <2>1, <3>2, <4>1
    <3>3. CASE ~(y < m)
      <4>1. y + 1 \in A \ {m}  BY <1>2, <1>8, <1>13, <1>14, <3>1, <3>3
      <4>2. f[y + 1] = y  BY <1>8, <2>1, <3>1, <3>3, <4>1
      <4>. QED  BY <4>1, <4>2
    <3>. QED  BY <3>2, <3>3
  <2>6. f \in Bijection(A \ {m}, B)  BY <2>3, <2>4, <2>5 DEF Bijection, Injection, Surjection
  <2>7. ExistsBijection(A \ {m}, B)  BY <2>6 DEF ExistsBijection
  <2>8. IsFiniteSet(A \ {m})  BY <1>15, FS_Subset
  <2>. QED  BY <2>7, <2>8, FS_Bijection
<1>17. Cardinality(A \ {m}) = IF m \in A THEN Cardinality(A) - 1 ELSE Cardinality(A)
  BY <1>15, FS_RemoveElement
<1>18. m \in A <=> c = x  BY <1>2, <1>8, <1>14
<1>19. Cardinality(A) \in Nat  BY <1>15, FS_CardinalityType
<1>20. Times(s, c) = Cardinality(A) /\ Times(r, c) = Cardinality(B)  BY <1>14, Zenon DEF Times
<1>. QED  BY <1>1, <1>9, <1>16, <1>17, <1>18, <1>19, <1>20

-----------------------------------------------------------------------------
(* The tiles of the table: there is one of each.                           *)

TilesInv ==
  /\ wall \in Seq(Ids) /\ IsInjective(wall)
  /\ \A p \in Players : held[p] \subseteq Ids /\ held[p] \cap Range(wall) = {} /\ tile \notin held[p]
  /\ \A p, q \in Players : p # q => held[p] \cap held[q] = {}
  /\ tile \in Ids \cup {Null} /\ tile \notin Range(wall)
  /\ phase \in {"discarded", "added", "safe"} => tile # Null

\* A tile that can still be drawn, discarded or called.
Live(x) == x \in Range(wall) \/ x = tile \/ \E p \in Players : x \in held[p]

\* Tiles that went out of play do not come back.
NoneReturns == \A x \in Ids : Live(x)' => Live(x)

LEMMA IdsAre == Ids \subseteq 0..135 /\ Ids \subseteq Nat /\ IsFiniteSet(Ids) /\ Null \notin Ids
<1>1. Ids \subseteq 0..135  BY SetupsAssumption
<1>2. PICK n, m \in Int : n = 135 /\ m = 0  OBVIOUS
<1>3. IsFiniteSet(m..n)  BY <1>2, FS_Interval
<1>4. Ids \in SUBSET (m..n)  BY <1>1, <1>2
<1>5. IsFiniteSet(Ids)  BY <1>3, <1>4, FS_Subset
<1>6. Ids \subseteq Nat /\ Null \notin Ids  BY <1>1 DEF Null
<1>. QED  BY <1>1, <1>5, <1>6

LEMMA SeqRange ==
  ASSUME NEW S, NEW s \in Seq(S)
  PROVE  Range(s) \subseteq S /\ Range(s) = {s[i] : i \in 1..Len(s)} /\ IsFiniteSet(DOMAIN s)
<1>1. DOMAIN s = 1..Len(s) /\ Len(s) \in Nat /\ \A i \in 1..Len(s) : s[i] \in S  OBVIOUS
<1>2. IsFiniteSet(1..Len(s))  BY <1>1, FS_Interval
<1>. QED  BY <1>1, <1>2 DEF Range

LEMMA HeadTaken ==
  ASSUME NEW S, NEW s \in Seq(S), IsInjective(s), s # << >>
  PROVE  /\ Head(s) \in S /\ Head(s) \in Range(s)
         /\ Tail(s) \in Seq(S) /\ IsInjective(Tail(s)) /\ Range(Tail(s)) = Range(s) \ {Head(s)}
<1>1. PICK n, h, t : n = Len(s) /\ h = Head(s) /\ t = Tail(s)  OBVIOUS
<1>2. n \in Nat /\ n >= 1 /\ DOMAIN s = 1..n /\ h = s[1] /\ h \in S
  BY <1>1
<1>3. t \in Seq(S) /\ Len(t) = n - 1 /\ \A i \in 1..(n - 1) : t[i] = s[i + 1]
  BY <1>1, HeadTailProperties
<1>4. DOMAIN t = 1..(n - 1)  BY <1>3
<1>5. IsInjective(t)
  <2>. SUFFICES ASSUME NEW i \in 1..(n - 1), NEW j \in 1..(n - 1), t[i] = t[j]  PROVE i = j
    BY <1>4 DEF IsInjective
  <2>1. i + 1 \in DOMAIN s /\ j + 1 \in DOMAIN s /\ s[i + 1] = s[j + 1]  BY <1>2, <1>3
  <2>2. i + 1 = j + 1  BY <2>1 DEF IsInjective
  <2>. QED  BY <1>2, <2>2
<1>6. Range(t) = Range(s) \ {h}
  <2>1. ASSUME NEW x \in Range(t)  PROVE x \in Range(s) \ {h}
    <3>1. PICK i \in 1..(n - 1) : t[i] = x  BY <1>4, <2>1 DEF Range
    <3>2. s[i + 1] = x /\ i + 1 \in 1..n /\ i + 1 # 1  BY <1>2, <1>3, <3>1
    <3>3. x # s[1]  BY <1>2, <3>2 DEF IsInjective
    <3>. QED  BY <1>2, <3>2, <3>3 DEF Range
  <2>2. ASSUME NEW x \in Range(s) \ {h}  PROVE x \in Range(t)
    <3>1. PICK i \in 1..n : s[i] = x  BY <1>2 DEF Range
    <3>2. i # 1  BY <1>2, <3>1
    <3>3. i - 1 \in 1..(n - 1) /\ t[i - 1] = x
      <4>1. i - 1 \in 1..(n - 1) /\ (i - 1) + 1 = i  BY <1>2, <3>2
      <4>. QED  BY <1>3, <3>1, <4>1
    <3>. QED  BY <1>4, <3>3 DEF Range
  <2>. QED  BY <2>1, <2>2
<1>7. h \in Range(s)  BY <1>2 DEF Range
<1>. QED  BY <1>1, <1>2, <1>3, <1>5, <1>6, <1>7

LEMMA TilesInit == Init => TilesInv
<1>. SUFFICES ASSUME Init PROVE TilesInv  OBVIOUS
<1>1. wall = << >> /\ tile = Null /\ phase = "over" /\ \A p \in Players : held[p] = {}  BY DEF Init
<1>2. << >> \in Seq(Ids) /\ IsInjective(<< >>) /\ Range(<< >>) = {}  BY DEF IsInjective, Range
<1>. QED  BY <1>1, <1>2 DEF TilesInv

\* Tiles leave a player's hand; one of them may be laid open.
LEMMA TilesTaken ==
  ASSUME TableInv, TilesInv, setup' = setup, wall' = wall, NEW p \in Players, NEW T,
         held' = [held EXCEPT ![p] = @ \ T],
         \/ tile' = tile
         \/ tile' = Null
         \/ tile' \in held[p] /\ tile' \in T,
         phase' \in {"discarded", "added", "safe"} => tile' # Null
  PROVE  TilesInv' /\ NoneReturns
<1>1. PICK P : P = Players  OBVIOUS
<1>2. Players' = P  BY <1>1 DEF Players, NumPlayers
<1>3. DOMAIN held = P  BY <1>1 DEF TableInv
<1>4. PICK h : h = held'  OBVIOUS
<1>5. \A q \in P : h[q] \subseteq held[q] /\ h[p] = held[p] \ T  BY <1>1, <1>3, <1>4
<1>6. /\ wall \in Seq(Ids) /\ IsInjective(wall)
      /\ \A q \in P : held[q] \subseteq Ids /\ held[q] \cap Range(wall) = {} /\ tile \notin held[q]
      /\ \A q, r \in P : q # r => held[q] \cap held[r] = {}
      /\ tile \in Ids \cup {Null} /\ tile \notin Range(wall)
  BY <1>1, Zenon DEF TilesInv
<1>7. PICK x : x = tile'  OBVIOUS
<1>8. x \in Ids \cup {Null} /\ x \notin Range(wall) /\ \A q \in P : x \notin h[q]
  <2>1. CASE x = tile  BY <1>5, <1>6, <2>1
  <2>2. CASE x = Null
    <3>1. Range(wall) \subseteq Ids  BY <1>6, SeqRange
    <3>. QED  BY <1>5, <1>6, <2>2, <3>1, IdsAre
  <2>3. CASE x \in held[p] /\ x \in T
    <3>1. x \in Ids /\ x \notin Range(wall)  BY <1>1, <1>6, <2>3
    <3>2. \A q \in P : x \notin h[q]  BY <1>1, <1>5, <1>6, <2>3
    <3>. QED  BY <3>1, <3>2
  <2>. QED  BY <1>7, <2>1, <2>2, <2>3
<1>9. TilesInv'
  <2>1. \A q \in P : h[q] \subseteq Ids /\ h[q] \cap Range(wall) = {} /\ x \notin h[q]  BY <1>5, <1>6, <1>8
  <2>2. \A q, r \in P : q # r => h[q] \cap h[r] = {}  BY <1>5, <1>6
  <2>. QED  BY <1>2, <1>4, <1>6, <1>7, <1>8, <2>1, <2>2, Zenon DEF TilesInv
<1>10. NoneReturns
  <2>. SUFFICES ASSUME NEW y \in Ids, Live(y)'  PROVE Live(y)  BY DEF NoneReturns
  <2>1. y \in Range(wall) \/ y = x \/ \E q \in P : y \in h[q]  BY <1>2, <1>4, <1>7, Zenon DEF Live
  <2>2. CASE y = x
    <3>1. y # Null  BY IdsAre
    <3>2. y = tile \/ y \in held[p]  BY <1>7, <2>2, <3>1
    <3>. QED  BY <3>2, Zenon DEF Live
  <2>3. CASE \E q \in P : y \in h[q]
    <3>1. \E q \in P : y \in held[q]  BY <1>5, <2>3
    <3>. QED  BY <1>1, <3>1, Zenon DEF Live
  <2>. QED  BY <2>1, <2>2, <2>3, Zenon DEF Live
<1>. QED  BY <1>9, <1>10

\* No tile moves.
LEMMA TilesStay ==
  ASSUME TilesInv, setup' = setup, UNCHANGED <<wall, held, tile>>,
         phase' \in {"discarded", "added", "safe"} => phase \in {"discarded", "added", "safe"}
  PROVE  TilesInv' /\ NoneReturns
<1>1. Players' = Players  BY DEF Players, NumPlayers
<1>2. TilesInv'  BY <1>1, Zenon DEF TilesInv
<1>3. NoneReturns  BY <1>1, Zenon DEF NoneReturns, Live
<1>. QED  BY <1>2, <1>3

LEMMA DrawTiles == ASSUME TableInv, TilesInv, NEW p \in Players, Draw(p)  PROVE TilesInv' /\ NoneReturns
<1>1. PICK P, x, t : P = Players /\ x = Head(wall) /\ t = Tail(wall)  OBVIOUS
<1>2. Players' = P  BY <1>1 DEF Draw, Log, Players, NumPlayers
<1>3. DOMAIN held = P  BY <1>1 DEF TableInv
<1>4. /\ wall \in Seq(Ids) /\ IsInjective(wall)
      /\ \A q \in P : held[q] \subseteq Ids /\ held[q] \cap Range(wall) = {}
      /\ \A q, r \in P : q # r => held[q] \cap held[r] = {}
  BY <1>1, Zenon DEF TilesInv
<1>5. wall # << >> /\ wall' = t /\ tile' = Null /\ phase' = "discard" /\ held' = [held EXCEPT ![p] = @ \cup {x}]
  BY <1>1, Zenon DEF Draw
<1>6. /\ x \in Ids /\ x \in Range(wall)
      /\ t \in Seq(Ids) /\ IsInjective(t) /\ Range(t) = Range(wall) \ {x}
  BY <1>1, <1>4, <1>5, HeadTaken
<1>7. PICK h : h = held'  OBVIOUS
<1>8. h[p] = held[p] \cup {x} /\ \A q \in P \ {p} : h[q] = held[q]  BY <1>1, <1>3, <1>5, <1>7
<1>9. Range(wall) \subseteq Ids  BY <1>4, SeqRange
<1>10. \A q \in P : h[q] \subseteq Ids /\ h[q] \cap Range(t) = {} /\ Null \notin h[q]
  <2>. SUFFICES ASSUME NEW q \in P  PROVE h[q] \subseteq Ids /\ h[q] \cap Range(t) = {}
    BY IdsAre
  <2>. QED  BY <1>4, <1>6, <1>8
<1>11. \A q, r \in P : q # r => h[q] \cap h[r] = {}
  <2>. SUFFICES ASSUME NEW q \in P, NEW r \in P, q # r  PROVE h[q] \cap h[r] = {}  OBVIOUS
  <2>1. held[q] \cap held[r] = {} /\ x \notin held[q] /\ x \notin held[r]  BY <1>4, <1>6
  <2>. QED  BY <1>8, <2>1
<1>12. Null \notin Range(t)  BY <1>6, <1>9, IdsAre
<1>13. TilesInv'
  <2>1. phase' \notin {"discarded", "added", "safe"}  BY <1>5
  <2>. QED  BY <1>2, <1>5, <1>6, <1>7, <1>10, <1>11, <1>12, <2>1, Zenon DEF TilesInv
<1>14. NoneReturns
  <2>. SUFFICES ASSUME NEW y \in Ids, Live(y)'  PROVE Live(y)  BY DEF NoneReturns
  <2>1. y \in Range(t) \/ y = Null \/ \E q \in P : y \in h[q]  BY <1>2, <1>5, <1>7, Zenon DEF Live
  <2>2. y # Null  BY IdsAre
  <2>3. y \in Range(wall) \/ \E q \in P : y \in held[q]  BY <1>6, <1>8, <2>1, <2>2
  <2>. QED  BY <1>1, <2>3, Zenon DEF Live
<1>. QED  BY <1>13, <1>14

LEMMA DealTiles == ASSUME TableInv, NEW p \in Players, Deal(p)  PROVE TilesInv'
<1>1. PICK P : P = Players  OBVIOUS
<1>2. PICK d \in setup.deals : held' = [q \in P |-> Range(d.hands[q])] /\ wall' = d.wall
  BY <1>1, Zenon DEF Deal
<1>3. Players' = P  BY <1>1 DEF Deal, Log, Players, NumPlayers
<1>4. tile' = Null /\ phase' = "draw"  BY DEF Deal
<1>5. /\ d.wall \in Seq(Ids) /\ \A q \in P : d.hands[q] \in Seq(Ids)
      /\ DealtOnce(d, P)
  BY <1>1, SetupsAssumption DEF TableInv, Players, NumPlayers
<1>6. \A q \in P : Range(d.hands[q]) \subseteq Ids /\ Range(d.hands[q]) \cap Range(d.wall) = {}
  BY <1>5, SeqRange DEF DealtOnce
<1>7. \A q, r \in P : q # r => Range(d.hands[q]) \cap Range(d.hands[r]) = {}  BY <1>5 DEF DealtOnce
<1>8. Range(d.wall) \subseteq Ids /\ IsInjective(d.wall)  BY <1>5, SeqRange DEF DealtOnce
<1>9. PICK h, w : h = held' /\ w = wall'  OBVIOUS
<1>10. \A q \in P : h[q] = Range(d.hands[q])  BY <1>2, <1>9
<1>11. \A q \in P : h[q] \subseteq Ids /\ h[q] \cap Range(w) = {} /\ Null \notin h[q]
  BY <1>2, <1>6, <1>9, <1>10, IdsAre
<1>12. \A q, r \in P : q # r => h[q] \cap h[r] = {}  BY <1>7, <1>10
<1>13. w \in Seq(Ids) /\ IsInjective(w) /\ Null \notin Range(w)  BY <1>2, <1>5, <1>8, <1>9, IdsAre
<1>14. phase' \notin {"discarded", "added", "safe"}  BY <1>4
<1>. QED  BY <1>3, <1>4, <1>9, <1>11, <1>12, <1>13, <1>14, Zenon DEF TilesInv

-----------------------------------------------------------------------------
(* The tiles that a call takes from the caller's hand.                     *)

\* The call of code m takes the tiles of T from a hand.
Takes1(m, T) ==
  \A c \in Codes :
    IF is_nuki(m) THEN Share(T, c) = IF c = North THEN 1 ELSE 0
    ELSE Times(meld_tiles_in_hand(decode_meld(m)), c) = Share(T, c)

LEMMA OpenTakes ==
  ASSUME NEW n \in Nat, NEW ids \in [1..n -> Int], IsInjective(ids), NEW k \in 1..n,
         NEW type, type \notin {"Ankan", "Kakan"}, NEW called, called = to_tile(ids[k]), NEW from,
         NEW m, ~is_nuki(m), decode_meld(m) = MeldOf(type, ids, called, from)
  PROVE  Takes1(m, Range(ids) \ {ids[k]})
<1>1. PICK s : s = to_tiles(ids)  OBVIOUS
<1>2. DOMAIN ids = 1..n /\ s = [i \in 1..n |-> to_tile(ids[i])]  BY <1>1, Zenon DEF to_tiles
<1>3. IsList(s)  BY <1>1, <1>2, ToTilesList
<1>4. DOMAIN s = 1..n /\ s[k] = called  BY <1>2
<1>5. PICK meld : meld = decode_meld(m)  OBVIOUS
<1>6. meld.type = type /\ meld.tiles = s /\ meld.discarded_tile = called
  BY <1>1, <1>5 DEF MeldOf
<1>7. meld_tiles_in_hand(meld) = RemoveFirst(s, s[k])  BY <1>4, <1>6 DEF meld_tiles_in_hand
<1>8. IsFiniteSet(DOMAIN ids)  BY <1>2, FS_Interval
<1>9. IsFiniteSet(Range(ids)) /\ {ids[k]} \subseteq Range(ids)
  <2>1. ids \in Surjection(1..n, Range(ids))  BY <1>2 DEF Surjection, Range
  <2>. QED  BY <1>2, <1>8, <2>1, FS_Surjection DEF Range
<1>10. ASSUME NEW c \in Codes  PROVE Times(RemoveFirst(s, s[k]), c) = Share(Range(ids) \ {ids[k]}, c)
  <2>1. Times(RemoveFirst(s, s[k]), c) = Times(s, c) - IF c = s[k] THEN 1 ELSE 0
    BY <1>3, <1>4, TimesRemoved
  <2>2. Times(s, c) = Share(Range(ids), c)  BY <1>1, <1>8, TimesAre
  <2>3. Share({ids[k]}, c) = IF c = s[k] THEN 1 ELSE 0  BY <1>4, ShareOfOne
  <2>4. Share(Range(ids) \ {ids[k]}, c) = Share(Range(ids), c) - Share({ids[k]}, c)  BY <1>9, ShareTaken
  <2>. QED  BY <2>1, <2>2, <2>3, <2>4
<1>. QED  BY <1>5, <1>7, <1>10, Zenon DEF Takes1

LEMMA FourAre ==
  ASSUME NEW b \in Int
  PROVE  /\ FourFrom(b) \in [1..4 -> Int] /\ IsInjective(FourFrom(b))
         /\ Range(FourFrom(b)) = {b + i : i \in 0..3}
         /\ \A i \in 0..3 : FourFrom(b)[i + 1] = b + i
<1>1. PICK f : f = FourFrom(b)  OBVIOUS
<1>2. f = << b, b + 1, b + 2, b + 3 >>  BY <1>1 DEF FourFrom
<1>3. DOMAIN f = 1..4 /\ f[1] = b /\ f[2] = b + 1 /\ f[3] = b + 2 /\ f[4] = b + 3  BY <1>2
<1>4. \A i \in 1..4 : f[i] = b + i - 1
  <2>1. \A i \in 1..4 : i = 1 \/ i = 2 \/ i = 3 \/ i = 4  OBVIOUS
  <2>. QED  BY <1>3, <2>1
<1>5. f \in [1..4 -> Int]
  <2>1. f = [i \in 1..4 |-> f[i]]  BY <1>2
  <2>. QED  BY <1>4, <2>1
<1>6. IsInjective(f)
  <2>1. \A i, j \in 1..4 : f[i] = f[j] => i = j  BY <1>4
  <2>. QED  BY <1>3, <2>1 DEF IsInjective
<1>7. Range(f) = {b + i : i \in 0..3}
  <2>1. \A i \in 1..4 : f[i] \in {b + j : j \in 0..3}
    <3>1. \A i \in 1..4 : i - 1 \in 0..3 /\ f[i] = b + (i - 1)  BY <1>4
    <3>. QED  BY <3>1
  <2>2. \A i \in 0..3 : i + 1 \in 1..4 /\ f[i + 1] = b + i  BY <1>4
  <2>. QED  BY <1>3, <2>1, <2>2 DEF Range
<1>8. \A i \in 0..3 : f[i + 1] = b + i
  <2>1. \A i \in 0..3 : i + 1 \in 1..4 /\ (i + 1) - 1 = i  OBVIOUS
  <2>. QED  BY <1>4, <2>1
<1>. QED  BY <1>1, <1>5, <1>6, <1>7, <1>8

LEMMA ClosedKanTakes ==
  ASSUME NEW b \in Int, NEW called, NEW from, NEW m, ~is_nuki(m),
         decode_meld(m) = MeldOf("Ankan", FourFrom(b), called, from)
  PROVE  Takes1(m, {b + i : i \in 0..3})
<1>1. PICK ids : ids = FourFrom(b)  OBVIOUS
<1>2. ids \in [1..4 -> Int] /\ IsInjective(ids) /\ Range(ids) = {b + i : i \in 0..3}  BY <1>1, FourAre
<1>3. PICK meld : meld = decode_meld(m)  OBVIOUS
<1>4. meld.type = "Ankan" /\ meld.tiles = to_tiles(ids)  BY <1>1, <1>3 DEF MeldOf
<1>5. meld_tiles_in_hand(meld) = to_tiles(ids)  BY <1>4 DEF meld_tiles_in_hand
<1>6. IsFiniteSet(DOMAIN ids)
  <2>1. PICK n \in Nat : n = 4  OBVIOUS
  <2>2. IsFiniteSet(1..n)  BY FS_Interval
  <2>. QED  BY <1>2, <2>1, <2>2
<1>7. \A c : Times(to_tiles(ids), c) = Share(Range(ids), c)  BY <1>2, <1>6, TimesAre
<1>. QED  BY <1>2, <1>3, <1>5, <1>7, Zenon DEF Takes1

LEMMA AddedKanTakes ==
  ASSUME NEW ids, NEW id, NEW called, called = to_tile(id), NEW from, NEW m, ~is_nuki(m),
         decode_meld(m) = MeldOf("Kakan", ids, called, from)
  PROVE  Takes1(m, {id})
<1>1. PICK meld : meld = decode_meld(m)  OBVIOUS
<1>2. meld.type = "Kakan" /\ meld.discarded_tile = called  BY <1>1 DEF MeldOf
<1>3. meld_tiles_in_hand(meld) = <<called>>  BY <1>2 DEF meld_tiles_in_hand
<1>4. ASSUME NEW c  PROVE Times(<<called>>, c) = IF c = called THEN 1 ELSE 0
  <2>1. c = called => {i \in DOMAIN <<called>> : <<called>>[i] = c} = {1}  OBVIOUS
  <2>2. c # called => {i \in DOMAIN <<called>> : <<called>>[i] = c} = {}  OBVIOUS
  <2>3. Cardinality({1}) = 1 /\ Cardinality({}) = 0  BY FS_Singleton, FS_EmptySet
  <2>. QED  BY <2>1, <2>2, <2>3, Zenon DEF Times
<1>5. \A c : Times(<<called>>, c) = Share({id}, c)  BY <1>4, ShareOfOne
<1>. QED  BY <1>1, <1>3, <1>5, Zenon DEF Takes1

LEMMA NukiTakes ==
  ASSUME NEW id \in 0..135, to_tile(id) = North
  PROVE  Takes1(NukiCode(id), {id})
<1>1. is_nuki(NukiCode(id))  BY NukiBits
<1>2. \A c : Share({id}, c) = IF c = North THEN 1 ELSE 0  BY ShareOfOne
<1>. QED  BY <1>1, <1>2, Zenon DEF Takes1

\* Codes of pons and of the kans they become, and the kind of their tiles.
PonLike(v) == is_pon(v) \/ (~is_nuki(v) /\ ~is_chi(v) /\ is_kakan(v))
KindOf(v) == Bits(v, 9, 7) \div 3
Plain(m) == ~is_nuki(m) /\ ~PonLike(m) /\ decode_meld(m).type \in {"Chi", "Ankan", "Daiminkan"}
PonMeld(y, k) == \E u \in Nths : \E called, from : y = MeldOf("Pon", PonIds(k, u), called, from)
KanMeld(y, k) == \E called, from : y = MeldOf("Kakan", FourFrom(4 * k), called, from)
IsPonOf(v, k) == ~is_nuki(v) /\ is_pon(v) /\ KindOf(v) = k /\ PonMeld(decode_meld(v), k)
IsKanOf(v, k) == ~is_nuki(v) /\ ~is_pon(v) /\ KindOf(v) = k /\ KanMeld(decode_meld(v), k)
OfKind(v, k) == IsPonOf(v, k) \/ IsKanOf(v, k)

\* Of the tiles T of a call, those of U leave the caller's hand S.
Leaves(S, m, T, U) == U \subseteq S /\ S \ T = S \ U /\ Takes1(m, U)

LEMMA FromIs ==
  ASSUME TableInv, NEW p \in Players
  PROVE  From(p) \in 0..3 /\ (p # turn => From(p) # 0)
<1>1. PICK n, t : n = NumPlayers /\ t = turn  OBVIOUS
<1>2. n \in {3, 4} /\ t \in 0..(n - 1) /\ p \in 0..(n - 1)  BY <1>1, PlayersAre DEF TableInv
<1>3. From(p) = (t - p + n) % n  BY <1>1 DEF From
<1>4. CASE n = 3
  <2>1. (t - p + 3) % 3 \in 0..2 /\ (p # t => (t - p + 3) % 3 # 0)  BY <1>2, <1>4
  <2>. QED  BY <1>1, <1>3, <1>4, <2>1
<1>5. CASE n = 4
  <2>1. (t - p + 4) % 4 \in 0..3 /\ (p # t => (t - p + 4) % 4 # 0)  BY <1>2, <1>5
  <2>. QED  BY <1>1, <1>3, <1>5, <2>1
<1>. QED  BY <1>2, <1>4, <1>5

\* Whoever may call has a tile before them.
LEMMA TileIs == ASSUME TilesInv, Free  PROVE tile \in Ids /\ tile \in 0..135 /\ \A p \in Players : tile \notin held[p]
BY IdsAre DEF TilesInv, Free

LEMMA KindIs ==
  ASSUME NEW id \in 0..135
  PROVE  /\ Kind(id) \in Kinds /\ Kind(id) \in 0..33 /\ Nth(id, Kind(id)) \in Nths
         /\ id = 4 * Kind(id) + Nth(id, Kind(id))
         /\ id % 4 = Nth(id, Kind(id)) /\ id \in Copies(Kind(id))
<1>1. PICK k : k = id \div 4  OBVIOUS
<1>2. k \in 0..33 /\ id - 4 * k \in 0..3 /\ id % 4 = id - 4 * k  BY <1>1
<1>3. id \in Copies(k)
  <2>1. id = 4 * k + (id - 4 * k)  BY <1>2
  <2>. QED  BY <1>2, <2>1 DEF Copies
<1>. QED  BY <1>1, <1>2, <1>3 DEF Kind, Nth, Kinds, Nths

LEMMA ChiCall ==
  ASSUME TableInv, TilesInv, NEW p \in Players, Chi(p)
  PROVE  \E T, U, m : Call(p, T, Append(codes[p], m), m) /\ Leaves(held[p], m, T, U) /\ Plain(m)
<1>1. CanCall(p) /\ tile \in Ids /\ tile \in 0..135 /\ tile \notin held[p]  BY TileIs DEF Chi, CanCall
<1>2. PICK low \in {Kind(id) : id \in held[p] \cup {tile}}, called \in 1..3 :
        /\ low < 27 /\ low % 9 <= 6 /\ Kind(tile) = low + called - 1
        /\ \E id \in [1..3 -> held[p] \cup {tile}] :
             /\ id[called] = tile
             /\ \A i \in 1..3 : Kind(id[i]) = low + i - 1
             /\ LET m == ChiCode(From(p), low, [i \in 1..3 |-> Nth(id[i], low + i - 1)], called)
                IN  Call(p, Range(id), Append(codes[p], m), m)
  BY Zenon DEF Chi
<1>21. PICK id \in [1..3 -> held[p] \cup {tile}] : \E m :
         /\ id[called] = tile
         /\ \A i \in 1..3 : Kind(id[i]) = low + i - 1
         /\ m = ChiCode(From(p), low, [i \in 1..3 |-> Nth(id[i], low + i - 1)], called)
         /\ Call(p, Range(id), Append(codes[p], m), m)
  BY <1>2, Zenon
<1>3. PICK m :
         /\ id[called] = tile
         /\ \A i \in 1..3 : Kind(id[i]) = low + i - 1
         /\ m = ChiCode(From(p), low, [i \in 1..3 |-> Nth(id[i], low + i - 1)], called)
         /\ Call(p, Range(id), Append(codes[p], m), m)
  BY <1>21, Zenon
<1>4. held[p] \subseteq Ids  BY DEF TilesInv
<1>5. \A i \in 1..3 : id[i] \in 0..135  BY <1>1, <1>4, IdsAre
<1>6. low \in Nat /\ low \in Sequences3
  <2>1. PICK x \in held[p] \cup {tile} : low = Kind(x)  BY <1>2
  <2>2. x \in 0..135  BY <1>1, <1>4, IdsAre
  <2>3. low \in 0..33  BY <2>1, <2>2, KindIs
  <2>. QED  BY <1>2, <2>3 DEF Sequences3
<1>7. PICK idx : idx = [i \in 1..3 |-> Nth(id[i], low + i - 1)]  OBVIOUS
<1>8. \A i \in 1..3 : idx[i] \in 0..3 /\ 4 * (low + i - 1) + idx[i] = id[i]
  <2>. SUFFICES ASSUME NEW i \in 1..3  PROVE idx[i] \in 0..3 /\ 4 * (low + i - 1) + idx[i] = id[i]  OBVIOUS
  <2>1. PICK k, x : k = low + i - 1 /\ x = id[i]  OBVIOUS
  <2>2. x \in 0..135 /\ Kind(x) = k /\ k \in Int  BY <1>3, <1>5, <1>6, <2>1
  <2>3. Nth(x, k) \in 0..3 /\ x = 4 * k + Nth(x, k)  BY <2>2, KindIs DEF Nths
  <2>4. idx[i] = Nth(x, k)  BY <1>7, <2>1
  <2>. QED  BY <2>1, <2>3, <2>4
<1>9. idx \in [1..3 -> 0..3]  BY <1>7, <1>8
<1>10. ChiIds(low, idx) = id
  <2>1. PICK t : t = ChiIds(low, idx)  OBVIOUS
  <2>2. t = [i \in 1..3 |-> 4 * (low + i - 1) + idx[i]]  BY <2>1, Zenon DEF ChiIds
  <2>3. \A i \in 1..3 : t[i] = id[i]  BY <1>8, <2>2
  <2>. QED  BY <2>1, <2>2, <2>3
<1>11. PICK from \in 0..3 : from = From(p)  BY FromIs
<1>12. m = ChiCode(from, low, idx, called)  BY <1>3, <1>7, <1>11, Zenon
<1>13. ~is_nuki(m) /\ is_chi(m) /\ ~is_pon(m) /\ decode_meld(m) = MeldOf("Chi", id, to_tile(tile), from)
  BY <1>3, <1>6, <1>9, <1>10, <1>12, ChiDecoded, Zenon
<1>14. id \in [1..3 -> Int] /\ IsInjective(id)
  <2>1. id \in [1..3 -> Int]  BY <1>5
  <2>2. \A i, j \in 1..3 : id[i] = id[j] => i = j
    <3>. SUFFICES ASSUME NEW i \in 1..3, NEW j \in 1..3, id[i] = id[j]  PROVE i = j  OBVIOUS
    <3>1. low + i - 1 = low + j - 1  BY <1>3
    <3>. QED  BY <1>6, <3>1
  <2>. QED  BY <2>1, <2>2 DEF IsInjective
<1>15. Takes1(m, Range(id) \ {tile})
  <2>1. "Chi" \notin {"Ankan", "Kakan"}  OBVIOUS
  <2>2. PICK n \in Nat : n = 3  OBVIOUS
  <2>3. id \in [1..n -> Int] /\ called \in 1..n  BY <1>14, <2>2
  <2>. QED  BY <1>3, <1>13, <1>14, <2>1, <2>3, OpenTakes
<1>16. Leaves(held[p], m, Range(id), Range(id) \ {tile})
  <2>1. Range(id) \subseteq held[p] \cup {tile}  BY <1>3 DEF Range
  <2>. QED  BY <1>1, <1>15, <2>1 DEF Leaves
<1>17. Plain(m)
  <2>1. ~PonLike(m)  BY <1>13, Zenon DEF PonLike
  <2>2. decode_meld(m).type = "Chi"  BY <1>13 DEF MeldOf
  <2>. QED  BY <1>13, <2>1, <2>2 DEF Plain
<1>. QED  BY <1>3, <1>16, <1>17, Zenon

\* How many of the other two tiles of a pon come before the called one.
LEMMA CalledPlace ==
  ASSUME NEW k \in Int, NEW t \in 0..3, NEW u \in 0..3, t # u,
         NEW ids, ids = {k + i : i \in 0..3} \ {k + u, k + t}
  PROVE  Cardinality({id \in ids : id < k + t}) = IF u < t THEN t - 1 ELSE t
<1>1. PICK a, b, c : a = k /\ b = k + t - 1 /\ c = k + u  OBVIOUS
<1>2. a \in Int /\ b \in Int  BY <1>1
<1>3. {id \in ids : id < k + t} = (a..b) \ {c}
  <2>1. ASSUME NEW x \in ids, x < k + t  PROVE x \in (a..b) \ {c}
    <3>1. PICK i \in 0..3 : x = k + i  BY <2>1
    <3>. QED  BY <1>1, <2>1, <3>1
  <2>2. ASSUME NEW x \in (a..b) \ {c}  PROVE x \in ids /\ x < k + t
    <3>1. PICK i : i = x - k  OBVIOUS
    <3>2. i \in 0..3 /\ x = k + i /\ i < t /\ i # u  BY <1>1, <2>2, <3>1
    <3>. QED  BY <3>2
  <2>. QED  BY <2>1, <2>2
<1>4. IsFiniteSet(a..b) /\ Cardinality(a..b) = t
  <2>1. IsFiniteSet(a..b) /\ Cardinality(a..b) = IF a > b THEN 0 ELSE b - a + 1  BY <1>2, FS_Interval
  <2>. QED  BY <1>1, <2>1
<1>5. Cardinality((a..b) \ {c}) = IF c \in a..b THEN Cardinality(a..b) - 1 ELSE Cardinality(a..b)
  BY <1>4, FS_RemoveElement
<1>6. c \in a..b <=> u < t  BY <1>1
<1>. QED  BY <1>3, <1>4, <1>5, <1>6

PonRead(v, from, kind, unused, called) ==
  /\ v \in Nat /\ ~is_nuki(v) /\ is_pon(v) /\ Bits(v, 9, 7) \div 3 = kind
  /\ decode_meld(v) = MeldOf("Pon", PonIds(kind, unused), to_tile(PonIds(kind, unused)[called]), from)

LEMMA PonIs ==
  ASSUME NEW from \in 0..3, NEW kind \in Kinds, NEW unused \in Nths, NEW called \in 1..3
  PROVE  PonRead(PonCode(from, kind, unused, called), from, kind, unused, called)
<1>1. PICK v : v = PonCode(from, kind, unused, called)  OBVIOUS
<1>2. /\ v \in Nat /\ ~is_nuki(v) /\ is_pon(v) /\ Bits(v, 9, 7) \div 3 = kind
      /\ decode_meld(v) = MeldOf("Pon", PonIds(kind, unused), to_tile(PonIds(kind, unused)[called]), from)
  BY <1>1, PonDecoded
<1>. QED  BY <1>1, <1>2, Zenon DEF PonRead

LEMMA PonCall ==
  ASSUME TableInv, TilesInv, NEW p \in Players, Pon(p)
  PROVE  \E T, m :
           /\ Call(p, T, Append(codes[p], m), m) /\ Leaves(held[p], m, T, T)
           /\ m \in Nat /\ IsPonOf(m, Kind(tile))
           /\ \E unused : Copies(Kind(tile)) \subseteq T \cup {tile, unused}
           /\ \E x \in T : x \in Copies(Kind(tile)) /\ x # tile
<1>1. CanCall(p) /\ tile \in Ids /\ tile \in 0..135 /\ tile \notin held[p]  BY TileIs DEF Pon, CanCall
<1>2. PICK kind : kind = Kind(tile)  OBVIOUS
<1>3. PICK unused \in Copies(kind) \ {tile} :
        LET ids == Copies(kind) \ {unused, tile}
            called == 1 + Cardinality({id \in ids : id < tile})
            m == PonCode(From(p), kind, Nth(unused, kind), called)
        IN  ids \subseteq held[p] /\ Call(p, ids, Append(codes[p], m), m)
  BY <1>2, Zenon DEF Pon
<1>4. PICK ids : ids = Copies(kind) \ {unused, tile}  OBVIOUS
<1>5. PICK called : called = 1 + Cardinality({id \in ids : id < tile})  OBVIOUS
<1>6. PICK u : u = Nth(unused, kind)  OBVIOUS
<1>7. PICK m : m = PonCode(From(p), kind, u, called)  OBVIOUS
<1>8. ids \subseteq held[p] /\ Call(p, ids, Append(codes[p], m), m)  BY <1>3, <1>4, <1>5, <1>6, <1>7, Zenon
<1>9. PICK k, t : k = 4 * kind /\ t = Nth(tile, kind)  OBVIOUS
<1>10. kind \in Kinds /\ kind \in 0..33 /\ t \in 0..3 /\ tile = k + t /\ k \in Nat
  BY <1>1, <1>2, <1>9, KindIs DEF Nths
<1>11. Copies(kind) = {k + i : i \in 0..3}  BY <1>9, Zenon DEF Copies
<1>12. u \in 0..3 /\ unused = k + u /\ u # t
  <2>1. PICK i \in 0..3 : unused = k + i  BY <1>3, <1>11
  <2>2. Nth(unused, kind) = unused - k  BY <1>9 DEF Nth
  <2>. QED  BY <1>3, <1>6, <1>10, <2>1, <2>2
<1>13. called = IF u < t THEN t ELSE t + 1
  <2>1. ids = {k + i : i \in 0..3} \ {k + u, k + t}  BY <1>4, <1>10, <1>11, <1>12
  <2>2. Cardinality({id \in ids : id < k + t}) = IF u < t THEN t - 1 ELSE t
    <3>1. k \in Int /\ t # u  BY <1>10, <1>12
    <3>. QED  BY <1>10, <1>12, <2>1, <3>1, CalledPlace, Zenon
  <2>. QED  BY <1>5, <1>10, <1>12, <2>2
<1>14. called \in 1..3  BY <1>10, <1>12, <1>13
<1>15. PICK s : s = PonIds(kind, u)  OBVIOUS
<1>16. s = [i \in 1..3 |-> k + (IF i <= u THEN i - 1 ELSE i)]  BY <1>9, <1>15, Zenon DEF PonIds
<1>17. s[called] = tile  BY <1>10, <1>12, <1>13, <1>14, <1>16
<1>18. s \in [1..3 -> Int] /\ IsInjective(s)
  <2>1. s \in [1..3 -> Int]  BY <1>10, <1>12, <1>16
  <2>2. \A i, j \in 1..3 : s[i] = s[j] => i = j  BY <1>10, <1>12, <1>16
  <2>. QED  BY <2>1, <2>2 DEF IsInjective
<1>19. Range(s) = Copies(kind) \ {unused}
  <2>1. ASSUME NEW i \in 1..3  PROVE s[i] \in Copies(kind) \ {unused}
    <3>1. PICK j : j = IF i <= u THEN i - 1 ELSE i  OBVIOUS
    <3>2. j \in 0..3 /\ j # u /\ s[i] = k + j  BY <1>12, <1>16, <3>1
    <3>. QED  BY <1>10, <1>11, <1>12, <3>2
  <2>2. ASSUME NEW x \in Copies(kind) \ {unused}  PROVE \E i \in 1..3 : s[i] = x
    <3>1. PICK j \in 0..3 : x = k + j  BY <1>11, <2>2
    <3>2. j # u  BY <1>12, <2>2, <3>1
    <3>3. PICK i : i = IF j < u THEN j + 1 ELSE j  OBVIOUS
    <3>4. i \in 1..3 /\ (IF i <= u THEN i - 1 ELSE i) = j  BY <1>12, <3>2, <3>3
    <3>5. s[i] = k + (IF i <= u THEN i - 1 ELSE i)  BY <1>16, <3>4
    <3>. QED  BY <3>1, <3>4, <3>5
  <2>. QED  BY <1>18, <2>1, <2>2 DEF Range
<1>20. PICK from \in 0..3 : from = From(p)  BY FromIs
<1>21. u \in Nths  BY <1>12 DEF Nths
<1>22. /\ m \in Nat /\ ~is_nuki(m) /\ is_pon(m) /\ KindOf(m) = kind
       /\ decode_meld(m) = MeldOf("Pon", s, to_tile(tile), from)
  <2>1. m = PonCode(from, kind, u, called)  BY <1>7, <1>20, Zenon
  <2>2. /\ m \in Nat /\ ~is_nuki(m) /\ is_pon(m) /\ Bits(m, 9, 7) \div 3 = kind
        /\ decode_meld(m) = MeldOf("Pon", PonIds(kind, u), to_tile(PonIds(kind, u)[called]), from)
    <3>1. PonRead(PonCode(from, kind, u, called), from, kind, u, called)  BY <1>10, <1>14, <1>21, PonIs
    <3>. QED  BY <2>1, <3>1, Zenon DEF PonRead
  <2>3. PonIds(kind, u)[called] = tile  BY ONLY <1>15, <1>17, Zenon
  <2>4. decode_meld(m) = MeldOf("Pon", s, to_tile(tile), from)  BY ONLY <1>15, <2>2, <2>3, Zenon
  <2>. QED  BY <2>2, <2>4, Zenon DEF KindOf
<1>23. Takes1(m, ids)
  <2>1. "Pon" \notin {"Ankan", "Kakan"}  OBVIOUS
  <2>2. PICK n \in Nat : n = 3  OBVIOUS
  <2>3. s \in [1..n -> Int] /\ called \in 1..n  BY <1>14, <1>18, <2>2
  <2>4. Takes1(m, Range(s) \ {s[called]})  BY <1>17, <1>18, <1>22, <2>1, <2>3, OpenTakes
  <2>5. Range(s) \ {s[called]} = ids  BY <1>4, <1>17, <1>19
  <2>. QED  BY <2>4, <2>5
<1>24. Leaves(held[p], m, ids, ids)  BY <1>8, <1>23 DEF Leaves
<1>25. Copies(kind) \subseteq ids \cup {tile, unused}  BY <1>4
<1>26. \E x \in ids : x \in Copies(kind) /\ x # tile
  <2>1. \E i \in 0..3 : i # t /\ i # u  BY <1>10, <1>12
  <2>2. PICK i \in 0..3 : i # t /\ i # u  BY <2>1
  <2>3. k + i \in Copies(kind) /\ k + i # tile /\ k + i # unused  BY <1>10, <1>11, <1>12, <2>2
  <2>. QED  BY <1>4, <2>3
<1>27. IsPonOf(m, kind)
  <2>1. PonMeld(decode_meld(m), kind)  BY <1>15, <1>21, <1>22, Zenon DEF PonMeld
  <2>. QED  BY <1>22, <2>1, Zenon DEF IsPonOf
<1>. QED  BY <1>2, <1>8, <1>22, <1>24, <1>25, <1>26, <1>27, Zenon

LEMMA DaiminkanCall ==
  ASSUME TableInv, TilesInv, NEW p \in Players, Daiminkan(p)
  PROVE  \E T, m : Call(p, T, Append(codes[p], m), m) /\ Leaves(held[p], m, T, T) /\ Plain(m)
<1>1. CanCall(p) /\ tile \in Ids /\ tile \in 0..135 /\ tile \notin held[p]  BY TileIs DEF Daiminkan, CanCall
<1>2. PICK kind, from, x : kind = Kind(tile) /\ from = From(p) /\ x = tile  OBVIOUS
<1>3. PICK ids, m : ids = Copies(kind) \ {x} /\ m = KanCode(from, x)  OBVIOUS
<1>4. ids \subseteq held[p] /\ Call(p, ids, Append(codes[p], m), m)  BY <1>2, <1>3, Zenon DEF Daiminkan
<1>5. from \in 0..3 /\ from # 0  BY <1>1, <1>2, FromIs DEF CanCall
<1>6. PICK k, t : k = 4 * kind /\ t = Nth(x, kind)  OBVIOUS
<1>7. kind \in 0..33 /\ t \in 0..3 /\ x = k + t /\ x % 4 = t /\ k \in Nat /\ x \in 0..135
  BY <1>1, <1>2, <1>6, KindIs DEF Nths
<1>8. PICK s : s = FourFrom(k)  OBVIOUS
<1>9. /\ s \in [1..4 -> Int] /\ IsInjective(s) /\ Range(s) = Copies(kind) /\ s[t + 1] = x
  <2>1. /\ s \in [1..4 -> Int] /\ IsInjective(s) /\ Range(s) = {k + i : i \in 0..3}
        /\ \A i \in 0..3 : s[i + 1] = k + i
    <3>1. k \in Int  BY <1>7
    <3>. QED  BY <1>8, <3>1, FourAre, Zenon
  <2>2. Copies(kind) = {k + i : i \in 0..3}  BY <1>6, Zenon DEF Copies
  <2>. QED  BY <1>7, <2>1, <2>2
<1>10. x - (x % 4) = k  BY <1>7
<1>11. /\ ~is_nuki(m) /\ ~is_chi(m) /\ ~is_pon(m) /\ ~is_kakan(m)
       /\ decode_meld(m) = MeldOf("Daiminkan", s, to_tile(x), from)
  BY <1>3, <1>5, <1>7, <1>8, <1>10, KanDecoded, Zenon
<1>12. Takes1(m, ids)
  <2>1. "Daiminkan" \notin {"Ankan", "Kakan"}  OBVIOUS
  <2>2. PICK n \in Nat : n = 4  OBVIOUS
  <2>3. PICK j : j = t + 1  OBVIOUS
  <2>4. s \in [1..n -> Int] /\ j \in 1..n /\ s[j] = x  BY <1>7, <1>9, <2>2, <2>3
  <2>5. Takes1(m, Range(s) \ {s[j]})  BY <1>9, <1>11, <2>1, <2>4, OpenTakes
  <2>. QED  BY <1>3, <1>9, <2>4, <2>5
<1>13. Plain(m)
  <2>1. decode_meld(m).type = "Daiminkan"  BY <1>11 DEF MeldOf
  <2>. QED  BY <1>11, <2>1 DEF Plain, PonLike
<1>. QED  BY <1>4, <1>12, <1>13, Zenon DEF Leaves

LEMMA AnkanCall ==
  ASSUME TableInv, TilesInv, NEW p \in Players, Ankan(p)
  PROVE  \E T, m : Call(p, T, Append(codes[p], m), m) /\ Leaves(held[p], m, T, T) /\ Plain(m)
<1>1. PICK kind, m : /\ m = KanCode(0, 4 * kind) /\ Copies(kind) \subseteq held[p]
                     /\ Call(p, Copies(kind), Append(codes[p], m), m)
                     /\ \E id \in held[p] : kind = Kind(id)
  BY DEF Ankan
<1>2. kind \in 0..33
  <2>1. held[p] \subseteq Ids  BY DEF TilesInv
  <2>2. PICK id \in held[p] : kind = Kind(id)  BY <1>1
  <2>3. id \in 0..135  BY <2>1, IdsAre
  <2>. QED  BY <2>2, <2>3, KindIs
<1>3. PICK k, from : k = 4 * kind /\ from = 0  OBVIOUS
<1>4. k \in 0..135 /\ k \in Int /\ k - (k % 4) = k  BY <1>2, <1>3
<1>5. from \in 0..3  BY <1>3
<1>6. m = KanCode(from, k)  BY <1>1, <1>3, Zenon
<1>7. /\ ~is_nuki(m) /\ ~is_chi(m) /\ ~is_pon(m) /\ ~is_kakan(m)
      /\ decode_meld(m) = MeldOf("Ankan", FourFrom(k), Null, from)
  BY <1>3, <1>4, <1>5, <1>6, KanDecoded, Zenon
<1>8. Takes1(m, Copies(kind))
  <2>1. Copies(kind) = {k + i : i \in 0..3}  BY <1>3, Zenon DEF Copies
  <2>2. Takes1(m, {k + i : i \in 0..3})  BY <1>4, <1>7, ClosedKanTakes
  <2>. QED  BY <2>1, <2>2
<1>9. Plain(m)
  <2>1. decode_meld(m).type = "Ankan"  BY <1>7 DEF MeldOf
  <2>. QED  BY <1>7, <2>1 DEF Plain, PonLike
<1>. QED  BY <1>1, <1>8, <1>9, Zenon DEF Leaves

LEMMA KakanCall ==
  ASSUME TableInv, TilesInv, NEW p \in Players, Kakan(p)
  PROVE  \E i \in DOMAIN codes[p], id \in held[p] : \E m :
           /\ Call(p, {id}, [codes[p] EXCEPT ![i] = m], m) /\ Leaves(held[p], m, {id}, {id})
           /\ m \in Nat /\ IsKanOf(m, Kind(id)) /\ tile' = id
           /\ is_pon(codes[p][i]) /\ KindOf(codes[p][i]) = Kind(id) /\ Kind(id) \in Kinds
<1>0. PICK i \in DOMAIN codes[p], id \in held[p] :
        /\ is_pon(codes[p][i]) /\ Bits(codes[p][i], 9, 7) \div 3 = Kind(id)
        /\ LET m == KakanCode(Bits(codes[p][i], 0, 2), Kind(id), Nth(id, Kind(id)), (Bits(codes[p][i], 9, 7) % 3) + 1)
           IN  Call(p, {id}, [codes[p] EXCEPT ![i] = m], m)
        /\ tile' = id
  BY Zenon DEF Kakan
<1>1. PICK m :
        /\ m = KakanCode(Bits(codes[p][i], 0, 2), Kind(id), Nth(id, Kind(id)), (Bits(codes[p][i], 9, 7) % 3) + 1)
        /\ is_pon(codes[p][i]) /\ Bits(codes[p][i], 9, 7) \div 3 = Kind(id)
        /\ Call(p, {id}, [codes[p] EXCEPT ![i] = m], m) /\ tile' = id
  BY <1>0, Zenon
<1>2. PICK pon : pon = codes[p][i]  OBVIOUS
<1>3. pon \in Int
  <2>1. codes[p] \in Seq(Int)  BY DEF TableInv
  <2>. QED  BY <1>2, <2>1
<1>4. PICK from, called : from = Bits(pon, 0, 2) /\ called = (Bits(pon, 9, 7) % 3) + 1  OBVIOUS
<1>5. from \in 0..3 /\ called \in 1..3
  <2>1. PICK v : v = pon \div 2^0  OBVIOUS
  <2>2. 2^0 = 1 /\ 2^2 = 4  OBVIOUS
  <2>3. v \in Int /\ v % 4 \in 0..3  BY <1>3, <2>1, <2>2
  <2>4. Bits(pon, 0, 2) = v % 4  BY <2>1, <2>2 DEF Bits
  <2>5. Bits(pon, 9, 7) \in Int  BY <1>3, BitsInt
  <2>. QED  BY <1>4, <2>3, <2>4, <2>5
<1>6. PICK kind, added : kind = Kind(id) /\ added = Nth(id, Kind(id))  OBVIOUS
<1>7. kind \in Kinds /\ added \in Nths /\ id = 4 * kind + added
  <2>1. held[p] \subseteq Ids  BY DEF TilesInv
  <2>2. id \in 0..135  BY <2>1, IdsAre
  <2>. QED  BY <1>6, <2>2, KindIs
<1>8. m = KakanCode(from, kind, added, called)  BY <1>1, <1>2, <1>4, <1>6, Zenon
<1>9. /\ m \in Nat /\ ~is_nuki(m) /\ is_kakan(m) /\ ~is_chi(m) /\ ~is_pon(m) /\ KindOf(m) = kind
      /\ decode_meld(m) = MeldOf("Kakan", FourFrom(4 * kind), to_tile(id), from)
  BY <1>5, <1>7, <1>8, KakanDecoded, Zenon DEF KindOf
<1>10. Takes1(m, {id})  BY <1>9, AddedKanTakes
<1>11. Leaves(held[p], m, {id}, {id})  BY <1>10 DEF Leaves
<1>12. IsKanOf(m, kind)
  <2>1. KanMeld(decode_meld(m), kind)  BY <1>9, Zenon DEF KanMeld
  <2>. QED  BY <1>9, <2>1, Zenon DEF IsKanOf
<1>. QED  BY <1>1, <1>6, <1>7, <1>9, <1>11, <1>12, Zenon DEF KindOf

LEMMA NukiCall ==
  ASSUME TableInv, TilesInv, NEW p \in Players, Nuki(p)
  PROVE  \E T, m : /\ Call(p, T, Append(codes[p], m), m) /\ Leaves(held[p], m, T, T)
                   /\ is_nuki(m) /\ ~PonLike(m)
<1>1. PICK id \in held[p] : to_tile(id) = North /\ Call(p, {id}, Append(codes[p], NukiCode(id)), NukiCode(id))
  BY Zenon DEF Nuki
<1>2. id \in 0..135
  <2>1. held[p] \subseteq Ids  BY DEF TilesInv
  <2>. QED  BY <2>1, IdsAre
<1>3. PICK m : m = NukiCode(id)  OBVIOUS
<1>4. is_nuki(m) /\ m \in Nat /\ Takes1(m, {id})  BY <1>1, <1>2, <1>3, NukiBits, NukiTakes
<1>5. ~is_pon(m)
  <2>1. 2^2 = 4 /\ 2^4 = 16  OBVIOUS
  <2>2. PICK w : w = m \div 4  OBVIOUS
  <2>3. w \in Int /\ w % 16 = 8  BY <1>4, <2>1, <2>2 DEF is_nuki, Bits
  <2>4. w % 4 # 2  BY <2>3
  <2>. QED  BY <2>1, <2>2, <2>4 DEF is_pon, Bits
<1>6. ~PonLike(m)  BY <1>4, <1>5, Zenon DEF PonLike
<1>7. Leaves(held[p], m, {id}, {id})  BY <1>4 DEF Leaves
<1>. QED  BY <1>1, <1>3, <1>4, <1>6, <1>7, Zenon

-----------------------------------------------------------------------------
(* What an event does to the players of the record.                        *)

\* Player p has become one with hand h, melds ms and n nuki; nothing else has changed.
Becomes(r, s, P, p, h, ms, n) ==
  /\ s.results = r.results
  /\ \A q \in P \ {p} : s.last.players[q] = r.last.players[q]
  /\ s.last.players[p].hand = h /\ s.last.players[p].melds = ms /\ s.last.players[p].nuki_count = n

LEMMA PlayerBecomes ==
  ASSUME NEW P, NEW r, IsRound(r, P), NEW p \in P, NEW q
  PROVE  /\ Becomes(r, WithPlayer(r, p, q), P, p, q.hand, q.melds, q.nuki_count)
         /\ \A event : Becomes(r, Logged(WithPlayer(r, p, q), event), P, p, q.hand, q.melds, q.nuki_count)
<1>1. PICK f : f = r.last.players  OBVIOUS
<1>2. DOMAIN f = P  BY <1>1 DEF IsRound, IsState
<1>3. PICK g : g = [f EXCEPT ![p] = q]  OBVIOUS
<1>4. g[p] = q /\ \A o \in P \ {p} : g[o] = f[o]  BY <1>2, <1>3
<1>5. PICK s : s = WithPlayer(r, p, q)  OBVIOUS
<1>6. s.results = r.results /\ s.last.players = g
  <2>1. s.results = r.results /\ s.last.players = [f EXCEPT ![p] = q]  BY <1>1, <1>5 DEF WithPlayer
  <2>. QED  BY <1>3, <2>1, Zenon
<1>7. ASSUME NEW t, t.results = s.results, t.last = s.last
      PROVE  Becomes(r, t, P, p, q.hand, q.melds, q.nuki_count)
  BY <1>1, <1>4, <1>6, <1>7, Zenon DEF Becomes
<1>8. ASSUME NEW event  PROVE Becomes(r, Logged(s, event), P, p, q.hand, q.melds, q.nuki_count)
  <2>1. PICK t : t = Logged(s, event)  OBVIOUS
  <2>2. t.results = s.results /\ t.last = s.last  BY <2>1 DEF Logged
  <2>. QED  BY <1>7, <2>1, <2>2, Zenon
<1>. QED  BY <1>5, <1>7, <1>8, Zenon

Gets(hand, x) == [c \in Codes |-> hand[c] + IF c = x THEN 1 ELSE 0]
Loses(hand, x) == [c \in Codes |-> hand[c] - IF c = x THEN 1 ELSE 0]
Without(hand, T) == [c \in Codes |-> hand[c] - Share(T, c)]

LEMMA DrawBecomes ==
  ASSUME NEW P, NEW r, IsRound(r, P), NEW e, e.tag = "draw", e.who \in P,
         NEW q, q = r.last.players[e.who]
  PROVE  Becomes(r, apply_event(r, e), P, e.who, Gets(q.hand, to_tile(e.tile)), q.melds, q.nuki_count)
<1>1. PICK h, event : /\ h = [c \in Codes |-> q.hand[c] + IF c = to_tile(e.tile) THEN 1 ELSE 0]
                      /\ event = [tag |-> "Draw", actor |-> e.who, tile |-> to_tile(e.tile)]
  OBVIOUS
<1>2. apply_draw(r, e) = Logged(WithPlayer(r, e.who, WithHand(q, h)), event)
  BY <1>1, DrawIs
<1>3. PICK o : o = WithHand(q, h)  OBVIOUS
<1>4. o.hand = h /\ o.melds = q.melds /\ o.nuki_count = q.nuki_count  BY <1>3 DEF WithHand
<1>5. apply_event(r, e) = apply_draw(r, e)  BY DEF apply_event
<1>6. Becomes(r, Logged(WithPlayer(r, e.who, o), event), P, e.who, o.hand, o.melds, o.nuki_count)
  BY PlayerBecomes
<1>7. h = Gets(q.hand, to_tile(e.tile))  BY <1>1, Zenon DEF Gets
<1>. QED  BY <1>2, <1>3, <1>4, <1>5, <1>6, <1>7, Zenon

LEMMA DiscardBecomes ==
  ASSUME NEW P, NEW r, IsRound(r, P), NEW e, e.tag = "discard", e.who \in P,
         NEW q, q = r.last.players[e.who]
  PROVE  Becomes(r, apply_event(r, e), P, e.who, Loses(q.hand, to_tile(e.tile)), q.melds, q.nuki_count)
<1>1. PICK h, event :
         /\ h = [c \in Codes |-> q.hand[c] - IF c = to_tile(e.tile) THEN 1 ELSE 0]
         /\ event = [tag |-> "Discard", actor |-> e.who, tile |-> to_tile(e.tile), tsumogiri |-> FALSE]
  OBVIOUS
<1>2. apply_discard(r, e) = Logged(WithPlayer(r, e.who, WithHand(q, h)), event)
  BY <1>1, DiscardIs
<1>3. PICK o : o = WithHand(q, h)  OBVIOUS
<1>4. o.hand = h /\ o.melds = q.melds /\ o.nuki_count = q.nuki_count  BY <1>3 DEF WithHand
<1>5. apply_event(r, e) = apply_discard(r, e)  BY DEF apply_event
<1>6. Becomes(r, Logged(WithPlayer(r, e.who, o), event), P, e.who, o.hand, o.melds, o.nuki_count)
  BY PlayerBecomes
<1>7. h = Loses(q.hand, to_tile(e.tile))  BY <1>1, Zenon DEF Loses
<1>. QED  BY <1>2, <1>3, <1>4, <1>5, <1>6, <1>7, Zenon

\* A call, or a nuki, that takes the tiles of T.
Melded(q, m) == IF is_nuki(m) THEN q.melds ELSE Append(q.melds, decode_meld(m))
Counted(q, m) == IF is_nuki(m) THEN q.nuki_count + 1 ELSE q.nuki_count

LEMMA MeldBecomes ==
  ASSUME NEW P, NEW r, IsRound(r, P), NEW e, e.tag = "meld", e.who \in P,
         NEW q, q = r.last.players[e.who], NEW T, Takes1(e.m, T)
  PROVE  Becomes(r, apply_event(r, e), P, e.who, Without(q.hand, T), Melded(q, e.m), Counted(q, e.m))
<1>1. CASE is_nuki(e.m)
  <2>1. PICK h : h = [c \in Codes |-> q.hand[c] - IF c = North THEN 1 ELSE 0]  OBVIOUS
  <2>2. apply_nuki_event(r, e.who) = WithPlayer(r, e.who, WithNuki(q, h))  BY <2>1, NukiIs
  <2>3. PICK o : o = WithNuki(q, h)  OBVIOUS
  <2>4. o.hand = h /\ o.melds = q.melds /\ o.nuki_count = q.nuki_count + 1  BY <2>3 DEF WithNuki
  <2>5. apply_event(r, e) = apply_nuki_event(r, e.who)  BY <1>1 DEF apply_event, apply_meld
  <2>6. Becomes(r, WithPlayer(r, e.who, o), P, e.who, o.hand, o.melds, o.nuki_count)  BY PlayerBecomes
  <2>7. h = Without(q.hand, T)  BY <1>1, <2>1, Zenon DEF Without, Takes1
  <2>8. Melded(q, e.m) = q.melds /\ Counted(q, e.m) = q.nuki_count + 1  BY <1>1, Zenon DEF Melded, Counted
  <2>. QED  BY <2>2, <2>3, <2>4, <2>5, <2>6, <2>7, <2>8, Zenon
<1>2. CASE ~is_nuki(e.m)
  <2>1. PICK meld : meld = decode_meld(e.m)  OBVIOUS
  <2>2. PICK h, event : /\ h = [c \in Codes |-> q.hand[c] - Times(meld_tiles_in_hand(meld), c)]
                        /\ event = [tag |-> "Call", actor |-> e.who, meld |-> meld]
    OBVIOUS
  <2>3. Countable(meld_tiles_in_hand(meld))  BY <1>2, <2>1, CallCountable
  <2>4. apply_call_event(r, e.who, meld) = Logged(WithPlayer(r, e.who, WithMeld(q, h, meld)), event)
    BY <2>2, <2>3, CallIs
  <2>5. PICK o : o = WithMeld(q, h, meld)  OBVIOUS
  <2>6. o.hand = h /\ o.melds = Append(q.melds, meld) /\ o.nuki_count = q.nuki_count  BY <2>5 DEF WithMeld
  <2>7. apply_event(r, e) = apply_call_event(r, e.who, meld)  BY <1>2, <2>1 DEF apply_event, apply_meld
  <2>8. Becomes(r, Logged(WithPlayer(r, e.who, o), event), P, e.who, o.hand, o.melds, o.nuki_count)
    BY PlayerBecomes
  <2>9. h = Without(q.hand, T)  BY <1>2, <2>1, <2>2, Zenon DEF Without, Takes1
  <2>10. Melded(q, e.m) = Append(q.melds, meld) /\ Counted(q, e.m) = q.nuki_count
    BY <1>2, <2>1, Zenon DEF Melded, Counted
  <2>. QED  BY <2>4, <2>5, <2>6, <2>7, <2>8, <2>9, <2>10, Zenon
<1>. QED  BY <1>1, <1>2

\* The other events leave the players alone.
LEMMA PlayersKept ==
  ASSUME NEW P, NEW r, IsRound(r, P), NEW e, e.tag \in {"dora", "reach", "agari", "ryukyoku"}
  PROVE  apply_event(r, e).last.players = r.last.players
<1>1. ASSUME NEW k, NEW d, NEW event
      PROVE  Logged(WithTable(r, k, d), event).last.players = r.last.players
  BY DEF Logged, WithTable
<1>2. CASE e.tag = "dora"
  <2>1. apply_event(r, e) = apply_dora(r, e)  BY <1>2 DEF apply_event
  <2>2. PICK k, d, event : apply_dora(r, e) = Logged(WithTable(r, k, d), event)  BY DoraIs, Zenon
  <2>. QED  BY <1>1, <2>1, <2>2, Zenon
<1>3. CASE e.tag = "reach"
  <2>1. apply_event(r, e) = apply_reach(r, e)  BY <1>3 DEF apply_event
  <2>2. CASE e.step = 2
    <3>1. PICK k, d, event : /\ k = r.last.kyotaku + 1 /\ d = r.last.dora_indicators
                             /\ event = [tag |-> "Riichi", actor |-> e.who]
      OBVIOUS
    <3>2. apply_reach(r, e) = Logged(WithTable(r, k, d), event)  BY <2>2, <3>1, ReachIs
    <3>. QED  BY <1>1, <2>1, <3>2, Zenon
  <2>3. CASE e.step # 2  BY <2>1, <2>3, ReachIs, Zenon
  <2>. QED  BY <2>2, <2>3
<1>4. CASE e.tag \in {"agari", "ryukyoku"}
  <2>1. PICK event, result : apply_event(r, e) = Ended(r, event, result)  BY <1>4, ResultEvents, Zenon
  <2>2. Ended(r, event, result).last.players = r.last.players  BY DEF Ended
  <2>. QED  BY <2>1, <2>2, Zenon
<1>. QED  BY <1>2, <1>3, <1>4

-----------------------------------------------------------------------------
(* What a move of the game does: at most one event is logged, and at most  *)
(* one player's tiles and calls change, on the table and in the record.    *)

SameSeats == Players' = Players /\ NumPlayers' = NumPlayers /\ setup' = setup /\ game'.players = game.players

LEMMA EventRound ==
  ASSUME TableInv, RecordInv, ClosedInv, Started, NEW e, Log(e), InTheRound(e, Players)
  PROVE  SameSeats /\ Started' /\ Round' = apply_event(Round, e) /\ IsRound(Round, Players)
<1>1. PICK P, r, n : P = Players /\ r = Round /\ n = NumPlayers  OBVIOUS
<1>2. PICK s : s = apply_event(r, e)  OBVIOUS
<1>3. IsRound(r, P) /\ Reproduces(r, P)  BY <1>1, RoundIs DEF ClosedInv
<1>4. IsRound(s, P) /\ s.initial = r.initial
  <2>1. Closes(r, s, P)  BY <1>1, <1>2, <1>3, EventCloses, Zenon
  <2>. QED  BY <2>1, Zenon DEF Closes, Leads
<1>5. e.tag \notin {"UN", "INIT"}  BY DEF InTheRound
<1>6. Players' = Players /\ NumPlayers' = NumPlayers /\ Started' /\ Round' = s
  <2>1. IsRound(s, Players) /\ s.initial = Round.initial /\ s = apply_event(Round, e)
    BY <1>1, <1>2, <1>4, Zenon
  <2>. QED  BY <1>5, <2>1, RoundStep
<1>7. game'.players = game.players
  <2>1. PICK g, h : g = game /\ h = game'  OBVIOUS
  <2>2. h = build_replay(g, e)  BY <2>1 DEF Log
  <2>3. IsGame(g, P, n)  BY <1>1, <2>1 DEF RecordInv
  <2>4. Len(g.rounds) # 0 /\ Last(g.rounds) = r  BY <1>1, <2>1, RoundIs DEF Round
  <2>5. IsRound(apply_event(Last(g.rounds), e), P)  BY <1>2, <1>4, <2>4, Zenon
  <2>6. h.players = g.players  BY <1>5, <2>2, <2>3, <2>4, <2>5, InRound
  <2>. QED  BY <2>1, <2>6
<1>8. setup' = setup  BY DEF Log
<1>. QED  BY <1>1, <1>2, <1>3, <1>6, <1>7, <1>8, Zenon DEF SameSeats

\* No tile moves into a hand or out of one, and no call is made.
Stays ==
  /\ SameSeats /\ UNCHANGED <<held, codes>> /\ (Started' <=> Started)
  /\ Started => Round'.last.players = Round.last.players

\* One player's tiles change, in the record as on the table.
Moves(p, new, hand, ms, n) ==
  /\ SameSeats /\ Started /\ Started' /\ p \in Players
  /\ held' = [held EXCEPT ![p] = new]
  /\ Becomes(Round, Round', Players, p, hand, ms, n)

Draws(p) ==
  /\ UNCHANGED codes
  /\ \E x \in Ids : x \notin held[p] /\ Moves(p, held[p] \cup {x}, Gets(State(p).hand, to_tile(x)), State(p).melds, State(p).nuki_count)

Discards(p) ==
  /\ UNCHANGED codes
  /\ \E x \in held[p] : Moves(p, held[p] \ {x}, Loses(State(p).hand, to_tile(x)), State(p).melds, State(p).nuki_count)

Calls(p, m, newcodes) ==
  /\ codes' = [codes EXCEPT ![p] = newcodes]
  /\ \E U \in SUBSET held[p] :
       Moves(p, held[p] \ U, Without(State(p).hand, U), Melded(State(p), m), Counted(State(p), m))

LEMMA DrawMoves ==
  ASSUME TableInv, RecordInv, ClosedInv, TilesInv, NEW p \in Players, Draw(p)
  PROVE  Draws(p) /\ UNCHANGED wins /\ phase # "over"
<1>1. Started /\ phase # "over"  BY DEF RecordInv, Draw, Free
<1>2. PICK x, e : x = Head(wall) /\ e = [tag |-> "draw", who |-> p, tile |-> x]  OBVIOUS
<1>3. e.tag = "draw" /\ e.who = p /\ e.tile = x  BY <1>2
<1>4. Log(e) /\ InTheRound(e, Players)  BY <1>2, <1>3 DEF Draw, InTheRound
<1>5. SameSeats /\ Started' /\ Round' = apply_event(Round, e) /\ IsRound(Round, Players)
  BY <1>1, <1>4, EventRound
<1>6. x \in Ids /\ x \notin held[p]
  <2>1. wall \in Seq(Ids) /\ IsInjective(wall) /\ wall # << >> /\ held[p] \cap Range(wall) = {}
    BY DEF TilesInv, Draw
  <2>2. x \in Ids /\ x \in Range(wall)  BY <1>2, <2>1, HeadTaken
  <2>. QED  BY <2>1, <2>2
<1>7. PICK P, r, q : P = Players /\ r = Round /\ q = State(p)  OBVIOUS
<1>8. Becomes(r, apply_event(r, e), P, p, Gets(q.hand, to_tile(x)), q.melds, q.nuki_count)
  <2>1. IsRound(r, P) /\ e.who \in P /\ q = r.last.players[e.who]  BY <1>3, <1>5, <1>7 DEF State
  <2>2. Becomes(r, apply_event(r, e), P, e.who, Gets(q.hand, to_tile(e.tile)), q.melds, q.nuki_count)
    BY <1>3, <2>1, DrawBecomes
  <2>. QED  BY <1>3, <2>2, Zenon
<1>9. held' = [held EXCEPT ![p] = held[p] \cup {x}] /\ UNCHANGED <<codes, wins>>
  <2>1. held' = [held EXCEPT ![p] = @ \cup {x}]  BY <1>2, Zenon DEF Draw
  <2>. QED  BY <2>1 DEF Draw
<1>10. Moves(p, held[p] \cup {x}, Gets(State(p).hand, to_tile(x)), State(p).melds, State(p).nuki_count)
  BY <1>1, <1>5, <1>7, <1>8, <1>9, Zenon DEF Moves
<1>. QED  BY <1>1, <1>6, <1>9, <1>10, Zenon DEF Draws

LEMMA DiscardMoves ==
  ASSUME TableInv, RecordInv, ClosedInv, NEW p \in Players, Discard(p)
  PROVE  Discards(p) /\ UNCHANGED wins /\ phase # "over"
<1>1. Started /\ phase # "over"  BY DEF RecordInv, Discard
<1>2. PICK x \in held[p] : /\ Log([tag |-> "discard", who |-> p, tile |-> x])
                           /\ held' = [held EXCEPT ![p] = @ \ {x}]
  BY Zenon DEF Discard
<1>3. PICK e : e = [tag |-> "discard", who |-> p, tile |-> x]  OBVIOUS
<1>4. e.tag = "discard" /\ e.who = p /\ e.tile = x  BY <1>3
<1>5. Log(e) /\ InTheRound(e, Players)  BY <1>2, <1>3, <1>4 DEF InTheRound
<1>6. SameSeats /\ Started' /\ Round' = apply_event(Round, e) /\ IsRound(Round, Players)
  BY <1>1, <1>5, EventRound
<1>7. PICK P, r, q : P = Players /\ r = Round /\ q = State(p)  OBVIOUS
<1>8. Becomes(r, apply_event(r, e), P, p, Loses(q.hand, to_tile(x)), q.melds, q.nuki_count)
  <2>1. IsRound(r, P) /\ e.who \in P /\ q = r.last.players[e.who]  BY <1>4, <1>6, <1>7 DEF State
  <2>2. Becomes(r, apply_event(r, e), P, e.who, Loses(q.hand, to_tile(e.tile)), q.melds, q.nuki_count)
    BY <1>4, <2>1, DiscardBecomes
  <2>. QED  BY <1>4, <2>2, Zenon
<1>9. held' = [held EXCEPT ![p] = held[p] \ {x}] /\ UNCHANGED <<codes, wins>>
  BY <1>2 DEF Discard
<1>10. Moves(p, held[p] \ {x}, Loses(State(p).hand, to_tile(x)), State(p).melds, State(p).nuki_count)
  BY <1>1, <1>6, <1>7, <1>8, <1>9, Zenon DEF Moves
<1>. QED  BY <1>1, <1>9, <1>10, Zenon DEF Discards

LEMMA CallMoves ==
  ASSUME TableInv, RecordInv, ClosedInv, phase # "over", NEW p \in Players,
         NEW T, NEW U, NEW m, NEW newcodes, Call(p, T, newcodes, m), Leaves(held[p], m, T, U)
  PROVE  Calls(p, m, newcodes) /\ UNCHANGED wins
<1>1. Started  BY DEF RecordInv
<1>2. PICK e : e = [tag |-> "meld", who |-> p, m |-> m]  OBVIOUS
<1>3. e.tag = "meld" /\ e.who = p /\ e.m = m  BY <1>2
<1>4. Log(e) /\ InTheRound(e, Players)  BY <1>2, <1>3 DEF Call, InTheRound
<1>5. SameSeats /\ Started' /\ Round' = apply_event(Round, e) /\ IsRound(Round, Players)
  BY <1>1, <1>4, EventRound
<1>6. PICK P, r, q : P = Players /\ r = Round /\ q = State(p)  OBVIOUS
<1>7. U \subseteq held[p] /\ held[p] \ T = held[p] \ U /\ Takes1(m, U)  BY DEF Leaves
<1>8. Becomes(r, apply_event(r, e), P, p, Without(q.hand, U), Melded(q, m), Counted(q, m))
  <2>1. IsRound(r, P) /\ e.who \in P /\ q = r.last.players[e.who]  BY <1>3, <1>5, <1>6 DEF State
  <2>2. Takes1(e.m, U)  BY <1>3, <1>7
  <2>3. Becomes(r, apply_event(r, e), P, e.who, Without(q.hand, U), Melded(q, e.m), Counted(q, e.m))
    BY <1>3, <2>1, <2>2, MeldBecomes
  <2>. QED  BY <1>3, <2>3, Zenon
<1>9. held' = [held EXCEPT ![p] = held[p] \ U] /\ codes' = [codes EXCEPT ![p] = newcodes] /\ UNCHANGED wins
  <2>1. held' = [held EXCEPT ![p] = @ \ T]  BY DEF Call
  <2>2. held' = [held EXCEPT ![p] = held[p] \ T]  BY <2>1
  <2>. QED  BY <1>7, <2>2 DEF Call
<1>10. Moves(p, held[p] \ U, Without(State(p).hand, U), Melded(State(p), m), Counted(State(p), m))
  BY <1>1, <1>5, <1>6, <1>8, <1>9, Zenon DEF Moves
<1>. QED  BY <1>7, <1>9, <1>10, Zenon DEF Calls

LEMMA EventStays ==
  ASSUME TableInv, RecordInv, ClosedInv, Started, NEW e, Log(e), e.tag \in {"dora", "reach", "agari", "ryukyoku"},
         UNCHANGED <<held, codes>>
  PROVE  Stays
<1>1. InTheRound(e, Players)  BY DEF InTheRound
<1>2. SameSeats /\ Started' /\ Round' = apply_event(Round, e) /\ IsRound(Round, Players)
  BY <1>1, EventRound
<1>3. Round'.last.players = Round.last.players  BY <1>2, PlayersKept
<1>. QED  BY <1>2, <1>3 DEF Stays

\* The calls of codes that are appended to the caller's.
AddsPlain(p) == \E m : Calls(p, m, Append(codes[p], m)) /\ Plain(m)
AddsNuki(p) == \E m : Calls(p, m, Append(codes[p], m)) /\ is_nuki(m) /\ ~PonLike(m)
\* A pon leaves one tile of its kind that may still be seen.
AddsPon(p) ==
  \E m \in Nat, T \in SUBSET held[p] :
    /\ Calls(p, m, Append(codes[p], m)) /\ IsPonOf(m, Kind(tile))
    /\ tile' = Null /\ wall' = wall /\ held'[p] = held[p] \ T /\ tile \in 0..135
    /\ \E unused : Copies(Kind(tile)) \subseteq T \cup {tile, unused}
    /\ \E x \in T : x \in Copies(Kind(tile)) /\ x # tile
\* A kan takes the place of a pon of the same kind.
ExtendsPon(p) ==
  \E m \in Nat, i \in DOMAIN codes[p], k \in Kinds :
    /\ Calls(p, m, [codes[p] EXCEPT ![i] = m]) /\ IsKanOf(m, k)
    /\ is_pon(codes[p][i]) /\ KindOf(codes[p][i]) = k
AnyCall(p) == AddsPlain(p) \/ AddsNuki(p) \/ AddsPon(p) \/ ExtendsPon(p)

LEMMA AnyCallMoves ==
  ASSUME TableInv, RecordInv, ClosedInv, TilesInv, NEW p \in Players,
         Chi(p) \/ Pon(p) \/ Daiminkan(p) \/ Ankan(p) \/ Kakan(p) \/ Nuki(p)
  PROVE  AnyCall(p) /\ UNCHANGED wins /\ phase # "over" /\ TilesInv' /\ NoneReturns
<1>1. phase # "over"
  <2>1. CanCall(p) \/ OwnTurn(p)  BY DEF Chi, Pon, Daiminkan, Ankan, Kakan, Nuki
  <2>. QED  BY <2>1 DEF CanCall, Free, OwnTurn
<1>2. ASSUME NEW T, NEW newcodes, NEW m, Call(p, T, newcodes, m),
             \/ tile' = tile \/ tile' = Null \/ (tile' \in held[p] /\ tile' \in T),
             phase' \in {"discarded", "added", "safe"} => tile' # Null
      PROVE  TilesInv' /\ NoneReturns
  <2>1. setup' = setup /\ wall' = wall /\ held' = [held EXCEPT ![p] = @ \ T]  BY <1>2 DEF Call, Log
  <2>. QED  BY <1>2, <2>1, TilesTaken
<1>3. CASE Chi(p)
  <2>1. PICK T, U, m : Call(p, T, Append(codes[p], m), m) /\ Leaves(held[p], m, T, U) /\ Plain(m)
    BY <1>3, ChiCall
  <2>2. Calls(p, m, Append(codes[p], m)) /\ UNCHANGED wins  BY <1>1, <2>1, CallMoves
  <2>3. tile' = Null /\ phase' = "discard"  BY <1>3 DEF Chi
  <2>. QED  BY <1>1, <1>2, <2>1, <2>2, <2>3 DEF AnyCall, AddsPlain
<1>4. CASE Daiminkan(p)
  <2>1. PICK T, m : Call(p, T, Append(codes[p], m), m) /\ Leaves(held[p], m, T, T) /\ Plain(m)
    BY <1>4, DaiminkanCall
  <2>2. Calls(p, m, Append(codes[p], m)) /\ UNCHANGED wins  BY <1>1, <2>1, CallMoves
  <2>3. tile' = Null /\ phase' = "draw"  BY <1>4 DEF Daiminkan
  <2>. QED  BY <1>1, <1>2, <2>1, <2>2, <2>3 DEF AnyCall, AddsPlain
<1>5. CASE Ankan(p)
  <2>1. PICK T, m : Call(p, T, Append(codes[p], m), m) /\ Leaves(held[p], m, T, T) /\ Plain(m)
    BY <1>5, AnkanCall
  <2>2. Calls(p, m, Append(codes[p], m)) /\ UNCHANGED wins  BY <1>1, <2>1, CallMoves
  <2>3. tile' = tile /\ phase' = "draw"  BY <1>5 DEF Ankan
  <2>. QED  BY <1>1, <1>2, <2>1, <2>2, <2>3 DEF AnyCall, AddsPlain
<1>6. CASE Nuki(p)
  <2>1. PICK T, m : /\ Call(p, T, Append(codes[p], m), m) /\ Leaves(held[p], m, T, T)
                    /\ is_nuki(m) /\ ~PonLike(m)
    BY <1>6, NukiCall
  <2>2. Calls(p, m, Append(codes[p], m)) /\ UNCHANGED wins  BY <1>1, <2>1, CallMoves
  <2>3. tile' = tile /\ phase' = "draw"  BY <1>6 DEF Nuki
  <2>. QED  BY <1>1, <1>2, <2>1, <2>2, <2>3 DEF AnyCall, AddsNuki
<1>7. CASE Pon(p)
  <2>1. PICK T, m :
           /\ Call(p, T, Append(codes[p], m), m) /\ Leaves(held[p], m, T, T)
           /\ m \in Nat /\ IsPonOf(m, Kind(tile))
           /\ \E unused : Copies(Kind(tile)) \subseteq T \cup {tile, unused}
           /\ \E x \in T : x \in Copies(Kind(tile)) /\ x # tile
    BY <1>7, PonCall
  <2>2. Calls(p, m, Append(codes[p], m)) /\ UNCHANGED wins  BY <1>1, <2>1, CallMoves
  <2>3. tile' = Null /\ phase' = "discard"  BY <1>7 DEF Pon
  <2>4. tile \in 0..135  BY <1>7, TileIs DEF Pon, CanCall
  <2>5. T \in SUBSET held[p]  BY <2>1 DEF Leaves
  <2>6. held'[p] = held[p] \ T
    <3>1. held' = [held EXCEPT ![p] = @ \ T] /\ p \in DOMAIN held  BY <2>1 DEF Call, TableInv
    <3>. QED  BY <3>1
  <2>7. wall' = wall  BY <2>1 DEF Call
  <2>8. AddsPon(p)  BY <2>1, <2>2, <2>3, <2>4, <2>5, <2>6, <2>7, Zenon DEF AddsPon
  <2>. QED  BY <1>1, <1>2, <2>1, <2>2, <2>3, <2>8 DEF AnyCall
<1>8. CASE Kakan(p)
  <2>0. PICK i \in DOMAIN codes[p], id \in held[p] : \E m :
           /\ Call(p, {id}, [codes[p] EXCEPT ![i] = m], m) /\ Leaves(held[p], m, {id}, {id})
           /\ m \in Nat /\ IsKanOf(m, Kind(id)) /\ tile' = id
           /\ is_pon(codes[p][i]) /\ KindOf(codes[p][i]) = Kind(id) /\ Kind(id) \in Kinds
    BY <1>8, KakanCall
  <2>1. PICK m :
           /\ Call(p, {id}, [codes[p] EXCEPT ![i] = m], m) /\ Leaves(held[p], m, {id}, {id})
           /\ m \in Nat /\ IsKanOf(m, Kind(id)) /\ tile' = id
           /\ is_pon(codes[p][i]) /\ KindOf(codes[p][i]) = Kind(id) /\ Kind(id) \in Kinds
    BY <2>0
  <2>2. Calls(p, m, [codes[p] EXCEPT ![i] = m]) /\ UNCHANGED wins  BY <1>1, <2>1, CallMoves
  <2>3. tile' \in held[p] /\ tile' \in {id} /\ tile' # Null
    <3>1. held[p] \subseteq Ids  BY DEF TilesInv
    <3>. QED  BY <2>1, <3>1, IdsAre
  <2>4. ExtendsPon(p)  BY <2>1, <2>2, Zenon DEF ExtendsPon
  <2>. QED  BY <1>1, <1>2, <2>1, <2>2, <2>3, <2>4 DEF AnyCall
<1>. QED  BY <1>3, <1>4, <1>5, <1>6, <1>7, <1>8

LEMMA DiscardTiles == ASSUME TableInv, TilesInv, NEW p \in Players, Discard(p)  PROVE TilesInv' /\ NoneReturns
<1>1. PICK x \in held[p] : Log([tag |-> "discard", who |-> p, tile |-> x]) /\ held' = [held EXCEPT ![p] = @ \ {x}] /\ tile' = x
  BY Zenon DEF Discard
<1>2. PICK T : T = {x}  OBVIOUS
<1>3. setup' = setup /\ wall' = wall /\ held' = [held EXCEPT ![p] = @ \ T]  BY <1>1, <1>2 DEF Discard, Log
<1>4. tile' \in held[p] /\ tile' \in T /\ tile' # Null
  <2>1. held[p] \subseteq Ids  BY DEF TilesInv
  <2>. QED  BY <1>1, <1>2, <2>1, IdsAre
<1>. QED  BY <1>3, <1>4, TilesTaken

\* A win is logged, and nothing moves.
Wins1(p, loser, machi, hai) ==
  /\ Win(p, loser, machi, hai) /\ Stays
  /\ loser \in Players \cup {Null} /\ loser # p /\ (phase # "over" \/ wins # << >>)
  /\ IF loser = Null THEN hai = held[p] ELSE machi = tile /\ hai = held[p] \cup {tile}

Rests ==
  /\ Stays
  /\ wins' = wins /\ (phase # "over" \/ game' = game)

LEMMA WinMoves ==
  ASSUME TableInv, RecordInv, ClosedInv, NEW p \in Players, Tsumo(p) \/ Ron(p)
  PROVE  \E loser, machi, hai : Wins1(p, loser, machi, hai)
<1>0. (phase # "over" => Started) /\ (~Started => wins = << >>)  BY DEF RecordInv
<1>1. ASSUME NEW loser, NEW machi, NEW hai, Win(p, loser, machi, hai), EndRound, Started  PROVE Stays
  <2>1. PICK liable, pao_yaku : WinWith(p, loser, machi, hai, liable, pao_yaku)  BY <1>1, WinIs
  <2>2. PICK from, m, sc :
           Log([tag |-> "agari", who |-> p, from_who |-> from, machi |-> machi, hai |-> Sorted(hai), m |-> m,
                kyotaku |-> pot, pao_yaku |-> pao_yaku, sc |-> sc])
    BY <2>1, Zenon DEF WinWith
  <2>3. PICK e : e = [tag |-> "agari", who |-> p, from_who |-> from, machi |-> machi, hai |-> Sorted(hai),
                      m |-> m, kyotaku |-> pot, pao_yaku |-> pao_yaku, sc |-> sc]
    OBVIOUS
  <2>4. e.tag = "agari"  BY <2>3
  <2>5. Log(e)  BY <2>2, <2>3, Zenon
  <2>6. UNCHANGED <<held, codes>>  BY <1>1 DEF EndRound
  <2>. QED  BY <1>1, <2>4, <2>5, <2>6, EventStays
<1>2. CASE Tsumo(p)
  <2>1. Win(p, Null, drew, held[p]) /\ EndRound /\ phase # "over"  BY <1>2 DEF Tsumo, OwnTurn
  <2>2. Stays  BY <1>0, <1>1, <2>1
  <2>3. Null # p  BY PlayersAre
  <2>4. Wins1(p, Null, drew, held[p])  BY <2>1, <2>2, <2>3, Zenon DEF Wins1
  <2>. QED  BY <2>4, Zenon
<1>3. CASE Ron(p)
  <2>1. Win(p, turn, tile, held[p] \cup {tile}) /\ EndRound /\ p # turn  BY <1>3 DEF Ron
  <2>2. phase # "over" \/ wins # << >>
    <3>1. phase \in {"discarded", "added"} \/ Len(wins) = 1  BY <1>3 DEF Ron
    <3>2. Len(<< >>) = 0  BY EmptyList
    <3>. QED  BY <3>1, <3>2
  <2>3. Stays  BY <1>0, <1>1, <2>1, <2>2
  <2>4. turn \in Players /\ turn # Null  BY PlayersAre DEF TableInv
  <2>5. Wins1(p, turn, tile, held[p] \cup {tile})  BY <2>1, <2>2, <2>3, <2>4, Zenon DEF Wins1
  <2>. QED  BY <2>5, Zenon
<1>. QED  BY <1>2, <1>3

\* Every move, by what it does.
NextMove ==
  \/ \E p \in Players :
       \/ phase # "over" /\ wins' = wins /\ (Draws(p) \/ Discards(p) \/ AnyCall(p))
       \/ \E loser, machi, hai : Wins1(p, loser, machi, hai)
  \/ Rests

LEMMA MoveIs ==
  ASSUME TableInv, RecordInv, ClosedInv, TilesInv, [Next]_vars, ~ \E p \in Players : Deal(p)
  PROVE  NextMove /\ TilesInv' /\ NoneReturns
<1>0. phase # "over" => Started  BY DEF RecordInv
<1>1. ASSUME UNCHANGED vars  PROVE NextMove /\ TilesInv' /\ NoneReturns
  <2>1. /\ game' = game /\ setup' = setup /\ UNCHANGED <<wall, held, tile>> /\ phase' = phase
        /\ UNCHANGED <<held, codes>> /\ wins' = wins
    BY <1>1 DEF vars
  <2>2. Stays  BY <2>1 DEF Stays, SameSeats, Started, Round, Players, NumPlayers
  <2>. QED  BY <2>1, <2>2, TilesStay DEF NextMove, Rests
<1>2. ASSUME NEW p \in Players, Reconnect(p)  PROVE NextMove /\ TilesInv' /\ NoneReturns
  <2>1. PICK names : game' = build_replay(game, [tag |-> "UN", names |-> names])  BY <1>2 DEF Reconnect, Log
  <2>2. game.players # << >>  BY DEF RecordInv, IsGame
  <2>3. game' = game /\ setup' = setup  BY <1>2, <2>1, <2>2 DEF build_replay, Reconnect, Log
  <2>4. UNCHANGED <<wall, held, tile>> /\ phase' = phase /\ UNCHANGED <<held, codes>> /\ wins' = wins
    BY <1>2 DEF Reconnect
  <2>5. Stays  BY <2>3, <2>4 DEF Stays, SameSeats, Started, Round, Players, NumPlayers
  <2>. QED  BY <2>3, <2>4, <2>5, TilesStay DEF NextMove, Rests
<1>3. ASSUME NEW p \in Players, Draw(p)  PROVE NextMove /\ TilesInv' /\ NoneReturns
  BY <1>3, DrawMoves, DrawTiles DEF NextMove
<1>4. ASSUME NEW p \in Players, Discard(p)  PROVE NextMove /\ TilesInv' /\ NoneReturns
  BY <1>4, DiscardMoves, DiscardTiles DEF NextMove
<1>5. ASSUME NEW p \in Players, Declare(p) \/ Deposit(p)  PROVE NextMove /\ TilesInv' /\ NoneReturns
  <2>1. PICK k : Log([tag |-> "reach", who |-> p, step |-> k])
    <3>1. CASE Declare(p)  BY <3>1, Zenon DEF Declare
    <3>2. CASE Deposit(p)  BY <3>2, Zenon DEF Deposit
    <3>. QED  BY <1>5, <3>1, <3>2
  <2>2. PICK e : e = [tag |-> "reach", who |-> p, step |-> k]  OBVIOUS
  <2>3. e.tag = "reach" /\ Log(e)  BY <2>1, <2>2
  <2>4. /\ phase # "over" /\ UNCHANGED <<held, codes>> /\ wins' = wins /\ UNCHANGED <<wall, held, tile>>
        /\ (phase' \in {"discarded", "added", "safe"} => phase \in {"discarded", "added", "safe"})
    BY <1>5 DEF Declare, OwnTurn, Deposit
  <2>5. Stays  BY <1>0, <2>3, <2>4, EventStays
  <2>6. setup' = setup  BY <2>3 DEF Log
  <2>. QED  BY <2>4, <2>5, <2>6, TilesStay DEF NextMove, Rests
<1>6. ASSUME NEW p \in Players, Chi(p) \/ Pon(p) \/ Daiminkan(p) \/ Ankan(p) \/ Kakan(p) \/ Nuki(p)
      PROVE  NextMove /\ TilesInv' /\ NoneReturns
  BY <1>6, AnyCallMoves DEF NextMove
<1>7. ASSUME NEW p \in Players, Tsumo(p) \/ Ron(p)  PROVE NextMove /\ TilesInv' /\ NoneReturns
  <2>1. PICK loser, machi, hai : Wins1(p, loser, machi, hai)  BY <1>7, WinMoves
  <2>2. UNCHANGED <<wall, held, tile>> /\ phase' = "over"  BY <1>7 DEF Tsumo, Ron, EndRound
  <2>3. setup' = setup  BY <2>1 DEF Wins1, Stays, SameSeats
  <2>. QED  BY <2>1, <2>2, <2>3, TilesStay DEF NextMove
<1>8. ASSUME ShowDora  PROVE NextMove /\ TilesInv' /\ NoneReturns
  <2>1. PICK id : Log([tag |-> "dora", tile |-> id])  BY <1>8, Zenon DEF ShowDora
  <2>2. PICK e : e = [tag |-> "dora", tile |-> id]  OBVIOUS
  <2>3. e.tag = "dora" /\ Log(e)  BY <2>1, <2>2
  <2>4. /\ phase # "over" /\ UNCHANGED <<held, codes>> /\ wins' = wins /\ UNCHANGED <<wall, held, tile>>
        /\ phase' = phase
    BY <1>8 DEF ShowDora
  <2>5. Stays  BY <1>0, <2>3, <2>4, EventStays
  <2>6. setup' = setup  BY <2>3 DEF Log
  <2>. QED  BY <2>4, <2>5, <2>6, TilesStay DEF NextMove, Rests
<1>9. ASSUME Exhausted \/ FourKans  PROVE NextMove /\ TilesInv' /\ NoneReturns
  <2>1. PICK type, delta : EndInDraw(type, delta)
    <3>1. CASE Exhausted  BY <3>1, Zenon DEF Exhausted
    <3>2. CASE FourKans  BY <3>2, Zenon DEF FourKans
    <3>. QED  BY <1>9, <3>1, <3>2
  <2>2. PICK e : e = [tag |-> "ryukyoku", type |-> type, kyotaku |-> pot, sc |-> Sc(delta)]  OBVIOUS
  <2>3. e.tag = "ryukyoku"  BY <2>2
  <2>4. Log(e)  BY <2>1, <2>2, Zenon DEF EndInDraw
  <2>5. phase # "over"  BY <1>9 DEF Exhausted, FourKans, Free
  <2>6. UNCHANGED <<held, codes>> /\ wins' = wins /\ UNCHANGED <<wall, held, tile>> /\ phase' = "over"
    BY <2>1 DEF EndInDraw, EndRound
  <2>7. Stays  BY <1>0, <2>3, <2>4, <2>5, <2>6, EventStays
  <2>8. setup' = setup  BY <2>4 DEF Log
  <2>. QED  BY <2>5, <2>6, <2>7, <2>8, TilesStay DEF NextMove, Rests
<1>. QED
  BY <1>1, <1>2, <1>3, <1>4, <1>5, <1>6, <1>7, <1>8, <1>9 DEF Next

-----------------------------------------------------------------------------
(* The record's hands and players are those of the table.                  *)

HeldInv ==
  /\ game.players = SubSeq(Names, 1, NumPlayers)
  /\ Started => \A p \in Players : State(p).hand = Count(held[p])

LEMMA NamesAre ==
  ASSUME NumPlayers \in {3, 4}, NEW e, e.names = Names
  PROVE  make_players(e) = SubSeq(Names, 1, NumPlayers)
<1>1. PICK n, s : n = NumPlayers /\ s = Names  OBVIOUS
<1>2. PICK S, l : l = <<"A", "B", "C", "D">> /\ S = {"A", "B", "C", "D", ""}  OBVIOUS
<1>3. /\ l[1] = "A" /\ l[2] = "B" /\ l[3] = "C" /\ l[4] = "D" /\ "D" # ""
      /\ "A" \in S /\ "B" \in S /\ "C" \in S /\ "D" \in S /\ "" \in S
  BY <1>2
<1>4. s = [i \in 1..4 |-> IF i <= n THEN l[i] ELSE ""]  BY <1>1, <1>2, Zenon DEF Names
<1>5. CASE n = 3
  <2>1. s[4] = ""
    <3>1. 4 \in 1..4 /\ ~(4 <= n)  BY <1>5
    <3>2. s[4] = IF 4 <= n THEN l[4] ELSE ""  BY <1>4, <3>1, Zenon
    <3>. QED  BY <3>1, <3>2, Zenon
  <2>2. make_players(e) = SubSeq(s, 1, 3)  BY <1>1, <2>1, Zenon DEF make_players
  <2>. QED  BY <1>1, <1>5, <2>2, Zenon
<1>6. CASE n = 4
  <2>1. s[4] = l[4]  BY <1>4, <1>6
  <2>2. s[4] # ""  BY <1>3, <2>1
  <2>3. make_players(e) = s  BY <1>1, <2>2, Zenon DEF make_players
  <2>4. \A i \in 1..4 : s[i] \in S
    <3>1. \A i \in 1..4 : i = 1 \/ i = 2 \/ i = 3 \/ i = 4  OBVIOUS
    <3>2. \A i \in 1..4 : l[i] \in S  BY <1>3, <3>1, Zenon
    <3>. QED  BY <1>3, <1>4, <3>2
  <2>5. s \in Seq(S) /\ Len(s) = n
    <3>1. s \in [1..n -> S] /\ n \in Nat  BY <1>4, <1>6, <2>4
    <3>. QED  BY ONLY <3>1
  <2>6. SubSeq(s, 1, n) = s  BY ONLY <2>5
  <2>. QED  BY <1>1, <2>3, <2>6, Zenon
<1>. QED  BY <1>1, <1>5, <1>6

LEMMA HeldInit == Init => HeldInv
<1>. SUFFICES ASSUME Init PROVE HeldInv  OBVIOUS
<1>1. PICK n : n = NumPlayers  OBVIOUS
<1>2. n \in {3, 4}  BY <1>1, SetupsAssumption DEF Init, NumPlayers
<1>3. PICK e : e = [tag |-> "UN", names |-> Names]  OBVIOUS
<1>4. game = [NoGame EXCEPT !.players = make_players(e)]  BY <1>3 DEF Init, build_replay, NoGame
<1>5. PICK s : s = make_players(e)  OBVIOUS
<1>6. game = [players |-> s, rounds |-> << >>]  BY <1>4, <1>5 DEF NoGame
<1>7. game.players = s /\ game.rounds = << >>  BY <1>6
<1>8. s = SubSeq(Names, 1, NumPlayers)
  <2>1. e.names = Names /\ NumPlayers \in {3, 4}  BY <1>1, <1>2, <1>3
  <2>. QED  BY <1>5, <2>1, NamesAre
<1>. QED  BY <1>7, <1>8, Zenon DEF HeldInv, Started

\* A deal puts the same hands into the record and on the table.
LEMMA DealtNow ==
  ASSUME TableInv, RecordInv, NEW oya \in Players, Deal(oya)
  PROVE  /\ SameSeats /\ Started' /\ wins' = << >> /\ codes' = [p \in Players |-> << >>]
         /\ \A p \in Players :
              /\ State(p)'.hand = Count(held'[p]) /\ State(p)'.melds = << >> /\ State(p)'.nuki_count = 0
<1>1. PICK n, P : n = NumPlayers /\ P = Players  OBVIOUS
<1>2. n \in {3, 4} /\ P = 0..(n - 1)  BY <1>1, PlayersAre
<1>3. PICK d \in setup.deals :
         /\ Log([tag |-> "INIT", oya |-> oya, ten |-> points, kyotaku |-> pot, dora |-> d.dora, hands |-> d.hands])
         /\ held' = [p \in Players |-> Range(d.hands[p])]
  BY Zenon DEF Deal
<1>4. PICK e : e = [tag |-> "INIT", oya |-> oya, ten |-> points, kyotaku |-> pot, dora |-> d.dora,
                    hands |-> d.hands]
  OBVIOUS
<1>5. e.tag = "INIT" /\ e.hands = d.hands /\ e.ten = points  BY <1>4
<1>6. PICK r : r = make_round_record(e, n)  OBVIOUS
<1>7. SameSeats /\ Started' /\ Round' = r
  <2>1. game' = [game EXCEPT !.rounds = Append(@, r)]
    <3>1. Len(game.players) = n  BY <1>1 DEF RecordInv, IsGame
    <3>2. game' = build_replay(game, e)  BY <1>3, <1>4, Zenon DEF Log
    <3>3. game' = [game EXCEPT !.rounds = Append(@, make_round_record(e, Len(game.players)))]
      BY <1>5, <3>2 DEF build_replay
    <3>. QED  BY <1>6, <3>1, <3>3, Zenon
  <2>2. PICK g, s, t : g = game /\ s = g.rounds /\ t = Append(s, r)  OBVIOUS
  <2>3. IsList(s) /\ g = [players |-> g.players, rounds |-> s]  BY <2>2, Zenon DEF RecordInv, IsGame
  <2>4. game' = [g EXCEPT !.rounds = t]  BY <2>1, <2>2, Zenon
  <2>5. game'.rounds = t /\ game'.players = g.players
    <3>1. [g EXCEPT !.rounds = t] = [players |-> g.players, rounds |-> t]  BY ONLY <2>3
    <3>. QED  BY <2>4, <3>1
  <2>6. Last(t) = r /\ t # << >>
    <3>1. IsList(t) /\ Len(t) = Len(s) + 1 /\ Len(s) \in Nat /\ t[Len(s) + 1] = r  BY <2>2, <2>3, AppendList
    <3>. QED  BY <3>1, LastIs
  <2>7. Round' = Last(game'.rounds) /\ (Started' <=> game'.rounds # << >>)  BY DEF Round, Started
  <2>8. SameSeats
    <3>1. setup' = setup  BY <1>3 DEF Log
    <3>. QED  BY <2>2, <2>5, <3>1 DEF SameSeats, Players, NumPlayers
  <2>. QED  BY <2>5, <2>6, <2>7, <2>8, Zenon
<1>8. PICK s, t : s = make_player_states(e, n) /\ t = <<to_tile(e.dora)>>  OBVIOUS
<1>9. PICK start : start = [kyotaku |-> e.kyotaku, dora_indicators |-> t, dealer |-> e.oya, players |-> s]
  OBVIOUS
<1>10. r = [initial |-> start, last |-> start, events |-> << >>, results |-> << >>]
  BY <1>6, <1>8, <1>9, Zenon DEF make_round_record
<1>11. r.last.players = s  BY <1>9, <1>10
<1>12. PICK pts : pts = e.ten  OBVIOUS
<1>13. s = [p \in P |->
             [hand |-> make_hand(e.hands[p]), melds |-> << >>, nuki_count |-> 0,
              score |-> pts[p] * 100, seat_wind |-> (p - e.oya + n) % n]]
  BY <1>2, <1>8, <1>12, Zenon DEF make_player_states
<1>14. d.hands = e.hands /\ \A p \in P : d.hands[p] \in Seq(Ids) /\ IsInjective(d.hands[p])
  <2>1. setup \in Setups  BY DEF TableInv
  <2>2. (\A p \in P : d.hands[p] \in Seq(Ids)) /\ DealtOnce(d, P)
    BY <1>1, <2>1, SetupsAssumption DEF Players, NumPlayers
  <2>. QED  BY <1>5, <2>2 DEF DealtOnce
<1>15. ASSUME NEW p \in P
       PROVE  s[p].hand = Count(Range(d.hands[p])) /\ s[p].melds = << >> /\ s[p].nuki_count = 0
  <2>1. PICK h, c, w : h = make_hand(e.hands[p]) /\ c = pts[p] * 100 /\ w = (p - e.oya + n) % n  OBVIOUS
  <2>2. s[p] = [hand |-> h, melds |-> << >>, nuki_count |-> 0, score |-> c, seat_wind |-> w]
    BY <1>13, <2>1, Zenon
  <2>3. s[p].hand = h /\ s[p].melds = << >> /\ s[p].nuki_count = 0  BY <2>2
  <2>4. IsFiniteSet(DOMAIN d.hands[p])  BY <1>14, SeqRange
  <2>5. make_hand(d.hands[p]) = Count(Range(d.hands[p]))  BY <1>14, <2>4, MadeHand
  <2>. QED  BY <1>14, <2>1, <2>3, <2>5, Zenon
<1>16. ASSUME NEW p \in P
       PROVE  Round'.last.players[p].hand = Count(held'[p]) /\ Round'.last.players[p].melds = << >>
              /\ Round'.last.players[p].nuki_count = 0
  <2>1. held'[p] = Range(d.hands[p])  BY <1>1, <1>3
  <2>2. Round'.last.players[p] = s[p]  BY <1>7, <1>11, Zenon
  <2>. QED  BY <1>15, <2>1, <2>2, Zenon
<1>17. wins' = << >> /\ codes' = [p \in Players |-> << >>]  BY DEF Deal
<1>. QED  BY <1>1, <1>7, <1>16, <1>17, Zenon DEF State

\* The hand of a set of tiles, when one comes or some go.
LEMMA CountChanges ==
  ASSUME NEW S, IsFiniteSet(S)
  PROVE  /\ \A x : x \notin S => Gets(Count(S), to_tile(x)) = Count(S \cup {x})
         /\ \A x \in S : Loses(Count(S), to_tile(x)) = Count(S \ {x})
         /\ \A U \in SUBSET S : Without(Count(S), U) = Count(S \ U)
<1>1. \A T : Count(T) = [c \in Codes |-> Share(T, c)]  BY Zenon DEF Count, Share, Of
<1>2. ASSUME NEW x, x \notin S  PROVE Gets(Count(S), to_tile(x)) = Count(S \cup {x})
  <2>1. \A c \in Codes : Count(S)[c] + (IF c = to_tile(x) THEN 1 ELSE 0) = Share(S \cup {x}, c)
    BY <1>2, CountIs, ShareAdded
  <2>2. Count(S \cup {x}) = [c \in Codes |-> Share(S \cup {x}, c)]  BY <1>1
  <2>. QED  BY <2>1, <2>2 DEF Gets
<1>3. ASSUME NEW U \in SUBSET S  PROVE Without(Count(S), U) = Count(S \ U)
  <2>1. \A c \in Codes : Count(S)[c] - Share(U, c) = Share(S \ U, c)  BY <1>3, CountIs, ShareTaken
  <2>2. Count(S \ U) = [c \in Codes |-> Share(S \ U, c)]  BY <1>1
  <2>. QED  BY <2>1, <2>2 DEF Without
<1>4. ASSUME NEW x \in S  PROVE Loses(Count(S), to_tile(x)) = Count(S \ {x})
  <2>1. Without(Count(S), {x}) = Count(S \ {x})  BY <1>3
  <2>2. \A c \in Codes : Share({x}, c) = IF c = to_tile(x) THEN 1 ELSE 0  BY ShareOfOne
  <2>3. Loses(Count(S), to_tile(x)) = Without(Count(S), {x})  BY <2>2 DEF Loses, Without
  <2>. QED  BY <2>1, <2>3
<1>. QED  BY <1>2, <1>3, <1>4

LEMMA HandMoves ==
  ASSUME TableInv, HeldInv, NEW p, NEW new, NEW hand, NEW ms, NEW n, Moves(p, new, hand, ms, n),
         hand = Count(new)
  PROVE  HeldInv'
<1>1. PICK P, r, s, h : P = Players /\ r = Round /\ s = Round' /\ h = held'  OBVIOUS
<1>2. SameSeats /\ Started /\ p \in P /\ Becomes(r, s, P, p, hand, ms, n)  BY <1>1 DEF Moves
<1>3. h[p] = new /\ \A q \in P \ {p} : h[q] = held[q]
  <2>1. held' = [held EXCEPT ![p] = new] /\ DOMAIN held = P  BY <1>1 DEF Moves, TableInv
  <2>. QED  BY <1>1, <1>2, <2>1
<1>4. \A q \in P : r.last.players[q].hand = Count(held[q])  BY <1>1, <1>2, Zenon DEF HeldInv, State
<1>5. ASSUME NEW q \in P  PROVE s.last.players[q].hand = Count(h[q])
  <2>1. CASE q = p  BY <1>2, <1>3, <2>1, Zenon DEF Becomes
  <2>2. CASE q # p
    <3>1. q \in P \ {p}  BY <2>2
    <3>2. s.last.players[q] = r.last.players[q] /\ h[q] = held[q]  BY <1>2, <1>3, <3>1, Zenon DEF Becomes
    <3>. QED  BY <1>4, <3>2, Zenon
  <2>. QED  BY <2>1, <2>2
<1>6. Players' = P /\ NumPlayers' = NumPlayers /\ setup' = setup /\ game'.players = game.players
  BY <1>1, <1>2 DEF SameSeats
<1>7. Names' = Names  BY <1>6 DEF Names
<1>8. game'.players = SubSeq(Names', 1, NumPlayers')  BY <1>6, <1>7, Zenon DEF HeldInv
<1>. QED  BY <1>1, <1>5, <1>6, <1>8, Zenon DEF HeldInv, State

LEMMA HeldFinite == ASSUME TilesInv, NEW p \in Players  PROVE IsFiniteSet(held[p])
BY IdsAre, FS_Subset DEF TilesInv

LEMMA HeldStep ==
  TableInv /\ RecordInv /\ ClosedInv /\ TilesInv /\ HeldInv /\ [Next]_vars => HeldInv'
<1>. SUFFICES ASSUME TableInv, RecordInv, ClosedInv, TilesInv, HeldInv, [Next]_vars  PROVE HeldInv'  OBVIOUS
<1>0. ASSUME SameSeats  PROVE game'.players = SubSeq(Names', 1, NumPlayers')
  <2>1. NumPlayers' = NumPlayers /\ setup' = setup /\ game'.players = game.players  BY <1>0 DEF SameSeats
  <2>2. Names' = Names  BY <2>1 DEF Names
  <2>. QED  BY <2>1, <2>2, Zenon DEF HeldInv
<1>1. ASSUME NEW p \in Players, Deal(p)  PROVE HeldInv'
  <2>1. /\ SameSeats /\ Started'
        /\ \A q \in Players : State(q)'.hand = Count(held'[q])
    BY <1>1, DealtNow, Zenon
  <2>2. Players' = Players  BY <2>1 DEF SameSeats
  <2>. QED  BY <1>0, <2>1, <2>2, Zenon DEF HeldInv, State
<1>2. ASSUME Stays  PROVE HeldInv'
  <2>1. SameSeats /\ held' = held /\ (Started' <=> Started) /\ (Started => Round'.last.players = Round.last.players)
    BY <1>2 DEF Stays
  <2>2. Players' = Players  BY <2>1 DEF SameSeats
  <2>3. ASSUME Started', NEW p \in Players  PROVE Round'.last.players[p].hand = Count(held'[p])
    BY <2>1, <2>3, Zenon DEF HeldInv, State
  <2>. QED  BY <1>0, <2>1, <2>2, <2>3, Zenon DEF HeldInv, State
<1>3. ASSUME NEW p \in Players, phase # "over", Draws(p) \/ Discards(p) \/ AnyCall(p)  PROVE HeldInv'
  <2>1. PICK S : S = held[p] /\ IsFiniteSet(S)  BY HeldFinite
  <2>2. State(p).hand = Count(S)  BY <1>3, <2>1 DEF HeldInv, RecordInv
  <2>3. CASE Draws(p)
    <3>1. PICK x : x \notin S /\ Moves(p, S \cup {x}, Gets(Count(S), to_tile(x)), State(p).melds, State(p).nuki_count)
      BY <2>1, <2>2, <2>3, Zenon DEF Draws
    <3>2. Gets(Count(S), to_tile(x)) = Count(S \cup {x})  BY <2>1, <3>1, CountChanges
    <3>. QED  BY <3>1, <3>2, HandMoves
  <2>4. CASE Discards(p)
    <3>1. PICK x \in S : Moves(p, S \ {x}, Loses(Count(S), to_tile(x)), State(p).melds, State(p).nuki_count)
      BY <2>1, <2>2, <2>4, Zenon DEF Discards
    <3>2. Loses(Count(S), to_tile(x)) = Count(S \ {x})  BY <2>1, <3>1, CountChanges
    <3>. QED  BY <3>1, <3>2, HandMoves
  <2>5. CASE AnyCall(p)
    <3>1. PICK m, newcodes : Calls(p, m, newcodes)
      BY <2>5, Zenon DEF AnyCall, AddsPlain, AddsNuki, AddsPon, ExtendsPon
    <3>2. PICK U \in SUBSET S : Moves(p, S \ U, Without(Count(S), U), Melded(State(p), m), Counted(State(p), m))
      BY <2>1, <2>2, <3>1, Zenon DEF Calls
    <3>3. Without(Count(S), U) = Count(S \ U)  BY <2>1, <3>2, CountChanges
    <3>. QED  BY <3>2, <3>3, HandMoves
  <2>. QED  BY <1>3, <2>3, <2>4, <2>5
<1>4. CASE ~ \E p \in Players : Deal(p)
  <2>1. NextMove  BY <1>4, MoveIs
  <2>. QED  BY <1>2, <1>3, <2>1, Zenon DEF NextMove, Wins1, Rests
<1>. QED  BY <1>1, <1>4

LEMMA TilesStep == TableInv /\ RecordInv /\ ClosedInv /\ TilesInv /\ [Next]_vars => TilesInv'
BY DealTiles, MoveIs

LEMMA ClosedInit == Init => ClosedInv
<1>1. Init => game.rounds = << >>  BY DEF Init, build_replay, NoGame
<1>. QED  BY <1>1 DEF ClosedInv, Started

\* The record follows the table, whatever is dealt and however it is played: the invariant
\* that there is one tile of each number, in hands, wall and before the players, is what
\* makes taking tiles off a count the same as taking them out of a hand.
THEOREM RecordFollowsTableCorrect == Spec => []RecordFollowsTable
<1>1. Init => TableInv /\ RecordInv /\ ClosedInv /\ TilesInv /\ HeldInv
  BY TableInit, RecordInit, ClosedInit, TilesInit, HeldInit
<1>2. TableInv /\ RecordInv /\ ClosedInv /\ TilesInv /\ HeldInv /\ [Next]_vars
        => (TableInv /\ RecordInv /\ ClosedInv /\ TilesInv /\ HeldInv)'
  BY TableStep, RecordStep, ClosedStep, TilesStep, HeldStep
<1>3. RecordInv /\ HeldInv => RecordFollowsTable
  <2>. SUFFICES ASSUME RecordInv, HeldInv, Started  PROVE
           /\ \A i \in DOMAIN game.rounds : DOMAIN game.rounds[i].last.players = Players
           /\ game.players = SubSeq(Names, 1, NumPlayers)
           /\ \A p \in Players : State(p).hand = Count(held[p])
    BY DEF RecordFollowsTable
  <2>1. DOMAIN game.rounds = 1..Len(game.rounds)
    <3>1. IsList(game.rounds)  BY DEF RecordInv, IsGame
    <3>. QED  BY <3>1, AppendList
  <2>2. ASSUME NEW i \in 1..Len(game.rounds)  PROVE DOMAIN game.rounds[i].last.players = Players
    BY DEF RecordInv, IsGame, IsRound, IsState
  <2>. QED  BY <2>1, <2>2 DEF HeldInv
<1>. QED  BY <1>1, <1>2, <1>3, PTL DEF Spec

-----------------------------------------------------------------------------
(* The melds of a player: those of the log's codes, and besides them the   *)
(* pons that became kans, which the record keeps.                          *)

\* Of the tiles of a pon or a kan all are of its kind or red, and some are of its kind.
Shows(y, k) == k \in Range(y.tiles) /\ \A c \in Range(y.tiles) : c = k \/ c \in 34..36

LEMMA CopyTile ==
  ASSUME NEW k \in Kinds, NEW j \in 0..3, NEW id, id = 4 * k + j
  PROVE  /\ to_tile(id) = k \/ to_tile(id) \in 34..36
         /\ j \in {2, 3} => to_tile(id) = k
<1>1. k \in 0..33  BY DEF Kinds
<1>2. id \div 4 = k  BY <1>1
<1>3. j \in {2, 3} => id # 16 /\ id # 52 /\ id # 88  BY <1>1
<1>4. to_tile(id) = IF id = 16 THEN 34 ELSE IF id = 52 THEN 35 ELSE IF id = 88 THEN 36 ELSE id \div 4
  BY DEF to_tile, RedManzu5, RedPinzu5, RedSouzu5
<1>. QED  BY <1>2, <1>3, <1>4

LEMMA PonShows ==
  ASSUME NEW k \in Kinds, NEW y, PonMeld(y, k)
  PROVE  y.type = "Pon" /\ Shows(y, k) /\ \A c \in Range(y.tiles) : \E j \in 0..3 : c = to_tile(4 * k + j)
<1>1. PICK u \in Nths : \E called, from : y = MeldOf("Pon", PonIds(k, u), called, from)  BY Zenon DEF PonMeld
<1>2. PICK ids : ids = PonIds(k, u)  OBVIOUS
<1>3. y.type = "Pon" /\ y.tiles = to_tiles(ids)  BY <1>1, <1>2 DEF MeldOf
<1>4. u \in 0..3 /\ k \in Nat  BY DEF Nths, Kinds
<1>5. ids = [i \in 1..3 |-> 4 * k + (IF i <= u THEN i - 1 ELSE i)]  BY <1>2, Zenon DEF PonIds
<1>6. y.tiles = [i \in 1..3 |-> to_tile(ids[i])]
  <2>1. DOMAIN ids = 1..3  BY <1>5
  <2>. QED  BY <1>3, <2>1 DEF to_tiles
<1>7. ASSUME NEW i \in 1..3  PROVE \E j \in 0..3 : ids[i] = 4 * k + j /\ (i = 3 => j \in {2, 3})
  <2>1. PICK j : j = IF i <= u THEN i - 1 ELSE i  OBVIOUS
  <2>2. j \in 0..3 /\ ids[i] = 4 * k + j /\ (i = 3 => j \in {2, 3})  BY <1>4, <1>5, <2>1
  <2>. QED  BY <2>2
<1>8. Range(y.tiles) = {to_tile(ids[i]) : i \in 1..3}  BY <1>6 DEF Range
<1>9. ASSUME NEW c \in Range(y.tiles)
      PROVE  (c = k \/ c \in 34..36) /\ \E j \in 0..3 : c = to_tile(4 * k + j)
  <2>1. PICK i \in 1..3 : c = to_tile(ids[i])  BY <1>8
  <2>2. PICK j \in 0..3 : ids[i] = 4 * k + j  BY <1>7
  <2>3. c = k \/ c \in 34..36  BY <2>1, <2>2, CopyTile
  <2>4. c = to_tile(4 * k + j)  BY <2>1, <2>2, Zenon
  <2>. QED  BY <2>3, <2>4
<1>10. k \in Range(y.tiles)
  <2>1. PICK i \in 1..3 : i = 3  OBVIOUS
  <2>2. PICK j \in 0..3 : ids[i] = 4 * k + j /\ j \in {2, 3}  BY <1>7, <2>1
  <2>3. to_tile(ids[i]) = k  BY <2>2, CopyTile
  <2>. QED  BY <1>8, <2>3
<1>. QED  BY <1>3, <1>9, <1>10, Zenon DEF Shows

LEMMA KanShows ==
  ASSUME NEW k \in Kinds, NEW y, KanMeld(y, k)
  PROVE  y.type = "Kakan" /\ Shows(y, k) /\ \A j \in 0..3 : to_tile(4 * k + j) \in Range(y.tiles)
<1>1. PICK ids : ids = FourFrom(4 * k)  OBVIOUS
<1>2. y.type = "Kakan" /\ y.tiles = to_tiles(ids)
  <2>1. PICK called, from : y = MeldOf("Kakan", ids, called, from)  BY <1>1, Zenon DEF KanMeld
  <2>. QED  BY <2>1 DEF MeldOf
<1>3. PICK b \in Nat : b = 4 * k  BY DEF Kinds
<1>4. ids \in [1..4 -> Int] /\ \A j \in 0..3 : ids[j + 1] = b + j
  BY <1>1, <1>3, FourAre
<1>5. y.tiles = [i \in 1..4 |-> to_tile(ids[i])]
  <2>1. DOMAIN ids = 1..4  BY <1>4
  <2>. QED  BY <1>2, <2>1 DEF to_tiles
<1>6. Range(y.tiles) = {to_tile(ids[i]) : i \in 1..4}  BY <1>5 DEF Range
<1>7. ASSUME NEW j \in 0..3  PROVE to_tile(b + j) \in Range(y.tiles)
  <2>1. PICK i : i = j + 1  OBVIOUS
  <2>2. i \in 1..4 /\ ids[i] = b + j  BY <1>4, <2>1
  <2>. QED  BY <1>6, <2>2
<1>8. ASSUME NEW c \in Range(y.tiles)  PROVE c = k \/ c \in 34..36
  <2>1. PICK i \in 1..4 : c = to_tile(ids[i])  BY <1>6
  <2>2. PICK j : j = i - 1  OBVIOUS
  <2>3. j \in 0..3 /\ i = j + 1  BY <2>2
  <2>4. ids[i] = 4 * k + j  BY <1>3, <1>4, <2>3
  <2>. QED  BY <2>1, <2>3, <2>4, CopyTile
<1>9. k \in Range(y.tiles)
  <2>1. PICK j \in 0..3 : j = 3  OBVIOUS
  <2>2. to_tile(b + j) = k
    <3>1. b + j = 4 * k + j /\ j \in {2, 3}  BY <1>3, <2>1
    <3>. QED  BY <3>1, CopyTile
  <2>. QED  BY <1>7, <2>2
<1>. QED  BY <1>2, <1>3, <1>7, <1>8, <1>9, Zenon DEF Shows

LEMMA ShowsOne ==
  ASSUME NEW k \in Kinds, NEW l \in Kinds, NEW x, NEW y, Shows(x, k), Shows(y, l),
         Range(x.tiles) \subseteq Range(y.tiles)
  PROVE  k = l
<1>1. k \in 0..33  BY DEF Kinds
<1>2. k = l \/ k \in 34..36  BY DEF Shows
<1>. QED  BY <1>1, <1>2

LEMMA PonInKan ==
  ASSUME NEW k \in Kinds, NEW x, PonMeld(x, k), NEW y, KanMeld(y, k)
  PROVE  Range(x.tiles) \subseteq Range(y.tiles)
<1>1. \A c \in Range(x.tiles) : \E j \in 0..3 : c = to_tile(4 * k + j)  BY PonShows
<1>2. \A j \in 0..3 : to_tile(4 * k + j) \in Range(y.tiles)  BY KanShows
<1>. QED  BY <1>1, <1>2, Zenon

Extended(M) ==
  {x \in M : x.type = "Pon" /\ \E y \in M : y.type = "Kakan" /\ Range(x.tiles) \subseteq Range(y.tiles)}
Left(M) == M \ Extended(M)
Shaped(x) == x.type \in {"Chi", "Ankan", "Daiminkan"} \/ \E k \in Kinds : PonMeld(x, k) \/ KanMeld(x, k)

LEMMA ShapedIs ==
  ASSUME NEW x, Shaped(x)
  PROVE  /\ x.type = "Pon" => \E k \in Kinds : PonMeld(x, k)
         /\ x.type = "Kakan" => \E k \in Kinds : KanMeld(x, k)
<1>1. CASE x.type \in {"Chi", "Ankan", "Daiminkan"}  BY <1>1
<1>2. ASSUME NEW k \in Kinds, PonMeld(x, k) \/ KanMeld(x, k)
      PROVE  /\ x.type = "Pon" => \E l \in Kinds : PonMeld(x, l)
             /\ x.type = "Kakan" => \E l \in Kinds : KanMeld(x, l)
  <2>1. CASE PonMeld(x, k)
    <3>1. x.type = "Pon"  BY <2>1, PonShows
    <3>. QED  BY <2>1, <3>1
  <2>2. CASE KanMeld(x, k)
    <3>1. x.type = "Kakan"  BY <2>2, KanShows
    <3>. QED  BY <2>2, <3>1
  <2>. QED  BY <1>2, <2>1, <2>2
<1>. QED  BY <1>1, <1>2, Zenon DEF Shaped

LEMMA LeftPlain ==
  ASSUME NEW M, NEW x, x.type \in {"Chi", "Ankan", "Daiminkan"}
  PROVE  Left(M \cup {x}) = Left(M) \cup {x}
<1>1. x.type # "Pon" /\ x.type # "Kakan"  OBVIOUS
<1>2. Extended(M \cup {x}) = Extended(M)  BY <1>1, Zenon DEF Extended
<1>3. x \notin Extended(M)  BY <1>1, Zenon DEF Extended
<1>. QED  BY <1>2, <1>3 DEF Left

LEMMA LeftPon ==
  ASSUME NEW M, \A y \in M : Shaped(y), NEW k \in Kinds, NEW x, PonMeld(x, k),
         ~ \E y \in Left(M) : KanMeld(y, k)
  PROVE  Left(M \cup {x}) = Left(M) \cup {x}
<1>1. x.type = "Pon" /\ Shows(x, k)  BY PonShows
<1>2. x.type # "Kakan"  BY <1>1
<1>3. ASSUME NEW y \in M \cup {x}, y.type = "Kakan", Range(x.tiles) \subseteq Range(y.tiles)  PROVE FALSE
  <2>1. y \in M /\ Shaped(y)  BY <1>2, <1>3
  <2>2. PICK l \in Kinds : KanMeld(y, l)  BY <1>3, <2>1, ShapedIs
  <2>3. Shows(y, l)  BY <2>2, KanShows
  <2>4. k = l  BY <1>1, <1>3, <2>3, ShowsOne
  <2>5. y \notin Extended(M)
    <3>1. y.type # "Pon"  BY <1>3
    <3>. QED  BY <3>1, Zenon DEF Extended
  <2>6. y \in Left(M)  BY <2>1, <2>5 DEF Left
  <2>. QED  BY <2>2, <2>4, <2>6
<1>4. x \notin Extended(M \cup {x})  BY <1>3, Zenon DEF Extended
<1>5. \A z \in M : z \in Extended(M \cup {x}) <=> z \in Extended(M)  BY <1>2, Zenon DEF Extended
<1>6. x \in M => x \notin Extended(M)  BY <1>4, <1>5
<1>. QED  BY <1>4, <1>5, <1>6 DEF Left

LEMMA LeftKan ==
  ASSUME NEW M, \A y \in M : Shaped(y), NEW k \in Kinds, NEW x, KanMeld(x, k)
  PROVE  Left(M \cup {x}) = {y \in Left(M) : ~PonMeld(y, k)} \cup {x}
<1>1. x.type = "Kakan" /\ Shows(x, k)  BY KanShows
<1>2. x.type # "Pon"  BY <1>1
<1>3. x \notin Extended(M \cup {x}) /\ x \notin Extended(M)  BY <1>2, Zenon DEF Extended
<1>4. ASSUME NEW z \in M
      PROVE  z \in Extended(M \cup {x}) <=> z \in Extended(M) \/ PonMeld(z, k)
  <2>1. z \in Extended(M \cup {x})
          <=> z \in Extended(M) \/ (z.type = "Pon" /\ Range(z.tiles) \subseteq Range(x.tiles))
    BY <1>1, <1>4, Zenon DEF Extended
  <2>2. ASSUME z.type = "Pon", Range(z.tiles) \subseteq Range(x.tiles)  PROVE PonMeld(z, k)
    <3>1. PICK l \in Kinds : PonMeld(z, l)  BY <1>4, <2>2, ShapedIs
    <3>2. Shows(z, l)  BY <3>1, PonShows
    <3>3. l = k  BY <1>1, <2>2, <3>2, ShowsOne
    <3>. QED  BY <3>1, <3>3
  <2>3. ASSUME PonMeld(z, k)  PROVE z.type = "Pon" /\ Range(z.tiles) \subseteq Range(x.tiles)
    BY <2>3, PonShows, PonInKan
  <2>. QED  BY <2>1, <2>2, <2>3
<1>5. ~PonMeld(x, k)
  <2>1. ASSUME PonMeld(x, k)  PROVE FALSE  BY <1>2, <2>1, PonShows
  <2>. QED  BY <2>1
<1>. QED  BY <1>3, <1>4, <1>5 DEF Left

-----------------------------------------------------------------------------
(* The codes of a player: the melds they stand for and the nuki in them.   *)

Written(cs) == {decode_meld(cs[i]) : i \in {j \in DOMAIN cs : ~is_nuki(cs[j])}}
NukisIn(cs) == {i \in DOMAIN cs : is_nuki(cs[i])}

LEMMA CodesFinite == ASSUME NEW cs, IsList(cs)  PROVE IsFiniteSet(NukisIn(cs)) /\ Cardinality(NukisIn(cs)) \in Nat
<1>1. DOMAIN cs = 1..Len(cs) /\ Len(cs) \in Nat  BY AppendList
<1>2. IsFiniteSet(DOMAIN cs)  BY <1>1, FS_Interval
<1>3. NukisIn(cs) \subseteq DOMAIN cs  BY DEF NukisIn
<1>. QED  BY <1>2, <1>3, FS_Subset, FS_CardinalityType

LEMMA WrittenAppend ==
  ASSUME NEW cs, IsList(cs), NEW m
  PROVE  /\ is_nuki(m) => /\ Written(Append(cs, m)) = Written(cs)
                          /\ Cardinality(NukisIn(Append(cs, m))) = Cardinality(NukisIn(cs)) + 1
         /\ ~is_nuki(m) => /\ Written(Append(cs, m)) = Written(cs) \cup {decode_meld(m)}
                           /\ NukisIn(Append(cs, m)) = NukisIn(cs)
<1>1. PICK n, t : n = Len(cs) /\ t = Append(cs, m)  OBVIOUS
<1>2. /\ n \in Nat /\ DOMAIN cs = 1..n /\ DOMAIN t = 1..(n + 1)
      /\ t[n + 1] = m /\ \A i \in 1..n : t[i] = cs[i]
  <2>1. DOMAIN Append(cs, m) = 1..Len(cs) + 1  BY AppendList
  <2>. QED  BY <1>1, <2>1, AppendList
<1>3. 1..(n + 1) = (1..n) \cup {n + 1} /\ n + 1 \notin 1..n  BY <1>2
<1>4. IsFiniteSet(NukisIn(cs)) /\ Cardinality(NukisIn(cs)) \in Nat  BY CodesFinite
<1>5. NukisIn(t) = IF is_nuki(m) THEN NukisIn(cs) \cup {n + 1} ELSE NukisIn(cs)
  <2>1. ASSUME NEW i  PROVE i \in NukisIn(t) <=> (i \in NukisIn(cs) \/ (is_nuki(m) /\ i = n + 1))
    <3>1. CASE i \in 1..n
      <4>1. i \in 1..(n + 1) /\ i # n + 1 /\ t[i] = cs[i]  BY <1>2, <1>3, <3>1
      <4>. QED  BY <1>2, <3>1, <4>1, Zenon DEF NukisIn
    <3>2. CASE i = n + 1
      <4>1. i \in 1..(n + 1) /\ i \notin 1..n /\ t[i] = m  BY <1>2, <1>3, <3>2
      <4>. QED  BY <1>2, <3>2, <4>1, Zenon DEF NukisIn
    <3>3. CASE i \notin 1..n /\ i # n + 1
      <4>1. i \notin 1..(n + 1)  BY <1>3, <3>3
      <4>. QED  BY <1>2, <3>3, <4>1, Zenon DEF NukisIn
    <3>. QED  BY <3>1, <3>2, <3>3
  <2>. QED  BY <2>1
<1>6. n + 1 \notin NukisIn(cs)  BY <1>2, <1>3 DEF NukisIn
<1>7. Cardinality(NukisIn(cs) \cup {n + 1}) = Cardinality(NukisIn(cs)) + 1  BY <1>4, <1>6, FS_AddElement
<1>8. ASSUME NEW y  PROVE y \in Written(t) <=> (y \in Written(cs) \/ (~is_nuki(m) /\ y = decode_meld(m)))
  <2>1. y \in Written(t) <=> \E i \in 1..(n + 1) : ~is_nuki(t[i]) /\ y = decode_meld(t[i])
    BY <1>2, Zenon DEF Written
  <2>2. y \in Written(cs) <=> \E i \in 1..n : ~is_nuki(cs[i]) /\ y = decode_meld(cs[i])
    BY <1>2, Zenon DEF Written
  <2>3. (\E i \in 1..(n + 1) : ~is_nuki(t[i]) /\ y = decode_meld(t[i]))
          <=> \/ \E i \in 1..n : ~is_nuki(t[i]) /\ y = decode_meld(t[i])
              \/ ~is_nuki(t[n + 1]) /\ y = decode_meld(t[n + 1])
    BY <1>3, Zenon
  <2>4. (\E i \in 1..n : ~is_nuki(t[i]) /\ y = decode_meld(t[i])) <=> y \in Written(cs)
    BY <1>2, <2>2, Zenon
  <2>. QED  BY <1>2, <2>1, <2>3, <2>4, Zenon
<1>9. is_nuki(m) => Written(t) = Written(cs)  BY <1>8
<1>10. ~is_nuki(m) => Written(t) = Written(cs) \cup {decode_meld(m)}
  <2>1. PICK d : d = decode_meld(m)  OBVIOUS
  <2>. QED  BY <1>8, <2>1
<1>. QED  BY <1>1, <1>5, <1>7, <1>9, <1>10, Zenon

\* No code but the i-th is that of a pon of the kind.
OnlyPon(cs, i, k) == \A j \in DOMAIN cs : j # i /\ ~is_nuki(cs[j]) => ~PonMeld(decode_meld(cs[j]), k)

\* The pon of the kind gives way to the meld x.
GivesWay(cs, t, k, x) == /\ Written(t) = {y \in Written(cs) : ~PonMeld(y, k)} \cup {x}
                         /\ NukisIn(t) = NukisIn(cs)

LEMMA WrittenReplaced ==
  ASSUME NEW cs, IsList(cs), NEW m, NEW i \in DOMAIN cs, NEW k, IsPonOf(cs[i], k), IsKanOf(m, k),
         ~PonMeld(decode_meld(m), k), OnlyPon(cs, i, k)
  PROVE  GivesWay(cs, [cs EXCEPT ![i] = m], k, decode_meld(m))
<1>1. PICK t : t = [cs EXCEPT ![i] = m]  OBVIOUS
<1>2. PICK D : D = DOMAIN cs  OBVIOUS
<1>3. DOMAIN t = D /\ t[i] = m /\ \A j \in D : j # i => t[j] = cs[j]  BY <1>1, <1>2
<1>4. ~is_nuki(cs[i]) /\ ~is_nuki(m) /\ PonMeld(decode_meld(cs[i]), k)  BY Zenon DEF IsPonOf, IsKanOf
<1>5. NukisIn(t) = NukisIn(cs)
  <2>1. \A j \in D : is_nuki(t[j]) <=> is_nuki(cs[j])  BY <1>2, <1>3, <1>4, Zenon
  <2>. QED  BY <1>2, <1>3, <2>1, Zenon DEF NukisIn
<1>6. ASSUME NEW y  PROVE y \in Written(t) <=> ((y \in Written(cs) /\ ~PonMeld(y, k)) \/ y = decode_meld(m))
  <2>1. y \in Written(t) <=> \E j \in D : ~is_nuki(t[j]) /\ y = decode_meld(t[j])
    BY <1>3, Zenon DEF Written
  <2>2. y \in Written(cs) <=> \E j \in D : ~is_nuki(cs[j]) /\ y = decode_meld(cs[j])
    BY <1>2, Zenon DEF Written
  <2>3. ASSUME y \in Written(t)  PROVE (y \in Written(cs) /\ ~PonMeld(y, k)) \/ y = decode_meld(m)
    <3>1. PICK j \in D : ~is_nuki(t[j]) /\ y = decode_meld(t[j])  BY <2>1, <2>3
    <3>2. CASE j = i  BY <1>3, <3>1, <3>2, Zenon
    <3>3. CASE j # i
      <4>1. t[j] = cs[j]  BY <1>3, <3>3
      <4>2. ~is_nuki(cs[j]) /\ y = decode_meld(cs[j])  BY <3>1, <4>1, Zenon
      <4>3. ~PonMeld(y, k)  BY <1>2, <3>3, <4>2, Zenon DEF OnlyPon
      <4>. QED  BY <2>2, <4>2, <4>3, Zenon
    <3>. QED  BY <3>2, <3>3
  <2>4. ASSUME y \in Written(cs), ~PonMeld(y, k)  PROVE y \in Written(t)
    <3>1. PICK j \in D : ~is_nuki(cs[j]) /\ y = decode_meld(cs[j])  BY <2>2, <2>4
    <3>2. j # i  BY <1>4, <2>4, <3>1, Zenon
    <3>3. t[j] = cs[j]  BY <1>3, <3>2
    <3>. QED  BY <2>1, <3>1, <3>3, Zenon
  <2>5. ASSUME y = decode_meld(m)  PROVE y \in Written(t)
    <3>1. i \in D  BY <1>2
    <3>. QED  BY <1>3, <1>4, <2>1, <2>5, <3>1, Zenon
  <2>. QED  BY <2>3, <2>4, <2>5, Zenon
<1>7. Written(t) = {y \in Written(cs) : ~PonMeld(y, k)} \cup {decode_meld(m)}
  <2>1. PICK d : d = decode_meld(m)  OBVIOUS
  <2>. QED  BY <1>6, <2>1
<1>. QED  BY <1>1, <1>5, <1>7, Zenon DEF GivesWay

\* The melds ms and the number n of nuki of a player whose codes are cs.
Fits(ms, n, cs) ==
  /\ IsList(ms) /\ \A y \in Range(ms) : Shaped(y)
  /\ Left(Range(ms)) = Written(cs)
  /\ n = Cardinality(NukisIn(cs))

LEMMA RangeAppend ==
  ASSUME NEW s, IsList(s), NEW x
  PROVE  Range(Append(s, x)) = Range(s) \cup {x}
<1>1. PICK n, t : n = Len(s) /\ t = Append(s, x)  OBVIOUS
<1>2. /\ n \in Nat /\ DOMAIN s = 1..n /\ DOMAIN t = 1..(n + 1)
      /\ t[n + 1] = x /\ \A i \in 1..n : t[i] = s[i]
  <2>1. DOMAIN Append(s, x) = 1..Len(s) + 1  BY AppendList
  <2>. QED  BY <1>1, <2>1, AppendList
<1>3. 1..(n + 1) = (1..n) \cup {n + 1}  BY <1>2
<1>4. Range(t) = {t[i] : i \in 1..(n + 1)} /\ Range(s) = {s[i] : i \in 1..n}  BY <1>2, Zenon DEF Range
<1>. QED  BY <1>1, <1>2, <1>3, <1>4

LEMMA FitsPlain ==
  ASSUME NEW ms, NEW n, NEW cs, IsList(cs), Fits(ms, n, cs), NEW m, Plain(m)
  PROVE  Fits(Append(ms, decode_meld(m)), n, Append(cs, m))
<1>1. PICK x : x = decode_meld(m)  OBVIOUS
<1>2. ~is_nuki(m) /\ x.type \in {"Chi", "Ankan", "Daiminkan"}  BY <1>1 DEF Plain
<1>3. IsList(ms) /\ (\A y \in Range(ms) : Shaped(y)) /\ Left(Range(ms)) = Written(cs)  BY Zenon DEF Fits
<1>4. IsList(Append(ms, x)) /\ Range(Append(ms, x)) = Range(ms) \cup {x}  BY <1>3, AppendList, RangeAppend
<1>5. Shaped(x)  BY <1>2, Zenon DEF Shaped
<1>6. \A y \in Range(Append(ms, x)) : Shaped(y)  BY <1>3, <1>4, <1>5
<1>7. Left(Range(Append(ms, x))) = Written(cs) \cup {x}  BY <1>2, <1>3, <1>4, LeftPlain
<1>8. Written(Append(cs, m)) = Written(cs) \cup {x} /\ NukisIn(Append(cs, m)) = NukisIn(cs)
  BY <1>1, <1>2, WrittenAppend
<1>. QED  BY <1>1, <1>4, <1>6, <1>7, <1>8, Zenon DEF Fits

LEMMA FitsNuki ==
  ASSUME NEW ms, NEW n, NEW cs, IsList(cs), Fits(ms, n, cs), NEW m, is_nuki(m)
  PROVE  Fits(ms, n + 1, Append(cs, m))
BY WrittenAppend DEF Fits

LEMMA FitsPon ==
  ASSUME NEW ms, NEW n, NEW cs, IsList(cs), Fits(ms, n, cs), NEW m, NEW k \in Kinds, IsPonOf(m, k),
         ~ \E y \in Written(cs) : KanMeld(y, k)
  PROVE  Fits(Append(ms, decode_meld(m)), n, Append(cs, m))
<1>1. PICK x : x = decode_meld(m)  OBVIOUS
<1>2. ~is_nuki(m) /\ PonMeld(x, k)  BY <1>1, Zenon DEF IsPonOf
<1>3. IsList(ms) /\ (\A y \in Range(ms) : Shaped(y)) /\ Left(Range(ms)) = Written(cs)  BY Zenon DEF Fits
<1>4. IsList(Append(ms, x)) /\ Range(Append(ms, x)) = Range(ms) \cup {x}  BY <1>3, AppendList, RangeAppend
<1>5. Shaped(x)  BY <1>2, Zenon DEF Shaped
<1>6. \A y \in Range(Append(ms, x)) : Shaped(y)  BY <1>3, <1>4, <1>5
<1>7. Left(Range(Append(ms, x))) = Written(cs) \cup {x}
  <2>1. PICK M : M = Range(ms)  OBVIOUS
  <2>2. \A y \in M : Shaped(y)  BY <1>3, <2>1
  <2>3. ~ \E y \in Left(M) : KanMeld(y, k)  BY <1>3, <2>1
  <2>4. Left(M \cup {x}) = Left(M) \cup {x}  BY <1>2, <2>2, <2>3, LeftPon
  <2>. QED  BY <1>3, <1>4, <2>1, <2>4
<1>8. Written(Append(cs, m)) = Written(cs) \cup {x} /\ NukisIn(Append(cs, m)) = NukisIn(cs)
  BY <1>1, <1>2, WrittenAppend
<1>. QED  BY <1>1, <1>4, <1>6, <1>7, <1>8, Zenon DEF Fits

LEMMA FitsKan ==
  ASSUME NEW ms, NEW n, NEW cs, IsList(cs), Fits(ms, n, cs), NEW m, NEW i \in DOMAIN cs, NEW k \in Kinds,
         IsPonOf(cs[i], k), IsKanOf(m, k), OnlyPon(cs, i, k)
  PROVE  Fits(Append(ms, decode_meld(m)), n, [cs EXCEPT ![i] = m])
<1>1. PICK x : x = decode_meld(m)  OBVIOUS
<1>2. KanMeld(x, k)  BY <1>1, Zenon DEF IsKanOf
<1>3. IsList(ms) /\ (\A y \in Range(ms) : Shaped(y)) /\ Left(Range(ms)) = Written(cs)  BY Zenon DEF Fits
<1>4. IsList(Append(ms, x)) /\ Range(Append(ms, x)) = Range(ms) \cup {x}  BY <1>3, AppendList, RangeAppend
<1>5. Shaped(x)  BY <1>2, Zenon DEF Shaped
<1>6. \A y \in Range(Append(ms, x)) : Shaped(y)  BY <1>3, <1>4, <1>5
<1>7. Left(Range(Append(ms, x))) = {y \in Written(cs) : ~PonMeld(y, k)} \cup {x}
  <2>1. PICK M : M = Range(ms)  OBVIOUS
  <2>2. \A y \in M : Shaped(y)  BY <1>3, <2>1
  <2>3. Left(M \cup {x}) = {y \in Left(M) : ~PonMeld(y, k)} \cup {x}  BY <1>2, <2>2, LeftKan
  <2>. QED  BY <1>3, <1>4, <2>1, <2>3, Zenon
<1>8. ~PonMeld(x, k)
  <2>1. ASSUME PonMeld(x, k)  PROVE FALSE
    <3>1. x.type = "Pon" /\ x.type = "Kakan"  BY <1>2, <2>1, PonShows, KanShows
    <3>. QED  BY <3>1
  <2>. QED  BY <2>1
<1>9. GivesWay(cs, [cs EXCEPT ![i] = m], k, x)
  <2>1. ~PonMeld(decode_meld(m), k)  BY <1>1, <1>8, Zenon
  <2>2. GivesWay(cs, [cs EXCEPT ![i] = m], k, decode_meld(m))  BY <2>1, WrittenReplaced, Zenon
  <2>. QED  BY <1>1, <2>2, Zenon
<1>. QED  BY <1>1, <1>4, <1>6, <1>7, <1>9, Zenon DEF Fits, GivesWay

-----------------------------------------------------------------------------
(* decode_melds, one code after the other.                                 *)

LEMMA MeldOrNuki == ASSUME NEW v  PROVE decode_meld(v) = NoMeld <=> is_nuki(v)
<1>1. ASSUME NEW type, NEW ids, NEW called, type # "none"  PROVE Meld(type, ids, called, v) # NoMeld
  BY <1>1 DEF Meld, NoMeld
<1>2. "Chi" # "none" /\ "Pon" # "none" /\ "Kakan" # "none" /\ "Ankan" # "none" /\ "Daiminkan" # "none"  OBVIOUS
<1>3. decode_chi(v) # NoMeld  BY <1>1, <1>2, Zenon DEF decode_chi
<1>4. decode_pon(v) # NoMeld  BY <1>1, <1>2, Zenon DEF decode_pon
<1>5. decode_kakan(v) # NoMeld  BY <1>1, <1>2, Zenon DEF decode_kakan
<1>6. decode_kan(v) # NoMeld
  <2>1. CASE Bits(v, 0, 2) = 0  BY <1>1, <1>2, <2>1, Zenon DEF decode_kan
  <2>2. CASE Bits(v, 0, 2) # 0  BY <1>1, <1>2, <2>2, Zenon DEF decode_kan
  <2>. QED  BY <2>1, <2>2
<1>. QED  BY <1>3, <1>4, <1>5, <1>6, Zenon DEF decode_meld

LEMMA FoldCodesDef ==
  ASSUME NEW base, NEW s
  PROVE  FoldLeft(Decoded, base, s)
           = (CHOOSE h : h = [T \in SUBSET (DOMAIN s) |->
                                IF T = {} THEN base ELSE Decoded(h[T \ {Max(T)}], s[Max(T)])])[DOMAIN s]
BY Zenon DEF FoldLeft, MapThenFoldSet

LEMMA CodesSteps ==
  ASSUME NEW s, IsList(s)
  PROVE  \E h : Steps(h, "code", << << >>, 0 >>, s, Len(s)) /\ decode_melds(s) = h[1..Len(s)]
<1>1. PICK n, base : n = Len(s) /\ base = << << >>, 0 >>  OBVIOUS
<1>2. n \in Nat /\ DOMAIN s = 1..n  BY <1>1, AppendList
<1>. DEFINE D(h) == h = [T \in SUBSET (1..n) |-> IF T = {} THEN base ELSE Decoded(h[T \ {Max(T)}], s[Max(T)])]
<1>3. \A acc, x : FoldStep("code", acc, x) = Decoded(acc, x)
  <2>1. "code" # "add" /\ "code" # "event"  OBVIOUS
  <2>. QED  BY <2>1, Zenon DEF FoldStep
<1>4. \A h : D(h) <=> Folds(h, "code", base, s, n)  BY <1>3, Zenon DEF Folds
<1>5. \E h : Folds(h, "code", base, s, n)  BY <1>2, FoldsExist
<1>6. FoldLeft(Decoded, base, s) = (CHOOSE h : D(h))[1..n]
  <2>1. FoldLeft(Decoded, base, s)
           = (CHOOSE h : h = [T \in SUBSET (DOMAIN s) |->
                                IF T = {} THEN base ELSE Decoded(h[T \ {Max(T)}], s[Max(T)])])[DOMAIN s]
    BY FoldCodesDef
  <2>. QED  BY <1>2, <2>1, Zenon
<1>. HIDE DEF D
<1>7. D(CHOOSE h : D(h))  BY <1>4, <1>5, Zenon
<1>8. PICK h : h = CHOOSE g : D(g)  OBVIOUS
<1>9. Folds(h, "code", base, s, n)  BY <1>4, <1>7, <1>8, Zenon
<1>10. Steps(h, "code", base, s, n)  BY <1>2, <1>9, FoldsStep
<1>11. decode_melds(s) = h[1..n]  BY <1>1, <1>6, <1>8, Zenon DEF decode_melds
<1>. QED  BY <1>1, <1>10, <1>11, Zenon

\* The first i codes are read.
WrittenTo(cs, i) == {decode_meld(cs[j]) : j \in {l \in 1..i : ~is_nuki(cs[l])}}
NukisTo(cs, i) == {j \in 1..i : is_nuki(cs[j])}
ReadTo(d, cs, i) ==
  /\ IsList(d[1]) /\ Range(d[1]) = WrittenTo(cs, i)
  /\ d[2] = Cardinality(NukisTo(cs, i))

LEMMA ReadOne ==
  ASSUME NEW cs, NEW i, i \in Nat \ {0}, NEW d, ReadTo(d, cs, i - 1)
  PROVE  ReadTo(Decoded(d, cs[i]), cs, i)
<1>1. PICK m, x : m = cs[i] /\ x = decode_meld(m)  OBVIOUS
<1>2. PICK h : h = i - 1  OBVIOUS
<1>3. h \in Nat /\ 1..i = (1..h) \cup {i} /\ i \notin 1..h  BY <1>2
<1>4. /\ IsList(d[1]) /\ Range(d[1]) = WrittenTo(cs, h)
      /\ d[2] = Cardinality(NukisTo(cs, h))
  BY <1>2, Zenon DEF ReadTo
<1>5. IsFiniteSet(NukisTo(cs, h)) /\ i \notin NukisTo(cs, h)
  <2>1. IsFiniteSet(1..h)  BY <1>3, FS_Interval
  <2>2. NukisTo(cs, h) \subseteq 1..h  BY DEF NukisTo
  <2>. QED  BY <1>3, <2>1, <2>2, FS_Subset
<1>6. CASE is_nuki(m)
  <2>1. Decoded(d, m) = << d[1], d[2] + 1 >>  BY <1>6, MeldOrNuki DEF Decoded
  <2>2. NukisTo(cs, i) = NukisTo(cs, h) \cup {i}
    <3>1. \A j : j \in NukisTo(cs, i) <=> (j \in NukisTo(cs, h) \/ j = i)
      BY <1>1, <1>3, <1>6, Zenon DEF NukisTo
    <3>. QED  BY <3>1
  <2>3. Cardinality(NukisTo(cs, i)) = Cardinality(NukisTo(cs, h)) + 1  BY <1>5, <2>2, FS_AddElement
  <2>4. WrittenTo(cs, i) = WrittenTo(cs, h)
    <3>1. \A y : y \in WrittenTo(cs, i) <=> y \in WrittenTo(cs, h)
      BY <1>1, <1>3, <1>6, Zenon DEF WrittenTo
    <3>. QED  BY <3>1
  <2>5. PICK t : t = Decoded(d, m)  OBVIOUS
  <2>6. t[1] = d[1] /\ t[2] = d[2] + 1  BY <2>1, <2>5
  <2>. QED  BY <1>1, <1>4, <2>3, <2>4, <2>5, <2>6, Zenon DEF ReadTo
<1>7. CASE ~is_nuki(m)
  <2>1. Decoded(d, m) = << Append(d[1], x), d[2] >>  BY <1>1, <1>7, MeldOrNuki DEF Decoded
  <2>2. NukisTo(cs, i) = NukisTo(cs, h)
    <3>1. \A j : j \in NukisTo(cs, i) <=> j \in NukisTo(cs, h)  BY <1>1, <1>3, <1>7, Zenon DEF NukisTo
    <3>. QED  BY <3>1
  <2>3. WrittenTo(cs, i) = WrittenTo(cs, h) \cup {x}
    <3>1. \A y : y \in WrittenTo(cs, i) <=> (y \in WrittenTo(cs, h) \/ y = x)
      BY <1>1, <1>3, <1>7, Zenon DEF WrittenTo
    <3>. QED  BY <3>1
  <2>4. PICK t, s : s = d[1] /\ t = Append(s, x)  OBVIOUS
  <2>5. IsList(t) /\ Range(t) = Range(s) \cup {x}  BY <1>4, <2>4, AppendList, RangeAppend
  <2>6. PICK f : f = Decoded(d, m)  OBVIOUS
  <2>7. f[1] = t /\ f[2] = d[2]  BY <2>1, <2>4, <2>6
  <2>. QED  BY <1>1, <1>4, <2>2, <2>3, <2>4, <2>5, <2>6, <2>7, Zenon DEF ReadTo
<1>. QED  BY <1>6, <1>7

\* A winner's codes are read as the melds they stand for, and the nuki are counted.
LEMMA CodesRead ==
  ASSUME NEW cs, IsList(cs)
  PROVE  /\ Range(decode_melds(cs)[1]) = Written(cs)
         /\ decode_melds(cs)[2] = Cardinality(NukisIn(cs))
<1>1. PICK n, base : n = Len(cs) /\ base = << << >>, 0 >>  OBVIOUS
<1>2. n \in Nat /\ DOMAIN cs = 1..n  BY <1>1, AppendList
<1>3. PICK h : Steps(h, "code", base, cs, n) /\ decode_melds(cs) = h[1..n]  BY <1>1, CodesSteps, Zenon
<1>4. h[1..0] = base /\ \A i \in 1..n : h[1..i] = Decoded(h[1..(i - 1)], cs[i])
  <2>1. h[1..0] = base /\ \A i \in 1..n : h[1..i] = FoldStep("code", h[1..(i - 1)], cs[i])
    BY <1>3, Zenon DEF Steps
  <2>2. "code" # "add" /\ "code" # "event"  OBVIOUS
  <2>. QED  BY <2>1, <2>2, Zenon DEF FoldStep
<1>5. ReadTo(base, cs, 0)
  <2>1. 1..0 = {}  OBVIOUS
  <2>2. WrittenTo(cs, 0) = {} /\ NukisTo(cs, 0) = {}  BY <2>1, Zenon DEF WrittenTo, NukisTo
  <2>3. Cardinality({}) = 0  BY FS_EmptySet
  <2>4. base[1] = << >> /\ base[2] = 0  BY <1>1
  <2>5. Range(<< >>) = {}
    <3>1. PICK e : e = << >>  OBVIOUS
    <3>2. DOMAIN e = {}  BY <3>1
    <3>. QED  BY <3>1, <3>2, Zenon DEF Range
  <2>. QED  BY <2>2, <2>3, <2>4, <2>5, EmptyList, Zenon DEF ReadTo
<1>. DEFINE F == {i \in 0..n : ~ReadTo(h[1..i], cs, i)}
<1>6. F = {}
  <2>1. SUFFICES ASSUME F # {} PROVE FALSE  OBVIOUS
  <2>2. F \in SUBSET Nat  BY <1>2
  <2>3. PICK i \in F : \A m \in F : i <= m
    <3>. HIDE DEF F
    <3>. QED  BY <2>1, <2>2, LeastOf
  <2>4. i \in 0..n /\ ~ReadTo(h[1..i], cs, i)  BY <2>3
  <2>5. i # 0  BY <1>4, <1>5, <2>4
  <2>6. i - 1 \in 0..n /\ ~(i <= i - 1) /\ i \in 1..n /\ i \in Nat \ {0}  BY <1>2, <2>4, <2>5
  <2>7. i - 1 \notin F
    <3>. HIDE DEF F
    <3>. QED  BY <2>3, <2>6
  <2>8. ReadTo(h[1..(i - 1)], cs, i - 1)  BY <2>6, <2>7
  <2>9. ReadTo(Decoded(h[1..(i - 1)], cs[i]), cs, i)  BY <2>6, <2>8, ReadOne, Zenon
  <2>10. h[1..i] = Decoded(h[1..(i - 1)], cs[i])  BY <1>4, <2>6
  <2>. QED  BY <2>4, <2>9, <2>10, Zenon
<1>7. ReadTo(decode_melds(cs), cs, n)
  <2>1. n \in 0..n  BY <1>2
  <2>2. ReadTo(h[1..n], cs, n)  BY <1>6, <2>1
  <2>. QED  BY <1>3, <2>2, Zenon
<1>8. WrittenTo(cs, n) = Written(cs) /\ NukisTo(cs, n) = NukisIn(cs)
  BY <1>2, Zenon DEF WrittenTo, NukisTo, Written, NukisIn
<1>. QED  BY <1>7, <1>8, Zenon DEF ReadTo

-----------------------------------------------------------------------------
(* Of each kind of tile a player calls one pon at most, which one kan can  *)
(* replace: with the tiles of the pon gone, one of the kind is left.       *)

Known(v) == (is_nuki(v) /\ ~PonLike(v)) \/ Plain(v) \/ \E k \in Kinds : OfKind(v, k)
Tidy(cs) == \A i \in DOMAIN cs :
              /\ Known(cs[i])
              /\ \A j \in DOMAIN cs, k \in Kinds : OfKind(cs[i], k) /\ OfKind(cs[j], k) => i = j
Shown(cs) == {k \in Kinds : \E i \in DOMAIN cs : OfKind(cs[i], k)}

LEMMA OfKindIs ==
  ASSUME NEW v, NEW k \in Kinds, OfKind(v, k)
  PROVE  ~is_nuki(v) /\ ~Plain(v) /\ KindOf(v) = k
<1>1. ~is_nuki(v) /\ KindOf(v) = k  BY Zenon DEF OfKind, IsPonOf, IsKanOf
<1>2. decode_meld(v).type \in {"Pon", "Kakan"}
  <2>1. CASE IsPonOf(v, k)
    <3>1. PICK y : y = decode_meld(v)  OBVIOUS
    <3>2. PonMeld(y, k)  BY <2>1, <3>1, Zenon DEF IsPonOf
    <3>3. y.type = "Pon"  BY <3>2, PonShows
    <3>. QED  BY <3>1, <3>3
  <2>2. CASE IsKanOf(v, k)
    <3>1. PICK y : y = decode_meld(v)  OBVIOUS
    <3>2. KanMeld(y, k)  BY <2>2, <3>1, Zenon DEF IsKanOf
    <3>3. y.type = "Kakan"  BY <3>2, KanShows
    <3>. QED  BY <3>1, <3>3
  <2>. QED  BY <2>1, <2>2, Zenon DEF OfKind
<1>3. ~Plain(v)
  <2>1. PICK t : t = decode_meld(v).type  OBVIOUS
  <2>2. t \notin {"Chi", "Ankan", "Daiminkan"}  BY <1>2, <2>1
  <2>. QED  BY <2>1, <2>2, Zenon DEF Plain
<1>. QED  BY <1>1, <1>3

\* What a code of a player stands for shows what the code is.
LEMMA KnownShows ==
  ASSUME NEW v, Known(v), ~is_nuki(v), NEW k \in Kinds, NEW y, y = decode_meld(v)
  PROVE  /\ PonMeld(y, k) => OfKind(v, k)
         /\ KanMeld(y, k) => OfKind(v, k)
<1>1. ASSUME PonMeld(y, k) \/ KanMeld(y, k)  PROVE OfKind(v, k)
  <2>1. Shows(y, k) /\ y.type \in {"Pon", "Kakan"}  BY <1>1, PonShows, KanShows
  <2>2. ~Plain(v)
    <3>1. PICK t : t = y.type  OBVIOUS
    <3>2. t \notin {"Chi", "Ankan", "Daiminkan"}  BY <2>1, <3>1
    <3>. QED  BY <3>1, <3>2, Zenon DEF Plain
  <2>3. PICK l \in Kinds : OfKind(v, l)  BY <2>2, Zenon DEF Known
  <2>4. PonMeld(y, l) \/ KanMeld(y, l)  BY <2>3, Zenon DEF OfKind, IsPonOf, IsKanOf
  <2>5. Shows(y, l)  BY <2>4, PonShows, KanShows
  <2>6. k = l
    <3>1. Range(y.tiles) \subseteq Range(y.tiles)  OBVIOUS
    <3>. QED  BY <2>1, <2>5, <3>1, ShowsOne
  <2>. QED  BY <2>3, <2>6
<1>. QED  BY <1>1

LEMMA TidyAppend ==
  ASSUME NEW cs, IsList(cs), Tidy(cs), NEW m, Known(m),
         \A k \in Shown(cs) : ~OfKind(m, k)
  PROVE  /\ Tidy(Append(cs, m))
         /\ \A k \in Shown(Append(cs, m)) : k \in Shown(cs) \/ OfKind(m, k)
<1>1. PICK n, t : n = Len(cs) /\ t = Append(cs, m)  OBVIOUS
<1>2. /\ n \in Nat /\ DOMAIN cs = 1..n /\ DOMAIN t = 1..(n + 1)
      /\ t[n + 1] = m /\ \A i \in 1..n : t[i] = cs[i]
  <2>1. DOMAIN Append(cs, m) = 1..Len(cs) + 1  BY AppendList
  <2>. QED  BY <1>1, <2>1, AppendList
<1>3. 1..(n + 1) = (1..n) \cup {n + 1} /\ n + 1 \notin 1..n  BY <1>2
<1>4. \A i \in 1..n : Known(cs[i]) /\ \A j \in 1..n, k \in Kinds : OfKind(cs[i], k) /\ OfKind(cs[j], k) => i = j
  BY <1>2, Zenon DEF Tidy
<1>5. \A i \in 1..n, k \in Kinds : OfKind(cs[i], k) => ~OfKind(m, k)  BY <1>2, Zenon DEF Shown
<1>6. ASSUME NEW i \in 1..(n + 1)  PROVE Known(t[i])
  BY <1>2, <1>3, <1>4, Zenon
<1>7. ASSUME NEW i \in 1..(n + 1), NEW j \in 1..(n + 1), NEW k \in Kinds, OfKind(t[i], k), OfKind(t[j], k)
      PROVE  i = j
  <2>1. CASE i \in 1..n /\ j \in 1..n
    <3>1. OfKind(cs[i], k) /\ OfKind(cs[j], k)  BY <1>2, <1>7, <2>1, Zenon
    <3>. QED  BY <1>4, <2>1, <3>1, Zenon
  <2>2. CASE i \in 1..n /\ j = n + 1
    <3>1. OfKind(cs[i], k) /\ OfKind(m, k)  BY <1>2, <1>7, <2>2, Zenon
    <3>. QED  BY <1>5, <2>2, <3>1, Zenon
  <2>3. CASE i = n + 1 /\ j \in 1..n
    <3>1. OfKind(cs[j], k) /\ OfKind(m, k)  BY <1>2, <1>7, <2>3, Zenon
    <3>. QED  BY <1>5, <2>3, <3>1, Zenon
  <2>. QED  BY <1>3, <2>1, <2>2, <2>3
<1>8. Tidy(t)  BY <1>2, <1>6, <1>7, Zenon DEF Tidy
<1>9. ASSUME NEW k \in Shown(t)  PROVE k \in Shown(cs) \/ OfKind(m, k)
  <2>1. PICK i \in 1..(n + 1) : OfKind(t[i], k)  BY <1>2, Zenon DEF Shown
  <2>2. k \in Kinds  BY Zenon DEF Shown
  <2>3. CASE i \in 1..n
    <3>1. OfKind(cs[i], k)  BY <1>2, <2>1, <2>3, Zenon
    <3>. QED  BY <1>2, <2>2, <2>3, <3>1, Zenon DEF Shown
  <2>4. CASE i = n + 1  BY <1>2, <2>1, <2>4, Zenon
  <2>. QED  BY <1>3, <2>3, <2>4
<1>. QED  BY <1>1, <1>8, <1>9, Zenon

LEMMA TidyReplaced ==
  ASSUME NEW cs, Tidy(cs), NEW m, NEW i \in DOMAIN cs, NEW k \in Kinds, OfKind(cs[i], k), OfKind(m, k)
  PROVE  /\ Tidy([cs EXCEPT ![i] = m])
         /\ \A l \in Shown([cs EXCEPT ![i] = m]) : l \in Shown(cs)
<1>1. PICK D, t : D = DOMAIN cs /\ t = [cs EXCEPT ![i] = m]  OBVIOUS
<1>2. DOMAIN t = D /\ t[i] = m /\ \A j \in D : j # i => t[j] = cs[j]  BY <1>1
<1>3. \A j \in D : Known(cs[j]) /\ \A a \in D, l \in Kinds : OfKind(cs[j], l) /\ OfKind(cs[a], l) => j = a
  BY <1>1, Zenon DEF Tidy
<1>4. \A j \in D, l \in Kinds : OfKind(t[j], l) => OfKind(cs[j], l)
  <2>. SUFFICES ASSUME NEW j \in D, NEW l \in Kinds, OfKind(t[j], l)  PROVE OfKind(cs[j], l)  OBVIOUS
  <2>1. CASE j = i
    <3>1. OfKind(m, l)  BY <1>2, <2>1, Zenon
    <3>2. l = k  BY <3>1, OfKindIs
    <3>. QED  BY <2>1, <3>2, Zenon
  <2>2. CASE j # i
    <3>1. t[j] = cs[j]  BY <1>2, <2>2
    <3>. QED  BY <3>1, Zenon
  <2>. QED  BY <2>1, <2>2
<1>5. \A j \in D : Known(t[j])
  <2>. SUFFICES ASSUME NEW j \in D  PROVE Known(t[j])  OBVIOUS
  <2>1. CASE j = i
    <3>1. Known(m)  BY Zenon DEF Known
    <3>. QED  BY <1>2, <2>1, <3>1, Zenon
  <2>2. CASE j # i
    <3>1. t[j] = cs[j]  BY <1>2, <2>2
    <3>. QED  BY <1>3, <3>1, Zenon
  <2>. QED  BY <2>1, <2>2
<1>6. Tidy(t)
  <2>1. \A j \in D, a \in D, l \in Kinds : OfKind(t[j], l) /\ OfKind(t[a], l) => j = a  BY <1>3, <1>4, Zenon
  <2>. QED  BY <1>2, <1>5, <2>1, Zenon DEF Tidy
<1>7. \A l \in Shown(t) : l \in Shown(cs)  BY <1>1, <1>2, <1>4, Zenon DEF Shown
<1>. QED  BY <1>1, <1>6, <1>7, Zenon

\* At most one tile of the kind can still be drawn, discarded or called.
OneLeft(k) == \A x, y \in Copies(k) \cap Ids : Live(x) /\ Live(y) => x = y

KindsInv == \A p \in Players : Tidy(codes[p]) /\ \A k \in Shown(codes[p]) : OneLeft(k)

LEMMA LeftStays == ASSUME NoneReturns, NEW k, OneLeft(k)  PROVE OneLeft(k)'
BY Zenon DEF NoneReturns, OneLeft, Copies

LEMMA CodesList == ASSUME TableInv, NEW p \in Players  PROVE IsList(codes[p])
<1>1. codes[p] \in Seq(Int)  BY DEF TableInv
<1>. QED  BY <1>1 DEF IsList

\* A pon is of a kind not called before, and of that kind one tile is left.
LEMMA PonSpends ==
  ASSUME TableInv, TilesInv, KindsInv, NEW p \in Players, NEW k, k = Kind(tile),
         NEW T \in SUBSET held[p], NEW new, SameSeats, held' = [held EXCEPT ![p] = new],
         tile' = Null, wall' = wall, held'[p] = held[p] \ T, tile \in 0..135,
         \E unused : Copies(Kind(tile)) \subseteq T \cup {tile, unused},
         \E x \in T : x \in Copies(Kind(tile)) /\ x # tile
  PROVE  k \in Kinds /\ k \notin Shown(codes[p]) /\ OneLeft(k)'
<1>1. PICK c : k = Kind(tile) /\ c = tile  OBVIOUS
<1>2. k \in Kinds /\ c \in Copies(k)  BY <1>1, KindIs
<1>3. c \in Ids /\ Null \notin Ids
  <2>1. tile \in Ids \cup {Null}  BY DEF TilesInv
  <2>2. tile # Null  BY DEF Null
  <2>. QED  BY <1>1, <2>1, <2>2, IdsAre
<1>4. held[p] \subseteq Ids  BY DEF TilesInv
<1>5. k \notin Shown(codes[p])
  <2>1. SUFFICES ASSUME k \in Shown(codes[p])  PROVE FALSE  OBVIOUS
  <2>2. OneLeft(k)  BY <2>1, Zenon DEF KindsInv
  <2>3. PICK x \in T : x \in Copies(k) /\ x # c  BY <1>1
  <2>4. x \in Ids /\ x \in held[p]  BY <1>4, <2>3
  <2>5. Live(x)  BY <2>4, Zenon DEF Live
  <2>6. Live(c)  BY <1>1, Zenon DEF Live
  <2>. QED  BY <1>2, <1>3, <2>2, <2>3, <2>4, <2>5, <2>6, Zenon DEF OneLeft
<1>6. PICK unused : Copies(k) \subseteq T \cup {c, unused}  BY <1>1
<1>7. ASSUME NEW z \in T \cup {c}  PROVE ~Live(z)'
  <2>1. z \in Ids /\ z # Null /\ z \notin Range(wall)
    <3>1. held[p] \cap Range(wall) = {} /\ tile \notin Range(wall)  BY DEF TilesInv
    <3>. QED  BY <1>1, <1>3, <1>4, <3>1
  <2>2. wall' = wall /\ tile' = Null /\ Players' = Players  BY DEF SameSeats
  <2>3. ASSUME NEW q \in Players  PROVE z \notin held'[q]
    <3>1. CASE q = p
      <4>1. tile \notin held[p]  BY DEF TilesInv
      <4>. QED  BY <1>1, <3>1, <4>1
    <3>2. CASE q # p
      <4>1. held'[q] = held[q]  BY <3>2 DEF TableInv
      <4>2. held[p] \cap held[q] = {} /\ tile \notin held[q]  BY <3>2 DEF TilesInv
      <4>. QED  BY <1>1, <4>1, <4>2
    <3>. QED  BY <3>1, <3>2
  <2>4. z \notin Range(wall')  BY <2>1, <2>2, Zenon
  <2>5. ~ \E q \in Players' : z \in held'[q]  BY <2>2, <2>3, Zenon
  <2>. QED  BY <2>1, <2>2, <2>4, <2>5, Zenon DEF Live
<1>8. ASSUME NEW x \in Copies(k), NEW y \in Copies(k), Live(x)', Live(y)'  PROVE x = y
  <2>1. x \notin T \cup {c} /\ y \notin T \cup {c}  BY <1>7, <1>8
  <2>. QED  BY <1>6, <2>1
<1>9. OneLeft(k)'  BY <1>8, Zenon DEF OneLeft, Copies
<1>. QED  BY <1>1, <1>2, <1>5, <1>9, Zenon

\* What a call does to the codes, and to the melds of the caller.
CallsTidily(p) ==
  \E new :
    /\ codes' = [codes EXCEPT ![p] = new] /\ IsList(new)
    /\ Tidy(new) /\ \A k \in Shown(new) : k \in Shown(codes[p]) \/ OneLeft(k)'
    /\ \E hand, held1, ms, n :
         /\ Moves(p, held1, hand, ms, n)
         /\ Fits(State(p).melds, State(p).nuki_count, codes[p]) => Fits(ms, n, new)

LEMMA AppendsTidily ==
  ASSUME TableInv, KindsInv, NEW p \in Players, NEW m, Calls(p, m, Append(codes[p], m)), Known(m),
         \A k \in Shown(codes[p]) : ~OfKind(m, k),
         \A k \in Kinds : OfKind(m, k) => OneLeft(k)',
         Fits(State(p).melds, State(p).nuki_count, codes[p])
            => Fits(Melded(State(p), m), Counted(State(p), m), Append(codes[p], m))
  PROVE  CallsTidily(p)
<1>1. PICK cs, new : cs = codes[p] /\ new = Append(cs, m)  OBVIOUS
<1>2. IsList(cs) /\ IsList(new)  BY <1>1, CodesList, AppendList
<1>3. Tidy(cs) /\ \A k \in Shown(cs) : ~OfKind(m, k)  BY <1>1, Zenon DEF KindsInv
<1>4. Tidy(new) /\ \A k \in Shown(new) : k \in Shown(cs) \/ OfKind(m, k)  BY <1>1, <1>2, <1>3, TidyAppend
<1>5. \A k \in Shown(new) : k \in Shown(codes[p]) \/ OneLeft(k)'
  <2>1. \A k \in Shown(new) : k \in Kinds  BY Zenon DEF Shown
  <2>. QED  BY <1>1, <1>4, <2>1, Zenon
<1>6. codes' = [codes EXCEPT ![p] = new]  BY <1>1, Zenon DEF Calls
<1>7. PICK U \in SUBSET held[p] :
         Moves(p, held[p] \ U, Without(State(p).hand, U), Melded(State(p), m), Counted(State(p), m))
  BY Zenon DEF Calls
<1>8. Fits(State(p).melds, State(p).nuki_count, codes[p]) => Fits(Melded(State(p), m), Counted(State(p), m), new)
  BY <1>1, Zenon
<1>. QED  BY <1>2, <1>4, <1>5, <1>6, <1>7, <1>8, Zenon DEF CallsTidily

LEMMA NukiTidily == ASSUME TableInv, KindsInv, NEW p \in Players, AddsNuki(p)  PROVE CallsTidily(p)
<1>1. PICK m : Calls(p, m, Append(codes[p], m)) /\ is_nuki(m) /\ ~PonLike(m)  BY Zenon DEF AddsNuki
<1>2. Known(m) /\ \A k \in Kinds : ~OfKind(m, k)
  <2>1. \A k \in Kinds : ~OfKind(m, k)  BY <1>1, OfKindIs
  <2>. QED  BY <1>1, <2>1, Zenon DEF Known
<1>3. \A k \in Shown(codes[p]) : k \in Kinds  BY Zenon DEF Shown
<1>4. PICK q, cs : q = State(p) /\ cs = codes[p]  OBVIOUS
<1>5. IsList(cs)  BY <1>4, CodesList
<1>6. ASSUME Fits(q.melds, q.nuki_count, cs)  PROVE Fits(Melded(q, m), Counted(q, m), Append(cs, m))
  <2>1. Fits(q.melds, q.nuki_count + 1, Append(cs, m))  BY <1>1, <1>5, <1>6, FitsNuki
  <2>. QED  BY <1>1, <2>1, Zenon DEF Melded, Counted
<1>7. \A k \in Shown(codes[p]) : ~OfKind(m, k)  BY <1>2, <1>3, Zenon
<1>. QED  BY <1>1, <1>2, <1>4, <1>6, <1>7, AppendsTidily, Zenon

LEMMA PlainTidily == ASSUME TableInv, KindsInv, NEW p \in Players, AddsPlain(p)  PROVE CallsTidily(p)
<1>1. PICK m : Calls(p, m, Append(codes[p], m)) /\ Plain(m)  BY Zenon DEF AddsPlain
<1>2. Known(m) /\ \A k \in Kinds : ~OfKind(m, k)
  <2>1. \A k \in Kinds : ~OfKind(m, k)  BY <1>1, OfKindIs
  <2>. QED  BY <1>1, <2>1, Zenon DEF Known
<1>3. \A k \in Shown(codes[p]) : k \in Kinds  BY Zenon DEF Shown
<1>4. PICK q, cs : q = State(p) /\ cs = codes[p]  OBVIOUS
<1>5. IsList(cs)  BY <1>4, CodesList
<1>6. ASSUME Fits(q.melds, q.nuki_count, cs)  PROVE Fits(Melded(q, m), Counted(q, m), Append(cs, m))
  <2>1. Fits(Append(q.melds, decode_meld(m)), q.nuki_count, Append(cs, m))  BY <1>1, <1>5, <1>6, FitsPlain
  <2>2. ~is_nuki(m)  BY <1>1, Zenon DEF Plain
  <2>. QED  BY <2>1, <2>2, Zenon DEF Melded, Counted
<1>7. \A k \in Shown(codes[p]) : ~OfKind(m, k)  BY <1>2, <1>3, Zenon
<1>. QED  BY <1>1, <1>2, <1>4, <1>6, <1>7, AppendsTidily, Zenon

LEMMA PonTidily == ASSUME TableInv, TilesInv, KindsInv, NEW p \in Players, AddsPon(p)  PROVE CallsTidily(p)
<1>1. PICK m \in Nat, T \in SUBSET held[p] :
         /\ Calls(p, m, Append(codes[p], m)) /\ IsPonOf(m, Kind(tile))
         /\ tile' = Null /\ wall' = wall /\ held'[p] = held[p] \ T /\ tile \in 0..135
         /\ \E unused : Copies(Kind(tile)) \subseteq T \cup {tile, unused}
         /\ \E x \in T : x \in Copies(Kind(tile)) /\ x # tile
  BY Zenon DEF AddsPon
<1>2. PICK k : k = Kind(tile)  OBVIOUS
<1>3. PICK U : Moves(p, held[p] \ U, Without(State(p).hand, U), Melded(State(p), m), Counted(State(p), m))
  BY <1>1, Zenon DEF Calls
<1>4. PICK kept : kept = held[p] \ U  OBVIOUS
<1>5. SameSeats /\ held' = [held EXCEPT ![p] = kept]  BY <1>3, <1>4, Zenon DEF Moves
<1>6. k \in Kinds /\ k \notin Shown(codes[p]) /\ OneLeft(k)'  BY <1>1, <1>2, <1>5, PonSpends
<1>7. OneLeft(k)'  BY <1>6
<1>8. OfKind(m, k) /\ Known(m)
  <2>1. OfKind(m, k)  BY <1>1, <1>2, Zenon DEF OfKind
  <2>. QED  BY <1>6, <2>1, Zenon DEF Known
<1>9. \A l \in Kinds : OfKind(m, l) => l = k  BY <1>6, <1>8, OfKindIs
<1>10. \A l \in Shown(codes[p]) : ~OfKind(m, l)
  <2>1. \A l \in Shown(codes[p]) : l \in Kinds  BY Zenon DEF Shown
  <2>. QED  BY <1>6, <1>9, <2>1, Zenon
<1>11. \A l \in Kinds : OfKind(m, l) => OneLeft(l)'  BY <1>7, <1>9, Zenon
<1>12. PICK q, cs : q = State(p) /\ cs = codes[p]  OBVIOUS
<1>13. IsList(cs) /\ Tidy(cs)  BY <1>12, CodesList DEF KindsInv
<1>14. ~ \E y \in Written(cs) : KanMeld(y, k)
  <2>1. SUFFICES ASSUME NEW y \in Written(cs), KanMeld(y, k)  PROVE FALSE  OBVIOUS
  <2>2. PICK i \in DOMAIN cs : ~is_nuki(cs[i]) /\ y = decode_meld(cs[i])  BY Zenon DEF Written
  <2>3. Known(cs[i])  BY <1>13, Zenon DEF Tidy
  <2>4. OfKind(cs[i], k)  BY <1>6, <2>1, <2>2, <2>3, KnownShows
  <2>. QED  BY <1>6, <1>12, <2>4, Zenon DEF Shown
<1>15. ASSUME Fits(q.melds, q.nuki_count, cs)  PROVE Fits(Melded(q, m), Counted(q, m), Append(cs, m))
  <2>1. IsPonOf(m, k)  BY <1>1, <1>2
  <2>2. Fits(Append(q.melds, decode_meld(m)), q.nuki_count, Append(cs, m))
    BY <1>6, <1>13, <1>14, <1>15, <2>1, FitsPon
  <2>3. ~is_nuki(m)  BY <2>1, Zenon DEF IsPonOf
  <2>. QED  BY <2>2, <2>3, Zenon DEF Melded, Counted
<1>. QED  BY <1>1, <1>8, <1>10, <1>11, <1>12, <1>15, AppendsTidily, Zenon

LEMMA KanTidily == ASSUME TableInv, KindsInv, NEW p \in Players, ExtendsPon(p)  PROVE CallsTidily(p)
<1>1. PICK m \in Nat, i \in DOMAIN codes[p], k \in Kinds :
         /\ Calls(p, m, [codes[p] EXCEPT ![i] = m]) /\ IsKanOf(m, k)
         /\ is_pon(codes[p][i]) /\ KindOf(codes[p][i]) = k
  BY Zenon DEF ExtendsPon
<1>2. PICK q, cs : q = State(p) /\ cs = codes[p]  OBVIOUS
<1>3. PICK new : new = [cs EXCEPT ![i] = m]  OBVIOUS
<1>4. IsList(cs) /\ Tidy(cs) /\ i \in DOMAIN cs  BY <1>2, CodesList DEF KindsInv
<1>5. IsList(new)
  <2>1. cs \in Seq(Int) /\ m \in Int  BY <1>2 DEF TableInv
  <2>2. new \in Seq(Int)  BY <1>3, <1>4, <2>1
  <2>. QED  BY <2>2 DEF IsList
<1>6. IsPonOf(cs[i], k)
  <2>1. Known(cs[i])  BY <1>4, Zenon DEF Tidy
  <2>2. PonLike(cs[i])  BY <1>1, <1>2, Zenon DEF PonLike
  <2>3. PICK l \in Kinds : OfKind(cs[i], l)  BY <2>1, <2>2, Zenon DEF Known, Plain
  <2>4. l = k  BY <1>1, <1>2, <2>3, OfKindIs
  <2>. QED  BY <1>1, <1>2, <2>3, <2>4, Zenon DEF OfKind, IsKanOf
<1>7. OfKind(cs[i], k) /\ OfKind(m, k)  BY <1>1, <1>6, Zenon DEF OfKind
<1>8. Tidy(new) /\ \A l \in Shown(new) : l \in Shown(cs)  BY <1>3, <1>4, <1>7, TidyReplaced
<1>9. OnlyPon(cs, i, k)
  <2>. SUFFICES ASSUME NEW j \in DOMAIN cs, j # i, ~is_nuki(cs[j])  PROVE ~PonMeld(decode_meld(cs[j]), k)
    BY Zenon DEF OnlyPon
  <2>1. Known(cs[j])  BY <1>4, Zenon DEF Tidy
  <2>2. ~OfKind(cs[j], k)  BY <1>4, <1>7, Zenon DEF Tidy
  <2>3. PICK y : y = decode_meld(cs[j])  OBVIOUS
  <2>4. ~PonMeld(y, k)  BY <2>1, <2>2, <2>3, KnownShows
  <2>. QED  BY <2>3, <2>4
<1>10. ASSUME Fits(q.melds, q.nuki_count, cs)  PROVE Fits(Melded(q, m), Counted(q, m), new)
  <2>1. Fits(Append(q.melds, decode_meld(m)), q.nuki_count, new)
    BY <1>1, <1>3, <1>4, <1>6, <1>9, <1>10, FitsKan
  <2>2. ~is_nuki(m)  BY <1>1, Zenon DEF IsKanOf
  <2>. QED  BY <2>1, <2>2, Zenon DEF Melded, Counted
<1>11. codes' = [codes EXCEPT ![p] = new]  BY <1>1, <1>2, <1>3, Zenon DEF Calls
<1>12. PICK U : Moves(p, held[p] \ U, Without(State(p).hand, U), Melded(State(p), m), Counted(State(p), m))
  BY <1>1, Zenon DEF Calls
<1>. QED  BY <1>2, <1>5, <1>8, <1>10, <1>11, <1>12, Zenon DEF CallsTidily

LEMMA CallTidily ==
  ASSUME TableInv, TilesInv, KindsInv, NEW p \in Players, AnyCall(p)
  PROVE  CallsTidily(p)
BY NukiTidily, PlainTidily, PonTidily, KanTidily DEF AnyCall

LEMMA KindsInit == Init => KindsInv
<1>. SUFFICES ASSUME Init PROVE KindsInv  OBVIOUS
<1>1. ASSUME NEW p \in Players  PROVE codes[p] = << >> /\ DOMAIN codes[p] = {}
  BY DEF Init
<1>2. ASSUME NEW p \in Players  PROVE Tidy(codes[p]) /\ Shown(codes[p]) = {}
  BY <1>1, Zenon DEF Tidy, Shown
<1>. QED  BY <1>2, Zenon DEF KindsInv

LEMMA KindsStep ==
  TableInv /\ RecordInv /\ ClosedInv /\ TilesInv /\ KindsInv /\ [Next]_vars => KindsInv'
<1>. SUFFICES ASSUME TableInv, RecordInv, ClosedInv, TilesInv, KindsInv, [Next]_vars  PROVE KindsInv'  OBVIOUS
<1>1. ASSUME NEW oya \in Players, Deal(oya)  PROVE KindsInv'
  <2>1. SameSeats /\ codes' = [p \in Players |-> << >>]  BY <1>1, DealtNow, Zenon
  <2>2. Players' = Players  BY <2>1 DEF SameSeats
  <2>3. ASSUME NEW p \in Players  PROVE codes'[p] = << >> /\ DOMAIN codes'[p] = {}  BY <2>1
  <2>4. ASSUME NEW p \in Players  PROVE Tidy(codes'[p]) /\ Shown(codes'[p]) = {}
    BY <2>3, Zenon DEF Tidy, Shown
  <2>. QED  BY <2>2, <2>4, Zenon DEF KindsInv
<1>2. CASE ~ \E p \in Players : Deal(p)
  <2>1. NextMove /\ NoneReturns  BY <1>2, MoveIs
  <2>2. ASSUME NEW k, OneLeft(k)  PROVE OneLeft(k)'  BY <2>1, <2>2, LeftStays
  <2>3. ASSUME codes' = codes, Players' = Players  PROVE KindsInv'
    <3>1. ASSUME NEW p \in Players  PROVE Tidy(codes'[p]) /\ \A k \in Shown(codes'[p]) : OneLeft(k)'
      BY <2>2, <2>3, Zenon DEF KindsInv
    <3>. QED  BY <2>3, <3>1, Zenon DEF KindsInv, Shown
  <2>4. ASSUME NEW p \in Players, AnyCall(p)  PROVE KindsInv'
    <3>1. CallsTidily(p)  BY <2>4, CallTidily
    <3>2. PICK new : /\ codes' = [codes EXCEPT ![p] = new]
                     /\ Tidy(new) /\ \A k \in Shown(new) : k \in Shown(codes[p]) \/ OneLeft(k)'
                     /\ SameSeats
      BY <3>1, Zenon DEF CallsTidily, Moves
    <3>3. Players' = Players  BY <3>2 DEF SameSeats
    <3>4. ASSUME NEW q \in Players  PROVE Tidy(codes'[q]) /\ \A k \in Shown(codes'[q]) : OneLeft(k)'
      <4>1. CASE q = p
        <5>1. codes'[q] = new  BY <3>2, <4>1 DEF TableInv
        <5>. QED  BY <2>2, <3>2, <4>1, <5>1, Zenon DEF KindsInv
      <4>2. CASE q # p
        <5>1. codes'[q] = codes[q]  BY <3>2, <4>2 DEF TableInv
        <5>. QED  BY <2>2, <5>1, Zenon DEF KindsInv
      <4>. QED  BY <4>1, <4>2
    <3>. QED  BY <3>3, <3>4, Zenon DEF KindsInv, Shown
  <2>5. ASSUME Stays  PROVE KindsInv'
    <3>1. codes' = codes /\ Players' = Players  BY <2>5 DEF Stays, SameSeats
    <3>. QED  BY <2>3, <3>1
  <2>6. ASSUME NEW p \in Players, Draws(p) \/ Discards(p)  PROVE KindsInv'
    <3>1. codes' = codes /\ SameSeats  BY <2>6, Zenon DEF Draws, Discards, Moves
    <3>2. Players' = Players  BY <3>1 DEF SameSeats
    <3>. QED  BY <2>3, <3>1, <3>2
  <2>. QED  BY <2>1, <2>4, <2>5, <2>6, Zenon DEF NextMove, Wins1, Rests
<1>. QED  BY <1>1, <1>2

\* The melds and nuki of the record are those of the codes.
MeldsInv == Started => \A p \in Players : Fits(State(p).melds, State(p).nuki_count, codes[p])

LEMMA NothingFits == Fits(<< >>, 0, << >>)
<1>1. PICK e : e = << >> /\ DOMAIN e = {}  OBVIOUS
<1>2. Range(e) = {} /\ Written(e) = {} /\ NukisIn(e) = {}  BY <1>1, Zenon DEF Range, Written, NukisIn
<1>3. Left({}) = {}  BY DEF Left
<1>4. Cardinality({}) = 0  BY FS_EmptySet
<1>5. IsList(e)  BY <1>1, EmptyList
<1>6. Fits(e, 0, e)
  <2>1. \A y \in Range(e) : Shaped(y)  BY <1>2
  <2>2. Left(Range(e)) = Written(e) /\ 0 = Cardinality(NukisIn(e))  BY <1>2, <1>3, <1>4, Zenon
  <2>. QED  BY <1>5, <2>1, <2>2, Zenon DEF Fits
<1>. QED  BY <1>1, <1>6, Zenon

LEMMA MeldsMove ==
  ASSUME TableInv, MeldsInv, NEW p, NEW new, NEW hand, NEW ms, NEW n, Moves(p, new, hand, ms, n),
         \A q \in Players \ {p} : codes'[q] = codes[q], Fits(ms, n, codes'[p])
  PROVE  MeldsInv'
<1>1. PICK P, r, s, c, d : P = Players /\ r = Round /\ s = Round' /\ c = codes /\ d = codes'  OBVIOUS
<1>2. SameSeats /\ Started /\ p \in P /\ Becomes(r, s, P, p, hand, ms, n)  BY <1>1 DEF Moves
<1>3. \A q \in P : Fits(r.last.players[q].melds, r.last.players[q].nuki_count, c[q])
  BY <1>1, <1>2, Zenon DEF MeldsInv, State
<1>4. ASSUME NEW q \in P  PROVE Fits(s.last.players[q].melds, s.last.players[q].nuki_count, d[q])
  <2>1. CASE q = p
    <3>1. s.last.players[q].melds = ms /\ s.last.players[q].nuki_count = n
      BY <1>2, <2>1, Zenon DEF Becomes
    <3>2. Fits(ms, n, d[q])  BY <1>1, <2>1
    <3>. QED  BY <3>1, <3>2, Zenon
  <2>2. CASE q # p
    <3>1. q \in P \ {p}  BY <2>2
    <3>2. s.last.players[q] = r.last.players[q] /\ d[q] = c[q]  BY <1>1, <1>2, <3>1, Zenon DEF Becomes
    <3>. QED  BY <1>3, <3>2, Zenon
  <2>. QED  BY <2>1, <2>2
<1>5. Players' = P  BY <1>1, <1>2 DEF SameSeats
<1>. QED  BY <1>1, <1>4, <1>5, Zenon DEF MeldsInv, State

LEMMA MeldsInit == Init => MeldsInv
<1>1. Init => game.rounds = << >>  BY DEF Init, build_replay, NoGame
<1>. QED  BY <1>1 DEF MeldsInv, Started

LEMMA MeldsStep ==
  TableInv /\ RecordInv /\ ClosedInv /\ TilesInv /\ KindsInv /\ MeldsInv /\ [Next]_vars => MeldsInv'
<1>. SUFFICES ASSUME TableInv, RecordInv, ClosedInv, TilesInv, KindsInv, MeldsInv, [Next]_vars
              PROVE  MeldsInv'
  OBVIOUS
<1>1. ASSUME NEW oya \in Players, Deal(oya)  PROVE MeldsInv'
  <2>1. /\ SameSeats /\ codes' = [p \in Players |-> << >>]
        /\ \A q \in Players : State(q)'.melds = << >> /\ State(q)'.nuki_count = 0
    BY <1>1, DealtNow, Zenon
  <2>2. Players' = Players  BY <2>1 DEF SameSeats
  <2>3. ASSUME NEW q \in Players  PROVE codes'[q] = << >>  BY <2>1
  <2>4. ASSUME NEW q \in Players
        PROVE  Fits(Round'.last.players[q].melds, Round'.last.players[q].nuki_count, codes'[q])
    BY <2>1, <2>3, NothingFits, Zenon DEF State
  <2>. QED  BY <2>2, <2>4, Zenon DEF MeldsInv, State
<1>2. ASSUME Stays  PROVE MeldsInv'
  <2>1. /\ SameSeats /\ codes' = codes /\ (Started' <=> Started)
        /\ (Started => Round'.last.players = Round.last.players)
    BY <1>2 DEF Stays
  <2>2. Players' = Players  BY <2>1 DEF SameSeats
  <2>3. ASSUME Started', NEW q \in Players
        PROVE  Fits(Round'.last.players[q].melds, Round'.last.players[q].nuki_count, codes'[q])
    BY <2>1, <2>3, Zenon DEF MeldsInv, State
  <2>. QED  BY <2>2, <2>3, Zenon DEF MeldsInv, State
<1>3. ASSUME NEW p \in Players, Draws(p) \/ Discards(p)  PROVE MeldsInv'
  <2>1. PICK new, hand : codes' = codes /\ Moves(p, new, hand, State(p).melds, State(p).nuki_count)
    BY <1>3, Zenon DEF Draws, Discards
  <2>2. Started  BY <2>1, Zenon DEF Moves
  <2>3. Fits(State(p).melds, State(p).nuki_count, codes'[p])  BY <2>1, <2>2, Zenon DEF MeldsInv
  <2>4. \A q \in Players \ {p} : codes'[q] = codes[q]  BY <2>1
  <2>. QED  BY <2>1, <2>3, <2>4, MeldsMove
<1>4. ASSUME NEW p \in Players, AnyCall(p)  PROVE MeldsInv'
  <2>1. CallsTidily(p)  BY <1>4, CallTidily
  <2>2. PICK new, hand, held1, ms, n :
           /\ codes' = [codes EXCEPT ![p] = new] /\ Moves(p, held1, hand, ms, n)
           /\ Fits(State(p).melds, State(p).nuki_count, codes[p]) => Fits(ms, n, new)
    BY <2>1, Zenon DEF CallsTidily
  <2>3. Started  BY <2>2, Zenon DEF Moves
  <2>4. Fits(ms, n, new)  BY <2>2, <2>3, Zenon DEF MeldsInv
  <2>5. codes'[p] = new /\ \A q \in Players \ {p} : codes'[q] = codes[q]  BY <2>2 DEF TableInv
  <2>6. Fits(ms, n, codes'[p])  BY <2>4, <2>5
  <2>. QED  BY <2>2, <2>5, <2>6, MeldsMove
<1>5. CASE ~ \E p \in Players : Deal(p)
  <2>1. NextMove  BY <1>5, MoveIs
  <2>. QED  BY <1>2, <1>3, <1>4, <2>1, Zenon DEF NextMove, Wins1, Rests
<1>. QED  BY <1>1, <1>5

-----------------------------------------------------------------------------
(* The hand of a winner: the one the log states, and the one replayed.     *)

Agrees(result, q) ==
  /\ \A c \in Codes : result.player.hand[c]
                        = q.hand[c] + IF result.loser # Null /\ c = result.winning_tile THEN 1 ELSE 0
  /\ Range(result.player.melds) = Left(Range(q.melds))
  /\ result.player.nuki_count = q.nuki_count

WinInv ==
  Started => \A i \in DOMAIN wins : /\ wins[i].winner \in Players
                                    /\ Agrees(Round.results[i], State(wins[i].winner))

LEMMA WonIs ==
  ASSUME NEW P, NEW s, IsState(s, P), NEW e, e.who \in P, NEW result, result = make_win_result(s, e)
  PROVE  /\ result.player.hand = make_hand(e.hai)
         /\ result.player.melds = decode_melds(e.m)[1] /\ result.player.nuki_count = decode_melds(e.m)[2]
         /\ result.loser = IF e.who = e.from_who THEN Null ELSE e.from_who
         /\ result.winning_tile = to_tile(e.machi)
<1>1. PICK q, h, ms, n : /\ q = s.players[e.who] /\ h = make_hand(e.hai)
                         /\ ms = decode_melds(e.m)[1] /\ n = decode_melds(e.m)[2]
  OBVIOUS
<1>2. q = [hand |-> q.hand, melds |-> q.melds, nuki_count |-> q.nuki_count,
           score |-> q.score, seat_wind |-> q.seat_wind]
  BY <1>1, Zenon DEF IsState, IsPlayer
<1>3. PICK r : r = [q EXCEPT !.hand = h, !.melds = ms, !.nuki_count = n]  OBVIOUS
<1>4. r.hand = h /\ r.melds = ms /\ r.nuki_count = n
  <2>1. "hand" \in DOMAIN q /\ "melds" \in DOMAIN q /\ "nuki_count" \in DOMAIN q  BY ONLY <1>2
  <2>. QED  BY ONLY <1>3, <2>1
<1>5. PICK l : l = IF e.who = e.from_who THEN Null ELSE e.from_who  OBVIOUS
<1>6. PICK deltas : deltas = to_score_deltas(e.sc, Cardinality(DOMAIN s.players))  OBVIOUS
<1>7. PICK pao, t : pao = to_pao_info(deltas, e.who, l, e.pao_yaku) /\ t = to_tile(e.machi)  OBVIOUS
<1>8. result = [tag |-> "Win", winner |-> e.who, loser |-> l, winning_tile |-> t,
                kyotaku |-> e.kyotaku, score_deltas |-> deltas, pao |-> pao, player |-> r]
  BY <1>1, <1>3, <1>5, <1>6, <1>7, Zenon DEF make_win_result
<1>9. result.player = r /\ result.loser = l /\ result.winning_tile = t  BY ONLY <1>8
<1>. QED  BY <1>1, <1>4, <1>5, <1>7, <1>9, Zenon

\* The tiles of a hand, sorted and counted.
LEMMA SortedHand ==
  ASSUME NEW S \in SUBSET Int, IsFiniteSet(S)
  PROVE  make_hand(Sorted(S)) = Count(S)
<1>1. PICK n, t : n = Cardinality(S) /\ t = Sorted(S)  OBVIOUS
<1>2. n \in Nat /\ t \in [1..n -> S] /\ Range(t) = S /\ IsInjective(t)  BY <1>1, SortedIs
<1>3. IsFiniteSet(DOMAIN t)
  <2>1. DOMAIN t = 1..n  BY <1>2
  <2>. QED  BY <1>2, <2>1, FS_Interval
<1>4. make_hand(t) = Count(Range(t))  BY <1>2, <1>3, MadeHand
<1>. QED  BY <1>1, <1>2, <1>4

LEMMA WinnerIs ==
  ASSUME TableInv, RecordInv, TilesInv, HeldInv, MeldsInv, Started,
         NEW p \in Players, NEW loser, NEW machi, NEW hai, Wins1(p, loser, machi, hai),
         NEW e, e.who = p, e.from_who = (IF loser = Null THEN p ELSE loser),
         e.machi = machi, e.hai = Sorted(hai), e.m = codes[p]
  PROVE  Agrees(make_win_result(Round.last, e), State(p))
<1>1. PICK result, q, S, cs :
         result = make_win_result(Round.last, e) /\ q = State(p) /\ S = held[p] /\ cs = codes[p]
  OBVIOUS
<1>2. IsState(Round.last, Players)  BY RoundIs, Zenon DEF IsRound
<1>3. /\ result.player.hand = make_hand(Sorted(hai))
      /\ result.player.melds = decode_melds(cs)[1] /\ result.player.nuki_count = decode_melds(cs)[2]
      /\ result.loser = (IF e.who = e.from_who THEN Null ELSE e.from_who)
      /\ result.winning_tile = to_tile(machi)
  <2>1. e.who \in Players  OBVIOUS
  <2>2. /\ result.player.hand = make_hand(e.hai)
        /\ result.player.melds = decode_melds(e.m)[1] /\ result.player.nuki_count = decode_melds(e.m)[2]
        /\ result.loser = (IF e.who = e.from_who THEN Null ELSE e.from_who)
        /\ result.winning_tile = to_tile(e.machi)
    BY <1>1, <1>2, <2>1, WonIs
  <2>. QED  BY <1>1, <2>2, Zenon
<1>4. S \in SUBSET Int /\ IsFiniteSet(S) /\ q.hand = Count(S) /\ tile \in Int /\ tile \notin S
  BY <1>1, HeldFinite DEF TableInv, HeldInv, TilesInv
<1>5. \A c \in Codes : result.player.hand[c]
                         = q.hand[c] + IF result.loser # Null /\ c = result.winning_tile THEN 1 ELSE 0
  <2>1. CASE loser = Null
    <3>1. hai = S /\ result.loser = Null  BY <1>1, <1>3, <2>1 DEF Wins1
    <3>2. result.player.hand = Count(S)  BY <1>3, <1>4, <3>1, SortedHand
    <3>3. \A c \in Codes : Count(S)[c] \in Int  BY <1>4, CountIs, ShareType
    <3>. QED  BY <1>4, <3>1, <3>2, <3>3
  <2>2. CASE loser # Null
    <3>1. hai = S \cup {tile} /\ machi = tile /\ loser # p  BY <1>1, <2>2 DEF Wins1
    <3>2. result.loser # Null /\ result.winning_tile = to_tile(tile)  BY <1>3, <2>2, <3>1
    <3>3. hai \in SUBSET Int /\ IsFiniteSet(hai)  BY <1>4, <3>1, FS_AddElement
    <3>4. result.player.hand = Count(S \cup {tile})  BY <1>3, <3>1, <3>3, SortedHand
    <3>5. Gets(Count(S), to_tile(tile)) = Count(S \cup {tile})  BY <1>4, CountChanges
    <3>6. result.player.hand = Gets(q.hand, to_tile(tile))  BY <1>4, <3>4, <3>5
    <3>. QED  BY <3>2, <3>6 DEF Gets
  <2>. QED  BY <2>1, <2>2
<1>6. IsList(cs) /\ Fits(q.melds, q.nuki_count, cs)  BY <1>1, CodesList DEF MeldsInv
<1>7. Range(decode_melds(cs)[1]) = Written(cs) /\ decode_melds(cs)[2] = Cardinality(NukisIn(cs))
  BY <1>6, CodesRead
<1>8. Left(Range(q.melds)) = Written(cs) /\ q.nuki_count = Cardinality(NukisIn(cs))
  BY <1>6, Zenon DEF Fits
<1>. QED  BY <1>1, <1>3, <1>5, <1>7, <1>8, Zenon DEF Agrees

LEMMA WinsStep ==
  ASSUME TableInv, RecordInv, ClosedInv, TilesInv, HeldInv, MeldsInv, WinInv,
         NEW p \in Players, NEW loser, NEW machi, NEW hai, Wins1(p, loser, machi, hai)
  PROVE  WinInv'
<1>1. Started
  <2>1. phase # "over" \/ wins # << >>  BY DEF Wins1
  <2>. QED  BY <2>1 DEF RecordInv
<1>2. PICK liable, pao_yaku : WinWith(p, loser, machi, hai, liable, pao_yaku)
  <2>1. Win(p, loser, machi, hai)  BY DEF Wins1
  <2>. QED  BY <2>1, WinIs
<1>3. PICK sc, e : e = [tag |-> "agari", who |-> p,
                        from_who |-> IF loser = Null THEN p ELSE loser,
                        machi |-> machi, hai |-> Sorted(hai), m |-> codes[p],
                        kyotaku |-> pot, pao_yaku |-> pao_yaku, sc |-> sc] /\ Log(e)
  BY <1>2, Zenon DEF WinWith
<1>4. /\ e.tag = "agari" /\ e.who = p /\ e.from_who = (IF loser = Null THEN p ELSE loser)
      /\ e.machi = machi /\ e.hai = Sorted(hai) /\ e.m = codes[p]
  BY <1>3
<1>5. PICK win : wins' = Append(wins, win) /\ win.winner = p
  <2>1. PICK win : win = [winner |-> p, loser |-> loser, liable |-> liable]  OBVIOUS
  <2>2. wins' = Append(wins, win)  BY <1>2, <2>1, Zenon DEF WinWith
  <2>. QED  BY <2>1, <2>2
<1>6. PICK r, s : r = Round /\ s = Round'  OBVIOUS
<1>7. SameSeats /\ s = apply_event(r, e) /\ IsRound(r, Players)
  <2>1. InTheRound(e, Players)  BY <1>4 DEF InTheRound
  <2>. QED  BY <1>1, <1>3, <1>6, <2>1, EventRound
<1>8. PICK result : result = make_win_result(r.last, e)  OBVIOUS
<1>9. s.results = Append(r.results, result) /\ s.last = r.last
  <2>1. PICK event : apply_event(r, e) = Ended(r, event, result)  BY <1>4, <1>7, <1>8, ResultEvents, Zenon
  <2>. QED  BY <1>7, <2>1 DEF Ended
<1>10. PICK n, ws : n = Len(wins) /\ ws = wins  OBVIOUS
<1>11. IsList(ws) /\ IsList(r.results) /\ Len(r.results) = n
  <2>1. Follows(r, Players, points, pot, wins, phase)  BY <1>1, <1>6 DEF RecordInv
  <2>2. phase # "over" \/ wins # << >>  BY DEF Wins1
  <2>3. CASE wins # << >>  BY <1>7, <1>10, <2>1, <2>3 DEF Follows, IsRound
  <2>4. CASE phase # "over"
    <3>1. r.results = << >> /\ wins = << >>  BY <2>1, <2>4 DEF Follows
    <3>. QED  BY <1>10, <3>1, EmptyList
  <2>. QED  BY <2>2, <2>3, <2>4
<1>12. PICK t, w : t = s.results /\ w = wins'  OBVIOUS
<1>13. /\ n \in Nat /\ DOMAIN ws = 1..n /\ DOMAIN w = 1..(n + 1)
       /\ w[n + 1] = win /\ t[n + 1] = result
       /\ \A i \in 1..n : w[i] = ws[i] /\ t[i] = r.results[i]
  <2>1. w = Append(ws, win) /\ t = Append(r.results, result)  BY <1>5, <1>9, <1>10, <1>12
  <2>2. DOMAIN Append(ws, win) = 1..Len(ws) + 1  BY <1>11, AppendList
  <2>. QED  BY <1>10, <1>11, <2>1, <2>2, AppendList
<1>14. Agrees(result, r.last.players[p])
  <2>1. Agrees(make_win_result(Round.last, e), State(p))  BY <1>1, <1>4, WinnerIs
  <2>. QED  BY <1>6, <1>8, <2>1 DEF State
<1>15. ASSUME NEW i \in 1..(n + 1)  PROVE w[i].winner \in Players /\ Agrees(t[i], s.last.players[w[i].winner])
  <2>1. CASE i \in 1..n
    <3>1. ws[i].winner \in Players /\ Agrees(r.results[i], r.last.players[ws[i].winner])
      BY <1>1, <1>6, <1>10, <1>13, <2>1, Zenon DEF WinInv, State
    <3>. QED  BY <1>9, <1>13, <2>1, <3>1, Zenon
  <2>2. CASE i = n + 1
    <3>1. w[i] = win /\ t[i] = result  BY <1>13, <2>2
    <3>. QED  BY <1>5, <1>9, <1>14, <3>1, Zenon
  <2>. QED  BY <1>13, <2>1, <2>2
<1>16. Players' = Players  BY <1>7 DEF SameSeats
<1>. QED  BY <1>6, <1>12, <1>13, <1>15, <1>16, Zenon DEF WinInv, State

LEMMA WinInvInit == Init => WinInv
<1>1. Init => game.rounds = << >>  BY DEF Init, build_replay, NoGame
<1>. QED  BY <1>1 DEF WinInv, Started

LEMMA WinInvStep ==
  /\ TableInv /\ RecordInv /\ ClosedInv /\ TilesInv /\ HeldInv /\ MeldsInv /\ WinInv /\ [Next]_vars
  => WinInv'
<1>. SUFFICES ASSUME TableInv, RecordInv, ClosedInv, TilesInv, HeldInv, MeldsInv, WinInv, [Next]_vars
              PROVE  WinInv'
  OBVIOUS
<1>1. ASSUME wins' = << >>  PROVE WinInv'
  <2>1. DOMAIN wins' = {}  BY <1>1
  <2>. QED  BY <2>1, Zenon DEF WinInv
<1>2. ASSUME NEW oya \in Players, Deal(oya)  PROVE WinInv'  BY <1>1, <1>2 DEF Deal
<1>3. ASSUME phase # "over", wins' = wins  PROVE WinInv'
  <2>1. wins = << >>  BY <1>3 DEF RecordInv, Follows
  <2>. QED  BY <1>1, <1>3, <2>1
<1>4. ASSUME Stays, wins' = wins, game' = game  PROVE WinInv'
  <2>1. Players' = Players  BY <1>4 DEF Stays, SameSeats
  <2>2. Round' = Round /\ (Started' <=> Started)  BY <1>4 DEF Round, Started
  <2>3. WinInv' = WinInv  BY <1>4, <2>1, <2>2 DEF WinInv, State
  <2>. QED  BY <2>3
<1>5. CASE ~ \E p \in Players : Deal(p)
  <2>1. NextMove  BY <1>5, MoveIs
  <2>2. ASSUME NEW p \in Players, NEW loser, NEW machi, NEW hai, Wins1(p, loser, machi, hai)  PROVE WinInv'
    BY <2>2, WinsStep
  <2>. QED  BY <1>3, <1>4, <2>1, <2>2, Zenon DEF NextMove, Rests
<1>. QED  BY <1>2, <1>5

\* The two roads to a winner's hand, as the property puts it.
TwoRoads(result, replayed) ==
  LET kans_of == {m \in Range(replayed.melds) : m.type = "Kakan"}
      extended == {m \in Range(replayed.melds) :
                     m.type = "Pon" /\ \E k \in kans_of : Range(m.tiles) \subseteq Range(k.tiles)}
  IN  /\ \A c \in Codes :
           result.player.hand[c] = replayed.hand[c]
             + IF result.loser # Null /\ c = result.winning_tile THEN 1 ELSE 0
      /\ Range(result.player.melds) = Range(replayed.melds) \ extended
      /\ result.player.nuki_count = replayed.nuki_count

LEMMA RoadsMeet ==
  ASSUME NEW result, NEW q, Agrees(result, q)
  PROVE  TwoRoads(result, q)
<1>1. PICK M, K : M = Range(q.melds) /\ K = {m \in M : m.type = "Kakan"}  OBVIOUS
<1>2. PICK X : X = {m \in M : m.type = "Pon" /\ \E k \in K : Range(m.tiles) \subseteq Range(k.tiles)}  OBVIOUS
<1>3. \A m : m \in X <=> m \in Extended(M)
  <2>1. \A m : (\E k \in K : Range(m.tiles) \subseteq Range(k.tiles))
                 <=> \E y \in M : y.type = "Kakan" /\ Range(m.tiles) \subseteq Range(y.tiles)
    BY <1>1, Zenon
  <2>. QED  BY <1>2, <2>1, Zenon DEF Extended
<1>4. X = Extended(M)  BY <1>3
<1>. QED  BY <1>1, <1>2, <1>4, Zenon DEF Agrees, TwoRoads, Left

\* The winner's hand, melds and nuki that the log states are those replayed from the events,
\* up to the tile won on and the pons that became kans, in every game that can be played: of
\* each kind a player calls one pon at most (KindsInv), so a kan takes the place of one pon in
\* the codes, and in the record it stands beside that pon (MeldsInv).
THEOREM WinnerAgreesCorrect == Spec => []WinnerAgrees
<1>. DEFINE IInv == /\ TableInv /\ RecordInv /\ ClosedInv /\ TilesInv /\ HeldInv
                    /\ KindsInv /\ MeldsInv /\ WinInv
<1>1. Init => IInv
  BY TableInit, RecordInit, ClosedInit, TilesInit, HeldInit, KindsInit, MeldsInit, WinInvInit
<1>2. IInv /\ [Next]_vars => IInv'
  BY TableStep, RecordStep, ClosedStep, TilesStep, HeldStep, KindsStep, MeldsStep, WinInvStep
<1>3. IInv => WinnerAgrees
  <2>1. WinnerAgrees <=>
          (Started => \A i \in DOMAIN wins : TwoRoads(Round.results[i], State(wins[i].winner)))
    BY Zenon DEF WinnerAgrees, TwoRoads
  <2>2. ASSUME WinInv, Started, NEW i \in DOMAIN wins
        PROVE  TwoRoads(Round.results[i], State(wins[i].winner))
    <3>1. Agrees(Round.results[i], State(wins[i].winner))  BY <2>2, Zenon DEF WinInv
    <3>. QED  BY <3>1, RoadsMeet
  <2>. QED  BY <2>1, <2>2
<1>. QED
  <2>. HIDE DEF IInv
  <2>. QED  BY <1>1, <1>2, <1>3, PTL DEF Spec
=============================================================================
