---------------------------- MODULE HandSeparator ----------------------------
(***************************************************************************)
(* mahjong/core/hand_separator.cpp: every way to split a winning hand into *)
(* blocks.  The two tables it reads (suits_patterns.json and               *)
(* honors_patterns.json) list, for each count of tiles that can be split,  *)
(* all ways to split it; SuitPatterns and HonorPatterns say so.            *)
(***************************************************************************)
EXTENDS Tiles

\* A block: its type, whether it is open, its lowest tile.
Block(type, open, min_tile) == [type |-> type, open |-> open, min_tile |-> min_tile]
Repeat(b, n) == [i \in 1..n |-> b]

-----------------------------------------------------------------------------
(* The tables.  With the triplets and the pair chosen, the sequences of a  *)
(* suit follow from its lowest tile on.                                    *)

\* How many sequences start at each tile of a suit once triplets and pair are taken
\* out: as many as remain of the tile, less those that started one and two before
\* it; solved, every third of the remaining counts less every third before.
SequencesLeft(count, first, triplets, pair) ==
  LET left(k) == IF k < first THEN 0
                 ELSE count[k] - (IF k \in triplets THEN 3 ELSE 0) - (IF k \in pair THEN 2 ELSE 0)
      change(k) == left(k) - left(k-1)
  IN  [k \in first..first + 8 |-> change(k) + change(k-3) + change(k-6)]

Triplets(count, S) == SUBSET {k \in S : count[k] >= 3}
Pairs(count, S) == {{k} : k \in {q \in S : count[q] >= 2}} \cup {{}}

BlocksOf(first, last, triplets, pair, s) ==
  FlattenSeq([i \in 1..last - first + 1 |->
    LET k == first + i - 1
    IN  (IF k \in triplets THEN <<Block("Triplet", FALSE, k)>> ELSE << >>)
        \o (IF k \in pair THEN <<Block("Pair", FALSE, k)>> ELSE << >>)
        \o Repeat(Block("Sequence", FALSE, k), s[k])])

SuitPatterns(count, d) ==
  {BlocksOf(9*d, 9*d + 8, t[1], t[2], SequencesLeft(count, 9*d, t[1], t[2])) :
     t \in {u \in Triplets(count, Suit(d)) \X Pairs(count, Suit(d)) :
              LET s == SequencesLeft(count, 9*d, u[1], u[2])
              IN  /\ \A k \in Suit(d) : s[k] >= 0
                  /\ s[9*d + 7] = 0 /\ s[9*d + 8] = 0}}

HonorPatterns(count) ==
  {BlocksOf(East, RedDragon, t[1], t[2], [k \in Honors |-> 0]) :
     t \in {u \in Triplets(count, Honors) \X Pairs(count, Honors) :
              \A k \in Honors : count[k] = (IF k \in u[1] THEN 3 ELSE 0) + (IF k \in u[2] THEN 2 ELSE 0)}}

\* A table read with operator[]: a count that is not a key has no patterns.
Lookup(patterns, count, S) == IF \A k \in S : count[k] = 0 THEN {} ELSE patterns

-----------------------------------------------------------------------------
MeldBlock(m) ==
  LET t == to_normal(Head(m.tiles))
  IN  CASE m.type = "Pon"   -> Block("Triplet", TRUE, t)
        [] m.type = "Chi"   -> Block("Sequence", TRUE, t)
        [] m.type = "Ankan" -> Block("Kan", FALSE, t)
        [] OTHER            -> Block("Kan", TRUE, t)

\* The wait that completes block b with win_tile; none if b does not contain it.
WaitsOf(b, win_tile) ==
  IF b.open THEN {} ELSE
  CASE b.type = "Triplet" /\ b.min_tile = win_tile -> {"DoublePairWait"}
    [] b.type = "Pair" /\ b.min_tile = win_tile -> {"SingleTileWait"}
    [] b.type = "Sequence" /\ b.min_tile + 1 = win_tile -> {"MiddleWait"}
    [] b.type = "Sequence" /\ b.min_tile + 2 = win_tile ->
         {IF b.min_tile \in {0, 9, 18} THEN "EdgeWait" ELSE "TwoSidedWait"}
    [] b.type = "Sequence" /\ b.min_tile = win_tile ->
         {IF b.min_tile \in {6, 15, 24} THEN "EdgeWait" ELSE "TwoSidedWait"}
    [] OTHER -> {}

\* Mutant of Patterns: a win on a discard leaves the block closed.
PatternsLeftClosed(blocks, win_tile, tsumo) ==
  UNION {{[blocks |-> blocks, wait_type |-> w] : w \in WaitsOf(blocks[i], win_tile)} : i \in DOMAIN blocks}

\* Each block that the winning tile can complete gives a pattern; a win on a
\* discard opens that block.
Patterns(blocks, win_tile, tsumo) ==
  UNION {{[blocks |-> [blocks EXCEPT ![i].open = ~tsumo \/ @], wait_type |-> w] :
            w \in WaitsOf(blocks[i], win_tile)} : i \in DOMAIN blocks}

\* A suit without patterns is passed over.
OrNone(patterns) == IF patterns = {} THEN {<< >>} ELSE patterns

create_block_patterns(melded, win_tile, tsumo, manzu, pinzu, souzu, honors) ==
  UNION {Patterns(melded \o m \o p \o s \o h, win_tile, tsumo) :
           m \in OrNone(manzu), p \in OrNone(pinzu), s \in OrNone(souzu), h \in OrNone(honors)}

separate(player, win_tile, tsumo) ==
  LET hand == player.hand
      SuitTable(d) == Lookup(SuitPatterns(hand, d), hand, Suit(d))
  IN  create_block_patterns([i \in DOMAIN player.melds |-> MeldBlock(player.melds[i])],
        to_normal(win_tile), tsumo, SuitTable(0), SuitTable(1), SuitTable(2),
        Lookup(HonorPatterns(hand), hand, Honors))
=============================================================================
