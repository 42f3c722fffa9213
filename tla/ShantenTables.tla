----------------------------- MODULE ShantenTables -----------------------------
(***************************************************************************)
(* Shanten numbers, necessary and unnecessary tiles from distance tables:  *)
(* tools/shanten_table/create_distance_table.cpp, which computes a table   *)
(* for the suits and one for the honors, mahjong/core/table.{hpp,cpp},     *)
(* which holds them, and the three calculators of mahjong/core.            *)
(*                                                                         *)
(* A table entry has, for each index, a distance, the tiles to draw (wait) *)
(* and the tiles to discard (disc): index g is for g groups, index 5 + g   *)
(* for g groups and a pair.  Masks of tiles are sets.  A hand of m groups  *)
(* reads indices up to m and 5 + m only, and only these are computed.      *)
(***************************************************************************)
EXTENDS HandSeparator

CONSTANT Lookups  \* <<count, m>>: the counts of a suit or of the honors that are looked up

Indices(m) == 0..m \cup 5..5 + m
TooFar == 15      \* no such hand exists: INT_MAX & 0b1111

-----------------------------------------------------------------------------
(* create_distance_table.cpp                                               *)

Add(p, q) == [k \in DOMAIN p |-> p[k] + q[k]]
Fits(patterns) == {p \in patterns : \A k \in DOMAIN p : p[k] <= 4}
Of(size, K, n) == [k \in 0..size - 1 |-> IF k \in K THEN n ELSE 0]

With(patterns, parts) == Fits({Add(p, q) : p \in patterns, q \in parts})

\* The counts made of at most four groups and at most one pair, by index.
WinPatterns(size, groups) ==
  LET pairs == {Of(size, {k}, 2) : k \in 0..size - 1}
      made[g \in 0..4] == IF g = 0 THEN {Of(size, {}, 0)} ELSE With(made[g - 1], groups)
  IN  [i \in Indices(4) |-> IF i < 5 THEN made[i] ELSE With(made[i - 5], pairs)]

triplets(size) == {Of(size, {k}, 3) : k \in 0..size - 1}
list_suits_win_patterns == WinPatterns(9, triplets(9) \cup {Of(9, k..k + 2, 1) : k \in 0..6})
list_honors_win_patterns == WinPatterns(7, triplets(7))

\* The tiles of after that before has not.
calc_distance(before, after) ==
  Cardinality(UNION {{k} \X (before[k] + 1..after[k]) : k \in DOMAIN before})

\* Mutant of Entry: the tiles of one of the closest patterns only.
EntryOfOne(count, patterns) ==
  IF patterns = {} THEN [dist |-> TooFar, wait |-> {}, disc |-> {}]
  ELSE LET away == {<<calc_distance(count, p), p>> : p \in patterns}
           best == Min({a[1] : a \in away})
           closest == (CHOOSE a \in away : a[1] = best)[2]
       IN  [dist |-> best,
            wait |-> {k \in DOMAIN count : closest[k] > count[k]},
            disc |-> {k \in DOMAIN count : closest[k] < count[k]}]

\* create_table, for one count and one index: the tiles that some closest pattern
\* has more of, and those that some closest pattern has fewer of.
Entry(count, patterns) ==
  IF patterns = {} THEN [dist |-> TooFar, wait |-> {}, disc |-> {}]
  ELSE LET away == {<<calc_distance(count, p), p>> : p \in patterns}
           best == Min({a[1] : a \in away})
           closest == {a[2] : a \in {b \in away : b[1] = best}}
       IN  [dist |-> best,
            wait |-> {k \in DOMAIN count : \E p \in closest : p[k] > count[k]},
            disc |-> {k \in DOMAIN count : \E p \in closest : p[k] < count[k]}]

-----------------------------------------------------------------------------
(* table.hpp and table.cpp.  A table is an array; suits_hash and           *)
(* honors_hash give the place of a count in it.                            *)

BaseFive(x, y) == 5 * x + y
suits_hash(count) == FoldLeft(BaseFive, 0, [i \in 1..9 |-> count[i - 1]])
honors_hash(count) == FoldLeft(BaseFive, 0, [i \in 1..7 |-> count[i - 1]])
SuitsTableSize == 1943751
HonorsTableSize == 77751

\* The tables as loaded, at the counts that are looked up.
load_table(size, patterns) ==
  [l \in {k \in Lookups : DOMAIN k[1] = 0..size - 1} |-> [i \in Indices(l[2]) |-> Entry(l[1], patterns[i])]]
suits_table == load_table(9, list_suits_win_patterns)
honors_table == load_table(7, list_honors_win_patterns)

\* Mutant of sanma_manzu_hash: the counts are swapped.
SwappedHash(manzu1_count, manzu9_count) == 5 * manzu9_count + manzu1_count

sanma_manzu_hash(manzu1_count, manzu9_count) == 5 * manzu1_count + manzu9_count

\* The hand-written table of manzu 1 (position 0) and 9 (position 8), by sanma_manzu_hash.
\* A row: the distances of indices 0, 1, 2, 5 and 6, what to draw and what to discard
\* for each.  The other indices cannot be made of two kinds of tile.
Row(dist, wait, disc) ==
  LET at == [i \in {0, 1, 2, 5, 6} |-> IF i < 5 THEN i + 1 ELSE i - 1]
  IN  [i \in Indices(4) |-> IF i \in DOMAIN at
                            THEN [dist |-> dist[at[i]], wait |-> wait[at[i]], disc |-> disc[at[i]]]
                            ELSE [dist |-> TooFar, wait |-> {}, disc |-> {}]]
sanma_manzu_table ==
  LET n == {}  a == {0}  b == {8}  c == {0, 8}
  IN << Row(<<0, 3, 6, 2, 5>>, <<n, c, c, c, c>>, <<n, n, n, n, n>>),
      Row(<<0, 2, 5, 1, 4>>, <<n, b, c, b, c>>, <<b, n, n, n, n>>),
      Row(<<0, 1, 4, 0, 3>>, <<n, b, c, n, c>>, <<b, n, n, n, n>>),
      Row(<<0, 0, 3, 0, 2>>, <<n, n, a, n, a>>, <<b, n, n, b, n>>),
      Row(<<0, 0, 3, 0, 2>>, <<n, n, a, n, a>>, <<b, b, b, b, b>>),
      Row(<<0, 2, 5, 1, 4>>, <<n, a, c, a, c>>, <<a, n, n, n, n>>),
      Row(<<0, 2, 4, 1, 3>>, <<n, c, c, c, c>>, <<c, c, n, c, n>>),
      Row(<<0, 1, 3, 0, 2>>, <<n, b, c, n, c>>, <<c, a, n, a, n>>),
      Row(<<0, 0, 2, 0, 1>>, <<n, n, a, n, a>>, <<c, a, n, c, n>>),
      Row(<<0, 0, 2, 0, 1>>, <<n, n, a, n, a>>, <<c, c, b, c, b>>),
      Row(<<0, 1, 4, 0, 3>>, <<n, a, c, n, c>>, <<a, n, n, n, n>>),
      Row(<<0, 1, 3, 0, 2>>, <<n, a, c, n, c>>, <<c, b, n, b, n>>),
      Row(<<0, 1, 2, 0, 1>>, <<n, c, c, n, c>>, <<c, c, n, c, n>>),
      Row(<<0, 0, 1, 0, 0>>, <<n, n, a, n, n>>, <<c, a, n, c, n>>),
      Row(<<0, 0, 1, 0, 0>>, <<n, n, a, n, n>>, <<c, c, b, c, b>>),
      Row(<<0, 0, 3, 0, 2>>, <<n, n, b, n, b>>, <<a, n, n, a, n>>),
      Row(<<0, 0, 2, 0, 1>>, <<n, n, b, n, b>>, <<c, b, n, c, n>>),
      Row(<<0, 0, 1, 0, 0>>, <<n, n, b, n, n>>, <<c, b, n, c, n>>),
      Row(<<0, 0, 0, 0, 0>>, <<n, n, n, n, n>>, <<c, c, n, c, c>>),
      Row(<<0, 0, 0, 0, 0>>, <<n, n, n, n, n>>, <<c, c, b, c, c>>),
      Row(<<0, 0, 3, 0, 2>>, <<n, n, b, n, b>>, <<a, a, a, a, a>>),
      Row(<<0, 0, 2, 0, 1>>, <<n, n, b, n, b>>, <<c, c, a, c, a>>),
      Row(<<0, 0, 1, 0, 0>>, <<n, n, b, n, n>>, <<c, c, a, c, a>>),
      Row(<<0, 0, 0, 0, 0>>, <<n, n, n, n, n>>, <<c, c, a, c, c>>),
      Row(<<0, 0, 0, 0, 0>>, <<n, n, n, n, n>>, <<c, c, c, c, c>>) >>

-----------------------------------------------------------------------------
(* The calculators.  Suits are joined from the honors down: joining shifts *)
(* the tiles found so far by the nine of the next suit.                    *)

Shift(K) == {k + 9 : k \in K}
Joined(lhs, rhs) ==
  [dist |-> lhs.dist + rhs.dist, wait |-> Shift(lhs.wait) \cup rhs.wait, disc |-> Shift(lhs.disc) \cup rhs.disc]

\* Mutant of Nearest: of equal distances one counts.
FirstNearest(entries) == CHOOSE e \in entries : \A f \in entries : e.dist <= f.dist

\* shift: a smaller distance replaces, an equal one adds its tiles.
Nearest(entries) ==
  LET Together(near) == [dist |-> (CHOOSE e \in near : TRUE).dist,
                    wait |-> UNION {e.wait : e \in near}, disc |-> UNION {e.disc : e \in near}]
  IN  Together({e \in entries : \A f \in entries : e.dist <= f.dist})

\* Mutant of Splits: the pair is never on the right.
SplitsPairLeft(i) == IF i < 5 THEN {<<j, i - j>> : j \in 0..i} ELSE {<<j, i - j>> : j \in 5..i}

\* The ways to divide groups, and the pair if there is one, between two sides.
Splits(i) == IF i < 5 THEN {<<j, i - j>> : j \in 0..i}
             ELSE {<<j, i - j>> : j \in 5..i} \cup {<<i - j, j>> : j \in 5..i}

add2(lhs, rhs, i) == Nearest({Joined(lhs[s[1]], rhs[s[2]]) : s \in Splits(i)})
add1(lhs, rhs, m) == [i \in Indices(m) |-> add2(lhs, rhs, i)]

Counts(hand, first, size) == [k \in 0..size - 1 |-> hand[first + k]]
Manzu(hand, m, game_mode) ==
  IF game_mode = Sanma THEN sanma_manzu_table[1 + sanma_manzu_hash(hand[0], hand[8])]
  ELSE suits_table[<<Counts(hand, 0, 9), m>>]

\* What a calculator returns: shanten number, necessary and unnecessary tiles.
Found(entry) == [shanten |-> entry.dist - 1, wait |-> entry.wait, disc |-> entry.disc]

\* Of all three calculators; the shanten number alone is the same in any order of suits.
calc_regular(hand, num_melds, game_mode) ==
  LET m == 4 - num_melds
      souzu == add1(honors_table[<<Counts(hand, East, 7), m>>], suits_table[<<Counts(hand, 18, 9), m>>], m)
      pinzu == add1(souzu, suits_table[<<Counts(hand, 9, 9), m>>], m)
  IN  Found(add2(pinzu, Manzu(hand, m, game_mode), 5 + m))

\* ShantenCalculator joins the other way round, and only adds distances.
calc_regular_shanten(hand, num_melds, game_mode) ==
  LET m == 4 - num_melds
      pinzu == add1(Manzu(hand, m, game_mode), suits_table[<<Counts(hand, 9, 9), m>>], m)
      souzu == add1(pinzu, suits_table[<<Counts(hand, 18, 9), m>>], m)
  IN  add2(souzu, honors_table[<<Counts(hand, East, 7), m>>], 5 + m).dist - 1

\* Mutant of calc_seven_pairs: four of a kind are two pairs.
SevenPairsOfFours(hand, game_mode) ==
  LET singles == {k \in Kinds : hand[k] % 2 = 1}
  IN  [shanten |-> 6 - MapThenSumSet(LAMBDA k : hand[k] \div 2, Kinds), wait |-> singles, disc |-> singles]

calc_seven_pairs(hand, game_mode) ==
  LET in_play == {k \in Kinds : game_mode = Sanma => ~is_sanma_disabled(k)}
      pairs == {k \in in_play : hand[k] >= 2}
      singles == {k \in in_play : hand[k] = 1}
      absent == {k \in in_play : hand[k] = 0}
      excess == {k \in in_play : hand[k] >= 3}
      num_types == Cardinality(pairs \cup singles)
  IN  [shanten |-> 6 - Cardinality(pairs) + Max({0, 7 - num_types}),
       wait |-> IF num_types < 7 THEN absent \cup singles
                ELSE IF Cardinality(pairs) = 7 THEN {} ELSE singles,
       disc |-> IF num_types > 7 THEN singles \cup excess ELSE excess]

calc_thirteen_orphans(hand) ==
  LET yaochuu == {k \in Kinds : is_terminal_or_honor(k)}
      held(n) == {k \in yaochuu : hand[k] = n}
      pairs == {k \in yaochuu : hand[k] >= 2}
  IN  [shanten |-> 13 - Cardinality({k \in yaochuu : hand[k] > 0}) - (IF pairs = {} THEN 0 ELSE 1),
       wait |-> IF pairs = {} THEN held(0) \cup held(1) ELSE held(0),
       disc |-> {k \in Kinds \ yaochuu : hand[k] > 0} \cup (pairs \ held(2))
                \cup (IF Cardinality(pairs) >= 2 THEN held(2) ELSE {})]

Closest(results) == {r \in results : \A q \in results : r.shanten <= q.shanten}

\* calc: the types asked for, the two special ones for hands without melds; the least
\* shanten number counts, and the tiles of all types that have it.
calc(hand, num_melds, type, game_mode) ==
  LET results == (IF "StandardHand" \in type THEN {calc_regular(hand, num_melds, game_mode)} ELSE {})
                 \cup (IF "SevenPairs" \in type /\ num_melds = 0 THEN {calc_seven_pairs(hand, game_mode)} ELSE {})
                 \cup (IF "ThirteenOrphans" \in type /\ num_melds = 0 THEN {calc_thirteen_orphans(hand)} ELSE {})
      none == [shanten |-> 100, wait |-> {}, disc |-> {}]
      Together(near) == [shanten |-> (CHOOSE r \in near : TRUE).shanten,
                    wait |-> UNION {r.wait : r \in near}, disc |-> UNION {r.disc : r \in near}]
  IN  Together(Closest(results \cup {none}))
=============================================================================
