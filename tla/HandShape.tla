----------------------------- MODULE HandShape -----------------------------
(***************************************************************************)
(* Shanten numbers, necessary and unnecessary tiles, as what they mean: a  *)
(* hand is compared with the complete hands of NumGroups groups and a pair *)
(* that are closest to it.  The calculators of mahjong/core find the same  *)
(* from distance tables of the suits.  Seven pairs and thirteen orphans    *)
(* are only for hands without melds, so not for the hands of this module.  *)
(***************************************************************************)
EXTENDS Integers, FiniteSets, FiniteSetsExt, Functions

CONSTANTS
  Kinds,      \* the kinds of tile considered: of 0..33, with or without the fives 4, 13 and 22
  NumGroups   \* 4 less the melds

Reds == {r \in 34..36 : 4 + 9 * (r - 34) \in Kinds}
Five(r) == 4 + 9 * (r - 34)
Tiles == Kinds \cup Reds

Of(K, n) == [k \in Kinds |-> IF k \in K THEN n ELSE 0]
Triplets == {Of({k}, 3) : k \in Kinds}
Sequences == {Of(k..(k + 2), 1) : k \in {j \in Kinds : j < 27 /\ j % 9 < 7 /\ j..(j + 2) \subseteq Kinds}}
Pairs == {Of({k}, 2) : k \in Kinds}

Sums(A, B) ==
  {h \in {[k \in Kinds |-> a[k] + b[k]] : a \in A, b \in B} : \A k \in Kinds : h[k] <= 4}

\* Complete hands: n groups and a pair, no tile more than four times.
Complete[n \in 0..4] == IF n = 0 THEN Pairs ELSE Sums(Complete[n - 1], Triplets \cup Sequences)
CompleteHands == Complete[NumGroups]

ASSUME ShapeAssumption == Kinds \subseteq 0..33 /\ NumGroups \in 0..4 /\ CompleteHands # {}

Missing(hand, w) == SumFunction([k \in Kinds |-> IF w[k] > hand[k] THEN w[k] - hand[k] ELSE 0])
Distance(hand) == Min({Missing(hand, w) : w \in CompleteHands})
Closest(hand) == LET d == Distance(hand) IN {w \in CompleteHands : Missing(hand, w) = d}

\* -1 complete, 0 one tile away, and so on.
Shanten(hand) == Distance(hand) - 1

\* Tiles that bring the hand closer, and tiles that it can do without.
Necessary(hand) ==
  LET closest == Closest(hand) IN {k \in Kinds : \E w \in closest : w[k] > hand[k]}
Unnecessary(hand) ==
  LET closest == Closest(hand) IN {k \in Kinds : \E w \in closest : hand[k] > w[k]}
=============================================================================
