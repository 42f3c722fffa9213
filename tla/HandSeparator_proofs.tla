------------------------ MODULE HandSeparator_proofs ------------------------
(***************************************************************************)
(* Lemmas about lists of tiles: what to_hand counts of them, which is      *)
(* defined by a fold on whose arbitrary order nothing may depend, and what *)
(* a list of lists becomes when it is flattened.                           *)
(***************************************************************************)
EXTENDS HandSeparator, FiniteSetTheorems, SequenceTheorems, TLAPS

-----------------------------------------------------------------------------
(* What to_hand counts.                                                    *)

\* Whether a tile counts under a code.
Counted(t, c) == t = c \/ (t \in Reds /\ to_normal(t) = c)
One(t, c) == IF Counted(t, c) THEN 1 ELSE 0

LEMMA AddTileCounts ==
  ASSUME NEW h \in [Codes -> Int], NEW t \in Codes
  PROVE  /\ AddTile(t, h) \in [Codes -> Int]
         /\ \A c \in Codes : AddTile(t, h)[c] = h[c] + One(t, c)
<1>1. CASE t \notin Reds
  <2>1. AddTile(t, h) = [h EXCEPT ![t] = @ + 1]  BY <1>1 DEF AddTile, is_red
  <2>. QED  BY <1>1, <2>1 DEF One, Counted
<1>2. CASE t \in Reds
  <2>1. PICK n \in Codes : n = to_normal(t) /\ n # t
    <3>1. to_normal(t) \in Codes /\ to_normal(t) # t  BY <1>2 DEF to_normal, Reds, Codes
    <3>. QED  BY <3>1
  <2>2. AddTile(t, h) = [h EXCEPT ![t] = @ + 1, ![n] = @ + 1]  BY <1>2, <2>1 DEF AddTile, is_red
  <2>. QED  BY <1>2, <2>1, <2>2 DEF One, Counted
<1>. QED  BY <1>1, <1>2

Chosen(S) == CHOOSE x \in S : TRUE

LEMMA ChosenIn == ASSUME NEW S, S # {}  PROVE Chosen(S) \in S
BY DEF Chosen

\* The fold of to_hand over positions of a list.
Folds(g, s, S) ==
  g = [T \in SUBSET S |-> IF T = {} THEN NoTiles ELSE AddTile(s[Chosen(T)], g[T \ {Chosen(T)}])]

LEMMA HandDef ==
  ASSUME NEW s
  PROVE  to_hand(s) = (CHOOSE g : Folds(g, s, DOMAIN s))[DOMAIN s]
BY Zenon DEF to_hand, FoldSeq, FoldFunction, FoldFunctionOnSet, MapThenFoldSet, Folds, Chosen

LEMMA MinOf ==
  ASSUME NEW F \in SUBSET Nat, F # {}
  PROVE  \E n \in F : \A m \in F : n <= m
<1>1. IsWellFoundedOn(OpToRel(<, Nat), Nat)  BY NatLessThanWellFounded
<1>2. PICK n \in F : \A m \in F : ~ (<<m, n>> \in OpToRel(<, Nat))  BY <1>1, WFMin
<1>3. \A m \in F : ~ (m < n)  BY <1>2 DEF OpToRel
<1>. QED  BY <1>3

\* The fold of all sets with at most n positions.
FoldsTo(g, s, S, n) ==
  \A T \in SUBSET S : Cardinality(T) <= n =>
    g[T] = IF T = {} THEN NoTiles ELSE AddTile(s[Chosen(T)], g[T \ {Chosen(T)}])

\* Without one of its elements.
LEMMA Without ==
  ASSUME NEW S, IsFiniteSet(S), NEW T \in SUBSET S, T # {}
  PROVE  /\ Chosen(T) \in T /\ T \ {Chosen(T)} \in SUBSET S
         /\ Cardinality(T) \in Nat /\ Cardinality(T \ {Chosen(T)}) = Cardinality(T) - 1
<1>1. IsFiniteSet(T)  BY FS_Subset
<1>. QED  BY <1>1, ChosenIn, FS_CardinalityType, FS_RemoveElement

LEMMA FoldExists ==
  ASSUME NEW s, NEW S, IsFiniteSet(S)
  PROVE  \E g : Folds(g, s, S)
<1>. DEFINE F == {n \in Nat : ~ \E g : DOMAIN g = SUBSET S /\ FoldsTo(g, s, S, n)}
<1>1. F = {}
  <2>1. SUFFICES ASSUME F # {} PROVE FALSE  OBVIOUS
  <2>2. F \in SUBSET Nat  OBVIOUS
  <2>3. PICK n \in F : \A m \in F : n <= m
    <3>. HIDE DEF F
    <3>. QED  BY <2>1, <2>2, MinOf
  <2>4. n \in Nat /\ ~ \E g : DOMAIN g = SUBSET S /\ FoldsTo(g, s, S, n)  BY <2>3
  <2>5. n # 0
    <3>1. SUFFICES ASSUME n = 0 PROVE FALSE  OBVIOUS
    <3>2. PICK g : g = [T \in SUBSET S |-> NoTiles]  OBVIOUS
    <3>3. ASSUME NEW T \in SUBSET S, Cardinality(T) <= 0  PROVE T = {}
      <4>1. IsFiniteSet(T)  BY FS_Subset
      <4>. QED  BY <3>3, <4>1, FS_CardinalityType, FS_EmptySet
    <3>4. FoldsTo(g, s, S, 0)  BY <3>2, <3>3 DEF FoldsTo
    <3>. QED  BY <2>4, <3>1, <3>2, <3>4
  <2>6. n - 1 \in Nat /\ n - 1 \notin F
    <3>1. n - 1 \in Nat /\ ~(n <= n - 1)  BY <2>4, <2>5
    <3>. HIDE DEF F
    <3>. QED  BY <2>3, <3>1
  <2>7. PICK g : DOMAIN g = SUBSET S /\ FoldsTo(g, s, S, n - 1)  BY <2>6
  <2>8. PICK h : h = [T \in SUBSET S |-> IF Cardinality(T) = n THEN AddTile(s[Chosen(T)], g[T \ {Chosen(T)}])
                                         ELSE g[T]]
    OBVIOUS
  <2>9. ASSUME NEW T \in SUBSET S, Cardinality(T) <= n
        PROVE  h[T] = IF T = {} THEN NoTiles ELSE AddTile(s[Chosen(T)], h[T \ {Chosen(T)}])
    <3>1. CASE T = {}
      <4>1. Cardinality(T) = 0  BY <3>1, FS_EmptySet
      <4>2. h[T] = g[T] /\ Cardinality(T) <= n - 1  BY <2>4, <2>5, <2>8, <4>1
      <4>3. g[T] = NoTiles  BY <2>7, <3>1, <4>2 DEF FoldsTo
      <4>. QED  BY <3>1, <4>2, <4>3
    <3>2. CASE T # {}
      <4>1. PICK U \in SUBSET S : U = T \ {Chosen(T)}  BY <3>2, Without
      <4>2. Cardinality(T) \in Nat /\ Cardinality(U) = Cardinality(T) - 1  BY <3>2, <4>1, Without
      <4>3. h[U] = g[U]  BY <2>4, <2>8, <2>9, <4>2
      <4>4. h[T] = AddTile(s[Chosen(T)], g[U])
        <5>1. CASE Cardinality(T) = n  BY <2>8, <4>1, <5>1
        <5>2. CASE Cardinality(T) # n
          <6>1. Cardinality(T) <= n - 1  BY <2>4, <2>9, <4>2, <5>2
          <6>2. g[T] = AddTile(s[Chosen(T)], g[U])  BY <2>7, <3>2, <4>1, <6>1 DEF FoldsTo
          <6>. QED  BY <2>8, <5>2, <6>2
        <5>. QED  BY <5>1, <5>2
      <4>. QED  BY <3>2, <4>1, <4>3, <4>4
    <3>. QED  BY <3>1, <3>2
  <2>10. FoldsTo(h, s, S, n)  BY <2>9 DEF FoldsTo
  <2>. QED  BY <2>4, <2>8, <2>10
<1>2. Cardinality(S) \in Nat  BY FS_CardinalityType
<1>3. PICK g : DOMAIN g = SUBSET S /\ FoldsTo(g, s, S, Cardinality(S))  BY <1>1, <1>2
<1>4. PICK h : h = [T \in SUBSET S |-> g[T]]  OBVIOUS
<1>5. ASSUME NEW T \in SUBSET S
      PROVE  h[T] = IF T = {} THEN NoTiles ELSE AddTile(s[Chosen(T)], h[T \ {Chosen(T)}])
  <2>1. Cardinality(T) <= Cardinality(S)  BY FS_Subset
  <2>2. g[T] = IF T = {} THEN NoTiles ELSE AddTile(s[Chosen(T)], g[T \ {Chosen(T)}])
    BY <1>3, <2>1 DEF FoldsTo
  <2>3. T \ {Chosen(T)} \in SUBSET S  OBVIOUS
  <2>4. h[T] = g[T] /\ h[T \ {Chosen(T)}] = g[T \ {Chosen(T)}]  BY <1>4, <2>3
  <2>. QED  BY <2>2, <2>4
<1>6. h = [T \in SUBSET S |-> h[T]]  BY <1>4
<1>7. h = [T \in SUBSET S |-> IF T = {} THEN NoTiles ELSE AddTile(s[Chosen(T)], h[T \ {Chosen(T)}])]
  BY <1>5, <1>6, Zenon
<1>. QED  BY <1>7 DEF Folds

\* How often a code is counted in a part of a list.
CountIn(s, T, c) == Cardinality({i \in T : Counted(s[i], c)})

LEMMA CountInLess ==
  ASSUME NEW s, NEW T, IsFiniteSet(T), NEW i \in T, NEW c
  PROVE  /\ CountIn(s, T, c) \in Nat /\ CountIn(s, T \ {i}, c) \in Nat
         /\ CountIn(s, T, c) = CountIn(s, T \ {i}, c) + One(s[i], c)
<1>1. PICK A, B : A = {j \in T : Counted(s[j], c)} /\ B = {j \in T \ {i} : Counted(s[j], c)}  OBVIOUS
<1>2. IsFiniteSet(A) /\ IsFiniteSet(B)
  <2>1. A \subseteq T /\ B \subseteq T  BY <1>1
  <2>. QED  BY <2>1, FS_Subset
<1>3. Cardinality(A) \in Nat /\ Cardinality(B) \in Nat  BY <1>2, FS_CardinalityType
<1>4. CASE Counted(s[i], c)
  <2>1. i \in A /\ B = A \ {i}  BY <1>1, <1>4
  <2>2. Cardinality(B) = Cardinality(A) - 1  BY <1>2, <2>1, FS_RemoveElement
  <2>. QED  BY <1>1, <1>3, <1>4, <2>2 DEF CountIn, One
<1>5. CASE ~Counted(s[i], c)
  <2>1. B = A  BY <1>1, <1>5
  <2>. QED  BY <1>1, <1>3, <1>5, <2>1 DEF CountIn, One
<1>. QED  BY <1>4, <1>5

LEMMA FoldCounts ==
  ASSUME NEW s, NEW S, IsFiniteSet(S), \A i \in S : s[i] \in Codes,
         NEW g, Folds(g, s, S), NEW T \in SUBSET S
  PROVE  g[T] \in [Codes -> Int] /\ \A c \in Codes : g[T][c] = CountIn(s, T, c)
<1>. DEFINE Good(U) == g[U] \in [Codes -> Int] /\ \A c \in Codes : g[U][c] = CountIn(s, U, c)
            F == {n \in Nat : \E U \in SUBSET S : Cardinality(U) = n /\ ~Good(U)}
<1>1. F = {}
  <2>1. SUFFICES ASSUME F # {} PROVE FALSE  OBVIOUS
  <2>2. F \in SUBSET Nat  OBVIOUS
  <2>3. PICK n \in F : \A m \in F : n <= m
    <3>. HIDE DEF F
    <3>. QED  BY <2>1, <2>2, MinOf
  <2>4. PICK U \in SUBSET S : Cardinality(U) = n /\ ~Good(U)  BY <2>3
  <2>5. g[U] = IF U = {} THEN NoTiles ELSE AddTile(s[Chosen(U)], g[U \ {Chosen(U)}])
    BY Zenon DEF Folds
  <2>6. CASE U = {}
    <3>1. ASSUME NEW c \in Codes  PROVE CountIn(s, U, c) = 0
      <4>1. {i \in U : Counted(s[i], c)} = {}  BY <2>6
      <4>. QED  BY <4>1, FS_EmptySet DEF CountIn
    <3>2. g[U] = [c \in Codes |-> 0]  BY <2>5, <2>6 DEF NoTiles
    <3>. QED  BY <2>4, <3>1, <3>2
  <2>7. CASE U # {}
    <3>1. PICK i, V : i = Chosen(U) /\ V = U \ {i}  OBVIOUS
    <3>2. /\ i \in U /\ V \in SUBSET S
          /\ Cardinality(U) \in Nat /\ Cardinality(V) = Cardinality(U) - 1
      BY <2>7, <3>1, Without
    <3>3. Good(V)
      <4>1. Cardinality(V) \in Nat
        <5>1. IsFiniteSet(V)  BY <3>2, FS_Subset
        <5>. QED  BY <5>1, FS_CardinalityType
      <4>2. Cardinality(V) \notin F
        <5>1. ~(n <= Cardinality(V))  BY <2>4, <3>2
        <5>. HIDE DEF F
        <5>. QED  BY <2>3, <5>1
      <4>. QED  BY <3>2, <4>1, <4>2
    <3>4. s[i] \in Codes /\ IsFiniteSet(U)  BY <3>2, FS_Subset
    <3>5. PICK h : h = g[V]  OBVIOUS
    <3>6. h \in [Codes -> Int] /\ \A c \in Codes : h[c] = CountIn(s, V, c)  BY <3>3, <3>5
    <3>7. g[U] = AddTile(s[i], h)  BY <2>5, <2>7, <3>1, <3>5
    <3>8. AddTile(s[i], h) \in [Codes -> Int] /\ \A c \in Codes : AddTile(s[i], h)[c] = h[c] + One(s[i], c)
      BY <3>4, <3>6, AddTileCounts
    <3>9. \A c \in Codes : CountIn(s, U, c) = CountIn(s, V, c) + One(s[i], c)
      BY <3>1, <3>2, <3>4, CountInLess
    <3>10. \A c \in Codes : g[U][c] = CountIn(s, U, c)  BY <3>6, <3>7, <3>8, <3>9
    <3>. QED  BY <2>4, <3>7, <3>8, <3>10
  <2>. QED  BY <2>6, <2>7
<1>2. Cardinality(T) \in Nat
  <2>1. IsFiniteSet(T)  BY FS_Subset
  <2>. QED  BY <2>1, FS_CardinalityType
<1>. QED  BY <1>1, <1>2

\* A hand made of a list has each code as often as the list counts it.
Tally(s, c) == CountIn(s, 1..Len(s), c)

LEMMA HandCounts ==
  ASSUME NEW s \in Seq(Codes)
  PROVE  /\ to_hand(s) \in [Codes -> Nat]
         /\ \A c \in Codes : to_hand(s)[c] = Tally(s, c)
<1>1. PICK S : S = DOMAIN s  OBVIOUS
<1>2. S = 1..Len(s) /\ Len(s) \in Nat /\ \A i \in S : s[i] \in Codes  BY <1>1
<1>3. IsFiniteSet(S)  BY <1>2, FS_Interval
<1>4. PICK g : Folds(g, s, S) /\ to_hand(s) = g[S]  BY <1>1, <1>3, FoldExists, HandDef, Zenon
<1>5. g[S] \in [Codes -> Int] /\ \A c \in Codes : g[S][c] = CountIn(s, S, c)
  BY <1>2, <1>3, <1>4, FoldCounts
<1>6. ASSUME NEW c \in Codes  PROVE CountIn(s, S, c) \in Nat
  <2>1. {i \in S : Counted(s[i], c)} \subseteq S  OBVIOUS
  <2>. QED  BY <1>3, <2>1, FS_Subset, FS_CardinalityType DEF CountIn
<1>. QED  BY <1>2, <1>4, <1>5, <1>6 DEF Tally

-----------------------------------------------------------------------------
(* Lists one after the other.                                              *)

LEMMA CountsOf ==
  ASSUME NEW s \in Seq(Codes), NEW c
  PROVE  /\ IsFiniteSet({i \in 1..Len(s) : Counted(s[i], c)})
         /\ Tally(s, c) \in Nat /\ Tally(s, c) = Cardinality({i \in 1..Len(s) : Counted(s[i], c)})
<1>1. Len(s) \in Nat  OBVIOUS
<1>2. IsFiniteSet(1..Len(s))  BY <1>1, FS_Interval
<1>3. {i \in 1..Len(s) : Counted(s[i], c)} \subseteq 1..Len(s)  OBVIOUS
<1>4. IsFiniteSet({i \in 1..Len(s) : Counted(s[i], c)})  BY <1>2, <1>3, FS_Subset
<1>. QED  BY <1>4, FS_CardinalityType DEF Tally, CountIn

LEMMA CountConcat ==
  ASSUME NEW s \in Seq(Codes), NEW t \in Seq(Codes), NEW c
  PROVE  Tally(s \o t, c) = Tally(s, c) + Tally(t, c)
<1>1. PICK u \in Seq(Codes) : u = s \o t  BY ConcatProperties
<1>2. PICK m, n \in Nat : m = Len(s) /\ n = Len(t) /\ Len(u) = m + n  BY <1>1
<1>3. PICK A, B, C : /\ A = {i \in 1..m : Counted(s[i], c)}
                     /\ B = {i \in 1..n : Counted(t[i], c)}
                     /\ C = {i \in 1..m + n : Counted(u[i], c)}
  OBVIOUS
<1>4. PICK f : f = [i \in B |-> i + m]  OBVIOUS
<1>5. PICK D : D = {f[i] : i \in B}  OBVIOUS
<1>6. /\ \A i \in 1..m : u[i] = s[i]
      /\ \A i \in 1..n : u[i + m] = t[i]
  BY <1>1, <1>2
<1>7. A \subseteq C /\ D \subseteq C  BY <1>2, <1>3, <1>4, <1>5, <1>6
<1>8. C \subseteq A \cup D
  <2>1. SUFFICES ASSUME NEW i \in C, i \notin A  PROVE i \in D  OBVIOUS
  <2>2. i \in 1..m + n /\ Counted(u[i], c)  BY <1>3
  <2>3. ~(i <= m)  BY <1>2, <1>3, <1>6, <2>1, <2>2
  <2>4. i - m \in 1..n /\ (i - m) + m = i  BY <1>2, <2>2, <2>3
  <2>5. Counted(t[i - m], c)  BY <1>6, <2>2, <2>4
  <2>6. i - m \in B /\ f[i - m] = i  BY <1>3, <1>4, <2>4, <2>5
  <2>. QED  BY <1>5, <2>6
<1>9. A \cap D = {}  BY <1>2, <1>3, <1>4, <1>5
<1>10. IsFiniteSet(A) /\ IsFiniteSet(B)  BY <1>2, <1>3, CountsOf
<1>11. IsFiniteSet(D) /\ Cardinality(D) = Cardinality(B)
  <2>1. f \in [B -> D]  BY <1>4, <1>5
  <2>2. \A i, j \in B : f[i] = f[j] => i = j  BY <1>2, <1>3, <1>4
  <2>3. \A d \in D : \E i \in B : f[i] = d  BY <1>5
  <2>4. f \in Bijection(B, D)  BY <2>1, <2>2, <2>3 DEF Bijection, Injection, Surjection, IsInjective
  <2>5. ExistsBijection(B, D)  BY <2>4 DEF ExistsBijection
  <2>. QED  BY <1>10, <2>5, FS_Bijection
<1>12. Cardinality(C) = Cardinality(A) + Cardinality(D)
  <2>1. C = A \cup D  BY <1>7, <1>8
  <2>2. Cardinality(A \cap D) = 0  BY <1>9, FS_EmptySet
  <2>3. Cardinality(A) \in Nat /\ Cardinality(D) \in Nat  BY <1>10, <1>11, FS_CardinalityType
  <2>4. Cardinality(A \cup D) = Cardinality(A) + Cardinality(D) - Cardinality(A \cap D)
    BY <1>10, <1>11, FS_Union
  <2>. QED  BY <2>1, <2>2, <2>3, <2>4
<1>13. Tally(s, c) = Cardinality(A) /\ Tally(t, c) = Cardinality(B) /\ Tally(u, c) = Cardinality(C)
  BY <1>2, <1>3, CountsOf
<1>. QED  BY <1>1, <1>11, <1>12, <1>13

LEMMA CountRepeat ==
  ASSUME NEW t \in Codes, NEW n \in Nat, NEW c
  PROVE  Repeat(t, n) \in Seq(Codes) /\ Tally(Repeat(t, n), c) = n * One(t, c)
<1>1. PICK s : s = Repeat(t, n)  OBVIOUS
<1>2. s \in Seq(Codes) /\ Len(s) = n /\ \A i \in 1..n : s[i] = t  BY <1>1 DEF Repeat
<1>3. Tally(s, c) = Cardinality({i \in 1..n : Counted(s[i], c)})  BY <1>2, CountsOf
<1>4. CASE Counted(t, c)
  <2>1. {i \in 1..n : Counted(s[i], c)} = 1..n  BY <1>2, <1>4
  <2>2. Cardinality(1..n) = n  BY FS_Interval
  <2>3. One(t, c) = 1  BY <1>4 DEF One
  <2>4. Tally(s, c) = n  BY <1>3, <2>1, <2>2, Zenon
  <2>5. n = n * 1  OBVIOUS
  <2>. QED  BY <1>1, <1>2, <2>3, <2>4, <2>5, Zenon
<1>5. CASE ~Counted(t, c)
  <2>1. {i \in 1..n : Counted(s[i], c)} = {}  BY <1>2, <1>5
  <2>2. Cardinality({}) = 0  BY FS_EmptySet
  <2>3. One(t, c) = 0  BY <1>5 DEF One
  <2>4. Tally(s, c) = n * 0  BY <1>3, <2>1, <2>2
  <2>. QED  BY <1>1, <1>2, <2>3, <2>4, Zenon
<1>. QED  BY <1>4, <1>5

\* The recursion of FlattenSeq over the first n lists.
Flattens(f, Q, n) == f = [i \in 1..n |-> IF i = 1 THEN Q[i] ELSE f[i-1] \o Q[i]]

LEMMA FlattenDef ==
  ASSUME NEW Q, Len(Q) # 0
  PROVE  FlattenSeq(Q) = (CHOOSE f : Flattens(f, Q, Len(Q)))[Len(Q)]
BY Zenon DEF FlattenSeq, Flattens

LEMMA FlattenExists ==
  ASSUME NEW Q, NEW k \in Nat
  PROVE  \E f : Flattens(f, Q, k)
<1>. DEFINE F == {n \in Nat : ~ \E f : Flattens(f, Q, n)}
<1>1. F = {}
  <2>1. SUFFICES ASSUME F # {} PROVE FALSE  OBVIOUS
  <2>2. F \in SUBSET Nat  OBVIOUS
  <2>3. PICK n \in F : \A m \in F : n <= m
    <3>. HIDE DEF F
    <3>. QED  BY <2>1, <2>2, MinOf
  <2>4. n \in Nat /\ ~ \E f : Flattens(f, Q, n)  BY <2>3
  <2>5. n # 0
    <3>1. SUFFICES ASSUME n = 0 PROVE FALSE  OBVIOUS
    <3>2. PICK f : f = [i \in 1..0 |-> IF i = 1 THEN Q[i] ELSE << >>]  OBVIOUS
    <3>3. f = [i \in 1..0 |-> IF i = 1 THEN Q[i] ELSE f[i-1] \o Q[i]]  BY <3>2
    <3>. QED  BY <2>4, <3>1, <3>3 DEF Flattens
  <2>6. n - 1 \in Nat /\ n - 1 \notin F
    <3>1. n - 1 \in Nat /\ ~(n <= n - 1)  BY <2>4, <2>5
    <3>. HIDE DEF F
    <3>. QED  BY <2>3, <3>1
  <2>7. PICK f : Flattens(f, Q, n - 1)  BY <2>6
  <2>8. f = [i \in 1..n - 1 |-> IF i = 1 THEN Q[i] ELSE f[i-1] \o Q[i]]  BY <2>7 DEF Flattens
  <2>9. PICK h : h = [i \in 1..n |-> IF i = 1 THEN Q[i] ELSE f[i-1] \o Q[i]]  OBVIOUS
  <2>10. \A i \in 1..n - 1 : h[i] = f[i]
    <3>1. SUFFICES ASSUME NEW i \in 1..n - 1  PROVE h[i] = f[i]  OBVIOUS
    <3>2. f[i] = IF i = 1 THEN Q[i] ELSE f[i-1] \o Q[i]  BY ONLY <2>8, <3>1, Zenon
    <3>3. i \in 1..n  BY <2>4, <3>1
    <3>4. h[i] = IF i = 1 THEN Q[i] ELSE f[i-1] \o Q[i]  BY ONLY <2>9, <3>3, Zenon
    <3>. QED  BY <3>2, <3>4
  <2>11. ASSUME NEW i \in 1..n  PROVE h[i] = IF i = 1 THEN Q[i] ELSE h[i-1] \o Q[i]
    <3>1. h[i] = IF i = 1 THEN Q[i] ELSE f[i-1] \o Q[i]  BY ONLY <2>9, <2>11, Zenon
    <3>2. i # 1 => i - 1 \in 1..n - 1  BY <2>4
    <3>3. i # 1 => h[i-1] = f[i-1]  BY <2>10, <3>2, Zenon
    <3>. QED  BY <3>1, <3>3, Zenon
  <2>12. h = [i \in 1..n |-> h[i]]  BY ONLY <2>9, Zenon
  <2>13. h = [i \in 1..n |-> IF i = 1 THEN Q[i] ELSE h[i-1] \o Q[i]]  BY <2>11, <2>12, Zenon
  <2>. QED  BY <2>4, <2>13 DEF Flattens
<1>. QED  BY <1>1

\* The lists up to each position, one after the other.
Flattened(f, Q, S) ==
  /\ f[1] = Q[1]
  /\ \A i \in 1..Len(Q) : i # 1 => f[i] = f[i-1] \o Q[i]
  /\ \A i \in 1..Len(Q) : f[i] \in Seq(S)

LEMMA FlattenPrefixes ==
  ASSUME NEW S, NEW Q \in Seq(Seq(S)), Len(Q) # 0
  PROVE  \E f : Flattened(f, Q, S) /\ FlattenSeq(Q) = f[Len(Q)]
<1>1. PICK N \in Nat : N = Len(Q) /\ N # 0  OBVIOUS
<1>2. PICK f : Flattens(f, Q, N) /\ FlattenSeq(Q) = f[N]
  BY <1>1, FlattenExists, FlattenDef, Zenon
<1>3. ASSUME NEW i \in 1..N  PROVE f[i] = IF i = 1 THEN Q[i] ELSE f[i-1] \o Q[i]
  BY <1>2, Zenon DEF Flattens
<1>4. \A i \in 1..N : Q[i] \in Seq(S)  BY <1>1
<1>. DEFINE F == {n \in 1..N : f[n] \notin Seq(S)}
<1>5. F = {}
  <2>1. SUFFICES ASSUME F # {} PROVE FALSE  OBVIOUS
  <2>2. F \in SUBSET Nat  OBVIOUS
  <2>3. PICK n \in F : \A m \in F : n <= m
    <3>. HIDE DEF F
    <3>. QED  BY <2>1, <2>2, MinOf
  <2>4. n \in 1..N /\ f[n] \notin Seq(S)  BY <2>3
  <2>5. n # 1  BY <1>3, <1>4, <2>4
  <2>6. n - 1 \in 1..N /\ ~(n <= n - 1)  BY <1>1, <2>4, <2>5
  <2>7. n - 1 \notin F
    <3>. HIDE DEF F
    <3>. QED  BY <2>3, <2>6
  <2>8. f[n - 1] \in Seq(S)  BY <2>6, <2>7
  <2>9. f[n] = f[n - 1] \o Q[n] /\ Q[n] \in Seq(S)  BY <1>3, <1>4, <2>4, <2>5
  <2>. QED  BY <2>4, <2>8, <2>9
<1>6. f[1] = Q[1]  BY <1>1, <1>3
<1>7. \A i \in 1..N : i # 1 => f[i] = f[i-1] \o Q[i]  BY <1>3
<1>8. \A i \in 1..N : f[i] \in Seq(S)  BY <1>5
<1>9. Flattened(f, Q, S)  BY <1>1, <1>6, <1>7, <1>8, Zenon DEF Flattened
<1>. QED  BY <1>1, <1>2, <1>9

LEMMA FlattenIsList ==
  ASSUME NEW S, NEW Q \in Seq(Seq(S))
  PROVE  FlattenSeq(Q) \in Seq(S)
<1>1. CASE Len(Q) = 0
  <2>1. FlattenSeq(Q) = Q  BY <1>1, Zenon DEF FlattenSeq
  <2>2. Q = << >>  BY <1>1
  <2>. QED  BY <2>1, <2>2
<1>2. CASE Len(Q) # 0
  <2>1. PICK f : Flattened(f, Q, S) /\ FlattenSeq(Q) = f[Len(Q)]  BY <1>2, FlattenPrefixes
  <2>2. Len(Q) \in 1..Len(Q)  BY <1>2
  <2>. QED  BY <2>1, <2>2 DEF Flattened
<1>. QED  BY <1>1, <1>2
=============================================================================
