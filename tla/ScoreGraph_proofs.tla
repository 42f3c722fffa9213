-------------------------- MODULE ScoreGraph_proofs --------------------------
(***************************************************************************)
(* Proofs about the search of ScoreGraph and about the hands it visits,    *)
(* for every set of calls, every number of groups and every selection of   *)
(* kinds of tile.  First come facts about hands as HandShape compares them *)
(* with complete ones: what one tile more and one tile less do to the      *)
(* distance.  They rest on sums over the tiles.  The community modules     *)
(* define SumFunctionOnSet by recursion over an arbitrary choice of the    *)
(* next element; here the choice is shown not to matter.  Induction is by  *)
(* a smallest counterexample.  Then come the vertices and edges of the     *)
(* graph: a cache answers for the hand it is asked for, no hand has two    *)
(* vertices of a kind, and the edges are the draws and discards of the     *)
(* hands.                                                                  *)
(***************************************************************************)
EXTENDS ScoreGraph, FiniteSetTheorems, SequenceTheorems, TLAPS

-----------------------------------------------------------------------------
(* Sums.                                                                   *)


\* A non-empty family of subsets of a finite set has a smallest member.
LEMMA SmallestMember ==
  ASSUME NEW S, IsFiniteSet(S), NEW F \in SUBSET SUBSET S, F # {}
  PROVE  \E T \in F : \A U \in F : U \subseteq T => U = T
<1>1. IsWellFoundedOn(StrictSubsetOrdering(S), SUBSET S)
  BY FS_StrictSubsetOrderingWellFounded, FS_FiniteSubsetsOfFinite
<1>2. PICK T \in F : \A U \in F : ~ (<<U, T>> \in StrictSubsetOrdering(S))
  BY <1>1, WFMin
<1>. QED  BY <1>2 DEF StrictSubsetOrdering

Chosen(s) == CHOOSE x \in s : TRUE

LEMMA ChosenIn == ASSUME NEW s, s # {}  PROVE Chosen(s) \in s
BY DEF Chosen

\* g maps every subset of S to its sum.
Adds(g, fun, S) ==
  g = [s \in SUBSET S |-> IF s = {} THEN 0 ELSE fun[Chosen(s)] + g[s \ {Chosen(s)}]]

LEMMA SumDef ==
  ASSUME NEW fun, NEW S
  PROVE  SumFunctionOnSet(fun, S) = (CHOOSE g : Adds(g, fun, S))[S]
BY Zenon DEF SumFunctionOnSet, FoldFunctionOnSet, MapThenFoldSet, Adds, Chosen

\* One step of the recursion.
LEMMA AddsStep ==
  ASSUME NEW fun, NEW S, NEW g, Adds(g, fun, S), NEW s \in SUBSET S
  PROVE  g[s] = IF s = {} THEN 0 ELSE fun[Chosen(s)] + g[s \ {Chosen(s)}]
BY Zenon DEF Adds

\* Sums of the same finite set are equal.
LEMMA AddsUnique ==
  ASSUME NEW fun, NEW S, NEW T, NEW g, NEW h, Adds(g, fun, S), Adds(h, fun, T),
         NEW s \in SUBSET S, s \in SUBSET T, IsFiniteSet(s)
  PROVE  g[s] = h[s]
<1>. DEFINE F == {r \in SUBSET s : g[r] # h[r]}
<1>1. SUFFICES ASSUME F # {} PROVE FALSE  OBVIOUS
<1>2. F \in SUBSET SUBSET s  OBVIOUS
<1>3. PICK r \in F : \A u \in F : u \subseteq r => u = r
  <2>. HIDE DEF F
  <2>. QED  BY <1>1, <1>2, SmallestMember
<1>4. r \in SUBSET S /\ r \in SUBSET T  OBVIOUS
<1>5. r # {}
  <2>1. r = {} => g[r] = 0 /\ h[r] = 0  BY <1>4, AddsStep
  <2>. QED  BY <1>3, <2>1
<1>6. Chosen(r) \in r  BY <1>5, ChosenIn
<1>7. g[r] = fun[Chosen(r)] + g[r \ {Chosen(r)}]  BY <1>4, <1>5, AddsStep
<1>8. h[r] = fun[Chosen(r)] + h[r \ {Chosen(r)}]  BY <1>4, <1>5, AddsStep
<1>9. r \ {Chosen(r)} \notin F  BY <1>3, <1>6
<1>10. g[r \ {Chosen(r)}] = h[r \ {Chosen(r)}]  BY <1>9
<1>. QED  BY <1>3, <1>7, <1>8, <1>10

\* The sum of a subset, with the function that sums the subset itself.
Own(fun, s) == CHOOSE g : Adds(g, fun, s)

\* Every finite set has a sum.
LEMMA SumExists ==
  ASSUME NEW fun, NEW S, IsFiniteSet(S)
  PROVE  Adds(Own(fun, S), fun, S)
<1>. DEFINE F == {T \in SUBSET S : ~Adds(Own(fun, T), fun, T)}
<1>1. SUFFICES ASSUME F # {} PROVE FALSE  OBVIOUS
<1>2. F \in SUBSET SUBSET S  OBVIOUS
<1>3. PICK T \in F : \A U \in F : U \subseteq T => U = T
  <2>. HIDE DEF F
  <2>. QED  BY <1>1, <1>2, SmallestMember
<1>. DEFINE V(s) == Own(fun, s)[s]
            G == [s \in SUBSET T |-> IF s = {} THEN 0 ELSE fun[Chosen(s)] + V(s \ {Chosen(s)})]
<1>4. ASSUME NEW s \in SUBSET T, s # T  PROVE Adds(Own(fun, s), fun, s)
  BY <1>3, <1>4
<1>5. ASSUME NEW s \in SUBSET T, s # T  PROVE G[s] = V(s)
  <2>1. Adds(Own(fun, s), fun, s)  BY <1>4, <1>5
  <2>2. CASE s = {}  BY <2>1, <2>2, AddsStep
  <2>3. CASE s # {}
    <3>. DEFINE r == s \ {Chosen(s)}
    <3>1. Chosen(s) \in s  BY <2>3, ChosenIn
    <3>2. r \in SUBSET T /\ r \in SUBSET s /\ r # T  BY <3>1
    <3>3. Own(fun, s)[s] = fun[Chosen(s)] + Own(fun, s)[r]  BY <2>1, <2>3, AddsStep
    <3>4. Adds(Own(fun, r), fun, r)  BY <1>4, <3>2
    <3>5. IsFiniteSet(r)  BY <3>2, FS_Subset
    <3>6. Own(fun, s)[r] = Own(fun, r)[r]  BY <2>1, <3>2, <3>4, <3>5, AddsUnique
    <3>7. G[s] = fun[Chosen(s)] + V(r)  BY <2>3
    <3>. QED  BY <3>3, <3>6, <3>7
  <2>. QED  BY <2>2, <2>3
<1>6. ASSUME NEW s \in SUBSET T
      PROVE  G[s] = IF s = {} THEN 0 ELSE fun[Chosen(s)] + G[s \ {Chosen(s)}]
  <2>1. CASE s = {}  BY <2>1
  <2>2. CASE s # {}
    <3>. DEFINE r == s \ {Chosen(s)}
    <3>1. Chosen(s) \in s  BY <2>2, ChosenIn
    <3>2. r \in SUBSET T /\ r # T  BY <3>1
    <3>3. G[r] = V(r)  BY <1>5, <3>2
    <3>4. G[s] = fun[Chosen(s)] + V(r)  BY <2>2
    <3>. QED  BY <2>2, <3>3, <3>4
  <2>. QED  BY <2>1, <2>2
<1>7. G = [s \in SUBSET T |-> G[s]]  OBVIOUS
<1>8. Adds(G, fun, T)
  <2>. HIDE DEF G
  <2>1. G = [s \in SUBSET T |-> IF s = {} THEN 0 ELSE fun[Chosen(s)] + G[s \ {Chosen(s)}]]
    BY <1>6, <1>7, Zenon
  <2>. QED  BY <2>1 DEF Adds
<1>9. Adds(Own(fun, T), fun, T)
  <2>. HIDE DEF G
  <2>. QED  BY <1>8, Zenon DEF Own
<1>. QED  BY <1>3, <1>9

-----------------------------------------------------------------------------
LEMMA SumEmpty ==
  ASSUME NEW fun
  PROVE  SumFunctionOnSet(fun, {}) = 0
<1>1. Adds(Own(fun, {}), fun, {})  BY SumExists, FS_EmptySet
<1>2. Own(fun, {})[{}] = 0  BY <1>1, AddsStep
<1>. QED  BY <1>2, SumDef DEF Own

\* The recursion.
LEMMA SumStep ==
  ASSUME NEW fun, NEW S, IsFiniteSet(S), S # {}
  PROVE  \E x \in S : SumFunctionOnSet(fun, S) = fun[x] + SumFunctionOnSet(fun, S \ {x})
<1>. DEFINE R == S \ {Chosen(S)}
<1>1. Adds(Own(fun, S), fun, S)  BY SumExists
<1>2. Chosen(S) \in S  BY ChosenIn
<1>3. Own(fun, S)[S] = fun[Chosen(S)] + Own(fun, S)[R]  BY <1>1, AddsStep
<1>4. IsFiniteSet(R)  BY FS_Subset
<1>5. Adds(Own(fun, R), fun, R)  BY <1>4, SumExists
<1>6. Own(fun, S)[R] = Own(fun, R)[R]  BY <1>1, <1>4, <1>5, AddsUnique
<1>7. SumFunctionOnSet(fun, S) = Own(fun, S)[S]  BY SumDef DEF Own
<1>8. SumFunctionOnSet(fun, R) = Own(fun, R)[R]  BY SumDef DEF Own
<1>. QED  BY <1>2, <1>3, <1>6, <1>7, <1>8

LEMMA SumInt ==
  ASSUME NEW fun, NEW S, IsFiniteSet(S), \A x \in S : fun[x] \in Int
  PROVE  SumFunctionOnSet(fun, S) \in Int
<1>. DEFINE F == {T \in SUBSET S : SumFunctionOnSet(fun, T) \notin Int}
<1>1. SUFFICES ASSUME F # {} PROVE FALSE  OBVIOUS
<1>2. F \in SUBSET SUBSET S  OBVIOUS
<1>3. PICK T \in F : \A U \in F : U \subseteq T => U = T
  <2>. HIDE DEF F
  <2>. QED  BY <1>1, <1>2, SmallestMember
<1>4. IsFiniteSet(T) /\ T # {}
  <2>1. SumFunctionOnSet(fun, {}) \in Int  BY SumEmpty
  <2>2. SumFunctionOnSet(fun, T) \notin Int  BY <1>3
  <2>3. T # {}  BY <2>1, <2>2, Zenon
  <2>. QED  BY <2>3, FS_Subset
<1>5. PICK x \in T : SumFunctionOnSet(fun, T) = fun[x] + SumFunctionOnSet(fun, T \ {x})
  BY <1>4, SumStep
<1>6. SumFunctionOnSet(fun, T \ {x}) \in Int  BY <1>3
<1>. QED  BY <1>3, <1>5, <1>6

\* Any element can be taken out of a sum, not only the one the definition chooses.
LEMMA SumTakeOut ==
  ASSUME NEW fun, NEW S, IsFiniteSet(S), \A x \in S : fun[x] \in Int, NEW y \in S
  PROVE  SumFunctionOnSet(fun, S) = fun[y] + SumFunctionOnSet(fun, S \ {y})
<1>. DEFINE Sum(T) == SumFunctionOnSet(fun, T)
            F == {T \in SUBSET S : \E z \in T : Sum(T) # fun[z] + Sum(T \ {z})}
<1>1. SUFFICES ASSUME F # {} PROVE FALSE  OBVIOUS
<1>2. F \in SUBSET SUBSET S  OBVIOUS
<1>3. PICK T \in F : \A U \in F : U \subseteq T => U = T
  <2>. HIDE DEF F
  <2>. QED  BY <1>1, <1>2, SmallestMember
<1>4. PICK z \in T : Sum(T) # fun[z] + Sum(T \ {z})  BY <1>3
<1>5. IsFiniteSet(T)  BY <1>3, FS_Subset
<1>6. PICK x \in T : Sum(T) = fun[x] + Sum(T \ {x})  BY <1>4, <1>5, SumStep
<1>7. x # z  BY <1>4, <1>6
<1>8. T \ {x} \notin F /\ T \ {z} \notin F  BY <1>3
<1>9. Sum(T \ {x}) = fun[z] + Sum((T \ {x}) \ {z})  BY <1>7, <1>8, <1>3
<1>10. Sum(T \ {z}) = fun[x] + Sum((T \ {z}) \ {x})  BY <1>7, <1>8, <1>3
<1>11. Sum((T \ {z}) \ {x}) = Sum((T \ {x}) \ {z})
  <2>1. (T \ {z}) \ {x} = (T \ {x}) \ {z}  OBVIOUS
  <2>. QED  BY <2>1, Zenon
<1>12. Sum((T \ {x}) \ {z}) \in Int
  <2>1. IsFiniteSet((T \ {x}) \ {z})  BY <1>5, FS_Subset
  <2>2. \A w \in (T \ {x}) \ {z} : fun[w] \in Int  BY <1>3
  <2>. QED  BY <2>1, <2>2, SumInt
<1>13. fun[x] \in Int /\ fun[z] \in Int  BY <1>3
<1>. HIDE DEF Sum, F
<1>. QED  BY <1>4, <1>6, <1>9, <1>10, <1>11, <1>12, <1>13

LEMMA SumWithout ==
  ASSUME NEW fun, NEW S, IsFiniteSet(S), \A x \in S : fun[x] \in Int, NEW y
  PROVE  SumFunctionOnSet(fun, S) = SumFunctionOnSet(fun, S \ {y}) + (IF y \in S THEN fun[y] ELSE 0)
<1>1. SumFunctionOnSet(fun, S) \in Int  BY SumInt
<1>2. CASE y \in S
  <2>. DEFINE R == S \ {y}
  <2>1. SumFunctionOnSet(fun, S) = fun[y] + SumFunctionOnSet(fun, R)  BY <1>2, SumTakeOut
  <2>2. SumFunctionOnSet(fun, R) \in Int
    <3>1. IsFiniteSet(R) /\ \A x \in R : fun[x] \in Int  BY FS_Subset
    <3>. HIDE DEF R
    <3>. QED  BY <3>1, SumInt
  <2>. QED  BY <1>2, <2>1, <2>2
<1>3. CASE y \notin S
  <2>1. S \ {y} = S  BY <1>3
  <2>2. SumFunctionOnSet(fun, S \ {y}) = SumFunctionOnSet(fun, S)  BY <2>1, Zenon
  <2>. QED  BY <1>1, <1>3, <2>2
<1>. QED  BY <1>2, <1>3

\* The sum of a function over its whole domain.
LEMMA SumWhole ==
  ASSUME NEW D, NEW fun, DOMAIN fun = D
  PROVE  SumFunction(fun) = SumFunctionOnSet(fun, D)
BY DEF SumFunction

\* Functions that agree have equal sums.
LEMMA SumEqual ==
  ASSUME NEW S, IsFiniteSet(S), NEW f, NEW g, \A x \in S : f[x] \in Int /\ f[x] = g[x]
  PROVE  SumFunctionOnSet(f, S) = SumFunctionOnSet(g, S)
<1>. DEFINE F == {T \in SUBSET S : SumFunctionOnSet(f, T) # SumFunctionOnSet(g, T)}
<1>1. SUFFICES ASSUME F # {} PROVE FALSE  OBVIOUS
<1>2. F \in SUBSET SUBSET S  OBVIOUS
<1>3. PICK T \in F : \A U \in F : U \subseteq T => U = T
  <2>. HIDE DEF F
  <2>. QED  BY <1>1, <1>2, SmallestMember
<1>4. SumFunctionOnSet(f, {}) = SumFunctionOnSet(g, {})  BY SumEmpty
<1>5. SumFunctionOnSet(f, T) # SumFunctionOnSet(g, T)  BY <1>3
<1>6. T # {}  BY <1>4, <1>5, Zenon
<1>7. IsFiniteSet(T)  BY <1>3, FS_Subset
<1>8. PICK x \in T : SumFunctionOnSet(f, T) = f[x] + SumFunctionOnSet(f, T \ {x})
  BY <1>6, <1>7, SumStep
<1>9. \A y \in T : g[y] \in Int  BY <1>3
<1>10. SumFunctionOnSet(g, T) = g[x] + SumFunctionOnSet(g, T \ {x})
  BY <1>7, <1>9, SumTakeOut
<1>11. SumFunctionOnSet(f, T \ {x}) = SumFunctionOnSet(g, T \ {x})  BY <1>3
<1>12. f[x] = g[x]  BY <1>3
<1>. QED  BY <1>5, <1>8, <1>10, <1>11, <1>12

\* Changing one value changes the sum by as much.
LEMMA SumChange ==
  ASSUME NEW S, IsFiniteSet(S), NEW f, NEW g, NEW y \in S,
         \A x \in S : f[x] \in Int /\ g[x] \in Int,
         \A x \in S : x # y => f[x] = g[x]
  PROVE  SumFunctionOnSet(g, S) = SumFunctionOnSet(f, S) + g[y] - f[y]
<1>. DEFINE R == S \ {y}
<1>1. IsFiniteSet(R)  BY FS_Subset
<1>2. SumFunctionOnSet(f, S) = f[y] + SumFunctionOnSet(f, R)  BY SumTakeOut
<1>3. SumFunctionOnSet(g, S) = g[y] + SumFunctionOnSet(g, R)  BY SumTakeOut
<1>4. SumFunctionOnSet(f, R) = SumFunctionOnSet(g, R)
  <2>1. \A x \in R : f[x] \in Int /\ f[x] = g[x]  OBVIOUS
  <2>. HIDE DEF R
  <2>. QED  BY <1>1, <2>1, SumEqual
<1>5. SumFunctionOnSet(f, R) \in Int
  <2>1. \A x \in R : f[x] \in Int  OBVIOUS
  <2>. HIDE DEF R
  <2>. QED  BY <1>1, <2>1, SumInt
<1>. QED  BY <1>2, <1>3, <1>4, <1>5

\* A sum of natural numbers is one.
LEMMA SumNat ==
  ASSUME NEW S, IsFiniteSet(S), NEW f, \A x \in S : f[x] \in Nat
  PROVE  SumFunctionOnSet(f, S) \in Nat
<1>. DEFINE F == {T \in SUBSET S : SumFunctionOnSet(f, T) \notin Nat}
<1>1. SUFFICES ASSUME F # {} PROVE FALSE  OBVIOUS
<1>2. F \in SUBSET SUBSET S  OBVIOUS
<1>3. PICK T \in F : \A U \in F : U \subseteq T => U = T
  <2>. HIDE DEF F
  <2>. QED  BY <1>1, <1>2, SmallestMember
<1>4. SumFunctionOnSet(f, {}) \in Nat  BY SumEmpty
<1>5. SumFunctionOnSet(f, T) \notin Nat  BY <1>3
<1>6. T # {}  BY <1>4, <1>5, Zenon
<1>7. IsFiniteSet(T)  BY FS_Subset
<1>8. PICK x \in T : SumFunctionOnSet(f, T) = f[x] + SumFunctionOnSet(f, T \ {x})
  BY <1>6, <1>7, SumStep
<1>9. SumFunctionOnSet(f, T \ {x}) \in Nat  BY <1>3
<1>10. f[x] \in Nat  BY <1>3
<1>. QED  BY <1>5, <1>8, <1>9, <1>10

\* No part of a sum of natural numbers is more than the whole.
LEMMA SumBound ==
  ASSUME NEW S, IsFiniteSet(S), NEW f, \A x \in S : f[x] \in Nat, NEW y \in S
  PROVE  f[y] <= SumFunctionOnSet(f, S)
<1>1. SumFunctionOnSet(f, S) = f[y] + SumFunctionOnSet(f, S \ {y})  BY SumTakeOut
<1>2. IsFiniteSet(S \ {y})  BY FS_Subset
<1>3. \A x \in S \ {y} : f[x] \in Nat  OBVIOUS
<1>4. SumFunctionOnSet(f, S \ {y}) \in Nat  BY <1>2, <1>3, SumNat
<1>. QED  BY <1>1, <1>4

\* Summing zeros.
LEMMA SumZero ==
  ASSUME NEW S, IsFiniteSet(S), NEW f, \A x \in S : f[x] = 0
  PROVE  SumFunctionOnSet(f, S) = 0
<1>. DEFINE F == {T \in SUBSET S : SumFunctionOnSet(f, T) # 0}
<1>1. SUFFICES ASSUME F # {} PROVE FALSE  OBVIOUS
<1>2. F \in SUBSET SUBSET S  OBVIOUS
<1>3. PICK T \in F : \A U \in F : U \subseteq T => U = T
  <2>. HIDE DEF F
  <2>. QED  BY <1>1, <1>2, SmallestMember
<1>4. SumFunctionOnSet(f, {}) = 0  BY SumEmpty
<1>5. SumFunctionOnSet(f, T) # 0  BY <1>3
<1>6. T # {}  BY <1>4, <1>5, Zenon
<1>7. IsFiniteSet(T)  BY FS_Subset
<1>8. PICK x \in T : SumFunctionOnSet(f, T) = f[x] + SumFunctionOnSet(f, T \ {x})
  BY <1>6, <1>7, SumStep
<1>9. SumFunctionOnSet(f, T \ {x}) = 0  BY <1>3
<1>10. f[x] = 0  BY <1>3
<1>. QED  BY <1>5, <1>8, <1>9, <1>10

\* The sum of what two functions add up to.
LEMMA SumPlus ==
  ASSUME NEW S, IsFiniteSet(S), NEW f, NEW g, NEW h,
         \A x \in S : f[x] \in Int /\ g[x] \in Int /\ h[x] = f[x] + g[x]
  PROVE  SumFunctionOnSet(h, S) = SumFunctionOnSet(f, S) + SumFunctionOnSet(g, S)
<1>. DEFINE Sum(a, T) == SumFunctionOnSet(a, T)
            F == {T \in SUBSET S : Sum(h, T) # Sum(f, T) + Sum(g, T)}
<1>1. SUFFICES ASSUME F # {} PROVE FALSE  OBVIOUS
<1>2. F \in SUBSET SUBSET S  OBVIOUS
<1>3. PICK T \in F : \A U \in F : U \subseteq T => U = T
  <2>. HIDE DEF F
  <2>. QED  BY <1>1, <1>2, SmallestMember
<1>4. Sum(h, T) # Sum(f, T) + Sum(g, T)  BY <1>3
<1>5. Sum(f, {}) = 0 /\ Sum(g, {}) = 0 /\ Sum(h, {}) = 0  BY SumEmpty
<1>6. T # {}
  <2>1. SUFFICES ASSUME T = {} PROVE FALSE  OBVIOUS
  <2>2. Sum(h, {}) # Sum(f, {}) + Sum(g, {})  BY <1>4, <2>1, Zenon
  <2>. HIDE DEF Sum
  <2>. QED  BY <1>5, <2>2
<1>7. IsFiniteSet(T)  BY FS_Subset
<1>8. PICK x \in T : Sum(h, T) = h[x] + Sum(h, T \ {x})  BY <1>6, <1>7, SumStep
<1>9. \A y \in T : f[y] \in Int /\ g[y] \in Int  BY <1>3
<1>10. Sum(f, T) = f[x] + Sum(f, T \ {x}) /\ Sum(g, T) = g[x] + Sum(g, T \ {x})
  BY <1>7, <1>9, SumTakeOut
<1>11. Sum(h, T \ {x}) = Sum(f, T \ {x}) + Sum(g, T \ {x})  BY <1>3
<1>12. Sum(f, T \ {x}) \in Int /\ Sum(g, T \ {x}) \in Int
  <2>1. IsFiniteSet(T \ {x}) /\ \A y \in T \ {x} : f[y] \in Int /\ g[y] \in Int
    BY <1>7, <1>9, FS_Subset
  <2>. QED  BY <2>1, SumInt
<1>13. f[x] \in Int /\ g[x] \in Int /\ h[x] = f[x] + g[x]  BY <1>3
<1>. HIDE DEF Sum, F
<1>. QED  BY <1>4, <1>8, <1>10, <1>11, <1>12, <1>13

\* A common factor.
LEMMA SumTimes ==
  ASSUME NEW S, IsFiniteSet(S), NEW f, NEW g, NEW c \in Int,
         \A x \in S : f[x] \in Int /\ g[x] = f[x] * c
  PROVE  SumFunctionOnSet(g, S) = SumFunctionOnSet(f, S) * c
<1>. DEFINE Sum(a, T) == SumFunctionOnSet(a, T)
            F == {T \in SUBSET S : Sum(g, T) # Sum(f, T) * c}
<1>1. SUFFICES ASSUME F # {} PROVE FALSE  OBVIOUS
<1>2. F \in SUBSET SUBSET S  OBVIOUS
<1>3. PICK T \in F : \A U \in F : U \subseteq T => U = T
  <2>. HIDE DEF F
  <2>. QED  BY <1>1, <1>2, SmallestMember
<1>4. Sum(g, T) # Sum(f, T) * c  BY <1>3
<1>5. Sum(f, {}) = 0 /\ Sum(g, {}) = 0  BY SumEmpty
<1>6. T # {}
  <2>1. SUFFICES ASSUME T = {} PROVE FALSE  OBVIOUS
  <2>2. Sum(g, {}) # Sum(f, {}) * c  BY <1>4, <2>1, Zenon
  <2>. HIDE DEF Sum
  <2>. QED  BY <1>5, <2>2
<1>7. IsFiniteSet(T)  BY FS_Subset
<1>8. PICK x \in T : Sum(g, T) = g[x] + Sum(g, T \ {x})  BY <1>6, <1>7, SumStep
<1>9. \A y \in T : f[y] \in Int  BY <1>3
<1>10. Sum(f, T) = f[x] + Sum(f, T \ {x})  BY <1>7, <1>9, SumTakeOut
<1>11. Sum(g, T \ {x}) = Sum(f, T \ {x}) * c  BY <1>3
<1>12. Sum(f, T \ {x}) \in Int
  <2>1. IsFiniteSet(T \ {x}) /\ \A y \in T \ {x} : f[y] \in Int  BY <1>7, <1>9, FS_Subset
  <2>. QED  BY <2>1, SumInt
<1>13. f[x] \in Int /\ g[x] = f[x] * c  BY <1>3
<1>. HIDE DEF Sum, F
<1>14. PICK a \in Int, b \in Int : a = f[x] /\ b = Sum(f, T \ {x})  BY <1>12, <1>13
<1>15. (a + b) * c = a * c + b * c  OBVIOUS
<1>. QED  BY <1>4, <1>8, <1>10, <1>11, <1>13, <1>14, <1>15

\* The sum of a function that is n on one element and 0 elsewhere.
LEMMA SumOne ==
  ASSUME NEW S, IsFiniteSet(S), NEW f, NEW y \in S, f[y] \in Int,
         \A x \in S : x # y => f[x] = 0
  PROVE  SumFunctionOnSet(f, S) = f[y]
<1>1. \A x \in S : f[x] \in Int  OBVIOUS
<1>2. SumFunctionOnSet(f, S) = f[y] + SumFunctionOnSet(f, S \ {y})  BY <1>1, SumTakeOut
<1>3. IsFiniteSet(S \ {y}) /\ \A x \in S \ {y} : f[x] = 0  BY FS_Subset
<1>4. SumFunctionOnSet(f, S \ {y}) = 0  BY <1>3, SumZero
<1>. QED  BY <1>2, <1>4

\* Sums of larger numbers are larger.
LEMMA SumMono ==
  ASSUME NEW S, IsFiniteSet(S), NEW f, NEW g,
         \A x \in S : f[x] \in Int /\ g[x] \in Int /\ f[x] <= g[x]
  PROVE  SumFunctionOnSet(f, S) <= SumFunctionOnSet(g, S)
<1>. DEFINE d == [x \in S |-> g[x] - f[x]]
<1>1. \A x \in S : f[x] \in Int /\ d[x] \in Int /\ d[x] \in Nat /\ g[x] = f[x] + d[x]
  OBVIOUS
<1>. HIDE DEF d
<1>2. SumFunctionOnSet(g, S) = SumFunctionOnSet(f, S) + SumFunctionOnSet(d, S)
  BY <1>1, SumPlus
<1>3. SumFunctionOnSet(d, S) \in Nat  BY <1>1, SumNat
<1>4. SumFunctionOnSet(f, S) \in Int  BY SumInt
<1>. QED  BY <1>2, <1>3, <1>4

-----------------------------------------------------------------------------
\* A non-empty set of natural numbers has a minimum.
LEMMA MinOf ==
  ASSUME NEW S \in SUBSET Nat, S # {}
  PROVE  Min(S) \in S /\ \A x \in S : Min(S) <= x
<1>1. IsWellFoundedOn(OpToRel(<, Nat), Nat)  BY NatLessThanWellFounded
<1>2. PICK m \in S : \A x \in S : ~ (<<x, m>> \in OpToRel(<, Nat))  BY <1>1, WFMin
<1>3. ASSUME NEW x \in S  PROVE m <= x
  <2>1. <<x, m>> \in Nat \X Nat /\ <<x, m>>[1] = x /\ <<x, m>>[2] = m  OBVIOUS
  <2>2. ~ (x < m)  BY <1>2, <2>1 DEF OpToRel
  <2>. QED  BY <2>1, <2>2
<1>4. \E m2 \in S : \A x \in S : m2 =< x  BY <1>3
<1>. QED  BY <1>4 DEF Min

\* A non-empty finite set of integers has a maximum.
LEMMA MaxOf ==
  ASSUME NEW S, IsFiniteSet(S), S # {}, \A x \in S : x \in Int
  PROVE  Max(S) \in S /\ \A x \in S : Max(S) >= x
<1>. DEFINE F == {T \in SUBSET S : T # {} /\ ~ \E m \in T : \A x \in T : m >= x}
<1>1. SUFFICES ASSUME F # {} PROVE FALSE
  <2>1. \E m \in S : \A x \in S : m >= x  OBVIOUS
  <2>. QED  BY <2>1 DEF Max
<1>2. F \in SUBSET SUBSET S  OBVIOUS
<1>3. PICK T \in F : \A U \in F : U \subseteq T => U = T
  <2>. HIDE DEF F
  <2>. QED  BY <1>1, <1>2, SmallestMember
<1>4. /\ T \in SUBSET S /\ T # {}
      /\ ~ \E m \in T : \A x \in T : m >= x
  BY <1>3
<1>5. PICK y \in T : TRUE  BY <1>4
<1>6. y \in Int /\ \A x \in T : x \in Int  BY <1>4
<1>7. T \ {y} # {}  BY <1>4, <1>6
<1>8. PICK m \in T \ {y} : \A x \in T \ {y} : m >= x
  <2>1. T \ {y} \in SUBSET S /\ T \ {y} \subseteq T /\ T \ {y} # T  BY <1>4, <1>5
  <2>2. T \ {y} \notin F  BY <1>3, <2>1
  <2>3. PICK R : R = T \ {y}  OBVIOUS
  <2>4. R \in SUBSET S /\ R # {} /\ R \notin F  BY <1>7, <2>1, <2>2, <2>3
  <2>5. \E m \in R : \A x \in R : m >= x  BY <2>4
  <2>. QED  BY <2>3, <2>5
<1>9. CASE m >= y  BY <1>4, <1>6, <1>8, <1>9
<1>10. CASE ~(m >= y)
  <2>1. m \in Int /\ y >= m  BY <1>6, <1>8, <1>10
  <2>2. \A x \in T : y >= x  BY <1>6, <1>8, <2>1
  <2>. QED  BY <1>4, <2>2
<1>. QED  BY <1>9, <1>10

-----------------------------------------------------------------------------
(* The recursion of Complete: the prover knows a recursive function as one *)
(* that satisfies its equation if there is any, so there has to be one.    *)

Groups == Triplets \cup Sequences
Builds(f) == f = [n \in 0..4 |-> IF n = 0 THEN Pairs ELSE Sums(f[n - 1], Groups)]

LEMMA SomeBuilds == \E f : Builds(f)
<1>1. PICK c0, c1 : c0 = Pairs /\ c1 = Sums(c0, Groups)  OBVIOUS
<1>2. PICK c2, c3 : c2 = Sums(c1, Groups) /\ c3 = Sums(c2, Groups)  OBVIOUS
<1>3. PICK c4 : c4 = Sums(c3, Groups)  OBVIOUS
<1>4. PICK f : f = [n \in 0..4 |-> IF n = 0 THEN c0 ELSE IF n = 1 THEN c1 ELSE IF n = 2 THEN c2
                                   ELSE IF n = 3 THEN c3 ELSE c4]
  OBVIOUS
<1>5. f[0] = c0 /\ f[1] = c1 /\ f[2] = c2 /\ f[3] = c3 /\ f[4] = c4  BY <1>4
<1>6. ASSUME NEW n \in 0..4  PROVE f[n] = IF n = 0 THEN Pairs ELSE Sums(f[n - 1], Groups)
  <2>1. n = 0 \/ (n = 1 /\ n - 1 = 0) \/ (n = 2 /\ n - 1 = 1) \/ (n = 3 /\ n - 1 = 2) \/ (n = 4 /\ n - 1 = 3)
    OBVIOUS
  <2>2. CASE n = 0  BY <1>1, <1>5, <2>2
  <2>3. CASE n # 0  BY <1>1, <1>2, <1>3, <1>5, <2>1, <2>3
  <2>. QED  BY <2>2, <2>3
<1>7. f = [n \in 0..4 |-> f[n]]  BY <1>4
<1>8. f = [n \in 0..4 |-> IF n = 0 THEN Pairs ELSE Sums(f[n - 1], Groups)]  BY <1>6, <1>7, Zenon
<1>. QED  BY <1>8, Zenon DEF Builds

\* The equation of Complete.
LEMMA CompleteDef ==
  /\ Complete[0] = Pairs
  /\ \A n \in 1..4 : Complete[n] = Sums(Complete[n - 1], Groups)
<1>1. Complete = CHOOSE c : Builds(c)  BY DEF Complete, Builds, Groups
<1>2. Builds(Complete)  BY <1>1, SomeBuilds
<1>3. \A n \in 0..4 : Complete[n] = IF n = 0 THEN Pairs ELSE Sums(Complete[n - 1], Groups)
  BY <1>2 DEF Builds
<1>. QED  BY <1>3

-----------------------------------------------------------------------------
(* Complete hands, and hands compared with them.                           *)

Counts == [Kinds -> Nat]
Size(w) == SumFunctionOnSet(w, Kinds)

LEMMA KindsFinite == IsFiniteSet(Kinds) /\ \A k \in Kinds : k \in Nat
<1>1. Kinds \subseteq 0..33  BY ShapeAssumption
<1>2. PICK a \in Int, b \in Int : a = 0 /\ b = 33  OBVIOUS
<1>3. IsFiniteSet(a..b)  BY FS_Interval
<1>4. IsFiniteSet(Kinds)  BY <1>1, <1>2, <1>3, FS_Subset
<1>. QED  BY <1>1, <1>4

LEMMA SameKind ==
  ASSUME NEW k \in Kinds, NEW n \in Nat
  PROVE  Of({k}, n) \in Counts /\ Size(Of({k}, n)) = n
<1>. DEFINE w == Of({k}, n)
<1>1. w \in Counts /\ w[k] = n /\ \A x \in Kinds : x # k => w[x] = 0  BY DEF Of, Counts
<1>. HIDE DEF w
<1>2. SumFunctionOnSet(w, Kinds) = w[k]  BY <1>1, KindsFinite, SumOne
<1>3. Size(w) = n  BY <1>1, <1>2 DEF Size
<1>. QED  BY <1>1, <1>3 DEF w

LEMMA RunOfKinds ==
  ASSUME NEW k \in Kinds, k + 1 \in Kinds, k + 2 \in Kinds
  PROVE  Of(k..(k + 2), 1) \in Counts /\ Size(Of(k..(k + 2), 1)) = 3
<1>1. k \in Nat  BY KindsFinite
<1>2. PICK a, b, c, w : /\ a = Of({k}, 1) /\ b = Of({k + 1}, 1) /\ c = Of({k + 2}, 1)
                        /\ w = Of(k..(k + 2), 1)
  OBVIOUS
<1>3. PICK ab : ab = [x \in Kinds |-> a[x] + b[x]]  OBVIOUS
<1>4. /\ a \in Counts /\ b \in Counts /\ c \in Counts
      /\ Size(a) = 1 /\ Size(b) = 1 /\ Size(c) = 1
  BY <1>2, SameKind
<1>5. w \in Counts  BY <1>2 DEF Of, Counts
<1>6. ASSUME NEW x \in Kinds
      PROVE  w[x] = a[x] + b[x] + c[x]
  <2>1. x \in Nat  BY KindsFinite
  <2>2. a[x] = IF x = k THEN 1 ELSE 0  BY <1>2 DEF Of
  <2>3. b[x] = IF x = k + 1 THEN 1 ELSE 0  BY <1>2 DEF Of
  <2>4. c[x] = IF x = k + 2 THEN 1 ELSE 0  BY <1>2 DEF Of
  <2>5. w[x] = IF x \in k..(k + 2) THEN 1 ELSE 0  BY <1>2 DEF Of
  <2>6. x \in k..(k + 2) <=> x = k \/ x = k + 1 \/ x = k + 2  BY <1>1, <2>1
  <2>. QED  BY <1>1, <2>1, <2>2, <2>3, <2>4, <2>5, <2>6
<1>7. Size(ab) = Size(a) + Size(b)
  <2>1. \A x \in Kinds : a[x] \in Int /\ b[x] \in Int /\ ab[x] = a[x] + b[x]
    BY <1>3, <1>4 DEF Counts
  <2>2. SumFunctionOnSet(ab, Kinds) = SumFunctionOnSet(a, Kinds) + SumFunctionOnSet(b, Kinds)
    BY <2>1, KindsFinite, SumPlus
  <2>. QED  BY <2>2 DEF Size
<1>8. Size(w) = Size(ab) + Size(c)
  <2>1. \A x \in Kinds : ab[x] \in Int /\ c[x] \in Int /\ w[x] = ab[x] + c[x]
    BY <1>3, <1>4, <1>6 DEF Counts
  <2>2. SumFunctionOnSet(w, Kinds) = SumFunctionOnSet(ab, Kinds) + SumFunctionOnSet(c, Kinds)
    BY <2>1, KindsFinite, SumPlus
  <2>. QED  BY <2>2 DEF Size
<1>. QED  BY <1>2, <1>4, <1>5, <1>7, <1>8

LEMMA GroupSize == \A g \in Groups : g \in Counts /\ Size(g) = 3
<1>1. ASSUME NEW g \in Triplets  PROVE g \in Counts /\ Size(g) = 3
  <2>1. PICK k \in Kinds : g = Of({k}, 3)  BY DEF Triplets
  <2>. QED  BY <2>1, SameKind
<1>2. ASSUME NEW g \in Sequences  PROVE g \in Counts /\ Size(g) = 3
  <2>1. PICK k \in Kinds : g = Of(k..(k + 2), 1) /\ k..(k + 2) \subseteq Kinds
    BY DEF Sequences
  <2>2. k + 1 \in Kinds /\ k + 2 \in Kinds  BY <2>1, KindsFinite
  <2>. QED  BY <2>1, <2>2, RunOfKinds
<1>. QED  BY <1>1, <1>2 DEF Groups

\* A complete hand has the tiles of its groups and its pair.
LEMMA CompleteSize ==
  \A n \in 0..4 : \A w \in Complete[n] : w \in Counts /\ Size(w) = 3 * n + 2
<1>. DEFINE F == {n \in 0..4 : ~ \A w \in Complete[n] : w \in Counts /\ Size(w) = 3 * n + 2}
<1>1. SUFFICES ASSUME F # {} PROVE FALSE  OBVIOUS
<1>2. F \in SUBSET Nat  OBVIOUS
<1>3. PICK n \in F : \A j \in F : n <= j
  <2>. HIDE DEF F
  <2>. QED  BY <1>1, <1>2, MinOf
<1>4. n \in 0..4  BY <1>3
<1>5. PICK w \in Complete[n] : ~(w \in Counts /\ Size(w) = 3 * n + 2)  BY <1>3
<1>6. CASE n = 0
  <2>1. w \in Pairs  BY <1>5, <1>6, CompleteDef
  <2>2. PICK k \in Kinds : w = Of({k}, 2)  BY <2>1 DEF Pairs
  <2>3. w \in Counts /\ Size(w) = 2  BY <2>2, SameKind
  <2>. QED  BY <1>5, <1>6, <2>3
<1>7. CASE n # 0
  <2>1. n - 1 \in 0..4 /\ n \in 1..4 /\ ~(n <= n - 1)  BY <1>4, <1>7
  <2>2. \A v \in Complete[n - 1] : v \in Counts /\ Size(v) = 3 * (n - 1) + 2  BY <1>3, <2>1
  <2>3. w \in Sums(Complete[n - 1], Groups)
    <3>1. Complete[n] = Sums(Complete[n - 1], Groups)  BY <2>1, CompleteDef
    <3>. QED  BY <1>5, <3>1, Zenon
  <2>4. PICK a \in Complete[n - 1], b \in Groups : w = [k \in Kinds |-> a[k] + b[k]]
    BY <2>3 DEF Sums
  <2>5. a \in Counts /\ Size(a) = 3 * (n - 1) + 2 /\ b \in Counts /\ Size(b) = 3
    BY <2>2, <2>4, GroupSize
  <2>6. \A k \in Kinds : a[k] \in Int /\ b[k] \in Int /\ w[k] = a[k] + b[k]
    BY <2>4, <2>5 DEF Counts
  <2>7. Size(w) = Size(a) + Size(b)  BY <2>6, KindsFinite, SumPlus DEF Size
  <2>8. w \in Counts  BY <2>4, <2>5 DEF Counts
  <2>. QED  BY <1>4, <1>5, <2>5, <2>7, <2>8
<1>. QED  BY <1>6, <1>7

LEMMA CompleteHandSize ==
  \A w \in CompleteHands : w \in Counts /\ Size(w) = 3 * NumGroups + 2
<1>1. NumGroups \in 0..4  BY ShapeAssumption
<1>. QED  BY <1>1, CompleteSize DEF CompleteHands

\* What a hand lacks of another one.
Gap(m, w) == [k \in Kinds |-> IF w[k] > m[k] THEN w[k] - m[k] ELSE 0]

LEMMA MissingGap ==
  ASSUME NEW m, \A k \in Kinds : m[k] \in Nat, NEW w \in Counts
  PROVE  /\ Missing(m, w) = SumFunctionOnSet(Gap(m, w), Kinds)
         /\ \A k \in Kinds : Gap(m, w)[k] \in Nat /\ (Gap(m, w)[k] = 0 <=> w[k] <= m[k])
<1>. DEFINE g == Gap(m, w)
<1>1. Missing(m, w) = SumFunction(g)  BY DEF Missing, Gap
<1>2. DOMAIN g = Kinds  BY DEF Gap
<1>3. ASSUME NEW k \in Kinds  PROVE g[k] \in Nat /\ (g[k] = 0 <=> w[k] <= m[k])
  <2>1. w[k] \in Nat /\ m[k] \in Nat  BY DEF Counts
  <2>2. g[k] = IF w[k] > m[k] THEN w[k] - m[k] ELSE 0  BY DEF Gap
  <2>. HIDE DEF g
  <2>. QED  BY <2>1, <2>2
<1>. HIDE DEF g
<1>4. SumFunction(g) = SumFunctionOnSet(g, Kinds)  BY <1>2, SumWhole
<1>. QED  BY <1>1, <1>3, <1>4 DEF g

LEMMA MissingNothing ==
  ASSUME NEW m, \A k \in Kinds : m[k] \in Nat, NEW w \in Counts
  PROVE  /\ Missing(m, w) \in Nat
         /\ Missing(m, w) = 0 <=> \A k \in Kinds : w[k] <= m[k]
<1>. PICK g : g = Gap(m, w)  OBVIOUS
<1>1. /\ Missing(m, w) = SumFunctionOnSet(g, Kinds)
      /\ \A k \in Kinds : g[k] \in Nat /\ (g[k] = 0 <=> w[k] <= m[k])
  BY MissingGap
<1>2. SumFunctionOnSet(g, Kinds) \in Nat  BY <1>1, KindsFinite, SumNat
<1>3. ASSUME \A k \in Kinds : w[k] <= m[k]  PROVE SumFunctionOnSet(g, Kinds) = 0
  BY <1>1, <1>3, KindsFinite, SumZero
<1>4. ASSUME SumFunctionOnSet(g, Kinds) = 0, NEW k \in Kinds  PROVE w[k] <= m[k]
  <2>1. g[k] <= SumFunctionOnSet(g, Kinds)  BY <1>1, KindsFinite, SumBound
  <2>2. g[k] = 0  BY <1>1, <1>4, <2>1
  <2>. QED  BY <1>1, <2>2
<1>. QED  BY <1>1, <1>2, <1>3, <1>4

\* One tile more, if it was missing, is one tile less that is missing.
LEMMA MissingLess ==
  ASSUME NEW m, NEW n, \A x \in Kinds : m[x] \in Nat /\ n[x] \in Nat,
         NEW k \in Kinds, n[k] = m[k] + 1, \A x \in Kinds : x # k => n[x] = m[x],
         NEW w \in Counts
  PROVE  Missing(m, w) = Missing(n, w) + (IF w[k] > m[k] THEN 1 ELSE 0)
<1>. PICK g, h : g = Gap(m, w) /\ h = Gap(n, w)  OBVIOUS
<1>1. /\ Missing(m, w) = SumFunctionOnSet(g, Kinds)
      /\ Missing(n, w) = SumFunctionOnSet(h, Kinds)
      /\ \A x \in Kinds : g[x] \in Nat /\ h[x] \in Nat
  BY MissingGap
<1>2. \A x \in Kinds : x # k => h[x] = g[x]  BY DEF Gap
<1>3. g[k] = h[k] + (IF w[k] > m[k] THEN 1 ELSE 0)
  <2>1. w[k] \in Nat /\ m[k] \in Nat /\ n[k] = m[k] + 1  BY DEF Counts
  <2>2. g[k] = IF w[k] > m[k] THEN w[k] - m[k] ELSE 0  BY DEF Gap
  <2>3. h[k] = IF w[k] > n[k] THEN w[k] - n[k] ELSE 0  BY DEF Gap
  <2>. QED  BY <2>1, <2>2, <2>3
<1>4. SumFunctionOnSet(g, Kinds) = SumFunctionOnSet(h, Kinds) + g[k] - h[k]
  <2>1. \A x \in Kinds : h[x] \in Int /\ g[x] \in Int  BY <1>1
  <2>2. IsFiniteSet(Kinds)  BY KindsFinite
  <2>. QED  BY <1>2, <2>1, <2>2, SumChange
<1>5. SumFunctionOnSet(h, Kinds) \in Nat /\ h[k] \in Nat  BY <1>1, KindsFinite, SumNat
<1>. QED  BY <1>1, <1>3, <1>4, <1>5

\* The distance of a hand is what it lacks of a complete hand closest to it.
LEMMA DistanceOf ==
  ASSUME NEW m, \A k \in Kinds : m[k] \in Nat
  PROVE  /\ Distance(m) \in Nat
         /\ \E w \in CompleteHands : Missing(m, w) = Distance(m)
         /\ \A w \in CompleteHands : Distance(m) <= Missing(m, w)
<1>. DEFINE D == {Missing(m, w) : w \in CompleteHands}
<1>1. D \in SUBSET Nat
  <2>1. \A w \in CompleteHands : Missing(m, w) \in Nat  BY CompleteHandSize, MissingNothing
  <2>. QED  BY <2>1
<1>2. D # {}  BY ShapeAssumption
<1>3. Distance(m) = Min(D)  BY DEF Distance
<1>4. Min(D) \in D /\ \A x \in D : Min(D) <= x
  <2>. HIDE DEF D
  <2>. QED  BY <1>1, <1>2, MinOf
<1>5. PICK d : d = Distance(m)  OBVIOUS
<1>6. d \in D /\ \A x \in D : d <= x  BY <1>3, <1>4, <1>5, Zenon
<1>. QED  BY <1>1, <1>5, <1>6

\* A hand of fewer tiles than a complete one is not complete; with one tile more it is,
\* exactly if one tile was missing and this is one of those that bring it closer.
LEMMA OneMore ==
  ASSUME NEW m, NEW n, \A x \in Kinds : m[x] \in Nat /\ n[x] \in Nat,
         NEW k \in Kinds, n[k] = m[k] + 1, \A x \in Kinds : x # k => n[x] = m[x],
         Size(m) < 3 * NumGroups + 2
  PROVE  Shanten(n) = -1 <=> Shanten(m) = 0 /\ k \in Necessary(m)
<1>1. /\ Distance(m) \in Nat /\ Distance(n) \in Nat
      /\ \A w \in CompleteHands : Distance(m) <= Missing(m, w) /\ Distance(n) <= Missing(n, w)
  BY DistanceOf
<1>2. \A w \in CompleteHands :
         /\ Missing(m, w) = Missing(n, w) + (IF w[k] > m[k] THEN 1 ELSE 0)
         /\ Missing(n, w) \in Nat
  BY CompleteHandSize, MissingLess, MissingNothing
<1>3. Distance(m) # 0
  <2>1. SUFFICES ASSUME Distance(m) = 0 PROVE FALSE  OBVIOUS
  <2>2. PICK w \in CompleteHands : Missing(m, w) = 0  BY <2>1, DistanceOf
  <2>3. w \in Counts /\ Size(w) = 3 * NumGroups + 2  BY CompleteHandSize
  <2>4. \A x \in Kinds : w[x] <= m[x]  BY <2>2, <2>3, MissingNothing
  <2>5. \A x \in Kinds : w[x] \in Int /\ m[x] \in Int /\ w[x] <= m[x]  BY <2>3, <2>4 DEF Counts
  <2>6. SumFunctionOnSet(w, Kinds) <= SumFunctionOnSet(m, Kinds)  BY <2>5, KindsFinite, SumMono
  <2>7. SumFunctionOnSet(m, Kinds) \in Int  BY <2>5, KindsFinite, SumInt
  <2>8. NumGroups \in Int  BY ShapeAssumption
  <2>. QED  BY <2>3, <2>6, <2>7, <2>8 DEF Size
<1>4. ASSUME Distance(n) = 0  PROVE Distance(m) = 1 /\ k \in Necessary(m)
  <2>1. PICK w \in CompleteHands : Missing(n, w) = 0  BY <1>4, DistanceOf
  <2>2. Missing(m, w) = IF w[k] > m[k] THEN 1 ELSE 0  BY <1>2, <2>1
  <2>3. Distance(m) <= Missing(m, w)  BY <1>1
  <2>4. w[k] > m[k] /\ Missing(m, w) = 1 /\ Distance(m) = 1  BY <1>1, <1>3, <2>2, <2>3
  <2>. QED  BY <2>4 DEF Necessary, Closest
<1>5. ASSUME Distance(m) = 1, k \in Necessary(m)  PROVE Distance(n) = 0
  <2>1. PICK w \in CompleteHands : Missing(m, w) = 1 /\ w[k] > m[k]
    BY <1>5 DEF Necessary, Closest
  <2>2. Missing(n, w) = 0  BY <1>2, <2>1
  <2>3. Distance(n) <= 0  BY <1>1, <2>2
  <2>. QED  BY <1>1, <2>3
<1>6. Shanten(n) = -1 <=> Distance(n) = 0  BY <1>1 DEF Shanten
<1>7. Shanten(m) = 0 <=> Distance(m) = 1  BY <1>1 DEF Shanten
<1>. QED  BY <1>4, <1>5, <1>6, <1>7

\* A tile more takes no hand farther away, and a hand can do without a tile exactly if
\* it is no farther away without it.
LEMMA TileMore ==
  ASSUME NEW m, NEW n, \A x \in Kinds : m[x] \in Nat /\ n[x] \in Nat,
         NEW k \in Kinds, n[k] = m[k] + 1, \A x \in Kinds : x # k => n[x] = m[x]
  PROVE  /\ Shanten(m) \in Int /\ Shanten(n) \in Int
         /\ Shanten(n) <= Shanten(m)
         /\ k \in Unnecessary(n) <=> Shanten(m) <= Shanten(n)
<1>1. /\ Distance(m) \in Nat /\ Distance(n) \in Nat
      /\ \A w \in CompleteHands : Distance(m) <= Missing(m, w) /\ Distance(n) <= Missing(n, w)
  BY DistanceOf
<1>2. \A w \in CompleteHands :
         /\ Missing(m, w) = Missing(n, w) + (IF w[k] > m[k] THEN 1 ELSE 0)
         /\ Missing(n, w) \in Nat /\ w[k] \in Nat
  <2>1. ASSUME NEW w \in CompleteHands
        PROVE  /\ Missing(m, w) = Missing(n, w) + (IF w[k] > m[k] THEN 1 ELSE 0)
               /\ Missing(n, w) \in Nat /\ w[k] \in Nat
    <3>1. w \in Counts  BY CompleteHandSize
    <3>2. w[k] \in Nat  BY <3>1 DEF Counts
    <3>. QED  BY <3>1, <3>2, MissingLess, MissingNothing
  <2>. QED  BY <2>1
<1>3. PICK v \in CompleteHands : Missing(m, v) = Distance(m)  BY DistanceOf
<1>4. Distance(n) <= Distance(m)  BY <1>1, <1>2, <1>3
<1>5. ASSUME k \in Unnecessary(n)  PROVE Distance(m) <= Distance(n)
  <2>1. PICK w \in CompleteHands : Missing(n, w) = Distance(n) /\ n[k] > w[k]
    BY <1>5 DEF Unnecessary, Closest
  <2>2. ~(w[k] > m[k])  BY <1>2, <2>1
  <2>3. Missing(m, w) = Missing(n, w)  BY <1>2, <2>2
  <2>. QED  BY <1>1, <2>1, <2>3
<1>6. ASSUME Distance(m) <= Distance(n)  PROVE k \in Unnecessary(n)
  <2>1. Distance(n) <= Missing(n, v)  BY <1>1
  <2>2. ~(v[k] > m[k]) /\ Missing(n, v) = Distance(n)  BY <1>1, <1>2, <1>3, <1>6, <2>1
  <2>3. n[k] > v[k]  BY <1>2, <2>2
  <2>. QED  BY <2>2, <2>3 DEF Unnecessary, Closest
<1>. QED  BY <1>1, <1>4, <1>5, <1>6 DEF Shanten

-----------------------------------------------------------------------------
(* The call stack.                                                         *)

LEMMA ReturnFrom ==
  ASSUME NEW S, NEW s \in Seq(S), s # <<>>
  PROVE  /\ Len(s) \in Nat \ {0}
         /\ Front(s) \in Seq(S)
         /\ Len(Front(s)) = Len(s) - 1
         /\ \A i \in 1..Len(s) - 1 : Front(s)[i] = s[i]
<1>1. Len(s) \in Nat \ {0}  BY EmptySeq
<1>2. \A i \in 1..Len(s) - 1 : s[i] \in S  BY <1>1, ElementOfSeq
<1>3. Len(s) - 1 \in Int  BY <1>1
<1>4. /\ SubSeq(s, 1, Len(s) - 1) \in Seq(S)
      /\ Len(SubSeq(s, 1, Len(s) - 1)) = IF 1 <= Len(s) - 1 THEN Len(s) - 1 - 1 + 1 ELSE 0
      /\ \A i \in 1..Len(s) - 1 - 1 + 1 : SubSeq(s, 1, Len(s) - 1)[i] = s[1 + i - 1]
  BY <1>2, <1>3, SubSeqProperties
<1>5. Len(Front(s)) = Len(s) - 1
  <2>1. \A n \in Nat \ {0} : (IF 1 <= n - 1 THEN n - 1 - 1 + 1 ELSE 0) = n - 1  OBVIOUS
  <2>2. Len(Front(s)) = IF 1 <= Len(s) - 1 THEN Len(s) - 1 - 1 + 1 ELSE 0  BY <1>4 DEF Front
  <2>. QED  BY <1>1, <2>1, <2>2
<1>6. ASSUME NEW i \in 1..Len(s) - 1  PROVE Front(s)[i] = s[i]
  <2>1. i \in 1..Len(s) - 1 - 1 + 1 /\ 1 + i - 1 = i  BY <1>1
  <2>. QED  BY <1>4, <2>1 DEF Front
<1>7. Front(s) \in Seq(S)  BY <1>4 DEF Front
<1>. QED  BY <1>1, <1>5, <1>6, <1>7

LEMMA FirstFrame ==
  ASSUME NEW S, NEW f \in S
  PROVE  <<f>> \in Seq(S) /\ Len(<<f>>) = 1 /\ <<f>>[1] = f
OBVIOUS

LEMMA BecomeOf ==
  ASSUME NEW S, NEW s \in Seq(S), s # <<>>, NEW f \in S
  PROVE  /\ Append(Front(s), f) \in Seq(S)
         /\ Len(Append(Front(s), f)) = Len(s)
         /\ Append(Front(s), f)[Len(s)] = f
         /\ \A i \in 1..Len(s) - 1 : Append(Front(s), f)[i] = s[i]
<1>1. /\ Len(s) \in Nat \ {0}
      /\ Front(s) \in Seq(S)
      /\ Len(Front(s)) = Len(s) - 1
      /\ \A i \in 1..Len(s) - 1 : Front(s)[i] = s[i]
  BY ReturnFrom
<1>2. /\ Append(Front(s), f) \in Seq(S)
      /\ Len(Append(Front(s), f)) = Len(Front(s)) + 1
      /\ \A i \in 1..Len(Front(s)) : Append(Front(s), f)[i] = Front(s)[i]
      /\ Append(Front(s), f)[Len(Front(s)) + 1] = f
  BY <1>1, AppendProperties
<1>. QED  BY <1>1, <1>2

LEMMA PushOn ==
  ASSUME NEW S, NEW s \in Seq(S), s # <<>>, NEW f \in S, NEW g \in S
  PROVE  /\ Front(s) \o <<f, g>> \in Seq(S)
         /\ Len(Front(s) \o <<f, g>>) = Len(s) + 1
         /\ (Front(s) \o <<f, g>>)[Len(s)] = f
         /\ (Front(s) \o <<f, g>>)[Len(s) + 1] = g
         /\ \A i \in 1..Len(s) - 1 : (Front(s) \o <<f, g>>)[i] = s[i]
<1>1. /\ Len(s) \in Nat \ {0}
      /\ Front(s) \in Seq(S)
      /\ Len(Front(s)) = Len(s) - 1
      /\ \A i \in 1..Len(s) - 1 : Front(s)[i] = s[i]
  BY ReturnFrom
<1>2. <<f, g>> \in Seq(S) /\ Len(<<f, g>>) = 2 /\ <<f, g>>[1] = f /\ <<f, g>>[2] = g  OBVIOUS
<1>. DEFINE c == Front(s) \o <<f, g>>
<1>3. /\ c \in Seq(S)
      /\ Len(c) = Len(Front(s)) + 2
      /\ \A i \in 1..Len(Front(s)) + 2 :
           c[i] = IF i <= Len(Front(s)) THEN Front(s)[i] ELSE <<f, g>>[i - Len(Front(s))]
  BY <1>1, <1>2, ConcatProperties
<1>. HIDE DEF c
<1>4. c[Len(s)] = f /\ c[Len(s) + 1] = g
  <2>1. c[Len(s)] = <<f, g>>[Len(s) - (Len(s) - 1)]  BY <1>1, <1>3
  <2>2. c[Len(s) + 1] = <<f, g>>[Len(s) + 1 - (Len(s) - 1)]  BY <1>1, <1>3
  <2>3. Len(s) - (Len(s) - 1) = 1 /\ Len(s) + 1 - (Len(s) - 1) = 2  BY <1>1
  <2>. QED  BY <1>2, <2>1, <2>2, <2>3
<1>5. \A i \in 1..Len(s) - 1 : c[i] = s[i]  BY <1>1, <1>3
<1>6. c \in Seq(S) /\ Len(c) = Len(s) + 1  BY <1>1, <1>3
<1>. QED  BY <1>4, <1>5, <1>6 DEF c

-----------------------------------------------------------------------------
(* Counting tiles.                                                         *)

LEMMA RedFives ==
  /\ Tiles \subseteq 0..36
  /\ \A r \in Reds : /\ r \in 34..36 /\ r \in Tiles /\ r \notin Kinds
                     /\ Five(r) \in Kinds /\ Five(r) \in Tiles /\ Five(r) \notin Reds
  /\ \A r, s \in Reds : Five(r) = Five(s) => r = s
<1>1. Kinds \subseteq 0..33  BY ShapeAssumption
<1>2. \A r \in Reds : r \in 34..36 /\ Five(r) \in Kinds  BY DEF Reds, Five
<1>3. \A r, s \in Reds : Five(r) = Five(s) => r = s  BY <1>2 DEF Five
<1>4. \A r \in Reds : r \notin Kinds /\ Five(r) \notin Reds  BY <1>1, <1>2
<1>5. Tiles \subseteq 0..36
  <2>1. \A t \in Kinds : t \in 0..36  BY <1>1
  <2>2. \A t \in Reds : t \in 0..36  BY <1>2
  <2>. QED  BY <2>1, <2>2 DEF Tiles
<1>6. Kinds \subseteq Tiles /\ Reds \subseteq Tiles  BY DEF Tiles
<1>. QED  BY <1>2, <1>3, <1>4, <1>5, <1>6

LEMMA Merged ==
  ASSUME NEW h
  PROVE  /\ to_merged_count(h) = [t \in Tiles |-> to_merged_count(h)[t]]
         /\ \A r \in Reds : to_merged_count(h)[Five(r)] = h[Five(r)] + h[r]
         /\ \A t \in Tiles : (\A r \in Reds : t # Five(r)) => to_merged_count(h)[t] = h[t]
<1>1. ASSUME NEW r \in Reds  PROVE to_merged_count(h)[Five(r)] = h[Five(r)] + h[r]
  <2>1. (CHOOSE s \in Reds : Five(r) = Five(s)) = r  BY RedFives
  <2>. QED  BY <2>1, RedFives DEF to_merged_count
<1>. QED  BY <1>1 DEF to_merged_count

\* A hand or a wall that counts each red five once among the fives too.
Playable(h) == h \in [Tiles -> Nat] /\ \A r \in Reds : h[r] \in {0, 1} /\ h[r] <= h[Five(r)]

LEMMA SeparatedLess ==
  ASSUME NEW h \in [Tiles -> Nat]
  PROVE  to_separated_count(h) \in [Tiles -> Int] /\ \A t \in Tiles : to_separated_count(h)[t] <= h[t]
<1>1. \A t \in Tiles : to_separated_count(h)[t] \in {h[t] - 1, 1, h[t]} /\ to_separated_count(h)[t] <= h[t]
  BY DEF to_separated_count
<1>2. to_separated_count(h) = [t \in Tiles |-> to_separated_count(h)[t]]  BY DEF to_separated_count
<1>. QED  BY <1>1, <1>2

LEMMA Separated ==
  ASSUME NEW h, Playable(h)
  PROVE  /\ to_separated_count(h) \in [Tiles -> Nat]
         /\ to_merged_count(to_separated_count(h)) = h
<1>. DEFINE s == to_separated_count(h)
<1>. USE DEF Playable
<1>1. ASSUME NEW r \in Reds
      PROVE  s[Five(r)] = h[Five(r)] - h[r] /\ s[r] = h[r]
  <2>1. Five(r) \in Tiles /\ r \in Tiles /\ Five(r) \notin Reds /\ h[r] \in {0, 1}  BY RedFives
  <2>2. \A q \in Reds : Five(r) = Five(q) => q = r  BY RedFives
  <2>3. s[Five(r)] = IF \E q \in Reds : Five(r) = Five(q) /\ h[q] > 0 THEN h[Five(r)] - 1 ELSE h[Five(r)]
    BY <2>1 DEF to_separated_count
  <2>4. ~ \E q \in Reds : r = Five(q)  BY RedFives
  <2>5. s[r] = IF h[r] > 0 THEN 1 ELSE h[r]  BY <2>1, <2>4 DEF to_separated_count
  <2>. QED  BY <2>1, <2>2, <2>3, <2>5
<1>2. ASSUME NEW t \in Tiles, \A r \in Reds : t # Five(r)  PROVE s[t] = h[t]
  BY <1>2, RedFives DEF to_separated_count
<1>3. s = [t \in Tiles |-> s[t]]  BY DEF to_separated_count
<1>. HIDE DEF s
<1>4. s \in [Tiles -> Nat]
  <2>1. ASSUME NEW t \in Tiles  PROVE s[t] \in Nat
    <3>1. CASE \E r \in Reds : t = Five(r)  BY <1>1, <3>1
    <3>2. CASE \A r \in Reds : t # Five(r)  BY <1>2, <3>2
    <3>. QED  BY <3>1, <3>2
  <2>. QED  BY <1>3, <2>1
<1>5. to_merged_count(s) = h
  <2>1. ASSUME NEW t \in Tiles  PROVE to_merged_count(s)[t] = h[t]
    <3>1. CASE \E r \in Reds : t = Five(r)
      <4>1. PICK r \in Reds : t = Five(r)  BY <3>1
      <4>. QED  BY <1>1, <4>1, Merged, RedFives
    <3>2. CASE \A r \in Reds : t # Five(r)  BY <1>2, <3>2, Merged
    <3>. QED  BY <3>1, <3>2
  <2>. QED  BY <2>1, Merged
<1>. QED  BY <1>4, <1>5 DEF s

LEMMA MergedChange ==
  ASSUME NEW h \in [Tiles -> Int], NEW t \in Tiles, NEW n \in Int
  PROVE  to_merged_count([h EXCEPT ![t] = @ + n]) = Change(to_merged_count(h), t, n)
<1>. DEFINE g == [h EXCEPT ![t] = @ + n]
            c == Change(to_merged_count(h), t, n)
<1>1. g \in [Tiles -> Int] /\ \A k \in Tiles : g[k] = IF k = t THEN h[k] + n ELSE h[k]  OBVIOUS
<1>2. ASSUME NEW k \in Tiles
      PROVE  c[k] = IF k = t \/ (t \in Reds /\ k = Five(t)) THEN to_merged_count(h)[k] + n
                    ELSE to_merged_count(h)[k]
  BY DEF Change
<1>. HIDE DEF g
<1>3. ASSUME NEW k \in Tiles  PROVE to_merged_count(g)[k] = c[k]
  <2>. HIDE DEF c
  <2>1. CASE \E r \in Reds : k = Five(r)
    <3>1. PICK r \in Reds : k = Five(r)  BY <2>1
    <3>2. r \in Tiles /\ k # r /\ k \notin Reds  BY <3>1, RedFives
    <3>3. to_merged_count(g)[k] = g[k] + g[r] /\ to_merged_count(h)[k] = h[k] + h[r]
      BY <3>1, Merged
    <3>4. t \in Reds /\ k = Five(t) <=> t = r  BY <3>1, RedFives
    <3>. QED  BY <1>1, <1>2, <3>2, <3>3, <3>4
  <2>2. CASE \A r \in Reds : k # Five(r)
    <3>1. to_merged_count(g)[k] = g[k] /\ to_merged_count(h)[k] = h[k]  BY <2>2, Merged
    <3>. QED  BY <1>1, <1>2, <2>2, <3>1
  <2>. QED  BY <2>1, <2>2
<1>4. to_merged_count(g) = [k \in Tiles |-> to_merged_count(g)[k]]  BY Merged
<1>5. c = [k \in Tiles |-> c[k]]  BY DEF Change
<1>. QED  BY <1>3, <1>4, <1>5 DEF g

-----------------------------------------------------------------------------
(* The hand goes down the stack and comes back.                            *)

\* No wall has a red five without counting it as a five too.  Validation does not
\* guarantee it: NothingIsOverdrawn of Requests says when a generated wall has one, and a
\* client's wall is not examined for it.
FivesInWall == \A i \in Inputs : \A r \in Reds : i.wall[r] <= i.wall[Five(r)]

NodeKinds == {"draw_node", "discard_node"}
FrameRecords ==
  [node : NodeKinds, riichi : BOOLEAN, pc : {"enter", "loop", "await"}, vertex : Nat,
   shanten : {0} \cup {Shanten(to_merged_count(h)) : h \in [Tiles -> Nat]},
   useful : SUBSET Tiles, any : BOOLEAN, at : Tiles \cup {-1}, weight : Int]
VertexRecords == [node : NodeKinds, hand : [Tiles -> Nat], riichi : BOOLEAN, tenpai : BOOLEAN]

\* What calc starts the search with.
Dealt ==
  /\ hand_org \in [Tiles -> Nat]
  /\ Total \in [Tiles -> Int]
  /\ \A k \in Kinds : Total[k] <= 4
  /\ \A r \in Reds : Total[r] <= 1
  /\ FivesInWall => \A t \in Tiles : hand_org[t] <= Total[t]

Fits(h) == h \in [Tiles -> Nat] /\ (FivesInWall => \A t \in Tiles : h[t] <= Total[t])

\* The three counts of the state are those of a hand.
Tallied(h) ==
  /\ hand_counts = h
  /\ wall_counts = [t \in Tiles |-> Total[t] - h[t]]
  /\ hand = to_merged_count(h)

\* The hand that a waiting call has made of its own for the call it waits for.
Offered(f) ==
  [vertices[f.vertex].hand EXCEPT ![f.at] = @ + (IF f.node = "draw_node" THEN 1 ELSE -1)]

\* The hand the i-th call was called with, and the hand there must be now.
Entry(i) == IF i = 1 THEN hand_org ELSE Offered(frames[i - 1])
Current ==
  IF frames = <<>> THEN hand_org
  ELSE IF Top.pc = "await" THEN Offered(Top) ELSE Entry(Len(frames))

FrameInv(i) ==
  /\ i < Len(frames) => frames[i].pc = "await"
  /\ frames[i].pc # "enter" => Is(frames[i].vertex, frames[i].node, Entry(i), frames[i].riichi)
  /\ frames[i].pc = "await" => frames[i].at \in Tiles /\ Fits(Offered(frames[i]))

MoveInv ==
  phase = "search" =>
    /\ Dealt
    /\ frames \in Seq(FrameRecords) /\ vertices \in Seq(VertexRecords)
    /\ Fits(Current) /\ Tallied(Current)
    /\ \A i \in 1..Len(frames) : FrameInv(i)

\* Vertices are only ever added.
Grows == vertices' = vertices \/ \E v \in VertexRecords : vertices' = Append(vertices, v)

LEMMA GrowsKeeps ==
  ASSUME vertices \in Seq(VertexRecords), Grows
  PROVE  /\ vertices' \in Seq(VertexRecords)
         /\ \A v \in DOMAIN vertices : v \in DOMAIN vertices' /\ vertices'[v] = vertices[v]
<1>1. CASE vertices' = vertices  BY <1>1
<1>2. ASSUME NEW v \in VertexRecords, vertices' = Append(vertices, v)
      PROVE  /\ vertices' \in Seq(VertexRecords)
             /\ \A u \in DOMAIN vertices : u \in DOMAIN vertices' /\ vertices'[u] = vertices[u]
  <2>1. /\ Append(vertices, v) \in Seq(VertexRecords)
        /\ Len(Append(vertices, v)) = Len(vertices) + 1
        /\ \A i \in 1..Len(vertices) : Append(vertices, v)[i] = vertices[i]
    BY AppendProperties
  <2>2. DOMAIN vertices = 1..Len(vertices) /\ Len(vertices) \in Nat  BY LenProperties
  <2>3. DOMAIN vertices' = 1..Len(vertices') BY <1>2, <2>1, LenProperties
  <2>. QED  BY <1>2, <2>1, <2>2, <2>3
<1>. QED  BY <1>1, <1>2 DEF Grows

LEMMA OfferedStays ==
  ASSUME vertices \in Seq(VertexRecords), Grows, NEW f, f.vertex \in DOMAIN vertices
  PROVE  Offered(f)' = Offered(f)
BY GrowsKeeps DEF Offered

LEMMA IsStays ==
  ASSUME vertices \in Seq(VertexRecords), Grows, NEW v, NEW node, NEW h, NEW riichi,
         Is(v, node, h, riichi)
  PROVE  Is(v, node, h, riichi)'
BY GrowsKeeps DEF Is

\* What the calls below the top have offered stays the same while they wait.
LEMMA EntryStays ==
  ASSUME MoveInv, phase = "search", Grows, hand_org' = hand_org,
         NEW m \in Nat, m <= Len(frames),
         \A j \in 1..m : frames'[j] = frames[j] /\ frames[j].pc # "enter",
         NEW i \in 1..m + 1
  PROVE  Entry(i)' = Entry(i)
<1>1. CASE i = 1  BY <1>1 DEF Entry
<1>2. CASE i # 1
  <2>1. i - 1 \in 1..m  BY <1>2
  <2>2. i - 1 \in 1..Len(frames)  BY <2>1, LenProperties DEF MoveInv
  <2>3. FrameInv(i - 1) /\ frames[i - 1].pc # "enter"  BY <2>1, <2>2 DEF MoveInv
  <2>4. PICK f : f = frames[i - 1]  OBVIOUS
  <2>5. f.vertex \in DOMAIN vertices  BY <2>3, <2>4 DEF FrameInv, Is
  <2>6. Offered(f)' = Offered(f)  BY <2>5, OfferedStays DEF MoveInv
  <2>7. frames'[i - 1] = f  BY <2>1, <2>4
  <2>. QED  BY <1>2, <2>4, <2>6, <2>7 DEF Entry, Offered
<1>. QED  BY <1>1, <1>2

\* The calls below the top wait as they did.
LEMMA FrameStays ==
  ASSUME MoveInv, phase = "search", Grows, given' = given,
         NEW m \in Nat, m <= Len(frames), Len(frames') \in Nat,
         \A j \in 1..m : frames'[j] = frames[j] /\ frames[j].pc = "await",
         NEW i \in 1..m
  PROVE  FrameInv(i)'
<1>1. i \in 1..Len(frames)  BY LenProperties DEF MoveInv
<1>2. FrameInv(i) /\ frames[i].pc = "await"  BY <1>1 DEF MoveInv
<1>3. Entry(i)' = Entry(i)  BY EntryStays DEF given
<1>4. PICK f, h : f = frames[i] /\ h = Entry(i)  OBVIOUS
<1>5. frames'[i] = f /\ Entry(i)' = h  BY <1>3, <1>4
<1>6. Is(f.vertex, f.node, h, f.riichi)  BY <1>2, <1>4 DEF FrameInv
<1>7. Is(f.vertex, f.node, h, f.riichi)'  BY <1>6, IsStays DEF MoveInv
<1>8. Offered(f)' = Offered(f)  BY <1>6, OfferedStays DEF MoveInv, Is
<1>9. Fits(Offered(f)) /\ f.at \in Tiles  BY <1>2, <1>4 DEF FrameInv
<1>10. Total' = Total  BY DEF Total, given
<1>11. PICK o : o = Offered(f)  OBVIOUS
<1>12. Fits(o)'  BY <1>9, <1>10, <1>11 DEF Fits
<1>13. Fits(Offered(frames[i]))'
  <2>1. Offered(frames[i])' = o  BY <1>5, <1>8, <1>11 DEF Offered
  <2>. QED  BY <1>12, <2>1 DEF Fits
<1>14. Is(frames[i].vertex, frames[i].node, Entry(i), frames[i].riichi)'
  BY <1>5, <1>7 DEF Is
<1>. QED  BY <1>2, <1>4, <1>5, <1>9, <1>13, <1>14 DEF FrameInv

\* The hand goes with the counts.
LEMMA SameHand ==
  ASSUME MoveInv, phase = "search", given' = given, tiles' = tiles, Current' = Current
  PROVE  Dealt' /\ Fits(Current)' /\ Tallied(Current)'
<1>1. PICK c : c = Current  OBVIOUS
<1>2. Fits(c) /\ Tallied(c) /\ Dealt  BY <1>1 DEF MoveInv
<1>3. Total' = Total /\ hand_org' = hand_org  BY DEF Total, given
<1>4. Fits(c)' /\ Tallied(c)' /\ Dealt'
  <2>1. Fits(c)'  BY <1>2, <1>3 DEF Fits
  <2>2. Tallied(c)'  BY <1>2, <1>3 DEF Tallied, tiles
  <2>3. Dealt'  BY <1>2, <1>3 DEF Dealt
  <2>. QED  BY <2>1, <2>2, <2>3
<1>5. Current' = c  BY <1>1
<1>. QED  BY <1>4, <1>5 DEF Fits, Tallied

\* The same for all calls below the top, of which there are n - 1.
LEMMA BelowStays ==
  ASSUME MoveInv, phase = "search", Grows, given' = given,
         NEW n \in Nat \ {0}, n = Len(frames), Len(frames') \in Nat,
         \A j \in 1..n - 1 : frames'[j] = frames[j]
  PROVE  /\ \A i \in 1..n - 1 : frames[i].pc = "await"
         /\ \A i \in 1..n - 1 : FrameInv(i)'
         /\ Entry(n)' = Entry(n)
<1>1. ASSUME NEW i \in 1..n - 1  PROVE frames[i].pc = "await"
  <2>1. i \in 1..Len(frames) /\ i < Len(frames)  OBVIOUS
  <2>. QED  BY <2>1 DEF MoveInv, FrameInv
<1>2. n - 1 \in Nat /\ n - 1 <= Len(frames) /\ n \in 1..(n - 1) + 1  OBVIOUS
<1>3. ASSUME NEW i \in 1..n - 1  PROVE FrameInv(i)'
  <2>1. \A j \in 1..n - 1 : frames'[j] = frames[j] /\ frames[j].pc = "await"  BY <1>1
  <2>. QED  BY <1>2, <2>1, FrameStays
<1>4. Entry(n)' = Entry(n)
  <2>1. \A j \in 1..n - 1 : frames'[j] = frames[j] /\ frames[j].pc # "enter"  BY <1>1
  <2>2. hand_org' = hand_org  BY DEF given
  <2>. QED  BY <1>2, <2>1, <2>2, EntryStays
<1>. QED  BY <1>1, <1>3, <1>4

\* A call returns before it has changed the hand, or after it has put it right again:
\* the call below finds the hand it offered.
LEMMA ReturnMoves ==
  ASSUME MoveInv, phase = "search", phase' = "search", frames # <<>>, Top.pc # "await",
         frames' = Front(frames), given' = given, tiles' = tiles, vertices' = vertices
  PROVE  MoveInv'
<1>. PICK n : n = Len(frames)  OBVIOUS
<1>1. frames \in Seq(FrameRecords) /\ vertices \in Seq(VertexRecords)  BY DEF MoveInv
<1>2. /\ n \in Nat \ {0} /\ frames' \in Seq(FrameRecords) /\ Len(frames') = n - 1
      /\ \A j \in 1..n - 1 : frames'[j] = frames[j]
  BY <1>1, ReturnFrom
<1>3. Grows  BY DEF Grows
<1>4. /\ \A i \in 1..n - 1 : frames[i].pc = "await"
      /\ \A i \in 1..n - 1 : FrameInv(i)'
      /\ Entry(n)' = Entry(n)
  BY <1>2, <1>3, BelowStays
<1>7. Current = Entry(n)  BY DEF Current
<1>8. Current' = Entry(n)'
  <2>1. CASE n = 1
    <3>1. frames' = <<>>  BY <1>2, <2>1, EmptySeq
    <3>. QED  BY <2>1, <3>1 DEF Current, Entry
  <2>2. CASE n # 1
    <3>1. frames' # <<>> /\ Last(frames') = frames'[n - 1]  BY <1>2, <2>2, EmptySeq DEF Last
    <3>2. Last(frames').pc = "await"  BY <1>2, <1>4, <2>2, <3>1
    <3>3. Current' = Offered(Last(frames))'  BY <3>1, <3>2 DEF Current, Top
    <3>. QED  BY <2>2, <3>1, <3>3 DEF Entry, Offered
  <2>. QED  BY <2>1, <2>2
<1>9. Dealt' /\ Fits(Current)' /\ Tallied(Current)'  BY <1>4, <1>7, <1>8, SameHand
<1>. QED  BY <1>1, <1>2, <1>4, <1>9 DEF MoveInv

\* A new vertex is one of the hand the call was called with.
LEMMA ExpandMoves ==
  ASSUME MoveInv, phase = "search", phase' = "search", frames # <<>>, Top.pc = "enter",
         NEW f \in FrameRecords, frames' = Append(Front(frames), f), f.pc = "loop",
         f.vertex = Len(vertices) + 1, f.node = Top.node, f.riichi = Top.riichi,
         NEW v \in VertexRecords, vertices' = Append(vertices, v),
         v.node = Top.node, v.riichi = Top.riichi, v.hand = hand_counts,
         given' = given, tiles' = tiles
  PROVE  MoveInv'
<1>. PICK n : n = Len(frames)  OBVIOUS
<1>1. frames \in Seq(FrameRecords) /\ vertices \in Seq(VertexRecords)  BY DEF MoveInv
<1>2. /\ n \in Nat \ {0} /\ frames' \in Seq(FrameRecords) /\ Len(frames') = n
      /\ frames'[n] = f /\ \A j \in 1..n - 1 : frames'[j] = frames[j]
  <2>1. n \in Nat \ {0}  BY <1>1, EmptySeq
  <2>2. /\ Append(Front(frames), f) \in Seq(FrameRecords)
        /\ Len(Append(Front(frames), f)) = Len(frames)
        /\ Append(Front(frames), f)[Len(frames)] = f
        /\ \A i \in 1..Len(frames) - 1 : Append(Front(frames), f)[i] = frames[i]
    BY <1>1, BecomeOf
  <2>. QED  BY <2>1, <2>2
<1>3. Grows  BY DEF Grows
<1>4. /\ \A i \in 1..n - 1 : frames[i].pc = "await"
      /\ \A i \in 1..n - 1 : FrameInv(i)'
      /\ Entry(n)' = Entry(n)
  BY <1>2, <1>3, BelowStays
<1>7. Current = Entry(n)  BY DEF Current
<1>8. Current' = Entry(n)'
  <2>1. frames' # <<>> /\ Last(frames') = f  BY <1>2, EmptySeq DEF Last
  <2>. QED  BY <1>2, <2>1 DEF Current, Top
<1>9. Dealt' /\ Fits(Current)' /\ Tallied(Current)'  BY <1>4, <1>7, <1>8, SameHand
<1>10. vertices' \in Seq(VertexRecords)  BY <1>1, <1>3, GrowsKeeps
<1>11. FrameInv(n)'
  <2>1. Len(vertices) \in Nat /\ f.vertex \in DOMAIN vertices' /\ vertices'[f.vertex] = v
    <3>1. /\ Append(vertices, v) \in Seq(VertexRecords)
          /\ Len(Append(vertices, v)) = Len(vertices) + 1
          /\ Append(vertices, v)[Len(vertices) + 1] = v
      BY <1>1, AppendProperties
    <3>2. Len(vertices) \in Nat /\ DOMAIN vertices' = 1..Len(vertices')
      BY <1>1, <1>10, LenProperties
    <3>. QED  BY <3>1, <3>2
  <2>2. hand_counts = Entry(n)  BY <1>7 DEF MoveInv, Tallied
  <2>3. PICK h : h = Entry(n)  OBVIOUS
  <2>4. Is(f.vertex, f.node, h, f.riichi)'  BY <2>1, <2>2, <2>3 DEF Is
  <2>5. Entry(n)' = h  BY <1>4, <2>3
  <2>. QED  BY <1>2, <2>4, <2>5 DEF FrameInv, Is
<1>12. \A i \in 1..Len(frames') : FrameInv(i)'
  <2>1. ASSUME NEW i \in 1..Len(frames')  PROVE FrameInv(i)'
    <3>1. CASE i = n  BY <1>11, <3>1
    <3>2. CASE i # n
      <4>1. i \in 1..n - 1  BY <1>2, <3>2
      <4>. QED  BY <1>4, <4>1
    <3>. QED  BY <3>1, <3>2
  <2>. QED  BY <2>1
<1>. QED  BY <1>2, <1>9, <1>10, <1>12 DEF MoveInv

\* One more or one less of a tile, in all three counts.
LEMMA MoveTallies ==
  ASSUME Dealt, NEW h \in [Tiles -> Int], Tallied(h), NEW t \in Tiles, NEW n \in Int,
         hand_counts' = [hand_counts EXCEPT ![t] = @ + n],
         wall_counts' = [wall_counts EXCEPT ![t] = @ - n],
         hand' = Change(hand, t, n), given' = given,
         NEW g, g = [h EXCEPT ![t] = @ + n]
  PROVE  Tallied(g)'
<1>1. Total' = Total /\ Total \in [Tiles -> Int]  BY DEF Total, given, Dealt
<1>2. hand_counts' = g  BY DEF Tallied
<1>3. wall_counts' = [k \in Tiles |-> Total[k] - g[k]]
  <2>1. wall_counts = [k \in Tiles |-> Total[k] - h[k]]  BY DEF Tallied
  <2>2. wall_counts' = [k \in Tiles |-> IF k = t THEN wall_counts[t] - n ELSE wall_counts[k]]
    BY <2>1
  <2>3. ASSUME NEW k \in Tiles
        PROVE (IF k = t THEN wall_counts[t] - n ELSE wall_counts[k]) = Total[k] - g[k]
    BY <1>1, <2>1
  <2>. QED  BY <2>2, <2>3
<1>4. hand' = to_merged_count(g)
  <2>1. hand = to_merged_count(h)  BY DEF Tallied
  <2>. QED  BY <2>1, MergedChange
<1>. QED  BY <1>1, <1>2, <1>3, <1>4 DEF Tallied

\* What a call was called with was a hand to be dealt.
LEMMA EntryFits ==
  ASSUME MoveInv, phase = "search", NEW n \in 1..Len(frames)
  PROVE  Fits(Entry(n))
<1>1. CASE n = 1  BY <1>1 DEF MoveInv, Dealt, Fits, Entry
<1>2. CASE n # 1
  <2>1. n - 1 \in 1..Len(frames) /\ n - 1 < Len(frames)
    BY <1>2, LenProperties DEF MoveInv
  <2>. QED  BY <1>2, <2>1 DEF MoveInv, FrameInv, Entry
<1>. QED  BY <1>1, <1>2

\* The call above is called with what is offered.
LEMMA EntryAbove ==
  ASSUME NEW n \in Nat \ {0}
  PROVE  Entry(n + 1)' = Offered(frames[n])'
<1>1. n + 1 # 1  OBVIOUS
<1>2. Entry(n + 1)' = Offered(frames[n + 1 - 1])'  BY <1>1 DEF Entry, Offered
<1>3. PICK m : m = n + 1 - 1  OBVIOUS
<1>4. m = n  BY <1>3
<1>5. Entry(n + 1)' = Offered(frames[m])'  BY <1>2, <1>3 DEF Offered
<1>. QED  BY <1>4, <1>5, Zenon

\* A call offers a hand to the call it makes, and remembers the tile.
LEMMA TryMoves ==
  ASSUME MoveInv, phase = "search", phase' = "search", frames # <<>>, Top.pc = "loop",
         NEW f \in FrameRecords, NEW g \in FrameRecords, frames' = Front(frames) \o <<f, g>>,
         f.pc = "await", f.vertex = Top.vertex, f.node = Top.node, f.riichi = Top.riichi,
         NEW t \in Tiles, f.at = t, g.pc = "enter",
         NEW d \in Int, d = IF f.node = "draw_node" THEN 1 ELSE -1,
         hand_counts[t] + d >= 0, FivesInWall => hand_counts[t] + d <= Total[t],
         hand_counts' = [hand_counts EXCEPT ![t] = @ + d],
         wall_counts' = [wall_counts EXCEPT ![t] = @ - d],
         hand' = Change(hand, t, d), given' = given, vertices' = vertices
  PROVE  MoveInv'
<1>. PICK n : n = Len(frames)  OBVIOUS
<1>1. frames \in Seq(FrameRecords) /\ vertices \in Seq(VertexRecords)  BY DEF MoveInv
<1>2. /\ n \in Nat \ {0} /\ frames' \in Seq(FrameRecords) /\ Len(frames') = n + 1
      /\ frames'[n] = f /\ frames'[n + 1] = g /\ \A j \in 1..n - 1 : frames'[j] = frames[j]
  <2>1. n \in Nat \ {0}  BY <1>1, EmptySeq
  <2>2. /\ Front(frames) \o <<f, g>> \in Seq(FrameRecords)
        /\ Len(Front(frames) \o <<f, g>>) = Len(frames) + 1
        /\ (Front(frames) \o <<f, g>>)[Len(frames)] = f
        /\ (Front(frames) \o <<f, g>>)[Len(frames) + 1] = g
        /\ \A i \in 1..Len(frames) - 1 : (Front(frames) \o <<f, g>>)[i] = frames[i]
    BY <1>1, PushOn
  <2>. QED  BY <2>1, <2>2
<1>3. Grows /\ Len(frames') \in Nat  BY <1>2 DEF Grows
<1>4. /\ \A i \in 1..n - 1 : frames[i].pc = "await"
      /\ \A i \in 1..n - 1 : FrameInv(i)'
      /\ Entry(n)' = Entry(n)
  BY <1>2, <1>3, BelowStays
<1>5. PICK h : h = Entry(n)  OBVIOUS
<1>6. Current = h /\ Top = frames[n]  BY <1>5 DEF Current, Top, Last
<1>7. Fits(h) /\ Tallied(h) /\ Dealt  BY <1>6 DEF MoveInv
<1>8. FrameInv(n)  BY <1>2 DEF MoveInv
<1>9. Is(f.vertex, f.node, h, f.riichi)  BY <1>5, <1>6, <1>8 DEF FrameInv
<1>10. Is(f.vertex, f.node, h, f.riichi)'  BY <1>1, <1>3, <1>9, IsStays
<1>11. Offered(f) = [h EXCEPT ![t] = @ + d]  BY <1>9 DEF Offered, Is
<1>12. PICK o : o = Offered(f)  OBVIOUS
<1>13. Total' = Total /\ hand_org' = hand_org /\ Dealt'  BY <1>7 DEF Total, given, Dealt
<1>14. Fits(o)'
  <2>1. o \in [Tiles -> Nat]  BY <1>7, <1>11, <1>12 DEF Fits, Tallied
  <2>2. ASSUME FivesInWall, NEW k \in Tiles  PROVE o[k] <= Total[k]
    BY <1>7, <1>11, <1>12, <2>2 DEF Fits, Tallied
  <2>. QED  BY <1>13, <2>1, <2>2 DEF Fits
<1>15. Tallied(o)'
  <2>1. h \in [Tiles -> Int]  BY <1>7 DEF Fits
  <2>2. o = [h EXCEPT ![t] = @ + d]  BY <1>11, <1>12
  <2>. QED  BY <1>7, <2>1, <2>2, MoveTallies
<1>16. Offered(f)' = o  BY <1>1, <1>3, <1>9, <1>12, OfferedStays DEF Is
<1>17. FrameInv(n)'
  <2>1. frames'[n] = f /\ Entry(n)' = h  BY <1>2, <1>4, <1>5
  <2>2. Offered(frames[n])' = o  BY <1>16, <2>1 DEF Offered
  <2>. QED  BY <1>10, <1>14, <2>1, <2>2 DEF FrameInv, Is, Fits
<1>18. Current' = o
  <2>1. frames' # <<>> /\ Last(frames') = g  BY <1>2, EmptySeq DEF Last
  <2>2. Current' = Entry(n + 1)'  BY <1>2, <2>1 DEF Current, Top, Entry
  <2>3. Entry(n + 1)' = Offered(frames[n])'  BY <1>2, EntryAbove
  <2>. QED  BY <1>2, <1>16, <2>2, <2>3 DEF Offered
<1>19. Fits(Current)' /\ Tallied(Current)'  BY <1>14, <1>15, <1>18 DEF Fits, Tallied
<1>20. FrameInv(n + 1)'  BY <1>2 DEF FrameInv
<1>21. ASSUME NEW i \in 1..Len(frames')  PROVE FrameInv(i)'
  <2>1. i \in 1..n - 1 \/ i = n \/ i = n + 1  BY <1>2
  <2>. QED  BY <1>4, <1>17, <1>20, <2>1
<1>. QED  BY <1>1, <1>2, <1>13, <1>19, <1>21 DEF MoveInv

\* A call that gets its answer takes back the tile and has the hand it was called with.
LEMMA BackMoves ==
  ASSUME MoveInv, phase = "search", phase' = "search", frames # <<>>, Top.pc = "await",
         NEW f \in FrameRecords, frames' = Append(Front(frames), f), f.pc = "loop",
         f.vertex = Top.vertex, f.node = Top.node, f.riichi = Top.riichi,
         NEW t \in Tiles, t = Top.at,
         NEW d \in Int, d = IF f.node = "draw_node" THEN -1 ELSE 1,
         hand_counts' = [hand_counts EXCEPT ![t] = @ + d],
         wall_counts' = [wall_counts EXCEPT ![t] = @ - d],
         hand' = Change(hand, t, d), given' = given, vertices' = vertices
  PROVE  MoveInv'
<1>. PICK n : n = Len(frames)  OBVIOUS
<1>1. frames \in Seq(FrameRecords) /\ vertices \in Seq(VertexRecords)  BY DEF MoveInv
<1>2. /\ n \in Nat \ {0} /\ frames' \in Seq(FrameRecords) /\ Len(frames') = n
      /\ frames'[n] = f /\ \A j \in 1..n - 1 : frames'[j] = frames[j]
  <2>1. n \in Nat \ {0}  BY <1>1, EmptySeq
  <2>2. /\ Append(Front(frames), f) \in Seq(FrameRecords)
        /\ Len(Append(Front(frames), f)) = Len(frames)
        /\ Append(Front(frames), f)[Len(frames)] = f
        /\ \A i \in 1..Len(frames) - 1 : Append(Front(frames), f)[i] = frames[i]
    BY <1>1, BecomeOf
  <2>. QED  BY <2>1, <2>2
<1>3. Grows  BY DEF Grows
<1>4. /\ \A i \in 1..n - 1 : frames[i].pc = "await"
      /\ \A i \in 1..n - 1 : FrameInv(i)'
      /\ Entry(n)' = Entry(n)
  BY <1>2, <1>3, BelowStays
<1>5. PICK h, o : h = Entry(n) /\ o = Offered(Top)  OBVIOUS
<1>6. Current = o /\ Top = frames[n]  BY <1>5 DEF Current, Top, Last
<1>7. Fits(o) /\ Tallied(o) /\ Dealt  BY <1>6 DEF MoveInv
<1>8. FrameInv(n)  BY <1>2 DEF MoveInv
<1>9. Is(f.vertex, f.node, h, f.riichi)  BY <1>5, <1>6, <1>8 DEF FrameInv
<1>10. Is(f.vertex, f.node, h, f.riichi)'  BY <1>1, <1>3, <1>9, IsStays
<1>11. Fits(h)  BY <1>2, <1>5, EntryFits
<1>12. [o EXCEPT ![t] = @ + d] = h
  <2>1. PICK e \in Int : e = IF f.node = "draw_node" THEN 1 ELSE -1  OBVIOUS
  <2>2. o = [h EXCEPT ![t] = @ + e]  BY <1>5, <1>9, <2>1 DEF Offered, Is
  <2>3. h \in [Tiles -> Nat] /\ e + d = 0  BY <1>11, <2>1 DEF Fits
  <2>4. o \in [Tiles -> Int] /\ \A k \in Tiles : o[k] = IF k = t THEN h[k] + e ELSE h[k]
    BY <2>2, <2>3
  <2>5. \A k \in Tiles : [o EXCEPT ![t] = @ + d][k] = h[k]  BY <2>3, <2>4
  <2>6. [o EXCEPT ![t] = @ + d] = [k \in Tiles |-> [o EXCEPT ![t] = @ + d][k]]  BY <2>4
  <2>7. h = [k \in Tiles |-> h[k]]  BY <2>3
  <2>. QED  BY <2>5, <2>6, <2>7
<1>13. Total' = Total /\ hand_org' = hand_org /\ Dealt'  BY <1>7 DEF Total, given, Dealt
<1>14. Tallied(h)'
  <2>1. o \in [Tiles -> Int]  BY <1>7 DEF Fits
  <2>. QED  BY <1>7, <1>12, <2>1, MoveTallies
<1>15. FrameInv(n)'
  <2>1. frames'[n] = f /\ Entry(n)' = h  BY <1>2, <1>4, <1>5
  <2>. QED  BY <1>2, <1>10, <2>1 DEF FrameInv, Is
<1>16. Current' = h
  <2>1. frames' # <<>> /\ Last(frames') = f  BY <1>2, EmptySeq DEF Last
  <2>2. Current' = Entry(n)'  BY <1>2, <2>1 DEF Current, Top, Entry
  <2>. QED  BY <1>4, <1>5, <2>2
<1>17. Fits(Current)' /\ Tallied(Current)'
  <2>1. Fits(h)'  BY <1>11, <1>13 DEF Fits
  <2>. QED  BY <1>14, <1>16, <2>1 DEF Fits, Tallied
<1>18. ASSUME NEW i \in 1..Len(frames')  PROVE FrameInv(i)'
  <2>1. i \in 1..n - 1 \/ i = n  BY <1>2
  <2>. QED  BY <1>4, <1>15, <2>1
<1>. QED  BY <1>1, <1>2, <1>13, <1>17, <1>18 DEF MoveInv

-----------------------------------------------------------------------------
(* The steps of the search.                                                *)

\* Before the search there is nothing.
StartInv ==
  /\ input \in Inputs
  /\ phase = "start" => /\ frames = <<>> /\ returned = None /\ vertices = <<>> /\ edges = {}
                        /\ cache1 = <<>> /\ cache2 = <<>>
                        /\ draw_vertices = <<>> /\ discard_vertices = <<>>

LEMMA NormalizedPlayable ==
  ASSUME NEW h \in [Tiles -> Nat]
  PROVE  /\ Playable(normalize_red_fives(h))
         /\ \A t \in Tiles : normalize_red_fives(h)[t] <= h[t]
<1>1. normalize_red_fives(h) \in [Tiles -> Nat]  BY DEF normalize_red_fives
<1>2. ASSUME NEW r \in Reds
      PROVE  normalize_red_fives(h)[r] = 0 /\ normalize_red_fives(h)[Five(r)] \in Nat
  <2>1. r \in Tiles /\ Five(r) \in Tiles  BY RedFives
  <2>. QED  BY <1>1, <2>1 DEF normalize_red_fives
<1>3. \A t \in Tiles : normalize_red_fives(h)[t] <= h[t]  BY DEF normalize_red_fives
<1>. QED  BY <1>1, <1>2, <1>3 DEF Playable

LEMMA InputsPlayable ==
  ASSUME NEW i \in Inputs
  PROVE  /\ i.hand \in [Tiles -> Nat] /\ i.wall \in [Tiles -> Nat]
         /\ Playable(i.hand) /\ (FivesInWall => Playable(i.wall))
         /\ \A k \in Kinds : i.hand[k] + i.wall[k] <= 4
         /\ \A r \in Reds : i.hand[r] + i.wall[r] <= 1
<1>1. Validated(i)  BY InputAssumption
<1>2. i.hand \in [Tiles -> Nat] /\ i.wall \in [Tiles -> Nat]  BY <1>1 DEF Validated
<1>3. ASSUME NEW r \in Reds  PROVE i.hand[r] \in {0, 1} /\ i.wall[r] \in {0, 1}
  <2>1. i.hand[r] + i.wall[r] <= 1  BY <1>1 DEF Validated
  <2>2. i.hand[r] \in Nat /\ i.wall[r] \in Nat  BY <1>2, RedFives
  <2>. QED  BY <2>1, <2>2
<1>. QED  BY <1>1, <1>2, <1>3 DEF Validated, Playable, FivesInWall

LEMMA CallFrame ==
  ASSUME NEW node \in NodeKinds, NEW riichi \in BOOLEAN
  PROVE  /\ Call(node, riichi) \in FrameRecords
         /\ Call(node, riichi).pc = "enter" /\ Call(node, riichi).node = node
         /\ Call(node, riichi).riichi = riichi
<1>1. 0 \in {0} \cup {Shanten(to_merged_count(h)) : h \in [Tiles -> Nat]}  OBVIOUS
<1>2. -1 \in Tiles \cup {-1}  OBVIOUS
<1>3. {} \in SUBSET Tiles /\ FALSE \in BOOLEAN /\ 0 \in Nat /\ 0 \in Int
      /\ "enter" \in {"enter", "loop", "await"}
  OBVIOUS
<1>. QED  BY <1>1, <1>2, <1>3 DEF Call, FrameRecords, None

LEMMA PrepareDeals ==
  ASSUME NEW h, NEW w, Playable(h), w \in [Tiles -> Nat], FivesInWall => Playable(w),
         \A k \in Kinds : h[k] + w[k] <= 4, \A r \in Reds : h[r] + w[r] <= 1,
         Prepare(w, h), vertices' = <<>>
  PROVE  MoveInv'
<1>. PICK s, v : s = to_separated_count(h) /\ v = to_separated_count(w)  OBVIOUS
<1>1. s \in [Tiles -> Nat] /\ to_merged_count(s) = h  BY Separated
<1>2. v \in [Tiles -> Int] /\ \A t \in Tiles : v[t] <= w[t]  BY SeparatedLess
<1>3. \A t \in Tiles : s[t] <= h[t]  BY SeparatedLess DEF Playable
<1>4. FivesInWall => v \in [Tiles -> Nat]  BY Separated
<1>5. hand_org' = s /\ hand_counts' = s /\ wall_counts' = v /\ hand' = h  BY DEF Prepare
<1>6. Total' = [t \in Tiles |-> s[t] + v[t]]  BY <1>5 DEF Total, Prepare
<1>7. Dealt'
  <2>1. \A k \in Kinds : Total'[k] <= 4
    <3>1. ASSUME NEW k \in Kinds  PROVE Total'[k] <= 4
      <4>1. k \in Tiles /\ h[k] \in Nat /\ w[k] \in Nat /\ h[k] + w[k] <= 4
        BY DEF Tiles, Playable
      <4>. QED  BY <1>1, <1>2, <1>3, <1>6, <4>1
    <3>. QED  BY <3>1
  <2>2. \A r \in Reds : Total'[r] <= 1
    <3>1. ASSUME NEW r \in Reds  PROVE Total'[r] <= 1
      <4>1. r \in Tiles /\ h[r] \in Nat /\ w[r] \in Nat /\ h[r] + w[r] <= 1
        BY DEF Tiles, Playable
      <4>. QED  BY <1>1, <1>2, <1>3, <1>6, <4>1
    <3>. QED  BY <3>1
  <2>3. FivesInWall => \A t \in Tiles : s[t] <= Total'[t]  BY <1>1, <1>4, <1>6
  <2>4. Total' \in [Tiles -> Int]  BY <1>1, <1>2, <1>6
  <2>. QED  BY <1>1, <1>5, <2>1, <2>2, <2>3, <2>4 DEF Dealt
<1>8. PICK node \in NodeKinds : frames' = <<Call(node, FALSE)>>  BY DEF Prepare, NodeKinds
<1>9. PICK c \in FrameRecords : c = Call(node, FALSE) /\ c.pc = "enter"
  BY CallFrame
<1>10. /\ frames' \in Seq(FrameRecords) /\ Len(frames') = 1 /\ frames' # <<>>
       /\ frames'[1].pc = "enter"
  <2>1. <<c>> \in Seq(FrameRecords) /\ Len(<<c>>) = 1 /\ <<c>>[1] = c  BY <1>9, FirstFrame
  <2>2. frames' = <<c>>  BY <1>8, <1>9
  <2>3. frames' # <<>>  BY <2>1, <2>2, EmptySeq
  <2>. QED  BY <1>9, <2>1, <2>2, <2>3
<1>11. Current' = s  BY <1>5, <1>10 DEF Current, Top, Last, Entry
<1>12. Fits(s)'  BY <1>1, <1>5, <1>7 DEF Fits, Dealt
<1>13. Tallied(s)'
  <2>1. \A t \in Tiles : Total'[t] - s[t] = v[t]  BY <1>1, <1>2, <1>6
  <2>2. v = [t \in Tiles |-> v[t]]  BY <1>2
  <2>3. v = [t \in Tiles |-> Total'[t] - s[t]]  BY <2>1, <2>2
  <2>. QED  BY <1>1, <1>5, <2>3 DEF Tallied
<1>14. Fits(Current)' /\ Tallied(Current)'  BY <1>11, <1>12, <1>13 DEF Fits, Tallied
<1>15. \A i \in 1..Len(frames') : FrameInv(i)'  BY <1>10 DEF FrameInv
<1>16. vertices' \in Seq(VertexRecords)  BY EmptySeq
<1>. QED  BY <1>7, <1>10, <1>14, <1>15, <1>16 DEF MoveInv

LEMMA StartMoves ==
  ASSUME StartInv, Start
  PROVE  MoveInv'
<1>1. input \in Inputs /\ vertices' = <<>>  BY DEF StartInv, Start, graph
<1>2. PICK h, w, h2, w2 : /\ h = input.hand /\ w = input.wall
                          /\ h2 = normalize_red_fives(h) /\ w2 = normalize_red_fives(w)
  OBVIOUS
<1>3. /\ h \in [Tiles -> Nat] /\ w \in [Tiles -> Nat]
      /\ Playable(h) /\ (FivesInWall => Playable(w))
      /\ \A k \in Kinds : h[k] + w[k] <= 4
      /\ \A r \in Reds : h[r] + w[r] <= 1
  BY <1>1, <1>2, InputsPlayable
<1>4. CASE Prepare(w, h)  BY <1>1, <1>3, <1>4, PrepareDeals
<1>5. CASE Prepare(w2, h2)
  <2>1. /\ Playable(h2) /\ Playable(w2)
        /\ \A t \in Tiles : h2[t] <= h[t] /\ w2[t] <= w[t]
    BY <1>2, <1>3, NormalizedPlayable
  <2>2. h2 \in [Tiles -> Nat] /\ w2 \in [Tiles -> Nat]  BY <2>1 DEF Playable
  <2>3. \A k \in Kinds : h2[k] + w2[k] <= 4
    <3>1. ASSUME NEW k \in Kinds  PROVE h2[k] + w2[k] <= 4
      <4>1. k \in Tiles  BY DEF Tiles
      <4>. QED  BY <1>3, <2>1, <2>2, <4>1
    <3>. QED  BY <3>1
  <2>4. \A r \in Reds : h2[r] + w2[r] <= 1
    <3>1. ASSUME NEW r \in Reds  PROVE h2[r] + w2[r] <= 1
      <4>1. r \in Tiles  BY DEF Tiles
      <4>. QED  BY <1>3, <2>1, <2>2, <4>1
    <3>. QED  BY <3>1
  <2>. QED  BY <1>1, <1>5, <2>1, <2>2, <2>3, <2>4, PrepareDeals
<1>6. Prepare(w, h) \/ Prepare(w2, h2)  BY <1>2, Zenon DEF Start
<1>. QED  BY <1>4, <1>5, <1>6

\* The frame on top.
LEMMA TopFrame ==
  ASSUME MoveInv, phase = "search", frames # <<>>
  PROVE  /\ Top \in FrameRecords /\ Len(frames) \in Nat \ {0} /\ Top = frames[Len(frames)]
         /\ FrameInv(Len(frames))
<1>1. frames \in Seq(FrameRecords)  BY DEF MoveInv
<1>2. Len(frames) \in Nat \ {0}  BY <1>1, EmptySeq
<1>3. Len(frames) \in 1..Len(frames)  BY <1>2
<1>. QED  BY <1>1, <1>2, <1>3, ElementOfSeq DEF Top, Last, MoveInv

LEMMA HitMoves ==
  ASSUME MoveInv, DrawHit \/ DiscardHit \/ Done
  PROVE  MoveInv'
<1>1. /\ phase = "search" /\ phase' = "search" /\ frames # <<>> /\ frames' = Front(frames)
      /\ given' = given /\ tiles' = tiles /\ vertices' = vertices
  BY DEF DrawHit, DiscardHit, Done, Running, Return, graph
<1>2. Top.pc # "await"  BY DEF DrawHit, DiscardHit, Done, Running
<1>. QED  BY <1>1, <1>2, ReturnMoves

\* The frame and the vertex of a call that has looked at its hand.
LEMMA NewFrame ==
  ASSUME MoveInv, phase = "search", frames # <<>>,
         NEW useful \in SUBSET Kinds, NEW allowed, Expand(Shanten(hand), useful, allowed)
  PROVE  \E f \in FrameRecords, v \in VertexRecords :
           /\ frames' = Append(Front(frames), f) /\ vertices' = Append(vertices, v)
           /\ f.pc = "loop" /\ f.vertex = Len(vertices) + 1 /\ f.node = Top.node
           /\ f.riichi = Top.riichi /\ f.shanten = Shanten(hand)
           /\ f.useful = add_red5_flags(useful) /\ f.at = Top.at
           /\ f.any <=> allowed /\ ~Top.riichi /\ can_extend_search(Shanten(hand))
           /\ v.node = Top.node /\ v.riichi = Top.riichi /\ v.hand = hand_counts
<1>1. Top \in FrameRecords  BY TopFrame
<1>2. Fits(hand_counts) /\ hand = to_merged_count(hand_counts)  BY DEF MoveInv, Tallied
<1>3. Shanten(hand) \in {0} \cup {Shanten(to_merged_count(h)) : h \in [Tiles -> Nat]}
  BY <1>2 DEF Fits
<1>4. add_red5_flags(useful) \in SUBSET Tiles  BY DEF add_red5_flags, Tiles
<1>5. Len(vertices) + 1 \in Nat  BY LenProperties DEF MoveInv
<1>6. PICK any \in BOOLEAN : any <=> allowed /\ ~Top.riichi /\ can_extend_search(Shanten(hand))
  OBVIOUS
<1>. DEFINE f == [Top EXCEPT !.pc = "loop", !.vertex = Len(vertices) + 1, !.shanten = Shanten(hand),
                        !.useful = add_red5_flags(useful),
                        !.any = allowed /\ ~Top.riichi /\ can_extend_search(Shanten(hand))]
            v == [node |-> Top.node, hand |-> hand_counts, riichi |-> Top.riichi,
                  tenpai |-> Shanten(hand) = 0]
<1>7. /\ f \in FrameRecords /\ f.pc = "loop" /\ f.vertex = Len(vertices) + 1
      /\ f.node = Top.node /\ f.riichi = Top.riichi /\ f.shanten = Shanten(hand)
      /\ f.useful = add_red5_flags(useful) /\ f.at = Top.at
      /\ f.any <=> allowed /\ ~Top.riichi /\ can_extend_search(Shanten(hand))
  BY <1>1, <1>3, <1>4, <1>5, <1>6 DEF FrameRecords
<1>8. /\ v \in VertexRecords /\ v.node = Top.node /\ v.riichi = Top.riichi /\ v.hand = hand_counts
  BY <1>1, <1>2 DEF FrameRecords, VertexRecords, Fits
<1>9. frames' = Append(Front(frames), f) /\ vertices' = Append(vertices, v)
  BY DEF Expand, Become
<1>. HIDE DEF f, v
<1>. QED  BY <1>7, <1>8, <1>9

LEMMA NewMoves ==
  ASSUME MoveInv, phase = "search", frames # <<>>, Top.pc = "enter",
         NEW useful \in SUBSET Kinds, NEW allowed, Expand(Shanten(hand), useful, allowed)
  PROVE  MoveInv'
<1>1. phase' = "search" /\ given' = given /\ tiles' = tiles  BY DEF Expand
<1>. QED  BY <1>1, NewFrame, ExpandMoves

\* The tile that is tried next.
LEMMA RemainingTile ==
  ASSUME NEW counts, Remaining(counts) # {}
  PROVE  /\ Min(Remaining(counts)) \in Tiles /\ counts[Min(Remaining(counts))] # 0
         /\ Top.any \/ Min(Remaining(counts)) \in Top.useful
<1>1. Remaining(counts) \in SUBSET Nat
  <2>1. \A t \in Tiles : t \in Nat  BY RedFives
  <2>. QED  BY <2>1 DEF Remaining
<1>2. Min(Remaining(counts)) \in Remaining(counts)  BY <1>1, MinOf
<1>. QED  BY <1>2 DEF Remaining

\* A call that waits, and one that goes on.
Waiting(f, t, w) == [f EXCEPT !.pc = "await", !.at = t, !.weight = w]

LEMMA AwaitFrame ==
  ASSUME NEW f \in FrameRecords, NEW t \in Tiles, NEW w \in Int, NEW g, g = Waiting(f, t, w)
  PROVE  /\ g \in FrameRecords /\ g.pc = "await" /\ g.at = t /\ g.weight = w
         /\ g.vertex = f.vertex /\ g.node = f.node /\ g.riichi = f.riichi
         /\ g.shanten = f.shanten /\ g.useful = f.useful /\ g.any = f.any
BY DEF FrameRecords, Waiting

LEMMA LoopFrame ==
  ASSUME NEW f \in FrameRecords, NEW g, g = [f EXCEPT !.pc = "loop"]
  PROVE  /\ g \in FrameRecords /\ g.pc = "loop"
         /\ g.vertex = f.vertex /\ g.node = f.node /\ g.riichi = f.riichi /\ g.at = f.at
         /\ g.shanten = f.shanten /\ g.useful = f.useful /\ g.any = f.any
BY DEF FrameRecords

LEMMA DrawTileMoves ==
  ASSUME MoveInv, DrawTile
  PROVE  MoveInv'
<1>1. phase = "search" /\ frames # <<>> /\ Top.node = "draw_node" /\ Top.pc = "loop"
  BY DEF DrawTile, Running
<1>2. PICK top \in FrameRecords : top = Top  BY <1>1, TopFrame
<1>3. PICK t \in Tiles : t = Min(Remaining(wall_counts)) /\ wall_counts[t] # 0
  BY RemainingTile DEF DrawTile
<1>4. PICK f, g, d, w : /\ f = Waiting(top, t, w)
                        /\ g = Call("discard_node", top.riichi) /\ d = 1 /\ w = wall_counts[t]
  OBVIOUS
<1>5. draw(t) /\ frames' = Front(frames) \o <<f, g>>  BY <1>2, <1>3, <1>4 DEF DrawTile, Push, Waiting
<1>6. /\ hand_counts \in [Tiles -> Nat] /\ wall_counts[t] = Total[t] - hand_counts[t]
      /\ (FivesInWall => hand_counts[t] <= Total[t]) /\ Total[t] \in Int
  BY <1>1 DEF MoveInv, Fits, Tallied, Dealt
<1>7. w \in Int  BY <1>4, <1>6
<1>8. /\ f \in FrameRecords /\ f.pc = "await" /\ f.at = t
      /\ f.vertex = top.vertex /\ f.node = top.node /\ f.riichi = top.riichi
  <2>1. f = Waiting(top, t, w)  BY <1>4
  <2>. QED  BY <1>7, <2>1, AwaitFrame
<1>9. top.riichi \in BOOLEAN  BY DEF FrameRecords
<1>10. g \in FrameRecords /\ g.pc = "enter"  BY <1>4, <1>9, CallFrame DEF NodeKinds
<1>11. /\ hand_counts' = [hand_counts EXCEPT ![t] = @ + d]
       /\ wall_counts' = [wall_counts EXCEPT ![t] = @ - d]
       /\ hand' = Change(hand, t, d)
  BY <1>4, <1>5 DEF draw
<1>12. d \in Int /\ hand_counts[t] + d >= 0 /\ (FivesInWall => hand_counts[t] + d <= Total[t])
  BY <1>3, <1>4, <1>6
<1>13. phase' = "search" /\ given' = given /\ vertices' = vertices
  BY <1>1 DEF DrawTile, graph
<1>14. d = IF f.node = "draw_node" THEN 1 ELSE -1  BY <1>1, <1>2, <1>4, <1>8
<1>. QED  BY <1>1, <1>2, <1>5, <1>8, <1>10, <1>11, <1>12, <1>13, <1>14, TryMoves

\* Taking away one is adding minus one.
LEMMA DiscardChanges ==
  ASSUME hand_counts \in [Tiles -> Int], wall_counts \in [Tiles -> Int],
         NEW t \in Tiles, discard(t), NEW d, d = -1
  PROVE  /\ hand_counts' = [hand_counts EXCEPT ![t] = @ + d]
         /\ wall_counts' = [wall_counts EXCEPT ![t] = @ - d]
         /\ hand' = Change(hand, t, d)
         /\ wall_counts'[t] \in Int
<1>1. \A n \in Int : n - 1 = n + d /\ n + 1 = n - d  OBVIOUS
<1>2. hand_counts[t] \in Int /\ wall_counts[t] \in Int  OBVIOUS
<1>3. hand_counts[t] - 1 = hand_counts[t] + d /\ wall_counts[t] + 1 = wall_counts[t] - d
  BY <1>1, <1>2
<1>4. /\ hand_counts' = [hand_counts EXCEPT ![t] = hand_counts[t] - 1]
      /\ wall_counts' = [wall_counts EXCEPT ![t] = wall_counts[t] + 1]
      /\ hand' = Change(hand, t, d)
  BY DEF discard
<1>5. hand_counts' = [hand_counts EXCEPT ![t] = hand_counts[t] + d]  BY <1>3, <1>4
<1>6. wall_counts' = [wall_counts EXCEPT ![t] = wall_counts[t] - d]  BY <1>3, <1>4
<1>7. wall_counts'[t] \in Int
  <2>1. wall_counts[t] + 1 \in Int  BY <1>2
  <2>2. wall_counts'[t] = wall_counts[t] + 1  BY <1>4
  <2>. QED  BY <2>1, <2>2
<1>. QED  BY <1>4, <1>5, <1>6, <1>7

LEMMA DiscardTileMoves ==
  ASSUME MoveInv, DiscardTile
  PROVE  MoveInv'
<1>1. phase = "search" /\ frames # <<>> /\ Top.node = "discard_node" /\ Top.pc = "loop"
  BY DEF DiscardTile, Running
<1>2. PICK top \in FrameRecords : top = Top  BY <1>1, TopFrame
<1>3. PICK t \in Tiles : t = Min(Remaining(hand_counts)) /\ hand_counts[t] # 0
  BY RemainingTile DEF DiscardTile
<1>4. PICK w, r : w = wall_counts'[t] /\ r = call_riichi(t)  OBVIOUS
<1>5. PICK f, g, d : /\ f = Waiting(top, t, w)
                     /\ g = Call("draw_node", r) /\ d = -1
  OBVIOUS
<1>6. discard(t) /\ frames' = Front(frames) \o <<f, g>>
  BY <1>2, <1>3, <1>4, <1>5 DEF DiscardTile, Push, Waiting
<1>7. /\ hand_counts \in [Tiles -> Nat] /\ wall_counts \in [Tiles -> Int]
      /\ (FivesInWall => hand_counts[t] <= Total[t]) /\ Total[t] \in Int
  BY <1>1 DEF MoveInv, Fits, Tallied, Dealt
<1>8. hand_counts \in [Tiles -> Int]  BY <1>7
<1>9. /\ hand_counts' = [hand_counts EXCEPT ![t] = @ + d]
      /\ wall_counts' = [wall_counts EXCEPT ![t] = @ - d]
      /\ hand' = Change(hand, t, d)
      /\ wall_counts'[t] \in Int
  BY <1>5, <1>6, <1>7, <1>8, DiscardChanges
<1>10. /\ f \in FrameRecords /\ f.pc = "await" /\ f.at = t
       /\ f.vertex = top.vertex /\ f.node = top.node /\ f.riichi = top.riichi
  <2>1. w \in Int  BY <1>4, <1>9
  <2>2. f = Waiting(top, t, w)  BY <1>5
  <2>. QED  BY <2>1, <2>2, AwaitFrame
<1>11. r \in BOOLEAN
  <2>1. top.riichi \in BOOLEAN  BY DEF FrameRecords
  <2>. QED  BY <1>2, <1>4, <2>1 DEF call_riichi
<1>12. g \in FrameRecords /\ g.pc = "enter"  BY <1>5, <1>11, CallFrame DEF NodeKinds
<1>13. d \in Int /\ hand_counts[t] + d >= 0 /\ (FivesInWall => hand_counts[t] + d <= Total[t])
  BY <1>3, <1>5, <1>7
<1>14. phase' = "search" /\ given' = given /\ vertices' = vertices
  BY <1>1 DEF DiscardTile, graph
<1>15. d = IF f.node = "draw_node" THEN 1 ELSE -1  BY <1>1, <1>2, <1>5, <1>10
<1>. QED  BY <1>1, <1>2, <1>6, <1>9, <1>10, <1>12, <1>13, <1>14, <1>15, TryMoves

LEMMA DrawBackMoves ==
  ASSUME MoveInv, DrawBack
  PROVE  MoveInv'
<1>1. phase = "search" /\ frames # <<>> /\ Top.node = "draw_node" /\ Top.pc = "await"
  BY DEF DrawBack, Running
<1>2. PICK top \in FrameRecords : top = Top /\ top.at \in Tiles
  BY <1>1, TopFrame DEF FrameInv
<1>3. PICK t \in Tiles : t = top.at  BY <1>2
<1>4. PICK f, d : f = [top EXCEPT !.pc = "loop"] /\ d = -1  OBVIOUS
<1>5. discard(t) /\ frames' = Append(Front(frames), f)
  BY <1>2, <1>3, <1>4 DEF DrawBack, Become
<1>6. hand_counts \in [Tiles -> Int] /\ wall_counts \in [Tiles -> Int]
  BY <1>1 DEF MoveInv, Fits, Tallied, Dealt
<1>7. /\ hand_counts' = [hand_counts EXCEPT ![t] = @ + d]
      /\ wall_counts' = [wall_counts EXCEPT ![t] = @ - d]
      /\ hand' = Change(hand, t, d)
  BY <1>4, <1>5, <1>6, DiscardChanges
<1>8. /\ f \in FrameRecords /\ f.pc = "loop"
      /\ f.vertex = top.vertex /\ f.node = top.node /\ f.riichi = top.riichi
  BY <1>4, LoopFrame
<1>9. phase' = "search" /\ given' = given /\ vertices' = vertices
  BY <1>1 DEF DrawBack
<1>10. d \in Int /\ d = IF f.node = "draw_node" THEN -1 ELSE 1  BY <1>1, <1>2, <1>4, <1>8
<1>. QED  BY <1>1, <1>2, <1>3, <1>5, <1>7, <1>8, <1>9, <1>10, BackMoves

LEMMA DiscardBackMoves ==
  ASSUME MoveInv, DiscardBack
  PROVE  MoveInv'
<1>1. phase = "search" /\ frames # <<>> /\ Top.node = "discard_node" /\ Top.pc = "await"
  BY DEF DiscardBack, Running
<1>2. PICK top \in FrameRecords : top = Top /\ top.at \in Tiles
  BY <1>1, TopFrame DEF FrameInv
<1>3. PICK t \in Tiles : t = top.at  BY <1>2
<1>4. PICK f, d : f = [top EXCEPT !.pc = "loop"] /\ d = 1  OBVIOUS
<1>5. draw(t) /\ frames' = Append(Front(frames), f)
  BY <1>2, <1>3, <1>4 DEF DiscardBack, Become
<1>6. /\ hand_counts' = [hand_counts EXCEPT ![t] = @ + d]
      /\ wall_counts' = [wall_counts EXCEPT ![t] = @ - d]
      /\ hand' = Change(hand, t, d)
  BY <1>4, <1>5 DEF draw
<1>7. /\ f \in FrameRecords /\ f.pc = "loop"
      /\ f.vertex = top.vertex /\ f.node = top.node /\ f.riichi = top.riichi
  BY <1>4, LoopFrame
<1>8. phase' = "search" /\ given' = given /\ vertices' = vertices
  BY <1>1 DEF DiscardBack
<1>9. d \in Int /\ d = IF f.node = "draw_node" THEN -1 ELSE 1  BY <1>1, <1>2, <1>4, <1>7
<1>. QED  BY <1>1, <1>2, <1>3, <1>5, <1>6, <1>7, <1>8, <1>9, BackMoves

LEMMA MoveStart == Init => StartInv /\ MoveInv
BY DEF Init, StartInv, MoveInv

LEMMA StartStep ==
  ASSUME StartInv, [Next]_vars
  PROVE  StartInv'
<1>1. CASE UNCHANGED vars  BY <1>1 DEF StartInv, vars, nodes
<1>2. input' = input
  BY DEF Next, Start, Shallow, DrawHit, DrawNew, DiscardHit, DiscardNew, DrawTile, DiscardTile,
         DrawBack, DiscardBack, Done, ReportDraw, ReportDiscards, Finished, Expand, given, vars
<1>3. CASE Next /\ phase' # "start"  BY <1>2, <1>3 DEF StartInv
<1>4. CASE Next /\ phase' = "start"
  BY <1>1, <1>4 DEF Next, Start, Shallow, DrawHit, DrawNew, DiscardHit, DiscardNew, DrawTile,
         DiscardTile, DrawBack, DiscardBack, Done, ReportDraw, ReportDiscards, Finished, Expand,
         Running
<1>. QED  BY <1>1, <1>3, <1>4

LEMMA MoveStep ==
  ASSUME StartInv, MoveInv, [Next]_vars
  PROVE  MoveInv'
<1>1. CASE UNCHANGED vars
  <2>1. given' = given /\ tiles' = tiles /\ frames' = frames /\ vertices' = vertices /\ phase' = phase
    BY <1>1 DEF vars, given, tiles
  <2>2. Current' = Current  BY <2>1 DEF Current, Entry, Offered, Top, given
  <2>3. SUFFICES ASSUME phase = "search" PROVE MoveInv'  BY <2>1 DEF MoveInv
  <2>4. Dealt' /\ Fits(Current)' /\ Tallied(Current)'  BY <2>1, <2>2, <2>3, SameHand
  <2>5. Total' = Total  BY <2>1 DEF Total, given
  <2>6. ASSUME NEW i \in 1..Len(frames)  PROVE FrameInv(i)'
    <3>1. FrameInv(i)  BY <2>3 DEF MoveInv
    <3>. QED  BY <2>1, <2>5, <3>1 DEF FrameInv, Entry, Offered, Fits, Is, given
  <2>. QED  BY <2>1, <2>3, <2>4, <2>6 DEF MoveInv
<1>2. CASE Start  BY <1>2, StartMoves
<1>3. CASE phase' # "search"  BY <1>3 DEF MoveInv
<1>4. CASE DrawHit \/ DiscardHit \/ Done  BY <1>4, HitMoves
<1>5. CASE DrawNew
  <2>1. Necessary(hand) \in SUBSET Kinds  BY DEF Necessary
  <2>2. /\ phase = "search" /\ frames # <<>> /\ Top.pc = "enter"
        /\ Expand(Shanten(hand), Necessary(hand), input.tegawari)
    BY <1>5 DEF DrawNew, Running
  <2>. QED  BY <2>1, <2>2, NewMoves
<1>6. CASE DiscardNew
  <2>1. Unnecessary(hand) \in SUBSET Kinds  BY DEF Unnecessary
  <2>2. /\ phase = "search" /\ frames # <<>> /\ Top.pc = "enter"
        /\ Expand(Shanten(hand), Unnecessary(hand), input.shanten_down)
    BY <1>6 DEF DiscardNew, Running
  <2>. QED  BY <2>1, <2>2, NewMoves
<1>7. CASE DrawTile  BY <1>7, DrawTileMoves
<1>8. CASE DiscardTile  BY <1>8, DiscardTileMoves
<1>9. CASE DrawBack  BY <1>9, DrawBackMoves
<1>10. CASE DiscardBack  BY <1>10, DiscardBackMoves
<1>11. CASE Shallow \/ ReportDraw \/ ReportDiscards
  BY <1>3, <1>11 DEF Shallow, ReportDraw, ReportDiscards
<1>12. CASE Finished  BY <1>1, <1>12 DEF Finished
<1>. QED  BY <1>1, <1>2, <1>4, <1>5, <1>6, <1>7, <1>8, <1>9, <1>10, <1>11, <1>12 DEF Next

\* The moves of the search cancel each other: at any time the counts are those of the
\* hand that the waiting calls have made of the first one (MoveInv), and what there is
\* of a tile besides it is in the wall.
THEOREM MovesCancel == Spec => [](StartInv /\ MoveInv)
<1>1. Init => StartInv /\ MoveInv  BY MoveStart
<1>2. StartInv /\ MoveInv /\ [Next]_vars => (StartInv /\ MoveInv)'  BY StartStep, MoveStep
<1>. QED  BY <1>1, <1>2, PTL DEF Spec

\* If the wall has no red five without a five, tiles are conserved and the search
\* draws none that is not there: TilesConserved.
THEOREM TilesConservedCorrect ==
  ASSUME FivesInWall
  PROVE  Spec => []TilesConserved
<1>1. MoveInv => TilesConserved
  <2>1. SUFFICES ASSUME MoveInv, phase = "search" PROVE TilesConserved  BY DEF TilesConserved
  <2>2. PICK h : h = Current  OBVIOUS
  <2>3. /\ h \in [Tiles -> Nat] /\ Total \in [Tiles -> Int]
        /\ \A t \in Tiles : h[t] <= Total[t]
        /\ hand_counts = h /\ wall_counts = [t \in Tiles |-> Total[t] - h[t]]
        /\ hand = to_merged_count(h)
    BY <2>1, <2>2 DEF MoveInv, Fits, Tallied, Dealt
  <2>. QED  BY <2>3 DEF TilesConserved
<1>. QED  BY <1>1, MovesCancel, PTL

-----------------------------------------------------------------------------
(* Keys: nine octal digits each.                                           *)

\* What a tile adds to a sum over some of the tiles.
Part(f, b, t) == IF t \in Tiles /\ b <= t THEN f[t] ELSE 0

\* A sum over the tiles from b to n, by its last tile.
LEMMA SumUpTo ==
  ASSUME NEW b \in Int, NEW n \in Int,
         NEW f, \A t \in Tiles \cap (b..n) : f[t] \in Int
  PROVE  SumFunctionOnSet(f, Tiles \cap (b..n)) =
           SumFunctionOnSet(f, Tiles \cap (b..n - 1)) + Part(f, b, n)
<1>. DEFINE S == Tiles \cap (b..n)
<1>1. IsFiniteSet(S)
  <2>1. IsFiniteSet(b..n)  BY FS_Interval
  <2>. QED  BY <2>1, FS_Subset
<1>2. S \ {n} = Tiles \cap (b..n - 1)  OBVIOUS
<1>3. SumFunctionOnSet(f, S) = SumFunctionOnSet(f, S \ {n}) + (IF n \in S THEN f[n] ELSE 0)
  <2>1. \A t \in S : f[t] \in Int  OBVIOUS
  <2>. HIDE DEF S
  <2>. QED  BY <1>1, <2>1, SumWithout
<1>4. Part(f, b, n) = IF n \in S THEN f[n] ELSE 0  BY DEF Part
<1>. HIDE DEF S
<1>. QED  BY <1>2, <1>3, <1>4 DEF S

LEMMA SumUpToNone ==
  ASSUME NEW a \in Int, NEW b \in Int, a <= b, NEW f
  PROVE  SumFunctionOnSet(f, Tiles \cap (b..a - 1)) = 0
<1>1. Tiles \cap (b..a - 1) = {}  OBVIOUS
<1>. QED  BY <1>1, SumEmpty, Zenon

\* The digit of a tile in an integer that begins with tile b.
Digit(h, b, t) == IF t \in Tiles /\ b <= t THEN h[t] ELSE 0

\* An integer has nine octal digits, or fewer for the honours.
LEMMA OctalNine ==
  ASSUME NEW h \in [Tiles -> Nat], NEW a \in Int, NEW b \in Int, a <= b
  PROVE  Octal(h, b, a + 8) =
           Digit(h, b, a + 8) + 8 * (Digit(h, b, a + 7) + 8 * (Digit(h, b, a + 6) + 8 * (Digit(h, b, a + 5)
           + 8 * (Digit(h, b, a + 4) + 8 * (Digit(h, b, a + 3) + 8 * (Digit(h, b, a + 2)
           + 8 * (Digit(h, b, a + 1) + 8 * Digit(h, b, a))))))))
<1>. DEFINE D == Tiles \cap (b..a + 8)
            f == [t \in D |-> h[t] * 8 ^ (a + 8 - t)]
            S(n) == SumFunctionOnSet(f, Tiles \cap (b..n))
<1>1. Octal(h, b, a + 8) = S(a + 8)
  <2>1. DOMAIN f = D  OBVIOUS
  <2>. QED  BY <2>1, SumWhole DEF Octal
<1>2. /\ Part(f, b, a) = Digit(h, b, a) * 16777216
      /\ Part(f, b, a + 1) = Digit(h, b, a + 1) * 2097152
      /\ Part(f, b, a + 2) = Digit(h, b, a + 2) * 262144
      /\ Part(f, b, a + 3) = Digit(h, b, a + 3) * 32768
      /\ Part(f, b, a + 4) = Digit(h, b, a + 4) * 4096
      /\ Part(f, b, a + 5) = Digit(h, b, a + 5) * 512
      /\ Part(f, b, a + 6) = Digit(h, b, a + 6) * 64
      /\ Part(f, b, a + 7) = Digit(h, b, a + 7) * 8
      /\ Part(f, b, a + 8) = Digit(h, b, a + 8)
  <2>1. ASSUME NEW j \in 0..8
        PROVE  Part(f, b, a + j) = Digit(h, b, a + j) * 8 ^ (8 - j)
    <3>1. a + 8 - (a + j) = 8 - j /\ a + j \in a..a + 8  OBVIOUS
    <3>2. CASE a + j \in Tiles /\ b <= a + j
      <4>1. f[a + j] = h[a + j] * 8 ^ (a + 8 - (a + j))  BY <3>1, <3>2
      <4>2. f[a + j] = h[a + j] * 8 ^ (8 - j)  BY <3>1, <4>1
      <4>. QED  BY <3>2, <4>2 DEF Part, Digit
    <3>3. CASE ~ (a + j \in Tiles /\ b <= a + j)
      <4>1. 8 ^ (8 - j) \in Int
        <5>1. j \in {0, 1, 2, 3, 4, 5, 6, 7, 8}  OBVIOUS
        <5>. QED  BY <5>1
      <4>. QED  BY <3>3, <4>1 DEF Part, Digit
    <3>. QED  BY <3>2, <3>3
  <2>. HIDE DEF f
  <2>2. \A t : Digit(h, b, t) \in Int  BY DEF Digit
  <2>3. /\ 8 ^ (8 - 0) = 16777216 /\ 8 ^ (8 - 1) = 2097152 /\ 8 ^ (8 - 2) = 262144
        /\ 8 ^ (8 - 3) = 32768 /\ 8 ^ (8 - 4) = 4096 /\ 8 ^ (8 - 5) = 512 /\ 8 ^ (8 - 6) = 64
        /\ 8 ^ (8 - 7) = 8 /\ 8 ^ (8 - 8) = 1
    BY SMT
  <2>4. a + 0 = a /\ \A t : Digit(h, b, t) * 1 = Digit(h, b, t)  BY <2>2
  <2>5. /\ Part(f, b, a + 0) = Digit(h, b, a + 0) * 8 ^ (8 - 0)
        /\ Part(f, b, a + 1) = Digit(h, b, a + 1) * 8 ^ (8 - 1)
        /\ Part(f, b, a + 2) = Digit(h, b, a + 2) * 8 ^ (8 - 2)
        /\ Part(f, b, a + 3) = Digit(h, b, a + 3) * 8 ^ (8 - 3)
        /\ Part(f, b, a + 4) = Digit(h, b, a + 4) * 8 ^ (8 - 4)
        /\ Part(f, b, a + 5) = Digit(h, b, a + 5) * 8 ^ (8 - 5)
        /\ Part(f, b, a + 6) = Digit(h, b, a + 6) * 8 ^ (8 - 6)
        /\ Part(f, b, a + 7) = Digit(h, b, a + 7) * 8 ^ (8 - 7)
        /\ Part(f, b, a + 8) = Digit(h, b, a + 8) * 8 ^ (8 - 8)
    BY <2>1
  <2>. QED  BY <2>3, <2>4, <2>5, SMT
<1>3. \A t \in D : f[t] \in Int
  <2>1. ASSUME NEW t \in D  PROVE f[t] \in Int
    <3>1. PICK j \in 0..8 : t = a + j
      <4>1. t - a \in 0..8 /\ t = a + (t - a)  OBVIOUS
      <4>. QED  BY <4>1
    <3>2. j \in {0, 1, 2, 3, 4, 5, 6, 7, 8}  OBVIOUS
    <3>3. a + 8 - t = 8 - j /\ h[t] \in Int  BY <3>1
    <3>4. 8 ^ (8 - j) \in Int  BY <3>2
    <3>5. f[t] = h[t] * 8 ^ (8 - j)  BY <3>3
    <3>. QED  BY <3>3, <3>4, <3>5
  <2>. QED  BY <2>1
<1>4. ASSUME NEW j \in 0..8  PROVE S(a + j) = S(a + j - 1) + Part(f, b, a + j)
  <2>1. a + j \in Int  OBVIOUS
  <2>2. \A t \in Tiles \cap (b..a + j) : f[t] \in Int
    <3>1. \A t \in Tiles \cap (b..a + j) : t \in D  OBVIOUS
    <3>. HIDE DEF f, D
    <3>. QED  BY <1>3, <3>1
  <2>. HIDE DEF f
  <2>. QED  BY <2>1, <2>2, SumUpTo
<1>5. S(a - 1) = 0  BY SumUpToNone
<1>6. \A t : Digit(h, b, t) \in Int  BY DEF Digit
<1>. HIDE DEF S, f
<1>7. /\ S(a + 0) = S(a + 0 - 1) + Part(f, b, a + 0) /\ S(a + 1) = S(a + 1 - 1) + Part(f, b, a + 1)
      /\ S(a + 2) = S(a + 2 - 1) + Part(f, b, a + 2) /\ S(a + 3) = S(a + 3 - 1) + Part(f, b, a + 3)
      /\ S(a + 4) = S(a + 4 - 1) + Part(f, b, a + 4) /\ S(a + 5) = S(a + 5 - 1) + Part(f, b, a + 5)
      /\ S(a + 6) = S(a + 6 - 1) + Part(f, b, a + 6) /\ S(a + 7) = S(a + 7 - 1) + Part(f, b, a + 7)
      /\ S(a + 8) = S(a + 8 - 1) + Part(f, b, a + 8)
  BY <1>4
<1>8. /\ a + 0 = a /\ a + 1 - 1 = a /\ a + 2 - 1 = a + 1 /\ a + 3 - 1 = a + 2 /\ a + 4 - 1 = a + 3
      /\ a + 5 - 1 = a + 4 /\ a + 6 - 1 = a + 5 /\ a + 7 - 1 = a + 6 /\ a + 8 - 1 = a + 7
  OBVIOUS
<1>9. /\ S(a) = 0 + Digit(h, b, a) * 16777216
      /\ S(a + 1) = S(a) + Digit(h, b, a + 1) * 2097152
      /\ S(a + 2) = S(a + 1) + Digit(h, b, a + 2) * 262144
      /\ S(a + 3) = S(a + 2) + Digit(h, b, a + 3) * 32768
      /\ S(a + 4) = S(a + 3) + Digit(h, b, a + 4) * 4096
      /\ S(a + 5) = S(a + 4) + Digit(h, b, a + 5) * 512
      /\ S(a + 6) = S(a + 5) + Digit(h, b, a + 6) * 64
      /\ S(a + 7) = S(a + 6) + Digit(h, b, a + 7) * 8
      /\ S(a + 8) = S(a + 7) + Digit(h, b, a + 8)
  BY <1>2, <1>5, <1>7, <1>8, SMT
<1>10. PICK d0 \in Int, d1 \in Int, d2 \in Int, d3 \in Int, d4 \in Int,
            d5 \in Int, d6 \in Int, d7 \in Int, d8 \in Int :
         /\ d0 = Digit(h, b, a) /\ d1 = Digit(h, b, a + 1) /\ d2 = Digit(h, b, a + 2)
         /\ d3 = Digit(h, b, a + 3) /\ d4 = Digit(h, b, a + 4) /\ d5 = Digit(h, b, a + 5)
         /\ d6 = Digit(h, b, a + 6) /\ d7 = Digit(h, b, a + 7) /\ d8 = Digit(h, b, a + 8)
  BY <1>6
<1>11. S(a + 8) = d0 * 16777216 + d1 * 2097152 + d2 * 262144 + d3 * 32768 + d4 * 4096
                  + d5 * 512 + d6 * 64 + d7 * 8 + d8
  BY <1>9, <1>10, SMT
<1>12. S(a + 8) =
         d8 + 8 * (d7 + 8 * (d6 + 8 * (d5 + 8 * (d4 + 8 * (d3 + 8 * (d2 + 8 * (d1 + 8 * d0)))))))
  BY <1>11, SMT
<1>. QED  BY <1>1, <1>10, <1>12, SMT

Flag(h, r) == IF r \in Reds THEN h[r] ELSE 0

LEMMA FlagsOf ==
  ASSUME NEW h \in [Tiles -> Nat]
  PROVE  Flags(h) = Flag(h, 34) * 2097152 + Flag(h, 35) * 4194304 + Flag(h, 36) * 8388608
<1>. DEFINE f == [r \in Reds |-> h[r] * 2 ^ (21 + r - 34)]
            R2 == Reds \ {36}
            R1 == R2 \ {35}
<1>1. Flags(h) = SumFunctionOnSet(f, Reds)
  <2>1. DOMAIN f = Reds  OBVIOUS
  <2>. QED  BY <2>1, SumWhole DEF Flags
<1>2. IsFiniteSet(Reds) /\ IsFiniteSet(R2) /\ IsFiniteSet(R1)
  <2>. PICK a \in Int, b \in Int : a = 34 /\ b = 36  OBVIOUS
  <2>1. IsFiniteSet(a..b)  BY FS_Interval
  <2>2. Reds \subseteq a..b  BY DEF Reds
  <2>3. IsFiniteSet(Reds)  BY <2>1, <2>2, FS_Subset
  <2>. QED  BY <2>3, FS_Subset
<1>3. \A r \in Reds : r \in Tiles /\ r \in {34, 35, 36}  BY RedFives
<1>4. /\ 2 ^ (21 + 34 - 34) = 2097152 /\ 2 ^ (21 + 35 - 34) = 4194304
      /\ 2 ^ (21 + 36 - 34) = 8388608
  BY SMT
<1>5. /\ 34 \in Reds => f[34] = h[34] * 2 ^ (21 + 34 - 34)
      /\ 35 \in Reds => f[35] = h[35] * 2 ^ (21 + 35 - 34)
      /\ 36 \in Reds => f[36] = h[36] * 2 ^ (21 + 36 - 34)
  OBVIOUS
<1>. HIDE DEF f
<1>6. /\ 34 \in Reds => f[34] = h[34] * 2097152
      /\ 35 \in Reds => f[35] = h[35] * 4194304
      /\ 36 \in Reds => f[36] = h[36] * 8388608
  BY <1>4, <1>5, SMT
<1>7. \A r \in Reds : f[r] \in Int  BY <1>3, <1>6, SMT
<1>8. /\ SumFunctionOnSet(f, Reds) = SumFunctionOnSet(f, R2) + (IF 36 \in Reds THEN f[36] ELSE 0)
      /\ SumFunctionOnSet(f, R2) = SumFunctionOnSet(f, R1) + (IF 35 \in R2 THEN f[35] ELSE 0)
      /\ SumFunctionOnSet(f, R1) = SumFunctionOnSet(f, R1 \ {34}) + (IF 34 \in R1 THEN f[34] ELSE 0)
  <2>1. ASSUME NEW S, S \subseteq Reds, IsFiniteSet(S), NEW y
        PROVE  SumFunctionOnSet(f, S) = SumFunctionOnSet(f, S \ {y}) + (IF y \in S THEN f[y] ELSE 0)
    BY <1>7, <2>1, SumWithout
  <2>2. R2 \subseteq Reds /\ R1 \subseteq Reds  OBVIOUS
  <2>. HIDE DEF R1, R2
  <2>3. SumFunctionOnSet(f, Reds) = SumFunctionOnSet(f, Reds \ {36}) + (IF 36 \in Reds THEN f[36] ELSE 0)
    BY <1>2, <2>1, Zenon
  <2>4. SumFunctionOnSet(f, R2) = SumFunctionOnSet(f, R2 \ {35}) + (IF 35 \in R2 THEN f[35] ELSE 0)
    BY <1>2, <2>1, <2>2, Zenon
  <2>5. SumFunctionOnSet(f, R1) = SumFunctionOnSet(f, R1 \ {34}) + (IF 34 \in R1 THEN f[34] ELSE 0)
    BY <1>2, <2>1, <2>2, Zenon
  <2>. QED  BY <2>3, <2>4, <2>5, Zenon DEF R1, R2
<1>11. R1 \ {34} = {}  BY <1>3
<1>12. SumFunctionOnSet(f, R1 \ {34}) = 0  BY <1>11, SumEmpty, Zenon
<1>13. (35 \in R2 <=> 35 \in Reds) /\ (34 \in R1 <=> 34 \in Reds)  OBVIOUS
<1>. HIDE DEF R1, R2
<1>14. (34 \in Reds => h[34] \in Nat) /\ (35 \in Reds => h[35] \in Nat) /\ (36 \in Reds => h[36] \in Nat)
  BY <1>3
<1>. QED  BY <1>1, <1>6, <1>8, <1>12, <1>13, <1>14, SMT DEF Flag

\* A hand with at most one red five of a kind and no more than fits in a digit.
Digits(h) ==
  /\ h \in [Tiles -> Nat]
  /\ \A t \in Tiles : h[t] <= 7
  /\ \A r \in Reds : h[r] <= 1

LEMMA SuitOfKey ==
  ASSUME NEW h, NEW g, Digits(h), Digits(g), NEW a \in Int,
         Octal(h, a, a + 8) = Octal(g, a, a + 8)
  PROVE  \A t \in Tiles : a <= t /\ t <= a + 8 => h[t] = g[t]
<1>1. \A t : Digit(h, a, t) \in 0..7 /\ Digit(g, a, t) \in 0..7  BY DEF Digit, Digits
<1>2. h \in [Tiles -> Nat] /\ g \in [Tiles -> Nat]  BY DEF Digits
<1>3. /\ Digit(h, a, a) = Digit(g, a, a) /\ Digit(h, a, a + 1) = Digit(g, a, a + 1)
      /\ Digit(h, a, a + 2) = Digit(g, a, a + 2) /\ Digit(h, a, a + 3) = Digit(g, a, a + 3)
      /\ Digit(h, a, a + 4) = Digit(g, a, a + 4) /\ Digit(h, a, a + 5) = Digit(g, a, a + 5)
      /\ Digit(h, a, a + 6) = Digit(g, a, a + 6) /\ Digit(h, a, a + 7) = Digit(g, a, a + 7)
      /\ Digit(h, a, a + 8) = Digit(g, a, a + 8)
  <2>1. PICK c0 \in 0..7, c1 \in 0..7, c2 \in 0..7, c3 \in 0..7, c4 \in 0..7,
             c5 \in 0..7, c6 \in 0..7, c7 \in 0..7, c8 \in 0..7 :
          /\ c0 = Digit(h, a, a) /\ c1 = Digit(h, a, a + 1) /\ c2 = Digit(h, a, a + 2)
          /\ c3 = Digit(h, a, a + 3) /\ c4 = Digit(h, a, a + 4) /\ c5 = Digit(h, a, a + 5)
          /\ c6 = Digit(h, a, a + 6) /\ c7 = Digit(h, a, a + 7) /\ c8 = Digit(h, a, a + 8)
    BY <1>1
  <2>2. PICK d0 \in 0..7, d1 \in 0..7, d2 \in 0..7, d3 \in 0..7, d4 \in 0..7,
             d5 \in 0..7, d6 \in 0..7, d7 \in 0..7, d8 \in 0..7 :
          /\ d0 = Digit(g, a, a) /\ d1 = Digit(g, a, a + 1) /\ d2 = Digit(g, a, a + 2)
          /\ d3 = Digit(g, a, a + 3) /\ d4 = Digit(g, a, a + 4) /\ d5 = Digit(g, a, a + 5)
          /\ d6 = Digit(g, a, a + 6) /\ d7 = Digit(g, a, a + 7) /\ d8 = Digit(g, a, a + 8)
    BY <1>1
  <2>3. Octal(h, a, a + 8) =
          c8 + 8 * (c7 + 8 * (c6 + 8 * (c5 + 8 * (c4 + 8 * (c3 + 8 * (c2 + 8 * (c1 + 8 * c0)))))))
    <3>1. Octal(h, a, a + 8) =
            Digit(h, a, a + 8) + 8 * (Digit(h, a, a + 7) + 8 * (Digit(h, a, a + 6)
            + 8 * (Digit(h, a, a + 5) + 8 * (Digit(h, a, a + 4) + 8 * (Digit(h, a, a + 3)
            + 8 * (Digit(h, a, a + 2) + 8 * (Digit(h, a, a + 1) + 8 * Digit(h, a, a))))))))
      BY <1>2, OctalNine
    <3>. QED  BY <2>1, <3>1
  <2>4. Octal(g, a, a + 8) =
          d8 + 8 * (d7 + 8 * (d6 + 8 * (d5 + 8 * (d4 + 8 * (d3 + 8 * (d2 + 8 * (d1 + 8 * d0)))))))
    <3>1. Octal(g, a, a + 8) =
            Digit(g, a, a + 8) + 8 * (Digit(g, a, a + 7) + 8 * (Digit(g, a, a + 6)
            + 8 * (Digit(g, a, a + 5) + 8 * (Digit(g, a, a + 4) + 8 * (Digit(g, a, a + 3)
            + 8 * (Digit(g, a, a + 2) + 8 * (Digit(g, a, a + 1) + 8 * Digit(g, a, a))))))))
      BY <1>2, OctalNine
    <3>. QED  BY <2>2, <3>1
  <2>5. /\ c8 = d8 /\ c7 = d7 /\ c6 = d6 /\ c5 = d5 /\ c4 = d4
        /\ c3 = d3 /\ c2 = d2 /\ c1 = d1 /\ c0 = d0
    BY <2>3, <2>4
  <2>. QED  BY <2>1, <2>2, <2>5
<1>4. ASSUME NEW t \in Tiles, a <= t, t <= a + 8  PROVE h[t] = g[t]
  <2>1. t \in Int  BY RedFives
  <2>2. \/ t = a \/ t = a + 1 \/ t = a + 2 \/ t = a + 3 \/ t = a + 4
        \/ t = a + 5 \/ t = a + 6 \/ t = a + 7 \/ t = a + 8
    BY <1>4, <2>1
  <2>3. Digit(h, a, t) = Digit(g, a, t)  BY <1>3, <2>2
  <2>. QED  BY <1>4, <2>3 DEF Digit
<1>. QED  BY <1>4

\* The integer of the honours holds the red fives and riichi too.
LEMMA HonoursOfKey ==
  ASSUME NEW h, NEW g, Digits(h), Digits(g), NEW p \in BOOLEAN, NEW q \in BOOLEAN,
         Octal(h, 27, 33) + Flags(h) + (IF p THEN 2 ^ 24 ELSE 0)
           = Octal(g, 27, 33) + Flags(g) + (IF q THEN 2 ^ 24 ELSE 0)
  PROVE  p = q /\ \A t \in Tiles : 27 <= t => h[t] = g[t]
<1>1. /\ \A t : Digit(h, 27, t) \in 0..7 /\ Digit(g, 27, t) \in 0..7
      /\ \A t \in 25..26 : Digit(h, 27, t) = 0 /\ Digit(g, 27, t) = 0
  BY DEF Digit, Digits
<1>2. h \in [Tiles -> Nat] /\ g \in [Tiles -> Nat]  BY DEF Digits
<1>3. \A r : Flag(h, r) \in 0..1 /\ Flag(g, r) \in 0..1  BY RedFives DEF Flag, Digits
<1>4. /\ Digit(h, 27, 27) = Digit(g, 27, 27) /\ Digit(h, 27, 28) = Digit(g, 27, 28)
      /\ Digit(h, 27, 29) = Digit(g, 27, 29) /\ Digit(h, 27, 30) = Digit(g, 27, 30)
      /\ Digit(h, 27, 31) = Digit(g, 27, 31) /\ Digit(h, 27, 32) = Digit(g, 27, 32)
      /\ Digit(h, 27, 33) = Digit(g, 27, 33)
      /\ Flag(h, 34) = Flag(g, 34) /\ Flag(h, 35) = Flag(g, 35) /\ Flag(h, 36) = Flag(g, 36)
      /\ p = q
  <2>1. PICK c2 \in 0..7, c3 \in 0..7, c4 \in 0..7,
             c5 \in 0..7, c6 \in 0..7, c7 \in 0..7, c8 \in 0..7 :
          /\ c2 = Digit(h, 27, 27) /\ c3 = Digit(h, 27, 28) /\ c4 = Digit(h, 27, 29)
          /\ c5 = Digit(h, 27, 30) /\ c6 = Digit(h, 27, 31) /\ c7 = Digit(h, 27, 32)
          /\ c8 = Digit(h, 27, 33)
    BY <1>1
  <2>2. PICK d2 \in 0..7, d3 \in 0..7, d4 \in 0..7,
             d5 \in 0..7, d6 \in 0..7, d7 \in 0..7, d8 \in 0..7 :
          /\ d2 = Digit(g, 27, 27) /\ d3 = Digit(g, 27, 28) /\ d4 = Digit(g, 27, 29)
          /\ d5 = Digit(g, 27, 30) /\ d6 = Digit(g, 27, 31) /\ d7 = Digit(g, 27, 32)
          /\ d8 = Digit(g, 27, 33)
    BY <1>1
  <2>3. PICK x4 \in 0..1, x5 \in 0..1, x6 \in 0..1, y4 \in 0..1, y5 \in 0..1, y6 \in 0..1 :
          /\ x4 = Flag(h, 34) /\ x5 = Flag(h, 35) /\ x6 = Flag(h, 36)
          /\ y4 = Flag(g, 34) /\ y5 = Flag(g, 35) /\ y6 = Flag(g, 36)
    BY <1>3
  <2>4. PICK c1 \in 0..7, d1 \in 0..7, c0 \in 0..7, d0 \in 0..7 :
          /\ c1 = x4 + 2 * x5 + 4 * x6 /\ d1 = y4 + 2 * y5 + 4 * y6
          /\ c0 = (IF p THEN 1 ELSE 0) /\ d0 = (IF q THEN 1 ELSE 0)
    <3>1. x4 + 2 * x5 + 4 * x6 \in 0..7 /\ y4 + 2 * y5 + 4 * y6 \in 0..7  OBVIOUS
    <3>2. (IF p THEN 1 ELSE 0) \in 0..7 /\ (IF q THEN 1 ELSE 0) \in 0..7  OBVIOUS
    <3>. QED  BY <3>1, <3>2
  <2>5. Octal(h, 27, 33) = c8 + 8 * (c7 + 8 * (c6 + 8 * (c5 + 8 * (c4 + 8 * (c3 + 8 * c2)))))
    <3>1. Octal(h, 27, 25 + 8) =
            Digit(h, 27, 25 + 8) + 8 * (Digit(h, 27, 25 + 7) + 8 * (Digit(h, 27, 25 + 6)
            + 8 * (Digit(h, 27, 25 + 5) + 8 * (Digit(h, 27, 25 + 4) + 8 * (Digit(h, 27, 25 + 3)
            + 8 * (Digit(h, 27, 25 + 2) + 8 * (Digit(h, 27, 25 + 1) + 8 * Digit(h, 27, 25))))))))
      BY <1>2, OctalNine
    <3>2. Digit(h, 27, 25) = 0 /\ Digit(h, 27, 25 + 1) = 0  BY <1>1
    <3>. QED  BY <2>1, <3>1, <3>2
  <2>6. Octal(g, 27, 33) = d8 + 8 * (d7 + 8 * (d6 + 8 * (d5 + 8 * (d4 + 8 * (d3 + 8 * d2)))))
    <3>1. Octal(g, 27, 25 + 8) =
            Digit(g, 27, 25 + 8) + 8 * (Digit(g, 27, 25 + 7) + 8 * (Digit(g, 27, 25 + 6)
            + 8 * (Digit(g, 27, 25 + 5) + 8 * (Digit(g, 27, 25 + 4) + 8 * (Digit(g, 27, 25 + 3)
            + 8 * (Digit(g, 27, 25 + 2) + 8 * (Digit(g, 27, 25 + 1) + 8 * Digit(g, 27, 25))))))))
      BY <1>2, OctalNine
    <3>2. Digit(g, 27, 25) = 0 /\ Digit(g, 27, 25 + 1) = 0  BY <1>1
    <3>. QED  BY <2>2, <3>1, <3>2
  <2>7. Flags(h) = c1 * 2097152 /\ Flags(g) = d1 * 2097152
    <3>1. /\ Flags(h) = x4 * 2097152 + x5 * 4194304 + x6 * 8388608
          /\ Flags(g) = y4 * 2097152 + y5 * 4194304 + y6 * 8388608
      BY <1>2, <2>3, FlagsOf, SMT
    <3>. QED  BY <2>4, <3>1, SMT
  <2>8. 2 ^ 24 = 16777216  BY SMT
  <2>9. c8 + 8 * (c7 + 8 * (c6 + 8 * (c5 + 8 * (c4 + 8 * (c3 + 8 * (c2 + 8 * (c1 + 8 * c0)))))))
        = d8 + 8 * (d7 + 8 * (d6 + 8 * (d5 + 8 * (d4 + 8 * (d3 + 8 * (d2 + 8 * (d1 + 8 * d0)))))))
    <3>1. /\ (IF p THEN 2 ^ 24 ELSE 0) = c0 * 16777216
          /\ (IF q THEN 2 ^ 24 ELSE 0) = d0 * 16777216
      BY <2>4, <2>8, SMT
    <3>. QED  BY <2>5, <2>6, <2>7, <3>1, SMT
  <2>10. /\ c8 = d8 /\ c7 = d7 /\ c6 = d6 /\ c5 = d5 /\ c4 = d4
         /\ c3 = d3 /\ c2 = d2 /\ c1 = d1 /\ c0 = d0
    BY <2>9
  <2>11. x4 = y4 /\ x5 = y5 /\ x6 = y6  BY <2>4, <2>10
  <2>. QED  BY <2>1, <2>2, <2>3, <2>4, <2>10, <2>11
<1>5. ASSUME NEW t \in Tiles, 27 <= t  PROVE h[t] = g[t]
  <2>1. t \in 27..36 /\ (t \in Reds \/ t <= 33)
    <3>1. Kinds \subseteq 0..33  BY ShapeAssumption
    <3>. QED  BY <1>5, <3>1, RedFives DEF Tiles
  <2>2. CASE t \in Reds
    <3>1. t \in {34, 35, 36}  BY <2>2, RedFives
    <3>. QED  BY <1>4, <2>2, <3>1 DEF Flag
  <2>3. CASE t <= 33
    <3>1. t \in {27, 28, 29, 30, 31, 32, 33}  BY <2>1, <2>3
    <3>2. Digit(h, 27, t) = Digit(g, 27, t)  BY <1>4, <3>1
    <3>. QED  BY <1>5, <3>2 DEF Digit
  <2>. QED  BY <2>1, <2>2, <2>3
<1>. QED  BY <1>4, <1>5

\* No two hands have a key in common, and no hand with and without riichi.
LEMMA KeysTellHandsApart ==
  ASSUME NEW h, NEW g, Digits(h), Digits(g), NEW p \in BOOLEAN, NEW q \in BOOLEAN,
         CacheKey(h, p) = CacheKey(g, q)
  PROVE  h = g /\ p = q
<1>1. /\ Octal(h, 0, 8) = Octal(g, 0, 8) /\ Octal(h, 9, 17) = Octal(g, 9, 17)
      /\ Octal(h, 18, 26) = Octal(g, 18, 26)
      /\ Octal(h, 27, 33) + Flags(h) + (IF p THEN 2 ^ 24 ELSE 0)
           = Octal(g, 27, 33) + Flags(g) + (IF q THEN 2 ^ 24 ELSE 0)
  BY Zenon DEF CacheKey
<1>2. \A t \in Tiles : 0 <= t /\ t <= 8 => h[t] = g[t]
  <2>1. Octal(h, 0, 0 + 8) = Octal(g, 0, 0 + 8)  BY <1>1
  <2>2. \A t \in Tiles : 0 <= t /\ t <= 0 + 8 => h[t] = g[t]  BY <2>1, SuitOfKey
  <2>. QED  BY <2>2
<1>3. \A t \in Tiles : 9 <= t /\ t <= 17 => h[t] = g[t]
  <2>1. Octal(h, 9, 9 + 8) = Octal(g, 9, 9 + 8)  BY <1>1
  <2>2. \A t \in Tiles : 9 <= t /\ t <= 9 + 8 => h[t] = g[t]  BY <2>1, SuitOfKey
  <2>. QED  BY <2>2
<1>4. \A t \in Tiles : 18 <= t /\ t <= 26 => h[t] = g[t]
  <2>1. Octal(h, 18, 18 + 8) = Octal(g, 18, 18 + 8)  BY <1>1
  <2>2. \A t \in Tiles : 18 <= t /\ t <= 18 + 8 => h[t] = g[t]  BY <2>1, SuitOfKey
  <2>. QED  BY <2>2
<1>5. p = q /\ \A t \in Tiles : 27 <= t => h[t] = g[t]  BY <1>1, HonoursOfKey
<1>6. \A t \in Tiles : h[t] = g[t]
  <2>1. \A t \in Tiles : t \in 0..36  BY RedFives
  <2>. QED  BY <1>2, <1>3, <1>4, <1>5, <2>1
<1>. QED  BY <1>5, <1>6 DEF Digits

-----------------------------------------------------------------------------
(* The invariant.                                                          *)

\* The call that a waiting call makes: of the other kind, with riichi if it was
\* declared before or by the discard.
Other(node) == IF node = "draw_node" THEN "discard_node" ELSE "draw_node"
Passed(f) ==
  IF f.node = "draw_node" THEN f.riichi
  ELSE (input.closed /\ f.shanten = 0 /\ f.at \in f.useful) \/ f.riichi

CallInv(i) ==
  /\ i = 1 => /\ ~frames[1].riichi
              /\ vertices # <<>> => frames[1].node = vertices[1].node
  /\ i # 1 => /\ frames[i].node = Other(frames[i - 1].node)
              /\ frames[i].riichi = Passed(frames[i - 1])

\* What has been returned is the node of the hand and riichi that were asked for.
ReturnInv ==
  IF frames = <<>> THEN vertices # <<>> /\ Is(returned, vertices[1].node, hand_org, FALSE)
  ELSE Top.pc = "await" => Is(returned, Other(Top.node), Offered(Top), Passed(Top))

\* A cache has the nodes of one kind, each by the key of its hand.
KeyOf(v) == CacheKey(vertices[v].hand, vertices[v].riichi)
CacheInv(cache, node) ==
  /\ \A v \in DOMAIN vertices :
       vertices[v].node = node => KeyOf(v) \in DOMAIN cache /\ cache[KeyOf(v)] = v
  /\ \A key \in DOMAIN cache :
       cache[key] \in DOMAIN vertices /\ vertices[cache[key]].node = node /\ KeyOf(cache[key]) = key

NodeInv ==
  /\ vertices \in Seq(VertexRecords)
  /\ CacheInv(cache1, "draw_node") /\ CacheInv(cache2, "discard_node")
  /\ phase = "search" =>
       /\ \A v \in DOMAIN vertices : Fits(vertices[v].hand)
       /\ \A i \in 1..Len(frames) : CallInv(i)
       /\ ReturnInv

-----------------------------------------------------------------------------
(* Looking up and entering.                                                *)

LEMMA FitsDigits ==
  ASSUME MoveInv, phase = "search", FivesInWall, NEW h, Fits(h)
  PROVE  Digits(h)
<1>1. /\ h \in [Tiles -> Nat] /\ Total \in [Tiles -> Int]
      /\ \A t \in Tiles : h[t] <= Total[t]
      /\ \A k \in Kinds : Total[k] <= 4
      /\ \A r \in Reds : Total[r] <= 1
  BY DEF MoveInv, Fits, Dealt
<1>2. ASSUME NEW t \in Tiles  PROVE h[t] <= 7 /\ (t \in Reds => h[t] <= 1)
  <2>1. CASE t \in Kinds  BY <1>1, <2>1, RedFives
  <2>2. CASE t \in Reds
    <3>1. h[t] \in Nat /\ Total[t] \in Int  BY <1>1
    <3>2. Total[t] <= 1  BY <1>1, <2>2
    <3>3. h[t] <= Total[t]  BY <1>1
    <3>. QED  BY <3>1, <3>2, <3>3
  <2>. QED  BY <2>1, <2>2 DEF Tiles
<1>. QED  BY <1>1, <1>2, RedFives DEF Digits

LEMMA VertexOf ==
  ASSUME NodeInv, NEW v \in DOMAIN vertices
  PROVE  /\ vertices[v] \in VertexRecords
         /\ vertices[v].node \in NodeKinds /\ vertices[v].riichi \in BOOLEAN
<1>1. vertices[v] \in VertexRecords  BY ElementOfSeq, LenProperties DEF NodeInv
<1>. QED  BY <1>1 DEF VertexRecords

\* A hit is a hit for the hand and the riichi.
LEMMA Cached ==
  ASSUME MoveInv, NodeInv, phase = "search", FivesInWall, NEW cache, NEW node,
         CacheInv(cache, node), NEW h, Fits(h), NEW riichi \in BOOLEAN,
         CacheKey(h, riichi) \in DOMAIN cache
  PROVE  Is(cache[CacheKey(h, riichi)], node, h, riichi)
<1>. PICK v : v = cache[CacheKey(h, riichi)]  OBVIOUS
<1>1. v \in DOMAIN vertices /\ vertices[v].node = node /\ KeyOf(v) = CacheKey(h, riichi)
  BY DEF CacheInv
<1>2. PICK g, q : g = vertices[v].hand /\ q = vertices[v].riichi  OBVIOUS
<1>3. CacheKey(g, q) = CacheKey(h, riichi) /\ q \in BOOLEAN  BY <1>1, <1>2, VertexOf DEF KeyOf
<1>4. Fits(g)  BY <1>1, <1>2 DEF NodeInv
<1>5. g = h /\ q = riichi  BY <1>3, <1>4, FitsDigits, KeysTellHandsApart
<1>. QED  BY <1>1, <1>2, <1>5 DEF Is

\* A new vertex, and what that leaves alone.
LEMMA Appended ==
  ASSUME vertices \in Seq(VertexRecords), NEW v \in VertexRecords, vertices' = Append(vertices, v)
  PROVE  /\ vertices' \in Seq(VertexRecords) /\ vertices' # <<>>
         /\ Len(vertices) + 1 \in DOMAIN vertices' /\ vertices'[Len(vertices) + 1] = v
         /\ Len(vertices) + 1 \notin DOMAIN vertices
         /\ \A u \in DOMAIN vertices : u \in DOMAIN vertices' /\ vertices'[u] = vertices[u]
         /\ \A u \in DOMAIN vertices' : u \in DOMAIN vertices \/ u = Len(vertices) + 1
         /\ vertices # <<>> => vertices'[1] = vertices[1]
         /\ vertices = <<>> => vertices'[1] = v
<1>1. /\ vertices' \in Seq(VertexRecords)
      /\ Len(vertices') = Len(vertices) + 1
      /\ \A i \in 1..Len(vertices) : vertices'[i] = vertices[i]
      /\ vertices'[Len(vertices) + 1] = v
  BY AppendProperties
<1>2. DOMAIN vertices = 1..Len(vertices) /\ Len(vertices) \in Nat  BY LenProperties
<1>3. DOMAIN vertices' = 1..Len(vertices')  BY <1>1, LenProperties
<1>4. vertices # <<>> => Len(vertices) # 0  BY EmptySeq
<1>5. vertices = <<>> => Len(vertices) = 0  BY EmptySeq
<1>6. vertices' # <<>>  BY <1>1, <1>2, EmptySeq
<1>. QED  BY <1>1, <1>2, <1>3, <1>4, <1>5, <1>6

LEMMA CacheGrows ==
  ASSUME vertices \in Seq(VertexRecords), NEW v \in VertexRecords, vertices' = Append(vertices, v),
         NEW cache, NEW node, CacheInv(cache, node), v.node = node,
         NEW key, key = CacheKey(v.hand, v.riichi), key \notin DOMAIN cache,
         NEW d, d = Entered(cache, key)
  PROVE  CacheInv(d, node)'
<1>. PICK n : n = Len(vertices) + 1  OBVIOUS
<1>1. /\ n \in DOMAIN vertices' /\ vertices'[n] = v /\ n \notin DOMAIN vertices
      /\ \A u \in DOMAIN vertices : u \in DOMAIN vertices' /\ vertices'[u] = vertices[u]
      /\ \A u \in DOMAIN vertices' : u \in DOMAIN vertices \/ u = n
  BY Appended
<1>2. /\ DOMAIN d = DOMAIN cache \cup {key}
      /\ d[key] = n /\ \A k \in DOMAIN cache : d[k] = cache[k]
  BY DEF Entered
<1>. DEFINE K(u) == CacheKey(vertices'[u].hand, vertices'[u].riichi)
<1>3. K(n) = key  BY <1>1
<1>4. \A u \in DOMAIN vertices : K(u) = KeyOf(u)  BY <1>1 DEF KeyOf
<1>5. ASSUME NEW u \in DOMAIN vertices', vertices'[u].node = node
      PROVE  K(u) \in DOMAIN d /\ d[K(u)] = u
  <2>1. CASE u = n  BY <1>2, <1>3, <2>1
  <2>2. CASE u \in DOMAIN vertices
    <3>1. KeyOf(u) \in DOMAIN cache /\ cache[KeyOf(u)] = u  BY <1>1, <1>5, <2>2 DEF CacheInv
    <3>. QED  BY <1>2, <1>4, <2>2, <3>1
  <2>. QED  BY <1>1, <2>1, <2>2
<1>6. ASSUME NEW k \in DOMAIN d
      PROVE  d[k] \in DOMAIN vertices' /\ vertices'[d[k]].node = node /\ K(d[k]) = k
  <2>1. CASE k = key  BY <1>1, <1>2, <1>3, <2>1
  <2>2. CASE k \in DOMAIN cache
    <3>1. cache[k] \in DOMAIN vertices /\ vertices[cache[k]].node = node /\ KeyOf(cache[k]) = k
      BY <2>2 DEF CacheInv
    <3>. QED  BY <1>1, <1>2, <1>4, <2>2, <3>1
  <2>. QED  BY <1>2, <2>1, <2>2
<1>. QED  BY <1>5, <1>6 DEF CacheInv, KeyOf

LEMMA CacheKept ==
  ASSUME vertices \in Seq(VertexRecords), NEW v \in VertexRecords, vertices' = Append(vertices, v),
         NEW cache, NEW node, CacheInv(cache, node), v.node # node
  PROVE  CacheInv(cache, node)'
<1>. PICK n : n = Len(vertices) + 1  OBVIOUS
<1>1. /\ vertices'[n] = v
      /\ \A u \in DOMAIN vertices : u \in DOMAIN vertices' /\ vertices'[u] = vertices[u]
      /\ \A u \in DOMAIN vertices' : u \in DOMAIN vertices \/ u = n
  BY Appended
<1>2. \A u \in DOMAIN vertices' : vertices'[u].node = node => u \in DOMAIN vertices  BY <1>1
<1>. QED  BY <1>1, <1>2 DEF CacheInv, KeyOf

-----------------------------------------------------------------------------
(* The steps.                                                              *)

\* A call that is not the first, or has looked at its hand, has a vertex below.
LEMMA SomeVertex ==
  ASSUME MoveInv, phase = "search", frames # <<>>, Len(frames) # 1 \/ Top.pc # "enter"
  PROVE  vertices # <<>>
<1>1. frames \in Seq(FrameRecords) /\ vertices \in Seq(VertexRecords)  BY DEF MoveInv
<1>2. Len(frames) \in Nat \ {0} /\ Top = frames[Len(frames)]  BY TopFrame
<1>3. FrameInv(1) /\ frames[1].pc # "enter"
  <2>1. 1 \in 1..Len(frames)  BY <1>2
  <2>2. FrameInv(1)  BY <2>1 DEF MoveInv
  <2>3. CASE Len(frames) = 1  BY <1>2, <2>2, <2>3
  <2>4. CASE Len(frames) # 1
    <3>1. 1 < Len(frames)  BY <1>2, <2>4
    <3>2. frames[1].pc = "await"  BY <2>2, <3>1 DEF FrameInv
    <3>. QED  BY <2>2, <3>2
  <2>. QED  BY <2>3, <2>4, Zenon
<1>4. frames[1].vertex \in DOMAIN vertices  BY <1>3 DEF FrameInv, Is
<1>5. DOMAIN vertices = 1..Len(vertices) /\ Len(vertices) \in Nat  BY <1>1, LenProperties
<1>. QED  BY <1>1, <1>4, <1>5, EmptySeq

\* Calls stay what they were called with.
LEMMA CallStays ==
  ASSUME NodeInv, phase = "search", input' = input, NEW m \in Nat, m <= Len(frames), Len(frames) \in Nat,
         \A j \in 1..m - 1 : frames'[j] = frames[j],
         m # 0 => frames'[m].node = frames[m].node /\ frames'[m].riichi = frames[m].riichi,
         vertices' # <<>> => vertices'[1].node = frames[1].node,
         NEW i \in 1..m
  PROVE  CallInv(i)'
<1>1. CallInv(i)  BY DEF NodeInv
<1>2. frames'[i].node = frames[i].node /\ frames'[i].riichi = frames[i].riichi
  BY i \in 1..m - 1 \/ i = m
<1>3. CASE i = 1  BY <1>1, <1>2, <1>3 DEF CallInv
<1>4. CASE i # 1
  <2>1. i - 1 \in 1..m - 1  BY <1>4
  <2>2. PICK f : f = frames[i - 1]  OBVIOUS
  <2>3. frames'[i - 1] = f  BY <2>1, <2>2
  <2>4. Passed(f)' = Passed(f)  BY DEF Passed
  <2>5. frames[i].node = Other(f.node) /\ frames[i].riichi = Passed(f)  BY <1>1, <1>4, <2>2 DEF CallInv
  <2>6. Passed(frames[i - 1])' = Passed(f)'  BY <2>3 DEF Passed
  <2>. QED  BY <1>2, <1>4, <2>3, <2>4, <2>5, <2>6 DEF CallInv
<1>. QED  BY <1>3, <1>4

\* Hands keep fitting.
LEMMA FitsStays ==
  ASSUME given' = given, NEW h, Fits(h)
  PROVE  Fits(h)'
<1>1. Total' = Total  BY DEF Total, given
<1>. QED  BY <1>1 DEF Fits

\* As long as no vertex is added, the caches are right.
LEMMA CachesStay ==
  ASSUME NodeInv, vertices' = vertices, cache1' = cache1, cache2' = cache2
  PROVE  /\ vertices' \in Seq(VertexRecords)
         /\ CacheInv(cache1, "draw_node")' /\ CacheInv(cache2, "discard_node")'
BY DEF NodeInv, CacheInv, KeyOf

LEMMA HandsStay ==
  ASSUME NodeInv, phase = "search", given' = given, vertices' = vertices
  PROVE  \A v \in DOMAIN vertices' : Fits(vertices[v].hand)'
<1>1. ASSUME NEW v \in DOMAIN vertices  PROVE Fits(vertices[v].hand)'
  <2>. PICK h : h = vertices[v].hand  OBVIOUS
  <2>1. Fits(h)'  BY FitsStays DEF NodeInv
  <2>. QED  BY <2>1 DEF Fits
<1>. QED  BY <1>1

\* What is returned is a node of the hand that the caller has offered.
LEMMA ReturnNodes ==
  ASSUME MoveInv, NodeInv, phase = "search", phase' = "search", frames # <<>>,
         NEW v, Is(v, Top.node, Entry(Len(frames)), Top.riichi),
         frames' = Front(frames), returned' = v,
         given' = given, vertices' = vertices, cache1' = cache1, cache2' = cache2
  PROVE  NodeInv'
<1>. PICK n : n = Len(frames)  OBVIOUS
<1>1. frames \in Seq(FrameRecords) /\ vertices \in Seq(VertexRecords)  BY DEF MoveInv
<1>2. /\ n \in Nat \ {0} /\ frames' \in Seq(FrameRecords) /\ Len(frames') = n - 1
      /\ \A j \in 1..n - 1 : frames'[j] = frames[j]
  BY <1>1, ReturnFrom
<1>3. CallInv(1) /\ CallInv(n) /\ Top = frames[n]  BY <1>2, TopFrame DEF NodeInv
<1>4. vertices # <<>>
  <2>1. v \in DOMAIN vertices  BY DEF Is
  <2>2. DOMAIN vertices = 1..Len(vertices) /\ Len(vertices) \in Nat  BY <1>1, LenProperties
  <2>. QED  BY <1>1, <2>1, <2>2, EmptySeq
<1>5. frames[1].node = vertices[1].node  BY <1>3, <1>4 DEF CallInv
<1>6. ASSUME NEW i \in 1..Len(frames')  PROVE CallInv(i)'
  <2>1. n - 1 \in Nat /\ n - 1 <= Len(frames) /\ Len(frames) \in Nat /\ i \in 1..n - 1  BY <1>2
  <2>2. \A j \in 1..(n - 1) - 1 : frames'[j] = frames[j]  BY <1>2
  <2>3. n - 1 # 0 => frames'[n - 1] = frames[n - 1]  BY <1>2
  <2>4. input' = input  BY DEF given
  <2>. QED  BY <1>5, <2>1, <2>2, <2>3, <2>4, CallStays
<1>7. ReturnInv'
  <2>1. CASE n = 1
    <3>1. frames' = <<>>  BY <1>2, <2>1, EmptySeq
    <3>2. Is(v, vertices[1].node, hand_org, FALSE)
      BY <1>3, <1>5, <2>1 DEF CallInv, Entry, Is
    <3>. QED  BY <1>4, <3>1, <3>2 DEF ReturnInv, Is, given
  <2>2. CASE n # 1
    <3>1. frames' # <<>> /\ Last(frames') = frames'[n - 1]  BY <1>2, <2>2, EmptySeq DEF Last
    <3>2. PICK f : f = frames[n - 1]  OBVIOUS
    <3>3. Top' = f  BY <1>2, <2>2, <3>1, <3>2 DEF Top
    <3>4. Is(v, Other(f.node), Offered(f), Passed(f))
      BY <1>3, <2>2, <3>2 DEF CallInv, Entry, Is
    <3>5. Is(v, Other(f.node), Offered(f), Passed(f))'  BY <3>4 DEF Is, Offered, Passed, given
    <3>. QED  BY <3>1, <3>3, <3>5 DEF ReturnInv, Is, Offered, Passed
  <2>. QED  BY <2>1, <2>2
<1>8. \A u \in DOMAIN vertices' : Fits(vertices[u].hand)'  BY HandsStay
<1>. QED  BY <1>6, <1>7, <1>8, CachesStay DEF NodeInv

\* A call that starts has the hand it was called with, which has no vertex yet: neither
\* of the caches has its key.
LEMMA ExpandNodes ==
  ASSUME MoveInv, NodeInv, phase = "search", phase' = "search", frames # <<>>, Top.pc = "enter",
         NEW f, frames' = Append(Front(frames), f), f \in FrameRecords, f.pc = "loop",
         f.node = Top.node, f.riichi = Top.riichi,
         NEW v \in VertexRecords, vertices' = Append(vertices, v),
         v.node = Top.node, v.riichi = Top.riichi, v.hand = hand_counts, given' = given,
         CacheInv(cache1, "draw_node")', CacheInv(cache2, "discard_node")'
  PROVE  NodeInv'
<1>. PICK n : n = Len(frames)  OBVIOUS
<1>1. frames \in Seq(FrameRecords) /\ vertices \in Seq(VertexRecords)  BY DEF MoveInv
<1>2. /\ n \in Nat \ {0} /\ Len(frames') = n /\ frames' # <<>> /\ Last(frames') = f
      /\ frames'[n] = f /\ \A j \in 1..n - 1 : frames'[j] = frames[j]
  <2>1. /\ n \in Nat \ {0} /\ Len(frames') = n
        /\ frames'[n] = f /\ \A j \in 1..n - 1 : frames'[j] = frames[j]
    <3>1. n \in Nat \ {0}  BY <1>1, EmptySeq
    <3>2. /\ Append(Front(frames), f) \in Seq(FrameRecords)
          /\ Len(Append(Front(frames), f)) = Len(frames)
          /\ Append(Front(frames), f)[Len(frames)] = f
          /\ \A i \in 1..Len(frames) - 1 : Append(Front(frames), f)[i] = frames[i]
      BY <1>1, BecomeOf
    <3>. QED  BY <3>1, <3>2
  <2>2. frames' # <<>> /\ Last(frames') = f  BY <2>1, EmptySeq DEF Last
  <2>. QED  BY <2>1, <2>2
<1>3. /\ vertices' \in Seq(VertexRecords) /\ vertices' # <<>>
      /\ vertices'[Len(vertices) + 1] = v
      /\ \A u \in DOMAIN vertices : vertices'[u] = vertices[u]
      /\ \A u \in DOMAIN vertices' : u \in DOMAIN vertices \/ u = Len(vertices) + 1
      /\ vertices # <<>> => vertices'[1] = vertices[1]
      /\ vertices = <<>> => vertices'[1] = v
  BY <1>1, Appended
<1>4. Top = frames[n]  BY TopFrame
<1>5. vertices'[1].node = frames[1].node
  <2>1. CASE vertices = <<>>
    <3>1. n = 1  BY <2>1, SomeVertex
    <3>. QED  BY <1>3, <1>4, <2>1, <3>1
  <2>2. CASE vertices # <<>>
    <3>1. CallInv(1)
      <4>1. 1 \in 1..Len(frames)  BY <1>2
      <4>. QED  BY <4>1 DEF NodeInv
    <3>. QED  BY <1>3, <2>2, <3>1 DEF CallInv
  <2>. QED  BY <2>1, <2>2
<1>6. ASSUME NEW i \in 1..Len(frames')  PROVE CallInv(i)'
  <2>1. n \in Nat /\ n <= Len(frames) /\ Len(frames) \in Nat /\ i \in 1..n  BY <1>2
  <2>2. frames'[n].node = frames[n].node /\ frames'[n].riichi = frames[n].riichi  BY <1>2, <1>4
  <2>3. input' = input  BY DEF given
  <2>. QED  BY <1>2, <1>5, <2>1, <2>2, <2>3, CallStays
<1>7. ReturnInv'
  <2>1. Top'.pc # "await"  BY <1>2 DEF Top
  <2>. QED  BY <1>2, <2>1 DEF ReturnInv
<1>8. ASSUME NEW u \in DOMAIN vertices'  PROVE Fits(vertices[u].hand)'
  <2>. PICK h : h = vertices'[u].hand  OBVIOUS
  <2>1. Fits(h)
    <3>1. CASE u \in DOMAIN vertices  BY <1>3, <3>1 DEF NodeInv
    <3>2. CASE u = Len(vertices) + 1  BY <1>3, <3>2 DEF MoveInv, Tallied
    <3>. QED  BY <1>3, <3>1, <3>2
  <2>2. Fits(h)'  BY <2>1, FitsStays
  <2>. QED  BY <2>2 DEF Fits
<1>. QED  BY <1>3, <1>6, <1>7, <1>8 DEF NodeInv

LEMMA NewNodes ==
  ASSUME MoveInv, NodeInv, DrawNew \/ DiscardNew
  PROVE  NodeInv'
<1>1. /\ phase = "search" /\ phase' = "search" /\ frames # <<>> /\ Top.pc = "enter"
      /\ given' = given /\ Top.node \in NodeKinds
  BY DEF DrawNew, DiscardNew, Running, Expand, NodeKinds
<1>2. PICK top \in FrameRecords : top = Top  BY <1>1, TopFrame
<1>3. vertices \in Seq(VertexRecords)  BY DEF NodeInv
<1>4. PICK useful, allowed : useful \in SUBSET Kinds /\ Expand(Shanten(hand), useful, allowed)
  <2>1. CASE DrawNew
    <3>1. Necessary(hand) \in SUBSET Kinds  BY DEF Necessary
    <3>2. Expand(Shanten(hand), Necessary(hand), input.tegawari)  BY <2>1 DEF DrawNew
    <3>. QED  BY <3>1, <3>2
  <2>2. CASE DiscardNew
    <3>1. Unnecessary(hand) \in SUBSET Kinds  BY DEF Unnecessary
    <3>2. Expand(Shanten(hand), Unnecessary(hand), input.shanten_down)  BY <2>2 DEF DiscardNew
    <3>. QED  BY <3>1, <3>2
  <2>. QED  BY <2>1, <2>2
<1>5. PICK f \in FrameRecords, v \in VertexRecords :
        /\ frames' = Append(Front(frames), f) /\ vertices' = Append(vertices, v)
        /\ f.pc = "loop" /\ f.node = top.node /\ f.riichi = top.riichi
        /\ v.node = top.node /\ v.riichi = top.riichi /\ v.hand = hand_counts
  <2>1. phase = "search" /\ frames # <<>>  BY <1>1
  <2>2. \E f \in FrameRecords, v \in VertexRecords :
           /\ frames' = Append(Front(frames), f) /\ vertices' = Append(vertices, v)
           /\ f.pc = "loop" /\ f.vertex = Len(vertices) + 1 /\ f.node = Top.node
           /\ f.riichi = Top.riichi /\ f.shanten = Shanten(hand)
           /\ f.useful = add_red5_flags(useful) /\ f.at = Top.at
           /\ f.any <=> allowed /\ ~Top.riichi /\ can_extend_search(Shanten(hand))
           /\ v.node = Top.node /\ v.riichi = Top.riichi /\ v.hand = hand_counts
    BY <1>4, <2>1, NewFrame
  <2>. QED  BY <1>2, <2>2
<1>6. PICK key : key = CacheKey(v.hand, v.riichi)  OBVIOUS
<1>7. CASE DrawNew
  <2>1. /\ key \notin DOMAIN cache1 /\ cache1' = Entered(cache1, key) /\ cache2' = cache2
        /\ top.node = "draw_node"
    BY <1>2, <1>5, <1>6, <1>7 DEF DrawNew, Running
  <2>. PICK c, d, e : c = cache1 /\ d = cache1' /\ e = cache2  OBVIOUS
  <2>2. CacheInv(d, "draw_node")'  BY <1>3, <1>5, <1>6, <2>1, CacheGrows DEF NodeInv
  <2>3. CacheInv(e, "discard_node")'  BY <1>3, <1>5, <2>1, CacheKept DEF NodeInv
  <2>4. CacheInv(cache1, "draw_node")' /\ CacheInv(cache2, "discard_node")'
    BY <2>1, <2>2, <2>3 DEF CacheInv
  <2>. QED  BY <1>1, <1>2, <1>5, <2>4, ExpandNodes
<1>8. CASE DiscardNew
  <2>1. /\ key \notin DOMAIN cache2 /\ cache2' = Entered(cache2, key) /\ cache1' = cache1
        /\ top.node = "discard_node"
    BY <1>2, <1>5, <1>6, <1>8 DEF DiscardNew, Running
  <2>. PICK c, d, e : c = cache2 /\ d = cache2' /\ e = cache1  OBVIOUS
  <2>2. CacheInv(d, "discard_node")'  BY <1>3, <1>5, <1>6, <2>1, CacheGrows DEF NodeInv
  <2>3. CacheInv(e, "draw_node")'  BY <1>3, <1>5, <2>1, CacheKept DEF NodeInv
  <2>4. CacheInv(cache1, "draw_node")' /\ CacheInv(cache2, "discard_node")'
    BY <2>1, <2>2, <2>3 DEF CacheInv
  <2>. QED  BY <1>1, <1>2, <1>5, <2>4, ExpandNodes
<1>. QED  BY <1>7, <1>8

\* A call of the other kind, with the riichi that has been declared.
LEMMA TryNodes ==
  ASSUME MoveInv, NodeInv, phase = "search", phase' = "search", frames # <<>>,
         Top.pc = "loop",
         NEW f \in FrameRecords, NEW g \in FrameRecords, frames' = Front(frames) \o <<f, g>>,
         f.node = Top.node, f.riichi = Top.riichi,
         g.pc = "enter", g.node = Other(f.node), g.riichi = Passed(f),
         given' = given, vertices' = vertices, cache1' = cache1, cache2' = cache2
  PROVE  NodeInv'
<1>. PICK n : n = Len(frames)  OBVIOUS
<1>1. frames \in Seq(FrameRecords) /\ vertices \in Seq(VertexRecords)  BY DEF MoveInv
<1>2. /\ n \in Nat \ {0} /\ Len(frames') = n + 1
      /\ frames'[n] = f /\ frames'[n + 1] = g /\ \A j \in 1..n - 1 : frames'[j] = frames[j]
  <2>1. n \in Nat \ {0}  BY <1>1, EmptySeq
  <2>. QED  BY <1>1, <2>1, PushOn
<1>3. frames' # <<>> /\ Top' = g  BY <1>2, EmptySeq DEF Top, Last
<1>4. frames[n].node = f.node /\ frames[n].riichi = f.riichi  BY TopFrame
<1>5. vertices # <<>> => vertices[1].node = frames[1].node
  <2>1. 1 \in 1..Len(frames)  BY <1>2
  <2>. QED  BY <2>1 DEF NodeInv, CallInv
<1>6. input' = input  BY DEF given
<1>7. ASSUME NEW i \in 1..n  PROVE CallInv(i)'
  <2>1. n \in Nat /\ n <= Len(frames) /\ Len(frames) \in Nat  BY <1>2
  <2>. QED  BY <1>2, <1>4, <1>5, <1>6, <2>1, CallStays
<1>8. CallInv(n + 1)'
  <2>1. n + 1 # 1 /\ n + 1 - 1 = n  BY <1>2
  <2>. PICK m : m = n + 1  OBVIOUS
  <2>2. m # 1 /\ m - 1 = n  BY <2>1
  <2>3. Passed(f)' = Passed(f)  BY <1>6 DEF Passed
  <2>4. Passed(frames[m - 1])' = Passed(f)'  BY <1>2, <2>2 DEF Passed
  <2>5. frames'[m].node = Other(frames'[m - 1].node) /\ frames'[m].riichi = Passed(frames[m - 1])'
    BY <1>2, <2>2, <2>3, <2>4
  <2>6. CallInv(m)'  BY <2>2, <2>5 DEF CallInv
  <2>. QED  BY <2>6 DEF CallInv
<1>9. ASSUME NEW i \in 1..Len(frames')  PROVE CallInv(i)'
  <2>1. i \in 1..n \/ i = n + 1  BY <1>2
  <2>. QED  BY <1>7, <1>8, <2>1
<1>10. ReturnInv'  BY <1>3 DEF ReturnInv
<1>11. \A u \in DOMAIN vertices' : Fits(vertices[u].hand)'  BY HandsStay
<1>. QED  BY <1>9, <1>10, <1>11, CachesStay DEF NodeInv

LEMMA BackNodes ==
  ASSUME MoveInv, NodeInv, phase = "search", phase' = "search", frames # <<>>, Top.pc = "await",
         NEW f \in FrameRecords, frames' = Append(Front(frames), f),
         f.pc = "loop", f.node = Top.node, f.riichi = Top.riichi,
         given' = given, vertices' = vertices, cache1' = cache1, cache2' = cache2
  PROVE  NodeInv'
<1>. PICK n : n = Len(frames)  OBVIOUS
<1>1. frames \in Seq(FrameRecords) /\ vertices \in Seq(VertexRecords)  BY DEF MoveInv
<1>2. /\ n \in Nat \ {0} /\ Len(frames') = n
      /\ frames'[n] = f /\ \A j \in 1..n - 1 : frames'[j] = frames[j]
  <2>1. n \in Nat \ {0}  BY <1>1, EmptySeq
  <2>. QED  BY <1>1, <2>1, BecomeOf
<1>3. frames' # <<>> /\ Top' = f  BY <1>2, EmptySeq DEF Top, Last
<1>4. frames[n].node = f.node /\ frames[n].riichi = f.riichi  BY TopFrame
<1>5. vertices # <<>> => vertices[1].node = frames[1].node
  <2>1. 1 \in 1..Len(frames)  BY <1>2
  <2>. QED  BY <2>1 DEF NodeInv, CallInv
<1>6. input' = input  BY DEF given
<1>7. ASSUME NEW i \in 1..Len(frames')  PROVE CallInv(i)'
  <2>1. n \in Nat /\ n <= Len(frames) /\ Len(frames) \in Nat /\ i \in 1..n  BY <1>2
  <2>. QED  BY <1>2, <1>4, <1>5, <1>6, <2>1, CallStays
<1>8. ReturnInv'  BY <1>3 DEF ReturnInv
<1>9. \A u \in DOMAIN vertices' : Fits(vertices[u].hand)'  BY HandsStay
<1>. QED  BY <1>7, <1>8, <1>9, CachesStay DEF NodeInv

LEMMA HitNodes ==
  ASSUME MoveInv, NodeInv, FivesInWall, DrawHit \/ DiscardHit
  PROVE  NodeInv'
<1>1. /\ phase = "search" /\ phase' = "search" /\ frames # <<>> /\ Top.pc = "enter"
      /\ given' = given /\ vertices' = vertices /\ cache1' = cache1 /\ cache2' = cache2
      /\ frames' = Front(frames)
  BY DEF DrawHit, DiscardHit, Running, Return, graph, nodes
<1>2. PICK h, r : h = hand_counts /\ r = Top.riichi  OBVIOUS
<1>3. Current = Entry(Len(frames))  BY <1>1 DEF Current
<1>4. Fits(h) /\ h = Entry(Len(frames))  BY <1>1, <1>2, <1>3 DEF MoveInv, Tallied
<1>5. r \in BOOLEAN  BY <1>1, <1>2, TopFrame DEF FrameRecords
<1>6. CASE DrawHit
  <2>1. PICK v : v = cache1[CacheKey(h, r)]  OBVIOUS
  <2>2. CacheKey(h, r) \in DOMAIN cache1 /\ returned' = v /\ Top.node = "draw_node"
    BY <1>2, <1>6, <2>1 DEF DrawHit, Return, Running
  <2>3. Is(v, "draw_node", h, r)  BY <1>1, <1>4, <1>5, <2>1, <2>2, Cached DEF NodeInv
  <2>. QED  BY <1>1, <1>2, <1>4, <2>2, <2>3, ReturnNodes
<1>7. CASE DiscardHit
  <2>1. PICK v : v = cache2[CacheKey(h, r)]  OBVIOUS
  <2>2. CacheKey(h, r) \in DOMAIN cache2 /\ returned' = v /\ Top.node = "discard_node"
    BY <1>2, <1>7, <2>1 DEF DiscardHit, Return, Running
  <2>3. Is(v, "discard_node", h, r)  BY <1>1, <1>4, <1>5, <2>1, <2>2, Cached DEF NodeInv
  <2>. QED  BY <1>1, <1>2, <1>4, <2>2, <2>3, ReturnNodes
<1>. QED  BY <1>6, <1>7

LEMMA DoneNodes ==
  ASSUME MoveInv, NodeInv, Done
  PROVE  NodeInv'
<1>1. /\ phase = "search" /\ phase' = "search" /\ frames # <<>> /\ Top.pc = "loop"
      /\ given' = given /\ vertices' = vertices /\ cache1' = cache1 /\ cache2' = cache2
      /\ frames' = Front(frames) /\ returned' = Top.vertex
  BY DEF Done, Return, graph, nodes
<1>2. Is(Top.vertex, Top.node, Entry(Len(frames)), Top.riichi)
  BY <1>1, TopFrame DEF FrameInv
<1>. PICK v : v = Top.vertex  OBVIOUS
<1>. QED  BY <1>1, <1>2, ReturnNodes

LEMMA DrawTileNodes ==
  ASSUME MoveInv, NodeInv, DrawTile
  PROVE  NodeInv'
<1>1. /\ phase = "search" /\ phase' = "search" /\ frames # <<>>
      /\ Top.node = "draw_node" /\ Top.pc = "loop"
      /\ given' = given /\ vertices' = vertices /\ cache1' = cache1 /\ cache2' = cache2
  BY DEF DrawTile, Running, graph, nodes
<1>2. PICK top \in FrameRecords : top = Top  BY <1>1, TopFrame
<1>3. PICK t \in Tiles : t = Min(Remaining(wall_counts))  BY RemainingTile DEF DrawTile
<1>4. PICK f, g, w : /\ f = Waiting(top, t, w) /\ g = Call("discard_node", top.riichi)
                     /\ w = wall_counts[t]
  OBVIOUS
<1>5. frames' = Front(frames) \o <<f, g>>
  BY <1>2, <1>3, <1>4 DEF DrawTile, Push, Waiting
<1>6. w \in Int  BY <1>1, <1>4 DEF MoveInv, Tallied, Dealt, Fits
<1>7. /\ f \in FrameRecords /\ f.node = top.node /\ f.riichi = top.riichi
  <2>1. f = Waiting(top, t, w)  BY <1>4
  <2>. QED  BY <1>6, <2>1, AwaitFrame
<1>8. /\ g \in FrameRecords /\ g.pc = "enter" /\ g.node = "discard_node" /\ g.riichi = top.riichi
  <2>1. top.riichi \in BOOLEAN /\ "discard_node" \in NodeKinds  BY DEF FrameRecords, NodeKinds
  <2>. QED  BY <1>4, <2>1, CallFrame
<1>9. g.node = Other(f.node) /\ g.riichi = Passed(f)
  BY <1>1, <1>2, <1>7, <1>8 DEF Other, Passed
<1>. QED  BY <1>1, <1>2, <1>5, <1>7, <1>8, <1>9, TryNodes

LEMMA DiscardTileNodes ==
  ASSUME MoveInv, NodeInv, DiscardTile
  PROVE  NodeInv'
<1>1. /\ phase = "search" /\ phase' = "search" /\ frames # <<>>
      /\ Top.node = "discard_node" /\ Top.pc = "loop"
      /\ given' = given /\ vertices' = vertices /\ cache1' = cache1 /\ cache2' = cache2
  BY DEF DiscardTile, Running, graph, nodes
<1>2. PICK top \in FrameRecords : top = Top  BY <1>1, TopFrame
<1>3. PICK t \in Tiles : t = Min(Remaining(hand_counts)) /\ discard(t)
  BY RemainingTile DEF DiscardTile
<1>4. PICK w, r : w = wall_counts'[t] /\ r = call_riichi(t)  OBVIOUS
<1>5. PICK f, g : f = Waiting(top, t, w) /\ g = Call("draw_node", r)  OBVIOUS
<1>6. frames' = Front(frames) \o <<f, g>>
  BY <1>2, <1>3, <1>4, <1>5 DEF DiscardTile, Push, Waiting
<1>7. w \in Int
  <2>1. wall_counts \in [Tiles -> Int]  BY <1>1 DEF MoveInv, Tallied, Dealt, Fits
  <2>2. wall_counts[t] \in Int /\ wall_counts'[t] = wall_counts[t] + 1  BY <1>3, <2>1 DEF discard
  <2>. QED  BY <1>4, <2>2
<1>8. /\ f \in FrameRecords /\ f.node = top.node /\ f.riichi = top.riichi /\ f.at = t
      /\ f.shanten = top.shanten /\ f.useful = top.useful
  <2>1. f = Waiting(top, t, w)  BY <1>5
  <2>. QED  BY <1>7, <2>1, AwaitFrame
<1>9. r \in BOOLEAN
  <2>1. top.riichi \in BOOLEAN  BY DEF FrameRecords
  <2>. QED  BY <1>2, <1>4, <2>1 DEF call_riichi
<1>10. /\ g \in FrameRecords /\ g.pc = "enter" /\ g.node = "draw_node" /\ g.riichi = r
  <2>1. "draw_node" \in NodeKinds  BY DEF NodeKinds
  <2>. QED  BY <1>5, <1>9, <2>1, CallFrame
<1>11. g.node = Other(f.node) /\ g.riichi = Passed(f)
  BY <1>1, <1>2, <1>4, <1>8, <1>10 DEF Other, Passed, call_riichi
<1>. QED  BY <1>1, <1>2, <1>6, <1>8, <1>10, <1>11, TryNodes

LEMMA BacksNodes ==
  ASSUME MoveInv, NodeInv, DrawBack \/ DiscardBack
  PROVE  NodeInv'
<1>1. /\ phase = "search" /\ phase' = "search" /\ frames # <<>> /\ Top.pc = "await"
      /\ given' = given /\ vertices' = vertices /\ cache1' = cache1 /\ cache2' = cache2
  BY DEF DrawBack, DiscardBack, Running, nodes
<1>2. PICK top \in FrameRecords : top = Top  BY <1>1, TopFrame
<1>3. PICK f : f = [top EXCEPT !.pc = "loop"]  OBVIOUS
<1>4. frames' = Append(Front(frames), f)  BY <1>2, <1>3 DEF DrawBack, DiscardBack, Become
<1>5. /\ f \in FrameRecords /\ f.pc = "loop" /\ f.node = top.node /\ f.riichi = top.riichi
  BY <1>3, LoopFrame
<1>. QED  BY <1>1, <1>2, <1>4, <1>5, BackNodes

-----------------------------------------------------------------------------
LEMMA NodeStart ==
  ASSUME StartInv, Start
  PROVE  NodeInv'
<1>1. vertices' = <<>> /\ cache1' = <<>> /\ cache2' = <<>>  BY DEF StartInv, Start, graph, nodes
<1>2. DOMAIN vertices' = {} /\ DOMAIN cache1' = {} /\ DOMAIN cache2' = {}  BY <1>1
<1>3. vertices' \in Seq(VertexRecords)  BY <1>1, EmptySeq
<1>4. PICK node \in NodeKinds : frames' = <<Call(node, FALSE)>>
  BY DEF Start, Prepare, NodeKinds
<1>5. PICK c \in FrameRecords : c = Call(node, FALSE) /\ c.pc = "enter" /\ ~c.riichi
  BY CallFrame
<1>6. Len(frames') = 1 /\ frames' # <<>> /\ frames'[1] = c /\ Top' = c
  <2>1. <<c>> \in Seq(FrameRecords) /\ Len(<<c>>) = 1 /\ <<c>>[1] = c  BY <1>5, FirstFrame
  <2>2. frames' = <<c>>  BY <1>4, <1>5
  <2>3. frames' # <<>>  BY <2>1, <2>2, EmptySeq
  <2>. QED  BY <2>1, <2>2, <2>3 DEF Top, Last
<1>7. \A i \in 1..Len(frames') : CallInv(i)'
  <2>1. ~frames'[1].riichi  BY <1>5, <1>6
  <2>2. CallInv(1)'  BY <1>1, <2>1 DEF CallInv
  <2>3. \A i \in 1..Len(frames') : i = 1  BY <1>6
  <2>. QED  BY <2>2, <2>3
<1>8. ReturnInv'  BY <1>5, <1>6 DEF ReturnInv
<1>9. CacheInv(cache1, "draw_node")' /\ CacheInv(cache2, "discard_node")'
  BY <1>2 DEF CacheInv
<1>. QED  BY <1>2, <1>3, <1>7, <1>8, <1>9 DEF NodeInv

LEMMA NodeStep ==
  ASSUME FivesInWall, StartInv, MoveInv, NodeInv, [Next]_vars
  PROVE  NodeInv'
<1>1. ASSUME vertices' = vertices, cache1' = cache1, cache2' = cache2, phase' # "search"
      PROVE  NodeInv'
  BY <1>1, CachesStay DEF NodeInv
<1>2. CASE UNCHANGED vars
  <2>1. /\ given' = given /\ frames' = frames /\ vertices' = vertices /\ phase' = phase
        /\ returned' = returned /\ cache1' = cache1 /\ cache2' = cache2
    BY <1>2 DEF vars, given
  <2>2. SUFFICES ASSUME phase = "search" PROVE NodeInv'  BY <1>1, <2>1
  <2>3. \A u \in DOMAIN vertices' : Fits(vertices[u].hand)'  BY <2>1, <2>2, HandsStay
  <2>4. ASSUME NEW i \in 1..Len(frames)  PROVE CallInv(i)'
    <3>1. CallInv(i)  BY <2>2 DEF NodeInv
    <3>. QED  BY <2>1, <3>1 DEF CallInv, Passed, given
  <2>5. ReturnInv'
    <3>1. ReturnInv  BY <2>2 DEF NodeInv
    <3>. QED  BY <2>1, <3>1 DEF ReturnInv, Is, Top, Offered, Passed, given
  <2>. QED  BY <2>1, <2>3, <2>4, <2>5, CachesStay DEF NodeInv
<1>3. CASE Start  BY <1>3, NodeStart
<1>4. CASE Shallow \/ ReportDraw \/ ReportDiscards
  <2>1. /\ vertices' = vertices /\ cache1' = cache1 /\ cache2' = cache2 /\ phase' # "search"
    BY <1>4 DEF Shallow, ReportDraw, ReportDiscards, graph, nodes
  <2>. QED  BY <1>1, <2>1
<1>5. CASE DrawHit \/ DiscardHit  BY <1>5, HitNodes
<1>6. CASE DrawNew \/ DiscardNew  BY <1>6, NewNodes
<1>7. CASE DrawTile  BY <1>7, DrawTileNodes
<1>8. CASE DiscardTile  BY <1>8, DiscardTileNodes
<1>9. CASE DrawBack \/ DiscardBack  BY <1>9, BacksNodes
<1>10. CASE Done  BY <1>10, DoneNodes
<1>11. CASE Finished  BY <1>2, <1>11 DEF Finished
<1>. QED  BY <1>2, <1>3, <1>4, <1>5, <1>6, <1>7, <1>8, <1>9, <1>10, <1>11 DEF Next

\* Caches that answer for exactly the hands that were looked at, and calls that get the
\* node they asked for.
THEOREM CachesAnswerRight ==
  ASSUME FivesInWall
  PROVE  Spec => []NodeInv
<1>1. Init => NodeInv
  <2>1. SUFFICES ASSUME Init PROVE NodeInv  OBVIOUS
  <2>2. vertices = <<>> /\ cache1 = <<>> /\ cache2 = <<>> /\ phase # "search"  BY <2>1 DEF Init
  <2>3. DOMAIN vertices = {} /\ DOMAIN cache1 = {} /\ DOMAIN cache2 = {}  BY <2>2
  <2>4. vertices \in Seq(VertexRecords)  BY <2>2, EmptySeq
  <2>. QED  BY <2>2, <2>3, <2>4 DEF NodeInv, CacheInv
<1>2. StartInv /\ MoveInv /\ NodeInv /\ [Next]_vars => NodeInv'  BY NodeStep
<1>. QED  BY <1>1, <1>2, MovesCancel, PTL DEF Spec

\* If no wall has a red five without a five, the nodes own their hands:
\* NodesOwnTheirHands.
THEOREM NodesOwnTheirHandsCorrect ==
  ASSUME FivesInWall
  PROVE  Spec => []NodesOwnTheirHands
<1>1. MoveInv /\ NodeInv => NodesOwnTheirHands
  <2>1. SUFFICES ASSUME MoveInv, NodeInv PROVE NodesOwnTheirHands  OBVIOUS
  <2>2. ASSUME NEW i \in DOMAIN vertices, NEW j \in DOMAIN vertices,
               vertices[i].node = vertices[j].node, vertices[i].riichi = vertices[j].riichi,
               vertices[i].hand = vertices[j].hand
        PROVE  i = j
    <3>1. KeyOf(i) = KeyOf(j)  BY <2>2 DEF KeyOf
    <3>2. vertices[i].node \in NodeKinds  BY <2>1, VertexOf
    <3>3. CASE vertices[i].node = "draw_node"
      <4>1. CacheInv(cache1, "draw_node")  BY <2>1 DEF NodeInv
      <4>2. cache1[KeyOf(i)] = i  BY <2>2, <3>3, <4>1 DEF CacheInv
      <4>3. cache1[KeyOf(j)] = j  BY <2>2, <3>3, <4>1 DEF CacheInv
      <4>. QED  BY <3>1, <4>2, <4>3
    <3>4. CASE vertices[i].node = "discard_node"
      <4>1. CacheInv(cache2, "discard_node")  BY <2>1 DEF NodeInv
      <4>2. cache2[KeyOf(i)] = i  BY <2>2, <3>4, <4>1 DEF CacheInv
      <4>3. cache2[KeyOf(j)] = j  BY <2>2, <3>4, <4>1 DEF CacheInv
      <4>. QED  BY <3>1, <4>2, <4>3
    <3>. QED  BY <3>2, <3>3, <3>4 DEF NodeKinds
  <2>3. ASSUME phase = "search", frames = <<>>
        PROVE  Is(returned, vertices[1].node, hand_org, FALSE)
    BY <2>1, <2>3 DEF NodeInv, ReturnInv
  <2>4. ASSUME phase = "search", frames # <<>>, Top.pc = "loop"
        PROVE  Is(Top.vertex, Top.node, hand_counts, Top.riichi)
    <3>1. Is(Top.vertex, Top.node, Entry(Len(frames)), Top.riichi)
      BY <2>1, <2>4, TopFrame DEF FrameInv
    <3>2. hand_counts = Entry(Len(frames))  BY <2>1, <2>4 DEF MoveInv, Tallied, Current
    <3>. QED  BY <3>1, <3>2
  <2>5. ASSUME phase = "search", frames # <<>>, Top.pc = "await"
        PROVE  IF Top.node = "draw_node" THEN Is(returned, "discard_node", hand_counts, Top.riichi)
               ELSE Is(returned, "draw_node", hand_counts, call_riichi(Top.at))
    <3>1. Is(returned, Other(Top.node), Offered(Top), Passed(Top))
      BY <2>1, <2>5 DEF NodeInv, ReturnInv
    <3>2. hand_counts = Offered(Top)  BY <2>1, <2>5 DEF MoveInv, Tallied, Current
    <3>3. Is(returned, Other(Top.node), hand_counts, Passed(Top))  BY <3>1, <3>2
    <3>. QED  BY <3>3 DEF Other, Passed, call_riichi
  <2>. QED  BY <2>2, <2>3, <2>4, <2>5 DEF NodesOwnTheirHands
<1>. QED  BY <1>1, CachesAnswerRight, MovesCancel, PTL


-----------------------------------------------------------------------------
(* The invariant: what a call knows of its hand, and what it has joined.   *)

\* A draw node has room for one more tile.
Small(node, h) ==
  Size(to_merged_count(h)) <= 3 * NumGroups + (IF node = "draw_node" THEN 1 ELSE 2)

SizeInv ==
  /\ \A v \in DOMAIN vertices : Small(vertices[v].node, vertices[v].hand)
  /\ phase = "search" /\ frames # <<>> /\ Top.pc = "enter" => Small(Top.node, hand_counts)

\* What the node of a hand is useful for, and whether it may try other tiles too.
Useful(v) ==
  LET m == to_merged_count(v.hand)
  IN  IF v.node = "draw_node" THEN Necessary(m) ELSE Unnecessary(m)
Allowed(v) == IF v.node = "draw_node" THEN input.tegawari ELSE input.shanten_down

\* What there is to try at a node, and the hands that a try joins.
Stock(v, t) == IF v.node = "draw_node" THEN Total[t] - v.hand[t] ELSE v.hand[t]
InStock(v, t) == IF v.node = "draw_node" THEN Total[t] > v.hand[t] ELSE v.hand[t] > 0
Trials(v) == {t \in Wants(v, Allowed(v), Useful(v)) : InStock(v, t)}
Key(v) == <<v.hand, v.riichi>>
Join(v, t) ==
  IF v.node = "draw_node" THEN <<Key(v), <<[v.hand EXCEPT ![t] = @ + 1], v.riichi>> >>
  ELSE << <<[v.hand EXCEPT ![t] = @ - 1], Declares(v, t)>>, Key(v)>>

\* What a call has found out about the hand of its vertex.
Knows(f, v) ==
  LET m == to_merged_count(v.hand)
  IN  /\ f.shanten = Shanten(m) /\ f.useful = add_red5_flags(Useful(v))
      /\ f.any <=> /\ Allowed(v) /\ ~v.riichi
                   /\ distance(v.hand, hand_org) + Shanten(m) < shanten_org + input.extra
Tries(f, v) ==
  /\ f.at \in Trials(v)
  /\ f.weight = Total[f.at] - v.hand[f.at] + (IF v.node = "draw_node" THEN 0 ELSE 1)

LookInv(i) ==
  /\ frames[i].pc = "enter" => frames[i].at = -1
  /\ frames[i].pc # "enter" => Knows(frames[i], vertices[frames[i].vertex])
  /\ frames[i].pc = "await" => Tries(frames[i], vertices[frames[i].vertex])

\* An edge is a draw.
Drawn(e) ==
  LET s == vertices[e.source]
      d == vertices[e.target]
  IN  /\ e.source \in DOMAIN vertices /\ e.target \in DOMAIN vertices
      /\ s.node = "draw_node" /\ d.node = "discard_node"
      /\ \E t \in Tiles :
           /\ d.hand = [s.hand EXCEPT ![t] = @ + 1]
           /\ e.weight = Total[t] - s.hand[t]
           /\ e.score = IF Completes(d.hand) THEN calc_score(d.hand, t, d.riichi) ELSE <<>>

\* The hands that an edge joins.
Joins(e) == <<Key(vertices[e.source]), Key(vertices[e.target])>>

\* A call has still to try a tile, or is trying it.
Pending(u, t) ==
  \E i \in 1..Len(frames) :
    /\ frames[i].pc # "enter" /\ frames[i].vertex = u
    /\ frames[i].at < t \/ (frames[i].pc = "await" /\ frames[i].at = t)

EdgeInv ==
  /\ \A e \in edges : Drawn(e)
  /\ \A e \in edges : \E u \in DOMAIN vertices : \E t \in Trials(vertices[u]) : Joins(e) = Join(vertices[u], t)
  /\ \A u \in DOMAIN vertices : \A t \in Trials(vertices[u]) :
       (\E e \in edges : Joins(e) = Join(vertices[u], t)) \/ Pending(u, t)

LooksInv ==
  /\ phase = "search" => \A i \in 1..Len(frames) : LookInv(i)
  /\ phase # "search" => frames = <<>>

-----------------------------------------------------------------------------
(* What a draw does to the hand.                                           *)

LEMMA FlagsAre ==
  ASSUME NEW K \in SUBSET Kinds, NEW t \in Tiles
  PROVE  Kind(t) \in Kinds /\ (t \in add_red5_flags(K) <=> Kind(t) \in K)
<1>1. CASE t \in Reds
  <2>1. t \notin Kinds /\ Five(t) \in Kinds  BY <1>1, RedFives
  <2>. QED  BY <1>1, <2>1 DEF Kind, add_red5_flags
<1>2. CASE t \notin Reds
  <2>1. t \in Kinds  BY <1>2 DEF Tiles
  <2>. QED  BY <1>2, <2>1 DEF Kind, add_red5_flags
<1>. QED  BY <1>1, <1>2

LEMMA MergedNat ==
  ASSUME NEW h \in [Tiles -> Nat]
  PROVE  \A k \in Tiles : to_merged_count(h)[k] \in Nat
<1>1. ASSUME NEW k \in Tiles  PROVE to_merged_count(h)[k] \in Nat
  <2>1. CASE \E r \in Reds : k = Five(r)
    <3>1. PICK r \in Reds : k = Five(r)  BY <2>1
    <3>. QED  BY <3>1, Merged, RedFives
  <2>2. CASE \A r \in Reds : k # Five(r)  BY <2>2, Merged
  <2>. QED  BY <2>1, <2>2
<1>. QED  BY <1>1

LEMMA SizeMore ==
  ASSUME NEW m, NEW n, \A x \in Kinds : m[x] \in Nat /\ n[x] \in Nat,
         NEW k \in Kinds, n[k] = m[k] + 1, \A x \in Kinds : x # k => n[x] = m[x]
  PROVE  Size(m) \in Nat /\ Size(n) = Size(m) + 1
<1>1. PICK w : w = Of({k}, 1)  OBVIOUS
<1>2. w \in Counts /\ Size(w) = 1  BY <1>1, SameKind
<1>3. \A x \in Kinds : w[x] = IF x = k THEN 1 ELSE 0  BY <1>1 DEF Of
<1>4. \A x \in Kinds : m[x] \in Int /\ w[x] \in Int /\ n[x] = m[x] + w[x]  BY <1>3
<1>5. IsFiniteSet(Kinds)  BY KindsFinite
<1>6. SumFunctionOnSet(n, Kinds) = SumFunctionOnSet(m, Kinds) + SumFunctionOnSet(w, Kinds)
  BY <1>4, <1>5, SumPlus
<1>7. SumFunctionOnSet(m, Kinds) \in Nat
  <2>1. \A x \in Kinds : m[x] \in Nat  OBVIOUS
  <2>. QED  BY <1>5, <2>1, SumNat
<1>. QED  BY <1>2, <1>6, <1>7 DEF Size

More(h, t) == [h EXCEPT ![t] = @ + 1]
Less(h, t) == [h EXCEPT ![t] = @ - 1]

LEMMA MoreLess ==
  ASSUME NEW h \in [Tiles -> Nat], NEW t \in Tiles
  PROVE  /\ More(h, t) \in [Tiles -> Nat]
         /\ h[t] > 0 => Less(h, t) \in [Tiles -> Nat] /\ More(Less(h, t), t) = h
<1>1. More(h, t) \in [Tiles -> Nat]  BY DEF More
<1>2. ASSUME h[t] > 0  PROVE Less(h, t) \in [Tiles -> Nat] /\ More(Less(h, t), t) = h
  <2>1. PICK g : g = Less(h, t)  OBVIOUS
  <2>2. g \in [Tiles -> Nat] /\ \A k \in Tiles : g[k] = IF k = t THEN h[k] - 1 ELSE h[k]
    BY <1>2, <2>1 DEF Less
  <2>3. PICK f : f = More(g, t)  OBVIOUS
  <2>4. f \in [Tiles -> Nat] /\ \A k \in Tiles : f[k] = IF k = t THEN g[k] + 1 ELSE g[k]
    BY <2>2, <2>3 DEF More
  <2>5. \A k \in Tiles : f[k] = h[k]  BY <2>2, <2>4
  <2>6. f = h  BY <2>4, <2>5
  <2>. QED  BY <2>1, <2>2, <2>3, <2>6
<1>. QED  BY <1>1, <1>2

\* One tile more is one more of its kind.
LEMMA MergedMore ==
  ASSUME NEW h \in [Tiles -> Nat], NEW t \in Tiles
  PROVE  /\ \A k \in Kinds : to_merged_count(h)[k] \in Nat /\ to_merged_count(More(h, t))[k] \in Nat
         /\ Kind(t) \in Kinds
         /\ to_merged_count(More(h, t))[Kind(t)] = to_merged_count(h)[Kind(t)] + 1
         /\ \A k \in Kinds : k # Kind(t) => to_merged_count(More(h, t))[k] = to_merged_count(h)[k]
<1>1. PICK m, n : m = to_merged_count(h) /\ n = to_merged_count(More(h, t))  OBVIOUS
<1>2. Kind(t) \in Kinds  BY FlagsAre
<1>3. Kinds \subseteq Tiles  BY DEF Tiles
<1>4. \A k \in Kinds : m[k] \in Nat /\ n[k] \in Nat  BY <1>1, <1>3, MoreLess, MergedNat
<1>5. n = Change(m, t, 1)
  <2>1. PICK d \in Int : d = 1  OBVIOUS
  <2>2. h \in [Tiles -> Int] /\ More(h, t) = [h EXCEPT ![t] = @ + d]  BY <2>1 DEF More
  <2>3. to_merged_count([h EXCEPT ![t] = @ + d]) = Change(to_merged_count(h), t, d)
    BY <2>2, MergedChange
  <2>. QED  BY <1>1, <2>1, <2>2, <2>3
<1>6. \A k \in Kinds : n[k] = IF k = t \/ (t \in Reds /\ k = Five(t)) THEN m[k] + 1 ELSE m[k]
  BY <1>3, <1>5 DEF Change
<1>7. \A k \in Kinds : (k = t \/ (t \in Reds /\ k = Five(t))) <=> k = Kind(t)
  BY RedFives DEF Kind
<1>. QED  BY <1>1, <1>2, <1>4, <1>6, <1>7

LEMMA MoreSize ==
  ASSUME NEW h \in [Tiles -> Nat], NEW t \in Tiles
  PROVE  /\ Size(to_merged_count(h)) \in Nat
         /\ Size(to_merged_count(More(h, t))) = Size(to_merged_count(h)) + 1
<1>1. PICK m, n, k : m = to_merged_count(h) /\ n = to_merged_count(More(h, t)) /\ k = Kind(t)
  OBVIOUS
<1>2. /\ \A x \in Kinds : m[x] \in Nat /\ n[x] \in Nat
      /\ k \in Kinds
      /\ n[k] = m[k] + 1
      /\ \A x \in Kinds : x # k => n[x] = m[x]
  BY <1>1, MergedMore
<1>3. Size(m) \in Nat /\ Size(n) = Size(m) + 1  BY <1>2, SizeMore
<1>. QED  BY <1>1, <1>3

\* A draw completes a hand that is one tile away, if it brings it closer.
LEMMA Completing ==
  ASSUME NEW h \in [Tiles -> Nat], NEW t \in Tiles, Small("draw_node", h)
  PROVE  Completes(More(h, t)) <=>
           Shanten(to_merged_count(h)) = 0 /\ t \in add_red5_flags(Necessary(to_merged_count(h)))
<1>1. PICK m, n, k : m = to_merged_count(h) /\ n = to_merged_count(More(h, t)) /\ k = Kind(t)
  OBVIOUS
<1>2. /\ \A x \in Kinds : m[x] \in Nat /\ n[x] \in Nat
      /\ k \in Kinds
      /\ n[k] = m[k] + 1
      /\ \A x \in Kinds : x # k => n[x] = m[x]
  BY <1>1, MergedMore
<1>3. Size(m) < 3 * NumGroups + 2
  <2>1. Size(m) <= 3 * NumGroups + 1  BY <1>1 DEF Small
  <2>2. NumGroups \in Nat /\ Size(m) \in Nat  BY <1>1, ShapeAssumption, MoreSize
  <2>. QED  BY <2>1, <2>2
<1>4. Shanten(n) = -1 <=> Shanten(m) = 0 /\ k \in Necessary(m)  BY <1>2, <1>3, OneMore
<1>5. t \in add_red5_flags(Necessary(m)) <=> k \in Necessary(m)
  <2>1. Necessary(m) \in SUBSET Kinds  BY DEF Necessary
  <2>. QED  BY <1>1, <2>1, FlagsAre
<1>. QED  BY <1>1, <1>4, <1>5 DEF Completes

\* The hand of the call that a node makes.
Tried(node, h, t) == IF node = "draw_node" THEN More(h, t) ELSE Less(h, t)

\* The other node of a draw or a discard is small too.
LEMMA SmallOther ==
  ASSUME NEW node \in NodeKinds, NEW h \in [Tiles -> Nat], NEW t \in Tiles, Small(node, h),
         node = "draw_node" \/ h[t] > 0
  PROVE  Small(Other(node), Tried(node, h, t))
<1>1. NumGroups \in Nat  BY ShapeAssumption
<1>2. PICK m, g, n : m = to_merged_count(h) /\ g = Tried(node, h, t) /\ n = to_merged_count(g)
  OBVIOUS
<1>3. CASE node = "draw_node"
  <2>1. Size(m) \in Nat /\ Size(n) = Size(m) + 1  BY <1>2, <1>3, MoreSize DEF Tried
  <2>2. Size(m) <= 3 * NumGroups + 1  BY <1>2, <1>3 DEF Small
  <2>3. Size(n) <= 3 * NumGroups + 2  BY <1>1, <2>1, <2>2
  <2>. QED  BY <1>2, <1>3, <2>3 DEF Small, Other
<1>4. CASE node = "discard_node"
  <2>1. g = Less(h, t) /\ g \in [Tiles -> Nat] /\ More(g, t) = h  BY <1>2, <1>4, MoreLess DEF Tried
  <2>2. Size(n) \in Nat /\ Size(m) = Size(n) + 1
    <3>1. Size(to_merged_count(g)) \in Nat
          /\ Size(to_merged_count(More(g, t))) = Size(to_merged_count(g)) + 1
      BY <2>1, MoreSize
    <3>. QED  BY <1>2, <2>1, <3>1
  <2>3. Size(m) <= 3 * NumGroups + 2  BY <1>2, <1>4 DEF Small
  <2>4. Size(n) <= 3 * NumGroups + 1  BY <1>1, <2>2, <2>3
  <2>. QED  BY <1>2, <1>4, <2>4 DEF Small, Other
<1>. QED  BY <1>3, <1>4 DEF NodeKinds

\* What a call tries is what the hand is meant to be tried with.
LEMMA KnowsTrials ==
  ASSUME NEW f, NEW v, Knows(f, v), NEW t \in Tiles
  PROVE  f.any \/ t \in f.useful <=> t \in Wants(v, Allowed(v), Useful(v))
<1>1. Useful(v) \in SUBSET Kinds  BY DEF Useful, Necessary, Unnecessary
<1>2. t \in f.useful <=> Kind(t) \in Useful(v)  BY <1>1, FlagsAre DEF Knows
<1>3. PICK any : any = (/\ Allowed(v) /\ ~v.riichi
                        /\ distance(v.hand, hand_org) + Shanten(to_merged_count(v.hand))
                             < shanten_org + input.extra)
  OBVIOUS
<1>4. f.any <=> any  BY <1>3 DEF Knows
<1>5. Wants(v, Allowed(v), Useful(v)) = IF any THEN Tiles ELSE {k \in Tiles : Kind(k) \in Useful(v)}
  BY <1>3 DEF Wants
<1>. QED  BY <1>2, <1>4, <1>5

-----------------------------------------------------------------------------
(* What stays while the graph grows.                                       *)

LEMMA NodeStays ==
  ASSUME given' = given, NEW v
  PROVE  /\ Trials(v)' = Trials(v)
         /\ \A t : Join(v, t)' = Join(v, t)
         /\ \A f : Knows(f, v) => Knows(f, v)'
         /\ \A f : Tries(f, v) => Tries(f, v)'
<1>1. Total' = Total /\ input' = input /\ hand_org' = hand_org /\ shanten_org' = shanten_org
  BY DEF Total, given
<1>2. Trials(v)' = Trials(v)  BY <1>1 DEF Trials, Wants, Allowed, InStock
<1>3. \A t : Join(v, t)' = Join(v, t)  BY <1>1 DEF Join, Declares
<1>4. \A f : Knows(f, v) => Knows(f, v)'  BY <1>1 DEF Knows, Allowed
<1>5. \A f : Tries(f, v) => Tries(f, v)'  BY <1>1, <1>2 DEF Tries
<1>. QED  BY <1>2, <1>3, <1>4, <1>5

LEMMA LookStays ==
  ASSUME MoveInv, phase = "search", Grows, given' = given,
         NEW i \in 1..Len(frames), frames'[i] = frames[i], LookInv(i)
  PROVE  LookInv(i)'
<1>1. PICK f, v : f = frames[i] /\ v = vertices[f.vertex]  OBVIOUS
<1>2. f.pc # "enter" => f.vertex \in DOMAIN vertices
  <2>1. FrameInv(i)  BY DEF MoveInv
  <2>. QED  BY <1>1, <2>1 DEF FrameInv, Is
<1>3. f.pc # "enter" => vertices'[f.vertex] = v
  <2>1. vertices \in Seq(VertexRecords)  BY DEF MoveInv
  <2>. QED  BY <1>1, <1>2, <2>1, GrowsKeeps
<1>4. /\ f.pc = "enter" => f.at = -1
      /\ f.pc # "enter" => Knows(f, v)
      /\ f.pc = "await" => Tries(f, v)
  BY <1>1 DEF LookInv
<1>5. (f.pc # "enter" => Knows(f, v)') /\ (f.pc = "await" => Tries(f, v)')
  BY <1>4, NodeStays
<1>6. frames'[i] = f  BY <1>1
<1>7. f.pc # "enter" => Knows(frames[i], vertices[frames[i].vertex])'
  BY <1>3, <1>5, <1>6 DEF Knows, Allowed
<1>8. f.pc = "await" => Tries(frames[i], vertices[frames[i].vertex])'
  BY <1>3, <1>5, <1>6 DEF Tries, Trials, Wants, Allowed, InStock
<1>. QED  BY <1>4, <1>6, <1>7, <1>8 DEF LookInv

LEMMA EdgeStays ==
  ASSUME vertices \in Seq(VertexRecords), Grows, given' = given, NEW e, Drawn(e)
  PROVE  Drawn(e)' /\ Joins(e)' = Joins(e)
<1>1. PICK s, d : s = vertices[e.source] /\ d = vertices[e.target]  OBVIOUS
<1>2. e.source \in DOMAIN vertices /\ e.target \in DOMAIN vertices  BY DEF Drawn
<1>3. /\ e.source \in DOMAIN vertices' /\ e.target \in DOMAIN vertices'
      /\ vertices'[e.source] = s /\ vertices'[e.target] = d
  BY <1>1, <1>2, GrowsKeeps
<1>4. Total' = Total /\ input' = input  BY DEF Total, given
<1>5. \A h, t, r : calc_score(h, t, r)' = calc_score(h, t, r)  BY <1>4 DEF calc_score
<1>6. Drawn(e)'  BY <1>1, <1>3, <1>4, <1>5 DEF Drawn
<1>. QED  BY <1>1, <1>3, <1>6 DEF Joins

\* The tiles that a call has still to try are those of its node that it has not tried.
LEMMA TopRemaining ==
  ASSUME FivesInWall, MoveInv, LooksInv, phase = "search", frames # <<>>, Top.pc = "loop",
         NEW v, v = vertices[Top.vertex],
         NEW counts, counts = IF Top.node = "draw_node" THEN wall_counts ELSE hand_counts
  PROVE  /\ v.node = Top.node /\ v.hand = hand_counts /\ v.riichi = Top.riichi
         /\ Top.vertex \in DOMAIN vertices /\ v.hand \in [Tiles -> Nat] /\ Knows(Top, v)
         /\ \A t \in Tiles : counts[t] = Stock(v, t) /\ Stock(v, t) \in Nat
         /\ Remaining(counts) = {t \in Trials(v) : t > Top.at}
<1>1. PICK n : n = Len(frames)  OBVIOUS
<1>2. n \in 1..Len(frames) /\ Top = frames[n] /\ FrameInv(n)  BY <1>1, TopFrame
<1>3. Current = Entry(n) /\ Is(Top.vertex, Top.node, Entry(n), Top.riichi)
  BY <1>1, <1>2 DEF Current, FrameInv
<1>4. Fits(Entry(n)) /\ Tallied(Entry(n)) /\ Dealt  BY <1>3 DEF MoveInv
<1>5. /\ v.node = Top.node /\ v.hand = hand_counts /\ v.riichi = Top.riichi
      /\ Top.vertex \in DOMAIN vertices
  BY <1>3, <1>4 DEF Is, Tallied
<1>6. v.hand \in [Tiles -> Nat] /\ \A t \in Tiles : v.hand[t] <= Total[t] /\ Total[t] \in Int
  BY <1>4, <1>5 DEF Fits, Tallied, Dealt
<1>7. \A t \in Tiles : counts[t] = Stock(v, t) /\ Stock(v, t) \in Nat
  BY <1>4, <1>5, <1>6 DEF Stock, Tallied
<1>8. LookInv(n)  BY <1>2 DEF LooksInv
<1>9. Knows(Top, v)  BY <1>2, <1>8 DEF LookInv
<1>10. \A t \in Tiles : Top.any \/ t \in Top.useful <=> t \in Wants(v, Allowed(v), Useful(v))
  BY <1>9, KnowsTrials
<1>11. Wants(v, Allowed(v), Useful(v)) \subseteq Tiles  BY DEF Wants
<1>12. \A t \in Tiles : counts[t] # 0 <=> InStock(v, t)  BY <1>6, <1>7 DEF Stock, InStock
<1>13. ASSUME NEW t  PROVE t \in Remaining(counts) <=> t \in Trials(v) /\ t > Top.at
  BY <1>10, <1>11, <1>12 DEF Remaining, Trials
<1>. QED  BY <1>5, <1>6, <1>7, <1>9, <1>13

LEMMA TrialsAreTiles == \A v : Trials(v) \subseteq Tiles
BY DEF Trials, Wants

\* An edge of a node is there.
Joined(u, t) == \E e \in edges : Joins(e) = Join(vertices[u], t)

\* If no edge is lost, every new one is a draw that a node wants, and no try is given
\* up without an edge, the edges remain right.
LEMMA EdgesGrow ==
  ASSUME EdgeInv, vertices \in Seq(VertexRecords), Grows, given' = given,
         edges \subseteq edges',
         \A e \in edges' : e \in edges \/ (Drawn(e)' /\
           \E u \in DOMAIN vertices : \E t \in Trials(vertices[u]) : Joins(e)' = Join(vertices[u], t)),
         \A u \in DOMAIN vertices : \A t \in Trials(vertices[u]) :
           Pending(u, t) => Pending(u, t)' \/ Joined(u, t)',
         \A u \in DOMAIN vertices' : u \notin DOMAIN vertices => \A t \in Tiles : Pending(u, t)'
  PROVE  EdgeInv'
<1>1. ASSUME NEW u \in DOMAIN vertices
      PROVE  /\ u \in DOMAIN vertices' /\ vertices'[u] = vertices[u]
             /\ Trials(vertices[u])' = Trials(vertices[u])
             /\ \A t : Join(vertices[u], t)' = Join(vertices[u], t)
  <2>1. PICK v : v = vertices[u]  OBVIOUS
  <2>2. u \in DOMAIN vertices' /\ vertices'[u] = v  BY <2>1, GrowsKeeps
  <2>3. Trials(v)' = Trials(v) /\ \A t : Join(v, t)' = Join(v, t)  BY NodeStays
  <2>4. Trials(vertices[u])' = Trials(v)  BY <2>2, <2>3 DEF Trials, Wants, Allowed, InStock
  <2>5. \A t : Join(vertices[u], t)' = Join(v, t)  BY <2>2, <2>3 DEF Join, Declares
  <2>. QED  BY <2>1, <2>2, <2>4, <2>5
<1>2. \A e \in edges' : Drawn(e)'
  <2>1. ASSUME NEW e \in edges  PROVE Drawn(e)'
    <3>1. Drawn(e)  BY DEF EdgeInv
    <3>. QED  BY <3>1, EdgeStays
  <2>. QED  BY <2>1
<1>3. ASSUME NEW e \in edges'
      PROVE  \E u \in DOMAIN vertices' : \E t \in Trials(vertices[u])' : Joins(e)' = Join(vertices[u], t)'
  <2>1. PICK u \in DOMAIN vertices : \E t \in Trials(vertices[u]) : Joins(e)' = Join(vertices[u], t)
    <3>1. CASE e \in edges
      <4>1. Joins(e)' = Joins(e)
        <5>1. Drawn(e)  BY <3>1 DEF EdgeInv
        <5>. QED  BY <5>1, EdgeStays
      <4>2. PICK u \in DOMAIN vertices : \E t \in Trials(vertices[u]) : Joins(e) = Join(vertices[u], t)
        BY <3>1 DEF EdgeInv
      <4>. QED  BY <4>1, <4>2
    <3>2. CASE e \notin edges  BY <3>2
    <3>. QED  BY <3>1, <3>2
  <2>2. PICK t \in Trials(vertices[u]) : Joins(e)' = Join(vertices[u], t)  BY <2>1
  <2>. QED  BY <1>1, <2>2
<1>4. ASSUME NEW u \in DOMAIN vertices', NEW t \in Trials(vertices[u])'
      PROVE  Joined(u, t)' \/ Pending(u, t)'
  <2>1. CASE u \in DOMAIN vertices
    <3>1. t \in Trials(vertices[u])  BY <1>1, <2>1
    <3>2. CASE Pending(u, t)  BY <2>1, <3>1, <3>2
    <3>3. CASE Joined(u, t)
      <4>1. PICK e \in edges : Joins(e) = Join(vertices[u], t)  BY <3>3 DEF Joined
      <4>2. Drawn(e)  BY DEF EdgeInv
      <4>3. Joins(e)' = Joins(e)  BY <4>2, EdgeStays
      <4>4. Joins(e)' = Join(vertices[u], t)'  BY <1>1, <2>1, <4>1, <4>3
      <4>5. e \in edges'  OBVIOUS
      <4>. QED  BY <4>4, <4>5 DEF Joined
    <3>. QED  BY <2>1, <3>1, <3>2, <3>3 DEF EdgeInv, Joined
  <2>2. CASE u \notin DOMAIN vertices
    <3>1. t \in Tiles
      <4>1. Trials(vertices[u])' \subseteq Tiles  BY DEF Trials, Wants
      <4>. QED  BY <4>1
    <3>. QED  BY <2>2, <3>1
  <2>. QED  BY <2>1, <2>2
<1>. QED  BY <1>2, <1>3, <1>4 DEF EdgeInv, Joined

\* A call returns when it has tried everything, or before it has a vertex.
LEMMA ReturnEdges ==
  ASSUME MoveInv, LooksInv, EdgeInv, phase = "search", phase' = "search", frames # <<>>,
         frames' = Front(frames), given' = given, vertices' = vertices, edges' = edges,
         Top.pc = "enter" \/ (Top.pc = "loop" /\ \A t \in Trials(vertices[Top.vertex]) : ~(Top.at < t))
  PROVE  LooksInv' /\ EdgeInv'
<1>. PICK n : n = Len(frames)  OBVIOUS
<1>1. frames \in Seq(FrameRecords) /\ vertices \in Seq(VertexRecords)  BY DEF MoveInv
<1>2. /\ n \in Nat \ {0} /\ frames' \in Seq(FrameRecords) /\ Len(frames') = n - 1
      /\ \A j \in 1..n - 1 : frames'[j] = frames[j]
  BY <1>1, ReturnFrom
<1>3. Grows /\ Top = frames[n]  BY TopFrame DEF Grows
<1>4. ASSUME NEW i \in 1..n - 1  PROVE LookInv(i)'
  <2>1. i \in 1..Len(frames) /\ frames'[i] = frames[i]  BY <1>2
  <2>2. LookInv(i)  BY <2>1 DEF LooksInv
  <2>. QED  BY <1>3, <2>1, <2>2, LookStays
<1>5. LooksInv'  BY <1>2, <1>4 DEF LooksInv
<1>6. ASSUME NEW u \in DOMAIN vertices, NEW t \in Trials(vertices[u]), Pending(u, t)
      PROVE  Pending(u, t)' \/ Joined(u, t)'
  <2>1. PICK i \in 1..Len(frames) :
          /\ frames[i].pc # "enter" /\ frames[i].vertex = u
          /\ frames[i].at < t \/ (frames[i].pc = "await" /\ frames[i].at = t)
    BY <1>6 DEF Pending
  <2>2. i # n
    <3>1. SUFFICES ASSUME i = n PROVE FALSE  OBVIOUS
    <3>2. Top.pc = "loop" /\ Top.vertex = u /\ Top.at < t  BY <1>3, <2>1, <3>1
    <3>. QED  BY <3>2
  <2>3. i \in 1..Len(frames') /\ frames'[i] = frames[i]  BY <1>2, <2>2
  <2>4. Pending(u, t)'  BY <2>1, <2>3 DEF Pending
  <2>. QED  BY <2>4
<1>7. EdgeInv'  BY <1>1, <1>3, <1>6, EdgesGrow
<1>. QED  BY <1>5, <1>7

LEMMA SizesKept ==
  ASSUME SizeInv, vertices' = vertices, frames' = <<>> \/ Last(frames').pc # "enter"
  PROVE  SizeInv'
<1>1. \A h, node : Small(node, h)' = Small(node, h)  BY DEF Small
<1>. QED  BY DEF SizeInv, Small, Top

LEMMA ReturnSizes ==
  ASSUME MoveInv, SizeInv, phase = "search", frames # <<>>,
         frames' = Front(frames), vertices' = vertices
  PROVE  SizeInv'
<1>. PICK n : n = Len(frames)  OBVIOUS
<1>1. /\ n \in Nat \ {0} /\ frames' \in Seq(FrameRecords) /\ Len(frames') = n - 1
      /\ \A j \in 1..n - 1 : frames'[j] = frames[j]
  BY ReturnFrom DEF MoveInv
<1>2. CASE n = 1
  <2>1. frames' = <<>>  BY <1>1, <1>2, EmptySeq
  <2>. QED  BY <2>1, SizesKept
<1>3. CASE n # 1
  <2>1. n - 1 \in 1..Len(frames) /\ n - 1 < Len(frames)  BY <1>1, <1>3
  <2>2. frames[n - 1].pc = "await"  BY <2>1 DEF MoveInv, FrameInv
  <2>3. Last(frames') = frames'[n - 1]  BY <1>1 DEF Last
  <2>4. Last(frames').pc = "await"  BY <1>1, <1>3, <2>2, <2>3
  <2>. QED  BY <2>4, SizesKept
<1>. QED  BY <1>2, <1>3

LEMMA HitEdges ==
  ASSUME MoveInv, LooksInv, SizeInv, EdgeInv, DrawHit \/ DiscardHit
  PROVE  LooksInv' /\ SizeInv' /\ EdgeInv'
<1>1. /\ phase = "search" /\ phase' = "search" /\ frames # <<>> /\ Top.pc = "enter"
      /\ given' = given /\ vertices' = vertices /\ edges' = edges /\ frames' = Front(frames)
  BY DEF DrawHit, DiscardHit, Running, Return, graph
<1>. QED  BY <1>1, ReturnEdges, ReturnSizes

LEMMA DoneEdges ==
  ASSUME FivesInWall, MoveInv, LooksInv, SizeInv, EdgeInv, Done
  PROVE  LooksInv' /\ SizeInv' /\ EdgeInv'
<1>1. /\ phase = "search" /\ phase' = "search" /\ frames # <<>> /\ Top.pc = "loop"
      /\ given' = given /\ vertices' = vertices /\ edges' = edges /\ frames' = Front(frames)
  BY DEF Done, Return, graph
<1>2. PICK v, counts : /\ v = vertices[Top.vertex]
                       /\ counts = IF Top.node = "draw_node" THEN wall_counts ELSE hand_counts
  OBVIOUS
<1>3. Remaining(counts) = {}  BY <1>2 DEF Done
<1>4. Remaining(counts) = {t \in Trials(v) : t > Top.at}  BY <1>1, <1>2, TopRemaining
<1>5. \A t \in Trials(v) : ~(t > Top.at)  BY <1>3, <1>4
<1>6. \A t \in Trials(vertices[Top.vertex]) : ~(Top.at < t)
  <2>1. ASSUME NEW t \in Trials(v)  PROVE ~(Top.at < t)
    <3>1. t \in Int
      <4>1. t \in Tiles  BY TrialsAreTiles
      <4>. QED  BY <4>1, RedFives
    <3>2. Top.at \in Int
      <4>1. Top \in FrameRecords  BY <1>1, TopFrame
      <4>2. PICK a : a = Top.at  OBVIOUS
      <4>3. a \in Tiles \/ a = -1  BY <4>1, <4>2 DEF FrameRecords
      <4>4. \A k \in Tiles : k \in Int  BY RedFives
      <4>5. a \in Int  BY <4>3, <4>4
      <4>. QED  BY <4>2, <4>5
    <3>. QED  BY <1>5, <3>1, <3>2
  <2>. QED  BY <1>2, <2>1
<1>. QED  BY <1>1, <1>6, ReturnEdges, ReturnSizes

Looked(f, v, useful, allowed) ==
  /\ frames' = Append(Front(frames), f) /\ vertices' = Append(vertices, v)
  /\ f.pc = "loop" /\ f.vertex = Len(vertices) + 1 /\ f.shanten = Shanten(hand)
  /\ f.useful = add_red5_flags(useful) /\ f.at = Top.at
  /\ f.any <=> allowed /\ ~Top.riichi /\ can_extend_search(Shanten(hand))
  /\ v.node = Top.node /\ v.riichi = Top.riichi /\ v.hand = hand_counts

LEMMA NewLooked ==
  ASSUME MoveInv, phase = "search", frames # <<>>,
         NEW useful \in SUBSET Kinds, NEW allowed, Expand(Shanten(hand), useful, allowed)
  PROVE  \E f \in FrameRecords, v \in VertexRecords : Looked(f, v, useful, allowed)
<1>1. \E f \in FrameRecords, v \in VertexRecords :
        /\ frames' = Append(Front(frames), f) /\ vertices' = Append(vertices, v)
        /\ f.pc = "loop" /\ f.vertex = Len(vertices) + 1 /\ f.node = Top.node
        /\ f.riichi = Top.riichi /\ f.shanten = Shanten(hand)
        /\ f.useful = add_red5_flags(useful) /\ f.at = Top.at
        /\ f.any <=> allowed /\ ~Top.riichi /\ can_extend_search(Shanten(hand))
        /\ v.node = Top.node /\ v.riichi = Top.riichi /\ v.hand = hand_counts
  BY ONLY NewFrame, MoveInv, phase = "search", frames # <<>>, useful \in SUBSET Kinds,
          Expand(Shanten(hand), useful, allowed)
<1>. QED  BY <1>1 DEF Looked

\* A call that starts has everything to try.
LEMMA NewEdges ==
  ASSUME MoveInv, LooksInv, SizeInv, EdgeInv, DrawNew \/ DiscardNew
  PROVE  LooksInv' /\ SizeInv' /\ EdgeInv'
<1>1. /\ phase = "search" /\ phase' = "search" /\ frames # <<>> /\ Top.pc = "enter"
      /\ given' = given /\ edges' = edges /\ Top.node \in NodeKinds
  BY DEF DrawNew, DiscardNew, Running, Expand, NodeKinds
<1>2. PICK top \in FrameRecords : top = Top  BY <1>1, TopFrame
<1>3. frames \in Seq(FrameRecords) /\ vertices \in Seq(VertexRecords)  BY <1>1 DEF MoveInv
<1>4. PICK useful, allowed :
        /\ useful = (IF Top.node = "draw_node" THEN Necessary(hand) ELSE Unnecessary(hand))
        /\ allowed = (IF Top.node = "draw_node" THEN input.tegawari ELSE input.shanten_down)
  OBVIOUS
<1>5. PICK f \in FrameRecords, v \in VertexRecords :
        /\ frames' = Append(Front(frames), f) /\ vertices' = Append(vertices, v)
        /\ f.pc = "loop" /\ f.vertex = Len(vertices) + 1 /\ f.shanten = Shanten(hand)
        /\ f.useful = add_red5_flags(useful) /\ f.at = top.at
        /\ f.any <=> allowed /\ ~top.riichi /\ can_extend_search(Shanten(hand))
        /\ v.node = top.node /\ v.riichi = top.riichi /\ v.hand = hand_counts
  <2>1. useful \in SUBSET Kinds  BY <1>4 DEF Necessary, Unnecessary
  <2>2. Expand(Shanten(hand), useful, allowed)
    <3>1. CASE DrawNew  BY <1>4, <3>1 DEF DrawNew, Running
    <3>2. CASE DiscardNew  BY <1>4, <3>2 DEF DiscardNew, Running
    <3>. QED  BY <3>1, <3>2
  <2>3. \E f \in FrameRecords, v \in VertexRecords : Looked(f, v, useful, allowed)
    BY <1>1, <2>1, <2>2, NewLooked
  <2>. QED  BY <1>2, <2>3 DEF Looked
<1>6. PICK n, k : n = Len(frames) /\ k = Len(vertices) + 1  OBVIOUS
<1>7. /\ n \in Nat \ {0} /\ Len(frames') = n /\ frames' \in Seq(FrameRecords)
      /\ frames'[n] = f /\ \A j \in 1..n - 1 : frames'[j] = frames[j]
  <2>1. n \in Nat \ {0}  BY <1>3, <1>1, <1>6, EmptySeq
  <2>2. /\ Append(Front(frames), f) \in Seq(FrameRecords)
        /\ Len(Append(Front(frames), f)) = Len(frames)
        /\ Append(Front(frames), f)[Len(frames)] = f
        /\ \A i \in 1..Len(frames) - 1 : Append(Front(frames), f)[i] = frames[i]
    BY <1>1, <1>3, BecomeOf
  <2>. QED  BY <1>5, <1>6, <2>1, <2>2
<1>8. /\ vertices'[k] = v
      /\ \A u \in DOMAIN vertices : vertices'[u] = vertices[u]
      /\ \A u \in DOMAIN vertices' : u \in DOMAIN vertices \/ u = k
  <2>1. vertices' = Append(vertices, v)  BY <1>5
  <2>2. /\ vertices'[Len(vertices) + 1] = v
        /\ \A u \in DOMAIN vertices : vertices'[u] = vertices[u]
        /\ \A u \in DOMAIN vertices' : u \in DOMAIN vertices \/ u = Len(vertices) + 1
    BY <1>3, <2>1, Appended
  <2>. QED  BY <1>6, <2>2
<1>9. Grows  BY <1>5 DEF Grows
<1>10. top = frames[n] /\ LookInv(n)  BY <1>1, <1>2, <1>6, <1>7, TopFrame DEF LooksInv
<1>11. f.at = -1  BY <1>1, <1>2, <1>5, <1>10 DEF LookInv
<1>12. hand = to_merged_count(v.hand)  BY <1>1, <1>5 DEF MoveInv, Tallied
<1>13. Knows(f, v)
  <2>1. useful = Useful(v) /\ allowed = Allowed(v)
    BY <1>2, <1>4, <1>5, <1>12 DEF Useful, Allowed
  <2>2. f.any <=> allowed /\ ~v.riichi
                  /\ distance(v.hand, hand_org) + Shanten(hand) < shanten_org + input.extra
    BY <1>5 DEF can_extend_search
  <2>. QED  BY <1>5, <1>12, <2>1, <2>2 DEF Knows
<1>14. LookInv(n)'
  <2>1. Knows(f, v)'  BY <1>1, <1>13, NodeStays
  <2>2. Knows(frames[n], vertices[frames[n].vertex])'
    BY <1>5, <1>6, <1>7, <1>8, <2>1 DEF Knows, Allowed
  <2>. QED  BY <1>5, <1>7, <2>2 DEF LookInv
<1>15. LooksInv'
  <2>1. ASSUME NEW i \in 1..n - 1  PROVE LookInv(i)'
    <3>1. i \in 1..Len(frames) /\ frames'[i] = frames[i]  BY <1>6, <1>7
    <3>2. LookInv(i)  BY <1>1, <3>1 DEF LooksInv
    <3>. QED  BY <1>1, <1>9, <3>1, <3>2, LookStays
  <2>2. ASSUME NEW i \in 1..Len(frames')  PROVE LookInv(i)'
    <3>1. i \in 1..n - 1 \/ i = n  BY <1>7
    <3>. QED  BY <1>14, <2>1, <3>1
  <2>. QED  BY <1>1, <2>2 DEF LooksInv
<1>16. SizeInv'
  <2>1. Small(v.node, v.hand)  BY <1>1, <1>2, <1>5 DEF SizeInv
  <2>2. ASSUME NEW u \in DOMAIN vertices'  PROVE Small(vertices'[u].node, vertices'[u].hand)
    BY <1>8, <2>1 DEF SizeInv
  <2>3. Last(frames') = f  BY <1>7 DEF Last
  <2>. QED  BY <1>5, <2>2, <2>3 DEF SizeInv, Small, Top
<1>17. EdgeInv'
  <2>1. ASSUME NEW u \in DOMAIN vertices, NEW t \in Trials(vertices[u]), Pending(u, t)
        PROVE  Pending(u, t)' \/ Joined(u, t)'
    <3>1. PICK i \in 1..Len(frames) :
            /\ frames[i].pc # "enter" /\ frames[i].vertex = u
            /\ frames[i].at < t \/ (frames[i].pc = "await" /\ frames[i].at = t)
      BY <2>1 DEF Pending
    <3>2. i # n  BY <1>1, <1>2, <1>10, <3>1
    <3>3. i \in 1..Len(frames') /\ frames'[i] = frames[i]  BY <1>6, <1>7, <3>2
    <3>4. Pending(u, t)'  BY <3>1, <3>3 DEF Pending
    <3>. QED  BY <3>4
  <2>2. ASSUME NEW u \in DOMAIN vertices', u \notin DOMAIN vertices, NEW t \in Tiles
        PROVE  Pending(u, t)'
    <3>1. u = k  BY <1>8, <2>2
    <3>2. n \in 1..Len(frames')  BY <1>7
    <3>3. -1 < t  BY RedFives
    <3>. QED  BY <1>5, <1>6, <1>7, <1>11, <3>1, <3>2, <3>3 DEF Pending
  <2>. QED  BY <1>1, <1>3, <1>9, <2>1, <2>2, EdgesGrow
<1>. QED  BY <1>15, <1>16, <1>17

\* A call tries the first of the tiles that it has not tried.
LEMMA TryEdges ==
  ASSUME FivesInWall, MoveInv, LooksInv, SizeInv, EdgeInv,
         phase = "search", phase' = "search", frames # <<>>, Top.pc = "loop",
         NEW f \in FrameRecords, NEW g \in FrameRecords, frames' = Front(frames) \o <<f, g>>,
         NEW v, v = vertices[Top.vertex], NEW t \in Trials(v),
         \A u \in Trials(v) : Top.at < u => t <= u,
         f.pc = "await", f.at = t, f.vertex = Top.vertex, f.shanten = Top.shanten,
         f.useful = Top.useful, f.any = Top.any,
         f.weight = Total[t] - v.hand[t] + (IF v.node = "draw_node" THEN 0 ELSE 1),
         g.pc = "enter", g.at = -1, g.node = Other(Top.node),
         hand_counts' = Tried(v.node, v.hand, t),
         given' = given, vertices' = vertices, edges' = edges
  PROVE  LooksInv' /\ SizeInv' /\ EdgeInv'
<1>. PICK n : n = Len(frames)  OBVIOUS
<1>1. frames \in Seq(FrameRecords) /\ vertices \in Seq(VertexRecords)  BY DEF MoveInv
<1>2. /\ n \in Nat \ {0} /\ Len(frames') = n + 1
      /\ frames'[n] = f /\ frames'[n + 1] = g /\ \A j \in 1..n - 1 : frames'[j] = frames[j]
  <2>1. n \in Nat \ {0}  BY <1>1, EmptySeq
  <2>2. /\ Front(frames) \o <<f, g>> \in Seq(FrameRecords)
        /\ Len(Front(frames) \o <<f, g>>) = Len(frames) + 1
        /\ (Front(frames) \o <<f, g>>)[Len(frames)] = f
        /\ (Front(frames) \o <<f, g>>)[Len(frames) + 1] = g
        /\ \A i \in 1..Len(frames) - 1 : (Front(frames) \o <<f, g>>)[i] = frames[i]
    BY ONLY <1>1, PushOn, frames # <<>>, f \in FrameRecords, g \in FrameRecords
  <2>. QED  BY <2>1, <2>2
<1>3. Grows  BY DEF Grows
<1>4. /\ v.node = Top.node /\ Top.vertex \in DOMAIN vertices /\ v.hand \in [Tiles -> Nat]
      /\ Knows(Top, v)
  <2>. PICK counts : counts = IF Top.node = "draw_node" THEN wall_counts ELSE hand_counts  OBVIOUS
  <2>. QED  BY TopRemaining
<1>5. Top = frames[n]  BY TopFrame
<1>6. Knows(f, v) /\ Tries(f, v)
  <2>1. Knows(f, v)  BY <1>4 DEF Knows
  <2>2. Tries(f, v)  BY DEF Tries
  <2>. QED  BY <2>1, <2>2
<1>7. LookInv(n)'
  <2>1. Knows(f, v)' /\ Tries(f, v)'  BY <1>6, NodeStays
  <2>2. vertices'[f.vertex] = v  OBVIOUS
  <2>3. Knows(frames[n], vertices[frames[n].vertex])'  BY <1>2, <2>1, <2>2 DEF Knows, Allowed
  <2>4. Tries(frames[n], vertices[frames[n].vertex])'
    BY <1>2, <2>1, <2>2 DEF Tries, Trials, Wants, Allowed, InStock
  <2>. QED  BY <1>2, <2>3, <2>4 DEF LookInv
<1>8. LookInv(n + 1)'  BY <1>2 DEF LookInv
<1>9. LooksInv'
  <2>1. ASSUME NEW i \in 1..n - 1  PROVE LookInv(i)'
    <3>1. i \in 1..Len(frames) /\ frames'[i] = frames[i]  BY <1>2
    <3>2. LookInv(i)  BY <3>1 DEF LooksInv
    <3>. QED  BY <1>3, <3>1, <3>2, LookStays
  <2>2. ASSUME NEW i \in 1..Len(frames')  PROVE LookInv(i)'
    <3>1. i \in 1..n - 1 \/ i = n \/ i = n + 1  BY <1>2
    <3>. QED  BY <1>7, <1>8, <2>1, <3>1
  <2>. QED  BY <2>2 DEF LooksInv
<1>10. SizeInv'
  <2>1. Small(v.node, v.hand)  BY <1>4 DEF SizeInv
  <2>2. v.node \in NodeKinds
    <3>1. v \in VertexRecords  BY <1>1, <1>4, ElementOfSeq, LenProperties
    <3>. QED  BY <3>1 DEF VertexRecords
  <2>3. t \in Tiles /\ (v.node = "draw_node" \/ v.hand[t] > 0)
    BY TrialsAreTiles DEF Trials, InStock
  <2>4. Small(Other(v.node), Tried(v.node, v.hand, t))  BY <1>4, <2>1, <2>2, <2>3, SmallOther
  <2>5. Last(frames') = g  BY <1>2 DEF Last
  <2>6. Small(g.node, hand_counts')  BY <1>4, <2>4
  <2>. QED  BY <2>5, <2>6 DEF SizeInv, Small, Top
<1>11. ASSUME NEW u \in DOMAIN vertices, NEW k \in Trials(vertices[u]), Pending(u, k)
       PROVE  Pending(u, k)' \/ Joined(u, k)'
  <2>1. PICK i \in 1..Len(frames) :
          /\ frames[i].pc # "enter" /\ frames[i].vertex = u
          /\ frames[i].at < k \/ (frames[i].pc = "await" /\ frames[i].at = k)
    BY <1>11 DEF Pending
  <2>2. CASE i = n
    <3>1. Top.vertex = u /\ Top.at < k  BY <1>5, <2>1, <2>2
    <3>2. t <= k  BY <3>1
    <3>3. t \in Int /\ k \in Int
      <4>1. t \in Tiles /\ k \in Tiles  BY TrialsAreTiles
      <4>. QED  BY <4>1, RedFives
    <3>4. t < k \/ t = k  BY <3>2, <3>3
    <3>5. n \in 1..Len(frames')  BY <1>2
    <3>. QED  BY <1>2, <3>1, <3>4, <3>5 DEF Pending
  <2>3. CASE i # n
    <3>1. i \in 1..Len(frames') /\ frames'[i] = frames[i]  BY <1>2, <2>3
    <3>2. Pending(u, k)'  BY <2>1, <3>1 DEF Pending
    <3>. QED  BY <3>2
  <2>. QED  BY <2>2, <2>3
<1>12. EdgeInv'  BY <1>1, <1>3, <1>11, EdgesGrow
<1>. QED  BY <1>9, <1>10, <1>12

\* A call has its answer, and an edge for the tile it tried.
LEMMA BackEdges ==
  ASSUME MoveInv, LooksInv, SizeInv, EdgeInv,
         phase = "search", phase' = "search", frames # <<>>, Top.pc = "await",
         NEW f \in FrameRecords, frames' = Append(Front(frames), f),
         f.pc = "loop", f.at = Top.at, f.vertex = Top.vertex, f.shanten = Top.shanten,
         f.useful = Top.useful, f.any = Top.any,
         given' = given, vertices' = vertices, edges \subseteq edges',
         NEW x, x = Top.vertex, NEW t, t = Top.at,
         \A e \in edges' : e \in edges \/ (Drawn(e)' /\ Joins(e)' = Join(vertices[x], t)),
         Joined(x, t)'
  PROVE  LooksInv' /\ SizeInv' /\ EdgeInv'
<1>. PICK n, v : n = Len(frames) /\ v = vertices[x]  OBVIOUS
<1>1. frames \in Seq(FrameRecords) /\ vertices \in Seq(VertexRecords)  BY DEF MoveInv
<1>2. /\ n \in Nat \ {0} /\ Len(frames') = n
      /\ frames'[n] = f /\ \A j \in 1..n - 1 : frames'[j] = frames[j]
  <2>1. n \in Nat \ {0}  BY <1>1, EmptySeq
  <2>2. /\ Append(Front(frames), f) \in Seq(FrameRecords)
        /\ Len(Append(Front(frames), f)) = Len(frames)
        /\ Append(Front(frames), f)[Len(frames)] = f
        /\ \A i \in 1..Len(frames) - 1 : Append(Front(frames), f)[i] = frames[i]
    BY ONLY <1>1, BecomeOf, frames # <<>>, f \in FrameRecords
  <2>. QED  BY <2>1, <2>2
<1>3. Grows  BY DEF Grows
<1>4. Top = frames[n] /\ Top.vertex \in DOMAIN vertices  BY TopFrame DEF FrameInv, Is
<1>5. Knows(Top, v) /\ Tries(Top, v)
  <2>1. LookInv(n)  BY <1>2 DEF LooksInv
  <2>. QED  BY <1>4, <2>1 DEF LookInv
<1>6. LookInv(n)'
  <2>1. Knows(f, v)  BY <1>5 DEF Knows
  <2>2. Knows(f, v)'  BY <2>1, NodeStays
  <2>3. vertices'[f.vertex] = v  OBVIOUS
  <2>4. Knows(frames[n], vertices[frames[n].vertex])'  BY <1>2, <2>2, <2>3 DEF Knows, Allowed
  <2>. QED  BY <1>2, <2>4 DEF LookInv
<1>7. LooksInv'
  <2>1. ASSUME NEW i \in 1..n - 1  PROVE LookInv(i)'
    <3>1. i \in 1..Len(frames) /\ frames'[i] = frames[i]  BY <1>2
    <3>2. LookInv(i)  BY <3>1 DEF LooksInv
    <3>. QED  BY <1>3, <3>1, <3>2, LookStays
  <2>2. ASSUME NEW i \in 1..Len(frames')  PROVE LookInv(i)'
    <3>1. i \in 1..n - 1 \/ i = n  BY <1>2
    <3>. QED  BY <1>6, <2>1, <3>1
  <2>. QED  BY <2>2 DEF LooksInv
<1>8. SizeInv'
  <2>1. Last(frames') = f  BY <1>2 DEF Last
  <2>. QED  BY <2>1, SizesKept
<1>9. ASSUME NEW u \in DOMAIN vertices, NEW k \in Trials(vertices[u]), Pending(u, k)
      PROVE  Pending(u, k)' \/ Joined(u, k)'
  <2>1. PICK i \in 1..Len(frames) :
          /\ frames[i].pc # "enter" /\ frames[i].vertex = u
          /\ frames[i].at < k \/ (frames[i].pc = "await" /\ frames[i].at = k)
    BY <1>9 DEF Pending
  <2>2. CASE i = n
    <3>1. Top.vertex = u /\ (Top.at < k \/ Top.at = k)  BY <1>4, <2>1, <2>2
    <3>2. CASE Top.at = k
      <4>1. u = x /\ k = t  BY <3>1, <3>2
      <4>2. Joined(x, t)'  OBVIOUS
      <4>. QED  BY <4>1, <4>2 DEF Joined
    <3>3. CASE Top.at < k
      <4>1. n \in 1..Len(frames')  BY <1>2
      <4>. QED  BY <1>2, <3>1, <3>3, <4>1 DEF Pending
    <3>. QED  BY <3>1, <3>2, <3>3
  <2>3. CASE i # n
    <3>1. i \in 1..Len(frames') /\ frames'[i] = frames[i]  BY <1>2, <2>3
    <3>2. Pending(u, k)'  BY <2>1, <3>1 DEF Pending
    <3>. QED  BY <3>2
  <2>. QED  BY <2>2, <2>3
<1>10. ASSUME NEW e \in edges'
       PROVE  e \in edges \/ (Drawn(e)' /\
                \E u \in DOMAIN vertices : \E k \in Trials(vertices[u]) : Joins(e)' = Join(vertices[u], k))
  <2>1. t \in Trials(v)  BY <1>5 DEF Tries
  <2>. QED  BY <1>4, <2>1
<1>11. EdgeInv'  BY <1>1, <1>3, <1>9, <1>10, EdgesGrow
<1>. QED  BY <1>7, <1>8, <1>11

LEMMA AddedEdge ==
  ASSUME NEW s, NEW d, NEW score, AddEdge(s, d, score),
         NEW e, e = [source |-> s, target |-> d, weight |-> Top.weight, score |-> score]
  PROVE  /\ edges \subseteq edges'
         /\ \A x \in edges' : x \in edges \/ x = e
         /\ \E x \in edges' : x.source = s /\ x.target = d
<1>1. CASE has_edge(s, d)
  <2>1. edges' = edges  BY <1>1 DEF AddEdge
  <2>. QED  BY <1>1, <2>1 DEF has_edge
<1>2. CASE ~has_edge(s, d)
  <2>1. edges' = edges \cup {e}  BY <1>2 DEF AddEdge
  <2>2. e.source = s /\ e.target = d  OBVIOUS
  <2>. QED  BY <2>1, <2>2
<1>. QED  BY <1>1, <1>2

\* The answer to a call is the node of the hand that the caller has made for it, and
\* of the riichi that its hand declares with the tile.
LEMMA Answered ==
  ASSUME MoveInv, NodeInv, LooksInv, phase = "search", frames # <<>>, Top.pc = "await",
         NEW v, v = vertices[Top.vertex], NEW w, w = vertices[returned], NEW t, t = Top.at
  PROVE  /\ Top.vertex \in DOMAIN vertices /\ returned \in DOMAIN vertices
         /\ v.node = Top.node /\ v.riichi = Top.riichi /\ v.hand \in [Tiles -> Nat]
         /\ t \in Tiles /\ Knows(Top, v) /\ Tries(Top, v)
         /\ w.node = Other(v.node) /\ w.hand = Tried(v.node, v.hand, t)
         /\ w.riichi = IF v.node = "draw_node" THEN v.riichi ELSE Declares(v, t)
         /\ hand_counts = w.hand
<1>1. PICK n : n = Len(frames)  OBVIOUS
<1>2. n \in 1..Len(frames) /\ Top = frames[n] /\ FrameInv(n)  BY <1>1, TopFrame
<1>3. Is(Top.vertex, Top.node, Entry(n), Top.riichi) /\ t \in Tiles  BY <1>2 DEF FrameInv
<1>4. Top.vertex \in DOMAIN vertices /\ v.node = Top.node /\ v.riichi = Top.riichi
  BY <1>3 DEF Is
<1>5. v.hand \in [Tiles -> Nat] /\ v.riichi \in BOOLEAN /\ v.node \in NodeKinds
  <2>1. v \in VertexRecords  BY <1>4, VertexOf
  <2>. QED  BY <2>1 DEF VertexRecords
<1>6. Knows(Top, v) /\ Tries(Top, v)
  <2>1. LookInv(n)  BY <1>2 DEF LooksInv
  <2>. QED  BY <1>2, <2>1 DEF LookInv
<1>7. Is(returned, Other(Top.node), Offered(Top), Passed(Top))  BY DEF NodeInv, ReturnInv
<1>8. returned \in DOMAIN vertices /\ w.node = Other(v.node) /\ w.hand = Offered(Top)
      /\ w.riichi = Passed(Top)
  BY <1>4, <1>7 DEF Is
<1>9. Offered(Top) = Tried(v.node, v.hand, t)
  <2>1. CASE v.node = "draw_node"  BY <1>4, <2>1 DEF Offered, Tried, More
  <2>2. CASE v.node # "draw_node"
    <3>1. Offered(Top) = [v.hand EXCEPT ![t] = v.hand[t] + (-1)]  BY <1>4, <2>2 DEF Offered
    <3>2. v.hand[t] + (-1) = v.hand[t] - 1  BY <1>3, <1>5
    <3>3. Tried(v.node, v.hand, t) = [v.hand EXCEPT ![t] = v.hand[t] - 1]  BY <2>2 DEF Tried, Less
    <3>. QED  BY <3>1, <3>2, <3>3
  <2>. QED  BY <2>1, <2>2
<1>10. Passed(Top) = IF v.node = "draw_node" THEN v.riichi ELSE Declares(v, t)
  <2>1. CASE v.node = "draw_node"  BY <1>4, <2>1 DEF Passed
  <2>2. CASE v.node # "draw_node"
    <3>1. Useful(v) = Unnecessary(to_merged_count(v.hand))  BY <2>2 DEF Useful
    <3>2. Useful(v) \in SUBSET Kinds  BY <3>1 DEF Unnecessary
    <3>3. t \in Top.useful <=> Kind(t) \in Useful(v)  BY <1>3, <1>6, <3>2, FlagsAre DEF Knows
    <3>4. Top.shanten = Shanten(to_merged_count(v.hand))  BY <1>6 DEF Knows
    <3>5. Passed(Top) <=> Declares(v, t)
      BY <1>4, <2>2, <3>1, <3>3, <3>4 DEF Passed, Declares
    <3>6. Passed(Top) \in BOOLEAN /\ Declares(v, t) \in BOOLEAN
      BY <1>4, <1>5, <2>2 DEF Passed, Declares
    <3>. QED  BY <2>2, <3>5, <3>6
  <2>. QED  BY <2>1, <2>2
<1>11. hand_counts = w.hand  BY <1>8 DEF MoveInv, Tallied, Current
<1>. QED  BY <1>3, <1>4, <1>5, <1>6, <1>8, <1>9, <1>10, <1>11

\* The tile that is tried next is the first one of those.
LEMMA FirstRemaining ==
  ASSUME NEW counts, NEW v, Remaining(counts) = {u \in Trials(v) : u > Top.at}, Remaining(counts) # {},
         NEW t, t = Min(Remaining(counts))
  PROVE  t \in Tiles /\ t \in Trials(v) /\ \A u \in Trials(v) : Top.at < u => t <= u
<1>1. Remaining(counts) \in SUBSET Nat
  <2>1. \A u \in Tiles : u \in Nat  BY RedFives
  <2>. QED  BY <2>1 DEF Remaining
<1>2. t \in Remaining(counts) /\ \A u \in Remaining(counts) : t <= u  BY <1>1, MinOf
<1>3. t \in Trials(v)  BY <1>2
<1>4. t \in Tiles  BY <1>3, TrialsAreTiles
<1>. QED  BY <1>2, <1>3, <1>4

LEMMA DrawTileEdges ==
  ASSUME FivesInWall, MoveInv, LooksInv, SizeInv, EdgeInv, DrawTile
  PROVE  LooksInv' /\ SizeInv' /\ EdgeInv'
<1>1. /\ phase = "search" /\ phase' = "search" /\ frames # <<>>
      /\ Top.node = "draw_node" /\ Top.pc = "loop" /\ Remaining(wall_counts) # {}
      /\ given' = given /\ vertices' = vertices /\ edges' = edges
  BY DEF DrawTile, Running, graph
<1>2. PICK v : v = vertices[Top.vertex]  OBVIOUS
<1>3. PICK counts : counts = wall_counts  OBVIOUS
<1>4. counts = IF Top.node = "draw_node" THEN wall_counts ELSE hand_counts  BY <1>1, <1>3
<1>5. /\ v.node = Top.node /\ v.hand = hand_counts /\ Knows(Top, v)
      /\ \A t \in Tiles : counts[t] = Stock(v, t) /\ Stock(v, t) \in Nat
      /\ Remaining(counts) = {t \in Trials(v) : t > Top.at}
  BY <1>1, <1>2, <1>4, TopRemaining
<1>6. PICK t : t = Min(Remaining(counts))  OBVIOUS
<1>7. t \in Tiles /\ t \in Trials(v) /\ \A u \in Trials(v) : Top.at < u => t <= u
  BY <1>1, <1>3, <1>5, <1>6, FirstRemaining
<1>8. PICK top \in FrameRecords : top = Top  BY <1>1, TopFrame
<1>9. PICK f, g, w : /\ f = Waiting(top, t, w) /\ g = Call("discard_node", top.riichi)
                     /\ w = wall_counts[t]
  OBVIOUS
<1>10. frames' = Front(frames) \o <<f, g>> /\ hand_counts' = [hand_counts EXCEPT ![t] = @ + 1]
  BY <1>3, <1>6, <1>8, <1>9 DEF DrawTile, Push, Waiting, draw
<1>11. w \in Int /\ w = Total[t] - v.hand[t]  BY <1>1, <1>3, <1>5, <1>7, <1>9 DEF Stock
<1>12. /\ f \in FrameRecords /\ f.pc = "await" /\ f.at = t /\ f.weight = w
       /\ f.vertex = top.vertex /\ f.shanten = top.shanten /\ f.useful = top.useful
       /\ f.any = top.any
  <2>1. f = Waiting(top, t, w)  BY <1>9
  <2>. QED  BY <1>7, <1>11, <2>1, AwaitFrame
<1>13. /\ g \in FrameRecords /\ g.pc = "enter" /\ g.node = "discard_node" /\ g.at = -1
  <2>1. top.riichi \in BOOLEAN /\ "discard_node" \in NodeKinds  BY DEF FrameRecords, NodeKinds
  <2>2. g.at = -1  BY <1>9 DEF Call
  <2>. QED  BY <1>9, <2>1, <2>2, CallFrame
<1>14. hand_counts' = Tried(v.node, v.hand, t)  BY <1>1, <1>5, <1>10 DEF Tried, More
<1>15. f.weight = Total[t] - v.hand[t] + (IF v.node = "draw_node" THEN 0 ELSE 1)
  <2>1. w + 0 = w  BY <1>11
  <2>. QED  BY <1>1, <1>5, <1>11, <1>12, <2>1
<1>16. g.node = Other(Top.node)  BY <1>1, <1>13 DEF Other
<1>. QED  BY <1>1, <1>2, <1>7, <1>8, <1>10, <1>12, <1>13, <1>14, <1>15, <1>16, TryEdges

LEMMA DiscardTileEdges ==
  ASSUME FivesInWall, MoveInv, LooksInv, SizeInv, EdgeInv, DiscardTile
  PROVE  LooksInv' /\ SizeInv' /\ EdgeInv'
<1>1. /\ phase = "search" /\ phase' = "search" /\ frames # <<>>
      /\ Top.node = "discard_node" /\ Top.pc = "loop" /\ Remaining(hand_counts) # {}
      /\ given' = given /\ vertices' = vertices /\ edges' = edges
  BY DEF DiscardTile, Running, graph
<1>2. PICK v : v = vertices[Top.vertex]  OBVIOUS
<1>3. PICK counts : counts = hand_counts  OBVIOUS
<1>4. counts = IF Top.node = "draw_node" THEN wall_counts ELSE hand_counts  BY <1>1, <1>3
<1>5. /\ v.node = Top.node /\ v.hand = hand_counts /\ Knows(Top, v)
      /\ \A t \in Tiles : counts[t] = Stock(v, t) /\ Stock(v, t) \in Nat
      /\ Remaining(counts) = {t \in Trials(v) : t > Top.at}
  BY <1>1, <1>2, <1>4, TopRemaining
<1>6. PICK t : t = Min(Remaining(counts))  OBVIOUS
<1>7. t \in Tiles /\ t \in Trials(v) /\ \A u \in Trials(v) : Top.at < u => t <= u
  BY <1>1, <1>3, <1>5, <1>6, FirstRemaining
<1>8. PICK top \in FrameRecords : top = Top  BY <1>1, TopFrame
<1>9. PICK w, r : w = wall_counts'[t] /\ r = call_riichi(t)  OBVIOUS
<1>10. PICK f, g : f = Waiting(top, t, w) /\ g = Call("draw_node", r)  OBVIOUS
<1>11. frames' = Front(frames) \o <<f, g>> /\ discard(t)
  BY <1>3, <1>6, <1>8, <1>9, <1>10 DEF DiscardTile, Push, Waiting
<1>12. w \in Int /\ w = Total[t] - v.hand[t] + 1
  <2>1. wall_counts \in [Tiles -> Int] /\ wall_counts[t] = Total[t] - v.hand[t]
    BY <1>1, <1>5, <1>7 DEF MoveInv, Tallied, Dealt, Fits
  <2>2. w = wall_counts[t] + 1  BY <1>7, <1>9, <1>11, <2>1 DEF discard
  <2>3. wall_counts[t] \in Int  BY <1>7, <2>1
  <2>. QED  BY <2>1, <2>2, <2>3
<1>13. /\ f \in FrameRecords /\ f.pc = "await" /\ f.at = t /\ f.weight = w
       /\ f.vertex = top.vertex /\ f.shanten = top.shanten /\ f.useful = top.useful
       /\ f.any = top.any
  <2>1. f = Waiting(top, t, w)  BY <1>10
  <2>. QED  BY <1>7, <1>12, <2>1, AwaitFrame
<1>14. /\ g \in FrameRecords /\ g.pc = "enter" /\ g.node = "draw_node" /\ g.at = -1
  <2>1. top.riichi \in BOOLEAN  BY DEF FrameRecords
  <2>2. r \in BOOLEAN /\ "draw_node" \in NodeKinds  BY <1>8, <1>9, <2>1 DEF call_riichi, NodeKinds
  <2>3. g.at = -1  BY <1>10 DEF Call
  <2>. QED  BY <1>10, <2>2, <2>3, CallFrame
<1>15. hand_counts' = Tried(v.node, v.hand, t)  BY <1>1, <1>5, <1>11 DEF Tried, Less, discard
<1>16. f.weight = Total[t] - v.hand[t] + (IF v.node = "draw_node" THEN 0 ELSE 1)
  BY <1>1, <1>5, <1>12, <1>13
<1>17. g.node = Other(Top.node)  BY <1>1, <1>14 DEF Other
<1>. QED  BY <1>1, <1>2, <1>7, <1>8, <1>11, <1>13, <1>14, <1>15, <1>16, <1>17, TryEdges

\* What a draw with its edge looks like.
LEMMA DrawnEdge ==
  ASSUME NEW e, NEW s, NEW d, e.source \in DOMAIN vertices, e.target \in DOMAIN vertices,
         s = vertices[e.source], d = vertices[e.target],
         s.node = "draw_node", d.node = "discard_node",
         NEW t \in Tiles, d.hand = More(s.hand, t), e.weight = Total[t] - s.hand[t],
         e.score = IF Completes(d.hand) THEN calc_score(d.hand, t, d.riichi) ELSE <<>>
  PROVE  Drawn(e)
BY DEF Drawn, More

\* An edge from one vertex to another, as the hands that it joins.
LEMMA JoinedBy ==
  ASSUME vertices' = vertices, given' = given, NEW x, NEW t, NEW e \in edges',
         Joins(e) = Join(vertices[x], t)
  PROVE  Joins(e)' = Join(vertices[x], t) /\ Joined(x, t)'
<1>1. Joins(e)' = Joins(e)  BY DEF Joins
<1>2. PICK v : v = vertices[x]  OBVIOUS
<1>3. Join(v, t)' = Join(v, t)  BY NodeStays
<1>4. Join(vertices[x], t)' = Join(v, t)  BY <1>2, <1>3 DEF Join, Declares
<1>. QED  BY <1>1, <1>2, <1>4 DEF Joined

LEMMA DrawBackEdges ==
  ASSUME MoveInv, NodeInv, LooksInv, SizeInv, EdgeInv, DrawBack
  PROVE  LooksInv' /\ SizeInv' /\ EdgeInv'
<1>1. /\ phase = "search" /\ phase' = "search" /\ frames # <<>>
      /\ Top.node = "draw_node" /\ Top.pc = "await"
      /\ given' = given /\ vertices' = vertices
  BY DEF DrawBack, Running
<1>2. PICK top \in FrameRecords : top = Top  BY <1>1, TopFrame
<1>3. PICK f : f = [top EXCEPT !.pc = "loop"]  OBVIOUS
<1>4. frames' = Append(Front(frames), f)  BY <1>2, <1>3 DEF DrawBack, Become
<1>5. /\ f \in FrameRecords /\ f.pc = "loop" /\ f.at = top.at /\ f.vertex = top.vertex
      /\ f.shanten = top.shanten /\ f.useful = top.useful /\ f.any = top.any
  BY <1>3, LoopFrame
<1>6. PICK v, w, t, x, y : /\ v = vertices[x] /\ w = vertices[y] /\ t = Top.at
                           /\ x = Top.vertex /\ y = returned
  OBVIOUS
<1>7. /\ x \in DOMAIN vertices /\ y \in DOMAIN vertices
      /\ v.node = Top.node /\ v.riichi = Top.riichi /\ v.hand \in [Tiles -> Nat]
      /\ t \in Tiles /\ Knows(Top, v) /\ Tries(Top, v)
      /\ w.node = Other(v.node) /\ w.hand = Tried(v.node, v.hand, t)
      /\ w.riichi = IF v.node = "draw_node" THEN v.riichi ELSE Declares(v, t)
      /\ hand_counts = w.hand
  BY <1>1, <1>6, Answered
<1>8. w.node = "discard_node" /\ w.hand = More(v.hand, t) /\ w.riichi = v.riichi
  BY <1>1, <1>7 DEF Other, Tried
<1>9. PICK score : score = IF Top.shanten = 0 /\ t \in Top.useful
                           THEN calc_score(hand_counts, t, Top.riichi) ELSE <<>>
  OBVIOUS
<1>10. PICK e : e = [source |-> x, target |-> y, weight |-> Top.weight, score |-> score]  OBVIOUS
<1>11. AddEdge(x, y, score)  BY <1>6, <1>9 DEF DrawBack
<1>12. /\ edges \subseteq edges'
       /\ \A a \in edges' : a \in edges \/ a = e
       /\ \E a \in edges' : a.source = x /\ a.target = y
  BY <1>10, <1>11, AddedEdge
<1>13. score = IF Completes(w.hand) THEN calc_score(w.hand, t, w.riichi) ELSE <<>>
  <2>1. Small("draw_node", v.hand)  BY <1>1, <1>6, <1>7 DEF SizeInv
  <2>2. Completes(More(v.hand, t)) <=>
          Shanten(to_merged_count(v.hand)) = 0 /\ t \in add_red5_flags(Necessary(to_merged_count(v.hand)))
    BY <1>7, <2>1, Completing
  <2>3. /\ Top.shanten = Shanten(to_merged_count(v.hand))
        /\ Top.useful = add_red5_flags(Necessary(to_merged_count(v.hand)))
    BY <1>1, <1>7 DEF Knows, Useful
  <2>4. Completes(w.hand) <=> Top.shanten = 0 /\ t \in Top.useful  BY <1>8, <2>2, <2>3
  <2>. QED  BY <1>7, <1>8, <1>9, <2>4
<1>14. Drawn(e)
  <2>1. Top.weight = Total[t] - v.hand[t] + 0  BY <1>1, <1>6, <1>7 DEF Tries
  <2>2. Total[t] - v.hand[t] \in Int
    <3>1. Total \in [Tiles -> Int]  BY <1>1 DEF MoveInv, Dealt
    <3>. QED  BY <1>7, <3>1
  <2>3. Top.weight = Total[t] - v.hand[t]  BY <2>1, <2>2
  <2>4. e.source = x /\ e.target = y /\ e.weight = Top.weight /\ e.score = score  BY <1>10
  <2>. QED  BY <1>1, <1>6, <1>7, <1>8, <1>13, <2>3, <2>4, DrawnEdge
<1>15. \A a : a.source = x /\ a.target = y => Joins(a) = Join(v, t)
  BY <1>1, <1>6, <1>7, <1>8 DEF Joins, Join, Key, More
<1>16. \A a \in edges' : a \in edges \/ (Drawn(a)' /\ Joins(a)' = Join(vertices[x], t))
  <2>1. ASSUME NEW a \in edges', a \notin edges
        PROVE  Drawn(a)' /\ Joins(a)' = Join(vertices[x], t)
    <3>1. a = e /\ a.source = x /\ a.target = y  BY <1>10, <1>12, <2>1
    <3>2. Drawn(a)'
      <4>1. vertices \in Seq(VertexRecords) /\ Grows  BY <1>1 DEF MoveInv, Grows
      <4>2. Drawn(a)  BY <1>14, <3>1
      <4>. QED  BY <1>1, <4>1, <4>2, EdgeStays
    <3>3. Joins(a) = Join(vertices[x], t)  BY <1>6, <1>15, <3>1
    <3>. QED  BY <1>1, <3>2, <3>3, JoinedBy
  <2>. QED  BY <2>1
<1>17. Joined(x, t)'
  <2>1. PICK a \in edges' : a.source = x /\ a.target = y  BY <1>12
  <2>2. Joins(a) = Join(vertices[x], t)  BY <1>6, <1>15, <2>1
  <2>. QED  BY <1>1, <2>2, JoinedBy
<1>. QED  BY <1>1, <1>2, <1>4, <1>5, <1>6, <1>12, <1>16, <1>17, BackEdges

LEMMA DiscardBackEdges ==
  ASSUME MoveInv, NodeInv, LooksInv, SizeInv, EdgeInv, DiscardBack
  PROVE  LooksInv' /\ SizeInv' /\ EdgeInv'
<1>1. /\ phase = "search" /\ phase' = "search" /\ frames # <<>>
      /\ Top.node = "discard_node" /\ Top.pc = "await"
      /\ given' = given /\ vertices' = vertices
  BY DEF DiscardBack, Running
<1>2. PICK top \in FrameRecords : top = Top  BY <1>1, TopFrame
<1>3. PICK f : f = [top EXCEPT !.pc = "loop"]  OBVIOUS
<1>4. frames' = Append(Front(frames), f)  BY <1>2, <1>3 DEF DiscardBack, Become
<1>5. /\ f \in FrameRecords /\ f.pc = "loop" /\ f.at = top.at /\ f.vertex = top.vertex
      /\ f.shanten = top.shanten /\ f.useful = top.useful /\ f.any = top.any
  BY <1>3, LoopFrame
<1>6. PICK v, w, t, x, y : /\ v = vertices[x] /\ w = vertices[y] /\ t = Top.at
                           /\ x = Top.vertex /\ y = returned
  OBVIOUS
<1>7. /\ x \in DOMAIN vertices /\ y \in DOMAIN vertices
      /\ v.node = Top.node /\ v.riichi = Top.riichi /\ v.hand \in [Tiles -> Nat]
      /\ t \in Tiles /\ Knows(Top, v) /\ Tries(Top, v)
      /\ w.node = Other(v.node) /\ w.hand = Tried(v.node, v.hand, t)
      /\ w.riichi = IF v.node = "draw_node" THEN v.riichi ELSE Declares(v, t)
      /\ hand_counts = w.hand
  BY <1>1, <1>6, Answered
<1>8. w.node = "draw_node" /\ w.hand = Less(v.hand, t) /\ w.riichi = Declares(v, t)
  BY <1>1, <1>7 DEF Other, Tried
<1>9. v.hand[t] > 0 /\ w.hand \in [Tiles -> Nat] /\ v.hand = More(w.hand, t)
  <2>1. v.hand[t] > 0  BY <1>1, <1>6, <1>7 DEF Tries, Trials, InStock
  <2>. QED  BY <1>7, <1>8, <2>1, MoreLess
<1>10. hand_counts' = v.hand
  <2>1. hand_counts' = More(w.hand, t)  BY <1>6, <1>7 DEF DiscardBack, draw, More
  <2>. QED  BY <1>9, <2>1
<1>11. PICK score : score = IF Top.shanten = -1 THEN calc_score(hand_counts', t, Top.riichi) ELSE <<>>
  OBVIOUS
<1>12. PICK e : e = [source |-> y, target |-> x, weight |-> Top.weight, score |-> score]  OBVIOUS
<1>13. AddEdge(y, x, score)  BY <1>6, <1>11 DEF DiscardBack
<1>14. /\ edges \subseteq edges'
       /\ \A a \in edges' : a \in edges \/ a = e
       /\ \E a \in edges' : a.source = y /\ a.target = x
  BY <1>12, <1>13, AddedEdge
<1>15. score = IF Completes(v.hand) THEN calc_score(v.hand, t, v.riichi) ELSE <<>>
  <2>1. Top.shanten = Shanten(to_merged_count(v.hand))  BY <1>7 DEF Knows
  <2>. QED  BY <1>7, <1>10, <1>11, <2>1 DEF Completes
<1>16. Drawn(e)
  <2>1. Top.weight = Total[t] - v.hand[t] + 1  BY <1>1, <1>6, <1>7 DEF Tries
  <2>2. Total[t] \in Int /\ v.hand[t] \in Int /\ w.hand[t] = v.hand[t] - 1
    <3>1. Total \in [Tiles -> Int]  BY <1>1 DEF MoveInv, Dealt
    <3>. QED  BY <1>7, <1>8, <3>1 DEF Less
  <2>3. Top.weight = Total[t] - w.hand[t]  BY <2>1, <2>2
  <2>4. e.source = y /\ e.target = x /\ e.weight = Top.weight /\ e.score = score  BY <1>12
  <2>. QED  BY <1>1, <1>6, <1>7, <1>8, <1>9, <1>15, <2>3, <2>4, DrawnEdge
<1>17. \A a : a.source = y /\ a.target = x => Joins(a) = Join(v, t)
  BY <1>1, <1>6, <1>7, <1>8 DEF Joins, Join, Key, Less
<1>18. \A a \in edges' : a \in edges \/ (Drawn(a)' /\ Joins(a)' = Join(vertices[x], t))
  <2>1. ASSUME NEW a \in edges', a \notin edges
        PROVE  Drawn(a)' /\ Joins(a)' = Join(vertices[x], t)
    <3>1. a = e /\ a.source = y /\ a.target = x  BY <1>12, <1>14, <2>1
    <3>2. Drawn(a)'
      <4>1. vertices \in Seq(VertexRecords) /\ Grows  BY <1>1 DEF MoveInv, Grows
      <4>2. Drawn(a)  BY <1>16, <3>1
      <4>. QED  BY <1>1, <4>1, <4>2, EdgeStays
    <3>3. Joins(a) = Join(vertices[x], t)  BY <1>6, <1>17, <3>1
    <3>. QED  BY <1>1, <3>2, <3>3, JoinedBy
  <2>. QED  BY <2>1
<1>19. Joined(x, t)'
  <2>1. PICK a \in edges' : a.source = y /\ a.target = x  BY <1>14
  <2>2. Joins(a) = Join(vertices[x], t)  BY <1>6, <1>17, <2>1
  <2>. QED  BY <1>1, <2>2, JoinedBy
<1>. QED  BY <1>1, <1>2, <1>4, <1>5, <1>6, <1>14, <1>18, <1>19, BackEdges

-----------------------------------------------------------------------------
(* The first call, and the steps that leave the graph alone.               *)

LEMMA PrepareEdges ==
  ASSUME NEW h, NEW w, Playable(h), num_tiles(h) <= 14, Prepare(w, h),
         phase' = "search", vertices' = <<>>, edges' = {}
  PROVE  LooksInv' /\ SizeInv' /\ EdgeInv'
<1>1. PICK node : node = IF num_tiles(h) = 13 THEN "draw_node" ELSE "discard_node"  OBVIOUS
<1>2. node \in NodeKinds /\ frames' = <<Call(node, FALSE)>>  BY <1>1 DEF Prepare, NodeKinds
<1>3. PICK c \in FrameRecords : c = Call(node, FALSE) /\ c.pc = "enter" /\ c.node = node
  BY <1>2, CallFrame
<1>4. c.at = -1  BY <1>3 DEF Call
<1>5. Len(frames') = 1 /\ frames' # <<>> /\ frames'[1] = c /\ Top' = c
  <2>1. <<c>> \in Seq(FrameRecords) /\ Len(<<c>>) = 1 /\ <<c>>[1] = c  BY <1>3, FirstFrame
  <2>2. frames' = <<c>>  BY <1>2, <1>3
  <2>3. frames' # <<>>  BY <2>1, <2>2, EmptySeq
  <2>. QED  BY <2>1, <2>2, <2>3 DEF Top, Last
<1>6. DOMAIN vertices' = {}  OBVIOUS
<1>7. LooksInv'
  <2>1. LookInv(1)'  BY <1>3, <1>4, <1>5 DEF LookInv
  <2>2. \A i \in 1..Len(frames') : i = 1  BY <1>5
  <2>. QED  BY <2>1, <2>2 DEF LooksInv
<1>8. Small(node, hand_counts')
  <2>1. PICK s : s = hand_counts'  OBVIOUS
  <2>2. s = to_separated_count(h)  BY <2>1 DEF Prepare
  <2>3. to_merged_count(s) = h  BY <2>2, Separated
  <2>4. NumGroups \in Int  BY ShapeAssumption
  <2>5. Size(h) \in Int
    <3>1. \A k \in Kinds : h[k] \in Int
      <4>1. Kinds \subseteq Tiles  BY DEF Tiles
      <4>. QED  BY <4>1 DEF Playable
    <3>2. IsFiniteSet(Kinds)  BY KindsFinite
    <3>. QED  BY <3>1, <3>2, SumInt DEF Size
  <2>6. num_tiles(h) = Size(h) + 3 * (4 - NumGroups)  BY DEF num_tiles, Size
  <2>7. Size(h) <= 3 * NumGroups + (IF node = "draw_node" THEN 1 ELSE 2)
    <3>1. CASE num_tiles(h) = 13  BY <1>1, <2>4, <2>5, <2>6, <3>1
    <3>2. CASE num_tiles(h) # 13  BY <1>1, <2>4, <2>5, <2>6, <3>2
    <3>. QED  BY <3>1, <3>2
  <2>. QED  BY <2>1, <2>3, <2>7 DEF Small
<1>9. SizeInv'  BY <1>3, <1>5, <1>6, <1>8 DEF SizeInv, Small
<1>10. EdgeInv'  BY <1>6 DEF EdgeInv
<1>. QED  BY <1>7, <1>9, <1>10

LEMMA StartEdges ==
  ASSUME StartInv, Start
  PROVE  LooksInv' /\ SizeInv' /\ EdgeInv'
<1>1. /\ input \in Inputs /\ vertices' = <<>> /\ edges' = {} /\ phase' = "search"
  BY DEF StartInv, Start, graph
<1>2. PICK h, g : h = input.hand /\ g = normalize_red_fives(h)  OBVIOUS
<1>3. h \in [Tiles -> Nat] /\ Playable(h)  BY <1>1, <1>2, InputsPlayable
<1>4. num_tiles(h) <= 14
  <2>1. Validated(input)  BY <1>1, InputAssumption
  <2>. QED  BY <1>2, <2>1 DEF Validated, num_tiles
<1>5. Playable(g)  BY <1>2, <1>3, NormalizedPlayable
<1>6. num_tiles(g) <= 14
  <2>1. \A k \in Kinds : g[k] \in Int /\ h[k] \in Int /\ g[k] <= h[k]
    <3>1. Kinds \subseteq Tiles  BY DEF Tiles
    <3>2. \A t \in Tiles : g[t] <= h[t]  BY <1>2, <1>3, NormalizedPlayable
    <3>. QED  BY <1>3, <1>5, <3>1, <3>2 DEF Playable
  <2>2. IsFiniteSet(Kinds)  BY KindsFinite
  <2>3. SumFunctionOnSet(g, Kinds) <= SumFunctionOnSet(h, Kinds)  BY <2>1, <2>2, SumMono
  <2>4. SumFunctionOnSet(g, Kinds) \in Int
    <3>1. \A k \in Kinds : g[k] \in Int  BY <2>1
    <3>. QED  BY <2>2, <3>1, SumInt
  <2>5. SumFunctionOnSet(h, Kinds) \in Int
    <3>1. \A k \in Kinds : h[k] \in Int  BY <2>1
    <3>. QED  BY <2>2, <3>1, SumInt
  <2>6. NumGroups \in Int  BY ShapeAssumption
  <2>. QED  BY <1>4, <2>3, <2>4, <2>5, <2>6 DEF num_tiles
<1>7. PICK w : Prepare(w, h) \/ Prepare(w, g)  BY <1>2, Zenon DEF Start
<1>. QED  BY <1>1, <1>3, <1>4, <1>5, <1>6, <1>7, PrepareEdges

LEMMA IdleEdges ==
  ASSUME MoveInv, NodeInv, LooksInv, SizeInv, EdgeInv,
         given' = given, vertices' = vertices, edges' = edges, frames' = frames,
         \/ phase' = phase /\ hand_counts' = hand_counts
         \/ phase' # "search" /\ frames = <<>>
  PROVE  LooksInv' /\ SizeInv' /\ EdgeInv'
<1>1. Grows /\ vertices \in Seq(VertexRecords)  BY DEF Grows, NodeInv
<1>2. LooksInv'
  <2>1. ASSUME phase = "search", NEW i \in 1..Len(frames)  PROVE LookInv(i)'
    <3>1. LookInv(i)  BY <2>1 DEF LooksInv
    <3>. QED  BY <1>1, <2>1, <3>1, LookStays
  <2>. QED  BY <2>1 DEF LooksInv
<1>3. SizeInv'  BY DEF SizeInv, Small, Top
<1>4. \A u, t : Pending(u, t)' <=> Pending(u, t)  BY DEF Pending
<1>5. EdgeInv'  BY <1>1, <1>4, EdgesGrow
<1>. QED  BY <1>2, <1>3, <1>5

LEMMA ShallowEdges ==
  ASSUME StartInv, Shallow
  PROVE  LooksInv' /\ SizeInv' /\ EdgeInv'
<1>1. frames' = <<>> /\ vertices' = <<>> /\ edges' = {} /\ phase' # "search"
  BY DEF StartInv, Shallow, graph
<1>2. DOMAIN vertices' = {}  BY <1>1
<1>. QED  BY <1>1, <1>2 DEF LooksInv, SizeInv, EdgeInv

LEMMA EdgeStep ==
  ASSUME FivesInWall, StartInv, MoveInv, NodeInv, LooksInv, SizeInv, EdgeInv, [Next]_vars
  PROVE  LooksInv' /\ SizeInv' /\ EdgeInv'
<1>1. CASE UNCHANGED vars
  <2>1. /\ given' = given /\ vertices' = vertices /\ edges' = edges /\ frames' = frames
        /\ phase' = phase /\ hand_counts' = hand_counts
    BY <1>1 DEF vars, given
  <2>. QED  BY <2>1, IdleEdges
<1>2. CASE ReportDraw \/ ReportDiscards
  <2>1. /\ given' = given /\ vertices' = vertices /\ edges' = edges /\ frames' = frames
        /\ phase' # "search" /\ frames = <<>>
    BY <1>2 DEF ReportDraw, ReportDiscards, graph
  <2>. QED  BY <2>1, IdleEdges
<1>3. CASE Start  BY <1>3, StartEdges
<1>4. CASE Shallow  BY <1>4, ShallowEdges
<1>5. CASE DrawHit \/ DiscardHit  BY <1>5, HitEdges
<1>6. CASE DrawNew \/ DiscardNew  BY <1>6, NewEdges
<1>7. CASE DrawTile  BY <1>7, DrawTileEdges
<1>8. CASE DiscardTile  BY <1>8, DiscardTileEdges
<1>9. CASE DrawBack  BY <1>9, DrawBackEdges
<1>10. CASE DiscardBack  BY <1>10, DiscardBackEdges
<1>11. CASE Done  BY <1>11, DoneEdges
<1>12. CASE Finished  BY <1>1, <1>12 DEF Finished
<1>. QED  BY <1>1, <1>2, <1>3, <1>4, <1>5, <1>6, <1>7, <1>8, <1>9, <1>10, <1>11, <1>12 DEF Next

\* At any time every edge is a draw of one hand that another one discards, and every
\* tile that a node wants to try has its edge, unless a call is still going to try it.
THEOREM EdgesKeepUp ==
  ASSUME FivesInWall
  PROVE  Spec => [](LooksInv /\ SizeInv /\ EdgeInv)
<1>1. Init => LooksInv /\ SizeInv /\ EdgeInv
  <2>1. SUFFICES ASSUME Init PROVE LooksInv /\ SizeInv /\ EdgeInv  OBVIOUS
  <2>2. vertices = <<>> /\ edges = {} /\ frames = <<>> /\ phase # "search"  BY <2>1 DEF Init
  <2>3. DOMAIN vertices = {}  BY <2>2
  <2>. QED  BY <2>2, <2>3 DEF LooksInv, SizeInv, EdgeInv
<1>2. /\ StartInv /\ MoveInv /\ NodeInv /\ LooksInv /\ SizeInv /\ EdgeInv
      /\ [Next]_vars
      => (LooksInv /\ SizeInv /\ EdgeInv)'
  BY EdgeStep
<1>. QED  BY <1>1, <1>2, MovesCancel, CachesAnswerRight, PTL DEF Spec

\* The edges of the finished graph are draws, weighed by what there is of the tile and
\* scored if they complete the hand, whichever of the two nodes added them: EdgesAreDraws.
THEOREM EdgesAreDrawsCorrect ==
  ASSUME FivesInWall
  PROVE  Spec => []EdgesAreDraws
<1>1. EdgeInv => EdgesAreDraws  BY DEF EdgeInv, Drawn, EdgesAreDraws
<1>. QED  BY <1>1, EdgesKeepUp, PTL

\* The tries of a node, as GraphIsComplete tells draws from discards.
LEMMA TriesOf ==
  ASSUME NEW v
  PROVE  {Join(v, t) : t \in Trials(v)} =
           IF v.node = "draw_node"
           THEN {<<Key(v), <<[v.hand EXCEPT ![t] = @ + 1], v.riichi>> >> :
                   t \in {u \in Wants(v, input.tegawari, Necessary(to_merged_count(v.hand))) :
                            Total[u] > v.hand[u]}}
           ELSE {<< <<[v.hand EXCEPT ![t] = @ - 1], Declares(v, t)>>, Key(v)>> :
                   t \in {u \in Wants(v, input.shanten_down, Unnecessary(to_merged_count(v.hand))) :
                            v.hand[u] > 0}}
<1>1. CASE v.node = "draw_node"
  <2>1. Trials(v) = {u \in Wants(v, input.tegawari, Necessary(to_merged_count(v.hand))) :
                       Total[u] > v.hand[u]}
    BY <1>1 DEF Trials, Allowed, Useful, InStock
  <2>2. \A t : Join(v, t) = <<Key(v), <<[v.hand EXCEPT ![t] = @ + 1], v.riichi>> >>
    BY <1>1 DEF Join
  <2>. QED  BY <1>1, <2>1, <2>2
<1>2. CASE v.node # "draw_node"
  <2>1. Trials(v) = {u \in Wants(v, input.shanten_down, Unnecessary(to_merged_count(v.hand))) :
                       v.hand[u] > 0}
    BY <1>2 DEF Trials, Allowed, Useful, InStock
  <2>2. \A t : Join(v, t) = << <<[v.hand EXCEPT ![t] = @ - 1], Declares(v, t)>>, Key(v)>>
    BY <1>2 DEF Join
  <2>. QED  BY <1>2, <2>1, <2>2
<1>. QED  BY <1>1, <1>2

\* The finished graph has all the draws and all the discards that its hands are meant to
\* be tried with, and only those: GraphIsComplete.
THEOREM GraphIsCompleteCorrect ==
  ASSUME FivesInWall
  PROVE  Spec => []GraphIsComplete
<1>1. NodeInv /\ LooksInv /\ EdgeInv => GraphIsComplete
  <2>1. SUFFICES ASSUME NodeInv, LooksInv, EdgeInv, phase = "done", input.calc_stats
                 PROVE  GraphIsComplete
    BY DEF GraphIsComplete
  <2>2. \A u, t : ~Pending(u, t)
    <3>1. frames = <<>>  BY <2>1 DEF LooksInv
    <3>2. 1..Len(frames) = {}  BY <3>1
    <3>. QED  BY <3>2 DEF Pending
  <2>3. Range(vertices) = {vertices[u] : u \in DOMAIN vertices}  BY DEF Range
  <2>4. {Joins(e) : e \in edges} = UNION {{Join(v, t) : t \in Trials(v)} : v \in Range(vertices)}
    <3>1. ASSUME NEW e \in edges
          PROVE  \E v \in Range(vertices) : \E t \in Trials(v) : Joins(e) = Join(v, t)
      <4>1. PICK u \in DOMAIN vertices : \E t \in Trials(vertices[u]) : Joins(e) = Join(vertices[u], t)
        BY <2>1 DEF EdgeInv
      <4>. QED  BY <2>3, <4>1
    <3>2. ASSUME NEW v \in Range(vertices), NEW t \in Trials(v)
          PROVE  \E e \in edges : Joins(e) = Join(v, t)
      <4>1. PICK u \in DOMAIN vertices : v = vertices[u]  BY <2>3
      <4>2. t \in Trials(vertices[u])  BY <4>1
      <4>3. \E e \in edges : Joins(e) = Join(vertices[u], t)  BY <2>1, <2>2, <4>2 DEF EdgeInv
      <4>. QED  BY <4>1, <4>3
    <3>. QED  BY <3>1, <3>2
  <2>5. {<<Key(vertices[e.source]), Key(vertices[e.target])>> : e \in edges} = {Joins(e) : e \in edges}
    BY DEF Joins
  <2>. QED  BY <2>4, <2>5, TriesOf DEF GraphIsComplete, Key
<1>. QED  BY <1>1, EdgesKeepUp, CachesAnswerRight, PTL
=============================================================================
