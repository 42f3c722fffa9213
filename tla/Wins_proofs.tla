------------------------------ MODULE Wins_proofs ------------------------------
(***************************************************************************)
(* Theorems about the answers of ScoreCalculator::calc, for any family of  *)
(* groups and situations.  The counts of tiles on both sides are defined   *)
(* by sums over positions, in whose arbitrary order nothing may depend;    *)
(* they are brought to one form, a number of units, by lemmas on lists and *)
(* lists of lists.  Induction is by a smallest counterexample.             *)
(***************************************************************************)
EXTENDS Wins, HandSeparator_proofs

-----------------------------------------------------------------------------
(* Counting the members of lists.                                          *)

\* How many members of a list are in A.
Number(s, A) == Cardinality({i \in 1..Len(s) : s[i] \in A})

LEMMA NumberType ==
  ASSUME NEW S, NEW s \in Seq(S), NEW A
  PROVE  /\ IsFiniteSet({i \in 1..Len(s) : s[i] \in A}) /\ Number(s, A) \in Nat
<1>1. Len(s) \in Nat  OBVIOUS
<1>2. IsFiniteSet(1..Len(s))  BY <1>1, FS_Interval
<1>3. {i \in 1..Len(s) : s[i] \in A} \subseteq 1..Len(s)  OBVIOUS
<1>4. IsFiniteSet({i \in 1..Len(s) : s[i] \in A})  BY <1>2, <1>3, FS_Subset
<1>. QED  BY <1>4, FS_CardinalityType DEF Number

\* Two lists have as many as both together.
LEMMA NumberConcat ==
  ASSUME NEW S, NEW s \in Seq(S), NEW t \in Seq(S), NEW A
  PROVE  s \o t \in Seq(S) /\ Number(s \o t, A) = Number(s, A) + Number(t, A)
<1>1. PICK u \in Seq(S) : u = s \o t  BY ConcatProperties
<1>2. PICK m, n \in Nat : m = Len(s) /\ n = Len(t) /\ Len(u) = m + n  BY <1>1
<1>3. PICK B, C, D : /\ B = {i \in 1..m : s[i] \in A}
                     /\ C = {i \in 1..n : t[i] \in A}
                     /\ D = {i \in 1..m + n : u[i] \in A}
  OBVIOUS
<1>4. PICK f : f = [i \in C |-> i + m]  OBVIOUS
<1>5. PICK E : E = {f[i] : i \in C}  OBVIOUS
<1>6. /\ \A i \in 1..m : u[i] = s[i]
      /\ \A i \in 1..n : u[i + m] = t[i]
  BY <1>1, <1>2
<1>7. B \subseteq D /\ E \subseteq D
  <2>1. \A i \in B : i \in 1..m + n /\ u[i] \in A  BY <1>2, <1>3, <1>6
  <2>2. \A i \in C : f[i] = i + m /\ i + m \in 1..m + n /\ u[i + m] \in A  BY <1>2, <1>3, <1>4, <1>6
  <2>3. \A i \in C : f[i] \in D  BY <1>3, <2>2
  <2>. QED  BY <1>3, <1>5, <2>1, <2>3
<1>8. D \subseteq B \cup E
  <2>1. SUFFICES ASSUME NEW i \in D, i \notin B  PROVE i \in E  OBVIOUS
  <2>2. i \in 1..m + n /\ u[i] \in A  BY <1>3
  <2>3. ~(i <= m)  BY <1>2, <1>3, <1>6, <2>1, <2>2
  <2>4. i - m \in 1..n /\ (i - m) + m = i  BY <1>2, <2>2, <2>3
  <2>5. t[i - m] \in A  BY <1>6, <2>2, <2>4
  <2>6. i - m \in C /\ f[i - m] = i  BY <1>3, <1>4, <2>4, <2>5
  <2>. QED  BY <1>5, <2>6
<1>9. B \cap E = {}
  <2>1. \A i \in C : f[i] = i + m /\ i \in 1..n  BY <1>3, <1>4
  <2>2. \A i \in C : f[i] \notin 1..m  BY <1>2, <2>1
  <2>. QED  BY <1>3, <1>5, <2>2
<1>10. IsFiniteSet(B) /\ IsFiniteSet(C)  BY <1>2, <1>3, NumberType
<1>11. IsFiniteSet(E) /\ Cardinality(E) = Cardinality(C)
  <2>1. f \in [C -> E]  BY <1>4, <1>5
  <2>2. \A i, j \in C : f[i] = f[j] => i = j  BY <1>2, <1>3, <1>4
  <2>3. \A d \in E : \E i \in C : f[i] = d  BY <1>5
  <2>4. f \in Bijection(C, E)  BY <2>1, <2>2, <2>3 DEF Bijection, Injection, Surjection, IsInjective
  <2>5. ExistsBijection(C, E)  BY <2>4 DEF ExistsBijection
  <2>. QED  BY <1>10, <2>5, FS_Bijection
<1>12. Cardinality(D) = Cardinality(B) + Cardinality(E)
  <2>1. D = B \cup E  BY <1>7, <1>8
  <2>2. Cardinality(B \cap E) = 0  BY <1>9, FS_EmptySet
  <2>3. Cardinality(B) \in Nat /\ Cardinality(E) \in Nat  BY <1>10, <1>11, FS_CardinalityType
  <2>4. Cardinality(B \cup E) = Cardinality(B) + Cardinality(E) - Cardinality(B \cap E)
    BY <1>10, <1>11, FS_Union
  <2>. QED  BY <2>1, <2>2, <2>3, <2>4
<1>13. Number(s, A) = Cardinality(B) /\ Number(t, A) = Cardinality(C) /\ Number(u, A) = Cardinality(D)
  BY <1>1, <1>2, <1>3 DEF Number
<1>. QED  BY <1>1, <1>11, <1>12, <1>13

LEMMA NumberNone == \A A : Number(<< >>, A) = 0
<1>1. \A A : {i \in 1..Len(<< >>) : << >>[i] \in A} = {}  OBVIOUS
<1>. QED  BY <1>1, FS_EmptySet DEF Number

LEMMA NumberOne == \A x, A : Number(<<x>>, A) = IF x \in A THEN 1 ELSE 0
<1>1. TAKE x, A
<1>2. PICK s : s = <<x>>  OBVIOUS
<1>3. Len(s) = 1 /\ s[1] = x /\ 1..Len(s) = {1}  BY <1>2
<1>4. x \in A => {i \in 1..Len(s) : s[i] \in A} = {1}  BY <1>3
<1>5. x \notin A => {i \in 1..Len(s) : s[i] \in A} = {}  BY <1>3
<1>6. Cardinality({1}) = 1 /\ Cardinality({}) = 0  BY FS_EmptySet, FS_Singleton
<1>7. Number(s, A) = IF x \in A THEN 1 ELSE 0  BY <1>4, <1>5, <1>6 DEF Number
<1>. QED  BY <1>2, <1>7

-----------------------------------------------------------------------------
(* The sum of x[1] to x[n], as a number of units.                          *)
Units(x, S) == {p \in S \X Nat : 1 <= p[2] /\ p[2] <= x[p[1]]}
Upto(x, n) == Cardinality(Units(x, 1..n))

\* One summand more.
LEMMA UnitsMore ==
  ASSUME NEW S, NEW x, IsFiniteSet(Units(x, S)), NEW k, k \notin S, x[k] \in Nat
  PROVE  /\ IsFiniteSet(Units(x, S \cup {k}))
         /\ Cardinality(Units(x, S \cup {k})) = Cardinality(Units(x, S)) + x[k]
<1>1. PICK U, V : U = Units(x, S) /\ V = {k} \X (1..x[k])  OBVIOUS
<1>2. Units(x, S \cup {k}) = U \cup V
  <2>1. \A p \in Units(x, S \cup {k}) : p \in U \cup V  BY <1>1 DEF Units
  <2>2. \A p \in U \cup V : p \in Units(x, S \cup {k})  BY <1>1 DEF Units
  <2>. QED  BY <2>1, <2>2
<1>3. U \cap V = {}  BY <1>1 DEF Units
<1>4. IsFiniteSet(V) /\ Cardinality(V) = x[k]
  <2>1. IsFiniteSet(1..x[k]) /\ Cardinality(1..x[k]) = x[k]  BY FS_Interval
  <2>2. IsFiniteSet({k}) /\ Cardinality({k}) = 1  BY FS_Singleton
  <2>3. IsFiniteSet(V) /\ Cardinality(V) = Cardinality({k}) * Cardinality(1..x[k])
    BY Zenon, <1>1, <2>1, <2>2, FS_Product
  <2>4. PICK n \in Nat : n = x[k]  OBVIOUS
  <2>5. Cardinality(V) = 1 * n  BY Zenon, <2>1, <2>2, <2>3, <2>4
  <2>. QED  BY <2>3, <2>4, <2>5
<1>5. IsFiniteSet(U) /\ Cardinality(U) \in Nat  BY <1>1, FS_CardinalityType
<1>6. Cardinality(U \cap V) = 0  BY <1>3, FS_EmptySet
<1>7. IsFiniteSet(U \cup V) /\ Cardinality(U \cup V) = Cardinality(U) + Cardinality(V) - Cardinality(U \cap V)
  BY <1>4, <1>5, FS_Union
<1>8. Cardinality(U \cup V) = Cardinality(U) + x[k]
  <2>1. PICK n \in Nat : n = Cardinality(U)  BY <1>5
  <2>. QED  BY <1>4, <1>6, <1>7, <2>1
<1>. QED  BY <1>1, <1>2, <1>7, <1>8, Zenon

LEMMA UptoZero == \A x : IsFiniteSet(Units(x, 1..0)) /\ Upto(x, 0) = 0
<1>1. \A x : Units(x, 1..0) = {}  BY DEF Units
<1>. QED  BY <1>1, FS_EmptySet DEF Upto

LEMMA UptoFinite ==
  ASSUME NEW n \in Nat, NEW x, \A i \in 1..n : x[i] \in Nat
  PROVE  \A m \in 0..n : IsFiniteSet(Units(x, 1..m))
<1>. DEFINE F == {m \in Nat : m <= n /\ ~IsFiniteSet(Units(x, 1..m))}
<1>1. SUFFICES ASSUME F # {} PROVE FALSE  OBVIOUS
<1>2. F \in SUBSET Nat  OBVIOUS
<1>3. PICK m \in F : \A j \in F : m <= j
  <2>. HIDE DEF F
  <2>. QED  BY <1>1, <1>2, MinOf
<1>4. m \in Nat /\ m <= n /\ ~IsFiniteSet(Units(x, 1..m))  BY <1>3
<1>5. m # 0  BY <1>4, UptoZero
<1>6. m - 1 \in Nat /\ m - 1 <= n /\ ~(m <= m - 1)  BY <1>4, <1>5
<1>7. m - 1 \notin F
  <2>. HIDE DEF F
  <2>. QED  BY <1>3, <1>6
<1>8. IsFiniteSet(Units(x, 1..m - 1))  BY <1>6, <1>7
<1>9. m \notin 1..m - 1 /\ 1..m = (1..m - 1) \cup {m} /\ x[m] \in Nat  BY <1>4, <1>5
<1>10. IsFiniteSet(Units(x, (1..m - 1) \cup {m}))  BY <1>8, <1>9, UnitsMore
<1>. QED  BY <1>4, <1>9, <1>10

\* Upto is the sum: none of nothing, and each summand adds itself.
LEMMA UptoStep ==
  ASSUME NEW n \in Nat, n # 0, NEW x, \A i \in 1..n : x[i] \in Nat
  PROVE  Upto(x, n - 1) \in Nat /\ Upto(x, n) = Upto(x, n - 1) + x[n]
<1>1. n - 1 \in 0..n /\ n \notin 1..n - 1 /\ 1..n = (1..n - 1) \cup {n} /\ x[n] \in Nat  OBVIOUS
<1>2. IsFiniteSet(Units(x, 1..n - 1))  BY <1>1, UptoFinite
<1>3. Cardinality(Units(x, (1..n - 1) \cup {n})) = Cardinality(Units(x, 1..n - 1)) + x[n]  BY <1>1, <1>2, UnitsMore
<1>. QED  BY <1>1, <1>2, <1>3, FS_CardinalityType DEF Upto

LEMMA UptoType ==
  ASSUME NEW n \in Nat, NEW x, \A i \in 1..n : x[i] \in Nat
  PROVE  Upto(x, n) \in Nat
<1>1. IsFiniteSet(Units(x, 1..n))  BY UptoFinite
<1>. QED  BY <1>1, FS_CardinalityType DEF Upto

LEMMA UptoSame ==
  ASSUME NEW n, NEW x, NEW y, \A i \in 1..n : x[i] = y[i]
  PROVE  Upto(x, n) = Upto(y, n)
<1>1. Units(x, 1..n) = Units(y, 1..n)  BY DEF Units
<1>. QED  BY <1>1 DEF Upto

\* A sum of sums, and the sum of a list after another.
LEMMA UptoAdd ==
  ASSUME NEW n \in Nat, NEW x, NEW y, NEW z, \A i \in 1..n : x[i] \in Nat /\ y[i] \in Nat /\ z[i] = x[i] + y[i]
  PROVE  Upto(z, n) = Upto(x, n) + Upto(y, n)
<1>. DEFINE F == {m \in Nat : m <= n /\ Upto(z, m) # Upto(x, m) + Upto(y, m)}
<1>1. SUFFICES ASSUME F # {} PROVE FALSE  OBVIOUS
<1>2. F \in SUBSET Nat  OBVIOUS
<1>3. PICK m \in F : \A j \in F : m <= j
  <2>. HIDE DEF F
  <2>. QED  BY <1>1, <1>2, MinOf
<1>4. m \in Nat /\ m <= n /\ Upto(z, m) # Upto(x, m) + Upto(y, m)  BY <1>3
<1>5. m # 0  BY <1>4, UptoZero
<1>6. m - 1 \in Nat /\ m - 1 <= n /\ ~(m <= m - 1)  BY <1>4, <1>5
<1>7. m - 1 \notin F
  <2>. HIDE DEF F
  <2>. QED  BY <1>3, <1>6
<1>8. Upto(z, m - 1) = Upto(x, m - 1) + Upto(y, m - 1)  BY <1>6, <1>7
<1>9. m \in 1..n /\ \A i \in 1..m : x[i] \in Nat /\ y[i] \in Nat /\ z[i] \in Nat  BY <1>4, <1>5
<1>10. /\ Upto(x, m - 1) \in Nat /\ Upto(x, m) = Upto(x, m - 1) + x[m]
       /\ Upto(y, m - 1) \in Nat /\ Upto(y, m) = Upto(y, m - 1) + y[m]
       /\ Upto(z, m - 1) \in Nat /\ Upto(z, m) = Upto(z, m - 1) + z[m]
  BY <1>4, <1>5, <1>9, UptoStep
<1>11. x[m] \in Nat /\ y[m] \in Nat /\ z[m] = x[m] + y[m]  BY <1>9
<1>. QED  BY <1>4, <1>8, <1>10, <1>11

\* z is x and then y.
Joined(z, x, k, y, n) ==
  /\ k \in Nat /\ n \in Nat
  /\ \A i \in 1..k : x[i] \in Nat /\ z[i] = x[i]
  /\ \A i \in 1..n : y[i] \in Nat /\ z[k + i] = y[i]

LEMMA UptoConcat ==
  ASSUME NEW n, NEW k, NEW x, NEW y, NEW z, Joined(z, x, k, y, n)
  PROVE  Upto(z, k + n) = Upto(x, k) + Upto(y, n)
<1>a. /\ k \in Nat /\ n \in Nat
      /\ \A i \in 1..k : x[i] \in Nat /\ z[i] = x[i]
      /\ \A i \in 1..n : y[i] \in Nat /\ z[k + i] = y[i]
  BY DEF Joined
<1>c. k \in Nat /\ n \in Nat  BY <1>a
<1>b. \A i \in 1..k + n : z[i] \in Nat
  <2>1. TAKE i \in 1..k + n
  <2>2. CASE i <= k
    <3>1. i \in 1..k  BY <1>a, <2>2
    <3>. QED  BY <1>a, <3>1
  <2>3. CASE ~(i <= k)
    <3>1. i - k \in 1..n /\ k + (i - k) = i  BY <1>a, <2>3
    <3>. QED  BY <1>a, <3>1
  <2>. QED  BY <2>2, <2>3
<1>. DEFINE F == {m \in Nat : m <= n /\ Upto(z, k + m) # Upto(x, k) + Upto(y, m)}
<1>1. SUFFICES ASSUME F # {} PROVE FALSE  BY <1>c
<1>2. F \in SUBSET Nat  OBVIOUS
<1>3. PICK m \in F : \A j \in F : m <= j
  <2>. HIDE DEF F
  <2>. QED  BY <1>1, <1>2, MinOf
<1>4. m \in Nat /\ m <= n /\ Upto(z, k + m) # Upto(x, k) + Upto(y, m)  BY <1>3
<1>5. Upto(x, k) \in Nat /\ Upto(z, k) = Upto(x, k)  BY <1>a, UptoType, UptoSame
<1>6. m # 0
  <2>1. k + 0 = k /\ Upto(y, 0) = 0  BY UptoZero, <1>c
  <2>. QED  BY <1>4, <1>5, <2>1
<1>7. m - 1 \in Nat /\ m - 1 <= n /\ ~(m <= m - 1)  BY <1>4, <1>6, <1>c
<1>8. m - 1 \notin F
  <2>. HIDE DEF F
  <2>. QED  BY <1>3, <1>7
<1>9. Upto(z, k + (m - 1)) = Upto(x, k) + Upto(y, m - 1)  BY <1>7, <1>8
<1>10. k + m \in Nat /\ k + m # 0 /\ (k + m) - 1 = k + (m - 1) /\ m \in 1..n  BY <1>4, <1>6, <1>c
<1>11. Upto(y, m - 1) \in Nat /\ Upto(y, m) = Upto(y, m - 1) + y[m]
  <2>1. \A i \in 1..m : y[i] \in Nat  BY <1>a, <1>10
  <2>. QED  BY <1>4, <1>6, <2>1, UptoStep
<1>12. Upto(z, k + m) = Upto(z, k + (m - 1)) + z[k + m]
  <2>1. \A i \in 1..k + m : z[i] \in Nat  BY <1>b, <1>10, <1>c
  <2>. QED  BY <1>10, <2>1, UptoStep
<1>13. z[k + m] = y[m] /\ y[m] \in Nat  BY <1>a, <1>10
<1>. QED  BY <1>4, <1>5, <1>9, <1>11, <1>12, <1>13

-----------------------------------------------------------------------------
(* MapThenSumSet, over a set of pairs.                                     *)
Sums(g, f, S) == g = [T \in SUBSET S |-> IF T = {} THEN 0 ELSE f[Chosen(T)] + g[T \ {Chosen(T)}]]
Of1(R, T) == {p \in R : p[1] \in T}

\* One first component less.
LEMMA PairsLess ==
  ASSUME NEW R, IsFiniteSet(R), NEW T, NEW k \in T
  PROVE  /\ IsFiniteSet(Of1(R, T)) /\ Cardinality(Of1(R, T)) \in Nat /\ Cardinality(Of1(R, {k})) \in Nat
         /\ Cardinality(Of1(R, T)) = Cardinality(Of1(R, {k})) + Cardinality(Of1(R, T \ {k}))
<1>1. PICK U, V, W : U = Of1(R, T) /\ V = Of1(R, {k}) /\ W = Of1(R, T \ {k})  OBVIOUS
<1>2. U \subseteq R /\ V \subseteq R /\ W \subseteq R  BY <1>1 DEF Of1
<1>3. IsFiniteSet(U) /\ IsFiniteSet(V) /\ IsFiniteSet(W)  BY <1>2, FS_Subset
<1>4. U = V \cup W /\ V \cap W = {}  BY <1>1 DEF Of1
<1>5. Cardinality(V \cup W) = Cardinality(V) + Cardinality(W) - Cardinality(V \cap W)  BY <1>3, FS_Union
<1>6. Cardinality(V \cap W) = 0  BY <1>4, FS_EmptySet
<1>7. Cardinality(U) \in Nat /\ Cardinality(V) \in Nat /\ Cardinality(W) \in Nat  BY <1>3, FS_CardinalityType
<1>8. Cardinality(U) = Cardinality(V) + Cardinality(W)
  <2>1. PICK a, b \in Nat : a = Cardinality(V) /\ b = Cardinality(W)  BY <1>7
  <2>. QED  BY <1>4, <1>5, <1>6, <2>1
<1>. QED  BY <1>1, <1>3, <1>7, <1>8

\* The sum over a set, in whatever order it is taken, of how many pairs begin with each
\* of its members is the number of all the pairs.
LEMMA SumOfPairs ==
  ASSUME NEW S, IsFiniteSet(S), NEW R, IsFiniteSet(R), \A p \in R : p[1] \in S,
         NEW f, \A k \in S : f[k] = Cardinality(Of1(R, {k}))
  PROVE  /\ \E g : Sums(g, f, S)
         /\ \A h : Sums(h, f, S) => h[S] = Cardinality(R)
<1>1. PICK g : g = [T \in SUBSET S |-> Cardinality(Of1(R, T))]  OBVIOUS
<1>2. \A T : T = {} => Of1(R, T) = {}  BY DEF Of1
<1>3. ASSUME NEW T \in SUBSET S
      PROVE  g[T] = IF T = {} THEN 0 ELSE f[Chosen(T)] + g[T \ {Chosen(T)}]
  <2>1. CASE T = {}
    <3>1. g[T] = Cardinality({})  BY <1>1, <1>2, <2>1
    <3>. QED  BY <2>1, <3>1, FS_EmptySet
  <2>2. CASE T # {}
    <3>1. PICK k \in T : k = Chosen(T)  BY <2>2, ChosenIn
    <3>2. Cardinality(Of1(R, T)) = Cardinality(Of1(R, {k})) + Cardinality(Of1(R, T \ {k}))  BY <3>1, PairsLess
    <3>3. T \ {k} \in SUBSET S /\ k \in S  OBVIOUS
    <3>4. g[T] = Cardinality(Of1(R, T)) /\ g[T \ {k}] = Cardinality(Of1(R, T \ {k}))  BY <1>1, <3>3
    <3>. QED  BY <2>2, <3>1, <3>2, <3>3, <3>4
  <2>. QED  BY <2>1, <2>2
<1>4. Sums(g, f, S)
  <2>1. g = [T \in SUBSET S |-> g[T]]  BY <1>1
  <2>2. g = [T \in SUBSET S |-> IF T = {} THEN 0 ELSE f[Chosen(T)] + g[T \ {Chosen(T)}]]  BY <1>3, <2>1, Zenon
  <2>. QED  BY <2>2, Zenon DEF Sums
<1>5. SUFFICES ASSUME NEW h, Sums(h, f, S)  PROVE h[S] = Cardinality(R)  BY <1>4
<1>. DEFINE F == {n \in Nat : \E T \in SUBSET S : Cardinality(T) = n /\ h[T] # g[T]}
<1>6. F = {}
  <2>1. SUFFICES ASSUME F # {} PROVE FALSE  OBVIOUS
  <2>2. F \in SUBSET Nat  OBVIOUS
  <2>3. PICK n \in F : \A m \in F : n <= m
    <3>. HIDE DEF F
    <3>. QED  BY <2>1, <2>2, MinOf
  <2>4. PICK T \in SUBSET S : Cardinality(T) = n /\ h[T] # g[T]  BY <2>3
  <2>5. h[T] = IF T = {} THEN 0 ELSE f[Chosen(T)] + h[T \ {Chosen(T)}]  BY <1>5, Zenon DEF Sums
  <2>6. T # {}  BY <1>3, <2>4, <2>5
  <2>7. PICK k, U : k = Chosen(T) /\ U = T \ {k}  OBVIOUS
  <2>8. /\ U \in SUBSET S /\ Cardinality(T) \in Nat /\ Cardinality(U) = Cardinality(T) - 1
    BY <2>6, <2>7, Without
  <2>9. Cardinality(U) \in Nat
    <3>1. IsFiniteSet(U)  BY <2>8, FS_Subset
    <3>. QED  BY <3>1, FS_CardinalityType
  <2>10. Cardinality(U) \notin F
    <3>1. ~(n <= Cardinality(U))  BY <2>4, <2>8
    <3>. HIDE DEF F
    <3>. QED  BY <2>3, <3>1
  <2>11. h[U] = g[U]  BY <2>8, <2>9, <2>10
  <2>. QED  BY <1>3, <2>4, <2>5, <2>6, <2>7, <2>11
<1>7. h[S] = g[S]
  <2>1. Cardinality(S) \in Nat  BY FS_CardinalityType
  <2>. QED  BY <1>6, <2>1
<1>8. Of1(R, S) = R  BY DEF Of1
<1>. QED  BY <1>1, <1>5, <1>7, <1>8

LEMMA SumUpto ==
  ASSUME NEW n \in Nat, NEW f, \A i \in 1..n : f[i] \in Nat
  PROVE  /\ \E g : Sums(g, f, 1..n)
         /\ \A h : Sums(h, f, 1..n) => h[1..n] = Upto(f, n)
<1>1. PICK R : R = Units(f, 1..n)  OBVIOUS
<1>2. IsFiniteSet(R) /\ IsFiniteSet(1..n)
  <2>1. n \in 0..n /\ 1 \in Int /\ n \in Int  OBVIOUS
  <2>2. IsFiniteSet(Units(f, 1..n))  BY <2>1, UptoFinite
  <2>3. IsFiniteSet(1..n)  BY <2>1, FS_Interval
  <2>. QED  BY <1>1, <2>2, <2>3
<1>3. \A p \in R : p[1] \in 1..n  BY <1>1 DEF Units
<1>4. ASSUME NEW k \in 1..n  PROVE f[k] = Cardinality(Of1(R, {k}))
  <2>1. IsFiniteSet(Units(f, {})) /\ Units(f, {}) = {}
    <3>1. Units(f, {}) = {}  BY DEF Units
    <3>. QED  BY <3>1, FS_EmptySet
  <2>2. {} \cup {k} = {k} /\ k \notin {} /\ f[k] \in Nat  OBVIOUS
  <2>3. Cardinality(Units(f, {} \cup {k})) = Cardinality(Units(f, {})) + f[k]  BY <2>1, <2>2, UnitsMore
  <2>4. Cardinality(Units(f, {k})) = f[k]  BY <2>1, <2>2, <2>3, FS_EmptySet
  <2>5. Of1(R, {k}) = Units(f, {k})  BY <1>1 DEF Of1, Units
  <2>. QED  BY <2>4, <2>5
<1>5. PICK S : S = 1..n  OBVIOUS
<1>6. (\E g : Sums(g, f, S)) /\ \A h : Sums(h, f, S) => h[S] = Cardinality(R)
  BY <1>2, <1>3, <1>4, <1>5, SumOfPairs
<1>7. Cardinality(R) = Upto(f, n)  BY <1>1 DEF Upto
<1>. QED  BY <1>5, <1>6, <1>7

-----------------------------------------------------------------------------
(* The same counts of a list of lists, and of the flattened list.          *)

\* The sum of the values v of the members of a list.
Value(s, v) == Upto([j \in 1..Len(s) |-> v[s[j]]], Len(s))

LEMMA ValueNone == \A v : Value(<< >>, v) = 0
<1>1. TAKE v
<1>2. Len(<< >>) = 0  OBVIOUS
<1>. QED  BY <1>2, UptoZero DEF Value

LEMMA ValueOne ==
  ASSUME NEW x, NEW v, v[x] \in Nat
  PROVE  Value(<<x>>, v) = v[x]
<1>1. PICK s : s = <<x>>  OBVIOUS
<1>2. Len(s) = 1 /\ s[1] = x  BY <1>1
<1>3. PICK y : y = [j \in 1..1 |-> v[s[j]]]  OBVIOUS
<1>4. \A i \in 1..1 : y[i] \in Nat /\ y[i] = v[x]  BY <1>2, <1>3
<1>5. Upto(y, 1 - 1) \in Nat /\ Upto(y, 1) = Upto(y, 1 - 1) + y[1]  BY <1>4, UptoStep
<1>6. Upto(y, 1) = v[x]
  <2>1. 1 - 1 = 0 /\ Upto(y, 0) = 0  BY UptoZero
  <2>. QED  BY <1>4, <1>5, <2>1
<1>. QED  BY <1>1, <1>2, <1>3, <1>6 DEF Value

LEMMA ValueType ==
  ASSUME NEW S, NEW s \in Seq(S), NEW v, \A x \in S : v[x] \in Nat
  PROVE  Value(s, v) \in Nat
<1>1. PICK x : x = [j \in 1..Len(s) |-> v[s[j]]]  OBVIOUS
<1>2. Len(s) \in Nat /\ \A j \in 1..Len(s) : x[j] \in Nat  BY <1>1
<1>. QED  BY <1>1, <1>2, UptoType DEF Value

LEMMA ValueConcat ==
  ASSUME NEW S, NEW s \in Seq(S), NEW t \in Seq(S), NEW v, \A x \in S : v[x] \in Nat
  PROVE  s \o t \in Seq(S) /\ Value(s \o t, v) = Value(s, v) + Value(t, v)
<1>1. PICK u \in Seq(S) : u = s \o t  BY ConcatProperties
<1>2. PICK m, n \in Nat : m = Len(s) /\ n = Len(t) /\ Len(u) = m + n  BY <1>1
<1>3. PICK x, y, z : x = [j \in 1..m |-> v[s[j]]] /\ y = [j \in 1..n |-> v[t[j]]] /\ z = [j \in 1..m + n |-> v[u[j]]]
  OBVIOUS
<1>4. \A i \in 1..m : x[i] \in Nat /\ z[i] = x[i]
  <2>1. \A i \in 1..m : i \in 1..m + n /\ u[i] = s[i] /\ s[i] \in S  BY <1>1, <1>2
  <2>. QED  BY <1>3, <2>1
<1>5. \A i \in 1..n : y[i] \in Nat /\ z[m + i] = y[i]
  <2>1. \A i \in 1..n : m + i \in 1..m + n /\ u[m + i] = t[i] /\ t[i] \in S  BY <1>1, <1>2
  <2>. QED  BY <1>3, <2>1
<1>6. Upto(z, m + n) = Upto(x, m) + Upto(y, n)
  <2>1. Joined(z, x, m, y, n)  BY <1>2, <1>4, <1>5 DEF Joined
  <2>2. m \in Nat /\ n \in Nat  BY <1>2
  <2>. QED  BY <2>1, <2>2, UptoConcat
<1>. QED  BY <1>1, <1>2, <1>3, <1>6 DEF Value

LEMMA FlattenNone == \A Q : Len(Q) = 0 => FlattenSeq(Q) = Q
BY Zenon DEF FlattenSeq

LEMMA FlattenValue ==
  ASSUME NEW S, NEW Q \in Seq(Seq(S)), NEW v, \A y \in S : v[y] \in Nat,
         NEW x, \A i \in 1..Len(Q) : x[i] = Value(Q[i], v)
  PROVE  Value(FlattenSeq(Q), v) = Upto(x, Len(Q))
<1>1. CASE Len(Q) = 0
  <2>1. Q = << >>  BY <1>1
  <2>2. Value(FlattenSeq(Q), v) = 0  BY <1>1, <2>1, FlattenNone, ValueNone
  <2>. QED  BY <1>1, <2>2, UptoZero
<1>2. CASE Len(Q) # 0
  <2>1. PICK N \in Nat : N = Len(Q) /\ N # 0  BY <1>2
  <2>2. PICK f : Flattened(f, Q, S) /\ FlattenSeq(Q) = f[N]  BY <1>2, <2>1, FlattenPrefixes
  <2>3. /\ f[1] = Q[1] /\ \A i \in 1..N : i # 1 => f[i] = f[i-1] \o Q[i]
        /\ \A i \in 1..N : f[i] \in Seq(S) /\ Q[i] \in Seq(S) /\ x[i] = Value(Q[i], v)
    <3>1. /\ f[1] = Q[1] /\ \A i \in 1..N : i # 1 => f[i] = f[i-1] \o Q[i]
          /\ \A i \in 1..N : f[i] \in Seq(S)
      BY <2>1, <2>2, Zenon DEF Flattened
    <3>2. \A i \in 1..N : Q[i] \in Seq(S) /\ x[i] = Value(Q[i], v)  BY <2>1
    <3>. QED  BY <3>1, <3>2
  <2>4. \A i \in 1..N : x[i] \in Nat  BY <2>3, ValueType
  <2>. DEFINE F == {n \in 1..N : Value(f[n], v) # Upto(x, n)}
  <2>5. F = {}
    <3>1. SUFFICES ASSUME F # {} PROVE FALSE  OBVIOUS
    <3>2. F \in SUBSET Nat  OBVIOUS
    <3>3. PICK n \in F : \A m \in F : n <= m
      <4>. HIDE DEF F
      <4>. QED  BY <3>1, <3>2, MinOf
    <3>4. n \in 1..N /\ Value(f[n], v) # Upto(x, n)  BY <3>3
    <3>5. Upto(x, n - 1) \in Nat /\ Upto(x, n) = Upto(x, n - 1) + x[n]
      <4>1. n \in Nat /\ n # 0 /\ \A i \in 1..n : x[i] \in Nat  BY <2>4, <3>4
      <4>. QED  BY <4>1, UptoStep
    <3>6. n # 1
      <4>1. SUFFICES ASSUME n = 1 PROVE FALSE  OBVIOUS
      <4>2. Upto(x, n - 1) = 0  BY <4>1, UptoZero
      <4>3. x[n] = Value(f[n], v) /\ x[n] \in Nat  BY <2>3, <2>4, <3>4, <4>1
      <4>. QED  BY <3>4, <3>5, <4>2, <4>3
    <3>7. n - 1 \in 1..N /\ ~(n <= n - 1)  BY <2>1, <3>4, <3>6
    <3>8. n - 1 \notin F
      <4>. HIDE DEF F
      <4>. QED  BY <3>3, <3>7
    <3>9. Value(f[n - 1], v) = Upto(x, n - 1)  BY <3>7, <3>8
    <3>10. Value(f[n], v) = Value(f[n - 1], v) + Value(Q[n], v)
      <4>1. f[n] = f[n - 1] \o Q[n] /\ f[n - 1] \in Seq(S) /\ Q[n] \in Seq(S)  BY <2>3, <3>4, <3>6, <3>7
      <4>. QED  BY <4>1, ValueConcat
    <3>. QED  BY <2>3, <3>4, <3>5, <3>9, <3>10
  <2>. QED  BY <2>1, <2>2, <2>5
<1>. QED  BY <1>1, <1>2

\* A number is a sum of ones.
LEMMA NumberValue ==
  ASSUME NEW S, NEW s \in Seq(S), NEW A, NEW v, \A x \in S : v[x] = IF x \in A THEN 1 ELSE 0
  PROVE  Number(s, A) = Value(s, v)
<1>1. PICK R : R = {i \in 1..Len(s) : s[i] \in A}  OBVIOUS
<1>2. PICK n, x : n = Len(s) /\ x = [j \in 1..n |-> v[s[j]]]  OBVIOUS
<1>3. \A i \in 1..n : x[i] = IF i \in R THEN 1 ELSE 0  BY <1>1, <1>2
<1>4. PICK f : f = [i \in R |-> <<i, 1>>]  OBVIOUS
<1>5. R \subseteq 1..n  BY <1>1, <1>2
<1>6. f \in [R -> Units(x, 1..n)]
  <2>1. \A i \in R : <<i, 1>> \in Units(x, 1..n)  BY <1>3, <1>5 DEF Units
  <2>. QED  BY <1>4, <2>1
<1>7. \A i, j \in R : f[i] = f[j] => i = j  BY <1>4
<1>8. ASSUME NEW p \in Units(x, 1..n)  PROVE \E i \in R : f[i] = p
  <2>1. p \in (1..n) \X Nat /\ 1 <= p[2] /\ p[2] <= x[p[1]]  BY DEF Units
  <2>2. PICK i \in 1..n, k \in Nat : p = <<i, k>>  BY <2>1
  <2>3. 1 <= k /\ k <= x[i]  BY <2>1, <2>2
  <2>4. i \in R /\ k = 1  BY <1>3, <2>3
  <2>. QED  BY <1>4, <2>2, <2>4
<1>9. IsFiniteSet(R)  BY <1>1, NumberType
<1>10. ExistsBijection(R, Units(x, 1..n))
  <2>1. f \in Bijection(R, Units(x, 1..n))  BY <1>6, <1>7, <1>8 DEF Bijection, Injection, Surjection, IsInjective
  <2>. QED  BY <2>1 DEF ExistsBijection
<1>11. Cardinality(R) = Cardinality(Units(x, 1..n))  BY <1>9, <1>10, FS_Bijection
<1>. QED  BY <1>1, <1>2, <1>11 DEF Number, Value, Upto

LEMMA FlattenNumber ==
  ASSUME NEW S, NEW Q \in Seq(Seq(S)), NEW A, NEW x, \A i \in 1..Len(Q) : x[i] = Number(Q[i], A)
  PROVE  Number(FlattenSeq(Q), A) = Upto(x, Len(Q))
<1>1. PICK v : v = [y \in S |-> IF y \in A THEN 1 ELSE 0]  OBVIOUS
<1>2. \A y \in S : v[y] \in Nat /\ v[y] = IF y \in A THEN 1 ELSE 0  BY <1>1
<1>3. \A i \in 1..Len(Q) : Q[i] \in Seq(S)  OBVIOUS
<1>4. \A i \in 1..Len(Q) : x[i] = Value(Q[i], v)  BY <1>2, <1>3, NumberValue
<1>5. Value(FlattenSeq(Q), v) = Upto(x, Len(Q))  BY <1>2, <1>4, FlattenValue
<1>6. FlattenSeq(Q) \in Seq(S)  BY FlattenIsList
<1>. QED  BY <1>2, <1>5, <1>6, NumberValue

-----------------------------------------------------------------------------
(* Tiles.                                                                  *)

\* The codes of a kind: the kind itself, and the red five of a five.
OfKind(k) == {t \in Codes : to_normal(t) = k}

LEMMA NumberOfKind ==
  ASSUME NEW s \in Seq(Codes), NEW k
  PROVE  /\ Number(s, OfKind(k)) \in Nat
         /\ Cardinality({t \in DOMAIN s : to_normal(s[t]) = k}) = Number(s, OfKind(k))
<1>1. {t \in DOMAIN s : to_normal(s[t]) = k} = {i \in 1..Len(s) : s[i] \in OfKind(k)}
  <2>1. DOMAIN s = 1..Len(s) /\ \A i \in 1..Len(s) : s[i] \in Codes  OBVIOUS
  <2>. QED  BY <2>1 DEF OfKind
<1>. QED  BY <1>1, NumberType DEF Number

\* A hand counts a five for a red five too; a red five for itself.
LEMMA HandNumber ==
  ASSUME NEW s \in Seq(Codes)
  PROVE  /\ \A k \in Kinds : to_hand(s)[k] = Number(s, OfKind(k))
         /\ \A r \in Reds : to_hand(s)[r] = Number(s, {r})
<1>1. ASSUME NEW c \in Codes  PROVE to_hand(s)[c] = Cardinality({i \in 1..Len(s) : Counted(s[i], c)})
  BY CountsOf, HandCounts
<1>2. \A i \in 1..Len(s) : s[i] \in Codes  OBVIOUS
<1>3. ASSUME NEW k \in Kinds  PROVE to_hand(s)[k] = Number(s, OfKind(k))
  <2>1. k \in Codes  BY DEF Kinds, Codes
  <2>2. \A t \in Codes : Counted(t, k) <=> t \in OfKind(k)  BY DEF Counted, OfKind, to_normal, Codes, Kinds, Reds
  <2>3. {i \in 1..Len(s) : Counted(s[i], k)} = {i \in 1..Len(s) : s[i] \in OfKind(k)}  BY <1>2, <2>2
  <2>. QED  BY <1>1, <2>1, <2>3 DEF Number
<1>4. ASSUME NEW r \in Reds  PROVE to_hand(s)[r] = Number(s, {r})
  <2>1. r \in Codes  BY DEF Reds, Codes
  <2>2. \A t \in Codes : Counted(t, r) <=> t \in {r}  BY DEF Counted, to_normal, Codes, Reds
  <2>3. {i \in 1..Len(s) : Counted(s[i], r)} = {i \in 1..Len(s) : s[i] \in {r}}  BY <1>2, <2>2
  <2>. QED  BY <1>1, <2>1, <2>3 DEF Number
<1>. QED  BY <1>3, <1>4

-----------------------------------------------------------------------------
(* count_dora as a sum over the indicators of a sum over the melds.        *)
InMeld(player, m, k) == Cardinality({t \in DOMAIN player.melds[m].tiles : to_normal(player.melds[m].tiles[t]) = k})
MeldTiles(player, k) == MapThenSumSet(LAMBDA m : InMeld(player, m, k), DOMAIN player.melds)
MeldSums(g, player, k) ==
  g = [T \in SUBSET DOMAIN player.melds |->
         IF T = {} THEN 0 ELSE InMeld(player, Chosen(T), k) + g[T \ {Chosen(T)}]]

\* What count_dora finds of a kind in the melds.
LEMMA MeldTilesIs ==
  ASSUME NEW player, NEW S, player.melds \in Seq(S), \A m \in S : m.tiles \in Seq(Codes), NEW k,
         NEW v, \A m \in S : v[m] = Number(m.tiles, OfKind(k))
  PROVE  MeldTiles(player, k) = Value(player.melds, v)
<1>1. PICK n, x : n = Len(player.melds) /\ x = [j \in 1..n |-> v[player.melds[j]]]  OBVIOUS
<1>2. n \in Nat /\ DOMAIN player.melds = 1..n /\ \A j \in 1..n : player.melds[j] \in S  BY <1>1
<1>3. \A j \in 1..n : x[j] \in Nat /\ x[j] = InMeld(player, j, k)
  <2>1. TAKE j \in 1..n
  <2>2. player.melds[j].tiles \in Seq(Codes) /\ x[j] = Number(player.melds[j].tiles, OfKind(k))  BY <1>1, <1>2
  <2>. QED  BY <2>2, NumberOfKind DEF InMeld
<1>4. MeldTiles(player, k) = (CHOOSE g : MeldSums(g, player, k))[1..n]
  <2>1. MeldTiles(player, k) = (CHOOSE g : MeldSums(g, player, k))[DOMAIN player.melds]
    BY Zenon DEF MeldTiles, MapThenSumSet, MapThenFoldSet, MeldSums, Chosen
  <2>. QED  BY <1>2, <2>1
<1>5. \A g : MeldSums(g, player, k) <=> Sums(g, x, 1..n)
  <2>1. TAKE g
  <2>2. \A T \in SUBSET (1..n) : T # {} => InMeld(player, Chosen(T), k) = x[Chosen(T)]
    <3>1. \A T \in SUBSET (1..n) : T # {} => Chosen(T) \in 1..n  BY ChosenIn
    <3>. QED  BY <1>3, <3>1
  <2>3. [T \in SUBSET (1..n) |-> IF T = {} THEN 0 ELSE InMeld(player, Chosen(T), k) + g[T \ {Chosen(T)}]]
          = [T \in SUBSET (1..n) |-> IF T = {} THEN 0 ELSE x[Chosen(T)] + g[T \ {Chosen(T)}]]
    BY <2>2
  <2>. QED  BY <1>2, <2>3, Zenon DEF MeldSums, Sums
<1>6. (\E g : Sums(g, x, 1..n)) /\ \A h : Sums(h, x, 1..n) => h[1..n] = Upto(x, n)
  BY <1>2, <1>3, SumUpto
<1>7. PICK h : MeldSums(h, player, k) /\ h = CHOOSE g : MeldSums(g, player, k)  BY <1>5, <1>6, Zenon
<1>8. h[1..n] = Upto(x, n)  BY <1>5, <1>6, <1>7
<1>. QED  BY <1>1, <1>4, <1>7, <1>8 DEF Value

DoraOf(player, list, mode, n, i) ==
  player.hand[to_dora(list[i], mode)] + MeldTiles(player, to_dora(list[i], mode))
  + (IF to_dora(list[i], mode) = North THEN n ELSE 0)
DoraSums(g, player, list, mode, n) ==
  g = [T \in SUBSET DOMAIN list |->
         IF T = {} THEN 0 ELSE DoraOf(player, list, mode, n, Chosen(T)) + g[T \ {Chosen(T)}]]

\* count_dora, whatever it adds for each indicator.
LEMMA CountDoraIs ==
  ASSUME NEW S, NEW list \in Seq(S), NEW player, NEW mode, NEW k,
         NEW x, \A i \in 1..Len(list) : x[i] \in Nat /\ x[i] = DoraOf(player, list, mode, k, i)
  PROVE  count_dora(player, list, mode, k) = Upto(x, Len(list))
<1>1. PICK n : n = Len(list)  OBVIOUS
<1>2. n \in Nat /\ DOMAIN list = 1..n  BY <1>1
<1>3. \A j \in 1..n : x[j] \in Nat /\ x[j] = DoraOf(player, list, mode, k, j)  BY <1>1
<1>4. count_dora(player, list, mode, k) = (CHOOSE g : DoraSums(g, player, list, mode, k))[1..n]
  <2>1. count_dora(player, list, mode, k) = (CHOOSE g : DoraSums(g, player, list, mode, k))[DOMAIN list]
    BY Zenon DEF count_dora, MapThenSumSet, MapThenFoldSet, DoraSums, DoraOf, MeldTiles, InMeld, Chosen
  <2>. QED  BY <1>2, <2>1
<1>5. \A g : DoraSums(g, player, list, mode, k) <=> Sums(g, x, 1..n)
  <2>1. TAKE g
  <2>2. \A T \in SUBSET (1..n) : T # {} => DoraOf(player, list, mode, k, Chosen(T)) = x[Chosen(T)]
    <3>1. \A T \in SUBSET (1..n) : T # {} => Chosen(T) \in 1..n  BY ChosenIn
    <3>. QED  BY <1>3, <3>1
  <2>3. [T \in SUBSET (1..n) |-> IF T = {} THEN 0 ELSE DoraOf(player, list, mode, k, Chosen(T)) + g[T \ {Chosen(T)}]]
          = [T \in SUBSET (1..n) |-> IF T = {} THEN 0 ELSE x[Chosen(T)] + g[T \ {Chosen(T)}]]
    BY <2>2
  <2>. QED  BY <1>2, <2>3, Zenon DEF DoraSums, Sums
<1>6. (\E g : Sums(g, x, 1..n)) /\ \A h : Sums(h, x, 1..n) => h[1..n] = Upto(x, n)
  BY <1>2, <1>3, SumUpto
<1>7. PICK h : /\ DoraSums(h, player, list, mode, k)
               /\ h = CHOOSE g : DoraSums(g, player, list, mode, k)
  BY <1>5, <1>6, Zenon
<1>8. h[1..n] = Upto(x, n)  BY <1>5, <1>6, <1>7
<1>. QED  BY <1>1, <1>4, <1>7, <1>8

-----------------------------------------------------------------------------
(* Positions of the members of a list.                                     *)

\* The positions where a list has one of the tiles c[a], for each a.
Places(A, s, c) == {p \in A \X (1..Len(s)) : s[p[2]] \in c[p[1]]}

LEMMA PlacesFinite ==
  ASSUME NEW A, IsFiniteSet(A), NEW S, NEW s \in Seq(S), NEW c
  PROVE  /\ IsFiniteSet(Places(A, s, c)) /\ \A p \in Places(A, s, c) : p[1] \in A
<1>1. Len(s) \in Nat  OBVIOUS
<1>2. IsFiniteSet(1..Len(s))  BY <1>1, FS_Interval
<1>3. IsFiniteSet(A \X (1..Len(s)))  BY <1>2, FS_Product
<1>4. Places(A, s, c) \subseteq A \X (1..Len(s))  BY DEF Places
<1>. QED  BY <1>3, <1>4, FS_Subset

LEMMA PlacesAt ==
  ASSUME NEW A, NEW a \in A, NEW S, NEW s \in Seq(S), NEW c
  PROVE  Cardinality(Of1(Places(A, s, c), {a})) = Number(s, c[a])
<1>1. PICK B, C : B = {i \in 1..Len(s) : s[i] \in c[a]} /\ C = Of1(Places(A, s, c), {a})  OBVIOUS
<1>2. PICK f : f = [i \in B |-> <<a, i>>]  OBVIOUS
<1>3. f \in [B -> C]
  <2>1. \A i \in B : <<a, i>> \in C  BY <1>1 DEF Of1, Places
  <2>. QED  BY <1>2, <2>1
<1>4. \A i, j \in B : f[i] = f[j] => i = j  BY <1>2
<1>5. \A p \in C : \E i \in B : f[i] = p
  <2>1. TAKE p \in C
  <2>2. p \in A \X (1..Len(s)) /\ s[p[2]] \in c[p[1]] /\ p[1] = a  BY <1>1 DEF Of1, Places
  <2>3. p = <<a, p[2]>> /\ p[2] \in B  BY <1>1, <2>2
  <2>. QED  BY <1>2, <2>3
<1>6. IsFiniteSet(B)  BY <1>1, NumberType
<1>7. ExistsBijection(B, C)
  <2>1. f \in Bijection(B, C)  BY <1>3, <1>4, <1>5 DEF Bijection, Injection, Surjection, IsInjective
  <2>. QED  BY <2>1 DEF ExistsBijection
<1>. QED  BY <1>1, <1>6, <1>7, FS_Bijection DEF Number

-----------------------------------------------------------------------------
(* Red fives of a hand.                                                    *)
HandReds(h) == MapThenSumSet(LAMBDA r : h[r], Reds)

\* count_reddora adds up the red codes of the hand, its red fives.
LEMMA HandRedsIs ==
  ASSUME NEW s \in Seq(Codes)
  PROVE  HandReds(to_hand(s)) = Number(s, Reds)
<1>1. PICK h, c : h = to_hand(s) /\ c = [r \in Reds |-> {r}]  OBVIOUS
<1>2. HandReds(h) = (CHOOSE g : Sums(g, h, Reds))[Reds]
  BY Zenon DEF HandReds, MapThenSumSet, MapThenFoldSet, Sums, Chosen
<1>3. IsFiniteSet(Reds)
  <2>1. PICK l, u : l = 34 /\ u = 36 /\ l \in Int /\ u \in Int  OBVIOUS
  <2>2. IsFiniteSet(l..u)  BY <2>1, FS_Interval
  <2>. QED  BY <2>1, <2>2 DEF Reds
<1>4. PICK R : R = Places(Reds, s, c)  OBVIOUS
<1>5. IsFiniteSet(R) /\ \A p \in R : p[1] \in Reds  BY <1>3, <1>4, PlacesFinite
<1>6. \A r \in Reds : h[r] = Cardinality(Of1(R, {r}))
  <2>1. TAKE r \in Reds
  <2>2. h[r] = Number(s, {r}) /\ c[r] = {r}  BY <1>1, HandNumber
  <2>3. Cardinality(Of1(R, {r})) = Number(s, c[r])  BY <1>4, PlacesAt
  <2>. QED  BY <2>2, <2>3
<1>7. (\E g : Sums(g, h, Reds)) /\ \A g : Sums(g, h, Reds) => g[Reds] = Cardinality(R)
  BY <1>3, <1>5, <1>6, SumOfPairs
<1>8. Cardinality(R) = Number(s, Reds)
  <2>1. PICK B : B = {i \in 1..Len(s) : s[i] \in Reds}  OBVIOUS
  <2>2. PICK f : f = [i \in B |-> <<s[i], i>>]  OBVIOUS
  <2>3. f \in [B -> R]
    <3>1. \A i \in B : <<s[i], i>> \in R  BY <1>1, <1>4, <2>1 DEF Places
    <3>. QED  BY <2>2, <3>1
  <2>4. \A i, j \in B : f[i] = f[j] => i = j  BY <2>2
  <2>5. \A p \in R : \E i \in B : f[i] = p
    <3>1. TAKE p \in R
    <3>2. p \in Reds \X (1..Len(s)) /\ s[p[2]] = p[1]  BY <1>1, <1>4 DEF Places
    <3>3. p = <<s[p[2]], p[2]>> /\ p[2] \in B  BY <2>1, <3>2
    <3>. QED  BY <2>2, <3>3
  <2>6. IsFiniteSet(B)  BY <2>1, NumberType
  <2>7. ExistsBijection(B, R)
    <3>1. f \in Bijection(B, R)  BY <2>3, <2>4, <2>5 DEF Bijection, Injection, Surjection, IsInjective
    <3>. QED  BY <3>1 DEF ExistsBijection
  <2>. QED  BY <2>1, <2>6, <2>7, FS_Bijection DEF Number
<1>9. PICK g : Sums(g, h, Reds) /\ g = CHOOSE z : Sums(z, h, Reds)  BY <1>7, Zenon
<1>. QED  BY <1>1, <1>2, <1>7, <1>8, <1>9

-----------------------------------------------------------------------------
(* The tiles of groups: the concealed ones and those of the melds.         *)
All(G) == [i \in DOMAIN G |-> G[i].tiles]
Kept(G) == [i \in DOMAIN G |-> IF G[i].form \in Concealed THEN G[i].tiles ELSE << >>]
Called(G) ==
  [i \in DOMAIN G |-> IF G[i].form \in Concealed THEN << >> ELSE <<[type |-> G[i].form, tiles |-> G[i].tiles]>>]
MeldSet(G) == {[type |-> G[i].form, tiles |-> G[i].tiles] : i \in DOMAIN G}

LEMMA GroupLists ==
  ASSUME NEW N \in Nat, NEW G, DOMAIN G = 1..N, \A i \in 1..N : G[i].tiles \in Seq(Codes)
  PROVE  /\ All(G) \in Seq(Seq(Codes)) /\ Len(All(G)) = N /\ \A i \in 1..N : All(G)[i] = G[i].tiles
         /\ Kept(G) \in Seq(Seq(Codes)) /\ Len(Kept(G)) = N
         /\ Called(G) \in Seq(Seq(MeldSet(G))) /\ Len(Called(G)) = N
         /\ TilesOf(G) = FlattenSeq(All(G)) /\ TilesOf(G) \in Seq(Codes)
         /\ ConcealedTiles(G) = FlattenSeq(Kept(G)) /\ ConcealedTiles(G) \in Seq(Codes)
         /\ Melds(G) = FlattenSeq(Called(G)) /\ Melds(G) \in Seq(MeldSet(G))
         /\ \A m \in MeldSet(G) : m.tiles \in Seq(Codes)
<1>1. All(G) \in Seq(Seq(Codes)) /\ Len(All(G)) = N /\ \A i \in 1..N : All(G)[i] = G[i].tiles
  BY DEF All
<1>2. Kept(G) \in Seq(Seq(Codes)) /\ Len(Kept(G)) = N
  <2>1. << >> \in Seq(Codes)  OBVIOUS
  <2>2. \A i \in 1..N : Kept(G)[i] \in Seq(Codes)  BY <2>1 DEF Kept
  <2>3. Kept(G) = [i \in 1..N |-> Kept(G)[i]]  BY DEF Kept
  <2>. QED  BY <2>2, <2>3
<1>3. Called(G) \in Seq(Seq(MeldSet(G))) /\ Len(Called(G)) = N
  <2>1. \A i \in 1..N : [type |-> G[i].form, tiles |-> G[i].tiles] \in MeldSet(G)  BY DEF MeldSet
  <2>2. << >> \in Seq(MeldSet(G)) /\ \A m \in MeldSet(G) : <<m>> \in Seq(MeldSet(G))  OBVIOUS
  <2>3. \A i \in 1..N : Called(G)[i] \in Seq(MeldSet(G))  BY <2>1, <2>2 DEF Called
  <2>4. Called(G) = [i \in 1..N |-> Called(G)[i]]  BY DEF Called
  <2>. QED  BY <2>3, <2>4
<1>4. TilesOf(G) = FlattenSeq(All(G)) /\ ConcealedTiles(G) = FlattenSeq(Kept(G)) /\ Melds(G) = FlattenSeq(Called(G))
  BY Zenon DEF TilesOf, ConcealedTiles, Melds, All, Kept, Called
<1>5. \A m \in MeldSet(G) : m.tiles \in Seq(Codes)  BY DEF MeldSet
<1>. QED  BY <1>1, <1>2, <1>3, <1>4, <1>5, FlattenIsList

\* Every tile of the groups is concealed or in a meld.
LEMMA GroupNumbers ==
  ASSUME NEW N \in Nat, NEW G, DOMAIN G = 1..N, \A i \in 1..N : G[i].tiles \in Seq(Codes),
         NEW A, NEW v, \A m \in MeldSet(G) : v[m] = Number(m.tiles, A)
  PROVE  /\ Number(ConcealedTiles(G), A) \in Nat /\ Value(Melds(G), v) \in Nat
         /\ Number(TilesOf(G), A) = Number(ConcealedTiles(G), A) + Value(Melds(G), v)
<1>0. PICK P, K, M, S : P = All(G) /\ K = Kept(G) /\ M = Called(G) /\ S = MeldSet(G)  OBVIOUS
<1>a. /\ P \in Seq(Seq(Codes)) /\ Len(P) = N /\ K \in Seq(Seq(Codes)) /\ Len(K) = N
      /\ M \in Seq(Seq(S)) /\ Len(M) = N
      /\ TilesOf(G) = FlattenSeq(P)
      /\ ConcealedTiles(G) = FlattenSeq(K) /\ ConcealedTiles(G) \in Seq(Codes)
      /\ Melds(G) = FlattenSeq(M) /\ Melds(G) \in Seq(S)
      /\ \A m \in S : m.tiles \in Seq(Codes)
  BY <1>0, GroupLists
<1>1. PICK x, y, z : /\ x = [i \in 1..N |-> Number(K[i], A)]
                     /\ y = [i \in 1..N |-> Value(M[i], v)]
                     /\ z = [i \in 1..N |-> Number(P[i], A)]
  OBVIOUS
<1>2. \A m \in S : v[m] \in Nat
  <2>1. TAKE m \in S
  <2>2. v[m] = Number(m.tiles, A) /\ m.tiles \in Seq(Codes)  BY <1>0, <1>a
  <2>. QED  BY <2>2, NumberType
<1>3. Number(TilesOf(G), A) = Upto(z, N)
  <2>1. \A i \in 1..N : z[i] = Number(P[i], A)  BY <1>1
  <2>. QED  BY <1>a, <2>1, FlattenNumber
<1>4. Number(ConcealedTiles(G), A) = Upto(x, N)
  <2>1. K \in Seq(Seq(Codes)) /\ Len(K) = N  BY <1>a
  <2>2. \A i \in 1..Len(K) : x[i] = Number(K[i], A)  BY <1>1, <2>1
  <2>3. Number(FlattenSeq(K), A) = Upto(x, Len(K))  BY <2>1, <2>2, FlattenNumber
  <2>. QED  BY <1>a, <2>1, <2>3
<1>5. Value(Melds(G), v) = Upto(y, N)
  <2>1. \A i \in 1..N : y[i] = Value(M[i], v)  BY <1>1
  <2>. QED  BY <1>a, <1>2, <2>1, FlattenValue
<1>6. \A i \in 1..N : x[i] \in Nat /\ y[i] \in Nat /\ z[i] = x[i] + y[i]
  <2>1. TAKE i \in 1..N
  <2>2. PICK m : m = [type |-> G[i].form, tiles |-> G[i].tiles]  OBVIOUS
  <2>3. m \in S /\ v[m] = Number(G[i].tiles, A) /\ v[m] \in Nat
    <3>1. m \in MeldSet(G) /\ m.tiles = G[i].tiles  BY <2>2 DEF MeldSet
    <3>. QED  BY <1>0, <1>2, <3>1
  <2>4. P[i] = G[i].tiles  BY <1>0 DEF All
  <2>5. CASE G[i].form \in Concealed
    <3>1. K[i] = G[i].tiles /\ M[i] = << >>  BY <1>0, <2>5 DEF Kept, Called
    <3>2. x[i] = v[m] /\ y[i] = 0 /\ z[i] = v[m]  BY <1>1, <2>3, <2>4, <3>1, ValueNone
    <3>. QED  BY <2>3, <3>2
  <2>6. CASE G[i].form \notin Concealed
    <3>1. K[i] = << >> /\ M[i] = <<m>>  BY <1>0, <2>2, <2>6 DEF Kept, Called
    <3>2. x[i] = 0 /\ y[i] = v[m] /\ z[i] = v[m]  BY <1>1, <2>3, <2>4, <3>1, NumberNone, ValueOne
    <3>. QED  BY <2>3, <3>2
  <2>. QED  BY <2>5, <2>6
<1>7. Upto(z, N) = Upto(x, N) + Upto(y, N)  BY <1>6, UptoAdd
<1>8. Number(ConcealedTiles(G), A) \in Nat /\ Value(Melds(G), v) \in Nat
  BY <1>a, <1>2, NumberType, ValueType
<1>. QED  BY <1>3, <1>4, <1>5, <1>7, <1>8

-----------------------------------------------------------------------------
(* Red fives of groups: count_reddora counts melds with a red five.        *)

\* Groups as families list them.
IsGroups(G, N) ==
  /\ N \in Nat /\ DOMAIN G = 1..N
  /\ \A i \in 1..N : /\ G[i].tiles \in Seq(Codes)
                     /\ \A j, k \in DOMAIN G[i].tiles : is_red(G[i].tiles[j]) /\ is_red(G[i].tiles[k]) => j = k

HasRed(m) == \E t \in DOMAIN m.tiles : is_red(m.tiles[t])
RedMelds(player) ==
  Cardinality({m \in DOMAIN player.melds : \E t \in DOMAIN player.melds[m].tiles : is_red(player.melds[m].tiles[t])})

LEMMA OneRed ==
  ASSUME NEW s \in Seq(Codes), \A j, k \in DOMAIN s : is_red(s[j]) /\ is_red(s[k]) => j = k
  PROVE  Number(s, Reds) = IF \E t \in DOMAIN s : is_red(s[t]) THEN 1 ELSE 0
<1>1. PICK B : B = {i \in 1..Len(s) : s[i] \in Reds}  OBVIOUS
<1>2. DOMAIN s = 1..Len(s)  OBVIOUS
<1>3. Number(s, Reds) = Cardinality(B)  BY <1>1 DEF Number
<1>4. CASE \E t \in DOMAIN s : is_red(s[t])
  <2>1. PICK t \in DOMAIN s : is_red(s[t])  BY <1>4
  <2>2. B = {t}  BY <1>1, <1>2, <2>1 DEF is_red
  <2>. QED  BY <1>3, <1>4, <2>2, FS_Singleton
<1>5. CASE ~ \E t \in DOMAIN s : is_red(s[t])
  <2>1. B = {}  BY <1>1, <1>2, <1>5 DEF is_red
  <2>. QED  BY <1>3, <1>5, <2>1, FS_EmptySet
<1>. QED  BY <1>4, <1>5

LEMMA RedsOfGroups ==
  ASSUME NEW N, NEW G, IsGroups(G, N),
         NEW player, player.hand = to_hand(ConcealedTiles(G)), player.melds = Melds(G)
  PROVE  HandReds(player.hand) + RedMelds(player) = Number(TilesOf(G), Reds)
<1>1. N \in Nat /\ DOMAIN G = 1..N /\ \A i \in 1..N : G[i].tiles \in Seq(Codes)  BY DEF IsGroups
<1>2. PICK S : S = MeldSet(G)  OBVIOUS
<1>3. /\ ConcealedTiles(G) \in Seq(Codes) /\ Melds(G) \in Seq(S)
      /\ \A m \in S : m.tiles \in Seq(Codes)
  BY <1>1, <1>2, GroupLists
<1>4. PICK A, v : A = {m \in S : HasRed(m)} /\ v = [m \in S |-> IF m \in A THEN 1 ELSE 0]  OBVIOUS
<1>5. \A m \in S : v[m] = Number(m.tiles, Reds)
  <2>1. TAKE m \in S
  <2>2. PICK i \in 1..N : m = [type |-> G[i].form, tiles |-> G[i].tiles]  BY <1>1, <1>2 DEF MeldSet
  <2>3. m.tiles = G[i].tiles  BY <2>2
  <2>4. \A j, k \in DOMAIN m.tiles : is_red(m.tiles[j]) /\ is_red(m.tiles[k]) => j = k  BY <2>3 DEF IsGroups
  <2>5. Number(m.tiles, Reds) = IF HasRed(m) THEN 1 ELSE 0  BY <1>3, <2>4, OneRed DEF HasRed
  <2>. QED  BY <1>4, <2>5
<1>6. /\ Number(ConcealedTiles(G), Reds) \in Nat /\ Value(Melds(G), v) \in Nat
      /\ Number(TilesOf(G), Reds) = Number(ConcealedTiles(G), Reds) + Value(Melds(G), v)
  BY <1>1, <1>2, <1>5, GroupNumbers
<1>7. HandReds(player.hand) = Number(ConcealedTiles(G), Reds)  BY <1>3, HandRedsIs
<1>8. RedMelds(player) = Value(Melds(G), v)
  <2>1. PICK s \in Seq(S) : s = Melds(G)  BY <1>3
  <2>2. {m \in DOMAIN s : \E t \in DOMAIN s[m].tiles : is_red(s[m].tiles[t])} = {i \in 1..Len(s) : s[i] \in A}
    <3>1. DOMAIN s = 1..Len(s) /\ \A i \in 1..Len(s) : s[i] \in S  OBVIOUS
    <3>. QED  BY <1>4, <3>1 DEF HasRed
  <2>3. RedMelds(player) = Number(s, A)  BY <2>1, <2>2 DEF RedMelds, Number
  <2>4. Number(s, A) = Value(s, v)  BY <1>4, NumberValue
  <2>. QED  BY <2>1, <2>3, <2>4
<1>. QED  BY <1>6, <1>7, <1>8

-----------------------------------------------------------------------------
(* The tiles of a player, the extracted norths with them.                  *)
Norths(n) == [i \in 1..n |-> North]

LEMMA NorthsNumber ==
  ASSUME NEW n \in Nat, NEW A
  PROVE  Norths(n) \in Seq(Codes) /\ Number(Norths(n), A) = IF North \in A THEN n ELSE 0
<1>1. PICK s : s = Norths(n)  OBVIOUS
<1>2. s \in Seq(Codes) /\ Len(s) = n /\ \A i \in 1..n : s[i] = North  BY <1>1 DEF Norths, North, Codes
<1>3. CASE North \in A
  <2>1. {i \in 1..Len(s) : s[i] \in A} = 1..n  BY <1>2, <1>3
  <2>2. Cardinality(1..n) = n  BY FS_Interval
  <2>. QED  BY <1>1, <1>2, <1>3, <2>1, <2>2 DEF Number
<1>4. CASE North \notin A
  <2>1. {i \in 1..Len(s) : s[i] \in A} = {}  BY <1>2, <1>4
  <2>. QED  BY <1>1, <1>2, <1>4, <2>1, FS_EmptySet DEF Number
<1>. QED  BY <1>3, <1>4

TilesAndNorths(G, n) == TilesOf(G) \o Norths(n)

LEMMA TilesAndNorthsNumber ==
  ASSUME NEW N, NEW G, IsGroups(G, N), NEW n \in Nat, NEW A
  PROVE  /\ TilesAndNorths(G, n) \in Seq(Codes) /\ Number(TilesOf(G), A) \in Nat
         /\ Number(TilesAndNorths(G, n), A) = Number(TilesOf(G), A) + (IF North \in A THEN n ELSE 0)
<1>1. N \in Nat /\ DOMAIN G = 1..N /\ \A i \in 1..N : G[i].tiles \in Seq(Codes)  BY DEF IsGroups
<1>2. TilesOf(G) \in Seq(Codes)  BY <1>1, GroupLists
<1>3. Norths(n) \in Seq(Codes) /\ Number(Norths(n), A) = IF North \in A THEN n ELSE 0  BY NorthsNumber
<1>4. /\ TilesOf(G) \o Norths(n) \in Seq(Codes)
      /\ Number(TilesOf(G) \o Norths(n), A) = Number(TilesOf(G), A) + Number(Norths(n), A)
  BY <1>2, <1>3, NumberConcat
<1>. QED  BY <1>2, <1>3, <1>4, NumberType DEF TilesAndNorths

\* An indicator counts the tiles of its kind that the player has, norths included.
LEMMA DoraOfIs ==
  ASSUME NEW N, NEW G, IsGroups(G, N), NEW n \in Nat,
         NEW player, player.hand = to_hand(ConcealedTiles(G)), player.melds = Melds(G),
         NEW list, NEW mode, NEW i, to_dora(list[i], mode) \in Kinds
  PROVE  DoraOf(player, list, mode, n, i) = Number(TilesAndNorths(G, n), OfKind(to_dora(list[i], mode)))
<1>1. N \in Nat /\ DOMAIN G = 1..N /\ \A j \in 1..N : G[j].tiles \in Seq(Codes)  BY DEF IsGroups
<1>2. PICK S, k : S = MeldSet(G) /\ k = to_dora(list[i], mode)  OBVIOUS
<1>3. /\ ConcealedTiles(G) \in Seq(Codes) /\ Melds(G) \in Seq(S)
      /\ \A m \in S : m.tiles \in Seq(Codes)
  BY <1>1, <1>2, GroupLists
<1>4. PICK v : v = [m \in S |-> Number(m.tiles, OfKind(k))]  OBVIOUS
<1>5. \A m \in S : v[m] = Number(m.tiles, OfKind(k))  BY <1>4
<1>6. /\ Number(ConcealedTiles(G), OfKind(k)) \in Nat /\ Value(Melds(G), v) \in Nat
      /\ Number(TilesOf(G), OfKind(k)) = Number(ConcealedTiles(G), OfKind(k)) + Value(Melds(G), v)
  BY <1>1, <1>2, <1>5, GroupNumbers
<1>7. player.hand[k] = Number(ConcealedTiles(G), OfKind(k))  BY <1>2, <1>3, HandNumber
<1>8. MeldTiles(player, k) = Value(Melds(G), v)  BY <1>3, <1>5, MeldTilesIs
<1>9. North \in OfKind(k) <=> k = North  BY DEF OfKind, North, Codes, Reds, to_normal
<1>10. Number(TilesAndNorths(G, n), OfKind(k)) = Number(TilesOf(G), OfKind(k)) + (IF k = North THEN n ELSE 0)
  BY <1>9, TilesAndNorthsNumber
<1>11. DoraOf(player, list, mode, n, i) = player.hand[k] + MeldTiles(player, k) + (IF k = North THEN n ELSE 0)
  BY <1>2 DEF DoraOf
<1>. QED  BY <1>2, <1>6, <1>7, <1>8, <1>10, <1>11

-----------------------------------------------------------------------------
(* The tables list the tile that follows the indicator.                    *)

LEMMA DoraFollows ==
  ASSUME NEW i \in Codes, Sanma_ => ~is_sanma_disabled(i)
  PROVE  /\ to_dora(i, situation.rules.game_mode) = Following(i)
         /\ to_dora(i, situation.rules.game_mode) \in Kinds
<1>1. CASE Sanma_
  <2>1. i \in {0} \cup 8..33 \cup {35, 36}  BY <1>1 DEF Codes, is_sanma_disabled
  <2>2. IndicatorToDoraSanma[i + 1] = Following(i) /\ IndicatorToDoraSanma[i + 1] \in Kinds
    BY <1>1, <2>1, SMTT(60) DEF IndicatorToDoraSanma, Following, to_normal, Kinds, Reds
  <2>. QED  BY <1>1, <2>2 DEF to_dora, Sanma_
<1>2. CASE ~Sanma_
  <2>2. IndicatorToDoraYonma[i + 1] = Following(i) /\ IndicatorToDoraYonma[i + 1] \in Kinds
    BY <1>2, SMTT(60) DEF IndicatorToDoraYonma, Following, to_normal, Kinds, Reds, Codes
  <2>. QED  BY <1>2, <2>2 DEF to_dora, Sanma_
<1>. QED  BY <1>1, <1>2

-----------------------------------------------------------------------------
(* The two lists of indicators and the pairs that DoraTiles counts.        *)

\* Indicators of tiles the game is played with.
Shown(list) == list \in Seq(Codes) /\ (Sanma_ => \A i \in DOMAIN list : ~is_sanma_disabled(list[i]))
\* How many tiles each indicator of a list counts.
Hits(list, tiles) == [i \in 1..Len(list) |-> Number(tiles, OfKind(Following(list[i])))]
IndicatedPairs(shown, tiles) ==
  {p \in (DOMAIN shown) \X (DOMAIN tiles) : Following(shown[p[1]]) = to_normal(tiles[p[2]])}

LEMMA HitsType ==
  ASSUME NEW list \in Seq(Codes), NEW tiles \in Seq(Codes)
  PROVE  Len(list) \in Nat /\ \A i \in 1..Len(list) :
           Hits(list, tiles)[i] \in Nat /\ Hits(list, tiles)[i] = Number(tiles, OfKind(Following(list[i])))
<1>1. \A A : Number(tiles, A) \in Nat  BY NumberType
<1>. QED  BY <1>1 DEF Hits

LEMMA CountDoraHits ==
  ASSUME NEW N, NEW G, IsGroups(G, N), NEW n \in Nat, NEW list, Shown(list),
         NEW player, player.hand = to_hand(ConcealedTiles(G)), player.melds = Melds(G)
  PROVE  count_dora(player, list, situation.rules.game_mode, n) = Upto(Hits(list, TilesAndNorths(G, n)), Len(list))
<1>1. PICK mode, x, tiles : /\ mode = situation.rules.game_mode /\ tiles = TilesAndNorths(G, n)
                            /\ x = Hits(list, tiles)
  OBVIOUS
<1>2. list \in Seq(Codes) /\ tiles \in Seq(Codes)  BY <1>1, TilesAndNorthsNumber DEF Shown
<1>3. \A i \in 1..Len(list) : x[i] \in Nat /\ x[i] = DoraOf(player, list, mode, n, i)
  <2>1. TAKE i \in 1..Len(list)
  <2>2. list[i] \in Codes /\ (Sanma_ => ~is_sanma_disabled(list[i]))  BY <1>2 DEF Shown
  <2>3. to_dora(list[i], mode) = Following(list[i]) /\ to_dora(list[i], mode) \in Kinds
    BY <1>1, <2>2, DoraFollows
  <2>4. DoraOf(player, list, mode, n, i) = Number(tiles, OfKind(to_dora(list[i], mode)))
    BY <1>1, <2>3, DoraOfIs
  <2>5. x[i] \in Nat /\ x[i] = Number(tiles, OfKind(Following(list[i])))  BY <1>1, <1>2, HitsType
  <2>. QED  BY <2>3, <2>4, <2>5
<1>. QED  BY <1>1, <1>2, <1>3, CountDoraIs

LEMMA PairsAreHits ==
  ASSUME NEW shown \in Seq(Codes), NEW tiles \in Seq(Codes)
  PROVE  Cardinality(IndicatedPairs(shown, tiles)) = Upto(Hits(shown, tiles), Len(shown))
<1>1. PICK l, x, c : /\ l = Len(shown) /\ x = Hits(shown, tiles)
                     /\ c = [i \in 1..l |-> OfKind(Following(shown[i]))]
  OBVIOUS
<1>2. l \in Nat /\ \A i \in 1..l : x[i] \in Nat /\ x[i] = Number(tiles, c[i])
  <2>1. \A i \in 1..l : c[i] = OfKind(Following(shown[i]))  BY <1>1
  <2>. QED  BY <1>1, <2>1, HitsType
<1>3. PICK S, R : S = 1..l /\ R = Places(S, tiles, c)  OBVIOUS
<1>4. IsFiniteSet(S)
  <2>1. 1 \in Int /\ l \in Int  BY <1>2
  <2>. QED  BY <1>3, <2>1, FS_Interval
<1>5. IsFiniteSet(R) /\ \A p \in R : p[1] \in S  BY <1>3, <1>4, PlacesFinite
<1>6. \A i \in S : x[i] = Cardinality(Of1(R, {i}))
  <2>1. TAKE i \in S
  <2>2. Cardinality(Of1(R, {i})) = Number(tiles, c[i])  BY <1>3, PlacesAt
  <2>. QED  BY <1>2, <1>3, <2>2
<1>7. (\E g : Sums(g, x, S)) /\ \A g : Sums(g, x, S) => g[S] = Cardinality(R)
  BY <1>4, <1>5, <1>6, SumOfPairs
<1>8. \A g : Sums(g, x, 1..l) => g[1..l] = Upto(x, l)  BY <1>2, SumUpto
<1>9. R = IndicatedPairs(shown, tiles)
  <2>1. DOMAIN shown = S /\ DOMAIN tiles = 1..Len(tiles) /\ \A j \in 1..Len(tiles) : tiles[j] \in Codes
    BY <1>1, <1>3
  <2>2. \A i \in S, j \in 1..Len(tiles) : tiles[j] \in c[i] <=> Following(shown[i]) = to_normal(tiles[j])
    BY <1>1, <1>3, <2>1 DEF OfKind
  <2>3. \A p \in S \X (1..Len(tiles)) : tiles[p[2]] \in c[p[1]] <=> Following(shown[p[1]]) = to_normal(tiles[p[2]])
    BY <2>2
  <2>. QED  BY <1>3, <2>1, <2>3 DEF Places, IndicatedPairs
<1>. QED  BY <1>1, <1>3, <1>7, <1>8, <1>9

LEMMA BothLists ==
  ASSUME NEW a \in Seq(Codes), NEW b \in Seq(Codes), NEW tiles \in Seq(Codes)
  PROVE  Cardinality(IndicatedPairs(a \o b, tiles))
           = Upto(Hits(a, tiles), Len(a)) + Upto(Hits(b, tiles), Len(b))
<1>1. PICK u \in Seq(Codes) : u = a \o b  BY ConcatProperties
<1>2. PICK m, n \in Nat : m = Len(a) /\ n = Len(b) /\ Len(u) = m + n  BY <1>1
<1>3. PICK x, y, z : x = Hits(a, tiles) /\ y = Hits(b, tiles) /\ z = Hits(u, tiles)  OBVIOUS
<1>4. /\ \A i \in 1..m : x[i] \in Nat /\ x[i] = Number(tiles, OfKind(Following(a[i])))
      /\ \A i \in 1..n : y[i] \in Nat /\ y[i] = Number(tiles, OfKind(Following(b[i])))
      /\ \A i \in 1..m + n : z[i] = Number(tiles, OfKind(Following(u[i])))
  BY <1>2, <1>3, HitsType
<1>5. \A i \in 1..m : x[i] \in Nat /\ z[i] = x[i]
  <2>1. \A i \in 1..m : i \in 1..m + n /\ u[i] = a[i]  BY <1>1, <1>2
  <2>. QED  BY <1>4, <2>1
<1>6. \A i \in 1..n : y[i] \in Nat /\ z[m + i] = y[i]
  <2>1. \A i \in 1..n : m + i \in 1..m + n /\ u[m + i] = b[i]  BY <1>1, <1>2
  <2>. QED  BY <1>4, <2>1
<1>7. Upto(z, m + n) = Upto(x, m) + Upto(y, n)
  <2>1. Joined(z, x, m, y, n)  BY <1>2, <1>5, <1>6 DEF Joined
  <2>. QED  BY <2>1, UptoConcat
<1>8. Cardinality(IndicatedPairs(u, tiles)) = Upto(z, m + n)  BY <1>2, <1>3, PairsAreHits
<1>. QED  BY <1>1, <1>2, <1>3, <1>7, <1>8

-----------------------------------------------------------------------------
(* The invariant: an answer is that for the hand and the situation.        *)
WinInv ==
  /\ family \in Families
  /\ chosen \in Seq(DOMAIN family.groups)
  /\ situation \in family.situations
  /\ result # {} => result = calc(situation, ThePlayer, win_tile, situation.win_flag)

LEMMA SituatedIn == ASSUME NEW f \in Families  PROVE Situated(f) \in f.situations
BY FamilyAssumption DEF FamilyAssumption, Situated

LEMMA WinInit == Init => WinInv
<1>1. SUFFICES ASSUME Init PROVE WinInv  OBVIOUS
<1>2. Situated(family) \in family.situations  BY <1>1, SituatedIn DEF Init
<1>. QED  BY <1>1, <1>2 DEF Init, WinInv

LEMMA WinStep == WinInv /\ [Next]_vars => WinInv'
<1>1. SUFFICES ASSUME WinInv, [Next]_vars PROVE WinInv'  OBVIOUS
<1>. USE <1>1 DEF WinInv
<1>2. ASSUME NEW i \in DOMAIN family.groups, Collect(i)  PROVE WinInv'
  <2>1. result' = {} /\ family' = family /\ situation' = situation /\ chosen' = Append(chosen, i)
    BY <1>2 DEF Collect
  <2>. QED  BY <2>1
<1>3. ASSUME NEW s \in family.situations, NEW t, Win(s, t)  PROVE WinInv'
  <2>1. /\ result' = calc(s, Player(ChosenGroups, s), t, s.win_flag) /\ situation' = s /\ win_tile' = t
        /\ family' = family /\ chosen' = chosen
    BY <1>3 DEF Win
  <2>2. ThePlayer' = Player(ChosenGroups, s)  BY <2>1 DEF ThePlayer, ChosenGroups
  <2>3. calc(s, Player(ChosenGroups, s), t, s.win_flag) = calc(situation, ThePlayer, win_tile, situation.win_flag)'
    BY <2>1, <2>2
  <2>. QED  BY <2>1, <2>3
<1>4. CASE NextHand
  <2>1. result' = {} /\ family' = family /\ situation' = Situated(family) /\ chosen' = << >>
    BY <1>4 DEF NextHand
  <2>. QED  BY <2>1, SituatedIn
<1>5. CASE UNCHANGED vars
  <2>1. /\ family' = family /\ chosen' = chosen /\ situation' = situation /\ win_tile' = win_tile
        /\ result' = result
    BY <1>5 DEF vars
  <2>2. ThePlayer' = ThePlayer  BY <2>1 DEF ThePlayer, ChosenGroups
  <2>. QED  BY <2>1, <2>2
<1>. QED  BY <1>1, <1>2, <1>3, <1>4, <1>5 DEF Next

-----------------------------------------------------------------------------
(* What the assumption on the families gives in a state of the model.      *)

LEMMA ChosenAreGroups == WinInv => IsGroups(ChosenGroups, Len(chosen))
<1>1. SUFFICES ASSUME WinInv PROVE IsGroups(ChosenGroups, Len(chosen))  OBVIOUS
<1>2. PICK N \in Nat : N = Len(chosen) /\ DOMAIN chosen = 1..N /\ \A i \in 1..N : chosen[i] \in DOMAIN family.groups
  BY <1>1 DEF WinInv
<1>3. DOMAIN ChosenGroups = 1..N /\ \A i \in 1..N : ChosenGroups[i] = family.groups[chosen[i]]
  BY <1>2 DEF ChosenGroups
<1>4. \A i \in DOMAIN family.groups :
        /\ family.groups[i].tiles \in Seq(Codes)
        /\ \A j, k \in DOMAIN family.groups[i].tiles :
             is_red(family.groups[i].tiles[j]) /\ is_red(family.groups[i].tiles[k]) => j = k
  BY <1>1, FamilyAssumption DEF FamilyAssumption, WinInv
<1>. QED  BY <1>2, <1>3, <1>4 DEF IsGroups

LEMMA SituationIsSound ==
  WinInv => /\ nuki_count(situation, ThePlayer) \in Nat
            /\ Shown(situation.table.dora_indicators) /\ Shown(situation.table.uradora_indicators)
<1>1. SUFFICES ASSUME WinInv
               PROVE /\ nuki_count(situation, ThePlayer) \in Nat
                     /\ Shown(situation.table.dora_indicators) /\ Shown(situation.table.uradora_indicators)
  OBVIOUS
<1>2. /\ situation.nuki_count \in Nat
      /\ \A list \in {situation.table.dora_indicators, situation.table.uradora_indicators} :
           /\ list \in Seq(Codes)
           /\ situation.rules.game_mode = Sanma => \A i \in DOMAIN list : ~is_sanma_disabled(list[i])
  BY <1>1, FamilyAssumption DEF FamilyAssumption, WinInv
<1>3. ThePlayer.nuki_count = situation.nuki_count  BY DEF ThePlayer, Player
<1>. QED  BY <1>2, <1>3 DEF Shown, Sanma_, nuki_count

\* The dora of a player are those of the player's tiles.
LEMMA BonusIsDora == WinInv => Bonus(situation, ThePlayer) = DoraTiles
<1>1. SUFFICES ASSUME WinInv PROVE Bonus(situation, ThePlayer) = DoraTiles  OBVIOUS
<1>2. PICK G, N, n, player, a, b, tiles :
        /\ G = ChosenGroups /\ N = Len(chosen) /\ n = nuki_count(situation, ThePlayer) /\ player = ThePlayer
        /\ a = situation.table.dora_indicators /\ b = situation.table.uradora_indicators
        /\ tiles = TilesAndNorths(G, n)
  OBVIOUS
<1>3. IsGroups(G, N) /\ n \in Nat /\ Shown(a) /\ Shown(b)  BY <1>1, <1>2, ChosenAreGroups, SituationIsSound
<1>4. player.hand = to_hand(ConcealedTiles(G)) /\ player.melds = Melds(G)  BY <1>2 DEF ThePlayer, Player
<1>5. \A A : /\ tiles \in Seq(Codes) /\ Number(TilesOf(G), A) \in Nat
             /\ Number(tiles, A) = Number(TilesOf(G), A) + (IF North \in A THEN n ELSE 0)
  BY <1>2, <1>3, TilesAndNorthsNumber
<1>6. PICK c, d : c = Upto(Hits(a, tiles), Len(a)) /\ d = Upto(Hits(b, tiles), Len(b))  OBVIOUS
<1>7. /\ count_dora(player, a, situation.rules.game_mode, n) = c
      /\ count_dora(player, b, situation.rules.game_mode, n) = d
  BY <1>2, <1>3, <1>4, <1>6, CountDoraHits
<1>8. Cardinality(IndicatedPairs(a \o b, tiles)) = c + d
  <2>1. a \in Seq(Codes) /\ b \in Seq(Codes)  BY <1>3 DEF Shown
  <2>. QED  BY <1>5, <1>6, <2>1, BothLists
<1>9. PICK red : red = Number(tiles, Reds)  OBVIOUS
<1>10. count_reddora(situation.rules.red_dora, player) = IF situation.rules.red_dora THEN red ELSE 0
  <2>1. HandReds(player.hand) + RedMelds(player) = Number(TilesOf(G), Reds)  BY <1>3, <1>4, RedsOfGroups
  <2>2. red = Number(TilesOf(G), Reds)
    <3>1. North \notin Reds  BY DEF North, Reds
    <3>. QED  BY <1>5, <1>9, <3>1
  <2>3. count_reddora(situation.rules.red_dora, player)
          = IF ~situation.rules.red_dora THEN 0 ELSE HandReds(player.hand) + RedMelds(player)
    BY Zenon DEF count_reddora, HandReds, RedMelds
  <2>. QED  BY <2>1, <2>2, <2>3
<1>11. Cardinality({j \in DOMAIN tiles : is_red(tiles[j])}) = red
  <2>1. {j \in DOMAIN tiles : is_red(tiles[j])} = {i \in 1..Len(tiles) : tiles[i] \in Reds}  BY <1>5 DEF is_red
  <2>. QED  BY <1>9, <2>1 DEF Number
<1>12. Bonus(situation, ThePlayer) = c + d + (IF situation.rules.red_dora THEN red ELSE 0) + n
  BY <1>2, <1>7, <1>10 DEF Bonus
<1>13. DoraTiles = Cardinality(IndicatedPairs(a \o b, tiles))
                   + (IF situation.rules.red_dora THEN Cardinality({j \in DOMAIN tiles : is_red(tiles[j])}) ELSE 0) + n
  BY <1>2, Zenon DEF DoraTiles, IndicatedPairs, TilesAndNorths, Norths
<1>. QED  BY <1>8, <1>11, <1>12, <1>13

\* What an answer says, unless it is limited by a yakuman or a mangan.
LEMMA AnswerHan ==
  ASSUME NEW s, NEW player, NEW w, NEW flags, NEW r \in calc(s, player, w, flags), r.success,
         r.yaku \cap (YakumanMask \cup {"NagashiMangan"}) = {}
  PROVE  r.han = HanOf(r.yaku, is_closed(player)) + Bonus(s, player)
<1>1. \A e : NoWin(e).success = FALSE  BY DEF NoWin
<1>2. r \in calc_fast(s, player, w, flags, WinningForms(player))
  <2>1. PICK c : c = calc(s, player, w, flags)  OBVIOUS
  <2>2. c \in {{NoWin("arguments")}, {NoWin("The hand is not winning form.")},
               calc_fast(s, player, w, flags, WinningForms(player))}
    BY <2>1, Zenon DEF calc
  <2>3. r \notin {NoWin("arguments")} /\ r \notin {NoWin("The hand is not winning form.")}  BY <1>1
  <2>. QED  BY <2>1, <2>2, <2>3
<1>3. PICK yaku, reading :
        /\ yaku = check_not_pattern_yaku(s.rules, s.round, player, w, flags, WinningForms(player))
        /\ reading = check_pattern_yaku(s.round, player, w, flags, WinningForms(player))
  OBVIOUS
<1>4. PICK c : c = calc_fast(s, player, w, flags, WinningForms(player))  OBVIOUS
<1>5. c = IF "NagashiMangan" \in yaku THEN aggregate_limit(s, player, flags, {"NagashiMangan"})
          ELSE IF yaku \cap YakumanMask # {} THEN aggregate_limit(s, player, flags, yaku \cap YakumanMask)
          ELSE IF yaku \cup reading.yaku = {} THEN {NoWin("No yaku is established.")}
          ELSE aggregate(s, player, flags, yaku \cup reading.yaku, reading)
  BY <1>3, <1>4, Zenon DEF calc_fast
<1>6. \A list : r \in aggregate_limit(s, player, flags, list) => r.yaku = list
  <2>1. TAKE list
  <2>2. PICK P : P = calc_score(is_dealer(player), "NagashiMangan" \in list \/ "Tsumo" \in flags, s.round.honba,
                                s.table.kyotaku, s.rules.game_mode,
                                IF "NagashiMangan" \in list THEN Mangan
                                ELSE title_of_yakuman(MapThenSumSet(LAMBDA y : YakumanMultiplier[y], list)), 0, 0)
    OBVIOUS
  <2>3. aggregate_limit(s, player, flags, list)
          = {[success |-> TRUE, yaku |-> list, han |-> 0, fu |-> 0,
              score_limit |-> IF "NagashiMangan" \in list THEN Mangan
                              ELSE title_of_yakuman(MapThenSumSet(LAMBDA y : YakumanMultiplier[y], list)),
              payments |-> p, blocks |-> << >>, wait_type |-> "None"] : p \in P}
    BY <2>2, Zenon DEF aggregate_limit
  <2>4. PICK title : title = IF "NagashiMangan" \in list THEN Mangan
                            ELSE title_of_yakuman(MapThenSumSet(LAMBDA y : YakumanMultiplier[y], list))
    OBVIOUS
  <2>5. aggregate_limit(s, player, flags, list)
          = {[success |-> TRUE, yaku |-> list, han |-> 0, fu |-> 0, score_limit |-> title,
              payments |-> p, blocks |-> << >>, wait_type |-> "None"] : p \in P}
    BY <2>3, <2>4, Zenon
  <2>6. \A p : [success |-> TRUE, yaku |-> list, han |-> 0, fu |-> 0, score_limit |-> title,
                payments |-> p, blocks |-> << >>, wait_type |-> "None"].yaku = list
    OBVIOUS
  <2>. QED  BY <2>5, <2>6
<1>7. r \notin {NoWin("No yaku is established.")}  BY <1>1
<1>8. r \in aggregate(s, player, flags, yaku \cup reading.yaku, reading)
  <2>1. r \in c  BY <1>2, <1>4
  <2>2. ~("NagashiMangan" \in yaku)
    <3>1. SUFFICES ASSUME "NagashiMangan" \in yaku PROVE FALSE  OBVIOUS
    <3>2. r.yaku = {"NagashiMangan"}  BY <1>5, <1>6, <2>1, <3>1
    <3>. QED  BY <3>2
  <2>3. yaku \cap YakumanMask = {}
    <3>1. SUFFICES ASSUME yaku \cap YakumanMask # {} PROVE FALSE  OBVIOUS
    <3>2. r.yaku = yaku \cap YakumanMask  BY <1>5, <1>6, <2>1, <2>2, <3>1
    <3>. QED  BY <3>1, <3>2
  <2>. QED  BY <1>5, <1>7, <2>1, <2>2, <2>3
<1>9. \A list : r \in aggregate(s, player, flags, list, reading) =>
                  r.yaku = list /\ r.han = HanOf(list, is_closed(player)) + Bonus(s, player)
  BY DEF aggregate
<1>. QED  BY <1>8, <1>9

\* For any families and any win: aggregate adds to the han of the yaku the dora of the
\* player's tiles, each counted once for every indicator that points at it, for being a
\* red five and for being an extracted north, though hand and melds are counted apart,
\* the hand by its codes, in which a red five occurs twice, and the melds by their tiles.
THEOREM EveryDoraCountsCorrect == Spec => []EveryDoraCounts
<1>1. WinInv => EveryDoraCounts
  <2>1. SUFFICES ASSUME WinInv, NEW r \in Wins, r.yaku \cap (YakumanMask \cup {"NagashiMangan"}) = {}
                 PROVE r.han = HanOf(r.yaku, is_closed(ThePlayer)) + DoraTiles
    BY DEF EveryDoraCounts
  <2>2. r \in result /\ r.success  BY DEF Wins
  <2>3. r \in calc(situation, ThePlayer, win_tile, situation.win_flag)  BY <2>1, <2>2 DEF WinInv
  <2>4. r.han = HanOf(r.yaku, is_closed(ThePlayer)) + Bonus(situation, ThePlayer)  BY <2>1, <2>2, <2>3, AnswerHan
  <2>. QED  BY <2>1, <2>4, BonusIsDora
<1>. QED  BY <1>1, WinInit, WinStep, PTL DEF Spec

=============================================================================
