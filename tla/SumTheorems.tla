---------------------------- MODULE SumTheorems ----------------------------
(***************************************************************************)
(* What SumFunctionOnSet of the community modules computes for a function  *)
(* with integer values on a finite set.  The supply counter, the value of  *)
(* a set of coins and the coin-day counter are such sums.                  *)
(*                                                                         *)
(* The library folds over the set in an order it CHOOSEs.  UnitSum is the  *)
(* same number without an order, as a cardinality: the units that the      *)
(* positive values count, minus those that the negative ones owe.          *)
(***************************************************************************)
EXTENDS Integers, FiniteSets, Functions, FiniteSetTheorems, TLAPS

Row(x, n) == {u \in {x} \X Nat : 0 < u[2] /\ u[2] <= n}
Units(f, S) == {u \in S \X Nat : 0 < u[2] /\ u[2] <= f[u[1]]}
Debts(f, S) == {u \in S \X Nat : 0 < u[2] /\ u[2] <= -f[u[1]]}
UnitSum(f, S) == Cardinality(Units(f, S)) - Cardinality(Debts(f, S))

---------------------------------------------------------------------------
\* A nonempty set of naturals has a least element.
LEMMA LeastNatural ==
  ASSUME NEW S, S \subseteq Nat, S # {}
  PROVE  \E x \in S : \A y \in S : x <= y
<1>1. PICK x \in S : \A y \in S : <<y, x>> \notin OpToRel(<, Nat)
  BY NatLessThanWellFounded, WFMin
<1>2. ASSUME NEW y \in S PROVE x <= y
  <2>1. <<y, x>> \in Nat \X Nat
    OBVIOUS
  <2>2. ~(y < x)
    BY <1>1, <2>1 DEF OpToRel
  <2> QED
    BY <2>2
<1> QED
  BY <1>2

\* What one index contributes is finite and as many as its value.
LEMMA UnitsOfOne ==
  ASSUME NEW x, NEW n \in Int
  PROVE  IsFiniteSet(Row(x, n)) /\ Cardinality(Row(x, n)) = IF n > 0 THEN n ELSE 0
<1>1. Row(x, n) = {x} \X (1..n)
  BY DEF Row
<1>2. IsFiniteSet(1..n) /\ Cardinality(1..n) = IF n > 0 THEN n ELSE 0
  BY FS_Interval
<1>3. IsFiniteSet({x}) /\ Cardinality({x}) = 1
  BY FS_Singleton
<1>4. IsFiniteSet(Row(x, n)) /\ Cardinality(Row(x, n)) = 1 * Cardinality(1..n)
  BY <1>1, <1>2, <1>3, FS_Product
<1> QED
  BY <1>2, <1>4

\* Finitely many indices have finitely many units.
LEMMA UnitsFinite ==
  ASSUME NEW f, NEW S, IsFiniteSet(S), \A x \in S : f[x] \in Int
  PROVE  IsFiniteSet(Units(f, S)) /\ IsFiniteSet(Debts(f, S))
<1>1. ASSUME NEW g, \A x \in S : g[x] \in Int
      PROVE  IsFiniteSet({u \in S \X Nat : 0 < u[2] /\ u[2] <= g[u[1]]})
  <2> DEFINE rows == [x \in S |-> Row(x, g[x])]
             all == {Row(x, g[x]) : x \in S}
  <2>1. ASSUME NEW x \in S PROVE IsFiniteSet(Row(x, g[x]))
    BY <1>1, UnitsOfOne
  <2>2. rows \in Surjection(S, all)
    BY DEF Surjection
  <2>3. IsFiniteSet(all)
    BY <2>2, FS_Surjection
  <2>4. \A T \in all : IsFiniteSet(T)
    BY <2>1
  <2>5. IsFiniteSet(UNION all)
    BY <2>3, <2>4, FS_UNION
  <2>6. UNION all = {u \in S \X Nat : 0 < u[2] /\ u[2] <= g[u[1]]}
    BY DEF Row
  <2> QED
    BY <2>5, <2>6
<1>2. IsFiniteSet(Units(f, S))
  BY <1>1 DEF Units
<1>3. IsFiniteSet(Debts(f, S))
  <2> DEFINE g == [x \in S |-> -f[x]]
  <2>1. \A x \in S : g[x] \in Int
    OBVIOUS
  <2>2. IsFiniteSet({u \in S \X Nat : 0 < u[2] /\ u[2] <= g[u[1]]})
    BY <1>1, <2>1
  <2>3. {u \in S \X Nat : 0 < u[2] /\ u[2] <= g[u[1]]} = Debts(f, S)
    BY DEF Debts
  <2> QED
    BY <2>2, <2>3
<1> QED
  BY <1>2, <1>3

\* Two finite sets without a common element.
LEMMA DisjointCardinality ==
  ASSUME NEW A, NEW B, IsFiniteSet(A), IsFiniteSet(B), A \cap B = {}
  PROVE  Cardinality(A \cup B) = Cardinality(A) + Cardinality(B)
<1>1. Cardinality(A) \in Nat /\ Cardinality(B) \in Nat
  BY FS_CardinalityType
<1>2. Cardinality(A \cup B) = Cardinality(A) + Cardinality(B) - Cardinality({})
  BY FS_Union
<1>3. Cardinality({}) = 0
  BY FS_EmptySet
<1> QED
  BY <1>1, <1>2, <1>3

\* Units of disjoint sets of indices add up.
LEMMA UnitSumOfUnion ==
  ASSUME NEW f, NEW S, NEW T, IsFiniteSet(S), IsFiniteSet(T), S \cap T = {},
         \A x \in S \cup T : f[x] \in Int
  PROVE  /\ UnitSum(f, S \cup T) = UnitSum(f, S) + UnitSum(f, T)
         /\ UnitSum(f, S) \in Int
<1>1. /\ Units(f, S \cup T) = Units(f, S) \cup Units(f, T)
      /\ Units(f, S) \cap Units(f, T) = {}
  BY DEF Units
<1>2. /\ Debts(f, S \cup T) = Debts(f, S) \cup Debts(f, T)
      /\ Debts(f, S) \cap Debts(f, T) = {}
  BY DEF Debts
<1>3. /\ IsFiniteSet(Units(f, S)) /\ IsFiniteSet(Debts(f, S))
      /\ IsFiniteSet(Units(f, T)) /\ IsFiniteSet(Debts(f, T))
  BY UnitsFinite
<1>4. /\ Cardinality(Units(f, S)) \in Nat /\ Cardinality(Units(f, T)) \in Nat
      /\ Cardinality(Debts(f, S)) \in Nat /\ Cardinality(Debts(f, T)) \in Nat
  BY <1>3, FS_CardinalityType
<1>5. Cardinality(Units(f, S \cup T)) = Cardinality(Units(f, S)) + Cardinality(Units(f, T))
  BY <1>1, <1>3, DisjointCardinality
<1>6. Cardinality(Debts(f, S \cup T)) = Cardinality(Debts(f, S)) + Cardinality(Debts(f, T))
  BY <1>2, <1>3, DisjointCardinality
<1> QED
  BY <1>4, <1>5, <1>6 DEF UnitSum

\* No index counts for nothing.
LEMMA UnitSumOfNone == ASSUME NEW f PROVE UnitSum(f, {}) = 0
<1>1. Units(f, {}) = {} /\ Debts(f, {}) = {}
  BY DEF Units, Debts
<1>2. Cardinality({}) = 0
  BY FS_EmptySet
<1> QED
  BY <1>1, <1>2 DEF UnitSum

\* One index counts for its value.
LEMMA UnitSumOfOne ==
  ASSUME NEW f, NEW x, f[x] \in Int
  PROVE  UnitSum(f, {x}) = f[x]
<1>1. Units(f, {x}) = Row(x, f[x])
  BY DEF Units, Row
<1>2. Debts(f, {x}) = Row(x, -f[x])
  BY DEF Debts, Row
<1>3. Cardinality(Units(f, {x})) = IF f[x] > 0 THEN f[x] ELSE 0
  BY <1>1, UnitsOfOne
<1>4. -f[x] \in Int
  OBVIOUS
<1>5. Cardinality(Debts(f, {x})) = IF -f[x] > 0 THEN -f[x] ELSE 0
  BY <1>2, <1>4, UnitsOfOne
<1> QED
  BY <1>3, <1>5 DEF UnitSum

---------------------------------------------------------------------------
\* The library's fold is that number, whatever order it takes the set in.
LEMMA SumIsUnitSum ==
  ASSUME NEW f, NEW S, IsFiniteSet(S), \A x \in S : f[x] \in Int
  PROVE  SumFunctionOnSet(f, S) = UnitSum(f, S)
<1> DEFINE first(s) == CHOOSE x \in s : TRUE
           Folds(g) == g = [s \in SUBSET S |->
                              IF s = {} THEN 0 ELSE f[first(s)] + g[s \ {first(s)}]]
           fold == CHOOSE g : Folds(g)
<1>1. SumFunctionOnSet(f, S) = fold[S]
  BY DEF SumFunctionOnSet, FoldFunctionOnSet, MapThenFoldSet
<1>2. ASSUME NEW s \in SUBSET S, s # {}
      PROVE  /\ first(s) \in s /\ s \ {first(s)} \in SUBSET S
             /\ UnitSum(f, s) = f[first(s)] + UnitSum(f, s \ {first(s)})
             /\ UnitSum(f, s \ {first(s)}) \in Int
             /\ IsFiniteSet(s) /\ Cardinality(s) \in Nat
             /\ Cardinality(s \ {first(s)}) = Cardinality(s) - 1
  <2>1. first(s) \in s
    BY <1>2
  <2> DEFINE x == first(s)
             rest == s \ {x}
  <2> HIDE DEF first
  <2>2. IsFiniteSet(s) /\ IsFiniteSet(rest) /\ IsFiniteSet({x}) /\ Cardinality(s) \in Nat
    BY FS_Subset, FS_RemoveElement, FS_Singleton, FS_CardinalityType
  <2>3. rest \cup {x} = s /\ rest \cap {x} = {} /\ rest \in SUBSET S
    BY <2>1
  <2>4. \A y \in rest \cup {x} : f[y] \in Int
    BY <2>3
  <2>5. UnitSum(f, rest \cup {x}) = UnitSum(f, rest) + UnitSum(f, {x}) /\ UnitSum(f, rest) \in Int
    BY <2>2, <2>3, <2>4, UnitSumOfUnion
  <2>6. f[x] \in Int /\ UnitSum(f, {x}) = f[x]
    BY <2>4, UnitSumOfOne
  <2>7. Cardinality(rest) = Cardinality(s) - 1
    BY <2>1, <2>2, FS_RemoveElement
  <2>8. UnitSum(f, s) = f[x] + UnitSum(f, rest)
    <3> HIDE DEF rest, x
    <3>1. UnitSum(f, s) = UnitSum(f, rest) + UnitSum(f, {x})
      BY <2>3, <2>5
    <3> QED
      BY <3>1, <2>5, <2>6
  <2> QED
    BY <2>1, <2>2, <2>3, <2>5, <2>7, <2>8
<1>3. UnitSum(f, {}) = 0
  BY UnitSumOfNone
<1> HIDE DEF first
<1>4. Folds([s \in SUBSET S |-> UnitSum(f, s)])
  <2> DEFINE g == [s \in SUBSET S |-> UnitSum(f, s)]
  <2>1. ASSUME NEW s \in SUBSET S
        PROVE  UnitSum(f, s) = IF s = {} THEN 0 ELSE f[first(s)] + g[s \ {first(s)}]
    <3>1. CASE s = {}
      BY <3>1, <1>3
    <3>2. CASE s # {}
      BY <3>2, <1>2
    <3> QED
      BY <3>1, <3>2
  <2> QED
    BY <2>1
<1>5. Folds(fold)
  <2> HIDE DEF Folds
  <2> QED
    BY <1>4
<1>6. ASSUME NEW s \in SUBSET S
      PROVE  fold[s] = IF s = {} THEN 0 ELSE f[first(s)] + fold[s \ {first(s)}]
  <2> HIDE DEF fold
  <2> QED
    BY <1>5
<1> HIDE DEF fold
<1>7. \A s \in SUBSET S : fold[s] = UnitSum(f, s)
  <2> DEFINE Wrong(s) == s \in SUBSET S /\ fold[s] # UnitSum(f, s)
             sizes == {n \in Nat : \E s \in SUBSET S : Wrong(s) /\ Cardinality(s) = n}
  <2> SUFFICES ASSUME NEW t \in SUBSET S, Wrong(t) PROVE FALSE
    OBVIOUS
  <2>1. Cardinality(t) \in Nat
    BY FS_Subset, FS_CardinalityType
  <2>2. sizes # {} /\ sizes \subseteq Nat
    BY <2>1
  <2>3. PICK n \in sizes : \A m \in sizes : n <= m
    BY <2>2, LeastNatural
  <2>4. PICK s \in SUBSET S : Wrong(s) /\ Cardinality(s) = n
    OBVIOUS
  <2>5. s # {}
    BY <2>4, <1>3, <1>6
  <2>6. Wrong(s \ {first(s)})
    <3>1. s \ {first(s)} \in SUBSET S
      BY <2>5, <1>2
    <3>2. fold[s] = f[first(s)] + fold[s \ {first(s)}]
      BY <2>5, <1>6
    <3>3. UnitSum(f, s) = f[first(s)] + UnitSum(f, s \ {first(s)})
      BY <2>5, <1>2
    <3> QED
      BY <2>4, <3>1, <3>2, <3>3
  <2>7. n - 1 \in sizes
    <3>1. s \ {first(s)} \in SUBSET S /\ Cardinality(s \ {first(s)}) = n - 1
      BY <2>4, <2>5, <1>2
    <3>2. Cardinality(s \ {first(s)}) \in Nat
      BY <3>1, FS_Subset, FS_CardinalityType
    <3> QED
      BY <2>6, <3>1, <3>2
  <2> QED
    BY <2>3, <2>7
<1> QED
  BY <1>1, <1>7

---------------------------------------------------------------------------
(* The facts about sums that the proofs about the tables cite. *)

\* A sum of integers is an integer.
LEMMA SumType ==
  ASSUME NEW f, NEW S, IsFiniteSet(S), \A x \in S : f[x] \in Int
  PROVE  SumFunctionOnSet(f, S) \in Int
<1>1. UnitSum(f, S) \in Int
  BY UnitSumOfUnion, FS_EmptySet
<1> QED
  BY <1>1, SumIsUnitSum

\* The empty sum.
LEMMA SumOfNone == ASSUME NEW f PROVE SumFunctionOnSet(f, {}) = 0
BY UnitSumOfNone, SumIsUnitSum, FS_EmptySet

\* The sum over one index.
LEMMA SumOfOne ==
  ASSUME NEW f, NEW x, f[x] \in Int
  PROVE  SumFunctionOnSet(f, {x}) = f[x]
<1>1. IsFiniteSet({x}) /\ \A y \in {x} : f[y] \in Int
  BY FS_Singleton
<1>2. SumFunctionOnSet(f, {x}) = UnitSum(f, {x})
  BY <1>1, SumIsUnitSum
<1> QED
  BY <1>2, UnitSumOfOne

\* Sums over disjoint sets add up.
LEMMA SumOfUnion ==
  ASSUME NEW f, NEW S, NEW T, IsFiniteSet(S), IsFiniteSet(T), S \cap T = {},
         \A x \in S \cup T : f[x] \in Int
  PROVE  SumFunctionOnSet(f, S \cup T) = SumFunctionOnSet(f, S) + SumFunctionOnSet(f, T)
<1>1. IsFiniteSet(S \cup T)
  BY FS_Union
<1>2. UnitSum(f, S \cup T) = UnitSum(f, S) + UnitSum(f, T)
  BY UnitSumOfUnion
<1> QED
  BY <1>1, <1>2, SumIsUnitSum

\* A sum depends on the values at its indices only.
LEMMA SumOfEqual ==
  ASSUME NEW f, NEW g, NEW S, IsFiniteSet(S), \A x \in S : f[x] \in Int /\ g[x] = f[x]
  PROVE  SumFunctionOnSet(g, S) = SumFunctionOnSet(f, S)
<1>1. Units(f, S) = Units(g, S) /\ Debts(f, S) = Debts(g, S)
  BY DEF Units, Debts
<1> QED
  BY <1>1, SumIsUnitSum DEF UnitSum

\* The sum over 0..n is the one over 0..n-1 and the last value.
LEMMA SumOfLast ==
  ASSUME NEW f, NEW n \in Nat, \A k \in 0..n : f[k] \in Int
  PROVE  /\ SumFunctionOnSet(f, 0..n) = SumFunctionOnSet(f, 0..n - 1) + f[n]
         /\ SumFunctionOnSet(f, 0..n - 1) \in Int
<1>1. IsFiniteSet(0..n - 1) /\ IsFiniteSet({n})
  <2>1. 0 \in Int /\ n - 1 \in Int
    OBVIOUS
  <2> QED
    BY <2>1, FS_Interval, FS_Singleton
<1>2. (0..n - 1) \cap {n} = {} /\ (0..n - 1) \cup {n} = 0..n
  OBVIOUS
<1>3. \A k \in (0..n - 1) \cup {n} : f[k] \in Int
  BY <1>2
<1>4. SumFunctionOnSet(f, (0..n - 1) \cup {n}) = SumFunctionOnSet(f, 0..n - 1) + SumFunctionOnSet(f, {n})
  BY <1>1, <1>2, <1>3, SumOfUnion
<1>5. SumFunctionOnSet(f, {n}) = f[n]
  BY <1>3, SumOfOne
<1>6. SumFunctionOnSet(f, 0..n - 1) \in Int
  BY <1>1, <1>3, SumType
<1> QED
  BY <1>2, <1>4, <1>5, <1>6

\* Sums of the same indices add up value by value.
LEMMA SumOfSums ==
  ASSUME NEW f, NEW g, NEW h, NEW S, IsFiniteSet(S),
         \A x \in S : f[x] \in Int /\ g[x] \in Int /\ h[x] = f[x] + g[x]
  PROVE  SumFunctionOnSet(h, S) = SumFunctionOnSet(f, S) + SumFunctionOnSet(g, S)
<1> DEFINE Wrong(T) == SumFunctionOnSet(h, T) # SumFunctionOnSet(f, T) + SumFunctionOnSet(g, T)
           sizes == {n \in Nat : \E T \in SUBSET S : Wrong(T) /\ Cardinality(T) = n}
<1> SUFFICES ASSUME Wrong(S) PROVE FALSE
  OBVIOUS
<1>1. Cardinality(S) \in Nat
  BY FS_CardinalityType
<1>2. sizes # {} /\ sizes \subseteq Nat
  BY <1>1
<1>3. PICK n \in sizes : \A m \in sizes : n <= m
  BY <1>2, LeastNatural
<1>4. PICK T \in SUBSET S : Wrong(T) /\ Cardinality(T) = n
  OBVIOUS
<1>5. T # {}
  <2>1. ~Wrong({})
    BY SumOfNone
  <2> HIDE DEF Wrong
  <2> QED
    BY <1>4, <2>1
<1>6. PICK x : x \in T
  BY <1>5
<1> DEFINE rest == T \ {x}
<1>7. /\ IsFiniteSet(rest) /\ IsFiniteSet({x}) /\ Cardinality(rest) = n - 1
      /\ Cardinality(rest) \in Nat /\ rest \in SUBSET S
  BY <1>4, <1>6, FS_Subset, FS_RemoveElement, FS_Singleton, FS_CardinalityType
<1>8. rest \cup {x} = T /\ rest \cap {x} = {}
  BY <1>6
<1>9. ASSUME NEW e, \A y \in S : e[y] \in Int
      PROVE  SumFunctionOnSet(e, T) = SumFunctionOnSet(e, rest) + e[x] /\ SumFunctionOnSet(e, rest) \in Int
  <2> HIDE DEF rest
  <2>1. \A y \in rest \cup {x} : e[y] \in Int
    BY <1>8, <1>9
  <2>2. SumFunctionOnSet(e, rest \cup {x}) = SumFunctionOnSet(e, rest) + SumFunctionOnSet(e, {x})
    BY <1>7, <1>8, <2>1, SumOfUnion
  <2>3. SumFunctionOnSet(e, {x}) = e[x] /\ SumFunctionOnSet(e, rest) \in Int
    BY <1>7, <2>1, SumOfOne, SumType
  <2> QED
    BY <1>8, <2>2, <2>3
<1>10. Wrong(rest)
  <2>1. f[x] \in Int /\ g[x] \in Int /\ h[x] = f[x] + g[x] /\ \A y \in S : h[y] \in Int
    BY <1>6
  <2>2. /\ SumFunctionOnSet(f, T) = SumFunctionOnSet(f, rest) + f[x]
        /\ SumFunctionOnSet(g, T) = SumFunctionOnSet(g, rest) + g[x]
        /\ SumFunctionOnSet(h, T) = SumFunctionOnSet(h, rest) + h[x]
        /\ SumFunctionOnSet(f, rest) \in Int /\ SumFunctionOnSet(g, rest) \in Int
        /\ SumFunctionOnSet(h, rest) \in Int
    BY <1>9, <2>1
  <2> HIDE DEF rest
  <2> QED
    BY <1>4, <2>1, <2>2
<1>11. n - 1 \in sizes
  BY <1>7, <1>10
<1> QED
  BY <1>3, <1>11

\* Changing the values at some of the indices changes the sum by the changes.
LEMMA SumOfChanges ==
  ASSUME NEW f, NEW g, NEW delta, NEW S, NEW A, IsFiniteSet(S), A \subseteq S,
         \A x \in S : f[x] \in Int, \A x \in A : delta[x] \in Int /\ g[x] = f[x] + delta[x],
         \A x \in S \ A : g[x] = f[x]
  PROVE  /\ SumFunctionOnSet(g, S) = SumFunctionOnSet(f, S) + SumFunctionOnSet(delta, A)
         /\ SumFunctionOnSet(f, S) \in Int /\ SumFunctionOnSet(delta, A) \in Int
<1> DEFINE B == S \ A
<1>1. IsFiniteSet(A) /\ IsFiniteSet(B) /\ A \cap B = {} /\ A \cup B = S
  BY FS_Subset
<1>2. (\A x \in A \cup B : f[x] \in Int) /\ \A x \in A \cup B : g[x] \in Int
  OBVIOUS
<1>3. \A x \in B : f[x] \in Int /\ g[x] = f[x]
  OBVIOUS
<1> HIDE DEF B
<1>4. /\ SumFunctionOnSet(f, A \cup B) = SumFunctionOnSet(f, A) + SumFunctionOnSet(f, B)
      /\ SumFunctionOnSet(g, A \cup B) = SumFunctionOnSet(g, A) + SumFunctionOnSet(g, B)
  BY <1>1, <1>2, SumOfUnion
<1>5. SumFunctionOnSet(g, B) = SumFunctionOnSet(f, B)
  BY <1>1, <1>3, SumOfEqual
<1>6. SumFunctionOnSet(g, A) = SumFunctionOnSet(f, A) + SumFunctionOnSet(delta, A)
  BY <1>1, <1>2, SumOfSums
<1>7. /\ SumFunctionOnSet(f, A) \in Int /\ SumFunctionOnSet(f, B) \in Int
      /\ SumFunctionOnSet(delta, A) \in Int
  BY <1>1, <1>2, SumType
<1>8. /\ SumFunctionOnSet(f, S) = SumFunctionOnSet(f, A) + SumFunctionOnSet(f, B)
      /\ SumFunctionOnSet(g, S) = SumFunctionOnSet(g, A) + SumFunctionOnSet(g, B)
  BY <1>1, <1>4
<1> QED
  BY ONLY <1>5, <1>6, <1>7, <1>8
=============================================================================
