--------------------------- MODULE InductionLemmas ---------------------------
(***************************************************************************)
(* Induction, and what it says of the recursive functions and folds of the *)
(* other modules.  An induction is stated about a set, the set of the      *)
(* numbers it holds of, so that it can be cited with any set.              *)
(***************************************************************************)
EXTENDS SequencesExt, FiniteSetTheorems, TLAPS

-----------------------------------------------------------------------------
(* Induction over the naturals.                                            *)

LEMMA Induction ==
  ASSUME NEW T, 0 \in T, \A n \in Nat : n \in T => n + 1 \in T
  PROVE  \A n \in Nat : n \in T
<1> DEFINE Rest == Nat \ T
           Less == {p \in Nat \X Nat : p[1] < p[2]}
<1> SUFFICES ASSUME Rest # {}
             PROVE  FALSE
  OBVIOUS
<1>1. IsWellFoundedOn(Less, Nat)
  BY NatLessThanWellFounded DEF OpToRel
<1>2. \A m, n \in Nat : m < n => <<m, n>> \in Less
  OBVIOUS
<1>3. Rest \subseteq Nat
  OBVIOUS
<1> HIDE DEF Rest, Less
<1>4. PICK n \in Rest : \A m \in Rest : ~ (<<m, n>> \in Less)
  BY <1>1, <1>3, WFMin
<1>5. n \in Nat /\ n # 0
  BY <1>3, <1>4 DEF Rest
<1>6. n - 1 \in Nat /\ n - 1 \in T
  <2>1. n - 1 \in Nat /\ <<n - 1, n>> \in Less
    BY <1>2, <1>5
  <2> QED
    BY <1>4, <2>1 DEF Rest
<1>7. (n - 1) + 1 \in T
  BY <1>6
<1> QED
  BY <1>4, <1>5, <1>7 DEF Rest

-----------------------------------------------------------------------------
(* Functions by recursion on a number: a first value, and a step from the  *)
(* value before to that of a number.                                       *)

Iterates(g, first, step) ==
  g = [n \in Nat |-> IF n = 0 THEN first ELSE step[<<n, g[n - 1]>>]]

\* If no step leads out of V there is such a function.
LEMMA IterationExists ==
  ASSUME NEW V, NEW first \in V, NEW step, \A n \in Nat, v \in V : step[<<n, v>>] \in V
  PROVE  \E g \in [Nat -> V] : Iterates(g, first, step)
<1> DEFINE Upto(h, n) == /\ h \in [0..n -> V]
                         /\ h[0] = first
                         /\ \A k \in 1..n : h[k] = step[<<k, h[k - 1]>>]
           T == {n \in Nat : \E h : Upto(h, n)}
<1>1. 0 \in T
  <2>1. Upto([k \in 0..0 |-> first], 0)
    OBVIOUS
  <2> QED
    BY <2>1
<1>2. ASSUME NEW n \in Nat, n \in T
      PROVE  n + 1 \in T
  <2>1. PICK h : Upto(h, n)
    BY <1>2
  <2>2. h[n] \in V
    BY <2>1
  <2> DEFINE hh == [k \in 0..(n + 1) |-> IF k = n + 1 THEN step[<<n + 1, h[n]>>] ELSE h[k]]
  <2>3. hh \in [0..(n + 1) -> V]
    BY <2>1, <2>2
  <2>4. hh[0] = first
    BY <2>1
  <2>5. \A k \in 1..(n + 1) : hh[k] = step[<<k, hh[k - 1]>>]
    <3> SUFFICES ASSUME NEW k \in 1..(n + 1)
                 PROVE  hh[k] = step[<<k, hh[k - 1]>>]
      OBVIOUS
    <3>1. CASE k = n + 1
      BY <3>1
    <3>2. CASE k # n + 1
      BY <2>1, <3>2
    <3> QED
      BY <3>1, <3>2
  <2>6. Upto(hh, n + 1)
    BY <2>3, <2>4, <2>5
  <2> HIDE DEF hh, Upto
  <2> QED
    BY <2>6
<1> HIDE DEF T
<1>3. \A n \in Nat : n \in T
  BY <1>1, <1>2, Induction
<1> DEFINE H == [n \in Nat |-> CHOOSE h : Upto(h, n)]
<1>4. \A n \in Nat : Upto(H[n], n)
  <2> HIDE DEF Upto
  <2> QED
    BY <1>3 DEF T
<1> HIDE DEF H
\* Longer ones go on as shorter ones do.
<1>5. \A n \in Nat : \A k \in 0..n : H[n + 1][k] = H[n][k]
  <2> SUFFICES ASSUME NEW n \in Nat
               PROVE  \A k \in 0..n : H[n + 1][k] = H[n][k]
    OBVIOUS
  <2> DEFINE A == {k \in Nat : k <= n => H[n + 1][k] = H[n][k]}
  <2>1. Upto(H[n], n) /\ Upto(H[n + 1], n + 1)
    BY <1>4
  <2>2. 0 \in A
    BY <2>1
  <2>3. ASSUME NEW k \in Nat, k \in A
        PROVE  k + 1 \in A
    <3> SUFFICES ASSUME k + 1 <= n
                 PROVE  H[n + 1][k + 1] = H[n][k + 1]
      OBVIOUS
    <3>1. k + 1 \in 1..n /\ k + 1 \in 1..(n + 1) /\ (k + 1) - 1 = k
      OBVIOUS
    <3>2. H[n + 1][k] = H[n][k]
      BY <2>3
    <3>3. /\ H[n + 1][k + 1] = step[<<k + 1, H[n + 1][(k + 1) - 1]>>]
          /\ H[n][k + 1] = step[<<k + 1, H[n][(k + 1) - 1]>>]
      BY <2>1, <3>1
    <3> QED
      BY <3>1, <3>2, <3>3
  <2> HIDE DEF A
  <2>4. \A k \in Nat : k \in A
    BY <2>2, <2>3, Induction
  <2> QED
    BY <2>4 DEF A
<1> DEFINE g == [n \in Nat |-> H[n][n]]
<1>6. g \in [Nat -> V]
  BY <1>4
<1>7. \A n \in Nat : g[n] = IF n = 0 THEN first ELSE step[<<n, g[n - 1]>>]
  <2> SUFFICES ASSUME NEW n \in Nat, n # 0
               PROVE  g[n] = step[<<n, g[n - 1]>>]
    BY <1>4
  <2>1. H[n][n] = step[<<n, H[n][n - 1]>>]
    BY <1>4
  <2>2. H[(n - 1) + 1][n - 1] = H[n - 1][n - 1]
    BY <1>5
  <2> QED
    BY <2>1, <2>2
<1>8. Iterates(g, first, step)
  BY <1>7 DEF Iterates
<1> QED
  BY <1>6, <1>8

-----------------------------------------------------------------------------
(* Folds over a finite set, as module Folds defines them: pick chooses the *)
(* element to go on with, and op combines it with the fold of the rest.    *)

Folding(g, S, base, op, pick) ==
  g = [s \in SUBSET S |-> IF s = {} THEN base ELSE op[<<pick[s], g[s \ {pick[s]}]>>]]

Picks(pick, S) == \A s \in SUBSET S : s # {} => pick[s] \in s

\* A subset without one of its elements is smaller.
LEMMA SmallerSubset ==
  ASSUME NEW S, IsFiniteSet(S), NEW s \in SUBSET S, NEW x \in s
  PROVE  /\ s \ {x} \in SUBSET S
         /\ Cardinality(s) \in Nat /\ Cardinality(s \ {x}) = Cardinality(s) - 1
         /\ Cardinality(s) # 0
<1>1. IsFiniteSet(s)
  BY FS_Subset
<1>2. Cardinality(s) \in Nat /\ Cardinality(s \ {x}) = Cardinality(s) - 1
  BY <1>1, FS_CardinalityType, FS_RemoveElement
<1>3. Cardinality(s) # 0
  BY <1>1, FS_EmptySet
<1> QED
  BY <1>2, <1>3

\* Induction over the subsets of a finite set, one element at a time.
LEMMA SubsetInduction ==
  ASSUME NEW S, IsFiniteSet(S), NEW pick, Picks(pick, S), NEW T, {} \in T,
         \A s \in SUBSET S : s # {} /\ s \ {pick[s]} \in T => s \in T
  PROVE  \A s \in SUBSET S : s \in T
<1> DEFINE A == {n \in Nat : \A s \in SUBSET S : Cardinality(s) = n => s \in T}
<1>1. \A s \in SUBSET S : IsFiniteSet(s) /\ Cardinality(s) \in Nat
  BY FS_Subset, FS_CardinalityType
<1>2. Cardinality({}) = 0
  BY FS_EmptySet
<1>3. 0 \in A
  <2> SUFFICES ASSUME NEW s \in SUBSET S, Cardinality(s) = 0
               PROVE  s \in T
    OBVIOUS
  <2>1. s = {}
    BY <1>1, FS_EmptySet
  <2> QED
    BY <2>1
<1>4. ASSUME NEW n \in Nat, n \in A
      PROVE  n + 1 \in A
  <2> SUFFICES ASSUME NEW s \in SUBSET S, Cardinality(s) = n + 1
               PROVE  s \in T
    OBVIOUS
  <2>1. s # {}
    BY <1>2
  <2>2. pick[s] \in s
    BY <2>1 DEF Picks
  <2>3. s \ {pick[s]} \in SUBSET S /\ Cardinality(s \ {pick[s]}) = n
    BY <2>2, SmallerSubset
  <2>4. s \ {pick[s]} \in T
    BY <1>4, <2>3
  <2> QED
    BY <2>1, <2>4
<1> HIDE DEF A
<1>5. \A n \in Nat : n \in A
  BY <1>3, <1>4, Induction
<1> QED
  BY <1>1, <1>5 DEF A

LEMMA FoldExists ==
  ASSUME NEW S, IsFiniteSet(S), NEW V, NEW base \in V,
         NEW op, \A x \in S, v \in V : op[<<x, v>>] \in V,
         NEW pick, Picks(pick, S)
  PROVE  \E g : Folding(g, S, base, op, pick)
<1> DEFINE Small(n) == {s \in SUBSET S : Cardinality(s) <= n}
           Step(g, s) == IF s = {} THEN base ELSE op[<<pick[s], g[s \ {pick[s]}]>>]
           Upto(g, n) == g = [s \in Small(n) |-> Step(g, s)]
           T == {n \in Nat : \E g : Upto(g, n)}
<1>1. \A s \in SUBSET S : s # {} =>
         /\ s \ {pick[s]} \in SUBSET S /\ Cardinality(s) \in Nat /\ Cardinality(s) # 0
         /\ Cardinality(s \ {pick[s]}) = Cardinality(s) - 1
  BY SmallerSubset DEF Picks
<1>2. Cardinality({}) = 0
  BY FS_EmptySet
<1>3. 0 \in T
  <2> DEFINE g == [s \in Small(0) |-> base]
  <2>1. \A s \in Small(0) : s = {}
    <3> SUFFICES ASSUME NEW s \in SUBSET S, Cardinality(s) <= 0, s # {}
                 PROVE  FALSE
      OBVIOUS
    <3>1. Cardinality(s) \in Nat /\ Cardinality(s) # 0
      BY <1>1
    <3> QED
      BY <3>1
  <2>2. \A s \in Small(0) : Step(g, s) = base
    BY <2>1
  <2>3. Upto(g, 0)
    <3> HIDE DEF Small, Step
    <3> QED
      BY <2>2
  <2> QED
    BY <2>3
<1>4. ASSUME NEW n \in Nat, n \in T
      PROVE  n + 1 \in T
  <2>1. PICK g : Upto(g, n)
    BY <1>4
  <2> DEFINE h == [s \in Small(n + 1) |-> Step(g, s)]
  <2>2. \A s \in Small(n) : s \in Small(n + 1)
    <3>1. \A s \in SUBSET S : Cardinality(s) \in Nat
      BY FS_Subset, FS_CardinalityType
    <3> QED
      BY <3>1
  <2>3. \A s \in Small(n) : h[s] = g[s]
    <3> HIDE DEF Small, Step
    <3>1. \A s \in Small(n) : g[s] = Step(g, s)
      BY <2>1
    <3>2. \A s \in Small(n + 1) : h[s] = Step(g, s)
      OBVIOUS
    <3> QED
      BY <2>2, <3>1, <3>2
  <2>4. \A s \in Small(n + 1) : s # {} => s \ {pick[s]} \in Small(n)
    BY <1>1
  <2>5. \A s \in Small(n + 1) : Step(g, s) = Step(h, s)
    <3> HIDE DEF h, Small
    <3> QED
      BY <2>3, <2>4
  <2>6. Upto(h, n + 1)
    <3> HIDE DEF Small, Step
    <3> QED
      BY <2>5
  <2> HIDE DEF h, Upto
  <2> QED
    BY <2>6
<1> HIDE DEF T
<1>5. \A n \in Nat : n \in T
  BY <1>3, <1>4, Induction
<1>6. Cardinality(S) \in Nat /\ Small(Cardinality(S)) = SUBSET S
  BY FS_CardinalityType, FS_Subset
<1>7. PICK g : Upto(g, Cardinality(S))
  BY <1>5, <1>6 DEF T
<1> QED
  BY <1>6, <1>7 DEF Folding

-----------------------------------------------------------------------------
(* Sums, as module Functions defines them.                                 *)

\* The sum of a function's values is in every set that has 0 and is closed
\* under adding one of them.
LEMMA SumIn ==
  ASSUME NEW f, IsFiniteSet(DOMAIN f), NEW V, 0 \in V,
         \A i \in DOMAIN f, v \in V : f[i] + v \in V
  PROVE  SumFunction(f) \in V
<1> DEFINE S == DOMAIN f
           op == [p \in S \X V |-> f[p[1]] + p[2]]
           One(s) == CHOOSE x \in s : TRUE
           pick == [s \in SUBSET S |-> One(s)]
           Rule(g) == g = [s \in SUBSET S |->
                             IF s = {} THEN 0 ELSE f[One(s)] + g[s \ {One(s)}]]
<1>1. SumFunction(f) = (CHOOSE g : Rule(g))[S]
  BY Zenon DEF SumFunction, SumFunctionOnSet, FoldFunctionOnSet, MapThenFoldSet
<1>2. \A x \in S, v \in V : op[<<x, v>>] = f[x] + v
  OBVIOUS
<1>3. \A s \in SUBSET S : s # {} => One(s) \in s
  OBVIOUS
<1> HIDE DEF One
<1>4. \A s \in SUBSET S : pick[s] = One(s)
  OBVIOUS
<1>5. Picks(pick, S)
  BY <1>3, <1>4 DEF Picks
<1>6. \A x \in S, v \in V : op[<<x, v>>] \in V
  BY <1>2
<1> HIDE DEF op, pick
<1>7. PICK g : Folding(g, S, 0, op, pick)
  BY <1>5, <1>6, FoldExists
<1>8. \A s \in SUBSET S : g[s] = IF s = {} THEN 0 ELSE op[<<pick[s], g[s \ {pick[s]}]>>]
  BY <1>7 DEF Folding
<1>9. \A s \in SUBSET S : g[s] \in V
  <2> DEFINE Typed == {s \in SUBSET S : g[s] \in V}
  <2>1. {} \in Typed
    BY <1>8
  <2>2. ASSUME NEW s \in SUBSET S, s # {}, s \ {pick[s]} \in Typed
        PROVE  s \in Typed
    BY <1>5, <1>6, <1>8, <2>2 DEF Picks
  <2> HIDE DEF Typed
  <2>3. \A s \in SUBSET S : s \in Typed
    BY <1>5, <2>1, <2>2, SubsetInduction
  <2> QED
    BY <2>3 DEF Typed
<1>10. Rule(g)
  <2>1. \A s \in SUBSET S : s # {} =>
          op[<<pick[s], g[s \ {pick[s]}]>>] = f[One(s)] + g[s \ {One(s)}]
    BY <1>2, <1>3, <1>4, <1>9
  <2> QED
    BY <1>7, <2>1 DEF Folding
<1>11. ASSUME NEW h, Rule(h)
       PROVE  h[S] \in V
  <2> DEFINE Typed == {s \in SUBSET S : h[s] \in V}
  <2>1. \A s \in SUBSET S : h[s] = IF s = {} THEN 0 ELSE f[One(s)] + h[s \ {One(s)}]
    BY <1>11
  <2>2. {} \in Typed
    BY <2>1
  <2>3. ASSUME NEW s \in SUBSET S, s # {}, s \ {pick[s]} \in Typed
        PROVE  s \in Typed
    <3>1. One(s) \in s /\ pick[s] = One(s)
      BY <1>3, <1>4, <2>3
    <3>2. One(s) \in S /\ h[s \ {One(s)}] \in V
      BY <2>3, <3>1
    <3>3. f[One(s)] + h[s \ {One(s)}] \in V
      BY <3>2
    <3>4. h[s] = f[One(s)] + h[s \ {One(s)}]
      BY <2>1, <2>3
    <3> QED
      BY <3>3, <3>4
  <2> HIDE DEF Typed
  <2>4. \A s \in SUBSET S : s \in Typed
    BY <1>5, <2>2, <2>3, SubsetInduction
  <2> QED
    BY <2>4 DEF Typed
<1> HIDE DEF Rule
<1>12. Rule(CHOOSE h : Rule(h))
  BY <1>10
<1> QED
  BY <1>1, <1>11, <1>12

LEMMA SumOfNaturals ==
  ASSUME NEW f, IsFiniteSet(DOMAIN f), \A i \in DOMAIN f : f[i] \in Nat
  PROVE  SumFunction(f) \in Nat
<1>1. 0 \in Nat /\ \A i \in DOMAIN f, v \in Nat : f[i] + v \in Nat
  OBVIOUS
<1> QED
  BY <1>1, SumIn, Zenon

LEMMA SumOfIntegers ==
  ASSUME NEW f, IsFiniteSet(DOMAIN f), \A i \in DOMAIN f : f[i] \in Int
  PROVE  SumFunction(f) \in Int
<1>1. 0 \in Int /\ \A i \in DOMAIN f, v \in Int : f[i] + v \in Int
  OBVIOUS
<1> QED
  BY <1>1, SumIn, Zenon

LEMMA SumOfZeroes ==
  ASSUME NEW f, IsFiniteSet(DOMAIN f), \A i \in DOMAIN f : f[i] = 0
  PROVE  SumFunction(f) = 0
<1>1. 0 \in {0} /\ \A i \in DOMAIN f, v \in {0} : f[i] + v \in {0}
  OBVIOUS
<1>2. SumFunction(f) \in {0}
  BY <1>1, SumIn, Zenon
<1> QED
  BY <1>2

\* The places of a sequence are finitely many.
LEMMA PlacesAreFinite ==
  ASSUME NEW V, NEW s \in Seq(V)
  PROVE  IsFiniteSet(DOMAIN s) /\ \A i \in DOMAIN s : s[i] \in V
<1>1. DOMAIN s = 1..Len(s) /\ Len(s) \in Nat
  OBVIOUS
<1> QED
  BY <1>1, FS_Interval

=============================================================================
