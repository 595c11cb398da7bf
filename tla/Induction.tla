------------------------------ MODULE Induction ------------------------------
(***************************************************************************)
(* Induction over the natural numbers in a form without operator           *)
(* parameters: the predicate is a set. The proofs about values that are    *)
(* computed step by step (a simulated register, the propagation of a tag)  *)
(* rest on it.                                                             *)
(***************************************************************************)
EXTENDS Integers, FiniteSetTheorems, TLAPS

(* A nonempty set of natural numbers has a least element.                  *)
LEMMA LeastElement ==
  ASSUME NEW S \in SUBSET Nat, S # {}
  PROVE  \E m \in S : \A n \in S : m <= n
<1> DEFINE Less == {p \in Nat \X Nat : p[1] < p[2]}
<1>1. IsWellFoundedOn(Less, Nat)
  BY NatLessThanWellFounded, Zenon DEF OpToRel
<1> HIDE DEF Less
<1>2. PICK m \in S : \A n \in S : <<n, m>> \notin Less
  BY <1>1, WFMin
<1>3. ASSUME NEW n \in S
      PROVE  m <= n
  <2>1. <<n, m>> \in Nat \X Nat
    OBVIOUS
  <2>2. ~(n < m)
    BY <1>2, <2>1, Zenon DEF Less
  <2> QED
    BY <2>2
<1> QED
  BY <1>3

(* A set that has 0 and, with a number, the next one, has them all.        *)
LEMMA SetInduction ==
  ASSUME NEW S, 0 \in S, \A n \in Nat : n \in S => n + 1 \in S
  PROVE  Nat \subseteq S
<1> SUFFICES ASSUME Nat \ S # {} PROVE FALSE
  OBVIOUS
<1>1. PICK m \in Nat \ S : \A n \in Nat \ S : m <= n
  BY LeastElement
<1>2. m - 1 \in Nat /\ m - 1 \in S
  BY <1>1
<1> QED
  BY <1>1, <1>2

(* The same up to a bound.                                                 *)
LEMMA BoundedInduction ==
  ASSUME NEW N \in Nat, NEW S, 0 \in S, \A n \in 0 .. N - 1 : n \in S => n + 1 \in S
  PROVE  0 .. N \subseteq S
<1> DEFINE Reached == {n \in Nat : n <= N => n \in S}
<1>1. 0 \in Reached
  OBVIOUS
<1>2. ASSUME NEW n \in Nat, n \in Reached
      PROVE  n + 1 \in Reached
  BY <1>2
<1>3. Nat \subseteq Reached
  <2> HIDE DEF Reached
  <2> QED
    BY <1>1, <1>2, SetInduction
<1> QED
  BY <1>3

(* A value computed in N steps, step i by Step[i], exists.                 *)
StepFunctions(N, V) == [1 .. N -> [V -> V]]
Computes(f, N, first, Step) == f[0] = first /\ \A i \in 1 .. N : f[i] = Step[i][f[i - 1]]

LEMMA BoundedRecursion ==
  ASSUME NEW N \in Nat, NEW V, NEW first \in V, NEW Step \in StepFunctions(N, V)
  PROVE  \E f \in [0 .. N -> V] : Computes(f, N, first, Step)
<1> USE DEF StepFunctions
<1> DEFINE Solves(f, n) == f \in [0 .. n -> V] /\ Computes(f, n, first, Step)
           Solved == {n \in 0 .. N : \E f : Solves(f, n)}
<1>1. 0 \in Solved
  <2>1. Solves([i \in 0 .. 0 |-> first], 0)
    BY DEF Computes
  <2> HIDE DEF Solves
  <2> QED
    BY <2>1
<1>2. ASSUME NEW n \in 0 .. N - 1, n \in Solved
      PROVE  n + 1 \in Solved
  <2>1. PICK f : Solves(f, n)
    BY <1>2
  <2> DEFINE g == [i \in 0 .. n + 1 |-> IF i = n + 1 THEN Step[n + 1][f[n]] ELSE f[i]]
  <2>2. n + 1 \in 1 .. N /\ f[n] \in V
    BY <2>1
  <2>3. Step[n + 1][f[n]] \in V
    BY <2>2
  <2>4. g \in [0 .. n + 1 -> V] /\ g[0] = first
    BY <2>1, <2>3 DEF Computes
  <2>5. ASSUME NEW i \in 1 .. n + 1
        PROVE  g[i] = Step[i][g[i - 1]]
    <3>1. CASE i = n + 1
      BY <2>1, <3>1 DEF Computes
    <3>2. CASE i \in 1 .. n
      BY <2>1, <3>2 DEF Computes
    <3> QED
      BY <3>1, <3>2
  <2>6. Solves(g, n + 1)
    BY <2>4, <2>5 DEF Computes
  <2> HIDE DEF Solves, g
  <2> QED
    BY <2>2, <2>6
<1>3. 0 .. N \subseteq Solved
  <2> HIDE DEF Solved
  <2> QED
    BY <1>1, <1>2, BoundedInduction
<1>4. PICK f : Solves(f, N)
  BY <1>3
<1> QED
  BY <1>4

-----------------------------------------------------------------------------
(* Finite sets, from which the folds of the community modules take one     *)
(* element after the other.                                                *)
Picked(s) == CHOOSE x \in s : TRUE

LEMMA PickedFacts ==
  ASSUME NEW S, IsFiniteSet(S), NEW s \in SUBSET S, s # {}
  PROVE  /\ Picked(s) \in s
         /\ s \ {Picked(s)} \in SUBSET S
         /\ IsFiniteSet(s)
         /\ Cardinality(s) \in Nat \ {0}
         /\ Cardinality(s \ {Picked(s)}) = Cardinality(s) - 1
<1>1. Picked(s) \in s
  BY DEF Picked
<1>2. IsFiniteSet(s)
  BY FS_Subset
<1>3. Cardinality(s) \in Nat /\ Cardinality(s) # 0
  BY <1>2, FS_CardinalityType, FS_EmptySet
<1>4. Cardinality(s \ {Picked(s)}) = Cardinality(s) - 1
  BY <1>1, <1>2, FS_RemoveElement
<1> QED
  BY <1>1, <1>2, <1>3, <1>4

(* Sets that a fold reaches are all the subsets.                           *)
LEMMA SubsetInduction ==
  ASSUME NEW S, IsFiniteSet(S), NEW Good, {} \in Good,
         \A s \in SUBSET S : s # {} /\ s \ {Picked(s)} \in Good => s \in Good
  PROVE  SUBSET S \subseteq Good
<1> DEFINE Reached == {n \in Nat : \A s \in SUBSET S : Cardinality(s) = n => s \in Good}
<1>1. 0 \in Reached
  <2>1. ASSUME NEW s \in SUBSET S, Cardinality(s) = 0
        PROVE  s = {}
    BY <2>1, FS_Subset, FS_EmptySet
  <2> QED
    BY <2>1
<1>2. ASSUME NEW n \in Nat, n \in Reached
      PROVE  n + 1 \in Reached
  <2>1. ASSUME NEW s \in SUBSET S, Cardinality(s) = n + 1
        PROVE  s \in Good
    <3>1. s # {}
      BY <2>1, FS_EmptySet
    <3>2. s \ {Picked(s)} \in SUBSET S /\ Cardinality(s \ {Picked(s)}) = n
      BY <2>1, <3>1, PickedFacts
    <3> QED
      BY <1>2, <3>1, <3>2
  <2> QED
    BY <2>1
<1>3. Nat \subseteq Reached
  <2> HIDE DEF Reached
  <2> QED
    BY <1>1, <1>2, SetInduction
<1>4. ASSUME NEW s \in SUBSET S
      PROVE  s \in Good
  <2>1. Cardinality(s) \in Nat
    BY FS_Subset, FS_CardinalityType
  <2> QED
    BY <1>3, <2>1
<1> QED
  BY <1>4

(* The fold of Step over the subsets of S exists.                          *)
IsFold(g, S, base, Step) ==
  g = [s \in SUBSET S |-> IF s = {} THEN base ELSE Step[Picked(s)][g[s \ {Picked(s)}]]]

LEMMA FoldExists ==
  ASSUME NEW S, IsFiniteSet(S), NEW V, NEW base \in V, NEW Step \in [S -> [V -> V]]
  PROVE  \E g \in [SUBSET S -> V] : IsFold(g, S, base, Step)
<1> DEFINE Below(n) == {s \in SUBSET S : Cardinality(s) <= n}
           Value(g, s) == IF s = {} THEN base ELSE Step[Picked(s)][g[s \ {Picked(s)}]]
           Solves(g, n) == g \in [Below(n) -> V] /\ \A s \in Below(n) : g[s] = Value(g, s)
           Solved == {n \in Nat : \E g : Solves(g, n)}
<1>1. \A s \in SUBSET S : Cardinality(s) \in Nat /\ (Cardinality(s) = 0 <=> s = {})
  BY FS_Subset, FS_CardinalityType, FS_EmptySet
<1>2. 0 \in Solved
  <2>1. Below(0) = {{}}
    BY <1>1
  <2>2. Solves([s \in Below(0) |-> base], 0)
    BY <2>1
  <2> HIDE DEF Solves
  <2> QED
    BY <2>2
<1>3. ASSUME NEW n \in Nat, n \in Solved
      PROVE  n + 1 \in Solved
  <2>1. PICK g : Solves(g, n)
    BY <1>3
  <2> DEFINE h == [s \in Below(n + 1) |-> Value(g, s)]
  <2>2. ASSUME NEW s \in Below(n + 1), s # {}
        PROVE  /\ Picked(s) \in S
               /\ s \ {Picked(s)} \in Below(n)
               /\ s \ {Picked(s)} \in Below(n + 1)
    BY <2>2, PickedFacts
  <2>3. ASSUME NEW s \in Below(n + 1)
        PROVE  Value(g, s) \in V
    <3>1. CASE s = {}
      BY <3>1
    <3>2. CASE s # {}
      <4>1. Picked(s) \in S /\ g[s \ {Picked(s)}] \in V
        BY <2>1, <2>2, <3>2
      <4> QED
        BY <3>2, <4>1
    <3> QED
      BY <3>1, <3>2
  <2>4. ASSUME NEW s \in Below(n)
        PROVE  s \in Below(n + 1) /\ h[s] = g[s]
    <3>1. s \in Below(n + 1)
      BY <1>1
    <3> QED
      BY <2>1, <3>1
  <2>5. ASSUME NEW s \in Below(n + 1)
        PROVE  h[s] = Value(h, s)
    <3>1. CASE s = {}
      BY <3>1
    <3>2. CASE s # {}
      <4>1. h[s \ {Picked(s)}] = g[s \ {Picked(s)}]
        BY <2>2, <2>4, <3>2
      <4> HIDE DEF Below
      <4>2. h[s] = Value(g, s)
        OBVIOUS
      <4> HIDE DEF h
      <4> QED
        BY <3>2, <4>1, <4>2
    <3> QED
      BY <3>1, <3>2
  <2>6. h \in [Below(n + 1) -> V]
    <3> HIDE DEF Below, Value
    <3> QED
      BY <2>3
  <2>7. Solves(h, n + 1)
    <3> HIDE DEF Below, Value, h
    <3> QED
      BY <2>5, <2>6
  <2> HIDE DEF Solves, h
  <2> QED
    BY <2>7
<1>4. Nat \subseteq Solved
  <2> HIDE DEF Solved
  <2> QED
    BY <1>2, <1>3, SetInduction
<1>5. Cardinality(S) \in Nat
  BY FS_CardinalityType
<1>6. PICK g : Solves(g, Cardinality(S))
  BY <1>4, <1>5
<1>7. Below(Cardinality(S)) = SUBSET S
  BY FS_Subset
<1>8. g \in [SUBSET S -> V] /\ \A s \in SUBSET S : g[s] = Value(g, s)
  BY <1>6, <1>7
<1> QED
  BY <1>8 DEF IsFold

-----------------------------------------------------------------------------
(* Sums of cardinalities.                                                  *)

(* The pairs of an element of s and a member of its set.                   *)
PairsOf(s, W, D) == {x \in s \X W : x[2] \in D[x[1]]}

LEMMA PairsOfOneMore ==
  ASSUME NEW S, IsFiniteSet(S), NEW W, IsFiniteSet(W), NEW D \in [S -> SUBSET W],
         NEW s \in SUBSET S, s # {}
  PROVE  /\ IsFiniteSet(PairsOf(s, W, D))
         /\ Cardinality(PairsOf(s, W, D)) =
              Cardinality(D[Picked(s)]) + Cardinality(PairsOf(s \ {Picked(s)}, W, D))
<1> DEFINE x == Picked(s)
           A == PairsOf(s \ {x}, W, D)
           B == {x} \X D[x]
<1>1. x \in s /\ x \in S /\ IsFiniteSet(s)
  BY PickedFacts
<1>2. D[x] \in SUBSET W /\ IsFiniteSet(D[x])
  <2>1. D[x] \in SUBSET W
    BY <1>1
  <2> QED
    BY <2>1, FS_Subset
<1>3. IsFiniteSet(PairsOf(s, W, D))
  BY <1>1, FS_Product, FS_Subset DEF PairsOf
<1>4. PairsOf(s, W, D) = A \cup B /\ A \cap B = {}
  <2> HIDE DEF x
  <2> QED
    BY <1>1, <1>2 DEF PairsOf
<1>5. IsFiniteSet(A) /\ IsFiniteSet(B)
  <2>1. A \subseteq PairsOf(s, W, D) /\ B \subseteq PairsOf(s, W, D)
    BY <1>4
  <2> QED
    BY <1>3, <2>1, FS_Subset
<1>6. Cardinality(B) = Cardinality(D[x])
  <2>1. Cardinality(D[x]) \in Nat
    BY <1>2, FS_CardinalityType
  <2>2. IsFiniteSet({x}) /\ Cardinality({x}) = 1
    BY FS_Singleton
  <2>3. Cardinality(B) = Cardinality({x}) * Cardinality(D[x])
    BY <1>2, <2>2, FS_Product
  <2> QED
    BY <2>1, <2>2, <2>3
<1>7. Cardinality(A \cup B) = Cardinality(A) + Cardinality(B) - Cardinality({})
  BY <1>4, <1>5, FS_Union
<1>8. Cardinality(A) \in Nat /\ Cardinality(B) \in Nat
  BY <1>5, FS_CardinalityType
<1> HIDE DEF x, A, B
<1>9. Cardinality(A \cup B) = Cardinality(B) + Cardinality(A)
  BY <1>7, <1>8, FS_EmptySet
<1> QED
  BY <1>3, <1>4, <1>6, <1>9 DEF A, x

IsSum(h, S, D) ==
  h = [s \in SUBSET S |->
         IF s = {} THEN 0 ELSE Cardinality(D[Picked(s)]) + h[s \ {Picked(s)}]]

LEMMA SumExists ==
  ASSUME NEW S, IsFiniteSet(S), NEW W, IsFiniteSet(W), NEW D \in [S -> SUBSET W]
  PROVE  \E h : IsSum(h, S, D)
<1> DEFINE Step == [x \in S |-> [n \in Nat |-> Cardinality(D[x]) + n]]
<1>1. Step \in [S -> [Nat -> Nat]]
  BY FS_Subset, FS_CardinalityType
<1>2. PICK g \in [SUBSET S -> Nat] : IsFold(g, S, 0, Step)
  <2> HIDE DEF Step
  <2> QED
    BY <1>1, FoldExists
<1>3. ASSUME NEW s \in SUBSET S
      PROVE  g[s] = IF s = {} THEN 0 ELSE Cardinality(D[Picked(s)]) + g[s \ {Picked(s)}]
  <2>1. CASE s = {}
    BY <1>2, <2>1 DEF IsFold
  <2>2. CASE s # {}
    <3>1. Picked(s) \in S /\ s \ {Picked(s)} \in SUBSET S
      BY <2>2, PickedFacts
    <3>2. g[s] = Step[Picked(s)][g[s \ {Picked(s)}]]
      BY <1>2, <2>2 DEF IsFold
    <3>3. g[s \ {Picked(s)}] \in Nat
      BY <3>1
    <3> QED
      BY <2>2, <3>1, <3>2, <3>3
  <2> QED
    BY <2>1, <2>2
<1> QED
  BY <1>3 DEF IsSum

(* Summing the sizes of the sets counts the pairs.                         *)
LEMMA SumCountsPairs ==
  ASSUME NEW S, IsFiniteSet(S), NEW W, IsFiniteSet(W), NEW D \in [S -> SUBSET W],
         NEW h, IsSum(h, S, D)
  PROVE  h[S] = Cardinality(PairsOf(S, W, D)) /\ IsFiniteSet(PairsOf(S, W, D))
<1> DEFINE Good == {s \in SUBSET S : h[s] = Cardinality(PairsOf(s, W, D))}
<1>1. {} \in Good
  <2>1. h[{}] = 0
    BY DEF IsSum
  <2>2. PairsOf({}, W, D) = {}
    BY DEF PairsOf
  <2> QED
    BY <2>1, <2>2, FS_EmptySet
<1>2. ASSUME NEW s \in SUBSET S, s # {}, s \ {Picked(s)} \in Good
      PROVE  s \in Good
  <2>1. h[s] = Cardinality(D[Picked(s)]) + h[s \ {Picked(s)}]
    BY <1>2 DEF IsSum
  <2> QED
    BY <1>2, <2>1, PairsOfOneMore
<1>3. SUBSET S \subseteq Good
  <2> HIDE DEF Good
  <2> QED
    BY <1>1, <1>2, SubsetInduction
<1>4. IsFiniteSet(PairsOf(S, W, D))
  BY FS_Product, FS_Subset DEF PairsOf
<1> QED
  BY <1>3, <1>4
=============================================================================
