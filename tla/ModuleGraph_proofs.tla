-------------------------- MODULE ModuleGraph_proofs --------------------------
(***************************************************************************)
(* Theorems about the graph of a module, for every netlist: its nets form  *)
(* no loop; if the netlist drives every vector of bits once, a net that a  *)
(* cell drives gets no other source and an input none; and if, besides, it *)
(* drives every bit, each comes from its driver.                           *)
(*                                                                         *)
(* The argument for the loops is that follow_path, although it takes a     *)
(* bounded number of steps, reaches everything there is to reach: a step   *)
(* without a new vertex is the last one that could have found any. That    *)
(* for the bits is that the vertex of a driver, fed by nothing that is no  *)
(* cell, is never reached from a target, so that no bit remains for want   *)
(* of a source; and that, going back among nets without a loop, one must   *)
(* come to an end.                                                         *)
(***************************************************************************)
EXTENDS ModuleGraph, Induction

-----------------------------------------------------------------------------
(* What can be reached in a graph, as a fold over its vertices V: over     *)
(* edges E to nets N.                                                      *)
Onwards(N, E, S) == S \cup {w \in N : \E u \in S : <<u, w>> \in E}
Following(V, N, E, v) == FoldSet(LAMBDA n, S : Onwards(N, E, S), {v}, V)
NetsOf(V, N) == IsFiniteSet(V) /\ N \subseteq V
Closed(N, E, S) == \A u \in S, w \in N : <<u, w>> \in E => w \in S

Reached(g, V, N, E, v) ==
  g = [s \in SUBSET V |-> IF s = {} THEN {v} ELSE Onwards(N, E, g[s \ {Picked(s)}])]

LEMMA OnwardsFacts ==
  ASSUME NEW V, NEW N, NetsOf(V, N), NEW E, NEW S \in SUBSET V
  PROVE  /\ Onwards(N, E, S) \in SUBSET V
         /\ S \subseteq Onwards(N, E, S)
         /\ Closed(N, E, S) <=> Onwards(N, E, S) = S
         /\ \A R : S \subseteq R /\ Closed(N, E, R) => Onwards(N, E, S) \subseteq R
  BY DEF Onwards, Closed, NetsOf

LEMMA ReachedExists ==
  ASSUME NEW V, NEW N, NetsOf(V, N), NEW E, NEW v \in V
  PROVE  \E g : Reached(g, V, N, E, v) /\ g \in [SUBSET V -> SUBSET V]
<1> DEFINE Step == [x \in V |-> [S \in SUBSET V |-> Onwards(N, E, S)]]
<1>1. \A S \in SUBSET V : Onwards(N, E, S) \in SUBSET V
  BY OnwardsFacts
<1>2. Step \in [V -> [SUBSET V -> SUBSET V]]
  BY <1>1
<1>3. {v} \in SUBSET V
  OBVIOUS
<1>4. PICK g \in [SUBSET V -> SUBSET V] : IsFold(g, V, {v}, Step)
  <2> HIDE DEF Step
  <2> QED
    BY <1>2, <1>3, FoldExists DEF NetsOf
<1>5. ASSUME NEW s \in SUBSET V
      PROVE  g[s] = IF s = {} THEN {v} ELSE Onwards(N, E, g[s \ {Picked(s)}])
  <2>1. CASE s = {}
    BY <1>4, <2>1 DEF IsFold
  <2>2. CASE s # {}
    <3>1. Picked(s) \in V /\ s \ {Picked(s)} \in SUBSET V
      BY <2>2, PickedFacts DEF NetsOf
    <3>2. g[s] = Step[Picked(s)][g[s \ {Picked(s)}]]
      BY <1>4, <2>2 DEF IsFold
    <3>3. g[s \ {Picked(s)}] \in SUBSET V
      BY <3>1
    <3> QED
      BY <2>2, <3>1, <3>2, <3>3
  <2> QED
    BY <2>1, <2>2
<1>6. Reached(g, V, N, E, v)
  BY <1>4, <1>5 DEF Reached
<1> QED
  BY <1>6

LEMMA ReachedType ==
  ASSUME NEW V, NEW N, NetsOf(V, N), NEW E, NEW v \in V, NEW f, Reached(f, V, N, E, v)
  PROVE  f \in [SUBSET V -> SUBSET V]
<1> DEFINE Good == {s \in SUBSET V : f[s] \in SUBSET V}
<1>1. f = [s \in SUBSET V |-> IF s = {} THEN {v} ELSE Onwards(N, E, f[s \ {Picked(s)}])]
  BY DEF Reached
<1>2. {} \in Good
  BY <1>1
<1>3. ASSUME NEW s \in SUBSET V, s # {}, s \ {Picked(s)} \in Good
      PROVE  s \in Good
  <2>1. f[s] = Onwards(N, E, f[s \ {Picked(s)}])
    BY <1>1, <1>3
  <2>2. f[s \ {Picked(s)}] \in SUBSET V
    BY <1>3
  <2>3. Onwards(N, E, f[s \ {Picked(s)}]) \in SUBSET V
    BY <2>2 DEF Onwards, NetsOf
  <2> QED
    BY <2>1, <2>3
<1>4. SUBSET V \subseteq Good
  <2> HIDE DEF Good
  <2> QED
    BY <1>2, <1>3, SubsetInduction DEF NetsOf
<1>5. DOMAIN f = SUBSET V /\ f = [s \in DOMAIN f |-> f[s]]
  BY <1>1
<1> QED
  BY <1>4, <1>5

(* A fold that takes as many steps as there are vertices reaches v and     *)
(* everything there is to reach from it, and nothing else.                 *)
LEMMA ReachedFacts ==
  ASSUME NEW V, NEW N, NetsOf(V, N), NEW E, NEW v \in V, NEW g, Reached(g, V, N, E, v)
  PROVE  /\ v \in g[V]
         /\ g[V] \in SUBSET V
         /\ Closed(N, E, g[V])
         /\ \A R : v \in R /\ Closed(N, E, R) => g[V] \subseteq R
<1>1. Reached(g, V, N, E, v) /\ g \in [SUBSET V -> SUBSET V]
  BY ReachedType
<1>2. \A s \in SUBSET V : g[s] = IF s = {} THEN {v} ELSE Onwards(N, E, g[s \ {Picked(s)}])
  BY <1>1 DEF Reached
<1> DEFINE Good == {s \in SUBSET V :
                      /\ v \in g[s]
                      /\ \A R : v \in R /\ Closed(N, E, R) => g[s] \subseteq R
                      /\ Closed(N, E, g[s]) \/ Cardinality(g[s]) > Cardinality(s)}
<1>3. {} \in Good
  <2>1. g[{}] = {v}
    BY <1>2
  <2>2. Cardinality({v}) = 1 /\ Cardinality({}) = 0
    BY FS_Singleton, FS_EmptySet
  <2> QED
    BY <2>1, <2>2
<1>4. ASSUME NEW s \in SUBSET V, s # {}, s \ {Picked(s)} \in Good
      PROVE  s \in Good
  <2> DEFINE before == g[s \ {Picked(s)}]
  <2>1. g[s] = Onwards(N, E, before) /\ before \in SUBSET V
    BY <1>1, <1>2, <1>4
  <2>2. v \in g[s]
    BY <1>4, <2>1 DEF Onwards
  <2>3. ASSUME NEW R, v \in R, Closed(N, E, R)
        PROVE  g[s] \subseteq R
    <3>1. before \subseteq R
      BY <1>4, <2>3
    <3>2. Onwards(N, E, before) \subseteq R
      BY <2>1, <2>3, <3>1 DEF Onwards, Closed
    <3> QED
      BY <2>1, <3>2
  <2>4. CASE Closed(N, E, before)
    <3>1. g[s] = before
      BY <2>1, <2>4 DEF Onwards, Closed
    <3>2. Closed(N, E, g[s])
      BY <2>4, <3>1
    <3> QED
      BY <2>2, <2>3, <3>2
  <2>5. CASE ~Closed(N, E, before)
    <3>1. Cardinality(before) > Cardinality(s \ {Picked(s)})
      BY <1>4, <2>5
    <3>2. Cardinality(s \ {Picked(s)}) = Cardinality(s) - 1 /\ Cardinality(s) \in Nat
      BY <1>4, PickedFacts DEF NetsOf
    <3>3. before \subseteq g[s] /\ before # g[s] /\ g[s] \in SUBSET V
      BY <1>1, <2>1, <2>5, OnwardsFacts
    <3>4. IsFiniteSet(g[s])
      BY <3>3, FS_Subset DEF NetsOf
    <3>5. /\ Cardinality(before) <= Cardinality(g[s])
          /\ Cardinality(before) # Cardinality(g[s])
          /\ Cardinality(before) \in Nat /\ Cardinality(g[s]) \in Nat
      <4>1. before \in SUBSET g[s]
        BY <3>3
      <4>2. IsFiniteSet(before)
        BY <3>4, <4>1, FS_Subset
      <4> QED
        BY <3>3, <3>4, <4>1, <4>2, FS_Subset, FS_CardinalityType
    <3>6. Cardinality(g[s]) > Cardinality(s)
      <4> HIDE DEF before
      <4> QED
        BY <3>1, <3>2, <3>5
    <3> QED
      BY <2>2, <2>3, <3>6
  <2> QED
    BY <2>4, <2>5
<1>5. V \in Good
  <2> HIDE DEF Good
  <2> QED
    BY <1>3, <1>4, SubsetInduction DEF NetsOf
<1>6. g[V] \in SUBSET V
  BY <1>1
<1>7. ~(Cardinality(g[V]) > Cardinality(V))
  BY <1>6, FS_Subset, FS_CardinalityType DEF NetsOf
<1> QED
  BY <1>1, <1>5, <1>6, <1>7

IsFollowing(g, V, N, E, v) ==
  /\ Reached(g, V, N, E, v)
  /\ g \in [SUBSET V -> SUBSET V]
  /\ Following(V, N, E, v) = g[V]

LEMMA FollowingIsReached ==
  ASSUME NEW V, NEW N, NetsOf(V, N), NEW E, NEW v \in V
  PROVE  \E g : IsFollowing(g, V, N, E, v)
<1> DEFINE P(h) == h = [s \in SUBSET V |->
                          IF s = {} THEN {v}
                          ELSE Onwards(N, E, h[s \ {CHOOSE x \in s : TRUE}])]
<1>1. Following(V, N, E, v) = (CHOOSE h : P(h))[V]
  BY Zenon DEF Following, FoldSet, MapThenFoldSet
<1>2. PICK g : Reached(g, V, N, E, v) /\ g \in [SUBSET V -> SUBSET V]
  BY ReachedExists
<1>3. \A h : P(h) <=> Reached(h, V, N, E, v)
  BY Zenon DEF Reached, Picked
<1> HIDE DEF P
<1>4. P(CHOOSE h : P(h))
  BY <1>2, <1>3
<1> DEFINE f == CHOOSE h : P(h)
<1>5. Reached(f, V, N, E, v)
  BY <1>3, <1>4
<1> HIDE DEF f
<1>6. f \in [SUBSET V -> SUBSET V]
  BY <1>5, ReachedType
<1>7. Following(V, N, E, v) = f[V]
  BY <1>1 DEF f
<1> QED
  BY <1>5, <1>6, <1>7 DEF IsFollowing

LEMMA FollowingFacts ==
  ASSUME NEW V, NEW N, NetsOf(V, N), NEW E, NEW v \in V
  PROVE  /\ v \in Following(V, N, E, v)
         /\ Following(V, N, E, v) \in SUBSET V
         /\ Closed(N, E, Following(V, N, E, v))
         /\ \A R : v \in R /\ Closed(N, E, R) => Following(V, N, E, v) \subseteq R
<1>1. PICK g : IsFollowing(g, V, N, E, v)
  BY FollowingIsReached
<1>2. /\ v \in g[V] /\ g[V] \in SUBSET V /\ Closed(N, E, g[V])
      /\ \A R : v \in R /\ Closed(N, E, R) => g[V] \subseteq R
  <2>1. Reached(g, V, N, E, v)
    BY <1>1 DEF IsFollowing
  <2> QED
    BY <2>1, ReachedFacts
<1>3. Following(V, N, E, v) = g[V]
  BY <1>1 DEF IsFollowing
<1> QED
  BY <1>2, <1>3

-----------------------------------------------------------------------------
(* Graphs whose nets form no loop, and what may be added to them.          *)
EdgesOf(V, E) == E \subseteq V \X V
Within(A, N) == A \subseteq N
From(v, A) == {<<v, a>> : a \in A}
To(A, v) == {<<a, v>> : a \in A}

NoLoop(V, N, E) ==
  \A e \in E : e[1] \in N /\ e[2] \in N => e[1] \notin Following(V, N, E, e[2])

(* To see that an edge is in no loop it is enough to find a closed set that *)
(* has its end but not its beginning.                                      *)
LEMMA NoLoopByClosedSets ==
  ASSUME NEW V, NEW N, NetsOf(V, N), NEW E,
         \A e \in E : e[1] \in N /\ e[2] \in N =>
           \E R : e[2] \in R /\ e[1] \notin R /\ Closed(N, E, R)
  PROVE  NoLoop(V, N, E)
<1> SUFFICES ASSUME NEW e \in E, e[1] \in N, e[2] \in N
             PROVE  e[1] \notin Following(V, N, E, e[2])
  BY DEF NoLoop
<1>1. PICK R : e[2] \in R /\ e[1] \notin R /\ Closed(N, E, R)
  OBVIOUS
<1>2. e[2] \in V
  BY DEF NetsOf
<1>3. Following(V, N, E, e[2]) \subseteq R
  BY <1>1, <1>2, FollowingFacts
<1> QED
  BY <1>1, <1>3

LEMMA EdgeOutside ==
  ASSUME NEW V, NEW N, NetsOf(V, N), NEW E, NoLoop(V, N, E), NEW e \in E,
         e[1] \in N, e[2] \in N
  PROVE  \E R \in SUBSET V : e[2] \in R /\ e[1] \notin R /\ Closed(N, E, R)
<1>1. e[2] \in V
  BY DEF NetsOf
<1>2. /\ e[2] \in Following(V, N, E, e[2])
      /\ Following(V, N, E, e[2]) \in SUBSET V
      /\ Closed(N, E, Following(V, N, E, e[2]))
  BY <1>1, FollowingFacts
<1>3. e[1] \notin Following(V, N, E, e[2])
  BY DEF NoLoop
<1> QED
  BY <1>2, <1>3

LEMMA NetAdded ==
  ASSUME NEW V, NEW N, NetsOf(V, N), NEW v
  PROVE  NetsOf(V \cup {v}, N \cup {v})
<1>1. IsFiniteSet(V \cup {v})
  BY FS_AddElement DEF NetsOf
<1> QED
  BY <1>1 DEF NetsOf

(* A new net with edges from it to other nets                              *)
LEMMA NewSourceFormsNoLoop ==
  ASSUME NEW V, NEW N, NetsOf(V, N), NEW E, EdgesOf(V, E), NoLoop(V, N, E),
         NEW v, v \notin V, NEW A, Within(A, N)
  PROVE  NoLoop(V \cup {v}, N \cup {v}, E \cup From(v, A))
<1> DEFINE F == E \cup From(v, A)
           M == N \cup {v}
<1>1. NetsOf(V \cup {v}, M)
  BY NetAdded
<1>2. A \subseteq V /\ N \subseteq V /\ E \subseteq V \X V
  BY DEF NetsOf, Within, EdgesOf
<1>3. ASSUME NEW R \in SUBSET V, Closed(N, E, R)
      PROVE  Closed(M, F, R)
  BY <1>2, <1>3 DEF Closed, From
<1>4. ASSUME NEW e \in F, e[1] \in M, e[2] \in M
      PROVE  \E R : e[2] \in R /\ e[1] \notin R /\ Closed(M, F, R)
  <2>1. CASE e \in E
    <3>1. e[1] \in N /\ e[2] \in N
      BY <1>2, <1>4, <2>1
    <3>2. PICK R \in SUBSET V : e[2] \in R /\ e[1] \notin R /\ Closed(N, E, R)
      BY <2>1, <3>1, EdgeOutside
    <3> QED
      BY <1>3, <3>2
  <2>2. CASE e \notin E
    <3>1. PICK a \in A : e = <<v, a>>
      BY <1>4, <2>2 DEF From
    <3>2. a \in V
      BY <1>2
    <3>3. /\ a \in Following(V, N, E, a)
          /\ Following(V, N, E, a) \in SUBSET V
          /\ Closed(N, E, Following(V, N, E, a))
      BY <3>2, FollowingFacts
    <3>4. e[1] \notin Following(V, N, E, a) /\ e[2] \in Following(V, N, E, a)
      BY <3>1, <3>3
    <3> QED
      BY <1>3, <3>3, <3>4
  <2> QED
    BY <2>1, <2>2
<1> HIDE DEF F, M
<1>5. NoLoop(V \cup {v}, M, F)
  BY <1>1, <1>4, NoLoopByClosedSets
<1> QED
  BY <1>5 DEF F, M

(* A new net with edges from other nets to it                              *)
LEMMA NewTargetFormsNoLoop ==
  ASSUME NEW V, NEW N, NetsOf(V, N), NEW E, EdgesOf(V, E), NoLoop(V, N, E),
         NEW v, v \notin V, NEW A, Within(A, N)
  PROVE  NoLoop(V \cup {v}, N \cup {v}, E \cup To(A, v))
<1> DEFINE F == E \cup To(A, v)
           M == N \cup {v}
<1>1. NetsOf(V \cup {v}, M)
  BY NetAdded
<1>2. A \subseteq V /\ N \subseteq V /\ E \subseteq V \X V
  BY DEF NetsOf, Within, EdgesOf
<1>3. \A w : <<v, w>> \notin F
  BY <1>2 DEF To
<1>4. ASSUME NEW R \in SUBSET V, Closed(N, E, R)
      PROVE  Closed(M, F, R \cup {v})
  BY <1>2, <1>3, <1>4 DEF Closed, To
<1>5. ASSUME NEW e \in F, e[1] \in M, e[2] \in M
      PROVE  \E R : e[2] \in R /\ e[1] \notin R /\ Closed(M, F, R)
  <2>1. CASE e \in E
    <3>1. e[1] \in N /\ e[2] \in N /\ e[1] # v
      BY <1>2, <1>5, <2>1
    <3>2. PICK R \in SUBSET V : e[2] \in R /\ e[1] \notin R /\ Closed(N, E, R)
      BY <2>1, <3>1, EdgeOutside
    <3>3. Closed(M, F, R \cup {v})
      BY <1>4, <3>2
    <3> QED
      BY <3>1, <3>2, <3>3
  <2>2. CASE e \notin E
    <3>1. PICK a \in A : e = <<a, v>>
      BY <1>5, <2>2 DEF To
    <3>2. Closed(M, F, {v})
      BY <1>3 DEF Closed
    <3>3. e[1] # v /\ e[2] = v
      BY <1>2, <3>1
    <3> QED
      BY <3>2, <3>3
  <2> QED
    BY <2>1, <2>2
<1> HIDE DEF F, M
<1>6. NoLoop(V \cup {v}, M, F)
  BY <1>1, <1>5, NoLoopByClosedSets
<1> QED
  BY <1>6 DEF F, M

(* New vertices that are no nets, and edges of one of them                 *)
LEMMA NewCellFormsNoLoop ==
  ASSUME NEW V, NEW N, NetsOf(V, N), NEW E, EdgesOf(V, E), NoLoop(V, N, E),
         NEW W, IsFiniteSet(W), V \subseteq W, NEW c, c \notin V,
         NEW F, E \subseteq F, \A e \in F : e \in E \/ e[1] = c \/ e[2] = c
  PROVE  NoLoop(W, N, F)
<1>1. NetsOf(W, N) /\ c \notin N
  BY DEF NetsOf
<1>2. ASSUME NEW R \in SUBSET V, Closed(N, E, R)
      PROVE  Closed(N, F, R)
  <2> SUFFICES ASSUME NEW u \in R, NEW w \in N, <<u, w>> \in F
               PROVE  w \in R
    BY DEF Closed
  <2>1. <<u, w>> \in E \/ <<u, w>>[1] = c \/ <<u, w>>[2] = c
    OBVIOUS
  <2>2. <<u, w>> \in E
    BY <1>1, <2>1
  <2> QED
    BY <1>2, <2>2 DEF Closed
<1>3. ASSUME NEW e \in F, e[1] \in N, e[2] \in N
      PROVE  \E R : e[2] \in R /\ e[1] \notin R /\ Closed(N, F, R)
  <2>1. e \in E
    BY <1>1, <1>3
  <2>2. PICK R \in SUBSET V : e[2] \in R /\ e[1] \notin R /\ Closed(N, E, R)
    BY <1>3, <2>1, EdgeOutside
  <2> QED
    BY <1>2, <2>2
<1> QED
  BY <1>1, <1>3, NoLoopByClosedSets

(* An edge from a vertex that the target does not reach                    *)
LEMMA EligibleFormsNoLoop ==
  ASSUME NEW V, NEW N, NetsOf(V, N), NEW E, EdgesOf(V, E), NoLoop(V, N, E),
         NEW v \in V, NEW s \in V, s \notin Following(V, N, E, v)
  PROVE  NoLoop(V, N, E \cup {<<s, v>>})
<1> DEFINE F == E \cup {<<s, v>>}
           Beyond == Following(V, N, E, v)
<1>1. /\ v \in Beyond /\ s \notin Beyond /\ Closed(N, E, Beyond)
      /\ \A R : v \in R /\ Closed(N, E, R) => Beyond \subseteq R
  BY FollowingFacts
<1> HIDE DEF Beyond
<1>2. Closed(N, F, Beyond)
  BY <1>1 DEF Closed
<1>3. ASSUME NEW e \in F, e[1] \in N, e[2] \in N
      PROVE  \E R : e[2] \in R /\ e[1] \notin R /\ Closed(N, F, R)
  <2>1. CASE e = <<s, v>>
    BY <1>1, <1>2, <2>1
  <2>2. CASE e \in E /\ e[1] \in Beyond
    <3>1. PICK R \in SUBSET V : e[2] \in R /\ e[1] \notin R /\ Closed(N, E, R)
      BY <1>3, <2>2, EdgeOutside
    <3> DEFINE Q == R \cap Beyond
    <3>2. Closed(N, F, Q)
      BY <1>1, <3>1 DEF Closed
    <3>3. e[2] \in Beyond
      <4>1. <<e[1], e[2]>> \in E
        BY <2>2 DEF EdgesOf
      <4> QED
        BY <1>1, <1>3, <2>2, <4>1 DEF Closed
    <3> QED
      BY <3>1, <3>2, <3>3
  <2>3. CASE e \in E /\ e[1] \notin Beyond
    <3>1. PICK R \in SUBSET V : e[2] \in R /\ e[1] \notin R /\ Closed(N, E, R)
      BY <1>3, <2>3, EdgeOutside
    <3>2. Closed(N, F, R \cup Beyond)
      BY <1>1, <3>1 DEF Closed
    <3> QED
      BY <2>3, <3>1, <3>2
  <2> QED
    BY <1>3, <2>1, <2>2, <2>3
<1> HIDE DEF F
<1>4. NoLoop(V, N, F)
  BY <1>3, NoLoopByClosedSets
<1> QED
  BY <1>4 DEF F

(* A finite set of nets that form no loop has one that gets nothing from   *)
(* the others: the one from which most can be reached.                     *)
LEMMA NetsHaveAFirst ==
  ASSUME NEW V, NEW N, NetsOf(V, N), NEW E, NoLoop(V, N, E), NEW Y \in SUBSET N, Y # {}
  PROVE  \E u \in Y : \A s \in Y : <<s, u>> \notin E
<1> DEFINE Beyond(u) == Following(V, N, E, u)
           Left(u) == Cardinality(V) - Cardinality(Beyond(u))
<1>1. ASSUME NEW u \in Y
      PROVE  /\ u \in Beyond(u) /\ Beyond(u) \in SUBSET V /\ Closed(N, E, Beyond(u))
             /\ \A R : u \in R /\ Closed(N, E, R) => Beyond(u) \subseteq R
  <2>1. u \in V
    BY DEF NetsOf
  <2> QED
    BY <2>1, FollowingFacts
<1>2. ASSUME NEW u \in Y
      PROVE  /\ IsFiniteSet(Beyond(u)) /\ Left(u) \in Nat
             /\ Cardinality(V) \in Nat /\ Cardinality(Beyond(u)) \in Nat
  <2>1. Beyond(u) \in SUBSET V
    BY <1>1
  <2> HIDE DEF Beyond
  <2>2. IsFiniteSet(Beyond(u)) /\ Cardinality(Beyond(u)) <= Cardinality(V)
    BY <2>1, FS_Subset DEF NetsOf
  <2>3. Cardinality(Beyond(u)) \in Nat /\ Cardinality(V) \in Nat
    BY <2>2, FS_CardinalityType DEF NetsOf
  <2> QED
    BY <2>2, <2>3
<1> HIDE DEF Beyond
<1>3. PICK u \in Y : \A w \in Y : Left(u) <= Left(w)
  <2> DEFINE Values == {Left(w) : w \in Y}
  <2>1. Values \in SUBSET Nat /\ Values # {}
    BY <1>2
  <2>2. PICK m \in Values : \A n \in Values : m <= n
    <3> HIDE DEF Values
    <3> QED
      BY <2>1, LeastElement
  <2> QED
    BY <2>2
<1>4. ASSUME NEW s \in Y, <<s, u>> \in E
      PROVE  FALSE
  <2>1. s \notin Beyond(u)
    <3>1. s \in N /\ u \in N
      OBVIOUS
    <3>2. <<s, u>>[1] = s /\ <<s, u>>[2] = u
      OBVIOUS
    <3> QED
      BY <1>4, <3>1, <3>2 DEF NoLoop, Beyond
  <2>2. u \in Beyond(s)
    <3>1. s \in Beyond(s) /\ Closed(N, E, Beyond(s))
      BY <1>1
    <3> QED
      BY <1>4, <3>1 DEF Closed
  <2>3. Beyond(u) \in SUBSET Beyond(s)
    BY <1>1, <2>2
  <2>4. s \in Beyond(s)
    BY <1>1
  <2>5. /\ Cardinality(Beyond(u)) <= Cardinality(Beyond(s))
        /\ Cardinality(Beyond(s)) = Cardinality(Beyond(u)) => Beyond(s) = Beyond(u)
    BY <1>2, <2>3, FS_Subset
  <2>6. Cardinality(Beyond(u)) # Cardinality(Beyond(s))
    BY <2>1, <2>4, <2>5
  <2>7. Left(u) <= Left(s)
    BY <1>3
  <2> QED
    BY <1>2, <2>5, <2>6, <2>7
<1> QED
  BY <1>4

-----------------------------------------------------------------------------
(* Places. Its place among the numbers of a finite set numbers the members *)
(* of the set from one on, without gaps: so a cell gives each port that    *)
(* needs a vertex one of its own.                                          *)
PlaceIn(S, j) == Cardinality({k \in S : k <= j})

LEMMA PlaceFacts ==
  ASSUME NEW S \in SUBSET Nat, IsFiniteSet(S), NEW j \in S
  PROVE  PlaceIn(S, j) \in 1 .. Cardinality(S)
<1> DEFINE upTo == {k \in S : k <= j}
<1>1. upTo \in SUBSET S /\ j \in upTo
  OBVIOUS
<1> HIDE DEF upTo
<1>2. IsFiniteSet(upTo) /\ Cardinality(upTo) <= Cardinality(S)
  BY <1>1, FS_Subset
<1>3. Cardinality(upTo) \in Nat /\ Cardinality(upTo) # 0 /\ Cardinality(S) \in Nat
  BY <1>1, <1>2, FS_EmptySet, FS_CardinalityType
<1> QED
  BY <1>2, <1>3 DEF PlaceIn, upTo

LEMMA PlacesDiffer ==
  ASSUME NEW S \in SUBSET Nat, IsFiniteSet(S), NEW i \in S, NEW j \in S, i < j
  PROVE  PlaceIn(S, i) # PlaceIn(S, j)
<1> DEFINE upToI == {k \in S : k <= i}
           upToJ == {k \in S : k <= j}
<1>1. upToI \in SUBSET upToJ /\ upToJ \in SUBSET S /\ j \in upToJ /\ j \notin upToI
  <2>1. i \in Nat /\ j \in Nat /\ \A k \in S : k \in Nat
    OBVIOUS
  <2>2. \A k \in Nat : k <= i => k <= j
    BY <2>1
  <2>3. ~(j <= i)
    BY <2>1
  <2>4. j <= j
    BY <2>1
  <2> QED
    BY <2>1, <2>2, <2>3, <2>4, Zenon
<1> HIDE DEF upToI, upToJ
<1>2. IsFiniteSet(upToJ)
  BY <1>1, FS_Subset
<1>3. Cardinality(upToJ) = Cardinality(upToI) => upToJ = upToI
  BY <1>1, <1>2, FS_Subset
<1> QED
  BY <1>1, <1>3 DEF PlaceIn, upToI, upToJ

LEMMA PlacesAreTaken ==
  ASSUME NEW S \in SUBSET Nat, IsFiniteSet(S), NEW p \in 1 .. Cardinality(S)
  PROVE  \E j \in S : PlaceIn(S, j) = p
<1> DEFINE n == Cardinality(S)
           f == [j \in S |-> PlaceIn(S, j)]
<1>1. n \in Nat
  BY FS_CardinalityType
<1>2. IsFiniteSet(1 .. n) /\ Cardinality(1 .. n) = n
  BY <1>1, FS_Interval
<1>3. f \in [S -> 1 .. n]
  BY PlaceFacts
<1>4. ASSUME NEW i \in S, NEW j \in S, f[i] = f[j]
      PROVE  i = j
  <2>1. ~(i < j) /\ ~(j < i)
    BY <1>4, PlacesDiffer
  <2> QED
    BY <2>1
<1> HIDE DEF f, n
<1>5. f \in Injection(S, 1 .. n)
  BY <1>3, <1>4 DEF Injection, IsInjective
<1>6. f \in Surjection(S, 1 .. n)
  BY <1>2, <1>5, FS_Injection DEF n
<1> QED
  BY <1>6 DEF Surjection, n, f

LEMMA PlaceIsUnique ==
  ASSUME NEW S \in SUBSET Nat, IsFiniteSet(S), NEW i \in S, NEW j \in S,
         PlaceIn(S, i) = PlaceIn(S, j)
  PROVE  i = j
<1>1. ~(i < j) /\ ~(j < i)
  BY PlacesDiffer
<1> QED
  BY <1>1

-----------------------------------------------------------------------------
(* The graph of a module.                                                  *)
Nets == PlainNets \cup PortNets

LEMMA FollowIsFollowing ==
  \A v : Follow(v) = Following(Vertices, Nets, edges, v)
BY DEF Follow, Following, Onward, Onwards, Nets

LEMMA LoopsAreLoops == NetsFormNoLoop <=> NoLoop(Vertices, Nets, edges)
<1>1. NoLoop(Vertices, Nets, edges) <=>
        \A e \in edges : e[1] \in Nets /\ e[2] \in Nets => e[1] \notin Follow(e[2])
  BY FollowIsFollowing DEF NoLoop
<1>2. \A e : {e[1], e[2]} \subseteq Nets <=> e[1] \in Nets /\ e[2] \in Nets
  OBVIOUS
<1> QED
  BY <1>1, <1>2 DEF NetsFormNoLoop, Nets

(* The sequence of vertices grows at its end.                              *)
IsSequence(s) == s \in Seq({s[i] : i \in DOMAIN s})

LEMMA SequenceFacts ==
  ASSUME NEW s, IsSequence(s)
  PROVE  /\ Len(s) \in Nat /\ DOMAIN s = 1 .. Len(s)
         /\ Len(s) + 1 \notin DOMAIN s
         /\ IsFiniteSet(DOMAIN s)
<1>1. Len(s) \in Nat /\ DOMAIN s = 1 .. Len(s)
  BY DEF IsSequence
<1>2. IsFiniteSet(1 .. Len(s))
  BY <1>1, FS_Interval
<1> QED
  BY <1>1, <1>2

LEMMA ElementOfSeq ==
  ASSUME NEW S, NEW s \in Seq(S), NEW i \in DOMAIN s
  PROVE  s[i] \in S
OBVIOUS

LEMMA AppendFacts ==
  ASSUME NEW s, IsSequence(s), NEW x
  PROVE  /\ IsSequence(Append(s, x))
         /\ DOMAIN Append(s, x) = DOMAIN s \cup {Len(s) + 1}
         /\ Append(s, x)[Len(s) + 1] = x
         /\ \A i \in DOMAIN s : Append(s, x)[i] = s[i]
<1> DEFINE T == {s[i] : i \in DOMAIN s} \cup {x}
           t == Append(s, x)
<1>1. s \in Seq(T)
  BY DEF IsSequence
<1>2. Len(s) \in Nat /\ DOMAIN s = 1 .. Len(s)
  BY SequenceFacts
<1> HIDE DEF T
<1>3. x \in T
  BY DEF T
<1>4. /\ DOMAIN t = DOMAIN s \cup {Len(s) + 1}
      /\ t[Len(s) + 1] = x
      /\ \A i \in DOMAIN s : t[i] = s[i]
      /\ t \in Seq(T)
      /\ Len(t) = Len(s) + 1
  BY <1>1, <1>2, <1>3
<1>5. t \in Seq({t[i] : i \in DOMAIN t})
  <2> HIDE DEF t
  <2>1. t = [i \in 1 .. Len(t) |-> t[i]] /\ Len(t) \in Nat /\ DOMAIN t = 1 .. Len(t)
    BY <1>4
  <2>2. t \in [1 .. Len(t) -> {t[i] : i \in DOMAIN t}]
    BY <2>1
  <2> QED
    BY <2>1, <2>2
<1> QED
  BY <1>4, <1>5 DEF IsSequence

IsRow(f, n) == f = [k \in 1 .. n |-> f[k]]

LEMMA ConcatFacts ==
  ASSUME NEW s, IsSequence(s), NEW n \in Nat, NEW f, IsRow(f, n)
  PROVE  /\ IsSequence(s \o f)
         /\ DOMAIN (s \o f) = 1 .. Len(s) + n
         /\ \A i \in DOMAIN s : (s \o f)[i] = s[i]
         /\ \A k \in 1 .. n : (s \o f)[Len(s) + k] = f[k]
<1> DEFINE T == {s[i] : i \in DOMAIN s} \cup {f[k] : k \in 1 .. n}
           t == s \o f
<1>1. s \in Seq(T)
  BY DEF IsSequence
<1>2. Len(s) \in Nat /\ DOMAIN s = 1 .. Len(s)
  BY SequenceFacts
<1>3. f \in [1 .. n -> T]
  BY DEF IsRow
<1> HIDE DEF T
<1>4. f \in Seq(T) /\ Len(f) = n
  BY <1>3
<1>5. /\ DOMAIN t = 1 .. Len(s) + n
      /\ \A i \in DOMAIN s : t[i] = s[i]
      /\ \A k \in 1 .. n : t[Len(s) + k] = f[k]
      /\ t \in Seq(T)
      /\ Len(t) = Len(s) + n
  BY <1>1, <1>2, <1>4
<1>6. t \in Seq({t[i] : i \in DOMAIN t})
  <2> HIDE DEF t
  <2>1. t = [i \in 1 .. Len(t) |-> t[i]] /\ Len(t) \in Nat /\ DOMAIN t = 1 .. Len(t)
    BY <1>2, <1>5
  <2>2. t \in [1 .. Len(t) -> {t[i] : i \in DOMAIN t}]
    BY <2>1
  <2> QED
    BY <2>1, <2>2
<1> QED
  BY <1>5, <1>6 DEF IsSequence

-----------------------------------------------------------------------------
(* The inductive invariant of the loops                                    *)
GraphInv ==
  /\ module \in Modules
  /\ IsSequence(vertices)
  /\ EdgesOf(Vertices, edges)
  /\ next \in Nat \ {0}
  /\ NoLoop(Vertices, Nets, edges)

LEMMA GraphFacts ==
  ASSUME IsSequence(vertices)
  PROVE  /\ Vertices = 1 .. Len(vertices) /\ Len(vertices) \in Nat
         /\ NetsOf(Vertices, Nets)
         /\ Len(vertices) + 1 \notin Vertices
  BY SequenceFacts DEF Vertices, NetsOf, Nets, PlainNets, PortNets

LEMMA LoopsStayLoops == NetsFormNoLoop' <=> NoLoop(Vertices, Nets, edges)'
<1>1. NetsFormNoLoop <=> NoLoop(Vertices, Nets, edges)
  BY LoopsAreLoops
<1> QED
  BY <1>1, PTL

LEMMA InitGraph == Init => GraphInv
<1> SUFFICES ASSUME Init
             PROVE  GraphInv
  OBVIOUS
<1>1. vertices = <<>> /\ edges = {} /\ next = 1 /\ module \in Modules
  BY DEF Init
<1>2. IsSequence(vertices)
  BY <1>1 DEF IsSequence
<1>3. NoLoop(Vertices, Nets, edges)
  BY <1>1 DEF NoLoop
<1> QED
  BY <1>1, <1>2, <1>3 DEF GraphInv, EdgesOf

LEMMA AddNetFacts ==
  ASSUME GraphInv, AddNet
  PROVE  \E net, v, A :
           /\ net = module.nets[next] /\ next \in 1 .. Len(module.nets)
           /\ v = Len(vertices) + 1
           /\ A = WithBits(PlainNets, net.bits)
           /\ IsSequence(vertices')
           /\ Vertices' = Vertices \cup {v}
           /\ vertices'[v] = [type |-> "net", port |-> net.port, bits |-> net.bits, cell |-> 0]
           /\ \A u \in Vertices : vertices'[u] = vertices[u]
           /\ edges' = edges \cup IF net.port = "input" THEN From(v, A)
                                  ELSE IF net.port = "output" THEN To(A, v)
                                  ELSE {}
<1> DEFINE net == module.nets[next]
           v == Len(vertices) + 1
           A == WithBits(PlainNets, net.bits)
           new == [type |-> "net", port |-> net.port, bits |-> net.bits, cell |-> 0]
<1>1. vertices' = Append(vertices, new)
  BY DEF AddNet
<1>2. edges' = edges \cup IF net.port = "input" THEN From(v, A)
                          ELSE IF net.port = "output" THEN To(A, v)
                          ELSE {}
  BY DEF AddNet, From, To
<1>3. next \in 1 .. Len(module.nets)
  <2>1. module.nets \in Seq([bits : Seq(Nat), port : Directions \cup {"none"}])
    BY ModulesAssumption DEF GraphInv
  <2>2. Len(module.nets) \in Nat
    BY <2>1
  <2> QED
    BY <2>2 DEF GraphInv, AddNet
<1> HIDE DEF new
<1>4. /\ IsSequence(vertices')
      /\ Vertices' = Vertices \cup {v}
      /\ vertices'[v] = new
      /\ \A u \in Vertices : vertices'[u] = vertices[u]
  BY <1>1, AppendFacts DEF GraphInv, Vertices
<1> HIDE DEF net, v, A
<1> QED
  BY <1>2, <1>3, <1>4 DEF net, v, A, new

LEMMA NetsAfterAddNet ==
  ASSUME NEW v, v \notin Vertices, Vertices' = Vertices \cup {v}, vertices'[v].type = "net",
         \A u \in Vertices : vertices'[u] = vertices[u]
  PROVE  Nets' = Nets \cup {v}
BY DEF Nets, PlainNets, PortNets

LEMMA AddNetKeepsGraph == GraphInv /\ AddNet => GraphInv'
<1> SUFFICES ASSUME GraphInv, AddNet
             PROVE  GraphInv'
  OBVIOUS
<1>1. PICK net, v, A :
        /\ v = Len(vertices) + 1
        /\ A = WithBits(PlainNets, net.bits)
        /\ IsSequence(vertices')
        /\ Vertices' = Vertices \cup {v}
        /\ vertices'[v] = [type |-> "net", port |-> net.port, bits |-> net.bits, cell |-> 0]
        /\ \A u \in Vertices : vertices'[u] = vertices[u]
        /\ edges' = edges \cup IF net.port = "input" THEN From(v, A)
                               ELSE IF net.port = "output" THEN To(A, v)
                               ELSE {}
  BY AddNetFacts
<1>2. v \notin Vertices /\ NetsOf(Vertices, Nets)
  BY <1>1, GraphFacts DEF GraphInv
<1>3. Within(A, Nets) /\ A \subseteq Vertices
  BY <1>1 DEF WithBits, PlainNets, Nets, Within
<1>4. Nets' = Nets \cup {v}
  BY <1>1, <1>2, NetsAfterAddNet
<1>5. EdgesOf(Vertices, edges) /\ NoLoop(Vertices, Nets, edges)
  BY DEF GraphInv
<1>6. NoLoop(Vertices, Nets, edges)'
  <2>1. CASE net.port = "input"
    BY <1>1, <1>2, <1>3, <1>4, <1>5, <2>1, NewSourceFormsNoLoop
  <2>2. CASE net.port = "output"
    BY <1>1, <1>2, <1>3, <1>4, <1>5, <2>2, NewTargetFormsNoLoop
  <2>3. CASE net.port \notin Directions
    <3>1. edges' = edges \cup From(v, {})
      BY <1>1, <2>3 DEF Directions, From
    <3>2. Within({}, Nets)
      BY DEF Within
    <3>3. NoLoop(Vertices \cup {v}, Nets \cup {v}, edges \cup From(v, {}))
      BY <1>2, <1>5, <3>2, NewSourceFormsNoLoop
    <3> QED
      BY <1>1, <1>4, <3>1, <3>3
  <2> QED
    BY <2>1, <2>2, <2>3 DEF Directions
<1>7. EdgesOf(Vertices, edges)'
  BY <1>1, <1>3, <1>5 DEF EdgesOf, From, To
<1>8. module' = module /\ next' = next + 1
  BY DEF AddNet
<1> QED
  BY <1>1, <1>6, <1>7, <1>8 DEF GraphInv

(* What a cell adds: itself, vertices of its own, and edges between it and *)
(* these or nets of exactly the bits of one of its ports.                  *)
EndsAt(ports, j, v, c, n) ==
  \/ v \in c + 1 .. c + n
  \/ v \in NetsFor(ports[j].bits)

CellAdded(ports, c, n, F) ==
  /\ ports = module.cells[next] /\ next \in DOMAIN module.cells
  /\ c = Len(vertices) + 1 /\ n \in Nat
  /\ IsSequence(vertices')
  /\ Vertices' = 1 .. c + n
  /\ vertices'[c] = [type |-> "cell", port |-> "none", bits |-> <<>>, cell |-> next]
  /\ \A v \in Vertices : vertices'[v] = vertices[v]
  /\ \A v \in c + 1 .. c + n : vertices'[v].type = "cellPort"
  /\ edges' = edges \cup F
  /\ \A e \in F : \E j \in DOMAIN ports : \E v :
       /\ EndsAt(ports, j, v, c, n)
       /\ IF ports[j].dir = "input" THEN e = <<v, c>> ELSE e = <<c, v>>

(* A port ends at a vertex of exactly its bits, and each vertex of its own *)
(* is the end of a port.                                                   *)
PortEnd(p, v, c, n) ==
  /\ vertices'[v].bits = p.bits
  /\ v \in NetsFor(p.bits) \/ (v \in c + 1 .. c + n /\ vertices'[v].port = p.dir)

PortEdge(p, v, c) == IF p.dir = "input" THEN <<v, c>> ELSE <<c, v>>

PortsEnd(ports, c, n) ==
  \A j \in DOMAIN ports : \E v :
    PortEnd(ports[j], v, c, n) /\ PortEdge(ports[j], v, c) \in edges'

EdgesArePorts(ports, c, n, F) ==
  \A e \in F : \E j \in DOMAIN ports : \E v :
    PortEnd(ports[j], v, c, n) /\ e = PortEdge(ports[j], v, c)

OwnArePorts(ports, c, n) ==
  \A v \in c + 1 .. c + n : \E j \in DOMAIN ports :
    PortEnd(ports[j], v, c, n) /\ PortEdge(ports[j], v, c) \in edges'

CellWired(ports, c, n, F) ==
  PortsEnd(ports, c, n) /\ EdgesArePorts(ports, c, n, F) /\ OwnArePorts(ports, c, n)

LEMMA AddCellFacts ==
  ASSUME GraphInv, AddCell
  PROVE  \E ports, c, n, F : CellAdded(ports, c, n, F) /\ CellWired(ports, c, n, F)
<1> DEFINE ports == module.cells[next]
           c == Len(vertices) + 1
           own == {j \in DOMAIN ports : NetsFor(ports[j].bits) = {}}
           OwnVertex(j) == c + Cardinality({k \in own : k <= j})
           PortAt(v) == ports[CHOOSE j \in own : OwnVertex(j) = v]
           Ends(j) == IF j \in own THEN {OwnVertex(j)} ELSE NetsFor(ports[j].bits)
           Edge(j, v) == IF ports[j].dir = "input" THEN <<v, c>> ELSE <<c, v>>
           n == Cardinality(own)
           cell == [type |-> "cell", port |-> "none", bits |-> <<>>, cell |-> next]
           new == [k \in 1 .. n |->
                     [type |-> "cellPort", port |-> PortAt(c + k).dir,
                      bits |-> PortAt(c + k).bits, cell |-> next]]
<1>1. vertices' = vertices \o <<cell>> \o new
  BY DEF AddCell
<1>2. \E end \in [DOMAIN ports -> UNION {Ends(j) : j \in DOMAIN ports}] :
         /\ \A j \in DOMAIN ports : end[j] \in Ends(j)
         /\ edges' = edges \cup {Edge(j, end[j]) : j \in DOMAIN ports}
  BY DEF AddCell
<1>3. /\ next \in DOMAIN module.cells
      /\ DOMAIN ports \subseteq Nat /\ IsFiniteSet(DOMAIN ports)
  <2>1. module.cells \in Seq(Seq([bits : Seq(Nat), dir : Directions]))
    BY ModulesAssumption DEF GraphInv
  <2>2. next \in 1 .. Len(module.cells)
    <3>1. next <= Len(module.cells)
      BY DEF AddCell
    <3>2. Len(module.cells) \in Nat
      BY <2>1
    <3> QED
      BY <3>1, <3>2 DEF GraphInv
  <2>3. ports \in Seq([bits : Seq(Nat), dir : Directions])
    BY <2>1, <2>2
  <2>4. Len(ports) \in Nat /\ DOMAIN ports = 1 .. Len(ports)
    BY <2>3
  <2> HIDE DEF ports
  <2>5. IsFiniteSet(1 .. Len(ports))
    BY <2>4, FS_Interval
  <2> QED
    BY <2>1, <2>2, <2>4, <2>5
<1>4. Len(vertices) \in Nat /\ Vertices = 1 .. Len(vertices)
  BY GraphFacts DEF GraphInv
<1>5. IsFiniteSet(own)
  BY <1>3, FS_Subset
<1>6. n \in Nat
  BY <1>5, FS_CardinalityType
<1> HIDE DEF ports
<1>7. ASSUME NEW j \in own
      PROVE  OwnVertex(j) \in c + 1 .. c + n
  <2> DEFINE upTo == {k \in own : k <= j}
  <2>1. upTo \subseteq own
    OBVIOUS
  <2>2. j \in upTo
    BY <1>3
  <2> HIDE DEF own
  <2>3. IsFiniteSet(upTo) /\ Cardinality(upTo) <= n
    BY <1>5, <2>1, FS_Subset
  <2>4. Cardinality(upTo) \in Nat \ {0}
    BY <2>2, <2>3, FS_EmptySet, FS_CardinalityType
  <2> HIDE DEF upTo, n
  <2>5. c + Cardinality(upTo) \in c + 1 .. c + n
    BY <1>4, <1>6, <2>3, <2>4
  <2> QED
    BY <2>5 DEF upTo
<1> DEFINE F == edges' \ edges
<1>8. edges' = edges \cup F
  BY <1>2
<1>9. ASSUME NEW e \in F
      PROVE  \E j \in DOMAIN ports : \E v :
               /\ EndsAt(ports, j, v, c, n)
               /\ IF ports[j].dir = "input" THEN e = <<v, c>> ELSE e = <<c, v>>
  <2>1. PICK end : /\ \A j \in DOMAIN ports : end[j] \in Ends(j)
                   /\ edges' = edges \cup {Edge(j, end[j]) : j \in DOMAIN ports}
    BY <1>2
  <2>2. PICK j \in DOMAIN ports : e = Edge(j, end[j])
    BY <2>1
  <2>3. end[j] \in Ends(j)
    BY <2>1
  <2> HIDE DEF n
  <2>4. EndsAt(ports, j, end[j], c, n)
    <3>1. CASE j \in own
      BY <1>7, <2>3, <3>1 DEF EndsAt
    <3>2. CASE j \notin own
      BY <2>3, <3>2 DEF EndsAt
    <3> QED
      BY <3>1, <3>2
  <2> QED
    BY <2>2, <2>4
<1> HIDE DEF own, n, F, PortAt
<1>10. /\ IsSequence(vertices')
       /\ Vertices' = 1 .. c + n
       /\ vertices'[c] = cell
       /\ \A v \in Vertices : vertices'[v] = vertices[v]
       /\ \A v \in c + 1 .. c + n : vertices'[v].type = "cellPort"
       /\ \A k \in 1 .. n : vertices'[c + k] = new[k]
  <2> DEFINE mid == vertices \o <<cell>>
  <2>1. /\ IsSequence(mid)
        /\ DOMAIN mid = 1 .. c
        /\ mid[c] = cell
        /\ \A v \in Vertices : mid[v] = vertices[v]
    <3> DEFINE one == <<cell>>
    <3>1. one \in Seq({cell}) /\ Len(one) = 1 /\ one[1] = cell
      OBVIOUS
    <3> HIDE DEF one
    <3>2. IsRow(one, 1)
      BY <3>1 DEF IsRow
    <3>3. IsSequence(vertices) /\ 1 \in Nat
      BY DEF GraphInv
    <3>4. /\ IsSequence(vertices \o one)
          /\ DOMAIN (vertices \o one) = 1 .. Len(vertices) + 1
          /\ \A i \in DOMAIN vertices : (vertices \o one)[i] = vertices[i]
          /\ \A k \in 1 .. 1 : (vertices \o one)[Len(vertices) + k] = one[k]
      BY <3>2, <3>3, ConcatFacts
    <3> QED
      BY <1>4, <3>1, <3>4 DEF Vertices, one
  <2> HIDE DEF mid
  <2>2. Len(mid) = c
    BY <1>4, <2>1, SequenceFacts
  <2>3. IsRow(new, n) /\ \A k \in 1 .. n : new[k].type = "cellPort"
    BY DEF IsRow
  <2>4. vertices' = mid \o new
    BY <1>1 DEF mid
  <2> HIDE DEF new
  <2>5. /\ IsSequence(vertices')
        /\ Vertices' = 1 .. c + n
        /\ \A v \in DOMAIN mid : vertices'[v] = mid[v]
        /\ \A k \in 1 .. n : vertices'[c + k] = new[k]
    <3>1. /\ IsSequence(mid \o new)
          /\ DOMAIN (mid \o new) = 1 .. Len(mid) + n
          /\ \A i \in DOMAIN mid : (mid \o new)[i] = mid[i]
          /\ \A k \in 1 .. n : (mid \o new)[Len(mid) + k] = new[k]
      BY <1>6, <2>1, <2>3, ConcatFacts
    <3> QED
      BY <2>2, <2>4, <3>1 DEF Vertices
  <2>6. \A v \in c + 1 .. c + n : vertices'[v].type = "cellPort"
    <3> SUFFICES ASSUME NEW v \in c + 1 .. c + n
                 PROVE  vertices'[v].type = "cellPort"
      OBVIOUS
    <3>1. v - c \in 1 .. n /\ v = c + (v - c)
      BY <1>4, <1>6
    <3> QED
      BY <2>3, <2>5, <3>1
  <2> QED
    BY <1>4, <2>1, <2>5, <2>6
<1>11. ports = module.cells[next] /\ c = Len(vertices) + 1
  BY DEF ports
<1>12. own \in SUBSET Nat /\ own \in SUBSET DOMAIN ports
  BY <1>3 DEF own
<1> HIDE DEF c
<1>13. ASSUME NEW j \in own
       PROVE  /\ vertices'[OwnVertex(j)].bits = ports[j].bits
              /\ vertices'[OwnVertex(j)].port = ports[j].dir
  <2> DEFINE k == PlaceIn(own, j)
  <2>1. k \in 1 .. n
    BY <1>5, <1>12, PlaceFacts DEF n
  <2>2. \A i \in own : OwnVertex(i) = c + PlaceIn(own, i)
    BY DEF PlaceIn
  <2>3. ASSUME NEW i \in own, OwnVertex(i) = c + k
        PROVE  i = j
    <3>1. PlaceIn(own, i) \in 1 .. n
      BY <1>5, <1>12, PlaceFacts DEF n
    <3>2. c + PlaceIn(own, i) = c + k
      BY <2>2, <2>3
    <3> HIDE DEF k
    <3>3. PlaceIn(own, i) = k
      BY <1>4, <1>6, <1>11, <2>1, <3>1, <3>2
    <3> QED
      BY <1>5, <1>12, <3>3, PlaceIsUnique DEF k
  <2>4. OwnVertex(j) = c + k
    BY <2>2
  <2> HIDE DEF k, OwnVertex
  <2>5. (CHOOSE i \in own : OwnVertex(i) = c + k) = j
    BY <2>3, <2>4
  <2>6. PortAt(c + k) = ports[j]
    BY <2>5 DEF PortAt
  <2>7. vertices'[c + k] = new[k]
    BY <1>10, <2>1
  <2> QED
    BY <2>1, <2>4, <2>6, <2>7
<1>14. ASSUME NEW j \in DOMAIN ports, NEW v \in Ends(j)
       PROVE  PortEnd(ports[j], v, c, n)
  <2>1. CASE j \in own
    <3>1. v = OwnVertex(j) /\ v \in c + 1 .. c + n
      BY <1>7, <1>14, <2>1
    <3> QED
      BY <1>13, <2>1, <3>1 DEF PortEnd
  <2>2. CASE j \notin own
    <3>1. v \in NetsFor(ports[j].bits)
      BY <1>14, <2>2
    <3>2. v \in Vertices /\ vertices[v].bits = ports[j].bits
      BY <3>1 DEF NetsFor, WithBits, PlainNets, PortNets
    <3> QED
      BY <1>10, <3>1, <3>2 DEF PortEnd
  <2> QED
    BY <2>1, <2>2
<1>15. \A j \in DOMAIN ports : \A v : Edge(j, v) = PortEdge(ports[j], v, c)
  BY DEF PortEdge
<1>16. PICK end : /\ \A j \in DOMAIN ports : end[j] \in Ends(j)
                  /\ edges' = edges \cup {Edge(j, end[j]) : j \in DOMAIN ports}
  BY <1>2 DEF c
<1> HIDE DEF Ends, Edge
<1>17. PortsEnd(ports, c, n)
  BY <1>14, <1>15, <1>16 DEF PortsEnd
<1>18. EdgesArePorts(ports, c, n, F)
  <2> SUFFICES ASSUME NEW e \in F
               PROVE  \E j \in DOMAIN ports : \E v :
                        PortEnd(ports[j], v, c, n) /\ e = PortEdge(ports[j], v, c)
    BY DEF EdgesArePorts
  <2>1. PICK j \in DOMAIN ports : e = Edge(j, end[j])
    BY <1>16 DEF F
  <2> QED
    BY <1>14, <1>15, <1>16, <2>1
<1>19. OwnArePorts(ports, c, n)
  <2> SUFFICES ASSUME NEW v \in c + 1 .. c + n
               PROVE  \E j \in DOMAIN ports :
                        PortEnd(ports[j], v, c, n) /\ PortEdge(ports[j], v, c) \in edges'
    BY DEF OwnArePorts
  <2>1. v - c \in 1 .. n /\ v = c + (v - c)
    BY <1>4, <1>6, <1>11
  <2>2. PICK j \in own : PlaceIn(own, j) = v - c
    BY <1>5, <1>12, <2>1, PlacesAreTaken DEF n
  <2>3. OwnVertex(j) = v
    BY <2>1, <2>2 DEF PlaceIn
  <2>4. j \in DOMAIN ports /\ end[j] = v
    BY <1>12, <1>16, <2>3 DEF Ends
  <2>5. Edge(j, v) \in edges'
    BY <1>16, <2>4
  <2>6. PortEnd(ports[j], v, c, n)
    BY <1>14, <1>16, <2>4
  <2> QED
    BY <1>15, <2>4, <2>5, <2>6
<1>20. CellAdded(ports, c, n, F)
  BY <1>3, <1>6, <1>8, <1>9, <1>10, <1>11 DEF CellAdded
<1> QED
  BY <1>17, <1>18, <1>19, <1>20 DEF CellWired

LEMMA CellVertices ==
  ASSUME GraphInv, NEW ports, NEW c, NEW n, NEW F, CellAdded(ports, c, n, F)
  PROVE  /\ Vertices \subseteq Vertices' /\ c \notin Vertices /\ c \in Vertices'
         /\ c + 1 .. c + n \subseteq Vertices' /\ c \notin c + 1 .. c + n
         /\ \A v \in Vertices' : v \in Vertices \/ v = c \/ v \in c + 1 .. c + n
         /\ \A v \in c + 1 .. c + n : v \notin Vertices
         /\ IsFiniteSet(Vertices')
         /\ PlainNets' = PlainNets /\ PortNets' = PortNets
<1>1. Vertices = 1 .. Len(vertices) /\ Len(vertices) \in Nat
  BY GraphFacts DEF GraphInv
<1>2. c = Len(vertices) + 1 /\ n \in Nat /\ Vertices' = 1 .. c + n
  BY DEF CellAdded
<1>3. IsFiniteSet(Vertices')
  BY <1>1, <1>2, FS_Interval
<1>4. /\ Vertices \subseteq Vertices' /\ c \notin Vertices /\ c \in Vertices'
      /\ c + 1 .. c + n \subseteq Vertices' /\ c \notin c + 1 .. c + n
      /\ \A v \in Vertices' : v \in Vertices \/ v = c \/ v \in c + 1 .. c + n
      /\ \A v \in c + 1 .. c + n : v \notin Vertices
  BY <1>1, <1>2
<1>5. \A v \in Vertices' : \/ v \in Vertices /\ vertices'[v] = vertices[v]
                           \/ v \notin Vertices /\ vertices'[v].type # "net"
  BY <1>4 DEF CellAdded
<1>6. PlainNets' = PlainNets /\ PortNets' = PortNets
  BY <1>4, <1>5 DEF PlainNets, PortNets
<1> QED
  BY <1>3, <1>4, <1>6

LEMMA CellEdges ==
  ASSUME GraphInv, NEW ports, NEW c, NEW n, NEW F, CellAdded(ports, c, n, F), NEW e \in F
  PROVE  \E j \in DOMAIN ports, v \in Vertices' :
           /\ EndsAt(ports, j, v, c, n) /\ v # c
           /\ IF ports[j].dir = "input" THEN e = <<v, c>> ELSE e = <<c, v>>
<1>a. PICK j \in DOMAIN ports : \E v :
        /\ EndsAt(ports, j, v, c, n)
        /\ IF ports[j].dir = "input" THEN e = <<v, c>> ELSE e = <<c, v>>
  BY DEF CellAdded
<1>1. PICK v :
        /\ EndsAt(ports, j, v, c, n)
        /\ IF ports[j].dir = "input" THEN e = <<v, c>> ELSE e = <<c, v>>
  BY <1>a
<1>2. NetsFor(ports[j].bits) \subseteq Vertices
  BY DEF NetsFor, WithBits, PlainNets, PortNets
<1>3. v \in Vertices' /\ v # c
  BY <1>1, <1>2, CellVertices DEF EndsAt
<1> QED
  BY <1>1, <1>3

LEMMA AddCellKeepsGraph == GraphInv /\ AddCell => GraphInv'
<1> SUFFICES ASSUME GraphInv, AddCell
             PROVE  GraphInv'
  OBVIOUS
<1>1. PICK ports, c, n, F : CellAdded(ports, c, n, F)
  BY AddCellFacts
<1>2. /\ IsSequence(vertices') /\ edges' = edges \cup F
      /\ module' = module /\ next' = next + 1
  BY <1>1 DEF CellAdded, AddCell
<1>3. /\ Vertices \subseteq Vertices' /\ IsFiniteSet(Vertices')
      /\ c \notin Vertices /\ c \in Vertices' /\ Nets' = Nets
  BY <1>1, CellVertices DEF Nets
<1>4. \A e \in F : e \in Vertices' \X Vertices' /\ (e[1] = c \/ e[2] = c)
  BY <1>1, <1>3, CellEdges
<1>5. EdgesOf(Vertices, edges)'
  BY <1>2, <1>3, <1>4 DEF GraphInv, EdgesOf
<1>6. NoLoop(Vertices, Nets, edges)'
  <2>1. NetsOf(Vertices, Nets) /\ EdgesOf(Vertices, edges) /\ NoLoop(Vertices, Nets, edges)
    BY GraphFacts DEF GraphInv
  <2>2. /\ edges \subseteq edges'
        /\ \A e \in edges' : e \in edges \/ e[1] = c \/ e[2] = c
    BY <1>2, <1>4
  <2>3. NoLoop(Vertices', Nets, edges')
    BY <1>3, <2>1, <2>2, NewCellFormsNoLoop
  <2> QED
    BY <1>3, <2>3
<1> QED
  BY <1>2, <1>5, <1>6 DEF GraphInv

(* Connecting adds an edge to the target, from a vertex that is no cell    *)
(* and that the target does not reach.                                     *)
Connects(s) ==
  /\ s \in PlainNets \cup PortNets \cup CellOutputs
  /\ next \in Vertices /\ Eligible(next, s)
  /\ edges' = edges \cup {<<s, next>>}
  /\ UNCHANGED <<module, vertices, next>>

LEMMA ConnectFacts ==
  ASSUME GraphInv, ConnectWhole \/ ConnectPart
  PROVE  remaining # {} /\ pc = "connect" /\ pc' = "connect" /\ \E s : Connects(s)
<1>1. next \in Vertices
  <2>1. Vertices = 1 .. Len(vertices) /\ Len(vertices) \in Nat /\ next \in Nat \ {0}
    BY GraphFacts DEF GraphInv
  <2>2. next <= Len(vertices)
    BY DEF ConnectWhole, ConnectPart, Connecting
  <2> QED
    BY <2>1, <2>2
<1>2. PICK s : /\ s \in WholeSources(next) \/ s \in PartSources(next)
               /\ edges' = edges \cup {<<s, next>>}
  BY DEF ConnectWhole, ConnectPart
<1>3. s \in PlainNets \cup PortNets \cup CellOutputs /\ Eligible(next, s)
  BY <1>2 DEF WholeSources, PartSources, First, WithBits
<1>4. UNCHANGED <<module, vertices, next>>
  BY DEF ConnectWhole, ConnectPart
<1>5. remaining # {} /\ pc = "connect" /\ pc' = "connect"
  BY DEF ConnectWhole, ConnectPart, Connecting
<1> QED
  BY <1>1, <1>2, <1>3, <1>4, <1>5 DEF Connects

LEMMA ConnectKeepsGraph == GraphInv /\ (ConnectWhole \/ ConnectPart) => GraphInv'
<1> SUFFICES ASSUME GraphInv, ConnectWhole \/ ConnectPart
             PROVE  GraphInv'
  OBVIOUS
<1>1. PICK s : Connects(s)
  BY ConnectFacts
<1>2. s \in Vertices /\ next \in Vertices /\ s \notin Following(Vertices, Nets, edges, next)
  BY <1>1, FollowIsFollowing DEF Connects, Eligible, PlainNets, PortNets, CellOutputs
<1>3. Vertices' = Vertices /\ Nets' = Nets /\ UNCHANGED <<module, vertices, next>>
  BY <1>1 DEF Connects, Vertices, Nets, PlainNets, PortNets
<1>4. edges' = edges \cup {<<s, next>>}
  BY <1>1 DEF Connects
<1>5. NoLoop(Vertices, Nets, edges)'
  <2>1. NetsOf(Vertices, Nets) /\ EdgesOf(Vertices, edges) /\ NoLoop(Vertices, Nets, edges)
    BY GraphFacts DEF GraphInv
  <2>2. NoLoop(Vertices, Nets, edges \cup {<<s, next>>})
    BY <1>2, <2>1, EligibleFormsNoLoop
  <2> QED
    BY <1>3, <1>4, <2>2
<1>6. EdgesOf(Vertices, edges)'
  BY <1>2, <1>3, <1>4 DEF GraphInv, EdgesOf
<1> QED
  BY <1>3, <1>5, <1>6 DEF GraphInv

LEMMA OtherStepsKeepGraph ==
  ASSUME GraphInv,
         AllNetsAdded \/ AllCellsAdded \/ NextTarget \/ Populated \/ UNCHANGED vars
  PROVE  GraphInv'
<1>1. UNCHANGED <<module, vertices, edges>> /\ next' \in Nat \ {0}
  BY DEF GraphInv, AllNetsAdded, AllCellsAdded, NextTarget, Populated, vars
<1>2. Vertices' = Vertices /\ Nets' = Nets
  BY <1>1 DEF Vertices, Nets, PlainNets, PortNets
<1> QED
  BY <1>1, <1>2 DEF GraphInv

LEMMA NextKeepsGraph == GraphInv /\ [Next]_vars => GraphInv'
BY AddNetKeepsGraph, AddCellKeepsGraph, ConnectKeepsGraph, OtherStepsKeepGraph DEF Next

(* The vertices and edges of every netlist: edges join vertices that exist *)
(* and, as populate_graph adds them, close no loop of nets.                *)
THEOREM GraphInvariant == Spec => []GraphInv
<1> QED
  BY InitGraph, NextKeepsGraph, PTL DEF Spec

(* follow_path always returns: whatever the netlist, and in whatever order *)
(* its hash tables hand out nets and sources, the nets form no loop.       *)
THEOREM NetsAreLoopFree == Spec => []NetsFormNoLoop
<1>1. GraphInv => NetsFormNoLoop
  BY LoopsAreLoops DEF GraphInv
<1> QED
  BY <1>1, GraphInvariant, PTL

-----------------------------------------------------------------------------
(* Drivers. While nets and cells are added, an edge is one of three kinds: *)
(* from an input to a net or from a net to an output, of the same bits;    *)
(* from a cell to a vertex of its own or a net that it drives; or to a     *)
(* cell. A target that has bits left to connect is no input and no cell    *)
(* drives it.                                                              *)
IsNet(v) == vertices[v].type = "net"
IsInput(v) == IsNet(v) /\ vertices[v].port = "input"
IsCell(v) == vertices[v].type = "cell"

AliasEdge(e) ==
  /\ \/ e[1] \in PortNets /\ e[2] \in PlainNets /\ vertices[e[1]].port = "input"
     \/ e[1] \in PlainNets /\ e[2] \in PortNets /\ vertices[e[2]].port # "input"
  /\ vertices[e[1]].bits = vertices[e[2]].bits

DriverEdge(e) ==
  /\ IsCell(e[1]) /\ ~IsCell(e[2])
  /\ IsNet(e[2]) => Drives(module, vertices[e[1]].cell, vertices[e[2]].bits)

ReaderEdge(e) == ~IsCell(e[1]) /\ IsCell(e[2])

NetsAreInNetlist ==
  \A v \in Vertices : IsNet(v) =>
    \E i \in DOMAIN module.nets :
      vertices[v].bits = module.nets[i].bits /\ vertices[v].port = module.nets[i].port

CellsAreInNetlist ==
  pc \in {"nets", "cells"} =>
    \A v \in Vertices : IsCell(v) =>
      /\ pc = "cells" /\ vertices[v].cell \in DOMAIN module.cells
      /\ vertices[v].cell < next

EdgesAreOfThreeKinds ==
  pc \in {"nets", "cells"} =>
    \A e \in edges : AliasEdge(e) \/ DriverEdge(e) \/ ReaderEdge(e)

TargetHasNoDriver ==
  remaining # {} =>
    /\ pc = "connect" /\ next \in Vertices /\ ~IsInput(next)
    /\ \A e \in edges : e[2] = next => ~IsCell(e[1])

DriverInv ==
  /\ DrivenOnce(module)
  /\ NetsAreInNetlist /\ CellsAreInNetlist /\ EdgesAreOfThreeKinds
  /\ TargetHasNoDriver /\ DriversAreNotAssigned

ModulesAreDrivenOnce == \A m \in Modules : DrivenOnce(m)

LEMMA InitDrivers == ModulesAreDrivenOnce /\ Init => DriverInv
BY DEF ModulesAreDrivenOnce, Init, DriverInv, NetsAreInNetlist, CellsAreInNetlist,
       EdgesAreOfThreeKinds, TargetHasNoDriver, DriversAreNotAssigned, Vertices

LEMMA EdgeEnds ==
  ASSUME GraphInv, NEW e \in edges
  PROVE  e[1] \in Vertices /\ e[2] \in Vertices /\ e = <<e[1], e[2]>>
BY DEF GraphInv, EdgesOf

LEMMA AddNetKeepsDrivers ==
  ASSUME GraphInv, DriverInv, AddNet
  PROVE  DriverInv'
<1>1. PICK net, v, A :
        /\ net = module.nets[next] /\ next \in 1 .. Len(module.nets)
        /\ v = Len(vertices) + 1
        /\ A = WithBits(PlainNets, net.bits)
        /\ Vertices' = Vertices \cup {v}
        /\ vertices'[v] = [type |-> "net", port |-> net.port, bits |-> net.bits, cell |-> 0]
        /\ \A u \in Vertices : vertices'[u] = vertices[u]
        /\ edges' = edges \cup IF net.port = "input" THEN From(v, A)
                               ELSE IF net.port = "output" THEN To(A, v)
                               ELSE {}
  BY AddNetFacts
<1>2. v \notin Vertices
  BY <1>1, GraphFacts DEF GraphInv
<1>3. next \in DOMAIN module.nets
  <2>1. module.nets \in Seq([bits : Seq(Nat), port : Directions \cup {"none"}])
    BY ModulesAssumption DEF GraphInv
  <2> QED
    BY <1>1, <2>1
<1>4. pc = "nets" /\ pc' = "nets" /\ module' = module /\ remaining' = remaining
  BY DEF AddNet
<1>5. \A u \in Vertices : ~IsCell(u)
  BY <1>4 DEF DriverInv, CellsAreInNetlist
<1>6. \A u \in Vertices' : ~IsCell(u)'
  BY <1>1, <1>5 DEF IsCell
<1>7. \A e \in edges : AliasEdge(e)
  <2> SUFFICES ASSUME NEW e \in edges
               PROVE  AliasEdge(e)
    OBVIOUS
  <2>1. ~IsCell(e[1]) /\ ~IsCell(e[2])
    BY <1>5, EdgeEnds
  <2> QED
    BY <1>4, <2>1 DEF DriverInv, EdgesAreOfThreeKinds, DriverEdge, ReaderEdge
<1>8. PlainNets \subseteq PlainNets' /\ PortNets \subseteq PortNets'
  BY <1>1 DEF PlainNets, PortNets
<1>9. ASSUME NEW e \in edges'
      PROVE  AliasEdge(e)'
  <2>1. CASE e \in edges
    <3>1. AliasEdge(e) /\ e[1] \in Vertices /\ e[2] \in Vertices
      BY <1>7, <2>1, EdgeEnds
    <3> QED
      BY <1>1, <1>8, <3>1 DEF AliasEdge
  <2>2. CASE e \notin edges /\ net.port = "input"
    <3>1. PICK a \in A : e = <<v, a>>
      BY <1>1, <1>9, <2>2 DEF From
    <3>2. a \in PlainNets /\ a \in Vertices /\ vertices[a].bits = net.bits
      BY <1>1, <3>1 DEF WithBits, PlainNets
    <3>3. v \in PortNets'
      BY <1>1, <2>2 DEF PortNets
    <3> QED
      BY <1>1, <1>8, <2>2, <3>1, <3>2, <3>3 DEF AliasEdge
  <2>3. CASE e \notin edges /\ net.port = "output"
    <3>1. PICK a \in A : e = <<a, v>>
      BY <1>1, <1>9, <2>3 DEF To
    <3>2. a \in PlainNets /\ a \in Vertices /\ vertices[a].bits = net.bits
      BY <1>1, <3>1 DEF WithBits, PlainNets
    <3>3. v \in PortNets'
      BY <1>1, <2>3 DEF PortNets
    <3> QED
      BY <1>1, <1>8, <2>3, <3>1, <3>2, <3>3 DEF AliasEdge
  <2> QED
    BY <1>1, <2>1, <2>2, <2>3
<1>10. EdgesAreOfThreeKinds'
  BY <1>9 DEF EdgesAreOfThreeKinds
<1>11. DriversAreNotAssigned'
  <2>1. ASSUME NEW e \in edges'
        PROVE  ~IsCell(e[1])' /\ ~IsInput(e[2])'
    BY <1>9, <2>1 DEF AliasEdge, IsCell, IsInput, IsNet, PlainNets, PortNets
  <2> QED
    BY <2>1 DEF DriversAreNotAssigned, IsCell, IsInput, IsNet
<1>12. NetsAreInNetlist'
  BY <1>1, <1>2, <1>3, <1>4 DEF DriverInv, NetsAreInNetlist, IsNet
<1>13. CellsAreInNetlist'
  BY <1>6 DEF CellsAreInNetlist
<1>14. remaining' = {}
  BY <1>4 DEF DriverInv, TargetHasNoDriver
<1> QED
  BY <1>4, <1>10, <1>11, <1>12, <1>13, <1>14 DEF DriverInv, TargetHasNoDriver

LEMMA AddCellKeepsDrivers ==
  ASSUME GraphInv, DriverInv, AddCell
  PROVE  DriverInv'
<1>1. PICK ports, c, n, F : CellAdded(ports, c, n, F)
  BY AddCellFacts
<1> USE <1>1
<1>2. /\ edges' = edges \cup F
      /\ ports = module.cells[next] /\ next \in DOMAIN module.cells
      /\ \A v \in Vertices : vertices'[v] = vertices[v]
      /\ vertices'[c].type = "cell" /\ vertices'[c].cell = next
      /\ \A v \in c + 1 .. c + n : vertices'[v].type = "cellPort"
  BY DEF CellAdded
<1>3. /\ pc = "cells" /\ pc' = "cells" /\ module' = module /\ remaining' = remaining
      /\ next' = next + 1 /\ next \in Nat
  BY DEF AddCell, GraphInv
<1>4. /\ c \notin Vertices /\ PlainNets' = PlainNets /\ PortNets' = PortNets
      /\ \A v \in Vertices' : v \in Vertices \/ v = c \/ v \in c + 1 .. c + n
      /\ \A v \in c + 1 .. c + n : v \notin Vertices
  BY CellVertices
<1>5. NetsAreInNetlist'
  BY <1>2, <1>3, <1>4 DEF DriverInv, NetsAreInNetlist, IsNet
<1>6. CellsAreInNetlist'
  <2>1. DOMAIN module.cells \subseteq Nat
    BY ModulesAssumption DEF GraphInv
  <2>2. \A v \in Vertices' : IsCell(v)' => (v \in Vertices /\ IsCell(v)) \/ v = c
    BY <1>2, <1>4 DEF IsCell
  <2> QED
    BY <1>2, <1>3, <2>1, <2>2 DEF DriverInv, CellsAreInNetlist
<1>7. ASSUME NEW e \in F
      PROVE  \/ /\ e = <<e[1], c>> /\ e[1] # c /\ ~IsCell(e[1])'
                /\ e[1] \in Vertices => ~IsCell(e[1])
             \/ /\ e = <<c, e[2]>> /\ ~IsCell(e[2])'
                /\ \/ e[2] \in c + 1 .. c + n
                   \/ \E bits : e[2] \in NetsFor(bits) /\ Drives(module, next, bits)
  <2>1. PICK j \in DOMAIN ports, v \in Vertices' :
          /\ EndsAt(ports, j, v, c, n) /\ v # c
          /\ IF ports[j].dir = "input" THEN e = <<v, c>> ELSE e = <<c, v>>
    BY CellEdges
  <2>2. ~IsCell(v)' /\ (v \in Vertices => ~IsCell(v))
    BY <1>2, <1>4, <2>1 DEF EndsAt, NetsFor, WithBits, PlainNets, PortNets, IsCell
  <2>3. CASE ports[j].dir = "input"
    BY <2>1, <2>2, <2>3
  <2>4. CASE ports[j].dir # "input"
    <3>1. ports[j].dir = "output"
      <4> DEFINE Port == [bits : Seq(Nat), dir : Directions]
      <4>1. module.cells \in Seq(Seq(Port))
        BY ModulesAssumption DEF GraphInv
      <4> HIDE DEF Port
      <4>2. ports \in Seq(Port)
        BY <1>2, <4>1, ElementOfSeq
      <4>3. j \in DOMAIN ports
        BY <2>1
      <4>4. ports[j] \in Port
        BY <4>2, <4>3, ElementOfSeq
      <4> QED
        BY <2>4, <4>4 DEF Port, Directions
    <3>2. Drives(module, next, ports[j].bits)
      BY <1>2, <2>1, <3>1 DEF Drives
    <3> QED
      BY <2>1, <2>2, <2>4, <3>2 DEF EndsAt
  <2> QED
    BY <2>3, <2>4
<1>8. ASSUME NEW bits, Drives(module, next, bits), NEW v \in NetsFor(bits)
      PROVE  /\ v \in Vertices /\ IsNet(v) /\ ~IsInput(v) /\ vertices[v].bits = bits
             /\ \A e \in edges : e[2] # v
  <2>1. /\ v \in Vertices /\ IsNet(v) /\ vertices[v].bits = bits
        /\ \A w \in PlainNets : vertices[w].bits = bits => v \in PlainNets
    BY <1>8 DEF NetsFor, WithBits, PlainNets, PortNets, IsNet
  <2>2. ASSUME NEW w \in Vertices, IsNet(w), vertices[w].bits = bits
        PROVE  /\ ~IsInput(w)
               /\ \A k \in DOMAIN module.cells : Drives(module, k, bits) => k = next
    <3>1. PICK m \in DOMAIN module.nets :
            vertices[w].bits = module.nets[m].bits /\ vertices[w].port = module.nets[m].port
      BY <2>2 DEF DriverInv, NetsAreInNetlist
    <3>2. Drives(module, next, module.nets[m].bits)
      BY <1>8, <2>2, <3>1
    <3>3. /\ module.nets[m].port # "input"
          /\ \A k \in DOMAIN module.cells : Drives(module, k, module.nets[m].bits) => k = next
      BY <1>2, <3>2 DEF DriverInv, DrivenOnce
    <3> QED
      BY <2>2, <3>1, <3>3 DEF IsInput
  <2>3. ASSUME NEW e \in edges, e[2] = v
        PROVE  FALSE
    <3>1. e[1] \in Vertices
      BY EdgeEnds
    <3>2. CASE AliasEdge(e)
      <4>1. vertices[e[1]].bits = bits /\ IsNet(e[1]) /\ ~IsInput(e[1])
        <5>1. vertices[e[1]].bits = bits /\ IsNet(e[1])
          BY <2>1, <2>3, <3>2 DEF AliasEdge, IsNet, PlainNets, PortNets
        <5> QED
          BY <2>2, <3>1, <5>1
      <4>2. e[1] \in PlainNets /\ v \in PortNets
        BY <2>3, <3>2, <4>1 DEF AliasEdge, IsInput, IsNet
      <4> QED
        BY <2>1, <4>1, <4>2 DEF PlainNets, PortNets
    <3>3. CASE DriverEdge(e)
      <4>1. IsCell(e[1]) /\ Drives(module, vertices[e[1]].cell, bits)
        BY <2>1, <2>3, <3>3 DEF DriverEdge
      <4>2. vertices[e[1]].cell \in DOMAIN module.cells /\ vertices[e[1]].cell < next
        BY <1>3, <3>1, <4>1 DEF DriverInv, CellsAreInNetlist
      <4>3. vertices[e[1]].cell = next
        BY <2>1, <2>2, <4>1, <4>2
      <4> QED
        BY <1>3, <4>2, <4>3
    <3>4. CASE ReaderEdge(e)
      BY <2>1, <2>3, <3>4 DEF ReaderEdge, IsCell, IsNet
    <3> QED
      BY <1>3, <3>2, <3>3, <3>4 DEF DriverInv, EdgesAreOfThreeKinds
  <2> QED
    BY <2>1, <2>2, <2>3
<1>9. ASSUME NEW e \in edges'
      PROVE  AliasEdge(e)' \/ DriverEdge(e)' \/ ReaderEdge(e)'
  <2>1. CASE e \in edges
    <3>1. e[1] \in Vertices /\ e[2] \in Vertices
      BY <2>1, EdgeEnds
    <3>2. AliasEdge(e) \/ DriverEdge(e) \/ ReaderEdge(e)
      BY <1>3, <2>1 DEF DriverInv, EdgesAreOfThreeKinds
    <3> QED
      BY <1>2, <1>3, <1>4, <3>1, <3>2
      DEF AliasEdge, DriverEdge, ReaderEdge, IsCell, IsNet
  <2>2. CASE e \in F /\ e = <<e[1], c>> /\ ~IsCell(e[1])'
    BY <1>2, <2>2 DEF ReaderEdge, IsCell
  <2>3. CASE e \in F /\ e = <<c, e[2]>> /\ ~IsCell(e[2])'
    <3>1. CASE e[2] \in c + 1 .. c + n
      BY <1>2, <2>3, <3>1 DEF DriverEdge, IsCell, IsNet
    <3>2. ASSUME NEW bits, e[2] \in NetsFor(bits), Drives(module, next, bits)
          PROVE  DriverEdge(e)'
      BY <1>2, <1>3, <1>8, <2>3, <3>2 DEF DriverEdge, IsCell
    <3>3. CASE e[2] \notin c + 1 .. c + n /\ e[1] = c
      <4>1. \E bits : e[2] \in NetsFor(bits) /\ Drives(module, next, bits)
        BY <1>7, <2>3, <3>3
      <4> QED
        BY <3>2, <4>1
    <3> QED
      BY <2>3, <3>1, <3>3
  <2> QED
    BY <1>2, <1>7, <2>1, <2>2, <2>3
<1>10. ASSUME NEW e \in F
       PROVE  /\ e[2] \in Vertices => ~IsInput(e[2]) /\ \A f \in edges : f[2] # e[2]
              /\ ~IsInput(e[2])'
  <2>1. CASE e[2] \in Vertices
    <3>1. e[2] # c /\ e[2] \notin c + 1 .. c + n
      BY <1>4, <2>1
    <3>2. PICK bits : e[2] \in NetsFor(bits) /\ Drives(module, next, bits)
      BY <1>7, <3>1
    <3>3. ~IsInput(e[2]) /\ \A f \in edges : f[2] # e[2]
      BY <1>8, <3>2
    <3> QED
      BY <1>2, <2>1, <3>3 DEF IsInput, IsNet
  <2>2. CASE e[2] \notin Vertices
    <3>1. e[2] = c \/ e[2] \in c + 1 .. c + n
      BY <1>7, <1>8, <2>2
    <3> QED
      BY <1>2, <2>2, <3>1 DEF IsInput, IsNet
  <2> QED
    BY <2>1, <2>2
<1>11. DriversAreNotAssigned'
  <2>1. ASSUME NEW e \in edges', NEW f \in edges', IsCell(e[1])', e[2] = f[2]
        PROVE  e = f
    <3>1. CASE e \in edges /\ f \in edges
      <4>1. IsCell(e[1])
        BY <1>2, <2>1, <3>1, EdgeEnds DEF IsCell
      <4> QED
        BY <2>1, <3>1, <4>1 DEF DriverInv, DriversAreNotAssigned, IsCell
    <3>2. CASE e \in edges /\ f \in F
      BY <1>10, <2>1, <3>2, EdgeEnds
    <3>3. CASE e \in F /\ f \in edges
      BY <1>10, <2>1, <3>3, EdgeEnds
    <3>4. CASE e \in F /\ f \in F
      <4>1. e = <<c, e[2]>> /\ ~IsCell(e[2])'
        BY <1>7, <2>1, <3>4
      <4>2. f[2] # c
        BY <1>2, <2>1, <4>1 DEF IsCell
      <4>3. f = <<c, f[2]>>
        BY <1>7, <3>4, <4>2
      <4> QED
        BY <2>1, <4>1, <4>3
    <3> QED
      BY <1>2, <3>1, <3>2, <3>3, <3>4
  <2>2. ASSUME NEW e \in edges'
        PROVE  ~IsInput(e[2])'
    <3>1. CASE e \in edges
      <4>1. e[2] \in Vertices /\ ~IsInput(e[2])
        BY <3>1, EdgeEnds DEF DriverInv, DriversAreNotAssigned, IsInput, IsNet
      <4> QED
        BY <1>2, <4>1 DEF IsInput, IsNet
    <3>2. CASE e \in F
      BY <1>10, <3>2
    <3> QED
      BY <1>2, <3>1, <3>2
  <2> QED
    BY <2>1, <2>2 DEF DriversAreNotAssigned, IsCell, IsInput, IsNet
<1>12. remaining' = {}
  BY <1>3 DEF DriverInv, TargetHasNoDriver
<1>13. EdgesAreOfThreeKinds' /\ TargetHasNoDriver'
  BY <1>9, <1>12 DEF EdgesAreOfThreeKinds, TargetHasNoDriver
<1> QED
  BY <1>3, <1>5, <1>6, <1>11, <1>13 DEF DriverInv

LEMMA ConnectKeepsDrivers ==
  ASSUME GraphInv, DriverInv, ConnectWhole \/ ConnectPart
  PROVE  DriverInv'
<1>1. remaining # {} /\ pc = "connect" /\ pc' = "connect"
  BY ConnectFacts
<1>2. PICK s : Connects(s)
  BY ConnectFacts
<1>3. /\ s \in PlainNets \cup PortNets \cup CellOutputs
      /\ edges' = edges \cup {<<s, next>>}
      /\ UNCHANGED <<module, vertices, next>>
  BY <1>2 DEF Connects
<1>4. ~IsCell(s)
  BY <1>3 DEF IsCell, PlainNets, PortNets, CellOutputs
<1>5. /\ next \in Vertices /\ ~IsInput(next)
      /\ \A e \in edges : e[2] = next => ~IsCell(e[1])
  BY <1>1 DEF DriverInv, TargetHasNoDriver
<1>6. \A v : (IsCell(v)' <=> IsCell(v)) /\ (IsInput(v)' <=> IsInput(v))
  BY <1>3 DEF IsCell, IsInput, IsNet
<1>7. DriversAreNotAssigned'
  <2>1. ASSUME NEW e \in edges', NEW f \in edges', IsCell(e[1]), e[2] = f[2]
        PROVE  e = f
    <3>1. e \in edges /\ e[2] # next
      BY <1>3, <1>4, <1>5, <2>1
    <3>2. f \in edges
      BY <1>3, <2>1, <3>1
    <3> QED
      BY <2>1, <3>1, <3>2 DEF DriverInv, DriversAreNotAssigned, IsCell
  <2>2. ASSUME NEW e \in edges'
        PROVE  ~IsInput(e[2])
    BY <1>3, <1>5, <2>2 DEF DriverInv, DriversAreNotAssigned, IsInput, IsNet
  <2> QED
    BY <1>3, <2>1, <2>2 DEF DriversAreNotAssigned, IsCell, IsInput, IsNet
<1>8. TargetHasNoDriver'
  <2>1. \A e \in edges' : e[2] = next => ~IsCell(e[1])
    BY <1>3, <1>4, <1>5
  <2> QED
    BY <1>1, <1>3, <1>5, <1>6, <2>1 DEF TargetHasNoDriver, Vertices
<1>9. NetsAreInNetlist' /\ CellsAreInNetlist' /\ EdgesAreOfThreeKinds'
  BY <1>1, <1>3 DEF DriverInv, NetsAreInNetlist, CellsAreInNetlist, EdgesAreOfThreeKinds,
                    Vertices, IsNet
<1> QED
  BY <1>3, <1>7, <1>8, <1>9 DEF DriverInv

LEMMA OtherStepsKeepDrivers ==
  ASSUME GraphInv, DriverInv,
         AllNetsAdded \/ AllCellsAdded \/ NextTarget \/ Populated \/ UNCHANGED vars
  PROVE  DriverInv'
<1>1. UNCHANGED <<module, vertices, edges>>
  BY DEF AllNetsAdded, AllCellsAdded, NextTarget, Populated, vars
<1>2. NetsAreInNetlist' /\ DriversAreNotAssigned' /\ DrivenOnce(module)'
  BY <1>1 DEF DriverInv, NetsAreInNetlist, DriversAreNotAssigned, Vertices, IsNet
<1>3. CellsAreInNetlist'
  <2>1. CASE AllNetsAdded
    <3>1. pc = "nets" /\ \A v \in Vertices : ~IsCell(v)
      BY <2>1 DEF AllNetsAdded, DriverInv, CellsAreInNetlist
    <3> QED
      BY <1>1, <3>1 DEF CellsAreInNetlist, Vertices, IsCell
  <2>2. CASE AllCellsAdded \/ NextTarget \/ Populated
    BY <2>2 DEF AllCellsAdded, NextTarget, Populated, Connecting, CellsAreInNetlist
  <2>3. CASE UNCHANGED vars
    BY <2>3 DEF vars, DriverInv, CellsAreInNetlist, Vertices, IsCell
  <2> QED
    BY <2>1, <2>2, <2>3
<1>4. EdgesAreOfThreeKinds'
  <2>1. CASE AllNetsAdded \/ UNCHANGED vars
    <3>1. pc' \in {"nets", "cells"} => pc \in {"nets", "cells"}
      BY <2>1 DEF AllNetsAdded, vars
    <3>2. \A e : /\ AliasEdge(e)' <=> AliasEdge(e)
                 /\ DriverEdge(e)' <=> DriverEdge(e)
                 /\ ReaderEdge(e)' <=> ReaderEdge(e)
      BY <1>1 DEF AliasEdge, DriverEdge, ReaderEdge, IsCell, IsNet, PlainNets, PortNets,
                  Vertices
    <3> QED
      BY <1>1, <3>1, <3>2 DEF DriverInv, EdgesAreOfThreeKinds
  <2>2. CASE AllCellsAdded \/ NextTarget \/ Populated
    BY <2>2 DEF AllCellsAdded, NextTarget, Populated, Connecting, EdgesAreOfThreeKinds
  <2> QED
    BY <2>1, <2>2
<1>5. TargetHasNoDriver'
  <2>1. ASSUME NEW v \in Vertices, RemainingOf(v) # {}
        PROVE  ~IsInput(v) /\ \A e \in edges : e[2] # v
    BY <2>1 DEF RemainingOf, NeedsSource, HasSource, IsInput, IsNet
  <2>2. Vertices = 1 .. Len(vertices) /\ Len(vertices) \in Nat /\ next \in Nat \ {0}
    BY GraphFacts DEF GraphInv
  <2>3. CASE AllNetsAdded \/ Populated
    <3>1. remaining = {} /\ remaining' = {}
      <4>1. CASE AllNetsAdded
        BY <4>1 DEF AllNetsAdded, DriverInv, TargetHasNoDriver
      <4>2. CASE Populated
        BY <2>2, <4>2 DEF Populated, DriverInv, TargetHasNoDriver
      <4> QED
        BY <2>3, <4>1, <4>2
    <3> QED
      BY <3>1 DEF TargetHasNoDriver
  <2>4. CASE AllCellsAdded
    <3>1. /\ pc' = "connect" /\ next' = 1
          /\ remaining' = IF vertices = <<>> THEN {} ELSE RemainingOf(1)
      BY <2>4 DEF AllCellsAdded
    <3>2. vertices # <<>> => 1 \in Vertices
      <4>1. vertices \in Seq({vertices[i] : i \in DOMAIN vertices})
        BY DEF GraphInv, IsSequence
      <4> QED
        BY <2>2, <4>1
    <3> QED
      BY <1>1, <2>1, <3>1, <3>2 DEF TargetHasNoDriver, Vertices, IsInput, IsNet, IsCell
  <2>5. CASE NextTarget
    <3>1. /\ pc' = "connect" /\ next' = next + 1
          /\ remaining' = IF next' <= Len(vertices) THEN RemainingOf(next') ELSE {}
      BY <2>5 DEF NextTarget, Connecting
    <3>2. next' <= Len(vertices) => next' \in Vertices
      BY <2>2, <3>1
    <3> QED
      BY <1>1, <2>1, <3>1, <3>2 DEF TargetHasNoDriver, Vertices, IsInput, IsNet, IsCell
  <2>6. CASE UNCHANGED vars
    BY <2>6 DEF vars, DriverInv, TargetHasNoDriver, Vertices, IsInput, IsNet, IsCell
  <2> QED
    BY <2>3, <2>4, <2>5, <2>6
<1> QED
  BY <1>2, <1>3, <1>4, <1>5 DEF DriverInv

LEMMA NextKeepsDrivers == GraphInv /\ DriverInv /\ [Next]_vars => DriverInv'
BY AddNetKeepsDrivers, AddCellKeepsDrivers, ConnectKeepsDrivers, OtherStepsKeepDrivers
DEF Next

(* In a netlist that drives every vector of bits at most once, a net that  *)
(* a cell drives gets no other source from populate_graph, and an input    *)
(* none at all: export_verilog assigns neither a register nor an input.    *)
THEOREM DriversStayUnassigned ==
  ASSUME ModulesAreDrivenOnce
  PROVE  Spec => []DriversAreNotAssigned
<1>1. Init => DriverInv
  BY InitDrivers
<1>2. DriverInv => DriversAreNotAssigned
  BY DEF DriverInv
<1> QED
  BY <1>1, <1>2, NextKeepsDrivers, GraphInvariant, PTL DEF Spec

-----------------------------------------------------------------------------
(* Sources. A vertex that has a source, or whose turn has come, gets every *)
(* one of its bits from a vertex that has it or a cell that drives it, but *)
(* for the bits of the target that remain. Every input and every output of *)
(* a cell has a vertex, that of the output with the cell as its source, so *)
(* that a bit that remains can always be had.                              *)
IsDriven(v) ==
  \E c \in Vertices : /\ IsCell(c) /\ <<c, v>> \in edges
                      /\ Range(vertices[v].bits) \subseteq DrivenBits(c)

Supplied(v) ==
  \A b \in SignalBits(vertices[v].bits) :
    Origins(v, b) # {} \/ (v = next /\ b \in remaining)

Due(v) ==
  HasSource(v) \/ (~IsInput(v) /\ (pc = "done" \/ (pc = "connect" /\ v <= next)))

BitsHaveDrivers ==
  \A v \in Vertices : ~IsCell(v) =>
    \A b \in SignalBits(vertices[v].bits) : HasDriver(module, b)

InputsAreVertices ==
  \A i \in DOMAIN module.nets :
    module.nets[i].port = "input" /\ (pc = "nets" => i < next) =>
      \E v \in PortNets : IsInput(v) /\ vertices[v].bits = module.nets[i].bits

OutputsAreVertices ==
  \A i \in DOMAIN module.cells : \A j \in DOMAIN module.cells[i] :
    pc # "nets" /\ (pc = "cells" => i < next) /\ module.cells[i][j].dir = "output" =>
      \E v \in Nets \cup CellOutputs :
        IsDriven(v) /\ vertices[v].bits = module.cells[i][j].bits

CellOutputsAreDriven == \A v \in CellOutputs : IsDriven(v)

SourcesAreNetsOrDriven ==
  \A e \in edges : ~IsCell(e[2]) => IsCell(e[1]) \/ e[1] \in Nets \cup CellOutputs

TargetsAreSupplied == \A v \in Vertices : ~IsCell(v) /\ Due(v) => Supplied(v)

RemainingAreOfTarget ==
  remaining # {} => ~IsCell(next) /\ remaining \subseteq SignalBits(vertices[next].bits)

SourceInv ==
  /\ AllDriven(module)
  /\ BitsHaveDrivers /\ InputsAreVertices /\ OutputsAreVertices
  /\ CellOutputsAreDriven /\ SourcesAreNetsOrDriven
  /\ TargetsAreSupplied /\ RemainingAreOfTarget

ModulesAreAllDriven == \A m \in Modules : AllDriven(m)

LEMMA InitSources == ModulesAreAllDriven /\ Init => SourceInv
<1> SUFFICES ASSUME ModulesAreAllDriven, Init
             PROVE  SourceInv
  OBVIOUS
<1>1. /\ module \in Modules /\ Vertices = {} /\ edges = {} /\ remaining = {}
      /\ pc = "nets" /\ next = 1
  BY DEF Init, Vertices
<1>2. AllDriven(module)
  BY <1>1 DEF ModulesAreAllDriven
<1>3. InputsAreVertices
  <2>1. \A m \in Modules : DOMAIN m.nets \subseteq Nat \ {0}
    BY ModulesAssumption
  <2>2. \A i \in DOMAIN module.nets : ~(i < 1)
    BY <1>1, <2>1
  <2> QED
    BY <1>1, <2>2 DEF InputsAreVertices
<1>4. CellOutputs = {}
  BY <1>1 DEF CellOutputs
<1> QED
  BY <1>1, <1>2, <1>3, <1>4
  DEF SourceInv, BitsHaveDrivers, OutputsAreVertices, CellOutputsAreDriven,
      SourcesAreNetsOrDriven, TargetsAreSupplied, RemainingAreOfTarget

(* What has been supplied stays so as vertices and edges are added.        *)
Grows ==
  /\ Vertices \subseteq Vertices' /\ edges \subseteq edges' /\ module' = module
  /\ \A v \in Vertices : vertices'[v] = vertices[v]

LEMMA OriginsGrow ==
  ASSUME Grows, NEW v \in Vertices, NEW b
  PROVE  Origins(v, b) \subseteq Origins(v, b)'
<1>1. ASSUME NEW s \in Origins(v, b)
      PROVE  s \in Origins(v, b)'
  <2>1. /\ s \in Vertices /\ <<s, v>> \in edges
        /\ \/ vertices[s].type # "cell" /\ b \in Range(vertices[s].bits)
           \/ vertices[s].type = "cell" /\ b \in DrivenBits(s)
    BY <1>1 DEF Origins
  <2>2. s \in Vertices' /\ <<s, v>> \in edges' /\ vertices'[s] = vertices[s]
    BY <2>1 DEF Grows
  <2>3. DrivenBits(s)' = DrivenBits(s)
    BY <2>2 DEF Grows, DrivenBits
  <2> QED
    BY <2>1, <2>2, <2>3 DEF Origins
<1> QED
  BY <1>1

LEMMA DrivenGrow ==
  ASSUME Grows, NEW v \in Vertices, IsDriven(v)
  PROVE  IsDriven(v)'
<1>1. PICK c \in Vertices : /\ IsCell(c) /\ <<c, v>> \in edges
                            /\ Range(vertices[v].bits) \subseteq DrivenBits(c)
  BY DEF IsDriven
<1>2. /\ c \in Vertices' /\ <<c, v>> \in edges' /\ vertices'[c] = vertices[c]
      /\ vertices'[v] = vertices[v]
  BY <1>1 DEF Grows
<1>3. DrivenBits(c)' = DrivenBits(c)
  BY <1>2 DEF Grows, DrivenBits
<1>4. IsCell(c)'
  BY <1>1, <1>2 DEF IsCell
<1> QED
  BY <1>1, <1>2, <1>3, <1>4 DEF IsDriven

LEMMA SetsGrow ==
  ASSUME Grows
  PROVE  Nets \subseteq Nets' /\ PortNets \subseteq PortNets' /\ CellOutputs \subseteq CellOutputs'
BY DEF Grows, Nets, PlainNets, PortNets, CellOutputs

LEMMA NewOrigin ==
  ASSUME NEW s \in Vertices', NEW v, <<s, v>> \in edges', NEW b,
         \/ vertices'[s].type # "cell" /\ b \in Range(vertices'[s].bits)
         \/ vertices'[s].type = "cell" /\ b \in DrivenBits(s)'
  PROVE  Origins(v, b)' # {}
<1>1. s \in Origins(v, b)'
  BY DEF Origins
<1> QED
  BY <1>1

LEMMA AddNetKeepsSources ==
  ASSUME GraphInv, DriverInv, SourceInv, AddNet
  PROVE  SourceInv'
<1>1. PICK net, v, A :
        /\ net = module.nets[next] /\ next \in 1 .. Len(module.nets)
        /\ v = Len(vertices) + 1
        /\ A = WithBits(PlainNets, net.bits)
        /\ Vertices' = Vertices \cup {v}
        /\ vertices'[v] = [type |-> "net", port |-> net.port, bits |-> net.bits, cell |-> 0]
        /\ \A u \in Vertices : vertices'[u] = vertices[u]
        /\ edges' = edges \cup IF net.port = "input" THEN From(v, A)
                               ELSE IF net.port = "output" THEN To(A, v)
                               ELSE {}
  BY AddNetFacts
<1>2. v \notin Vertices
  BY <1>1, GraphFacts DEF GraphInv
<1>3. next \in DOMAIN module.nets /\ DOMAIN module.nets \subseteq Nat
  <2>1. module.nets \in Seq([bits : Seq(Nat), port : Directions \cup {"none"}])
    BY ModulesAssumption DEF GraphInv
  <2> QED
    BY <1>1, <2>1
<1>4. /\ pc = "nets" /\ pc' = "nets" /\ module' = module /\ remaining' = remaining
      /\ next' = next + 1 /\ remaining = {}
  BY DEF AddNet, DriverInv, TargetHasNoDriver
<1>5. Grows
  BY <1>1, <1>4 DEF Grows
<1>6. BitsHaveDrivers'
  <2>1. \A b \in SignalBits(net.bits) : HasDriver(module, b)
    BY <1>1, <1>3 DEF SourceInv, AllDriven, SignalBits
  <2>2. ASSUME NEW u \in Vertices', ~IsCell(u)'
        PROVE  \A b \in SignalBits(vertices'[u].bits) : HasDriver(module, b)
    <3>1. CASE u \in Vertices
      BY <1>1, <2>2, <3>1 DEF SourceInv, BitsHaveDrivers, IsCell
    <3>2. CASE u = v
      BY <1>1, <2>1, <3>2
    <3> QED
      BY <1>1, <3>1, <3>2
  <2> QED
    BY <1>4, <2>2 DEF BitsHaveDrivers, SignalBits
<1>7. InputsAreVertices'
  <2>1. ASSUME NEW i \in DOMAIN module.nets, module.nets[i].port = "input", i < next + 1
        PROVE  \E u \in PortNets' : IsInput(u)' /\ vertices'[u].bits = module.nets[i].bits
    <3>1. CASE i < next
      <4>1. PICK u \in PortNets : IsInput(u) /\ vertices[u].bits = module.nets[i].bits
        BY <2>1, <3>1 DEF SourceInv, InputsAreVertices
      <4>2. u \in Vertices /\ u \in PortNets'
        BY <1>5, <4>1, SetsGrow DEF PortNets
      <4> QED
        BY <1>1, <4>1, <4>2 DEF IsInput, IsNet
    <3>2. CASE i = next
      <4>1. v \in PortNets' /\ IsInput(v)' /\ vertices'[v].bits = module.nets[i].bits
        BY <1>1, <2>1, <3>2 DEF PortNets, IsInput, IsNet
      <4> QED
        BY <4>1
    <3> QED
      BY <1>3, <2>1, <3>1, <3>2
  <2> QED
    BY <1>4, <2>1 DEF InputsAreVertices
<1>8. OutputsAreVertices'
  BY <1>4 DEF OutputsAreVertices
<1>9. CellOutputsAreDriven'
  <2>1. ASSUME NEW u \in CellOutputs'
        PROVE  IsDriven(u)'
    <3>1. u \in Vertices /\ u \in CellOutputs
      BY <1>1, <2>1 DEF CellOutputs
    <3>2. IsDriven(u)
      BY <3>1 DEF SourceInv, CellOutputsAreDriven
    <3> QED
      BY <1>5, <3>1, <3>2, DrivenGrow
  <2> QED
    BY <2>1 DEF CellOutputsAreDriven
<1>10. A \subseteq Nets /\ A \subseteq Vertices /\ (\A a \in A : vertices[a].bits = net.bits)
       /\ \A a \in A : ~IsCell(a)
  BY <1>1 DEF WithBits, PlainNets, Nets, IsCell
<1>11. ASSUME NEW e \in edges', e \notin edges
       PROVE  \E a \in A : e = <<v, a>> \/ e = <<a, v>>
  BY <1>1, <1>11 DEF From, To
<1>12. v \in Nets' /\ Nets \subseteq Nets' /\ CellOutputs \subseteq CellOutputs'
  BY <1>1, <1>2, <1>5, SetsGrow, NetsAfterAddNet
<1>13. SourcesAreNetsOrDriven'
  <2>1. ASSUME NEW e \in edges', ~IsCell(e[2])'
        PROVE  IsCell(e[1])' \/ e[1] \in Nets' \cup CellOutputs'
    <3>1. CASE e \in edges
      <4>1. e[1] \in Vertices /\ e[2] \in Vertices
        BY <3>1, EdgeEnds
      <4>2. ~IsCell(e[2])
        BY <1>1, <2>1, <4>1 DEF IsCell
      <4>3. IsCell(e[1]) \/ e[1] \in Nets \cup CellOutputs
        BY <3>1, <4>2 DEF SourceInv, SourcesAreNetsOrDriven
      <4>4. IsCell(e[1]) => IsCell(e[1])'
        BY <1>1, <4>1 DEF IsCell
      <4> QED
        BY <1>12, <4>3, <4>4
    <3>2. CASE e \notin edges
      BY <1>10, <1>11, <1>12, <3>2
    <3> QED
      BY <3>1, <3>2
  <2> QED
    BY <2>1 DEF SourcesAreNetsOrDriven
<1>14. TargetsAreSupplied'
  <2>1. ASSUME NEW u \in Vertices', ~IsCell(u)', NEW e \in edges', e[2] = u,
               NEW b \in SignalBits(vertices'[u].bits)
        PROVE  Origins(u, b)' # {}
    <3>1. CASE e \in edges
      <4>1. u \in Vertices /\ vertices'[u] = vertices[u]
        BY <1>1, <2>1, <3>1, EdgeEnds
      <4>2. ~IsCell(u) /\ Due(u)
        BY <2>1, <3>1, <4>1 DEF IsCell, Due, HasSource
      <4>3. Supplied(u)
        BY <4>1, <4>2 DEF SourceInv, TargetsAreSupplied
      <4>4. Origins(u, b) # {}
        BY <1>4, <2>1, <4>1, <4>3 DEF Supplied
      <4> QED
        BY <1>5, <4>1, <4>4, OriginsGrow
    <3>2. CASE e \notin edges
      <4>1. PICK a \in A : e = <<v, a>> \/ e = <<a, v>>
        BY <1>11, <3>2
      <4>2. /\ vertices'[a].bits = net.bits /\ vertices'[v].bits = net.bits
            /\ a \in Vertices' /\ v \in Vertices'
            /\ vertices'[a].type # "cell" /\ vertices'[v].type # "cell"
        BY <1>1, <1>10, <4>1 DEF IsCell
      <4>3. b \in Range(net.bits)
        BY <2>1, <4>1, <4>2 DEF SignalBits
      <4>4. <<v, u>> \in edges' \/ <<a, u>> \in edges'
        BY <2>1, <4>1
      <4> QED
        BY <4>2, <4>3, <4>4, NewOrigin
    <3> QED
      BY <3>1, <3>2
  <2>2. ASSUME NEW u \in Vertices', ~IsCell(u)', Due(u)'
        PROVE  Supplied(u)'
    <3>1. PICK e \in edges' : e[2] = u
      BY <1>4, <2>2 DEF Due, HasSource
    <3> QED
      BY <2>1, <2>2, <3>1 DEF Supplied, SignalBits
  <2> QED
    BY <2>2 DEF TargetsAreSupplied
<1>15. RemainingAreOfTarget'
  BY <1>4 DEF RemainingAreOfTarget
<1>16. AllDriven(module)'
  BY <1>4 DEF SourceInv
<1> QED
  BY <1>6, <1>7, <1>8, <1>9, <1>13, <1>14, <1>15, <1>16 DEF SourceInv

LEMMA PortTypes ==
  ASSUME GraphInv, NEW i \in DOMAIN module.cells, NEW j \in DOMAIN module.cells[i]
  PROVE  module.cells[i][j].dir \in Directions /\ i \in Nat
<1> DEFINE Port == [bits : Seq(Nat), dir : Directions]
<1>1. module.cells \in Seq(Seq(Port))
  BY ModulesAssumption DEF GraphInv
<1>2. i \in Nat
  BY <1>1
<1> HIDE DEF Port
<1>3. module.cells[i] \in Seq(Port)
  BY <1>1, ElementOfSeq
<1>4. module.cells[i][j] \in Port
  BY <1>3, ElementOfSeq
<1> QED
  BY <1>2, <1>4 DEF Port

LEMMA PortIsDriven ==
  ASSUME GraphInv, NEW ports, NEW c, NEW n, NEW F, CellAdded(ports, c, n, F), module' = module,
         NEW j \in DOMAIN ports, NEW v, PortEnd(ports[j], v, c, n), <<c, v>> \in edges',
         ports[j].dir = "output"
  PROVE  IsDriven(v)'
<1>1. /\ c \in Vertices' /\ vertices'[c].type = "cell" /\ vertices'[c].cell = next
      /\ ports = module.cells[next]
  BY CellVertices DEF CellAdded
<1>2. vertices'[v].bits = ports[j].bits
  BY DEF PortEnd
<1>3. DrivenBits(c)' = UNION {Range(ports[k].bits) :
                                k \in {i \in DOMAIN ports : ports[i].dir = "output"}}
  BY <1>1 DEF DrivenBits
<1>4. Range(ports[j].bits) \subseteq DrivenBits(c)'
  BY <1>3
<1>5. IsCell(c)'
  BY <1>1 DEF IsCell
<1> QED
  BY <1>1, <1>2, <1>4, <1>5 DEF IsDriven

LEMMA PortEndFacts ==
  ASSUME GraphInv, NEW ports, NEW c, NEW n, NEW F, CellAdded(ports, c, n, F),
         NEW p, NEW v, PortEnd(p, v, c, n)
  PROVE  /\ v \in Vertices' /\ ~IsCell(v)' /\ v # c
         /\ v \in Nets' \/ (v \in c + 1 .. c + n /\ vertices'[v].port = p.dir)
<1>1. NetsFor(p.bits) \subseteq Nets /\ Nets \subseteq Vertices /\ Nets' = Nets
  BY CellVertices DEF NetsFor, WithBits, PlainNets, PortNets, Nets
<1>2. \A u \in Nets : vertices'[u].type = "net"
  BY DEF CellAdded, Nets, PlainNets, PortNets
<1>3. \A u \in c + 1 .. c + n : vertices'[u].type = "cellPort"
  BY DEF CellAdded
<1>4. v \in Nets \/ (v \in c + 1 .. c + n /\ vertices'[v].port = p.dir)
  BY <1>1 DEF PortEnd
<1> QED
  BY <1>1, <1>2, <1>3, <1>4, CellVertices DEF IsCell

LEMMA AddCellKeepsSources ==
  ASSUME GraphInv, DriverInv, SourceInv, AddCell
  PROVE  SourceInv'
<1>1. PICK ports, c, n, F : CellAdded(ports, c, n, F) /\ CellWired(ports, c, n, F)
  BY AddCellFacts
<1> USE <1>1
<1>2. /\ edges' = edges \cup F
      /\ ports = module.cells[next] /\ next \in DOMAIN module.cells
      /\ \A v \in Vertices : vertices'[v] = vertices[v]
      /\ vertices'[c].type = "cell" /\ vertices'[c].cell = next
      /\ \A v \in c + 1 .. c + n : vertices'[v].type = "cellPort"
  BY DEF CellAdded
<1>3. /\ pc = "cells" /\ pc' = "cells" /\ module' = module /\ remaining' = remaining
      /\ next' = next + 1 /\ next \in Nat /\ remaining = {}
  BY DEF AddCell, GraphInv, DriverInv, TargetHasNoDriver
<1>4. /\ c \notin Vertices /\ PlainNets' = PlainNets /\ PortNets' = PortNets
      /\ Vertices \subseteq Vertices'
      /\ \A v \in Vertices' : v \in Vertices \/ v = c \/ v \in c + 1 .. c + n
      /\ \A v \in c + 1 .. c + n : v \notin Vertices
  BY CellVertices
<1>5. Grows
  BY <1>2, <1>3, <1>4 DEF Grows
<1>6. ASSUME NEW v \in Vertices', ~IsCell(v)', v \notin Vertices
      PROVE  /\ v \in c + 1 .. c + n
             /\ \E j \in DOMAIN ports : /\ PortEnd(ports[j], v, c, n)
                                        /\ PortEdge(ports[j], v, c) \in edges'
  <2>1. v \in c + 1 .. c + n
    BY <1>2, <1>4, <1>6 DEF IsCell
  <2> QED
    BY <2>1 DEF CellWired, OwnArePorts
<1>7. BitsHaveDrivers'
  <2>1. ASSUME NEW u \in Vertices', ~IsCell(u)'
        PROVE  \A b \in SignalBits(vertices'[u].bits) : HasDriver(module, b)
    <3>1. CASE u \in Vertices
      BY <1>2, <2>1, <3>1 DEF SourceInv, BitsHaveDrivers, IsCell
    <3>2. CASE u \notin Vertices
      <4>1. PICK j \in DOMAIN ports : PortEnd(ports[j], u, c, n)
        BY <1>6, <2>1, <3>2
      <4>2. \A b \in SignalBits(module.cells[next][j].bits) : HasDriver(module, b)
        BY <1>2, <4>1 DEF SourceInv, AllDriven, SignalBits
      <4> QED
        BY <1>2, <4>1, <4>2 DEF PortEnd
    <3> QED
      BY <3>1, <3>2
  <2> QED
    BY <1>3, <2>1 DEF BitsHaveDrivers, SignalBits
<1>8. InputsAreVertices'
  <2>1. ASSUME NEW i \in DOMAIN module.nets, module.nets[i].port = "input"
        PROVE  \E u \in PortNets' : IsInput(u)' /\ vertices'[u].bits = module.nets[i].bits
    <3>1. PICK u \in PortNets : IsInput(u) /\ vertices[u].bits = module.nets[i].bits
      BY <1>3, <2>1 DEF SourceInv, InputsAreVertices
    <3>2. u \in Vertices /\ u \in PortNets'
      BY <1>4, <3>1 DEF PortNets
    <3> QED
      BY <1>2, <3>1, <3>2 DEF IsInput, IsNet
  <2> QED
    BY <1>3, <2>1 DEF InputsAreVertices
<1>9. OutputsAreVertices'
  <2>1. ASSUME NEW i \in DOMAIN module.cells, NEW j \in DOMAIN module.cells[i], i < next + 1,
               module.cells[i][j].dir = "output"
        PROVE  \E u \in Nets' \cup CellOutputs' :
                 IsDriven(u)' /\ vertices'[u].bits = module.cells[i][j].bits
    <3>1. CASE i < next
      <4>1. PICK u \in Nets \cup CellOutputs :
              IsDriven(u) /\ vertices[u].bits = module.cells[i][j].bits
        BY <1>3, <2>1, <3>1 DEF SourceInv, OutputsAreVertices
      <4>2. u \in Vertices /\ u \in Nets' \cup CellOutputs'
        BY <1>5, <4>1, SetsGrow DEF Nets, PlainNets, PortNets, CellOutputs
      <4>3. IsDriven(u)'
        BY <1>5, <4>1, <4>2, DrivenGrow
      <4> QED
        BY <1>2, <4>1, <4>2, <4>3
    <3>2. CASE i = next
      <4>1. PICK u : PortEnd(ports[j], u, c, n) /\ PortEdge(ports[j], u, c) \in edges'
        BY <1>2, <2>1, <3>2 DEF CellWired, PortsEnd
      <4>2. ports[j].dir = "output" /\ j \in DOMAIN ports
        BY <1>2, <2>1, <3>2
      <4>3. <<c, u>> \in edges'
        BY <4>1, <4>2 DEF PortEdge
      <4>4. IsDriven(u)'
        BY <1>3, <4>1, <4>2, <4>3, PortIsDriven
      <4>5. /\ u \in Vertices'
            /\ u \in Nets' \/ (u \in c + 1 .. c + n /\ vertices'[u].port = ports[j].dir)
        BY <4>1, PortEndFacts
      <4>6. u \in Nets' \cup CellOutputs'
        BY <1>2, <4>2, <4>5 DEF CellOutputs
      <4>7. vertices'[u].bits = module.cells[i][j].bits
        BY <1>2, <3>2, <4>1 DEF PortEnd
      <4> QED
        BY <4>4, <4>6, <4>7
    <3>3. i \in Nat
      BY <2>1, PortTypes
    <3> QED
      BY <1>3, <2>1, <3>1, <3>2, <3>3
  <2> QED
    BY <1>3, <2>1 DEF OutputsAreVertices
<1>10. CellOutputsAreDriven'
  <2>1. ASSUME NEW u \in CellOutputs'
        PROVE  IsDriven(u)'
    <3>0. u \in Vertices' /\ vertices'[u].type = "cellPort" /\ vertices'[u].port = "output"
      BY <2>1 DEF CellOutputs
    <3>1. CASE u \in Vertices
      <4>1. u \in CellOutputs
        BY <1>2, <3>0, <3>1 DEF CellOutputs
      <4>2. IsDriven(u)
        BY <4>1 DEF SourceInv, CellOutputsAreDriven
      <4> QED
        BY <1>5, <3>1, <4>2, DrivenGrow
    <3>2. CASE u \notin Vertices
      <4>1. PICK j \in DOMAIN ports : /\ PortEnd(ports[j], u, c, n)
                                      /\ PortEdge(ports[j], u, c) \in edges'
        BY <1>6, <3>0, <3>2 DEF IsCell
      <4>2. u \in Nets' \/ vertices'[u].port = ports[j].dir
        BY <4>1, PortEndFacts
      <4>3. ports[j].dir = "output"
        BY <3>0, <4>2 DEF Nets, PlainNets, PortNets
      <4>4. <<c, u>> \in edges'
        BY <4>1, <4>3 DEF PortEdge
      <4> QED
        BY <1>3, <4>1, <4>3, <4>4, PortIsDriven
    <3> QED
      BY <3>1, <3>2
  <2> QED
    BY <2>1 DEF CellOutputsAreDriven
<1>11. ASSUME NEW e \in F
       PROVE  \E j \in DOMAIN ports, v \in Vertices' :
                /\ PortEnd(ports[j], v, c, n)
                /\ e = PortEdge(ports[j], v, c)
  <2>1. PICK j \in DOMAIN ports : \E v :
          PortEnd(ports[j], v, c, n) /\ e = PortEdge(ports[j], v, c)
    BY DEF CellWired, EdgesArePorts
  <2>2. PICK v : PortEnd(ports[j], v, c, n) /\ e = PortEdge(ports[j], v, c)
    BY <2>1
  <2>3. v \in Vertices'
    BY <2>2, PortEndFacts
  <2> QED
    BY <2>2, <2>3
<1>12. ASSUME NEW e \in F, ~IsCell(e[2])'
       PROVE  IsCell(e[1])' /\ IsDriven(e[2])'
  <2>1. PICK j \in DOMAIN ports, v \in Vertices' :
          PortEnd(ports[j], v, c, n) /\ e = PortEdge(ports[j], v, c)
    BY <1>11, <1>12
  <2>2. IsCell(c)'
    BY <1>2 DEF IsCell
  <2>3. e = <<c, v>> /\ ports[j].dir # "input"
    BY <1>12, <2>1, <2>2 DEF PortEdge
  <2>4. module.cells[next][j].dir \in Directions
    BY <1>2, <2>1, PortTypes
  <2>5. ports[j].dir = "output"
    BY <1>2, <2>3, <2>4 DEF Directions
  <2>6. <<c, v>> \in edges'
    BY <1>2, <1>12, <2>3
  <2>7. IsDriven(v)'
    BY <1>3, <2>1, <2>5, <2>6, PortIsDriven
  <2> QED
    BY <2>2, <2>3, <2>7
<1>13. SourcesAreNetsOrDriven'
  <2>1. ASSUME NEW e \in edges', ~IsCell(e[2])'
        PROVE  IsCell(e[1])' \/ e[1] \in Nets' \cup CellOutputs'
    <3>1. CASE e \in edges
      <4>1. e[1] \in Vertices /\ e[2] \in Vertices
        BY <3>1, EdgeEnds
      <4>2. ~IsCell(e[2])
        BY <1>2, <2>1, <4>1 DEF IsCell
      <4>3. IsCell(e[1]) \/ e[1] \in Nets \cup CellOutputs
        BY <3>1, <4>2 DEF SourceInv, SourcesAreNetsOrDriven
      <4>4. IsCell(e[1]) => IsCell(e[1])'
        BY <1>2, <4>1 DEF IsCell
      <4>5. Nets \subseteq Nets' /\ CellOutputs \subseteq CellOutputs'
        BY <1>5, SetsGrow
      <4> QED
        BY <4>3, <4>4, <4>5
    <3>2. CASE e \in F
      BY <1>12, <2>1, <3>2
    <3> QED
      BY <1>2, <3>1, <3>2
  <2> QED
    BY <2>1 DEF SourcesAreNetsOrDriven
<1>14. ASSUME NEW u, IsDriven(u)', NEW b \in SignalBits(vertices'[u].bits)
       PROVE  Origins(u, b)' # {}
  <2>1. PICK k \in Vertices' : /\ IsCell(k)' /\ <<k, u>> \in edges'
                               /\ Range(vertices'[u].bits) \subseteq DrivenBits(k)'
    BY <1>14 DEF IsDriven
  <2>2. b \in DrivenBits(k)'
    BY <1>14, <2>1 DEF SignalBits
  <2>3. vertices'[k].type = "cell"
    BY <2>1 DEF IsCell
  <2> QED
    BY <2>1, <2>2, <2>3, NewOrigin
<1>15. TargetsAreSupplied'
  <2>1. ASSUME NEW u \in Vertices', ~IsCell(u)', NEW e \in edges', e[2] = u,
               NEW b \in SignalBits(vertices'[u].bits)
        PROVE  Origins(u, b)' # {}
    <3>1. CASE e \in edges
      <4>1. u \in Vertices /\ vertices'[u] = vertices[u]
        BY <1>2, <2>1, <3>1, EdgeEnds
      <4>2. ~IsCell(u) /\ Due(u)
        BY <2>1, <3>1, <4>1 DEF IsCell, Due, HasSource
      <4>3. Supplied(u)
        BY <4>1, <4>2 DEF SourceInv, TargetsAreSupplied
      <4>4. Origins(u, b) # {}
        BY <1>3, <2>1, <4>1, <4>3 DEF Supplied
      <4> QED
        BY <1>5, <4>1, <4>4, OriginsGrow
    <3>2. CASE e \in F
      <4>1. IsDriven(u)'
        BY <1>12, <2>1, <3>2
      <4> QED
        BY <1>14, <2>1, <4>1
    <3> QED
      BY <1>2, <3>1, <3>2
  <2>2. ASSUME NEW u \in Vertices', ~IsCell(u)', Due(u)'
        PROVE  Supplied(u)'
    <3>1. PICK e \in edges' : e[2] = u
      BY <1>3, <2>2 DEF Due, HasSource
    <3> QED
      BY <2>1, <2>2, <3>1 DEF Supplied, SignalBits
  <2> QED
    BY <2>2 DEF TargetsAreSupplied
<1>16. RemainingAreOfTarget' /\ AllDriven(module)'
  BY <1>3 DEF RemainingAreOfTarget, SourceInv
<1> QED
  BY <1>7, <1>8, <1>9, <1>10, <1>13, <1>15, <1>16 DEF SourceInv

Gives(s) ==
  /\ remaining' \subseteq remaining
  /\ remaining \ remaining' \subseteq Range(vertices[s].bits)

LEMMA ConnectGives ==
  ASSUME GraphInv, RemainingAreOfTarget, ConnectWhole \/ ConnectPart
  PROVE  \E s : Connects(s) /\ Gives(s)
<1>1. CASE ConnectWhole
  <2>1. PICK s \in WholeSources(next) : edges' = edges \cup {<<s, next>>}
    BY <1>1 DEF ConnectWhole
  <2>2. /\ s \in PlainNets \cup PortNets \cup CellOutputs /\ Eligible(next, s)
        /\ vertices[s].bits = vertices[next].bits
    BY <2>1 DEF WholeSources, First, WithBits
  <2>3. next \in Vertices
    BY <1>1, ConnectFacts DEF Connects
  <2>4. Connects(s)
    BY <1>1, <2>1, <2>2, <2>3 DEF Connects, ConnectWhole
  <2>5. Gives(s)
    BY <1>1, <2>2 DEF ConnectWhole, RemainingAreOfTarget, Gives, SignalBits
  <2> QED
    BY <2>4, <2>5
<1>2. CASE ConnectPart
  <2>1. PICK s \in PartSources(next) :
          edges' = edges \cup {<<s, next>>} /\ remaining' = remaining \ Covers(s)
    BY <1>2 DEF ConnectPart
  <2>2. s \in PlainNets \cup PortNets \cup CellOutputs /\ Eligible(next, s)
    BY <2>1 DEF PartSources, First
  <2>3. next \in Vertices
    BY <1>2, ConnectFacts DEF Connects
  <2>4. Connects(s)
    BY <1>2, <2>1, <2>2, <2>3 DEF Connects, ConnectPart
  <2>5. Gives(s)
    BY <2>1 DEF Covers, Gives, SignalBits
  <2> QED
    BY <2>4, <2>5
<1> QED
  BY <1>1, <1>2

LEMMA ConnectKeepsSources ==
  ASSUME GraphInv, DriverInv, SourceInv, ConnectWhole \/ ConnectPart
  PROVE  SourceInv'
<1>1. PICK s : Connects(s) /\ Gives(s)
  BY ConnectGives DEF SourceInv
<1>2. /\ s \in Nets \cup CellOutputs /\ next \in Vertices
      /\ edges' = edges \cup {<<s, next>>}
      /\ UNCHANGED <<module, vertices, next>>
  BY <1>1 DEF Connects, Nets
<1>3. remaining # {} /\ pc = "connect" /\ pc' = "connect"
  BY ConnectFacts
<1>4. /\ Vertices' = Vertices /\ Nets' = Nets /\ CellOutputs' = CellOutputs
      /\ PortNets' = PortNets /\ Grows
      /\ \A v : (IsCell(v)' <=> IsCell(v)) /\ (IsInput(v)' <=> IsInput(v))
  BY <1>2 DEF Grows, Vertices, Nets, PlainNets, PortNets, CellOutputs, IsCell, IsInput, IsNet
<1>5. s \in Vertices /\ vertices[s].type # "cell"
  BY <1>2 DEF Nets, PlainNets, PortNets, CellOutputs
<1>6. BitsHaveDrivers' /\ InputsAreVertices'
  BY <1>2, <1>3, <1>4 DEF SourceInv, BitsHaveDrivers, InputsAreVertices
<1>7. OutputsAreVertices'
  <2>1. ASSUME NEW i \in DOMAIN module.cells, NEW j \in DOMAIN module.cells[i],
               module.cells[i][j].dir = "output"
        PROVE  \E v \in Nets \cup CellOutputs :
                 IsDriven(v)' /\ vertices[v].bits = module.cells[i][j].bits
    <3>1. PICK v \in Nets \cup CellOutputs :
            IsDriven(v) /\ vertices[v].bits = module.cells[i][j].bits
      BY <1>3, <2>1 DEF SourceInv, OutputsAreVertices
    <3>2. v \in Vertices
      BY <3>1 DEF Nets, PlainNets, PortNets, CellOutputs
    <3>3. IsDriven(v)'
      BY <1>4, <3>1, <3>2, DrivenGrow
    <3> QED
      BY <3>1, <3>3
  <2> QED
    BY <1>2, <1>4, <2>1 DEF OutputsAreVertices
<1>8. CellOutputsAreDriven'
  <2>1. ASSUME NEW v \in CellOutputs
        PROVE  IsDriven(v)'
    <3>1. v \in Vertices /\ IsDriven(v)
      BY DEF SourceInv, CellOutputsAreDriven, CellOutputs
    <3> QED
      BY <1>4, <3>1, DrivenGrow
  <2> QED
    BY <1>4, <2>1 DEF CellOutputsAreDriven
<1>9. SourcesAreNetsOrDriven'
  <2>1. ASSUME NEW e \in edges', ~IsCell(e[2])
        PROVE  IsCell(e[1]) \/ e[1] \in Nets \cup CellOutputs
    BY <1>2, <2>1 DEF SourceInv, SourcesAreNetsOrDriven
  <2> QED
    BY <1>4, <2>1 DEF SourcesAreNetsOrDriven
<1>10. ASSUME NEW v \in Vertices, ~IsCell(v), Due(v)'
       PROVE  Due(v)
  <2>1. CASE v = next
    <3>1. next <= next
      BY DEF GraphInv
    <3>2. ~IsInput(next)
      BY <1>3 DEF DriverInv, TargetHasNoDriver
    <3> QED
      BY <1>3, <2>1, <3>1, <3>2 DEF Due
  <2>2. CASE v # next
    <3>1. HasSource(v)' => HasSource(v)
      BY <1>2, <2>2 DEF HasSource
    <3> QED
      BY <1>2, <1>3, <1>4, <1>10, <3>1 DEF Due
  <2> QED
    BY <2>1, <2>2
<1>11. ASSUME NEW v \in Vertices, Supplied(v)
       PROVE  Supplied(v)'
  <2>1. ASSUME NEW b \in SignalBits(vertices[v].bits)
        PROVE  Origins(v, b)' # {} \/ (v = next /\ b \in remaining')
    <3>1. CASE Origins(v, b) # {}
      BY <1>4, <3>1, OriginsGrow
    <3>2. CASE v = next /\ b \in remaining /\ b \notin remaining'
      <4>1. b \in Range(vertices[s].bits)
        BY <1>1, <3>2 DEF Gives
      <4>2. s \in Vertices' /\ <<s, v>> \in edges' /\ vertices' = vertices
        BY <1>2, <1>4, <1>5, <3>2
      <4> QED
        BY <1>5, <4>1, <4>2, NewOrigin
    <3> QED
      BY <1>11, <3>1, <3>2 DEF Supplied
  <2> QED
    BY <1>2, <2>1 DEF Supplied, SignalBits
<1>12. TargetsAreSupplied'
  <2>1. ASSUME NEW v \in Vertices, ~IsCell(v), Due(v)'
        PROVE  Supplied(v)'
    <3>1. Supplied(v)
      BY <1>10, <2>1 DEF SourceInv, TargetsAreSupplied
    <3> QED
      BY <1>11, <3>1
  <2> QED
    BY <1>4, <2>1 DEF TargetsAreSupplied
<1>13. RemainingAreOfTarget'
  BY <1>1, <1>2, <1>3, <1>4 DEF Gives, SourceInv, RemainingAreOfTarget, SignalBits
<1>14. AllDriven(module)'
  BY <1>2 DEF SourceInv
<1> QED
  BY <1>6, <1>7, <1>8, <1>9, <1>12, <1>13, <1>14 DEF SourceInv

(* As long as bits of the target remain there is a vertex to take them     *)
(* from: that of the input or the cell that drives them, which nothing     *)
(* else feeds, so that the target does not reach it.                       *)
LEMMA DriverIsEligible ==
  ASSUME GraphInv, DriverInv, SourceInv, remaining # {},
         NEW d \in Nets \cup CellOutputs, IsInput(d) \/ IsDriven(d)
  PROVE  Eligible(next, d)
<1>1. /\ next \in Vertices /\ ~IsInput(next) /\ ~IsCell(next)
      /\ \A e \in edges : e[2] = next => ~IsCell(e[1])
  BY DEF DriverInv, TargetHasNoDriver, SourceInv, RemainingAreOfTarget
<1>2. d # next
  <2>1. CASE IsInput(d)
    BY <1>1, <2>1
  <2>2. CASE IsDriven(d)
    <3>1. PICK c \in Vertices : IsCell(c) /\ <<c, d>> \in edges
      BY <2>2 DEF IsDriven
    <3>2. <<c, d>>[1] = c /\ <<c, d>>[2] = d
      OBVIOUS
    <3> QED
      BY <1>1, <3>1, <3>2
  <2> QED
    BY <2>1, <2>2
<1> DEFINE R == ({next} \cup Nets) \ {d}
<1>3. ASSUME NEW u \in R, NEW w \in Nets, <<u, w>> \in edges
      PROVE  w # d
  <2>1. <<u, w>>[1] = u /\ <<u, w>>[2] = w
    OBVIOUS
  <2>2. ~IsCell(u)
    BY <1>1 DEF Nets, PlainNets, PortNets, IsCell
  <2>3. CASE IsInput(d)
    BY <1>3, <2>1, <2>3 DEF DriverInv, DriversAreNotAssigned, IsInput, IsNet
  <2>4. ASSUME IsDriven(d), w = d
        PROVE  FALSE
    <3>1. PICK c \in Vertices : IsCell(c) /\ <<c, d>> \in edges
      BY <2>4 DEF IsDriven
    <3>2. <<c, d>>[1] = c /\ <<c, d>>[2] = d
      OBVIOUS
    <3>3. <<c, d>> = <<u, w>>
      BY <1>3, <2>1, <2>4, <3>1, <3>2 DEF DriverInv, DriversAreNotAssigned, IsCell
    <3>4. c = u
      BY <2>1, <3>2, <3>3
    <3> QED
      BY <2>2, <3>1, <3>4
  <2> QED
    BY <2>3, <2>4
<1>4. Closed(Nets, edges, R)
  BY <1>3 DEF Closed
<1>5. next \in R /\ d \notin R
  BY <1>2
<1>6. NetsOf(Vertices, Nets)
  BY GraphFacts DEF GraphInv
<1> HIDE DEF R
<1>7. Following(Vertices, Nets, edges, next) \subseteq R
  BY <1>1, <1>4, <1>5, <1>6, FollowingFacts
<1>8. d \notin Follow(next)
  BY <1>5, <1>7, FollowIsFollowing
<1> QED
  BY <1>2, <1>8 DEF Eligible

LEMMA BitCanBeHad ==
  ASSUME GraphInv, DriverInv, SourceInv, pc = "connect", NEW b, HasDriver(module, b)
  PROVE  \E d \in Nets \cup CellOutputs :
           /\ IsInput(d) \/ IsDriven(d)
           /\ b \in Range(vertices[d].bits)
<1>1. ASSUME NEW i \in DOMAIN module.nets, module.nets[i].port = "input",
             b \in Range(module.nets[i].bits)
      PROVE  \E d \in Nets : IsInput(d) /\ b \in Range(vertices[d].bits)
  <2>1. PICK v \in PortNets : IsInput(v) /\ vertices[v].bits = module.nets[i].bits
    BY <1>1 DEF SourceInv, InputsAreVertices
  <2> QED
    BY <1>1, <2>1 DEF Nets
<1>2. ASSUME NEW i \in DOMAIN module.cells, NEW j \in DOMAIN module.cells[i],
             module.cells[i][j].dir = "output", b \in Range(module.cells[i][j].bits)
      PROVE  \E d \in Nets \cup CellOutputs : IsDriven(d) /\ b \in Range(vertices[d].bits)
  <2>1. PICK v \in Nets \cup CellOutputs :
          IsDriven(v) /\ vertices[v].bits = module.cells[i][j].bits
    BY <1>2 DEF SourceInv, OutputsAreVertices
  <2> QED
    BY <1>2, <2>1
<1>3. \/ \E i \in DOMAIN module.nets : /\ module.nets[i].port = "input"
                                       /\ b \in Range(module.nets[i].bits)
      \/ \E i \in DOMAIN module.cells : \E j \in DOMAIN module.cells[i] :
           module.cells[i][j].dir = "output" /\ b \in Range(module.cells[i][j].bits)
  BY DEF HasDriver
<1> QED
  BY <1>1, <1>2, <1>3

LEMMA SourceIsLeft ==
  ASSUME GraphInv, DriverInv, SourceInv, remaining # {}
  PROVE  PartSources(next) # {}
<1>1. /\ pc = "connect" /\ next \in Vertices /\ ~IsCell(next)
      /\ remaining \subseteq SignalBits(vertices[next].bits)
  BY DEF DriverInv, TargetHasNoDriver, SourceInv, RemainingAreOfTarget
<1>2. PICK b \in remaining : b # 0
  BY <1>1 DEF SignalBits
<1>3. HasDriver(module, b)
  BY <1>1, <1>2 DEF SourceInv, BitsHaveDrivers
<1>4. PICK d \in Nets \cup CellOutputs :
        (IsInput(d) \/ IsDriven(d)) /\ b \in Range(vertices[d].bits)
  BY <1>1, <1>3, BitCanBeHad
<1>5. Eligible(next, d)
  BY <1>4, DriverIsEligible
<1>6. SignalBits(vertices[d].bits) \cap remaining # {}
  BY <1>2, <1>4 DEF SignalBits
<1> QED
  BY <1>4, <1>5, <1>6 DEF PartSources, First, Nets

(* When its turn comes, a vertex either has all of its sources or is left  *)
(* with all of its bits.                                                   *)
LEMMA TurnComes ==
  ASSUME GraphInv, DriverInv, SourceInv, remaining = {},
         NEW v \in Vertices, ~IsCell(v), ~IsInput(v), NEW b \in SignalBits(vertices[v].bits)
  PROVE  Origins(v, b) # {} \/ b \in RemainingOf(v)
<1>1. CASE HasSource(v)
  <2>1. Supplied(v)
    BY <1>1 DEF SourceInv, TargetsAreSupplied, Due
  <2> QED
    BY <2>1 DEF Supplied
<1>2. CASE ~HasSource(v)
  <2>1. NeedsSource(v)
    BY <1>2 DEF NeedsSource, IsCell, IsInput, IsNet
  <2> QED
    BY <2>1 DEF RemainingOf
<1> QED
  BY <1>1, <1>2

LEMMA RemainingFacts ==
  ASSUME NEW v, RemainingOf(v) # {}
  PROVE  ~IsCell(v) /\ RemainingOf(v) = SignalBits(vertices[v].bits)
BY DEF RemainingOf, NeedsSource, IsCell

(* What only the vertices and edges decide                                 *)
LEMMA SameGraph ==
  ASSUME SourceInv, UNCHANGED <<module, vertices, edges>>
  PROVE  /\ AllDriven(module)' /\ BitsHaveDrivers' /\ CellOutputsAreDriven'
         /\ SourcesAreNetsOrDriven'
<1>1. /\ Vertices' = Vertices /\ Nets' = Nets /\ CellOutputs' = CellOutputs
      /\ \A v : (IsCell(v)' <=> IsCell(v)) /\ (IsDriven(v)' <=> IsDriven(v))
  BY DEF Vertices, Nets, PlainNets, PortNets, CellOutputs, IsCell, IsDriven, DrivenBits
<1> QED
  BY <1>1 DEF SourceInv, BitsHaveDrivers, CellOutputsAreDriven, SourcesAreNetsOrDriven

LEMMA SameVertices ==
  ASSUME SourceInv, UNCHANGED <<module, vertices, edges>>
  PROVE  /\ Vertices' = Vertices /\ Nets' = Nets /\ PortNets' = PortNets
         /\ CellOutputs' = CellOutputs
         /\ \A v : IsCell(v)' <=> IsCell(v)
         /\ \A v : IsInput(v)' <=> IsInput(v)
         /\ \A v : IsDriven(v)' <=> IsDriven(v)
         /\ \A v : HasSource(v)' <=> HasSource(v)
         /\ \A v, b : Origins(v, b)' = Origins(v, b)
BY DEF Vertices, Nets, PlainNets, PortNets, CellOutputs, IsCell, IsInput, IsNet, IsDriven,
       DrivenBits, HasSource, Origins

LEMMA InputsStay ==
  ASSUME SourceInv, UNCHANGED <<module, vertices, edges>>,
         \A i \in DOMAIN module.nets : pc = "nets" => i < next
  PROVE  InputsAreVertices'
<1>1. ASSUME NEW i \in DOMAIN module.nets, module.nets[i].port = "input"
      PROVE  \E v \in PortNets : IsInput(v) /\ vertices[v].bits = module.nets[i].bits
  BY <1>1 DEF SourceInv, InputsAreVertices
<1> QED
  BY <1>1, SameVertices DEF InputsAreVertices

LEMMA OutputsStay ==
  ASSUME SourceInv, UNCHANGED <<module, vertices, edges>>,
         pc # "nets", \A i \in DOMAIN module.cells : pc = "cells" => i < next
  PROVE  OutputsAreVertices'
<1>1. ASSUME NEW i \in DOMAIN module.cells, NEW j \in DOMAIN module.cells[i],
             module.cells[i][j].dir = "output"
      PROVE  \E v \in Nets \cup CellOutputs :
               IsDriven(v) /\ vertices[v].bits = module.cells[i][j].bits
  BY <1>1 DEF SourceInv, OutputsAreVertices
<1> QED
  BY <1>1, SameVertices DEF OutputsAreVertices

LEMMA NetlistLengths ==
  ASSUME GraphInv
  PROVE  /\ DOMAIN module.nets = 1 .. Len(module.nets) /\ Len(module.nets) \in Nat
         /\ DOMAIN module.cells = 1 .. Len(module.cells) /\ Len(module.cells) \in Nat
BY ModulesAssumption DEF GraphInv

LEMMA AllNetsAddedKeepsSources ==
  ASSUME GraphInv, DriverInv, SourceInv, AllNetsAdded
  PROVE  SourceInv'
<1>1. /\ pc = "nets" /\ next > Len(module.nets) /\ pc' = "cells" /\ next' = 1
      /\ UNCHANGED <<module, vertices, edges, remaining>> /\ remaining = {}
  BY DEF AllNetsAdded, DriverInv, TargetHasNoDriver
<1>2. InputsAreVertices'
  <2>1. \A i \in DOMAIN module.nets : i < next
    BY <1>1, NetlistLengths DEF GraphInv
  <2> QED
    BY <1>1, <2>1, InputsStay
<1>3. OutputsAreVertices'
  <2>1. \A i \in DOMAIN module.cells : ~(i < 1)
    BY NetlistLengths
  <2> QED
    BY <1>1, <2>1 DEF OutputsAreVertices
<1>4. TargetsAreSupplied'
  <2>1. ASSUME NEW v \in Vertices, ~IsCell(v), HasSource(v),
               NEW b \in SignalBits(vertices[v].bits)
        PROVE  Origins(v, b) # {}
    <3>1. Supplied(v)
      BY <2>1 DEF SourceInv, TargetsAreSupplied, Due
    <3> QED
      BY <1>1, <3>1 DEF Supplied
  <2> QED
    BY <1>1, <2>1, SameVertices DEF TargetsAreSupplied, Due, Supplied, SignalBits
<1> QED
  BY <1>1, <1>2, <1>3, <1>4, SameGraph DEF SourceInv, RemainingAreOfTarget

(* A new target                                                            *)
LEMMA TargetKeepsSources ==
  ASSUME GraphInv, DriverInv, SourceInv, UNCHANGED <<module, vertices, edges>>,
         remaining = {}, pc' = "connect", next' \in Nat,
         pc # "nets", \A i \in DOMAIN module.cells : pc = "cells" => i < next,
         next' \in Vertices => remaining' = RemainingOf(next'),
         next' \notin Vertices => remaining' = {},
         \A v \in Vertices : v < next' => pc = "connect" /\ v <= next
  PROVE  SourceInv'
<1>1. InputsAreVertices' /\ OutputsAreVertices'
  BY InputsStay, OutputsStay
<1>2. RemainingAreOfTarget'
  BY RemainingFacts, SameVertices DEF RemainingAreOfTarget, SignalBits
<1>3. ASSUME NEW v \in Vertices, ~IsCell(v), Due(v)',
             NEW b \in SignalBits(vertices[v].bits), Origins(v, b) = {}
      PROVE  v = next' /\ b \in remaining'
  <2>1. ~Supplied(v)
    BY <1>3 DEF Supplied
  <2>2. ~Due(v)
    BY <1>3, <2>1 DEF SourceInv, TargetsAreSupplied
  <2>3. ~HasSource(v) /\ v <= next' /\ ~IsInput(v)
    BY <1>3, <2>2, SameVertices DEF Due
  <2>4. ~(v < next')
    BY <2>2, <2>3 DEF Due
  <2>5. v = next'
    <3>1. v \in Nat
      BY GraphFacts DEF GraphInv
    <3> QED
      BY <2>3, <2>4, <3>1
  <2>6. b \in RemainingOf(v)
    BY <1>3, <2>3, TurnComes
  <2> QED
    BY <2>5, <2>6
<1>4. TargetsAreSupplied'
  BY <1>3, SameVertices DEF TargetsAreSupplied, Supplied, SignalBits
<1> QED
  BY <1>1, <1>2, <1>4, SameGraph DEF SourceInv

LEMMA AllCellsAddedKeepsSources ==
  ASSUME GraphInv, DriverInv, SourceInv, AllCellsAdded
  PROVE  SourceInv'
<1>1. /\ pc = "cells" /\ next > Len(module.cells) /\ pc' = "connect" /\ next' = 1
      /\ UNCHANGED <<module, vertices, edges>> /\ remaining = {}
      /\ remaining' = IF vertices = <<>> THEN {} ELSE RemainingOf(1)
  BY DEF AllCellsAdded, DriverInv, TargetHasNoDriver
<1>2. \A i \in DOMAIN module.cells : i < next
  BY <1>1, NetlistLengths DEF GraphInv
<1>3. Vertices = 1 .. Len(vertices) /\ Len(vertices) \in Nat
  BY GraphFacts DEF GraphInv
<1>4. vertices # <<>> <=> 1 \in Vertices
  <2>1. vertices \in Seq({vertices[i] : i \in DOMAIN vertices})
    BY DEF GraphInv, IsSequence
  <2> QED
    BY <1>3, <2>1
<1>5. \A v \in Vertices : ~(v < 1)
  BY <1>3
<1> QED
  BY <1>1, <1>2, <1>4, <1>5, TargetKeepsSources

LEMMA NextTargetKeepsSources ==
  ASSUME GraphInv, DriverInv, SourceInv, NextTarget
  PROVE  SourceInv'
<1>1. /\ pc = "connect" /\ pc' = "connect" /\ next' = next + 1 /\ next \in Nat
      /\ UNCHANGED <<module, vertices, edges>>
      /\ remaining' = IF next' <= Len(vertices) THEN RemainingOf(next') ELSE {}
  BY DEF NextTarget, Connecting, GraphInv
<1>2. remaining = {}
  BY SourceIsLeft DEF NextTarget
<1>3. Vertices = 1 .. Len(vertices) /\ Len(vertices) \in Nat
  BY GraphFacts DEF GraphInv
<1>4. next' <= Len(vertices) <=> next' \in Vertices
  BY <1>1, <1>3
<1>5. \A v \in Vertices : v < next' => v <= next
  BY <1>1, <1>3
<1> QED
  BY <1>1, <1>2, <1>4, <1>5, TargetKeepsSources

LEMMA StoppingKeepsSources ==
  ASSUME GraphInv, DriverInv, SourceInv, Populated \/ UNCHANGED vars
  PROVE  SourceInv'
<1>1. /\ UNCHANGED <<module, vertices, edges, next, remaining>>
      /\ pc' = pc \/ (pc = "connect" /\ pc' = "done" /\ next > Len(vertices))
  BY DEF Populated, vars
<1>2. (pc = "nets" <=> pc' = "nets") /\ (pc = "cells" <=> pc' = "cells")
  BY <1>1
<1>3. ASSUME NEW v \in Vertices, Due(v)'
      PROVE  Due(v)
  <2>1. next > Len(vertices) => v <= next
    BY GraphFacts DEF GraphInv
  <2> QED
    BY <1>1, <1>3, <2>1, SameVertices DEF Due
<1>4. \A v : Supplied(v)' <=> Supplied(v)
  BY <1>1, SameVertices DEF Supplied, SignalBits
<1>5. InputsAreVertices' /\ OutputsAreVertices'
  BY <1>1, <1>2, SameVertices DEF SourceInv, InputsAreVertices, OutputsAreVertices
<1>6. TargetsAreSupplied' /\ RemainingAreOfTarget'
  BY <1>1, <1>3, <1>4, SameVertices
  DEF SourceInv, TargetsAreSupplied, RemainingAreOfTarget, SignalBits
<1> QED
  BY <1>1, <1>5, <1>6, SameGraph DEF SourceInv

LEMMA NextKeepsSources == GraphInv /\ DriverInv /\ SourceInv /\ [Next]_vars => SourceInv'
BY AddNetKeepsSources, AllNetsAddedKeepsSources, AddCellKeepsSources,
   AllCellsAddedKeepsSources, ConnectKeepsSources, NextTargetKeepsSources,
   StoppingKeepsSources
DEF Next

-----------------------------------------------------------------------------
(* Going back from a vertex over those that have a bit, as a fold          *)
Back(b) == {<<e[2], e[1]>> : e \in {f \in edges : f[1] \in Origins(f[2], b)}}
Backwards(v, b) == FoldSet(LAMBDA n, S : BackwardsOf(S, b), {v}, Vertices)

LEMMA BackIsOrigins ==
  ASSUME EdgesOf(Vertices, edges), NEW b, NEW u, NEW s
  PROVE  <<u, s>> \in Back(b) <=> s \in Origins(u, b)
<1>1. ASSUME s \in Origins(u, b)
      PROVE  <<u, s>> \in Back(b)
  <2>1. <<s, u>> \in edges
    BY <1>1 DEF Origins
  <2>2. <<s, u>>[1] = s /\ <<s, u>>[2] = u
    OBVIOUS
  <2> QED
    BY <1>1, <2>1, <2>2 DEF Back
<1>2. ASSUME <<u, s>> \in Back(b)
      PROVE  s \in Origins(u, b)
  <2>1. PICK e \in edges : e[1] \in Origins(e[2], b) /\ <<u, s>> = <<e[2], e[1]>>
    BY <1>2 DEF Back
  <2>2. u = e[2] /\ s = e[1]
    BY <2>1
  <2> QED
    BY <2>1, <2>2
<1> QED
  BY <1>1, <1>2

LEMMA BackwardsIsReached ==
  ASSUME EdgesOf(Vertices, edges), IsFiniteSet(Vertices), NEW v \in Vertices, NEW b
  PROVE  \E g : Reached(g, Vertices, Vertices, Back(b), v) /\ Backwards(v, b) = g[Vertices]
<1> DEFINE P(h) == h = [s \in SUBSET Vertices |->
                          IF s = {} THEN {v}
                          ELSE BackwardsOf(h[s \ {CHOOSE x \in s : TRUE}], b)]
<1>1. Backwards(v, b) = (CHOOSE h : P(h))[Vertices]
  BY Zenon DEF Backwards, FoldSet, MapThenFoldSet
<1>2. NetsOf(Vertices, Vertices)
  BY DEF NetsOf
<1>3. \E g : Reached(g, Vertices, Vertices, Back(b), v)
  BY <1>2, ReachedExists
<1>4. \A S : BackwardsOf(S, b) = Onwards(Vertices, Back(b), S)
  <2>1. \A u, s : <<u, s>> \in Back(b) <=> s \in Origins(u, b)
    BY BackIsOrigins
  <2>2. \A u : Origins(u, b) \subseteq Vertices
    BY DEF Origins
  <2> QED
    BY <2>1, <2>2 DEF BackwardsOf, Onwards
<1>5. \A h : P(h) <=> Reached(h, Vertices, Vertices, Back(b), v)
  BY <1>4, Zenon DEF Reached, Picked
<1> HIDE DEF P
<1>6. P(CHOOSE h : P(h))
  BY <1>3, <1>5
<1> QED
  BY <1>1, <1>5, <1>6

LEMMA BackwardsFacts ==
  ASSUME EdgesOf(Vertices, edges), IsFiniteSet(Vertices), NEW v \in Vertices, NEW b
  PROVE  /\ v \in Backwards(v, b)
         /\ Backwards(v, b) \in SUBSET Vertices
         /\ \A u \in Backwards(v, b) : Origins(u, b) \subseteq Backwards(v, b)
<1>1. PICK g : /\ Reached(g, Vertices, Vertices, Back(b), v)
               /\ Backwards(v, b) = g[Vertices]
  BY BackwardsIsReached
<1>2. NetsOf(Vertices, Vertices)
  BY DEF NetsOf
<1>3. /\ v \in g[Vertices] /\ g[Vertices] \in SUBSET Vertices
      /\ Closed(Vertices, Back(b), g[Vertices])
  BY <1>1, <1>2, ReachedFacts
<1>4. \A u, s : <<u, s>> \in Back(b) <=> s \in Origins(u, b)
  BY BackIsOrigins
<1>5. ASSUME NEW u \in g[Vertices], NEW s \in Origins(u, b)
      PROVE  s \in g[Vertices]
  <2>1. s \in Vertices /\ <<u, s>> \in Back(b)
    BY <1>4, <1>5 DEF Origins
  <2> QED
    BY <1>3, <2>1 DEF Closed
<1> QED
  BY <1>1, <1>3, <1>5

(* Going back never ends among nets alone, which form no loop, nor at a    *)
(* vertex without an origin.                                               *)
LEMMA BackwardsMeetsADriver ==
  ASSUME GraphInv, DriverInv, SourceInv, pc = "done",
         NEW v \in Vertices, ~IsCell(v), NEW b \in SignalBits(vertices[v].bits)
  PROVE  \E u \in Backwards(v, b) : IsDriver(u, b)
<1> SUFFICES ASSUME \A u \in Backwards(v, b) : ~IsDriver(u, b)
             PROVE  FALSE
  OBVIOUS
<1>1. IsFiniteSet(Vertices) /\ EdgesOf(Vertices, edges) /\ NetsOf(Vertices, Nets)
  BY GraphFacts DEF GraphInv, NetsOf
<1>2. /\ v \in Backwards(v, b)
      /\ Backwards(v, b) \in SUBSET Vertices
      /\ \A u \in Backwards(v, b) : Origins(u, b) \subseteq Backwards(v, b)
  BY <1>1, BackwardsFacts
<1>3. \A u \in Backwards(v, b) : ~IsCell(u) /\ ~IsInput(u)
  BY DEF IsDriver, IsCell, IsInput, IsNet
<1>4. b # 0 /\ b \in Range(vertices[v].bits)
  BY DEF SignalBits
<1> DEFINE X == {u \in Backwards(v, b) : b \in Range(vertices[u].bits)}
<1>5. ASSUME NEW u \in X
      PROVE  \E s \in X \cap Nets : <<s, u>> \in edges
  <2>1. u \in Vertices /\ ~IsCell(u) /\ ~IsInput(u) /\ b \in SignalBits(vertices[u].bits)
    BY <1>2, <1>3, <1>4 DEF SignalBits
  <2>2. Supplied(u)
    BY <2>1 DEF SourceInv, TargetsAreSupplied, Due
  <2>3. remaining = {}
    BY DEF DriverInv, TargetHasNoDriver
  <2>4. PICK s : s \in Origins(u, b)
    BY <2>1, <2>2, <2>3 DEF Supplied
  <2>5. s \in Backwards(v, b) /\ <<s, u>> \in edges /\ s \in Vertices
    BY <1>2, <2>4 DEF Origins
  <2>6. ~IsCell(s) /\ b \in Range(vertices[s].bits)
    BY <1>3, <2>4, <2>5 DEF Origins, IsCell
  <2>7. s \in Nets \cup CellOutputs
    <3>1. <<s, u>>[1] = s /\ <<s, u>>[2] = u
      OBVIOUS
    <3> QED
      BY <2>1, <2>5, <2>6, <3>1 DEF SourceInv, SourcesAreNetsOrDriven
  <2>8. s \notin CellOutputs
    <3> SUFFICES ASSUME s \in CellOutputs
                 PROVE  FALSE
      OBVIOUS
    <3>1. PICK c \in Vertices : /\ IsCell(c) /\ <<c, s>> \in edges
                                /\ Range(vertices[s].bits) \subseteq DrivenBits(c)
      BY DEF SourceInv, CellOutputsAreDriven, IsDriven
    <3>2. c \in Origins(s, b)
      BY <2>6, <3>1 DEF Origins, IsCell
    <3> QED
      BY <1>2, <1>3, <2>5, <3>1, <3>2
  <2> QED
    BY <2>5, <2>6, <2>7, <2>8
<1>6. v \in X
  BY <1>2, <1>4
<1> HIDE DEF X
<1>7. X \cap Nets # {} /\ X \cap Nets \in SUBSET Nets
  BY <1>5, <1>6
<1>8. NoLoop(Vertices, Nets, edges)
  BY DEF GraphInv
<1>9. PICK u \in X \cap Nets : \A s \in X \cap Nets : <<s, u>> \notin edges
  BY <1>1, <1>7, <1>8, NetsHaveAFirst
<1> QED
  BY <1>5, <1>9

(* In a netlist that drives every bit, and every vector of bits once, every *)
(* bit of every net and cell input comes, back over vertices that have it, *)
(* from an input or the cell that drives it: populate_graph leaves no bit  *)
(* floating, and no group of aliases feeds only itself.                    *)
THEOREM EveryBitIsDriven ==
  ASSUME ModulesAreDrivenOnce, ModulesAreAllDriven
  PROVE  Spec => []EveryBitComesFromItsDriver
<1>1. Init => DriverInv /\ SourceInv
  BY InitDrivers, InitSources
<1>2. GraphInv /\ DriverInv /\ SourceInv => EveryBitComesFromItsDriver
  <2>1. ASSUME GraphInv, DriverInv, SourceInv, pc = "done",
               NEW v \in Vertices, vertices[v].type # "cell",
               NEW b \in SignalBits(vertices[v].bits)
        PROVE  \E u \in Backwards(v, b) : IsDriver(u, b)
    BY <2>1, BackwardsMeetsADriver DEF IsCell
  <2> QED
    BY <2>1, Zenon DEF EveryBitComesFromItsDriver, Backwards
<1> QED
  BY <1>1, <1>2, NextKeepsDrivers, NextKeepsSources, GraphInvariant, PTL DEF Spec

=============================================================================
