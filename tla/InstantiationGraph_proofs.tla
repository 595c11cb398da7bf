--------------------- MODULE InstantiationGraph_proofs ---------------------
(***************************************************************************)
(* Theorems about the instance graph, for every design: the graph that     *)
(* create_instance builds (InstantiationGraph), the equations that         *)
(* export_smt2 makes of it (SmtUnrolling) and the paths that are searched  *)
(* in it (PathSearch).                                                     *)
(*                                                                         *)
(* The graph. BuildInv is inductive: at every moment the populated         *)
(* instances, the calls still to come and the edges fit together, each     *)
(* edge being a connection of a populated instance with its ends where     *)
(* they are by now.                                                        *)
(*                                                                         *)
(* The equations. Exported says that they are those of the finished graph, *)
(* one copy per time step. The rest is about that graph: an end of an      *)
(* instance has one place in it (Home), the edges at that place are the    *)
(* connections of the instance, and their nets name the bits.              *)
(***************************************************************************)
EXTENDS SmtUnrolling, PathSearch, Induction

-----------------------------------------------------------------------------
(* Instances and the modules they are instances of                         *)
InstanceType(d) == [level : Seq(STRING), type : DOMAIN d.modules]
RootOf(d) == [level |-> <<TopType(d)>>, type |-> TopType(d)]
CellsOf(d, i) == Range(d.modules[i.type].cells)
Child(i, c) == [level |-> Append(i.level, c.name), type |-> c.type]
Children(d, i) == {Child(i, c) : c \in {c \in CellsOf(d, i) : IsModule(d, c)}}

DesignsAreWellFormed == \A d \in Designs : WellFormed(d)

LEMMA RangeFacts ==
  ASSUME NEW S, NEW s \in Seq(S)
  PROVE  /\ \A x \in Range(s) : x \in S /\ \E i \in DOMAIN s : s[i] = x
         /\ \A i \in DOMAIN s : s[i] \in Range(s)
         /\ DOMAIN s = 1 .. Len(s) /\ Len(s) \in Nat
         /\ s # <<>> => 1 \in DOMAIN s
  BY DEF Range

LEMMA AppendsEqual ==
  ASSUME NEW S, NEW s \in Seq(S), NEW t \in Seq(S), NEW x, NEW y, Append(s, x) = Append(t, y)
  PROVE  s = t /\ x = y
<1>1. /\ Append(s, x) \in Seq(S \cup {x, y}) /\ Append(t, y) \in Seq(S \cup {x, y})
      /\ Len(Append(s, x)) = Len(s) + 1 /\ Len(Append(t, y)) = Len(t) + 1
      /\ Append(s, x)[Len(s) + 1] = x /\ Append(t, y)[Len(t) + 1] = y
      /\ \A i \in 1 .. Len(s) : Append(s, x)[i] = s[i]
      /\ \A i \in 1 .. Len(t) : Append(t, y)[i] = t[i]
  <2>1. s \in Seq(S \cup {x, y}) /\ t \in Seq(S \cup {x, y})
    OBVIOUS
  <2>2. x \in S \cup {x, y} /\ y \in S \cup {x, y}
    OBVIOUS
  <2> QED
    BY <2>1, <2>2
<1>2. Len(s) = Len(t) /\ x = y
  BY <1>1
<1>3. \A i \in 1 .. Len(s) : s[i] = t[i]
  BY <1>1, <1>2
<1> QED
  BY <1>2, <1>3

LEMMA AppendEqual ==
  ASSUME NEW S, NEW s \in Seq(S), NEW t \in Seq(S), NEW x, NEW y, Append(s, x) = Append(t, y)
  PROVE  s = t
BY AppendsEqual

LEMMA AppendedEqual ==
  ASSUME NEW S, NEW s \in Seq(S), NEW t \in Seq(S), NEW x, NEW y, Append(s, x) = Append(t, y)
  PROVE  x = y
BY AppendsEqual

LEMMA DesignFacts ==
  ASSUME NEW d \in Designs, NEW n \in DOMAIN d.modules
  PROVE  /\ d.modules[n].ports \in Seq(PortType)
         /\ d.modules[n].cells \in Seq(CellType)
         /\ d.modules[n].nets \in Seq(NetType)
         /\ n \in STRING
  BY DesignsAssumption

LEMMA KeyedFacts ==
  ASSUME NEW S, NEW s \in Seq(S), Keyed(s), NEW x \in Range(s), NEW y \in Range(s),
         x.name = y.name
  PROVE  x = y
<1>1. PICK i \in DOMAIN s : s[i] = x
  BY RangeFacts
<1>2. PICK j \in DOMAIN s : s[j] = y
  BY RangeFacts
<1> QED
  BY <1>1, <1>2 DEF Keyed

LEMMA ChildFacts ==
  ASSUME NEW d \in Designs, NEW i \in InstanceType(d), NEW c \in CellsOf(d, i), IsModule(d, c)
  PROVE  /\ Child(i, c) \in InstanceType(d)
         /\ Child(i, c).level = Append(i.level, c.name) /\ Child(i, c).type = c.type
         /\ c \in CellType
         /\ Len(Child(i, c).level) = Len(i.level) + 1
<1>1. i.level \in Seq(STRING) /\ i.type \in DOMAIN d.modules
  BY DEF InstanceType
<1>2. c \in CellType
  BY <1>1, DesignFacts, RangeFacts DEF CellsOf
<1>3. c.name \in STRING /\ c.type \in DOMAIN d.modules
  BY <1>2 DEF CellType, IsModule
<1> QED
  BY <1>1, <1>2, <1>3 DEF Child, InstanceType

(* What the fold keeps from one level to the next                          *)
Unfolding(d, S) ==
  /\ S \subseteq InstanceType(d) /\ RootOf(d) \in S
  /\ \A i \in S : i = RootOf(d) \/ \E j \in S : i \in Children(d, j)
  /\ \A i, j \in S : i.level = j.level => i = j
  /\ \A i \in S : i.level # <<>>

LEMMA BelowUnfolds ==
  ASSUME NEW d \in Designs, WellFormed(d), NEW S, Unfolding(d, S)
  PROVE  Unfolding(d, Below(d, S)) /\ Below(d, S) = S \cup UNION {Children(d, i) : i \in S}
<1> DEFINE T == S \cup UNION {Children(d, i) : i \in S}
<1>1. Below(d, S) = T
  BY DEF Below, Children, Child, CellsOf
<1>2. S \subseteq InstanceType(d) /\ RootOf(d) \in S
  BY DEF Unfolding
<1>3. ASSUME NEW i \in S, NEW j \in Children(d, i)
      PROVE  /\ j \in InstanceType(d)
             /\ j.level # <<>>
             /\ Len(j.level) # 1
  <2>1. PICK c \in CellsOf(d, i) : IsModule(d, c) /\ j = Child(i, c)
    BY DEF Children
  <2>2. i \in InstanceType(d) /\ i.level # <<>> /\ i.level \in Seq(STRING)
    BY <1>2 DEF Unfolding, InstanceType
  <2>3. j \in InstanceType(d) /\ j.level \in Seq(STRING) /\ Len(j.level) = Len(i.level) + 1
    BY <2>1, <2>2, ChildFacts DEF InstanceType
  <2> QED
    BY <2>2, <2>3
<1>4. \A i \in T : i = RootOf(d) \/ \E j \in S : i \in Children(d, j)
  BY DEF Unfolding
<1>6. T \subseteq InstanceType(d) /\ RootOf(d) \in T
  BY <1>2, <1>3
<1>7. \A i \in T : i.level # <<>>
  BY <1>3 DEF Unfolding
<1>8. \A i \in T : i = RootOf(d) \/ \E j \in T : i \in Children(d, j)
  BY <1>4
<1> HIDE DEF T
<1>5. ASSUME NEW i \in T, NEW j \in T, i.level = j.level
      PROVE  i = j
  <2>1. Len(RootOf(d).level) = 1
    BY DEF RootOf
  <2>2. CASE i = RootOf(d)
    <3>1. Len(j.level) = 1
      BY <1>5, <2>1, <2>2
    <3> QED
      BY <1>3, <1>4, <2>2, <3>1
  <2>3. CASE j = RootOf(d)
    <3>1. Len(i.level) = 1
      BY <1>5, <2>1, <2>3
    <3> QED
      BY <1>3, <1>4, <2>3, <3>1
  <2>4. ASSUME NEW k \in S, i \in Children(d, k), NEW l \in S, j \in Children(d, l)
        PROVE  i = j
    <3>1. PICK b \in CellsOf(d, k) : IsModule(d, b) /\ i = Child(k, b)
      BY <2>4 DEF Children
    <3>2. PICK c \in CellsOf(d, l) : IsModule(d, c) /\ j = Child(l, c)
      BY <2>4 DEF Children
    <3>3. /\ i.level = Append(k.level, b.name) /\ j.level = Append(l.level, c.name)
          /\ k.level \in Seq(STRING) /\ l.level \in Seq(STRING)
      BY <1>2, <3>1, <3>2, ChildFacts DEF InstanceType
    <3>4. k.level = l.level /\ b.name = c.name
      <4>1. Append(k.level, b.name) = Append(l.level, c.name)
        BY <1>5, <3>3
      <4>2. k.level \in Seq(STRING) /\ l.level \in Seq(STRING)
        BY <3>3
      <4>3. k.level = l.level
        BY <4>1, <4>2, AppendEqual
      <4>4. b.name = c.name
        BY <4>1, <4>2, AppendedEqual
      <4> QED
        BY <4>3, <4>4
    <3>5. k = l
      BY <3>4 DEF Unfolding
    <3>6. k.type \in DOMAIN d.modules
      BY <1>2 DEF InstanceType
    <3>7. Keyed(d.modules[k.type].cells) /\ d.modules[k.type].cells \in Seq(CellType)
      BY <3>6, DesignFacts DEF WellFormed
    <3>8. b = c
      BY <3>1, <3>2, <3>4, <3>5, <3>7, KeyedFacts DEF CellsOf
    <3> QED
      BY <3>1, <3>2, <3>5, <3>8
  <2> QED
    BY <1>4, <2>2, <2>3, <2>4
<1> QED
  BY <1>1, <1>5, <1>6, <1>7, <1>8 DEF Unfolding, T

LEMMA RootUnfolds ==
  ASSUME NEW d \in Designs, WellFormed(d)
  PROVE  Unfolding(d, {RootOf(d)})
<1>1. TopType(d) \in DOMAIN d.modules /\ TopType(d) \in STRING
  BY DesignFacts DEF WellFormed
<1>2. RootOf(d) \in InstanceType(d) /\ RootOf(d).level # <<>>
  BY <1>1 DEF RootOf, InstanceType
<1> QED
  BY <1>2 DEF Unfolding

(* Instances is a fold; every one of its steps unfolds a level more.       *)
LEMMA InstancesUnfold ==
  ASSUME NEW d \in Designs, WellFormed(d)
  PROVE  Unfolding(d, Instances(d))
<1> DEFINE D == DOMAIN d.modules
           base == {RootOf(d)}
           V == {S \in SUBSET InstanceType(d) : Unfolding(d, S)}
           P(h) == h = [s \in SUBSET D |->
                          IF s = {} THEN base ELSE Below(d, h[s \ {CHOOSE x \in s : TRUE}])]
           Q(h) == h = [s \in SUBSET D |->
                          IF s = {} THEN base ELSE Below(d, h[s \ {Picked(s)}])]
           Step == [x \in D |-> [S \in V |-> Below(d, S)]]
<1>1. Instances(d) = (CHOOSE h : P(h))[D]
  BY Zenon DEF Instances, FoldSet, MapThenFoldSet, RootOf
<1>2. IsFiniteSet(D)
  BY DesignsAssumption
<1>3. \A S : S \in V <=> Unfolding(d, S)
  BY DEF Unfolding
<1> HIDE DEF V
<1>4. base \in V
  BY <1>3, RootUnfolds
<1>5. \A S \in V : Below(d, S) \in V
  BY <1>3, BelowUnfolds
<1>6. \E h : Q(h)
  <2>1. Step \in [D -> [V -> V]]
    BY <1>5
  <2>2. PICK g \in [SUBSET D -> V] : IsFold(g, D, base, Step)
    <3> HIDE DEF Step, D, base
    <3> QED
      BY <1>2, <1>4, <2>1, FoldExists
  <2>3. ASSUME NEW s \in SUBSET D
        PROVE  g[s] = IF s = {} THEN base ELSE Below(d, g[s \ {Picked(s)}])
    <3> HIDE DEF base, D
    <3>1. CASE s = {}
      BY <2>2, <3>1 DEF IsFold
    <3>2. CASE s # {}
      <4>1. Picked(s) \in D /\ s \ {Picked(s)} \in SUBSET D
        BY <1>2, <3>2, PickedFacts
      <4>2. g[s] = Step[Picked(s)][g[s \ {Picked(s)}]]
        <5> HIDE DEF Step
        <5> QED
          BY <2>2, <3>2 DEF IsFold
      <4>3. g[s \ {Picked(s)}] \in V
        BY <4>1
      <4> QED
        BY <3>2, <4>1, <4>2, <4>3
    <3> QED
      BY <3>1, <3>2
  <2> HIDE DEF base, D
  <2>4. Q(g)
    BY <2>2, <2>3
  <2> QED
    BY <2>4
<1>7. \A h : P(h) <=> Q(h)
  BY Zenon DEF Picked
<1> HIDE DEF P, Q
<1> DEFINE f == CHOOSE h : P(h)
<1>8. Q(f)
  <2>1. \E h : P(h)
    BY <1>6, <1>7
  <2>2. P(f)
    BY <2>1
  <2> HIDE DEF f
  <2> QED
    BY <1>7, <2>2
<1> HIDE DEF f
<1>9. \A s \in SUBSET D : f[s] = IF s = {} THEN base ELSE Below(d, f[s \ {Picked(s)}])
  <2> HIDE DEF base, D
  <2> QED
    BY <1>8 DEF Q
<1> DEFINE Good == {s \in SUBSET D : f[s] \in V}
<1> HIDE DEF base, D
<1>10. {} \in Good
  BY <1>4, <1>9
<1>11. ASSUME NEW s \in SUBSET D, s # {}, s \ {Picked(s)} \in Good
       PROVE  s \in Good
  <2>1. f[s] = Below(d, f[s \ {Picked(s)}]) /\ f[s \ {Picked(s)}] \in V
    BY <1>9, <1>11
  <2> QED
    BY <1>5, <2>1
<1>12. SUBSET D \subseteq Good
  <2> HIDE DEF Good
  <2> QED
    BY <1>2, <1>10, <1>11, SubsetInduction
<1>13. f[D] \in V
  BY <1>12
<1> QED
  BY <1>1, <1>3, <1>13 DEF f

(* What the proofs need to know of the instances of a design               *)
LEMMA InstanceFacts ==
  ASSUME NEW d \in Designs, WellFormed(d)
  PROVE  /\ Instances(d) \subseteq InstanceType(d)
         /\ RootOf(d) \in Instances(d)
         /\ \A i \in Instances(d) : Children(d, i) \subseteq Instances(d)
         /\ \A i \in Instances(d) :
              i = RootOf(d) \/ \E j \in Instances(d) : i \in Children(d, j)
         /\ \A i, j \in Instances(d) : i.level = j.level => i = j
         /\ \A i \in Instances(d) : i.level # <<>>
<1>1. Unfolding(d, Instances(d))
  BY InstancesUnfold
<1>2. Instances(d) = Instances(d) \cup UNION {Children(d, i) : i \in Instances(d)}
  BY <1>1, BelowUnfolds DEF WellFormed
<1>3. \A i \in Instances(d) : Children(d, i) \subseteq Instances(d)
  BY <1>2
<1> QED
  BY <1>1, <1>3 DEF Unfolding

-----------------------------------------------------------------------------
(* Sublists                                                                *)

(* t is what seq has at the places in I, in order                          *)
Selection(t, seq, I, f) ==
  /\ f \in [DOMAIN t -> I]
  /\ \A k \in DOMAIN t : t[k] = seq[f[k]]
  /\ \A k, l \in DOMAIN t : k < l => f[k] < f[l]
  /\ \A x \in I : \E k \in DOMAIN t : f[k] = x

LEMMA SelectionGrows ==
  ASSUME NEW S, NEW seq \in Seq(S), NEW n \in Nat, n + 1 \in DOMAIN seq,
         NEW I \in SUBSET (1 .. n), NEW t \in Seq(S), NEW f, Selection(t, seq, I, f)
  PROVE  \E h : Selection(Append(t, seq[n + 1]), seq, I \cup {n + 1}, h)
<1> DEFINE u == Append(t, seq[n + 1])
           h == [k \in DOMAIN u |-> IF k = Len(t) + 1 THEN n + 1 ELSE f[k]]
<1>1. seq[n + 1] \in S
  OBVIOUS
<1>2. /\ DOMAIN t = 1 .. Len(t) /\ Len(t) \in Nat
      /\ DOMAIN u = 1 .. Len(t) + 1
      /\ u[Len(t) + 1] = seq[n + 1]
      /\ \A k \in DOMAIN t : u[k] = t[k]
  BY <1>1
<1> HIDE DEF u
<1>3. \A k \in DOMAIN t : f[k] \in I /\ f[k] \in 1 .. n
  BY DEF Selection
<1>4. h \in [DOMAIN u -> I \cup {n + 1}]
  BY <1>2, <1>3
<1>5. \A k \in DOMAIN u : u[k] = seq[h[k]]
  BY <1>2 DEF Selection
<1>6. ASSUME NEW k \in DOMAIN u, NEW l \in DOMAIN u, k < l
      PROVE  h[k] < h[l]
  <2>1. k \in DOMAIN t /\ h[k] = f[k]
    BY <1>2, <1>6
  <2>2. CASE l = Len(t) + 1
    BY <1>3, <2>1, <2>2
  <2>3. CASE l \in DOMAIN t
    <3>1. h[l] = f[l]
      BY <1>2, <2>3
    <3> QED
      BY <1>6, <2>1, <2>3, <3>1 DEF Selection
  <2> QED
    BY <1>2, <2>2, <2>3
<1>7. ASSUME NEW x \in I \cup {n + 1}
      PROVE  \E k \in DOMAIN u : h[k] = x
  <2>1. CASE x = n + 1
    BY <1>2, <2>1
  <2>2. CASE x \in I
    <3>1. PICK k \in DOMAIN t : f[k] = x
      BY <2>2 DEF Selection
    <3>2. k \in DOMAIN u /\ h[k] = f[k]
      BY <1>2
    <3> QED
      BY <3>1, <3>2
  <2> QED
    BY <2>1, <2>2
<1> HIDE DEF h
<1>8. Selection(u, seq, I \cup {n + 1}, h)
  BY <1>4, <1>5, <1>6, <1>7 DEF Selection
<1> QED
  BY <1>8 DEF u

LEMMA SublistIsSelection ==
  ASSUME NEW S, NEW seq \in Seq(S), NEW I \in SUBSET DOMAIN seq
  PROVE  /\ Sublist(seq, I) \in Seq(S)
         /\ \E f : Selection(Sublist(seq, I), seq, I, f)
<1> DEFINE N == Len(seq)
           LaterTodo(n, t) == IF n \in I THEN Append(t, seq[n]) ELSE t
           P(h) == h = [n \in 0 .. N |->
                          IF n = 0 THEN <<>>
                          ELSE IF n \in I THEN Append(h[n - 1], seq[n]) ELSE h[n - 1]]
           g == CHOOSE h : P(h)
           Step == [n \in 1 .. N |-> [t \in Seq(S) |-> LaterTodo(n, t)]]
<1>1. Sublist(seq, I) = g[N]
  BY Zenon DEF Sublist
<1>2. N \in Nat /\ DOMAIN seq = 1 .. N /\ <<>> \in Seq(S)
  OBVIOUS
<1>3. \A n \in 1 .. N : \A t \in Seq(S) : LaterTodo(n, t) \in Seq(S)
  BY <1>2
<1>4. \E h : P(h)
  <2>1. Step \in StepFunctions(N, Seq(S))
    <3> HIDE DEF LaterTodo
    <3> QED
      BY <1>3 DEF StepFunctions
  <2>2. PICK h \in [0 .. N -> Seq(S)] : Computes(h, N, <<>>, Step)
    <3> HIDE DEF Step, N
    <3> QED
      BY <1>2, <2>1, BoundedRecursion
  <2> HIDE DEF N
  <2>3. ASSUME NEW n \in 0 .. N
        PROVE  h[n] = IF n = 0 THEN <<>>
                      ELSE IF n \in I THEN Append(h[n - 1], seq[n]) ELSE h[n - 1]
    <3>1. CASE n = 0
      BY <2>2, <3>1 DEF Computes
    <3>2. CASE n # 0
      <4>1. n \in 1 .. N /\ n - 1 \in 0 .. N
        BY <1>2, <3>2
      <4>2. h[n] = Step[n][h[n - 1]]
        <5> HIDE DEF Step
        <5> QED
          BY <2>2, <4>1 DEF Computes
      <4>3. h[n - 1] \in Seq(S)
        BY <4>1
      <4>4. Step[n][h[n - 1]] = LaterTodo(n, h[n - 1])
        <5> HIDE DEF LaterTodo
        <5> QED
          BY <4>1, <4>3
      <4> QED
        BY <3>2, <4>2, <4>4
    <3> QED
      BY <3>1, <3>2
  <2>4. P(h)
    BY <2>2, <2>3
  <2> HIDE DEF P
  <2> QED
    BY <2>4
<1>5. P(g)
  <2> HIDE DEF P
  <2> QED
    BY <1>4
<1> HIDE DEF g, N
<1>6. /\ g[0] = <<>>
      /\ \A n \in 0 .. N - 1 :
           g[n + 1] = IF n + 1 \in I THEN Append(g[n], seq[n + 1]) ELSE g[n]
  <2>1. \A n \in 0 .. N : g[n] = IF n = 0 THEN <<>>
                      ELSE IF n \in I THEN Append(g[n - 1], seq[n]) ELSE g[n - 1]
    BY <1>5
  <2>2. 0 \in 0 .. N
    BY <1>2
  <2>3. ASSUME NEW n \in 0 .. N - 1
        PROVE  g[n + 1] = IF n + 1 \in I THEN Append(g[n], seq[n + 1]) ELSE g[n]
    <3>1. n + 1 \in 0 .. N /\ n + 1 # 0 /\ (n + 1) - 1 = n
      BY <1>2
    <3> QED
      BY <2>1, <3>1
  <2> QED
    BY <2>1, <2>2, <2>3
<1> DEFINE Good == {n \in 0 .. N : /\ g[n] \in Seq(S)
                                   /\ \E f : Selection(g[n], seq, I \cap (1 .. n), f)}
<1>7. 0 \in Good
  <2>1. Selection(<<>>, seq, I \cap (1 .. 0), <<>>)
    BY DEF Selection
  <2>2. g[0] = <<>> /\ \E f : Selection(g[0], seq, I \cap (1 .. 0), f)
    BY <1>6, <2>1
  <2>3. 0 \in 0 .. N /\ g[0] \in Seq(S)
    BY <1>2, <1>6
  <2> QED
    BY <2>2, <2>3
<1>8. ASSUME NEW n \in 0 .. N - 1, n \in Good
      PROVE  n + 1 \in Good
  <2>1. n \in Nat /\ n + 1 \in 0 .. N /\ n + 1 \in DOMAIN seq
    BY <1>2
  <2>2. PICK f : Selection(g[n], seq, I \cap (1 .. n), f)
    BY <1>8
  <2>3. g[n] \in Seq(S)
    BY <1>8
  <2>4. CASE n + 1 \in I
    <3>1. g[n + 1] = Append(g[n], seq[n + 1])
      BY <1>6, <2>4
    <3>2. \E h : Selection(Append(g[n], seq[n + 1]), seq, (I \cap (1 .. n)) \cup {n + 1}, h)
      BY <2>1, <2>2, <2>3, SelectionGrows
    <3>3. (I \cap (1 .. n)) \cup {n + 1} = I \cap (1 .. n + 1)
      BY <2>1, <2>4
    <3>4. Append(g[n], seq[n + 1]) \in Seq(S)
      BY <2>1, <2>3
    <3> QED
      BY <2>1, <3>1, <3>2, <3>3, <3>4
  <2>5. CASE n + 1 \notin I
    <3>1. g[n + 1] = g[n]
      BY <1>6, <2>5
    <3>2. I \cap (1 .. n) = I \cap (1 .. n + 1)
      BY <2>1, <2>5
    <3> QED
      BY <2>1, <2>2, <2>3, <3>1, <3>2
  <2> QED
    BY <2>4, <2>5
<1>9. 0 .. N \subseteq Good
  <2> HIDE DEF Good
  <2> QED
    BY <1>2, <1>7, <1>8, BoundedInduction
<1>10. N \in Good
  <2> HIDE DEF Good
  <2> QED
    BY <1>2, <1>9
<1>11. I \cap (1 .. N) = I
  BY <1>2
<1> QED
  BY <1>1, <1>10, <1>11

(* A selection of all places is the whole sequence.                        *)
LEMMA WholeSublist ==
  ASSUME NEW S, NEW seq \in Seq(S)
  PROVE  Sublist(seq, DOMAIN seq) = seq
<1> DEFINE t == Sublist(seq, DOMAIN seq)
           N == Len(seq)
<1>1. PICK f : Selection(t, seq, DOMAIN seq, f)
  BY SublistIsSelection
<1>2. t \in Seq(S)
  BY SublistIsSelection
<1> HIDE DEF t
<1>3. /\ DOMAIN t = 1 .. Len(t) /\ Len(t) \in Nat
      /\ DOMAIN seq = 1 .. N /\ N \in Nat
  BY <1>2
<1> HIDE DEF N
<1>4. /\ \A k \in 1 .. Len(t) : f[k] \in 1 .. N
      /\ \A k, l \in 1 .. Len(t) : k < l => f[k] < f[l]
      /\ \A x \in 1 .. N : \E k \in 1 .. Len(t) : f[k] = x
  BY <1>1, <1>3 DEF Selection
<1> DEFINE Good == {n \in 0 .. N : \A k \in 1 .. n : k \in 1 .. Len(t) /\ f[k] = k}
<1>5. 0 \in Good
  BY <1>3
<1>6. ASSUME NEW n \in 0 .. N - 1, n \in Good
      PROVE  n + 1 \in Good
  <2>1. PICK k \in 1 .. Len(t) : f[k] = n + 1
    BY <1>3, <1>4
  <2>2. k > n
    BY <1>3, <1>6, <2>1
  <2>3. n + 1 \in 1 .. Len(t)
    BY <1>3, <2>2
  <2>4. f[n + 1] \in 1 .. N /\ f[n + 1] > n
    <3>1. CASE n = 0
      BY <1>4, <2>3, <3>1
    <3>2. CASE n > 0
      <4>1. n \in 1 .. Len(t) /\ f[n] = n
        BY <1>3, <1>6, <3>2
      <4>2. f[n] < f[n + 1]
        BY <1>3, <1>4, <2>3, <4>1
      <4>3. f[n + 1] \in 1 .. N
        BY <1>4, <2>3
      <4> QED
        BY <4>1, <4>2, <4>3
    <3> QED
      BY <1>3, <3>1, <3>2
  <2>5. k = n + 1
    <3>1. CASE n + 1 < k
      <4>1. f[n + 1] < f[k]
        BY <1>4, <2>3, <3>1
      <4> QED
        BY <1>3, <2>1, <2>4, <4>1
    <3> QED
      BY <1>3, <2>2, <3>1
  <2> QED
    BY <1>3, <1>6, <2>1, <2>5
<1>7. 0 .. N \subseteq Good
  <2> HIDE DEF Good
  <2> QED
    BY <1>3, <1>5, <1>6, BoundedInduction
<1>8. \A k \in 1 .. N : k \in 1 .. Len(t) /\ f[k] = k
  BY <1>3, <1>7
<1>9. Len(t) = N
  <2>1. ASSUME Len(t) > N PROVE FALSE
    <3>1. N + 1 \in 1 .. Len(t) /\ f[N + 1] \in 1 .. N
      BY <1>3, <1>4, <2>1
    <3>2. f[f[N + 1]] < f[N + 1]
      BY <1>3, <1>4, <1>8, <3>1
    <3>3. f[f[N + 1]] = f[N + 1] /\ f[N + 1] \in Int
      BY <1>3, <1>8, <3>1
    <3> QED
      BY <3>2, <3>3
  <2>2. ~(Len(t) < N)
    BY <1>3, <1>8
  <2>3. Len(t) \in Nat /\ N \in Nat
    BY <1>3
  <2> QED
    BY <2>1, <2>2, <2>3
<1>10. \A k \in 1 .. N : t[k] = seq[k]
  BY <1>1, <1>3, <1>8 DEF Selection
<1>11. t = seq
  BY <1>2, <1>3, <1>9, <1>10
<1> QED
  BY <1>11 DEF t

-----------------------------------------------------------------------------
(* The inductive invariant of the construction                             *)
Name == STRING \cup {""}     (* the provers do not know that "" is a string *)
VertexType == [at : Seq(Name), cell : Name, port : Name]
CallType == [vertex : VertexType, type : STRING]
EdgeType == [from : VertexType, to : VertexType, out : STRING, in : STRING,
             level : Seq(Name), net : NetType \cup {NoNet}]

GraphTypes ==
  /\ design \in Designs
  /\ vertices \in SUBSET VertexType
  /\ edges \in SUBSET EdgeType
  /\ todo \in Seq(CallType)
  /\ outcome \in {"building", "built", "thrown", "refused"}

ModuleOf(i) == design.modules[i.type]
DriversOf(i) == Drivers(ModuleOf(i), i.level)
ReadersOf(i) == Readers(ModuleOf(i), i.level)

PortVertices(i) == {PortVertex(i.level, p.name) : p \in Range(ModuleOf(i).ports)}
CellVertices(i) == {CellVertex(i.level, c) : c \in Range(ModuleOf(i).cells)}
Lasting(i) ==
  PortVertices(i) \cup
  {CellVertex(i.level, c) : c \in {c \in Range(ModuleOf(i).cells) : ~IsModule(design, c)}}

(* The calls to come are for instances whose vertex is there and that are  *)
(* not populated yet, one for each.                                        *)
InstanceOf(call) == [level |-> Inside(call.vertex), type |-> call.type]
Planned == {InstanceOf(todo[k]) : k \in DOMAIN todo}

PlanInv ==
  /\ \A k \in DOMAIN todo :
       /\ InstanceOf(todo[k]) \in Instances(design)
       /\ todo[k].vertex \in vertices
       /\ todo[k].vertex.port = ""
       /\ \A v \in vertices : v.at # Inside(todo[k].vertex)
  /\ \A k, l \in DOMAIN todo : todo[k].vertex = todo[l].vertex => k = l

(* An instance is populated, or is planned, or waits for the one around it. *)
UnfoldInv ==
  /\ RootOf(design) \in Populated \cup Planned
  /\ \A i \in Populated : Children(design, i) \subseteq Populated \cup Planned
  /\ \A i \in Instances(design) : \A j \in Children(design, i) :
       j \in Populated => i \in Populated
  /\ \A i \in Populated : Lasting(i) \subseteq vertices
  /\ \A v \in vertices :
       \/ v.at = <<>> /\ v.port = ""
       \/ \E i \in Populated : v \in PortVertices(i) \cup CellVertices(i)

(* An edge is a connection of an instance, with its ends where they are by *)
(* now, and every connection has one.                                      *)
IsEdgeOf(S, e, i, d, r) ==
  /\ e.from = EndIn(S, d) /\ e.to = EndIn(S, r)
  /\ e.out = d.port /\ e.in = r.port /\ e.level = i.level

(* The net of an edge is the first that has exactly the driver's bits, or  *)
(* else exactly the reader's, or else one that touches both.               *)
Labelled(nets, d, r, net) ==
  IF Exact(nets, d.bits) # {} THEN net = FirstOf(nets, Exact(nets, d.bits))
  ELSE IF Exact(nets, r.bits) # {} THEN net = FirstOf(nets, Exact(nets, r.bits))
  ELSE net \in Representatives(nets) /\ Touches(net, d, r)

NamesSuffice == WellNamed(design) \/ DriversHaveNets(design)

EdgeInv ==
  /\ \A e \in edges : \E i \in Populated : \E d \in DriversOf(i), r \in ReadersOf(i) :
       /\ Connected(d, r) /\ IsEdgeOf(Populated, e, i, d, r)
       /\ NamesSuffice => Labelled(ModuleOf(i).nets, d, r, e.net)
  /\ \A i \in Populated : \A d \in DriversOf(i), r \in ReadersOf(i) :
       Connected(d, r) => \E e \in edges : IsEdgeOf(Populated, e, i, d, r)

BuildInv ==
  /\ GraphTypes
  /\ outcome # "thrown" => PlanInv /\ UnfoldInv /\ EdgeInv
  /\ outcome \in {"built", "refused"} => todo = <<>> /\ Unlabelled = {}
  /\ WellNamed(design) => outcome # "thrown"

-----------------------------------------------------------------------------
(* Moving edges from a vertex to the ports inside it                       *)
MovedEnd(v, x, port) == IF x = v THEN PortVertex(Inside(v), port) ELSE x
MovedEdge(v, e) ==
  [from |-> MovedEnd(v, e.from, e.out), to |-> MovedEnd(v, e.to, e.in),
   out |-> e.out, in |-> e.in, level |-> e.level, net |-> e.net]

LEMMA InsideFacts ==
  ASSUME NEW v \in VertexType
  PROVE  /\ Inside(v) \in Seq(Name) /\ Inside(v) # v.at /\ Inside(v) # <<>>
         /\ \A name : PortVertex(Inside(v), name) # v
         /\ \A w \in VertexType : Inside(w) = Inside(v) => w.at = v.at /\ w.cell = v.cell
<1>1. v.at \in Seq(Name) /\ v.cell \in Name
  BY DEF VertexType
<1>2. Inside(v) \in Seq(Name) /\ Len(Inside(v)) = Len(v.at) + 1 /\ Len(v.at) \in Nat
  BY <1>1 DEF Inside
<1>3. Inside(v) # v.at /\ Inside(v) # <<>>
  BY <1>1, <1>2
<1>4. \A name : PortVertex(Inside(v), name).at = Inside(v)
  BY DEF PortVertex
<1>5. ASSUME NEW w \in VertexType, Inside(w) = Inside(v)
      PROVE  w.at = v.at /\ w.cell = v.cell
  <2>1. w.at \in Seq(Name) /\ v.at \in Seq(Name)
    BY DEF VertexType
  <2>2. Append(w.at, w.cell) = Append(v.at, v.cell)
    BY <1>5 DEF Inside
  <2>3. w.at = v.at
    BY <2>1, <2>2, AppendEqual
  <2>4. w.cell = v.cell
    BY <2>1, <2>2, AppendedEqual
  <2> QED
    BY <2>3, <2>4
<1> QED
  BY <1>2, <1>3, <1>4, <1>5

LEMMA EdgeRecord ==
  ASSUME NEW e \in EdgeType, NEW x
  PROVE  /\ e = [from |-> e.from, to |-> e.to, out |-> e.out, in |-> e.in,
                 level |-> e.level, net |-> e.net]
         /\ [e EXCEPT !.to = x] = [from |-> e.from, to |-> x, out |-> e.out, in |-> e.in,
                                   level |-> e.level, net |-> e.net]
         /\ [e EXCEPT !.from = x] = [from |-> x, to |-> e.to, out |-> e.out, in |-> e.in,
                                     level |-> e.level, net |-> e.net]
  BY DEF EdgeType

LEMMA MovedEdges ==
  ASSUME NEW es \in SUBSET EdgeType, NEW v \in VertexType, NEW names,
         \A e \in es : (e.to = v => e.in \in names) /\ (e.from = v => e.out \in names)
  PROVE  Cleared(Moved(es, v, names), v) = {MovedEdge(v, e) : e \in es}
<1> DEFINE In(e) == [from |-> e.from, to |-> PortVertex(Inside(v), e.in), out |-> e.out,
                     in |-> e.in, level |-> e.level, net |-> e.net]
           Out(e) == [from |-> PortVertex(Inside(v), e.out), to |-> e.to, out |-> e.out,
                      in |-> e.in, level |-> e.level, net |-> e.net]
           ins == InMoved(es, v, names)
           all == Moved(es, v, names)
<1>1. \A name : PortVertex(Inside(v), name) # v
  BY InsideFacts
<1>2. ins = es \cup {In(e) : e \in {e \in es : e.to = v}}
  <2>1. \A e \in es : [e EXCEPT !.to = PortVertex(Inside(v), e.in)] = In(e)
    BY EdgeRecord
  <2> DEFINE A == {e \in es : e.to = v}
  <2>2. {e \in es : e.to = v /\ e.in \in names} = A
    OBVIOUS
  <2>3. ins = es \cup {[e EXCEPT !.to = PortVertex(Inside(v), e.in)] : e \in A}
    BY <2>2 DEF InMoved
  <2>4. \A e \in A : e \in es
    OBVIOUS
  <2> HIDE DEF A, In, ins
  <2>5. {[e EXCEPT !.to = PortVertex(Inside(v), e.in)] : e \in A} = {In(e) : e \in A}
    BY <2>1, <2>4
  <2> QED
    BY <2>3, <2>5 DEF A
<1>3. \A e \in ins : e = [from |-> e.from, to |-> e.to, out |-> e.out, in |-> e.in,
                          level |-> e.level, net |-> e.net]
  <2> HIDE DEF ins
  <2>1. ASSUME NEW e \in ins
        PROVE  e \in es \/ \E f \in es : e = In(f)
    <3> HIDE DEF In
    <3> QED
      BY <1>2
  <2>2. \A f \in es : In(f) = [from |-> In(f).from, to |-> In(f).to, out |-> In(f).out,
                               in |-> In(f).in, level |-> In(f).level, net |-> In(f).net]
    OBVIOUS
  <2> HIDE DEF In
  <2>3. ASSUME NEW e \in ins
        PROVE  e = [from |-> e.from, to |-> e.to, out |-> e.out, in |-> e.in,
                    level |-> e.level, net |-> e.net]
    <3>1. CASE e \in es
      <4>1. e \in EdgeType
        BY <3>1
      <4> QED
        BY <4>1, EdgeRecord
    <3>2. ASSUME NEW f \in es, e = In(f)
          PROVE  e = [from |-> e.from, to |-> e.to, out |-> e.out, in |-> e.in,
                      level |-> e.level, net |-> e.net]
      BY <2>2, <3>2, Zenon
    <3> QED
      BY <2>1, <3>1, <3>2
  <2> QED
    BY <2>3
<1>4. \A e \in ins : e.from = v => e.out \in names
  BY <1>2
<1>5. all = ins \cup {Out(e) : e \in {e \in ins : e.from = v}}
  <2> HIDE DEF ins
  <2>1. \A e \in ins : [e EXCEPT !.from = PortVertex(Inside(v), e.out)] = Out(e)
    BY <1>3
  <2>2. all = ins \cup {[e EXCEPT !.from = PortVertex(Inside(v), e.out)] :
                          e \in {e \in ins : e.from = v /\ e.out \in names}}
    BY DEF Moved, OutMoved, ins
  <2> DEFINE A == {e \in ins : e.from = v}
  <2>3. {e \in ins : e.from = v /\ e.out \in names} = A
    BY <1>4
  <2>4. all = ins \cup {[e EXCEPT !.from = PortVertex(Inside(v), e.out)] : e \in A}
    BY <2>2, <2>3
  <2>5. \A e \in A : e \in ins
    OBVIOUS
  <2> HIDE DEF A, Out, all
  <2>6. {[e EXCEPT !.from = PortVertex(Inside(v), e.out)] : e \in A} = {Out(e) : e \in A}
    BY <2>1, <2>5
  <2> QED
    BY <2>4, <2>6 DEF A
<1>6. ASSUME NEW e \in es
      PROVE  MovedEdge(v, e) \in all /\ MovedEdge(v, e).from # v /\ MovedEdge(v, e).to # v
  <2> HIDE DEF all, ins
  <2> DEFINE f == IF e.to = v THEN In(e) ELSE e
  <2>1. f \in ins /\ f.from = e.from
    BY <1>2
  <2>2. MovedEdge(v, e) = IF f.from = v THEN Out(f) ELSE f
    BY <2>1, EdgeRecord DEF MovedEdge, MovedEnd
  <2>3. MovedEdge(v, e) \in all
    <3> HIDE DEF f, Out
    <3> QED
      BY <1>5, <2>1, <2>2
  <2>4. MovedEdge(v, e).from # v /\ MovedEdge(v, e).to # v
    BY <1>1 DEF MovedEdge, MovedEnd
  <2> QED
    BY <2>3, <2>4
<1>7. ASSUME NEW g \in all, g.from # v, g.to # v
      PROVE  \E e \in es : g = MovedEdge(v, e)
  <2> HIDE DEF all, ins
  <2>1. ASSUME NEW f \in ins, f.to # v
        PROVE  \E e \in es : /\ f.from = e.from /\ f.to = MovedEnd(v, e.to, e.in)
                             /\ f.out = e.out /\ f.in = e.in
                             /\ f.level = e.level /\ f.net = e.net
    BY <1>2, <2>1 DEF MovedEnd
  <2>2. PICK f \in ins : g = IF f.from = v THEN Out(f) ELSE f
    <3> HIDE DEF Out
    <3> QED
      BY <1>5, <1>7
  <2>3. /\ f.to = g.to /\ f.out = g.out /\ f.in = g.in /\ f.level = g.level /\ f.net = g.net
        /\ g.from = MovedEnd(v, f.from, f.out)
    BY <2>2 DEF MovedEnd
  <2>4. g = [from |-> g.from, to |-> g.to, out |-> g.out, in |-> g.in,
             level |-> g.level, net |-> g.net]
    BY <1>3, <2>2
  <2>5. PICK e \in es : /\ f.from = e.from /\ f.to = MovedEnd(v, e.to, e.in)
                        /\ f.out = e.out /\ f.in = e.in
                        /\ f.level = e.level /\ f.net = e.net
    BY <1>7, <2>1, <2>3
  <2> QED
    BY <2>3, <2>4, <2>5 DEF MovedEdge
<1> QED
  <2> HIDE DEF all, In, Out
  <2>1. Cleared(all, v) = {e \in all : e.from # v /\ e.to # v}
    BY DEF Cleared
  <2>2. Cleared(all, v) = {MovedEdge(v, e) : e \in es}
    BY <1>6, <1>7, <2>1
  <2> QED
    BY <2>2 DEF all

-----------------------------------------------------------------------------
(* Instances, their vertices and the ends of their connections             *)
LEMMA SeqWidens ==
  ASSUME NEW S, NEW T, S \subseteq T, NEW s \in Seq(S)
  PROVE  s \in Seq(T)
<1>1. \A k \in 1 .. Len(s) : s[k] \in T
  OBVIOUS
<1>2. Len(s) \in Nat /\ s = [k \in 1 .. Len(s) |-> s[k]]
  OBVIOUS
<1> QED
  BY <1>1, <1>2

LEMMA SeqName ==
  ASSUME NEW s \in Seq(STRING)
  PROVE  s \in Seq(Name)
  BY SeqWidens DEF Name

LEMMA ModuleFacts ==
  ASSUME design \in Designs, WellFormed(design), NEW i \in Instances(design)
  PROVE  /\ i.level \in Seq(STRING) /\ i.level # <<>> /\ i.type \in DOMAIN design.modules
         /\ ModuleOf(i).ports \in Seq(PortType)
         /\ ModuleOf(i).cells \in Seq(CellType)
         /\ ModuleOf(i).nets \in Seq(NetType)
         /\ Keyed(ModuleOf(i).ports) /\ Keyed(ModuleOf(i).cells) /\ Keyed(ModuleOf(i).nets)
         /\ \A c \in Range(ModuleOf(i).cells) : c \in CellType /\ c.name # "" /\ Keyed(c.ports)
         /\ \A p \in Range(ModuleOf(i).ports) : p \in PortType /\ p.name # ""
<1>1. i \in InstanceType(design) /\ i.level # <<>>
  BY InstanceFacts
<1>2. i.level \in Seq(STRING) /\ i.type \in DOMAIN design.modules
  BY <1>1 DEF InstanceType
<1>3. /\ ModuleOf(i).ports \in Seq(PortType) /\ ModuleOf(i).cells \in Seq(CellType)
      /\ ModuleOf(i).nets \in Seq(NetType)
  BY <1>2, DesignFacts DEF ModuleOf
<1>4. /\ Keyed(ModuleOf(i).ports) /\ Keyed(ModuleOf(i).cells) /\ Keyed(ModuleOf(i).nets)
      /\ \A c \in Range(ModuleOf(i).cells) : Keyed(c.ports)
  BY <1>2 DEF ModuleOf, WellFormed
<1>5. \A c \in Range(ModuleOf(i).cells) : c \in CellType /\ c.name # ""
  BY <1>3, <1>4, RangeFacts DEF Keyed
<1>6. \A p \in Range(ModuleOf(i).ports) : p \in PortType /\ p.name # ""
  BY <1>3, <1>4, RangeFacts DEF Keyed
<1> QED
  BY <1>1, <1>2, <1>3, <1>4, <1>5, <1>6

LEMMA ChildByLevel ==
  ASSUME design \in Designs, WellFormed(design),
         NEW i \in Instances(design), NEW j \in Instances(design),
         NEW name, j.level = Append(i.level, name)
  PROVE  \E c \in Range(ModuleOf(i).cells) :
           IsModule(design, c) /\ c.name = name /\ Child(i, c) = j
<1>1. i.level \in Seq(STRING) /\ i.level # <<>> /\ j.level \in Seq(STRING)
  BY ModuleFacts
<1>2. j # RootOf(design)
  <2>1. name \in STRING
    <3>1. Append(i.level, name) \in Seq(STRING)
      BY <1>1
    <3>2. i.level \in Seq(STRING \cup {name})
      BY <1>1
    <3>3. Append(i.level, name)[Len(i.level) + 1] = name /\ Len(Append(i.level, name)) = Len(i.level) + 1
      BY <3>2
    <3>4. Len(i.level) + 1 \in 1 .. Len(Append(i.level, name))
      BY <1>1, <3>3
    <3> QED
      BY <3>1, <3>3, <3>4
  <2>2. Len(j.level) = Len(i.level) + 1 /\ Len(i.level) \in Nat /\ Len(i.level) # 0
    BY <1>1, <2>1
  <2>3. Len(RootOf(design).level) = 1
    BY DEF RootOf
  <2> QED
    BY <2>2, <2>3
<1>3. PICK k \in Instances(design) : j \in Children(design, k)
  BY <1>2, InstanceFacts
<1>4. PICK c \in CellsOf(design, k) : IsModule(design, c) /\ j = Child(k, c)
  BY <1>3 DEF Children
<1>5. k.level \in Seq(STRING)
  BY ModuleFacts
<1>6. Append(k.level, c.name) = Append(i.level, name)
  BY <1>4 DEF Child
<1>7. k.level = i.level
  BY <1>1, <1>5, <1>6, AppendEqual
<1>8. c.name = name
  BY <1>1, <1>5, <1>6, AppendedEqual
<1>9. k = i
  BY <1>7, InstanceFacts
<1> QED
  BY <1>4, <1>8, <1>9 DEF CellsOf, ModuleOf

HasChildNamed(i, name, j) ==
  \E c \in Range(ModuleOf(i).cells) : IsModule(design, c) /\ c.name = name /\ Child(i, c) = j

LEMMA ChildHasName ==
  ASSUME design \in Designs, WellFormed(design),
         NEW i \in Instances(design), NEW j \in Instances(design),
         NEW name, j.level = Append(i.level, name)
  PROVE  HasChildNamed(i, name, j)
BY ChildByLevel DEF HasChildNamed

LEMMA VertexFacts ==
  ASSUME design \in Designs, WellFormed(design), NEW i \in Instances(design)
  PROVE  /\ \A v \in PortVertices(i) \cup CellVertices(i) : v \in VertexType /\ v.at = i.level
         /\ \A v \in PortVertices(i) : v.port # "" /\ v.cell = ""
         /\ \A v \in CellVertices(i) : v.port = "" /\ v.cell # ""
         /\ Lasting(i) \subseteq PortVertices(i) \cup CellVertices(i)
         /\ Lasting(i) # {}
<1>1. \A v \in PortVertices(i) : v \in VertexType /\ v.at = i.level /\ v.port # "" /\ v.cell = ""
  <2>1. \A p \in Range(ModuleOf(i).ports) : p \in PortType /\ p.name # ""
    BY ModuleFacts
  <2>2. i.level \in Seq(Name)
    BY ModuleFacts, SeqName
  <2> SUFFICES ASSUME NEW v \in PortVertices(i)
               PROVE  v \in VertexType /\ v.at = i.level /\ v.port # "" /\ v.cell = ""
    OBVIOUS
  <2>3. PICK p \in Range(ModuleOf(i).ports) : v = PortVertex(i.level, p.name)
    BY DEF PortVertices
  <2>4. p.name \in Name /\ "" \in Name
    BY <2>1 DEF PortType, Name
  <2>5. p.name # ""
    BY <2>1
  <2> QED
    BY <2>2, <2>3, <2>4, <2>5 DEF PortVertex, VertexType
<1>2. \A v \in CellVertices(i) : v \in VertexType /\ v.at = i.level /\ v.port = "" /\ v.cell # ""
  <2>1. \A c \in Range(ModuleOf(i).cells) : c \in CellType /\ c.name # ""
    BY ModuleFacts
  <2>2. i.level \in Seq(Name)
    BY ModuleFacts, SeqName
  <2> SUFFICES ASSUME NEW v \in CellVertices(i)
               PROVE  v \in VertexType /\ v.at = i.level /\ v.port = "" /\ v.cell # ""
    OBVIOUS
  <2>3. PICK c \in Range(ModuleOf(i).cells) : v = CellVertex(i.level, c)
    BY DEF CellVertices
  <2>4. c.name \in Name /\ "" \in Name
    BY <2>1 DEF CellType, Name
  <2>5. c.name # ""
    BY <2>1
  <2> QED
    BY <2>2, <2>3, <2>4, <2>5 DEF CellVertex, VertexType
<1>3. Lasting(i) \subseteq PortVertices(i) \cup CellVertices(i)
  BY DEF Lasting, CellVertices
<1>4. Lasting(i) # {}
  <2>1. \/ ModuleOf(i).ports # <<>>
        \/ \E c \in Range(ModuleOf(i).cells) : ~IsModule(design, c)
    BY DEF WellFormed, ModuleOf
  <2>2. ASSUME ModuleOf(i).ports # <<>> PROVE Range(ModuleOf(i).ports) # {}
    <3>1. ModuleOf(i).ports \in Seq(PortType)
      BY ModuleFacts
    <3> QED
      BY <2>2, <3>1, RangeFacts
  <2> QED
    BY <2>1, <2>2 DEF Lasting, PortVertices
<1> QED
  BY <1>1, <1>2, <1>3, <1>4

(* The vertex of an instance is not one of those that stay.                *)
LEMMA PlannedVertexGoes ==
  ASSUME design \in Designs, WellFormed(design),
         NEW i \in Instances(design), NEW n \in Instances(design),
         NEW v \in VertexType, v.port = "", n.level = Inside(v)
  PROVE  v \notin Lasting(i)
<1> SUFFICES ASSUME v \in Lasting(i) PROVE FALSE
  OBVIOUS
<1>1. v \notin PortVertices(i)
  BY VertexFacts
<1>2. PICK c \in Range(ModuleOf(i).cells) : ~IsModule(design, c) /\ v = CellVertex(i.level, c)
  BY <1>1 DEF Lasting
<1>3. n.level = Append(i.level, c.name)
  BY <1>2 DEF CellVertex, Inside
<1>4. PICK b \in Range(ModuleOf(i).cells) :
        IsModule(design, b) /\ b.name = c.name /\ Child(i, b) = n
  BY <1>3, ChildByLevel
<1>5. ModuleOf(i).cells \in Seq(CellType) /\ Keyed(ModuleOf(i).cells)
  BY ModuleFacts
<1>6. b = c
  BY <1>4, <1>5, KeyedFacts
<1> QED
  BY <1>2, <1>4, <1>6

(* An end of a connection inside i: a port of i, or a port of one of its   *)
(* cells.                                                                  *)
OfModule(i, e, p) ==
  p \in Range(ModuleOf(i).ports) /\ e = End(PortVertex(i.level, p.name), p)
OfCell(i, e, c, p) ==
  /\ c \in Range(ModuleOf(i).cells) /\ p \in Range(c.ports)
  /\ e = End(CellVertex(i.level, c), p)

LEMMA EndFacts ==
  ASSUME design \in Designs, WellFormed(design), NEW i \in Instances(design)
  PROVE  /\ \A e \in DriversOf(i) :
              \/ \E p : OfModule(i, e, p) /\ p.dir = "input"
              \/ \E c, p : OfCell(i, e, c, p) /\ p.dir = "output"
         /\ \A e \in ReadersOf(i) :
              \/ \E p : OfModule(i, e, p) /\ p.dir = "output"
              \/ \E c, p : OfCell(i, e, c, p) /\ p.dir = "input"
         /\ \A e, p : OfModule(i, e, p) =>
              /\ p.dir = "input" => e \in DriversOf(i)
              /\ p.dir = "output" => e \in ReadersOf(i)
         /\ \A e, c, p : OfCell(i, e, c, p) =>
              /\ p.dir = "output" => e \in DriversOf(i)
              /\ p.dir = "input" => e \in ReadersOf(i)
<1> DEFINE m == ModuleOf(i)
<1>1. DriversOf(i) = {End(PortVertex(i.level, p.name), p) : p \in Ports(m.ports, "input")}
        \cup UNION {{End(CellVertex(i.level, c), p) : p \in Ports(c.ports, "output")} :
                     c \in Range(m.cells)}
  BY DEF DriversOf, Drivers, Ends
<1>2. ReadersOf(i) = {End(PortVertex(i.level, p.name), p) : p \in Ports(m.ports, "output")}
        \cup UNION {{End(CellVertex(i.level, c), p) : p \in Ports(c.ports, "input")} :
                     c \in Range(m.cells)}
  BY DEF ReadersOf, Readers, Ends
<1>3. \A ports, dir, p : p \in Ports(ports, dir) <=> p \in Range(ports) /\ p.dir = dir
  BY DEF Ports
<1> QED
  BY <1>1, <1>2, <1>3 DEF OfModule, OfCell

LEMMA EndTypes ==
  ASSUME design \in Designs, WellFormed(design), NEW i \in Instances(design), NEW e,
         (\E p : OfModule(i, e, p)) \/ (\E c, p : OfCell(i, e, c, p))
  PROVE  /\ e.vertex \in PortVertices(i) \cup CellVertices(i)
         /\ e.port \in STRING /\ e.port # "" /\ e.bits \in Seq(Nat)
         /\ e = [vertex |-> e.vertex, port |-> e.port, bits |-> e.bits]
<1>1. CASE \E p : OfModule(i, e, p)
  <2>1. PICK p : OfModule(i, e, p)
    BY <1>1
  <2>2. p \in PortType /\ p.name # ""
    BY <2>1, ModuleFacts DEF OfModule
  <2>3. p.name \in STRING /\ p.bits \in Seq(Nat)
    BY <2>2 DEF PortType
  <2>4. e.vertex = PortVertex(i.level, p.name) /\ e.port = p.name /\ e.bits = p.bits
    BY <2>1 DEF OfModule, End
  <2>5. e = [vertex |-> e.vertex, port |-> e.port, bits |-> e.bits]
    BY <2>1 DEF OfModule, End
  <2>6. e.vertex \in PortVertices(i)
    BY <2>1, <2>4 DEF OfModule, PortVertices
  <2> QED
    BY <2>2, <2>3, <2>4, <2>5, <2>6
<1>2. CASE \E c, p : OfCell(i, e, c, p)
  <2>1. PICK c, p : OfCell(i, e, c, p)
    BY <1>2
  <2>2. c \in CellType /\ Keyed(c.ports) /\ c.ports \in Seq(PortType)
    BY <2>1, ModuleFacts DEF OfCell, CellType
  <2>3. p \in PortType /\ p.name # ""
    BY <2>1, <2>2, RangeFacts DEF OfCell, Keyed
  <2> QED
    BY <2>1, <2>3 DEF OfCell, End, CellVertices, PortType
<1> QED
  BY <1>1, <1>2

LEMMA EndsInInstance ==
  ASSUME design \in Designs, WellFormed(design), NEW i \in Instances(design),
         NEW e \in DriversOf(i) \cup ReadersOf(i)
  PROVE  /\ e.vertex \in PortVertices(i) \cup CellVertices(i)
         /\ e.vertex \in VertexType /\ e.vertex.at = i.level
         /\ e.port \in STRING /\ e.port # "" /\ e.bits \in Seq(Nat)
<1>1. (\E p : OfModule(i, e, p)) \/ (\E c, p : OfCell(i, e, c, p))
  BY EndFacts
<1> QED
  BY <1>1, EndTypes, VertexFacts

-----------------------------------------------------------------------------
(* Where the ends of connections are when one more module is unfolded      *)
LEMMA CellVertexInside ==
  \A level, c : Inside(CellVertex(level, c)) = Append(level, c.name)
  BY DEF CellVertex, Inside

LEMMA CellVertexFields ==
  \A level, c : /\ CellVertex(level, c).at = level /\ CellVertex(level, c).cell = c.name
               /\ CellVertex(level, c).port = ""
  BY DEF CellVertex

LEMMA PortVertexFields ==
  \A level, name : /\ PortVertex(level, name).at = level /\ PortVertex(level, name).cell = ""
                  /\ PortVertex(level, name).port = name
  BY DEF PortVertex

LEMMA CalledCell ==
  \A level, name, type : Call(level, name, type).vertex.cell = name
  BY DEF Call

LEMMA EndFields ==
  \A v, p : End(v, p).vertex = v /\ End(v, p).port = p.name /\ End(v, p).bits = p.bits
  BY DEF End

LEMMA VertexEqual ==
  ASSUME NEW v \in VertexType, NEW w \in VertexType, v.at = w.at, v.cell = w.cell, v.port = w.port
  PROVE  v = w
  BY DEF VertexType

EndMoves(v, n, S, e) == EndIn(S \cup {n}, e) = MovedEnd(v, EndIn(S, e), e.port)

LEMMA EndInGrows ==
  ASSUME NEW v \in VertexType, v.port = "", NEW n, n.level = Inside(v),
         NEW S, \A i \in S : i.level # n.level,
         NEW e, e.vertex \in VertexType, e.port # ""
  PROVE  EndMoves(v, n, S, e)
<1> USE DEF EndMoves
<1>1. CASE e.vertex.port = "" /\ Inside(e.vertex) = n.level
  <2>1. e.vertex.at = v.at /\ e.vertex.cell = v.cell
    BY <1>1, InsideFacts
  <2>2. e.vertex = v
    BY <1>1, <2>1, VertexEqual
  <2>3. EndIn(S, e) = v
    BY <1>1, <2>2 DEF EndIn
  <2>4. EndIn(S \cup {n}, e) = PortVertex(Inside(v), e.port)
    BY <1>1, <2>2 DEF EndIn
  <2> QED
    BY <2>3, <2>4 DEF MovedEnd
<1>2. CASE ~(e.vertex.port = "" /\ Inside(e.vertex) = n.level)
  <2>1. EndIn(S \cup {n}, e) = EndIn(S, e)
    BY <1>2 DEF EndIn
  <2>2. PortVertex(Inside(e.vertex), e.port).port # ""
    BY DEF PortVertex
  <2>3. EndIn(S, e) # v
    BY <1>2, <2>2 DEF EndIn
  <2> QED
    BY <2>1, <2>3 DEF MovedEnd
<1> QED
  BY <1>1, <1>2

(* The ends of an instance that is just unfolded stay where they are.      *)
LEMMA NewEndsStay ==
  ASSUME design \in Designs, WellFormed(design), UnfoldInv,
         NEW n \in Instances(design), n \notin Populated,
         NEW e \in DriversOf(n) \cup ReadersOf(n)
  PROVE  EndIn(Populated \cup {n}, e) = e.vertex
<1> SUFFICES ASSUME NEW j \in Populated \cup {n}, e.vertex.port = "", j.level = Inside(e.vertex)
             PROVE  FALSE
  BY DEF EndIn
<1>1. j \in Instances(design)
  BY DEF Populated
<1>2. e.vertex \in CellVertices(n) /\ e.vertex \in VertexType
  BY EndsInInstance, VertexFacts
<1>3. PICK c \in Range(ModuleOf(n).cells) : e.vertex = CellVertex(n.level, c)
  BY <1>2 DEF CellVertices
<1>4. j.level = Append(n.level, c.name)
  <2>1. Inside(e.vertex) = Append(n.level, c.name)
    BY <1>3, CellVertexInside
  <2> QED
    BY <2>1
<1>5. PICK b \in Range(ModuleOf(n).cells) :
        IsModule(design, b) /\ b.name = c.name /\ Child(n, b) = j
  <2>1. HasChildNamed(n, c.name, j)
    BY <1>1, <1>4, ChildHasName
  <2> QED
    BY <2>1 DEF HasChildNamed
<1>6. j \in Children(design, n)
  BY <1>5 DEF Children, CellsOf, ModuleOf
<1>7. j # n
  <2>1. Inside(e.vertex) # e.vertex.at
    BY <1>2, InsideFacts
  <2>2. e.vertex.at = n.level
    BY <1>3, CellVertexFields
  <2> QED
    BY <2>1, <2>2
<1> QED
  BY <1>1, <1>6, <1>7 DEF UnfoldInv

(* The edges at a vertex that is unfolded go to its ports.                 *)
LEMMA EdgeEndsHavePorts ==
  ASSUME design \in Designs, WellFormed(design), EdgeInv,
         NEW n \in Instances(design), NEW v \in VertexType, v.port = "", n.level = Inside(v),
         NEW e \in edges
  PROVE  /\ e.to = v => e.in \in {p.name : p \in Range(ModuleOf(n).ports)}
         /\ e.from = v => e.out \in {p.name : p \in Range(ModuleOf(n).ports)}
<1>1. PICK i \in Populated : \E d \in DriversOf(i), r \in ReadersOf(i) :
        IsEdgeOf(Populated, e, i, d, r)
  BY DEF EdgeInv
<1>2. PICK d \in DriversOf(i), r \in ReadersOf(i) : IsEdgeOf(Populated, e, i, d, r)
  BY <1>1
<1>3. i \in Instances(design)
  BY DEF Populated
<1>4. ASSUME NEW x \in DriversOf(i) \cup ReadersOf(i), EndIn(Populated, x) = v
      PROVE  x.port \in {p.name : p \in Range(ModuleOf(n).ports)}
  <2>1. x.vertex \in PortVertices(i) \cup CellVertices(i) /\ x.port # ""
    BY <1>3, EndsInInstance
  <2>2. PortVertex(Inside(x.vertex), x.port).port # ""
    BY <2>1 DEF PortVertex
  <2>3. x.vertex = v
    BY <1>4, <2>2 DEF EndIn
  <2>4. x.vertex \notin PortVertices(i)
    BY <1>3, <2>3, VertexFacts
  <2>5. \A p : ~OfModule(i, x, p)
    <3>1. \A p : OfModule(i, x, p) => x.vertex \in PortVertices(i)
      <4> SUFFICES ASSUME NEW p, OfModule(i, x, p) PROVE x.vertex \in PortVertices(i)
        OBVIOUS
      <4>1. p \in Range(ModuleOf(i).ports) /\ x = End(PortVertex(i.level, p.name), p)
        BY DEF OfModule
      <4>2. x.vertex = PortVertex(i.level, p.name)
        BY <4>1, EndFields
      <4> QED
        BY <4>1, <4>2 DEF PortVertices
    <3> QED
      BY <2>4, <3>1
  <2>6. PICK c, p : OfCell(i, x, c, p)
    BY <1>3, <2>5, EndFacts
  <2>7. /\ c \in Range(ModuleOf(i).cells) /\ p \in Range(c.ports)
        /\ x.vertex = CellVertex(i.level, c) /\ x.port = p.name
    BY <2>6 DEF OfCell, End
  <2>8. n.level = Append(i.level, c.name)
    <3>1. Inside(x.vertex) = Append(i.level, c.name)
      BY <2>7, CellVertexInside
    <3> QED
      BY <2>3, <3>1
  <2>9. PICK b \in Range(ModuleOf(i).cells) :
          IsModule(design, b) /\ b.name = c.name /\ Child(i, b) = n
    BY <1>3, <2>8, ChildByLevel
  <2>10. b = c
    <3>1. ModuleOf(i).cells \in Seq(CellType) /\ Keyed(ModuleOf(i).cells)
      BY <1>3, ModuleFacts
    <3> QED
      BY <2>7, <2>9, <3>1, KeyedFacts
  <2>11. Interface(c.ports) = Interface(design.modules[c.type].ports) /\ n.type = c.type
    BY <1>3, <2>9, <2>10 DEF WellFormed, ModuleOf, Child
  <2>12. <<p.name, p.dir>> \in Interface(ModuleOf(n).ports)
    BY <2>7, <2>11 DEF Interface, ModuleOf
  <2> QED
    BY <2>7, <2>12 DEF Interface
<1> QED
  BY <1>2, <1>4 DEF IsEdgeOf

-----------------------------------------------------------------------------
(* What the calls for the modules inside one are                           *)
LEMMA SubmodulesFacts ==
  ASSUME design \in Designs, WellFormed(design), NEW i \in Instances(design)
  PROVE  /\ Submodules(ModuleOf(i), i.level) \in Seq(CallType)
         /\ \A k \in DOMAIN Submodules(ModuleOf(i), i.level) :
              \E c \in Range(ModuleOf(i).cells) :
                /\ IsModule(design, c)
                /\ Submodules(ModuleOf(i), i.level)[k] = Call(i.level, c.name, c.type)
         /\ \A c \in Range(ModuleOf(i).cells) : IsModule(design, c) =>
              \E k \in DOMAIN Submodules(ModuleOf(i), i.level) :
                Submodules(ModuleOf(i), i.level)[k] = Call(i.level, c.name, c.type)
         /\ \A k, l \in DOMAIN Submodules(ModuleOf(i), i.level) :
              Submodules(ModuleOf(i), i.level)[k].vertex
                = Submodules(ModuleOf(i), i.level)[l].vertex => k = l
<1> DEFINE cells == ModuleOf(i).cells
           calls == [k \in DOMAIN cells |-> Call(i.level, cells[k].name, cells[k].type)]
           I == {k \in DOMAIN cells : IsModule(design, cells[k])}
           s == Submodules(ModuleOf(i), i.level)
<1>1. cells \in Seq(CellType) /\ Keyed(cells) /\ i.level \in Seq(Name)
  BY ModuleFacts, SeqName
<1>2. calls \in Seq(CallType) /\ DOMAIN calls = DOMAIN cells
  <2>1. \A k \in 1 .. Len(cells) : calls[k] \in CallType
    <3> TAKE k \in 1 .. Len(cells)
    <3>1. cells[k] \in CellType
      BY <1>1
    <3>2. cells[k].name \in Name /\ "" \in Name /\ cells[k].type \in STRING
      BY <3>1 DEF CellType, Name
    <3>3. [at |-> i.level, cell |-> cells[k].name, port |-> ""] \in VertexType
      BY <1>1, <3>2 DEF VertexType
    <3>4. calls[k] = Call(i.level, cells[k].name, cells[k].type)
      BY <1>1
    <3> HIDE DEF calls
    <3> QED
      <4>1. Call(i.level, cells[k].name, cells[k].type) =
              [vertex |-> [at |-> i.level, cell |-> cells[k].name, port |-> ""],
               type |-> cells[k].type]
        BY DEF Call
      <4>2. [vertex |-> [at |-> i.level, cell |-> cells[k].name, port |-> ""],
             type |-> cells[k].type] \in CallType
        BY <3>2, <3>3 DEF CallType
      <4> QED
        BY <3>4, <4>1, <4>2
  <2>2. DOMAIN calls = 1 .. Len(cells) /\ Len(cells) \in Nat
    BY <1>1
  <2> QED
    <3> HIDE DEF calls
    <3>1. calls = [k \in 1 .. Len(cells) |-> calls[k]]
      <4>1. calls = [k \in DOMAIN calls |-> calls[k]]
        BY DEF calls
      <4> QED
        BY <2>2, <4>1
    <3>2. calls \in [1 .. Len(cells) -> CallType]
      BY <2>1, <3>1
    <3>3. calls \in Seq(CallType)
      <4> HIDE DEF cells
      <4> QED
        BY <2>2, <3>2
    <3> QED
      BY <1>1, <2>2, <3>3
<1>3. s = Sublist(calls, I)
  BY DEF Submodules
<1>4. I \in SUBSET DOMAIN calls
  BY <1>2
<1> HIDE DEF calls, I, s
<1>5. s \in Seq(CallType)
  BY <1>2, <1>3, <1>4, SublistIsSelection
<1>6. PICK f : Selection(s, calls, I, f)
  BY <1>2, <1>3, <1>4, SublistIsSelection
<1>7. /\ f \in [DOMAIN s -> I]
      /\ \A k \in DOMAIN s : s[k] = calls[f[k]]
      /\ \A k, l \in DOMAIN s : k < l => f[k] < f[l]
      /\ \A x \in I : \E k \in DOMAIN s : f[k] = x
  BY <1>6 DEF Selection
<1>8. \A k \in DOMAIN cells : calls[k] = Call(i.level, cells[k].name, cells[k].type)
  BY DEF calls
<1>9. \A k \in DOMAIN s : \E c \in Range(cells) :
        IsModule(design, c) /\ s[k] = Call(i.level, c.name, c.type)
  <2> TAKE k \in DOMAIN s
  <2>1. f[k] \in DOMAIN cells /\ IsModule(design, cells[f[k]])
    BY <1>7 DEF I
  <2>2. cells[f[k]] \in Range(cells)
    BY <2>1 DEF Range
  <2> QED
    BY <1>7, <1>8, <2>1, <2>2
<1>10. \A c \in Range(cells) : IsModule(design, c) =>
         \E k \in DOMAIN s : s[k] = Call(i.level, c.name, c.type)
  <2> SUFFICES ASSUME NEW c \in Range(cells), IsModule(design, c)
               PROVE  \E k \in DOMAIN s : s[k] = Call(i.level, c.name, c.type)
    OBVIOUS
  <2>1. PICK x \in DOMAIN cells : cells[x] = c
    BY DEF Range
  <2>2. PICK k \in DOMAIN s : f[k] = x
    BY <1>7, <2>1 DEF I
  <2> QED
    BY <1>7, <1>8, <2>1, <2>2
<1>11. \A k, l \in DOMAIN s : s[k].vertex = s[l].vertex => k = l
  <2> SUFFICES ASSUME NEW k \in DOMAIN s, NEW l \in DOMAIN s, s[k].vertex = s[l].vertex
               PROVE  k = l
    OBVIOUS
  <2>1. f[k] \in DOMAIN cells /\ f[l] \in DOMAIN cells
    BY <1>7 DEF I
  <2>2. s[k] = Call(i.level, cells[f[k]].name, cells[f[k]].type)
        /\ s[l] = Call(i.level, cells[f[l]].name, cells[f[l]].type)
    BY <1>7, <1>8, <2>1
  <2>3. cells[f[k]].name = cells[f[l]].name
    <3> HIDE DEF cells
    <3>1. s[k].vertex.cell = cells[f[k]].name
      BY <2>2, CalledCell
    <3>2. s[l].vertex.cell = cells[f[l]].name
      BY <2>2, CalledCell
    <3> QED
      BY <3>1, <3>2
  <2>4. f[k] = f[l]
    BY <1>1, <2>1, <2>3 DEF Keyed
  <2>5. k \in Nat /\ l \in Nat
    BY <1>5
  <2>6. f[k] \in Nat
    BY <1>1, <2>1
  <2>7. ~(k < l) /\ ~(l < k)
    BY <1>7, <2>4, <2>6
  <2> QED
    BY <2>5, <2>7
<1> QED
  BY <1>5, <1>9, <1>10, <1>11 DEF s

-----------------------------------------------------------------------------
(* Labels                                                                  *)
LEMMA LeastPlace ==
  ASSUME NEW I \in SUBSET Nat, I # {}
  PROVE  Min(I) \in I /\ \A i \in I : Min(I) <= i
<1>1. \E x \in I : \A y \in I : x <= y
  BY LeastElement
<1> QED
  BY <1>1, Zenon DEF Min

LEMMA FirstIsThere ==
  ASSUME NEW S, NEW seq \in Seq(S), NEW I \in SUBSET DOMAIN seq, I # {}
  PROVE  /\ FirstOf(seq, I) \in S
         /\ Min(I) \in I
         /\ FirstOf(seq, I) = seq[Min(I)]
<1>1. I \in SUBSET Nat
  OBVIOUS
<1>2. Min(I) \in I
  BY <1>1, LeastPlace
<1> QED
  BY <1>2 DEF FirstOf

LEMMA RepresentativesFacts ==
  ASSUME NEW nets \in Seq(NetType)
  PROVE  /\ Representatives(nets) \subseteq Range(nets)
         /\ IsFiniteSet(Representatives(nets))
         /\ \A n \in Range(nets) : \E m \in Representatives(nets) : m.bits = n.bits
<1> DEFINE I == {i \in DOMAIN nets : \A j \in 1..(i - 1) : nets[j].bits # nets[i].bits}
           f == [i \in I |-> nets[i]]
<1>1. Representatives(nets) = {nets[i] : i \in I}
  BY DEF Representatives
<1>2. f \in Surjection(I, Representatives(nets))
  BY <1>1 DEF Surjection
<1>3. IsFiniteSet(I)
  <2>1. IsFiniteSet(DOMAIN nets)
    <3>1. DOMAIN nets = 1 .. Len(nets) /\ Len(nets) \in Int /\ 1 \in Int
      OBVIOUS
    <3>2. IsFiniteSet(1 .. Len(nets))
      BY <3>1, FS_Interval
    <3> QED
      BY <3>1, <3>2
  <2> QED
    BY <2>1, FS_Subset
<1> HIDE DEF f
<1>4. IsFiniteSet(Representatives(nets))
  BY <1>2, <1>3, FS_Surjection
<1>5. Representatives(nets) \subseteq Range(nets)
  BY <1>1 DEF Range
<1>6. ASSUME NEW n \in Range(nets)
      PROVE  \E m \in Representatives(nets) : m.bits = n.bits
  <2>1. PICK k \in DOMAIN nets : nets[k] = n
    BY DEF Range
  <2> DEFINE E == Exact(nets, n.bits)
  <2>2. E \in SUBSET Nat /\ E \subseteq DOMAIN nets /\ k \in E
    BY <2>1 DEF Exact
  <2>3. Min(E) \in E /\ \A i \in E : Min(E) <= i
    BY <2>2, LeastPlace
  <2>4. Min(E) \in DOMAIN nets /\ nets[Min(E)].bits = n.bits
    BY <2>3 DEF Exact
  <2>5. \A j \in 1 .. (Min(E) - 1) : nets[j].bits # nets[Min(E)].bits
    <3> SUFFICES ASSUME NEW j \in 1 .. (Min(E) - 1), nets[j].bits = nets[Min(E)].bits PROVE FALSE
      OBVIOUS
    <3>1. Min(E) \in 1 .. Len(nets) /\ DOMAIN nets = 1 .. Len(nets)
      BY <2>4
    <3>2. j \in DOMAIN nets /\ j < Min(E) /\ j \in Nat /\ Min(E) \in Nat
      BY <3>1
    <3>3. j \in E
      BY <2>4, <3>2 DEF Exact
    <3>4. Min(E) <= j
      BY <2>3, <3>3
    <3> HIDE DEF E
    <3> QED
      BY <3>2, <3>4
  <2>6. Min(E) \in I
    BY <2>4, <2>5
  <2> QED
    BY <1>1, <2>4, <2>6
<1> QED
  BY <1>4, <1>5, <1>6

(* An order of a finite set lists all of it.                               *)
LEMMA OrderListsAll ==
  ASSUME NEW S, IsFiniteSet(S), NEW order \in SetToSeqs(S)
  PROVE  order \in Seq(S) /\ Range(order) = S
<1> DEFINE D == 1 .. Cardinality(S)
<1>1. order \in [D -> S] /\ \A i, j \in D : i # j => order[i] # order[j]
  BY DEF SetToSeqs
<1>2. Cardinality(S) \in Nat
  BY FS_CardinalityType
<1>3. IsFiniteSet(D) /\ Cardinality(D) = Cardinality(S)
  BY <1>2, FS_Interval
<1>4. order \in Injection(D, S)
  BY <1>1 DEF Injection, IsInjective
<1>5. order \in Surjection(D, S)
  BY <1>3, <1>4, FS_Injection
<1>6. \A s \in S : \E k \in D : order[k] = s
  BY <1>5 DEF Surjection
<1>7. DOMAIN order = D
  BY <1>1
<1>8. Range(order) = S
  BY <1>1, <1>6, <1>7 DEF Range
<1>9. order \in Seq(S)
  BY <1>1, <1>2
<1> QED
  BY <1>8, <1>9

LEMMA OrderOfNets ==
  ASSUME NEW nets \in Seq(NetType), NEW order \in SetToSeqs(Representatives(nets))
  PROVE  order \in Seq(NetType) /\ Range(order) = Representatives(nets)
<1>1. order \in Seq(Representatives(nets)) /\ Range(order) = Representatives(nets)
  BY RepresentativesFacts, OrderListsAll
<1>2. Representatives(nets) \subseteq NetType
  BY RepresentativesFacts, RangeFacts
<1> QED
  BY <1>1, <1>2, SeqWidens

LEMMA LabelType ==
  ASSUME NEW nets \in Seq(NetType), NEW order \in Seq(NetType), NEW d, NEW r
  PROVE  Label(nets, order, d, r) \in NetType \cup {NoNet}
<1>1. /\ Exact(nets, d.bits) \in SUBSET DOMAIN nets
      /\ Exact(nets, r.bits) \in SUBSET DOMAIN nets
      /\ Partial(order, d, r) \in SUBSET DOMAIN order
  BY DEF Exact, Partial
<1>2. /\ Exact(nets, d.bits) # {} => FirstOf(nets, Exact(nets, d.bits)) \in NetType
      /\ Exact(nets, r.bits) # {} => FirstOf(nets, Exact(nets, r.bits)) \in NetType
      /\ Partial(order, d, r) # {} => FirstOf(order, Partial(order, d, r)) \in NetType
  BY <1>1, FirstIsThere
<1> QED
  BY <1>2 DEF Label

LEMMA NamedEdges ==
  ASSUME design \in Designs, WellFormed(design), NamesSuffice,
         NEW i \in Instances(design), NEW d \in DriversOf(i), NEW r \in ReadersOf(i),
         Connected(d, r), NEW order,
         HasExact(ModuleOf(i).nets, d, r) \/ order \in SetToSeqs(Representatives(ModuleOf(i).nets))
  PROVE  /\ Labelled(ModuleOf(i).nets, d, r, Label(ModuleOf(i).nets, order, d, r))
         /\ ~HasExact(ModuleOf(i).nets, d, r) => ~EmptyBits(order, d, r)
<1> DEFINE nets == ModuleOf(i).nets
<1>1. CASE HasExact(nets, d, r)
  BY <1>1 DEF HasExact, Labelled, Label
<1>2. CASE ~HasExact(nets, d, r)
  <2>1. order \in SetToSeqs(Representatives(nets))
    BY <1>2
  <2>2. nets \in Seq(NetType)
    BY ModuleFacts
  <2>3. order \in Seq(NetType) /\ Range(order) = Representatives(nets)
    BY <2>1, <2>2, OrderOfNets
  <2>4. WellNamed(design)
    <3>1. d \in Drivers(design.modules[i.type], i.level)
      BY DEF DriversOf, ModuleOf
    <3>2. ASSUME DriversHaveNets(design) PROVE FALSE
      <4>1. PICK n \in Range(nets) : n.bits = d.bits
        BY <3>1, <3>2 DEF DriversHaveNets, ModuleOf
      <4>2. PICK k \in DOMAIN nets : nets[k] = n
        BY DEF Range
      <4>3. k \in Exact(nets, d.bits)
        BY <4>1, <4>2 DEF Exact
      <4> QED
        BY <1>2, <4>3 DEF HasExact
    <3> QED
      BY <3>2 DEF NamesSuffice
  <2>5. PICK b : b \in Wires(d.bits) /\ b \in Wires(r.bits)
    BY DEF Connected, Common
  <2>6. PICK n \in Range(nets) : b \in Range(n.bits)
    <3>1. d \in Drivers(design.modules[i.type], i.level)
      BY DEF DriversOf, ModuleOf
    <3> QED
      BY <2>4, <2>5, <3>1 DEF WellNamed, ModuleOf
  <2>7. PICK m \in Representatives(nets) : m.bits = n.bits
    BY <2>2, RepresentativesFacts
  <2>8. Touches(m, d, r)
    <3>1. b \in Wires(m.bits)
      BY <2>5, <2>6, <2>7 DEF Wires
    <3> QED
      BY <2>5, <3>1 DEF Touches, Common
  <2>9. Partial(order, d, r) # {}
    <3>1. PICK k \in DOMAIN order : order[k] = m
      BY <2>3, <2>7 DEF Range
    <3>2. k \in Partial(order, d, r)
      BY <2>8, <3>1 DEF Partial
    <3> QED
      BY <3>2
  <2>10. \A k \in DOMAIN order : Wires(order[k].bits) # {}
    <3> TAKE k \in DOMAIN order
    <3>1. order[k] \in Range(nets)
      BY <2>2, <2>3, RepresentativesFacts DEF Range
    <3> QED
      BY <2>4, <3>1 DEF WellNamed, ModuleOf
  <2> DEFINE k == Min(Partial(order, d, r))
             net == FirstOf(order, Partial(order, d, r))
  <2>11. k \in Partial(order, d, r) /\ net = order[k] /\ k \in DOMAIN order
    <3>1. Partial(order, d, r) \in SUBSET DOMAIN order
      BY DEF Partial
    <3> QED
      BY <2>3, <2>9, <3>1, FirstIsThere
  <2> HIDE DEF k, net
  <2>12. Touches(net, d, r) /\ Wires(net.bits) # {} /\ net \in Representatives(nets)
    <3>1. Touches(order[k], d, r)
      BY <2>10, <2>11 DEF Partial
    <3>2. order[k] \in Range(order)
      BY <2>11 DEF Range
    <3> QED
      BY <2>3, <2>10, <2>11, <3>1, <3>2
  <2>13. Exact(nets, d.bits) = {} /\ Exact(nets, r.bits) = {}
    BY <1>2 DEF HasExact
  <2>14. Label(nets, order, d, r) = net
    BY <2>9, <2>13 DEF Label, net
  <2>15. ~EmptyBits(order, d, r)
    BY <2>12 DEF EmptyBits, net
  <2> QED
    BY <2>12, <2>13, <2>14, <2>15 DEF Labelled
<1> QED
  BY <1>1, <1>2

LEMMA LabelledIsNet ==
  ASSUME design \in Designs, WellFormed(design), NEW i \in Instances(design),
         NEW d, NEW r, NEW net, Labelled(ModuleOf(i).nets, d, r, net)
  PROVE  net \in Range(ModuleOf(i).nets) /\ net # NoNet
<1> DEFINE nets == ModuleOf(i).nets
<1>1. nets \in Seq(NetType) /\ Keyed(nets)
  BY ModuleFacts
<1>2. \A bits : Exact(nets, bits) \in SUBSET DOMAIN nets
  BY DEF Exact
<1>3. \A I \in SUBSET DOMAIN nets : I # {} => FirstOf(nets, I) \in Range(nets)
  <2> TAKE I \in SUBSET DOMAIN nets
  <2> HAVE I # {}
  <2>1. Min(I) \in I /\ FirstOf(nets, I) = nets[Min(I)]
    BY <1>1, FirstIsThere
  <2> QED
    BY <2>1 DEF Range
<1>4. net \in Range(nets)
  BY <1>1, <1>2, <1>3, RepresentativesFacts DEF Labelled
<1>5. net.name # ""
  BY <1>1, <1>4 DEF Keyed
<1>6. NoNet.name = ""
  BY DEF NoNet
<1> QED
  BY <1>4, <1>5, <1>6

-----------------------------------------------------------------------------
(* What one call of populate_module does, said of the instance it unfolds  *)
Called == Head(todo).vertex
Unfolded == InstanceOf(Head(todo))

PairsIn(i) == {p \in DriversOf(i) \X ReadersOf(i) : Connected(p[1], p[2])}

OrderFor(i, order) ==
  /\ order \in Seq(NetType)
  /\ \A p \in PairsIn(i) : \/ HasExact(ModuleOf(i).nets, p[1], p[2])
                           \/ order \in SetToSeqs(Representatives(ModuleOf(i).nets))

NewEdge(i, order, p) == Edge(p[1], p[2], i.level, Label(ModuleOf(i).nets, order, p[1], p[2]))

Unnamed(i, order) ==
  \E p \in PairsIn(i) : ~HasExact(ModuleOf(i).nets, p[1], p[2]) /\ EmptyBits(order, p[1], p[2])

LEMMA HeadFacts ==
  ASSUME GraphTypes, todo # <<>>
  PROVE  /\ Head(todo) \in CallType /\ Head(todo) = todo[1] /\ 1 \in DOMAIN todo
         /\ Called \in VertexType /\ Unfolded.level = Inside(Called)
         /\ Unfolded.type = Head(todo).type
         /\ Tail(todo) \in Seq(CallType)
<1>1. todo \in Seq(CallType)
  BY DEF GraphTypes
<1>2. Head(todo) \in CallType /\ Head(todo) = todo[1] /\ 1 \in DOMAIN todo
      /\ Tail(todo) \in Seq(CallType)
  BY <1>1
<1> QED
  BY <1>2 DEF Called, Unfolded, InstanceOf, CallType

LEMMA UnfoldedFacts ==
  ASSUME GraphTypes, PlanInv, todo # <<>>
  PROVE  /\ Unfolded \in Instances(design)
         /\ Unfolded \notin Populated
         /\ Called \in vertices /\ Called.port = ""
         /\ \A w \in vertices : w.at # Unfolded.level
<1>1. /\ Unfolded \in Instances(design) /\ Called \in vertices /\ Called.port = ""
      /\ \A w \in vertices : w.at # Inside(Called)
  BY HeadFacts DEF PlanInv, Called, Unfolded
<1>2. Unfolded.level = Inside(Called)
  BY HeadFacts
<1> QED
  BY <1>1, <1>2 DEF Populated

(* What Populate does, of the vertex, the module, the level and the pairs  *)
(* of connected ends that it takes from the call                           *)
Unfolds(v, m, level, pairs) ==
  LET partial == {p \in pairs : ~HasExact(m.nets, p[1], p[2])}
      orders == IF partial = {} THEN {<<>>} ELSE SetToSeqs(Representatives(m.nets))
  IN \E order \in orders :
       /\ vertices' = (vertices \ {v})
            \cup {PortVertex(level, p.name) : p \in Range(m.ports)}
            \cup {CellVertex(level, c) : c \in Range(m.cells)}
       /\ edges' = Cleared(Moved(edges, v, {p.name : p \in Range(m.ports)}), v)
            \cup {Edge(p[1], p[2], level, Label(m.nets, order, p[1], p[2])) : p \in pairs}
       /\ IF \E p \in partial : EmptyBits(order, p[1], p[2])
          THEN outcome' = "thrown" /\ todo' = todo
          ELSE outcome' = outcome /\ todo' = Submodules(m, level) \o Tail(todo)

ConnectedIn(m, level) ==
  {p \in Drivers(m, level) \X Readers(m, level) : Connected(p[1], p[2])}

LEMMA PopulateUnfolds ==
  ASSUME Populate
  PROVE  LET call == Head(todo)
             m == design.modules[call.type]
             level == Inside(call.vertex)
         IN Unfolds(call.vertex, m, level, ConnectedIn(m, level))
BY Zenon DEF Populate, Unfolds, ConnectedIn

LEMMA PopulateFacts ==
  ASSUME GraphTypes, WellFormed(design), PlanInv, EdgeInv, Populate
  PROVE  /\ design' = design /\ outcome = "building" /\ todo # <<>>
         /\ vertices' = (vertices \ {Called}) \cup PortVertices(Unfolded) \cup CellVertices(Unfolded)
         /\ \E order :
              /\ OrderFor(Unfolded, order)
              /\ edges' = {MovedEdge(Called, e) : e \in edges}
                            \cup {NewEdge(Unfolded, order, p) : p \in PairsIn(Unfolded)}
              /\ IF Unnamed(Unfolded, order)
                 THEN outcome' = "thrown" /\ todo' = todo
                 ELSE /\ outcome' = outcome
                      /\ todo' = Submodules(ModuleOf(Unfolded), Unfolded.level) \o Tail(todo)
<1> DEFINE v == Called
           n == Unfolded
           m == ModuleOf(n)
           level == n.level
           names == {p.name : p \in Range(m.ports)}
           pairs == PairsIn(n)
           partial == {p \in pairs : ~HasExact(m.nets, p[1], p[2])}
           orders == IF partial = {} THEN {<<>>} ELSE SetToSeqs(Representatives(m.nets))
<1>1. design' = design /\ outcome = "building" /\ todo # <<>>
  BY DEF Populate
<1>2. /\ Called \in VertexType /\ Inside(Called) = Unfolded.level
      /\ design.modules[Head(todo).type] = ModuleOf(Unfolded)
  BY <1>1, HeadFacts DEF ModuleOf
<1>3. ConnectedIn(m, level) = pairs
  BY DEF ConnectedIn, PairsIn, DriversOf, ReadersOf
<1>4. Unfolds(v, m, level, pairs)
  <2>1. Head(todo).vertex = v
    BY DEF Called
  <2>2. Inside(Head(todo).vertex) = level
    BY <1>2, <2>1
  <2>3. design.modules[Head(todo).type] = m
    BY <1>2
  <2>4. Unfolds(Head(todo).vertex, design.modules[Head(todo).type], Inside(Head(todo).vertex),
                ConnectedIn(design.modules[Head(todo).type], Inside(Head(todo).vertex)))
    BY PopulateUnfolds
  <2> HIDE DEF v, m, level, pairs
  <2> QED
    BY <1>3, <2>1, <2>2, <2>3, <2>4
<1>5. PICK order \in orders :
        /\ vertices' = (vertices \ {v}) \cup PortVertices(n) \cup CellVertices(n)
        /\ edges' = Cleared(Moved(edges, v, names), v)
               \cup {Edge(p[1], p[2], level, Label(m.nets, order, p[1], p[2])) : p \in pairs}
        /\ IF \E p \in partial : EmptyBits(order, p[1], p[2])
           THEN outcome' = "thrown" /\ todo' = todo
           ELSE outcome' = outcome /\ todo' = Submodules(m, level) \o Tail(todo)
  <2> HIDE DEF v, n, m, level, pairs
  <2> QED
    BY <1>4 DEF Unfolds, n, m, level, PortVertices, CellVertices
<1>6. Cleared(Moved(edges, v, names), v) = {MovedEdge(v, e) : e \in edges}
  <2>1. n \in Instances(design) /\ v.port = "" /\ n.level = Inside(v) /\ design \in Designs
    BY <1>1, <1>2, UnfoldedFacts DEF GraphTypes
  <2>2. \A e \in edges : (e.to = v => e.in \in names) /\ (e.from = v => e.out \in names)
    BY <1>2, <2>1, EdgeEndsHavePorts
  <2>3. edges \in SUBSET EdgeType
    BY DEF GraphTypes
  <2> QED
    BY <1>2, <2>2, <2>3, MovedEdges
<1>7. OrderFor(n, order)
  <2>1. m.nets \in Seq(NetType)
    BY <1>1, UnfoldedFacts, ModuleFacts DEF GraphTypes
  <2>2. order \in Seq(NetType)
    <3>1. CASE partial = {}
      BY <3>1
    <3>2. CASE partial # {}
      BY <2>1, <3>2, OrderOfNets
    <3> QED
      BY <3>1, <3>2
  <2>3. partial # {} => order \in SetToSeqs(Representatives(m.nets))
    OBVIOUS
  <2> QED
    BY <2>2, <2>3 DEF OrderFor
<1>8. {Edge(p[1], p[2], level, Label(m.nets, order, p[1], p[2])) : p \in pairs}
        = {NewEdge(n, order, p) : p \in pairs}
  BY DEF NewEdge
<1>9. (\E p \in partial : EmptyBits(order, p[1], p[2])) <=> Unnamed(n, order)
  BY DEF Unnamed
<1> HIDE DEF v, n, m, level, names, pairs, partial, orders
<1>10. /\ OrderFor(n, order)
       /\ edges' = {MovedEdge(v, e) : e \in edges} \cup {NewEdge(n, order, p) : p \in pairs}
       /\ IF Unnamed(n, order) THEN outcome' = "thrown" /\ todo' = todo
          ELSE outcome' = outcome /\ todo' = Submodules(m, level) \o Tail(todo)
  BY <1>5, <1>6, <1>7, <1>8, <1>9
<1> QED
  BY <1>1, <1>5, <1>10 DEF v, n, m, level, pairs

-----------------------------------------------------------------------------
LEMMA DesignStays ==
  ASSUME design' = design
  PROVE  /\ Instances(design)' = Instances(design)
         /\ \A i : /\ ModuleOf(i)' = ModuleOf(i)
                   /\ DriversOf(i)' = DriversOf(i) /\ ReadersOf(i)' = ReadersOf(i)
                   /\ PortVertices(i)' = PortVertices(i) /\ CellVertices(i)' = CellVertices(i)
                   /\ Lasting(i)' = Lasting(i)
  BY DEF ModuleOf, DriversOf, ReadersOf, PortVertices, CellVertices, Lasting, IsModule

LEMMA PopulatedGrows ==
  ASSUME GraphTypes, WellFormed(design), PlanInv, UnfoldInv, todo # <<>>, design' = design,
         vertices' = (vertices \ {Called}) \cup PortVertices(Unfolded) \cup CellVertices(Unfolded)
  PROVE  Populated' = Populated \cup {Unfolded}
<1>1. Populated' = {i \in Instances(design) : \E w \in vertices' : w.at = i.level}
  BY DesignStays DEF Populated
<1>2. /\ Unfolded \in Instances(design) /\ Called.port = "" /\ Called \in VertexType
      /\ Unfolded.level = Inside(Called) /\ design \in Designs
  BY HeadFacts, UnfoldedFacts DEF GraphTypes
<1>3. /\ \A w \in PortVertices(Unfolded) \cup CellVertices(Unfolded) : w.at = Unfolded.level
      /\ PortVertices(Unfolded) \cup CellVertices(Unfolded) # {}
  BY <1>2, VertexFacts
<1>4. Unfolded \in Populated'
  BY <1>1, <1>2, <1>3
<1>5. ASSUME NEW i \in Populated
      PROVE  i \in Populated'
  <2>1. i \in Instances(design) /\ Lasting(i) \subseteq vertices
    BY DEF Populated, UnfoldInv
  <2>2. Called \notin Lasting(i)
    BY <1>2, <2>1, PlannedVertexGoes
  <2>3. PICK w \in Lasting(i) : w.at = i.level
    BY <1>2, <2>1, VertexFacts
  <2> QED
    BY <1>1, <2>1, <2>2, <2>3
<1>6. ASSUME NEW i \in Populated'
      PROVE  i \in Populated \cup {Unfolded}
  <2>1. i \in Instances(design)
    BY <1>1
  <2>2. PICK w \in vertices' : w.at = i.level
    BY <1>1
  <2>3. CASE w \in vertices
    BY <2>1, <2>2, <2>3 DEF Populated
  <2>4. CASE w \notin vertices
    <3>1. w.at = Unfolded.level
      BY <1>3, <2>4
    <3> QED
      BY <1>2, <2>1, <2>2, <3>1, InstanceFacts
  <2> QED
    BY <2>3, <2>4
<1> QED
  BY <1>4, <1>5, <1>6

-----------------------------------------------------------------------------
(* The calls after one of them                                             *)
LaterTodo == Submodules(ModuleOf(Unfolded), Unfolded.level) \o Tail(todo)

LEMMA ConcatFacts ==
  ASSUME NEW S, NEW s \in Seq(S), NEW t \in Seq(S)
  PROVE  /\ s \o t \in Seq(S) /\ DOMAIN (s \o t) = 1 .. (Len(s) + Len(t))
         /\ \A k \in 1 .. Len(s) : (s \o t)[k] = s[k]
         /\ \A k \in 1 .. Len(t) : (s \o t)[Len(s) + k] = t[k]
<1>1. s \o t \in Seq(S) /\ Len(s \o t) = Len(s) + Len(t)
  OBVIOUS
<1>2. DOMAIN (s \o t) = 1 .. Len(s \o t)
  BY <1>1
<1>3. \A k \in 1 .. Len(s) : (s \o t)[k] = s[k]
  OBVIOUS
<1>4. \A k \in 1 .. Len(t) : (s \o t)[Len(s) + k] = t[k]
  OBVIOUS
<1> QED
  BY <1>1, <1>2, <1>3, <1>4

LEMMA LaterCalls ==
  ASSUME GraphTypes, WellFormed(design), PlanInv, todo # <<>>
  PROVE  /\ LaterTodo \in Seq(CallType)
         /\ \A k \in DOMAIN LaterTodo :
              \/ \E j \in DOMAIN Submodules(ModuleOf(Unfolded), Unfolded.level) :
                   j = k /\ LaterTodo[k] = Submodules(ModuleOf(Unfolded), Unfolded.level)[j]
              \/ \E j \in DOMAIN todo :
                   /\ j # 1 /\ LaterTodo[k] = todo[j]
                   /\ j = k - Len(Submodules(ModuleOf(Unfolded), Unfolded.level)) + 1
         /\ \A j \in DOMAIN Submodules(ModuleOf(Unfolded), Unfolded.level) :
              \E k \in DOMAIN LaterTodo : LaterTodo[k] = Submodules(ModuleOf(Unfolded), Unfolded.level)[j]
         /\ \A j \in DOMAIN todo : j # 1 => \E k \in DOMAIN LaterTodo : LaterTodo[k] = todo[j]
<1> DEFINE s == Submodules(ModuleOf(Unfolded), Unfolded.level)
           t == Tail(todo)
<1>1. Unfolded \in Instances(design) /\ design \in Designs
  BY UnfoldedFacts DEF GraphTypes
<1>2. s \in Seq(CallType)
  BY <1>1, SubmodulesFacts
<1>3. todo \in Seq(CallType)
  BY DEF GraphTypes
<1> HIDE DEF s
<1>4. /\ t \in Seq(CallType) /\ Len(t) = Len(todo) - 1 /\ Len(t) \in Nat /\ Len(s) \in Nat
      /\ \A k \in 1 .. Len(t) : t[k] = todo[k + 1]
  BY <1>2, <1>3
<1> HIDE DEF t
<1>5. LaterTodo = s \o t
  BY DEF LaterTodo, s, t
<1>6. /\ LaterTodo \in Seq(CallType) /\ DOMAIN LaterTodo = 1 .. (Len(s) + Len(t))
      /\ \A k \in 1 .. Len(s) : LaterTodo[k] = s[k]
      /\ \A k \in 1 .. Len(t) : LaterTodo[Len(s) + k] = t[k]
  BY <1>2, <1>4, <1>5, ConcatFacts
<1>7. ASSUME NEW k \in DOMAIN LaterTodo
      PROVE  \/ \E j \in DOMAIN s : j = k /\ LaterTodo[k] = s[j]
             \/ \E j \in DOMAIN todo : j # 1 /\ LaterTodo[k] = todo[j] /\ j = k - Len(s) + 1
  <2>1. CASE k \in 1 .. Len(s)
    <3>1. DOMAIN s = 1 .. Len(s)
      BY <1>2
    <3> QED
      BY <1>6, <2>1, <3>1
  <2>2. CASE k \notin 1 .. Len(s)
    <3>1. k - Len(s) \in 1 .. Len(t) /\ Len(s) + (k - Len(s)) = k
      BY <1>4, <1>6, <2>2
    <3>2. LaterTodo[k] = t[k - Len(s)]
      BY <1>6, <3>1
    <3>3. t[k - Len(s)] = todo[k - Len(s) + 1]
      BY <1>4, <3>1
    <3>4. k - Len(s) + 1 \in DOMAIN todo /\ k - Len(s) + 1 # 1
      BY <1>3, <1>4, <3>1
    <3> QED
      BY <3>2, <3>3, <3>4
  <2> QED
    BY <2>1, <2>2
<1>8. \A j \in DOMAIN s : \E k \in DOMAIN LaterTodo : LaterTodo[k] = s[j]
  <2> TAKE j \in DOMAIN s
  <2>1. j \in 1 .. Len(s)
    BY <1>2
  <2>2. j \in 1 .. (Len(s) + Len(t))
    BY <1>4, <2>1
  <2> QED
    BY <1>6, <2>1, <2>2
<1>9. ASSUME NEW j \in DOMAIN todo, j # 1
      PROVE  \E k \in DOMAIN LaterTodo : LaterTodo[k] = todo[j]
  <2>1. j - 1 \in 1 .. Len(t) /\ (j - 1) + 1 = j
    BY <1>3, <1>4, <1>9
  <2>2. LaterTodo[Len(s) + (j - 1)] = t[j - 1]
    BY <1>6, <2>1
  <2>4. Len(s) + (j - 1) \in 1 .. (Len(s) + Len(t))
    BY <1>4, <2>1
  <2>3. t[j - 1] = todo[j]
    BY <1>4, <2>1
  <2> QED
    BY <1>6, <2>2, <2>3, <2>4
<1> QED
  BY <1>6, <1>7, <1>8, <1>9 DEF s

(* A call for a module inside                                              *)
LEMMA InnerCall ==
  ASSUME GraphTypes, WellFormed(design), PlanInv, todo # <<>>,
         NEW j \in DOMAIN Submodules(ModuleOf(Unfolded), Unfolded.level)
  PROVE  \E c \in Range(ModuleOf(Unfolded).cells) :
           /\ IsModule(design, c)
           /\ Submodules(ModuleOf(Unfolded), Unfolded.level)[j].vertex = CellVertex(Unfolded.level, c)
           /\ InstanceOf(Submodules(ModuleOf(Unfolded), Unfolded.level)[j]) = Child(Unfolded, c)
<1>1. Unfolded \in Instances(design) /\ design \in Designs
  BY UnfoldedFacts DEF GraphTypes
<1>2. PICK c \in Range(ModuleOf(Unfolded).cells) :
        /\ IsModule(design, c)
        /\ Submodules(ModuleOf(Unfolded), Unfolded.level)[j] = Call(Unfolded.level, c.name, c.type)
  BY <1>1, SubmodulesFacts
<1>3. /\ Call(Unfolded.level, c.name, c.type).vertex = CellVertex(Unfolded.level, c)
      /\ Call(Unfolded.level, c.name, c.type).type = c.type
  BY DEF Call, CellVertex
<1>4. InstanceOf(Call(Unfolded.level, c.name, c.type)) = Child(Unfolded, c)
  BY <1>3, CellVertexInside DEF InstanceOf, Child
<1> QED
  BY <1>2, <1>3, <1>4

LEMMA PopulateKeepsPlan ==
  ASSUME GraphTypes, WellFormed(design), PlanInv, UnfoldInv, todo # <<>>, design' = design,
         vertices' = (vertices \ {Called}) \cup PortVertices(Unfolded) \cup CellVertices(Unfolded),
         todo' = LaterTodo
  PROVE  PlanInv'
<1> DEFINE s == Submodules(ModuleOf(Unfolded), Unfolded.level)
<1>1. /\ Unfolded \in Instances(design) /\ Unfolded \notin Populated /\ design \in Designs
      /\ Called \in VertexType /\ Called \in vertices /\ Called.port = ""
      /\ Unfolded.level = Inside(Called)
      /\ \A w \in vertices : w.at # Unfolded.level
  BY HeadFacts, UnfoldedFacts DEF GraphTypes
<1>2. \A w \in PortVertices(Unfolded) \cup CellVertices(Unfolded) :
        w \in VertexType /\ w.at = Unfolded.level
  BY <1>1, VertexFacts
<1>3. todo \in Seq(CallType) /\ \A k \in DOMAIN todo : todo[k].vertex \in VertexType
  <2>1. todo \in Seq(CallType)
    BY DEF GraphTypes
  <2>2. \A k \in DOMAIN todo : todo[k] \in CallType
    BY <2>1
  <2> QED
    BY <2>1, <2>2 DEF CallType
<1>4. ASSUME NEW j \in DOMAIN s
      PROVE  /\ InstanceOf(s[j]) \in Instances(design)
             /\ s[j].vertex \in CellVertices(Unfolded)
             /\ s[j].vertex.port = ""
             /\ \A w \in vertices' : w.at # Inside(s[j].vertex)
  <2>1. PICK c \in Range(ModuleOf(Unfolded).cells) :
          /\ IsModule(design, c)
          /\ s[j].vertex = CellVertex(Unfolded.level, c)
          /\ InstanceOf(s[j]) = Child(Unfolded, c)
    BY InnerCall
  <2>2. InstanceOf(s[j]) \in Children(design, Unfolded)
    BY <2>1 DEF Children, CellsOf, ModuleOf
  <2>3. InstanceOf(s[j]) \in Instances(design)
    BY <1>1, <2>2, InstanceFacts
  <2>4. s[j].vertex \in CellVertices(Unfolded)
    BY <2>1 DEF CellVertices
  <2>5. s[j].vertex.port = ""
    BY <1>1, <2>4, VertexFacts
  <2>6. InstanceOf(s[j]).level = Inside(s[j].vertex)
    BY DEF InstanceOf
  <2>7. InstanceOf(s[j]) \notin Populated
    BY <1>1, <2>2 DEF UnfoldInv
  <2>8. \A w \in vertices : w.at # Inside(s[j].vertex)
    BY <2>3, <2>6, <2>7 DEF Populated
  <2>9. Inside(s[j].vertex) # Unfolded.level
    <3>1. s[j].vertex \in VertexType /\ s[j].vertex.at = Unfolded.level
      BY <1>2, <2>4
    <3>2. Inside(s[j].vertex) # s[j].vertex.at
      BY <3>1, InsideFacts
    <3> QED
      BY <3>1, <3>2
  <2> QED
    BY <1>2, <2>3, <2>4, <2>5, <2>8, <2>9
<1>5. ASSUME NEW j \in DOMAIN todo, j # 1
      PROVE  /\ InstanceOf(todo[j]) \in Instances(design)
             /\ todo[j].vertex \in vertices /\ todo[j].vertex # Called
             /\ todo[j].vertex.port = ""
             /\ \A w \in vertices' : w.at # Inside(todo[j].vertex)
  <2>1. /\ InstanceOf(todo[j]) \in Instances(design)
        /\ todo[j].vertex \in vertices /\ todo[j].vertex.port = ""
        /\ \A w \in vertices : w.at # Inside(todo[j].vertex)
    BY DEF PlanInv
  <2>2. todo[j].vertex # Called
    <3>1. 1 \in DOMAIN todo /\ Called = todo[1].vertex
      BY HeadFacts DEF Called
    <3> QED
      BY <1>5, <3>1 DEF PlanInv
  <2>3. Inside(todo[j].vertex) # Unfolded.level
    <3> SUFFICES ASSUME Inside(todo[j].vertex) = Inside(Called) PROVE FALSE
      BY <1>1
    <3>1. todo[j].vertex \in VertexType
      BY <1>3
    <3>2. todo[j].vertex.at = Called.at /\ todo[j].vertex.cell = Called.cell
      BY <1>1, <3>1, InsideFacts
    <3> QED
      BY <1>1, <2>1, <2>2, <3>1, <3>2, VertexEqual
  <2> QED
    BY <1>2, <2>1, <2>2, <2>3
<1>6. \A j \in DOMAIN s : s[j].vertex \in vertices'
  BY <1>4
<1>7. \A j \in DOMAIN todo : j # 1 => todo[j].vertex \in vertices'
  BY <1>5
<1>8. \A j, k \in DOMAIN s : s[j].vertex = s[k].vertex => j = k
  BY <1>1, SubmodulesFacts
<1>9. \A j \in DOMAIN s, k \in DOMAIN todo : k # 1 => s[j].vertex # todo[k].vertex
  BY <1>1, <1>2, <1>4, <1>5
<1> HIDE DEF s
<1>10. \A k \in DOMAIN LaterTodo :
         \/ \E j \in DOMAIN s : j = k /\ LaterTodo[k] = s[j]
         \/ \E j \in DOMAIN todo : j # 1 /\ LaterTodo[k] = todo[j] /\ j = k - Len(s) + 1
  BY LaterCalls DEF s
<1>11. \A k \in DOMAIN LaterTodo :
         /\ InstanceOf(LaterTodo[k]) \in Instances(design)
         /\ LaterTodo[k].vertex \in vertices'
         /\ LaterTodo[k].vertex.port = ""
         /\ \A w \in vertices' : w.at # Inside(LaterTodo[k].vertex)
  <2> TAKE k \in DOMAIN LaterTodo
  <2>1. CASE \E j \in DOMAIN s : j = k /\ LaterTodo[k] = s[j]
    BY <1>4, <1>6, <2>1
  <2>2. CASE \E j \in DOMAIN todo : j # 1 /\ LaterTodo[k] = todo[j] /\ j = k - Len(s) + 1
    BY <1>5, <1>7, <2>2
  <2> QED
    BY <1>10, <2>1, <2>2
<1>12. ASSUME NEW k \in DOMAIN LaterTodo, NEW l \in DOMAIN LaterTodo, LaterTodo[k].vertex = LaterTodo[l].vertex
       PROVE  k = l
  <2>1. CASE /\ \E j \in DOMAIN s : j = k /\ LaterTodo[k] = s[j]
             /\ \E j \in DOMAIN s : j = l /\ LaterTodo[l] = s[j]
    BY <1>8, <1>12, <2>1
  <2>2. CASE /\ \E j \in DOMAIN s : j = k /\ LaterTodo[k] = s[j]
             /\ \E j \in DOMAIN todo : j # 1 /\ LaterTodo[l] = todo[j] /\ j = l - Len(s) + 1
    BY <1>9, <1>12, <2>2
  <2>3. CASE /\ \E j \in DOMAIN todo : j # 1 /\ LaterTodo[k] = todo[j] /\ j = k - Len(s) + 1
             /\ \E j \in DOMAIN s : j = l /\ LaterTodo[l] = s[j]
    BY <1>9, <1>12, <2>3
  <2>4. CASE /\ \E j \in DOMAIN todo : j # 1 /\ LaterTodo[k] = todo[j] /\ j = k - Len(s) + 1
             /\ \E j \in DOMAIN todo : j # 1 /\ LaterTodo[l] = todo[j] /\ j = l - Len(s) + 1
    <3>1. PICK i \in DOMAIN todo : i # 1 /\ LaterTodo[k] = todo[i] /\ i = k - Len(s) + 1
      BY <2>4
    <3>2. PICK j \in DOMAIN todo : j # 1 /\ LaterTodo[l] = todo[j] /\ j = l - Len(s) + 1
      BY <2>4
    <3>3. i = j
      BY <1>12, <3>1, <3>2 DEF PlanInv
    <3>4. k \in Nat /\ l \in Nat /\ Len(s) \in Nat
      <4>1. LaterTodo \in Seq(CallType)
        BY LaterCalls
      <4>2. s \in Seq(CallType)
        BY <1>1, SubmodulesFacts DEF s
      <4> QED
        BY <4>1, <4>2
    <3> QED
      BY <3>1, <3>2, <3>3, <3>4
  <2> QED
    BY <1>10, <2>1, <2>2, <2>3, <2>4
<1>13. Instances(design)' = Instances(design)
  OBVIOUS
<1>14. (\A k \in DOMAIN todo :
          /\ InstanceOf(todo[k]) \in Instances(design)
          /\ todo[k].vertex \in vertices
          /\ todo[k].vertex.port = ""
          /\ \A v \in vertices : v.at # Inside(todo[k].vertex))'
  BY <1>11, <1>13
<1>15. (\A k, l \in DOMAIN todo : todo[k].vertex = todo[l].vertex => k = l)'
  BY <1>12
<1> QED
  BY <1>14, <1>15 DEF PlanInv

LEMMA PopulateKeepsUnfolding ==
  ASSUME GraphTypes, WellFormed(design), PlanInv, UnfoldInv, todo # <<>>, design' = design,
         vertices' = (vertices \ {Called}) \cup PortVertices(Unfolded) \cup CellVertices(Unfolded),
         todo' = LaterTodo
  PROVE  UnfoldInv'
<1>1. /\ Unfolded \in Instances(design) /\ Unfolded \notin Populated /\ design \in Designs
      /\ Called \in VertexType /\ Called \in vertices /\ Called.port = ""
      /\ Unfolded.level = Inside(Called)
  BY HeadFacts, UnfoldedFacts DEF GraphTypes
<1>2. Populated' = Populated \cup {Unfolded}
  BY PopulatedGrows
<1>3. Planned \subseteq Planned' \cup {Unfolded}
  <2> SUFFICES ASSUME NEW k \in DOMAIN todo, k # 1
               PROVE  InstanceOf(todo[k]) \in Planned'
    <3>1. Unfolded = InstanceOf(todo[1])
      BY HeadFacts DEF Unfolded
    <3> QED
      BY <3>1 DEF Planned
  <2>1. PICK l \in DOMAIN LaterTodo : LaterTodo[l] = todo[k]
    BY LaterCalls
  <2>2. Planned' = {InstanceOf(LaterTodo[x]) : x \in DOMAIN LaterTodo}
    BY DEF Planned, InstanceOf
  <2> QED
    BY <2>1, <2>2
<1>4. Children(design, Unfolded) \subseteq Planned'
  <2> SUFFICES ASSUME NEW c \in CellsOf(design, Unfolded), IsModule(design, c)
               PROVE  Child(Unfolded, c) \in Planned'
    BY DEF Children
  <2>1. c \in Range(ModuleOf(Unfolded).cells)
    BY DEF CellsOf, ModuleOf
  <2>2. PICK j \in DOMAIN Submodules(ModuleOf(Unfolded), Unfolded.level) :
          Submodules(ModuleOf(Unfolded), Unfolded.level)[j] = Call(Unfolded.level, c.name, c.type)
    BY <1>1, <2>1, SubmodulesFacts
  <2>3. PICK l \in DOMAIN LaterTodo : LaterTodo[l] = Call(Unfolded.level, c.name, c.type)
    BY <2>2, LaterCalls
  <2>4. /\ Call(Unfolded.level, c.name, c.type).vertex = CellVertex(Unfolded.level, c)
        /\ Call(Unfolded.level, c.name, c.type).type = c.type
    BY DEF Call, CellVertex
  <2>5. InstanceOf(Call(Unfolded.level, c.name, c.type)) = Child(Unfolded, c)
    BY <2>4, CellVertexInside DEF InstanceOf, Child
  <2>6. Planned' = {InstanceOf(LaterTodo[x]) : x \in DOMAIN LaterTodo}
    BY DEF Planned, InstanceOf
  <2> QED
    BY <2>3, <2>5, <2>6
<1>5. RootOf(design) \in Populated' \cup Planned'
  BY <1>2, <1>3 DEF UnfoldInv
<1>6. \A i \in Populated' : Children(design, i) \subseteq Populated' \cup Planned'
  <2> TAKE i \in Populated'
  <2>1. CASE i = Unfolded
    BY <1>4, <2>1
  <2>2. CASE i \in Populated
    BY <1>2, <1>3, <2>2 DEF UnfoldInv
  <2> QED
    BY <1>2, <2>1, <2>2
<1>7. ASSUME NEW i \in Instances(design), NEW j \in Children(design, i), j \in Populated'
      PROVE  i \in Populated'
  <2>1. CASE j \in Populated
    BY <1>2, <2>1 DEF UnfoldInv
  <2>2. CASE j = Unfolded
    <3>1. PICK c \in CellsOf(design, i) : IsModule(design, c) /\ Child(i, c) = j
      BY DEF Children
    <3>2. j.level = Append(i.level, c.name)
      BY <3>1 DEF Child
    <3>3. Append(Called.at, Called.cell) = Append(i.level, c.name)
      BY <1>1, <2>2, <3>2 DEF Inside
    <3>4. i.level \in Seq(STRING) /\ i.level \in Seq(Name) /\ Called.at \in Seq(Name)
      BY <1>1, ModuleFacts, SeqName DEF VertexType
    <3>5. Called.at = i.level
      BY <3>3, <3>4, AppendEqual
    <3>6. i \in Populated
      BY <1>1, <3>5 DEF Populated
    <3> QED
      BY <1>2, <3>6
  <2> QED
    BY <1>2, <1>7, <2>1, <2>2
<1>8. \A i \in Populated' : Lasting(i) \subseteq vertices'
  <2> TAKE i \in Populated'
  <2>1. CASE i = Unfolded
    BY <1>1, <2>1, VertexFacts
  <2>2. CASE i \in Populated
    <3>1. i \in Instances(design) /\ Lasting(i) \subseteq vertices
      BY <2>2 DEF UnfoldInv, Populated
    <3>2. Called \notin Lasting(i)
      BY <1>1, <3>1, PlannedVertexGoes
    <3> QED
      BY <3>1, <3>2
  <2> QED
    BY <1>2, <2>1, <2>2
<1>9. \A w \in vertices' :
        \/ w.at = <<>> /\ w.port = ""
        \/ \E i \in Populated' : w \in PortVertices(i) \cup CellVertices(i)
  <2> TAKE w \in vertices'
  <2>1. CASE w \in vertices
    BY <1>2, <2>1 DEF UnfoldInv
  <2>2. CASE w \in PortVertices(Unfolded) \cup CellVertices(Unfolded)
    BY <1>2, <2>2
  <2> QED
    BY <2>1, <2>2
<1>10. (RootOf(design) \in Populated \cup Planned)'
  BY <1>5
<1>11. (\A i \in Populated : Children(design, i) \subseteq Populated \cup Planned)'
  BY <1>6 DEF Children, CellsOf, IsModule
<1>12. (\A i \in Instances(design) : \A j \in Children(design, i) :
          j \in Populated => i \in Populated)'
  BY <1>7 DEF Children, CellsOf, IsModule
<1>13. (\A i \in Populated : Lasting(i) \subseteq vertices)'
  BY <1>8, DesignStays
<1>14. (\A v \in vertices :
         \/ v.at = <<>> /\ v.port = ""
         \/ \E i \in Populated : v \in PortVertices(i) \cup CellVertices(i))'
  BY <1>9, DesignStays
<1> QED
  BY <1>10, <1>11, <1>12, <1>13, <1>14 DEF UnfoldInv

-----------------------------------------------------------------------------
LEMMA MovedEdgeFrom ==
  \A v, e : MovedEdge(v, e).from = MovedEnd(v, e.from, e.out)
  BY DEF MovedEdge

LEMMA MovedEdgeTo ==
  \A v, e : MovedEdge(v, e).to = MovedEnd(v, e.to, e.in)
  BY DEF MovedEdge

LEMMA MovedEdgeFields ==
  \A v, e : /\ MovedEdge(v, e).from = MovedEnd(v, e.from, e.out)
            /\ MovedEdge(v, e).to = MovedEnd(v, e.to, e.in)
            /\ MovedEdge(v, e).out = e.out /\ MovedEdge(v, e).in = e.in
            /\ MovedEdge(v, e).level = e.level /\ MovedEdge(v, e).net = e.net
  BY DEF MovedEdge

LEMMA NewEdgeFields ==
  \A i, order, p :
    /\ NewEdge(i, order, p).from = p[1].vertex /\ NewEdge(i, order, p).to = p[2].vertex
    /\ NewEdge(i, order, p).out = p[1].port /\ NewEdge(i, order, p).in = p[2].port
    /\ NewEdge(i, order, p).level = i.level
    /\ NewEdge(i, order, p).net = Label(ModuleOf(i).nets, order, p[1], p[2])
  BY DEF NewEdge, Edge

LEMMA MovedIsEdgeOf ==
  ASSUME design \in Designs, WellFormed(design), NEW v \in VertexType, v.port = "",
         NEW n \in Instances(design), n.level = Inside(v), n \notin Populated,
         NEW i \in Populated, NEW d \in DriversOf(i), NEW r \in ReadersOf(i), NEW e,
         IsEdgeOf(Populated, e, i, d, r)
  PROVE  IsEdgeOf(Populated \cup {n}, MovedEdge(v, e), i, d, r)
<1>1. i \in Instances(design) /\ \A j \in Populated : j \in Instances(design) /\ j # n
  BY DEF Populated
<1>2. \A j \in Populated : j.level # n.level
  BY <1>1, InstanceFacts
<1>3. d.vertex \in VertexType /\ d.port # "" /\ r.vertex \in VertexType /\ r.port # ""
  BY <1>1, EndsInInstance
<1>4. ASSUME NEW x, x.vertex \in VertexType, x.port # ""
      PROVE  EndIn(Populated \cup {n}, x) = MovedEnd(v, EndIn(Populated, x), x.port)
  <2>1. EndMoves(v, n, Populated, x)
    BY <1>2, <1>4, EndInGrows
  <2> QED
    BY <2>1 DEF EndMoves
<1>5. MovedEdge(v, e).from = EndIn(Populated \cup {n}, d)
  <2>1. e.from = EndIn(Populated, d) /\ e.out = d.port
    BY DEF IsEdgeOf
  <2>2. MovedEdge(v, e).from = MovedEnd(v, e.from, e.out)
    BY MovedEdgeFrom
  <2>3. MovedEdge(v, e).from = MovedEnd(v, EndIn(Populated, d), d.port)
    BY <2>1, <2>2, Zenon
  <2> QED
    BY <1>3, <1>4, <2>3
<1>6. MovedEdge(v, e).to = EndIn(Populated \cup {n}, r)
  <2>1. e.to = EndIn(Populated, r) /\ e.in = r.port
    BY DEF IsEdgeOf
  <2>2. MovedEdge(v, e).to = MovedEnd(v, e.to, e.in)
    BY MovedEdgeTo
  <2>3. MovedEdge(v, e).to = MovedEnd(v, EndIn(Populated, r), r.port)
    BY <2>1, <2>2, Zenon
  <2> QED
    BY <1>3, <1>4, <2>3
<1>7. MovedEdge(v, e).out = d.port /\ MovedEdge(v, e).in = r.port /\ MovedEdge(v, e).level = i.level
  BY MovedEdgeFields DEF IsEdgeOf
<1> QED
  BY <1>5, <1>6, <1>7 DEF IsEdgeOf

LEMMA NewIsEdgeOf ==
  ASSUME design \in Designs, WellFormed(design), UnfoldInv,
         NEW n \in Instances(design), n \notin Populated, NEW order, NEW p \in PairsIn(n)
  PROVE  IsEdgeOf(Populated \cup {n}, NewEdge(n, order, p), n, p[1], p[2])
<1>1. p[1] \in DriversOf(n) /\ p[2] \in ReadersOf(n)
  BY DEF PairsIn
<1>2. EndIn(Populated \cup {n}, p[1]) = p[1].vertex
  BY <1>1, NewEndsStay
<1>3. EndIn(Populated \cup {n}, p[2]) = p[2].vertex
  BY <1>1, NewEndsStay
<1> QED
  BY <1>2, <1>3, NewEdgeFields DEF IsEdgeOf

LEMMA PopulateKeepsEdges ==
  ASSUME GraphTypes, WellFormed(design), PlanInv, UnfoldInv, EdgeInv, todo # <<>>, design' = design,
         vertices' = (vertices \ {Called}) \cup PortVertices(Unfolded) \cup CellVertices(Unfolded),
         NEW order, OrderFor(Unfolded, order),
         edges' = {MovedEdge(Called, e) : e \in edges}
                    \cup {NewEdge(Unfolded, order, p) : p \in PairsIn(Unfolded)}
  PROVE  EdgeInv'
<1>1. /\ Unfolded \in Instances(design) /\ Unfolded \notin Populated /\ design \in Designs
      /\ Called \in VertexType /\ Called.port = "" /\ Unfolded.level = Inside(Called)
  BY HeadFacts, UnfoldedFacts DEF GraphTypes
<1>2. Populated' = Populated \cup {Unfolded}
  BY PopulatedGrows
<1> DEFINE P1 == Populated \cup {Unfolded}
<1>3. ASSUME NEW e \in edges'
      PROVE  \E i \in P1 : \E d \in DriversOf(i), r \in ReadersOf(i) :
               /\ Connected(d, r) /\ IsEdgeOf(P1, e, i, d, r)
               /\ NamesSuffice => Labelled(ModuleOf(i).nets, d, r, e.net)
  <2>1. CASE \E f \in edges : MovedEdge(Called, f) = e
    <3>1. PICK f \in edges : MovedEdge(Called, f) = e
      BY <2>1
    <3>2. PICK i \in Populated : \E d \in DriversOf(i), r \in ReadersOf(i) :
            /\ Connected(d, r) /\ IsEdgeOf(Populated, f, i, d, r)
            /\ NamesSuffice => Labelled(ModuleOf(i).nets, d, r, f.net)
      BY DEF EdgeInv
    <3>3. PICK d \in DriversOf(i), r \in ReadersOf(i) :
            /\ Connected(d, r) /\ IsEdgeOf(Populated, f, i, d, r)
            /\ NamesSuffice => Labelled(ModuleOf(i).nets, d, r, f.net)
      BY <3>2
    <3>4. IsEdgeOf(P1, e, i, d, r)
      BY <1>1, <3>1, <3>3, MovedIsEdgeOf
    <3>5. e.net = f.net
      BY <3>1, MovedEdgeFields
    <3> QED
      BY <3>3, <3>4, <3>5
  <2>2. CASE \E p \in PairsIn(Unfolded) : NewEdge(Unfolded, order, p) = e
    <3>1. PICK p \in PairsIn(Unfolded) : NewEdge(Unfolded, order, p) = e
      BY <2>2
    <3>2. p[1] \in DriversOf(Unfolded) /\ p[2] \in ReadersOf(Unfolded) /\ Connected(p[1], p[2])
      BY DEF PairsIn
    <3>3. IsEdgeOf(P1, e, Unfolded, p[1], p[2])
      BY <1>1, <3>1, NewIsEdgeOf
    <3>4. e.net = Label(ModuleOf(Unfolded).nets, order, p[1], p[2])
      BY <3>1, NewEdgeFields
    <3>5. ASSUME NamesSuffice
          PROVE  Labelled(ModuleOf(Unfolded).nets, p[1], p[2], e.net)
      <4>1. \/ HasExact(ModuleOf(Unfolded).nets, p[1], p[2])
            \/ order \in SetToSeqs(Representatives(ModuleOf(Unfolded).nets))
        BY DEF OrderFor
      <4> QED
        BY <1>1, <3>2, <3>4, <3>5, <4>1, NamedEdges
    <3> QED
      BY <3>2, <3>3, <3>5
  <2> QED
    BY <2>1, <2>2
<1>4. ASSUME NEW i \in P1, NEW d \in DriversOf(i), NEW r \in ReadersOf(i), Connected(d, r)
      PROVE  \E e \in edges' : IsEdgeOf(P1, e, i, d, r)
  <2>1. CASE i \in Populated
    <3>1. PICK f \in edges : IsEdgeOf(Populated, f, i, d, r)
      BY <1>4, <2>1 DEF EdgeInv
    <3>2. IsEdgeOf(P1, MovedEdge(Called, f), i, d, r)
      BY <1>1, <2>1, <3>1, MovedIsEdgeOf
    <3> QED
      BY <3>2
  <2>2. CASE i = Unfolded
    <3> DEFINE p == <<d, r>>
    <3>1. p \in PairsIn(Unfolded) /\ p[1] = d /\ p[2] = r
      BY <1>4, <2>2 DEF PairsIn
    <3> HIDE DEF p
    <3>2. IsEdgeOf(P1, NewEdge(Unfolded, order, p), Unfolded, d, r)
      BY <1>1, <3>1, NewIsEdgeOf
    <3> QED
      BY <2>2, <3>1, <3>2
  <2> QED
    BY <2>1, <2>2
<1>5. NamesSuffice' <=> NamesSuffice
  BY DEF NamesSuffice
<1>6. P1 = Populated'
  BY <1>2
<1> HIDE DEF P1
<1>7. (\A e \in edges : \E i \in Populated : \E d \in DriversOf(i), r \in ReadersOf(i) :
         /\ Connected(d, r) /\ IsEdgeOf(Populated, e, i, d, r)
         /\ NamesSuffice => Labelled(ModuleOf(i).nets, d, r, e.net))'
  BY <1>3, <1>5, <1>6, DesignStays DEF IsEdgeOf
<1>8. (\A i \in Populated : \A d \in DriversOf(i), r \in ReadersOf(i) :
         Connected(d, r) => \E e \in edges : IsEdgeOf(Populated, e, i, d, r))'
  BY <1>4, <1>6, DesignStays DEF IsEdgeOf
<1> QED
  BY <1>7, <1>8 DEF EdgeInv

-----------------------------------------------------------------------------
LEMMA MovedEdgeType ==
  ASSUME NEW v \in VertexType, NEW e \in EdgeType
  PROVE  MovedEdge(v, e) \in EdgeType
<1>1. /\ e.from \in VertexType /\ e.to \in VertexType /\ e.out \in STRING /\ e.in \in STRING
      /\ e.level \in Seq(Name) /\ e.net \in NetType \cup {NoNet}
  BY DEF EdgeType
<1>2. ASSUME NEW x \in VertexType, NEW port \in STRING
      PROVE  MovedEnd(v, x, port) \in VertexType
  <2>1. Inside(v) \in Seq(Name) /\ port \in Name /\ "" \in Name
    BY InsideFacts DEF Name
  <2>2. PortVertex(Inside(v), port) \in VertexType
    BY <2>1 DEF PortVertex, VertexType
  <2> QED
    BY <2>2 DEF MovedEnd
<1>3. MovedEnd(v, e.from, e.out) \in VertexType /\ MovedEnd(v, e.to, e.in) \in VertexType
  BY <1>1, <1>2
<1> QED
  BY <1>1, <1>3 DEF MovedEdge, EdgeType

LEMMA NewEdgeType ==
  ASSUME design \in Designs, WellFormed(design), NEW n \in Instances(design),
         NEW order, OrderFor(n, order), NEW p \in PairsIn(n)
  PROVE  NewEdge(n, order, p) \in EdgeType
<1>1. p[1] \in DriversOf(n) /\ p[2] \in ReadersOf(n)
  BY DEF PairsIn
<1>2. /\ p[1].vertex \in VertexType /\ p[1].port \in STRING
      /\ p[2].vertex \in VertexType /\ p[2].port \in STRING
  BY <1>1, EndsInInstance
<1>3. n.level \in Seq(Name) /\ ModuleOf(n).nets \in Seq(NetType)
  BY ModuleFacts, SeqName
<1>4. Label(ModuleOf(n).nets, order, p[1], p[2]) \in NetType \cup {NoNet}
  BY <1>3, LabelType DEF OrderFor
<1>5. NewEdge(n, order, p) =
        [from |-> p[1].vertex, to |-> p[2].vertex, out |-> p[1].port, in |-> p[2].port,
         level |-> n.level, net |-> Label(ModuleOf(n).nets, order, p[1], p[2])]
  BY DEF NewEdge, Edge
<1> QED
  BY <1>2, <1>3, <1>4, <1>5 DEF EdgeType

LEMMA UnlabelledFacts ==
  ASSUME design \in Designs, WellFormed(design), EdgeInv, NamesSuffice
  PROVE  Unlabelled = {}
<1> SUFFICES ASSUME NEW e \in edges, e.net = NoNet PROVE FALSE
  BY DEF Unlabelled
<1>1. PICK i \in Populated : \E d \in DriversOf(i), r \in ReadersOf(i) :
        Labelled(ModuleOf(i).nets, d, r, e.net)
  BY DEF EdgeInv
<1>2. PICK d \in DriversOf(i), r \in ReadersOf(i) : Labelled(ModuleOf(i).nets, d, r, e.net)
  BY <1>1
<1>3. i \in Instances(design)
  BY DEF Populated
<1> QED
  BY <1>2, <1>3, LabelledIsNet

LEMMA PopulateKeeps ==
  ASSUME BuildInv, WellFormed(design), Populate
  PROVE  BuildInv'
<1>1. outcome = "building" /\ GraphTypes /\ PlanInv /\ UnfoldInv /\ EdgeInv
  BY DEF Populate, BuildInv
<1>2. /\ design' = design /\ todo # <<>>
      /\ vertices' = (vertices \ {Called}) \cup PortVertices(Unfolded) \cup CellVertices(Unfolded)
  BY <1>1, PopulateFacts
<1>3. PICK order :
        /\ OrderFor(Unfolded, order)
        /\ edges' = {MovedEdge(Called, e) : e \in edges}
                      \cup {NewEdge(Unfolded, order, p) : p \in PairsIn(Unfolded)}
        /\ IF Unnamed(Unfolded, order)
           THEN outcome' = "thrown" /\ todo' = todo
           ELSE outcome' = outcome /\ todo' = Submodules(ModuleOf(Unfolded), Unfolded.level) \o Tail(todo)
  BY <1>1, PopulateFacts
<1>4. Unfolded \in Instances(design) /\ design \in Designs /\ Called \in VertexType
  BY <1>1, <1>2, HeadFacts, UnfoldedFacts DEF GraphTypes
<1>5. vertices' \in SUBSET VertexType
  BY <1>1, <1>2, <1>4, VertexFacts DEF GraphTypes
<1>6. edges' \in SUBSET EdgeType
  <2> SUFFICES ASSUME NEW e \in edges' PROVE e \in EdgeType
    OBVIOUS
  <2>1. ASSUME NEW f \in edges, MovedEdge(Called, f) = e PROVE e \in EdgeType
    <3>1. f \in EdgeType
      BY <1>1 DEF GraphTypes
    <3> QED
      BY <1>4, <2>1, <3>1, MovedEdgeType
  <2>2. ASSUME NEW p \in PairsIn(Unfolded), NewEdge(Unfolded, order, p) = e PROVE e \in EdgeType
    BY <1>3, <1>4, <2>2, NewEdgeType
  <2> QED
    BY <1>3, <2>1, <2>2
<1>7. CASE Unnamed(Unfolded, order)
  <2>1. outcome' = "thrown" /\ todo' = todo
    BY <1>3, <1>7
  <2>2. ~WellNamed(design)
    <3> SUFFICES ASSUME NamesSuffice PROVE FALSE
      BY DEF NamesSuffice
    <3>1. PICK p \in PairsIn(Unfolded) :
            ~HasExact(ModuleOf(Unfolded).nets, p[1], p[2]) /\ EmptyBits(order, p[1], p[2])
      BY <1>7 DEF Unnamed
    <3>2. p[1] \in DriversOf(Unfolded) /\ p[2] \in ReadersOf(Unfolded) /\ Connected(p[1], p[2])
      BY DEF PairsIn
    <3>3. order \in SetToSeqs(Representatives(ModuleOf(Unfolded).nets))
      BY <1>3, <3>1 DEF OrderFor
    <3> QED
      BY <1>4, <3>1, <3>2, <3>3, NamedEdges
  <2>3. GraphTypes'
    BY <1>1, <1>2, <1>4, <1>5, <1>6, <2>1 DEF GraphTypes
  <2>4. ~(WellNamed(design)')
    BY <1>2, <2>2
  <2> QED
    BY <2>1, <2>3, <2>4 DEF BuildInv
<1>8. CASE ~Unnamed(Unfolded, order)
  <2>1. outcome' = "building" /\ todo' = LaterTodo
    BY <1>1, <1>3, <1>8 DEF LaterTodo
  <2>2. PlanInv'
    BY <1>1, <1>2, <2>1, PopulateKeepsPlan
  <2>3. UnfoldInv'
    BY <1>1, <1>2, <2>1, PopulateKeepsUnfolding
  <2>4. EdgeInv'
    BY <1>1, <1>2, <1>3, PopulateKeepsEdges
  <2>5. LaterTodo \in Seq(CallType)
    BY <1>1, <1>2, LaterCalls
  <2>6. GraphTypes'
    BY <1>2, <1>4, <1>5, <1>6, <2>1, <2>5 DEF GraphTypes
  <2> QED
    BY <2>1, <2>2, <2>3, <2>4, <2>6 DEF BuildInv
<1> QED
  BY <1>7, <1>8

-----------------------------------------------------------------------------
LEMMA TopFacts ==
  ASSUME design \in Designs, WellFormed(design)
  PROVE  /\ Top.nets \in Seq(NetType)
         /\ \A name : NetsNamed(name) \in SUBSET DOMAIN Top.nets
<1>1. TopType(design) \in DOMAIN design.modules
  BY DEF WellFormed
<1> QED
  BY <1>1, DesignFacts DEF Top, NetsNamed

LEMMA SameVertices ==
  ASSUME UNCHANGED <<design, vertices, todo>>, PlanInv, UnfoldInv
  PROVE  PlanInv' /\ UnfoldInv' /\ Populated' = Populated
<1>1. design' = design /\ vertices' = vertices /\ todo' = todo
  OBVIOUS
<1>2. Populated' = Populated
  BY <1>1 DEF Populated
<1>3. Planned' = Planned
  BY <1>1 DEF Planned, InstanceOf
<1>4. PlanInv'
  BY <1>1 DEF PlanInv, InstanceOf
<1>5. (RootOf(design) \in Populated \cup Planned)'
  BY <1>1, <1>2, <1>3 DEF UnfoldInv
<1>6. (\A i \in Populated : Children(design, i) \subseteq Populated \cup Planned)'
  BY <1>1, <1>2, <1>3 DEF UnfoldInv
<1>7. (\A i \in Instances(design) : \A j \in Children(design, i) :
         j \in Populated => i \in Populated)'
  BY <1>1, <1>2 DEF UnfoldInv
<1>8. (\A i \in Populated : Lasting(i) \subseteq vertices)'
  BY <1>1, <1>2, DesignStays DEF UnfoldInv
<1>9. (\A v \in vertices :
         \/ v.at = <<>> /\ v.port = ""
         \/ \E i \in Populated : v \in PortVertices(i) \cup CellVertices(i))'
  BY <1>1, <1>2, DesignStays DEF UnfoldInv
<1>10. UnfoldInv'
  BY <1>5, <1>6, <1>7, <1>8, <1>9 DEF UnfoldInv
<1> QED
  BY <1>2, <1>4, <1>10

LEMMA PropagateKeeps ==
  ASSUME BuildInv, WellFormed(design), Propagate
  PROVE  BuildInv'
<1>1. /\ outcome = "building" /\ todo = <<>> /\ ~PortWithoutNet
      /\ UNCHANGED <<design, vertices, todo, outcome>>
  BY DEF Propagate
<1>2. PICK e \in Unlabelled : \E net \in Following(e) :
        edges' = (edges \ {e}) \cup {[e EXCEPT !.net = net]}
  BY DEF Propagate
<1>3. PICK net \in Following(e) : edges' = (edges \ {e}) \cup {[e EXCEPT !.net = net]}
  BY <1>2
<1>4. GraphTypes /\ PlanInv /\ UnfoldInv /\ EdgeInv /\ design \in Designs
  BY <1>1 DEF BuildInv, GraphTypes
<1>5. ~NamesSuffice
  BY <1>4, UnlabelledFacts
<1>6. e \in edges /\ e \in EdgeType
  BY <1>4 DEF Unlabelled, GraphTypes
<1>7. net \in NetType \cup {NoNet}
  <2>1. CASE \E f \in edges : f.net = net
    BY <1>4, <2>1 DEF GraphTypes, EdgeType
  <2>2. CASE ~\E f \in edges : f.net = net
    <3>1. e.to \in TopPorts /\ net = FirstOf(Top.nets, NetsNamed(e.to.port))
      BY <2>2 DEF Following
    <3>2. NetsNamed(e.to.port) # {}
      BY <1>1, <3>1 DEF PortWithoutNet
    <3> QED
      BY <1>4, <3>1, <3>2, TopFacts, FirstIsThere
  <2> QED
    BY <2>1, <2>2
<1> DEFINE f == [e EXCEPT !.net = net]
<1>8. /\ f \in EdgeType /\ f.from = e.from /\ f.to = e.to /\ f.out = e.out /\ f.in = e.in
      /\ f.level = e.level
  BY <1>6, <1>7 DEF EdgeType
<1> HIDE DEF f
<1>9. edges' = (edges \ {e}) \cup {f}
  BY <1>3 DEF f
<1>10. GraphTypes'
  BY <1>1, <1>4, <1>8, <1>9 DEF GraphTypes
<1>11. PlanInv' /\ UnfoldInv' /\ Populated' = Populated
  BY <1>1, <1>4, SameVertices
<1>12. \A S, i, d, r : IsEdgeOf(S, f, i, d, r) <=> IsEdgeOf(S, e, i, d, r)
  BY <1>8 DEF IsEdgeOf
<1>13. \A g \in edges' : \E i \in Populated : \E d \in DriversOf(i), r \in ReadersOf(i) :
         Connected(d, r) /\ IsEdgeOf(Populated, g, i, d, r)
  <2> TAKE g \in edges'
  <2>1. CASE g \in edges
    BY <1>4, <2>1 DEF EdgeInv
  <2>2. CASE g = f
    BY <1>4, <1>6, <1>12, <2>2 DEF EdgeInv
  <2> QED
    BY <1>9, <2>1, <2>2
<1>14. \A i \in Populated : \A d \in DriversOf(i), r \in ReadersOf(i) :
         Connected(d, r) => \E g \in edges' : IsEdgeOf(Populated, g, i, d, r)
  <2> SUFFICES ASSUME NEW i \in Populated, NEW d \in DriversOf(i), NEW r \in ReadersOf(i),
                      Connected(d, r)
               PROVE  \E g \in edges' : IsEdgeOf(Populated, g, i, d, r)
    OBVIOUS
  <2>1. PICK g \in edges : IsEdgeOf(Populated, g, i, d, r)
    BY <1>4 DEF EdgeInv
  <2>2. CASE g = e
    BY <1>9, <1>12, <2>1, <2>2
  <2>3. CASE g # e
    BY <1>9, <2>1, <2>3
  <2> QED
    BY <2>2, <2>3
<1>15. ~(NamesSuffice')
  BY <1>1, <1>5 DEF NamesSuffice
<1>16. (\A g \in edges : \E i \in Populated : \E d \in DriversOf(i), r \in ReadersOf(i) :
         /\ Connected(d, r) /\ IsEdgeOf(Populated, g, i, d, r)
         /\ NamesSuffice => Labelled(ModuleOf(i).nets, d, r, g.net))'
  BY <1>1, <1>11, <1>13, <1>15, DesignStays DEF IsEdgeOf
<1>17. (\A i \in Populated : \A d \in DriversOf(i), r \in ReadersOf(i) :
          Connected(d, r) => \E g \in edges : IsEdgeOf(Populated, g, i, d, r))'
  BY <1>1, <1>11, <1>14, DesignStays DEF IsEdgeOf
<1>18. EdgeInv'
  BY <1>16, <1>17 DEF EdgeInv
<1>19. outcome' = "building"
  BY <1>1
<1> QED
  BY <1>10, <1>11, <1>18, <1>19 DEF BuildInv

LEMMA FinishKeeps ==
  ASSUME BuildInv, WellFormed(design), Finish
  PROVE  BuildInv'
<1>1. /\ outcome = "building" /\ todo = <<>>
      /\ outcome' = IF PortWithoutNet \/ Unlabelled # {} THEN "thrown" ELSE "built"
      /\ UNCHANGED <<design, vertices, edges, todo>>
  BY DEF Finish
<1>2. GraphTypes /\ PlanInv /\ UnfoldInv /\ EdgeInv /\ design \in Designs
  BY <1>1 DEF BuildInv, GraphTypes
<1>3. GraphTypes'
  BY <1>1, <1>2 DEF GraphTypes
<1>4. PlanInv' /\ UnfoldInv' /\ Populated' = Populated
  BY <1>1, <1>2, SameVertices
<1>5. NamesSuffice' <=> NamesSuffice
  BY <1>1 DEF NamesSuffice
<1>6. EdgeInv'
  BY <1>1, <1>2, <1>4, <1>5, DesignStays DEF EdgeInv, IsEdgeOf
<1>7. Unlabelled' = Unlabelled
  BY <1>1 DEF Unlabelled
<1>8. WellNamed(design) => ~PortWithoutNet /\ Unlabelled = {}
  <2> HAVE WellNamed(design)
  <2>1. Unlabelled = {}
    BY <1>2, UnlabelledFacts DEF NamesSuffice
  <2>2. ~PortWithoutNet
    <3> SUFFICES ASSUME NEW p \in Range(Top.ports),
                        NetsNamed(PortVertex(<<TopType(design)>>, p.name).port) = {}
                 PROVE  FALSE
      BY DEF PortWithoutNet, TopPorts
    <3>1. NetsNamed(p.name) = {}
      BY PortVertexFields
    <3>2. PICK n \in Range(Top.nets) : n.name = p.name
      BY DEF WellNamed, Top
    <3>3. PICK k \in DOMAIN Top.nets : Top.nets[k] = n
      BY DEF Range
    <3> QED
      BY <3>1, <3>2, <3>3 DEF NetsNamed
  <2> QED
    BY <2>1, <2>2
<1>9. WellNamed(design)' <=> WellNamed(design)
  BY <1>1
<1> QED
  BY <1>1, <1>3, <1>4, <1>6, <1>7, <1>8, <1>9 DEF BuildInv

-----------------------------------------------------------------------------
LEMMA InitBuilds ==
  ASSUME DesignsAreWellFormed, Init
  PROVE  BuildInv
<1> DEFINE type == TopType(design)
           root == Call(<<>>, type, type)
<1>1. /\ design \in Designs /\ WellFormed(design) /\ edges = {} /\ outcome = "building"
      /\ vertices = {root.vertex} /\ todo = <<root>>
  BY DEF Init, GraphInit, DesignsAreWellFormed
<1>2. type \in STRING
  BY <1>1, DesignFacts DEF WellFormed
<1> HIDE DEF type
<1>3. /\ root = [vertex |-> [at |-> <<>>, cell |-> type, port |-> ""], type |-> type]
      /\ root.vertex.at = <<>> /\ root.vertex.cell = type /\ root.vertex.port = ""
      /\ root.type = type
  BY DEF Call
<1> HIDE DEF root
<1>4. root.vertex \in VertexType /\ root \in CallType
  <2>1. type \in Name /\ "" \in Name
    BY <1>2 DEF Name
  <2>3. <<>> \in Seq(Name)
    OBVIOUS
  <2>2. [at |-> <<>>, cell |-> type, port |-> ""] \in VertexType
    BY <2>1, <2>3 DEF VertexType
  <2> QED
    BY <1>2, <1>3, <2>2 DEF CallType
<1>5. Inside(root.vertex) = <<type>> /\ Inside(root.vertex) # <<>>
  <2>1. Inside(root.vertex) = Append(<<>>, type)
    BY <1>3 DEF Inside
  <2>2. Append(<<>>, type) = <<type>> /\ <<type>> # <<>>
    OBVIOUS
  <2> QED
    BY <2>1, <2>2
<1>6. InstanceOf(root) = RootOf(design)
  BY <1>3, <1>5 DEF InstanceOf, RootOf, type
<1>7. RootOf(design) \in Instances(design)
  BY <1>1, InstanceFacts
<1>8. \A i \in Instances(design) : i.level # <<>>
  BY <1>1, InstanceFacts
<1>9. DOMAIN todo = {1} /\ todo[1] = root /\ todo \in Seq(CallType)
  BY <1>1, <1>4
<1>10. Populated = {}
  BY <1>1, <1>3, <1>8 DEF Populated
<1>11. GraphTypes
  BY <1>1, <1>4, <1>9 DEF GraphTypes
<1>12. PlanInv
  BY <1>1, <1>3, <1>5, <1>6, <1>7, <1>9 DEF PlanInv
<1>13. UnfoldInv
  <2>1. RootOf(design) \in Planned
    BY <1>6, <1>9 DEF Planned
  <2> QED
    BY <1>1, <1>3, <1>10, <2>1 DEF UnfoldInv
<1>14. EdgeInv
  BY <1>1, <1>10 DEF EdgeInv
<1> QED
  BY <1>1, <1>11, <1>12, <1>13, <1>14 DEF BuildInv

LEMMA ExportKeeps ==
  ASSUME BuildInv, UNCHANGED <<design, vertices, edges, todo>>,
         outcome \in {"built", "refused", "thrown", "building"},
         outcome' = outcome \/ (outcome = "built" /\ outcome' = "refused")
  PROVE  BuildInv'
<1>1. /\ design' = design /\ vertices' = vertices /\ edges' = edges /\ todo' = todo
  OBVIOUS
<1>2. GraphTypes'
  BY <1>1 DEF BuildInv, GraphTypes
<1>3. NamesSuffice' <=> NamesSuffice
  BY <1>1 DEF NamesSuffice
<1>4. ASSUME outcome' # "thrown" PROVE PlanInv' /\ UnfoldInv' /\ EdgeInv'
  <2>1. PlanInv /\ UnfoldInv /\ EdgeInv
    BY <1>4 DEF BuildInv
  <2>2. PlanInv' /\ UnfoldInv' /\ Populated' = Populated
    BY <2>1, SameVertices
  <2>3. EdgeInv'
    BY <1>1, <1>3, <2>1, <2>2, DesignStays DEF EdgeInv, IsEdgeOf
  <2> QED
    BY <2>2, <2>3
<1>5. Unlabelled' = Unlabelled
  BY <1>1 DEF Unlabelled
<1>6. WellNamed(design)' <=> WellNamed(design)
  BY <1>1
<1> QED
  BY <1>1, <1>2, <1>4, <1>5, <1>6 DEF BuildInv

(* Whatever the netlists, as long as a front end can have made them: the   *)
(* construction keeps track of what it has unfolded, of what is planned    *)
(* and of where the ends of every connection are by then.                  *)
THEOREM GraphIsBuilt ==
  ASSUME DesignsAreWellFormed
  PROVE  Spec => []BuildInv
<1>1. Init => BuildInv
  BY InitBuilds
<1>2. BuildInv /\ [Next]_vars => BuildInv'
  <2> SUFFICES ASSUME BuildInv, [Next]_vars PROVE BuildInv'
    OBVIOUS
  <2>1. design \in Designs /\ WellFormed(design) /\ outcome \in {"built", "refused", "thrown", "building"}
    BY DEF BuildInv, GraphTypes, DesignsAreWellFormed
  <2>2. CASE Elaborate
    BY <2>1, <2>2, PopulateKeeps, PropagateKeeps, FinishKeeps DEF Elaborate, GraphNext
  <2>3. CASE Export
    BY <2>1, <2>3, ExportKeeps DEF Export, graphVars
  <2>4. CASE Refuse
    BY <2>1, <2>4, ExportKeeps DEF Refuse
  <2>5. CASE UNCHANGED vars
    BY <2>1, <2>5, ExportKeeps DEF vars, graphVars
  <2> QED
    BY <2>2, <2>3, <2>4, <2>5 DEF Next
<1> QED
  BY <1>1, <1>2, PTL DEF Spec

-----------------------------------------------------------------------------
LEMMA AllAreUnfolded ==
  ASSUME GraphTypes, WellFormed(design), UnfoldInv, todo = <<>>
  PROVE  Populated = Instances(design)
<1> DEFINE Good == {n \in Nat : \A i \in Instances(design) : Len(i.level) = n => i \in Populated}
<1>1. design \in Designs
  BY DEF GraphTypes
<1>2. \A i \in Instances(design) : i.level \in Seq(STRING) /\ i.level # <<>>
  BY <1>1, ModuleFacts
<1>3. Planned = {}
  BY DEF Planned
<1>4. RootOf(design) \in Populated /\ \A i \in Populated : Children(design, i) \subseteq Populated
  BY <1>3 DEF UnfoldInv
<1>5. 0 \in Good
  <2> SUFFICES ASSUME NEW i \in Instances(design), Len(i.level) = 0 PROVE FALSE
    OBVIOUS
  <2>1. i.level \in Seq(STRING) /\ i.level # <<>>
    BY <1>2
  <2> QED
    BY <2>1
<1>6. ASSUME NEW n \in Nat, n \in Good PROVE n + 1 \in Good
  <2> SUFFICES ASSUME NEW i \in Instances(design), Len(i.level) = n + 1 PROVE i \in Populated
    OBVIOUS
  <2>1. CASE i = RootOf(design)
    BY <1>4, <2>1
  <2>2. CASE \E j \in Instances(design) : i \in Children(design, j)
    <3>1. PICK j \in Instances(design) : i \in Children(design, j)
      BY <2>2
    <3>2. PICK c \in CellsOf(design, j) : IsModule(design, c) /\ Child(j, c) = i
      BY <3>1 DEF Children
    <3>3. j \in InstanceType(design)
      BY <1>1, InstanceFacts
    <3>4. Len(Child(j, c).level) = Len(j.level) + 1
      BY <1>1, <3>2, <3>3, ChildFacts
    <3>5. j.level \in Seq(STRING)
      BY <1>2
    <3>6. Len(j.level) = n
      BY <3>2, <3>4, <3>5
    <3>7. j \in Populated
      BY <1>6, <3>6
    <3> QED
      BY <1>4, <3>1, <3>7
  <2> QED
    BY <1>1, <2>1, <2>2, InstanceFacts
<1> HIDE DEF Good
<1>7. Nat \subseteq Good
  BY <1>5, <1>6, SetInduction
<1>8. ASSUME NEW i \in Instances(design) PROVE i \in Populated
  <2>1. i.level \in Seq(STRING)
    BY <1>2
  <2>2. Len(i.level) \in Nat
    BY <2>1
  <2> QED
    BY <1>7, <2>2 DEF Good
<1> QED
  BY <1>8 DEF Populated

LEMMA EdgesConnect ==
  ASSUME EdgeInv
  PROVE  {<<e.from, e.to, e.out, e.in, e.level>> : e \in edges} = Connections(Populated)
<1> DEFINE Tuple(e) == <<e.from, e.to, e.out, e.in, e.level>>
           S == Populated
           Conn(i, p) == <<EndIn(S, p[1]), EndIn(S, p[2]), p[1].port, p[2].port, i.level>>
<1>1. Connections(S) = UNION {{Conn(i, p) : p \in PairsIn(i)} : i \in S}
  BY DEF Connections, PairsIn, DriversOf, ReadersOf, ModuleOf, Connected
<1>2. \A e, i, p : IsEdgeOf(S, e, i, p[1], p[2]) => Tuple(e) = Conn(i, p)
  BY DEF IsEdgeOf
<1>3. \A e \in edges : \E i \in S : \E p \in PairsIn(i) : IsEdgeOf(S, e, i, p[1], p[2])
  <2> TAKE e \in edges
  <2>1. PICK i \in S : \E d \in DriversOf(i), r \in ReadersOf(i) :
          Connected(d, r) /\ IsEdgeOf(S, e, i, d, r)
    BY DEF EdgeInv
  <2>2. PICK d \in DriversOf(i), r \in ReadersOf(i) : Connected(d, r) /\ IsEdgeOf(S, e, i, d, r)
    BY <2>1
  <2> DEFINE p == <<d, r>>
  <2>3. p \in PairsIn(i) /\ p[1] = d /\ p[2] = r
    BY <2>2 DEF PairsIn
  <2> HIDE DEF p
  <2> QED
    BY <2>2, <2>3
<1>4. \A i \in S : \A p \in PairsIn(i) : \E e \in edges : IsEdgeOf(S, e, i, p[1], p[2])
  BY DEF EdgeInv, PairsIn
<1> HIDE DEF Tuple, Conn, S
<1>5. {Tuple(e) : e \in edges} = UNION {{Conn(i, p) : p \in PairsIn(i)} : i \in S}
  BY <1>2, <1>3, <1>4
<1> QED
  BY <1>1, <1>5 DEF Tuple, S

(* However the modules nest and feed one another, the graph connects what  *)
(* the modules unfolded so far connect, and in the end all are unfolded:   *)
(* populate_module and create_module_ports_vertices.                       *)
THEOREM GraphConnectsTheNetlist ==
  ASSUME DesignsAreWellFormed
  PROVE  Spec => []EdgesAreTheConnections
<1>1. BuildInv => EdgesAreTheConnections
  <2> SUFFICES ASSUME BuildInv, outcome # "thrown"
               PROVE  /\ {<<e.from, e.to, e.out, e.in, e.level>> : e \in edges}
                           = Connections(Populated)
                      /\ outcome = "built" => Populated = Instances(design)
    BY DEF EdgesAreTheConnections
  <2>1. GraphTypes /\ UnfoldInv /\ EdgeInv /\ WellFormed(design)
    BY DEF BuildInv, GraphTypes, DesignsAreWellFormed
  <2>2. outcome = "built" => todo = <<>>
    BY DEF BuildInv
  <2> QED
    BY <2>1, <2>2, EdgesConnect, AllAreUnfolded
<1> QED
  BY <1>1, GraphIsBuilt, PTL

(* A netlist that names all its bits is never refused, and none of its     *)
(* edges has to borrow a net: whichever nets overlap, create_instance      *)
(* finds one for each.                                                     *)
THEOREM NamedNetlistsAreBuilt ==
  ASSUME DesignsAreWellFormed
  PROVE  Spec => []NamedDesignsAreBuilt
<1>1. BuildInv => NamedDesignsAreBuilt
  <2> SUFFICES ASSUME BuildInv, WellNamed(design)
               PROVE  outcome # "thrown" /\ Unlabelled = {}
    BY DEF NamedDesignsAreBuilt
  <2>1. outcome # "thrown"
    BY DEF BuildInv
  <2>2. design \in Designs /\ WellFormed(design) /\ EdgeInv
    BY <2>1 DEF BuildInv, GraphTypes, DesignsAreWellFormed
  <2> QED
    BY <2>1, <2>2, UnlabelledFacts DEF NamesSuffice
<1> QED
  BY <1>1, GraphIsBuilt, PTL

-----------------------------------------------------------------------------
(* What has been exported is what the built graph says for every time step *)
(* so far.                                                                 *)
Exported ==
  /\ time \in Nat
  /\ time > 0 => outcome \in {"built", "refused"}
  /\ \A x \in reads : \E t \in 0 .. (time - 1) : x \in ReadsAt(t)
  /\ \A x \in drives : \E t \in 0 .. (time - 1) : x \in DrivesAt(t)
  /\ \A t \in 0 .. (time - 1) : ReadsAt(t) \subseteq reads /\ DrivesAt(t) \subseteq drives

LEMMA CellsStay ==
  ASSUME design' = design
  PROVE  /\ \A v : CellOf(v)' = CellOf(v)
         /\ \A v : IsRegister(v)' <=> IsRegister(v)
         /\ \A v : InsidePort(v)' = InsidePort(v)
         /\ \A v : OutsidePort(v)' = OutsidePort(v)
<1>1. \A level : ModuleAt(level)' = ModuleAt(level)
  BY DEF ModuleAt
<1>2. \A level, name : CellAt(level, name)' = CellAt(level, name)
  BY <1>1 DEF CellAt
<1>3. \A v : CellOf(v)' = CellOf(v)
  BY <1>2 DEF CellOf
<1>4. \A v : IsRegister(v)' <=> IsRegister(v)
  BY <1>3 DEF IsRegister
<1>5. \A v : InsidePort(v)' = InsidePort(v)
  BY <1>1 DEF InsidePort, Of
<1>6. \A v : OutsidePort(v)' = OutsidePort(v)
  BY <1>2 DEF OutsidePort, Of
<1> QED
  BY <1>3, <1>4, <1>5, <1>6

LEMMA EquationsStay ==
  ASSUME design' = design, vertices' = vertices, edges' = edges
  PROVE  \A t : ReadsAt(t)' = ReadsAt(t) /\ DrivesAt(t)' = DrivesAt(t)
<1>1. \A v : InEdges(v)' = InEdges(v) /\ OutEdges(v)' = OutEdges(v)
  BY DEF InEdges, OutEdges
<1>2. \A t : ExportedCells(t)' = ExportedCells(t)
  BY <1>1, CellsStay DEF ExportedCells
<1>3. ExportedPorts' = ExportedPorts
  <2>1. \A v : InsidePort(v)' = InsidePort(v)
    BY CellsStay
  <2> QED
    BY <1>1, <2>1 DEF ExportedPorts
<1>4. \A v, t : ReadTime(v, t)' = ReadTime(v, t)
  BY CellsStay DEF ReadTime
<1>5. \A t : CellReads(t)' = CellReads(t)
  BY <1>1, <1>2, <1>4, CellsStay DEF CellReads
<1>6. \A t : KeptReads(t)' = KeptReads(t)
  BY <1>1, <1>2, CellsStay DEF KeptReads
<1>7. \A t : CellDrives(t)' = CellDrives(t)
  BY <1>1, <1>2, CellsStay DEF CellDrives
<1>8. \A v, t : PortReads(v, t)' = PortReads(v, t)
  BY <1>1, CellsStay DEF PortReads
<1>9. \A v, t : PortDrives(v, t)' = PortDrives(v, t)
  BY <1>1, CellsStay DEF PortDrives
<1> QED
  BY <1>3, <1>5, <1>6, <1>7, <1>8, <1>9 DEF ReadsAt, DrivesAt

LEMMA ExportedIsKept ==
  ASSUME Exported, UNCHANGED <<design, vertices, edges, time, reads, drives>>,
         time > 0 => outcome' \in {"built", "refused"}
  PROVE  Exported'
<1>1. \A t : ReadsAt(t)' = ReadsAt(t) /\ DrivesAt(t)' = DrivesAt(t)
  BY EquationsStay
<1> QED
  BY <1>1 DEF Exported

(* The equations are those of the built graph, one copy per time step.     *)
THEOREM EquationsAreExported ==
  Spec => []Exported
<1>1. Init => Exported
  <2> SUFFICES ASSUME Init PROVE Exported
    OBVIOUS
  <2>1. time = 0 /\ reads = {} /\ drives = {}
    BY DEF Init
  <2> QED
    BY <2>1 DEF Exported
<1>2. Exported /\ [Next]_vars => Exported'
  <2> SUFFICES ASSUME Exported, [Next]_vars PROVE Exported'
    OBVIOUS
  <2>1. CASE Elaborate
    <3>1. outcome = "building" /\ UNCHANGED <<time, reads, drives>>
      BY <2>1 DEF Elaborate, GraphNext, Populate, Propagate, Finish
    <3>2. time = 0
      BY <3>1 DEF Exported
    <3>3. reads = {} /\ drives = {}
      BY <3>2 DEF Exported
    <3>4. time' = 0 /\ reads' = {} /\ drives' = {}
      BY <3>1, <3>2, <3>3
    <3> QED
      BY <3>4 DEF Exported
  <2>2. CASE Export
    <3>1. /\ outcome = "built" /\ reads' = reads \cup ReadsAt(time)
          /\ drives' = drives \cup DrivesAt(time) /\ time' = time + 1
          /\ design' = design /\ vertices' = vertices /\ edges' = edges /\ outcome' = outcome
      BY <2>2 DEF Export, graphVars
    <3>2. \A t : ReadsAt(t)' = ReadsAt(t) /\ DrivesAt(t)' = DrivesAt(t)
      BY <3>1, EquationsStay
    <3>3. time \in Nat /\ time' \in Nat /\ 0 .. (time' - 1) = (0 .. (time - 1)) \cup {time}
      BY <3>1 DEF Exported
    <3>4. \A x \in reads' : \E t \in 0 .. (time' - 1) : x \in ReadsAt(t)'
      BY <3>1, <3>2, <3>3 DEF Exported
    <3>5. \A x \in drives' : \E t \in 0 .. (time' - 1) : x \in DrivesAt(t)'
      BY <3>1, <3>2, <3>3 DEF Exported
    <3>6. \A t \in 0 .. (time' - 1) : ReadsAt(t)' \subseteq reads' /\ DrivesAt(t)' \subseteq drives'
      BY <3>1, <3>2, <3>3 DEF Exported
    <3>7. time' > 0 => outcome' \in {"built", "refused"}
      BY <3>1
    <3> QED
      BY <3>3, <3>4, <3>5, <3>6, <3>7 DEF Exported
  <2>3. CASE Refuse
    <3>1. outcome' = "refused" /\ UNCHANGED <<design, vertices, edges, time, reads, drives>>
      BY <2>3 DEF Refuse
    <3> QED
      BY <3>1, ExportedIsKept
  <2>4. CASE UNCHANGED vars
    <3>1. outcome' = outcome /\ UNCHANGED <<design, vertices, edges, time, reads, drives>>
      BY <2>4 DEF vars, graphVars
    <3> QED
      BY <3>1, ExportedIsKept DEF Exported
  <2> QED
    BY <2>1, <2>2, <2>3, <2>4 DEF Next
<1> QED
  BY <1>1, <1>2, PTL DEF Spec

-----------------------------------------------------------------------------
(* What the lookups by name find                                           *)
LEMMA FrontLast ==
  ASSUME NEW S, NEW s \in Seq(S), NEW x
  PROVE  Front(Append(s, x)) = s /\ Last(Append(s, x)) = x
<1> DEFINE T == S \cup {x}
<1>1. s \in Seq(T) /\ x \in T
  BY SeqWidens
<1> HIDE DEF T
<1>2. /\ Append(s, x) \in Seq(T) /\ Len(Append(s, x)) = Len(s) + 1 /\ Len(s) \in Nat
      /\ Append(s, x)[Len(s) + 1] = x
      /\ \A k \in 1 .. Len(s) : Append(s, x)[k] = s[k]
  BY <1>1
<1>3. Last(Append(s, x)) = x
  BY <1>2 DEF Last
<1>4. Front(Append(s, x)) = SubSeq(Append(s, x), 1, Len(s))
  BY <1>2 DEF Front
<1>5. SubSeq(Append(s, x), 1, Len(s)) = s
  BY <1>1, <1>2
<1> QED
  BY <1>3, <1>4, <1>5

LEMMA OfKeyed ==
  ASSUME NEW S, NEW s \in Seq(S), Keyed(s), NEW x \in Range(s)
  PROVE  (CHOOSE y \in Range(s) : y.name = x.name) = x
<1>1. \A y \in Range(s) : y.name = x.name => y = x
  BY KeyedFacts
<1> QED
  BY <1>1

LEMMA Lookups ==
  ASSUME design \in Designs, WellFormed(design), NEW i \in Instances(design)
  PROVE  /\ ModuleAt(i.level) = ModuleOf(i)
         /\ \A c \in Range(ModuleOf(i).cells) : CellAt(i.level, c.name) = c
         /\ \A c \in Range(ModuleOf(i).cells) : CellOf(CellVertex(i.level, c)) = c
         /\ \A p \in Range(ModuleOf(i).ports) : InsidePort(PortVertex(i.level, p.name)) = p
<1>1. \A j \in Instances(design) : j.level = i.level => j = i
  BY InstanceFacts
<1>2. (CHOOSE j \in Instances(design) : j.level = i.level) = i
  BY <1>1
<1>3. ModuleAt(i.level) = ModuleOf(i)
  BY <1>2 DEF ModuleAt, ModuleOf
<1>4. /\ ModuleOf(i).cells \in Seq(CellType) /\ Keyed(ModuleOf(i).cells)
      /\ ModuleOf(i).ports \in Seq(PortType) /\ Keyed(ModuleOf(i).ports)
  BY ModuleFacts
<1>5. \A c \in Range(ModuleOf(i).cells) : CellAt(i.level, c.name) = c
  BY <1>3, <1>4, OfKeyed DEF CellAt
<1>6. \A c \in Range(ModuleOf(i).cells) : CellOf(CellVertex(i.level, c)) = c
  BY <1>5, CellVertexFields DEF CellOf
<1>7. \A p \in Range(ModuleOf(i).ports) : InsidePort(PortVertex(i.level, p.name)) = p
  <2> TAKE p \in Range(ModuleOf(i).ports)
  <2>1. /\ PortVertex(i.level, p.name).at = i.level
        /\ PortVertex(i.level, p.name).port = p.name
    BY PortVertexFields
  <2>2. InsidePort(PortVertex(i.level, p.name)) = Of(Range(ModuleOf(i).ports), p.name)
    BY <1>3, <2>1 DEF InsidePort
  <2> QED
    BY <1>4, <2>2, OfKeyed DEF Of
<1> QED
  BY <1>3, <1>5, <1>6, <1>7

(* A module cell, the instance it is and the two sides of their ports      *)
LEMMA ChildPorts ==
  ASSUME design \in Designs, WellFormed(design), NEW i \in Instances(design),
         NEW c \in Range(ModuleOf(i).cells), IsModule(design, c)
  PROVE  /\ Child(i, c) \in Instances(design)
         /\ Child(i, c).level = Append(i.level, c.name)
         /\ Front(Child(i, c).level) = i.level
         /\ Len(Child(i, c).level) > 1
         /\ \A q \in Range(c.ports) : OutsidePort(PortVertex(Child(i, c).level, q.name)) = q
         /\ \A q \in Range(c.ports) : \E p \in Range(ModuleOf(Child(i, c)).ports) :
              p.name = q.name /\ p.dir = q.dir
         /\ \A p \in Range(ModuleOf(Child(i, c)).ports) : \E q \in Range(c.ports) :
              p.name = q.name /\ p.dir = q.dir
<1>1. c \in CellsOf(design, i) /\ i \in InstanceType(design)
  BY InstanceFacts DEF CellsOf, ModuleOf
<1>2. Child(i, c) \in Children(design, i)
  BY <1>1 DEF Children
<1>3. Child(i, c) \in Instances(design)
  BY <1>2, InstanceFacts
<1>4. Child(i, c).level = Append(i.level, c.name) /\ Child(i, c).type = c.type
  BY DEF Child
<1>5. i.level \in Seq(STRING) /\ i.level # <<>> /\ c \in CellType /\ Keyed(c.ports)
  BY ModuleFacts
<1>6. c.name \in STRING /\ c.ports \in Seq(PortType)
  BY <1>5 DEF CellType
<1>7. Front(Child(i, c).level) = i.level /\ Last(Child(i, c).level) = c.name
  BY <1>4, <1>5, FrontLast
<1>8. Len(Child(i, c).level) > 1
  <2>1. Len(Child(i, c).level) = Len(i.level) + 1
    BY <1>4, <1>5, <1>6
  <2>2. Len(i.level) \in Nat /\ Len(i.level) # 0
    BY <1>5
  <2> QED
    BY <2>1, <2>2
<1>9. \A q \in Range(c.ports) : OutsidePort(PortVertex(Child(i, c).level, q.name)) = q
  <2> TAKE q \in Range(c.ports)
  <2> DEFINE v == PortVertex(Child(i, c).level, q.name)
  <2>1. v.at = Child(i, c).level /\ v.port = q.name
    BY PortVertexFields
  <2> HIDE DEF v
  <2>2. CellAt(Front(v.at), Last(v.at)) = c
    BY <1>7, <2>1, Lookups
  <2>3. OutsidePort(v) = Of(Range(c.ports), q.name)
    BY <2>1, <2>2 DEF OutsidePort
  <2>4. OutsidePort(v) = q
    BY <1>5, <1>6, <2>3, OfKeyed DEF Of
  <2> QED
    BY <2>4 DEF v
<1>10. Interface(c.ports) = Interface(ModuleOf(Child(i, c)).ports)
  BY <1>4 DEF WellFormed, ModuleOf
<1>11. \A q \in Range(c.ports) : \E p \in Range(ModuleOf(Child(i, c)).ports) :
         p.name = q.name /\ p.dir = q.dir
  <2> TAKE q \in Range(c.ports)
  <2>1. <<q.name, q.dir>> \in Interface(ModuleOf(Child(i, c)).ports)
    BY <1>10 DEF Interface
  <2> QED
    BY <2>1 DEF Interface
<1>12. \A p \in Range(ModuleOf(Child(i, c)).ports) : \E q \in Range(c.ports) :
         p.name = q.name /\ p.dir = q.dir
  <2> TAKE p \in Range(ModuleOf(Child(i, c)).ports)
  <2>1. <<p.name, p.dir>> \in Interface(c.ports)
    BY <1>10 DEF Interface
  <2> QED
    BY <2>1 DEF Interface
<1> QED
  BY <1>3, <1>4, <1>7, <1>8, <1>9, <1>11, <1>12

LEMMA RootOrChild ==
  ASSUME design \in Designs, WellFormed(design), NEW j \in Instances(design)
  PROVE  /\ j = RootOf(design) => Len(j.level) = 1
         /\ j # RootOf(design) => \E i \in Instances(design) : \E c \in Range(ModuleOf(i).cells) :
                                    IsModule(design, c) /\ Child(i, c) = j
<1>1. j = RootOf(design) => Len(j.level) = 1
  BY DEF RootOf
<1>2. ASSUME j # RootOf(design)
      PROVE  \E i \in Instances(design) : \E c \in Range(ModuleOf(i).cells) :
               IsModule(design, c) /\ Child(i, c) = j
  <2>1. PICK i \in Instances(design) : j \in Children(design, i)
    BY <1>2, InstanceFacts
  <2> QED
    BY <2>1 DEF Children, CellsOf, ModuleOf
<1> QED
  BY <1>1, <1>2

-----------------------------------------------------------------------------
(* Where the ends are in the finished graph                                *)
Home(e) == EndIn(Instances(design), e)

LEMMA HomeInside ==
  ASSUME NEW i, NEW e, NEW p, OfModule(i, e, p), p.name # ""
  PROVE  Home(e) = PortVertex(i.level, p.name)
<1>1. e = End(PortVertex(i.level, p.name), p)
  BY DEF OfModule
<1>2. e.vertex = PortVertex(i.level, p.name)
  BY <1>1, EndFields
<1>3. PortVertex(i.level, p.name).port = p.name
  BY PortVertexFields
<1>4. e.vertex.port # ""
  BY <1>2, <1>3
<1> QED
  BY <1>2, <1>4 DEF Home, EndIn

LEMMA HomeOfCell ==
  ASSUME design \in Designs, WellFormed(design), NEW i \in Instances(design),
         NEW e, NEW c, NEW p, OfCell(i, e, c, p), ~IsModule(design, c)
  PROVE  Home(e) = CellVertex(i.level, c)
<1>1. e = End(CellVertex(i.level, c), p) /\ c \in Range(ModuleOf(i).cells)
  BY DEF OfCell
<1>2. e.vertex = CellVertex(i.level, c)
  BY <1>1, EndFields
<1>3. ASSUME NEW j \in Instances(design), j.level = Inside(e.vertex)
      PROVE  FALSE
  <2>1. j.level = Append(i.level, c.name)
    BY <1>2, <1>3, CellVertexInside
  <2>2. PICK b \in Range(ModuleOf(i).cells) :
          IsModule(design, b) /\ b.name = c.name /\ Child(i, b) = j
    BY <2>1, ChildByLevel
  <2>3. ModuleOf(i).cells \in Seq(CellType) /\ Keyed(ModuleOf(i).cells)
    BY ModuleFacts
  <2>4. b = c
    BY <1>1, <2>2, <2>3, KeyedFacts
  <2> QED
    BY <2>2, <2>4
<1> QED
  BY <1>2, <1>3 DEF Home, EndIn

LEMMA HomeOutside ==
  ASSUME design \in Designs, WellFormed(design), NEW i \in Instances(design),
         NEW e, NEW c, NEW p, OfCell(i, e, c, p), IsModule(design, c)
  PROVE  Home(e) = PortVertex(Child(i, c).level, p.name)
<1>1. e = End(CellVertex(i.level, c), p) /\ c \in Range(ModuleOf(i).cells)
  BY DEF OfCell
<1>2. e.vertex = CellVertex(i.level, c) /\ e.port = p.name
  BY <1>1, EndFields
<1>3. e.vertex.port = "" /\ Inside(e.vertex) = Append(i.level, c.name)
  <2>1. CellVertex(i.level, c).port = ""
    BY CellVertexFields
  <2>2. Inside(CellVertex(i.level, c)) = Append(i.level, c.name)
    BY CellVertexInside
  <2> QED
    BY <1>2, <2>1, <2>2
<1>4. Child(i, c) \in Instances(design) /\ Child(i, c).level = Append(i.level, c.name)
  BY <1>1, ChildPorts
<1>5. Home(e) = PortVertex(Inside(e.vertex), e.port)
  BY <1>3, <1>4 DEF Home, EndIn
<1> QED
  BY <1>2, <1>3, <1>4, <1>5

(* The ends of an instance that take part in its connections on one side:  *)
(* ports of the module with direction ofModule, of cells with ofCells.     *)
EndOf(i, e, ofModule, ofCells) ==
  \/ \E p : OfModule(i, e, p) /\ p.dir = ofModule
  \/ \E c, p : OfCell(i, e, c, p) /\ p.dir = ofCells

LEMMA ModulePortsNamed ==
  ASSUME design \in Designs, WellFormed(design), NEW i \in Instances(design),
         NEW e, NEW p, OfModule(i, e, p)
  PROVE  /\ p \in Range(ModuleOf(i).ports)
         /\ Home(e) = PortVertex(i.level, p.name)
         /\ Home(e).at = i.level /\ Home(e).port = p.name /\ p.name # ""
<1>1. p \in Range(ModuleOf(i).ports)
  BY DEF OfModule
<1>2. p.name # ""
  BY <1>1, ModuleFacts
<1>3. Home(e) = PortVertex(i.level, p.name)
  BY <1>2, HomeInside
<1>4. PortVertex(i.level, p.name).at = i.level
  BY PortVertexFields
<1>5. PortVertex(i.level, p.name).port = p.name
  BY PortVertexFields
<1> QED
  BY <1>1, <1>2, <1>3, <1>4, <1>5

LEMMA CellPortsNamed ==
  ASSUME design \in Designs, WellFormed(design), NEW i \in Instances(design),
         NEW e, NEW c, NEW p, OfCell(i, e, c, p)
  PROVE  /\ c \in Range(ModuleOf(i).cells) /\ p \in Range(c.ports)
         /\ c.name \in STRING /\ i.level \in Seq(STRING) /\ p.name # ""
         /\ ~IsModule(design, c) => Home(e).at = i.level /\ Home(e).port = ""
         /\ IsModule(design, c) => Home(e).at = Child(i, c).level /\ Home(e).port = p.name
<1>1. c \in Range(ModuleOf(i).cells) /\ p \in Range(c.ports)
  BY DEF OfCell
<1>2. i.level \in Seq(STRING) /\ c \in CellType /\ Keyed(c.ports)
  BY <1>1, ModuleFacts
<1>3. c.name \in STRING /\ p.name # ""
  BY <1>1, <1>2 DEF CellType, Keyed
<1>4. ASSUME ~IsModule(design, c)
      PROVE  Home(e).at = i.level /\ Home(e).port = ""
  <2>1. Home(e) = CellVertex(i.level, c)
    BY <1>4, HomeOfCell
  <2>2. CellVertex(i.level, c).at = i.level
    BY CellVertexFields
  <2>3. CellVertex(i.level, c).port = ""
    BY CellVertexFields
  <2> QED
    BY <2>1, <2>2, <2>3
<1>5. ASSUME IsModule(design, c)
      PROVE  Home(e).at = Child(i, c).level /\ Home(e).port = p.name
  <2>1. Home(e) = PortVertex(Child(i, c).level, p.name)
    BY <1>5, HomeOutside
  <2>2. PortVertex(Child(i, c).level, p.name).at = Child(i, c).level
    BY PortVertexFields
  <2>3. PortVertex(Child(i, c).level, p.name).port = p.name
    BY PortVertexFields
  <2> QED
    BY <2>1, <2>2, <2>3
<1> QED
  BY <1>1, <1>2, <1>3, <1>4, <1>5

(* A port of an instance and the same port of the cell it is are not on    *)
(* the same side: one drives what the other reads.                         *)
LEMMA SidesDiffer ==
  ASSUME design \in Designs, WellFormed(design),
         NEW i \in Instances(design), NEW j \in Instances(design), NEW e, NEW f,
         NEW p, OfModule(i, e, p), NEW c, NEW q, OfCell(j, f, c, q),
         p.dir # q.dir, Home(e) = Home(f)
  PROVE  FALSE
<1>1. /\ p \in Range(ModuleOf(i).ports)
      /\ Home(e).at = i.level /\ Home(e).port = p.name /\ p.name # ""
  BY ModulePortsNamed
<1>2. c \in Range(ModuleOf(j).cells) /\ q \in Range(c.ports)
  BY CellPortsNamed
<1>3. IsModule(design, c)
  BY <1>1, CellPortsNamed
<1>4. Child(j, c).level = i.level /\ q.name = p.name
  <2>1. Home(f).at = Child(j, c).level
    BY <1>3, CellPortsNamed
  <2>2. Home(f).port = q.name
    BY <1>3, CellPortsNamed
  <2> QED
    BY <1>1, <2>1, <2>2
<1>5. Child(j, c) = i
  <2>1. Child(j, c) \in Instances(design)
    BY <1>2, <1>3, ChildPorts
  <2> QED
    BY <1>4, <2>1, InstanceFacts
<1>6. PICK b \in Range(ModuleOf(Child(j, c)).ports) : b.name = q.name /\ b.dir = q.dir
  BY <1>2, <1>3, ChildPorts
<1>7. ModuleOf(i).ports \in Seq(PortType) /\ Keyed(ModuleOf(i).ports)
  BY ModuleFacts
<1>8. b = p
  BY <1>1, <1>4, <1>5, <1>6, <1>7, KeyedFacts
<1> QED
  BY <1>6, <1>8

(* Ends on the same side that are in one place in the graph are ends of    *)
(* one instance.                                                           *)
LEMMA SameHome ==
  ASSUME design \in Designs, WellFormed(design),
         NEW i \in Instances(design), NEW j \in Instances(design), NEW e, NEW f,
         NEW ofModule, NEW ofCells, ofModule # ofCells,
         EndOf(i, e, ofModule, ofCells), EndOf(j, f, ofModule, ofCells), Home(e) = Home(f)
  PROVE  i = j
<1>1. \A k, l \in Instances(design) : k.level = l.level => k = l
  BY InstanceFacts
<1>2. ASSUME NEW p, OfModule(i, e, p), p.dir = ofModule
      PROVE  i = j
  <2>1. Home(e).at = i.level
    BY <1>2, ModulePortsNamed
  <2>2. ASSUME NEW q, OfModule(j, f, q)
        PROVE  i = j
    <3>1. Home(f).at = j.level
      BY <2>2, ModulePortsNamed
    <3> QED
      BY <1>1, <2>1, <3>1
  <2>3. ASSUME NEW c, NEW q, OfCell(j, f, c, q), q.dir = ofCells
        PROVE  FALSE
    BY <1>2, <2>3, SidesDiffer
  <2> QED
    BY <2>2, <2>3 DEF EndOf
<1>3. ASSUME NEW c, NEW p, OfCell(i, e, c, p), p.dir = ofCells
      PROVE  i = j
  <2>1. ASSUME NEW q, OfModule(j, f, q), q.dir = ofModule
        PROVE  FALSE
    BY <1>3, <2>1, SidesDiffer
  <2>2. ASSUME NEW b, NEW q, OfCell(j, f, b, q)
        PROVE  i = j
    <3>1. p.name # "" /\ i.level \in Seq(STRING)
      BY <1>3, CellPortsNamed
    <3>2. q.name # "" /\ j.level \in Seq(STRING)
      BY <2>2, CellPortsNamed
    <3>3. CASE IsModule(design, c)
      <4>1. Home(e).at = Child(i, c).level /\ Home(e).port # ""
        BY <1>3, <3>1, <3>3, CellPortsNamed
      <4>2. IsModule(design, b)
        <5>1. ~IsModule(design, b) => Home(f).port = ""
          BY <2>2, CellPortsNamed
        <5> QED
          BY <4>1, <5>1
      <4>3. Home(f).at = Child(j, b).level
        BY <2>2, <4>2, CellPortsNamed
      <4>4. Append(i.level, c.name) = Append(j.level, b.name)
        BY <4>1, <4>3 DEF Child
      <4>5. i.level = j.level
        <5>1. i.level \in Seq(STRING) /\ j.level \in Seq(STRING)
          BY <3>1, <3>2
        <5> HIDE <1>3, <2>2
        <5> QED
          BY <4>4, <5>1, AppendEqual
      <4> QED
        BY <1>1, <4>5
    <3>4. CASE ~IsModule(design, c)
      <4>1. Home(e).at = i.level /\ Home(e).port = ""
        BY <1>3, <3>4, CellPortsNamed
      <4>2. ~IsModule(design, b)
        BY <2>2, <3>2, <4>1, CellPortsNamed
      <4>3. Home(f).at = j.level
        BY <2>2, <4>2, CellPortsNamed
      <4> QED
        BY <1>1, <4>1, <4>3
    <3> QED
      BY <3>3, <3>4
  <2> QED
    BY <2>1, <2>2 DEF EndOf
<1> QED
  BY <1>2, <1>3 DEF EndOf

(* And if they are of one port, they are one end.                          *)
LEMMA SameEnd ==
  ASSUME design \in Designs, WellFormed(design), NEW i \in Instances(design), NEW e, NEW f,
         NEW ofModule, NEW ofCells, ofModule # ofCells,
         EndOf(i, e, ofModule, ofCells), EndOf(i, f, ofModule, ofCells),
         Home(e) = Home(f), e.port = f.port
  PROVE  e = f
<1>1. ASSUME NEW p, OfModule(i, e, p), p.dir = ofModule
      PROVE  e = f
  <2>1. Home(e).port = p.name /\ p \in Range(ModuleOf(i).ports)
    BY <1>1, ModulePortsNamed
  <2>2. ASSUME NEW q, OfModule(i, f, q)
        PROVE  e = f
    <3>1. Home(f).port = q.name /\ q \in Range(ModuleOf(i).ports)
      BY <2>2, ModulePortsNamed
    <3>2. ModuleOf(i).ports \in Seq(PortType) /\ Keyed(ModuleOf(i).ports)
      BY ModuleFacts
    <3>3. p.name = q.name
      BY <2>1, <3>1
    <3>4. p = q
      BY <2>1, <3>1, <3>2, <3>3, KeyedFacts
    <3> QED
      BY <1>1, <2>2, <3>4 DEF OfModule
  <2>3. ASSUME NEW c, NEW q, OfCell(i, f, c, q), q.dir = ofCells
        PROVE  FALSE
    BY <1>1, <2>3, SidesDiffer
  <2> QED
    BY <2>2, <2>3 DEF EndOf
<1>2. ASSUME NEW c, NEW p, OfCell(i, e, c, p), p.dir = ofCells
      PROVE  e = f
  <2>1. ASSUME NEW q, OfModule(i, f, q), q.dir = ofModule
        PROVE  FALSE
    BY <1>2, <2>1, SidesDiffer
  <2>2. ASSUME NEW b, NEW q, OfCell(i, f, b, q)
        PROVE  e = f
    <3>1. c \in Range(ModuleOf(i).cells) /\ p \in Range(c.ports) /\ p.name # ""
      BY <1>2, CellPortsNamed
    <3>2. b \in Range(ModuleOf(i).cells) /\ q \in Range(b.ports) /\ q.name # ""
      BY <2>2, CellPortsNamed
    <3>3. ASSUME IsModule(design, c) PROVE c.name = b.name
      <4>1. Home(e).at = Child(i, c).level /\ Home(e).port # ""
        BY <1>2, <3>1, <3>3, CellPortsNamed
      <4>2. IsModule(design, b)
        <5>1. ~IsModule(design, b) => Home(f).port = ""
          BY <2>2, CellPortsNamed
        <5> QED
          BY <4>1, <5>1
      <4>3. Home(f).at = Child(i, b).level
        BY <2>2, <4>2, CellPortsNamed
      <4>4. Child(i, c).level = Child(i, b).level
        BY <4>1, <4>3
      <4>5. Append(i.level, c.name) = Append(i.level, b.name)
        BY <4>4 DEF Child
      <4>6. i.level \in Seq(STRING)
        BY ModuleFacts
      <4>7. c.name = b.name
        <5> HIDE <1>2, <2>2
        <5> QED
          BY <4>5, <4>6, AppendedEqual
      <4> QED
        BY <4>7
    <3>4. ASSUME ~IsModule(design, c) PROVE c.name = b.name
      <4>1. Home(e) = CellVertex(i.level, c)
        BY <1>2, <3>4, HomeOfCell
      <4>2. Home(e).port = ""
        BY <1>2, <3>4, CellPortsNamed
      <4>3. ~IsModule(design, b)
        BY <2>2, <3>2, <4>2, CellPortsNamed
      <4>4. Home(f) = CellVertex(i.level, b)
        BY <2>2, <4>3, HomeOfCell
      <4>5. \A x : CellVertex(i.level, x).cell = x.name
        BY CellVertexFields
      <4> QED
        BY <4>1, <4>4, <4>5
    <3>5. c.name = b.name
      BY <3>3, <3>4
    <3>6. /\ ModuleOf(i).cells \in Seq(CellType) /\ Keyed(ModuleOf(i).cells)
          /\ c \in CellType /\ Keyed(c.ports)
      BY <3>1, ModuleFacts
    <3>7. b = c
      BY <3>1, <3>2, <3>5, <3>6, KeyedFacts
    <3>8. e.port = p.name /\ f.port = q.name
      BY <1>2, <2>2, EndFields DEF OfCell
    <3>9. c.ports \in Seq(PortType)
      BY <3>6 DEF CellType
    <3>10. p = q
      BY <3>1, <3>2, <3>6, <3>7, <3>8, <3>9, KeyedFacts
    <3> QED
      BY <1>2, <2>2, <3>7, <3>10 DEF OfCell
  <2> QED
    BY <2>1, <2>2 DEF EndOf
<1> QED
  BY <1>1, <1>2 DEF EndOf

LEMMA SameDriver ==
  ASSUME design \in Designs, WellFormed(design),
         NEW i \in Instances(design), NEW j \in Instances(design),
         NEW d \in DriversOf(i), NEW f \in DriversOf(j), Home(d) = Home(f)
  PROVE  i = j
<1>1. EndOf(i, d, "input", "output")
  BY EndFacts DEF EndOf
<1>2. EndOf(j, f, "input", "output")
  BY EndFacts DEF EndOf
<1> QED
  BY <1>1, <1>2, SameHome

LEMMA SameReader ==
  ASSUME design \in Designs, WellFormed(design),
         NEW i \in Instances(design), NEW j \in Instances(design),
         NEW r \in ReadersOf(i), NEW f \in ReadersOf(j), Home(r) = Home(f)
  PROVE  i = j
<1>1. EndOf(i, r, "output", "input")
  BY EndFacts DEF EndOf
<1>2. EndOf(j, f, "output", "input")
  BY EndFacts DEF EndOf
<1> QED
  BY <1>1, <1>2, SameHome

-----------------------------------------------------------------------------
(* The graph when it is built                                              *)
IsConnection(e, i, d, r) ==
  /\ Connected(d, r)
  /\ e.from = Home(d) /\ e.to = Home(r) /\ e.level = i.level
  /\ NamesSuffice => Labelled(ModuleOf(i).nets, d, r, e.net)

Built ==
  /\ design \in Designs /\ WellFormed(design)
  /\ \A e \in edges : \E i \in Instances(design) : \E d \in DriversOf(i), r \in ReadersOf(i) :
       IsConnection(e, i, d, r)
  /\ \A i \in Instances(design) : \A d \in DriversOf(i), r \in ReadersOf(i) :
       Connected(d, r) => \E e \in edges : IsConnection(e, i, d, r)
  /\ \A i \in Instances(design) : Lasting(i) \subseteq vertices
  /\ \A v \in vertices : \/ v.at = <<>> /\ v.port = ""
                         \/ \E i \in Instances(design) : v \in PortVertices(i) \cup CellVertices(i)

LEMMA WhenBuilt ==
  ASSUME DesignsAreWellFormed, BuildInv, outcome \in {"built", "refused"}
  PROVE  Built
<1>1. /\ GraphTypes /\ design \in Designs /\ WellFormed(design) /\ todo = <<>>
      /\ UnfoldInv /\ EdgeInv
  BY DEF BuildInv, GraphTypes, DesignsAreWellFormed
<1>2. Populated = Instances(design)
  BY <1>1, AllAreUnfolded
<1>3. ASSUME NEW e \in edges
      PROVE  \E i \in Instances(design) : \E d \in DriversOf(i), r \in ReadersOf(i) :
               IsConnection(e, i, d, r) /\ e.out = d.port /\ e.in = r.port
  BY <1>1, <1>2 DEF EdgeInv, IsEdgeOf, IsConnection, Home
<1>4. ASSUME NEW i \in Instances(design), NEW d \in DriversOf(i), NEW r \in ReadersOf(i),
             Connected(d, r)
      PROVE  \E e \in edges : IsConnection(e, i, d, r)
  <2>1. PICK e \in edges : IsEdgeOf(Instances(design), e, i, d, r)
    BY <1>1, <1>2, <1>4 DEF EdgeInv
  <2>2. e.from = Home(d) /\ e.to = Home(r) /\ e.out = d.port /\ e.in = r.port
    BY <2>1 DEF IsEdgeOf, Home
  <2>3. PICK j \in Instances(design) : \E f \in DriversOf(j), s \in ReadersOf(j) :
          IsConnection(e, j, f, s) /\ e.out = f.port /\ e.in = s.port
    BY <1>3
  <2>4. PICK f \in DriversOf(j), s \in ReadersOf(j) :
          IsConnection(e, j, f, s) /\ e.out = f.port /\ e.in = s.port
    BY <2>3
  <2>5. Home(f) = Home(d) /\ Home(s) = Home(r) /\ f.port = d.port /\ s.port = r.port
    BY <2>2, <2>4 DEF IsConnection
  <2>6. i = j
    BY <1>1, <2>5, SameDriver
  <2>7. f = d
    <3>1. EndOf(i, d, "input", "output") /\ EndOf(i, f, "input", "output")
      BY <1>1, <2>6, EndFacts DEF EndOf
    <3> QED
      BY <1>1, <2>5, <3>1, SameEnd
  <2>8. s = r
    <3>1. EndOf(i, r, "output", "input") /\ EndOf(i, s, "output", "input")
      BY <1>1, <2>6, EndFacts DEF EndOf
    <3> QED
      BY <1>1, <2>5, <3>1, SameEnd
  <2> QED
    BY <2>4, <2>6, <2>7, <2>8
<1> QED
  BY <1>1, <1>2, <1>3, <1>4 DEF Built, UnfoldInv

(* An edge out of the place of a driver is a connection of the driver's    *)
(* instance, and likewise for readers.                                     *)
LEMMA EdgeOut ==
  ASSUME Built, NEW i \in Instances(design), NEW d \in DriversOf(i),
         NEW e \in OutEdges(Home(d))
  PROVE  /\ e \in edges /\ e.level = i.level
         /\ \E f \in DriversOf(i), r \in ReadersOf(i) : IsConnection(e, i, f, r) /\ Home(f) = Home(d)
<1>1. e \in edges /\ e.from = Home(d)
  BY DEF OutEdges
<1>2. PICK j \in Instances(design) : \E f \in DriversOf(j), r \in ReadersOf(j) : IsConnection(e, j, f, r)
  BY <1>1 DEF Built
<1>3. PICK f \in DriversOf(j), r \in ReadersOf(j) : IsConnection(e, j, f, r)
  BY <1>2
<1>4. Home(f) = Home(d) /\ e.level = j.level
  BY <1>1, <1>3 DEF IsConnection
<1>5. i = j
  BY <1>4, SameDriver DEF Built
<1> QED
  BY <1>1, <1>3, <1>4, <1>5

LEMMA EdgeIn ==
  ASSUME Built, NEW i \in Instances(design), NEW r \in ReadersOf(i),
         NEW e \in InEdges(Home(r))
  PROVE  /\ e \in edges /\ e.level = i.level
         /\ \E d \in DriversOf(i), f \in ReadersOf(i) : IsConnection(e, i, d, f) /\ Home(f) = Home(r)
<1>1. e \in edges /\ e.to = Home(r)
  BY DEF InEdges
<1>2. PICK j \in Instances(design) : \E d \in DriversOf(j), f \in ReadersOf(j) : IsConnection(e, j, d, f)
  BY <1>1 DEF Built
<1>3. PICK d \in DriversOf(j), f \in ReadersOf(j) : IsConnection(e, j, d, f)
  BY <1>2
<1>4. Home(f) = Home(r) /\ e.level = j.level
  BY <1>1, <1>3 DEF IsConnection
<1>5. i = j
  BY <1>4, SameReader DEF Built
<1> QED
  BY <1>1, <1>3, <1>4, <1>5

(* The net of an edge is the first with just its bits.                     *)
LEMMA FirstOfItsBits ==
  ASSUME NEW nets \in Seq(NetType), NEW d, NEW r, NEW net, Labelled(nets, d, r, net)
  PROVE  /\ net \in Range(nets)
         /\ net = FirstOf(nets, Exact(nets, net.bits))
<1>1. \A bits : Exact(nets, bits) \in SUBSET DOMAIN nets
  BY DEF Exact
<1>2. ASSUME NEW bits, Exact(nets, bits) # {}
      PROVE  FirstOf(nets, Exact(nets, bits)) \in Range(nets)
             /\ FirstOf(nets, Exact(nets, bits)).bits = bits
  <2>1. /\ Min(Exact(nets, bits)) \in Exact(nets, bits)
        /\ FirstOf(nets, Exact(nets, bits)) = nets[Min(Exact(nets, bits))]
    BY <1>1, <1>2, FirstIsThere
  <2>2. Min(Exact(nets, bits)) \in DOMAIN nets /\ nets[Min(Exact(nets, bits))].bits = bits
    BY <2>1 DEF Exact
  <2> QED
    BY <2>1, <2>2, RangeFacts
<1>3. CASE Exact(nets, d.bits) # {}
  BY <1>2, <1>3 DEF Labelled
<1>4. CASE Exact(nets, d.bits) = {} /\ Exact(nets, r.bits) # {}
  BY <1>2, <1>4 DEF Labelled
<1>5. CASE Exact(nets, d.bits) = {} /\ Exact(nets, r.bits) = {}
  <2>1. net \in Representatives(nets)
    BY <1>5 DEF Labelled
  <2>2. PICK k \in DOMAIN nets : net = nets[k] /\ \A l \in 1 .. (k - 1) : nets[l].bits # nets[k].bits
    BY <2>1 DEF Representatives
  <2>3. k \in Exact(nets, net.bits)
    BY <2>2 DEF Exact
  <2>4. /\ Min(Exact(nets, net.bits)) \in Exact(nets, net.bits)
        /\ FirstOf(nets, Exact(nets, net.bits)) = nets[Min(Exact(nets, net.bits))]
        /\ \A l \in Exact(nets, net.bits) : Min(Exact(nets, net.bits)) <= l
    <3>1. Exact(nets, net.bits) \in SUBSET Nat
      BY <1>1, RangeFacts
    <3> QED
      BY <1>1, <2>3, <3>1, FirstIsThere, LeastPlace
  <2>5. Min(Exact(nets, net.bits)) = k
    <3> DEFINE l == Min(Exact(nets, net.bits))
    <3>1. l \in DOMAIN nets /\ nets[l].bits = net.bits /\ l <= k
      BY <2>3, <2>4 DEF Exact
    <3> HIDE DEF l
    <3>2. l \in Nat /\ l >= 1 /\ k \in Nat
      BY <3>1, RangeFacts
    <3>3. l = k
      BY <2>2, <3>1, <3>2
    <3> QED
      BY <3>3 DEF l
  <2>6. net \in Range(nets)
    BY <2>2, RangeFacts
  <2> QED
    BY <1>5, <2>2, <2>4, <2>5, <2>6
<1> QED
  BY <1>3, <1>4, <1>5

(* What the fields of an expression are                                    *)
LEMMA ExpressionFields ==
  /\ \A v, port, level, bits, t, expr : Expression(v, port, level, bits, t, expr).vertex = v
  /\ \A v, port, level, bits, t, expr : Expression(v, port, level, bits, t, expr).level = level
  /\ \A v, port, level, bits, t, expr : Expression(v, port, level, bits, t, expr).bits = bits
  /\ \A v, port, level, bits, t, expr : Expression(v, port, level, bits, t, expr).at = t
  /\ \A v, port, level, bits, t, expr : Expression(v, port, level, bits, t, expr).expr = expr
BY DEF Expression

LEMMA PlaceFacts ==
  ASSUME NEW bits \in Seq(Nat), NEW bit \in Range(bits)
  PROVE  Place(bit, bits) \in DOMAIN bits /\ bits[Place(bit, bits)] = bit
<1> DEFINE I == {k \in DOMAIN bits : bits[k] = bit}
<1>1. I # {} /\ I \in SUBSET Nat
  BY RangeFacts
<1>2. Min(I) \in I
  BY <1>1, LeastPlace
<1> QED
  BY <1>2 DEF Place

(* Every bit of a port's expression stands for a bit of the port of its    *)
(* own, and is that bit of the net of an edge.                             *)
BitsOf(bits, es, t, x, f) ==
  /\ f \in [DOMAIN x -> DOMAIN bits]
  /\ \A k, l \in DOMAIN x : f[k] = f[l] => k = l
  /\ \A k \in DOMAIN x : bits[f[k]] \notin {0, 1} => \A v \in x[k] :
       \E e \in es : \E l \in DOMAIN e.net.bits :
         /\ v = NetBit(e, t, l) /\ e.net.bits[l] = bits[f[k]]
         /\ Whole(bits, es) # {} => e.net.bits = bits

LEMMA WholeBits ==
  ASSUME NEW bits \in Seq(Nat), NEW es, NEW t, Whole(bits, es) # {}
  PROVE  /\ DOMAIN PortExpr(bits, es, t) = DOMAIN bits
         /\ \A k \in DOMAIN bits :
              PortExpr(bits, es, t)[k] = {NetBit(e, t, k) : e \in Whole(bits, es)}
BY DEF PortExpr

LEMMA BitByBitSelects ==
  ASSUME NEW bits \in Seq(Nat), NEW es, NEW t
  PROVE  \E f : Selection(BitByBit(bits, es, t), [i \in DOMAIN bits |-> BitOfNets(bits[i], es, t)],
                          {i \in DOMAIN bits : BitOfNets(bits[i], es, t) # {}}, f)
           /\ \E S : BitByBit(bits, es, t) \in Seq(S)
<1> DEFINE S == {BitOfNets(bits[i], es, t) : i \in DOMAIN bits}
           seq == [i \in DOMAIN bits |-> BitOfNets(bits[i], es, t)]
           I == {i \in DOMAIN bits : BitOfNets(bits[i], es, t) # {}}
<1>1. DOMAIN bits = 1 .. Len(bits) /\ Len(bits) \in Nat
  BY RangeFacts
<1>2. seq \in [1 .. Len(bits) -> S]
  BY <1>1
<1>3. seq \in Seq(S) /\ DOMAIN seq = DOMAIN bits
  BY <1>1, <1>2
<1>4. I \in SUBSET DOMAIN seq
  BY <1>3
<1>5. BitByBit(bits, es, t) = Sublist(seq, I)
  BY DEF BitByBit
<1> HIDE DEF S, seq, I
<1>6. Sublist(seq, I) \in Seq(S)
  BY <1>3, <1>4, SublistIsSelection
<1>7. \E f : Selection(Sublist(seq, I), seq, I, f)
  BY <1>3, <1>4, SublistIsSelection
<1> QED
  BY <1>5, <1>6, <1>7 DEF seq, I

LEMMA PortExprBits ==
  ASSUME NEW bits \in Seq(Nat), NEW es, NEW t, \A e \in es : e.net.bits \in Seq(Nat)
  PROVE  \E f : BitsOf(bits, es, t, PortExpr(bits, es, t), f)
<1>1. CASE Whole(bits, es) # {}
  <2> DEFINE f == [k \in DOMAIN bits |-> k]
             x == PortExpr(bits, es, t)
  <2>1. /\ DOMAIN x = DOMAIN bits
        /\ \A k \in DOMAIN bits : x[k] = {NetBit(e, t, k) : e \in Whole(bits, es)}
    BY <1>1, WholeBits
  <2> HIDE DEF x
  <2>2. \A k \in DOMAIN x : \A v \in x[k] : \E e \in es : \E l \in DOMAIN e.net.bits :
          /\ v = NetBit(e, t, l) /\ e.net.bits[l] = bits[f[k]]
          /\ Whole(bits, es) # {} => e.net.bits = bits
    <3> TAKE k \in DOMAIN x
    <3> TAKE v \in x[k]
    <3>1. PICK e \in Whole(bits, es) : v = NetBit(e, t, k)
      BY <2>1
    <3>2. e \in es /\ e.net.bits = bits
      BY <3>1 DEF Whole
    <3> QED
      BY <2>1, <3>1, <3>2
  <2>3. f \in [DOMAIN x -> DOMAIN bits] /\ \A k, l \in DOMAIN x : f[k] = f[l] => k = l
    BY <2>1
  <2>4. BitsOf(bits, es, t, x, f)
    BY <2>2, <2>3 DEF BitsOf
  <2> QED
    BY <2>4 DEF x
<1>2. CASE Whole(bits, es) = {}
  <2> DEFINE x == BitByBit(bits, es, t)
             seq == [i \in DOMAIN bits |-> BitOfNets(bits[i], es, t)]
             I == {i \in DOMAIN bits : BitOfNets(bits[i], es, t) # {}}
  <2>1. PICK f : Selection(x, seq, I, f) /\ \E S : x \in Seq(S)
    BY BitByBitSelects
  <2>2. PICK S : x \in Seq(S)
    BY <2>1
  <2>3. x = PortExpr(bits, es, t)
    BY <1>2 DEF PortExpr
  <2> HIDE DEF x
  <2>4. DOMAIN x = 1 .. Len(x) /\ Len(x) \in Nat /\ DOMAIN bits \in SUBSET Nat
    BY <2>2, RangeFacts
  <2>5. /\ f \in [DOMAIN x -> I] /\ \A k \in DOMAIN x : x[k] = seq[f[k]]
        /\ \A k, l \in DOMAIN x : k < l => f[k] < f[l]
    BY <2>1 DEF Selection
  <2>6. I \subseteq DOMAIN bits
    OBVIOUS
  <2>7. \A k \in DOMAIN x : f[k] \in DOMAIN bits /\ x[k] = BitOfNets(bits[f[k]], es, t)
    BY <2>5
  <2> HIDE DEF I, seq
  <2>8. f \in [DOMAIN x -> DOMAIN bits]
    BY <2>5, <2>6
  <2>9. \A k, l \in DOMAIN x : f[k] = f[l] => k = l
    <3> SUFFICES ASSUME NEW k \in DOMAIN x, NEW l \in DOMAIN x, f[k] = f[l] PROVE k = l
      OBVIOUS
    <3>1. k \in Nat /\ l \in Nat /\ f[k] \in Nat /\ f[l] \in Nat
      BY <2>4, <2>7
    <3>2. ~(k < l) /\ ~(l < k)
      BY <2>5, <3>1
    <3> QED
      BY <3>1, <3>2
  <2>10. \A k \in DOMAIN x : bits[f[k]] \notin {0, 1} => \A v \in x[k] :
           \E e \in es : \E l \in DOMAIN e.net.bits :
             /\ v = NetBit(e, t, l) /\ e.net.bits[l] = bits[f[k]]
             /\ Whole(bits, es) # {} => e.net.bits = bits
    <3> SUFFICES ASSUME NEW k \in DOMAIN x, bits[f[k]] \notin {0, 1}, NEW v \in x[k]
                 PROVE  \E e \in es : \E l \in DOMAIN e.net.bits :
                          /\ v = NetBit(e, t, l) /\ e.net.bits[l] = bits[f[k]]
                          /\ Whole(bits, es) # {} => e.net.bits = bits
      OBVIOUS
    <3> DEFINE bit == bits[f[k]]
    <3>1. x[k] = BitOfNets(bit, es, t)
      BY <2>7
    <3>2. bit \notin {0, 1}
      OBVIOUS
    <3> HIDE DEF bit
    <3>3. PICK e \in es : bit \in Range(e.net.bits) /\ v = NetBit(e, t, Place(bit, e.net.bits))
      BY <3>1, <3>2 DEF BitOfNets
    <3>4. Place(bit, e.net.bits) \in DOMAIN e.net.bits /\ e.net.bits[Place(bit, e.net.bits)] = bit
      BY <3>3, PlaceFacts
    <3> QED
      BY <1>2, <3>3, <3>4 DEF bit
  <2>11. BitsOf(bits, es, t, x, f)
    BY <2>8, <2>9, <2>10 DEF BitsOf
  <2> QED
    BY <2>3, <2>11
<1> QED
  BY <1>1, <1>2

-----------------------------------------------------------------------------
(* Which vertices are exported                                             *)
LEMMA ExportedCellFacts ==
  ASSUME Built, NEW t, NEW v \in ExportedCells(t)
  PROVE  \E i \in Instances(design) : \E c \in Range(ModuleOf(i).cells) :
           ~IsModule(design, c) /\ CellVertex(i.level, c) = v /\ CellOf(v) = c
<1>1. v.cell # "" /\ OutEdges(v) # {}
  BY DEF ExportedCells
<1>2. PICK e \in edges : e.from = v
  BY <1>1 DEF OutEdges
<1>3. PICK i \in Instances(design) : \E d \in DriversOf(i), r \in ReadersOf(i) :
        IsConnection(e, i, d, r)
  BY DEF Built
<1>4. PICK d \in DriversOf(i), r \in ReadersOf(i) : IsConnection(e, i, d, r)
  BY <1>3
<1>5. Home(d) = v /\ design \in Designs /\ WellFormed(design)
  BY <1>2, <1>4 DEF IsConnection, Built
<1>6. \A level, name : PortVertex(level, name).cell = ""
  BY PortVertexFields
<1>7. ASSUME NEW p, OfModule(i, d, p)
      PROVE  FALSE
  <2>1. Home(d) = PortVertex(i.level, p.name)
    BY <1>5, <1>7, ModulePortsNamed
  <2> QED
    BY <1>1, <1>5, <1>6, <2>1
<1>8. PICK c, p : OfCell(i, d, c, p)
  BY <1>5, <1>7, EndFacts
<1>9. c \in Range(ModuleOf(i).cells)
  BY <1>8 DEF OfCell
<1>10. ~IsModule(design, c)
  <2> SUFFICES ASSUME IsModule(design, c) PROVE FALSE
    OBVIOUS
  <2>1. Home(d) = PortVertex(Child(i, c).level, p.name)
    BY <1>5, <1>8, HomeOutside
  <2> QED
    BY <1>1, <1>5, <1>6, <2>1
<1>11. Home(d) = CellVertex(i.level, c)
  BY <1>5, <1>8, <1>10, HomeOfCell
<1>12. CellOf(CellVertex(i.level, c)) = c
  BY <1>5, <1>9, Lookups
<1> QED
  BY <1>5, <1>9, <1>10, <1>11, <1>12

LEMMA ExportedPortFacts ==
  ASSUME Built, NEW v \in ExportedPorts
  PROVE  \E i \in Instances(design) : \E p \in Range(ModuleOf(i).ports) :
           PortVertex(i.level, p.name) = v /\ InsidePort(v) = p
<1>1. v \in vertices /\ v.port # "" /\ design \in Designs /\ WellFormed(design)
  BY DEF ExportedPorts, Built
<1>2. PICK i \in Instances(design) : v \in PortVertices(i) \cup CellVertices(i)
  BY <1>1 DEF Built
<1>3. v \notin CellVertices(i)
  BY <1>1, VertexFacts
<1>4. PICK p \in Range(ModuleOf(i).ports) : PortVertex(i.level, p.name) = v
  BY <1>2, <1>3 DEF PortVertices
<1>5. InsidePort(PortVertex(i.level, p.name)) = p
  BY <1>1, Lookups
<1> QED
  BY <1>4, <1>5

(* The expression of a driver, that of a reader at the time it reads, and  *)
(* those of the top module's ports that name a variable themselves.        *)
DriveOf(i, d, t) ==
  Expression(Home(d), d.port, i.level, d.bits, t, PortExpr(d.bits, OutEdges(Home(d)), t))
ReadOf(i, r, t, at) ==
  Expression(Home(r), r.port, i.level, r.bits, at, PortExpr(r.bits, InEdges(Home(r)), t))

TopVertex(p) == PortVertex(RootOf(design).level, p.name)
TopExpression(p, t) ==
  Expression(TopVertex(p), p.name, RootOf(design).level, p.bits, t, OwnVariable(TopVertex(p), p.bits, t))

TopDrive(x, p, t) ==
  /\ p \in Range(ModuleOf(RootOf(design)).ports) /\ p.dir = "output"
  /\ TopVertex(p) \in ExportedPorts
  /\ x = TopExpression(p, t)
TopRead(x, p, t) ==
  /\ p \in Range(ModuleOf(RootOf(design)).ports) /\ p.dir = "input"
  /\ TopVertex(p) \in ExportedPorts
  /\ x = TopExpression(p, t)

LEMMA PortVertexAt ==
  \A level, name : PortVertex(level, name).at = level
BY PortVertexFields

LEMMA PortVertexPort ==
  \A level, name : PortVertex(level, name).port = name
BY PortVertexFields

LEMMA CellVertexAt ==
  \A level, c : CellVertex(level, c).at = level
BY CellVertexFields

LEMMA PortVertexNotRegister ==
  \A level, name : ~IsRegister(PortVertex(level, name))
<1>1. \A level, name : PortVertex(level, name).cell = ""
  BY PortVertexFields
<1> QED
  BY <1>1 DEF IsRegister

(* A port of a module is a reader or a driver inside it, and the port of   *)
(* the cell is one around it.                                              *)
LEMMA InsideEnd ==
  ASSUME Built, NEW i \in Instances(design), NEW p \in Range(ModuleOf(i).ports)
  PROVE  /\ p.dir = "input" \/ p.dir = "output"
         /\ OfModule(i, End(PortVertex(i.level, p.name), p), p)
         /\ p.dir = "input" => End(PortVertex(i.level, p.name), p) \in DriversOf(i)
         /\ p.dir = "output" => End(PortVertex(i.level, p.name), p) \in ReadersOf(i)
         /\ Home(End(PortVertex(i.level, p.name), p)) = PortVertex(i.level, p.name)
<1> DEFINE e == End(PortVertex(i.level, p.name), p)
<1>1. design \in Designs /\ WellFormed(design)
  BY DEF Built
<1>2. OfModule(i, e, p)
  BY DEF OfModule
<1> HIDE DEF e
<1>3. Home(e) = PortVertex(i.level, p.name)
  BY <1>1, <1>2, ModulePortsNamed
<1>4. p.dir = "input" => e \in DriversOf(i)
  BY <1>1, <1>2, EndFacts
<1>5. p.dir = "output" => e \in ReadersOf(i)
  BY <1>1, <1>2, EndFacts
<1>6. p \in PortType
  BY <1>1, ModuleFacts
<1>7. p.dir = "input" \/ p.dir = "output"
  BY <1>6 DEF PortType
<1> QED
  BY <1>2, <1>3, <1>4, <1>5, <1>7 DEF e

LEMMA CellEnd ==
  ASSUME Built, NEW i \in Instances(design),
         NEW c \in Range(ModuleOf(i).cells), ~IsModule(design, c), NEW p \in Range(c.ports)
  PROVE  /\ OfCell(i, End(CellVertex(i.level, c), p), c, p)
         /\ p.dir = "output" => End(CellVertex(i.level, c), p) \in DriversOf(i)
         /\ p.dir = "input" => End(CellVertex(i.level, c), p) \in ReadersOf(i)
         /\ Home(End(CellVertex(i.level, c), p)) = CellVertex(i.level, c)
<1> DEFINE e == End(CellVertex(i.level, c), p)
<1>1. design \in Designs /\ WellFormed(design)
  BY DEF Built
<1>2. OfCell(i, e, c, p)
  BY DEF OfCell
<1> HIDE DEF e
<1>3. Home(e) = CellVertex(i.level, c)
  BY <1>1, <1>2, HomeOfCell
<1>4. p.dir = "output" => e \in DriversOf(i)
  BY <1>1, <1>2, EndFacts
<1>5. p.dir = "input" => e \in ReadersOf(i)
  BY <1>1, <1>2, EndFacts
<1> QED
  BY <1>2, <1>3, <1>4, <1>5 DEF e

LEMMA OutsideEnd ==
  ASSUME Built, NEW j \in Instances(design),
         NEW c \in Range(ModuleOf(j).cells), IsModule(design, c), NEW q \in Range(c.ports)
  PROVE  /\ OfCell(j, End(CellVertex(j.level, c), q), c, q)
         /\ q.dir = "output" => End(CellVertex(j.level, c), q) \in DriversOf(j)
         /\ q.dir = "input" => End(CellVertex(j.level, c), q) \in ReadersOf(j)
         /\ Home(End(CellVertex(j.level, c), q)) = PortVertex(Child(j, c).level, q.name)
<1> DEFINE e == End(CellVertex(j.level, c), q)
<1>1. design \in Designs /\ WellFormed(design)
  BY DEF Built
<1>2. OfCell(j, e, c, q)
  BY DEF OfCell
<1> HIDE DEF e
<1>3. Home(e) = PortVertex(Child(j, c).level, q.name)
  BY <1>1, <1>2, HomeOutside
<1>4. q.dir = "output" => e \in DriversOf(j)
  BY <1>1, <1>2, EndFacts
<1>5. q.dir = "input" => e \in ReadersOf(j)
  BY <1>1, <1>2, EndFacts
<1> QED
  BY <1>2, <1>3, <1>4, <1>5 DEF e

(* What PortReads and PortDrives say of a vertex, by where the port is     *)
LEMMA RootPorts ==
  ASSUME Built, NEW i \in Instances(design), NEW p \in Range(ModuleOf(i).ports)
  PROVE  IsRootPort(PortVertex(i.level, p.name)) <=> i = RootOf(design)
<1> DEFINE v == PortVertex(i.level, p.name)
<1>1. v.at = i.level /\ design \in Designs /\ WellFormed(design)
  BY PortVertexAt DEF Built
<1> HIDE DEF v
<1>2. ASSUME i # RootOf(design)
      PROVE  Len(i.level) # 1
  <2>1. PICK j \in Instances(design) : \E c \in Range(ModuleOf(j).cells) :
          IsModule(design, c) /\ Child(j, c) = i
    BY <1>1, <1>2, RootOrChild
  <2>2. PICK c \in Range(ModuleOf(j).cells) : IsModule(design, c) /\ Child(j, c) = i
    BY <2>1
  <2>3. Len(Child(j, c).level) > 1
    BY <1>1, <2>2, ChildPorts
  <2>4. i.level \in Seq(STRING)
    BY <1>1, ModuleFacts
  <2>5. Len(i.level) \in Nat
    BY <2>4
  <2>6. Len(i.level) > 1
    BY <2>2, <2>3
  <2>7. \A n \in Nat : n > 1 => n # 1
    OBVIOUS
  <2> QED
    BY <2>5, <2>6, <2>7
<1>3. i = RootOf(design) => Len(i.level) = 1
  BY <1>1, RootOrChild
<1>4. IsRootPort(v) <=> i = RootOf(design)
  BY <1>1, <1>2, <1>3 DEF IsRootPort
<1> QED
  BY <1>4 DEF v

LEMMA PortDrivesAre ==
  ASSUME Built, NEW t, NEW v \in ExportedPorts
  PROVE  \/ \E i \in Instances(design) : \E d \in DriversOf(i) : DriveOf(i, d, t) = PortDrives(v, t)
         \/ \E p : TopDrive(PortDrives(v, t), p, t)
<1>1. PICK i \in Instances(design) : \E p \in Range(ModuleOf(i).ports) :
        PortVertex(i.level, p.name) = v /\ InsidePort(v) = p
  BY ExportedPortFacts
<1>2. PICK p \in Range(ModuleOf(i).ports) : PortVertex(i.level, p.name) = v /\ InsidePort(v) = p
  BY <1>1
<1>3. v.at = i.level
  BY <1>2, PortVertexAt
<1>4. v.port = p.name
  BY <1>2, PortVertexPort
<1>5. design \in Designs /\ WellFormed(design)
  BY DEF Built
<1>6. p.dir = "input" \/ p.dir = "output"
  BY InsideEnd
<1>7. IsRootPort(v) <=> i = RootOf(design)
  BY <1>2, RootPorts
<1>8. CASE p.dir = "input"
  <2> DEFINE d == End(PortVertex(i.level, p.name), p)
  <2>1. d \in DriversOf(i)
    BY <1>8, InsideEnd
  <2>2. Home(d) = v
    BY <1>2, InsideEnd
  <2>3. d.port = p.name /\ d.bits = p.bits
    BY EndFields
  <2> HIDE DEF d
  <2>4. PortDrives(v, t)
          = Expression(v, v.port, v.at, p.bits, t, PortExpr(p.bits, OutEdges(v), t))
    BY <1>2, <1>8 DEF PortDrives
  <2>5. DriveOf(i, d, t) = PortDrives(v, t)
    BY <1>3, <1>4, <2>2, <2>3, <2>4 DEF DriveOf
  <2> QED
    BY <2>1, <2>5
<1>9. CASE p.dir = "output" /\ i = RootOf(design)
  <2>1. PortDrives(v, t)
          = Expression(v, v.port, v.at, p.bits, t, OwnVariable(v, p.bits, t))
    BY <1>2, <1>7, <1>9 DEF PortDrives
  <2>2. TopVertex(p) = v
    BY <1>2, <1>9 DEF TopVertex
  <2>3. PortDrives(v, t) = TopExpression(p, t)
    BY <1>3, <1>4, <1>9, <2>1, <2>2 DEF TopExpression
  <2> QED
    BY <1>9, <2>2, <2>3 DEF TopDrive
<1>10. CASE p.dir = "output" /\ i # RootOf(design)
  <2>1. PICK j \in Instances(design) : \E c \in Range(ModuleOf(j).cells) :
          IsModule(design, c) /\ Child(j, c) = i
    BY <1>5, <1>10, RootOrChild
  <2>2. PICK c \in Range(ModuleOf(j).cells) : IsModule(design, c) /\ Child(j, c) = i
    BY <2>1
  <2>3. PICK q \in Range(c.ports) : p.name = q.name /\ p.dir = q.dir
    BY <1>5, <2>2, ChildPorts
  <2>4. OutsidePort(PortVertex(Child(j, c).level, q.name)) = q
    BY <1>5, <2>2, ChildPorts
  <2>5. OutsidePort(v) = q
    BY <1>2, <2>2, <2>3, <2>4
  <2>6. Front(Child(j, c).level) = j.level
    BY <1>5, <2>2, ChildPorts
  <2> DEFINE d == End(CellVertex(j.level, c), q)
  <2>7. d \in DriversOf(j)
    BY <1>10, <2>2, <2>3, OutsideEnd
  <2>8. Home(d) = PortVertex(Child(j, c).level, q.name)
    BY <2>2, OutsideEnd
  <2>9. d.port = q.name /\ d.bits = q.bits
    BY EndFields
  <2> HIDE DEF d
  <2>10. PortDrives(v, t)
           = Expression(v, v.port, Front(v.at), q.bits, t, PortExpr(q.bits, OutEdges(v), t))
    BY <1>2, <1>7, <1>10, <2>5 DEF PortDrives
  <2>11. Home(d) = v
    BY <1>2, <2>2, <2>3, <2>8
  <2>12. DriveOf(j, d, t) = PortDrives(v, t)
    BY <1>3, <1>4, <2>2, <2>3, <2>6, <2>9, <2>10, <2>11 DEF DriveOf
  <2> QED
    BY <2>7, <2>12
<1> QED
  BY <1>6, <1>8, <1>9, <1>10

LEMMA PortReadsAre ==
  ASSUME Built, NEW t, NEW v \in ExportedPorts
  PROVE  \/ \E i \in Instances(design) : \E r \in ReadersOf(i) :
              ReadOf(i, r, t, t) = PortReads(v, t) /\ Home(r) = v
         \/ \E p : TopRead(PortReads(v, t), p, t)
<1>1. PICK i \in Instances(design) : \E p \in Range(ModuleOf(i).ports) :
        PortVertex(i.level, p.name) = v /\ InsidePort(v) = p
  BY ExportedPortFacts
<1>2. PICK p \in Range(ModuleOf(i).ports) : PortVertex(i.level, p.name) = v /\ InsidePort(v) = p
  BY <1>1
<1>3. v.at = i.level
  BY <1>2, PortVertexAt
<1>4. v.port = p.name
  BY <1>2, PortVertexPort
<1>5. design \in Designs /\ WellFormed(design)
  BY DEF Built
<1>6. p.dir = "input" \/ p.dir = "output"
  BY InsideEnd
<1>7. IsRootPort(v) <=> i = RootOf(design)
  BY <1>2, RootPorts
<1>8. CASE p.dir = "output"
  <2> DEFINE r == End(PortVertex(i.level, p.name), p)
  <2>1. r \in ReadersOf(i)
    BY <1>8, InsideEnd
  <2>2. Home(r) = v
    BY <1>2, InsideEnd
  <2>3. r.port = p.name /\ r.bits = p.bits
    BY EndFields
  <2> HIDE DEF r
  <2>4. PortReads(v, t)
          = Expression(v, v.port, v.at, p.bits, t, PortExpr(p.bits, InEdges(v), t))
    BY <1>2, <1>8 DEF PortReads
  <2>5. ReadOf(i, r, t, t) = PortReads(v, t)
    BY <1>3, <1>4, <2>2, <2>3, <2>4 DEF ReadOf
  <2> QED
    BY <2>1, <2>2, <2>5
<1>9. CASE p.dir = "input" /\ i = RootOf(design)
  <2>1. PortReads(v, t)
          = Expression(v, v.port, v.at, p.bits, t, OwnVariable(v, p.bits, t))
    BY <1>2, <1>7, <1>9 DEF PortReads
  <2>2. TopVertex(p) = v
    BY <1>2, <1>9 DEF TopVertex
  <2>3. PortReads(v, t) = TopExpression(p, t)
    BY <1>3, <1>4, <1>9, <2>1, <2>2 DEF TopExpression
  <2> QED
    BY <1>9, <2>2, <2>3 DEF TopRead
<1>10. CASE p.dir = "input" /\ i # RootOf(design)
  <2>1. PICK j \in Instances(design) : \E c \in Range(ModuleOf(j).cells) :
          IsModule(design, c) /\ Child(j, c) = i
    BY <1>5, <1>10, RootOrChild
  <2>2. PICK c \in Range(ModuleOf(j).cells) : IsModule(design, c) /\ Child(j, c) = i
    BY <2>1
  <2>3. PICK q \in Range(c.ports) : p.name = q.name /\ p.dir = q.dir
    BY <1>5, <2>2, ChildPorts
  <2>4. OutsidePort(PortVertex(Child(j, c).level, q.name)) = q
    BY <1>5, <2>2, ChildPorts
  <2>5. OutsidePort(v) = q
    BY <1>2, <2>2, <2>3, <2>4
  <2>6. Front(Child(j, c).level) = j.level
    BY <1>5, <2>2, ChildPorts
  <2> DEFINE r == End(CellVertex(j.level, c), q)
  <2>7. r \in ReadersOf(j)
    BY <1>10, <2>2, <2>3, OutsideEnd
  <2>8. Home(r) = PortVertex(Child(j, c).level, q.name)
    BY <2>2, OutsideEnd
  <2>9. r.port = q.name /\ r.bits = q.bits
    BY EndFields
  <2> HIDE DEF r
  <2>10. PortReads(v, t)
           = Expression(v, v.port, Front(v.at), q.bits, t, PortExpr(q.bits, InEdges(v), t))
    BY <1>2, <1>7, <1>10, <2>5 DEF PortReads
  <2>11. Home(r) = v
    BY <1>2, <2>2, <2>3, <2>8
  <2>12. ReadOf(j, r, t, t) = PortReads(v, t)
    BY <1>3, <1>4, <2>2, <2>3, <2>6, <2>9, <2>10, <2>11 DEF ReadOf
  <2> QED
    BY <2>7, <2>11, <2>12
<1> QED
  BY <1>6, <1>8, <1>9, <1>10

LEMMA DrivesAre ==
  ASSUME Built, NEW t, NEW x \in DrivesAt(t)
  PROVE  \/ \E i \in Instances(design) : \E d \in DriversOf(i) : DriveOf(i, d, t) = x
         \/ \E p : TopDrive(x, p, t)
<1>1. CASE x \in CellDrives(t)
  <2>1. PICK v \in ExportedCells(t) : \E p \in Ports(CellOf(v).ports, "output") :
          x = Expression(v, p.name, v.at, p.bits, t, PortExpr(p.bits, OutEdges(v), t))
    BY <1>1 DEF CellDrives
  <2>2. PICK p \in Ports(CellOf(v).ports, "output") :
          x = Expression(v, p.name, v.at, p.bits, t, PortExpr(p.bits, OutEdges(v), t))
    BY <2>1
  <2>3. PICK i \in Instances(design) : \E c \in Range(ModuleOf(i).cells) :
          ~IsModule(design, c) /\ CellVertex(i.level, c) = v /\ CellOf(v) = c
    BY ExportedCellFacts
  <2>4. PICK c \in Range(ModuleOf(i).cells) :
          ~IsModule(design, c) /\ CellVertex(i.level, c) = v /\ CellOf(v) = c
    BY <2>3
  <2>5. p \in Range(c.ports) /\ p.dir = "output"
    BY <2>4 DEF Ports
  <2> DEFINE d == End(CellVertex(i.level, c), p)
  <2>6. d \in DriversOf(i)
    BY <2>4, <2>5, CellEnd
  <2>7. Home(d) = v
    BY <2>4, <2>5, CellEnd
  <2>8. d.port = p.name /\ d.bits = p.bits
    BY EndFields
  <2> HIDE DEF d
  <2>9. v.at = i.level
    BY <2>4, CellVertexAt
  <2>10. DriveOf(i, d, t) = x
    BY <2>2, <2>7, <2>8, <2>9 DEF DriveOf
  <2> QED
    BY <2>6, <2>10
<1>2. CASE x \notin CellDrives(t)
  <2>1. PICK v \in ExportedPorts : x = PortDrives(v, t)
    BY <1>2 DEF DrivesAt
  <2> QED
    BY <2>1, PortDrivesAre
<1> QED
  BY <1>1, <1>2

-----------------------------------------------------------------------------
(* No variable has two drivers                                             *)
LEMMA VarBitEqual ==
  ASSUME NEW level1, NEW name1, NEW t1, NEW k1, NEW level2, NEW name2, NEW t2, NEW k2,
         VarBit(level1, name1, t1, k1) = VarBit(level2, name2, t2, k2)
  PROVE  level1 = level2 /\ name1 = name2 /\ t1 = t2 /\ k1 = k2
BY DEF VarBit

LEMMA DrivenOnceFacts ==
  ASSUME DrivenOnce(design), NEW i \in Instances(design)
  PROVE  /\ \A d \in DriversOf(i) : \A k \in DOMAIN d.bits : d.bits[k] \notin {0, 1}
         /\ \A d, f \in DriversOf(i) : \A k \in DOMAIN d.bits, l \in DOMAIN f.bits :
              d.bits[k] = f.bits[l] => d = f /\ k = l
BY DEF DrivenOnce, DriversOf, ModuleOf

LEMMA FirstExact ==
  ASSUME NEW nets \in Seq(NetType), NEW bits, Exact(nets, bits) # {}
  PROVE  FirstOf(nets, Exact(nets, bits)).bits = bits
<1>1. Exact(nets, bits) \in SUBSET DOMAIN nets
  BY DEF Exact
<1>2. /\ Min(Exact(nets, bits)) \in Exact(nets, bits)
      /\ FirstOf(nets, Exact(nets, bits)) = nets[Min(Exact(nets, bits))]
  BY <1>1, FirstIsThere
<1> QED
  BY <1>2 DEF Exact

LEMMA DriversNet ==
  ASSUME NEW nets \in Seq(NetType), NEW d, NEW r, NEW net, Labelled(nets, d, r, net),
         Exact(nets, d.bits) # {}
  PROVE  net.bits = d.bits
<1>1. net = FirstOf(nets, Exact(nets, d.bits))
  BY DEF Labelled
<1> QED
  BY <1>1, FirstExact

LEMMA ReadersNet ==
  ASSUME NEW nets \in Seq(NetType), NEW d, NEW r, NEW net, Labelled(nets, d, r, net),
         Exact(nets, d.bits) = {}, Exact(nets, r.bits) # {}
  PROVE  net.bits = r.bits
<1>1. net = FirstOf(nets, Exact(nets, r.bits))
  BY DEF Labelled
<1> QED
  BY <1>1, FirstExact

(* The nets on the edges out of a driver                                   *)
IsLabel(i, d, net) ==
  /\ net \in Range(ModuleOf(i).nets)
  /\ net = FirstOf(ModuleOf(i).nets, Exact(ModuleOf(i).nets, net.bits))

LEMMA EdgeNets ==
  ASSUME Built, NamesSuffice, NEW i \in Instances(design), NEW d \in DriversOf(i),
         NEW r \in ReadersOf(i), NEW e, IsConnection(e, i, d, r)
  PROVE  /\ IsLabel(i, d, e.net)
         /\ e.net \in NetType /\ e.net.bits \in Seq(Nat)
         /\ Exact(ModuleOf(i).nets, d.bits) # {} => e.net.bits = d.bits
         /\ Exact(ModuleOf(i).nets, d.bits) = {} /\ Exact(ModuleOf(i).nets, r.bits) # {}
              => e.net.bits = r.bits
<1> DEFINE nets == ModuleOf(i).nets
<1>1. Labelled(nets, d, r, e.net)
  BY DEF IsConnection
<1>2. nets \in Seq(NetType)
  BY ModuleFacts DEF Built
<1> HIDE DEF nets
<1>3. e.net \in Range(nets)
  BY <1>1, <1>2, FirstOfItsBits
<1>4. e.net = FirstOf(nets, Exact(nets, e.net.bits))
  BY <1>1, <1>2, FirstOfItsBits
<1>5. ASSUME Exact(nets, d.bits) # {}
      PROVE  e.net.bits = d.bits
  BY <1>1, <1>2, <1>5, DriversNet
<1>6. ASSUME Exact(nets, d.bits) = {}, Exact(nets, r.bits) # {}
      PROVE  e.net.bits = r.bits
  BY <1>1, <1>2, <1>6, ReadersNet
<1>7. e.net \in NetType
  BY <1>2, <1>3, RangeFacts
<1>8. e.net.bits \in Seq(Nat)
  BY <1>7 DEF NetType
<1> QED
  BY <1>3, <1>4, <1>5, <1>6, <1>7, <1>8 DEF nets, IsLabel

(* Every bit of a driver's expression is a bit of a net of its instance    *)
(* that stands for a bit of the driver.                                    *)
NamesBit(i, d, t, b, v) ==
  \E net \in Range(ModuleOf(i).nets) : \E l \in DOMAIN net.bits :
    /\ VarBit(i.level, net.name, t, l) = v
    /\ net.bits[l] = b
    /\ IsLabel(i, d, net)
    /\ Whole(d.bits, OutEdges(Home(d))) # {} => net.bits = d.bits

LEMMA DriveBits ==
  ASSUME Built, NamesSuffice, DrivenOnce(design),
         NEW i \in Instances(design), NEW d \in DriversOf(i), NEW t
  PROVE  \E f : LET x == PortExpr(d.bits, OutEdges(Home(d)), t)
                IN /\ f \in [DOMAIN x -> DOMAIN d.bits]
                   /\ \A k, l \in DOMAIN x : f[k] = f[l] => k = l
                   /\ \A k \in DOMAIN x : \A v \in x[k] : NamesBit(i, d, t, d.bits[f[k]], v)
<1> DEFINE es == OutEdges(Home(d))
           x == PortExpr(d.bits, es, t)
<1>1. design \in Designs /\ WellFormed(design)
  BY DEF Built
<1>2. \A e \in es : e.level = i.level
  BY EdgeOut
<1>3. \A e \in es : IsLabel(i, d, e.net)
  <2> TAKE e \in es
  <2>1. PICK f \in DriversOf(i), r \in ReadersOf(i) : IsConnection(e, i, f, r) /\ Home(f) = Home(d)
    BY EdgeOut
  <2>2. IsLabel(i, f, e.net)
    BY <2>1, EdgeNets
  <2> QED
    BY <2>2 DEF IsLabel
<1>4. \A e \in es : e.net.bits \in Seq(Nat)
  <2> TAKE e \in es
  <2>1. PICK f \in DriversOf(i), r \in ReadersOf(i) : IsConnection(e, i, f, r) /\ Home(f) = Home(d)
    BY EdgeOut
  <2> QED
    BY <2>1, EdgeNets
<1>5. d.bits \in Seq(Nat)
  BY <1>1, EndsInInstance
<1> HIDE DEF es
<1>6. PICK f : BitsOf(d.bits, es, t, x, f)
  BY <1>4, <1>5, PortExprBits
<1> HIDE DEF x
<1>7. f \in [DOMAIN x -> DOMAIN d.bits] /\ \A k, l \in DOMAIN x : f[k] = f[l] => k = l
  BY <1>6 DEF BitsOf
<1>8. \A k \in DOMAIN x : \A v \in x[k] : NamesBit(i, d, t, d.bits[f[k]], v)
  <2> TAKE k \in DOMAIN x
  <2> TAKE v \in x[k]
  <2>1. d.bits[f[k]] \notin {0, 1}
    BY <1>7, DrivenOnceFacts
  <2>2. PICK e \in es : \E l \in DOMAIN e.net.bits :
          /\ v = NetBit(e, t, l) /\ e.net.bits[l] = d.bits[f[k]]
          /\ Whole(d.bits, es) # {} => e.net.bits = d.bits
    BY <1>6, <2>1 DEF BitsOf
  <2>3. PICK l \in DOMAIN e.net.bits :
          /\ v = NetBit(e, t, l) /\ e.net.bits[l] = d.bits[f[k]]
          /\ Whole(d.bits, es) # {} => e.net.bits = d.bits
    BY <2>2
  <2>4. IsLabel(i, d, e.net) /\ e.level = i.level
    BY <1>2, <1>3
  <2>5. e.net \in Range(ModuleOf(i).nets)
    BY <2>4 DEF IsLabel
  <2>6. VarBit(i.level, e.net.name, t, l) = v
    BY <2>3, <2>4 DEF NetBit
  <2> QED
    BY <2>3, <2>4, <2>5, <2>6 DEF NamesBit, es
<1> QED
  BY <1>7, <1>8 DEF x, es

LEMMA NameIsOfOneNet ==
  ASSUME Built, NEW i \in Instances(design),
         NEW m \in Range(ModuleOf(i).nets), NEW n \in Range(ModuleOf(i).nets), m.name = n.name
  PROVE  m = n
<1>1. ModuleOf(i).nets \in Seq(NetType) /\ Keyed(ModuleOf(i).nets)
  BY ModuleFacts DEF Built
<1> QED
  BY <1>1, KeyedFacts

LEMMA OneBit ==
  ASSUME Built, NEW i \in Instances(design), NEW j \in Instances(design),
         NEW d, NEW f, NEW t, NEW s, NEW b, NEW c, NEW v,
         NamesBit(i, d, t, b, v), NamesBit(j, f, s, c, v)
  PROVE  i = j /\ t = s /\ b = c
<1>1. PICK m \in Range(ModuleOf(i).nets) : \E k \in DOMAIN m.bits :
        VarBit(i.level, m.name, t, k) = v /\ m.bits[k] = b
  BY DEF NamesBit
<1>2. PICK k \in DOMAIN m.bits : VarBit(i.level, m.name, t, k) = v /\ m.bits[k] = b
  BY <1>1
<1>3. PICK n \in Range(ModuleOf(j).nets) : \E l \in DOMAIN n.bits :
        VarBit(j.level, n.name, s, l) = v /\ n.bits[l] = c
  BY DEF NamesBit
<1>4. PICK l \in DOMAIN n.bits : VarBit(j.level, n.name, s, l) = v /\ n.bits[l] = c
  BY <1>3
<1>5. i.level = j.level /\ m.name = n.name /\ t = s /\ k = l
  BY <1>2, <1>4, VarBitEqual
<1>6. i = j
  BY <1>5, InstanceFacts DEF Built
<1>7. m = n
  BY <1>5, <1>6, NameIsOfOneNet
<1> QED
  BY <1>2, <1>4, <1>5, <1>6, <1>7

DrivesBit(i, d, t, k, v) ==
  /\ k \in DOMAIN PortExpr(d.bits, OutEdges(Home(d)), t)
  /\ v \in PortExpr(d.bits, OutEdges(Home(d)), t)[k]

LEMMA TwoDrivers ==
  ASSUME Built, NamesSuffice, DrivenOnce(design),
         NEW i \in Instances(design), NEW d \in DriversOf(i), NEW t,
         NEW j \in Instances(design), NEW f \in DriversOf(j), NEW s,
         NEW k, NEW l, NEW v, DrivesBit(i, d, t, k, v), DrivesBit(j, f, s, l, v)
  PROVE  i = j /\ d = f /\ t = s /\ k = l
<1> DEFINE x == PortExpr(d.bits, OutEdges(Home(d)), t)
           y == PortExpr(f.bits, OutEdges(Home(f)), s)
<1>1. PICK a : /\ a \in [DOMAIN x -> DOMAIN d.bits]
               /\ \A m, n \in DOMAIN x : a[m] = a[n] => m = n
               /\ \A m \in DOMAIN x : \A w \in x[m] : NamesBit(i, d, t, d.bits[a[m]], w)
  BY DriveBits
<1>2. PICK b : /\ b \in [DOMAIN y -> DOMAIN f.bits]
               /\ \A m, n \in DOMAIN y : b[m] = b[n] => m = n
               /\ \A m \in DOMAIN y : \A w \in y[m] : NamesBit(j, f, s, f.bits[b[m]], w)
  BY DriveBits
<1>3. k \in DOMAIN x /\ l \in DOMAIN y /\ v \in x[k] /\ v \in y[l]
  BY DEF DrivesBit
<1>4. t = s /\ d = f => x = y
  OBVIOUS
<1> HIDE DEF x, y
<1>5. NamesBit(i, d, t, d.bits[a[k]], v) /\ NamesBit(j, f, s, f.bits[b[l]], v)
  BY <1>1, <1>2, <1>3
<1>6. i = j /\ t = s /\ d.bits[a[k]] = f.bits[b[l]]
  BY <1>5, OneBit
<1>7. a[k] \in DOMAIN d.bits /\ b[l] \in DOMAIN f.bits
  BY <1>1, <1>2, <1>3
<1>8. d = f
  BY <1>6, <1>7, DrivenOnceFacts
<1>9. l \in DOMAIN x /\ v \in x[l]
  BY <1>3, <1>4, <1>6, <1>8
<1>10. NamesBit(i, d, t, d.bits[a[l]], v) /\ a[l] \in DOMAIN d.bits
  BY <1>1, <1>9
<1>11. d.bits[a[k]] = d.bits[a[l]]
  BY <1>5, <1>10, OneBit
<1>12. a[k] = a[l]
  BY <1>7, <1>10, <1>11, DrivenOnceFacts
<1>13. k = l
  BY <1>1, <1>3, <1>9, <1>12
<1> QED
  BY <1>6, <1>8, <1>13

LEMMA TopInstance ==
  ASSUME Built
  PROVE  /\ RootOf(design) \in Instances(design)
         /\ \A i \in Instances(design) : i.level = RootOf(design).level => i = RootOf(design)
         /\ ModuleOf(RootOf(design)) = design.modules[TopType(design)]
<1>1. RootOf(design) \in Instances(design)
  BY InstanceFacts DEF Built
<1>2. \A i \in Instances(design) : i.level = RootOf(design).level => i = RootOf(design)
  BY <1>1, InstanceFacts DEF Built
<1>3. ModuleOf(RootOf(design)) = design.modules[TopType(design)]
  BY DEF ModuleOf, RootOf
<1> QED
  BY <1>1, <1>2, <1>3

LEMMA TopBits ==
  ASSUME NEW x, NEW p, NEW t, TopDrive(x, p, t), NEW k \in DOMAIN x.expr, NEW v \in x.expr[k]
  PROVE  k \in DOMAIN p.bits /\ VarBit(RootOf(design).level, p.name, t, k) = v
<1>1. x.expr = OwnVariable(TopVertex(p), p.bits, t)
  BY ExpressionFields DEF TopDrive, TopExpression
<1>2. k \in DOMAIN p.bits /\ v = VarBit(TopVertex(p).at, TopVertex(p).port, t, k)
  BY <1>1 DEF OwnVariable
<1>3. TopVertex(p).at = RootOf(design).level
  BY PortVertexAt DEF TopVertex
<1>4. TopVertex(p).port = p.name
  BY PortVertexPort DEF TopVertex
<1> QED
  BY <1>2, <1>3, <1>4

(* An output of the top module whose variable a driver's expression has a  *)
(* bit of reads what it drives: the net of its name is on all its edges.   *)
LEMMA OutputReadsItsName ==
  ASSUME Built, NamesSuffice, DrivenOnce(design), PortsAreNets(design),
         NEW i \in Instances(design), NEW d \in DriversOf(i), NEW t,
         NEW k \in DOMAIN PortExpr(d.bits, OutEdges(Home(d)), t),
         NEW y, NEW p, NEW s, TopDrive(y, p, s), NEW l \in DOMAIN y.expr,
         NEW v, v \in PortExpr(d.bits, OutEdges(Home(d)), t)[k], v \in y.expr[l]
  PROVE  PortExpr(p.bits, InEdges(TopVertex(p)), s) = OwnVariable(TopVertex(p), p.bits, s)
<1> DEFINE x == PortExpr(d.bits, OutEdges(Home(d)), t)
           root == RootOf(design)
           nets == ModuleOf(root).nets
<1>1. /\ design \in Designs /\ WellFormed(design)
      /\ root \in Instances(design) /\ p \in Range(ModuleOf(root).ports) /\ p.dir = "output"
      /\ nets \in Seq(NetType)
  BY TopInstance, ModuleFacts DEF Built, TopDrive
<1>2. PICK a : /\ a \in [DOMAIN x -> DOMAIN d.bits]
               /\ \A m, n \in DOMAIN x : a[m] = a[n] => m = n
               /\ \A m \in DOMAIN x : \A w \in x[m] : NamesBit(i, d, t, d.bits[a[m]], w)
  BY DriveBits
<1>3. k \in DOMAIN x /\ v \in x[k]
  OBVIOUS
<1> HIDE DEF x
<1>4. a[k] \in DOMAIN d.bits /\ NamesBit(i, d, t, d.bits[a[k]], v)
  BY <1>2, <1>3
<1> DEFINE b == d.bits[a[k]]
<1>5. b \in Range(d.bits) /\ b \notin {0, 1} /\ d.bits \in Seq(Nat)
  BY <1>1, <1>4, DrivenOnceFacts, EndsInInstance, RangeFacts
<1>6. \A f \in DriversOf(i) : b \in Range(f.bits) => f = d
  <2> TAKE f \in DriversOf(i)
  <2> HAVE b \in Range(f.bits)
  <2>1. f.bits \in Seq(Nat)
    BY <1>1, EndsInInstance
  <2>2. PICK m \in DOMAIN f.bits : f.bits[m] = b
    BY <2>1, RangeFacts
  <2> QED
    BY <1>4, <2>2, DrivenOnceFacts
<1>7. NamesBit(i, d, t, b, v)
  BY <1>4
<1> HIDE DEF b
<1>8. PICK net \in Range(ModuleOf(i).nets) : \E m \in DOMAIN net.bits :
        /\ VarBit(i.level, net.name, t, m) = v /\ net.bits[m] = b /\ IsLabel(i, d, net)
        /\ Whole(d.bits, OutEdges(Home(d))) # {} => net.bits = d.bits
  BY <1>7 DEF NamesBit
<1>9. PICK m \in DOMAIN net.bits :
        /\ VarBit(i.level, net.name, t, m) = v /\ net.bits[m] = b /\ IsLabel(i, d, net)
        /\ Whole(d.bits, OutEdges(Home(d))) # {} => net.bits = d.bits
  BY <1>8
<1>10. l \in DOMAIN p.bits /\ VarBit(root.level, p.name, s, l) = v
  BY TopBits
<1>11. i.level = root.level /\ net.name = p.name
  BY <1>9, <1>10, VarBitEqual
<1>12. i = root
  BY <1>11, TopInstance
<1> HIDE DEF root
<1>13. net.bits = p.bits
  <2>1. net \in Range(design.modules[TopType(design)].nets)
    BY <1>12, TopInstance DEF root
  <2>2. p \in Range(design.modules[TopType(design)].ports)
    BY <1>1, TopInstance DEF root
  <2> QED
    BY <1>11, <2>1, <2>2 DEF PortsAreNets
<1>14. net = FirstOf(nets, Exact(nets, p.bits)) /\ net \in Range(nets) /\ net \in NetType
  <2>1. IsLabel(root, d, net)
    BY <1>9, <1>12
  <2>2. net \in Range(nets) /\ net = FirstOf(nets, Exact(nets, net.bits))
    BY <2>1 DEF IsLabel
  <2> QED
    BY <1>1, <1>13, <2>2, RangeFacts
<1>15. Exact(nets, p.bits) # {}
  <2>1. PICK n \in DOMAIN nets : nets[n] = net
    BY <1>1, <1>14, RangeFacts
  <2> QED
    BY <1>13, <2>1 DEF Exact
<1>16. p.bits \in Seq(Nat) /\ b \in Range(p.bits)
  <2>1. net.bits \in Seq(Nat)
    BY <1>14 DEF NetType
  <2> QED
    BY <1>9, <1>13, <2>1, RangeFacts
<1> DEFINE r == End(PortVertex(root.level, p.name), p)
<1>17. r \in ReadersOf(root) /\ Home(r) = TopVertex(p) /\ r.bits = p.bits
  <2>1. r \in ReadersOf(root)
    BY <1>1, InsideEnd
  <2>2. Home(r) = PortVertex(root.level, p.name)
    BY <1>1, InsideEnd
  <2>3. r.bits = p.bits
    BY EndFields
  <2> QED
    BY <2>1, <2>2, <2>3 DEF TopVertex, root
<1> HIDE DEF r
<1>18. PICK e \in edges : IsConnection(e, root, d, r)
  <2>1. Connected(d, r)
    BY <1>5, <1>16, <1>17 DEF Connected, Common, Wires
  <2>2. d \in DriversOf(root)
    BY <1>12
  <2> QED
    BY <1>1, <1>17, <2>1, <2>2 DEF Built
<1>19. e \in OutEdges(Home(d)) /\ e \in InEdges(TopVertex(p))
  BY <1>17, <1>18 DEF IsConnection, OutEdges, InEdges
<1>20. e.net.bits = p.bits
  <2>1. d \in DriversOf(root)
    BY <1>12
  <2>2. CASE Exact(nets, d.bits) # {}
    <3>1. e.net.bits = d.bits
      BY <1>1, <1>17, <1>18, <2>1, <2>2, EdgeNets
    <3>2. Whole(d.bits, OutEdges(Home(d))) # {}
      BY <1>19, <3>1 DEF Whole
    <3> QED
      BY <1>9, <1>13, <3>1, <3>2
  <2>3. CASE Exact(nets, d.bits) = {}
    <3>1. Exact(nets, r.bits) # {}
      BY <1>15, <1>17
    <3>2. e.net.bits = r.bits
      BY <1>1, <1>17, <1>18, <2>1, <2>3, <3>1, EdgeNets
    <3> QED
      BY <1>17, <3>2
  <2> QED
    BY <2>2, <2>3
<1> DEFINE es == InEdges(TopVertex(p))
<1>21. Whole(p.bits, es) # {}
  BY <1>19, <1>20 DEF Whole
<1>22. \A w \in Whole(p.bits, es) : w.net = net /\ w.level = root.level
  <2> TAKE w \in Whole(p.bits, es)
  <2>1. w \in InEdges(Home(r)) /\ w.net.bits = p.bits
    BY <1>17 DEF Whole
  <2>2. w.level = root.level
    BY <1>1, <1>17, <2>1, EdgeIn
  <2>3. PICK f \in DriversOf(root), q \in ReadersOf(root) : IsConnection(w, root, f, q)
    BY <1>1, <1>17, <2>1, EdgeIn
  <2>4. IsLabel(root, f, w.net)
    BY <1>1, <2>3, EdgeNets
  <2>5. w.net = FirstOf(nets, Exact(nets, w.net.bits))
    BY <2>4 DEF IsLabel
  <2> QED
    BY <1>14, <2>1, <2>2, <2>5
<1>23. /\ DOMAIN PortExpr(p.bits, es, s) = DOMAIN p.bits
       /\ \A n \in DOMAIN p.bits :
            PortExpr(p.bits, es, s)[n] = {NetBit(w, s, n) : w \in Whole(p.bits, es)}
  BY <1>16, <1>21, WholeBits
<1>24. \A n \in DOMAIN p.bits :
         {NetBit(w, s, n) : w \in Whole(p.bits, es)} = {VarBit(root.level, p.name, s, n)}
  <2>1. \A n : \A w \in Whole(p.bits, es) : NetBit(w, s, n) = VarBit(root.level, p.name, s, n)
    BY <1>11, <1>22 DEF NetBit
  <2> QED
    BY <1>21, <2>1
<1>25. OwnVariable(TopVertex(p), p.bits, s)
         = [n \in DOMAIN p.bits |-> {VarBit(root.level, p.name, s, n)}]
  <2>1. TopVertex(p).at = root.level
    BY PortVertexAt DEF TopVertex, root
  <2>2. TopVertex(p).port = p.name
    BY PortVertexPort DEF TopVertex
  <2> QED
    BY <2>1, <2>2 DEF OwnVariable
<1>26. PortExpr(p.bits, es, s) = [n \in DOMAIN PortExpr(p.bits, es, s) |-> PortExpr(p.bits, es, s)[n]]
  BY <1>21 DEF PortExpr
<1> QED
  BY <1>23, <1>24, <1>25, <1>26

LEMMA TopPortReads ==
  ASSUME Built, NEW x, NEW p, NEW t, TopDrive(x, p, t)
  PROVE  /\ PortReads(TopVertex(p), t) \in ReadsAt(t)
         /\ PortReads(TopVertex(p), t).vertex = x.vertex
         /\ PortReads(TopVertex(p), t).at = x.at
         /\ x.expr = OwnVariable(TopVertex(p), p.bits, t)
         /\ PortReads(TopVertex(p), t).expr = PortExpr(p.bits, InEdges(TopVertex(p)), t)
<1> DEFINE v == TopVertex(p)
<1>1. v \in ExportedPorts /\ p \in Range(ModuleOf(RootOf(design)).ports) /\ p.dir = "output"
  BY DEF TopDrive
<1>2. InsidePort(v) = p
  <2>1. design \in Designs /\ WellFormed(design) /\ RootOf(design) \in Instances(design)
    BY TopInstance DEF Built
  <2>2. InsidePort(PortVertex(RootOf(design).level, p.name)) = p
    BY <1>1, <2>1, Lookups
  <2> QED
    BY <2>2 DEF TopVertex
<1>3. x.vertex = v /\ x.at = t /\ x.expr = OwnVariable(v, p.bits, t)
  BY ExpressionFields DEF TopDrive, TopExpression
<1> HIDE DEF v
<1>4. PortReads(v, t) = Expression(v, v.port, v.at, p.bits, t, PortExpr(p.bits, InEdges(v), t))
  BY <1>1, <1>2 DEF PortReads
<1>5. /\ PortReads(v, t).vertex = v /\ PortReads(v, t).at = t
      /\ PortReads(v, t).expr = PortExpr(p.bits, InEdges(v), t)
  BY <1>4, ExpressionFields
<1>6. PortReads(v, t) \in ReadsAt(t)
  BY <1>1 DEF ReadsAt
<1> QED
  BY <1>3, <1>5, <1>6 DEF v

LEMMA ExportedGraph ==
  ASSUME DesignsAreWellFormed, BuildInv, Exported, NEW t \in 0 .. (time - 1)
  PROVE  Built /\ ReadsAt(t) \subseteq reads /\ DrivesAt(t) \subseteq drives
<1>1. time \in Nat /\ time > 0
  BY DEF Exported
<1>2. outcome \in {"built", "refused"}
  BY <1>1 DEF Exported
<1>3. Built
  BY <1>2, WhenBuilt
<1> QED
  BY <1>3 DEF Exported

LEMMA DrivesDiffer ==
  ASSUME Built, NamesSuffice, DrivenOnce(design), PortsAreNets(design),
         NEW t, NEW x \in DrivesAt(t), NEW s, NEW y \in DrivesAt(s),
         ReadsAt(t) \subseteq reads, ReadsAt(s) \subseteq reads,
         NEW k \in DOMAIN x.expr, NEW l \in DOMAIN y.expr, x.expr[k] \cap y.expr[l] # {}
  PROVE  (x = y /\ k = l) \/ Trivial(x) \/ Trivial(y)
<1>1. PICK v : v \in x.expr[k] /\ v \in y.expr[l]
  OBVIOUS
<1>2. ASSUME NEW i \in Instances(design), NEW d \in DriversOf(i), DriveOf(i, d, t) = x,
             NEW j \in Instances(design), NEW f \in DriversOf(j), DriveOf(j, f, s) = y
      PROVE  x = y /\ k = l
  <2>1. x.expr = PortExpr(d.bits, OutEdges(Home(d)), t)
    BY <1>2, ExpressionFields DEF DriveOf
  <2>2. y.expr = PortExpr(f.bits, OutEdges(Home(f)), s)
    BY <1>2, ExpressionFields DEF DriveOf
  <2>3. DrivesBit(i, d, t, k, v) /\ DrivesBit(j, f, s, l, v)
    BY <1>1, <2>1, <2>2 DEF DrivesBit
  <2>4. i = j /\ d = f /\ t = s /\ k = l
    BY <2>3, TwoDrivers
  <2> QED
    BY <1>2, <2>4
<1>3. ASSUME NEW i \in Instances(design), NEW d \in DriversOf(i), DriveOf(i, d, t) = x,
             NEW p, TopDrive(y, p, s)
      PROVE  Trivial(y)
  <2>1. x.expr = PortExpr(d.bits, OutEdges(Home(d)), t)
    BY <1>3, ExpressionFields DEF DriveOf
  <2>2. PortExpr(p.bits, InEdges(TopVertex(p)), s) = OwnVariable(TopVertex(p), p.bits, s)
    BY <1>1, <1>3, <2>1, OutputReadsItsName
  <2> QED
    BY <1>3, <2>2, TopPortReads DEF Trivial
<1>4. ASSUME NEW i \in Instances(design), NEW d \in DriversOf(i), DriveOf(i, d, s) = y,
             NEW p, TopDrive(x, p, t)
      PROVE  Trivial(x)
  <2>1. y.expr = PortExpr(d.bits, OutEdges(Home(d)), s)
    BY <1>4, ExpressionFields DEF DriveOf
  <2>2. PortExpr(p.bits, InEdges(TopVertex(p)), t) = OwnVariable(TopVertex(p), p.bits, t)
    BY <1>1, <1>4, <2>1, OutputReadsItsName
  <2> QED
    BY <1>4, <2>2, TopPortReads DEF Trivial
<1>5. ASSUME NEW p, TopDrive(x, p, t), NEW q, TopDrive(y, q, s)
      PROVE  x = y /\ k = l
  <2>1. VarBit(RootOf(design).level, p.name, t, k) = v
    BY <1>1, <1>5, TopBits
  <2>2. VarBit(RootOf(design).level, q.name, s, l) = v
    BY <1>1, <1>5, TopBits
  <2>3. p.name = q.name /\ t = s /\ k = l
    BY <2>1, <2>2, VarBitEqual
  <2>4. p \in Range(ModuleOf(RootOf(design)).ports) /\ q \in Range(ModuleOf(RootOf(design)).ports)
    BY <1>5 DEF TopDrive
  <2>5. /\ ModuleOf(RootOf(design)).ports \in Seq(PortType)
        /\ Keyed(ModuleOf(RootOf(design)).ports)
    BY TopInstance, ModuleFacts DEF Built
  <2>6. p = q
    BY <2>3, <2>4, <2>5, KeyedFacts
  <2> QED
    BY <1>5, <2>3, <2>6 DEF TopDrive
<1>6. \/ \E i \in Instances(design) : \E d \in DriversOf(i) : DriveOf(i, d, t) = x
      \/ \E p : TopDrive(x, p, t)
  BY DrivesAre
<1>7. \/ \E i \in Instances(design) : \E d \in DriversOf(i) : DriveOf(i, d, s) = y
      \/ \E p : TopDrive(y, p, s)
  BY DrivesAre
<1>8. CASE \E i \in Instances(design) : \E d \in DriversOf(i) : DriveOf(i, d, t) = x
  BY <1>2, <1>3, <1>7, <1>8
<1>9. CASE \E p : TopDrive(x, p, t)
  BY <1>4, <1>5, <1>7, <1>9
<1> QED
  BY <1>6, <1>8, <1>9

(* In no netlist whose wires have one driver each are two drivers equated  *)
(* with the same bit of a variable, whatever its nets are and in whichever *)
(* order the hash table has them.                                          *)
THEOREM DriversHaveTheirVariables ==
  ASSUME DesignsAreWellFormed, \A d \in Designs : DrivenOnce(d) /\ PortsAreNets(d)
  PROVE  Spec => []NoVariableHasTwoDrivers
<1>1. BuildInv /\ Exported => NoVariableHasTwoDrivers
  <2> SUFFICES ASSUME BuildInv, Exported, WellNamed(design),
                      NEW x \in drives, NEW y \in drives,
                      NEW k \in DOMAIN x.expr, NEW l \in DOMAIN y.expr,
                      x.expr[k] \cap y.expr[l] # {}
               PROVE  (x = y /\ k = l) \/ Trivial(x) \/ Trivial(y)
    BY DEF NoVariableHasTwoDrivers
  <2>1. design \in Designs /\ DrivenOnce(design) /\ PortsAreNets(design) /\ NamesSuffice
    BY DEF BuildInv, GraphTypes, NamesSuffice
  <2>2. PICK t \in 0 .. (time - 1) : x \in DrivesAt(t)
    BY DEF Exported
  <2>3. PICK s \in 0 .. (time - 1) : y \in DrivesAt(s)
    BY DEF Exported
  <2>4. Built /\ ReadsAt(t) \subseteq reads /\ ReadsAt(s) \subseteq reads
    BY <2>2, <2>3, ExportedGraph
  <2> QED
    BY <2>1, <2>2, <2>3, <2>4, DrivesDiffer
<1>2. Spec => []BuildInv
  BY GraphIsBuilt
<1>3. Spec => []Exported
  BY EquationsAreExported
<1> QED
  BY <1>1, <1>2, <1>3, PTL

-----------------------------------------------------------------------------
(* The reads follow the netlist                                            *)

(* The net that every edge from d is labelled with, if d has one of its own *)
NetOf(i, d) == FirstOf(ModuleOf(i).nets, Exact(ModuleOf(i).nets, d.bits))

VariableBit(i, d, t, l) == VarBit(i.level, NetOf(i, d).name, t, l)

LEMMA OwnNet ==
  ASSUME Built, DriversHaveNets(design), NEW i \in Instances(design), NEW d \in DriversOf(i)
  PROVE  Exact(ModuleOf(i).nets, d.bits) # {} /\ NetOf(i, d).bits = d.bits
<1> DEFINE nets == ModuleOf(i).nets
<1>1. nets \in Seq(NetType)
  BY ModuleFacts DEF Built
<1>2. PICK n \in Range(nets) : n.bits = d.bits
  BY DEF DriversHaveNets, DriversOf, ModuleOf
<1> HIDE DEF nets
<1>3. PICK k \in DOMAIN nets : nets[k] = n
  BY <1>1, RangeFacts
<1>4. Exact(nets, d.bits) # {}
  BY <1>2, <1>3 DEF Exact
<1>5. FirstOf(nets, Exact(nets, d.bits)).bits = d.bits
  BY <1>1, <1>4, FirstExact
<1> QED
  BY <1>4, <1>5 DEF NetOf, nets

LEMMA OwnNetOnEdge ==
  ASSUME Built, DriversHaveNets(design), NEW i \in Instances(design), NEW d \in DriversOf(i),
         NEW r \in ReadersOf(i), NEW e, IsConnection(e, i, d, r)
  PROVE  e.net = NetOf(i, d) /\ e.level = i.level
<1>1. Labelled(ModuleOf(i).nets, d, r, e.net) /\ e.level = i.level
  BY DEF IsConnection, NamesSuffice
<1>2. Exact(ModuleOf(i).nets, d.bits) # {}
  BY OwnNet
<1> QED
  BY <1>1, <1>2 DEF Labelled, NetOf

LEMMA WholeLength ==
  ASSUME NEW bits \in Seq(Nat), NEW es, NEW t, Whole(bits, es) # {}
  PROVE  Len(PortExpr(bits, es, t)) = Len(bits)
<1> DEFINE bit(k) == {NetBit(e, t, k) : e \in Whole(bits, es)}
           S == {bit(k) : k \in 1 .. Len(bits)}
           x == [k \in 1 .. Len(bits) |-> bit(k)]
<1>1. DOMAIN bits = 1 .. Len(bits) /\ Len(bits) \in Nat
  BY RangeFacts
<1>2. PortExpr(bits, es, t) = x
  BY <1>1 DEF PortExpr
<1> HIDE DEF bit
<1>3. x \in [1 .. Len(bits) -> S]
  OBVIOUS
<1> HIDE DEF x, S
<1>4. Len(x) = Len(bits)
  BY <1>1, <1>3
<1> QED
  BY <1>2, <1>4

(* What a connected driver's expression is                                 *)
LEMMA DriverIsItsNet ==
  ASSUME Built, DriversHaveNets(design), NEW i \in Instances(design), NEW d \in DriversOf(i),
         NEW r \in ReadersOf(i), Connected(d, r), NEW t
  PROVE  /\ Whole(d.bits, OutEdges(Home(d))) # {}
         /\ DOMAIN PortExpr(d.bits, OutEdges(Home(d)), t) = DOMAIN d.bits
         /\ Len(PortExpr(d.bits, OutEdges(Home(d)), t)) = Len(d.bits)
         /\ \A l \in DOMAIN d.bits :
              PortExpr(d.bits, OutEdges(Home(d)), t)[l] = {VariableBit(i, d, t, l)}
<1> DEFINE es == OutEdges(Home(d))
<1>1. d.bits \in Seq(Nat)
  BY EndsInInstance DEF Built
<1>2. PICK e \in edges : IsConnection(e, i, d, r)
  BY DEF Built
<1>3. e \in es
  BY <1>2 DEF IsConnection, OutEdges
<1>4. e.net.bits = d.bits
  BY <1>2, OwnNet, OwnNetOnEdge
<1>5. \A w \in Whole(d.bits, es) : w.net = NetOf(i, d) /\ w.level = i.level
  <2> TAKE w \in Whole(d.bits, es)
  <2>1. w \in es /\ w.net.bits = d.bits
    BY DEF Whole
  <2>2. PICK f \in DriversOf(i), q \in ReadersOf(i) : IsConnection(w, i, f, q)
    BY <2>1, EdgeOut
  <2>3. w.net = NetOf(i, f) /\ w.level = i.level
    BY <2>2, OwnNetOnEdge
  <2>4. f.bits = d.bits
    BY <2>1, <2>3, OwnNet
  <2> QED
    BY <2>3, <2>4 DEF NetOf
<1> HIDE DEF es
<1>6. Whole(d.bits, es) # {}
  BY <1>3, <1>4 DEF Whole
<1>7. DOMAIN PortExpr(d.bits, es, t) = DOMAIN d.bits
  BY <1>1, <1>6, WholeBits
<1>8. \A l \in DOMAIN d.bits :
        PortExpr(d.bits, es, t)[l] = {NetBit(w, t, l) : w \in Whole(d.bits, es)}
  BY <1>1, <1>6, WholeBits
<1>9. \A l : {NetBit(w, t, l) : w \in Whole(d.bits, es)} = {VariableBit(i, d, t, l)}
  <2>1. \A l : \A w \in Whole(d.bits, es) : NetBit(w, t, l) = VariableBit(i, d, t, l)
    BY <1>5 DEF NetBit, VariableBit
  <2> QED
    BY <1>6, <2>1
<1>10. Len(PortExpr(d.bits, es, t)) = Len(d.bits)
  BY <1>1, <1>6, WholeLength
<1> QED
  BY <1>6, <1>7, <1>8, <1>9, <1>10 DEF es

(* The driver of a bit that is read                                        *)
DriverOfBit(i, r, b, d, l) ==
  d \in DriversOf(i) /\ l \in DOMAIN d.bits /\ d.bits[l] = b /\ Connected(d, r)

LEMMA WiresAreDriven ==
  ASSUME Built, AllDriven(design), NEW i \in Instances(design), NEW r \in ReadersOf(i),
         NEW k \in DOMAIN r.bits, r.bits[k] \notin {0, 1}
  PROVE  \E d, l : DriverOfBit(i, r, r.bits[k], d, l)
<1> DEFINE b == r.bits[k]
<1>1. r.bits \in Seq(Nat)
  BY EndsInInstance DEF Built
<1>2. b \in Range(r.bits) /\ b \notin {0, 1}
  BY <1>1, RangeFacts
<1> HIDE DEF b
<1>3. b \in Wires(r.bits)
  BY <1>2 DEF Wires
<1>4. PICK d \in DriversOf(i) : b \in Range(d.bits)
  BY <1>3 DEF AllDriven, DriversOf, ReadersOf, ModuleOf
<1>5. d.bits \in Seq(Nat)
  BY EndsInInstance DEF Built
<1>6. PICK l \in DOMAIN d.bits : d.bits[l] = b
  BY <1>4, <1>5, RangeFacts
<1>7. Connected(d, r)
  BY <1>2, <1>4 DEF Connected, Common, Wires
<1>8. DriverOfBit(i, r, b, d, l)
  BY <1>6, <1>7 DEF DriverOfBit
<1> QED
  BY <1>8 DEF b

(* The edges to a reader that have a bit all have its driver's net.        *)
LEMMA NetsOfABit ==
  ASSUME Built, DriversHaveNets(design), DrivenOnce(design),
         NEW i \in Instances(design), NEW r \in ReadersOf(i),
         NEW b, NEW d, NEW l, DriverOfBit(i, r, b, d, l),
         NEW w \in InEdges(Home(r)), b \in Range(w.net.bits)
  PROVE  w.net = NetOf(i, d) /\ w.level = i.level
<1>1. PICK f \in DriversOf(i), q \in ReadersOf(i) : IsConnection(w, i, f, q)
  BY EdgeIn
<1>2. w.net = NetOf(i, f) /\ w.level = i.level
  BY <1>1, OwnNetOnEdge
<1>3. b \in Range(f.bits) /\ f.bits \in Seq(Nat)
  BY <1>2, OwnNet, EndsInInstance DEF Built
<1>4. PICK m \in DOMAIN f.bits : f.bits[m] = b
  BY <1>3, RangeFacts
<1>5. f = d
  BY <1>4, DrivenOnceFacts DEF DriverOfBit
<1> QED
  BY <1>2, <1>5

LEMMA NetOnReadersEdge ==
  ASSUME Built, DriversHaveNets(design),
         NEW i \in Instances(design), NEW r \in ReadersOf(i),
         NEW b, NEW d, NEW l, DriverOfBit(i, r, b, d, l)
  PROVE  /\ d.bits \in Seq(Nat) /\ NetOf(i, d).bits = d.bits /\ b \in Range(d.bits)
         /\ \E w \in InEdges(Home(r)) : w.net = NetOf(i, d)
<1>1. d \in DriversOf(i) /\ d.bits[l] = b /\ Connected(d, r) /\ l \in DOMAIN d.bits
  BY DEF DriverOfBit
<1>2. d.bits \in Seq(Nat)
  BY <1>1, EndsInInstance DEF Built
<1>3. PICK e \in edges : IsConnection(e, i, d, r)
  BY <1>1 DEF Built
<1>4. e \in InEdges(Home(r)) /\ e.net = NetOf(i, d)
  BY <1>1, <1>3, OwnNetOnEdge DEF IsConnection, InEdges
<1>5. b \in Range(d.bits)
  BY <1>1, <1>2, RangeFacts
<1> QED
  BY <1>1, <1>2, <1>4, <1>5, OwnNet

LEMMA BitOfTheDriver ==
  ASSUME Built, DriversHaveNets(design), DrivenOnce(design),
         NEW i \in Instances(design), NEW r \in ReadersOf(i),
         NEW b, b \notin {0, 1}, NEW d, NEW l, DriverOfBit(i, r, b, d, l), NEW t
  PROVE  BitOfNets(b, InEdges(Home(r)), t) = {VariableBit(i, d, t, l)}
<1> DEFINE es == {e \in InEdges(Home(r)) : b \in Range(e.net.bits)}
<1>1. BitOfNets(b, InEdges(Home(r)), t) = {NetBit(e, t, Place(b, e.net.bits)) : e \in es}
  BY DEF BitOfNets
<1>2. d.bits \in Seq(Nat) /\ NetOf(i, d).bits = d.bits /\ b \in Range(d.bits)
  BY NetOnReadersEdge
<1>3. PICK w \in InEdges(Home(r)) : w.net = NetOf(i, d)
  BY NetOnReadersEdge
<1>4. Place(b, d.bits) = l
  <2>1. Place(b, d.bits) \in DOMAIN d.bits /\ d.bits[Place(b, d.bits)] = b
    BY <1>2, PlaceFacts
  <2> QED
    BY <2>1, DrivenOnceFacts DEF DriverOfBit
<1>5. \A e \in es : NetBit(e, t, Place(b, e.net.bits)) = VariableBit(i, d, t, l)
  <2> TAKE e \in es
  <2>1. e.net = NetOf(i, d) /\ e.level = i.level
    BY NetsOfABit
  <2> QED
    BY <1>2, <1>4, <2>1 DEF NetBit, VariableBit
<1>6. w \in es
  BY <1>2, <1>3
<1> HIDE DEF es
<1> QED
  BY <1>1, <1>5, <1>6

LEMMA BitOfAConstant ==
  ASSUME NEW b \in {0, 1}, NEW es, NEW t
  PROVE  BitOfNets(b, es, t) = {ConstBit(b)}
BY DEF BitOfNets

(* What a reader's expression is                                           *)
ReadsBit(i, r, t, k) ==
  LET x == PortExpr(r.bits, InEdges(Home(r)), t)
  IN \/ r.bits[k] \in {0, 1} /\ x[k] = {ConstBit(r.bits[k])}
     \/ \E d, l : DriverOfBit(i, r, r.bits[k], d, l) /\ x[k] = {VariableBit(i, d, t, l)}

LEMMA ReaderIsWhole ==
  ASSUME Built, DriversHaveNets(design), DrivenOnce(design), AllDriven(design),
         NEW i \in Instances(design), NEW r \in ReadersOf(i), NEW t,
         Whole(r.bits, InEdges(Home(r))) # {}
  PROVE  /\ Len(PortExpr(r.bits, InEdges(Home(r)), t)) = Len(r.bits)
         /\ \A k \in DOMAIN r.bits : ReadsBit(i, r, t, k)
<1> DEFINE es == InEdges(Home(r))
<1>1. r.bits \in Seq(Nat)
  BY EndsInInstance DEF Built
<1>2. \A w \in Whole(r.bits, es) : w \in es /\ w.net.bits = r.bits
  BY DEF Whole
<1>3. PICK w \in Whole(r.bits, es) : TRUE
  OBVIOUS
<1>4. PICK f \in DriversOf(i), q \in ReadersOf(i) : IsConnection(w, i, f, q)
  BY <1>2, <1>3, EdgeIn
<1>5. f.bits = r.bits
  BY <1>2, <1>3, <1>4, OwnNet, OwnNetOnEdge
<1>6. ASSUME NEW k \in DOMAIN r.bits
      PROVE  ReadsBit(i, r, t, k)
  <2> DEFINE b == r.bits[k]
  <2>1. b \notin {0, 1}
    BY <1>5, DrivenOnceFacts
  <2>2. PICK d, l : DriverOfBit(i, r, b, d, l)
    BY <2>1, WiresAreDriven
  <2>3. d \in DriversOf(i) /\ d.bits[l] = b /\ l \in DOMAIN d.bits
    BY <2>2 DEF DriverOfBit
  <2>4. f = d /\ k = l
    BY <1>5, <2>3, DrivenOnceFacts
  <2>5. b \in Range(r.bits)
    BY <1>1, RangeFacts
  <2>6. \A e \in Whole(r.bits, es) : NetBit(e, t, k) = VariableBit(i, d, t, l)
    <3> TAKE e \in Whole(r.bits, es)
    <3>1. e \in InEdges(Home(r)) /\ b \in Range(e.net.bits)
      BY <1>2, <2>5
    <3> HIDE DEF b
    <3>2. e.net = NetOf(i, d) /\ e.level = i.level
      BY <2>2, <3>1, NetsOfABit
    <3> QED
      BY <2>4, <3>2 DEF NetBit, VariableBit
  <2>7. PortExpr(r.bits, es, t)[k] = {NetBit(e, t, k) : e \in Whole(r.bits, es)}
    BY <1>1, WholeBits
  <2>8. {NetBit(e, t, k) : e \in Whole(r.bits, es)} = {VariableBit(i, d, t, l)}
    BY <2>6
  <2> QED
    BY <2>2, <2>7, <2>8 DEF ReadsBit
<1>7. Len(PortExpr(r.bits, es, t)) = Len(r.bits)
  BY <1>1, WholeLength
<1> QED
  BY <1>6, <1>7

LEMMA ReaderIsBitByBit ==
  ASSUME Built, DriversHaveNets(design), DrivenOnce(design), AllDriven(design),
         NEW i \in Instances(design), NEW r \in ReadersOf(i), NEW t,
         Whole(r.bits, InEdges(Home(r))) = {}
  PROVE  /\ Len(PortExpr(r.bits, InEdges(Home(r)), t)) = Len(r.bits)
         /\ \A k \in DOMAIN r.bits : ReadsBit(i, r, t, k)
<1> DEFINE es == InEdges(Home(r))
           bit(k) == BitOfNets(r.bits[k], es, t)
           S == {bit(k) : k \in 1 .. Len(r.bits)}
           seq == [k \in DOMAIN r.bits |-> BitOfNets(r.bits[k], es, t)]
<1>1. r.bits \in Seq(Nat) /\ DOMAIN r.bits = 1 .. Len(r.bits) /\ Len(r.bits) \in Nat
  BY EndsInInstance, RangeFacts DEF Built
<1>2. \A k \in DOMAIN r.bits : bit(k) # {}
  <2> TAKE k \in DOMAIN r.bits
  <2>1. CASE r.bits[k] \in {0, 1}
    BY <2>1, BitOfAConstant
  <2>2. CASE r.bits[k] \notin {0, 1}
    <3>1. PICK d, l : DriverOfBit(i, r, r.bits[k], d, l)
      BY <2>2, WiresAreDriven
    <3>2. bit(k) = {VariableBit(i, d, t, l)}
      BY <2>2, <3>1, BitOfTheDriver
    <3> QED
      BY <3>2
  <2> QED
    BY <2>1, <2>2
<1>3. {k \in DOMAIN r.bits : BitOfNets(r.bits[k], es, t) # {}} = DOMAIN seq
  BY <1>2
<1>4. PortExpr(r.bits, es, t) = Sublist(seq, DOMAIN seq)
  BY <1>3 DEF PortExpr, BitByBit
<1>5. \A k \in DOMAIN r.bits : seq[k] = bit(k)
  OBVIOUS
<1>6. seq \in [1 .. Len(r.bits) -> S]
  BY <1>1
<1>7. \A k : bit(k) = BitOfNets(r.bits[k], InEdges(Home(r)), t)
  OBVIOUS
<1> HIDE DEF seq, S, bit
<1>8. seq \in Seq(S) /\ Len(seq) = Len(r.bits)
  BY <1>1, <1>6
<1>9. PortExpr(r.bits, es, t) = seq
  BY <1>4, <1>8, WholeSublist
<1>10. ASSUME NEW k \in DOMAIN r.bits
       PROVE  ReadsBit(i, r, t, k)
  <2>1. PortExpr(r.bits, InEdges(Home(r)), t)[k] = BitOfNets(r.bits[k], InEdges(Home(r)), t)
    BY <1>5, <1>7, <1>9
  <2>2. CASE r.bits[k] \in {0, 1}
    BY <2>1, <2>2, BitOfAConstant DEF ReadsBit
  <2>3. CASE r.bits[k] \notin {0, 1}
    <3>1. PICK d, l : DriverOfBit(i, r, r.bits[k], d, l)
      BY <2>3, WiresAreDriven
    <3>2. BitOfNets(r.bits[k], InEdges(Home(r)), t) = {VariableBit(i, d, t, l)}
      BY <2>3, <3>1, BitOfTheDriver
    <3> QED
      BY <2>1, <3>1, <3>2 DEF ReadsBit
  <2> QED
    BY <2>2, <2>3
<1> QED
  BY <1>8, <1>9, <1>10

LEMMA ReaderBits ==
  ASSUME Built, DriversHaveNets(design), DrivenOnce(design), AllDriven(design),
         NEW i \in Instances(design), NEW r \in ReadersOf(i), NEW t
  PROVE  /\ Len(PortExpr(r.bits, InEdges(Home(r)), t)) = Len(r.bits)
         /\ \A k \in DOMAIN r.bits : ReadsBit(i, r, t, k)
<1>1. CASE Whole(r.bits, InEdges(Home(r))) # {}
  BY <1>1, ReaderIsWhole
<1>2. CASE Whole(r.bits, InEdges(Home(r))) = {}
  BY <1>2, ReaderIsBitByBit
<1> QED
  BY <1>1, <1>2

(* A driver that something reads is exported at every time step, unless it *)
(* is a register's and the step is the first.                              *)
RegisterOutput(i, d) ==
  \E c \in Range(ModuleOf(i).cells) :
    c.type \in RegisterTypes /\ \E p \in Ports(c.ports, "output") : p.bits = d.bits

LEMMA ModuleDriveExported ==
  ASSUME Built, NEW i \in Instances(design), NEW d \in DriversOf(i), NEW r \in ReadersOf(i),
         Connected(d, r), NEW p, OfModule(i, d, p), p.dir = "input", NEW t
  PROVE  DriveOf(i, d, t) \in DrivesAt(t)
<1> DEFINE v == PortVertex(i.level, p.name)
<1>1. design \in Designs /\ WellFormed(design) /\ p \in Range(ModuleOf(i).ports)
  BY DEF Built, OfModule
<1>2. d = End(PortVertex(i.level, p.name), p)
  BY DEF OfModule
<1>3. Home(d) = v
  BY <1>1, ModulePortsNamed
<1>4. v \in vertices
  BY <1>1 DEF Built, Lasting, PortVertices
<1>5. InsidePort(v) = p
  BY <1>1, Lookups
<1>6. v.port # ""
  <2>1. p.name # ""
    BY <1>1, ModulePortsNamed
  <2> QED
    BY <2>1, PortVertexPort
<1>7. PICK e \in edges : IsConnection(e, i, d, r)
  BY DEF Built
<1>8. OutEdges(v) # {}
  BY <1>3, <1>7 DEF IsConnection, OutEdges
<1>9. v.at = i.level
  BY PortVertexAt
<1>10. v.port = p.name
  BY PortVertexPort
<1> HIDE DEF v
<1>11. v \in ExportedPorts
  BY <1>4, <1>5, <1>6, <1>8 DEF ExportedPorts
<1>12. PortDrives(v, t)
         = Expression(v, v.port, v.at, p.bits, t, PortExpr(p.bits, OutEdges(v), t))
  BY <1>5 DEF PortDrives
<1>13. d.port = p.name /\ d.bits = p.bits
  BY <1>2, EndFields
<1>14. DriveOf(i, d, t) = PortDrives(v, t)
  BY <1>3, <1>9, <1>10, <1>12, <1>13 DEF DriveOf
<1> QED
  BY <1>11, <1>14 DEF DrivesAt

LEMMA CellDriveExported ==
  ASSUME Built, DriversHaveNets(design),
         NEW i \in Instances(design), NEW d \in DriversOf(i), NEW r \in ReadersOf(i),
         Connected(d, r), NEW c, NEW p, OfCell(i, d, c, p), p.dir = "output",
         ~IsModule(design, c), NEW l \in DOMAIN d.bits, NEW t,
         t # 0 \/ c.type \notin RegisterTypes
  PROVE  DriveOf(i, d, t) \in DrivesAt(t)
<1> DEFINE v == CellVertex(i.level, c)
<1>1. /\ design \in Designs /\ WellFormed(design)
      /\ c \in Range(ModuleOf(i).cells) /\ p \in Range(c.ports)
  BY DEF Built, OfCell
<1>2. d = End(CellVertex(i.level, c), p)
  BY DEF OfCell
<1>3. Home(d) = v
  BY <1>1, HomeOfCell
<1>4. v \in vertices
  BY <1>1 DEF Built, Lasting
<1>5. CellOf(v) = c
  BY <1>1, Lookups
<1>6. v.cell # ""
  <2>1. c.name # ""
    BY <1>1, ModuleFacts
  <2>2. CellVertex(i.level, c).cell = c.name
    BY CellVertexFields
  <2> QED
    BY <2>1, <2>2
<1>7. PICK e \in edges : IsConnection(e, i, d, r)
  BY DEF Built
<1>8. OutEdges(v) # {}
  BY <1>3, <1>7 DEF IsConnection, OutEdges
<1>9. v.at = i.level
  BY CellVertexAt
<1> HIDE DEF v
<1>10. v \in ExportedCells(t)
  BY <1>4, <1>5, <1>6, <1>8 DEF ExportedCells, IsRegister
<1>11. d.port = p.name /\ d.bits = p.bits
  BY <1>2, EndFields
<1>12. p \in Ports(CellOf(v).ports, "output")
  BY <1>1, <1>5 DEF Ports
<1>13. PortExpr(p.bits, OutEdges(v), t) # <<>>
  <2>1. DOMAIN PortExpr(d.bits, OutEdges(Home(d)), t) = DOMAIN d.bits
    BY DriverIsItsNet
  <2>2. l \in DOMAIN PortExpr(p.bits, OutEdges(v), t)
    BY <1>3, <1>11, <2>1
  <2> QED
    BY <2>2
<1>14. DriveOf(i, d, t) = Expression(v, p.name, v.at, p.bits, t, PortExpr(p.bits, OutEdges(v), t))
  BY <1>3, <1>9, <1>11 DEF DriveOf
<1> HIDE DEF DriveOf
<1>15. DriveOf(i, d, t) \in CellDrives(t)
  BY <1>10, <1>12, <1>13, <1>14 DEF CellDrives
<1> QED
  BY <1>15 DEF DrivesAt

LEMMA OutsideDriveExported ==
  ASSUME Built, DriversHaveNets(design), AllDriven(design),
         NEW i \in Instances(design), NEW d \in DriversOf(i),
         NEW c, NEW q, OfCell(i, d, c, q), q.dir = "output", IsModule(design, c), NEW t
  PROVE  DriveOf(i, d, t) \in DrivesAt(t)
<1> DEFINE j == Child(i, c)
           v == PortVertex(j.level, q.name)
<1>1. /\ design \in Designs /\ WellFormed(design)
      /\ c \in Range(ModuleOf(i).cells) /\ q \in Range(c.ports)
  BY DEF Built, OfCell
<1>2. d = End(CellVertex(i.level, c), q)
  BY DEF OfCell
<1>3. Home(d) = v
  BY <1>1, HomeOutside
<1>4. j \in Instances(design) /\ Len(j.level) > 1 /\ Front(j.level) = i.level
  BY <1>1, ChildPorts
<1>5. OutsidePort(v) = q
  BY <1>1, ChildPorts
<1>6. PICK p \in Range(ModuleOf(j).ports) : p.name = q.name /\ p.dir = q.dir
  BY <1>1, ChildPorts
<1>7. v = PortVertex(j.level, p.name)
  BY <1>6
<1>8. v.at = j.level
  BY PortVertexAt
<1>9. v.port = q.name
  BY PortVertexPort
<1> HIDE DEF j, v
<1>10. InsidePort(v) = p
  BY <1>1, <1>4, <1>7, Lookups
<1>11. v \in vertices
  BY <1>4, <1>7 DEF Built, Lasting, PortVertices
<1>12. v.port # ""
  BY <1>1, <1>9, CellPortsNamed
<1>13. InEdges(v) # {}
  <2> DEFINE r == End(PortVertex(j.level, p.name), p)
  <2>1. r \in ReadersOf(j)
    BY <1>4, <1>6, InsideEnd
  <2>2. Home(r) = v
    BY <1>4, <1>7, InsideEnd
  <2>3. r.bits = p.bits
    BY EndFields
  <2> HIDE DEF r
  <2>4. p \in Ports(ModuleOf(j).ports, "output")
    BY <1>6 DEF Ports
  <2>5. PICK b : b \in Wires(p.bits)
    BY <1>4, <2>4 DEF DriversHaveNets, ModuleOf
  <2>6. r.bits \in Seq(Nat)
    BY <1>1, <1>4, <2>1, EndsInInstance
  <2>7. b \in Range(r.bits) /\ b \notin {0, 1}
    BY <2>3, <2>5 DEF Wires
  <2>8. PICK k \in DOMAIN r.bits : r.bits[k] = b
    BY <2>6, <2>7, RangeFacts
  <2>9. PICK f, m : DriverOfBit(j, r, r.bits[k], f, m)
    BY <1>4, <2>1, <2>7, <2>8, WiresAreDriven
  <2>10. PICK e \in edges : IsConnection(e, j, f, r)
    BY <1>4, <2>1, <2>9 DEF Built, DriverOfBit
  <2> QED
    BY <2>2, <2>10 DEF IsConnection, InEdges
<1>14. v \in ExportedPorts
  BY <1>6, <1>10, <1>11, <1>12, <1>13 DEF ExportedPorts
<1>15. ~IsRootPort(v)
  <2>1. Len(v.at) > 1
    BY <1>4, <1>8
  <2>2. j.level \in Seq(STRING)
    BY <1>1, <1>4, ModuleFacts
  <2>3. Len(v.at) \in Nat
    BY <1>8, <2>2
  <2>4. \A n \in Nat : n > 1 => n # 1
    OBVIOUS
  <2> QED
    BY <2>1, <2>3, <2>4 DEF IsRootPort
<1>16. PortDrives(v, t)
         = Expression(v, v.port, Front(v.at), q.bits, t, PortExpr(q.bits, OutEdges(v), t))
  BY <1>5, <1>6, <1>10, <1>15 DEF PortDrives
<1>17. d.port = q.name /\ d.bits = q.bits
  BY <1>2, EndFields
<1>18. DriveOf(i, d, t) = PortDrives(v, t)
  BY <1>3, <1>4, <1>8, <1>9, <1>16, <1>17 DEF DriveOf
<1> QED
  BY <1>14, <1>18 DEF DrivesAt

LEMMA DriveExported ==
  ASSUME Built, DriversHaveNets(design), AllDriven(design),
         NEW i \in Instances(design), NEW d \in DriversOf(i), NEW r \in ReadersOf(i),
         Connected(d, r), NEW l \in DOMAIN d.bits, NEW t
  PROVE  DriveOf(i, d, t) \in DrivesAt(t) \/ (t = 0 /\ RegisterOutput(i, d))
<1>1. ASSUME NEW p, OfModule(i, d, p), p.dir = "input"
      PROVE  DriveOf(i, d, t) \in DrivesAt(t)
  BY <1>1, ModuleDriveExported
<1>2. ASSUME NEW c, NEW p, OfCell(i, d, c, p), p.dir = "output"
      PROVE  DriveOf(i, d, t) \in DrivesAt(t) \/ (t = 0 /\ RegisterOutput(i, d))
  <2>1. CASE IsModule(design, c)
    BY <1>2, <2>1, OutsideDriveExported
  <2>2. CASE ~IsModule(design, c) /\ (t # 0 \/ c.type \notin RegisterTypes)
    BY <1>2, <2>2, CellDriveExported
  <2>3. CASE t = 0 /\ c.type \in RegisterTypes
    <3>1. d = End(CellVertex(i.level, c), p) /\ c \in Range(ModuleOf(i).cells) /\ p \in Range(c.ports)
      BY <1>2 DEF OfCell
    <3>2. d.bits = p.bits
      BY <3>1, EndFields
    <3>3. p \in Ports(c.ports, "output")
      BY <1>2, <3>1 DEF Ports
    <3> QED
      BY <2>3, <3>1, <3>2, <3>3 DEF RegisterOutput
  <2> QED
    BY <2>1, <2>2, <2>3
<1>3. (\E p : OfModule(i, d, p) /\ p.dir = "input")
        \/ (\E c, p : OfCell(i, d, c, p) /\ p.dir = "output")
  BY EndFacts DEF Built
<1> QED
  BY <1>1, <1>2, <1>3

(* So the variable that stands for a bit of a driver is constrained.       *)
LEMMA VariableIsDriven ==
  ASSUME Built, DriversHaveNets(design), AllDriven(design),
         NEW i \in Instances(design), NEW d \in DriversOf(i), NEW r \in ReadersOf(i),
         Connected(d, r), NEW l \in DOMAIN d.bits, NEW t, DrivesAt(t) \subseteq drives
  PROVE  /\ VariableBit(i, d, t, l)[3] = t
         /\ Driven(i.level, d.bits[l], VariableBit(i, d, t, l))
<1> DEFINE v == VariableBit(i, d, t, l)
           x == DriveOf(i, d, t)
<1>1. v[3] = t
  BY DEF VariableBit, VarBit
<1>2. CASE x \in drives
  <2>1. x.level = i.level
    BY ExpressionFields DEF DriveOf
  <2>2. x.at = t
    BY ExpressionFields DEF DriveOf
  <2>3. x.bits = d.bits
    BY ExpressionFields DEF DriveOf
  <2>4. x.expr = PortExpr(d.bits, OutEdges(Home(d)), t)
    BY ExpressionFields DEF DriveOf
  <2>5. DOMAIN PortExpr(d.bits, OutEdges(Home(d)), t) = DOMAIN d.bits
    BY DriverIsItsNet
  <2>6. PortExpr(d.bits, OutEdges(Home(d)), t)[l] = {v}
    BY DriverIsItsNet
  <2> HIDE DEF x, v
  <2>7. l \in DOMAIN x.expr /\ x.bits[l] = d.bits[l] /\ x.expr[l] = {v}
    BY <2>3, <2>4, <2>5, <2>6
  <2>8. Driven(i.level, d.bits[l], v)
    BY <1>1, <1>2, <2>1, <2>2, <2>7 DEF Driven
  <2> QED
    BY <1>1, <2>8 DEF v
<1>3. CASE t = 0 /\ RegisterOutput(i, d)
  <2>1. PICK c \in Range(ModuleOf(i).cells) :
          c.type \in RegisterTypes /\ \E p \in Ports(c.ports, "output") : p.bits = d.bits
    BY <1>3 DEF RegisterOutput
  <2>2. PICK p \in Ports(c.ports, "output") : p.bits = d.bits
    BY <2>1
  <2>3. ModuleAt(i.level) = ModuleOf(i) /\ d.bits \in Seq(Nat)
    BY Lookups, EndsInInstance DEF Built
  <2>4. d.bits[l] \in Range(p.bits)
    BY <2>2, <2>3, RangeFacts
  <2> HIDE DEF v
  <2>5. InitialValue(i.level, d.bits[l], v)
    BY <1>1, <1>3, <2>1, <2>2, <2>3, <2>4 DEF InitialValue
  <2> QED
    BY <1>1, <2>5 DEF Driven, v
<1>4. x \in drives \/ (t = 0 /\ RegisterOutput(i, d))
  BY DriveExported
<1> QED
  BY <1>2, <1>3, <1>4

(* What ReadsFollowTheNetlist says of one expression                       *)
Follows(x) ==
  /\ Len(x.expr) = Len(x.bits)
  /\ \A i \in DOMAIN x.bits :
       \/ x.bits[i] \in {0, 1} /\ x.expr[i] = {ConstBit(x.bits[i])}
       \/ \E v \in x.expr[i] : /\ x.expr[i] = {v} /\ v[3] = TimeRead(x)
                             /\ Driven(x.level, x.bits[i], v)
       \/ /\ IsRootPort(x.vertex) /\ x.vertex.port # "" /\ InsidePort(x.vertex).dir = "input"
          /\ x.expr = OwnVariable(x.vertex, x.bits, x.at)

LEMMA ReaderFollows ==
  ASSUME Built, DriversHaveNets(design), DrivenOnce(design), AllDriven(design),
         NEW i \in Instances(design), NEW r \in ReadersOf(i), NEW t, NEW at,
         DrivesAt(t) \subseteq drives, NEW x, ReadOf(i, r, t, at) = x, TimeRead(x) = t
  PROVE  Follows(x)
<1>1. x.level = i.level
  BY ExpressionFields DEF ReadOf
<1>2. x.bits = r.bits
  BY ExpressionFields DEF ReadOf
<1>3. x.expr = PortExpr(r.bits, InEdges(Home(r)), t)
  BY ExpressionFields DEF ReadOf
<1>4. Len(x.expr) = Len(x.bits)
  BY <1>2, <1>3, ReaderBits
<1>5. ASSUME NEW k \in DOMAIN x.bits
      PROVE  \/ x.bits[k] \in {0, 1} /\ x.expr[k] = {ConstBit(x.bits[k])}
             \/ \E v \in x.expr[k] : /\ x.expr[k] = {v} /\ v[3] = TimeRead(x)
                                   /\ Driven(x.level, x.bits[k], v)
  <2>1. ReadsBit(i, r, t, k)
    BY <1>2, ReaderBits
  <2>2. CASE r.bits[k] \in {0, 1} /\ x.expr[k] = {ConstBit(r.bits[k])}
    BY <1>2, <2>2
  <2>3. CASE \E d, l : DriverOfBit(i, r, r.bits[k], d, l) /\ x.expr[k] = {VariableBit(i, d, t, l)}
    <3>1. PICK d, l : DriverOfBit(i, r, r.bits[k], d, l) /\ x.expr[k] = {VariableBit(i, d, t, l)}
      BY <2>3
    <3>2. /\ d \in DriversOf(i) /\ l \in DOMAIN d.bits /\ d.bits[l] = r.bits[k]
          /\ Connected(d, r)
      BY <3>1 DEF DriverOfBit
    <3>3. VariableBit(i, d, t, l)[3] = t
      BY <3>2, VariableIsDriven
    <3>4. Driven(i.level, d.bits[l], VariableBit(i, d, t, l))
      BY <3>2, VariableIsDriven
    <3> QED
      BY <1>1, <1>2, <3>1, <3>2, <3>3, <3>4
  <2> QED
    BY <1>3, <2>1, <2>2, <2>3 DEF ReadsBit
<1> QED
  BY <1>4, <1>5 DEF Follows

(* What a register with an enable keeps is what it drove a time step       *)
(* earlier.                                                                *)
LEMMA CellDriver ==
  ASSUME Built, NEW i \in Instances(design), NEW c \in Range(ModuleOf(i).cells),
         NEW f \in DriversOf(i), Home(f) = CellVertex(i.level, c)
  PROVE  \E q \in Ports(c.ports, "output") : End(CellVertex(i.level, c), q) = f
<1>1. Home(f).port = "" /\ Home(f).cell = c.name
  <2>1. CellVertex(i.level, c).port = ""
    BY CellVertexFields
  <2>2. CellVertex(i.level, c).cell = c.name
    BY CellVertexFields
  <2> QED
    BY <2>1, <2>2
<1>2. design \in Designs /\ WellFormed(design)
  BY DEF Built
<1>3. ASSUME NEW p, OfModule(i, f, p)
      PROVE  FALSE
  BY <1>1, <1>2, <1>3, ModulePortsNamed
<1>4. PICK b, q : OfCell(i, f, b, q) /\ q.dir = "output"
  BY <1>2, <1>3, EndFacts
<1>5. b \in Range(ModuleOf(i).cells) /\ q \in Range(b.ports) /\ f = End(CellVertex(i.level, b), q)
  BY <1>4 DEF OfCell
<1>6. ~IsModule(design, b)
  <2>1. q.name # ""
    BY <1>2, <1>4, CellPortsNamed
  <2> QED
    BY <1>1, <1>2, <1>4, <2>1, CellPortsNamed
<1>7. Home(f) = CellVertex(i.level, b)
  BY <1>2, <1>4, <1>6, HomeOfCell
<1>8. CellVertex(i.level, b).cell = b.name
  BY CellVertexFields
<1>9. ModuleOf(i).cells \in Seq(CellType) /\ Keyed(ModuleOf(i).cells)
  BY <1>2, ModuleFacts
<1>10. b = c
  BY <1>1, <1>5, <1>7, <1>8, <1>9, KeyedFacts
<1>11. q \in Ports(c.ports, "output")
  BY <1>4, <1>5, <1>10 DEF Ports
<1> QED
  BY <1>5, <1>10, <1>11

Kept(x, v, p, t) ==
  x = Expression(v, p.name, v.at, p.bits, t, PortExpr(p.bits, OutEdges(v), t - 1))

LEMMA KeptFollows ==
  ASSUME Built, DriversHaveNets(design), AllDriven(design),
         NEW t, NEW v \in ExportedCells(t), CellOf(v).type \in EnableTypes,
         NEW p \in Ports(CellOf(v).ports, "output"), NEW x, Kept(x, v, p, t),
         DrivesAt(t - 1) \subseteq drives
  PROVE  Follows(x)
<1>1. PICK i \in Instances(design) : \E c \in Range(ModuleOf(i).cells) :
        ~IsModule(design, c) /\ CellVertex(i.level, c) = v /\ CellOf(v) = c
  BY ExportedCellFacts
<1>2. PICK c \in Range(ModuleOf(i).cells) :
        ~IsModule(design, c) /\ CellVertex(i.level, c) = v /\ CellOf(v) = c
  BY <1>1
<1>3. p \in Range(c.ports) /\ p.dir = "output" /\ c.type \in RegisterTypes /\ IsRegister(v)
  BY <1>2, TypesAssumption DEF Ports, IsRegister, ExportedCells
<1> DEFINE d == End(CellVertex(i.level, c), p)
<1>4. d \in DriversOf(i)
  BY <1>2, <1>3, CellEnd
<1>5. Home(d) = v
  BY <1>2, <1>3, CellEnd
<1>6. d.bits = p.bits
  BY EndFields
<1>7. \A q \in Ports(c.ports, "output") : q = p
  BY <1>2, <1>3 DEF AllDriven, ModuleOf
<1>8. \A f \in DriversOf(i) : Home(f) = v => f = d
  BY <1>2, <1>7, CellDriver
<1> HIDE DEF d
<1>9. PICK e : e \in OutEdges(Home(d))
  BY <1>5 DEF ExportedCells
<1>10. PICK f \in DriversOf(i), r \in ReadersOf(i) : IsConnection(e, i, f, r) /\ Home(f) = Home(d)
  BY <1>4, <1>9, EdgeOut
<1>11. Connected(d, r)
  BY <1>5, <1>8, <1>10 DEF IsConnection
<1>12. x.level = i.level
  <2>1. x.level = v.at
    BY ExpressionFields DEF Kept
  <2> QED
    BY <1>2, <2>1, CellVertexAt
<1>13. x.bits = d.bits
  BY <1>6, ExpressionFields DEF Kept
<1>14. x.expr = PortExpr(d.bits, OutEdges(Home(d)), t - 1)
  BY <1>5, <1>6, ExpressionFields DEF Kept
<1>15. TimeRead(x) = t - 1
  <2>1. x.vertex = v /\ x.at = t
    BY ExpressionFields DEF Kept
  <2> QED
    BY <1>3, <2>1 DEF TimeRead
<1>16. Len(x.expr) = Len(x.bits)
  <2>1. Len(PortExpr(d.bits, OutEdges(Home(d)), t - 1)) = Len(d.bits)
    BY <1>4, <1>11, DriverIsItsNet
  <2> QED
    BY <1>13, <1>14, <2>1
<1>17. ASSUME NEW k \in DOMAIN x.bits
       PROVE  \E w \in x.expr[k] : /\ x.expr[k] = {w} /\ w[3] = TimeRead(x)
                                 /\ Driven(x.level, x.bits[k], w)
  <2>1. k \in DOMAIN d.bits
    BY <1>13
  <2>2. x.expr[k] = {VariableBit(i, d, t - 1, k)}
    <3>1. PortExpr(d.bits, OutEdges(Home(d)), t - 1)[k] = {VariableBit(i, d, t - 1, k)}
      BY <1>4, <1>11, <2>1, DriverIsItsNet
    <3> QED
      BY <1>14, <3>1
  <2>3. VariableBit(i, d, t - 1, k)[3] = t - 1
    BY <1>4, <1>11, <2>1, VariableIsDriven
  <2>4. Driven(i.level, d.bits[k], VariableBit(i, d, t - 1, k))
    BY <1>4, <1>11, <2>1, VariableIsDriven
  <2> QED
    BY <1>12, <1>13, <1>15, <2>2, <2>3, <2>4
<1> QED
  BY <1>16, <1>17 DEF Follows

LEMMA TopReadFollows ==
  ASSUME Built, NEW x, NEW p, NEW t, TopRead(x, p, t)
  PROVE  Follows(x)
<1> DEFINE v == TopVertex(p)
<1>1. v \in ExportedPorts /\ p \in Range(ModuleOf(RootOf(design)).ports) /\ p.dir = "input"
  BY DEF TopRead
<1>2. x.vertex = v /\ x.at = t
  BY ExpressionFields DEF TopRead, TopExpression
<1>3. x.bits = p.bits
  BY ExpressionFields DEF TopRead, TopExpression
<1>4. x.expr = OwnVariable(v, p.bits, t)
  BY ExpressionFields DEF TopRead, TopExpression
<1>5. design \in Designs /\ WellFormed(design) /\ RootOf(design) \in Instances(design)
  BY TopInstance DEF Built
<1>6. InsidePort(v) = p
  <2>1. InsidePort(PortVertex(RootOf(design).level, p.name)) = p
    BY <1>1, <1>5, Lookups
  <2> QED
    BY <2>1 DEF TopVertex
<1>7. IsRootPort(v)
  BY <1>1, <1>5, RootPorts DEF TopVertex
<1>8. v.port # ""
  BY <1>1 DEF ExportedPorts
<1>9. p.bits \in Seq(Nat)
  <2>1. p \in PortType
    BY <1>1, <1>5, ModuleFacts
  <2> QED
    BY <2>1 DEF PortType
<1>10. Len(OwnVariable(v, p.bits, t)) = Len(p.bits)
  <2> DEFINE bit(k) == {VarBit(v.at, v.port, t, k)}
             S == {bit(k) : k \in 1 .. Len(p.bits)}
             y == [k \in 1 .. Len(p.bits) |-> bit(k)]
  <2>1. DOMAIN p.bits = 1 .. Len(p.bits) /\ Len(p.bits) \in Nat
    BY <1>9, RangeFacts
  <2>2. OwnVariable(v, p.bits, t) = y
    BY <2>1 DEF OwnVariable
  <2> HIDE DEF bit
  <2>3. y \in [1 .. Len(p.bits) -> S]
    OBVIOUS
  <2> HIDE DEF y, S
  <2>4. Len(y) = Len(p.bits)
    BY <2>1, <2>3
  <2> QED
    BY <2>2, <2>4
<1> HIDE DEF v
<1> QED
  BY <1>1, <1>2, <1>3, <1>4, <1>6, <1>7, <1>8, <1>10 DEF Follows

(* Every expression read is a reader's, a kept one or a top input's.       *)
LEMMA CellReadFollows ==
  ASSUME Built, DriversHaveNets(design), DrivenOnce(design), AllDriven(design),
         NEW t \in Nat, \A s \in 0 .. t : DrivesAt(s) \subseteq drives,
         NEW x \in CellReads(t)
  PROVE  Follows(x)
<1>1. PICK v \in ExportedCells(t) : \E p \in Ports(CellOf(v).ports, "input") :
        x = Expression(v, p.name, v.at, p.bits, t, PortExpr(p.bits, InEdges(v), ReadTime(v, t)))
  BY DEF CellReads
<1>2. PICK p \in Ports(CellOf(v).ports, "input") :
        x = Expression(v, p.name, v.at, p.bits, t, PortExpr(p.bits, InEdges(v), ReadTime(v, t)))
  BY <1>1
<1>3. PICK i \in Instances(design) : \E c \in Range(ModuleOf(i).cells) :
        ~IsModule(design, c) /\ CellVertex(i.level, c) = v /\ CellOf(v) = c
  BY ExportedCellFacts
<1>4. PICK c \in Range(ModuleOf(i).cells) :
        ~IsModule(design, c) /\ CellVertex(i.level, c) = v /\ CellOf(v) = c
  BY <1>3
<1>5. p \in Range(c.ports) /\ p.dir = "input"
  BY <1>4 DEF Ports
<1> DEFINE r == End(CellVertex(i.level, c), p)
<1>6. r \in ReadersOf(i)
  BY <1>4, <1>5, CellEnd
<1>7. Home(r) = v
  BY <1>4, <1>5, CellEnd
<1>8. r.port = p.name /\ r.bits = p.bits
  BY EndFields
<1>9. v.at = i.level
  BY <1>4, CellVertexAt
<1> HIDE DEF r
<1>10. ReadOf(i, r, ReadTime(v, t), t) = x
  BY <1>2, <1>7, <1>8, <1>9 DEF ReadOf
<1>11. TimeRead(x) = ReadTime(v, t)
  <2>1. x.vertex = v /\ x.at = t
    BY <1>2, ExpressionFields
  <2> QED
    BY <2>1 DEF TimeRead, ReadTime
<1>12. ReadTime(v, t) \in 0 .. t
  <2>1. IsRegister(v) => t # 0
    BY DEF ExportedCells
  <2> QED
    BY <2>1 DEF ReadTime
<1>13. DrivesAt(ReadTime(v, t)) \subseteq drives
  BY <1>12
<1> QED
  BY <1>6, <1>10, <1>11, <1>13, ReaderFollows

LEMMA KeptReadFollows ==
  ASSUME Built, DriversHaveNets(design), AllDriven(design),
         NEW t \in Nat, \A s \in 0 .. t : DrivesAt(s) \subseteq drives,
         NEW x \in KeptReads(t)
  PROVE  Follows(x)
<1>1. PICK v \in {v \in ExportedCells(t) : CellOf(v).type \in EnableTypes} :
        \E p \in Ports(CellOf(v).ports, "output") :
          x = Expression(v, p.name, v.at, p.bits, t, PortExpr(p.bits, OutEdges(v), t - 1))
  BY DEF KeptReads
<1>2. PICK p \in Ports(CellOf(v).ports, "output") : Kept(x, v, p, t)
  BY <1>1 DEF Kept
<1>3. v \in ExportedCells(t) /\ CellOf(v).type \in EnableTypes
  OBVIOUS
<1>4. t # 0
  <2>1. \E i \in Instances(design) : \E c \in Range(ModuleOf(i).cells) :
          ~IsModule(design, c) /\ CellVertex(i.level, c) = v /\ CellOf(v) = c
    BY <1>3, ExportedCellFacts
  <2>2. IsRegister(v)
    BY <1>3, TypesAssumption DEF IsRegister, ExportedCells
  <2> QED
    BY <1>3, <2>2 DEF ExportedCells
<1>5. DrivesAt(t - 1) \subseteq drives
  <2>1. t - 1 \in 0 .. t
    BY <1>4
  <2> QED
    BY <2>1
<1> QED
  BY <1>2, <1>3, <1>5, KeptFollows

LEMMA PortReadFollows ==
  ASSUME Built, DriversHaveNets(design), DrivenOnce(design), AllDriven(design),
         NEW t \in Nat, \A s \in 0 .. t : DrivesAt(s) \subseteq drives,
         NEW v \in ExportedPorts
  PROVE  Follows(PortReads(v, t))
<1> DEFINE x == PortReads(v, t)
<1>1. ASSUME NEW i \in Instances(design), NEW r \in ReadersOf(i),
             ReadOf(i, r, t, t) = x, Home(r) = v
      PROVE  Follows(x)
  <2>1. PICK j \in Instances(design) : \E p \in Range(ModuleOf(j).ports) :
          PortVertex(j.level, p.name) = v /\ InsidePort(v) = p
    BY ExportedPortFacts
  <2>2. ~IsRegister(v)
    BY <2>1, PortVertexNotRegister
  <2>3. x.vertex = v /\ x.at = t
    BY <1>1, ExpressionFields DEF ReadOf
  <2> HIDE DEF x
  <2>4. TimeRead(x) = t
    BY <2>2, <2>3 DEF TimeRead
  <2>5. DrivesAt(t) \subseteq drives
    OBVIOUS
  <2> QED
    BY <1>1, <2>4, <2>5, ReaderFollows
<1>2. ASSUME NEW p, TopRead(x, p, t)
      PROVE  Follows(x)
  BY <1>2, TopReadFollows
<1>3. \/ \E i \in Instances(design) : \E r \in ReadersOf(i) : ReadOf(i, r, t, t) = x /\ Home(r) = v
      \/ \E p : TopRead(x, p, t)
  BY PortReadsAre
<1> QED
  BY <1>1, <1>2, <1>3

(* The equations are the netlist, for every netlist without loose ends, at *)
(* every time step and through any number of levels.                       *)
THEOREM EquationsFollowTheNetlist ==
  ASSUME DesignsAreWellFormed, \A d \in Designs : DrivenOnce(d) /\ AllDriven(d)
  PROVE  Spec => []ReadsFollowTheNetlist
<1>1. BuildInv /\ Exported => ReadsFollowTheNetlist
  <2> SUFFICES ASSUME BuildInv, Exported, DriversHaveNets(design), NEW x \in reads
               PROVE  Follows(x)
    BY DEF ReadsFollowTheNetlist, Follows
  <2>1. design \in Designs /\ DrivenOnce(design) /\ AllDriven(design)
    BY DEF BuildInv, GraphTypes
  <2>2. PICK t \in 0 .. (time - 1) : x \in ReadsAt(t)
    BY DEF Exported
  <2>3. Built
    BY <2>2, ExportedGraph
  <2>4. t \in Nat /\ \A s \in 0 .. t : s \in 0 .. (time - 1)
    BY <2>2 DEF Exported
  <2>5. \A s \in 0 .. t : DrivesAt(s) \subseteq drives
    BY <2>4 DEF Exported
  <2>6. CASE x \in CellReads(t)
    BY <2>1, <2>3, <2>4, <2>5, <2>6, CellReadFollows
  <2>7. CASE x \in KeptReads(t)
    BY <2>1, <2>3, <2>4, <2>5, <2>7, KeptReadFollows
  <2>8. CASE x \in {PortReads(v, t) : v \in ExportedPorts}
    <3>1. PICK v \in ExportedPorts : x = PortReads(v, t)
      BY <2>8
    <3> QED
      BY <2>1, <2>3, <2>4, <2>5, <3>1, PortReadFollows
  <2> QED
    BY <2>2, <2>6, <2>7, <2>8 DEF ReadsAt
<1>2. Spec => []BuildInv
  BY GraphIsBuilt
<1>3. Spec => []Exported
  BY EquationsAreExported
<1> QED
  BY <1>1, <1>2, <1>3, PTL

-----------------------------------------------------------------------------
(* The search for paths, in every graph of any size                        *)

(* An edge is the two-element walk of its vertices.                        *)
LEMMA PairFacts ==
  ASSUME NEW e \in Pairs
  PROVE  e[1] \in Vertices /\ e[2] \in Vertices /\ Len(e) = 2
         /\ e \in Seq(Vertices) /\ e = <<e[1], e[2]>>
  BY PathAssumption

LEMMA LastFront ==
  ASSUME NEW s \in Seq(Vertices), Len(s) >= 3
  PROVE  /\ Front(s) \in Seq(Vertices)
         /\ Len(Front(s)) = Len(s) - 1
         /\ \A i \in 1 .. Len(s) - 1 : Front(s)[i] = s[i]
         /\ Last(Front(s)) = s[Len(s) - 1]
         /\ Last(s) = s[Len(s)]
  BY DEF Front, Last

-----------------------------------------------------------------------------
(* The inductive invariant. Path: the path is a walk without repetitions   *)
(* whose vertices have been visited. Exhausted: a visited vertex that is   *)
(* off the path is no output and has no usable successor left. The second  *)
(* part is what makes the search complete; without it, giving up would say *)
(* nothing about the graph.                                                *)
OnPath == {path[k] : k \in 1 .. Len(path)}

PathInv ==
  /\ initial \in Usable
  /\ path[1] = initial[1] /\ path[2] = initial[2]
  /\ OnPath \subseteq visited
  /\ phase = "backward" => vertex = initial[1] /\ Len(path) = 2
  /\ phase # "backward" => vertex = path[Len(path)]

ExhaustedInv ==
  \A v \in visited \ OnPath : ForwardCandidates(v) = {} /\ ~AtOutput(v)

DoneInv ==
  phase = "done" =>
    AtOutput(vertex) \/ (ForwardCandidates(vertex) = {} /\ vertex = initial[2])

SearchInv == TypeOK /\ PathIsSimpleWalk /\ PathInv /\ ExhaustedInv /\ DoneInv

LEMMA SearchInvInit == SearchInit => SearchInv
<1> SUFFICES ASSUME SearchInit PROVE SearchInv
  OBVIOUS
<1>1. /\ initial \in Pairs /\ initial \in Usable
      /\ query = "first" => initial \in Tagged
  BY DEF SearchInit, Tagged, Usable
<1>2. /\ Len(path) = 2 /\ path \in Seq(Vertices)
      /\ path[1] = initial[1] /\ path[2] = initial[2] /\ initial = <<path[1], path[2]>>
      /\ path[1] \in Vertices /\ path[2] \in Vertices
  BY <1>1, PairFacts DEF SearchInit
<1>3. TypeOK
  BY <1>1, <1>2 DEF SearchInit, TypeOK
<1>4. PathIsSimpleWalk
  BY <1>1, <1>2 DEF PathIsSimpleWalk
<1>5. OnPath = {initial[1], initial[2]}
  BY <1>2 DEF OnPath
<1>6. PathInv /\ ExhaustedInv /\ DoneInv
  BY <1>1, <1>2, <1>5 DEF SearchInit, PathInv, ExhaustedInv, DoneInv
<1> QED
  BY <1>3, <1>4, <1>6 DEF SearchInv

(* Only an extension reads the graph through Select, and it selects among  *)
(* the candidates.                                                         *)
LEMMA SelectFacts ==
  ASSUME NEW v, NEW e \in Select(ForwardCandidates(v))
  PROVE  /\ e \in Usable /\ e \in Pairs /\ e[1] = v /\ e[2] \notin visited
         /\ query # "extremal" => e \in Tagged
  BY DEF Select, ForwardCandidates, Usable

LEMMA ExtendKeeps == SearchInv /\ Extend => SearchInv'
<1> SUFFICES ASSUME SearchInv, Extend PROVE SearchInv'
  OBVIOUS
<1>1. PICK e \in Select(ForwardCandidates(vertex)) :
        path' = Append(path, e[2]) /\ visited' = visited \cup {e[2]} /\ vertex' = e[2]
  BY DEF Extend
<1>2. /\ e \in Usable /\ e \in Pairs /\ e[1] = vertex /\ e[2] \notin visited
      /\ query # "extremal" => e \in Tagged
  BY SelectFacts
<1>3. e[1] \in Vertices /\ e[2] \in Vertices /\ e = <<e[1], e[2]>>
  BY <1>2, PairFacts
<1>4. UNCHANGED <<graph, initial, query, phase>> /\ phase = "forward" /\ ~AtOutput(vertex)
  BY DEF Extend, Searching
<1>5. Usable' = Usable /\ Tagged' = Tagged /\ Edges' = Edges
  BY <1>4 DEF Usable, Tagged, Edges
<1>6. path \in Seq(Vertices) /\ Len(path) \in Nat /\ Len(path) >= 2 /\ visited \subseteq Vertices
  BY DEF SearchInv, TypeOK
<1>7. /\ Len(path') = Len(path) + 1 /\ path' \in Seq(Vertices)
      /\ \A k \in 1 .. Len(path) : path'[k] = path[k]
      /\ path'[Len(path) + 1] = e[2]
  BY <1>1, <1>3, <1>6
<1>8. \A k \in 1 .. Len(path) : path[k] \in visited /\ path[k] # e[2]
  BY <1>2 DEF SearchInv, PathInv, OnPath
<1>9. vertex = path[Len(path)]
  BY <1>4 DEF SearchInv, PathInv
<1>10. TypeOK'
  BY <1>1, <1>3, <1>4, <1>6, <1>7 DEF SearchInv, TypeOK
<1>11. PathIsSimpleWalk'
  <2>1. \A k \in 1 .. Len(path') - 1 :
          <<path'[k], path'[k + 1]>> \in
            IF query' = "first" \/ (query' = "from_input" /\ k > 1) THEN Tagged' ELSE Usable'
    <3> SUFFICES ASSUME NEW k \in 1 .. Len(path') - 1
                 PROVE  <<path'[k], path'[k + 1]>> \in
                          IF query = "first" \/ (query = "from_input" /\ k > 1)
                          THEN Tagged ELSE Usable
      BY <1>4, <1>5
    <3>1. CASE k < Len(path)
      BY <3>1, <1>6, <1>7 DEF SearchInv, PathIsSimpleWalk
    <3>2. CASE k = Len(path)
      <4>1. path'[k] = vertex /\ path'[k + 1] = e[2]
        BY <3>2, <1>6, <1>7, <1>9
      <4>2. <<path'[k], path'[k + 1]>> = e
        BY <4>1, <1>2, <1>3
      <4> QED
        BY <4>2, <1>2 DEF SearchInv, TypeOK, Queries
    <3> QED
      BY <3>1, <3>2, <1>6, <1>7
  <2>2. \A k, l \in 2 .. Len(path') : k # l => path'[k] # path'[l]
    BY <1>6, <1>7, <1>8 DEF SearchInv, PathIsSimpleWalk
  <2>3. initial'[1] # initial'[2] => \A k \in 2 .. Len(path') : path'[k] # path'[1]
    BY <1>4, <1>6, <1>7, <1>8 DEF SearchInv, PathIsSimpleWalk
  <2>4. path'[1] = initial'[1] /\ path'[2] = initial'[2]
    BY <1>4, <1>6, <1>7 DEF SearchInv, PathIsSimpleWalk
  <2> QED
    BY <2>1, <2>2, <2>3, <2>4 DEF PathIsSimpleWalk
<1>12. OnPath' = OnPath \cup {e[2]}
  <2>1. OnPath' = {path'[k] : k \in 1 .. Len(path) + 1}
    BY <1>7 DEF OnPath
  <2> QED
    BY <2>1, <1>6, <1>7 DEF OnPath
<1>13. PathInv'
  BY <1>1, <1>4, <1>5, <1>6, <1>7, <1>12 DEF SearchInv, PathInv
<1>14. ExhaustedInv'
  <2> SUFFICES ASSUME NEW v \in visited' \ OnPath'
               PROVE  ForwardCandidates(v)' = {} /\ ~AtOutput(v)'
    BY DEF ExhaustedInv
  <2>1. ForwardCandidates(v) = {} /\ ~AtOutput(v)
    BY <1>1, <1>12 DEF SearchInv, ExhaustedInv
  <2> QED
    BY <2>1, <1>1, <1>5 DEF ForwardCandidates, AtOutput
<1>15. DoneInv'
  BY <1>4 DEF DoneInv
<1> QED
  BY <1>10, <1>11, <1>13, <1>14, <1>15 DEF SearchInv

LEMMA BacktrackKeeps == SearchInv /\ Backtrack => SearchInv'
<1> SUFFICES ASSUME SearchInv, Backtrack PROVE SearchInv'
  OBVIOUS
<1>1. /\ path' = Front(path) /\ vertex' = Last(Front(path))
      /\ UNCHANGED <<graph, initial, query, visited, phase>>
      /\ phase = "forward" /\ ~AtOutput(vertex) /\ ForwardCandidates(vertex) = {}
      /\ Last(path) # initial[2]
  BY DEF Backtrack, Searching, AtStart
<1>2. Usable' = Usable /\ Tagged' = Tagged /\ Edges' = Edges
  BY <1>1 DEF Usable, Tagged, Edges
<1>3. path \in Seq(Vertices) /\ Len(path) \in Nat /\ Len(path) >= 2
  BY DEF SearchInv, TypeOK
<1>4. Len(path) >= 3
  <2>1. path[2] = initial[2]
    BY DEF SearchInv, PathInv
  <2>2. Last(path) = path[Len(path)]
    BY DEF Last
  <2> QED
    BY <1>1, <1>3, <2>1, <2>2
<1>5. /\ path' \in Seq(Vertices) /\ Len(path') = Len(path) - 1
      /\ \A k \in 1 .. Len(path) - 1 : path'[k] = path[k]
      /\ vertex' = path[Len(path) - 1]
  BY <1>1, <1>3, <1>4, LastFront
<1>6. TypeOK'
  <2>1. vertex' \in Vertices
    BY <1>3, <1>4, <1>5
  <2> QED
    BY <2>1, <1>1, <1>3, <1>4, <1>5 DEF SearchInv, TypeOK
<1>7. PathIsSimpleWalk'
  BY <1>1, <1>2, <1>3, <1>4, <1>5 DEF SearchInv, PathIsSimpleWalk
<1>8. OnPath' \subseteq OnPath /\ \A v \in OnPath \ OnPath' : v = vertex
  <2>1. OnPath' = {path'[k] : k \in 1 .. Len(path) - 1}
    BY <1>5 DEF OnPath
  <2>2. vertex = path[Len(path)]
    BY <1>1 DEF SearchInv, PathInv
  <2> QED
    BY <2>1, <2>2, <1>3, <1>4, <1>5 DEF OnPath
<1>9. PathInv'
  BY <1>1, <1>2, <1>3, <1>4, <1>5, <1>8 DEF SearchInv, PathInv
<1>10. ExhaustedInv'
  <2> SUFFICES ASSUME NEW v \in visited' \ OnPath'
               PROVE  ForwardCandidates(v)' = {} /\ ~AtOutput(v)'
    BY DEF ExhaustedInv
  <2>1. ForwardCandidates(v) = {} /\ ~AtOutput(v)
    BY <1>1, <1>8 DEF SearchInv, ExhaustedInv
  <2> QED
    BY <2>1, <1>1, <1>2 DEF ForwardCandidates, AtOutput
<1>11. DoneInv'
  BY <1>1 DEF DoneInv
<1> QED
  BY <1>6, <1>7, <1>9, <1>10, <1>11 DEF SearchInv

(* The steps that only change the phase, or the loop's vertex.             *)
LEMMA OthersKeep ==
  SearchInv /\ (Backward \/ SelectNone \/ Stop \/ UNCHANGED searchVars) => SearchInv'
<1> SUFFICES ASSUME SearchInv, Backward \/ SelectNone \/ Stop \/ UNCHANGED searchVars
             PROVE  SearchInv'
  OBVIOUS
<1>1. UNCHANGED <<graph, initial, query, path, visited>>
  BY DEF Backward, SelectNone, Stop, searchVars
<1>2. /\ Usable' = Usable /\ Tagged' = Tagged /\ Edges' = Edges /\ OnPath' = OnPath
      /\ \A v : ForwardCandidates(v)' = ForwardCandidates(v) /\ AtOutput(v)' = AtOutput(v)
  BY <1>1 DEF Usable, Tagged, Edges, OnPath, ForwardCandidates, AtOutput
<1>3. PathIsSimpleWalk' /\ ExhaustedInv'
  BY <1>1, <1>2 DEF SearchInv, PathIsSimpleWalk, ExhaustedInv
<1>4. path \in Seq(Vertices) /\ Len(path) \in Nat /\ Len(path) >= 2 /\ initial[2] \in Vertices
  BY PairFacts DEF SearchInv, TypeOK
<1>5. CASE Backward
  <2>1. Len(path) = 2 /\ path[2] = initial[2]
    BY <1>5 DEF Backward, SearchInv, PathInv
  <2> QED
    BY <1>1, <1>2, <1>3, <1>4, <1>5, <2>1
    DEF Backward, SearchInv, TypeOK, PathInv, DoneInv
<1>6. CASE SelectNone
  BY <1>1, <1>2, <1>3, <1>4, <1>6
  DEF SelectNone, Searching, SearchInv, TypeOK, PathInv, DoneInv
<1>7. CASE Stop
  <2>1. vertex = path[Len(path)] /\ vertex' = vertex
    BY <1>7 DEF Stop, SearchInv, PathInv
  <2>2. AtOutput(vertex) \/ (ForwardCandidates(vertex) = {} /\ vertex = initial[2])
    BY <1>4, <1>7, <2>1 DEF Stop, AtStart, Last
  <2> QED
    BY <1>1, <1>2, <1>3, <1>4, <1>7, <2>1, <2>2
    DEF Stop, SearchInv, TypeOK, PathInv, DoneInv
<1>8. CASE UNCHANGED searchVars
  BY <1>1, <1>2, <1>3, <1>8 DEF searchVars, SearchInv, TypeOK, PathInv, DoneInv
<1> QED
  BY <1>5, <1>6, <1>7, <1>8

(* At every moment of get_path the path consists of visited vertices, and  *)
(* one that is no longer on the path has nothing left to visit.            *)
THEOREM SearchInvariant == SearchSpec => []SearchInv
<1>1. SearchInv /\ [SearchNext]_searchVars => SearchInv'
  BY ExtendKeeps, BacktrackKeeps, OthersKeep DEF SearchNext, Over
<1> QED
  BY <1>1, SearchInvInit, PTL DEF SearchSpec

-----------------------------------------------------------------------------
(* The candidates of the backward loop are the in-edges of a visited       *)
(* vertex, and an edge leads to its target, which is that vertex: there is *)
(* none, on any graph. The backward search of get_path never extends a     *)
(* path.                                                                   *)
THEOREM BackwardNeverExtends ==
  SearchSpec => [](phase = "backward" => BackwardCandidates(vertex) = {})
<1>1. SearchInv => (phase = "backward" => BackwardCandidates(vertex) = {})
  <2> SUFFICES ASSUME SearchInv, phase = "backward" PROVE vertex \in visited
    BY DEF BackwardCandidates
  <2>1. vertex = path[1] /\ Len(path) = 2 /\ OnPath \subseteq visited
    BY DEF SearchInv, PathInv
  <2> QED
    BY <2>1 DEF OnPath
<1> QED
  BY <1>1, SearchInvariant, PTL

(* On every graph the path is a walk from the initial edge, along usable   *)
(* edges and after the first one along those that satisfy the condition of *)
(* the query, that meets no vertex twice.                                  *)
THEOREM PathsAreSimpleWalks == SearchSpec => []PathIsSimpleWalk
<1>1. SearchInv => PathIsSimpleWalk
  BY DEF SearchInv
<1> QED
  BY <1>1, SearchInvariant, PTL

(* On every graph, a search that returns without having arrived at an      *)
(* output has shown that there is none: the vertices it visited enclose    *)
(* the initial edge.                                                       *)
THEOREM SearchIsComplete == SearchSpec => []FindsAnOutput
<1>1. SearchInv => FindsAnOutput
  <2> SUFFICES ASSUME SearchInv, phase = "done", ~AtOutput(Last(path))
               PROVE  \E C \in SUBSET Vertices : Enclosed(C)
    BY DEF FindsAnOutput
  <2>1. /\ path \in Seq(Vertices) /\ Len(path) \in Nat /\ Len(path) >= 2
        /\ visited \subseteq Vertices
        /\ vertex = path[Len(path)] /\ path[1] = initial[1] /\ path[2] = initial[2]
        /\ initial \in Usable /\ OnPath \subseteq visited
    BY DEF SearchInv, TypeOK, PathInv
  <2>2. ForwardCandidates(vertex) = {} /\ vertex = initial[2] /\ ~AtOutput(vertex)
    BY <2>1 DEF SearchInv, DoneInv, Last
  <2>3. Len(path) = 2
    <3>1. \A k, l \in 2 .. Len(path) : k # l => path[k] # path[l]
      BY DEF SearchInv, PathIsSimpleWalk
    <3>2. 2 \in 2 .. Len(path) /\ Len(path) \in 2 .. Len(path) /\ path[2] = path[Len(path)]
      BY <2>1, <2>2
    <3> QED
      BY <3>1, <3>2
  <2>4. OnPath = {initial[1], initial[2]}
    BY <2>1, <2>3 DEF OnPath
  <2> DEFINE C == (visited \ {initial[1]}) \cup {initial[2]}
  <2>5. C \in SUBSET Vertices /\ initial[2] \in C
    BY <2>1, <2>4
  <2>6. ASSUME NEW v \in C
        PROVE  ForwardCandidates(v) = {} /\ ~AtOutput(v)
    BY <2>2, <2>4 DEF SearchInv, ExhaustedInv
  <2>7. \A e \in Usable : e[1] \in C => e[2] \in C \cup {initial[1]}
    BY <2>6 DEF ForwardCandidates
  <2>8. Enclosed(C)
    BY <2>5, <2>6, <2>7 DEF Enclosed
  <2> QED
    BY <2>5, <2>8
<1> QED
  BY <1>1, SearchInvariant, PTL
=============================================================================
