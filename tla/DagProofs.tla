-------------------------------- MODULE DagProofs ------------------------------
(***************************************************************************)
(* Facts about the attestation DAG and the bracket as functions of any set *)
(* of objects, which the proofs about ledgers, packs and the demo share.   *)
(***************************************************************************)
EXTENDS Dag, NumberSets

-----------------------------------------------------------------------------
(***************************************************************************)
(* The closure of a relation, by the sets no edge leaves.                  *)
(***************************************************************************)

\* What is reachable from x lies in every set of vertices that holds what x has
\* an edge to and that no edge leaves.
LEMMA ReachStaysIn ==
  ASSUME NEW V, NEW edges, NEW S \in SUBSET V,
         \A e \in edges : e[1] \in S => e[2] \in S,
         NEW x, NEW y, <<x, y>> \in Closure(V, edges),
         \A e \in edges : e[1] = x => e[2] \in S
  PROVE  y \in S
<1>1. x \in V /\ y \in V
  BY DEF Closure
<1>2. CASE y \notin S
  BY <1>1, <1>2 DEF Closure
<1> QED
  BY <1>2

\* Conversely, what lies in all of them is reachable.
LEMMA InAllIsReached ==
  ASSUME NEW V, NEW edges, NEW x \in V, NEW y \in V,
         \A S \in SUBSET V : /\ \A e \in edges : e[1] \in S => e[2] \in S
                             /\ \A e \in edges : e[1] = x => e[2] \in S
                             => y \in S
  PROVE  <<x, y>> \in Closure(V, edges)
  BY DEF Closure

\* An edge leads somewhere, and a path goes on along an edge at either end.
LEMMA PathsGoOn ==
  ASSUME NEW V, NEW edges, \A e \in edges : e[1] \in V /\ e[2] \in V,
         NEW e \in edges
  PROVE  /\ <<e[1], e[2]>> \in Closure(V, edges)
         /\ \A x : <<x, e[1]>> \in Closure(V, edges) => <<x, e[2]>> \in Closure(V, edges)
         /\ \A y : <<e[2], y>> \in Closure(V, edges) => <<e[1], y>> \in Closure(V, edges)
<1>1. <<e[1], e[2]>> \in Closure(V, edges)
  BY InAllIsReached
<1>2. ASSUME NEW x, <<x, e[1]>> \in Closure(V, edges)
      PROVE  <<x, e[2]>> \in Closure(V, edges)
  <2>1. x \in V
    BY <1>2 DEF Closure
  <2>2. ASSUME NEW S \in SUBSET V, \A d \in edges : d[1] \in S => d[2] \in S,
               \A d \in edges : d[1] = x => d[2] \in S
        PROVE  e[2] \in S
    <3>1. e[1] \in S
      BY <1>2, <2>2, ReachStaysIn
    <3> QED
      BY <2>2, <3>1
  <2> QED
    BY <2>1, <2>2, InAllIsReached
<1>3. ASSUME NEW y, <<e[2], y>> \in Closure(V, edges)
      PROVE  <<e[1], y>> \in Closure(V, edges)
  <2>1. y \in V
    BY <1>3 DEF Closure
  <2>2. ASSUME NEW S \in SUBSET V, \A d \in edges : d[1] \in S => d[2] \in S,
               \A d \in edges : d[1] = e[1] => d[2] \in S
        PROVE  y \in S
    <3>1. e[2] \in S
      BY <2>2
    <3>2. \A d \in edges : d[1] = e[2] => d[2] \in S
      BY <2>2, <3>1
    <3> QED
      BY <1>3, <2>2, <3>2, ReachStaysIn
  <2> QED
    BY <2>1, <2>2, InAllIsReached
<1> QED
  BY <1>1, <1>2, <1>3

\* Two paths that meet make one.
LEMMA PathsJoin ==
  ASSUME NEW V, NEW edges, NEW x, NEW y, NEW z,
         <<x, y>> \in Closure(V, edges), <<y, z>> \in Closure(V, edges)
  PROVE  <<x, z>> \in Closure(V, edges)
<1>1. x \in V /\ z \in V
  BY DEF Closure
<1>2. ASSUME NEW S \in SUBSET V, \A e \in edges : e[1] \in S => e[2] \in S,
             \A e \in edges : e[1] = x => e[2] \in S
      PROVE  z \in S
  <2>1. y \in S
    BY <1>2, ReachStaysIn
  <2>2. \A e \in edges : e[1] = y => e[2] \in S
    BY <1>2, <2>1
  <2> QED
    BY <1>2, <2>2, ReachStaysIn
<1> QED
  BY <1>1, <1>2, InAllIsReached

\* A path has a first and a last edge.
LEMMA PathsHaveEnds ==
  ASSUME NEW V, NEW edges, \A e \in edges : e[2] \in V, NEW x, NEW y, <<x, y>> \in Closure(V, edges)
  PROVE  (\E e \in edges : e[1] = x) /\ (\E e \in edges : e[2] = y)
<1>1. \E e \in edges : e[1] = x
  <2> SUFFICES ASSUME \A e \in edges : e[1] # x PROVE FALSE
    OBVIOUS
  <2>1. y \in {}
    BY ReachStaysIn
  <2> QED
    BY <2>1
<1>2. \E e \in edges : e[2] = y
  <2> DEFINE S == {v \in V : \E e \in edges : e[2] = v}
  <2>1. S \in SUBSET V /\ \A e \in edges : e[2] \in S
    OBVIOUS
  <2>2. y \in S
    <3> HIDE DEF S
    <3> QED
      BY <2>1, ReachStaysIn
  <2> QED
    BY <2>2
<1> QED
  BY <1>1, <1>2

\* The vertices on the paths from x to y.
OnTheWay(V, edges, x, y) ==
  {v \in V : /\ v = x \/ <<x, v>> \in Closure(V, edges)
             /\ v = y \/ <<v, y>> \in Closure(V, edges)}

\* A part of a DAG that has every vertex on the way from x to y, and the edges
\* between those vertices, relates x and y as the whole does.
LEMMA WayIsKept ==
  ASSUME NEW V2, NEW E2, \A e \in E2 : e[1] \in V2 /\ e[2] \in V2,
         NEW V1, NEW E1, NEW x, NEW y, <<x, y>> \in Closure(V2, E2),
         OnTheWay(V2, E2, x, y) \subseteq V1,
         \A e \in E2 : {e[1], e[2]} \subseteq OnTheWay(V2, E2, x, y) => e \in E1
  PROVE  <<x, y>> \in Closure(V1, E1)
<1> DEFINE C == Closure(V2, E2)
           W == OnTheWay(V2, E2, x, y)
<1>1. x \in V2 /\ y \in V2
  BY DEF Closure
<1>2. x \in W /\ y \in W
  BY <1>1 DEF OnTheWay
<1>3. ASSUME NEW S \in SUBSET V1, \A e \in E1 : e[1] \in S => e[2] \in S,
             \A e \in E1 : e[1] = x => e[2] \in S
      PROVE  y \in S
  <2> DEFINE T == {v \in V2 : <<x, v>> \in C /\ (v \in W => v \in S)}
  <2>1. ASSUME NEW e \in E2, e[2] \in W, e[1] = x \/ <<x, e[1]>> \in C
        PROVE  e[1] \in W /\ e \in E1
    <3>1. e[2] = y \/ <<e[2], y>> \in C
      BY <2>1 DEF OnTheWay
    <3>2. <<e[1], y>> \in C
      BY <3>1, PathsGoOn
    <3>3. e[1] \in W
      BY <2>1, <3>2 DEF OnTheWay
    <3> QED
      BY <2>1, <3>3
  <2>2. \A e \in E2 : e[1] = x \/ <<x, e[1]>> \in C => <<x, e[2]>> \in C
    BY PathsGoOn
  <2>3. \A e \in E2 : e[1] = x => e[2] \in T
    BY <1>3, <2>1, <2>2
  <2>4. \A e \in E2 : e[1] \in T => e[2] \in T
    BY <1>3, <2>1, <2>2
  <2>5. T \in SUBSET V2
    OBVIOUS
  <2>6. y \in T
    <3> HIDE DEF T, W
    <3> QED
      BY <2>3, <2>4, <2>5, ReachStaysIn
  <2> QED
    BY <1>2, <2>6
<1> HIDE DEF C, W
<1> QED
  BY <1>2, <1>3, InAllIsReached DEF W

-----------------------------------------------------------------------------
(***************************************************************************)
(* The edges of a DAG.                                                     *)
(***************************************************************************)

\* The walk along `prev` never leaves the subject's entries and never reaches
\* one made after the attested head.
LEMMA WalkGoesBack ==
  ASSUME NEW O \in SUBSET Obs, NEW a \in Att, Anchored(O, a), NEW x \in Walk(O, a)
  PROVE  /\ x \in O /\ author[x] = subject[a]
         /\ made[x] < made[a]
<1> DEFINE branch == {y \in O : author[y] = subject[a]}
           head == subject_head[a]
           older == {y \in branch : made[y] <= made[head]}
<1>1. head \in branch /\ head \in Obs
  BY DEF Anchored
<1>2. \A y \in Obs : made[y] \in Nat
  BY ObjectsType
<1>3. made[a] \in Nat
  BY ObjectsType
<1>4. \A y \in older : prev[y] \in branch => prev[y] \in older
  <2> SUFFICES ASSUME NEW y \in older, prev[y] \in branch PROVE prev[y] \in older
    OBVIOUS
  <2>1. y \in Obs /\ prev[y] \in Obs /\ made[prev[y]] < made[y]
    BY HashOrder
  <2> QED
    BY <1>1, <1>2, <2>1
<1>5. head \in older
  BY <1>1, <1>2
<1>6. x \in branch /\ x \in older
  <2> DEFINE closed == {T \in SUBSET branch : /\ head \in T
                                              /\ \A y \in T : prev[y] \in branch => prev[y] \in T}
  <2>1. older \in closed
    BY <1>4, <1>5
  <2>2. x \in branch /\ x \notin UNION {branch \ S : S \in closed}
    BY DEF Walk
  <2> HIDE DEF closed, older
  <2> QED
    BY <2>1, <2>2
<1>7. made[head] < made[a]
  BY <1>1, HashOrder
<1> QED
  BY <1>1, <1>2, <1>3, <1>6, <1>7

\* Every edge joins two held vertices of one owner, the earlier one first.
LEMMA EdgesGoForward ==
  ASSUME NEW O \in SUBSET Obs, NEW A \in SUBSET Att, NEW Q, NEW e \in Edge(O, A, Q)
  PROVE  /\ e = <<e[1], e[2]>> /\ e[1] \in O \cup A /\ e[2] \in O \cup A
         /\ Owner(e[2]) = Owner(e[1])
         /\ made[e[1]] < made[e[2]]
<1>0. \A a \in Att : a \notin Obs
  BY ObjectsType
<1>1. CASE e \in ChainEdge(O)
  <2>1. PICK x \in O : e = <<prev[x], x>> /\ prev[x] \in O /\ author[prev[x]] = author[x]
    BY <1>1 DEF ChainEdge
  <2> QED
    BY <2>1, HashOrder DEF Owner
<1>2. CASE e \in AckEdge(O, A)
  <2>1. PICK a \in A, x \in O : e = <<a, x>> /\ a \in acks[x] /\ subject[a] = author[x]
    BY <1>2 DEF AckEdge, SoundAck
  <2> QED
    BY <1>0, <2>1, HashOrder DEF Owner
<1>3. CASE e \in SealEdge(O, A, Q)
  <2>1. PICK a \in A : Anchored(O, a) /\ e \in Walk(O, a) \X {a}
    BY <1>3 DEF SealEdge, Sealer
  <2>2. e = <<e[1], a>> /\ e[1] \in Walk(O, a)
    BY <2>1
  <2>3. e[1] \in O /\ author[e[1]] = subject[a] /\ made[e[1]] < made[a]
    BY <2>1, <2>2, WalkGoesBack
  <2> QED
    BY <1>0, <2>2, <2>3 DEF Owner
<1> QED
  BY <1>1, <1>2, <1>3 DEF Edge

\* A DAG's order is the closure of its edges.
LEMMA OrderIsClosure ==
  ASSUME NEW O, NEW A, NEW Q
  PROVE  Build(O, A, Q).order = Closure(O \cup A, Edge(O, A, Q))
  BY DEF Build

\* What is reached is a held vertex of the same owner, made later.
LEMMA ReachedIsLater ==
  ASSUME NEW O \in SUBSET Obs, NEW A \in SUBSET Att, NEW Q,
         NEW e \in Build(O, A, Q).order
  PROVE  /\ e = <<e[1], e[2]>> /\ e[1] \in O \cup A /\ e[2] \in O \cup A
         /\ Owner(e[2]) = Owner(e[1])
         /\ made[e[1]] < made[e[2]]
<1> DEFINE V == O \cup A
           S == {v \in V : Owner(v) = Owner(e[1]) /\ made[e[1]] < made[v]}
<1>1. e \in Closure(V, Edge(O, A, Q)) /\ S \in SUBSET V
  BY OrderIsClosure
<1>2. e = <<e[1], e[2]>> /\ e[1] \in V /\ e[2] \in V
  BY <1>1 DEF Closure
<1>3. \A v \in V : made[v] \in Nat
  BY ObjectsType
<1>4. \A d \in Edge(O, A, Q) : d[1] \in S => d[2] \in S
  <2> SUFFICES ASSUME NEW d \in Edge(O, A, Q), d[1] \in S PROVE d[2] \in S
    OBVIOUS
  <2>1. d[1] \in V /\ d[2] \in V /\ Owner(d[2]) = Owner(d[1]) /\ made[d[1]] < made[d[2]]
    BY EdgesGoForward
  <2>2. Owner(d[1]) = Owner(e[1]) /\ made[e[1]] < made[d[1]]
    OBVIOUS
  <2>3. made[e[1]] < made[d[2]]
    BY <1>2, <1>3, <2>1, <2>2
  <2> QED
    BY <2>1, <2>2, <2>3
<1>5. \A d \in Edge(O, A, Q) : d[1] = e[1] => d[2] \in S
  BY EdgesGoForward
<1>6. e[2] \in S
  <2> HIDE DEF S, V
  <2> QED
    BY <1>1, <1>2, <1>4, <1>5, ReachStaysIn
<1> QED
  BY <1>2, <1>6

\* A DAG built from objects of the universe.
IsDag(D) ==
  /\ D = Build(D.observations, D.attestations, D.quarantined)
  /\ D.observations \in SUBSET Obs /\ D.attestations \in SUBSET Att

\* The order of the DAG, as ReachedIsLater describes it.
LEMMA HeldOrder ==
  ASSUME NEW D, IsDag(D), NEW e \in D.order
  PROVE  /\ e = <<e[1], e[2]>>
         /\ e[1] \in D.observations \cup D.attestations
         /\ e[2] \in D.observations \cup D.attestations
         /\ Owner(e[2]) = Owner(e[1])
         /\ made[e[1]] < made[e[2]]
<1>1. /\ D.observations \in SUBSET Obs /\ D.attestations \in SUBSET Att
      /\ e \in Build(D.observations, D.attestations, D.quarantined).order
  BY DEF IsDag
<1> QED
  BY <1>1, ReachedIsLater

LEMMA OrderIrreflexive ==
  ASSUME NEW D, IsDag(D), NEW v
  PROVE  <<v, v>> \notin D.order
<1> SUFFICES ASSUME <<v, v>> \in D.order PROVE FALSE
  OBVIOUS
<1>1. made[v] < made[v] /\ v \in Obs \cup Att
  BY HeldOrder DEF IsDag
<1>2. made[v] \in Nat
  BY <1>1, ObjectsType
<1> QED
  BY <1>1, <1>2

\* What comes after a record and is an attestation is anchored; what comes before
\* one is acknowledged in the author's chain.
LEMMA WhatIsReached ==
  ASSUME NEW O \in SUBSET Obs, NEW A \in SUBSET Att, NEW Q, NEW a \in A, NEW r
  PROVE  /\ <<r, a>> \in Build(O, A, Q).order => Anchored(O, a)
         /\ <<a, r>> \in Build(O, A, Q).order
              => \E x \in O : a \in acks[x] /\ SoundAck(a, x)
<1> DEFINE V == O \cup A
           E == Edge(O, A, Q)
<1>1. \A e \in E : e[2] \in V
  BY EdgesGoForward
<1>2. \A v \in Obs : v \notin Att
  BY ObjectsType
<1>3. ASSUME <<r, a>> \in Build(O, A, Q).order
      PROVE  Anchored(O, a)
  <2>1. <<r, a>> \in Closure(V, E)
    BY <1>3, OrderIsClosure
  <2>2. PICK e \in E : e[2] = a
    <3> HIDE DEF V, E
    <3> QED
      BY <1>1, <2>1, PathsHaveEnds
  <2>3. e \notin ChainEdge(O) /\ e \notin AckEdge(O, A)
    BY <1>2, <2>2 DEF ChainEdge, AckEdge
  <2>4. e \in SealEdge(O, A, Q)
    BY <2>3 DEF Edge
  <2>5. PICK b \in A : Sealer(O, Q, b) /\ e \in Walk(O, b) \X {b}
    BY <2>4 DEF SealEdge
  <2> QED
    BY <2>2, <2>5 DEF Sealer
<1>4. ASSUME <<a, r>> \in Build(O, A, Q).order
      PROVE  \E x \in O : a \in acks[x] /\ SoundAck(a, x)
  <2>1. <<a, r>> \in Closure(V, E)
    BY <1>4, OrderIsClosure
  <2>2. PICK e \in E : e[1] = a
    <3> HIDE DEF V, E
    <3> QED
      BY <1>1, <2>1, PathsHaveEnds
  <2>3. e \notin ChainEdge(O)
    BY <1>2, <2>2 DEF ChainEdge
  <2>4. e \notin SealEdge(O, A, Q)
    <3> SUFFICES ASSUME e \in SealEdge(O, A, Q) PROVE FALSE
      OBVIOUS
    <3>1. PICK b \in A : e \in Walk(O, b) \X {b}
      BY DEF SealEdge
    <3>2. e[1] \in Obs
      BY <3>1 DEF Walk
    <3> QED
      BY <1>2, <2>2, <3>2
  <2>5. e \in AckEdge(O, A)
    BY <2>3, <2>4 DEF Edge
  <2> QED
    BY <2>2, <2>5 DEF AckEdge
<1> QED
  BY <1>3, <1>4

-----------------------------------------------------------------------------
(***************************************************************************)
(* The bounds of a record.                                                 *)
(***************************************************************************)

\* Where anything seals a record something is earliest among it, and where
\* anything precedes it something is latest.
LEMMA BoundsExist ==
  ASSUME NEW D, IsDag(D), NEW r \in D.observations
  PROVE  /\ Sealing(D, r) # {} => UpperBound(D, r) \in Earliest(D, Sealing(D, r))
         /\ Preceding(D, r) # {} => LowerBound(D, r) \in Latest(D, Preceding(D, r))
<1>1. D.attestations \in SUBSET Att /\ Att \in SUBSET Nat /\ r \in Obs
  BY ObjectsType DEF IsDag, Id
<1>2. \A a \in Att : made[a] \in Nat
  BY ObjectsType
<1>3. ASSUME Sealing(D, r) # {}
      PROVE  UpperBound(D, r) \in Earliest(D, Sealing(D, r))
  <2> DEFINE S == Sealing(D, r)
             times == {made[a] : a \in S}
  <2>1. S \in SUBSET Att
    BY <1>1 DEF Sealing
  <2>2. times \in SUBSET Nat /\ times # {}
    BY <1>2, <1>3, <2>1
  <2>3. Min(times) \in times /\ \A n \in times : Min(times) <= n
    <3> HIDE DEF times
    <3> QED
      BY <2>2, SmallestExists
  <2>4. PICK a \in S : made[a] = Min(times)
    BY <2>3
  <2>5. \A other \in S : made[a] <= made[other]
    BY <2>3, <2>4
  <2>6. \A other \in S : <<other, a>> \notin D.order
    <3> SUFFICES ASSUME NEW other \in S, <<other, a>> \in D.order PROVE FALSE
      OBVIOUS
    <3>1. made[other] < made[a]
      BY HeldOrder
    <3> HIDE DEF S
    <3> QED
      BY <1>2, <2>1, <2>5, <3>1
  <2>7. a \in Earliest(D, S)
    BY <2>6 DEF Earliest
  <2>8. Earliest(D, S) \in SUBSET Nat
    BY <1>1, <2>1 DEF Earliest
  <2> HIDE DEF S
  <2>9. Min(Earliest(D, S)) \in Earliest(D, S)
    BY <2>7, <2>8, SmallestExists
  <2> QED
    BY <2>7, <2>9 DEF UpperBound, LowestId, S
<1>4. ASSUME Preceding(D, r) # {}
      PROVE  LowerBound(D, r) \in Latest(D, Preceding(D, r))
  <2> DEFINE S == Preceding(D, r)
             times == {made[a] : a \in S}
  <2>1. S \in SUBSET Att /\ \A a \in S : made[a] < made[r]
    BY <1>1, HeldOrder DEF Preceding
  <2>2. times \in SUBSET Nat /\ times # {} /\ times \in SUBSET (0 .. made[r])
    <3>1. made[r] \in Nat
      BY <1>1, ObjectsType
    <3> QED
      BY <1>2, <1>4, <2>1, <3>1
  <2>3. IsFiniteSet(times)
    <3>0. made[r] \in Int /\ 0 \in Int
      BY <1>1, ObjectsType
    <3>1. IsFiniteSet(0 .. made[r])
      BY <3>0, FS_Interval
    <3> HIDE DEF times
    <3> QED
      BY <2>2, <3>1, FS_Subset
  <2>4. Max(times) \in times /\ \A n \in times : n <= Max(times)
    <3> HIDE DEF times
    <3> QED
      BY <2>2, <2>3, LargestExists
  <2>5. PICK a \in S : made[a] = Max(times)
    BY <2>4
  <2>6. \A other \in S : made[other] <= made[a]
    BY <2>4, <2>5
  <2>7. \A other \in S : <<a, other>> \notin D.order
    <3> SUFFICES ASSUME NEW other \in S, <<a, other>> \in D.order PROVE FALSE
      OBVIOUS
    <3>1. made[a] < made[other]
      BY HeldOrder
    <3> HIDE DEF S
    <3> QED
      BY <1>2, <2>1, <2>6, <3>1
  <2>8. a \in Latest(D, S)
    BY <2>7 DEF Latest
  <2>9. Latest(D, S) \in SUBSET Nat
    BY <1>1, <2>1 DEF Latest
  <2> HIDE DEF S
  <2>10. Min(Latest(D, S)) \in Latest(D, S)
    BY <2>8, <2>9, SmallestExists
  <2> QED
    BY <2>8, <2>10 DEF LowerBound, LowestId, S
<1> QED
  BY <1>3, <1>4

\* What the two bounds of a record are.
LEMMA BoundsBound ==
  ASSUME NEW D, IsDag(D), NEW r \in D.observations
  PROVE  /\ UpperBound(D, r) = None <=> Sealing(D, r) = {}
         /\ LowerBound(D, r) = None <=> Preceding(D, r) = {}
         /\ UpperBound(D, r) # None
              => /\ UpperBound(D, r) \in Earliest(D, Sealing(D, r))
                 /\ UpperBound(D, r) \in Sealing(D, r)
         /\ LowerBound(D, r) # None
              => /\ LowerBound(D, r) \in Latest(D, Preceding(D, r))
                 /\ LowerBound(D, r) \in Preceding(D, r)
<1>1. Sealing(D, r) \in SUBSET Att /\ Preceding(D, r) \in SUBSET Att
  BY DEF IsDag, Sealing, Preceding
<1>2. \A a \in Att : a # None
  BY ObjectsType
<1>3. Sealing(D, r) = {} => UpperBound(D, r) = None
  BY DEF UpperBound, Earliest, LowestId
<1>4. Preceding(D, r) = {} => LowerBound(D, r) = None
  BY DEF LowerBound, Latest, LowestId
<1>5. /\ Earliest(D, Sealing(D, r)) \in SUBSET Sealing(D, r)
      /\ Latest(D, Preceding(D, r)) \in SUBSET Preceding(D, r)
  BY DEF Earliest, Latest
<1> QED
  BY <1>1, <1>2, <1>3, <1>4, <1>5, BoundsExist

\* What seals a record, or precedes it, is a held attestation about the record's
\* own author, signed by another key after the record was made, or before.
LEMMA WhatSeals ==
  ASSUME NEW D, IsDag(D), NEW r \in D.observations
  PROVE  /\ \A a \in Sealing(D, r) :
              /\ a \in D.attestations /\ witness[a] # author[r] /\ subject[a] = author[r]
              /\ made[r] < made[a]
         /\ \A a \in Preceding(D, r) :
              /\ a \in D.attestations /\ witness[a] # author[r] /\ subject[a] = author[r]
              /\ made[a] < made[r]
<1>1. r \in Obs /\ \A a \in D.attestations : a \notin Obs
  BY ObjectsType DEF IsDag
<1>2. Owner(r) = author[r] /\ \A a \in D.attestations : Owner(a) = subject[a]
  BY <1>1 DEF Owner
<1> QED
  BY <1>2, HeldOrder DEF Sealing, Preceding

\* A convicted witness seals nothing, however long the way from the record.
LEMMA SealingIsByOthers ==
  ASSUME NEW D, IsDag(D), NEW r \in D.observations, NEW a \in Sealing(D, r)
  PROVE  witness[a] \notin D.quarantined
<1> DEFINE O == D.observations
           A == D.attestations
           Q == D.quarantined
           V == O \cup A
           S == {v \in V : v \in A => witness[v] \notin Q}
<1>1. \A e \in Edge(O, A, Q) : e[2] \in S
  <2> SUFFICES ASSUME NEW e \in Edge(O, A, Q) PROVE e[2] \in S
    OBVIOUS
  <2>1. e[2] \in V
    BY EdgesGoForward DEF IsDag
  <2>2. \A x \in O : x \notin A
    BY ObjectsType DEF IsDag
  <2>3. CASE e \in ChainEdge(O) \cup AckEdge(O, A)
    <3>1. e[2] \in O
      BY <2>3 DEF ChainEdge, AckEdge
    <3> QED
      BY <2>2, <3>1
  <2>4. CASE e \in SealEdge(O, A, Q)
    <3>1. PICK b \in A : Sealer(O, Q, b) /\ e \in Walk(O, b) \X {b}
      BY <2>4 DEF SealEdge
    <3>2. e[2] = b /\ witness[b] \notin Q
      BY <3>1 DEF Sealer
    <3> QED
      BY <2>1, <3>2
  <2> QED
    BY <2>3, <2>4 DEF Edge
<1>2. <<r, a>> \in Closure(V, Edge(O, A, Q)) /\ a \in A
  <2>1. <<r, a>> \in Build(O, A, Q).order /\ a \in A
    BY DEF Sealing, IsDag
  <2> QED
    BY <2>1, OrderIsClosure
<1>3. a \in S
  <2>1. S \in SUBSET V
    OBVIOUS
  <2> HIDE DEF S, V
  <2> QED
    BY <1>1, <1>2, <2>1, ReachStaysIn
<1> QED
  BY <1>2, <1>3

-----------------------------------------------------------------------------
(***************************************************************************)
(* More objects.                                                           *)
(***************************************************************************)

\* With more entries held the walk along `prev` reaches what it reached.
LEMMA WalkGrows ==
  ASSUME NEW O1 \in SUBSET Obs, NEW O2 \in SUBSET Obs, O1 \subseteq O2,
         NEW a, Anchored(O1, a), NEW x \in Walk(O1, a)
  PROVE  x \in Walk(O2, a)
<1> DEFINE branch(O) == {y \in O : author[y] = subject[a]}
           closed(O) == {T \in SUBSET branch(O) :
                           /\ subject_head[a] \in T
                           /\ \A y \in T : prev[y] \in branch(O) => prev[y] \in T}
<1>1. x \in branch(O1) /\ \A S \in closed(O1) : x \in S
  <2>1. x \in branch(O1) /\ x \notin UNION {branch(O1) \ S : S \in closed(O1)}
    BY DEF Walk
  <2> HIDE DEF closed
  <2> QED
    BY <2>1
<1>2. x \in branch(O2) /\ subject_head[a] \in branch(O1) /\ branch(O1) \subseteq branch(O2)
  BY <1>1 DEF Anchored
<1>3. ASSUME NEW T \in closed(O2) PROVE x \in T
  <2>1. T \cap branch(O1) \in closed(O1)
    BY <1>2
  <2> HIDE DEF closed
  <2> QED
    BY <1>1, <2>1
<1>4. x \notin UNION {branch(O2) \ S : S \in closed(O2)}
  <2> HIDE DEF closed
  <2> QED
    BY <1>3
<1> QED
  BY <1>2, <1>4 DEF Walk

\* An edge between vertices of owner k is not lost when more is held and no
\* witness of k but k itself is newly convicted: k does not seal its own entries.
LEMMA EdgesGrow ==
  ASSUME NEW O1 \in SUBSET Obs, NEW O2 \in SUBSET Obs, O1 \subseteq O2,
         NEW A1 \in SUBSET Att, NEW A2 \in SUBSET Att, A1 \subseteq A2,
         NEW Q1, NEW Q2, NEW k,
         \A a \in A1 : subject[a] = k /\ witness[a] # k /\ witness[a] \in Q2 => witness[a] \in Q1,
         NEW e \in Edge(O1, A1, Q1), Owner(e[1]) = k
  PROVE  e \in Edge(O2, A2, Q2)
<1>1. CASE e \in ChainEdge(O1)
  BY <1>1 DEF ChainEdge, Edge
<1>2. CASE e \in AckEdge(O1, A1)
  BY <1>2 DEF AckEdge, Edge
<1>3. CASE e \in SealEdge(O1, A1, Q1)
  <2>1. PICK a \in A1 : Sealer(O1, Q1, a) /\ e \in Walk(O1, a) \X {a}
    BY <1>3 DEF SealEdge
  <2>2. e = <<e[1], a>> /\ e[1] \in Walk(O1, a)
    BY <2>1
  <2>3. Anchored(O1, a) /\ Anchored(O2, a) /\ witness[a] # subject[a] /\ witness[a] \notin Q1
    BY <2>1 DEF Sealer, Anchored
  <2>4. e[1] \in O1 /\ author[e[1]] = subject[a]
    BY <2>2, <2>3, WalkGoesBack
  <2>5. subject[a] = k
    BY <2>4 DEF Owner
  <2>6. Sealer(O2, Q2, a)
    BY <2>3, <2>5 DEF Sealer
  <2>7. e[1] \in Walk(O2, a)
    BY <2>2, <2>3, WalkGrows
  <2>8. e \in Walk(O2, a) \X {a}
    BY <2>2, <2>7
  <2>9. e \in SealEdge(O2, A2, Q2)
    BY <2>6, <2>8 DEF SealEdge
  <2> QED
    BY <2>9 DEF Edge
<1> QED
  BY <1>1, <1>2, <1>3 DEF Edge

\* Nor is anything reached along such edges.
LEMMA OrderGrows ==
  ASSUME NEW O1 \in SUBSET Obs, NEW O2 \in SUBSET Obs, O1 \subseteq O2,
         NEW A1 \in SUBSET Att, NEW A2 \in SUBSET Att, A1 \subseteq A2,
         NEW Q1, NEW Q2, NEW k,
         \A a \in A1 : subject[a] = k /\ witness[a] # k /\ witness[a] \in Q2 => witness[a] \in Q1,
         NEW x, NEW y, <<x, y>> \in Build(O1, A1, Q1).order, Owner(x) = k
  PROVE  <<x, y>> \in Build(O2, A2, Q2).order
<1> DEFINE V1 == O1 \cup A1
           V2 == O2 \cup A2
           E1 == Edge(O1, A1, Q1)
           E2 == Edge(O2, A2, Q2)
<1>1. <<x, y>> \in Closure(V1, E1) /\ x \in V1 /\ y \in V1 /\ Owner(y) = k
  <2>1. /\ <<x, y>>[1] = x /\ <<x, y>>[2] = y
    OBVIOUS
  <2> QED
    BY <2>1, OrderIsClosure, ReachedIsLater
<1>2. \A e \in E1 : Owner(e[1]) = k => e \in E2
  BY EdgesGrow
<1>3. \A e \in E1 : e[1] \in V1 /\ e[2] \in V1 /\ Owner(e[2]) = Owner(e[1])
  BY EdgesGoForward
<1>4. ASSUME NEW S \in SUBSET V2, \A e \in E2 : e[1] \in S => e[2] \in S,
             \A e \in E2 : e[1] = x => e[2] \in S
      PROVE  y \in S
  <2> DEFINE T == {v \in V1 : Owner(v) = k => v \in S}
  <2>1. \A e \in E1 : e[1] \in T => e[2] \in T
    BY <1>2, <1>3, <1>4
  <2>2. \A e \in E1 : e[1] = x => e[2] \in T
    BY <1>2, <1>3, <1>4
  <2>3. T \in SUBSET V1
    OBVIOUS
  <2>4. y \in T
    <3> HIDE DEF T, V1, E1
    <3> QED
      BY <1>1, <2>1, <2>2, <2>3, ReachStaysIn
  <2> QED
    BY <1>1, <2>4
<1>5. x \in V2 /\ y \in V2
  BY <1>1
<1>6. <<x, y>> \in Closure(V2, E2)
  <2> HIDE DEF V2, E2
  <2> QED
    BY <1>4, <1>5, InAllIsReached
<1> QED
  BY <1>6, OrderIsClosure

\* Every attestation stays whose witness is still believed and that seals a
\* record by itself.
LEMMA DirectSealsGrow ==
  ASSUME NEW O1 \in SUBSET Obs, NEW O2 \in SUBSET Obs, O1 \subseteq O2,
         NEW A1 \in SUBSET Att, NEW A2 \in SUBSET Att, A1 \subseteq A2,
         NEW Q1, NEW Q2, NEW e \in SealEdge(O1, A1, Q1), witness[e[2]] \notin Q2
  PROVE  /\ witness[e[2]] # author[e[1]] /\ e[2] \in A2
         /\ <<e[1], e[2]>> \in Build(O2, A2, Q2).order
<1>1. PICK a \in A1 : Sealer(O1, Q1, a) /\ e \in Walk(O1, a) \X {a}
  BY DEF SealEdge
<1>2. e = <<e[1], a>> /\ e[2] = a /\ e[1] \in Walk(O1, a)
  BY <1>1
<1>3. Anchored(O1, a) /\ Anchored(O2, a) /\ witness[a] # subject[a]
  BY <1>1 DEF Sealer, Anchored
<1>4. e[1] \in O1 /\ author[e[1]] = subject[a]
  BY <1>2, <1>3, WalkGoesBack
<1>5. Sealer(O2, Q2, a) /\ e[1] \in Walk(O2, a)
  BY <1>2, <1>3, WalkGrows DEF Sealer
<1>6. <<e[1], a>> \in SealEdge(O2, A2, Q2)
  BY <1>5 DEF SealEdge
<1>7. <<e[1], a>> \in Edge(O2, A2, Q2)
  BY <1>6 DEF Edge
<1>8. <<e[1], a>> \in Closure(O2 \cup A2, Edge(O2, A2, Q2))
  <2>1. e[1] \in O2 \cup A2 /\ a \in O2 \cup A2
    BY <1>4
  <2>2. <<e[1], a>>[1] = e[1] /\ <<e[1], a>>[2] = a
    OBVIOUS
  <2> QED
    BY <1>7, <2>1, <2>2, InAllIsReached
<1> QED
  BY <1>2, <1>3, <1>4, <1>8, OrderIsClosure

\* Fewer attestations have no more witnesses.
LEMMA FewerWitnesses ==
  ASSUME NEW S, NEW T, S \subseteq T, IsFiniteSet(T)
  PROVE  Cardinality({witness[a] : a \in S}) <= Cardinality({witness[a] : a \in T})
<1> DEFINE keys == {witness[a] : a \in T}
           signer == [a \in T |-> witness[a]]
<1>1. signer \in Surjection(T, keys)
  BY DEF Surjection
<1>2. IsFiniteSet(keys)
  <2> HIDE DEF signer, keys
  <2> QED
    BY <1>1, FS_Surjection
<1>3. {witness[a] : a \in S} \in SUBSET keys
  OBVIOUS
<1> QED
  <2> HIDE DEF keys
  <2>1. Cardinality({witness[a] : a \in S}) <= Cardinality(keys)
    BY <1>2, <1>3, FS_Subset
  <2> QED
    BY <2>1 DEF keys

-----------------------------------------------------------------------------
(***************************************************************************)
(* The part of a DAG that one record depends on.                           *)
(***************************************************************************)

\* Every link of k between entries of O joins consecutive numbers.
LinksFit(O, k) ==
  \A x \in O : author[x] = k /\ prev[x] \in O /\ author[prev[x]] = k => seq[prev[x]] + 1 = seq[x]

\* The sequence number a vertex stands at.
Level(v) == IF v \in Obs THEN seq[v] ELSE subject_seq[v]

\* Where links fit, the walk from an attested head stays below it.
LEMMA WalkStaysBelow ==
  ASSUME NEW O \in SUBSET Obs, NEW a \in Att, Anchored(O, a), LinksFit(O, subject[a]),
         NEW x \in Walk(O, a)
  PROVE  seq[x] <= subject_seq[a]
<1> DEFINE branch == {y \in O : author[y] = subject[a]}
           below == {y \in branch : seq[y] <= subject_seq[a]}
           closed == {T \in SUBSET branch : /\ subject_head[a] \in T
                                            /\ \A y \in T : prev[y] \in branch => prev[y] \in T}
<1>1. \A y \in O : seq[y] \in Nat
  BY ObjectsType
<1>2. subject_seq[a] \in Nat
  BY ObjectsType
<1>3. subject_head[a] \in below
  BY <1>2 DEF Anchored
<1>4. \A y \in below : prev[y] \in branch => prev[y] \in below
  BY <1>1, <1>2 DEF LinksFit
<1>5. below \in closed
  BY <1>3, <1>4
<1>6. x \in branch /\ x \notin UNION {branch \ S : S \in closed}
  BY DEF Walk
<1>7. x \in below
  <2> HIDE DEF closed, below
  <2> QED
    BY <1>5, <1>6
<1> QED
  BY <1>7

\* So what is reached does not stand lower.
LEMMA LevelsDoNotFall ==
  ASSUME NEW O \in SUBSET Obs, NEW A \in SUBSET Att, NEW Q, NEW k, LinksFit(O, k),
         NEW x, NEW y, <<x, y>> \in Build(O, A, Q).order, Owner(x) = k
  PROVE  Level(x) <= Level(y)
<1> DEFINE V == O \cup A
           E == Edge(O, A, Q)
           S == {v \in V : Owner(v) = k /\ Level(x) <= Level(v)}
<1>1. <<x, y>> \in Closure(V, E) /\ x \in V /\ y \in V
  <2>1. <<x, y>>[1] = x /\ <<x, y>>[2] = y
    OBVIOUS
  <2> QED
    BY <2>1, OrderIsClosure, ReachedIsLater
<1>2. /\ \A v \in O : Level(v) = seq[v] /\ v \in Obs
      /\ \A v \in A : Level(v) = subject_seq[v] /\ v \notin Obs
      /\ \A v \in V : Level(v) \in Nat
  BY ObjectsType DEF Level
<1>3. ASSUME NEW e \in E, Owner(e[1]) = k
      PROVE  Level(e[1]) <= Level(e[2])
  <2>1. CASE e \in ChainEdge(O)
    <3>1. PICK v \in O : e = <<prev[v], v>> /\ prev[v] \in O /\ seq[prev[v]] + 1 = seq[v]
      BY <2>1 DEF ChainEdge
    <3>2. seq[prev[v]] \in Nat /\ Level(prev[v]) = seq[prev[v]] /\ Level(v) = seq[v]
      BY <1>2, <3>1, ObjectsType
    <3> QED
      BY <3>1, <3>2
  <2>2. CASE e \in AckEdge(O, A)
    <3>1. PICK a \in A, v \in O : e = <<a, v>> /\ subject_seq[a] < seq[v]
      BY <2>2 DEF AckEdge, SoundAck
    <3>2. Level(a) = subject_seq[a] /\ Level(v) = seq[v] /\ subject_seq[a] \in Nat /\ seq[v] \in Nat
      BY <1>2, ObjectsType
    <3> QED
      BY <3>1, <3>2
  <2>3. CASE e \in SealEdge(O, A, Q)
    <3>1. PICK a \in A : Sealer(O, Q, a) /\ e \in Walk(O, a) \X {a}
      BY <2>3 DEF SealEdge
    <3>2. e[2] = a /\ e[1] \in Walk(O, a) /\ Anchored(O, a)
      BY <3>1 DEF Sealer
    <3>3. e[1] \in O /\ author[e[1]] = subject[a]
      BY <3>2, WalkGoesBack
    <3>4. subject[a] = k
      BY <1>3, <3>3 DEF Owner
    <3>5. seq[e[1]] <= subject_seq[a]
      BY <3>2, <3>4, WalkStaysBelow
    <3> QED
      BY <1>2, <3>2, <3>3, <3>5
  <2> QED
    BY <2>1, <2>2, <2>3 DEF Edge
<1>4. \A e \in E : e[1] \in V /\ e[2] \in V /\ Owner(e[2]) = Owner(e[1])
  BY EdgesGoForward
<1>5. \A e \in E : e[1] \in S => e[2] \in S
  <2> SUFFICES ASSUME NEW e \in E, e[1] \in S PROVE e[2] \in S
    OBVIOUS
  <2>1. e[1] \in V /\ e[2] \in V /\ Owner(e[2]) = k /\ Level(e[1]) <= Level(e[2])
        /\ Level(x) <= Level(e[1])
    BY <1>3, <1>4
  <2>2. Level(x) <= Level(e[2])
    BY <1>1, <1>2, <2>1
  <2> QED
    BY <2>1, <2>2
<1>6. \A e \in E : e[1] = x => e[2] \in S
  BY <1>3, <1>4
<1>7. y \in S
  <2>1. S \in SUBSET V
    OBVIOUS
  <2> HIDE DEF S, V, E
  <2> QED
    BY <1>1, <1>5, <1>6, <2>1, ReachStaysIn
<1> QED
  BY <1>7

\* O1 and A1 are what a pack carries of O2 and A2 for the record r: every
\* attestation before or after it, and the author's chain up to r and to each of
\* those attestations.
Carries(O1, A1, O2, A2, Q2, r) ==
  /\ O1 \subseteq O2 /\ A1 \subseteq A2 /\ r \in O1
  /\ \A a \in A2 : <<r, a>> \in Build(O2, A2, Q2).order \/ <<a, r>> \in Build(O2, A2, Q2).order
       => a \in A1
  /\ \A y \in O2 : author[y] = author[r] /\ seq[y] <= seq[r] => y \in O1
  /\ \A a \in A1, y \in O2 :
       author[y] = author[r] /\ subject[a] = author[r] /\ seq[y] <= subject_seq[a] => y \in O1

\* An edge of the author's chain is one of the carried part if both its ends are
\* carried.
LEMMA CarriedEdge ==
  ASSUME NEW O2 \in SUBSET Obs, NEW A2 \in SUBSET Att, NEW O1, NEW A1, NEW Q1, NEW Q2, NEW r,
         Carries(O1, A1, O2, A2, Q2, r), LinksFit(O2, author[r]),
         \A a \in A1 : witness[a] \in Q1 => witness[a] \in Q2,
         NEW e \in Edge(O2, A2, Q2), e[1] \in O1 \cup A1, e[2] \in O1 \cup A1,
         Owner(e[1]) = author[r]
  PROVE  e \in Edge(O1, A1, Q1)
<1>1. /\ O1 \in SUBSET Obs /\ A1 \in SUBSET Att
      /\ \A v \in Obs : v \notin Att
  BY ObjectsType DEF Carries
<1>2. CASE e \in ChainEdge(O2)
  <2>1. PICK v \in O2 : /\ e = <<prev[v], v>> /\ prev[v] \in O2
                        /\ author[prev[v]] = author[v] /\ seq[prev[v]] + 1 = seq[v]
    BY <1>2 DEF ChainEdge
  <2>2. v \in O1 /\ prev[v] \in O1
    BY <1>1, <2>1
  <2> QED
    BY <2>1, <2>2 DEF ChainEdge, Edge
<1>3. CASE e \in AckEdge(O2, A2)
  <2>1. PICK a \in A2, v \in O2 : e = <<a, v>> /\ a \in acks[v] /\ SoundAck(a, v)
    BY <1>3 DEF AckEdge
  <2>2. v \in O1 /\ a \in A1
    BY <1>1, <2>1
  <2> QED
    BY <2>1, <2>2 DEF AckEdge, Edge
<1>4. CASE e \in SealEdge(O2, A2, Q2)
  <2>1. PICK a \in A2 : Sealer(O2, Q2, a) /\ e \in Walk(O2, a) \X {a}
    BY <1>4 DEF SealEdge
  <2>2. e = <<e[1], a>> /\ e[1] \in Walk(O2, a) /\ Anchored(O2, a)
    BY <2>1 DEF Sealer
  <2>3. e[1] \in O2 /\ author[e[1]] = subject[a]
    BY <2>2, WalkGoesBack
  <2>4. subject[a] = author[r] /\ a \in A1
    BY <1>1, <2>2, <2>3 DEF Owner
  <2>5. \A y \in O2 : author[y] = subject[a] /\ seq[y] <= subject_seq[a] => y \in O1
    BY <2>4 DEF Carries
  <2>6. subject_seq[a] \in Nat /\ \A y \in O2 : seq[y] \in Nat
    BY ObjectsType
  <2>7. Anchored(O1, a) /\ Sealer(O1, Q1, a)
    BY <2>1, <2>2, <2>4, <2>5, <2>6 DEF Anchored, Sealer
  <2>8. e[1] \in Walk(O1, a)
    <3> DEFINE branch(O) == {y \in O : author[y] = subject[a]}
               closed(O) == {T \in SUBSET branch(O) :
                               /\ subject_head[a] \in T
                               /\ \A y \in T : prev[y] \in branch(O) => prev[y] \in T}
               below(T) == {y \in T : seq[y] <= subject_seq[a]}
    <3>1. e[1] \in branch(O2) /\ \A T \in closed(O2) : e[1] \in T
      <4>1. e[1] \in branch(O2) /\ e[1] \notin UNION {branch(O2) \ S : S \in closed(O2)}
        BY <2>2 DEF Walk
      <4> HIDE DEF closed
      <4> QED
        BY <4>1
    <3>2. branch(O1) \subseteq branch(O2)
      BY DEF Carries
    <3>3. ASSUME NEW T \in closed(O1)
          PROVE  below(T) \in closed(O2)
      <4>1. below(T) \in SUBSET branch(O2)
        BY <3>2
      <4>2. subject_head[a] \in below(T)
        BY <2>6, <2>7 DEF Anchored
      <4>3. ASSUME NEW y \in below(T), prev[y] \in branch(O2)
            PROVE  prev[y] \in below(T)
        <5>1. seq[prev[y]] + 1 = seq[y]
          BY <2>4, <3>2, <4>3 DEF LinksFit
        <5>2. y \in branch(O2) /\ seq[y] <= subject_seq[a]
          BY <3>2
        <5>3. seq[prev[y]] <= subject_seq[a]
          BY <2>6, <4>3, <5>1, <5>2
        <5>4. prev[y] \in branch(O1)
          BY <2>5, <4>3, <5>3
        <5> QED
          BY <5>3, <5>4
      <4> QED
        BY <4>1, <4>2, <4>3
    <3>4. ASSUME NEW T \in closed(O1)
          PROVE  e[1] \in T
      <4>1. e[1] \in below(T)
        <5> HIDE DEF closed, below
        <5> QED
          BY <3>1, <3>3
      <4> QED
        BY <4>1
    <3>5. e[1] \in branch(O1)
      <4>1. branch(O1) \in closed(O1)
        BY <2>7 DEF Anchored
      <4> HIDE DEF closed
      <4> QED
        BY <3>4, <4>1
    <3>6. e[1] \notin UNION {branch(O1) \ S : S \in closed(O1)}
      <4> HIDE DEF closed
      <4> QED
        BY <3>4
    <3> QED
      BY <3>5, <3>6 DEF Walk
  <2>9. e \in Walk(O1, a) \X {a}
    BY <2>2, <2>8
  <2> QED
    BY <2>4, <2>7, <2>9 DEF SealEdge, Edge
<1> QED
  BY <1>2, <1>3, <1>4 DEF Edge

\* What the record and the attestations before and after it are to each other
\* can be read off the carried part.
LEMMA CarriedOrder ==
  ASSUME NEW O2 \in SUBSET Obs, NEW A2 \in SUBSET Att, NEW O1, NEW A1, NEW Q1, NEW Q2, NEW r,
         Carries(O1, A1, O2, A2, Q2, r), LinksFit(O2, author[r]),
         \A a \in A1 : witness[a] \in Q1 => witness[a] \in Q2,
         NEW x, NEW y, <<x, y>> \in Build(O2, A2, Q2).order,
         y = r \/ y \in A2,
         \/ x = r \/ <<r, x>> \in Build(O2, A2, Q2).order
         \/ y = r \/ <<y, r>> \in Build(O2, A2, Q2).order
  PROVE  <<x, y>> \in Build(O1, A1, Q1).order
<1> DEFINE V == O2 \cup A2
           E == Edge(O2, A2, Q2)
           C == Closure(V, E)
           k == author[r]
           W == OnTheWay(V, E, x, y)
<1>1. Build(O2, A2, Q2).order = C
  BY OrderIsClosure
<1>2. \A e \in E : e[1] \in V /\ e[2] \in V
  BY EdgesGoForward
<1>3. \A u, v : <<u, v>> \in C => u \in V /\ v \in V /\ Owner(u) = Owner(v)
  <2> SUFFICES ASSUME NEW u, NEW v, <<u, v>> \in Build(O2, A2, Q2).order
               PROVE  u \in V /\ v \in V /\ Owner(u) = Owner(v)
    BY <1>1
  <2>1. <<u, v>>[1] = u /\ <<u, v>>[2] = v
    OBVIOUS
  <2> QED
    BY <2>1, ReachedIsLater
<1>4. \A t, u, v : <<t, u>> \in C /\ <<u, v>> \in C => <<t, v>> \in C
  BY PathsJoin
<1>5. r \in O2 /\ r \notin A2 /\ Owner(r) = k
  BY ObjectsType DEF Carries, Owner
<1>6. <<x, y>> \in C /\ (x = r \/ <<r, x>> \in C \/ y = r \/ <<y, r>> \in C)
  BY <1>1
<1>7. \A v \in W : v \in V /\ (v = x \/ <<x, v>> \in C) /\ (v = y \/ <<v, y>> \in C)
  BY DEF OnTheWay
<1> HIDE DEF C, W
<1>8. Owner(x) = k /\ Owner(y) = k
  BY <1>3, <1>5, <1>6
<1>9. ASSUME NEW v \in W
      PROVE  v \in O1 \cup A1 /\ Owner(v) = k
  <2>1. Owner(v) = k /\ v \in V
    BY <1>3, <1>7, <1>8
  <2>2. CASE v \in A2
    <3>1. <<r, v>> \in C \/ <<v, r>> \in C
      BY <1>4, <1>5, <1>6, <1>7, <2>2
    <3> QED
      BY <1>1, <2>1, <2>2, <3>1 DEF Carries
  <2>3. CASE v \in O2
    <3>1. v \in Obs /\ author[v] = k /\ Level(v) = seq[v]
      BY <2>1, <2>3 DEF Owner, Level
    <3>2. Level(v) <= Level(y)
      <4>1. CASE v = y
        <5>1. seq[v] \in Nat
          BY <3>1, ObjectsType
        <5> QED
          BY <3>1, <4>1, <5>1
      <4>2. CASE <<v, y>> \in C
        BY <1>1, <2>1, <4>2, LevelsDoNotFall
      <4> QED
        BY <1>7, <4>1, <4>2
    <3>3. CASE y = r
      <4>1. Level(y) = seq[r]
        BY <1>5, <3>3 DEF Level
      <4> QED
        BY <2>1, <2>3, <3>1, <3>2, <4>1 DEF Carries
    <3>4. CASE y \in A2 /\ y # r
      <4>1. y \notin Obs /\ Level(y) = subject_seq[y] /\ subject[y] = k
        BY <1>8, <3>4, ObjectsType DEF Level, Owner
      <4>2. <<r, y>> \in C \/ <<y, r>> \in C
        BY <1>4, <1>6, <3>4
      <4>3. y \in A1
        BY <1>1, <3>4, <4>2 DEF Carries
      <4> QED
        BY <2>1, <2>3, <3>1, <3>2, <4>1, <4>3 DEF Carries
    <3> QED
      BY <3>3, <3>4
  <2> QED
    BY <2>1, <2>2, <2>3
<1>10. ASSUME NEW e \in E, {e[1], e[2]} \subseteq W
       PROVE  e \in Edge(O1, A1, Q1)
  BY <1>9, <1>10, CarriedEdge
<1>11. <<x, y>> \in Closure(O1 \cup A1, Edge(O1, A1, Q1))
  <2>1. W \subseteq O1 \cup A1
    BY <1>9
  <2> HIDE DEF V, E
  <2> QED
    BY <1>2, <1>6, <1>10, <2>1, WayIsKept DEF C, W
<1> QED
  BY <1>11, OrderIsClosure

=============================================================================
