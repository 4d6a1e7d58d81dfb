------------------------------ MODULE NumberSets ------------------------------
(***************************************************************************)
(* Facts about sets of natural numbers, such as the sequence numbers of a  *)
(* chain or the ids among which the code takes the lowest.                 *)
(***************************************************************************)
EXTENDS Naturals, FiniteSetsExt, FiniteSetTheorems, WellFoundedInduction, TLAPS

\* The smallest element of a one-element set of numbers.
LEMMA MinOfOne ==
  ASSUME NEW n \in Nat
  PROVE  Min({n}) = n
  BY DEF Min

\* A finite set of numbers has a largest one: among its parts above a bound,
\* take one that is smallest.
LEMMA LargestExists ==
  ASSUME NEW S \in SUBSET Nat, IsFiniteSet(S), S # {}
  PROVE  /\ Max(S) \in S
         /\ \A n \in S : n <= Max(S)
<1> DEFINE Above(n) == {m \in S : n <= m}
           Parts == {Above(n) : n \in S}
           Smaller == StrictSubsetOrdering(S)
<1>1. IsWellFoundedOn(Smaller, FiniteSubsetsOf(S))
  BY FS_StrictSubsetOrderingWellFounded
<1>2. Parts \subseteq FiniteSubsetsOf(S) /\ Parts # {}
  <2>1. FiniteSubsetsOf(S) = SUBSET S
    BY FS_FiniteSubsetsOfFinite
  <2>2. \A n \in S : Above(n) \in SUBSET S
    OBVIOUS
  <2>3. Parts \subseteq SUBSET S
    BY <2>2
  <2>4. Parts # {}
    BY Zenon
  <2> QED
    BY <2>1, <2>3, <2>4, Zenon
<1>3. \E x \in Parts : \A y \in Parts : <<y, x>> \notin Smaller
  <2> HIDE DEF Parts, Smaller
  <2> QED
    BY <1>1, <1>2, WFMin
<1>4. PICK n \in S : \A m \in S : <<Above(m), Above(n)>> \notin Smaller
  BY <1>3
<1>5. \A m \in S : m <= n
  <2> SUFFICES ASSUME NEW m \in S, n < m PROVE FALSE
    OBVIOUS
  <2>0. m \in Nat /\ n \in Nat
    OBVIOUS
  <2>1. Above(m) \subseteq Above(n) /\ n \in Above(n) /\ n \notin Above(m)
    <3>1. \A i \in S : m <= i => n <= i
      BY <2>0
    <3>2. n <= n /\ ~(m <= n)
      BY <2>0
    <3> QED
      BY <3>1, <3>2, Zenon
  <2>2. <<Above(m), Above(n)>> \in Smaller
    BY <2>1 DEF StrictSubsetOrdering
  <2> QED
    BY <1>4, <2>2
<1> QED
  BY <1>5 DEF Max

\* And every set of numbers a smallest one.
LEMMA SmallestExists ==
  ASSUME NEW S \in SUBSET Nat, S # {}
  PROVE  /\ Min(S) \in S
         /\ \A n \in S : Min(S) <= n
<1> DEFINE Less == {p \in Nat \X Nat : p[1] < p[2]}
<1>1. IsWellFoundedOn(Less, Nat)
  BY NatLessThanWellFounded DEF OpToRel
<1>2. \E n \in S : \A m \in S : <<m, n>> \notin Less
  <2> HIDE DEF Less
  <2> QED
    BY <1>1, WFMin
<1>3. PICK n \in S : \A m \in S : n <= m
  <2>1. \A i, j \in Nat : <<i, j>> \notin Less => j <= i
    OBVIOUS
  <2> HIDE DEF Less
  <2> QED
    BY <1>2, <2>1
<1> QED
  BY <1>3 DEF Min

\* A set of numbers that holds all numbers below each of its own is the interval
\* from zero to its largest one.
LEMMA ClosedBelowIsInterval ==
  ASSUME NEW S \in SUBSET Nat, IsFiniteSet(S), S # {},
         \A n \in S : n > 0 => n - 1 \in S
  PROVE  S = 0 .. Max(S)
<1> DEFINE Holes == (0 .. Max(S)) \ S
<1>1. Max(S) \in S /\ Max(S) \in Nat /\ \A n \in S : n <= Max(S)
  BY LargestExists
<1>2. SUFFICES ASSUME Holes # {} PROVE FALSE
  <2>1. \A n \in S : n \in 0 .. Max(S)
    BY <1>1
  <2> QED
    BY <2>1
<1>3. Holes \in SUBSET Nat /\ IsFiniteSet(Holes)
  <2>1. IsFiniteSet(0 .. Max(S))
    BY <1>1, FS_Interval
  <2> QED
    BY <1>1, <2>1, FS_Subset
<1>4. PICK g \in Holes : \A n \in Holes : n <= g
  <2> HIDE DEF Holes
  <2> QED
    BY <1>2, <1>3, LargestExists
<1>5. g \in Nat /\ g < Max(S) /\ g + 1 \in 0 .. Max(S)
  BY <1>1
<1>6. g + 1 \in S
  BY <1>4, <1>5
<1> QED
  BY <1>5, <1>6

\* As many numbers as the largest plus one: none is missing.
LEMMA CountTellsInterval ==
  ASSUME NEW S \in SUBSET Nat, IsFiniteSet(S), S # {}
  PROVE  (Cardinality(S) = Max(S) + 1) <=> (S = 0 .. Max(S))
<1>1. Max(S) \in Nat /\ S \in SUBSET (0 .. Max(S))
  <2>1. Max(S) \in Nat /\ \A n \in S : n \in Nat /\ n <= Max(S)
    BY LargestExists
  <2>2. \A n \in S : n \in 0 .. Max(S)
    BY <2>1
  <2> QED
    BY <2>1, <2>2
<1>2. IsFiniteSet(0 .. Max(S)) /\ Cardinality(0 .. Max(S)) = Max(S) + 1
  BY <1>1, FS_Interval
<1> HIDE DEF Max
<1>3. CASE Cardinality(S) = Max(S) + 1
  BY <1>1, <1>2, <1>3, FS_Subset
<1>4. CASE S = 0 .. Max(S)
  BY <1>2, <1>4
<1> QED
  BY <1>3, <1>4
-----------------------------------------------------------------------------
\* The numbers of G with fewer than `limit` others of G below them.
Below(G, n) == {m \in G : m < n}
Lowest(G, limit) == {n \in G : Cardinality(Below(G, n)) < limit}

\* They are the lowest ones of G, and `limit` many if G has as many.
LEMMA LowestAreLowest ==
  ASSUME NEW G \in SUBSET Nat, IsFiniteSet(G), NEW limit \in Nat \ {0}
  PROVE  /\ \A m \in Lowest(G, limit), n \in G \ Lowest(G, limit) : m < n
         /\ Cardinality(Lowest(G, limit)) =
              IF Cardinality(G) < limit THEN Cardinality(G) ELSE limit
<1> DEFINE L == Lowest(G, limit)
           R == G \ L
<1>0. /\ L \in SUBSET G /\ R \in SUBSET G /\ IsFiniteSet(L) /\ limit \in Nat /\ limit # 0
      /\ Cardinality(G) \in Nat /\ Cardinality(L) \in Nat
  <2>1. L \in SUBSET G
    BY DEF Lowest
  <2> QED
    BY <2>1, FS_Subset, FS_CardinalityType
<1>1. ASSUME NEW n \in Nat
      PROVE  /\ Below(G, n) \in SUBSET G /\ IsFiniteSet(Below(G, n))
             /\ Cardinality(Below(G, n)) \in Nat
  <2>1. Below(G, n) \in SUBSET G
    BY DEF Below
  <2> QED
    BY <2>1, FS_Subset, FS_CardinalityType
<1>2. ASSUME NEW m \in L, NEW n \in R
      PROVE  m < n
  <2>0. m \in Nat /\ n \in Nat /\ m \in G /\ n \in G
    BY <1>0
  <2>1. SUFFICES ASSUME n <= m PROVE FALSE
    BY <2>0
  <2>2. Below(G, n) \in SUBSET Below(G, m)
    <3>1. \A i \in G : i < n => i < m
      BY <2>0, <2>1
    <3> HIDE DEF L, R
    <3> QED
      BY <3>1 DEF Below
  <2>3. Cardinality(Below(G, n)) <= Cardinality(Below(G, m))
    BY <1>1, <2>0, <2>2, FS_Subset
  <2>4. Cardinality(Below(G, m)) < limit /\ ~(Cardinality(Below(G, n)) < limit)
    BY <2>0 DEF Lowest
  <2> QED
    BY <1>0, <1>1, <2>0, <2>3, <2>4
<1>3. ASSUME L # {}
      PROVE  Cardinality(L) <= limit
  <2>1. PICK x \in L : \A n \in L : n <= x
    BY <1>0, <1>3, LargestExists
  <2>2. x \in Nat /\ L \ {x} \in SUBSET Below(G, x)
    <3> HIDE DEF L, R
    <3>1. x \in Nat /\ \A i \in L : i \in G /\ i \in Nat
      BY <1>0
    <3>2. \A i \in L \ {x} : i < x
      BY <2>1, <3>1
    <3> QED
      BY <3>1, <3>2 DEF Below
  <2>3. Cardinality(L \ {x}) = Cardinality(L) - 1
    BY <1>0, FS_RemoveElement
  <2>4. Cardinality(L \ {x}) <= Cardinality(Below(G, x))
    BY <1>1, <2>2, FS_Subset
  <2>5. Cardinality(Below(G, x)) < limit
    BY DEF Lowest
  <2> QED
    BY <1>0, <1>1, <2>2, <2>3, <2>4, <2>5
<1>4. ASSUME R # {}
      PROVE  limit <= Cardinality(L)
  <2>1. PICK r \in R : \A n \in R : r <= n
    BY <1>0, <1>4, SmallestExists
  <2>2. r \in Nat /\ Below(G, r) = L
    <3>1. r \in Nat
      BY <1>0
    <3>2. \A m \in G : m < r => m \in L
      <4>1. \A m \in G : m \in R => ~(m < r)
        BY <2>1, <3>1
      <4> QED
        BY <4>1
    <3>3. \A m \in L : m \in G /\ m < r
      BY <1>0, <1>2
    <3> HIDE DEF L, R
    <3> QED
      BY <3>1, <3>2, <3>3 DEF Below
  <2>3. ~(Cardinality(Below(G, r)) < limit)
    BY <1>0 DEF Lowest
  <2> QED
    BY <1>0, <2>2, <2>3
<1>5. R = {} => L = G
  BY <1>0
<1>6. L = {} => Cardinality(L) = 0
  BY FS_EmptySet
<1>7. Cardinality(L) <= Cardinality(G)
  BY <1>0, FS_Subset
<1>8. ASSUME G # {} PROVE L # {}
  <2>1. PICK g \in G : \A n \in G : g <= n
    BY <1>8, SmallestExists
  <2>2. Below(G, g) = {}
    <3>1. \A i \in G : ~(i < g)
      BY <2>1
    <3> QED
      BY <3>1 DEF Below
  <2>3. g \in L
    BY <1>0, <2>2, FS_EmptySet DEF Lowest
  <2> QED
    BY <2>3
<1> HIDE DEF L
<1> QED
  BY <1>0, <1>2, <1>3, <1>4, <1>5, <1>6, <1>7, <1>8 DEF L
=============================================================================
