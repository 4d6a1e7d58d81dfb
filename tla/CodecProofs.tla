----------------------------- MODULE CodecProofs -----------------------------
(***************************************************************************)
(* What the writer produces is what the strict reader accepts and what     *)
(* decodes to the value written, so that no two objects share an encoding: *)
(* proved for every number, every string and every length.                 *)
(***************************************************************************)
EXTENDS Codec, NumberSets, SequenceTheorems

-----------------------------------------------------------------------------
(***************************************************************************)
(* Sequences of anything.                                                  *)
(***************************************************************************)
IsSequence(s) == \E S : s \in Seq(S)

LEMMA EmptyIsSequence == IsSequence(<<>>)
  BY EmptySeq DEF IsSequence

LEMMA OneIsSequence ==
  ASSUME NEW a
  PROVE  IsSequence(<<a>>) /\ <<a>> # <<>>
<1>1. <<a>> \in Seq({a})
  OBVIOUS
<1> QED
  BY <1>1 DEF IsSequence

LEMMA JoinIsSequence ==
  ASSUME NEW s, NEW t, IsSequence(s), IsSequence(t)
  PROVE  IsSequence(s \o t)
<1>1. PICK S, T : s \in Seq(S) /\ t \in Seq(T)
  BY DEF IsSequence
<1>2. s \in Seq(S \cup T) /\ t \in Seq(S \cup T)
  BY <1>1, SeqMonotonic
<1>3. s \o t \in Seq(S \cup T)
  BY <1>2, ConcatProperties
<1> QED
  BY <1>3 DEF IsSequence

LEMMA JoinAssociates ==
  ASSUME NEW s, NEW t, NEW u, IsSequence(s), IsSequence(t), IsSequence(u)
  PROVE  (s \o t) \o u = s \o (t \o u)
<1>1. PICK S, T, U : s \in Seq(S) /\ t \in Seq(T) /\ u \in Seq(U)
  BY DEF IsSequence
<1> DEFINE all == S \cup T \cup U
<1>2. s \in Seq(all) /\ t \in Seq(all) /\ u \in Seq(all)
  BY <1>1, SeqMonotonic
<1> QED
  BY <1>2, ConcatAssociative

LEMMA JoinEmpty ==
  ASSUME NEW s, IsSequence(s)
  PROVE  <<>> \o s = s /\ s \o <<>> = s
<1>1. PICK S : s \in Seq(S)
  BY DEF IsSequence
<1> QED
  BY <1>1, ConcatEmptySeq

LEMMA JoinOne ==
  ASSUME NEW a, NEW s, IsSequence(s)
  PROVE  <<a>> \o s # <<>> /\ Head(<<a>> \o s) = a /\ Tail(<<a>> \o s) = s
<1>1. PICK S : s \in Seq(S)
  BY DEF IsSequence
<1>2. s \in Seq(S \cup {a}) /\ <<a>> \in Seq(S \cup {a})
  BY <1>1, SeqMonotonic
<1> QED
  BY <1>2

LEMMA JoinTwo ==
  ASSUME NEW a, NEW b
  PROVE  <<a>> \o <<b>> = <<a, b>>
<1> DEFINE S == {a, b}
           s == <<a>> \o <<b>>
           t == <<a, b>>
<1>1. <<a>> \in Seq(S) /\ Len(<<a>>) = 1 /\ <<a>>[1] = a
  OBVIOUS
<1>2. <<b>> \in Seq(S) /\ Len(<<b>>) = 1 /\ <<b>>[1] = b
  OBVIOUS
<1>3. t \in Seq(S) /\ Len(t) = 2 /\ t[1] = a /\ t[2] = b
  OBVIOUS
<1>4. \A u, v \in Seq(S) :
        /\ u \o v \in Seq(S) /\ Len(u \o v) = Len(u) + Len(v)
        /\ \A i \in 1 .. Len(u) + Len(v) :
             (u \o v)[i] = IF i <= Len(u) THEN u[i] ELSE v[i - Len(u)]
  BY ConcatProperties
<1>5. s \in Seq(S) /\ Len(s) = 2 /\ s[1] = a /\ s[2] = b
  <2> DEFINE u == <<a>>
             v == <<b>>
  <2>1. u \in Seq(S) /\ v \in Seq(S) /\ Len(u) = 1 /\ Len(v) = 1 /\ u[1] = a /\ v[1] = b
    BY <1>1, <1>2
  <2> HIDE DEF u, v, S
  <2>2. u \o v \in Seq(S) /\ Len(u \o v) = 2 /\ (u \o v)[1] = a /\ (u \o v)[2] = b
    BY <1>4, <2>1
  <2> QED
    BY <2>2 DEF u, v
<1> HIDE DEF s, t, S
<1>6. \A i \in 1 .. 2 : s[i] = t[i]
  <2>1. \A i \in 1 .. 2 : i = 1 \/ i = 2
    OBVIOUS
  <2> QED
    BY <1>3, <1>5, <2>1
<1>7. s = t
  BY <1>3, <1>5, <1>6, SeqEqual
<1> QED
  BY <1>7 DEF s, t

-----------------------------------------------------------------------------
(***************************************************************************)
(* Reading.                                                                *)
(***************************************************************************)

\* Pairs of what is expected and what is left of the input, of which reading
\* never leaves with a refusal.
Closed(A) ==
  \A p \in A :
    \/ p[1] = <<>> /\ p[2] = <<>>
    \/ /\ p[1] # <<>> /\ p[2] # <<>>
       /\ Accepts(Head(p[1]), Head(p[2]))
       /\ <<Opens(Head(p[1]), Head(p[2])) \o Tail(p[1]), Tail(p[2])>> \in A

\* An input that is read to its end when E is expected.
Readable(E, rest) == \E A : Closed(A) /\ <<E, rest>> \in A

\* Where E is expected, w is read, and then F is expected.
Leads(E, w, F) ==
  \A t, rest : IsSequence(t) /\ IsSequence(rest) /\ Readable(F \o t, rest)
                 => Readable(E \o t, w \o rest)

LEMMA EmptyIsReadable == Readable(<<>>, <<>>)
<1> DEFINE A == {<< <<>>, <<>> >>}
<1>1. Closed(A) /\ << <<>>, <<>> >> \in A
  BY DEF Closed
<1> QED
  BY <1>1 DEF Readable

\* One item is read.
LEMMA ItemLeads ==
  ASSUME NEW e, NEW item, Accepts(e, item), IsSequence(Opens(e, item))
  PROVE  Leads(<<e>>, <<item>>, Opens(e, item))
<1> SUFFICES ASSUME NEW t, NEW rest, IsSequence(t), IsSequence(rest),
                    Readable(Opens(e, item) \o t, rest)
             PROVE  Readable(<<e>> \o t, <<item>> \o rest)
  BY DEF Leads
<1>1. PICK A : Closed(A) /\ <<Opens(e, item) \o t, rest>> \in A
  BY DEF Readable
<1> DEFINE p == <<<<e>> \o t, <<item>> \o rest>>
<1>2. /\ p[1] # <<>> /\ p[2] # <<>>
      /\ Head(p[1]) = e /\ Tail(p[1]) = t /\ Head(p[2]) = item /\ Tail(p[2]) = rest
  BY JoinOne
<1> HIDE DEF p
<1>3. Closed(A \cup {p})
  <2> SUFFICES ASSUME NEW q \in A \cup {p}
               PROVE  \/ q[1] = <<>> /\ q[2] = <<>>
                      \/ /\ q[1] # <<>> /\ q[2] # <<>>
                         /\ Accepts(Head(q[1]), Head(q[2]))
                         /\ <<Opens(Head(q[1]), Head(q[2])) \o Tail(q[1]), Tail(q[2])>>
                              \in A \cup {p}
    BY DEF Closed
  <2>1. CASE q = p
    BY <1>1, <1>2, <2>1
  <2>2. CASE q \in A
    BY <1>1, <2>2 DEF Closed
  <2> QED
    BY <2>1, <2>2
<1>4. Readable(p[1], p[2])
  <2>1. p = <<p[1], p[2]>>
    BY DEF p
  <2> QED
    BY <1>3, <2>1 DEF Readable
<1>5. p[1] = <<e>> \o t /\ p[2] = <<item>> \o rest
  BY DEF p
<1> QED
  BY <1>4, <1>5

\* Nothing is read.
LEMMA NothingLeads ==
  ASSUME NEW E
  PROVE  Leads(E, <<>>, E)
  BY JoinEmpty DEF Leads

\* One stretch of the input after another.
LEMMA LeadsOn ==
  ASSUME NEW E, NEW F, NEW G, NEW w, NEW v, IsSequence(w), IsSequence(v),
         Leads(E, w, F), Leads(F, v, G)
  PROVE  Leads(E, w \o v, G)
<1> SUFFICES ASSUME NEW t, NEW rest, IsSequence(t), IsSequence(rest), Readable(G \o t, rest)
             PROVE  Readable(E \o t, (w \o v) \o rest)
  BY DEF Leads
<1>1. Readable(F \o t, v \o rest) /\ IsSequence(v \o rest)
  BY JoinIsSequence DEF Leads
<1>2. Readable(E \o t, w \o (v \o rest))
  BY <1>1 DEF Leads
<1>3. (w \o v) \o rest = w \o (v \o rest)
  BY JoinAssociates
<1> QED
  BY <1>2, <1>3

\* What is expected later stays expected.
LEMMA LeadsBefore ==
  ASSUME NEW E, NEW F, NEW D, NEW w, IsSequence(E), IsSequence(F), IsSequence(D),
         Leads(E, w, F)
  PROVE  Leads(E \o D, w, F \o D)
<1>1. ASSUME NEW t, NEW G, IsSequence(t), IsSequence(G)
      PROVE  (G \o D) \o t = G \o (D \o t)
  BY <1>1, JoinAssociates, SMTT(60)
<1> SUFFICES ASSUME NEW t, NEW rest, IsSequence(t), IsSequence(rest),
                    Readable((F \o D) \o t, rest)
             PROVE  Readable((E \o D) \o t, w \o rest)
  BY DEF Leads
<1>2. Readable(F \o (D \o t), rest)
  BY <1>1
<1>3. IsSequence(D \o t)
  BY JoinIsSequence
<1>4. Readable(E \o (D \o t), w \o rest)
  BY <1>2, <1>3 DEF Leads
<1> QED
  BY <1>1, <1>4

\* w is an encoding of what e expects.
Fits(e, w) == IsSequence(w) /\ Leads(<<e>>, w, <<>>)

LEMMA FitsBefore ==
  ASSUME NEW e, NEW w, NEW D, Fits(e, w), IsSequence(D)
  PROVE  Leads(<<e>> \o D, w, D)
<1>1. Leads(<<e>> \o D, w, <<>> \o D)
  BY LeadsBefore, OneIsSequence, EmptyIsSequence DEF Fits
<1> QED
  BY <1>1, JoinEmpty

\* A head that is all of an encoding, and one that opens something.
LEMMA HeadFits ==
  ASSUME NEW e, NEW item, Accepts(e, item), Opens(e, item) = <<>>
  PROVE  Fits(e, <<item>>)
  BY ItemLeads, OneIsSequence, EmptyIsSequence DEF Fits

LEMMA OpenFits ==
  ASSUME NEW e, NEW item, NEW w, Accepts(e, item), IsSequence(Opens(e, item)),
         IsSequence(w), Leads(Opens(e, item), w, <<>>)
  PROVE  Fits(e, <<item>> \o w)
  BY ItemLeads, LeadsOn, JoinIsSequence, OneIsSequence DEF Fits

-----------------------------------------------------------------------------
(***************************************************************************)
(* Sequences of encodings.                                                 *)
(***************************************************************************)

\* The function by which FlattenSeq is defined.
Flatter(f, parts, i) == IF i = 1 THEN parts[i] ELSE f[i - 1] \o parts[i]
Flat(parts, n) == CHOOSE f : f = [i \in 1 .. n |-> Flatter(f, parts, i)]

\* There is one: else there is a smallest number of parts for which there is none.
LEMMA FlatExists ==
  ASSUME NEW parts, NEW n \in Nat
  PROVE  \E f : f = [i \in 1 .. n |-> Flatter(f, parts, i)]
<1> DEFINE Exists(m) == \E f : f = [i \in 1 .. m |-> Flatter(f, parts, i)]
           Wrong == {m \in Nat : ~Exists(m)}
<1>1. SUFFICES ASSUME Wrong # {} PROVE FALSE
  OBVIOUS
<1>2. PICK m \in Wrong : \A k \in Wrong : m <= k
  <2> HIDE DEF Exists
  <2> QED
    BY <1>1, SmallestExists
<1>3. CASE m = 0
  <2> DEFINE f == [i \in 1 .. 0 |-> 0]
  <2>1. f = [i \in 1 .. 0 |-> Flatter(f, parts, i)]
    <3>1. 1 .. 0 = {}
      OBVIOUS
    <3> QED
      BY <3>1
  <2> HIDE DEF f
  <2> QED
    BY <1>2, <1>3, <2>1
<1>4. CASE m # 0
  <2>1. m \in Nat /\ m - 1 \in Nat /\ ~(m <= m - 1)
    BY <1>4
  <2>2. Exists(m - 1)
    <3> HIDE DEF Exists
    <3> QED
      BY <1>2, <2>1
  <2>3. PICK f : f = [i \in 1 .. m - 1 |-> Flatter(f, parts, i)]
    BY <2>2
  <2> DEFINE g == [i \in 1 .. m |-> IF i = m THEN Flatter(f, parts, m) ELSE f[i]]
  <2>4. ASSUME NEW i \in 1 .. m
        PROVE  g[i] = Flatter(g, parts, i)
    <3>1. CASE i = 1 /\ i = m
      BY <3>1 DEF Flatter
    <3>2. CASE i = 1 /\ i # m
      <4>1. i \in 1 .. m - 1
        BY <2>1, <3>2
      <4>2. f[i] = Flatter(f, parts, i)
        BY <2>3, <4>1
      <4> QED
        BY <3>2, <4>2 DEF Flatter
    <3>3. CASE i # 1
      <4>1. i - 1 \in 1 .. m /\ i - 1 # m /\ (i # m => i \in 1 .. m - 1)
        BY <2>1, <3>3
      <4>2. g[i - 1] = f[i - 1]
        BY <4>1
      <4>3. Flatter(g, parts, i) = Flatter(f, parts, i)
        <5> HIDE DEF g
        <5> QED
          BY <3>3, <4>2 DEF Flatter
      <4>4. i # m => f[i] = Flatter(f, parts, i)
        BY <2>3, <4>1
      <4>5. g[i] = Flatter(f, parts, i)
        BY <4>4
      <4> QED
        BY <4>3, <4>5
    <3> QED
      BY <3>1, <3>2, <3>3
  <2>5. g = [i \in 1 .. m |-> Flatter(g, parts, i)]
    <3>1. g = [i \in 1 .. m |-> g[i]]
      OBVIOUS
    <3> HIDE DEF g
    <3> QED
      BY <2>4, <3>1
  <2> HIDE DEF g
  <2> QED
    BY <1>2, <2>5
<1> QED
  BY <1>3, <1>4

\* A sequence of encodings is read from end to end if each leads to the next.
LEMMA FlattenLeads ==
  ASSUME NEW n \in Nat, NEW parts, DOMAIN parts = 1 .. n, parts = [i \in 1 .. n |-> parts[i]],
         NEW E, \A i \in 1 .. n : IsSequence(parts[i]) /\ Leads(E[i - 1], parts[i], E[i])
  PROVE  IsSequence(FlattenSeq(parts)) /\ Leads(E[0], FlattenSeq(parts), E[n])
<1>1. Len(parts) = n
  <2>1. parts \in Seq({parts[i] : i \in 1 .. n})
    OBVIOUS
  <2> QED
    BY <2>1, LenProperties
<1>2. CASE n = 0
  <2>1. parts = <<>> /\ FlattenSeq(parts) = <<>>
    BY <1>1, <1>2 DEF FlattenSeq
  <2> QED
    BY <1>2, <2>1, NothingLeads, EmptyIsSequence
<1>3. CASE n # 0
  <2> DEFINE f == Flat(parts, n)
             Right(m) == IsSequence(f[m]) /\ Leads(E[0], f[m], E[m])
             Wrong == {m \in 1 .. n : ~Right(m)}
  <2>1. FlattenSeq(parts) = f[n]
    BY <1>1, <1>3 DEF FlattenSeq, Flat, Flatter
  <2>2. f = [i \in 1 .. n |-> Flatter(f, parts, i)]
    BY FlatExists DEF Flat
  <2> HIDE DEF f
  <2>3. ASSUME Wrong # {} PROVE FALSE
    <3>1. PICK m \in Wrong : \A k \in Wrong : m <= k
      <4>1. Wrong \in SUBSET Nat
        OBVIOUS
      <4> HIDE DEF Wrong
      <4> QED
        BY <2>3, <4>1, SmallestExists
    <3>2. m \in 1 .. n /\ ~Right(m) /\ f[m] = Flatter(f, parts, m)
      BY <2>2
    <3>3. CASE m = 1
      <4>1. f[m] = parts[1] /\ E[1 - 1] = E[0]
        BY <3>2, <3>3 DEF Flatter
      <4>2. IsSequence(parts[1]) /\ Leads(E[1 - 1], parts[1], E[1])
        BY <3>2, <3>3
      <4> QED
        BY <3>2, <3>3, <4>1, <4>2
    <3>4. CASE m # 1
      <4>1. m - 1 \in 1 .. n /\ ~(m <= m - 1)
        BY <3>2, <3>4
      <4>2. Right(m - 1)
        <5> HIDE DEF Right
        <5> QED
          BY <3>1, <4>1
      <4>3. f[m] = f[m - 1] \o parts[m]
        BY <3>2, <3>4 DEF Flatter
      <4>4. IsSequence(parts[m]) /\ Leads(E[m - 1], parts[m], E[m])
        BY <3>2
      <4>5. IsSequence(f[m - 1] \o parts[m])
        BY <4>2, <4>4, JoinIsSequence
      <4>6. Leads(E[0], f[m - 1] \o parts[m], E[m])
        BY <4>2, <4>4, LeadsOn
      <4> QED
        BY <3>2, <4>3, <4>5, <4>6
    <3> QED
      BY <3>3, <3>4
  <2>4. Right(n)
    <3>1. n \in 1 .. n
      BY <1>3
    <3> HIDE DEF Right
    <3> QED
      BY <2>3, <3>1
  <2> QED
    BY <2>1, <2>4
<1> QED
  BY <1>2, <1>3

-----------------------------------------------------------------------------
(***************************************************************************)
(* Numbers in ascending order.                                             *)
(***************************************************************************)

\* Of two numbers of a set, the higher one has more of it below.
LEMMA MoreBelow ==
  ASSUME NEW S \in SUBSET Nat, IsFiniteSet(S), NEW k \in S
  PROVE  /\ Cardinality(Below(S, k)) \in Nat
         /\ Cardinality(Below(S, k)) < Cardinality(S)
         /\ \A j \in S : j < k => Cardinality(Below(S, j)) < Cardinality(Below(S, k))
<1>1. ASSUME NEW j \in S
      PROVE  /\ Below(S, j) \in SUBSET S /\ IsFiniteSet(Below(S, j))
             /\ Cardinality(Below(S, j)) \in Nat
             /\ IsFiniteSet(Below(S, j) \cup {j})
             /\ Cardinality(Below(S, j) \cup {j}) = Cardinality(Below(S, j)) + 1
  <2>1. Below(S, j) \in SUBSET S
    BY DEF Below
  <2>2. IsFiniteSet(Below(S, j)) /\ Cardinality(Below(S, j)) \in Nat
    BY <2>1, FS_Subset, FS_CardinalityType
  <2>3. j \notin Below(S, j)
    BY DEF Below
  <2> QED
    BY <2>1, <2>2, <2>3, FS_AddElement
<1>2. Cardinality(Below(S, k) \cup {k}) <= Cardinality(S)
  <2>1. Below(S, k) \cup {k} \in SUBSET S
    BY <1>1
  <2> QED
    BY <2>1, FS_Subset
<1>3. ASSUME NEW j \in S, j < k
      PROVE  Cardinality(Below(S, j) \cup {j}) <= Cardinality(Below(S, k))
  <2>1. \A i \in S : i < j => i < k
    BY <1>3
  <2>2. Below(S, j) \cup {j} \in SUBSET Below(S, k)
    BY <1>3, <2>1 DEF Below
  <2> QED
    BY <1>1, <2>2, FS_Subset
<1>4. Cardinality(S) \in Nat
  BY FS_CardinalityType
<1>5. Cardinality(Below(S, k)) < Cardinality(S)
  BY <1>1, <1>2, <1>4
<1>6. ASSUME NEW j \in S, j < k
      PROVE  Cardinality(Below(S, j)) < Cardinality(Below(S, k))
  <2>1. /\ Cardinality(Below(S, j)) \in Nat /\ Cardinality(Below(S, k)) \in Nat
        /\ Cardinality(Below(S, j)) + 1 <= Cardinality(Below(S, k))
    BY <1>1, <1>3, <1>6
  <2> QED
    BY <2>1
<1> QED
  BY <1>1, <1>5, <1>6

\* There is one with each number of others below it.
LEMMA NthExists ==
  ASSUME NEW S \in SUBSET Nat, IsFiniteSet(S), NEW n \in 1 .. Cardinality(S)
  PROVE  \E k \in S : Cardinality(Below(S, k)) = n - 1
<1>1. Cardinality(S) \in Nat /\ n \in Nat \ {0} /\ n <= Cardinality(S)
  BY FS_CardinalityType
<1> DEFINE L == Lowest(S, n)
<1>2. /\ L \in SUBSET S /\ IsFiniteSet(L) /\ Cardinality(L) = n
      /\ \A i \in L, j \in S \ L : i < j
  <2>1. L \in SUBSET S
    BY DEF Lowest
  <2> QED
    BY <1>1, <2>1, LowestAreLowest, FS_Subset
<1>3. L # {}
  BY <1>1, <1>2, FS_EmptySet
<1>4. PICK k \in L : \A i \in L : i <= k
  <2>1. L \in SUBSET Nat
    BY <1>2
  <2> QED
    BY <1>2, <1>3, <2>1, LargestExists
<1>5. Below(S, k) = L \ {k}
  <2>1. k \in S /\ k \in Nat /\ \A i \in S : i \in Nat
    BY <1>2
  <2>2. \A i \in S : i < k => i \in L \ {k}
    BY <1>2, <2>1
  <2>3. \A i \in L \ {k} : i \in S /\ i < k
    BY <1>2, <1>4, <2>1
  <2> HIDE DEF L
  <2> QED
    BY <2>2, <2>3 DEF Below
<1>6. Cardinality(L \ {k}) = n - 1
  BY <1>2, FS_RemoveElement
<1> QED
  BY <1>2, <1>5, <1>6

\* InOrder lists a set in ascending order, and leaves nothing out.
LEMMA OrderAscends ==
  ASSUME NEW S \in SUBSET Nat, IsFiniteSet(S)
  PROVE  /\ Cardinality(S) \in Nat
         /\ DOMAIN InOrder(S) = 1 .. Cardinality(S) /\ Len(InOrder(S)) = Cardinality(S)
         /\ InOrder(S) = [n \in 1 .. Cardinality(S) |-> InOrder(S)[n]]
         /\ \A n \in 1 .. Cardinality(S) : InOrder(S)[n] \in S
         /\ \A m, n \in 1 .. Cardinality(S) : m < n => InOrder(S)[m] < InOrder(S)[n]
         /\ \A k \in S : \E n \in 1 .. Cardinality(S) : InOrder(S)[n] = k
<1> DEFINE size == Cardinality(S)
           s == InOrder(S)
<1>1. size \in Nat
  BY FS_CardinalityType
<1>2. s = [n \in 1 .. size |-> CHOOSE k \in S : Cardinality(Below(S, k)) = n - 1]
  BY DEF InOrder, Below
<1>3. ASSUME NEW n \in 1 .. size
      PROVE  s[n] \in S /\ Cardinality(Below(S, s[n])) = n - 1
  <2>1. s[n] = CHOOSE k \in S : Cardinality(Below(S, k)) = n - 1
    BY <1>2
  <2> HIDE DEF s
  <2> QED
    BY <2>1, NthExists
<1>4. DOMAIN s = 1 .. size /\ s = [n \in 1 .. size |-> s[n]]
  BY <1>2
<1> HIDE DEF s
<1>5. Len(s) = size
  <2>1. s \in Seq(S)
    BY <1>1, <1>3, <1>4
  <2>2. DOMAIN s = 1 .. Len(s) /\ Len(s) \in Nat
    BY <2>1, LenProperties
  <2>3. \A i, j \in Nat : 1 .. i = 1 .. j => i = j
    <3> SUFFICES ASSUME NEW i \in Nat, NEW j \in Nat, 1 .. i = 1 .. j PROVE i = j
      OBVIOUS
    <3>1. (i # 0 => i \in 1 .. j) /\ (j # 0 => j \in 1 .. i)
      OBVIOUS
    <3> QED
      BY <3>1
  <2> HIDE DEF size
  <2> QED
    BY <1>1, <1>4, <2>2, <2>3
<1>6. ASSUME NEW j \in S, NEW k \in S, Cardinality(Below(S, j)) = Cardinality(Below(S, k))
      PROVE  j = k
  BY <1>6, MoreBelow
<1>7. ASSUME NEW m \in 1 .. size, NEW n \in 1 .. size, m < n
      PROVE  s[m] < s[n]
  <2>1. /\ s[m] \in S /\ s[n] \in S /\ Cardinality(Below(S, s[m])) = m - 1
        /\ Cardinality(Below(S, s[n])) = n - 1
    BY <1>3
  <2>2. s[n] < s[m] => n - 1 < m - 1
    BY <2>1, MoreBelow
  <2>3. s[n] = s[m] => n - 1 = m - 1
    BY <2>1
  <2>4. s[m] \in Nat /\ s[n] \in Nat
    BY <2>1
  <2> QED
    BY <1>7, <2>2, <2>3, <2>4
<1>8. ASSUME NEW k \in S
      PROVE  \E n \in 1 .. size : s[n] = k
  <2> DEFINE n == Cardinality(Below(S, k)) + 1
  <2>1. n \in 1 .. size /\ n - 1 = Cardinality(Below(S, k))
    BY <1>1, MoreBelow
  <2>2. s[n] \in S /\ Cardinality(Below(S, s[n])) = n - 1
    BY <1>3, <2>1
  <2>3. s[n] = k
    BY <1>6, <2>1, <2>2
  <2> QED
    BY <2>1, <2>3
<1> QED
  BY <1>1, <1>3, <1>4, <1>5, <1>7, <1>8 DEF s

-----------------------------------------------------------------------------
(***************************************************************************)
(* The values of which objects are made.                                   *)
(***************************************************************************)

\* Everything is written in the shortest head.
LEMMA WrittenShortest ==
  ASSUME NEW major, NEW n \in Nat, NEW content
  PROVE  /\ HeadOk(Item(major, Shortest(n), n, content))
         /\ Item(major, Shortest(n), n, content).major = major
         /\ Item(major, Shortest(n), n, content).arg = n
         /\ Item(major, Shortest(n), n, content).content = content
  BY DEF HeadOk, Item

\* A number of the range asked for.
LEMMA UintFits ==
  ASSUME NEW least, NEW most, NEW n \in Nat, least <= n, n <= most
  PROVE  Fits(UintIn(least, most), WriteUint(n))
<1> DEFINE e == UintIn(least, most)
           item == Item("uint", Shortest(n), n, 0)
<1>1. e.is = "uint" /\ e.least = least /\ e.most = most
  BY DEF UintIn
<1>2. WriteUint(n) = <<item>>
  BY DEF WriteUint, WriteHead
<1>3. HeadOk(item) /\ item.major = "uint" /\ item.arg = n
  BY WrittenShortest
<1> HIDE DEF e, item
<1>4. Accepts(e, item) /\ Opens(e, item) = <<>>
  BY <1>1, <1>3 DEF Accepts, Opens, Wanted
<1> QED
  BY <1>2, <1>4, HeadFits DEF e

\* A number of either sign, whose magnitude as written is in range.
LEMMA IntFits ==
  ASSUME NEW most \in Nat, NEW i \in Int, -1 - most <= i, i <= most
  PROVE  Fits(IntUpTo(most), WriteInt(i))
<1> DEFINE e == IntUpTo(most)
           n == IF i >= 0 THEN i ELSE -1 - i
           major == IF i >= 0 THEN "uint" ELSE "negint"
           item == Item(major, Shortest(n), n, 0)
<1>1. e.is = "int" /\ e.most = most
  BY DEF IntUpTo
<1>2. WriteInt(i) = <<item>>
  BY DEF WriteInt, WriteUint, WriteHead
<1>3. HeadOk(item) /\ item.major = major /\ item.arg = n
  BY WrittenShortest
<1>4. n <= most /\ major \in {"uint", "negint"}
  OBVIOUS
<1> HIDE DEF e, item, n, major
<1>5. Accepts(e, item) /\ Opens(e, item) = <<>>
  BY <1>1, <1>3, <1>4 DEF Accepts, Opens, Wanted
<1> QED
  BY <1>2, <1>5, HeadFits DEF e

\* Byte strings of a length asked for, of any length, and the one asked for.
LEMMA BytesFit ==
  ASSUME NEW length \in Nat, NEW rank
  PROVE  /\ \A lengths : length \in lengths => Fits(BytesOf(lengths), WriteBytes(length, rank))
         /\ Fits(AnyBytes, WriteBytes(length, rank))
         /\ Fits(TheBytes(length, rank), WriteBytes(length, rank))
<1> DEFINE item == Item("bytes", Shortest(length), length, rank)
<1>1. WriteBytes(length, rank) = <<item>>
  BY DEF WriteBytes, WriteHead
<1>2. HeadOk(item) /\ item.major = "bytes" /\ item.arg = length /\ item.content = rank
  BY WrittenShortest
<1> HIDE DEF item
<1>3. ASSUME NEW lengths, length \in lengths
      PROVE  Accepts(BytesOf(lengths), item) /\ Opens(BytesOf(lengths), item) = <<>>
  BY <1>2, <1>3 DEF Accepts, Opens, Wanted, BytesOf
<1>4. Accepts(AnyBytes, item) /\ Opens(AnyBytes, item) = <<>>
  BY <1>2 DEF Accepts, Opens, Wanted, AnyBytes
<1>5. Accepts(TheBytes(length, rank), item) /\ Opens(TheBytes(length, rank), item) = <<>>
  BY <1>2 DEF Accepts, Opens, Wanted, TheBytes
<1>6. ASSUME NEW lengths, length \in lengths
      PROVE  Fits(BytesOf(lengths), <<item>>)
  BY <1>3, <1>6, HeadFits
<1>7. Fits(AnyBytes, <<item>>) /\ Fits(TheBytes(length, rank), <<item>>)
  BY <1>4, <1>5, HeadFits
<1> QED
  BY <1>1, <1>6, <1>7

\* A text.
LEMMA TextFits ==
  ASSUME NEW length \in Nat, NEW rank, rank # NotUtf8
  PROVE  Fits(Text, WriteText(length, rank))
<1> DEFINE item == Item("text", Shortest(length), length, rank)
<1>1. WriteText(length, rank) = <<item>>
  BY DEF WriteText, WriteHead
<1>2. HeadOk(item) /\ item.major = "text" /\ item.content = rank
  BY WrittenShortest
<1> HIDE DEF item
<1>3. Accepts(Text, item) /\ Opens(Text, item) = <<>>
  BY <1>2 DEF Accepts, Opens, Wanted, Text
<1> QED
  BY <1>1, <1>3, HeadFits

-----------------------------------------------------------------------------
(***************************************************************************)
(* Arrays.                                                                 *)
(***************************************************************************)

\* A function on 1 .. n is a sequence of that length.
LEMMA FunctionIsSequence ==
  ASSUME NEW n \in Nat, NEW f, f = [i \in 1 .. n |-> f[i]]
  PROVE  /\ IsSequence(f) /\ Len(f) = n /\ DOMAIN f = 1 .. n
         /\ f \in Seq({f[i] : i \in 1 .. n})
<1>1. f \in Seq({f[i] : i \in 1 .. n})
  OBVIOUS
<1>2. Len(f) = n
  BY <1>1, LenProperties
<1> QED
  BY <1>1, <1>2 DEF IsSequence

\* Encodings one after another, each of what is expected in its place.
LEMMA ListLeads ==
  ASSUME NEW n \in Nat, NEW es, NEW ws,
         es = [i \in 1 .. n |-> es[i]], ws = [i \in 1 .. n |-> ws[i]],
         \A i \in 1 .. n : Fits(es[i], ws[i])
  PROVE  IsSequence(es) /\ IsSequence(FlattenSeq(ws)) /\ Leads(es, FlattenSeq(ws), <<>>)
<1> DEFINE rest(i) == [j \in 1 .. n - i |-> es[i + j]]
           E == [i \in 0 .. n |-> rest(i)]
<1>1. ASSUME NEW i \in 1 .. n
      PROVE  Leads(E[i - 1], ws[i], E[i])
  <2>1. IsSequence(rest(i)) /\ IsSequence(rest(i - 1))
    <3>1. n - i \in Nat /\ n - (i - 1) \in Nat
      OBVIOUS
    <3>2. IsSequence(rest(i))
      BY <3>1, FunctionIsSequence
    <3>3. IsSequence(rest(i - 1))
      BY <3>1, FunctionIsSequence
    <3> QED
      BY <3>2, <3>3
  <2>2. rest(i - 1) = <<es[i]>> \o rest(i)
    <3> DEFINE S == {es[j] : j \in 1 .. n}
               s == rest(i - 1)
               t == <<es[i]>> \o rest(i)
    <3>1. /\ s \in Seq(S) /\ rest(i) \in Seq(S) /\ <<es[i]>> \in Seq(S)
          /\ Len(s) = n - i + 1 /\ Len(rest(i)) = n - i /\ Len(<<es[i]>>) = 1
      <4>1. n - i \in Nat /\ n - i + 1 \in Nat /\ n - (i - 1) = n - i + 1
        OBVIOUS
      <4>2. \A j \in 1 .. n - i + 1 : i - 1 + j \in 1 .. n
        OBVIOUS
      <4>3. s \in [1 .. n - i + 1 -> S]
        BY <4>1, <4>2
      <4>4. \A j \in 1 .. n - i : i + j \in 1 .. n
        OBVIOUS
      <4>5. rest(i) \in [1 .. n - i -> S]
        BY <4>1, <4>4
      <4>6. <<es[i]>> \in Seq(S) /\ Len(<<es[i]>>) = 1
        OBVIOUS
      <4> HIDE DEF s, rest, S
      <4>7. s \in Seq(S) /\ Len(s) = n - i + 1
        BY <4>1, <4>3
      <4>8. rest(i) \in Seq(S) /\ Len(rest(i)) = n - i
        <5>1. \A m \in Nat : \A f \in [1 .. m -> S] : f \in Seq(S) /\ Len(f) = m
          OBVIOUS
        <5> QED
          BY <4>1, <4>5, <5>1, Zenon
      <4> QED
        BY <4>6, <4>7, <4>8
    <3>2. t \in Seq(S) /\ Len(t) = 1 + (n - i)
      BY <3>1, ConcatProperties
    <3>3. ASSUME NEW j \in 1 .. n - i + 1
          PROVE  s[j] = t[j]
      <4>1. t[j] = IF j <= 1 THEN <<es[i]>>[j] ELSE rest(i)[j - 1]
        <5>1. j \in 1 .. Len(<<es[i]>>) + Len(rest(i)) /\ Len(<<es[i]>>) = 1
          BY <3>1
        <5> HIDE DEF rest, S, s
        <5> QED
          BY <3>1, <5>1, ConcatProperties
      <4>2. s[j] = es[i - 1 + j]
        OBVIOUS
      <4>3. j = 1 => t[j] = es[i] /\ s[j] = es[i]
        BY <4>1, <4>2
      <4>4. j # 1 => rest(i)[j - 1] = es[i + (j - 1)] /\ i + (j - 1) = i - 1 + j
        OBVIOUS
      <4> QED
        BY <4>1, <4>2, <4>3, <4>4
    <3> HIDE DEF s, t, S
    <3>4. s = t
      BY <3>1, <3>2, <3>3, SeqEqual
    <3> QED
      BY <3>4 DEF s, t
  <2>3. Leads(<<es[i]>> \o rest(i), ws[i], rest(i))
    <3> HIDE DEF rest
    <3> QED
      BY <2>1, FitsBefore
  <2>4. E[i - 1] = rest(i - 1) /\ E[i] = rest(i)
    <3> HIDE DEF rest
    <3> QED
      OBVIOUS
  <2> QED
    BY <2>2, <2>3, <2>4
<1>2. E[0] = es /\ E[n] = <<>>
  <2>1. rest(0) = es
    OBVIOUS
  <2>2. rest(n) = <<>>
    OBVIOUS
  <2> HIDE DEF rest
  <2> QED
    BY <2>1, <2>2
<1> HIDE DEF E
<1>3. IsSequence(FlattenSeq(ws)) /\ Leads(E[0], FlattenSeq(ws), E[n])
  <2>1. \A i \in 1 .. n : IsSequence(ws[i]) /\ Leads(E[i - 1], ws[i], E[i])
    BY <1>1 DEF Fits
  <2>2. DOMAIN ws = 1 .. n
    OBVIOUS
  <2> QED
    BY <2>1, <2>2, FlattenLeads
<1> QED
  BY <1>2, <1>3, FunctionIsSequence

\* An array of a fixed number of parts, and one of any number of like parts.
LEMMA ArrayFits ==
  ASSUME NEW n \in Nat, NEW ws, ws = [i \in 1 .. n |-> ws[i]]
  PROVE  /\ \A es : es = [i \in 1 .. n |-> es[i]] /\ (\A i \in 1 .. n : Fits(es[i], ws[i]))
                     => Fits(Tuple(es), WriteArray(ws))
         /\ \A part : (\A i \in 1 .. n : Fits(part, ws[i])) => Fits(Array(part), WriteArray(ws))
<1> DEFINE item == Item("array", Shortest(n), n, 0)
<1>1. WriteArray(ws) = <<item>> \o FlattenSeq(ws)
  BY FunctionIsSequence DEF WriteArray, WriteArrayHead, WriteHead
<1>2. HeadOk(item) /\ item.major = "array" /\ item.arg = n
  BY WrittenShortest
<1> HIDE DEF item
<1>3. ASSUME NEW es, es = [i \in 1 .. n |-> es[i]], \A i \in 1 .. n : Fits(es[i], ws[i])
      PROVE  Fits(Tuple(es), <<item>> \o FlattenSeq(ws))
  <2>1. Len(es) = n
    BY <1>3, FunctionIsSequence
  <2>2. Accepts(Tuple(es), item) /\ Opens(Tuple(es), item) = es
    <3>1. Tuple(es).is = "tuple" /\ Tuple(es).parts = es
      BY DEF Tuple
    <3>2. Accepts(Tuple(es), item)
      BY <1>2, <2>1, <3>1 DEF Accepts, Wanted
    <3>3. Opens(Tuple(es), item) = [i \in 1 .. n |-> es[i]]
      BY <1>2, <3>1 DEF Opens
    <3> QED
      BY <1>3, <3>2, <3>3
  <2>3. IsSequence(es) /\ IsSequence(FlattenSeq(ws)) /\ Leads(es, FlattenSeq(ws), <<>>)
    BY <1>3, ListLeads
  <2> QED
    BY <2>2, <2>3, OpenFits
<1>4. ASSUME NEW part, \A i \in 1 .. n : Fits(part, ws[i])
      PROVE  Fits(Array(part), <<item>> \o FlattenSeq(ws))
  <2> DEFINE es == [i \in 1 .. n |-> part]
  <2>1. Accepts(Array(part), item) /\ Opens(Array(part), item) = es
    BY <1>2 DEF Accepts, Opens, Wanted, Array
  <2>2. es = [i \in 1 .. n |-> es[i]] /\ \A i \in 1 .. n : Fits(es[i], ws[i])
    BY <1>4
  <2> HIDE DEF es
  <2>3. IsSequence(es) /\ IsSequence(FlattenSeq(ws)) /\ Leads(es, FlattenSeq(ws), <<>>)
    BY <2>2, ListLeads
  <2> QED
    BY <2>1, <2>3, OpenFits
<1> QED
  BY <1>1, <1>3, <1>4

\* Pairs and triples.
LEMMA PairFits ==
  ASSUME NEW a, NEW b, NEW v, NEW w, Fits(a, v), Fits(b, w)
  PROVE  Fits(Tuple(<<a, b>>), WriteArray(<<v, w>>))
<1> DEFINE es == <<a, b>>
           ws == <<v, w>>
<1>1. es = [i \in 1 .. 2 |-> es[i]] /\ ws = [i \in 1 .. 2 |-> ws[i]]
  OBVIOUS
<1>2. \A i \in 1 .. 2 : Fits(es[i], ws[i])
  OBVIOUS
<1> HIDE DEF es, ws
<1>3. Fits(Tuple(es), WriteArray(ws))
  BY <1>1, <1>2, ArrayFits
<1> QED
  BY <1>3 DEF es, ws

LEMMA TripleFits ==
  ASSUME NEW a, NEW b, NEW c, NEW u, NEW v, NEW w, Fits(a, u), Fits(b, v), Fits(c, w)
  PROVE  Fits(Tuple(<<a, b, c>>), WriteArray(<<u, v, w>>))
<1> DEFINE es == <<a, b, c>>
           ws == <<u, v, w>>
<1>1. es = [i \in 1 .. 3 |-> es[i]] /\ ws = [i \in 1 .. 3 |-> ws[i]]
  OBVIOUS
<1>2. \A i \in 1 .. 3 : Fits(es[i], ws[i])
  OBVIOUS
<1> HIDE DEF es, ws
<1>3. Fits(Tuple(es), WriteArray(ws))
  BY <1>1, <1>2, ArrayFits
<1> QED
  BY <1>3 DEF es, ws

-----------------------------------------------------------------------------
(***************************************************************************)
(* Maps and ascending lists.                                               *)
(***************************************************************************)

\* A key in its place opens what its field expects.
LEMMA KeyLeads ==
  ASSUME NEW fields, NEW left \in Nat \ {0}, NEW read, NEW k \in DOMAIN fields.of, NEW w,
         k \in Nat, \A j \in read : k > j, Fits(fields.of[k], w)
  PROVE  Leads(Keys(fields, left, read), WriteUint(k) \o w,
               Keys(fields, left - 1, read \cup {k}))
<1> DEFINE e == [is |-> "key", fields |-> fields, left |-> left, read |-> read]
           item == Item("uint", Shortest(k), k, 0)
           after == Keys(fields, left - 1, read \cup {k})
<1>1. Keys(fields, left, read) = <<e>>
  BY DEF Keys
<1>2. WriteUint(k) = <<item>>
  BY DEF WriteUint, WriteHead
<1>3. HeadOk(item) /\ item.major = "uint" /\ item.arg = k
  BY WrittenShortest
<1>4. e.is = "key" /\ e.fields = fields /\ e.left = left /\ e.read = read
  OBVIOUS
<1>5. IsSequence(after)
  BY OneIsSequence, EmptyIsSequence DEF Keys
<1> HIDE DEF item, e
<1>6. Accepts(e, item) /\ Opens(e, item) = <<fields.of[k]>> \o after
  BY <1>3, <1>4 DEF Accepts, Opens, Wanted, After
<1> HIDE DEF after
<1>7. IsSequence(<<fields.of[k]>> \o after)
  BY <1>5, OneIsSequence, JoinIsSequence
<1>8. Leads(<<e>>, <<item>>, <<fields.of[k]>> \o after)
  BY <1>6, <1>7, ItemLeads
<1>9. Leads(<<fields.of[k]>> \o after, w, after) /\ IsSequence(w)
  BY <1>5, FitsBefore DEF Fits
<1>10. Leads(<<e>>, <<item>> \o w, after)
  BY <1>8, <1>9, OneIsSequence, LeadsOn
<1> QED
  BY <1>1, <1>2, <1>10 DEF after

\* A map with all the fields that must be there and none that must not.
LEMMA FieldsFit ==
  ASSUME NEW fields, NEW need, NEW of,
         DOMAIN fields \in SUBSET Nat, IsFiniteSet(DOMAIN fields),
         need \subseteq DOMAIN fields, DOMAIN fields \subseteq DOMAIN of,
         \A k \in DOMAIN fields : Fits(of[k], fields[k])
  PROVE  Fits(Fields(need, of), WriteFields(fields))
<1> DEFINE D == DOMAIN fields
           keys == InOrder(D)
           n == Cardinality(D)
           e == Fields(need, of)
           seen(i) == {keys[j] : j \in 1 .. i}
           E == [i \in 0 .. n |-> Keys(e, n - i, seen(i))]
           ws == [i \in 1 .. n |-> WriteUint(keys[i]) \o fields[keys[i]]]
           item == Item("map", Shortest(n), n, 0)
<1>1. /\ n \in Nat /\ DOMAIN keys = 1 .. n /\ Len(keys) = n
      /\ \A i \in 1 .. n : keys[i] \in D
      /\ \A i, j \in 1 .. n : i < j => keys[i] < keys[j]
      /\ \A k \in D : \E i \in 1 .. n : keys[i] = k
  BY OrderAscends
<1>2. e.is = "fields" /\ e.need = need /\ e.of = of
  BY DEF Fields
<1>3. WriteFields(fields) = <<item>> \o FlattenSeq(ws)
  <2>1. ws = [i \in DOMAIN keys |-> [k \in D |-> WriteUint(k)][keys[i]] \o fields[keys[i]]]
    <3> HIDE DEF keys, n, D
    <3> QED
      BY <1>1
  <2> HIDE DEF ws
  <2> QED
    BY <1>1, <2>1 DEF WriteFields, WriteMap, WriteHead
<1> HIDE DEF keys, n, e
<1>4. ASSUME NEW i \in 1 .. n
      PROVE  IsSequence(ws[i]) /\ Leads(E[i - 1], ws[i], E[i])
  <2> DEFINE k == keys[i]
             left == n - (i - 1)
  <2>1. k \in D /\ k \in DOMAIN e.of /\ Fits(e.of[k], fields[k])
    BY <1>1, <1>2
  <2>2. left \in Nat \ {0} /\ left - 1 = n - i /\ i - 1 \in 0 .. n /\ i \in 0 .. n
    BY <1>1
  <2>3. \A j \in seen(i - 1) : k > j
    <3>1. \A j \in 1 .. i - 1 : j \in 1 .. n /\ j < i
      BY <1>1
    <3>2. \A j \in 1 .. i - 1 : keys[j] < keys[i] /\ keys[j] \in Nat /\ keys[i] \in Nat
      BY <1>1, <3>1
    <3> QED
      BY <3>2
  <2>4. seen(i) = seen(i - 1) \cup {k}
    <3>1. \A j : j \in 1 .. i <=> j \in 1 .. i - 1 \/ j = i
      BY <1>1
    <3> QED
      BY <3>1
  <2> HIDE DEF left, k, seen
  <2>5. Leads(Keys(e, left, seen(i - 1)), WriteUint(k) \o fields[k],
              Keys(e, left - 1, seen(i - 1) \cup {k}))
    BY <2>1, <2>2, <2>3, KeyLeads
  <2>6. E[i - 1] = Keys(e, left, seen(i - 1)) /\ E[i] = Keys(e, left - 1, seen(i - 1) \cup {k})
    BY <2>2, <2>4 DEF left
  <2>7. ws[i] = WriteUint(k) \o fields[k]
    BY DEF k
  <2>8. IsSequence(WriteUint(k) \o fields[k])
    BY <2>1, OneIsSequence, JoinIsSequence DEF Fits, WriteUint, WriteHead
  <2> QED
    BY <2>5, <2>6, <2>7, <2>8
<1>5. E[0] = Keys(e, n, {}) /\ E[n] = <<>>
  <2>1. seen(0) = {}
    OBVIOUS
  <2>2. seen(n) = D
    BY <1>1
  <2> HIDE DEF seen
  <2>3. Keys(e, 0, D) = <<>>
    BY <1>2 DEF Keys
  <2>4. E[0] = Keys(e, n - 0, seen(0)) /\ E[n] = Keys(e, n - n, seen(n))
    BY <1>1
  <2>5. n - 0 = n /\ n - n = 0
    BY <1>1
  <2> QED
    BY <2>1, <2>2, <2>3, <2>4, <2>5
<1>6. IsSequence(FlattenSeq(ws)) /\ Leads(E[0], FlattenSeq(ws), E[n])
  <2>1. DOMAIN ws = 1 .. n /\ ws = [i \in 1 .. n |-> ws[i]]
    OBVIOUS
  <2> HIDE DEF ws, E
  <2> QED
    BY <1>1, <1>4, <2>1, FlattenLeads
<1> HIDE DEF E, ws
<1>7. HeadOk(item) /\ item.major = "map" /\ item.arg = n
  BY <1>1, WrittenShortest
<1> HIDE DEF item
<1>8. Accepts(e, item) /\ Opens(e, item) = E[0]
  BY <1>2, <1>5, <1>7 DEF Accepts, Opens, Wanted
<1>9. IsSequence(E[0])
  BY <1>5, OneIsSequence, EmptyIsSequence DEF Keys
<1>10. Fits(e, <<item>> \o FlattenSeq(ws))
  BY <1>5, <1>6, <1>8, <1>9, OpenFits
<1> QED
  BY <1>3, <1>10 DEF e

\* The next string of an ascending list, and the next row of a table.
LEMMA ElementLeads ==
  ASSUME NEW left \in Nat \ {0}, NEW last, NEW k, \A j \in last : k > j
  PROVE  Leads(Elements(left, last), Hash(k), Elements(left - 1, {k}))
<1> DEFINE e == [is |-> "element", left |-> left, last |-> last]
           item == Item("bytes", Shortest(32), 32, k)
           after == Elements(left - 1, {k})
<1>1. Elements(left, last) = <<e>> /\ Hash(k) = <<item>>
  BY DEF Elements, Hash, WriteBytes, WriteHead
<1>2. HeadOk(item) /\ item.major = "bytes" /\ item.arg = 32 /\ item.content = k
  BY WrittenShortest
<1>3. e.is = "element" /\ e.left = left /\ e.last = last
  OBVIOUS
<1>4. IsSequence(after)
  BY OneIsSequence, EmptyIsSequence DEF Elements
<1> HIDE DEF item, e
<1>5. Accepts(e, item) /\ Opens(e, item) = after
  BY <1>2, <1>3 DEF Accepts, Opens, Wanted, After
<1> HIDE DEF after
<1>6. Leads(<<e>>, <<item>>, after)
  BY <1>4, <1>5, ItemLeads
<1> QED
  BY <1>1, <1>6 DEF after

LEMMA RowLeads ==
  ASSUME NEW left \in Nat \ {0}, NEW last, NEW k, \A j \in last : k > j,
         NEW w, Fits(Uint, w)
  PROVE  Leads(Rows(left, last), Hash(k) \o w, Rows(left - 1, {k}))
<1> DEFINE e == [is |-> "row", left |-> left, last |-> last]
           item == Item("bytes", Shortest(32), 32, k)
           after == Rows(left - 1, {k})
<1>1. Rows(left, last) = <<e>> /\ Hash(k) = <<item>>
  BY DEF Rows, Hash, WriteBytes, WriteHead
<1>2. HeadOk(item) /\ item.major = "bytes" /\ item.arg = 32 /\ item.content = k
  BY WrittenShortest
<1>3. e.is = "row" /\ e.left = left /\ e.last = last
  OBVIOUS
<1>4. IsSequence(after)
  BY OneIsSequence, EmptyIsSequence DEF Rows
<1> HIDE DEF item, e
<1>5. Accepts(e, item) /\ Opens(e, item) = <<Uint>> \o after
  BY <1>2, <1>3 DEF Accepts, Opens, Wanted, After
<1> HIDE DEF after
<1>6. IsSequence(<<Uint>> \o after)
  BY <1>4, OneIsSequence, JoinIsSequence
<1>7. Leads(<<e>>, <<item>>, <<Uint>> \o after)
  BY <1>5, <1>6, ItemLeads
<1>8. Leads(<<Uint>> \o after, w, after) /\ IsSequence(w)
  BY <1>4, FitsBefore DEF Fits
<1>9. Leads(<<e>>, <<item>> \o w, after)
  BY <1>7, <1>8, OneIsSequence, LeadsOn
<1> QED
  BY <1>1, <1>9 DEF after

\* A set of hashes, of as many as there must be.
LEMMA AscendingFits ==
  ASSUME NEW S \in SUBSET Nat, IsFiniteSet(S), NEW least, least <= Cardinality(S)
  PROVE  Fits(Ascending(least), Hashes(InOrder(S)))
<1> DEFINE s == InOrder(S)
           n == Cardinality(S)
           e == Ascending(least)
           last(i) == IF i = 0 THEN {} ELSE {s[i]}
           E == [i \in 0 .. n |-> Elements(n - i, last(i))]
           ws == [i \in 1 .. n |-> Hash(s[i])]
           item == Item("array", Shortest(n), n, 0)
<1>1. /\ n \in Nat /\ DOMAIN s = 1 .. n
      /\ \A i \in 1 .. n : s[i] \in Nat
      /\ \A i, j \in 1 .. n : i < j => s[i] < s[j]
  BY OrderAscends
<1>2. e.is = "ascending" /\ e.least = least
  BY DEF Ascending
<1> HIDE DEF s, n, e
<1>3. DOMAIN ws = 1 .. n /\ ws = [i \in 1 .. n |-> ws[i]]
  OBVIOUS
<1>4. ASSUME NEW i \in 1 .. n
      PROVE  IsSequence(ws[i]) /\ Leads(E[i - 1], ws[i], E[i])
  <2> DEFINE left == n - (i - 1)
             before == last(i - 1)
  <2>1. left \in Nat \ {0} /\ left - 1 = n - i /\ i - 1 \in 0 .. n /\ i \in 0 .. n /\ i # 0
    BY <1>1
  <2>2. \A j \in before : s[i] > j
    <3>1. i - 1 # 0 => i - 1 \in 1 .. n /\ i - 1 < i
      BY <1>1
    <3>2. i - 1 # 0 => s[i - 1] < s[i] /\ s[i - 1] \in Nat /\ s[i] \in Nat
      BY <1>1, <3>1
    <3> QED
      BY <3>2
  <2>3. E[i - 1] = Elements(left, before) /\ E[i] = Elements(left - 1, {s[i]})
    BY <2>1
  <2>4. ws[i] = Hash(s[i]) /\ IsSequence(Hash(s[i]))
    BY OneIsSequence DEF Hash, WriteBytes, WriteHead
  <2> HIDE DEF left, before, E, ws
  <2>5. Leads(Elements(left, before), Hash(s[i]), Elements(left - 1, {s[i]}))
    BY <2>1, <2>2, ElementLeads
  <2> QED
    BY <2>3, <2>4, <2>5
<1>5. E[0] = Elements(n, {}) /\ E[n] = <<>>
  <2>1. 0 \in 0 .. n /\ n \in 0 .. n /\ n - 0 = n /\ n - n = 0
    BY <1>1
  <2> QED
    BY <2>1 DEF Elements
<1>6. HeadOk(item) /\ item.major = "array" /\ item.arg = n
  BY <1>1, WrittenShortest
<1> HIDE DEF E, ws, item
<1>7. IsSequence(FlattenSeq(ws)) /\ Leads(E[0], FlattenSeq(ws), E[n])
  BY <1>1, <1>3, <1>4, FlattenLeads
<1>8. Hashes(s) = <<item>> \o FlattenSeq(ws)
  <2>1. Len(ws) = n
    BY <1>1, <1>3, FunctionIsSequence
  <2>2. Hashes(s) = WriteArray(ws)
    BY <1>1 DEF Hashes, ws
  <2> QED
    BY <2>1, <2>2 DEF WriteArray, WriteArrayHead, WriteHead, item
<1>9. Accepts(e, item) /\ Opens(e, item) = E[0]
  BY <1>2, <1>5, <1>6 DEF Accepts, Opens, Wanted, n
<1>10. IsSequence(E[0])
  BY <1>5, OneIsSequence, EmptyIsSequence DEF Elements
<1>11. Fits(e, <<item>> \o FlattenSeq(ws))
  BY <1>5, <1>7, <1>9, <1>10, OpenFits
<1> QED
  BY <1>8, <1>11 DEF e, s

\* A map from hashes to numbers.
LEMMA TableFits ==
  ASSUME NEW f, DOMAIN f \in SUBSET Nat, IsFiniteSet(DOMAIN f),
         \A k \in DOMAIN f : Fits(Uint, WriteUint(f[k]))
  PROVE  Fits(Table, WriteMap([k \in DOMAIN f |-> WriteUint(f[k])],
                              [k \in DOMAIN f |-> Hash(k)]))
<1> DEFINE D == DOMAIN f
           s == InOrder(D)
           n == Cardinality(D)
           last(i) == IF i = 0 THEN {} ELSE {s[i]}
           E == [i \in 0 .. n |-> Rows(n - i, last(i))]
           ws == [i \in 1 .. n |-> Hash(s[i]) \o WriteUint(f[s[i]])]
           item == Item("map", Shortest(n), n, 0)
           values == [k \in D |-> WriteUint(f[k])]
           names == [k \in D |-> Hash(k)]
<1>1. /\ n \in Nat /\ DOMAIN s = 1 .. n /\ Len(s) = n
      /\ \A i \in 1 .. n : s[i] \in D /\ s[i] \in Nat
      /\ \A i, j \in 1 .. n : i < j => s[i] < s[j]
  BY OrderAscends
<1> HIDE DEF s, n
<1>3. DOMAIN ws = 1 .. n /\ ws = [i \in 1 .. n |-> ws[i]]
  OBVIOUS
<1>4. ASSUME NEW i \in 1 .. n
      PROVE  IsSequence(ws[i]) /\ Leads(E[i - 1], ws[i], E[i])
  <2> DEFINE left == n - (i - 1)
             before == last(i - 1)
             w == WriteUint(f[s[i]])
  <2>1. left \in Nat \ {0} /\ left - 1 = n - i /\ i - 1 \in 0 .. n /\ i \in 0 .. n /\ i # 0
    BY <1>1
  <2>2. \A j \in before : s[i] > j
    <3>1. i - 1 # 0 => i - 1 \in 1 .. n /\ i - 1 < i
      BY <1>1
    <3>2. i - 1 # 0 => s[i - 1] < s[i] /\ s[i - 1] \in Nat /\ s[i] \in Nat
      BY <1>1, <3>1
    <3> QED
      BY <3>2
  <2>3. E[i - 1] = Rows(left, before) /\ E[i] = Rows(left - 1, {s[i]})
    BY <2>1
  <2>4. ws[i] = Hash(s[i]) \o w
    OBVIOUS
  <2>5. Fits(Uint, w)
    BY <1>1
  <2> HIDE DEF left, before, E, ws, w
  <2>6. IsSequence(Hash(s[i])) /\ IsSequence(w)
    BY <2>5, OneIsSequence DEF Hash, WriteBytes, WriteHead, Fits
  <2>7. Leads(Rows(left, before), Hash(s[i]) \o w, Rows(left - 1, {s[i]}))
    BY <2>1, <2>2, <2>5, RowLeads
  <2> QED
    BY <2>3, <2>4, <2>6, <2>7, JoinIsSequence
<1>5. E[0] = Rows(n, {}) /\ E[n] = <<>>
  <2>1. 0 \in 0 .. n /\ n \in 0 .. n /\ n - 0 = n /\ n - n = 0
    BY <1>1
  <2> QED
    BY <2>1 DEF Rows
<1>6. HeadOk(item) /\ item.major = "map" /\ item.arg = n
  BY <1>1, WrittenShortest
<1>7. WriteMap(values, names) = <<item>> \o FlattenSeq(ws)
  <2>1. ws = [i \in DOMAIN s |-> names[s[i]] \o values[s[i]]]
    BY <1>1
  <2>2. DOMAIN values = D
    OBVIOUS
  <2> HIDE DEF ws, names, values, D
  <2> QED
    BY <1>1, <2>1, <2>2 DEF WriteMap, WriteHead, s
<1> HIDE DEF E, ws, item
<1>8. IsSequence(FlattenSeq(ws)) /\ Leads(E[0], FlattenSeq(ws), E[n])
  BY <1>1, <1>3, <1>4, FlattenLeads
<1>9. Accepts(Table, item) /\ Opens(Table, item) = E[0]
  BY <1>5, <1>6 DEF Accepts, Opens, Wanted, Table
<1>10. IsSequence(E[0])
  BY <1>5, OneIsSequence, EmptyIsSequence DEF Rows
<1>11. Fits(Table, <<item>> \o FlattenSeq(ws))
  BY <1>5, <1>8, <1>9, <1>10, OpenFits
<1> QED
  BY <1>7, <1>11

\* Any list of hashes.
LEMMA HashesFit ==
  ASSUME NEW n \in Nat, NEW s, DOMAIN s = 1 .. n
  PROVE  Fits(Array(ReadHash), Hashes(s))
<1> DEFINE ws == [i \in 1 .. n |-> Hash(s[i])]
<1>1. Hashes(s) = WriteArray(ws)
  BY DEF Hashes
<1>2. \A i \in 1 .. n : Fits(ReadHash, ws[i])
  BY BytesFit DEF Hash, ReadHash
<1>3. ws = [i \in 1 .. n |-> ws[i]]
  OBVIOUS
<1> HIDE DEF ws
<1> QED
  BY <1>1, <1>2, <1>3, ArrayFits

\* A variant and its body.
LEMMA UnionFits ==
  ASSUME NEW of, NEW v \in DOMAIN of, NEW w, v \in Nat, Fits(of[v], w)
  PROVE  Fits(Union(of), WriteArray(<<WriteUint(v), w>>))
<1> DEFINE item == Item("array", Shortest(2), 2, 0)
           number == Item("uint", Shortest(v), v, 0)
           ws == <<WriteUint(v), w>>
           E == [i \in 0 .. 2 |-> IF i = 0 THEN <<Variant(of)>> ELSE IF i = 1 THEN <<of[v]>> ELSE <<>>]
<1>1. HeadOk(item) /\ item.major = "array" /\ item.arg = 2
  BY WrittenShortest
<1>2. HeadOk(number) /\ number.major = "uint" /\ number.arg = v
  BY WrittenShortest
<1>3. WriteUint(v) = <<number>>
  BY DEF WriteUint, WriteHead
<1>4. WriteArray(ws) = <<item>> \o FlattenSeq(ws)
  <2>1. Len(ws) = 2
    OBVIOUS
  <2> HIDE DEF ws
  <2> QED
    BY <2>1 DEF WriteArray, WriteArrayHead, WriteHead
<1> HIDE DEF item, number
<1>5. Accepts(Union(of), item) /\ Opens(Union(of), item) = <<Variant(of)>>
  BY <1>1 DEF Accepts, Opens, Wanted, Union
<1>6. Accepts(Variant(of), number) /\ Opens(Variant(of), number) = <<of[v]>>
  BY <1>2 DEF Accepts, Opens, Wanted, Variant
<1>7. Leads(<<Variant(of)>>, <<number>>, <<of[v]>>)
  BY <1>6, OneIsSequence, ItemLeads
<1>8. IsSequence(<<number>>) /\ IsSequence(w) /\ Leads(<<of[v]>>, w, <<>>)
  BY OneIsSequence DEF Fits
<1>9. \A i \in 1 .. 2 : IsSequence(ws[i]) /\ Leads(E[i - 1], ws[i], E[i])
  <2>1. E[0] = <<Variant(of)>> /\ E[1] = <<of[v]>> /\ E[2] = <<>>
    OBVIOUS
  <2>2. ws[1] = <<number>> /\ ws[2] = w
    BY <1>3
  <2> HIDE DEF E, ws
  <2>3. Leads(E[1 - 1], ws[1], E[1])
    BY <1>7, <2>1, <2>2
  <2>4. Leads(E[2 - 1], ws[2], E[2])
    BY <1>8, <2>1, <2>2
  <2> QED
    BY <1>8, <2>2, <2>3, <2>4
<1>10. DOMAIN ws = 1 .. 2 /\ ws = [i \in 1 .. 2 |-> ws[i]]
  OBVIOUS
<1>11. E[0] = <<Variant(of)>> /\ E[2] = <<>>
  OBVIOUS
<1> HIDE DEF E, ws
<1>12. IsSequence(FlattenSeq(ws)) /\ Leads(E[0], FlattenSeq(ws), E[2])
  BY <1>9, <1>10, FlattenLeads
<1>13. Fits(Union(of), <<item>> \o FlattenSeq(ws))
  BY <1>5, <1>11, <1>12, OneIsSequence, OpenFits
<1> QED
  BY <1>4, <1>13 DEF ws

\* The fields of a struct are numbered from one.
LEMMA NumberedFit ==
  ASSUME NEW n \in Nat, NEW fields, NEW need, NEW of, DOMAIN of = 1 .. n,
         need \subseteq DOMAIN fields, DOMAIN fields \subseteq 1 .. n,
         \A k \in DOMAIN fields : Fits(of[k], fields[k])
  PROVE  Fits(Fields(need, of), WriteFields(fields))
<1>1. DOMAIN fields \in SUBSET Nat /\ IsFiniteSet(DOMAIN fields)
  <2>1. \A k \in DOMAIN fields : k \in Nat /\ k <= n
    OBVIOUS
  <2> QED
    BY <2>1, FS_BoundedSetOfNaturals
<1> QED
  BY <1>1, FieldsFit

\* Every field of F is one that its reader R reads to its end.
PartsFit(R, F) ==
  /\ DOMAIN F \in SUBSET Nat /\ IsFiniteSet(DOMAIN F)
  /\ R.need \subseteq DOMAIN F /\ DOMAIN F \subseteq DOMAIN R.of
  /\ \A k \in DOMAIN F : Fits(R.of[k], F[k])

LEMMA NumberedParts ==
  ASSUME NEW n \in Nat, NEW fields, NEW need, NEW of, DOMAIN of = 1 .. n,
         need \subseteq DOMAIN fields, DOMAIN fields \subseteq 1 .. n,
         \A k \in DOMAIN fields : Fits(of[k], fields[k])
  PROVE  PartsFit(Fields(need, of), fields)
<1>1. DOMAIN fields \in SUBSET Nat /\ IsFiniteSet(DOMAIN fields)
  <2>1. \A k \in DOMAIN fields : k \in Nat /\ k <= n
    OBVIOUS
  <2> QED
    BY <2>1, FS_BoundedSetOfNaturals
<1>2. Fields(need, of).need = need /\ Fields(need, of).of = of
  BY DEF Fields
<1> QED
  BY <1>1, <1>2 DEF PartsFit

LEMMA PartsOfAMap ==
  ASSUME NEW R, R = Fields(R.need, R.of), NEW fields, PartsFit(R, fields)
  PROVE  Fits(R, WriteFields(fields))
<1>1. PICK need, of : need = R.need /\ of = R.of
  OBVIOUS
<1>2. /\ DOMAIN fields \in SUBSET Nat /\ IsFiniteSet(DOMAIN fields)
      /\ need \subseteq DOMAIN fields /\ DOMAIN fields \subseteq DOMAIN of
      /\ \A k \in DOMAIN fields : Fits(of[k], fields[k])
  BY <1>1 DEF PartsFit
<1>3. Fits(Fields(need, of), WriteFields(fields))
  BY ONLY <1>2, FieldsFit
<1> QED
  BY <1>1, <1>3

-----------------------------------------------------------------------------
(***************************************************************************)
(* The objects: every value of each struct is accepted as it is written.   *)
(***************************************************************************)

LEMMA NumberFits ==
  /\ \A n \in U64 : Fits(Uint, WriteUint(n))
  /\ \A most \in Nat : \A i \in Signed(most) : Fits(IntUpTo(most), WriteInt(i))
  /\ \A most \in Nat : \A n \in UpTo(most) : Fits(UintIn(0, most), WriteUint(n))
<1>1. ASSUME NEW n \in Number
      PROVE  n \in Nat /\ 0 <= n /\ n <= Greatest[8]
  <2>1. Greatest[8] \in Nat
    BY CborAssumption
  <2>2. n \in 0 .. Greatest[8]
    BY CodecAssumption
  <2> QED
    BY <2>1, <2>2
<1>2. ASSUME NEW n \in U64 PROVE Fits(Uint, WriteUint(n))
  BY <1>1, UintFits DEF U64, Uint
<1>3. ASSUME NEW most \in Nat, NEW n \in UpTo(most) PROVE Fits(UintIn(0, most), WriteUint(n))
  BY <1>1, UintFits DEF UpTo
<1>4. ASSUME NEW most \in Nat, NEW i \in Signed(most) PROVE Fits(IntUpTo(most), WriteInt(i))
  <2>1. PICK n \in UpTo(most) : i = n \/ i = -1 - n
    BY DEF Signed
  <2>2. n \in Nat /\ n <= most
    BY <1>1 DEF UpTo
  <2>3. i \in Int /\ -1 - most <= i /\ i <= most
    BY <2>1, <2>2
  <2> QED
    BY <2>3, IntFits
<1> QED
  BY <1>2, <1>3, <1>4

\* The greatest numbers of the code are numbers.
LEMMA LimitsAreNumbers == I32Max \in Nat /\ I64Max \in Nat /\ Greatest[4] \in Nat
<1>1. Greatest[4] \in Nat /\ Greatest[8] \in Nat
  BY CborAssumption
<1>2. \A n \in Nat : n \div 2 \in Nat
  OBVIOUS
<1> QED
  BY <1>1, <1>2 DEF I32Max, I64Max


LEMMA HlcFits ==
  ASSUME NEW h \in AnyHlc
  PROVE  Fits(ReadHlc, WriteHlc(h))
  BY NumberFits, PairFits DEF ReadHlc, WriteHlc, AnyHlc

LEMMA GeoFits ==
  ASSUME NEW g \in AnyGeo
  PROVE  Fits(ReadGeo, WriteGeo(g))
<1>1. /\ Fits(IntUpTo(I32Max), WriteInt(g.lat_udeg)) /\ Fits(IntUpTo(I32Max), WriteInt(g.lon_udeg))
      /\ Fits(UintIn(0, Greatest[4]), WriteUint(g.acc_mm))
  BY NumberFits, LimitsAreNumbers DEF AnyGeo
<1> QED
  BY <1>1, TripleFits DEF ReadGeo, WriteGeo

\* A text, a hash, an identifier or a signature of any rank.
LEMMA StringFits ==
  ASSUME NEW r \in Rank
  PROVE  /\ Fits(Text, WriteText(r, r)) /\ Fits(ReadHash, Hash(r))
         /\ Fits(BytesOf({16}), WriteBytes(16, r)) /\ Fits(BytesOf({64}), WriteBytes(64, r))
<1>1. r \in Nat /\ r # NotUtf8
  <2>1. r \in Nat
    BY CodecAssumption
  <2> QED
    BY <2>1 DEF NotUtf8
<1>2. Fits(Text, WriteText(r, r))
  BY <1>1, TextFits
<1>3. Fits(BytesOf({32}), WriteBytes(32, r)) /\ Fits(BytesOf({16}), WriteBytes(16, r))
      /\ Fits(BytesOf({64}), WriteBytes(64, r))
  BY BytesFit
<1> QED
  BY <1>2, <1>3 DEF ReadHash, Hash


\* The fields of each variant of a body.
LEMMA NoteFits ==
  ASSUME NEW t \in Rank
  PROVE  Fits(Fields({1}, <<Text>>), WriteFields(BodyFields(Note(t))))
<1> DEFINE of == <<Text>>
           fields == <<WriteText(t, t)>>
<1>1. BodyFields(Note(t)) = fields
  <2> DEFINE m == Note(t)
  <2>1. m.variant = 0 /\ m.text = t
    BY DEF Note
  <2> HIDE DEF m
  <2>2. BodyFields(m) = fields
    BY <2>1 DEF BodyFields
  <2> QED
    BY <2>2 DEF m
<1>2. DOMAIN of = 1 .. 1 /\ DOMAIN fields = 1 .. 1 /\ of[1] = Text /\ fields[1] = WriteText(t, t)
  OBVIOUS
<1> HIDE DEF of, fields
<1>3. \A k \in DOMAIN fields : Fits(of[k], fields[k])
  BY <1>2, StringFits
<1>4. Fits(Fields({1}, of), WriteFields(fields))
  <2>1. {1} \subseteq DOMAIN fields /\ DOMAIN fields \subseteq 1 .. 1
    BY <1>2
  <2> QED
    BY <1>2, <1>3, <2>1, NumberedFit
<1> QED
  BY <1>1, <1>4 DEF of

LEMMA VoiceFits ==
  ASSUME NEW t \in Rank, NEW b \in Rank
  PROVE  Fits(Fields({1, 2}, <<Text, ReadHash>>), WriteFields(BodyFields(Voice(t, b))))
<1> DEFINE of == <<Text, ReadHash>>
           fields == <<WriteText(t, t), Hash(b)>>
<1>1. BodyFields(Voice(t, b)) = fields
  <2> DEFINE m == Voice(t, b)
  <2>1. m.variant = 1 /\ m.transcript = t /\ m.audio = b
    BY DEF Voice
  <2> HIDE DEF m
  <2>2. BodyFields(m) = fields
    BY <2>1 DEF BodyFields
  <2> QED
    BY <2>2 DEF m
<1>2. /\ DOMAIN of = 1 .. 2 /\ of[1] = Text /\ of[2] = ReadHash
      /\ DOMAIN fields = 1 .. 2 /\ fields[1] = WriteText(t, t) /\ fields[2] = Hash(b)
  OBVIOUS
<1> HIDE DEF of, fields
<1>3. \A k \in DOMAIN fields : Fits(of[k], fields[k])
  BY <1>2, StringFits
<1>4. Fits(Fields({1, 2}, of), WriteFields(fields))
  <2>1. {1, 2} \subseteq DOMAIN fields /\ DOMAIN fields \subseteq 1 .. 2
    BY <1>2
  <2> QED
    BY <1>2, <1>3, <2>1, NumberedFit
<1> QED
  BY <1>1, <1>4 DEF of

\* Media with and without a caption.
LEMMA MediaFits ==
  ASSUME NEW b \in Rank, NEW n \in U64, NEW c \in Rank \cup {None}
  PROVE  Fits(Fields({1, 2}, <<ReadHash, Uint, Text>>), WriteFields(BodyFields(Media(b, n, c))))
<1> DEFINE of == <<ReadHash, Uint, Text>>
           fields == BodyFields(Media(b, n, c))
           m == Media(b, n, c)
<1>1. DOMAIN of = 1 .. 3 /\ of[1] = ReadHash /\ of[2] = Uint /\ of[3] = Text
  OBVIOUS
<1>2. m.variant = 2 /\ m.blob = b /\ m.kind = n /\ m.caption = c
  BY DEF Media
<1> HIDE DEF of, m
<1>4. /\ DOMAIN BodyFields(m) = {1, 2} \cup Optional(c, 3)
      /\ BodyFields(m)[1] = Hash(b) /\ BodyFields(m)[2] = WriteUint(n)
      /\ c # None => BodyFields(m)[3] = WriteText(c, c)
  BY <1>2 DEF BodyFields, Optional
<1>5. fields = BodyFields(m)
  BY DEF m
<1> HIDE DEF fields
<1>6. \A k \in DOMAIN fields : Fits(of[k], fields[k])
  BY <1>1, <1>4, <1>5, StringFits, NumberFits DEF Optional
<1>7. {1, 2} \subseteq DOMAIN fields /\ DOMAIN fields \subseteq 1 .. 3
  BY <1>4, <1>5 DEF Optional
<1>8. Fits(Fields({1, 2}, of), WriteFields(fields))
  BY <1>1, <1>6, <1>7, NumberedFit
<1> QED
  BY <1>8 DEF of, fields

LEMMA SensorFits ==
  ASSUME NEW s \in Rank, NEW i \in Signed(I64Max), NEW x \in Signed(I64Max)
  PROVE  Fits(Fields({1, 2}, <<BytesOf({16}), Tuple(<<IntUpTo(I64Max), IntUpTo(I64Max)>>)>>),
              WriteFields(BodyFields(Sensor(s, i, x))))
<1> DEFINE decimal == Tuple(<<IntUpTo(I64Max), IntUpTo(I64Max)>>)
           w == WriteArray(<<WriteInt(i), WriteInt(x)>>)
           of == <<BytesOf({16}), decimal>>
           fields == <<WriteBytes(16, s), w>>
<1>1. BodyFields(Sensor(s, i, x)) = fields
  <2> DEFINE m == Sensor(s, i, x)
  <2>1. m.variant = 4 /\ m.source = s /\ m.mantissa = i /\ m.exponent = x
    BY DEF Sensor
  <2> HIDE DEF m
  <2>2. BodyFields(m) = fields
    BY <2>1 DEF BodyFields
  <2> QED
    BY <2>2 DEF m
<1>2. Fits(decimal, w)
  BY NumberFits, LimitsAreNumbers, PairFits
<1> HIDE DEF decimal, w
<1>3. /\ DOMAIN of = 1 .. 2 /\ of[1] = BytesOf({16}) /\ of[2] = decimal
      /\ DOMAIN fields = 1 .. 2 /\ fields[1] = WriteBytes(16, s) /\ fields[2] = w
  OBVIOUS
<1> HIDE DEF of, fields
<1>4. \A k \in DOMAIN fields : Fits(of[k], fields[k])
  BY <1>2, <1>3, StringFits
<1>5. Fits(Fields({1, 2}, of), WriteFields(fields))
  <2>1. {1, 2} \subseteq DOMAIN fields /\ DOMAIN fields \subseteq 1 .. 2
    BY <1>3
  <2> QED
    BY <1>3, <1>4, <2>1, NumberedFit
<1> QED
  BY <1>1, <1>5 DEF of, decimal

LEMMA PresenceFits ==
  ASSUME NEW a \in Rank, NEW z \in Rank, NEW e \in {"Enter", "Exit"}
  PROVE  Fits(Fields({1, 2, 3}, <<BytesOf({16}), BytesOf({16}), UintIn(0, 1)>>),
              WriteFields(BodyFields(Presence(a, z, e))))
<1> DEFINE event == WriteUint(IF e = "Enter" THEN 0 ELSE 1)
           of == <<BytesOf({16}), BytesOf({16}), UintIn(0, 1)>>
           fields == <<WriteBytes(16, a), WriteBytes(16, z), event>>
<1>1. BodyFields(Presence(a, z, e)) = fields
  <2> DEFINE m == Presence(a, z, e)
  <2>1. m.variant = 5 /\ m.actor = a /\ m.zone = z /\ m.event = e
    BY DEF Presence
  <2> HIDE DEF m
  <2>2. BodyFields(m) = fields
    BY <2>1 DEF BodyFields
  <2> QED
    BY <2>2 DEF m
<1>2. Fits(UintIn(0, 1), event)
  BY UintFits
<1> HIDE DEF event
<1>3. /\ DOMAIN of = 1 .. 3 /\ of[1] = BytesOf({16}) /\ of[2] = BytesOf({16}) /\ of[3] = UintIn(0, 1)
      /\ DOMAIN fields = 1 .. 3
      /\ fields[1] = WriteBytes(16, a) /\ fields[2] = WriteBytes(16, z) /\ fields[3] = event
  OBVIOUS
<1> HIDE DEF of, fields
<1>4. \A k \in DOMAIN fields : Fits(of[k], fields[k])
  BY <1>2, <1>3, StringFits
<1>5. Fits(Fields({1, 2, 3}, of), WriteFields(fields))
  <2>1. {1, 2, 3} \subseteq DOMAIN fields /\ DOMAIN fields \subseteq 1 .. 3
    BY <1>3
  <2> QED
    BY <1>3, <1>4, <2>1, NumberedFit
<1> QED
  BY <1>1, <1>5 DEF of

LEMMA BodyFits ==
  ASSUME NEW b \in AnyBody
  PROVE  Fits(ReadBody, WriteBody(b))
<1> DEFINE of == ReadBody.of
<1>1. /\ ReadBody = Union(of) /\ DOMAIN of = {0, 1, 2, 4, 5}
      /\ of[0] = Fields({1}, <<Text>>)
      /\ of[1] = Fields({1, 2}, <<Text, ReadHash>>)
      /\ of[2] = Fields({1, 2}, <<ReadHash, Uint, Text>>)
      /\ of[4] = Fields({1, 2}, <<BytesOf({16}), Tuple(<<IntUpTo(I64Max), IntUpTo(I64Max)>>)>>)
      /\ of[5] = Fields({1, 2, 3}, <<BytesOf({16}), BytesOf({16}), UintIn(0, 1)>>)
  BY DEF ReadBody, Union
<1> HIDE DEF of
<1>2. b.variant \in DOMAIN of /\ Fits(of[b.variant], WriteFields(BodyFields(b)))
  <2>1. ASSUME NEW t \in Rank, b = Note(t)
        PROVE  b.variant = 0 /\ Fits(of[0], WriteFields(BodyFields(b)))
    <3>1. b.variant = 0
      BY <2>1 DEF Note
    <3> QED
      BY <1>1, <2>1, <3>1, NoteFits
  <2>2. ASSUME NEW t \in Rank, NEW a \in Rank, b = Voice(t, a)
        PROVE  b.variant = 1 /\ Fits(of[1], WriteFields(BodyFields(b)))
    <3>1. b.variant = 1
      BY <2>2 DEF Voice
    <3> QED
      BY <1>1, <2>2, <3>1, VoiceFits
  <2>3. ASSUME NEW a \in Rank, NEW n \in U64, NEW c \in Rank \cup {None}, b = Media(a, n, c)
        PROVE  b.variant = 2 /\ Fits(of[2], WriteFields(BodyFields(b)))
    <3>1. b.variant = 2
      BY <2>3 DEF Media
    <3> QED
      BY <1>1, <2>3, <3>1, MediaFits
  <2>4. ASSUME NEW s \in Rank, NEW i \in Signed(I64Max), NEW x \in Signed(I64Max), b = Sensor(s, i, x)
        PROVE  b.variant = 4 /\ Fits(of[4], WriteFields(BodyFields(b)))
    <3>1. b.variant = 4
      BY <2>4 DEF Sensor
    <3> QED
      BY <1>1, <2>4, <3>1, SensorFits
  <2>5. ASSUME NEW a \in Rank, NEW z \in Rank, NEW e \in {"Enter", "Exit"}, b = Presence(a, z, e)
        PROVE  b.variant = 5 /\ Fits(of[5], WriteFields(BodyFields(b)))
    <3>1. b.variant = 5
      BY <2>5 DEF Presence
    <3> QED
      BY <1>1, <2>5, <3>1, PresenceFits
  <2>6. \/ \E t \in Rank : b = Note(t)
        \/ \E t, a \in Rank : b = Voice(t, a)
        \/ \E a \in Rank, n \in U64, c \in Rank \cup {None} : b = Media(a, n, c)
        \/ \E s \in Rank : \E i, x \in Signed(I64Max) : b = Sensor(s, i, x)
        \/ \E a, z \in Rank : \E e \in {"Enter", "Exit"} : b = Presence(a, z, e)
    BY DEF AnyBody
  <2> QED
    BY <1>1, <2>1, <2>2, <2>3, <2>4, <2>5, <2>6
<1> QED
  BY <1>1, <1>2, UnionFits DEF WriteBody


LEMMA ObservationFits ==
  ASSUME NEW o \in AnyObservation
  PROVE  PartsFit(ObservationReader, ObservationFields(o))
<1> DEFINE of == <<ReadHash, BytesOf({16}), BytesOf({0, 32}), Uint, ReadHlc, ReadBody,
                   ReadGeo, ReadAcks>>
           fields == ObservationFields(o)
<1>1. /\ o.author \in Rank /\ o.site \in Rank /\ o.prev \in Rank \cup {None} /\ o.seq \in U64
      /\ o.hlc \in AnyHlc /\ o.body \in AnyBody /\ o.geo \in AnyGeo \cup {None}
      /\ o.acks \in SUBSET Rank
  BY DEF AnyObservation
<1>2. /\ DOMAIN of = 1 .. 8
      /\ of[1] = ReadHash /\ of[2] = BytesOf({16}) /\ of[3] = BytesOf({0, 32}) /\ of[4] = Uint
      /\ of[5] = ReadHlc /\ of[6] = ReadBody /\ of[7] = ReadGeo /\ of[8] = ReadAcks
  OBVIOUS
<1>3. DOMAIN fields = 1 .. 6 \cup Optional(o.geo, 7) \cup NotEmpty(o.acks, 8)
  BY DEF ObservationFields
<1>4. /\ fields[1] = Hash(o.author) /\ fields[2] = WriteBytes(16, o.site)
      /\ fields[3] = WritePrev(o.prev) /\ fields[4] = WriteUint(o.seq)
      /\ fields[5] = WriteHlc(o.hlc) /\ fields[6] = WriteBody(o.body)
      /\ o.geo # None => fields[7] = WriteGeo(o.geo)
      /\ o.acks # {} => fields[8] = Hashes(InOrder(o.acks))
  BY DEF ObservationFields, Optional, NotEmpty
<1> HIDE DEF of, fields
<1>5. Fits(of[1], fields[1]) /\ Fits(of[2], fields[2]) /\ Fits(of[4], fields[4])
  BY <1>1, <1>2, <1>4, StringFits, NumberFits
<1>6. Fits(of[3], fields[3])
  <2>1. Fits(BytesOf({0, 32}), WriteBytes(0, 0))
    BY BytesFit
  <2>2. Fits(BytesOf({0, 32}), WriteBytes(32, o.prev))
    BY BytesFit
  <2> QED
    BY <1>2, <1>4, <2>1, <2>2 DEF WritePrev, Hash
<1>7. Fits(of[5], fields[5]) /\ Fits(of[6], fields[6])
  BY <1>1, <1>2, <1>4, HlcFits, BodyFits
<1>8. o.geo # None => Fits(of[7], fields[7])
  BY <1>1, <1>2, <1>4, GeoFits
<1>9. o.acks # {} => Fits(of[8], fields[8])
  <2> SUFFICES ASSUME o.acks # {}
               PROVE  Fits(Ascending(1), Hashes(InOrder(o.acks)))
    BY <1>2, <1>4 DEF ReadAcks
  <2>1. o.acks \in SUBSET Nat /\ IsFiniteSet(o.acks)
    BY <1>1, CodecAssumption, FS_Subset
  <2>2. Cardinality(o.acks) \in Nat /\ Cardinality(o.acks) # 0
    BY <2>1, FS_CardinalityType, FS_EmptySet
  <2>3. 1 \in Nat /\ 1 <= Cardinality(o.acks)
    BY <2>2
  <2> QED
    BY <2>1, <2>3, AscendingFits
<1>10. \A k \in DOMAIN fields : Fits(of[k], fields[k])
  <2> SUFFICES ASSUME NEW k \in DOMAIN fields PROVE Fits(of[k], fields[k])
    OBVIOUS
  <2>1. \A i \in 1 .. 6 : i \in {1, 2, 3, 4, 5, 6}
    OBVIOUS
  <2>2. CASE k \in 1 .. 6
    BY <1>5, <1>6, <1>7, <2>1, <2>2
  <2>3. CASE k \in Optional(o.geo, 7)
    BY <1>8, <2>3 DEF Optional
  <2>4. CASE k \in NotEmpty(o.acks, 8)
    BY <1>9, <2>4 DEF NotEmpty
  <2> QED
    BY <1>3, <2>2, <2>3, <2>4
<1>11. 1 .. 6 \subseteq DOMAIN fields /\ DOMAIN fields \subseteq 1 .. 8
  BY <1>3 DEF Optional, NotEmpty
<1>12. PartsFit(Fields(1 .. 6, of), fields)
  BY <1>2, <1>10, <1>11, NumberedParts
<1> QED
  BY <1>12 DEF ObservationReader, of, fields


LEMMA AttestationFits ==
  ASSUME NEW a \in AnyAttestation
  PROVE  PartsFit(AttestationReader, AttestationFields(a))
<1> DEFINE of == <<ReadHash, ReadHash, ReadHash, Uint, ReadHlc, BytesOf({16})>>
           fields == AttestationFields(a)
<1>1. /\ a.witness \in Rank /\ a.subject \in Rank /\ a.subject_head \in Rank
      /\ a.subject_seq \in U64 /\ a.witness_hlc \in AnyHlc /\ a.nonce \in Rank
  BY DEF AnyAttestation
<1>2. /\ DOMAIN of = 1 .. 6 /\ of[1] = ReadHash /\ of[2] = ReadHash /\ of[3] = ReadHash
      /\ of[4] = Uint /\ of[5] = ReadHlc /\ of[6] = BytesOf({16})
  OBVIOUS
<1>3. /\ DOMAIN fields = 1 .. 6
      /\ fields[1] = Hash(a.witness) /\ fields[2] = Hash(a.subject)
      /\ fields[3] = Hash(a.subject_head) /\ fields[4] = WriteUint(a.subject_seq)
      /\ fields[5] = WriteHlc(a.witness_hlc) /\ fields[6] = WriteBytes(16, a.nonce)
  BY DEF AttestationFields
<1> HIDE DEF of, fields
<1>4. /\ Fits(of[1], fields[1]) /\ Fits(of[2], fields[2]) /\ Fits(of[3], fields[3])
      /\ Fits(of[4], fields[4]) /\ Fits(of[5], fields[5]) /\ Fits(of[6], fields[6])
  BY <1>1, <1>2, <1>3, StringFits, NumberFits, HlcFits
<1>5. \A k \in DOMAIN fields : Fits(of[k], fields[k])
  BY <1>3, <1>4
<1>6. 1 .. 6 \subseteq DOMAIN fields /\ DOMAIN fields \subseteq 1 .. 6
  BY <1>3
<1>7. PartsFit(Fields(1 .. 6, of), fields)
  BY <1>2, <1>5, <1>6, NumberedParts
<1> QED
  BY <1>7 DEF AttestationReader, of, fields


LEMMA CheckpointFits ==
  ASSUME NEW c \in AnyCheckpoint
  PROVE  PartsFit(CheckpointReader, CheckpointFields(c))
<1> DEFINE f == c.frontier
           table == WriteMap([k \in DOMAIN f |-> WriteUint(f[k])], [k \in DOMAIN f |-> Hash(k)])
           of == <<ReadHash, ReadHash, Uint, ReadHlc, Table>>
           fields == CheckpointFields(c)
<1>1. /\ c.node \in Rank /\ c.head \in Rank /\ c.seq \in U64 /\ c.hlc \in AnyHlc
      /\ f \in AnyFrontier
  BY DEF AnyCheckpoint
<1>2. /\ DOMAIN of = 1 .. 5 /\ of[1] = ReadHash /\ of[2] = ReadHash /\ of[3] = Uint
      /\ of[4] = ReadHlc /\ of[5] = Table
  OBVIOUS
<1>3. fields = <<Hash(c.node), Hash(c.head), WriteUint(c.seq), WriteHlc(c.hlc), table>>
  BY DEF CheckpointFields
<1>4. Fits(Table, table)
  <2> HIDE DEF f
  <2>1. PICK K \in SUBSET Rank : f \in [K -> U64]
    BY <1>1 DEF AnyFrontier
  <2>2. DOMAIN f \in SUBSET Nat /\ IsFiniteSet(DOMAIN f)
    BY <2>1, CodecAssumption, FS_Subset
  <2>3. \A k \in DOMAIN f : Fits(Uint, WriteUint(f[k]))
    BY <2>1, NumberFits
  <2> QED
    BY <2>2, <2>3, TableFits
<1> HIDE DEF of, fields, table
<1>5. /\ DOMAIN fields = 1 .. 5
      /\ fields[1] = Hash(c.node) /\ fields[2] = Hash(c.head) /\ fields[3] = WriteUint(c.seq)
      /\ fields[4] = WriteHlc(c.hlc) /\ fields[5] = table
  BY <1>3
<1>6. /\ Fits(of[1], fields[1]) /\ Fits(of[2], fields[2]) /\ Fits(of[3], fields[3])
      /\ Fits(of[4], fields[4]) /\ Fits(of[5], fields[5])
  BY <1>1, <1>2, <1>4, <1>5, StringFits, NumberFits, HlcFits
<1>7. \A k \in DOMAIN fields : Fits(of[k], fields[k])
  BY <1>5, <1>6
<1>8. 1 .. 5 \subseteq DOMAIN fields /\ DOMAIN fields \subseteq 1 .. 5
  BY <1>5
<1>9. PartsFit(Fields(1 .. 5, of), fields)
  BY <1>2, <1>7, <1>8, NumberedParts
<1> QED
  BY <1>9 DEF CheckpointReader, of, fields


LEMMA BlobFits ==
  ASSUME NEW m \in AnyBlob
  PROVE  PartsFit(BlobReader, BlobFields(m))
<1> DEFINE of == <<Uint, Array(ReadHash), Text>>
           fields == BlobFields(m)
<1>1. m.size \in U64 /\ m.chunks \in Seq(Rank) /\ m.mime \in Rank
  BY DEF AnyBlob
<1>2. DOMAIN of = 1 .. 3 /\ of[1] = Uint /\ of[2] = Array(ReadHash) /\ of[3] = Text
  OBVIOUS
<1>3. /\ DOMAIN fields = 1 .. 3 /\ fields[1] = WriteUint(m.size)
      /\ fields[2] = Hashes(m.chunks) /\ fields[3] = WriteText(m.mime, m.mime)
  BY DEF BlobFields
<1> HIDE DEF of, fields
<1>4. Fits(of[2], fields[2])
  <2>1. Len(m.chunks) \in Nat /\ DOMAIN m.chunks = 1 .. Len(m.chunks)
    BY <1>1, LenProperties
  <2> QED
    BY <1>2, <1>3, <2>1, HashesFit
<1>5. Fits(of[1], fields[1]) /\ Fits(of[3], fields[3])
  BY <1>1, <1>2, <1>3, StringFits, NumberFits
<1>6. \A k \in DOMAIN fields : Fits(of[k], fields[k])
  BY <1>3, <1>4, <1>5
<1>7. 1 .. 3 \subseteq DOMAIN fields /\ DOMAIN fields \subseteq 1 .. 3
  BY <1>3
<1>8. PartsFit(Fields(1 .. 3, of), fields)
  BY <1>2, <1>6, <1>7, NumberedParts
<1> QED
  BY <1>8 DEF BlobReader, of, fields

\* A preimage, of any length, and a signature.
LEMMA EntryFits ==
  ASSUME NEW length \in Nat, NEW rank, NEW sig
  PROVE  Fits(ReadForkEntry, WriteArray(<<WriteBytes(length, rank), WriteBytes(64, sig)>>))
<1>1. Fits(AnyBytes, WriteBytes(length, rank)) /\ Fits(BytesOf({64}), WriteBytes(64, sig))
  BY BytesFit
<1> QED
  BY <1>1, PairFits DEF ReadForkEntry


LEMMA ForkProofFits ==
  ASSUME NEW p \in AnyForkProof
  PROVE  PartsFit(ForkProofReader, ForkProofFields(p))
<1> DEFINE of == <<ReadHash, ReadForkEntry, ReadForkEntry>>
           fields == ForkProofFields(p)
<1>1. p.key \in Rank
  BY DEF AnyForkProof
<1>2. DOMAIN of = 1 .. 3 /\ of[1] = ReadHash /\ of[2] = ReadForkEntry /\ of[3] = ReadForkEntry
  OBVIOUS
<1>3. /\ DOMAIN fields = 1 .. 3 /\ fields[1] = Hash(p.key)
      /\ fields[2] = WriteForkEntry(p.a) /\ fields[3] = WriteForkEntry(p.b)
  BY DEF ForkProofFields
<1> HIDE DEF of, fields
<1>4. Fits(of[1], fields[1])
  BY <1>1, <1>2, <1>3, StringFits
<1>5. Fits(of[2], fields[2]) /\ Fits(of[3], fields[3])
  <2>1. Length \subseteq Nat
    <3>1. Length \subseteq 0 .. Greatest[8]
      BY CodecAssumption
    <3> QED
      BY <3>1
  <2>2. p.a.preimage.length \in Nat /\ p.b.preimage.length \in Nat
    BY <2>1 DEF AnyForkProof, AnyEntry
  <2> QED
    BY <1>2, <1>3, <2>2, EntryFits DEF WriteForkEntry
<1>6. \A k \in DOMAIN fields : Fits(of[k], fields[k])
  BY <1>3, <1>4, <1>5
<1>7. 1 .. 3 \subseteq DOMAIN fields /\ DOMAIN fields \subseteq 1 .. 3
  BY <1>3
<1>8. PartsFit(Fields(1 .. 3, of), fields)
  BY <1>2, <1>6, <1>7, NumberedParts
<1> QED
  BY <1>8 DEF ForkProofReader, of, fields

\* The parts of a pack: however many objects each carries.
AnyCarried == UNION {[K -> Rank] : K \in {I \in SUBSET Nat : IsFiniteSet(I)}}

LEMMA HalfIsNumber == \A n \in Nat : n \div 2 \in Nat
  OBVIOUS

LEMMA CarriedFits ==
  ASSUME NEW parts \in AnyCarried
  PROVE  Fits(Array(ReadForkEntry), WriteCarried(parts))
<1> DEFINE n == Cardinality(DOMAIN parts)
           ids == InOrder(DOMAIN parts)
           ws == [i \in 1 .. n |-> WriteArray(<<Preimage(ids[i]), WriteBytes(64, parts[ids[i]])>>)]
<1>1. n \in Nat /\ \A i \in 1 .. n : ids[i] \div 2 \in Nat
  <2>1. PICK K \in SUBSET Nat : IsFiniteSet(K) /\ parts \in [K -> Rank]
    BY DEF AnyCarried
  <2>2. n \in Nat /\ \A i \in 1 .. n : ids[i] \in DOMAIN parts
    BY <2>1, OrderAscends
  <2>3. \A i \in 1 .. n : ids[i] \in Nat
    BY <2>1, <2>2
  <2> HIDE DEF ids, n
  <2> QED
    BY <2>2, <2>3, HalfIsNumber
<1>2. WriteCarried(parts) = WriteArray(ws)
  BY DEF WriteCarried
<1> HIDE DEF n, ids
<1>3. \A i \in 1 .. n : Fits(ReadForkEntry, ws[i])
  BY <1>1, EntryFits DEF Preimage
<1>4. ws = [i \in 1 .. n |-> ws[i]]
  OBVIOUS
<1> HIDE DEF ws
<1> QED
  BY <1>1, <1>2, <1>3, <1>4, ArrayFits

LEMMA PreimagesFit ==
  ASSUME NEW ids \in SUBSET Nat, IsFiniteSet(ids)
  PROVE  Fits(Array(AnyBytes), Preimages(ids))
<1> DEFINE n == Cardinality(ids)
           ws == [i \in 1 .. n |-> Preimage(InOrder(ids)[i])]
           s == InOrder(ids)
<1>1. n \in Nat /\ \A i \in 1 .. n : s[i] \div 2 \in Nat
  <2>1. n \in Nat /\ \A i \in 1 .. n : s[i] \in ids
    BY OrderAscends
  <2>2. \A i \in 1 .. n : s[i] \in Nat
    BY <2>1
  <2> HIDE DEF s, n
  <2> QED
    BY <2>1, <2>2, HalfIsNumber
<1>2. Preimages(ids) = WriteArray(ws)
  BY DEF Preimages
<1> HIDE DEF n
<1>3. \A i \in 1 .. n : Fits(AnyBytes, ws[i])
  BY <1>1, BytesFit DEF Preimage
<1>4. ws = [i \in 1 .. n |-> ws[i]]
  OBVIOUS
<1> HIDE DEF ws
<1> QED
  BY <1>1, <1>2, <1>3, <1>4, ArrayFits

AnyPack ==
  [org : Rank, observations : AnyCarried, attestations : AnyCarried,
   fork_proofs : {I \in SUBSET Nat : IsFiniteSet(I)}, claims : SUBSET Rank]

\* Both readers of packs, the verifier's for the organisation asked for.
LEMMA PackFits ==
  ASSUME NEW p \in AnyPack
  PROVE  /\ Fits(PackReader, WriteFields(PackFields(p)))
         /\ p.org = 0 => Fits(VerifierReader, WriteFields(PackFields(p)))
<1> DEFINE fields == PackFields(p)
           need == {1, 2, 3, 4, 6}
<1>1. /\ p.org \in Rank /\ p.observations \in AnyCarried /\ p.attestations \in AnyCarried
      /\ p.fork_proofs \in SUBSET Nat /\ IsFiniteSet(p.fork_proofs) /\ p.claims \in SUBSET Rank
  BY DEF AnyPack
<1>2. DOMAIN fields = need \cup NotEmpty(p.fork_proofs, 5)
  BY DEF PackFields
<1>3. /\ fields[1] = WriteUint(1) /\ fields[2] = Hash(p.org)
      /\ fields[3] = WriteCarried(p.observations) /\ fields[4] = WriteCarried(p.attestations)
      /\ p.fork_proofs # {} => fields[5] = Preimages(p.fork_proofs)
      /\ fields[6] = Hashes(InOrder(p.claims))
  BY DEF PackFields, NotEmpty
<1>4. p.claims \in SUBSET Nat /\ IsFiniteSet(p.claims)
  BY <1>1, CodecAssumption, FS_Subset
<1> HIDE DEF fields
<1>5. Fits(UintIn(1, 1), fields[1])
  BY <1>3, UintFits
<1>6. Fits(Array(ReadForkEntry), fields[3]) /\ Fits(Array(ReadForkEntry), fields[4])
  BY <1>1, <1>3, CarriedFits
<1>7. p.fork_proofs # {} => Fits(Array(AnyBytes), fields[5])
  BY <1>1, <1>3, PreimagesFit
<1>8. Fits(ReadHash, fields[2]) /\ (p.org = 0 => Fits(TheBytes(32, 0), fields[2]))
  BY <1>1, <1>3, StringFits, BytesFit DEF Hash
<1>9. Fits(Array(ReadHash), fields[6])
  <2>1. Cardinality(p.claims) \in Nat /\ DOMAIN InOrder(p.claims) = 1 .. Cardinality(p.claims)
    BY <1>4, FS_CardinalityType DEF InOrder
  <2> QED
    BY <1>3, <2>1, HashesFit
<1>10. Fits(Ascending(0), fields[6])
  <2>1. Cardinality(p.claims) \in Nat /\ 0 <= Cardinality(p.claims)
    BY <1>4, FS_CardinalityType
  <2> QED
    BY <1>3, <1>4, <2>1, AscendingFits
<1>11. ASSUME NEW of, DOMAIN of = 1 .. 6,
              Fits(of[1], fields[1]), Fits(of[2], fields[2]), Fits(of[3], fields[3]),
              Fits(of[4], fields[4]), p.fork_proofs # {} => Fits(of[5], fields[5]),
              Fits(of[6], fields[6])
       PROVE  Fits(Fields(need, of), WriteFields(fields))
  <2>1. \A k \in DOMAIN fields : Fits(of[k], fields[k])
    BY <1>2, <1>11 DEF NotEmpty
  <2>2. need \subseteq DOMAIN fields /\ DOMAIN fields \subseteq 1 .. 6
    BY <1>2 DEF NotEmpty
  <2> QED
    BY <1>11, <2>1, <2>2, NumberedFit
<1>12. Fits(PackReader, WriteFields(fields))
  <2> DEFINE of == <<UintIn(1, 1), ReadHash, Array(ReadForkEntry), Array(ReadForkEntry),
                     Array(AnyBytes), Array(ReadHash)>>
  <2>1. /\ DOMAIN of = 1 .. 6 /\ of[1] = UintIn(1, 1) /\ of[2] = ReadHash
        /\ of[3] = Array(ReadForkEntry) /\ of[4] = Array(ReadForkEntry)
        /\ of[5] = Array(AnyBytes) /\ of[6] = Array(ReadHash)
    OBVIOUS
  <2> HIDE DEF of
  <2>2. Fits(Fields(need, of), WriteFields(fields))
    BY <1>5, <1>6, <1>7, <1>8, <1>9, <1>11, <2>1
  <2> QED
    BY <2>2 DEF PackReader, of
<1>13. ASSUME p.org = 0
       PROVE  Fits(VerifierReader, WriteFields(fields))
  <2> DEFINE of == <<UintIn(1, 1), TheBytes(32, 0), Array(ReadForkEntry), Array(ReadForkEntry),
                     Array(AnyBytes), Ascending(0)>>
  <2>1. /\ DOMAIN of = 1 .. 6 /\ of[1] = UintIn(1, 1) /\ of[2] = TheBytes(32, 0)
        /\ of[3] = Array(ReadForkEntry) /\ of[4] = Array(ReadForkEntry)
        /\ of[5] = Array(AnyBytes) /\ of[6] = Ascending(0)
    OBVIOUS
  <2> HIDE DEF of
  <2>2. Fits(Fields(need, of), WriteFields(fields))
    BY <1>5, <1>6, <1>7, <1>8, <1>10, <1>11, <1>13, <2>1
  <2> QED
    BY <2>2 DEF VerifierReader, of
<1> QED
  BY <1>12, <1>13 DEF fields

-----------------------------------------------------------------------------
(***************************************************************************)
(* Everything that is written.                                             *)
(***************************************************************************)

\* All values of a type, whichever and however many fields differ from the
\* plain ones.
Anything(type) ==
  CASE type = "pack" -> AnyPack
    [] type = "verified pack" -> {p \in AnyPack : p.org = 0}
    [] OTHER -> AnyObject(type)

Object == {"observation", "attestation", "checkpoint", "blob", "forkproof"}

LEMMA ObjectFits ==
  ASSUME NEW type \in Object, NEW v \in AnyObject(type)
  PROVE  PartsFit(Reader(type), EncodeFields(type, v))
<1>1. CASE type = "observation"
  BY <1>1, ObservationFits DEF AnyObject, Reader, EncodeFields
<1>2. CASE type = "attestation"
  BY <1>2, AttestationFits DEF AnyObject, Reader, EncodeFields
<1>3. CASE type = "checkpoint"
  BY <1>3, CheckpointFits DEF AnyObject, Reader, EncodeFields
<1>4. CASE type = "blob"
  BY <1>4, BlobFits DEF AnyObject, Reader, EncodeFields
<1>5. CASE type = "forkproof"
  BY <1>5, ForkProofFits DEF AnyObject, Reader, EncodeFields
<1> QED
  BY <1>1, <1>2, <1>3, <1>4, <1>5 DEF Object

LEMMA ObjectReaderIs ==
  ASSUME NEW type \in Object
  PROVE  Reader(type) = Fields(Reader(type).need, Reader(type).of)
<1>1. CASE type = "observation"
  BY <1>1 DEF Reader, ObservationReader, Fields
<1>2. CASE type = "attestation"
  BY <1>2 DEF Reader, AttestationReader, Fields
<1>3. CASE type = "checkpoint"
  BY <1>3 DEF Reader, CheckpointReader, Fields
<1>4. CASE type = "blob"
  BY <1>4 DEF Reader, BlobReader, Fields
<1>5. CASE type = "forkproof"
  BY <1>5 DEF Reader, ForkProofReader, Fields
<1> QED
  BY <1>1, <1>2, <1>3, <1>4, <1>5 DEF Object

LEMMA EncodedReads ==
  ASSUME NEW type \in Type, NEW v \in Anything(type)
  PROVE  /\ IsSequence(Encode(type, v))
         /\ Readable(<<Domain(TAG(type)), Reader(type)>>, Encode(type, v))
<1> DEFINE tag == Domain(TAG(type))
           item == Item(TAG(type), 0, 0, 0)
           w == WriteFields(EncodeFields(type, v))
<1>1. Fits(Reader(type), w)
  <2>1. CASE type \in Object
    <3>1. v \in AnyObject(type)
      BY <2>1 DEF Anything, Object
    <3>2. PartsFit(Reader(type), EncodeFields(type, v))
      BY <2>1, <3>1, ObjectFits
    <3> QED
      BY <2>1, <3>2, ObjectReaderIs, PartsOfAMap
  <2>2. CASE type = "pack"
    BY <2>2, PackFits DEF Anything, Reader, EncodeFields
  <2>3. CASE type = "verified pack"
    BY <2>3, PackFits DEF Anything, Reader, EncodeFields
  <2> QED
    BY <2>1, <2>2, <2>3, CodecAssumption DEF Object
<1>2. Fits(tag, <<item>>)
  <2>1. Shortest(0) = 0
    <3>1. Fitting(0) = {0, 1, 2, 4, 8}
      BY CborAssumption DEF Fitting
    <3>2. 0 \in Fitting(0) /\ \A x \in Fitting(0) : 0 <= x
      BY <3>1
    <3>3. \A x \in Fitting(0) : (\A y \in Fitting(0) : x <= y) => x = 0
      BY <3>1
    <3> QED
      BY <3>2, <3>3 DEF Shortest, Min
  <2>2. TAG(type) \in Tags
    BY CodecAssumption
  <2>3. /\ item.major = TAG(type) /\ item.width = 0 /\ item.arg = 0
        /\ tag.is = "domain" /\ tag.tag = TAG(type)
    BY DEF Item, Domain
  <2> HIDE DEF item, tag
  <2>4. Accepts(tag, item) /\ Opens(tag, item) = <<>>
    BY <2>1, <2>2, <2>3 DEF Accepts, Opens, Wanted, HeadOk
  <2> QED
    BY <2>4, HeadFits
<1> HIDE DEF tag, item, w
<1>3. IsSequence(w) /\ Leads(<<Reader(type)>>, w, <<>>)
  BY <1>1 DEF Fits
<1>4. Leads(<<tag>> \o <<Reader(type)>>, <<item>>, <<Reader(type)>>)
  BY <1>2, OneIsSequence, FitsBefore
<1>5. Leads(<<tag>> \o <<Reader(type)>>, <<item>> \o w, <<>>)
  BY <1>3, <1>4, OneIsSequence, LeadsOn
<1>6. <<tag>> \o <<Reader(type)>> = <<tag, Reader(type)>>
  BY JoinTwo
<1>7. Readable(<<tag, Reader(type)>>, <<item>> \o w)
  <2> DEFINE E == <<tag, Reader(type)>>
             all == <<item>> \o w
  <2>1. IsSequence(E) /\ IsSequence(all)
    BY <1>3, <1>6, OneIsSequence, JoinIsSequence
  <2>2. Leads(E, all, <<>>)
    BY <1>5, <1>6
  <2> HIDE DEF E, all
  <2>3. Readable(<<>> \o <<>>, <<>>)
    BY JoinEmpty, EmptyIsSequence, EmptyIsReadable
  <2>4. Readable(E \o <<>>, all \o <<>>)
    BY <2>2, <2>3, EmptyIsSequence DEF Leads
  <2>5. E \o <<>> = E /\ all \o <<>> = all
    BY <2>1, JoinEmpty
  <2> QED
    BY <2>4, <2>5 DEF E, all
<1>8. IsSequence(<<item>> \o w)
  BY <1>3, OneIsSequence, JoinIsSequence
<1> QED
  BY <1>7, <1>8 DEF Encode, tag, item, w

\* What the writer makes of any value, of any struct and of any pack, its reader
\* reads to the end, item by item and in full (cbor.rs, object.rs, encode_pack of
\* export.rs, the two parse_pack).
THEOREM EncodedIsReadable ==
  \A type \in Type : \A v \in Anything(type) :
    Readable(<<Domain(TAG(type)), Reader(type)>>, Encode(type, v))
  BY EncodedReads

-----------------------------------------------------------------------------
(***************************************************************************)
(* The values that are tried are among them.                               *)
(***************************************************************************)

LEMMA ZeroIsPlain == 0 \in Rank /\ 0 \in U64 /\ 0 \in Length
  BY CodecAssumption DEF U64

LEMMA SmallNumbers == \A most \in Nat : 0 \in UpTo(most) /\ 0 \in Signed(most)
<1> SUFFICES ASSUME NEW most \in Nat PROVE 0 \in UpTo(most) /\ 0 \in Signed(most)
  OBVIOUS
<1>1. 0 \in UpTo(most)
  BY ZeroIsPlain DEF UpTo, U64
<1> QED
  BY <1>1 DEF Signed

LEMMA HlcsAreAny == Hlc0 \in AnyHlc /\ Hlcs \subseteq AnyHlc
<1>1. Hlc0 \in AnyHlc
  BY ZeroIsPlain DEF Hlc0, AnyHlc
<1>2. ASSUME NEW h \in AnyHlc, NEW d \in U64
      PROVE  [h EXCEPT !["wall_ms"] = d] \in AnyHlc /\ [h EXCEPT !["counter"] = d] \in AnyHlc
  BY DEF AnyHlc
<1> QED
  BY <1>1, <1>2 DEF Hlcs, Varied

LEMMA GeosAreAny == Geo0 \in AnyGeo /\ Geos \subseteq AnyGeo
<1>1. Geo0 \in AnyGeo
  BY SmallNumbers, LimitsAreNumbers DEF Geo0, AnyGeo
<1>2. ASSUME NEW g \in AnyGeo, NEW d \in Signed(I32Max)
      PROVE  [g EXCEPT !["lat_udeg"] = d] \in AnyGeo /\ [g EXCEPT !["lon_udeg"] = d] \in AnyGeo
  BY DEF AnyGeo
<1>3. ASSUME NEW g \in AnyGeo, NEW d \in UpTo(Greatest[4])
      PROVE  [g EXCEPT !["acc_mm"] = d] \in AnyGeo
  BY DEF AnyGeo
<1>4. /\ Varied(Geo0, "lat_udeg", Signed(I32Max)) \subseteq AnyGeo
      /\ Varied(Geo0, "lon_udeg", Signed(I32Max)) \subseteq AnyGeo
  BY <1>1, <1>2 DEF Varied
<1>5. Varied(Geo0, "acc_mm", UpTo(Greatest[4])) \subseteq AnyGeo
  BY <1>1, <1>3 DEF Varied
<1> QED
  BY <1>1, <1>4, <1>5 DEF Geos

LEMMA BodiesAreAny == PlainBodies \subseteq AnyBody /\ Bodies \subseteq AnyBody
<1>1. 0 \in Signed(I64Max) /\ 0 \in Rank /\ 0 \in U64
  BY ZeroIsPlain, SmallNumbers, LimitsAreNumbers
<1>2. PlainBodies \subseteq AnyBody
  BY <1>1 DEF PlainBodies, AnyBody
<1>3. /\ {Note(t) : t \in Rank} \subseteq AnyBody
      /\ {Voice(t, b) : t, b \in Rank} \subseteq AnyBody
      /\ {Presence(a, z, e) : a, z \in Rank, e \in {"Enter", "Exit"}} \subseteq AnyBody
  BY DEF AnyBody
<1>4. /\ {Media(b, 0, c) : b \in Rank, c \in Rank \cup {None}} \subseteq AnyBody
      /\ {Media(0, k, c) : k \in U64, c \in {None, 0}} \subseteq AnyBody
  <2>1. {Media(b, k, c) : b \in Rank, k \in U64, c \in Rank \cup {None}} \subseteq AnyBody
    BY DEF AnyBody
  <2> QED
    BY <1>1, <2>1
<1>5. /\ {Sensor(s, 0, 0) : s \in Rank} \subseteq AnyBody
      /\ {Sensor(0, i, 0) : i \in Signed(I64Max)} \subseteq AnyBody
      /\ {Sensor(0, 0, i) : i \in Signed(I64Max)} \subseteq AnyBody
  <2>1. {Sensor(s, m, x) : s \in Rank, m, x \in Signed(I64Max)} \subseteq AnyBody
    BY DEF AnyBody
  <2> QED
    BY <1>1, <2>1
<1> QED
  BY <1>2, <1>3, <1>4, <1>5 DEF Bodies

LEMMA ObservationsAreAny == Observations \subseteq AnyObservation
<1>1. PlainObservations \subseteq AnyObservation
  BY ZeroIsPlain, HlcsAreAny, GeosAreAny, BodiesAreAny DEF PlainObservations, AnyObservation
<1>2. ASSUME NEW o \in AnyObservation
      PROVE  /\ \A d \in Rank : [o EXCEPT !["author"] = d] \in AnyObservation
             /\ \A d \in Rank : [o EXCEPT !["site"] = d] \in AnyObservation
             /\ \A d \in Rank : [o EXCEPT !["prev"] = d] \in AnyObservation
             /\ \A d \in U64 : [o EXCEPT !["seq"] = d] \in AnyObservation
  BY DEF AnyObservation
<1>3. ASSUME NEW o \in AnyObservation
      PROVE  /\ \A d \in Hlcs : [o EXCEPT !["hlc"] = d] \in AnyObservation
             /\ \A d \in Bodies : [o EXCEPT !["body"] = d] \in AnyObservation
             /\ \A d \in Geos : [o EXCEPT !["geo"] = d] \in AnyObservation
             /\ \A d \in SUBSET Rank : [o EXCEPT !["acks"] = d] \in AnyObservation
  BY HlcsAreAny, GeosAreAny, BodiesAreAny DEF AnyObservation
<1> QED
  BY <1>1, <1>2, <1>3 DEF Observations, Varied

LEMMA AttestationsAreAny == Attestations \subseteq AnyAttestation
<1>1. Attestation0 \in AnyAttestation
  BY ZeroIsPlain, HlcsAreAny DEF Attestation0, AnyAttestation
<1>2. ASSUME NEW a \in AnyAttestation
      PROVE  /\ \A f \in {"witness", "subject", "subject_head", "nonce"} :
                  \A d \in Rank : [a EXCEPT ![f] = d] \in AnyAttestation
             /\ \A d \in U64 : [a EXCEPT !["subject_seq"] = d] \in AnyAttestation
             /\ \A d \in Hlcs : [a EXCEPT !["witness_hlc"] = d] \in AnyAttestation
  BY HlcsAreAny DEF AnyAttestation
<1>3. /\ \A f \in {"witness", "subject", "subject_head", "nonce"} :
           Varied(Attestation0, f, Rank) \subseteq AnyAttestation
      /\ Varied(Attestation0, "subject_seq", U64) \subseteq AnyAttestation
      /\ Varied(Attestation0, "witness_hlc", Hlcs) \subseteq AnyAttestation
  BY <1>1, <1>2 DEF Varied
<1> QED
  BY <1>3 DEF Attestations

LEMMA CheckpointsAreAny == Checkpoints \subseteq AnyCheckpoint
<1>1. Frontiers \subseteq AnyFrontier
  <2>1. ASSUME NEW K \in SUBSET Rank, NEW f \in [K -> {0}]
        PROVE  f \in [K -> U64]
    BY ZeroIsPlain
  <2>2. {0} \in SUBSET Rank
    BY ZeroIsPlain
  <2>3. [{0} -> U64] \subseteq AnyFrontier
    BY <2>2 DEF AnyFrontier
  <2>4. UNION {[K -> {0}] : K \in SUBSET Rank} \subseteq AnyFrontier
    BY <2>1 DEF AnyFrontier
  <2> QED
    BY <2>3, <2>4 DEF Frontiers
<1>2. [{} -> {0}] \cup [{0} -> {0}] \subseteq AnyFrontier
  <2>1. {} \in SUBSET Rank /\ {0} \in SUBSET Rank /\ 0 \in U64
    BY ZeroIsPlain
  <2>2. [{} -> {0}] \subseteq [{} -> U64] /\ [{0} -> {0}] \subseteq [{0} -> U64]
    BY <2>1
  <2> QED
    BY <2>1, <2>2 DEF AnyFrontier
<1>3. PlainCheckpoints \subseteq AnyCheckpoint
  BY <1>2, ZeroIsPlain, HlcsAreAny DEF PlainCheckpoints, AnyCheckpoint
<1>4. ASSUME NEW c \in AnyCheckpoint
      PROVE  /\ \A d \in Rank : [c EXCEPT !["node"] = d] \in AnyCheckpoint
             /\ \A d \in Rank : [c EXCEPT !["head"] = d] \in AnyCheckpoint
             /\ \A d \in U64 : [c EXCEPT !["seq"] = d] \in AnyCheckpoint
             /\ \A d \in Hlcs : [c EXCEPT !["hlc"] = d] \in AnyCheckpoint
             /\ \A d \in Frontiers : [c EXCEPT !["frontier"] = d] \in AnyCheckpoint
  BY <1>1, HlcsAreAny DEF AnyCheckpoint
<1> QED
  BY <1>3, <1>4 DEF Checkpoints, Varied

LEMMA BlobsAreAny == BlobManifests \subseteq AnyBlob
<1>1. ASSUME NEW n \in Listed
      PROVE  [1 .. n -> {0}] \subseteq Seq(Rank) /\ [1 .. n -> Rank] \subseteq Seq(Rank)
  <2>1. n \in Nat
    <3>1. n \in 0 .. Greatest[8] /\ Greatest[8] \in Nat
      BY CodecAssumption, CborAssumption
    <3> QED
      BY <3>1
  <2> QED
    BY <2>1, ZeroIsPlain
<1>2. PlainBlobs \subseteq AnyBlob
  BY <1>1, ZeroIsPlain DEF PlainBlobs, AnyBlob
<1>3. ASSUME NEW m \in PlainBlobs
      PROVE  /\ \A d \in U64 : [m EXCEPT !["size"] = d] \in AnyBlob
             /\ \A d \in Rank : [m EXCEPT !["mime"] = d] \in AnyBlob
             /\ \A d \in [DOMAIN m.chunks -> Rank] : [m EXCEPT !["chunks"] = d] \in AnyBlob
  <2>1. m \in AnyBlob
    BY <1>2
  <2>2. [DOMAIN m.chunks -> Rank] \subseteq Seq(Rank)
    <3>1. PICK n \in Listed : m.chunks \in [1 .. n -> {0}]
      BY DEF PlainBlobs
    <3> QED
      BY <1>1, <3>1
  <2> QED
    BY <2>1, <2>2 DEF AnyBlob
<1> QED
  BY <1>3 DEF BlobManifests, Varied

LEMMA ForkProofsAreAny == ForkProofs \subseteq AnyForkProof
<1> DEFINE preimages == [length : Length, rank : Rank]
<1>1. Entry0 \in AnyEntry /\ Entry0.preimage \in preimages
  BY ZeroIsPlain DEF Entry0, AnyEntry
<1>2. [length : Length \ {0}, rank : Rank] \subseteq preimages
  OBVIOUS
<1>3. /\ \A d \in Rank : [Entry0 EXCEPT !["sig"] = d] \in AnyEntry
      /\ \A d \in preimages : [Entry0 EXCEPT !["preimage"] = d] \in AnyEntry
  BY <1>1 DEF AnyEntry
<1>4. ForkEntries \subseteq AnyEntry
  BY <1>1, <1>2, <1>3 DEF ForkEntries, Varied
<1>5. ForkProof0 \in AnyForkProof
  BY <1>1, ZeroIsPlain DEF ForkProof0, AnyForkProof
<1>6. /\ \A d \in Rank : [ForkProof0 EXCEPT !["key"] = d] \in AnyForkProof
      /\ \A d \in ForkEntries : [ForkProof0 EXCEPT !["a"] = d] \in AnyForkProof
      /\ \A d \in ForkEntries : [ForkProof0 EXCEPT !["b"] = d] \in AnyForkProof
  BY <1>4, <1>5 DEF AnyForkProof
<1> QED
  BY <1>6 DEF ForkProofs, Varied

LEMMA IdHasParts ==
  ASSUME NEW i \in PreimageId
  PROVE  \E length \in Length : \E rank \in {0, 1} : i = 2 * length + rank
<1> DEFINE ranks == {0, 1} \cap Rank
<1>1. i \in {2 * length + rank : length \in Length, rank \in ranks}
  BY DEF PreimageId
<1>2. \E length \in Length, rank \in ranks : i = 2 * length + rank
  <2> HIDE DEF ranks
  <2> QED
    BY <1>1
<1> QED
  BY <1>2

LEMMA PacksAreAny == Packs \subseteq AnyPack
<1> DEFINE finite == {I \in SUBSET Nat : IsFiniteSet(I)}
<1>1. PreimageId \subseteq Nat /\ 64 \in Nat
  <2>1. ASSUME NEW length \in Length, NEW rank \in {0, 1}
        PROVE  2 * length + rank \in Nat
    <3>1. length \in 0 .. Greatest[8] /\ Greatest[8] \in Nat
      BY CodecAssumption, CborAssumption
    <3> QED
      BY <3>1
  <2>3. ASSUME NEW i \in PreimageId
        PROVE  i \in Nat
    <3>1. PICK length \in Length, rank \in {0, 1} : i = 2 * length + rank
      BY IdHasParts
    <3> QED
      BY <2>1, <3>1
  <2> QED
    BY <2>3
<1>2. UpToTwo \subseteq finite
  <2> SUFFICES ASSUME NEW n \in 0 .. 2, NEW K \in kSubset(n, PreimageId)
               PROVE  K \in finite
    BY DEF UpToTwo
  <2>1. IsFiniteSet(PreimageId)
    <3>1. Length \subseteq 0 .. Greatest[8] /\ Greatest[8] \in Nat
      BY CodecAssumption, CborAssumption
    <3>2. ASSUME NEW i \in PreimageId
          PROVE  i \in Nat /\ i <= 2 * Greatest[8] + 1
      <4>1. PICK length \in Length, rank \in {0, 1} : i = 2 * length + rank
        BY IdHasParts
      <4>2. length \in Nat /\ length <= Greatest[8] /\ rank <= 1
        BY <3>1
      <4> QED
        BY <1>1, <3>1, <4>1, <4>2
    <3>3. 2 * Greatest[8] + 1 \in Nat
      BY <3>1
    <3> QED
      BY <3>2, <3>3, FS_BoundedSetOfNaturals
  <2>2. K \subseteq PreimageId
    BY DEF kSubset
  <2> QED
    BY <1>1, <2>1, <2>2, FS_Subset
<1>3. Carried \subseteq AnyCarried
  <2>1. {64} \in finite
    BY <1>1, FS_Singleton
  <2>2. ASSUME NEW K \in UpToTwo, NEW f \in [K -> {0}]
        PROVE  f \in AnyCarried
    <3>1. f \in [K -> Rank] /\ K \in finite
      BY <1>2, ZeroIsPlain
    <3> QED
      BY <3>1 DEF AnyCarried
  <2>3. [{64} -> Rank] \subseteq AnyCarried
    BY <2>1 DEF AnyCarried
  <2> QED
    BY <2>2, <2>3 DEF Carried
<1>4. [{} -> {0}] \subseteq AnyCarried
  <2>1. {} \in finite
    BY FS_EmptySet
  <2>2. [{} -> {0}] \subseteq [{} -> Rank]
    BY ZeroIsPlain
  <2> QED
    BY <2>1, <2>2 DEF AnyCarried
<1>5. {} \in finite /\ {64} \in finite
  BY <1>1, FS_EmptySet, FS_Singleton
<1> HIDE DEF finite
<1>6. AnyPack = [org : Rank, observations : AnyCarried, attestations : AnyCarried,
                 fork_proofs : finite, claims : SUBSET Rank]
  BY DEF AnyPack, finite
<1>7. PlainPacks \subseteq AnyPack
  BY <1>4, <1>5, <1>6, ZeroIsPlain DEF PlainPacks
<1>8. ASSUME NEW p \in AnyPack
      PROVE  /\ \A d \in Rank : [p EXCEPT !["org"] = d] \in AnyPack
             /\ \A d \in Carried : [p EXCEPT !["observations"] = d] \in AnyPack
             /\ \A d \in Carried : [p EXCEPT !["attestations"] = d] \in AnyPack
             /\ \A d \in UpToTwo : [p EXCEPT !["fork_proofs"] = d] \in AnyPack
  BY <1>2, <1>3, <1>6
<1> QED
  BY <1>7, <1>8 DEF Packs, Varied

LEMMA ValuesAreAnything ==
  ASSUME NEW type \in Type
  PROVE  Values(type) \subseteq Anything(type)
<1>1. CASE type = "observation"
  BY <1>1, ObservationsAreAny DEF Values, Anything, AnyObject
<1>2. CASE type = "attestation"
  BY <1>2, AttestationsAreAny DEF Values, Anything, AnyObject
<1>3. CASE type = "checkpoint"
  BY <1>3, CheckpointsAreAny DEF Values, Anything, AnyObject
<1>4. CASE type = "blob"
  BY <1>4, BlobsAreAny DEF Values, Anything, AnyObject
<1>5. CASE type = "forkproof"
  BY <1>5, ForkProofsAreAny DEF Values, Anything, AnyObject
<1>6. CASE type = "pack"
  BY <1>6, PacksAreAny DEF Values, Anything
<1>7. CASE type = "verified pack"
  BY <1>7, PacksAreAny DEF Values, Anything
<1> QED
  BY <1>1, <1>2, <1>3, <1>4, <1>5, <1>6, <1>7, CodecAssumption

\* What is left of the input is read if the next item is.
LEMMA ReadableStep ==
  ASSUME NEW E, NEW rest, Readable(E, rest), E # <<>> \/ rest # <<>>
  PROVE  /\ E # <<>> /\ rest # <<>> /\ Accepts(Head(E), Head(rest))
         /\ Readable(Opens(Head(E), Head(rest)) \o Tail(E), Tail(rest))
<1>1. PICK A : Closed(A) /\ <<E, rest>> \in A
  BY DEF Readable
<1> DEFINE p == <<E, rest>>
<1>2. p \in A /\ p[1] = E /\ p[2] = rest
  BY <1>1
<1> HIDE DEF p
<1>3. /\ E # <<>> /\ rest # <<>> /\ Accepts(Head(E), Head(rest))
      /\ <<Opens(Head(E), Head(rest)) \o Tail(E), Tail(rest)>> \in A
  BY <1>1, <1>2 DEF Closed
<1> QED
  BY <1>1, <1>3 DEF Readable
-----------------------------------------------------------------------------
(***************************************************************************)
(* Reading backwards: what an input that is read must have been.           *)
(***************************************************************************)

\* The first of a sequence and the rest of it.
LEMMA HeadAndTail ==
  ASSUME NEW s, IsSequence(s), s # <<>>
  PROVE  /\ IsSequence(Tail(s)) /\ s = <<Head(s)>> \o Tail(s)
         /\ Len(s) \in Nat /\ Len(s) # 0 /\ Len(Tail(s)) = Len(s) - 1
         /\ Head(s) = s[1]
<1>1. PICK S : s \in Seq(S)
  BY DEF IsSequence
<1>2. /\ Head(s) \in S /\ Tail(s) \in Seq(S) /\ s = <<Head(s)>> \o Tail(s)
      /\ Len(Tail(s)) = Len(s) - 1 /\ Len(s) \in Nat /\ Len(s) # 0 /\ Head(s) = s[1]
  BY <1>1
<1> QED
  BY <1>2 DEF IsSequence

\* What comes first in a joint sequence.
LEMMA JoinHead ==
  ASSUME NEW s, NEW t, IsSequence(s), IsSequence(t), s # <<>>
  PROVE  s \o t # <<>> /\ Head(s \o t) = Head(s) /\ Tail(s \o t) = Tail(s) \o t
<1>1. s = <<Head(s)>> \o Tail(s) /\ IsSequence(Tail(s))
  BY HeadAndTail
<1>2. IsSequence(<<Head(s)>>) /\ IsSequence(Tail(s) \o t)
  BY <1>1, OneIsSequence, JoinIsSequence
<1>3. (<<Head(s)>> \o Tail(s)) \o t = <<Head(s)>> \o (Tail(s) \o t)
  BY <1>1, <1>2, JoinAssociates
<1>4. s \o t = <<Head(s)>> \o (Tail(s) \o t)
  BY <1>1, <1>3
<1> QED
  BY <1>2, <1>4, JoinOne

\* A function on 1 .. n, whatever it is.
LEMMA AnyFunctionIsSequence ==
  ASSUME NEW n \in Nat, NEW f, f = [i \in 1 .. n |-> f[i]]
  PROVE  IsSequence(f)
  BY FunctionIsSequence

\* What an accepted item opens is a sequence.
LEMMA OpensIsSequence ==
  ASSUME NEW e, NEW item, Accepts(e, item)
  PROVE  IsSequence(Opens(e, item))
<1>1. item.arg \in Nat
  BY DEF Accepts, HeadOk
<1>2. \A f : f = [n \in 1 .. item.arg |-> f[n]] => IsSequence(f)
  BY <1>1, AnyFunctionIsSequence
<1>3. \A fields, left, read : IsSequence(Keys(fields, left, read))
  BY EmptyIsSequence, OneIsSequence DEF Keys
<1>4. \A left, last : IsSequence(Elements(left, last)) /\ IsSequence(Rows(left, last))
  BY EmptyIsSequence, OneIsSequence DEF Elements, Rows
<1>5. CASE e.is = "tuple"
  <2> DEFINE f == [n \in 1 .. item.arg |-> e.parts[n]]
  <2>1. f = [n \in 1 .. item.arg |-> f[n]]
    OBVIOUS
  <2>2. Opens(e, item) = f
    BY <1>5 DEF Opens
  <2> HIDE DEF f
  <2> QED
    BY <1>2, <2>1, <2>2
<1>6. CASE e.is = "array"
  <2> DEFINE f == [n \in 1 .. item.arg |-> e.part]
  <2>1. f = [n \in 1 .. item.arg |-> f[n]]
    OBVIOUS
  <2>2. Opens(e, item) = f
    BY <1>6 DEF Opens
  <2> HIDE DEF f
  <2> QED
    BY <1>2, <2>1, <2>2
<1>7. CASE e.is \in {"ascending", "element", "table"}
  BY <1>4, <1>7 DEF Opens
<1>8. CASE e.is = "row"
  BY <1>4, <1>8, OneIsSequence, JoinIsSequence DEF Opens
<1>9. CASE e.is = "fields"
  BY <1>3, <1>9 DEF Opens
<1>10. CASE e.is = "key"
  BY <1>3, <1>10, OneIsSequence, JoinIsSequence DEF Opens
<1>11. CASE e.is \in {"union", "variant"}
  BY <1>11, OneIsSequence DEF Opens
<1>12. CASE e.is \notin {"tuple", "array", "ascending", "element", "table", "row",
                         "fields", "key", "union", "variant"}
  BY <1>12, EmptyIsSequence DEF Opens
<1> QED
  BY <1>5, <1>6, <1>7, <1>8, <1>9, <1>10, <1>11, <1>12

\* Nothing is read where nothing is expected.
LEMMA NothingReadable ==
  ASSUME NEW w, Readable(<<>>, w)
  PROVE  w = <<>>
  BY ReadableStep

\* An item before what is read after it.
LEMMA ReadableBefore ==
  ASSUME NEW E, E # <<>>, NEW item, NEW rest, IsSequence(rest), Accepts(Head(E), item),
         Readable(Opens(Head(E), item) \o Tail(E), rest)
  PROVE  Readable(E, <<item>> \o rest)
<1>1. PICK A : Closed(A) /\ <<Opens(Head(E), item) \o Tail(E), rest>> \in A
  BY DEF Readable
<1> DEFINE p == <<E, <<item>> \o rest>>
<1>2. /\ p[1] = E /\ p[2] = <<item>> \o rest
      /\ p[2] # <<>> /\ Head(p[2]) = item /\ Tail(p[2]) = rest
  BY JoinOne
<1> HIDE DEF p
<1>3. ASSUME NEW q \in A \cup {p}
      PROVE  \/ q[1] = <<>> /\ q[2] = <<>>
             \/ /\ q[1] # <<>> /\ q[2] # <<>>
                /\ Accepts(Head(q[1]), Head(q[2]))
                /\ <<Opens(Head(q[1]), Head(q[2])) \o Tail(q[1]), Tail(q[2])>> \in A \cup {p}
  <2>1. CASE q = p
    BY <1>1, <1>2, <2>1
  <2>2. CASE q \in A
    BY <1>1, <2>2 DEF Closed
  <2> QED
    BY <2>1, <2>2
<1>4. Closed(A \cup {p})
  BY <1>3 DEF Closed
<1>5. <<E, <<item>> \o rest>> \in A \cup {p}
  BY DEF p
<1> QED
  BY <1>4, <1>5 DEF Readable

\* What is read where F is expected after E is what is read for each: else take
\* a shortest input for which it is not so.
Parted(E, F, w) ==
  \E y, x : /\ IsSequence(y) /\ IsSequence(x) /\ w = y \o x
            /\ Readable(E, y) /\ Readable(F, x)
PartsAt(n) ==
  \A E, F, w :
    IsSequence(E) /\ IsSequence(F) /\ IsSequence(w) /\ Len(w) = n /\ Readable(E \o F, w)
      => Parted(E, F, w)

LEMMA PartsInEachLength == \A n \in Nat : PartsAt(n)
<1> DEFINE Wrong == {n \in Nat : ~PartsAt(n)}
<1>1. SUFFICES ASSUME Wrong # {} PROVE FALSE
  OBVIOUS
<1>2. PICK m \in Nat : ~PartsAt(m) /\ \A n \in Nat : ~PartsAt(n) => m <= n
  BY <1>1, SmallestExists
<1> HIDE DEF Wrong
<1>3. PICK E, F, w : /\ IsSequence(E) /\ IsSequence(F) /\ IsSequence(w)
                     /\ Len(w) = m /\ Readable(E \o F, w) /\ ~Parted(E, F, w)
  <2>1. ~PartsAt(m)
    BY <1>2
  <2> QED
    BY <2>1 DEF PartsAt
<1>4. CASE E = <<>>
  <2>1. E \o F = F /\ <<>> \o w = w
    BY <1>3, <1>4, JoinEmpty
  <2>2. Parted(E, F, w)
    BY <1>3, <1>4, <2>1, EmptyIsSequence, EmptyIsReadable DEF Parted
  <2> QED
    BY <1>3, <2>2
<1>5. CASE E # <<>>
  <2>1. E \o F # <<>> /\ Head(E \o F) = Head(E) /\ Tail(E \o F) = Tail(E) \o F
    BY <1>3, <1>5, JoinHead
  <2>2. /\ w # <<>> /\ Accepts(Head(E), Head(w))
        /\ Readable(Opens(Head(E), Head(w)) \o (Tail(E) \o F), Tail(w))
    BY <1>3, <2>1, ReadableStep
  <2> DEFINE o == Opens(Head(E), Head(w))
  <2>3. IsSequence(o) /\ IsSequence(Tail(E))
    BY <1>3, <1>5, <2>2, OpensIsSequence, HeadAndTail
  <2>4. /\ IsSequence(Tail(w)) /\ w = <<Head(w)>> \o Tail(w) /\ Len(Tail(w)) = m - 1
        /\ m \in Nat /\ m # 0
    BY <1>3, <2>2, HeadAndTail
  <2>5. PartsAt(m - 1)
    <3>1. m # 0
      BY <2>4
    <3>2. m - 1 \in Nat /\ ~(m <= m - 1)
      BY <3>1
    <3> QED
      BY <1>2, <3>2
  <2> HIDE DEF o
  <2>6. (o \o Tail(E)) \o F = o \o (Tail(E) \o F) /\ IsSequence(o \o Tail(E))
    <3> DEFINE t == Tail(E)
    <3>1. IsSequence(o) /\ IsSequence(t) /\ IsSequence(F)
      BY <1>3, <2>3
    <3> HIDE DEF t
    <3>2. (o \o t) \o F = o \o (t \o F)
      BY <3>1, JoinAssociates
    <3>3. IsSequence(o \o t)
      BY <3>1, JoinIsSequence
    <3> QED
      BY <3>2, <3>3 DEF t
  <2>7. Readable((o \o Tail(E)) \o F, Tail(w))
    BY <2>2, <2>6 DEF o
  <2>8. Parted(o \o Tail(E), F, Tail(w))
    BY <1>3, <2>4, <2>5, <2>6, <2>7 DEF PartsAt
  <2>9. PICK y, x : /\ IsSequence(y) /\ IsSequence(x) /\ Tail(w) = y \o x
                    /\ Readable(o \o Tail(E), y) /\ Readable(F, x)
    BY <2>8 DEF Parted
  <2>10. Readable(E, <<Head(w)>> \o y)
    BY <1>5, <2>2, <2>9, ReadableBefore DEF o
  <2>11. IsSequence(<<Head(w)>> \o y) /\ (<<Head(w)>> \o y) \o x = <<Head(w)>> \o (y \o x)
    <3>1. IsSequence(<<Head(w)>>)
      BY OneIsSequence
    <3> QED
      BY <2>9, <3>1, JoinIsSequence, JoinAssociates
  <2>12. w = (<<Head(w)>> \o y) \o x
    BY <2>4, <2>9, <2>11
  <2>13. Parted(E, F, w)
    BY <2>9, <2>10, <2>11, <2>12 DEF Parted
  <2> QED
    BY <1>3, <2>13
<1> QED
  BY <1>4, <1>5

LEMMA ReadableParts ==
  ASSUME NEW E, NEW F, NEW w, IsSequence(E), IsSequence(F), IsSequence(w), Readable(E \o F, w)
  PROVE  \E y, x : /\ IsSequence(y) /\ IsSequence(x) /\ w = y \o x
                   /\ Readable(E, y) /\ Readable(F, x)
<1>1. PICK S : w \in Seq(S)
  BY DEF IsSequence
<1>2. Len(w) \in Nat
  BY <1>1
<1>3. Parted(E, F, w)
  BY <1>2, PartsInEachLength DEF PartsAt
<1> QED
  BY <1>3 DEF Parted

\* Of what is expected, no input that is read begins another.
SameAt(n) ==
  \A E, w, v, x, y :
    IsSequence(w) /\ IsSequence(v) /\ IsSequence(x) /\ IsSequence(y) /\ Len(w) = n
    /\ Readable(E, w) /\ Readable(E, v) /\ w \o x = v \o y
      => w = v /\ x = y

LEMMA SameInEachLength == \A n \in Nat : SameAt(n)
<1> DEFINE Wrong == {n \in Nat : ~SameAt(n)}
<1>1. SUFFICES ASSUME Wrong # {} PROVE FALSE
  OBVIOUS
<1>2. PICK m \in Nat : ~SameAt(m) /\ \A n \in Nat : ~SameAt(n) => m <= n
  BY <1>1, SmallestExists
<1> HIDE DEF Wrong
<1>3. PICK E, w, v, x, y :
        /\ IsSequence(w) /\ IsSequence(v) /\ IsSequence(x) /\ IsSequence(y) /\ Len(w) = m
        /\ Readable(E, w) /\ Readable(E, v) /\ w \o x = v \o y
        /\ ~(w = v /\ x = y)
  <2> DEFINE Other(E, w, v, x, y) ==
               /\ IsSequence(w) /\ IsSequence(v) /\ IsSequence(x) /\ IsSequence(y) /\ Len(w) = m
               /\ Readable(E, w) /\ Readable(E, v) /\ w \o x = v \o y
               /\ ~(w = v /\ x = y)
  <2>1. ~SameAt(m)
    BY <1>2
  <2>2. ASSUME \A E, w, v, x, y : ~Other(E, w, v, x, y)
        PROVE  SameAt(m)
    BY <2>2 DEF SameAt
  <2>3. \E E, w, v, x, y : Other(E, w, v, x, y)
    <3> HIDE DEF Other
    <3> QED
      BY <2>1, <2>2
  <2> QED
    BY <2>3
<1>4. CASE E = <<>>
  <2>1. w = <<>> /\ v = <<>>
    BY <1>3, <1>4, NothingReadable
  <2> QED
    BY <1>3, <2>1, JoinEmpty
<1>5. CASE E # <<>>
  <2>1. /\ w # <<>> /\ Readable(Opens(Head(E), Head(w)) \o Tail(E), Tail(w))
        /\ v # <<>> /\ Readable(Opens(Head(E), Head(v)) \o Tail(E), Tail(v))
    BY <1>3, <1>5, ReadableStep
  <2>2. /\ Head(w \o x) = Head(w) /\ Tail(w \o x) = Tail(w) \o x
        /\ Head(v \o y) = Head(v) /\ Tail(v \o y) = Tail(v) \o y
    BY <1>3, <2>1, JoinHead
  <2>3. Head(w) = Head(v) /\ Tail(w) \o x = Tail(v) \o y
    BY <1>3, <2>2
  <2>4. /\ IsSequence(Tail(w)) /\ w = <<Head(w)>> \o Tail(w) /\ Len(Tail(w)) = m - 1
        /\ IsSequence(Tail(v)) /\ v = <<Head(v)>> \o Tail(v) /\ m \in Nat /\ m # 0
    BY <1>3, <2>1, HeadAndTail
  <2>5. SameAt(m - 1)
    <3>1. m # 0
      BY <2>4
    <3>2. m - 1 \in Nat /\ ~(m <= m - 1)
      BY <3>1
    <3> QED
      BY <1>2, <3>2
  <2>6. Tail(w) = Tail(v) /\ x = y
    <3> DEFINE G == Opens(Head(E), Head(w)) \o Tail(E)
               w1 == Tail(w)
               v1 == Tail(v)
    <3>1. /\ IsSequence(w1) /\ IsSequence(v1) /\ Len(w1) = m - 1
          /\ Readable(G, w1) /\ Readable(G, v1) /\ w1 \o x = v1 \o y
      BY <2>1, <2>3, <2>4
    <3>2. IsSequence(x) /\ IsSequence(y)
      BY <1>3
    <3> HIDE DEF G, w1, v1
    <3>3. w1 = v1 /\ x = y
      BY <2>5, <3>1, <3>2 DEF SameAt
    <3> QED
      BY <3>3 DEF w1, v1
  <2> QED
    BY <1>3, <2>3, <2>4, <2>6
<1> QED
  BY <1>4, <1>5

LEMMA ReadableOnce ==
  ASSUME NEW E, NEW w, NEW v, NEW x, NEW y,
         IsSequence(w), IsSequence(v), IsSequence(x), IsSequence(y),
         Readable(E, w), Readable(E, v), w \o x = v \o y
  PROVE  w = v /\ x = y
<1>1. PICK S : w \in Seq(S)
  BY DEF IsSequence
<1>2. Len(w) \in Nat
  BY <1>1
<1> QED
  BY <1>2, SameInEachLength DEF SameAt

\* An encoding of what is expected is read to its end.
LEMMA FitsIsReadable ==
  ASSUME NEW e, NEW w, Fits(e, w)
  PROVE  IsSequence(w) /\ Readable(<<e>>, w)
<1>1. Readable(<<e>> \o <<>>, w \o <<>>)
  BY EmptyIsSequence, EmptyIsReadable, JoinEmpty DEF Fits, Leads
<1> QED
  BY <1>1, OneIsSequence, JoinEmpty DEF Fits

-----------------------------------------------------------------------------
(***************************************************************************)
(* Sequences of encodings, part after part.                                *)
(***************************************************************************)

\* The first n parts, one after another.
Joint(parts, n) == FlattenSeq([i \in 1 .. n |-> parts[i]])

\* The function by which FlattenSeq is defined has at each place what the parts up
\* to there give: else take the first place where it differs.
LEMMA FlatSame ==
  ASSUME NEW p, NEW q, NEW m \in Nat, NEW n \in Nat, NEW k \in Nat, k <= m, k <= n,
         \A i \in 1 .. k : p[i] = q[i]
  PROVE  \A i \in 1 .. k : Flat(p, m)[i] = Flat(q, n)[i]
<1> DEFINE f == Flat(p, m)
           g == Flat(q, n)
           Wrong == {i \in 1 .. k : f[i] # g[i]}
<1>1. /\ f = [i \in 1 .. m |-> Flatter(f, p, i)]
      /\ g = [i \in 1 .. n |-> Flatter(g, q, i)]
  BY FlatExists DEF Flat
<1> HIDE DEF f, g
<1>2. SUFFICES ASSUME Wrong # {} PROVE FALSE
  BY DEF f, g
<1>3. PICK i \in 1 .. k : f[i] # g[i] /\ \A j \in 1 .. k : f[j] # g[j] => i <= j
  <2>1. Wrong \in SUBSET Nat
    OBVIOUS
  <2>2. Min(Wrong) \in Wrong /\ \A j \in Wrong : Min(Wrong) <= j
    <3> HIDE DEF Wrong
    <3> QED
      BY <1>2, <2>1, SmallestExists
  <2> QED
    BY <2>2
<1>4. i \in 1 .. m /\ i \in 1 .. n /\ p[i] = q[i]
  OBVIOUS
<1>5. f[i] = Flatter(f, p, i) /\ g[i] = Flatter(g, q, i)
  BY <1>1, <1>4
<1>6. CASE i = 1
  BY <1>3, <1>4, <1>5, <1>6 DEF Flatter
<1>7. CASE i # 1
  <2>1. i - 1 \in 1 .. k /\ ~(i <= i - 1)
    BY <1>7
  <2>2. f[i - 1] = g[i - 1]
    BY <1>3, <2>1
  <2> QED
    BY <1>3, <1>4, <1>5, <1>7, <2>2 DEF Flatter
<1> QED
  BY <1>6, <1>7

LEMMA JointSteps ==
  ASSUME NEW parts
  PROVE  /\ Joint(parts, 0) = <<>>
         /\ Joint(parts, 1) = parts[1]
         /\ \A n \in Nat : n # 0 => Joint(parts, n + 1) = Joint(parts, n) \o parts[n + 1]
<1>1. ASSUME NEW n \in Nat
      PROVE  Len([i \in 1 .. n |-> parts[i]]) = n
  <2> DEFINE f == [i \in 1 .. n |-> parts[i]]
  <2>1. f = [i \in 1 .. n |-> f[i]]
    OBVIOUS
  <2> HIDE DEF f
  <2>2. Len(f) = n
    BY <2>1, FunctionIsSequence
  <2> QED
    BY <2>2 DEF f
<1>2. Joint(parts, 0) = <<>>
  BY <1>1 DEF Joint, FlattenSeq
<1>3. ASSUME NEW n \in Nat, n # 0
      PROVE  Joint(parts, n) = Flat([i \in 1 .. n |-> parts[i]], n)[n]
  <2> DEFINE f == [i \in 1 .. n |-> parts[i]]
  <2>1. Len(f) = n
    BY <1>1
  <2> HIDE DEF f
  <2>2. FlattenSeq(f) = Flat(f, n)[n]
    BY <1>3, <2>1 DEF FlattenSeq, Flat, Flatter
  <2> QED
    BY <2>2 DEF f, Joint
<1>4. ASSUME NEW n \in Nat, n # 0
      PROVE  Flat([i \in 1 .. n |-> parts[i]], n)
               = [i \in 1 .. n |-> Flatter(Flat([j \in 1 .. n |-> parts[j]], n),
                                           [j \in 1 .. n |-> parts[j]], i)]
  <2> DEFINE f == [i \in 1 .. n |-> parts[i]]
  <2> HIDE DEF f
  <2>1. Flat(f, n) = [i \in 1 .. n |-> Flatter(Flat(f, n), f, i)]
    BY FlatExists DEF Flat
  <2> QED
    BY <2>1 DEF f
<1>5. Joint(parts, 1) = parts[1]
  <2> DEFINE f == [i \in 1 .. 1 |-> parts[i]]
  <2>1. f[1] = parts[1]
    OBVIOUS
  <2> HIDE DEF f
  <2>4. Flat(f, 1) = [i \in 1 .. 1 |-> Flatter(Flat(f, 1), f, i)]
    BY FlatExists DEF Flat
  <2>2. Flat(f, 1)[1] = Flatter(Flat(f, 1), f, 1)
    BY <2>4
  <2>3. Flat(f, 1)[1] = parts[1]
    BY <2>1, <2>2 DEF Flatter
  <2>5. 1 \in Nat /\ 1 # 0
    OBVIOUS
  <2>6. Joint(parts, 1) = Flat(f, 1)[1]
    BY <1>3, <2>5 DEF f
  <2> QED
    BY <2>3, <2>6
<1>6. ASSUME NEW n \in Nat, n # 0
      PROVE  Joint(parts, n + 1) = Joint(parts, n) \o parts[n + 1]
  <2> DEFINE f == [i \in 1 .. n |-> parts[i]]
             g == [i \in 1 .. n + 1 |-> parts[i]]
             G == Flat(g, n + 1)
  <2>1. n + 1 \in Nat /\ n + 1 # 0 /\ n + 1 # 1 /\ (n + 1) - 1 = n /\ n + 1 \in 1 .. n + 1
        /\ n <= n + 1 /\ n \in 1 .. n
    BY <1>6
  <2>2. G = [i \in 1 .. n + 1 |-> Flatter(G, g, i)]
    BY <1>4, <2>1
  <2>3. (\A i \in 1 .. n : f[i] = g[i]) /\ g[n + 1] = parts[n + 1]
    BY <2>1
  <2> HIDE DEF f, g
  <2>4. Flat(f, n)[n] = G[n]
    BY <2>1, <2>3, FlatSame
  <2> HIDE DEF G
  <2>5. G[n + 1] = Flatter(G, g, n + 1)
    BY <2>1, <2>2
  <2>6. G[n + 1] = G[n] \o g[n + 1]
    BY <2>1, <2>5 DEF Flatter
  <2>7. Joint(parts, n) = Flat(f, n)[n] /\ Joint(parts, n + 1) = G[n + 1]
    BY <1>3, <1>6, <2>1 DEF f, g, G
  <2> QED
    BY <2>3, <2>4, <2>6, <2>7
<1> QED
  BY <1>2, <1>5, <1>6

\* Part after part, sequences make a sequence.
LEMMA JointIsSequence ==
  ASSUME NEW n \in Nat, NEW parts, \A i \in 1 .. n : IsSequence(parts[i])
  PROVE  IsSequence(Joint(parts, n))
<1> DEFINE Wrong == {i \in 0 .. n : ~IsSequence(Joint(parts, i))}
<1>1. SUFFICES ASSUME Wrong # {} PROVE FALSE
  OBVIOUS
<1>2. PICK i \in 0 .. n : ~IsSequence(Joint(parts, i))
                          /\ \A j \in 0 .. n : ~IsSequence(Joint(parts, j)) => i <= j
  <2>1. Wrong \in SUBSET Nat
    OBVIOUS
  <2>2. Min(Wrong) \in Wrong /\ \A j \in Wrong : Min(Wrong) <= j
    <3> HIDE DEF Wrong
    <3> QED
      BY <1>1, <2>1, SmallestExists
  <2> QED
    BY <2>2
<1>3. i # 0
  BY <1>2, JointSteps, EmptyIsSequence
<1>4. CASE i = 1
  <2>1. 1 \in 1 .. n
    BY <1>4
  <2> QED
    BY <1>2, <1>4, <2>1, JointSteps
<1>5. CASE i # 1
  <2>1. i - 1 \in Nat /\ i - 1 # 0 /\ (i - 1) + 1 = i /\ i - 1 \in 0 .. n /\ i \in 1 .. n
        /\ ~(i <= i - 1)
    BY <1>3, <1>5
  <2>2. IsSequence(Joint(parts, i - 1))
    BY <1>2, <2>1
  <2>3. Joint(parts, i) = Joint(parts, i - 1) \o parts[i]
    <3>1. \A k \in Nat : k # 0 => Joint(parts, k + 1) = Joint(parts, k) \o parts[k + 1]
      BY JointSteps
    <3>2. Joint(parts, (i - 1) + 1) = Joint(parts, i - 1) \o parts[(i - 1) + 1]
      BY <2>1, <3>1
    <3> QED
      BY <2>1, <3>2
  <2>4. IsSequence(Joint(parts, i - 1) \o parts[i])
    BY <2>1, <2>2, JoinIsSequence
  <2> QED
    BY <1>2, <2>3, <2>4
<1> QED
  BY <1>4, <1>5

\* One more part, also where there was none.
LEMMA JointNext ==
  ASSUME NEW n \in Nat, NEW parts, \A i \in 1 .. n + 1 : IsSequence(parts[i])
  PROVE  /\ Joint(parts, n + 1) = Joint(parts, n) \o parts[n + 1]
         /\ IsSequence(Joint(parts, n)) /\ IsSequence(parts[n + 1])
<1>1. n + 1 \in 1 .. n + 1 /\ \A i \in 1 .. n : i \in 1 .. n + 1
  OBVIOUS
<1>2. IsSequence(parts[n + 1]) /\ IsSequence(Joint(parts, n))
  BY <1>1, JointIsSequence
<1>3. CASE n = 0
  <2>1. n + 1 = 1
    BY <1>3
  <2>2. Joint(parts, 1) = parts[1] /\ Joint(parts, 0) = <<>>
    BY JointSteps
  <2>3. IsSequence(parts[1])
    BY <1>2, <2>1
  <2>4. <<>> \o parts[1] = parts[1]
    BY <2>3, JoinEmpty
  <2> QED
    BY <1>2, <1>3, <2>1, <2>2, <2>4
<1>4. CASE n # 0
  BY <1>2, <1>4, JointSteps
<1> QED
  BY <1>2, <1>3, <1>4

\* If each part of one can be told from that of the other by reading on, then so
\* can the whole: else take the first place up to which it cannot.
EachOnce(p, q, n) ==
  \A i \in 1 .. n : \A x, y :
    IsSequence(x) /\ IsSequence(y) /\ p[i] \o x = q[i] \o y => p[i] = q[i] /\ x = y

LEMMA JointOnce ==
  ASSUME NEW n \in Nat, NEW p, NEW q,
         \A i \in 1 .. n : IsSequence(p[i]) /\ IsSequence(q[i]), EachOnce(p, q, n),
         Joint(p, n) = Joint(q, n)
  PROVE  \A i \in 1 .. n : p[i] = q[i]
<1> DEFINE Once(i) ==
             \A x, y : IsSequence(x) /\ IsSequence(y) /\ Joint(p, i) \o x = Joint(q, i) \o y
                         => x = y /\ \A j \in 1 .. i : p[j] = q[j]
           Wrong == {i \in 0 .. n : ~Once(i)}
<1>1. Once(n)
  <2>1. SUFFICES ASSUME Wrong # {} PROVE FALSE
    <3>1. n \in 0 .. n
      OBVIOUS
    <3> HIDE DEF Once
    <3> QED
      BY <3>1
  <2>2. PICK i \in 0 .. n : ~Once(i) /\ \A j \in 0 .. n : ~Once(j) => i <= j
    <3>1. Wrong \in SUBSET Nat
      OBVIOUS
    <3>2. Min(Wrong) \in Wrong /\ \A j \in Wrong : Min(Wrong) <= j
      <4> HIDE DEF Wrong
      <4> QED
        BY <2>1, <3>1, SmallestExists
    <3> HIDE DEF Once
    <3> QED
      BY <3>2
  <2>3. i # 0
    <3>1. Once(0)
      <4>1. Joint(p, 0) = <<>> /\ Joint(q, 0) = <<>> /\ 1 .. 0 = {}
        BY JointSteps
      <4>2. \A x : IsSequence(x) => <<>> \o x = x
        BY JoinEmpty
      <4> QED
        BY <4>1, <4>2
    <3> HIDE DEF Once
    <3> QED
      BY <2>2, <3>1
  <2> DEFINE m == i - 1
  <2>4. m \in Nat /\ m \in 0 .. n /\ m + 1 = i /\ i \in 1 .. n /\ ~(i <= m)
    BY <2>3
  <2>5. Once(m)
    <3> HIDE DEF Once
    <3> QED
      BY <2>2, <2>4
  <2> HIDE DEF m
  <2>6. \A j \in 1 .. i : IsSequence(p[j]) /\ IsSequence(q[j])
    <3>1. \A j \in 1 .. i : j \in 1 .. n
      OBVIOUS
    <3> QED
      BY <3>1
  <2>7. /\ Joint(p, i) = Joint(p, m) \o p[i] /\ Joint(q, i) = Joint(q, m) \o q[i]
        /\ IsSequence(Joint(p, m)) /\ IsSequence(p[i])
        /\ IsSequence(Joint(q, m)) /\ IsSequence(q[i])
    <3>1. \A j \in 1 .. m + 1 : IsSequence(p[j]) /\ IsSequence(q[j])
      BY <2>4, <2>6
    <3>2. /\ Joint(p, m + 1) = Joint(p, m) \o p[m + 1] /\ Joint(q, m + 1) = Joint(q, m) \o q[m + 1]
          /\ IsSequence(Joint(p, m)) /\ IsSequence(p[m + 1])
          /\ IsSequence(Joint(q, m)) /\ IsSequence(q[m + 1])
      BY <2>4, <3>1, JointNext
    <3> QED
      BY <2>4, <3>2
  <2>8. Once(i)
    <3> SUFFICES ASSUME NEW x, NEW y, IsSequence(x), IsSequence(y),
                        Joint(p, i) \o x = Joint(q, i) \o y
                 PROVE  x = y /\ \A j \in 1 .. i : p[j] = q[j]
      OBVIOUS
    <3> DEFINE P == Joint(p, m)
               Q == Joint(q, m)
               a == p[i]
               b == q[i]
    <3>1. (P \o a) \o x = (Q \o b) \o y
      BY <2>7
    <3>2. IsSequence(P) /\ IsSequence(Q) /\ IsSequence(a) /\ IsSequence(b)
      BY <2>7
    <3> HIDE DEF P, Q, a, b
    <3>8. (P \o a) \o x = P \o (a \o x)
      BY <3>2, JoinAssociates, SMTT(60)
    <3>9. (Q \o b) \o y = Q \o (b \o y)
      BY <3>2, JoinAssociates
    <3>3. (P \o a) \o x = P \o (a \o x) /\ (Q \o b) \o y = Q \o (b \o y)
      BY <3>8, <3>9
    <3>4. IsSequence(a \o x) /\ IsSequence(b \o y)
      BY <3>2, JoinIsSequence
    <3>5. a \o x = b \o y /\ \A j \in 1 .. m : p[j] = q[j]
      <4>1. P \o (a \o x) = Q \o (b \o y)
        BY <3>1, <3>3
      <4> DEFINE u == a \o x
                 v == b \o y
      <4>2. P \o u = Q \o v /\ IsSequence(u) /\ IsSequence(v)
        BY <3>4, <4>1
      <4> HIDE DEF u, v
      <4>3. u = v /\ \A j \in 1 .. m : p[j] = q[j]
        BY <2>5, <4>2 DEF P, Q
      <4> QED
        BY <4>3 DEF u, v
    <3>6. a = b /\ x = y
      BY <2>4, <3>5 DEF EachOnce, a, b
    <3>7. \A j \in 1 .. i : j \in 1 .. m \/ j = i
      BY <2>4
    <3> QED
      BY <3>5, <3>6, <3>7 DEF a, b
  <2> HIDE DEF Once
  <2> QED
    BY <2>2, <2>8
<1>2. Joint(p, n) \o <<>> = Joint(q, n) \o <<>>
  OBVIOUS
<1> QED
  BY <1>1, <1>2, EmptyIsSequence

-----------------------------------------------------------------------------
(***************************************************************************)
(* Lists in ascending order.                                               *)
(***************************************************************************)

\* A list of n numbers in ascending order.
Ascends(s, n) ==
  /\ s = [i \in 1 .. n |-> s[i]] /\ \A i \in 1 .. n : s[i] \in Nat
  /\ \A i, j \in 1 .. n : i < j => s[i] < s[j]

\* It has n elements.
LEMMA AscendingCounts ==
  ASSUME NEW n \in Nat, NEW s, Ascends(s, n)
  PROVE  /\ {s[i] : i \in 1 .. n} \in SUBSET Nat /\ IsFiniteSet({s[i] : i \in 1 .. n})
         /\ Cardinality({s[i] : i \in 1 .. n}) = n
<1> DEFINE S == {s[i] : i \in 1 .. n}
<1>1. S \in SUBSET Nat /\ s \in [1 .. n -> S]
  BY DEF Ascends
<1>2. \A i, j \in 1 .. n : s[i] = s[j] => i = j
  <2> SUFFICES ASSUME NEW i \in 1 .. n, NEW j \in 1 .. n, s[i] = s[j]
               PROVE  i = j
    OBVIOUS
  <2>1. s[i] \in Nat /\ s[j] \in Nat /\ (i < j => s[i] < s[j]) /\ (j < i => s[j] < s[i])
    BY DEF Ascends
  <2> QED
    BY <2>1
<1>3. \A t \in S : \E i \in 1 .. n : s[i] = t
  OBVIOUS
<1> HIDE DEF S
<1>4. s \in Bijection(1 .. n, S)
  BY <1>1, <1>2, <1>3 DEF Bijection, Injection, Surjection, IsInjective
<1>5. IsFiniteSet(1 .. n) /\ Cardinality(1 .. n) = n
  <2>1. IsFiniteSet(1 .. n) /\ Cardinality(1 .. n) = IF 1 > n THEN 0 ELSE n - 1 + 1
    BY FS_Interval
  <2> QED
    BY <2>1
<1>6. ExistsBijection(1 .. n, S)
  BY <1>4 DEF ExistsBijection
<1> QED
  BY <1>1, <1>5, <1>6, FS_Bijection DEF S

\* There is one such list of a set: else take the first place where two differ.
LEMMA OneOrder ==
  ASSUME NEW n \in Nat, NEW s, NEW t, Ascends(s, n), Ascends(t, n),
         {s[i] : i \in 1 .. n} = {t[i] : i \in 1 .. n}
  PROVE  s = t
<1> DEFINE Wrong == {i \in 1 .. n : s[i] # t[i]}
<1>1. /\ \A i \in 1 .. n : s[i] \in Nat /\ t[i] \in Nat
      /\ \A i, j \in 1 .. n : i < j => s[i] < s[j] /\ t[i] < t[j]
      /\ \A i \in 1 .. n : (\E j \in 1 .. n : t[j] = s[i]) /\ (\E j \in 1 .. n : s[j] = t[i])
  BY DEF Ascends
<1>2. Wrong = {}
  <2>1. SUFFICES ASSUME Wrong # {} PROVE FALSE
    OBVIOUS
  <2>2. PICK i \in 1 .. n : s[i] # t[i] /\ \A j \in 1 .. n : s[j] # t[j] => i <= j
    <3>1. Wrong \in SUBSET Nat
      OBVIOUS
    <3>2. Min(Wrong) \in Wrong /\ \A j \in Wrong : Min(Wrong) <= j
      <4> HIDE DEF Wrong
      <4> QED
        BY <2>1, <3>1, SmallestExists
    <3> QED
      BY <3>2
  <2>3. PICK a \in 1 .. n : t[a] = s[i]
    BY <1>1
  <2>4. PICK b \in 1 .. n : s[b] = t[i]
    BY <1>1
  <2>5. a > i
    <3>1. a < i => s[a] = t[a]
      BY <2>2
    <3>2. a < i => s[a] < s[i]
      BY <1>1
    <3>3. a # i
      BY <2>2, <2>3
    <3>4. s[a] \in Nat /\ s[i] \in Nat
      BY <1>1
    <3> QED
      BY <2>3, <3>1, <3>2, <3>3, <3>4
  <2>6. b > i
    <3>1. b < i => s[b] = t[b]
      BY <2>2
    <3>2. b < i => t[b] < t[i]
      BY <1>1
    <3>3. b # i
      BY <2>2, <2>4
    <3>4. t[b] \in Nat /\ t[i] \in Nat
      BY <1>1
    <3> QED
      BY <2>4, <3>1, <3>2, <3>3, <3>4
  <2>7. t[i] < t[a] /\ s[i] < s[b]
    BY <1>1, <2>5, <2>6
  <2>8. s[i] \in Nat /\ t[i] \in Nat
    BY <1>1
  <2> QED
    BY <2>3, <2>4, <2>7, <2>8
<1>3. s = [i \in 1 .. n |-> s[i]] /\ t = [i \in 1 .. n |-> t[i]]
  BY DEF Ascends
<1>4. \A i \in 1 .. n : s[i] = t[i]
  BY <1>2
<1> QED
  BY <1>3, <1>4

\* It is what InOrder lists.
LEMMA InOrderIs ==
  ASSUME NEW n \in Nat, NEW s, Ascends(s, n)
  PROVE  /\ {s[i] : i \in 1 .. n} \in SUBSET Nat /\ IsFiniteSet({s[i] : i \in 1 .. n})
         /\ Cardinality({s[i] : i \in 1 .. n}) = n /\ InOrder({s[i] : i \in 1 .. n}) = s
<1> DEFINE S == {s[i] : i \in 1 .. n}
           t == InOrder(S)
<1>1. S \in SUBSET Nat /\ IsFiniteSet(S) /\ Cardinality(S) = n
  BY AscendingCounts
<1> HIDE DEF S
<1>2. /\ t = [i \in 1 .. n |-> t[i]] /\ \A i \in 1 .. n : t[i] \in S
      /\ \A i, j \in 1 .. n : i < j => t[i] < t[j]
      /\ \A k \in S : \E i \in 1 .. n : t[i] = k
  BY <1>1, OrderAscends
<1> HIDE DEF t
<1>3. \A i \in 1 .. n : t[i] \in Nat
  BY <1>1, <1>2
<1>4. Ascends(t, n)
  BY <1>2, <1>3 DEF Ascends
<1>5. {t[i] : i \in 1 .. n} = S
  BY <1>2
<1>6. s = t
  BY <1>4, <1>5, OneOrder DEF S
<1> QED
  BY <1>1, <1>6 DEF S, t

\* A higher number comes last.
LEMMA InOrderNext ==
  ASSUME NEW D \in SUBSET Nat, IsFiniteSet(D), NEW k \in Nat, \A j \in D : k > j
  PROVE  /\ D \cup {k} \in SUBSET Nat /\ IsFiniteSet(D \cup {k})
         /\ Cardinality(D) \in Nat /\ Cardinality(D \cup {k}) = Cardinality(D) + 1
         /\ \A i \in 1 .. Cardinality(D) : InOrder(D \cup {k})[i] = InOrder(D)[i]
         /\ InOrder(D \cup {k})[Cardinality(D) + 1] = k
<1> DEFINE n == Cardinality(D)
           d == InOrder(D)
           s == [i \in 1 .. n + 1 |-> IF i = n + 1 THEN k ELSE d[i]]
<1>1. /\ n \in Nat /\ \A i \in 1 .. n : d[i] \in D
      /\ \A i, j \in 1 .. n : i < j => d[i] < d[j]
      /\ \A j \in D : \E i \in 1 .. n : d[i] = j
  BY OrderAscends
<1> HIDE DEF n, d
<1>2. /\ n + 1 \in 1 .. n + 1 /\ s[n + 1] = k
      /\ \A i \in 1 .. n : i \in 1 .. n + 1 /\ s[i] = d[i]
      /\ \A i \in 1 .. n + 1 : i \in 1 .. n \/ i = n + 1
  BY <1>1
<1>3. s = [i \in 1 .. n + 1 |-> s[i]]
  OBVIOUS
<1> HIDE DEF s
<1>4. \A i \in 1 .. n : d[i] \in Nat /\ d[i] < k
  BY <1>1
<1>5. \A i \in 1 .. n + 1 : s[i] \in Nat
  BY <1>2, <1>4
<1>6. ASSUME NEW i \in 1 .. n + 1, NEW j \in 1 .. n + 1, i < j
      PROVE  s[i] < s[j]
  <2>1. i \in 1 .. n
    BY <1>1, <1>6
  <2>2. CASE j = n + 1
    BY <1>2, <1>4, <2>1, <2>2
  <2>3. CASE j # n + 1
    <3>1. j \in 1 .. n
      BY <1>2, <2>3
    <3> QED
      BY <1>1, <1>2, <1>6, <2>1, <3>1
  <2> QED
    BY <2>2, <2>3
<1>7. Ascends(s, n + 1)
  BY <1>3, <1>5, <1>6 DEF Ascends
<1>8. {s[i] : i \in 1 .. n + 1} = D \cup {k}
  <2>1. \A i \in 1 .. n + 1 : s[i] \in D \cup {k}
    BY <1>1, <1>2
  <2>2. \A j \in D \cup {k} : \E i \in 1 .. n + 1 : s[i] = j
    BY <1>1, <1>2
  <2> QED
    BY <2>1, <2>2
<1>9. n + 1 \in Nat
  BY <1>1
<1>10. /\ D \cup {k} \in SUBSET Nat /\ IsFiniteSet(D \cup {k})
       /\ Cardinality(D \cup {k}) = n + 1 /\ InOrder(D \cup {k}) = s
  BY <1>7, <1>8, <1>9, InOrderIs
<1> QED
  BY <1>1, <1>2, <1>10 DEF n, d

\* The numbers up to n, in order.
LEMMA InOrderUpTo ==
  ASSUME NEW n \in Nat
  PROVE  /\ 1 .. n \in SUBSET Nat /\ IsFiniteSet(1 .. n) /\ Cardinality(1 .. n) = n
         /\ \A i \in 1 .. n : InOrder(1 .. n)[i] = i
<1> DEFINE s == [i \in 1 .. n |-> i]
<1>1. Ascends(s, n) /\ {s[i] : i \in 1 .. n} = 1 .. n /\ \A i \in 1 .. n : s[i] = i
  BY DEF Ascends
<1> HIDE DEF s
<1>2. /\ {s[i] : i \in 1 .. n} \in SUBSET Nat /\ IsFiniteSet({s[i] : i \in 1 .. n})
      /\ Cardinality({s[i] : i \in 1 .. n}) = n /\ InOrder({s[i] : i \in 1 .. n}) = s
  BY <1>1, InOrderIs
<1>3. /\ 1 .. n \in SUBSET Nat /\ IsFiniteSet(1 .. n)
      /\ Cardinality(1 .. n) = n /\ InOrder(1 .. n) = s
  BY <1>1, <1>2
<1> QED
  BY <1>1, <1>3

-----------------------------------------------------------------------------
(***************************************************************************)
(* Maps, field after field.                                                *)
(***************************************************************************)

\* The fields F in the order of their keys, each after its key's head.
FieldParts(heads, F) ==
  [i \in 1 .. Cardinality(DOMAIN F) |->
    <<heads[InOrder(DOMAIN F)[i]]>> \o F[InOrder(DOMAIN F)[i]]]
Body(heads, F) == Joint(FieldParts(heads, F), Cardinality(DOMAIN F))

Head1(k) == Item("uint", Shortest(k), k, 0)

LEMMA JointEqual ==
  ASSUME NEW n \in Nat, NEW p, NEW q, \A i \in 1 .. n : p[i] = q[i]
  PROVE  Joint(p, n) = Joint(q, n)
<1>1. [i \in 1 .. n |-> p[i]] = [i \in 1 .. n |-> q[i]]
  OBVIOUS
<1> QED
  BY <1>1 DEF Joint

\* The parts, and what holds of them all.
LEMMA PartsOfFields ==
  ASSUME NEW F, DOMAIN F \in SUBSET Nat, IsFiniteSet(DOMAIN F), NEW heads,
         \A k \in DOMAIN F : IsSequence(F[k])
  PROVE  /\ Cardinality(DOMAIN F) \in Nat
         /\ \A i \in 1 .. Cardinality(DOMAIN F) :
              /\ InOrder(DOMAIN F)[i] \in DOMAIN F
              /\ FieldParts(heads, F)[i]
                   = <<heads[InOrder(DOMAIN F)[i]]>> \o F[InOrder(DOMAIN F)[i]]
              /\ IsSequence(FieldParts(heads, F)[i])
         /\ IsSequence(Body(heads, F))
<1> DEFINE n == Cardinality(DOMAIN F)
           keys == InOrder(DOMAIN F)
           parts == FieldParts(heads, F)
<1>1. n \in Nat /\ \A i \in 1 .. n : keys[i] \in DOMAIN F
  BY OrderAscends
<1>2. \A i \in 1 .. n : parts[i] = <<heads[keys[i]]>> \o F[keys[i]]
  BY DEF FieldParts
<1> HIDE DEF n, keys, parts
<1>3. \A i \in 1 .. n : IsSequence(parts[i])
  BY <1>1, <1>2, OneIsSequence, JoinIsSequence
<1>4. IsSequence(Joint(parts, n))
  BY <1>1, <1>3, JointIsSequence
<1> QED
  BY <1>1, <1>2, <1>3, <1>4 DEF Body, n, keys, parts

\* What WriteFields writes.
LEMMA FieldsWritten ==
  ASSUME NEW F, DOMAIN F \in SUBSET Nat, IsFiniteSet(DOMAIN F)
  PROVE  WriteFields(F) = WriteHead("map", Cardinality(DOMAIN F), 0)
                            \o Body([k \in DOMAIN F |-> Head1(k)], F)
<1> DEFINE n == Cardinality(DOMAIN F)
           keys == InOrder(DOMAIN F)
           heads == [k \in DOMAIN F |-> Head1(k)]
           ws == [i \in 1 .. n |-> <<heads[keys[i]]>> \o F[keys[i]]]
<1>1. n \in Nat /\ DOMAIN keys = 1 .. n /\ Len(keys) = n /\ \A i \in 1 .. n : keys[i] \in DOMAIN F
  BY OrderAscends
<1>2. Joint(ws, n) = FlattenSeq(ws) /\ FieldParts(heads, F) = ws
  <2>1. ws = [i \in 1 .. n |-> ws[i]]
    OBVIOUS
  <2>2. FieldParts(heads, F) = ws
    BY DEF FieldParts
  <2> HIDE DEF ws
  <2> QED
    BY <2>1, <2>2 DEF Joint
<1>3. WriteFields(F) = WriteHead("map", n, 0) \o FlattenSeq(ws)
  <2> DEFINE names == [k \in DOMAIN F |-> WriteUint(k)]
  <2>1. \A k \in DOMAIN F : names[k] = <<heads[k]>>
    BY DEF WriteUint, WriteHead, Head1
  <2> HIDE DEF names, heads
  <2>2. ws = [i \in DOMAIN keys |-> names[keys[i]] \o F[keys[i]]]
    <3> HIDE DEF n, keys
    <3> QED
      BY <1>1, <2>1
  <2> HIDE DEF ws
  <2> QED
    BY <1>1, <2>2 DEF WriteFields, WriteMap, names
<1> QED
  BY <1>2, <1>3 DEF Body

\* Another key, and its field.
AddsKey(F, heads, k, w, G, heads2) ==
  /\ DOMAIN F \in SUBSET Nat /\ IsFiniteSet(DOMAIN F) /\ \A j \in DOMAIN F : IsSequence(F[j])
  /\ k \in Nat /\ \A j \in DOMAIN F : k > j
  /\ DOMAIN G = DOMAIN F \cup {k} /\ IsSequence(G[k]) /\ \A j \in DOMAIN F : G[j] = F[j]
  /\ w = <<heads2[k]>> \o G[k] /\ \A j \in DOMAIN F : heads2[j] = heads[j]

LEMMA BodyNext ==
  ASSUME NEW F, NEW heads, NEW k, NEW w, NEW G, NEW heads2,
         AddsKey(F, heads, k, w, G, heads2)
  PROVE  Body(heads2, G) = Body(heads, F) \o w
<1> /\ DOMAIN F \in SUBSET Nat /\ IsFiniteSet(DOMAIN F) /\ \A j \in DOMAIN F : IsSequence(F[j])
    /\ k \in Nat /\ \A j \in DOMAIN F : k > j
    /\ DOMAIN G = DOMAIN F \cup {k} /\ IsSequence(G[k]) /\ \A j \in DOMAIN F : G[j] = F[j]
    /\ w = <<heads2[k]>> \o G[k] /\ \A j \in DOMAIN F : heads2[j] = heads[j]
  BY DEF AddsKey
<1> DEFINE n == Cardinality(DOMAIN F)
           p == FieldParts(heads, F)
           q == FieldParts(heads2, G)
           s == InOrder(DOMAIN F)
           t == InOrder(DOMAIN G)
<1>0. \A i \in 1 .. Cardinality(DOMAIN F) :
        /\ InOrder(DOMAIN F)[i] \in DOMAIN F
        /\ FieldParts(heads, F)[i]
             = <<heads[InOrder(DOMAIN F)[i]]>> \o F[InOrder(DOMAIN F)[i]]
  <2>1. /\ DOMAIN F \in SUBSET Nat /\ IsFiniteSet(DOMAIN F)
        /\ \A j \in DOMAIN F : IsSequence(F[j])
    OBVIOUS
  <2> QED
    BY ONLY <2>1, PartsOfFields
<1>1. /\ n \in Nat /\ DOMAIN G \in SUBSET Nat /\ IsFiniteSet(DOMAIN G)
      /\ Cardinality(DOMAIN G) = n + 1
      /\ (\A i \in 1 .. n : t[i] = s[i]) /\ t[n + 1] = k
  <2> DEFINE D == DOMAIN F
  <2>1. D \in SUBSET Nat /\ IsFiniteSet(D) /\ (\A j \in D : k > j) /\ DOMAIN G = D \cup {k}
    OBVIOUS
  <2> HIDE DEF D
  <2>2. /\ D \cup {k} \in SUBSET Nat /\ IsFiniteSet(D \cup {k})
        /\ Cardinality(D) \in Nat /\ Cardinality(D \cup {k}) = Cardinality(D) + 1
        /\ \A i \in 1 .. Cardinality(D) : InOrder(D \cup {k})[i] = InOrder(D)[i]
        /\ InOrder(D \cup {k})[Cardinality(D) + 1] = k
    BY <2>1, InOrderNext
  <2>3. /\ Cardinality(D) \in Nat /\ DOMAIN G \in SUBSET Nat /\ IsFiniteSet(DOMAIN G)
        /\ Cardinality(DOMAIN G) = Cardinality(D) + 1
        /\ (\A i \in 1 .. Cardinality(D) : InOrder(DOMAIN G)[i] = InOrder(D)[i])
        /\ InOrder(DOMAIN G)[Cardinality(D) + 1] = k
    BY <2>1, <2>2
  <2> QED
    BY <2>3 DEF D
<1>2. \A j \in DOMAIN G : IsSequence(G[j])
  BY EmptyIsSequence
<1>3. \A i \in 1 .. n : s[i] \in DOMAIN F /\ p[i] = <<heads[s[i]]>> \o F[s[i]]
  BY <1>0
<1>4. \A i \in 1 .. n + 1 : q[i] = <<heads2[t[i]]>> \o G[t[i]] /\ IsSequence(q[i])
  <2>1. \A i \in 1 .. Cardinality(DOMAIN G) :
          /\ FieldParts(heads2, G)[i]
               = <<heads2[InOrder(DOMAIN G)[i]]>> \o G[InOrder(DOMAIN G)[i]]
          /\ IsSequence(FieldParts(heads2, G)[i])
    <3>1. /\ DOMAIN G \in SUBSET Nat /\ IsFiniteSet(DOMAIN G)
          /\ \A j \in DOMAIN G : IsSequence(G[j])
      BY <1>1, <1>2
    <3> QED
      BY ONLY <3>1, PartsOfFields
  <2> QED
    BY <1>1, <2>1, Zenon
<1> HIDE DEF n, p, q, s, t
<1>5. \A i \in 1 .. n : p[i] = q[i]
  <2>1. \A i \in 1 .. n : i \in 1 .. n + 1
    BY <1>1
  <2> QED
    <3> SUFFICES ASSUME NEW i \in 1 .. n PROVE p[i] = q[i]
      OBVIOUS
    <3>1. s[i] \in DOMAIN F /\ t[i] = s[i]
      BY <1>1, <1>3
    <3>2. heads2[s[i]] = heads[s[i]] /\ G[s[i]] = F[s[i]]
      BY <3>1
    <3>3. p[i] = <<heads[s[i]]>> \o F[s[i]] /\ q[i] = <<heads2[t[i]]>> \o G[t[i]]
      BY <1>3, <1>4, <2>1
    <3> QED
      BY <3>1, <3>2, <3>3
<1>6. Joint(p, n) = Joint(q, n)
  BY <1>1, <1>5, JointEqual
<1>7. q[n + 1] = w
  <2>1. n + 1 \in 1 .. n + 1
    BY <1>1
  <2>2. q[n + 1] = <<heads2[t[n + 1]]>> \o G[t[n + 1]]
    BY <1>4, <2>1
  <2> QED
    BY <1>1, <2>2
<1>8. Joint(q, n + 1) = Joint(q, n) \o q[n + 1]
  BY <1>1, <1>4, JointNext
<1> QED
  BY <1>1, <1>6, <1>7, <1>8 DEF Body, n, p, q

\* Another item, of the field of the highest key.
AddsItem(F, top, w, G) ==
  /\ DOMAIN F \in SUBSET Nat /\ IsFiniteSet(DOMAIN F) /\ \A j \in DOMAIN F : IsSequence(F[j])
  /\ top \in DOMAIN F /\ \A j \in DOMAIN F : j <= top
  /\ DOMAIN G = DOMAIN F /\ \A j \in DOMAIN F : j # top => G[j] = F[j]
  /\ \E item : w = <<item>> /\ G[top] = Append(F[top], item)

LEMMA BodyGrows ==
  ASSUME NEW F, NEW heads, NEW top, NEW w, NEW G, AddsItem(F, top, w, G)
  PROVE  /\ Body(heads, G) = Body(heads, F) \o w
         /\ G[top] = F[top] \o w /\ \A k \in DOMAIN G : IsSequence(G[k])
<1> /\ DOMAIN F \in SUBSET Nat /\ IsFiniteSet(DOMAIN F) /\ \A j \in DOMAIN F : IsSequence(F[j])
    /\ top \in DOMAIN F /\ \A j \in DOMAIN F : j <= top
    /\ DOMAIN G = DOMAIN F /\ \A j \in DOMAIN F : j # top => G[j] = F[j]
  BY DEF AddsItem
<1>0. PICK item : w = <<item>> /\ G[top] = Append(F[top], item)
  BY DEF AddsItem
<1> DEFINE n == Cardinality(DOMAIN F)
           p == FieldParts(heads, F)
           q == FieldParts(heads, G)
           s == InOrder(DOMAIN F)
<1>1. G[top] = F[top] \o <<item>>
  <2>1. PICK S : F[top] \in Seq(S)
    BY DEF IsSequence
  <2>2. F[top] \in Seq(S \cup {item}) /\ <<item>> \in Seq(S \cup {item})
    BY <2>1, SeqMonotonic
  <2>3. Append(F[top], item) = F[top] \o <<item>>
    BY <2>2
  <2> QED
    BY <1>0, <2>3
<1>2. \A k \in DOMAIN G : IsSequence(G[k])
  BY <1>1, OneIsSequence, JoinIsSequence
<1>3. /\ n \in Nat /\ \A i \in 1 .. n : s[i] \in DOMAIN F
      /\ \A i, j \in 1 .. n : i < j => s[i] < s[j]
      /\ \A k \in DOMAIN F : \E i \in 1 .. n : s[i] = k
  BY OrderAscends
<1>4. \A i \in 1 .. n : p[i] = <<heads[s[i]]>> \o F[s[i]] /\ IsSequence(p[i])
  BY PartsOfFields
<1>5. \A i \in 1 .. n : q[i] = <<heads[s[i]]>> \o G[s[i]] /\ IsSequence(q[i])
  BY <1>2, PartsOfFields
<1>6. Body(heads, F) = Joint(p, n) /\ Body(heads, G) = Joint(q, n)
  BY DEF Body
<1> HIDE DEF n, p, q, s
<1>7. PICK last \in 1 .. n : s[last] = top
  BY <1>3
<1>8. last = n
  <2>1. n \in 1 .. n /\ last <= n
    BY <1>3
  <2>2. last < n => s[last] < s[n]
    BY <1>3, <2>1
  <2>3. s[n] <= top /\ s[n] \in Nat /\ top \in Nat
    BY <1>3, <2>1
  <2> QED
    BY <1>7, <2>1, <2>2, <2>3
<1> DEFINE m == n - 1
<1>9. m \in Nat /\ m + 1 = n /\ n \in 1 .. n /\ \A i \in 1 .. m : i \in 1 .. n /\ i < n
  BY <1>3, <1>7
<1> HIDE DEF m
<1>10. \A i \in 1 .. m : p[i] = q[i]
  <2> SUFFICES ASSUME NEW i \in 1 .. m PROVE p[i] = q[i]
    OBVIOUS
  <2>1. i \in 1 .. n /\ s[i] < s[n] /\ s[i] \in DOMAIN F /\ s[i] \in Nat /\ s[n] \in Nat
    BY <1>3, <1>9
  <2>2. s[i] # top
    BY <1>7, <1>8, <2>1
  <2> QED
    BY <1>4, <1>5, <2>1, <2>2
<1>11. Joint(p, m) = Joint(q, m)
  BY <1>9, <1>10, JointEqual
<1>12. /\ Joint(p, n) = Joint(p, m) \o p[n] /\ IsSequence(Joint(p, m)) /\ IsSequence(p[n])
       /\ Joint(q, n) = Joint(q, m) \o q[n]
  <2>1. \A i \in 1 .. m + 1 : IsSequence(p[i]) /\ IsSequence(q[i])
    BY <1>4, <1>5, <1>9
  <2>2. /\ Joint(p, m + 1) = Joint(p, m) \o p[m + 1] /\ IsSequence(Joint(p, m))
        /\ IsSequence(p[m + 1]) /\ Joint(q, m + 1) = Joint(q, m) \o q[m + 1]
    BY <1>9, <2>1, JointNext
  <2> QED
    BY <1>9, <2>2
<1>13. q[n] = p[n] \o <<item>>
  <2>1. p[n] = <<heads[top]>> \o F[top] /\ q[n] = <<heads[top]>> \o (F[top] \o <<item>>)
    BY <1>1, <1>4, <1>5, <1>7, <1>8, <1>9
  <2>2. IsSequence(<<heads[top]>>) /\ IsSequence(F[top]) /\ IsSequence(<<item>>)
    BY OneIsSequence
  <2> DEFINE a == <<heads[top]>>
             b == F[top]
             c == <<item>>
  <2> HIDE DEF a, b, c
  <2>3. (a \o b) \o c = a \o (b \o c)
    BY <2>2, JoinAssociates DEF a, b, c
  <2> QED
    BY <2>1, <2>3 DEF a, b, c
<1>14. Joint(q, n) = Joint(p, n) \o <<item>>
  <2> DEFINE a == Joint(p, m)
             b == p[n]
             c == <<item>>
  <2>1. IsSequence(a) /\ IsSequence(b) /\ IsSequence(c)
    BY <1>12, OneIsSequence
  <2>2. Joint(q, n) = a \o (b \o c) /\ Joint(p, n) = a \o b
    BY <1>11, <1>12, <1>13
  <2> HIDE DEF a, b, c
  <2>3. (a \o b) \o c = a \o (b \o c)
    BY <2>1, JoinAssociates, SMTT(60)
  <2> QED
    BY <2>2, <2>3 DEF c
<1> QED
  BY <1>0, <1>1, <1>2, <1>6, <1>14

-----------------------------------------------------------------------------
(***************************************************************************)
(* Arrays and tables, after their heads.                                   *)
(***************************************************************************)

LEMMA NumbersAreNatural == Number \subseteq Nat /\ Rank \subseteq Nat /\ Length \subseteq Nat
<1>1. Greatest[8] \in Nat
  BY CborAssumption
<1>2. 0 .. Greatest[8] \subseteq Nat
  BY <1>1
<1>3. Number \subseteq 0 .. Greatest[8] /\ Rank \subseteq Nat /\ Length \subseteq 0 .. Greatest[8]
  BY CodecAssumption
<1> QED
  BY <1>2, <1>3

\* A set that has 0, and with each number below n the next, has n.
LEMMA CountsUp ==
  ASSUME NEW n \in Nat, NEW S, 0 \in S, \A m \in Nat : m \in S /\ m < n => m + 1 \in S
  PROVE  n \in S
<1> SUFFICES ASSUME n \notin S PROVE FALSE
  OBVIOUS
<1> DEFINE Wrong == {m \in Nat : m <= n /\ m \notin S}
<1>1. Wrong \in SUBSET Nat /\ Wrong # {}
  OBVIOUS
<1> HIDE DEF Wrong
<1>2. Min(Wrong) \in Wrong /\ \A m \in Wrong : Min(Wrong) <= m
  BY <1>1, SmallestExists
<1>3. PICK k \in Wrong : \A m \in Wrong : k <= m
  BY <1>2
<1>4. k \in Nat /\ k <= n /\ k \notin S
  BY <1>3 DEF Wrong
<1>5. k # 0
  BY <1>4
<1> DEFINE j == k - 1
<1>6. j \in Nat /\ j < n /\ j + 1 = k /\ ~(k <= j) /\ j <= n
  BY <1>4, <1>5
<1>7. j \in S
  BY <1>3, <1>6 DEF Wrong
<1> QED
  BY <1>4, <1>6, <1>7

\* An array, after its head.
LEMMA ArrayIs ==
  ASSUME NEW n \in Nat, NEW ws
  PROVE  WriteArray([i \in 1 .. n |-> ws[i]]) = WriteArrayHead(n) \o Joint(ws, n)
<1> DEFINE p == [i \in 1 .. n |-> ws[i]]
<1>1. p = [i \in 1 .. n |-> p[i]]
  OBVIOUS
<1>2. Joint(ws, n) = FlattenSeq(p)
  BY DEF Joint
<1> HIDE DEF p
<1>3. Len(p) = n
  BY <1>1, FunctionIsSequence
<1>4. WriteArray(p) = WriteArrayHead(n) \o Joint(ws, n)
  BY <1>2, <1>3 DEF WriteArray
<1> QED
  BY <1>4 DEF p

LEMMA PairIs ==
  ASSUME NEW u, NEW v
  PROVE  WriteArray(<<u, v>>) = WriteArrayHead(2) \o (u \o v)
<1> DEFINE p == <<u, v>>
<1>1. p = [i \in 1 .. 2 |-> p[i]] /\ p[1] = u /\ p[2] = v
  OBVIOUS
<1> HIDE DEF p
<1>2. Joint(p, 1) = u /\ Joint(p, 2) = u \o v
  <2>1. Joint(p, 1) = p[1] /\ \A k \in Nat : k # 0 => Joint(p, k + 1) = Joint(p, k) \o p[k + 1]
    BY JointSteps
  <2>2. Joint(p, 1 + 1) = Joint(p, 1) \o p[1 + 1] /\ 1 + 1 = 2
    BY <2>1
  <2> QED
    BY <1>1, <2>1, <2>2
<1>3. WriteArray(p) = WriteArrayHead(2) \o Joint(p, 2)
  BY <1>1, ArrayIs
<1>4. WriteArray(p) = WriteArrayHead(2) \o (u \o v)
  BY <1>1, <1>2, <1>3
<1> QED
  BY <1>4 DEF p

IsTriple(p, u, v, w) == p = <<u, v, w>>

LEMMA TripleIs ==
  ASSUME NEW p, NEW u, NEW v, NEW w, IsTriple(p, u, v, w)
  PROVE  WriteArray(p) = WriteArrayHead(3) \o ((u \o v) \o w)
<1>1. p = [i \in 1 .. 3 |-> p[i]] /\ p[1] = u /\ p[2] = v /\ p[3] = w
  BY DEF IsTriple
<1>2. Joint(p, 3) = (u \o v) \o w
  <2>1. Joint(p, 1) = p[1] /\ \A k \in Nat : k # 0 => Joint(p, k + 1) = Joint(p, k) \o p[k + 1]
    BY JointSteps
  <2>2. Joint(p, 1 + 1) = Joint(p, 1) \o p[1 + 1] /\ 1 + 1 = 2
    BY <2>1
  <2>3. Joint(p, 2 + 1) = Joint(p, 2) \o p[2 + 1] /\ 2 + 1 = 3
    BY <2>1
  <2> QED
    BY <1>1, <2>1, <2>2, <2>3
<1>3. WriteArray(p) = WriteArrayHead(3) \o Joint(p, 3)
  BY <1>1, ArrayIs
<1> QED
  BY <1>1, <1>2, <1>3

WriteFrontier(f) ==
  WriteMap([k \in DOMAIN f |-> WriteUint(f[k])], [k \in DOMAIN f |-> Hash(k)])

\* The keys of f in order are the n of s.
KeysOf(f, n, s) ==
  /\ n \in Nat /\ InOrder(DOMAIN f) = s /\ s = [i \in 1 .. n |-> s[i]]
  /\ \A i \in 1 .. n : s[i] \in DOMAIN f

\* A row of a table.
Row(key, number) == Hash(key) \o WriteUint(number)

LEMMA FrontierWritten ==
  ASSUME NEW f, NEW n, NEW s, KeysOf(f, n, s)
  PROVE  WriteFrontier(f)
           = WriteHead("map", n, 0) \o Joint([i \in 1 .. n |-> Row(s[i], f[s[i]])], n)
<1> USE DEF KeysOf
<1> DEFINE a == [k \in DOMAIN f |-> WriteUint(f[k])]
           b == [k \in DOMAIN f |-> Hash(k)]
           rows == [i \in 1 .. n |-> Row(s[i], f[s[i]])]
           p == [i \in DOMAIN s |-> b[s[i]] \o a[s[i]]]
<1>1. DOMAIN a = DOMAIN f
  OBVIOUS
<1>2. Len(s) = n /\ DOMAIN s = 1 .. n
  BY FunctionIsSequence
<1>3. p = [i \in 1 .. n |-> rows[i]]
  BY <1>2 DEF Row
<1> HIDE DEF a, b, rows
<1>4. FlattenSeq(p) = Joint(rows, n)
  BY <1>3 DEF Joint
<1> QED
  BY <1>1, <1>2, <1>4 DEF WriteFrontier, WriteMap, a, b, rows

-----------------------------------------------------------------------------
(***************************************************************************)
(* What is read of each value written is the value.                        *)
(***************************************************************************)

\* Where the items of s and those of t are in w.
Joined(w, s, t) ==
  /\ IsSequence(w) /\ Len(s) \in Nat /\ Len(t) \in Nat /\ Len(w) = Len(s) + Len(t)
  /\ \A i \in 1 .. Len(s) : w[i] = s[i]
  /\ \A i \in 1 .. Len(t) : w[Len(s) + i] = t[i]

LEMMA JoinAt ==
  ASSUME NEW s, NEW t, NEW w, IsSequence(s), IsSequence(t), w = s \o t
  PROVE  Joined(w, s, t)
<1>1. PICK S, T : s \in Seq(S) /\ t \in Seq(T)
  BY DEF IsSequence
<1> DEFINE all == S \cup T
<1>2. s \in Seq(all) /\ t \in Seq(all)
  BY <1>1, SeqMonotonic
<1> HIDE DEF all
<1>3. /\ Len(w) = Len(s) + Len(t) /\ Len(s) \in Nat /\ Len(t) \in Nat
      /\ \A i \in 1 .. Len(s) + Len(t) : w[i] = IF i <= Len(s) THEN s[i] ELSE t[i - Len(s)]
  BY <1>2, ConcatProperties, LenProperties
<1>4. \A i \in 1 .. Len(s) : w[i] = s[i]
  BY <1>3
<1>5. \A i \in 1 .. Len(t) : w[Len(s) + i] = t[i]
  <2> SUFFICES ASSUME NEW i \in 1 .. Len(t) PROVE w[Len(s) + i] = t[i]
    OBVIOUS
  <2>1. PICK n, k : n = Len(s) /\ k = n + i
    OBVIOUS
  <2>2. k \in 1 .. Len(s) + Len(t) /\ ~(k <= n) /\ k - n = i
    BY <1>3, <2>1
  <2> QED
    BY <1>3, <2>1, <2>2
<1>6. IsSequence(w)
  BY JoinIsSequence
<1> QED
  BY <1>3, <1>4, <1>5, <1>6 DEF Joined

\* One item, and what comes after it.
Prefixed(w, a, t) ==
  /\ IsSequence(w) /\ Len(t) \in Nat /\ Len(w) = Len(t) + 1
  /\ w[1] = a /\ \A i \in 1 .. Len(t) : w[i + 1] = t[i]

LEMMA ItemAhead ==
  ASSUME NEW a, NEW t, NEW w, IsSequence(t), w = <<a>> \o t
  PROVE  Prefixed(w, a, t)
<1>1. PICK s : s = <<a>>
  OBVIOUS
<1>2. IsSequence(s) /\ Len(s) = 1 /\ s[1] = a
  BY <1>1, OneIsSequence
<1>3. /\ IsSequence(w) /\ Len(t) \in Nat /\ Len(w) = Len(s) + Len(t)
      /\ \A i \in 1 .. Len(s) : w[i] = s[i]
      /\ \A i \in 1 .. Len(t) : w[Len(s) + i] = t[i]
  <2>1. IsSequence(s) /\ IsSequence(t) /\ w = s \o t
    BY <1>1, <1>2
  <2>2. Joined(w, s, t)
    BY ONLY <2>1, JoinAt
  <2> QED
    BY <2>2 DEF Joined
<1>4. \A i \in 1 .. Len(t) : w[i + 1] = t[i]
  <2>1. \A i \in 1 .. Len(t) : 1 + i = i + 1
    OBVIOUS
  <2> QED
    BY <1>2, <1>3, <2>1
<1>5. 1 \in 1 .. Len(s)
  BY <1>2
<1> QED
  BY <1>2, <1>3, <1>4, <1>5 DEF Prefixed

\* Parts of one item each.
LEMMA OnesJoin ==
  ASSUME NEW n \in Nat, NEW p, NEW x, \A i \in 1 .. n : p[i] = <<x[i]>>
  PROVE  IsSequence(Joint(p, n)) /\ Len(Joint(p, n)) = n /\ \A i \in 1 .. n : Joint(p, n)[i] = x[i]
<1> DEFINE Good(m) == /\ IsSequence(Joint(p, m)) /\ Len(Joint(p, m)) = m
                      /\ \A i \in 1 .. m : Joint(p, m)[i] = x[i]
           S == {m \in Nat : m <= n => Good(m)}
<1>1. 0 \in S
  BY JointSteps, EmptyIsSequence
<1>2. \A m \in Nat : m \in S /\ m < n => m + 1 \in S
  <2> SUFFICES ASSUME NEW m \in Nat, m \in S, m < n PROVE Good(m + 1)
    OBVIOUS
  <2>1. Good(m)
    OBVIOUS
  <2>2. p[m + 1] = <<x[m + 1]>>
    OBVIOUS
  <2>3. Joint(p, m + 1) = Joint(p, m) \o p[m + 1]
    <3>1. \A i \in 1 .. m + 1 : IsSequence(p[i])
      <4> SUFFICES ASSUME NEW i \in 1 .. m + 1 PROVE IsSequence(p[i])
        OBVIOUS
      <4>1. p[i] = <<x[i]>>
        OBVIOUS
      <4> QED
        BY <4>1, OneIsSequence
    <3> QED
      BY <3>1, JointNext
  <2>4. PICK a, b, c : a = Joint(p, m) /\ b = p[m + 1] /\ c = a \o b
    OBVIOUS
  <2>5. IsSequence(a) /\ IsSequence(b) /\ Len(a) = m /\ Len(b) = 1 /\ b[1] = x[m + 1]
        /\ \A i \in 1 .. m : a[i] = x[i]
    BY <2>1, <2>2, <2>4, OneIsSequence
  <2>6. /\ Len(c) = m + 1 /\ IsSequence(c)
        /\ \A i \in 1 .. m : c[i] = a[i]
        /\ c[m + 1] = b[1]
    <3>1. /\ Len(c) = Len(a) + Len(b)
          /\ \A i \in 1 .. Len(a) : c[i] = a[i]
          /\ \A i \in 1 .. Len(b) : c[Len(a) + i] = b[i]
      <4>1. IsSequence(a) /\ IsSequence(b) /\ c = a \o b
        BY <2>4, <2>5
      <4>2. Joined(c, a, b)
        BY ONLY <4>1, JoinAt
      <4> QED
        BY <4>2 DEF Joined
    <3>2. 1 \in 1 .. Len(b)
      BY <2>5
    <3> QED
      BY <2>4, <2>5, <3>1, <3>2, JoinIsSequence
  <2>7. \A i \in 1 .. m + 1 : c[i] = x[i]
    <3> SUFFICES ASSUME NEW i \in 1 .. m + 1 PROVE c[i] = x[i]
      OBVIOUS
    <3>1. i = m + 1 \/ i \in 1 .. m
      OBVIOUS
    <3> QED
      BY <2>5, <2>6, <3>1
  <2> QED
    BY <2>3, <2>4, <2>6, <2>7
<1> HIDE DEF S, Good
<1>3. n \in S
  BY <1>1, <1>2, CountsUp
<1> QED
  BY <1>3 DEF S, Good

\* Parts of two items each.
Twos(p, x, y, n) == \A i \in 1 .. n : p[i] = <<x[i]>> \o <<y[i]>>

LEMMA PairsJoin ==
  ASSUME NEW n \in Nat, NEW p, NEW x, NEW y, Twos(p, x, y, n)
  PROVE  /\ IsSequence(Joint(p, n)) /\ Len(Joint(p, n)) = 2 * n
         /\ \A i \in 1 .. n : Joint(p, n)[2 * i - 1] = x[i] /\ Joint(p, n)[2 * i] = y[i]
<1> DEFINE Good(m) ==
             /\ IsSequence(Joint(p, m)) /\ Len(Joint(p, m)) = 2 * m
             /\ \A i \in 1 .. m : Joint(p, m)[2 * i - 1] = x[i] /\ Joint(p, m)[2 * i] = y[i]
           S == {m \in Nat : m <= n => Good(m)}
<1>0. \A i \in 1 .. n : IsSequence(p[i]) /\ Len(p[i]) = 2 /\ p[i][1] = x[i] /\ p[i][2] = y[i]
  <2> SUFFICES ASSUME NEW i \in 1 .. n
               PROVE  IsSequence(p[i]) /\ Len(p[i]) = 2 /\ p[i][1] = x[i] /\ p[i][2] = y[i]
    OBVIOUS
  <2>1. PICK b : b = p[i]
    OBVIOUS
  <2>2. b = <<x[i], y[i]>>
    BY <2>1, JoinTwo DEF Twos
  <2>3. b = [j \in 1 .. 2 |-> b[j]] /\ b[1] = x[i] /\ b[2] = y[i]
    BY <2>2
  <2>4. IsSequence(b) /\ Len(b) = 2
    BY <2>3, FunctionIsSequence
  <2> QED
    BY <2>1, <2>3, <2>4
<1>1. 0 \in S
  BY JointSteps, EmptyIsSequence
<1>2. \A m \in Nat : m \in S /\ m < n => m + 1 \in S
  <2> SUFFICES ASSUME NEW m \in Nat, m \in S, m < n PROVE Good(m + 1)
    OBVIOUS
  <2>1. Good(m)
    OBVIOUS
  <2>2. m + 1 \in 1 .. n
    OBVIOUS
  <2>3. Joint(p, m + 1) = Joint(p, m) \o p[m + 1]
    <3>1. \A i \in 1 .. m + 1 : IsSequence(p[i])
      BY <1>0
    <3> QED
      BY <3>1, JointNext
  <2>4. PICK a, b, c : a = Joint(p, m) /\ b = p[m + 1] /\ c = a \o b
    OBVIOUS
  <2>5. IsSequence(a) /\ IsSequence(b) /\ Len(a) = 2 * m /\ Len(b) = 2
        /\ b[1] = x[m + 1] /\ b[2] = y[m + 1]
        /\ \A i \in 1 .. m : a[2 * i - 1] = x[i] /\ a[2 * i] = y[i]
    BY <1>0, <2>1, <2>2, <2>4
  <2>6. /\ Len(c) = 2 * m + 2 /\ IsSequence(c)
        /\ \A i \in 1 .. 2 * m : c[i] = a[i]
        /\ c[2 * m + 1] = b[1] /\ c[2 * m + 2] = b[2]
    <3>1. /\ Len(c) = Len(a) + Len(b)
          /\ \A i \in 1 .. Len(a) : c[i] = a[i]
          /\ \A i \in 1 .. Len(b) : c[Len(a) + i] = b[i]
      <4>1. IsSequence(a) /\ IsSequence(b) /\ c = a \o b
        BY <2>4, <2>5
      <4>2. Joined(c, a, b)
        BY ONLY <4>1, JoinAt
      <4> QED
        BY <4>2 DEF Joined
    <3>2. 1 \in 1 .. Len(b) /\ 2 \in 1 .. Len(b)
      BY <2>5
    <3> QED
      BY <2>4, <2>5, <3>1, <3>2, JoinIsSequence
  <2>7. \A i \in 1 .. m + 1 : c[2 * i - 1] = x[i] /\ c[2 * i] = y[i]
    <3> SUFFICES ASSUME NEW i \in 1 .. m + 1
                 PROVE  c[2 * i - 1] = x[i] /\ c[2 * i] = y[i]
      OBVIOUS
    <3>1. CASE i = m + 1
      <4>1. 2 * i - 1 = 2 * m + 1 /\ 2 * i = 2 * m + 2
        BY <3>1
      <4> QED
        BY <2>5, <2>6, <3>1, <4>1
    <3>2. CASE i \in 1 .. m
      <4>1. 2 * i - 1 \in 1 .. 2 * m /\ 2 * i \in 1 .. 2 * m
        BY <3>2
      <4> QED
        BY <2>5, <2>6, <3>2, <4>1
    <3> QED
      BY <3>1, <3>2
  <2>8. 2 * (m + 1) = 2 * m + 2
    OBVIOUS
  <2> QED
    BY <2>3, <2>4, <2>6, <2>7, <2>8
<1> HIDE DEF S, Good
<1>3. n \in S
  BY <1>1, <1>2, CountsUp
<1> QED
  BY <1>3 DEF S, Good

LEMMA IntBack ==
  ASSUME NEW i \in Int
  PROVE  WriteInt(i) = <<WriteInt(i)[1]>> /\ IntIn(WriteInt(i)[1]) = i
<1>1. CASE i >= 0
  <2>1. PICK item : item = Item("uint", Shortest(i), i, 0)
    OBVIOUS
  <2>2. WriteInt(i) = <<item>> /\ item.major = "uint" /\ item.arg = i
    BY <1>1, <2>1 DEF WriteInt, WriteUint, WriteHead, Item
  <2>3. IntIn(item) = i
    BY <2>2 DEF IntIn
  <2> QED
    BY <2>2, <2>3
<1>2. CASE ~(i >= 0)
  <2>1. PICK item : item = Item("negint", Shortest(-1 - i), -1 - i, 0)
    OBVIOUS
  <2>2. WriteInt(i) = <<item>> /\ item.major = "negint" /\ item.arg = -1 - i
    BY <1>2, <2>1 DEF WriteInt, WriteHead, Item
  <2>3. IntIn(item) = -1 - (-1 - i)
    BY <2>2 DEF IntIn
  <2> QED
    BY <2>2, <2>3
<1> QED
  BY <1>1, <1>2

\* One item each.
LEMMA OneItem ==
  /\ \A n : WriteUint(n) = <<WriteUint(n)[1]>> /\ WriteUint(n)[1].arg = n
  /\ \A length, rank : /\ WriteBytes(length, rank) = <<WriteBytes(length, rank)[1]>>
                       /\ WriteBytes(length, rank)[1].arg = length
                       /\ WriteBytes(length, rank)[1].content = rank
  /\ \A rank : Hash(rank) = <<Hash(rank)[1]>> /\ Hash(rank)[1].content = rank
  /\ \A rank : /\ WriteText(rank, rank) = <<WriteText(rank, rank)[1]>>
               /\ WriteText(rank, rank)[1].content = rank
  /\ \A n : WriteArrayHead(n) = <<WriteArrayHead(n)[1]>>
  BY DEF WriteUint, WriteBytes, WriteText, WriteArrayHead, Hash, WriteHead, Item

\* An array of single items, of two and of three.
LEMMA TwoBack ==
  ASSUME NEW u, NEW v, u = <<u[1]>>, v = <<v[1]>>
  PROVE  WriteArray(<<u, v>>)[2] = u[1] /\ WriteArray(<<u, v>>)[3] = v[1]
<1>1. PICK a : a = WriteArrayHead(2)[1] /\ WriteArrayHead(2) = <<a>>
  BY OneItem
<1>2. WriteArray(<<u, v>>) = <<a>> \o (u \o v)
  BY <1>1, PairIs
<1>3. PICK t, w : t = u \o v /\ w = <<a>> \o t
  OBVIOUS
<1>4. t = <<u[1], v[1]>>
  BY <1>3, JoinTwo
<1>5. t = [i \in 1 .. 2 |-> t[i]] /\ t[1] = u[1] /\ t[2] = v[1]
  BY <1>4
<1>6. IsSequence(t) /\ Len(t) = 2
  BY <1>5, FunctionIsSequence
<1>7. \A i \in 1 .. 2 : w[i + 1] = t[i]
  <2>1. Prefixed(w, a, t)
    BY <1>3, <1>6, ItemAhead
  <2> QED
    BY <1>6, <2>1 DEF Prefixed
<1>8. w[1 + 1] = t[1] /\ w[2 + 1] = t[2] /\ 1 + 1 = 2 /\ 2 + 1 = 3
  BY <1>7
<1> QED
  BY <1>2, <1>3, <1>5, <1>8

LEMMA ThreeBack ==
  ASSUME NEW u, NEW v, NEW w, u = <<u[1]>>, v = <<v[1]>>, w = <<w[1]>>
  PROVE  /\ WriteArray(<<u, v, w>>)[2] = u[1] /\ WriteArray(<<u, v, w>>)[3] = v[1]
         /\ WriteArray(<<u, v, w>>)[4] = w[1]
<1>1. PICK a : a = WriteArrayHead(3)[1] /\ WriteArrayHead(3) = <<a>>
  BY OneItem
<1>2. WriteArray(<<u, v, w>>) = <<a>> \o ((u \o v) \o w)
  <2>1. PICK p : p = <<u, v, w>>
    OBVIOUS
  <2>2. IsTriple(p, u, v, w)
    BY <2>1 DEF IsTriple
  <2>3. WriteArray(p) = WriteArrayHead(3) \o ((u \o v) \o w)
    BY ONLY <2>2, TripleIs
  <2> QED
    BY <1>1, <2>1, <2>3
<1>3. PICK s, t, x : s = u \o v /\ t = s \o w /\ x = <<a>> \o t
  OBVIOUS
<1>4. s = <<u[1], v[1]>>
  BY <1>3, JoinTwo
<1>5. s = [i \in 1 .. 2 |-> s[i]] /\ s[1] = u[1] /\ s[2] = v[1]
  BY <1>4
<1>6. IsSequence(s) /\ Len(s) = 2 /\ IsSequence(w) /\ Len(w) = 1
  BY <1>5, FunctionIsSequence, OneIsSequence
<1>7. IsSequence(t) /\ Len(t) = 3 /\ t[1] = s[1] /\ t[2] = s[2] /\ t[3] = w[1]
  <2>1. Joined(t, s, w)
    BY <1>3, <1>6, JoinAt
  <2>2. /\ IsSequence(t) /\ Len(t) = 2 + 1 /\ (\A i \in 1 .. 2 : t[i] = s[i])
        /\ \A i \in 1 .. 1 : t[2 + i] = w[i]
    BY <1>6, <2>1 DEF Joined
  <2>3. t[2 + 1] = w[1]
    BY <2>2
  <2> QED
    BY <2>2, <2>3
<1>8. \A i \in 1 .. 3 : x[i + 1] = t[i]
  <2>1. Prefixed(x, a, t)
    BY <1>3, <1>7, ItemAhead
  <2> QED
    BY <1>7, <2>1 DEF Prefixed
<1>9. /\ x[1 + 1] = t[1] /\ x[2 + 1] = t[2] /\ x[3 + 1] = t[3]
      /\ 1 + 1 = 2 /\ 2 + 1 = 3 /\ 3 + 1 = 4
  BY <1>8
<1> QED
  BY <1>2, <1>3, <1>5, <1>7, <1>9

LEMMA HlcBack ==
  ASSUME NEW h \in AnyHlc
  PROVE  HlcIn(WriteHlc(h)) = h
<1>1. PICK u, v : u = WriteUint(h.wall_ms) /\ v = WriteUint(h.counter)
  OBVIOUS
<1>2. u = <<u[1]>> /\ v = <<v[1]>> /\ u[1].arg = h.wall_ms /\ v[1].arg = h.counter
  BY <1>1, OneItem
<1>3. PICK w : w = WriteArray(<<u, v>>)
  OBVIOUS
<1>4. w[2] = u[1] /\ w[3] = v[1]
  BY <1>2, <1>3, TwoBack
<1>5. WriteHlc(h) = w
  BY <1>1, <1>3 DEF WriteHlc
<1>6. h = [wall_ms |-> h.wall_ms, counter |-> h.counter]
  BY DEF AnyHlc
<1> QED
  BY <1>2, <1>4, <1>5, <1>6 DEF HlcIn

LEMMA SignedAreInts ==
  ASSUME NEW most
  PROVE  Signed(most) \subseteq Int
<1> SUFFICES ASSUME NEW i \in Signed(most) PROVE i \in Int
  OBVIOUS
<1>1. \A n \in UpTo(most) : n \in Int /\ -1 - n \in Int
  BY NumbersAreNatural DEF UpTo
<1>2. i \in UpTo(most) \/ \E n \in UpTo(most) : i = -1 - n
  BY DEF Signed
<1> QED
  BY <1>1, <1>2

LEMMA GeoBack ==
  ASSUME NEW g \in AnyGeo
  PROVE  GeoIn(WriteGeo(g)) = g
<1>1. g.lat_udeg \in Int /\ g.lon_udeg \in Int
  BY SignedAreInts DEF AnyGeo
<1>2. PICK u, v, x : u = WriteInt(g.lat_udeg) /\ v = WriteInt(g.lon_udeg) /\ x = WriteUint(g.acc_mm)
  OBVIOUS
<1>3. /\ u = <<u[1]>> /\ v = <<v[1]>> /\ x = <<x[1]>>
      /\ IntIn(u[1]) = g.lat_udeg /\ IntIn(v[1]) = g.lon_udeg /\ x[1].arg = g.acc_mm
  BY <1>1, <1>2, IntBack, OneItem
<1>4. PICK w : w = WriteArray(<<u, v, x>>)
  OBVIOUS
<1>5. w[2] = u[1] /\ w[3] = v[1] /\ w[4] = x[1]
  BY <1>3, <1>4, ThreeBack
<1>6. WriteGeo(g) = w
  BY <1>2, <1>4 DEF WriteGeo
<1>7. g = [lat_udeg |-> g.lat_udeg, lon_udeg |-> g.lon_udeg, acc_mm |-> g.acc_mm]
  BY DEF AnyGeo
<1> QED
  BY <1>3, <1>5, <1>6, <1>7 DEF GeoIn

LEMMA PrevBack ==
  ASSUME NEW p
  PROVE  PrevIn(WritePrev(p)) = p
<1>1. CASE p = None
  <2>1. WritePrev(p)[1].arg = 0
    BY <1>1, OneItem DEF WritePrev
  <2> QED
    BY <1>1, <2>1 DEF PrevIn
<1>2. CASE p # None
  <2>1. WritePrev(p)[1].arg = 32 /\ WritePrev(p)[1].content = p
    BY <1>2, OneItem DEF WritePrev, Hash
  <2> QED
    BY <2>1 DEF PrevIn
<1> QED
  BY <1>1, <1>2

LEMMA EntryBack ==
  ASSUME NEW e \in AnyEntry
  PROVE  EntryIn(WriteForkEntry(e)) = e
<1>1. PICK u, v : /\ u = WriteBytes(e.preimage.length, e.preimage.rank)
                  /\ v = WriteBytes(64, e.sig)
  OBVIOUS
<1>2. /\ u = <<u[1]>> /\ v = <<v[1]>> /\ u[1].arg = e.preimage.length
      /\ u[1].content = e.preimage.rank /\ v[1].content = e.sig
  BY <1>1, OneItem
<1>3. PICK w : w = WriteArray(<<u, v>>)
  OBVIOUS
<1>4. w[2] = u[1] /\ w[3] = v[1]
  BY <1>2, <1>3, TwoBack
<1>5. WriteForkEntry(e) = w
  BY <1>1, <1>3 DEF WriteForkEntry
<1>6. e = [preimage |-> [length |-> e.preimage.length, rank |-> e.preimage.rank], sig |-> e.sig]
  BY DEF AnyEntry
<1> QED
  BY <1>2, <1>4, <1>5, <1>6 DEF EntryIn

\* The items of a list of hashes.
LEMMA HashesAt ==
  ASSUME NEW n \in Nat, NEW s, DOMAIN s = 1 .. n, NEW w, w = Hashes(s)
  PROVE  Len(w) = n + 1 /\ \A i \in 1 .. n : w[i + 1].content = s[i]
<1>1. PICK ws : ws = [i \in 1 .. n |-> Hash(s[i])]
  OBVIOUS
<1>2. w = WriteArrayHead(n) \o Joint(ws, n)
  <2>1. w = WriteArray([i \in 1 .. n |-> ws[i]])
    BY <1>1 DEF Hashes
  <2> QED
    BY <2>1, ArrayIs
<1>3. PICK x : x = [i \in 1 .. n |-> Hash(s[i])[1]]
  OBVIOUS
<1>4. \A i \in 1 .. n : ws[i] = <<x[i]>> /\ x[i].content = s[i]
  BY <1>1, <1>3, OneItem
<1>5. PICK t : t = Joint(ws, n)
  OBVIOUS
<1>6. IsSequence(t) /\ Len(t) = n /\ \A i \in 1 .. n : t[i] = x[i]
  BY <1>4, <1>5, OnesJoin
<1>7. PICK a : WriteArrayHead(n) = <<a>>
  BY OneItem
<1>8. Len(w) = Len(t) + 1 /\ \A i \in 1 .. Len(t) : w[i + 1] = t[i]
  <2>1. IsSequence(t) /\ w = <<a>> \o t
    BY <1>2, <1>5, <1>6, <1>7
  <2>2. Prefixed(w, a, t)
    BY ONLY <2>1, ItemAhead
  <2> QED
    BY <2>2 DEF Prefixed
<1> QED
  BY <1>4, <1>6, <1>8

LEMMA HashesBack ==
  ASSUME NEW s \in Seq(Rank)
  PROVE  HashesIn(Hashes(s)) = s
<1>1. PICK n, w : n = Len(s) /\ w = Hashes(s)
  OBVIOUS
<1>2. n \in Nat /\ DOMAIN s = 1 .. n /\ s = [i \in 1 .. n |-> s[i]]
  BY <1>1, LenProperties
<1>3. Len(w) = n + 1 /\ \A i \in 1 .. n : w[i + 1].content = s[i]
  BY <1>1, <1>2, HashesAt
<1>4. 1 .. Len(w) - 1 = 1 .. n
  BY <1>2, <1>3
<1>5. HashesIn(w) = [i \in 1 .. n |-> w[i + 1].content]
  BY <1>4 DEF HashesIn
<1> QED
  BY <1>1, <1>2, <1>3, <1>5

LEMMA AcksBack ==
  ASSUME NEW S \in SUBSET Rank
  PROVE  AcksIn(Hashes(InOrder(S))) = S
<1>1. S \in SUBSET Nat /\ IsFiniteSet(S)
  BY CodecAssumption, FS_Subset
<1>2. PICK n, s, w : n = Cardinality(S) /\ s = InOrder(S) /\ w = Hashes(s)
  OBVIOUS
<1>3. /\ n \in Nat /\ DOMAIN s = 1 .. n /\ (\A i \in 1 .. n : s[i] \in S)
      /\ \A k \in S : \E i \in 1 .. n : s[i] = k
  BY <1>1, <1>2, OrderAscends
<1>4. Len(w) = n + 1 /\ \A i \in 1 .. n : w[i + 1].content = s[i]
  BY <1>2, <1>3, HashesAt
<1>5. 1 .. Len(w) - 1 = 1 .. n
  BY <1>3, <1>4
<1>6. HashesIn(w) = [i \in 1 .. n |-> w[i + 1].content]
  BY <1>5 DEF HashesIn
<1>7. \A i \in 1 .. n : HashesIn(w)[i] = s[i]
  BY <1>4, <1>6
<1>8. AcksIn(w) = {HashesIn(w)[i] : i \in 1 .. n}
  BY <1>5 DEF AcksIn
<1>9. AcksIn(w) = S
  BY <1>3, <1>7, <1>8
<1> QED
  BY <1>2, <1>9

\* The items of a table: a key and a number in turn.
RowItems(w, s, c, n) ==
  Len(w) = 2 * n + 1 /\ \A i \in 1 .. n : w[2 * i].content = s[i] /\ w[2 * i + 1].arg = c[i]

IsRows(ws, s, c, n) == ws = [i \in 1 .. n |-> Row(s[i], c[i])]

LEMMA RowsAt ==
  ASSUME NEW n \in Nat, NEW s, NEW c, NEW ws, IsRows(ws, s, c, n), NEW w,
         w = WriteHead("map", n, 0) \o Joint(ws, n)
  PROVE  RowItems(w, s, c, n)
<1>1. ws = [i \in 1 .. n |-> Row(s[i], c[i])]
  BY DEF IsRows
<1>2. PICK x : x = [i \in 1 .. n |-> Hash(s[i])[1]]
  OBVIOUS
<1>3. PICK y : y = [i \in 1 .. n |-> WriteUint(c[i])[1]]
  OBVIOUS
<1>4. \A i \in 1 .. n : x[i].content = s[i] /\ y[i].arg = c[i]
  BY <1>2, <1>3, OneItem
<1>5. \A i \in 1 .. n : ws[i] = <<x[i]>> \o <<y[i]>>
  <2> SUFFICES ASSUME NEW i \in 1 .. n PROVE ws[i] = <<x[i]>> \o <<y[i]>>
    OBVIOUS
  <2>1. Hash(s[i]) = <<x[i]>> /\ WriteUint(c[i]) = <<y[i]>>
    BY <1>2, <1>3, OneItem
  <2> QED
    BY <1>1, <2>1 DEF Row
<1>6. PICK t : t = Joint(ws, n)
  OBVIOUS
<1>7. /\ IsSequence(t) /\ Len(t) = 2 * n
      /\ \A i \in 1 .. n : t[2 * i - 1] = x[i] /\ t[2 * i] = y[i]
  <2>1. Twos(ws, x, y, n)
    BY <1>5 DEF Twos
  <2> QED
    BY <1>6, <2>1, PairsJoin
<1>8. PICK a : WriteHead("map", n, 0) = <<a>>
  BY DEF WriteHead
<1>9. Len(w) = Len(t) + 1 /\ \A i \in 1 .. Len(t) : w[i + 1] = t[i]
  <2>1. IsSequence(t) /\ w = <<a>> \o t
    BY <1>1, <1>6, <1>7, <1>8
  <2>2. Prefixed(w, a, t)
    BY ONLY <2>1, ItemAhead
  <2> QED
    BY <2>2 DEF Prefixed
<1>10. \A i \in 1 .. n : w[2 * i] = x[i] /\ w[2 * i + 1] = y[i]
  <2> SUFFICES ASSUME NEW i \in 1 .. n PROVE w[2 * i] = x[i] /\ w[2 * i + 1] = y[i]
    OBVIOUS
  <2>1. PICK j, k : j = 2 * i - 1 /\ k = 2 * i
    OBVIOUS
  <2>2. j \in 1 .. Len(t) /\ k \in 1 .. Len(t) /\ j + 1 = k
    BY <1>7, <2>1
  <2>3. t[j] = x[i] /\ t[k] = y[i] /\ w[j + 1] = t[j] /\ w[k + 1] = t[k]
    BY <1>7, <1>9, <2>1, <2>2
  <2> QED
    BY <2>1, <2>2, <2>3
<1> QED
  BY <1>4, <1>7, <1>9, <1>10 DEF RowItems

LEMMA FrontierBack ==
  ASSUME NEW f \in AnyFrontier
  PROVE  FrontierIn(WriteFrontier(f)) = f
<1>1. DOMAIN f \in SUBSET Rank /\ f = [k \in DOMAIN f |-> f[k]]
  BY DEF AnyFrontier
<1>2. DOMAIN f \in SUBSET Nat /\ IsFiniteSet(DOMAIN f)
  BY <1>1, CodecAssumption, FS_Subset
<1>3. PICK n, s, w : n = Cardinality(DOMAIN f) /\ s = InOrder(DOMAIN f) /\ w = WriteFrontier(f)
  OBVIOUS
<1>4. /\ n \in Nat /\ s = [i \in 1 .. n |-> s[i]] /\ (\A i \in 1 .. n : s[i] \in DOMAIN f)
      /\ (\A i, j \in 1 .. n : i < j => s[i] < s[j])
      /\ \A k \in DOMAIN f : \E i \in 1 .. n : s[i] = k
  BY <1>2, <1>3, OrderAscends
<1>6. PICK c : c = [i \in 1 .. n |-> f[s[i]]]
  OBVIOUS
<1>7. PICK ws : IsRows(ws, s, c, n) /\ w = WriteHead("map", n, 0) \o Joint(ws, n)
  <2>1. KeysOf(f, n, s)
    BY <1>3, <1>4 DEF KeysOf
  <2>2. w = WriteHead("map", n, 0) \o Joint([i \in 1 .. n |-> Row(s[i], f[s[i]])], n)
    BY <1>3, <2>1, FrontierWritten
  <2>3. [i \in 1 .. n |-> Row(s[i], f[s[i]])] = [i \in 1 .. n |-> Row(s[i], c[i])]
    BY <1>6
  <2> QED
    BY <2>2, <2>3 DEF IsRows
<1>8. Len(w) = 2 * n + 1 /\ \A i \in 1 .. n : w[2 * i].content = s[i] /\ w[2 * i + 1].arg = c[i]
  <2>1. n \in Nat /\ IsRows(ws, s, c, n) /\ w = WriteHead("map", n, 0) \o Joint(ws, n)
    BY <1>4, <1>7
  <2>2. RowItems(w, s, c, n)
    BY ONLY <2>1, RowsAt
  <2> QED
    BY <2>2 DEF RowItems
<1> DEFINE rows == 1 .. Len(w) \div 2
           N(k) == CHOOSE i \in rows : w[2 * i].content = k
           K == {w[2 * i].content : i \in rows}
           g(k) == w[2 * N(k) + 1].arg
<1>9. FrontierIn(w) = [k \in K |-> g(k)]
  BY Zenon DEF FrontierIn
<1>10. rows = 1 .. n
  <2>1. (2 * n + 1) \div 2 = n
    BY <1>4
  <2> QED
    BY <1>8, <2>1
<1> HIDE DEF rows
<1>11. K = DOMAIN f
  <2>1. \A i \in rows : w[2 * i].content = s[i] /\ s[i] \in DOMAIN f
    BY <1>4, <1>8, <1>10
  <2>2. \A k \in DOMAIN f : \E i \in rows : k = s[i]
    BY <1>4, <1>10
  <2>3. \A k \in DOMAIN f : k \in K
    <3> SUFFICES ASSUME NEW k \in DOMAIN f PROVE k \in K
      OBVIOUS
    <3>1. PICK i \in rows : k = s[i]
      BY <2>2
    <3>2. k = w[2 * i].content
      BY <2>1, <3>1
    <3> QED
      BY <3>2
  <2>4. \A k \in K : k \in DOMAIN f
    BY <2>1
  <2> QED
    BY <2>3, <2>4
<1>12. \A k \in K : g(k) = f[k]
  <2> SUFFICES ASSUME NEW k \in K PROVE g(k) = f[k]
    OBVIOUS
  <2>1. PICK j : j = N(k)
    OBVIOUS
  <2>2. j \in rows /\ w[2 * j].content = k
    BY <2>1
  <2>3. s[j] = k /\ w[2 * j + 1].arg = f[s[j]]
    BY <1>6, <1>8, <1>10, <2>2
  <2>4. g(k) = w[2 * j + 1].arg
    BY <2>1
  <2> QED
    BY <2>3, <2>4
<1> HIDE DEF K, g
<1>13. FrontierIn(w) = [k \in DOMAIN f |-> f[k]]
  BY <1>9, <1>11, <1>12
<1> QED
  BY <1>1, <1>3, <1>13

\* The fields 1 .. n, of which all but the last are single items.
Singles(F, n) ==
  /\ n \in Nat /\ n # 0 /\ F = [k \in 1 .. n |-> F[k]]
  /\ (\A i \in 1 .. n - 1 : F[i] = <<F[i][1]>>) /\ IsSequence(F[n])

\* Where they are among the items of a body.
BodyItems(w, v, F, n) ==
  /\ w[2].arg = v /\ w[3].arg = n
  /\ \A i \in 1 .. n - 1 : w[2 * i + 3] = F[i][1]
  /\ \A j \in 1 .. Len(F[n]) : w[2 * n + 2 + j] = F[n][j]

LEMMA BodyAt ==
  ASSUME NEW n, NEW F, Singles(F, n), NEW v, NEW w, w = WriteArray(<<WriteUint(v), WriteFields(F)>>)
  PROVE  BodyItems(w, v, F, n)
<1>1. /\ n \in Nat /\ n # 0 /\ F = [k \in 1 .. n |-> F[k]] /\ DOMAIN F = 1 .. n
      /\ (\A i \in 1 .. n - 1 : F[i] = <<F[i][1]>>) /\ IsSequence(F[n])
  BY DEF Singles
<1>2. PICK q : q = [i \in 1 .. n |-> <<Head1(i)>> \o F[i]]
  OBVIOUS
<1>3. WriteFields(F) = WriteHead("map", n, 0) \o Joint(q, n)
  <2>1. /\ 1 .. n \in SUBSET Nat /\ IsFiniteSet(1 .. n) /\ Cardinality(1 .. n) = n
        /\ \A i \in 1 .. n : InOrder(1 .. n)[i] = i
    BY <1>1, InOrderUpTo
  <2> DEFINE heads == [k \in DOMAIN F |-> Head1(k)]
             p == FieldParts(heads, F)
  <2>2. WriteFields(F) = WriteHead("map", n, 0) \o Body(heads, F)
    BY <1>1, <2>1, FieldsWritten
  <2>3. \A i \in 1 .. n : p[i] = q[i]
    BY <1>1, <1>2, <2>1 DEF FieldParts
  <2>4. Body(heads, F) = Joint(p, n)
    BY <1>1, <2>1 DEF Body
  <2> HIDE DEF p, heads
  <2>5. Joint(p, n) = Joint(q, n)
    BY <1>1, <2>3, JointEqual
  <2> QED
    BY <2>2, <2>4, <2>5
<1>4. PICK m, front, last, all : /\ m = n - 1 /\ front = Joint(q, m) /\ last = q[n]
                                 /\ all = Joint(q, n)
  OBVIOUS
<1>5. m \in Nat /\ m + 1 = n
  BY <1>1, <1>4
<1>6. /\ IsSequence(front) /\ Len(front) = 2 * m
      /\ \A i \in 1 .. m : front[2 * i] = F[i][1]
  <2>1. PICK x : x = [i \in 1 .. m |-> Head1(i)]
    OBVIOUS
  <2>2. PICK y : y = [i \in 1 .. m |-> F[i][1]]
    OBVIOUS
  <2>3. Twos(q, x, y, m)
    <3> SUFFICES ASSUME NEW i \in 1 .. m PROVE q[i] = <<x[i]>> \o <<y[i]>>
      BY DEF Twos
    <3>9. i \in 1 .. n - 1 /\ i \in 1 .. n
      BY <1>4, <1>5
    <3>1. F[i] = <<F[i][1]>> /\ q[i] = <<Head1(i)>> \o F[i]
      BY <1>1, <1>2, <3>9
    <3>2. x[i] = Head1(i) /\ y[i] = F[i][1]
      BY <2>1, <2>2
    <3> QED
      BY <3>1, <3>2
  <2>4. /\ IsSequence(Joint(q, m)) /\ Len(Joint(q, m)) = 2 * m
        /\ \A i \in 1 .. m : Joint(q, m)[2 * i - 1] = x[i] /\ Joint(q, m)[2 * i] = y[i]
    BY <1>5, <2>3, PairsJoin
  <2> QED
    BY <1>4, <2>2, <2>4
<1>7. /\ IsSequence(last) /\ Len(F[n]) \in Nat /\ Len(last) = Len(F[n]) + 1
      /\ \A j \in 1 .. Len(F[n]) : last[j + 1] = F[n][j]
  <2>1. PICK t : t = F[n]
    OBVIOUS
  <2>2. PICK h : h = Head1(n)
    OBVIOUS
  <2>3. IsSequence(t) /\ last = <<h>> \o t
    BY <1>1, <1>2, <1>4, <2>1, <2>2
  <2>4. Prefixed(last, h, t)
    BY ONLY <2>3, ItemAhead
  <2> QED
    BY <2>1, <2>4 DEF Prefixed
<1>8. all = front \o last
  <2>1. \A i \in 1 .. m + 1 : IsSequence(q[i])
    <3> SUFFICES ASSUME NEW i \in 1 .. m + 1 PROVE IsSequence(q[i])
      OBVIOUS
    <3>1. CASE i = n
      BY <1>4, <1>7, <3>1
    <3>2. CASE i # n
      <4>1. i \in 1 .. n - 1 /\ i \in 1 .. n
        BY <1>1, <1>5, <3>2
      <4>2. F[i] = <<F[i][1]>> /\ q[i] = <<Head1(i)>> \o F[i]
        BY <1>1, <1>2, <4>1
      <4> QED
        BY <4>2, OneIsSequence, JoinIsSequence
    <3> QED
      BY <3>1, <3>2
  <2>2. Joint(q, m + 1) = Joint(q, m) \o q[m + 1]
    BY <1>5, <2>1, JointNext
  <2> QED
    BY <1>4, <1>5, <2>2
<1>9. /\ IsSequence(all) /\ Len(all) = 2 * m + Len(last)
      /\ (\A i \in 1 .. Len(front) : all[i] = front[i])
      /\ \A i \in 1 .. Len(last) : all[2 * m + i] = last[i]
  <2>1. IsSequence(front) /\ IsSequence(last) /\ all = front \o last
    BY <1>6, <1>7, <1>8
  <2>2. Joined(all, front, last)
    BY ONLY <2>1, JoinAt
  <2> QED
    BY <1>6, <2>2 DEF Joined
<1> DEFINE size == Len(all)
           most == Len(last)
           more == Len(F[n])
<1>20. /\ m \in Nat /\ n = m + 1 /\ more \in Nat /\ most = more + 1 /\ size = 2 * m + most
      /\ size \in Nat /\ most \in Nat
  <2>1. m \in Nat /\ n = m + 1
    BY <1>5
  <2>2. more \in Nat /\ most = more + 1
    BY <1>7
  <2>3. size = 2 * m + most
    BY <1>9
  <2> HIDE DEF size, most, more
  <2> QED
    BY <2>1, <2>2, <2>3
<1>10. PICK a, b, c, y, z :
         /\ WriteArrayHead(2) = <<a>> /\ WriteUint(v) = <<b>> /\ b.arg = v
         /\ c = Item("map", Shortest(n), n, 0) /\ y = <<c>> \o all /\ z = <<b>> \o y
  <2>1. PICK a, b : a = WriteArrayHead(2)[1] /\ b = WriteUint(v)[1]
    OBVIOUS
  <2>2. WriteArrayHead(2) = <<a>> /\ WriteUint(v) = <<b>> /\ b.arg = v
    BY <2>1, OneItem
  <2> QED
    BY <2>2
<1>11. w = <<a>> \o z
  <2>1. y = WriteFields(F)
    BY <1>3, <1>4, <1>10 DEF WriteHead
  <2>2. PICK u : u = WriteUint(v)
    OBVIOUS
  <2>3. w = WriteArray(<<u, y>>)
    BY <2>1, <2>2
  <2>4. w = WriteArrayHead(2) \o (u \o y)
    BY <2>3, PairIs
  <2> QED
    BY <1>10, <2>2, <2>4
<1>12. IsSequence(y) /\ y[1] = c /\ Len(y) = Len(all) + 1 /\ \A i \in 1 .. Len(all) : y[i + 1] = all[i]
  <2>1. IsSequence(all) /\ y = <<c>> \o all
    BY <1>9, <1>10
  <2>2. Prefixed(y, c, all)
    BY ONLY <2>1, ItemAhead
  <2> QED
    BY <2>2 DEF Prefixed
<1>13. IsSequence(z) /\ z[1] = b /\ Len(z) = Len(y) + 1 /\ \A i \in 1 .. Len(y) : z[i + 1] = y[i]
  <2>1. IsSequence(y) /\ z = <<b>> \o y
    BY <1>10, <1>12
  <2>2. Prefixed(z, b, y)
    BY ONLY <2>1, ItemAhead
  <2> QED
    BY <2>2 DEF Prefixed
<1>14. \A i \in 1 .. Len(z) : w[i + 1] = z[i]
  <2>1. IsSequence(z) /\ w = <<a>> \o z
    BY <1>11, <1>13
  <2>2. Prefixed(w, a, z)
    BY ONLY <2>1, ItemAhead
  <2> QED
    BY <2>2 DEF Prefixed
<1>15. w[2] = b /\ w[3] = c /\ \A i \in 1 .. Len(all) : w[i + 3] = all[i]
  <2>1. Len(all) \in Nat
    BY <1>20
  <2>2. 1 \in 1 .. Len(z) /\ 2 \in 1 .. Len(z) /\ 1 \in 1 .. Len(y)
    BY <1>12, <1>13, <2>1
  <2>3. w[1 + 1] = z[1] /\ w[2 + 1] = z[2] /\ z[1 + 1] = y[1]
    BY <1>13, <1>14, <2>2
  <2>4. w[2] = b /\ w[3] = c
    BY <1>12, <1>13, <2>3
  <2>5. \A i \in 1 .. Len(all) : w[i + 3] = all[i]
    <3> SUFFICES ASSUME NEW i \in 1 .. Len(all) PROVE w[i + 3] = all[i]
      OBVIOUS
    <3>1. PICK j, k : j = i + 1 /\ k = j + 1
      OBVIOUS
    <3>2. j \in 1 .. Len(y) /\ k \in 1 .. Len(z) /\ k + 1 = i + 3
      BY <1>12, <1>13, <2>1, <3>1
    <3>3. y[i + 1] = all[i] /\ z[j + 1] = y[j] /\ w[k + 1] = z[k]
      BY <1>12, <1>13, <1>14, <3>2
    <3> QED
      BY <3>1, <3>2, <3>3
  <2> QED
    BY <2>4, <2>5
<1>16. \A i \in 1 .. n - 1 : w[2 * i + 3] = F[i][1]
  <2> SUFFICES ASSUME NEW i \in 1 .. m PROVE w[2 * i + 3] = F[i][1]
    BY <1>4
  <2>1. PICK j : j = 2 * i
    OBVIOUS
  <2>2. j \in 1 .. 2 * m /\ j \in 1 .. size
    <3> HIDE DEF size, most, more
    <3> QED
      BY <1>20, <2>1
  <2>3. w[j + 3] = all[j] /\ all[j] = front[j] /\ front[j] = F[i][1]
    BY <1>6, <1>9, <1>15, <2>1, <2>2
  <2> QED
    BY <2>1, <2>3
<1>17. \A j \in 1 .. Len(F[n]) : w[2 * n + 2 + j] = F[n][j]
  <2> SUFFICES ASSUME NEW j \in 1 .. Len(F[n]) PROVE w[2 * n + 2 + j] = F[n][j]
    OBVIOUS
  <2>1. PICK k, l : k = j + 1 /\ l = 2 * m + k
    OBVIOUS
  <2>2. k \in 1 .. most /\ l \in 1 .. size /\ l + 3 = 2 * n + 2 + j
    <3>1. j \in 1 .. more
      OBVIOUS
    <3> HIDE DEF size, most, more
    <3> QED
      BY <1>20, <2>1, <3>1
  <2>3. w[l + 3] = all[l] /\ all[2 * m + k] = last[k] /\ last[j + 1] = F[n][j]
    BY <1>7, <1>9, <1>15, <2>2
  <2> QED
    BY <2>1, <2>2, <2>3
<1>18. b.arg = v /\ c.arg = n
  BY <1>10 DEF Item
<1> QED
  BY <1>15, <1>16, <1>17, <1>18 DEF BodyItems

\* A variant whose fields are F and whose last is read for what it is.
LEMMA VariantAt ==
  ASSUME NEW b, NEW F, F = BodyFields(b), NEW n, Singles(F, n)
  PROVE  BodyItems(WriteBody(b), b.variant, F, n)
<1>1. PICK w : w = WriteBody(b)
  OBVIOUS
<1>2. w = WriteArray(<<WriteUint(b.variant), WriteFields(F)>>)
  BY <1>1 DEF WriteBody
<1>3. PICK v : v = b.variant
  OBVIOUS
<1>4. w = WriteArray(<<WriteUint(v), WriteFields(F)>>) /\ Singles(F, n)
  BY <1>2, <1>3
<1>5. BodyItems(w, v, F, n)
  BY ONLY <1>4, BodyAt
<1> QED
  BY <1>1, <1>3, <1>5

\* The same of each variant.
LEMMA NoteBack ==
  ASSUME NEW t \in Rank
  PROVE  BodyIn(WriteBody(Note(t))) = Note(t)
<1>1. PICK b, F, w, x : b = Note(t) /\ F = BodyFields(b) /\ w = WriteBody(b) /\ x = WriteText(t, t)
  OBVIOUS
<1>2. b.variant = 0 /\ b.text = t
  BY <1>1 DEF Note
<1>3. F = <<x>>
  BY <1>1, <1>2 DEF BodyFields
<1>4. IsSequence(x) /\ Len(x) = 1 /\ x[1].content = t
  <2>1. PICK y : x = <<y>> /\ y.content = t
    BY <1>1, OneItem
  <2> QED
    BY <2>1, OneIsSequence
<1>5. F = [k \in 1 .. 1 |-> F[k]] /\ F[1] = x
  BY <1>3
<1>6. Singles(F, 1)
  BY <1>4, <1>5 DEF Singles
<1>7. BodyItems(w, 0, F, 1)
  <2>1. F = BodyFields(b) /\ Singles(F, 1)
    BY <1>1, <1>6
  <2>2. BodyItems(WriteBody(b), b.variant, F, 1)
    BY ONLY <2>1, VariantAt
  <2> QED
    BY <1>1, <1>2, <2>2
<1>8. w[2].arg = 0 /\ w[5] = x[1]
  <2>1. w[2].arg = 0 /\ \A j \in 1 .. Len(F[1]) : w[2 * 1 + 2 + j] = F[1][j]
    BY <1>7 DEF BodyItems
  <2>2. w[2 * 1 + 2 + 1] = F[1][1]
    BY <1>4, <1>5, <2>1
  <2> QED
    BY <1>5, <2>1, <2>2
<1>9. BodyIn(w) = Note(w[5].content)
  BY <1>8 DEF BodyIn
<1> QED
  BY <1>1, <1>4, <1>8, <1>9

\* The items of a body of two fields, and of one of three.
LEMMA TwoFieldsAt ==
  ASSUME NEW b, NEW x, NEW y, BodyFields(b) = <<x, y>>, x = <<x[1]>>, IsSequence(y),
         NEW w, w = WriteBody(b)
  PROVE  /\ w[2].arg = b.variant /\ w[3].arg = 2 /\ w[5] = x[1]
         /\ \A j \in 1 .. Len(y) : w[6 + j] = y[j]
<1>1. PICK F, v : F = <<x, y>> /\ v = b.variant
  OBVIOUS
<1>2. F = [k \in 1 .. 2 |-> F[k]] /\ F[1] = x /\ F[2] = y
  BY <1>1
<1>3. Singles(F, 2)
  <2>1. \A i \in 1 .. 2 - 1 : i = 1
    OBVIOUS
  <2> QED
    BY <1>2, <2>1 DEF Singles
<1>4. BodyItems(w, v, F, 2)
  <2>1. F = BodyFields(b) /\ Singles(F, 2)
    BY <1>1, <1>3
  <2>2. BodyItems(WriteBody(b), b.variant, F, 2)
    BY ONLY <2>1, VariantAt
  <2> QED
    BY <1>1, <2>2
<1>5. /\ w[2].arg = v /\ w[3].arg = 2
      /\ (\A i \in 1 .. 2 - 1 : w[2 * i + 3] = F[i][1])
      /\ \A j \in 1 .. Len(F[2]) : w[2 * 2 + 2 + j] = F[2][j]
  BY <1>4 DEF BodyItems
<1>6. 1 \in 1 .. 2 - 1 /\ 2 * 1 + 3 = 5 /\ 2 * 2 + 2 = 6
  OBVIOUS
<1>7. w[5] = F[1][1] /\ \A j \in 1 .. Len(F[2]) : w[6 + j] = F[2][j]
  BY <1>5, <1>6
<1> QED
  BY <1>1, <1>2, <1>5, <1>7

LEMMA ThreeFieldsAt ==
  ASSUME NEW b, NEW x, NEW y, NEW z, BodyFields(b) = <<x, y, z>>,
         x = <<x[1]>>, y = <<y[1]>>, z = <<z[1]>>, NEW w, w = WriteBody(b)
  PROVE  w[2].arg = b.variant /\ w[3].arg = 3 /\ w[5] = x[1] /\ w[7] = y[1] /\ w[9] = z[1]
<1>1. PICK F, v : F = <<x, y, z>> /\ v = b.variant
  OBVIOUS
<1>2. F = [k \in 1 .. 3 |-> F[k]] /\ F[1] = x /\ F[2] = y /\ F[3] = z
  BY <1>1
<1>3. Singles(F, 3)
  <2>1. \A i \in 1 .. 3 - 1 : i = 1 \/ i = 2
    OBVIOUS
  <2>2. IsSequence(z)
    BY OneIsSequence
  <2> QED
    BY <1>2, <2>1, <2>2 DEF Singles
<1>4. BodyItems(w, v, F, 3)
  <2>1. F = BodyFields(b) /\ Singles(F, 3)
    BY <1>1, <1>3
  <2>2. BodyItems(WriteBody(b), b.variant, F, 3)
    BY ONLY <2>1, VariantAt
  <2> QED
    BY <1>1, <2>2
<1>5. /\ w[2].arg = v /\ w[3].arg = 3
      /\ (\A i \in 1 .. 3 - 1 : w[2 * i + 3] = F[i][1])
      /\ \A j \in 1 .. Len(F[3]) : w[2 * 3 + 2 + j] = F[3][j]
  BY <1>4 DEF BodyItems
<1>6. 1 \in 1 .. 3 - 1 /\ 2 \in 1 .. 3 - 1 /\ Len(z) = 1 /\ 1 \in 1 .. Len(z)
  OBVIOUS
<1>7. w[2 * 1 + 3] = F[1][1] /\ w[2 * 2 + 3] = F[2][1] /\ w[2 * 3 + 2 + 1] = F[3][1]
  BY <1>2, <1>5, <1>6
<1> QED
  BY <1>1, <1>2, <1>5, <1>7

LEMMA VoiceBack ==
  ASSUME NEW t \in Rank, NEW a \in Rank
  PROVE  BodyIn(WriteBody(Voice(t, a))) = Voice(t, a)
<1>1. PICK b, w, x, y : b = Voice(t, a) /\ w = WriteBody(b) /\ x = WriteText(t, t) /\ y = Hash(a)
  OBVIOUS
<1>2. b.variant = 1 /\ b.transcript = t /\ b.audio = a
  BY <1>1 DEF Voice
<1>3. BodyFields(b) = <<x, y>>
  BY <1>1, <1>2 DEF BodyFields
<1>4. x = <<x[1]>> /\ x[1].content = t /\ y = <<y[1]>> /\ y[1].content = a
  BY <1>1, OneItem
<1>5. IsSequence(y) /\ Len(y) = 1
  BY <1>4, OneIsSequence
<1>6. /\ w[2].arg = b.variant /\ w[3].arg = 2 /\ w[5] = x[1]
      /\ \A j \in 1 .. Len(y) : w[6 + j] = y[j]
  BY <1>1, <1>3, <1>4, <1>5, TwoFieldsAt
<1>7. w[6 + 1] = y[1]
  BY <1>5, <1>6
<1>8. BodyIn(w) = Voice(w[5].content, w[7].content)
  BY <1>2, <1>6 DEF BodyIn
<1> QED
  BY <1>1, <1>4, <1>6, <1>7, <1>8

LEMMA SensorBack ==
  ASSUME NEW s \in Rank, NEW m \in Int, NEW e \in Int
  PROVE  BodyIn(WriteBody(Sensor(s, m, e))) = Sensor(s, m, e)
<1>1. PICK b, w, x, y, u, v : /\ b = Sensor(s, m, e) /\ w = WriteBody(b) /\ x = WriteBytes(16, s)
                              /\ u = WriteInt(m) /\ v = WriteInt(e) /\ y = WriteArray(<<u, v>>)
  OBVIOUS
<1>2. b.variant = 4 /\ b.source = s /\ b.mantissa = m /\ b.exponent = e
  BY <1>1 DEF Sensor
<1>3. BodyFields(b) = <<x, y>>
  BY <1>1, <1>2 DEF BodyFields
<1>4. x = <<x[1]>> /\ x[1].content = s
  BY <1>1, OneItem
<1>5. u = <<u[1]>> /\ v = <<v[1]>> /\ IntIn(u[1]) = m /\ IntIn(v[1]) = e
  BY <1>1, IntBack
<1>6. y[2] = u[1] /\ y[3] = v[1]
  BY <1>1, <1>5, TwoBack
<1>7. IsSequence(y) /\ Len(y) = 3
  <2>1. PICK h : WriteArrayHead(2) = <<h>>
    BY OneItem
  <2>2. PICK t : t = u \o v
    OBVIOUS
  <2>3. Joined(t, u, v) /\ Len(u) = 1 /\ Len(v) = 1
    BY <1>5, <2>2, OneIsSequence, JoinAt
  <2>4. IsSequence(t) /\ Len(t) = 2
    BY <2>3 DEF Joined
  <2>5. y = <<h>> \o t
    BY <1>1, <2>1, <2>2, PairIs
  <2>6. Prefixed(y, h, t)
    BY <2>4, <2>5, ItemAhead
  <2> QED
    BY <2>4, <2>6 DEF Prefixed
<1>8. /\ w[2].arg = b.variant /\ w[3].arg = 2 /\ w[5] = x[1]
      /\ \A j \in 1 .. Len(y) : w[6 + j] = y[j]
  BY <1>1, <1>3, <1>4, <1>7, TwoFieldsAt
<1>9. w[6 + 2] = y[2] /\ w[6 + 3] = y[3]
  BY <1>7, <1>8
<1>10. BodyIn(w) = Sensor(w[5].content, IntIn(w[8]), IntIn(w[9]))
  BY <1>2, <1>8 DEF BodyIn
<1> QED
  BY <1>1, <1>4, <1>5, <1>6, <1>8, <1>9, <1>10

LEMMA PresenceBack ==
  ASSUME NEW a \in Rank, NEW z \in Rank, NEW event \in {"Enter", "Exit"}
  PROVE  BodyIn(WriteBody(Presence(a, z, event))) = Presence(a, z, event)
<1>1. PICK n : n = IF event = "Enter" THEN 0 ELSE 1
  OBVIOUS
<1>2. PICK b, w, x, y, u : /\ b = Presence(a, z, event) /\ w = WriteBody(b)
                           /\ x = WriteBytes(16, a) /\ y = WriteBytes(16, z) /\ u = WriteUint(n)
  OBVIOUS
<1>3. b.variant = 5 /\ b.actor = a /\ b.zone = z /\ b.event = event
  BY <1>2 DEF Presence
<1>4. BodyFields(b) = <<x, y, u>>
  BY <1>1, <1>2, <1>3 DEF BodyFields
<1>5. /\ x = <<x[1]>> /\ x[1].content = a /\ y = <<y[1]>> /\ y[1].content = z
      /\ u = <<u[1]>> /\ u[1].arg = n
  BY <1>2, OneItem
<1>6. w[2].arg = b.variant /\ w[3].arg = 3 /\ w[5] = x[1] /\ w[7] = y[1] /\ w[9] = u[1]
  BY <1>2, <1>4, <1>5, ThreeFieldsAt
<1>7. BodyIn(w) = Presence(w[5].content, w[7].content, IF w[9].arg = 0 THEN "Enter" ELSE "Exit")
  BY <1>3, <1>6 DEF BodyIn
<1>8. event = IF w[9].arg = 0 THEN "Enter" ELSE "Exit"
  BY <1>1, <1>5, <1>6
<1> QED
  BY <1>2, <1>5, <1>6, <1>7, <1>8

LEMMA MediaBack ==
  ASSUME NEW h \in Rank, NEW n \in U64, NEW c \in Rank \cup {None}
  PROVE  BodyIn(WriteBody(Media(h, n, c))) = Media(h, n, c)
<1>1. PICK b, w, x, y, z : /\ b = Media(h, n, c) /\ w = WriteBody(b)
                           /\ x = Hash(h) /\ y = WriteUint(n) /\ z = WriteText(c, c)
  OBVIOUS
<1>2. b.variant = 2 /\ b.blob = h /\ b.kind = n /\ b.caption = c
  BY <1>1 DEF Media
<1>3. /\ x = <<x[1]>> /\ x[1].content = h /\ y = <<y[1]>> /\ y[1].arg = n
      /\ z = <<z[1]>> /\ z[1].content = c
  BY <1>1, OneItem
<1> DEFINE F == BodyFields(b)
<1>4. /\ F = [k \in DOMAIN F |-> F[k]] /\ DOMAIN F = {1, 2} \cup Optional(c, 3)
      /\ F[1] = x /\ F[2] = y /\ (3 \in DOMAIN F => F[3] = z)
  BY <1>1, <1>2 DEF BodyFields, Optional
<1> HIDE DEF F
<1>5. BodyIn(w) = Media(w[5].content, w[7].arg, IF w[3].arg = 3 THEN w[9].content ELSE None)
        \/ w[2].arg # 2
  BY DEF BodyIn
<1>6. CASE c = None
  <2>1. DOMAIN F = 1 .. 2
    BY <1>4, <1>6 DEF Optional
  <2>2. F = <<x, y>>
    BY <1>4, <2>1
  <2>3. IsSequence(y) /\ Len(y) = 1
    BY <1>3, OneIsSequence
  <2>4. /\ w[2].arg = b.variant /\ w[3].arg = 2 /\ w[5] = x[1]
        /\ \A j \in 1 .. Len(y) : w[6 + j] = y[j]
    BY <1>1, <1>3, <2>2, <2>3, TwoFieldsAt DEF F
  <2>5. w[6 + 1] = y[1]
    BY <2>3, <2>4
  <2> QED
    BY <1>1, <1>2, <1>3, <1>5, <1>6, <2>4, <2>5
<1>7. CASE c # None
  <2>1. DOMAIN F = 1 .. 3
    BY <1>4, <1>7 DEF Optional
  <2>2. F = <<x, y, z>>
    BY <1>4, <2>1
  <2>3. w[2].arg = b.variant /\ w[3].arg = 3 /\ w[5] = x[1] /\ w[7] = y[1] /\ w[9] = z[1]
    BY <1>1, <1>3, <2>2, ThreeFieldsAt DEF F
  <2> QED
    BY <1>1, <1>2, <1>3, <1>5, <2>3
<1> QED
  BY <1>6, <1>7

LEMMA BodyBack ==
  ASSUME NEW b \in AnyBody
  PROVE  BodyIn(WriteBody(b)) = b
<1>1. CASE \E t \in Rank : b = Note(t)
  BY <1>1, NoteBack
<1>2. CASE \E t, a \in Rank : b = Voice(t, a)
  BY <1>2, VoiceBack
<1>3. CASE \E h \in Rank, n \in U64, c \in Rank \cup {None} : b = Media(h, n, c)
  BY <1>3, MediaBack
<1>4. CASE \E s \in Rank, m, x \in Signed(I64Max) : b = Sensor(s, m, x)
  BY <1>4, SensorBack, SignedAreInts
<1>5. CASE \E a, z \in Rank, e \in {"Enter", "Exit"} : b = Presence(a, z, e)
  BY <1>5, PresenceBack
<1> QED
  BY <1>1, <1>2, <1>3, <1>4, <1>5 DEF AnyBody

LEMMA ObservationBack ==
  ASSUME NEW o \in AnyObservation
  PROVE  Value("observation", ObservationFields(o)) = o
<1> DEFINE F == ObservationFields(o)
<1>1. /\ F[1] = Hash(o.author) /\ F[2] = WriteBytes(16, o.site)
      /\ F[3] = WritePrev(o.prev) /\ F[4] = WriteUint(o.seq)
      /\ F[5] = WriteHlc(o.hlc) /\ F[6] = WriteBody(o.body)
      /\ o.geo # None => F[7] = WriteGeo(o.geo)
      /\ o.acks # {} => F[8] = Hashes(InOrder(o.acks))
  BY DEF ObservationFields, Optional, NotEmpty
<1>2. DOMAIN F = 1 .. 6 \cup Optional(o.geo, 7) \cup NotEmpty(o.acks, 8)
  BY DEF ObservationFields
<1> HIDE DEF F
<1>3. (7 \in DOMAIN F <=> o.geo # None) /\ (8 \in DOMAIN F <=> o.acks # {})
  <2>1. 7 \notin 1 .. 6 /\ 8 \notin 1 .. 6
    OBVIOUS
  <2> QED
    BY <1>2, <2>1 DEF Optional, NotEmpty
<1>4. /\ o.hlc \in AnyHlc /\ o.body \in AnyBody /\ o.geo \in AnyGeo \cup {None}
      /\ o.acks \in SUBSET Rank
  BY DEF AnyObservation
<1>5. /\ F[1][1].content = o.author /\ F[2][1].content = o.site /\ F[4][1].arg = o.seq
  BY <1>1, OneItem
<1>6. PrevIn(F[3]) = o.prev /\ HlcIn(F[5]) = o.hlc /\ BodyIn(F[6]) = o.body
  BY <1>1, <1>4, PrevBack, HlcBack, BodyBack
<1>7. (IF 7 \in DOMAIN F THEN GeoIn(F[7]) ELSE None) = o.geo
  BY <1>1, <1>3, <1>4, GeoBack
<1>8. (IF 8 \in DOMAIN F THEN AcksIn(F[8]) ELSE {}) = o.acks
  BY <1>1, <1>3, <1>4, AcksBack
<1>9. Value("observation", F) =
        [author |-> o.author, site |-> o.site, prev |-> o.prev, seq |-> o.seq, hlc |-> o.hlc,
         body |-> o.body, geo |-> o.geo, acks |-> o.acks]
  BY <1>5, <1>6, <1>7, <1>8 DEF Value
<1>10. o = [author |-> o.author, site |-> o.site, prev |-> o.prev, seq |-> o.seq, hlc |-> o.hlc,
            body |-> o.body, geo |-> o.geo, acks |-> o.acks]
  BY DEF AnyObservation
<1> QED
  BY <1>9, <1>10 DEF F

LEMMA AttestationBack ==
  ASSUME NEW a \in AnyAttestation
  PROVE  Value("attestation", AttestationFields(a)) = a
<1> DEFINE F == AttestationFields(a)
<1>1. /\ F[1] = Hash(a.witness) /\ F[2] = Hash(a.subject)
      /\ F[3] = Hash(a.subject_head) /\ F[4] = WriteUint(a.subject_seq)
      /\ F[5] = WriteHlc(a.witness_hlc) /\ F[6] = WriteBytes(16, a.nonce)
  BY DEF AttestationFields
<1> HIDE DEF F
<1>2. a.witness_hlc \in AnyHlc
  BY DEF AnyAttestation
<1>3. /\ F[1][1].content = a.witness /\ F[2][1].content = a.subject
      /\ F[3][1].content = a.subject_head /\ F[4][1].arg = a.subject_seq
      /\ HlcIn(F[5]) = a.witness_hlc /\ F[6][1].content = a.nonce
  BY <1>1, <1>2, OneItem, HlcBack
<1>4. Value("attestation", F) =
        [witness |-> a.witness, subject |-> a.subject, subject_head |-> a.subject_head,
         subject_seq |-> a.subject_seq, witness_hlc |-> a.witness_hlc, nonce |-> a.nonce]
  BY <1>3 DEF Value
<1>5. a = [witness |-> a.witness, subject |-> a.subject, subject_head |-> a.subject_head,
           subject_seq |-> a.subject_seq, witness_hlc |-> a.witness_hlc, nonce |-> a.nonce]
  BY DEF AnyAttestation
<1> QED
  BY <1>4, <1>5 DEF F

LEMMA CheckpointBack ==
  ASSUME NEW c \in AnyCheckpoint
  PROVE  Value("checkpoint", CheckpointFields(c)) = c
<1> DEFINE F == CheckpointFields(c)
<1>1. /\ F[1] = Hash(c.node) /\ F[2] = Hash(c.head) /\ F[3] = WriteUint(c.seq)
      /\ F[4] = WriteHlc(c.hlc) /\ F[5] = WriteFrontier(c.frontier)
  BY DEF CheckpointFields, WriteFrontier
<1> HIDE DEF F
<1>2. c.hlc \in AnyHlc /\ c.frontier \in AnyFrontier
  BY DEF AnyCheckpoint
<1>3. /\ F[1][1].content = c.node /\ F[2][1].content = c.head /\ F[3][1].arg = c.seq
      /\ HlcIn(F[4]) = c.hlc /\ FrontierIn(F[5]) = c.frontier
  BY <1>1, <1>2, OneItem, HlcBack, FrontierBack
<1>4. Value("checkpoint", F) =
        [node |-> c.node, head |-> c.head, seq |-> c.seq, hlc |-> c.hlc, frontier |-> c.frontier]
  BY <1>3 DEF Value
<1>5. c = [node |-> c.node, head |-> c.head, seq |-> c.seq, hlc |-> c.hlc, frontier |-> c.frontier]
  BY DEF AnyCheckpoint
<1> QED
  BY <1>4, <1>5 DEF F

LEMMA BlobBack ==
  ASSUME NEW m \in AnyBlob
  PROVE  Value("blob", BlobFields(m)) = m
<1> DEFINE F == BlobFields(m)
<1>1. /\ F[1] = WriteUint(m.size) /\ F[2] = Hashes(m.chunks)
      /\ F[3] = WriteText(m.mime, m.mime)
  BY DEF BlobFields
<1> HIDE DEF F
<1>2. m.chunks \in Seq(Rank)
  BY DEF AnyBlob
<1>3. F[1][1].arg = m.size /\ HashesIn(F[2]) = m.chunks /\ F[3][1].content = m.mime
  BY <1>1, <1>2, OneItem, HashesBack
<1>4. Value("blob", F) = [size |-> m.size, chunks |-> m.chunks, mime |-> m.mime]
  BY <1>3 DEF Value
<1>5. m = [size |-> m.size, chunks |-> m.chunks, mime |-> m.mime]
  BY DEF AnyBlob
<1> QED
  BY <1>4, <1>5 DEF F

LEMMA ForkProofBack ==
  ASSUME NEW p \in AnyForkProof
  PROVE  Value("forkproof", ForkProofFields(p)) = p
<1> DEFINE F == ForkProofFields(p)
<1>1. F[1] = Hash(p.key) /\ F[2] = WriteForkEntry(p.a) /\ F[3] = WriteForkEntry(p.b)
  BY DEF ForkProofFields
<1> HIDE DEF F
<1>2. p.a \in AnyEntry /\ p.b \in AnyEntry
  BY DEF AnyForkProof
<1>3. F[1][1].content = p.key /\ EntryIn(F[2]) = p.a /\ EntryIn(F[3]) = p.b
  BY <1>1, <1>2, OneItem, EntryBack
<1>4. Value("forkproof", F) = [key |-> p.key, a |-> p.a, b |-> p.b]
  BY <1>3 DEF Value
<1>5. p = [key |-> p.key, a |-> p.a, b |-> p.b]
  BY DEF AnyForkProof
<1> QED
  BY <1>4, <1>5 DEF F

\* What encode_fields writes of any object, decode_fields makes that object of
\* again (object.rs): no field is lost, none is read as another, an absent one
\* stays absent.
THEOREM EncodedFieldsDecode ==
  \A type \in Object : \A v \in AnyObject(type) : Value(type, EncodeFields(type, v)) = v
<1> SUFFICES ASSUME NEW type \in Object, NEW v \in AnyObject(type)
             PROVE  Value(type, EncodeFields(type, v)) = v
  OBVIOUS
<1>1. CASE type = "observation"
  BY <1>1, ObservationBack DEF AnyObject, EncodeFields
<1>2. CASE type = "attestation"
  BY <1>2, AttestationBack DEF AnyObject, EncodeFields
<1>3. CASE type = "checkpoint"
  BY <1>3, CheckpointBack DEF AnyObject, EncodeFields
<1>4. CASE type = "blob"
  BY <1>4, BlobBack DEF AnyObject, EncodeFields
<1>5. CASE type = "forkproof"
  BY <1>5, ForkProofBack DEF AnyObject, EncodeFields
<1> QED
  BY <1>1, <1>2, <1>3, <1>4, <1>5 DEF Object

\* What decode_fields makes of fields depends on nothing but them.
LEMMA SameValue ==
  ASSUME NEW type \in Object, NEW F, NEW G, DOMAIN F = DOMAIN G, \A k \in DOMAIN F : F[k] = G[k],
         Reader(type).need \subseteq DOMAIN F
  PROVE  Value(type, F) = Value(type, G)
<1>1. CASE type = "observation"
  <2>1. Reader(type).need = 1 .. 6
    BY <1>1 DEF Reader, ObservationReader, Fields
  <2>2. F[1] = G[1] /\ F[2] = G[2] /\ F[3] = G[3] /\ F[4] = G[4] /\ F[5] = G[5] /\ F[6] = G[6]
    BY <2>1
  <2>3. (7 \in DOMAIN F => F[7] = G[7]) /\ (8 \in DOMAIN F => F[8] = G[8])
    OBVIOUS
  <2>4. (IF 7 \in DOMAIN F THEN GeoIn(F[7]) ELSE None) = (IF 7 \in DOMAIN G THEN GeoIn(G[7]) ELSE None)
    BY <2>3
  <2>5. (IF 8 \in DOMAIN F THEN AcksIn(F[8]) ELSE {}) = (IF 8 \in DOMAIN G THEN AcksIn(G[8]) ELSE {})
    BY <2>3
  <2> QED
    BY <1>1, <2>2, <2>4, <2>5 DEF Value
<1>2. CASE type = "attestation"
  <2>1. Reader(type).need = 1 .. 6
    BY <1>2 DEF Reader, AttestationReader, Fields
  <2>2. F[1] = G[1] /\ F[2] = G[2] /\ F[3] = G[3] /\ F[4] = G[4] /\ F[5] = G[5] /\ F[6] = G[6]
    BY <2>1
  <2> QED
    BY <1>2, <2>2 DEF Value
<1>3. CASE type = "checkpoint"
  <2>1. Reader(type).need = 1 .. 5
    BY <1>3 DEF Reader, CheckpointReader, Fields
  <2>2. F[1] = G[1] /\ F[2] = G[2] /\ F[3] = G[3] /\ F[4] = G[4] /\ F[5] = G[5]
    BY <2>1
  <2> QED
    BY <1>3, <2>2 DEF Value
<1>4. CASE type = "blob"
  <2>1. Reader(type).need = 1 .. 3
    BY <1>4 DEF Reader, BlobReader, Fields
  <2>2. F[1] = G[1] /\ F[2] = G[2] /\ F[3] = G[3]
    BY <2>1
  <2> QED
    BY <1>4, <2>2 DEF Value
<1>5. CASE type = "forkproof"
  <2>1. Reader(type).need = 1 .. 3
    BY <1>5 DEF Reader, ForkProofReader, Fields
  <2>2. F[1] = G[1] /\ F[2] = G[2] /\ F[3] = G[3]
    BY <2>1
  <2> QED
    BY <1>5, <2>2 DEF Value
<1> QED
  BY <1>1, <1>2, <1>3, <1>4, <1>5 DEF Object

-----------------------------------------------------------------------------
(***************************************************************************)
(* One encoding has one reading.                                           *)
(***************************************************************************)

\* Fields that a reader of them has read, each after the head of its key.
Parsed(of, heads, F) ==
  /\ DOMAIN F \in SUBSET Nat /\ IsFiniteSet(DOMAIN F)
  /\ \A k \in DOMAIN F : heads[k].arg = k /\ IsSequence(F[k]) /\ Readable(<<of[k]>>, F[k])

LEMMA OneAhead ==
  ASSUME NEW a, NEW b, NEW s, NEW t, IsSequence(s), IsSequence(t), <<a>> \o s = <<b>> \o t
  PROVE  a = b /\ s = t
<1>1. PICK x : x = <<a>> \o s /\ x = <<b>> \o t
  OBVIOUS
<1>2. Head(x) = a /\ Tail(x) = s
  BY <1>1, JoinOne
<1>3. Head(x) = b /\ Tail(x) = t
  BY <1>1, JoinOne
<1> QED
  BY <1>2, <1>3

LEMMA BodiesOnce ==
  ASSUME NEW of, NEW heads, NEW F, NEW other, NEW G, Parsed(of, heads, F), Parsed(of, other, G),
         Cardinality(DOMAIN F) = Cardinality(DOMAIN G), Body(heads, F) = Body(other, G)
  PROVE  DOMAIN F = DOMAIN G /\ \A k \in DOMAIN F : F[k] = G[k]
<1>1. PICK n, s, t, p, q :
        /\ n = Cardinality(DOMAIN F) /\ s = InOrder(DOMAIN F) /\ t = InOrder(DOMAIN G)
        /\ p = FieldParts(heads, F) /\ q = FieldParts(other, G)
  OBVIOUS
<1>2. /\ n \in Nat
      /\ \A i \in 1 .. n : s[i] \in DOMAIN F /\ p[i] = <<heads[s[i]]>> \o F[s[i]] /\ IsSequence(p[i])
  <2>1. DOMAIN F \in SUBSET Nat /\ IsFiniteSet(DOMAIN F) /\ \A k \in DOMAIN F : IsSequence(F[k])
    BY DEF Parsed
  <2> QED
    BY <1>1, <2>1, PartsOfFields
<1>3. \A i \in 1 .. n : t[i] \in DOMAIN G /\ q[i] = <<other[t[i]]>> \o G[t[i]] /\ IsSequence(q[i])
  <2>1. DOMAIN G \in SUBSET Nat /\ IsFiniteSet(DOMAIN G) /\ \A k \in DOMAIN G : IsSequence(G[k])
    BY DEF Parsed
  <2> QED
    BY <1>1, <2>1, PartsOfFields
<1>4. Joint(p, n) = Joint(q, n)
  BY <1>1 DEF Body
<1>5. ASSUME NEW i \in 1 .. n, NEW x, NEW y, IsSequence(x), IsSequence(y), p[i] \o x = q[i] \o y
      PROVE  p[i] = q[i] /\ x = y /\ s[i] = t[i] /\ F[s[i]] = G[t[i]]
  <2>1. PICK a, b, u, v, e : /\ a = heads[s[i]] /\ b = other[t[i]] /\ u = F[s[i]] /\ v = G[t[i]]
                             /\ e = <<of[s[i]]>>
    OBVIOUS
  <2>2. /\ IsSequence(u) /\ IsSequence(v) /\ a.arg = s[i] /\ b.arg = t[i]
        /\ Readable(e, u) /\ Readable(<<of[t[i]]>>, v)
    BY <1>2, <1>3, <2>1 DEF Parsed
  <2>3. p[i] = <<a>> \o u /\ q[i] = <<b>> \o v
    BY <1>2, <1>3, <2>1
  <2>4. (<<a>> \o u) \o x = <<a>> \o (u \o x) /\ (<<b>> \o v) \o y = <<b>> \o (v \o y)
    <3>1. PICK c, d : c = <<a>> /\ d = <<b>>
      OBVIOUS
    <3>2. IsSequence(c) /\ IsSequence(u) /\ IsSequence(x)
      BY <1>5, <2>2, <3>1, OneIsSequence
    <3>3. IsSequence(d) /\ IsSequence(v) /\ IsSequence(y)
      BY <1>5, <2>2, <3>1, OneIsSequence
    <3>4. (c \o u) \o x = c \o (u \o x)
      BY ONLY <3>2, JoinAssociates
    <3>5. (d \o v) \o y = d \o (v \o y)
      BY ONLY <3>3, JoinAssociates
    <3> QED
      BY <3>1, <3>4, <3>5
  <2>5. <<a>> \o (u \o x) = <<b>> \o (v \o y)
    BY <1>5, <2>3, <2>4
  <2>6. IsSequence(u \o x) /\ IsSequence(v \o y)
    BY <1>5, <2>2, JoinIsSequence
  <2>7. a = b /\ u \o x = v \o y
    <3>1. PICK c, d : c = u \o x /\ d = v \o y
      OBVIOUS
    <3>2. IsSequence(c) /\ IsSequence(d) /\ <<a>> \o c = <<b>> \o d
      BY <2>5, <2>6, <3>1
    <3>3. a = b /\ c = d
      BY ONLY <3>2, OneAhead
    <3> QED
      BY <3>1, <3>3
  <2>8. s[i] = t[i]
    BY <2>2, <2>7
  <2>9. Readable(e, v)
    BY <2>1, <2>2, <2>8
  <2>10. u = v /\ x = y
    <3>1. /\ IsSequence(u) /\ IsSequence(v) /\ IsSequence(x) /\ IsSequence(y)
          /\ Readable(e, u) /\ Readable(e, v) /\ u \o x = v \o y
      BY <1>5, <2>2, <2>7, <2>9
    <3> QED
      BY ONLY <3>1, ReadableOnce
  <2> QED
    BY <2>1, <2>3, <2>7, <2>8, <2>10
<1>6. \A i \in 1 .. n : p[i] = q[i]
  <2>1. /\ n \in Nat /\ \A i \in 1 .. n : IsSequence(p[i]) /\ IsSequence(q[i])
        /\ EachOnce(p, q, n) /\ Joint(p, n) = Joint(q, n)
    BY <1>2, <1>3, <1>4, <1>5 DEF EachOnce
  <2> QED
    BY ONLY <2>1, JointOnce
<1>7. \A i \in 1 .. n : s[i] = t[i] /\ F[s[i]] = G[t[i]]
  <2> SUFFICES ASSUME NEW i \in 1 .. n PROVE s[i] = t[i] /\ F[s[i]] = G[t[i]]
    OBVIOUS
  <2>1. IsSequence(<<>>) /\ p[i] \o <<>> = q[i] \o <<>>
    BY <1>6, EmptyIsSequence
  <2> QED
    BY <1>5, <2>1
<1>8. /\ \A k \in DOMAIN F : \E i \in 1 .. n : s[i] = k
      /\ \A k \in DOMAIN G : \E i \in 1 .. n : t[i] = k
  BY <1>1, OrderAscends DEF Parsed
<1>9. DOMAIN F \subseteq DOMAIN G /\ \A k \in DOMAIN F : F[k] = G[k]
  <2> SUFFICES ASSUME NEW k \in DOMAIN F PROVE k \in DOMAIN G /\ F[k] = G[k]
    OBVIOUS
  <2>1. PICK i \in 1 .. n : s[i] = k
    BY <1>8
  <2> QED
    BY <1>3, <1>7, <2>1
<1>10. DOMAIN G \subseteq DOMAIN F
  <2> SUFFICES ASSUME NEW k \in DOMAIN G PROVE k \in DOMAIN F
    OBVIOUS
  <2>1. PICK i \in 1 .. n : t[i] = k
    BY <1>8
  <2> QED
    BY <1>2, <1>7, <2>1
<1> QED
  BY <1>9, <1>10

\* What encode_fields writes of an object is what its reader reads, field after
\* field.
LEMMA WrittenIsParsed ==
  ASSUME NEW type \in Object, NEW v \in AnyObject(type), NEW F, F = EncodeFields(type, v)
  PROVE  Parsed(Reader(type).of, [k \in DOMAIN F |-> Head1(k)], F)
<1>1. PartsFit(Reader(type), F)
  BY ObjectFits
<1>2. PICK of, heads : of = Reader(type).of /\ heads = [k \in DOMAIN F |-> Head1(k)]
  OBVIOUS
<1>3. \A k \in DOMAIN F : heads[k].arg = k
  BY <1>2 DEF Head1, Item
<1>4. \A k \in DOMAIN F : IsSequence(F[k]) /\ Readable(<<of[k]>>, F[k])
  <2> SUFFICES ASSUME NEW k \in DOMAIN F
               PROVE  IsSequence(F[k]) /\ Readable(<<of[k]>>, F[k])
    OBVIOUS
  <2>1. Fits(of[k], F[k])
    BY <1>1, <1>2 DEF PartsFit
  <2> QED
    BY <2>1, FitsIsReadable
<1> QED
  BY <1>1, <1>2, <1>3, <1>4 DEF Parsed, PartsFit

\* An encoding, taken apart.
Consists(w, tag, map, heads, F) ==
  /\ w = <<tag>> \o (<<map>> \o Body(heads, F)) /\ map.arg = Cardinality(DOMAIN F)
  /\ IsSequence(Body(heads, F))

LEMMA EncodingIs ==
  ASSUME NEW type \in Object, NEW v \in AnyObject(type), NEW F, F = EncodeFields(type, v)
  PROVE  /\ \E tag, map : Consists(Encode(type, v), tag, map, [k \in DOMAIN F |-> Head1(k)], F)
         /\ Reader(type).need \subseteq DOMAIN F
<1>1. PICK heads : heads = [k \in DOMAIN F |-> Head1(k)]
  OBVIOUS
<1>2. DOMAIN F \in SUBSET Nat /\ IsFiniteSet(DOMAIN F) /\ Reader(type).need \subseteq DOMAIN F
  BY ObjectFits DEF PartsFit
<1>3. \A k \in DOMAIN F : IsSequence(F[k])
  <2>1. Parsed(Reader(type).of, heads, F)
    BY <1>1, WrittenIsParsed
  <2> QED
    BY <2>1 DEF Parsed
<1>4. WriteFields(F) = WriteHead("map", Cardinality(DOMAIN F), 0) \o Body(heads, F)
  BY <1>1, <1>2, FieldsWritten
<1>5. IsSequence(Body(heads, F))
  BY <1>2, <1>3, PartsOfFields
<1>6. PICK tag, map : /\ tag = Item(TAG(type), 0, 0, 0)
                      /\ map = Item("map", Shortest(Cardinality(DOMAIN F)), Cardinality(DOMAIN F), 0)
  OBVIOUS
<1>7. WriteHead("map", Cardinality(DOMAIN F), 0) = <<map>> /\ map.arg = Cardinality(DOMAIN F)
  BY <1>6 DEF WriteHead, Item
<1>8. Encode(type, v) = <<tag>> \o (<<map>> \o Body(heads, F))
  BY <1>4, <1>6, <1>7 DEF Encode
<1> QED
  BY <1>1, <1>2, <1>5, <1>7, <1>8 DEF Consists

\* Two things of the form tag, map, fields, that are the same items.
AfterTwo(w, a, b, x) == IsSequence(x) /\ w = <<a>> \o (<<b>> \o x)

LEMMA SameItems ==
  ASSUME NEW w, NEW a, NEW b, NEW c, NEW d, NEW x, NEW y,
         AfterTwo(w, a, b, x), AfterTwo(w, c, d, y)
  PROVE  a = c /\ b = d /\ x = y
<1>1. PICK s, t : s = <<b>> \o x /\ t = <<d>> \o y
  OBVIOUS
<1>2. IsSequence(s) /\ IsSequence(t)
  BY <1>1, OneIsSequence, JoinIsSequence DEF AfterTwo
<1>3. <<a>> \o s = <<c>> \o t
  BY <1>1 DEF AfterTwo
<1>4. a = c /\ s = t
  BY ONLY <1>2, <1>3, OneAhead
<1>5. IsSequence(x) /\ IsSequence(y) /\ <<b>> \o x = <<d>> \o y
  BY <1>1, <1>4 DEF AfterTwo
<1>6. b = d /\ x = y
  BY ONLY <1>5, OneAhead
<1> QED
  BY <1>4, <1>6

\* No two objects of a kind have the same preimage (Object::preimage, object.rs):
\* what is signed and hashed determines, field by field, the object.
THEOREM EncodingIsOfOneObject ==
  \A type \in Object : \A u, v \in AnyObject(type) : Encode(type, u) = Encode(type, v) => u = v
<1> SUFFICES ASSUME NEW type \in Object, NEW u \in AnyObject(type), NEW v \in AnyObject(type),
                    Encode(type, u) = Encode(type, v)
             PROVE  u = v
  OBVIOUS
<1>1. PICK F, G, of, hs, gs :
        /\ F = EncodeFields(type, u) /\ G = EncodeFields(type, v) /\ of = Reader(type).of
        /\ hs = [k \in DOMAIN F |-> Head1(k)] /\ gs = [k \in DOMAIN G |-> Head1(k)]
  OBVIOUS
<1>2. Parsed(of, hs, F) /\ Parsed(of, gs, G)
  BY <1>1, WrittenIsParsed
<1>3. PICK a, b : Consists(Encode(type, u), a, b, hs, F)
  BY <1>1, EncodingIs
<1>4. PICK c, d : Consists(Encode(type, v), c, d, gs, G)
  BY <1>1, EncodingIs
<1>5. /\ b = d /\ Body(hs, F) = Body(gs, G)
      /\ b.arg = Cardinality(DOMAIN F) /\ d.arg = Cardinality(DOMAIN G)
  <2>1. PICK x, y : x = Body(hs, F) /\ y = Body(gs, G)
    OBVIOUS
  <2>2. AfterTwo(Encode(type, u), a, b, x) /\ AfterTwo(Encode(type, u), c, d, y)
    BY <1>3, <1>4, <2>1 DEF Consists, AfterTwo
  <2>3. b = d /\ x = y
    BY ONLY <2>2, SameItems
  <2> QED
    BY <1>3, <1>4, <2>1, <2>3 DEF Consists
<1>6. /\ Parsed(of, hs, F) /\ Parsed(of, gs, G)
      /\ Cardinality(DOMAIN F) = Cardinality(DOMAIN G) /\ Body(hs, F) = Body(gs, G)
  BY <1>2, <1>5
<1>7. DOMAIN F = DOMAIN G /\ \A k \in DOMAIN F : F[k] = G[k]
  BY ONLY <1>6, BodiesOnce
<1>8. Value(type, F) = Value(type, G)
  <2>1. Reader(type).need \subseteq DOMAIN F
    BY <1>1, EncodingIs
  <2> QED
    BY <1>7, <2>1, SameValue
<1> QED
  BY <1>1, <1>8, EncodedFieldsDecode

=============================================================================
