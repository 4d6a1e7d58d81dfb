------------------------------ MODULE DemoProofs ------------------------------
(***************************************************************************)
(* What the two nodes of the browser demo can be brought to, proved for    *)
(* any number of calls and of objects a call may make.                     *)
(***************************************************************************)
EXTENDS Demo, DagProofs

-----------------------------------------------------------------------------
(***************************************************************************)
(* The inductive invariant.                                                *)
(***************************************************************************)

\* Everything in a store was appended to it with its own signature.
StoresOK ==
  \A n \in Key : /\ observations(n) \subseteq Obs /\ IsFiniteSet(observations(n))
                 /\ observations(n) \subseteq verified(n)

DemoInv == StoresOK /\ SiblingsShareTheTrunk /\ ConvictedIffForked

-----------------------------------------------------------------------------
(***************************************************************************)
(* Reading a store.                                                        *)
(***************************************************************************)

\* The entry with the lowest id among those with the highest number.
LEMMA HighestExists ==
  ASSUME NEW O \in SUBSET Obs, IsFiniteSet(O), O # {},
         NEW h, h = Min({x \in O : seq[x] = Max({seq[y] : y \in O})})
  PROVE  h \in O /\ \A y \in O : seq[y] <= seq[h]
<1> DEFINE numbers == {seq[y] : y \in O}
           highest == {x \in O : seq[x] = Max(numbers)}
<1>1. numbers \in SUBSET Nat /\ numbers # {}
  BY ObjectsType
<1>2. IsFiniteSet(numbers)
  <2> DEFINE number == [y \in O |-> seq[y]]
  <2>1. number \in Surjection(O, numbers)
    BY DEF Surjection
  <2> HIDE DEF number, numbers
  <2> QED
    BY <2>1, FS_Surjection
<1>3. Max(numbers) \in numbers /\ \A n \in numbers : n <= Max(numbers)
  BY <1>1, <1>2, LargestExists
<1>4. highest # {} /\ highest \in SUBSET Nat
  BY <1>3, ObjectsType DEF Id
<1>5. h \in highest
  <2> HIDE DEF highest
  <2>1. h = Min(highest)
    BY DEF highest
  <2> QED
    BY <1>4, <2>1, SmallestExists
<1> QED
  BY <1>3, <1>5

\* chain_head of a node is an entry no other exceeds.
LEMMA HeadIsHighest ==
  ASSUME StoresOK, SiblingsShareTheTrunk, NEW n \in Key
  PROVE  /\ observations(n) = {} => head(n) = None
         /\ observations(n) # {} =>
              /\ head(n) \in observations(n)
              /\ \A y \in observations(n) : seq[y] <= seq[head(n)]
<1> DEFINE O == observations(n)
<1>1. O \in SUBSET Obs /\ IsFiniteSet(O) /\ {x \in O : author[x] = n} = O
  BY DEF StoresOK, SiblingsShareTheTrunk
<1>2. head(n) = IF O = {} THEN None ELSE Min({x \in O : seq[x] = Max({seq[y] : y \in O})})
  <2>1. CASE n = "a"
    <3>1. A!Entries("a") = O /\ head(n) = A!ChainHead("a")
      BY <1>1, <2>1 DEF A!Entries, observations, head
    <3> QED
      BY <3>1 DEF A!ChainHead, A!Seqs, A!Max, A!Min, Max, Min
  <2>2. CASE n = "b"
    <3>1. B!Entries("b") = O /\ head(n) = B!ChainHead("b")
      BY <1>1, <2>2 DEF B!Entries, observations, head
    <3> QED
      BY <3>1 DEF B!ChainHead, B!Seqs, B!Max, B!Min, Max, Min
  <2> QED
    BY <2>1, <2>2, DemoAssumption
<1> HIDE DEF O
<1>3. O # {} => head(n) \in O /\ \A y \in O : seq[y] <= seq[head(n)]
  BY <1>1, <1>2, HighestExists
<1> QED
  BY <1>2, <1>3 DEF O

\* A node has a head exactly when it has an entry.
LEMMA HeadOrNone ==
  ASSUME StoresOK, SiblingsShareTheTrunk, NEW n \in Key
  PROVE  head(n) = None <=> observations(n) = {}
<1>1. observations(n) # {} => head(n) \in Nat
  BY HeadIsHighest, ObjectsType DEF StoresOK, Id
<1> QED
  BY <1>1, HeadIsHighest, ObjectsType DEF Id

\* detect_forks finds two entries of a store at one number.
ForksFound ==
  \A n \in Key : observations(n) \subseteq Obs =>
    \A x, y \in observations(n) \cap verified(n) :
      author[x] = n /\ author[y] = n /\ x # y /\ seq[x] = seq[y] =>
        \E p \in forks(n) : CheckForkProof(p) /\ p.key = n

LEMMA ForksAreFound == ForksFound
<1> SUFFICES ASSUME NEW n \in Key, observations(n) \subseteq Obs,
                    NEW x \in observations(n) \cap verified(n),
                    NEW y \in observations(n) \cap verified(n),
                    author[x] = n, author[y] = n, x # y, seq[x] = seq[y], x < y
             PROVE  \E p \in forks(n) : CheckForkProof(p) /\ p.key = n
  <2>1. \A x, y \in Obs : x # y => x < y \/ y < x
    BY ObjectsType DEF Id
  <2> QED
    BY <2>1 DEF ForksFound
<1> DEFINE p == [key |-> n, a |-> x, b |-> y, sig_a |-> TRUE, sig_b |-> TRUE]
<1>1. x \in Obs /\ y \in Obs
  OBVIOUS
<1>2. x \in Nat /\ y \in Nat /\ x <= y
  BY <1>1, ObjectsType DEF Id
<1>3. CheckForkProof(p) /\ p.key = n
  <2>1. /\ p.key = n /\ p.a = x /\ p.b = y /\ p.sig_a = TRUE /\ p.sig_b = TRUE
    OBVIOUS
  <2> HIDE DEF p
  <2> QED
    BY <1>1, <2>1, DemoAssumption DEF CheckForkProof, VerifyId
<1>4. p \in forks(n)
  <2>1. CASE n = "a"
    <3>1. <<x, y>> \in A!Collisions
      BY <2>1 DEF A!Collisions, A!Collide, observations, verified
    <3>2. A!BuildForkProof(author[x], x, x \in a_verified, y, y \in a_verified) \in A!DetectForks
      BY <3>1 DEF A!DetectForks
    <3>3. (x \in a_verified) = TRUE /\ (y \in a_verified) = TRUE
      BY <2>1, DemoAssumption DEF verified
    <3>4. p \in A!DetectForks
      <4>1. A!BuildForkProof(n, x, TRUE, y, TRUE) \in A!DetectForks
        BY <3>2, <3>3, Zenon
      <4>2. A!BuildForkProof(n, x, TRUE, y, TRUE) = p
        BY <1>2 DEF A!BuildForkProof
      <4> QED
        BY <4>1, <4>2, Zenon
    <3> HIDE DEF p
    <3> QED
      BY <2>1, <3>4 DEF forks
  <2>2. CASE n = "b"
    <3>1. <<x, y>> \in B!Collisions
      BY <2>2 DEF B!Collisions, B!Collide, observations, verified
    <3>2. B!BuildForkProof(author[x], x, x \in b_verified, y, y \in b_verified) \in B!DetectForks
      BY <3>1 DEF B!DetectForks
    <3>3. (x \in b_verified) = TRUE /\ (y \in b_verified) = TRUE
      BY <2>2, DemoAssumption DEF verified
    <3>4. p \in B!DetectForks
      <4>1. B!BuildForkProof(n, x, TRUE, y, TRUE) \in B!DetectForks
        BY <3>2, <3>3, Zenon
      <4>2. B!BuildForkProof(n, x, TRUE, y, TRUE) = p
        BY <1>2 DEF B!BuildForkProof
      <4> QED
        BY <4>1, <4>2, Zenon
    <3> HIDE DEF p
    <3> QED
      BY <2>2, <3>4 DEF forks
  <2> QED
    BY <2>1, <2>2, DemoAssumption
<1> QED
  BY <1>3, <1>4

-----------------------------------------------------------------------------
(***************************************************************************)
(* The calls.                                                              *)
(***************************************************************************)

\* An append goes to the node's own store.
LEMMA AppendingAdds ==
  ASSUME NEW n \in Key, NEW x \in Obs \ observations(n), AppendTo(n, x)
  PROVE  /\ observations(n)' = observations(n) \cup {x}
         /\ verified(n)' = verified(n) \cup {x}
         /\ \A m \in Key \ {n} : /\ observations(m)' = observations(m)
                                 /\ verified(m)' = verified(m)
<1>1. VerifyId(x, TRUE)
  BY DemoAssumption DEF VerifyId
<1>2. CASE n = "a"
  <2>1. A!PutObservation(x, TRUE) /\ UNCHANGED bStore /\ x \notin a_observations
    BY <1>2 DEF AppendTo, A!AppendObservation, observations
  <2>2. /\ a_observations' = a_observations \cup {x} /\ a_verified' = a_verified \cup {x}
        /\ b_observations' = b_observations /\ b_verified' = b_verified
    BY <1>1, <2>1 DEF A!PutObservation, A!FirstSignature, A!VerifyId, VerifyId, bStore
  <2> QED
    BY <1>2, <2>2, DemoAssumption DEF observations, verified
<1>3. CASE n = "b"
  <2>1. B!PutObservation(x, TRUE) /\ UNCHANGED aStore /\ x \notin b_observations
    BY <1>3 DEF AppendTo, B!AppendObservation, observations
  <2>2. /\ b_observations' = b_observations \cup {x} /\ b_verified' = b_verified \cup {x}
        /\ a_observations' = a_observations /\ a_verified' = a_verified
    BY <1>1, <2>1 DEF B!PutObservation, B!FirstSignature, B!VerifyId, VerifyId, aStore
  <2> QED
    BY <1>3, <2>2, DemoAssumption DEF observations, verified
<1> QED
  BY <1>2, <1>3, DemoAssumption

\* Every entry of O hangs off one trunk of entries by n.
OnTrunk(n, O) ==
  \A x, y \in O :
    /\ author[x] = n
    /\ seq[x] = seq[y] => prev[x] = prev[y]
    /\ seq[x] # 0 => prev[x] \in O /\ seq[prev[x]] + 1 = seq[x]

ForkIn(O) == \E x, y \in O : x # y /\ seq[x] = seq[y]

HighestIn(O, h) == O # {} => h \in O /\ \A y \in O : seq[y] <= seq[h]

\* x is a genesis entry, the entry after h, or a sibling of h.
Follows(O, x, h) ==
  \/ O = {} /\ seq[x] = 0
  \/ O # {} /\ seq[x] = seq[h] + 1 /\ prev[x] = h
  \/ O # {} /\ seq[x] = seq[h] /\ prev[x] = prev[h]

\* A store that gains such an entry keeps its trunk, and becomes forked by a
\* sibling only.
LEMMA TrunkStays ==
  ASSUME NEW n \in Key, NEW O \in SUBSET Obs, OnTrunk(n, O),
         NEW h, HighestIn(O, h),
         NEW x \in Obs \ O, author[x] = n, Follows(O, x, h)
  PROVE  /\ OnTrunk(n, O \cup {x})
         /\ ForkIn(O \cup {x}) <=> ForkIn(O) \/ (O # {} /\ seq[x] = seq[h])
<1> USE DEF OnTrunk, ForkIn, HighestIn
<1>1. \A y \in Obs : seq[y] \in Nat
  BY ObjectsType
<1>2. CASE O = {} /\ seq[x] = 0
  BY <1>2
<1>3. CASE O # {} /\ seq[x] = seq[h] + 1 /\ prev[x] = h
  <2>1. h \in O /\ seq[h] \in Nat /\ \A y \in O : seq[y] # seq[x] /\ y # x
    BY <1>1, <1>3
  <2> QED
    BY <1>1, <1>3, <2>1
<1>4. CASE O # {} /\ seq[x] = seq[h] /\ prev[x] = prev[h]
  <2>1. h \in O /\ h # x
    BY <1>4
  <2> QED
    BY <1>4, <2>1
<1> QED
  BY <1>2, <1>3, <1>4 DEF Follows

\* What the invariant says of one node.
NodeTrunk(n) == OnTrunk(n, observations(n))
Forked(n) == ForkIn(observations(n))

\* Appending to a node, a sibling or a next entry.
LEMMA AppendStep ==
  ASSUME DemoInv, NEW n \in Key, NEW x \in Obs \ observations(n), AppendTo(n, x),
         author[x] = n,
         Follows(observations(n), x, head(n))
  PROVE  /\ StoresOK' /\ SiblingsShareTheTrunk'
         /\ Forked(n)' <=> Forked(n) \/ (observations(n) # {} /\ seq[x] = seq[head(n)])
         /\ \A m \in Key \ {n} : Forked(m)' <=> Forked(m)
<1>1. /\ observations(n)' = observations(n) \cup {x}
      /\ verified(n)' = verified(n) \cup {x}
      /\ \A m \in Key \ {n} : /\ observations(m)' = observations(m)
                              /\ verified(m)' = verified(m)
  BY AppendingAdds
<1>2. StoresOK'
  <2>1. ASSUME NEW m \in Key
        PROVE  /\ observations(m)' \subseteq Obs /\ IsFiniteSet(observations(m)')
               /\ observations(m)' \subseteq verified(m)'
    <3>1. CASE m = n
      BY <1>1, <3>1, FS_AddElement DEF DemoInv, StoresOK
    <3>2. CASE m # n
      BY <1>1, <3>2 DEF DemoInv, StoresOK
    <3> QED
      BY <3>1, <3>2
  <2> QED
    BY <2>1 DEF StoresOK
<1>3. NodeTrunk(n)' /\ (Forked(n)' <=> Forked(n) \/ (observations(n) # {} /\ seq[x] = seq[head(n)]))
  <2>1. PICK O, h : O = observations(n) /\ h = head(n)
    OBVIOUS
  <2>2. O \in SUBSET Obs /\ OnTrunk(n, O)
    BY <2>1 DEF DemoInv, StoresOK, SiblingsShareTheTrunk, OnTrunk
  <2>3. HighestIn(O, h)
    BY <2>1, HeadIsHighest DEF DemoInv, HighestIn
  <2>4. x \in Obs \ O /\ Follows(O, x, h)
    BY <2>1
  <2>5. /\ OnTrunk(n, O \cup {x})
        /\ ForkIn(O \cup {x}) <=> ForkIn(O) \/ (O # {} /\ seq[x] = seq[h])
    BY <2>2, <2>3, <2>4, TrunkStays
  <2> QED
    BY <1>1, <2>1, <2>5 DEF NodeTrunk, Forked
<1>4. \A m \in Key \ {n} : NodeTrunk(m)' /\ (Forked(m)' <=> Forked(m))
  BY <1>1 DEF NodeTrunk, OnTrunk, Forked, DemoInv, SiblingsShareTheTrunk
<1>5. \A m \in Key : NodeTrunk(m)'
  BY <1>3, <1>4
<1>6. SiblingsShareTheTrunk'
  BY <1>5 DEF NodeTrunk, OnTrunk, SiblingsShareTheTrunk
<1> QED
  BY <1>2, <1>3, <1>4, <1>6

LEMMA DemoInvInit == DemoInit => DemoInv
<1> SUFFICES ASSUME DemoInit PROVE DemoInv
  OBVIOUS
<1>1. \A n \in Key : observations(n) = {} /\ quarantine = {}
  BY DEF DemoInit, A!Init, B!Init, observations
<1> QED
  BY <1>1, FS_EmptySet DEF DemoInv, StoresOK, SiblingsShareTheTrunk, ConvictedIffForked

\* The stores' entries stand, and so does what is said of them.
LEMMA StandingEntries ==
  ASSUME DemoInv, UNCHANGED quarantine,
         \A n \in Key : /\ observations(n)' = observations(n)
                        /\ verified(n) \subseteq verified(n)'
  PROVE  DemoInv'
<1>1. StoresOK'
  BY DEF DemoInv, StoresOK
<1>2. SiblingsShareTheTrunk' /\ ConvictedIffForked'
  BY DEF DemoInv, SiblingsShareTheTrunk, ConvictedIffForked
<1> QED
  BY <1>1, <1>2 DEF DemoInv

LEMMA DemoInvNext == DemoInv /\ [DemoNext]_demo => DemoInv'
<1> SUFFICES ASSUME DemoInv, [DemoNext]_demo PROVE DemoInv'
  OBVIOUS
<1>1. \A n \in Key : /\ head(n) = None <=> observations(n) = {}
                     /\ head(n) # None => head(n) \in observations(n)
  BY HeadOrNone, HeadIsHighest DEF DemoInv
<1>2. \A n \in Key : n \in quarantine <=> Forked(n)
  BY DEF DemoInv, ConvictedIffForked, Forked, ForkIn
<1>3. ASSUME NEW n \in Key, Append(n) PROVE DemoInv'
  <2>1. PICK x \in NewEntry(n, IF head(n) = None THEN 0 ELSE seq[head(n)] + 1, head(n)) :
          AppendTo(n, x)
    BY <1>3 DEF Append
  <2>2. /\ x \in Obs \ observations(n) /\ author[x] = n
        /\ \/ observations(n) = {} /\ seq[x] = 0
           \/ observations(n) # {} /\ seq[x] = seq[head(n)] + 1 /\ prev[x] = head(n)
        /\ Follows(observations(n), x, head(n))
    BY <1>1, <2>1 DEF NewEntry, Follows
  <2>3. observations(n) # {} => seq[x] # seq[head(n)]
    <3>1. observations(n) # {} => head(n) \in Obs
      BY <1>1 DEF DemoInv, StoresOK
    <3> QED
      BY <2>2, <3>1, ObjectsType
  <2>4. /\ StoresOK' /\ SiblingsShareTheTrunk'
        /\ \A m \in Key : Forked(m)' <=> Forked(m)
    BY <2>1, <2>2, <2>3, AppendStep
  <2>5. quarantine' = quarantine
    BY <1>3 DEF Append
  <2>6. ConvictedIffForked'
    BY <1>2, <2>4, <2>5 DEF ConvictedIffForked, Forked, ForkIn
  <2> QED
    BY <2>4, <2>6 DEF DemoInv
<1>4. ASSUME NEW n \in Key, Equivocate(n) PROVE DemoInv'
  <2>1. PICK x \in SiblingOfHead(n) : AppendTo(n, x)
    BY <1>4 DEF Equivocate
  <2>2. /\ x \in Obs \ observations(n) /\ author[x] = n /\ observations(n) # {}
        /\ seq[x] = seq[head(n)] /\ prev[x] = prev[head(n)]
        /\ Follows(observations(n), x, head(n))
    BY <1>1, <1>4, <2>1 DEF NewEntry, SiblingOfHead, Equivocate, Follows
  <2>3. /\ StoresOK' /\ SiblingsShareTheTrunk' /\ Forked(n)'
        /\ \A m \in Key \ {n} : Forked(m)' <=> Forked(m)
    BY <2>1, <2>2, AppendStep
  <2>4. Detected(n) # {}
    <3>1. /\ observations(n)' = observations(n) \cup {x}
          /\ verified(n)' = verified(n) \cup {x}
      BY <2>1, <2>2, AppendingAdds
    <3>2. PICK h : h = head(n) /\ h \in observations(n) /\ h \in verified(n) /\ author[h] = n
      BY <1>1, <2>2 DEF DemoInv, StoresOK, SiblingsShareTheTrunk
    <3>3. /\ x \in observations(n)' \cap verified(n)' /\ h \in observations(n)' \cap verified(n)'
          /\ author[x] = n /\ author[h] = n /\ x # h /\ seq[x] = seq[h]
      BY <2>2, <3>1, <3>2
    <3>4. ForksFound'
      BY ForksAreFound, PTL
    <3>5. observations(n)' \subseteq Obs
      BY <2>3 DEF StoresOK
    <3>6. \E p \in forks(n)' : CheckForkProof(p) /\ p.key = n
      BY <3>3, <3>4, <3>5 DEF ForksFound
    <3> QED
      BY <3>6 DEF Detected
  <2>5. quarantine' = quarantine \cup {n}
    <3>1. \A p \in Detected(n) : p.key = n
      BY DEF Detected
    <3>2. {p.key : p \in Detected(n)} = {n}
      BY <2>4, <3>1
    <3> QED
      BY <1>4, <3>2 DEF Equivocate
  <2>6. ConvictedIffForked'
    BY <1>2, <2>3, <2>5 DEF ConvictedIffForked, Forked, ForkIn
  <2> QED
    BY <2>3, <2>6 DEF DemoInv
<1>5. CASE ExchangeAttestation
  <2>1. /\ quarantine' = quarantine
        /\ \E t : A!IngestAttestation(t)
        /\ \E t : B!IngestAttestation(t)
    BY <1>5 DEF ExchangeAttestation
  <2>2. a_observations' = a_observations /\ a_verified \subseteq a_verified'
    BY <2>1 DEF A!IngestAttestation, A!PutAttestation, A!FirstSignature
  <2>3. b_observations' = b_observations /\ b_verified \subseteq b_verified'
    BY <2>1 DEF B!IngestAttestation, B!PutAttestation, B!FirstSignature
  <2> QED
    BY <2>1, <2>2, <2>3, StandingEntries DEF observations, verified
<1>6. ASSUME NEW n \in Key, EquivocateOnEmptyChain(n) PROVE DemoInv'
  BY <1>6, StandingEntries
     DEF EquivocateOnEmptyChain, aStore, bStore, observations, verified
<1>7. CASE UNCHANGED demo
  BY <1>7, StandingEntries DEF demo, aStore, bStore, observations, verified
<1> QED
  BY <1>3, <1>4, <1>5, <1>6, <1>7 DEF DemoNext

LEMMA DemoInvHolds == DemoSpec => []DemoInv
  BY DemoInvInit, DemoInvNext, PTL DEF DemoSpec

\* However the calls of the demo alternate, the entries at one number hang off
\* one trunk, which no call breaks (vigil-wasm lib.rs, append and equivocate).
THEOREM SiblingsAlwaysShareTheTrunk == DemoSpec => []SiblingsShareTheTrunk
<1>1. DemoInv => SiblingsShareTheTrunk
  BY DEF DemoInv
<1> QED
  BY <1>1, DemoInvHolds, PTL

\* Every equivocation is convicted within its call, and nothing else convicts
\* (vigil-wasm lib.rs, equivocate).
THEOREM ConvictedExactlyIfForked == DemoSpec => []ConvictedIffForked
<1>1. DemoInv => ConvictedIffForked
  BY DEF DemoInv
<1> QED
  BY <1>1, DemoInvHolds, PTL

-----------------------------------------------------------------------------
(***************************************************************************)
(* Type correctness.                                                       *)
(***************************************************************************)

\* What is put into a store has its type and its key's signature.
LEMMA StoresKeepType ==
  /\ \A x \in Obs : A!TypeOK /\ A!AppendObservation(x) => A!TypeOK'
  /\ \A t \in Att : A!TypeOK /\ A!IngestAttestation(t) => A!TypeOK'
  /\ \A x \in Obs : B!TypeOK /\ B!AppendObservation(x) => B!TypeOK'
  /\ \A t \in Att : B!TypeOK /\ B!IngestAttestation(t) => B!TypeOK'
<1> USE DemoAssumption, ObjectsType
<1>1. \A x \in Obs : A!TypeOK /\ A!AppendObservation(x) => A!TypeOK'
  BY DEF A!TypeOK, A!AppendObservation, A!PutObservation, A!FirstSignature, A!VerifyId
<1>2. \A t \in Att : A!TypeOK /\ A!IngestAttestation(t) => A!TypeOK'
  BY DEF A!TypeOK, A!IngestAttestation, A!PutAttestation, A!FirstSignature, A!VerifyId
<1>3. \A x \in Obs : B!TypeOK /\ B!AppendObservation(x) => B!TypeOK'
  BY DEF B!TypeOK, B!AppendObservation, B!PutObservation, B!FirstSignature, B!VerifyId
<1>4. \A t \in Att : B!TypeOK /\ B!IngestAttestation(t) => B!TypeOK'
  BY DEF B!TypeOK, B!IngestAttestation, B!PutAttestation, B!FirstSignature, B!VerifyId
<1> QED
  BY <1>1, <1>2, <1>3, <1>4

LEMMA StandingType ==
  /\ A!TypeOK /\ UNCHANGED aStore => A!TypeOK'
  /\ B!TypeOK /\ UNCHANGED bStore => B!TypeOK'
  BY DEF A!TypeOK, B!TypeOK, aStore, bStore

\* The stores of the demo hold objects of their universe and count as verified
\* only what was signed, and the clock stays within its calls.
THEOREM DemoTypeCorrect == DemoSpec => []DemoTypeOK
<1>1. DemoInit => DemoTypeOK
  BY DemoAssumption DEF DemoInit, A!Init, B!Init, DemoTypeOK, A!TypeOK, B!TypeOK
<1>2. DemoTypeOK /\ [DemoNext]_demo => DemoTypeOK'
  <2> SUFFICES ASSUME DemoTypeOK, [DemoNext]_demo PROVE DemoTypeOK'
    OBVIOUS
  <2>1. A!TypeOK /\ B!TypeOK /\ quarantine \subseteq Key /\ clock \in 0 .. MaxCalls
    BY DEF DemoTypeOK
  <2>2. Tick => clock' \in 0 .. MaxCalls
    BY <2>1, DemoAssumption DEF Tick
  <2>3. \A n \in Key, x \in Obs : AppendTo(n, x) => A!TypeOK' /\ B!TypeOK'
    BY <2>1, StoresKeepType, StandingType DEF AppendTo
  <2>4. ASSUME NEW n \in Key, Append(n) PROVE DemoTypeOK'
    BY <2>1, <2>2, <2>3, <2>4 DEF Append, NewEntry, DemoTypeOK
  <2>5. ASSUME NEW n \in Key, Equivocate(n) PROVE DemoTypeOK'
    <3>1. {p.key : p \in Detected(n)} \subseteq Key
      BY DEF Detected
    <3> QED
      BY <2>1, <2>2, <2>3, <2>5, <3>1 DEF Equivocate, SiblingOfHead, NewEntry, DemoTypeOK
  <2>6. CASE ExchangeAttestation
    <3>1. /\ \E t \in Att : A!IngestAttestation(t)
          /\ \E t \in Att : B!IngestAttestation(t)
      BY <2>6 DEF ExchangeAttestation, NewAttestation
    <3> QED
      BY <2>1, <2>2, <2>6, <3>1, StoresKeepType DEF ExchangeAttestation, DemoTypeOK
  <2>7. ASSUME NEW n \in Key, EquivocateOnEmptyChain(n) PROVE DemoTypeOK'
    BY <2>1, <2>2, <2>7, StandingType DEF EquivocateOnEmptyChain, DemoTypeOK
  <2>8. CASE UNCHANGED demo
    BY <2>1, <2>8, StandingType DEF demo, DemoTypeOK
  <2> QED
    BY <2>4, <2>5, <2>6, <2>7, <2>8 DEF DemoNext
<1> QED
  BY <1>1, <1>2, PTL DEF DemoSpec

-----------------------------------------------------------------------------
(***************************************************************************)
(* What an exchange seals.                                                 *)
(***************************************************************************)

\* The records sealed in the DAG over the entries O and the attestations T.
SealedIn(O, T, Q) == {r \in O : Sealing(Build(O, T, Q), r) # {}}

\* The trunk below h of the entries O.
TrunkBelow(h, O) == {x \in O : x = h \/ \E y \in O : prev[y] = x}

\* t attests the highest entry of a store whose entries hang off one trunk.
AttestsHead(t, n, O) ==
  /\ t \in Att /\ subject[t] = n
  /\ subject_head[t] \in O /\ subject_seq[t] = seq[subject_head[t]]
  /\ \A y \in O : seq[y] <= seq[subject_head[t]]

\* The walk from the head finds, at each number below, an entry that hangs off
\* the trunk, and so the trunk itself.
LEMMA TrunkIsWalked ==
  ASSUME NEW n, NEW O \in SUBSET Obs, IsFiniteSet(O), OnTrunk(n, O),
         NEW t, AttestsHead(t, n, O), NEW y \in O, prev[y] \in O
  PROVE  prev[y] \in Walk(O, t)
<1> DEFINE h == subject_head[t]
           branch == {x \in O : author[x] = subject[t]}
           closed == {S \in SUBSET branch : /\ h \in S
                                            /\ \A x \in S : prev[x] \in branch => prev[x] \in S}
<1>1. branch = O /\ h \in O
  BY DEF OnTrunk, AttestsHead
<1>2. ASSUME NEW S \in closed PROVE prev[y] \in S
  <2>1. S \in SUBSET O /\ h \in S /\ \A x \in S : prev[x] \in O => prev[x] \in S
    BY <1>1
  <2> DEFINE numbers == {seq[x] : x \in S}
             number == [x \in S |-> seq[x]]
  <2>2. \A x \in O : seq[x] \in Nat
    BY ObjectsType
  <2>3. IsFiniteSet(numbers)
    <3>1. number \in Surjection(S, numbers)
      BY DEF Surjection
    <3>2. IsFiniteSet(S)
      BY <2>1, FS_Subset
    <3> HIDE DEF number, numbers
    <3> QED
      BY <3>1, <3>2, FS_Surjection
  <2>4. numbers \in SUBSET Nat /\ seq[h] \in numbers
    BY <2>1, <2>2
  <2>5. \A m \in numbers : m > 0 => m - 1 \in numbers
    <3> SUFFICES ASSUME NEW x \in S, seq[x] > 0 PROVE \E z \in S : seq[z] = seq[x] - 1
      BY DEF numbers
    <3>1. prev[x] \in S /\ seq[prev[x]] + 1 = seq[x]
      BY <2>1, <2>2 DEF OnTrunk
    <3>2. seq[prev[x]] = seq[x] - 1
      BY <2>1, <2>2, <3>1
    <3> QED
      BY <3>1, <3>2
  <2>6. seq[y] \in numbers
    <3>1. numbers = 0 .. Max(numbers) /\ Max(numbers) \in Nat /\ seq[h] <= Max(numbers)
      <4> HIDE DEF numbers
      <4> QED
        BY <2>3, <2>4, <2>5, ClosedBelowIsInterval, LargestExists
    <3>2. seq[y] <= seq[h] /\ seq[y] \in Nat /\ seq[h] \in Nat
      BY <1>1, <2>2 DEF AttestsHead
    <3>3. seq[y] \in 0 .. Max(numbers)
      BY <3>1, <3>2
    <3> QED
      BY <3>1, <3>3
  <2>7. PICK z \in S : seq[z] = seq[y]
    BY <2>6
  <2>8. prev[z] = prev[y]
    BY <2>1, <2>7 DEF OnTrunk
  <2> QED
    BY <2>1, <2>8
<1>3. prev[y] \in branch
  BY <1>1
<1> HIDE DEF closed, branch
<1> QED
  BY <1>2, <1>3 DEF Walk, closed, branch

\* The head itself is walked from, and of the rest only what hangs below.
LEMMA NothingElseIsWalked ==
  ASSUME NEW n, NEW O \in SUBSET Obs, OnTrunk(n, O), NEW t, AttestsHead(t, n, O),
         NEW x \in O
  PROVE  /\ x = subject_head[t] => x \in Walk(O, t)
         /\ x \in Walk(O, t) => x = subject_head[t] \/ \E y \in O : prev[y] = x
<1> DEFINE h == subject_head[t]
           branch == {z \in O : author[z] = subject[t]}
           closed == {S \in SUBSET branch : /\ h \in S
                                            /\ \A z \in S : prev[z] \in branch => prev[z] \in S}
<1>1. branch = O /\ h \in O
  BY DEF OnTrunk, AttestsHead
<1>2. Walk(O, t) = branch \ UNION {branch \ S : S \in closed}
  BY DEF Walk
<1>3. \A S \in closed : h \in S
  OBVIOUS
<1>4. ASSUME x # h, \A y \in O : prev[y] # x
      PROVE  O \ {x} \in closed
  BY <1>1, <1>4
<1> HIDE DEF closed, branch, h
<1>5. x = h => x \in Walk(O, t)
  BY <1>1, <1>2, <1>3
<1>6. x \in Walk(O, t) => x = h \/ \E y \in O : prev[y] = x
  BY <1>1, <1>2, <1>4
<1> QED
  BY <1>5, <1>6 DEF h

\* What a new attestation of the head adds to what is sealed: the trunk.
LEMMA TrunkIsSealed ==
  ASSUME NEW n, NEW O \in SUBSET Obs, IsFiniteSet(O), OnTrunk(n, O),
         NEW T \in SUBSET Att, NEW Q, NEW t, AttestsHead(t, n, O),
         witness[t] # n, witness[t] \notin Q
  PROVE  SealedIn(O, T \cup {t}, Q) =
           SealedIn(O, T, Q) \cup TrunkBelow(subject_head[t], O)
<1> DEFINE U == T \cup {t}
           trunk == {x \in O : x = subject_head[t] \/ \E y \in O : prev[y] = x}
<1>0. /\ U \in SUBSET Att /\ T \subseteq U /\ t \in U
      /\ \A x \in O : author[x] = n /\ x \in Obs
      /\ Sealer(O, Q, t) /\ subject[t] = n
      /\ \A a \in Att : a \notin Obs
  BY ObjectsType DEF AttestsHead, OnTrunk, Sealer, Anchored
<1>1. /\ Build(O, T, Q).attestations = T /\ Build(O, U, Q).attestations = U
  BY DEF Build
<1> HIDE DEF U
<1>2. ASSUME NEW x \in SealedIn(O, T, Q) PROVE x \in SealedIn(O, U, Q)
  <2>1. PICK a \in T : witness[a] # author[x] /\ <<x, a>> \in Build(O, T, Q).order
    BY <1>1 DEF SealedIn, Sealing
  <2>2. Owner(x) = n
    BY <1>0 DEF SealedIn, Owner
  <2>3. <<x, a>> \in Build(O, U, Q).order
    BY <1>0, <2>1, <2>2, OrderGrows
  <2> QED
    BY <1>0, <1>1, <2>1, <2>3 DEF SealedIn, Sealing
<1>3. ASSUME NEW R \in SUBSET Att, NEW a \in R, Sealer(O, Q, a), NEW x \in Walk(O, a), x \in O,
             subject[a] = n
      PROVE  x \in SealedIn(O, R, Q)
  <2> DEFINE V == O \cup R
             E == Edge(O, R, Q)
             e == <<x, a>>
  <2>1. e \in SealEdge(O, R, Q)
    BY <1>3 DEF SealEdge
  <2>2. e \in E /\ e[1] = x /\ e[2] = a
    BY <2>1 DEF Edge
  <2>3. \A d \in E : d[1] \in V /\ d[2] \in V
    BY EdgesGoForward
  <2>4. <<e[1], e[2]>> \in Closure(V, E)
    <3> HIDE DEF V, E, e
    <3> QED
      BY <2>2, <2>3, PathsGoOn
  <2>5. <<x, a>> \in Build(O, R, Q).order
    BY <2>2, <2>4, OrderIsClosure
  <2>6. Build(O, R, Q).attestations = R /\ witness[a] # author[x]
    BY <1>0, <1>3 DEF Build, Sealer
  <2> QED
    BY <1>3, <2>5, <2>6 DEF SealedIn, Sealing
<1>4. ASSUME NEW x \in trunk PROVE x \in SealedIn(O, U, Q)
  <2>1. x \in Walk(O, t) /\ x \in O
    BY TrunkIsWalked, NothingElseIsWalked
  <2> QED
    BY <1>0, <1>3, <2>1
<1>5. ASSUME NEW x \in SealedIn(O, U, Q), x \notin trunk
      PROVE  x \in SealedIn(O, T, Q)
  <2> DEFINE V == O \cup U
             E == Edge(O, U, Q)
  <2>1. PICK a \in U : <<x, a>> \in Build(O, U, Q).order
    BY <1>1 DEF SealedIn, Sealing
  <2>2. <<x, a>> \in Closure(V, E) /\ \A d \in E : d[2] \in V
    BY <1>0, <2>1, OrderIsClosure, EdgesGoForward
  <2>3. PICK e \in E : e[1] = x
    <3> HIDE DEF V, E
    <3> QED
      BY <2>2, PathsHaveEnds
  <2>4. x \in O /\ x \in Obs /\ \A y \in O : prev[y] # x
    BY <1>0, <1>5 DEF SealedIn
  <2>5. e \notin ChainEdge(O) /\ e \notin AckEdge(O, U)
    BY <1>0, <2>3, <2>4 DEF ChainEdge, AckEdge
  <2>6. PICK b \in U : Sealer(O, Q, b) /\ e \in Walk(O, b) \X {b}
    BY <2>3, <2>5 DEF Edge, SealEdge
  <2>7. x \in Walk(O, b)
    BY <2>3, <2>6
  <2>8. b # t
    BY <1>5, <2>4, <2>7, NothingElseIsWalked
  <2>9. subject[b] = n
    BY <1>0, <2>4, <2>7 DEF Walk
  <2> QED
    BY <1>3, <2>4, <2>6, <2>7, <2>8, <2>9 DEF U
<1>6. SealedIn(O, U, Q) \subseteq O
  BY DEF SealedIn
<1> HIDE DEF trunk
<1> QED
  BY <1>2, <1>4, <1>5 DEF U, trunk, TrunkBelow

\* Where everybody else is convicted, nothing is sealed.
LEMMA NothingIsSealed ==
  ASSUME NEW n, NEW O \in SUBSET Obs, OnTrunk(n, O), NEW T \in SUBSET Att, NEW Q,
         Key \ {n} \subseteq Q
  PROVE  SealedIn(O, T, Q) = {}
<1> DEFINE D == Build(O, T, Q)
<1>1. IsDag(D) /\ D.observations = O /\ D.attestations = T /\ D.quarantined = Q
  BY DEF IsDag, Build
<1> HIDE DEF D
<1> SUFFICES ASSUME NEW r \in O, NEW a \in Sealing(D, r) PROVE FALSE
  BY DEF SealedIn, D
<1>2. witness[a] \notin Q
  BY <1>1, SealingIsByOthers
<1>3. a \in T /\ witness[a] # author[r] /\ author[r] = n
  BY <1>1 DEF Sealing, OnTrunk
<1>4. witness[a] \in Key
  BY <1>3, ObjectsType
<1> QED
  BY <1>2, <1>3, <1>4

\* A store of the universe's objects, its entries all verified.
StoreTyped(n) ==
  /\ observations(n) \subseteq Obs /\ observations(n) \subseteq verified(n)
  /\ attestations(n) \subseteq Att

\* The records of a node that DemoCore::bracket reports as sealed.
SealedByBracket ==
  \A n \in Key : StoreTyped(n) =>
    SealedOf(n) = SealedIn(observations(n), attestations(n) \cap verified(n), quarantine)

LEMMA SealedAreBracketed == SealedByBracket
<1> SUFFICES ASSUME NEW n \in Key, StoreTyped(n)
             PROVE  SealedOf(n) = SealedIn(observations(n), attestations(n) \cap verified(n), quarantine)
  BY DEF SealedByBracket
<1> DEFINE O == observations(n)
           T == attestations(n) \cap verified(n)
           D == Build(O, T, quarantine)
<1>1. BuildFromStore(observations(n) \cup attestations(n), verified(n), quarantine) = D
  <2>1. (O \cup attestations(n)) \cap verified(n) \cap Obs = O
    BY ObjectsType DEF StoreTyped
  <2>2. (O \cup attestations(n)) \cap verified(n) \cap Att = T
    BY ObjectsType DEF StoreTyped
  <2> QED
    BY <2>1, <2>2 DEF BuildFromStore
<1>2. D.observations = O
  BY DEF Build
<1>3. SealedIn(O, T, quarantine) = {r \in O : Sealing(D, r) # {}}
  BY DEF SealedIn
<1> HIDE DEF D, O
<1>4. BracketsOf(n) = {Bracket(D, r) : r \in O}
  BY <1>1, <1>2 DEF BracketsOf, Brackets, O
<1>5. \A r : Bracket(D, r).observation = r /\ Bracket(D, r).sealed = (Sealing(D, r) # {})
  BY DEF Bracket
<1>6. \A r : Bracket(D, r).sealed <=> Sealing(D, r) # {}
  BY <1>5
<1>7. {b.observation : b \in {c \in BracketsOf(n) : c.sealed}} = {r \in O : Sealing(D, r) # {}}
  BY <1>4, <1>5, <1>6
<1> QED
  BY <1>3, <1>7 DEF SealedOf, O

\* What ingest adds to a store, the attestation not being held.
LEMMA IngestingAdds ==
  /\ \A t \in Att \ a_attestations : A!IngestAttestation(t) =>
       /\ a_observations' = a_observations
       /\ a_attestations' = a_attestations \cup {t} /\ a_verified' = a_verified \cup {t}
  /\ \A t \in Att \ b_attestations : B!IngestAttestation(t) =>
       /\ b_observations' = b_observations
       /\ b_attestations' = b_attestations \cup {t} /\ b_verified' = b_verified \cup {t}
<1>1. \A t : A!IngestAttestation(t) => A!VerifyId(t, TRUE) /\ A!PutAttestation(t, TRUE)
  BY DEF A!IngestAttestation
<1>2. \A t : B!IngestAttestation(t) => B!VerifyId(t, TRUE) /\ B!PutAttestation(t, TRUE)
  BY DEF B!IngestAttestation
<1> QED
  BY <1>1, <1>2 DEF A!PutAttestation, A!FirstSignature, B!PutAttestation, B!FirstSignature

\* Each store gains the other node's attestation of its own head.
LEMMA ExchangeStep ==
  ASSUME DemoInv, ExchangeAttestation, NEW n \in Key
  PROVE  \E t \in Att :
           /\ AttestsHead(t, n, observations(n)) /\ subject_head[t] = head(n)
           /\ witness[t] \in Key \ {n}
           /\ observations(n)' = observations(n)
           /\ attestations(n)' = attestations(n) \cup {t}
           /\ verified(n)' = verified(n) \cup {t}
<1>1. observations(n) # {} /\ head(n) \in observations(n)
      /\ \A y \in observations(n) : seq[y] <= seq[head(n)]
  <2>1. head(n) # None
    BY DemoAssumption DEF ExchangeAttestation
  <2> QED
    BY <2>1, HeadIsHighest DEF DemoInv
<1>2. \A w \in Key \ {n} : \A t \in NewAttestation(w, n) :
        /\ AttestsHead(t, n, observations(n)) /\ subject_head[t] = head(n)
        /\ witness[t] \in Key \ {n} /\ t \in Att \ attestations(n)
  BY <1>1 DEF NewAttestation, AttestsHead
<1>3. CASE n = "a"
  <2>1. PICK t \in NewAttestation("b", "a") : A!IngestAttestation(t)
    BY DEF ExchangeAttestation
  <2>2. "b" \in Key \ {n} /\ t \in Att \ a_attestations
    BY <1>3, <2>1, DemoAssumption DEF NewAttestation, attestations
  <2>3. /\ a_observations' = a_observations
        /\ a_attestations' = a_attestations \cup {t} /\ a_verified' = a_verified \cup {t}
    BY <2>1, <2>2, IngestingAdds
  <2> QED
    BY <1>2, <1>3, <2>1, <2>2, <2>3 DEF observations, attestations, verified
<1>4. CASE n = "b"
  <2>1. PICK t \in NewAttestation("a", "b") : B!IngestAttestation(t)
    BY DEF ExchangeAttestation
  <2>2. "a" \in Key \ {n} /\ t \in Att \ b_attestations
    BY <1>4, <2>1, DemoAssumption DEF NewAttestation, attestations
  <2>3. /\ b_observations' = b_observations
        /\ b_attestations' = b_attestations \cup {t} /\ b_verified' = b_verified \cup {t}
    BY <2>1, <2>2, IngestingAdds
  <2> QED
    BY <1>2, <1>4, <2>1, <2>2, <2>3, DemoAssumption DEF observations, attestations, verified
<1> QED
  BY <1>3, <1>4, DemoAssumption

\* An exchange seals exactly the trunk in each store, and nothing at all where
\* the witness is convicted, after any number of calls (vigil-wasm lib.rs,
\* exchange_attestation and bracket).
THEOREM ExchangeAlwaysSealsTheTrunk == DemoSpec => ExchangeSealsTheTrunk
<1>1. DemoInv /\ DemoInv' /\ DemoTypeOK /\ DemoTypeOK' /\ ExchangeAttestation =>
        \A n \in Key : IF Key \ {n} \subseteq quarantine THEN SealedOf(n)' = {}
                       ELSE SealedOf(n)' = SealedOf(n) \cup Trunk(n)
  <2> SUFFICES ASSUME DemoInv, DemoInv', DemoTypeOK, DemoTypeOK', ExchangeAttestation,
                      NEW n \in Key
               PROVE  IF Key \ {n} \subseteq quarantine THEN SealedOf(n)' = {}
                      ELSE SealedOf(n)' = SealedOf(n) \cup Trunk(n)
    OBVIOUS
  <2>1. PICK t \in Att :
           /\ AttestsHead(t, n, observations(n)) /\ subject_head[t] = head(n)
           /\ witness[t] \in Key \ {n}
           /\ observations(n)' = observations(n)
           /\ attestations(n)' = attestations(n) \cup {t}
           /\ verified(n)' = verified(n) \cup {t}
    BY ExchangeStep
  <2>2. attestations(n) \subseteq Att
    BY DEF DemoTypeOK, A!TypeOK, B!TypeOK, attestations
  <2>3. PICK O, T, Q, h :
          /\ O = observations(n) /\ T = attestations(n) \cap verified(n)
          /\ Q = quarantine /\ h = head(n)
    OBVIOUS
  <2>4. /\ O \in SUBSET Obs /\ IsFiniteSet(O) /\ O \subseteq verified(n)
        /\ OnTrunk(n, O) /\ T \in SUBSET Att /\ quarantine' = Q
    BY <2>2, <2>3 DEF DemoInv, StoresOK, SiblingsShareTheTrunk, OnTrunk, ExchangeAttestation
  <2>5. SealedOf(n) = SealedIn(O, T, Q)
    <3>1. StoreTyped(n)
      BY <2>2, <2>3, <2>4 DEF StoreTyped
    <3> QED
      BY <2>3, <3>1, SealedAreBracketed DEF SealedByBracket
  <2>6. SealedOf(n)' = SealedIn(O, (attestations(n) \cup {t}) \cap (verified(n) \cup {t}), Q)
    <3>1. SealedByBracket'
      BY SealedAreBracketed, PTL
    <3>2. StoreTyped(n)'
      BY <2>1, <2>2, <2>3, <2>4 DEF StoreTyped
    <3> QED
      BY <2>1, <2>3, <2>4, <3>1, <3>2 DEF SealedByBracket
  <2>7. (attestations(n) \cup {t}) \cap (verified(n) \cup {t}) = T \cup {t}
    BY <2>3
  <2>8. SealedOf(n)' = SealedIn(O, T \cup {t}, Q)
    BY <2>6, <2>7
  <2>9. CASE Key \ {n} \subseteq Q
    <3>1. T \cup {t} \in SUBSET Att
      BY <2>4
    <3>2. SealedIn(O, T \cup {t}, Q) = {}
      BY <2>4, <2>9, <3>1, NothingIsSealed
    <3> QED
      BY <2>3, <2>8, <2>9, <3>2
  <2>10. CASE ~ Key \ {n} \subseteq Q
    <3>1. witness[t] # n /\ witness[t] \notin Q
      BY <2>1, <2>10, DemoAssumption
    <3>2. AttestsHead(t, n, O) /\ subject_head[t] = h
      BY <2>1, <2>3
    <3>3. SealedIn(O, T \cup {t}, Q) = SealedIn(O, T, Q) \cup TrunkBelow(subject_head[t], O)
      BY <2>4, <3>1, <3>2, TrunkIsSealed
    <3>4. Trunk(n) = TrunkBelow(h, O)
      BY <2>3 DEF Trunk, TrunkBelow
    <3> QED
      BY <2>3, <2>5, <2>8, <2>10, <3>2, <3>3, <3>4
  <2> QED
    BY <2>9, <2>10
<1> QED
  BY <1>1, DemoInvHolds, DemoTypeCorrect, PTL DEF DemoSpec, ExchangeSealsTheTrunk

=============================================================================
