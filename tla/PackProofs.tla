------------------------------- MODULE PackProofs -------------------------------
(***************************************************************************)
(* What holds of every DAG and bracket a ledger yields, proved for every   *)
(* universe of objects and keys; and what a stranger may believe of a      *)
(* pack, for every ledger, every pack and every number of losses on the    *)
(* way.                                                                    *)
(***************************************************************************)
EXTENDS PackExchange, Evidence, LedgerProofs, DagProofs

-----------------------------------------------------------------------------
(***************************************************************************)
(* The DAG of a ledger.                                                    *)
(***************************************************************************)

\* What a question asked now would build from the ledger.
Current == BuildFromStore(observations \cup attestations, verified, quarantine)
IsCurrent == dag = Current

\* `dag` is built from what the ledger holds under signatures that verify.
DagIsCurrent ==
  /\ IsDag(dag)
  /\ dag.observations = observations \cap verified
  /\ dag.attestations = attestations \cap verified
  /\ dag.quarantined = quarantine

\* Finitely much is held at any time.
HeldIsFinite == IsFiniteSet(attestations)

LEMMA EvidenceIsLedger == EvidenceSpec => Spec
<1>1. EvidenceInit => Init
  BY DEF EvidenceInit
<1>2. [EvidenceNext]_evidence => [Next]_vars
  BY DEF EvidenceNext, evidence, vars
<1> QED
  BY <1>1, <1>2, PTL DEF EvidenceSpec, Spec

LEMMA DagFollowsLedger == EvidenceSpec => [](TypeOK /\ DagIsCurrent)
<1>1. EvidenceInit => IsCurrent
  BY DEF IsCurrent, EvidenceInit, Init, Current, BuildFromStore
<1>2. IsCurrent /\ [EvidenceNext]_evidence => IsCurrent'
  BY DEF IsCurrent, EvidenceNext, evidence, vars, Current
<1>3. EvidenceSpec => []IsCurrent
  BY <1>1, <1>2, PTL DEF EvidenceSpec
<1>4. TypeOK /\ IsCurrent => DagIsCurrent
  <2> SUFFICES ASSUME TypeOK, IsCurrent PROVE DagIsCurrent
    OBVIOUS
  <2>1. /\ dag.observations = (observations \cup attestations) \cap verified \cap Obs
        /\ dag.attestations = (observations \cup attestations) \cap verified \cap Att
        /\ dag.quarantined = quarantine
        /\ dag = Build(dag.observations, dag.attestations, dag.quarantined)
    BY DEF IsCurrent, Current, BuildFromStore, Build
  <2>2. /\ (observations \cup attestations) \cap verified \cap Obs = observations \cap verified
        /\ (observations \cup attestations) \cap verified \cap Att = attestations \cap verified
    BY ObjectsType DEF TypeOK
  <2>3. /\ observations \cap verified \in SUBSET Obs
        /\ attestations \cap verified \in SUBSET Att
    BY DEF TypeOK
  <2> QED
    BY <2>1, <2>2, <2>3 DEF DagIsCurrent, IsDag
<1> QED
  BY <1>3, <1>4, EvidenceIsLedger, TypeCorrect, PTL

\* "Before" is only ever said of what was made before, whoever lied in what was
\* signed (dag.rs Dag::build).
THEOREM OrderIsAlwaysSound == EvidenceSpec => []OrderIsSound
<1>1. DagIsCurrent => OrderIsSound
  BY HeldOrder DEF OrderIsSound, DagIsCurrent
<1> QED
  BY <1>1, DagFollowsLedger, PTL

\* No path of the DAG leaves the chain of one author (spec/02 4.6).
THEOREM OrderNeverLeavesChain == EvidenceSpec => []OrderStaysInChain
<1>1. DagIsCurrent => OrderStaysInChain
  BY HeldOrder DEF OrderStaysInChain, DagIsCurrent
<1> QED
  BY <1>1, DagFollowsLedger, PTL

-----------------------------------------------------------------------------
(***************************************************************************)
(* A bracket encloses its record.                                          *)
(***************************************************************************)

\* Both bounds are about the record's author, by another key and on their side
\* of the record; sealed and bounded above are the same (bracket.rs).
THEOREM BracketsAlwaysEnclose == EvidenceSpec => []BracketEncloses
<1>1. DagIsCurrent => BracketEncloses
  <2> SUFFICES ASSUME DagIsCurrent, NEW b \in Brackets(dag)
               PROVE  LET r == b.observation L == b.lower_bound U == b.upper_bound
                      IN  /\ L # None => L \in attestations /\ made[L] < made[r] /\ subject[L] = author[r]
                          /\ U # None => U \in attestations /\ made[r] < made[U] /\ subject[U] = author[r]
                          /\ b.sealed <=> U # None
                          /\ b.preceding # {} <=> L # None
    BY DEF BracketEncloses
  <2>1. PICK r \in dag.observations : b = Bracket(dag, r)
    BY DEF Brackets
  <2>2. /\ b.observation = r /\ b.preceding = Preceding(dag, r)
        /\ b.lower_bound = LowerBound(dag, r) /\ b.upper_bound = UpperBound(dag, r)
    BY <2>1 DEF Bracket
  <2>3. b.sealed <=> Sealing(dag, r) # {}
    BY <2>1 DEF Bracket
  <2>4. dag.attestations \in SUBSET attestations /\ IsDag(dag)
    BY DEF DagIsCurrent
  <2>5. /\ LowerBound(dag, r) # None =>
             /\ LowerBound(dag, r) \in attestations /\ made[LowerBound(dag, r)] < made[r]
             /\ subject[LowerBound(dag, r)] = author[r]
        /\ UpperBound(dag, r) # None =>
             /\ UpperBound(dag, r) \in attestations /\ made[r] < made[UpperBound(dag, r)]
             /\ subject[UpperBound(dag, r)] = author[r]
    BY <2>4, BoundsBound, WhatSeals
  <2>6. b.sealed <=> UpperBound(dag, r) # None
    BY <2>3, <2>4, BoundsBound
  <2>7. b.preceding # {} <=> LowerBound(dag, r) # None
    BY <2>2, <2>4, BoundsBound
  <2> QED
    BY <2>2, <2>5, <2>6, <2>7
<1> QED
  BY <1>1, DagFollowsLedger, PTL

\* No sealing attestation precedes U and none that precedes the record follows L.
THEOREM BoundsAreAlwaysTight == EvidenceSpec => []BoundsAreTight
<1>1. DagIsCurrent => BoundsAreTight
  <2> SUFFICES ASSUME IsDag(dag), NEW r \in dag.observations
               PROVE  /\ \A a \in Sealing(dag, r) : <<a, UpperBound(dag, r)>> \notin dag.order
                      /\ \A a \in Preceding(dag, r) : <<LowerBound(dag, r), a>> \notin dag.order
    BY DEF BoundsAreTight, Brackets, Bracket, DagIsCurrent
  <2> QED
    BY OrderIrreflexive, BoundsBound DEF Earliest, Latest
<1> QED
  BY <1>1, DagFollowsLedger, PTL

\* Depth counts real signatures of distinct keys that are neither the author nor
\* convicted (bracket.rs witness_depth); of finitely many keys.
THEOREM DepthAlwaysCountsWitnesses ==
  ASSUME IsFiniteSet(Key)
  PROVE  EvidenceSpec => []DepthCountsWitnesses
<1>1. TypeOK /\ DagIsCurrent => DepthCountsWitnesses
  <2> SUFFICES ASSUME TypeOK, DagIsCurrent, NEW r \in dag.observations
               PROVE  /\ Sealing(dag, r) \subseteq SignedAtt
                      /\ {witness[a] : a \in Sealing(dag, r)} \subseteq Key \ (quarantine \cup {author[r]})
                      /\ WitnessDepth(dag, r) <= Cardinality(Key \ (quarantine \cup {author[r]}))
    BY DEF DepthCountsWitnesses, Brackets, Bracket
  <2>1. Sealing(dag, r) \subseteq SignedAtt
    BY ObjectsType DEF Sealing, DagIsCurrent, TypeOK
  <2>2. {witness[a] : a \in Sealing(dag, r)} \subseteq Key \ (quarantine \cup {author[r]})
    <3> SUFFICES ASSUME NEW a \in Sealing(dag, r)
                 PROVE  witness[a] \in Key /\ witness[a] \notin quarantine /\ witness[a] # author[r]
      OBVIOUS
    <3>1. witness[a] \notin quarantine
      BY SealingIsByOthers DEF DagIsCurrent
    <3> QED
      BY <2>1, <3>1, ObjectsType DEF Sealing
  <2>3. IsFiniteSet(Key \ (quarantine \cup {author[r]}))
    BY FS_Subset
  <2> QED
    BY <2>1, <2>2, <2>3, FS_Subset DEF WitnessDepth
<1> QED
  BY <1>1, DagFollowsLedger, PTL

-----------------------------------------------------------------------------
(***************************************************************************)
(* Learning more never unseals.                                            *)
(***************************************************************************)

\* Every step of the ledger leaves the DAG with what it had.
LEMMA DagGrows ==
  ASSUME DagIsCurrent, DagIsCurrent', [EvidenceNext]_evidence
  PROVE  /\ dag.observations \subseteq dag'.observations
         /\ dag.attestations \subseteq dag'.attestations
<1>1. [Next]_vars
  BY DEF EvidenceNext, evidence, vars
<1> QED
  BY <1>1, StoreGrows DEF DagIsCurrent

\* As long as nobody but its author is convicted, whatever arrives leaves a
\* record everything that sealed or preceded it.
LEMMA SealsGrow ==
  ASSUME DagIsCurrent, DagIsCurrent', [EvidenceNext]_evidence,
         NEW r \in dag.observations, quarantine' \ quarantine \subseteq {author[r]}
  PROVE  /\ r \in dag'.observations
         /\ Sealing(dag, r) \subseteq Sealing(dag', r)
         /\ Preceding(dag, r) \subseteq Preceding(dag', r)
<1>1. /\ dag.observations \in SUBSET Obs /\ dag'.observations \in SUBSET Obs
      /\ dag.attestations \in SUBSET Att /\ dag'.attestations \in SUBSET Att
      /\ dag.observations \subseteq dag'.observations
      /\ dag.attestations \subseteq dag'.attestations
      /\ dag'.quarantined \ dag.quarantined \subseteq {author[r]}
  BY DagGrows DEF DagIsCurrent, IsDag
<1>2. /\ dag.order = Build(dag.observations, dag.attestations, dag.quarantined).order
      /\ dag'.order = Build(dag'.observations, dag'.attestations, dag'.quarantined).order
  BY DEF DagIsCurrent, IsDag
<1>3. ASSUME NEW x, NEW y, <<x, y>> \in dag.order, Owner(x) = author[r]
      PROVE  <<x, y>> \in dag'.order
  <2>1. PICK O1, O2, A1, A2, Q1, Q2 :
          /\ O1 = dag.observations /\ A1 = dag.attestations /\ Q1 = dag.quarantined
          /\ O2 = dag'.observations /\ A2 = dag'.attestations /\ Q2 = dag'.quarantined
    OBVIOUS
  <2>2. <<x, y>> \in Build(O1, A1, Q1).order
    BY <1>2, <1>3, <2>1
  <2>3. <<x, y>> \in Build(O2, A2, Q2).order
    <3>1. PICK k : k = author[r]
      OBVIOUS
    <3>2. /\ O1 \in SUBSET Obs /\ O2 \in SUBSET Obs /\ O1 \subseteq O2
          /\ A1 \in SUBSET Att /\ A2 \in SUBSET Att /\ A1 \subseteq A2
      BY <1>1, <2>1
    <3>3. \A a \in A1 : subject[a] = k /\ witness[a] # k /\ witness[a] \in Q2 => witness[a] \in Q1
      BY <1>1, <2>1, <3>1
    <3>4. Owner(x) = k
      BY <1>3, <3>1
    <3> QED
      BY <2>2, <3>2, <3>3, <3>4, OrderGrows
  <2> QED
    BY <1>2, <2>1, <2>3
<1>4. Owner(r) = author[r]
  BY <1>1 DEF Owner
<1>5. Sealing(dag, r) \subseteq Sealing(dag', r)
  BY <1>1, <1>3, <1>4 DEF Sealing
<1>6. \A a \in Preceding(dag, r) : Owner(a) = author[r]
  <2> SUFFICES ASSUME NEW a \in Preceding(dag, r) PROVE Owner(a) = author[r]
    OBVIOUS
  <2>1. <<a, r>> \in dag.order /\ IsDag(dag)
    BY DEF Preceding, DagIsCurrent
  <2>2. Owner(<<a, r>>[2]) = Owner(<<a, r>>[1])
    BY <2>1, HeldOrder
  <2> QED
    BY <1>4, <2>2
<1>7. Preceding(dag, r) \subseteq Preceding(dag', r)
  BY <1>1, <1>3, <1>6 DEF Preceding
<1> QED
  BY <1>1, <1>5, <1>7

LEMMA HeldFinite == Spec => []HeldIsFinite
<1>1. Init => HeldIsFinite
  BY FS_EmptySet DEF Init, HeldIsFinite
<1>2. HeldIsFinite /\ [Next]_vars => HeldIsFinite'
  <2> SUFFICES ASSUME IsFiniteSet(attestations), [Next]_vars
               PROVE  IsFiniteSet(attestations')
    BY DEF HeldIsFinite
  <2>1. attestations' = attestations \/ \E a : attestations' = attestations \cup {a}
    BY DEF Next, vars, AppendObservation, PutObservation, IngestAttestation,
           PutAttestation, ApplyFork
  <2> QED
    BY <2>1, FS_AddElement
<1> QED
  BY <1>1, <1>2, PTL DEF Spec

LEMMA HeldStaysFinite == EvidenceSpec => []HeldIsFinite
  BY HeldFinite, EvidenceIsLedger, PTL

\* Nothing that arrives unseals a record, nor does convicting its author
\* (dag.rs Dag::build, spec/02 6.5).
THEOREM SealsAreAlwaysKept == EvidenceSpec => SealsAreKept
<1>1. DagIsCurrent /\ DagIsCurrent' /\ HeldIsFinite' /\ [EvidenceNext]_evidence =>
        \A b \in Brackets(dag), c \in Brackets(dag') :
          /\ c.observation = b.observation
          /\ quarantine' \ quarantine \subseteq {author[b.observation]}
          => /\ b.sealing \subseteq c.sealing
             /\ b.preceding \subseteq c.preceding
             /\ b.witness_depth <= c.witness_depth
  <2> SUFFICES ASSUME DagIsCurrent, DagIsCurrent', HeldIsFinite', [EvidenceNext]_evidence,
                      NEW r \in dag.observations, quarantine' \ quarantine \subseteq {author[r]}
               PROVE  /\ Sealing(dag, r) \subseteq Sealing(dag', r)
                      /\ Preceding(dag, r) \subseteq Preceding(dag', r)
                      /\ WitnessDepth(dag, r) <= WitnessDepth(dag', r)
    BY DEF Brackets, Bracket
  <2>1. Sealing(dag, r) \subseteq Sealing(dag', r) /\ Preceding(dag, r) \subseteq Preceding(dag', r)
    BY SealsGrow
  <2>2. IsFiniteSet(Sealing(dag', r))
    <3>1. Sealing(dag', r) \in SUBSET attestations'
      BY DEF Sealing, DagIsCurrent
    <3> QED
      BY <3>1, FS_Subset DEF HeldIsFinite
  <2> QED
    BY <2>1, <2>2, FewerWitnesses DEF WitnessDepth
<1> QED
  BY <1>1, DagFollowsLedger, HeldStaysFinite, PTL DEF EvidenceSpec, SealsAreKept

\* No arrival moves U later or L earlier in the order (bracket.rs).
THEOREM BoundsNeverAreWidened == EvidenceSpec => BoundsNeverWiden
<1>1. DagIsCurrent /\ DagIsCurrent' /\ [EvidenceNext]_evidence =>
        \A b \in Brackets(dag), c \in Brackets(dag') :
          c.observation = b.observation /\ quarantine' = quarantine
          => /\ <<b.upper_bound, c.upper_bound>> \notin dag'.order
             /\ <<c.lower_bound, b.lower_bound>> \notin dag'.order
  <2> SUFFICES ASSUME DagIsCurrent, DagIsCurrent', [EvidenceNext]_evidence,
                      NEW r \in dag.observations, quarantine' = quarantine
               PROVE  /\ <<UpperBound(dag, r), UpperBound(dag', r)>> \notin dag'.order
                      /\ <<LowerBound(dag', r), LowerBound(dag, r)>> \notin dag'.order
    BY DEF Brackets, Bracket
  <2>1. /\ r \in dag'.observations
        /\ Sealing(dag, r) \subseteq Sealing(dag', r)
        /\ Preceding(dag, r) \subseteq Preceding(dag', r)
    BY SealsGrow
  <2>2. IsDag(dag) /\ IsDag(dag')
    BY DEF DagIsCurrent
  <2>3. \A v : <<v, None>> \notin dag'.order /\ <<None, v>> \notin dag'.order
    <3>1. \A e \in dag'.order : e[1] \in Obs \cup Att /\ e[2] \in Obs \cup Att
      BY <2>2, HeldOrder DEF IsDag
    <3>2. None \notin Obs \cup Att
      BY ObjectsType
    <3> QED
      BY <3>1, <3>2
  <2>4. <<UpperBound(dag, r), UpperBound(dag', r)>> \notin dag'.order
    <3>1. CASE UpperBound(dag, r) = None \/ UpperBound(dag', r) = None
      BY <2>3, <3>1
    <3>2. CASE UpperBound(dag, r) # None /\ UpperBound(dag', r) # None
      <4>1. /\ UpperBound(dag, r) \in Sealing(dag', r)
            /\ UpperBound(dag', r) \in Earliest(dag', Sealing(dag', r))
        BY <2>1, <2>2, <3>2, BoundsBound
      <4> QED
        BY <2>2, <4>1, OrderIrreflexive DEF Earliest
    <3> QED
      BY <3>1, <3>2
  <2>5. <<LowerBound(dag', r), LowerBound(dag, r)>> \notin dag'.order
    <3>1. CASE LowerBound(dag, r) = None \/ LowerBound(dag', r) = None
      BY <2>3, <3>1
    <3>2. CASE LowerBound(dag, r) # None /\ LowerBound(dag', r) # None
      <4>1. /\ LowerBound(dag, r) \in Preceding(dag', r)
            /\ LowerBound(dag', r) \in Latest(dag', Preceding(dag', r))
        BY <2>1, <2>2, <3>2, BoundsBound
      <4> QED
        BY <2>2, <4>1, OrderIrreflexive DEF Latest
    <3> QED
      BY <3>1, <3>2
  <2> QED
    BY <2>4, <2>5
<1> QED
  BY <1>1, DagFollowsLedger, PTL DEF EvidenceSpec, BoundsNeverWiden

\* A record becomes disputed only by a conviction, when its author and all that
\* sealed it by themselves are convicted (bracket.rs disputed).
THEOREM OnlyUnwitnessedAreDisputed == EvidenceSpec => OnlyUnwitnessedDisputed
<1>1. DagIsCurrent /\ DagIsCurrent' /\ [EvidenceNext]_evidence =>
        \A b \in Brackets(dag), c \in Brackets(dag') :
          c.observation = b.observation /\ c.disputed /\ ~b.disputed
          => /\ quarantine' # quarantine
             /\ {author[b.observation]} \cup DirectWitnesses(b.observation)
                  \subseteq quarantine'
  <2> SUFFICES ASSUME DagIsCurrent, DagIsCurrent', [EvidenceNext]_evidence,
                      NEW r \in dag.observations, Disputed(dag', r), ~Disputed(dag, r)
               PROVE  /\ quarantine' # quarantine
                      /\ {author[r]} \cup DirectWitnesses(r) \subseteq quarantine'
    BY DEF Brackets, Bracket
  <2>1. author[r] \in quarantine' /\ Sealing(dag', r) = {}
    BY DEF Disputed, DagIsCurrent
  <2>2. author[r] \notin quarantine \/ Sealing(dag, r) # {}
    BY DEF Disputed, DagIsCurrent
  <2>3. quarantine' # quarantine
    <3> SUFFICES ASSUME quarantine' = quarantine PROVE FALSE
      OBVIOUS
    <3> QED
      BY <2>1, <2>2, SealsGrow
  <2>4. ASSUME NEW e \in SealEdge(dag.observations, dag.attestations, dag.quarantined),
               e[1] = r, witness[e[2]] \notin quarantine'
        PROVE  FALSE
    <3>1. /\ dag.observations \in SUBSET Obs /\ dag'.observations \in SUBSET Obs
          /\ dag.attestations \in SUBSET Att /\ dag'.attestations \in SUBSET Att
          /\ dag.observations \subseteq dag'.observations
          /\ dag.attestations \subseteq dag'.attestations
          /\ dag'.quarantined = quarantine'
          /\ dag'.order = Build(dag'.observations, dag'.attestations, dag'.quarantined).order
      BY DagGrows DEF DagIsCurrent, IsDag
    <3>2. /\ witness[e[2]] # author[r] /\ e[2] \in dag'.attestations
          /\ <<r, e[2]>> \in dag'.order
      <4>1. PICK O1, O2, A1, A2, Q1, Q2 :
              /\ O1 = dag.observations /\ A1 = dag.attestations /\ Q1 = dag.quarantined
              /\ O2 = dag'.observations /\ A2 = dag'.attestations /\ Q2 = dag'.quarantined
        OBVIOUS
      <4>2. e \in SealEdge(O1, A1, Q1) /\ witness[e[2]] \notin Q2
        BY <2>4, <3>1, <4>1
      <4>3. /\ witness[e[2]] # author[e[1]] /\ e[2] \in A2
            /\ <<e[1], e[2]>> \in Build(O2, A2, Q2).order
        <5>1. /\ O1 \in SUBSET Obs /\ O2 \in SUBSET Obs /\ O1 \subseteq O2
              /\ A1 \in SUBSET Att /\ A2 \in SUBSET Att /\ A1 \subseteq A2
          BY <3>1, <4>1
        <5> QED
          BY <4>2, <5>1, DirectSealsGrow
      <4> QED
        BY <2>4, <3>1, <4>1, <4>3
    <3> QED
      BY <2>1, <3>2 DEF Sealing
  <2>5. DirectWitnesses(r) \subseteq quarantine'
    BY <2>4 DEF DirectWitnesses
  <2> QED
    BY <2>1, <2>3, <2>5
<1> QED
  BY <1>1, DagFollowsLedger, PTL DEF EvidenceSpec, OnlyUnwitnessedDisputed


-----------------------------------------------------------------------------
(***************************************************************************)
(* The verifier's DAG is the ledger's, of other objects.                   *)
(***************************************************************************)

\* The two implementations take the same attestations to seal.
LEMMA SameSealers ==
  ASSUME NEW O, NEW Q, NEW a
  PROVE  SealStatus(O, Q, a) = "Anchored" <=> Sealer(O, Q, a)
  BY DEF SealStatus, Sealer, Anchored

\* And draw the same edges.
LEMMA SameEdges ==
  ASSUME NEW O, NEW A, NEW Q
  PROVE  CarriedChainEdge(O) \cup CarriedAckEdge(O, A) \cup CarriedSealEdge(O, A, Q)
           = Edge(O, A, Q)
<1>1. CarriedChainEdge(O) = ChainEdge(O)
  BY DEF CarriedChainEdge, ChainEdge
<1>2. CarriedAckEdge(O, A) = AckEdge(O, A)
  BY DEF CarriedAckEdge, AckEdge, SoundAck
<1>3. CarriedSealEdge(O, A, Q) = SealEdge(O, A, Q)
  <2>1. {b \in A : SealStatus(O, Q, b) = "Anchored"} = {x \in A : Sealer(O, Q, x)}
    BY SameSealers
  <2> QED
    BY <2>1 DEF CarriedSealEdge, SealEdge
<1> QED
  BY <1>1, <1>2, <1>3 DEF Edge

\* What the verifier says of a claim is what a ledger of the carried objects
\* would.
LEMMA SameBrackets ==
  ASSUME NEW O, NEW A, NEW Q, NEW r
  PROVE  LET D == BuildCarried(O, A, Q)
             B == Build(O, A, Q)
         IN  /\ D.observations = O /\ D.attestations = A /\ D.quarantined = Q
             /\ D.order = B.order
             /\ ClaimBracket(D, r).sealing = Sealing(B, r)
             /\ ClaimBracket(D, r).preceding = Preceding(B, r)
             /\ ClaimBracket(D, r).witness_depth = WitnessDepth(B, r)
             /\ ClaimBracket(D, r).disputed = Disputed(B, r)
<1> DEFINE D == BuildCarried(O, A, Q)
           B == Build(O, A, Q)
<1>1. /\ D.observations = O /\ D.attestations = A /\ D.quarantined = Q
      /\ B.observations = O /\ B.attestations = A /\ B.quarantined = Q
  BY DEF BuildCarried, Build
<1>2. D.order = Closure(O \cup A, Edge(O, A, Q))
  BY SameEdges DEF BuildCarried
<1>3. D.order = B.order
  BY <1>2, OrderIsClosure
<1> HIDE DEF D, B
<1>4. {a \in {x \in A : witness[x] # author[r]} : <<r, a>> \in D.order} = Sealing(B, r)
  BY <1>1, <1>3 DEF Sealing
<1>5. {a \in {x \in A : witness[x] # author[r]} : <<a, r>> \in D.order} = Preceding(B, r)
  BY <1>1, <1>3 DEF Preceding
<1>6. /\ ClaimBracket(D, r).sealing = Sealing(B, r)
      /\ ClaimBracket(D, r).preceding = Preceding(B, r)
      /\ ClaimBracket(D, r).witness_depth = WitnessDepth(B, r)
      /\ ClaimBracket(D, r).disputed = Disputed(B, r)
  BY <1>1, <1>4, <1>5 DEF ClaimBracket, WitnessDepth, Disputed
<1> QED
  BY <1>1, <1>3, <1>6 DEF D, B

-----------------------------------------------------------------------------
(***************************************************************************)
(* The inductive invariant.                                                *)
(***************************************************************************)

PackFile ==
  [claims : SUBSET Obs, observations : SUBSET Obs, attestations : SUBSET Att,
   good : SUBSET (Obs \cup Att), fork_proofs : SUBSET ForkProof]

\* The file p holds objects of this ledger only, and of the forks the ledger
\* can prove every proof that names a key in it.
HeldHere(p) ==
  /\ p.observations \subseteq observations /\ p.attestations \subseteq attestations
  /\ p.good \subseteq verified
  /\ p.fork_proofs \subseteq DetectForks
  /\ \A f \in DetectForks : f.key \in KeysIn(p.observations, p.attestations) => f \in p.fork_proofs

\* What s says of the records in `claims` is what the ledger says, under the
\* convictions s relies on.
SaidTruly(s, claims) ==
  /\ \A r \in claims, D \in {BuildFromStore(observations \cup attestations, verified, s.quarantine)} :
       r \in D.observations =>
         /\ Bracket(D, r) \in s.brackets
         /\ \A b \in s.brackets : b.observation = r => b = Bracket(D, r)
  /\ \A c \in s.chains : c.verdict = VerifyChain(c.author)

PackInv ==
  /\ pack # NoPack => pack \in PackFile
  /\ pack = NoPack => report = NoReport
  /\ report = NoReport \/ report \in VerifyPack(pack)
  /\ pack # NoPack /\ ~added => HeldHere(pack) /\ SaidTruly(exported.said, pack.claims)

\* What the ledger's own invariants contribute.
LedgerInv == TypeOK /\ HeldIsFinite /\ DetectedForksConvict

-----------------------------------------------------------------------------
(***************************************************************************)
(* The steps of the exchange.                                              *)
(***************************************************************************)

\* Every step of the exchange is one of the ledger or none.
LEMMA ExchangeIsLedger == ExchangeSpec => Spec
<1>1. ExchangeInit => Init
  BY DEF ExchangeInit
<1>2. [ExchangeNext]_exchange => [Next]_vars
  BY DEF ExchangeNext, exchange, Fill, DoExport, Lose, AddEverything, DoVerify
<1> QED
  BY <1>1, <1>2, PTL DEF ExchangeSpec, Spec

LEMMA LedgerInvHolds == ExchangeSpec => []LedgerInv
  BY ExchangeIsLedger, TypeCorrect, HeldFinite, DetectedForksAlwaysConvict, PTL DEF LedgerInv

\* What is said of a ledger that stands still stays true.
LEMMA SaidStays ==
  ASSUME UNCHANGED vars
  PROVE  /\ \A p : HeldHere(p)' <=> HeldHere(p)
         /\ \A s, claims : SaidTruly(s, claims)' <=> SaidTruly(s, claims)
<1>1. UNCHANGED <<observations, attestations, verified>>
  BY DEF vars
<1>2. DetectForks' = DetectForks
  BY <1>1 DEF DetectForks, Collisions
<1>3. \A k : VerifyChain(k)' = VerifyChain(k)
  BY <1>1 DEF VerifyChain, Contradicted, Equivocates, LinkViolation, Whole, Seqs, EntriesAt, Entries
<1> QED
  BY <1>1, <1>2, <1>3 DEF HeldHere, SaidTruly

\* What detect_forks builds is a fork proof.
LEMMA DetectedIsForkProof ==
  ASSUME TypeOK
  PROVE  DetectForks \subseteq ForkProof
<1> SUFFICES ASSUME NEW p \in DetectForks PROVE p \in ForkProof
  OBVIOUS
<1>1. PICK x, y \in observations \cap verified :
        author[x] = author[y] /\ p = BuildForkProof(author[x], x, TRUE, y, TRUE)
  BY DetectedForkIsCollision
<1>2. x \in Obs /\ y \in Obs /\ author[x] \in Key
  BY ObjectsType DEF TypeOK
<1> QED
  BY <1>1, <1>2 DEF BuildForkProof, ForkProof

\* A pack carries what is held, and every proof about a key in it.
LEMMA ExportedIsHeld ==
  ASSUME TypeOK, NEW claims \in SUBSET observations, NEW convicted,
         NEW p \in ExportPack(claims, convicted)
  PROVE  p \in PackFile /\ p.claims = claims /\ HeldHere(p)
<1> DEFINE D == BuildFromStore(observations \cup attestations, verified, convicted)
           O == CarriedObservations(D, claims)
           A == CarriedAttestations(D, claims)
<1>1. p = PackOf(claims, O, A)
  BY DEF ExportPack
<1>2. O \subseteq observations
  BY DEF CarriedObservations, Entries
<1>3. D.attestations = attestations \cap verified
  BY ObjectsType DEF BuildFromStore, Build, TypeOK
<1>4. A \subseteq attestations
  BY <1>3 DEF CarriedAttestations, Reachable
<1> HIDE DEF D, O, A
<1>5. /\ p.claims = claims /\ p.observations = O /\ p.attestations = A
      /\ p.good = (O \cup A) \cap verified
      /\ p.fork_proofs = {f \in DetectForks : f.key \in KeysIn(O, A)}
  BY <1>1 DEF PackOf, CarriedProofs
<1>6. HeldHere(p)
  BY <1>2, <1>4, <1>5 DEF HeldHere
<1>7. p \in PackFile
  BY <1>1, <1>2, <1>4, DetectedIsForkProof DEF PackOf, CarriedProofs, PackFile, TypeOK
<1> QED
  BY <1>5, <1>6, <1>7

\* The exporter says what its ledger says.
LEMMA ExporterSaysTruly ==
  ASSUME TypeOK, NEW claims \in SUBSET observations, NEW convicted
  PROVE  SaidTruly(Said(claims, convicted), claims)
<1> DEFINE D == BuildFromStore(observations \cup attestations, verified, convicted)
           s == Said(claims, convicted)
<1>1. /\ s.quarantine = convicted
      /\ s.brackets = {Bracket(D, r) : r \in claims \cap D.observations}
      /\ s.chains = {[author |-> k, verdict |-> VerifyChain(k)] : k \in {author[r] : r \in claims}}
  BY DEF Said
<1>2. \A r : Bracket(D, r).observation = r
  BY DEF Bracket
<1> HIDE DEF D, s
<1>3. \A c \in s.chains : c.verdict = VerifyChain(c.author)
  BY <1>1
<1>4. \A r \in claims : r \in D.observations =>
        Bracket(D, r) \in s.brackets /\ \A b \in s.brackets : b.observation = r => b = Bracket(D, r)
  BY <1>1, <1>2
<1> QED
  BY <1>1, <1>3, <1>4 DEF SaidTruly, D, s

\* A file that lost an object holds objects of this ledger only.
LEMMA LosingKeepsHeld ==
  ASSUME HeldHere(pack), pack \in PackFile, NEW p, p \in PackFile,
         p.observations \subseteq pack.observations,
         p.attestations \subseteq pack.attestations, p.good \subseteq pack.good,
         p.fork_proofs = pack.fork_proofs
  PROVE  HeldHere(p)
<1>1. KeysIn(p.observations, p.attestations) \subseteq KeysIn(pack.observations, pack.attestations)
  BY DEF KeysIn
<1> QED
  BY <1>1 DEF HeldHere

\* Losing an object, or its signature.
LEMMA LoseStep ==
  ASSUME PackInv, NEW o, Lose(o)
  PROVE  PackInv'
<1>1. pack \in PackFile /\ report = NoReport /\ UNCHANGED <<vars, exported, report>> /\ ~added'
  BY DEF Lose, PackInv
<1>2. /\ pack' \in PackFile /\ pack'.claims = pack.claims
      /\ pack'.observations \subseteq pack.observations
      /\ pack'.attestations \subseteq pack.attestations
      /\ pack'.good \subseteq pack.good /\ pack'.fork_proofs = pack.fork_proofs
  <2>1. CASE pack' = [pack EXCEPT !.observations = @ \ {o}, !.attestations = @ \ {o}, !.good = @ \ {o}]
    BY <1>1, <2>1 DEF PackFile
  <2>2. CASE pack' = [pack EXCEPT !.good = @ \ {o}]
    BY <1>1, <2>2 DEF PackFile
  <2> QED
    BY <2>1, <2>2 DEF Lose
<1>3. HeldHere(pack) /\ SaidTruly(exported.said, pack.claims)
  BY DEF Lose, PackInv
<1>4. \A p : p \in PackFile /\ p.claims = pack.claims
             /\ p.observations \subseteq pack.observations
             /\ p.attestations \subseteq pack.attestations
             /\ p.good \subseteq pack.good /\ p.fork_proofs = pack.fork_proofs
             => HeldHere(p)
  BY <1>1, <1>3, LosingKeepsHeld
<1>5. \A p : HeldHere(p)' <=> HeldHere(p)
  BY <1>1, SaidStays
<1>6. HeldHere(pack)'
  BY <1>1, <1>2, <1>4, <1>5 DEF HeldHere, DetectForks, Collisions, vars, KeysIn
<1>7. SaidTruly(exported.said, pack.claims)'
  BY <1>1, <1>2, <1>3, SaidStays
<1> QED
  BY <1>1, <1>2, <1>6, <1>7 DEF PackInv

LEMMA PackInvInit == ExchangeInit => PackInv
  BY DEF ExchangeInit, PackInv

LEMMA PackInvNext == TypeOK /\ PackInv /\ [ExchangeNext]_exchange => PackInv'
<1> SUFFICES ASSUME TypeOK, PackInv, [ExchangeNext]_exchange PROVE PackInv'
  OBVIOUS
<1>1. CASE UNCHANGED exchange
  BY <1>1, SaidStays DEF exchange, PackInv
<1>2. CASE Fill
  BY <1>2 DEF Fill, PackInv
<1>3. ASSUME NEW claims, NEW convicted, DoExport(claims, convicted)
      PROVE  PackInv'
  <2>1. /\ claims \subseteq observations /\ pack' \in ExportPack(claims, convicted)
        /\ exported'.said = Said(claims, convicted \cup Provable)
        /\ report = NoReport /\ report' = report /\ UNCHANGED vars
    BY <1>3 DEF DoExport, PackInv
  <2>2. \A p \in ExportPack(claims, convicted) : p \in PackFile /\ p.claims = claims /\ HeldHere(p)
    BY <2>1, ExportedIsHeld
  <2>3. SaidTruly(Said(claims, convicted \cup Provable), claims)
    BY <2>1, ExporterSaysTruly
  <2> QED
    BY <2>1, <2>2, <2>3, SaidStays DEF PackInv
<1>4. ASSUME NEW o, Lose(o)
      PROVE  PackInv'
  BY <1>4, LoseStep
<1>5. CASE AddEverything
  <2>1. pack' \in PackFile
    BY <1>5, ObjectsType DEF AddEverything, PackInv, PackFile
  <2> QED
    BY <1>5, <2>1 DEF AddEverything, PackInv
<1>6. CASE DoVerify
  BY <1>6, SaidStays DEF DoVerify, PackInv
<1> QED
  BY <1>1, <1>2, <1>3, <1>4, <1>5, <1>6 DEF ExchangeNext

LEMMA PackInvHolds == ExchangeSpec => [](LedgerInv /\ PackInv)
<1>1. LedgerInv => TypeOK
  BY DEF LedgerInv
<1> QED
  BY <1>1, PackInvInit, PackInvNext, LedgerInvHolds, PTL DEF ExchangeSpec

-----------------------------------------------------------------------------
(***************************************************************************)
(* What a report says.                                                     *)
(***************************************************************************)

\* A bracketed claim of a report is the bracket its surviving objects give.
LEMMA ReportedClaim ==
  ASSUME PackInv, NEW c \in report.claims, c.outcome = "Bracketed"
  PROVE  LET O == SurvivingObservations(pack)
             A == SurvivingAttestations(pack)
         IN  /\ pack # NoPack /\ pack \in PackFile
             /\ O \in SUBSET Obs /\ A \in SUBSET Att
             /\ c.observation \in O \cap pack.claims
             /\ c.bracket = ClaimBracket(BuildCarried(O, A, Quarantined(pack)), c.observation)
<1> DEFINE O == SurvivingObservations(pack)
           A == SurvivingAttestations(pack)
           D == BuildCarried(O, A, Quarantined(pack))
<1>1. report # NoReport
  BY DEF NoReport
<1>2. report \in VerifyPack(pack) /\ pack # NoPack /\ pack \in PackFile
  BY <1>1 DEF PackInv
<1>3. report.claims = UNION {ClaimOutcomes(D, r, Invalid(pack) # {}) : r \in pack.claims}
  BY <1>2 DEF VerifyPack, ReportOn
<1>4. D.observations = O
  BY DEF BuildCarried
<1>5. PICK r \in pack.claims : c \in ClaimOutcomes(D, r, Invalid(pack) # {})
  BY <1>3
<1>6. r \in O /\ c.observation = r /\ c.bracket = ClaimBracket(D, r)
  BY <1>4, <1>5 DEF ClaimOutcomes
<1>7. O \in SUBSET Obs /\ A \in SUBSET Att
  BY <1>2 DEF PackFile, SurvivingObservations, SurvivingAttestations
<1> QED
  BY <1>2, <1>5, <1>6, <1>7

\* Whatever was put into the file or taken from it, what a report calls a seal
\* or an earlier attestation is one (vigil-verify dag.rs, bracket.rs).
THEOREM ReportsAreTrue == ExchangeSpec => []ReportedBracketsAreTrue
<1>1. PackInv => ReportedBracketsAreTrue
  <2> SUFFICES ASSUME PackInv, NEW c \in report.claims, c.outcome = "Bracketed"
               PROVE  /\ \A a \in c.bracket.sealing :
                           /\ a \in SignedAtt /\ witness[a] # author[c.observation]
                           /\ made[c.observation] < made[a]
                      /\ \A a \in c.bracket.preceding :
                           a \in SignedAtt /\ made[a] < made[c.observation]
    BY DEF ReportedBracketsAreTrue
  <2> DEFINE O == SurvivingObservations(pack)
             A == SurvivingAttestations(pack)
             B == Build(O, A, Quarantined(pack))
             r == c.observation
  <2>1. /\ O \in SUBSET Obs /\ A \in SUBSET Att /\ r \in O
        /\ c.bracket = ClaimBracket(BuildCarried(O, A, Quarantined(pack)), r)
    BY ReportedClaim
  <2>2. /\ c.bracket.sealing = Sealing(B, r)
        /\ c.bracket.preceding = Preceding(B, r)
    BY <2>1, SameBrackets
  <2>3. IsDag(B) /\ B.observations = O /\ B.attestations = A
    BY <2>1 DEF IsDag, Build
  <2>4. A \subseteq SignedAtt
    BY <2>1, ObjectsType DEF SurvivingAttestations, VerifyId
  <2> HIDE DEF O, A, B, r
  <2>5. /\ \A a \in Sealing(B, r) : a \in A /\ witness[a] # author[r] /\ made[r] < made[a]
        /\ \A a \in Preceding(B, r) : a \in A /\ made[a] < made[r]
    BY <2>1, <2>3, WhatSeals
  <2>6. /\ \A a \in c.bracket.sealing :
             a \in SignedAtt /\ witness[a] # author[r] /\ made[r] < made[a]
        /\ \A a \in c.bracket.preceding : a \in SignedAtt /\ made[a] < made[r]
    BY <2>2, <2>4, <2>5
  <2> QED
    BY <2>6 DEF r
<1> QED
  BY <1>1, PackInvHolds, PTL

-----------------------------------------------------------------------------
(***************************************************************************)
(* The two chain checks.                                                   *)
(***************************************************************************)

\* A contradiction among some of the entries held of a chain is one in the chain.
LEMMA PartIsNotWorse ==
  ASSUME TypeOK, NEW k, NEW E \in SUBSET Entries(k), VerifyCarriedChain(E) = "Violated"
  PROVE  VerifyChain(k) = "Violated"
<1>1. E # {} /\ Entries(k) # {}
  BY DEF VerifyCarriedChain
<1>2. \A x \in Entries(k) : x \in Obs /\ author[x] = k /\ seq[x] \in Nat
  BY ObjectsType DEF Entries, TypeOK
<1>3. (\E x, y \in E : x # y /\ seq[x] = seq[y]) \/ \E x \in E : BrokenLink(E, x)
  BY <1>1 DEF VerifyCarriedChain
<1>4. Contradicted(k)
  <2>1. CASE \E x, y \in E : x # y /\ seq[x] = seq[y]
    BY <2>1 DEF Contradicted, Equivocates
  <2>2. CASE \E x \in E : BrokenLink(E, x)
    <3>1. PICK x \in E : BrokenLink(E, x)
      BY <2>2
    <3>2. CASE seq[x] = 0
      BY <3>1, <3>2 DEF BrokenLink, LinkViolation, Contradicted
    <3>3. CASE seq[x] # 0
      <4>1. PICK y \in E : seq[y] + 1 = seq[x] /\ prev[x] \notin {z \in E : seq[z] + 1 = seq[x]}
        BY <3>1, <3>3 DEF BrokenLink
      <4>2. y \in EntriesAt(k, seq[x] - 1)
        BY <1>2, <4>1 DEF EntriesAt
      <4>3. CASE prev[x] \in EntriesAt(k, seq[x] - 1)
        <5>1. prev[x] \in Entries(k) /\ seq[prev[x]] = seq[y] /\ prev[x] # y
          BY <4>1, <4>2, <4>3 DEF EntriesAt
        <5> QED
          BY <5>1 DEF Contradicted, Equivocates
      <4>4. CASE prev[x] \notin EntriesAt(k, seq[x] - 1)
        BY <1>2, <3>3, <4>2, <4>4 DEF LinkViolation, Contradicted
      <4> QED
        BY <4>3, <4>4
    <3> QED
      BY <3>2, <3>3
  <2> QED
    BY <1>3, <2>1, <2>2
<1> QED
  BY <1>1, <1>4 DEF VerifyChain

\* What survives of a file that only lost objects is held here.
LEMMA SurvivorsAreHeld ==
  ASSUME TypeOK, HeldHere(pack), pack \in PackFile
  PROVE  /\ SurvivingObservations(pack) \subseteq observations \cap verified
         /\ SurvivingAttestations(pack) \subseteq attestations \cap verified
  BY DEF HeldHere, SurvivingObservations, SurvivingAttestations, VerifyId

\* Losing entries never makes a chain look contradictory (chain.rs of both
\* crates).
THEOREM LossesNeverAccuse == ExchangeSpec => []LossesAreNotViolations
<1>1. LedgerInv /\ PackInv => LossesAreNotViolations
  <2> SUFFICES ASSUME TypeOK, PackInv, report # NoReport, ~added,
                      NEW c \in report.chains, NEW s \in exported.said.chains,
                      c.author = s.author, c.verdict = "Violated"
               PROVE  s.verdict = "Violated"
    BY DEF LossesAreNotViolations, Verified, LedgerInv
  <2> DEFINE O == SurvivingObservations(pack)
             D == BuildCarried(O, SurvivingAttestations(pack), Quarantined(pack))
             E(k) == {x \in O : author[x] = k}
             verdicts == {[author |-> k, verdict |-> VerifyCarriedChain(E(k))] : k \in {author[x] : x \in O}}
             outcomes == UNION {ClaimOutcomes(D, r, Invalid(pack) # {}) : r \in pack.claims}
  <2>1. /\ report \in VerifyPack(pack) /\ pack # NoPack /\ pack \in PackFile
        /\ HeldHere(pack) /\ SaidTruly(exported.said, pack.claims)
    BY DEF PackInv
  <2>2. D.observations = O
    BY DEF BuildCarried
  <2>3. report = ReportOn(pack, D, verdicts, outcomes)
    <3> HIDE DEF outcomes
    <3>1. report \in UNION {{ReportOn(pack, d,
                     {[author |-> k, verdict |-> VerifyCarriedChain({x \in d.observations : author[x] = k})] :
                        k \in {author[x] : x \in d.observations}}, outcomes)} : d \in {D}}
      BY <2>1 DEF VerifyPack, outcomes
    <3> HIDE DEF D
    <3> QED
      BY <2>2, <3>1
  <2>4. VerifyCarriedChain(E(c.author)) = "Violated"
    <3>1. report.chains = verdicts
      <4> HIDE DEF verdicts, outcomes, D
      <4> QED
        BY <2>3 DEF ReportOn
    <3>2. PICK k \in {author[x] : x \in O} : c = [author |-> k, verdict |-> VerifyCarriedChain(E(k))]
      BY <3>1
    <3> HIDE DEF E
    <3> QED
      BY <3>2
  <2>5. E(c.author) \in SUBSET Entries(c.author)
    BY <2>1, SurvivorsAreHeld DEF Entries
  <2> HIDE DEF E
  <2>6. VerifyChain(c.author) = "Violated"
    BY <2>4, <2>5, PartIsNotWorse
  <2> QED
    BY <2>1, <2>6 DEF SaidTruly
<1> QED
  BY <1>1, PackInvHolds, PTL

-----------------------------------------------------------------------------
(***************************************************************************)
(* What is lost is never overstated.                                       *)
(***************************************************************************)

\* Fewer objects under no fewer relevant convictions give no order that more
\* objects do not give.
LEMMA LessIsOrdered ==
  ASSUME NEW O1 \in SUBSET Obs, NEW O2 \in SUBSET Obs, O1 \subseteq O2,
         NEW A1 \in SUBSET Att, NEW A2 \in SUBSET Att, A1 \subseteq A2,
         NEW Q1, NEW Q2, \A a \in A1 : witness[a] \in Q2 => witness[a] \in Q1,
         NEW x, NEW y, <<x, y>> \in Build(O1, A1, Q1).order
  PROVE  <<x, y>> \in Build(O2, A2, Q2).order
  BY OrderGrows

\* So a record has no seal and no earlier attestation it would not have among
\* more objects.
LEMMA LessIsSealed ==
  ASSUME NEW O1 \in SUBSET Obs, NEW O2 \in SUBSET Obs, O1 \subseteq O2,
         NEW A1 \in SUBSET Att, NEW A2 \in SUBSET Att, A1 \subseteq A2, IsFiniteSet(A2),
         NEW Q1, NEW Q2, \A a \in A1 : witness[a] \in Q2 => witness[a] \in Q1,
         NEW r
  PROVE  /\ Sealing(Build(O1, A1, Q1), r) \subseteq Sealing(Build(O2, A2, Q2), r)
         /\ Preceding(Build(O1, A1, Q1), r) \subseteq Preceding(Build(O2, A2, Q2), r)
         /\ WitnessDepth(Build(O1, A1, Q1), r) <= WitnessDepth(Build(O2, A2, Q2), r)
<1> DEFINE B1 == Build(O1, A1, Q1)
           B2 == Build(O2, A2, Q2)
<1>1. B1.attestations = A1 /\ B2.attestations = A2
  BY DEF Build
<1>2. \A x, y : <<x, y>> \in B1.order => <<x, y>> \in B2.order
  BY LessIsOrdered
<1> HIDE DEF B1, B2
<1>3. /\ Sealing(B1, r) \subseteq Sealing(B2, r)
      /\ Preceding(B1, r) \subseteq Preceding(B2, r)
  BY <1>1, <1>2 DEF Sealing, Preceding
<1>4. IsFiniteSet(Sealing(B2, r))
  <2>1. Sealing(B2, r) \in SUBSET A2
    BY <1>1 DEF Sealing
  <2> QED
    BY <2>1, FS_Subset
<1>5. WitnessDepth(B1, r) <= WitnessDepth(B2, r)
  BY <1>3, <1>4, FewerWitnesses DEF WitnessDepth
<1> QED
  BY <1>3, <1>5 DEF B1, B2

\* A key in the file that the ledger can convict is convicted by the file.
LEMMA CarriedKeysConvicted ==
  ASSUME LedgerInv, HeldHere(pack), NEW k \in KeysIn(pack.observations, pack.attestations),
         k \in Provable
  PROVE  k \in Quarantined(pack)
<1>1. PICK f \in DetectForks : f.key = k
  BY DEF Provable
<1>2. f \in pack.fork_proofs /\ CheckForkProof(f)
  BY <1>1 DEF HeldHere, LedgerInv, DetectedForksConvict
<1> QED
  BY <1>1, <1>2 DEF Quarantined, ValidProofs

\* A file that lost objects says no more than its exporter (vigil-verify dag.rs,
\* spec/03 3).
THEOREM LossesAreNotOverstated == ExchangeSpec => []LossesNeverOverstate
<1>1. LedgerInv /\ PackInv => LossesNeverOverstate
  <2> SUFFICES ASSUME LedgerInv, PackInv, ~added, QuarantineProvable,
                      NEW c \in report.claims, c.outcome = "Bracketed"
               PROVE  LET b == c.bracket s == SaidOf(c.observation)
                      IN  /\ b.sealing \subseteq s.sealing /\ b.preceding \subseteq s.preceding
                          /\ b.witness_depth <= s.witness_depth
                          /\ s.disputed => b.disputed
    BY DEF LossesNeverOverstate
  <2> DEFINE r == c.observation
             O1 == SurvivingObservations(pack)
             A1 == SurvivingAttestations(pack)
             Q1 == Quarantined(pack)
             O2 == observations \cap verified
             A2 == attestations \cap verified
             Q2 == exported.said.quarantine
             D == BuildFromStore(observations \cup attestations, verified, Q2)
  <2>1. /\ pack # NoPack /\ pack \in PackFile
        /\ O1 \in SUBSET Obs /\ A1 \in SUBSET Att /\ r \in O1 \cap pack.claims
        /\ c.bracket = ClaimBracket(BuildCarried(O1, A1, Q1), r)
    BY ReportedClaim
  <2>2. HeldHere(pack) /\ SaidTruly(exported.said, pack.claims)
    BY <2>1 DEF PackInv
  <2>3. O1 \subseteq O2 /\ A1 \subseteq A2
    BY <2>1, <2>2, SurvivorsAreHeld DEF LedgerInv
  <2>4. O2 \in SUBSET Obs /\ A2 \in SUBSET Att /\ IsFiniteSet(A2)
    <3>1. O2 \in SUBSET Obs /\ A2 \in SUBSET attestations /\ A2 \in SUBSET Att
      BY DEF LedgerInv, TypeOK
    <3> QED
      BY <3>1, FS_Subset DEF LedgerInv, HeldIsFinite
  <2>5. D = Build(O2, A2, Q2)
    <3>1. (observations \cup attestations) \cap verified \cap Obs = O2
      BY ObjectsType DEF LedgerInv, TypeOK
    <3>2. (observations \cup attestations) \cap verified \cap Att = A2
      BY ObjectsType DEF LedgerInv, TypeOK
    <3> QED
      BY <3>1, <3>2 DEF BuildFromStore
  <2>6. /\ author[r] \in KeysIn(pack.observations, pack.attestations)
        /\ \A a \in A1 : witness[a] \in KeysIn(pack.observations, pack.attestations)
    BY <2>1 DEF KeysIn, SurvivingObservations, SurvivingAttestations
  <2>7. \A k \in KeysIn(pack.observations, pack.attestations) : k \in Q2 => k \in Q1
    BY <2>2, CarriedKeysConvicted DEF QuarantineProvable
  <2>8. SaidOf(r) = Bracket(D, r)
    <3>1. r \in D.observations
      BY <2>1, <2>3, <2>5 DEF Build
    <3>2. Bracket(D, r) \in exported.said.brackets
          /\ \A b \in exported.said.brackets : b.observation = r => b = Bracket(D, r)
      BY <2>1, <2>2, <3>1 DEF SaidTruly
    <3>3. Bracket(D, r).observation = r
      BY DEF Bracket
    <3> HIDE DEF D, r
    <3> QED
      BY <3>2, <3>3 DEF SaidOf
  <2> HIDE DEF r, O1, A1, Q1, O2, A2, Q2, D
  <2>9. /\ Sealing(Build(O1, A1, Q1), r) \subseteq Sealing(D, r)
        /\ Preceding(Build(O1, A1, Q1), r) \subseteq Preceding(D, r)
        /\ WitnessDepth(Build(O1, A1, Q1), r) <= WitnessDepth(D, r)
    BY <2>1, <2>3, <2>4, <2>5, <2>6, <2>7, LessIsSealed
  <2>10. Disputed(D, r) => Disputed(Build(O1, A1, Q1), r)
    <3>1. D.quarantined = Q2 /\ Build(O1, A1, Q1).quarantined = Q1
      BY <2>5 DEF Build
    <3> QED
      BY <2>6, <2>7, <2>9, <3>1 DEF Disputed
  <2>11. /\ c.bracket.sealing = Sealing(Build(O1, A1, Q1), r)
         /\ c.bracket.preceding = Preceding(Build(O1, A1, Q1), r)
         /\ c.bracket.witness_depth = WitnessDepth(Build(O1, A1, Q1), r)
         /\ c.bracket.disputed = Disputed(Build(O1, A1, Q1), r)
    BY <2>1, SameBrackets
  <2>12. /\ SaidOf(r).sealing = Sealing(D, r) /\ SaidOf(r).preceding = Preceding(D, r)
         /\ SaidOf(r).witness_depth = WitnessDepth(D, r) /\ SaidOf(r).disputed = Disputed(D, r)
    BY <2>8 DEF Bracket
  <2> QED
    BY <2>9, <2>10, <2>11, <2>12 DEF r
<1> QED
  BY <1>1, PackInvHolds, PTL

-----------------------------------------------------------------------------
(***************************************************************************)
(* What a conviction changes.                                              *)
(***************************************************************************)

\* Convictions that reach neither an author nor a witness of it change nothing
\* of the order of that author's vertices.
LEMMA UnconcernedOrder ==
  ASSUME NEW O \in SUBSET Obs, NEW A \in SUBSET Att, NEW Q, NEW k,
         \A a \in A : subject[a] = k => witness[a] \notin Q,
         NEW x, NEW y, Owner(x) = k
  PROVE  <<x, y>> \in Build(O, A, Q).order <=> <<x, y>> \in Build(O, A, {}).order
<1>1. <<x, y>> \in Build(O, A, Q).order => <<x, y>> \in Build(O, A, {}).order
  BY OrderGrows
<1>2. <<x, y>> \in Build(O, A, {}).order => <<x, y>> \in Build(O, A, Q).order
  BY OrderGrows
<1> QED
  BY <1>1, <1>2

\* A claim without a convicted key has the bracket it would have without any
\* conviction.
LEMMA UnconcernedBracket ==
  ASSUME NEW O \in SUBSET Obs, NEW A \in SUBSET Att, NEW Q, NEW r \in O,
         author[r] \notin Q, \A a \in A : subject[a] = author[r] => witness[a] \notin Q
  PROVE  ClaimBracket(BuildCarried(O, A, Q), r) = ClaimBracket(BuildCarried(O, A, {}), r)
<1> DEFINE k == author[r]
           D1 == BuildCarried(O, A, Q)
           D2 == BuildCarried(O, A, {})
           others == {a \in A : witness[a] # k}
           sealing(D) == {a \in others : <<r, a>> \in D.order}
           preceding(D) == {a \in others : <<a, r>> \in D.order}
           first(D) == {u \in sealing(D) : ~\E o \in sealing(D) \ {u} : <<o, u>> \in D.order}
           last(D) == {l \in preceding(D) : ~\E o \in preceding(D) \ {l} : <<l, o>> \in D.order}
<1>1. /\ D1.attestations = A /\ D1.quarantined = Q /\ D1.order = Build(O, A, Q).order
      /\ D2.attestations = A /\ D2.quarantined = {} /\ D2.order = Build(O, A, {}).order
  BY SameBrackets
<1>2. \A x, y : Owner(x) = k => (<<x, y>> \in D1.order <=> <<x, y>> \in D2.order)
  BY <1>1, UnconcernedOrder
<1>3. \A x, y : <<x, y>> \in D1.order \/ <<x, y>> \in D2.order => Owner(x) = Owner(y)
  <2> SUFFICES ASSUME NEW P, NEW x, NEW y, <<x, y>> \in Build(O, A, P).order
               PROVE  Owner(x) = Owner(y)
    BY <1>1
  <2>1. /\ <<x, y>>[1] = x /\ <<x, y>>[2] = y
    OBVIOUS
  <2> QED
    BY <2>1, OrderIsClosure, ReachedIsLater
<1>4. Owner(r) = k
  BY DEF Owner
<1> HIDE DEF D1, D2, k
<1>5. sealing(D1) = sealing(D2) /\ preceding(D1) = preceding(D2)
  BY <1>2, <1>3, <1>4
<1>6. \A a \in sealing(D1) \cup preceding(D1) : Owner(a) = k
  BY <1>3, <1>4
<1>7. first(D1) = first(D2) /\ last(D1) = last(D2)
  <2> DEFINE S == sealing(D1)
             P == preceding(D1)
  <2>1. /\ first(D1) = {u \in S : ~\E o \in S \ {u} : <<o, u>> \in D1.order}
        /\ first(D2) = {u \in S : ~\E o \in S \ {u} : <<o, u>> \in D2.order}
        /\ last(D1) = {l \in P : ~\E o \in P \ {l} : <<l, o>> \in D1.order}
        /\ last(D2) = {l \in P : ~\E o \in P \ {l} : <<l, o>> \in D2.order}
    BY <1>5
  <2>2. \A o \in S \cup P : Owner(o) = k
    BY <1>6
  <2> HIDE DEF S, P, first, last
  <2> QED
    BY <1>2, <2>1, <2>2
<1>8. k \notin Q
  BY DEF k
<1>9. ClaimBracket(D1, r) =
        [observation |-> r, sealing |-> sealing(D1), preceding |-> preceding(D1),
         upper_bound |-> LowestId(first(D1)), lower_bound |-> LowestId(last(D1)),
         sealed |-> sealing(D1) # {},
         witness_depth |-> Cardinality({witness[a] : a \in sealing(D1)}),
         disputed |-> FALSE]
  BY <1>1, <1>8 DEF ClaimBracket, k
<1>10. ClaimBracket(D2, r) =
        [observation |-> r, sealing |-> sealing(D2), preceding |-> preceding(D2),
         upper_bound |-> LowestId(first(D2)), lower_bound |-> LowestId(last(D2)),
         sealed |-> sealing(D2) # {},
         witness_depth |-> Cardinality({witness[a] : a \in sealing(D2)}),
         disputed |-> FALSE]
  BY <1>1 DEF ClaimBracket, k
<1> HIDE DEF sealing, preceding, first, last
<1> QED
  BY <1>5, <1>7, <1>9, <1>10 DEF D1, D2

\* Where a conviction changed a bracket, the claim names a convicted key
\* (vigil-verify report.rs, bracket_one).
THEOREM ConvictionsAreShown == ExchangeSpec => []ConvictionsShow
<1>1. PackInv => ConvictionsShow
  <2> SUFFICES ASSUME PackInv, NEW c \in report.claims, c.outcome = "Bracketed",
                      c.fork_proofs_touching = {}
               PROVE  c.bracket = ClaimBracket(BuildCarried(report.dag.observations,
                                                 report.dag.attestations, {}), c.observation)
    BY DEF ConvictionsShow
  <2> DEFINE O == SurvivingObservations(pack)
             A == SurvivingAttestations(pack)
             Q == Quarantined(pack)
             D == BuildCarried(O, A, Q)
             r == c.observation
  <2>1. /\ O \in SUBSET Obs /\ A \in SUBSET Att /\ r \in O
        /\ c.bracket = ClaimBracket(D, r)
    BY ReportedClaim
  <2>2. report \in VerifyPack(pack)
    BY DEF PackInv, NoReport
  <2>3. D.observations = O /\ D.attestations = A /\ D.quarantined = Q
    BY DEF BuildCarried
  <2>4. report.dag = D
    BY <2>2 DEF VerifyPack, ReportOn
  <2>5. c.fork_proofs_touching = ForkProofsTouching(D, c.bracket) /\ c.bracket.observation = r
    <3>1. report.claims = UNION {ClaimOutcomes(D, x, Invalid(pack) # {}) : x \in pack.claims}
      BY <2>2 DEF VerifyPack, ReportOn
    <3>2. PICK x \in pack.claims : c \in ClaimOutcomes(D, x, Invalid(pack) # {})
      BY <3>1
    <3>3. /\ r = x /\ c.fork_proofs_touching = ForkProofsTouching(D, ClaimBracket(D, x))
      BY <2>1, <2>3, <3>2 DEF ClaimOutcomes
    <3>4. ClaimBracket(D, r).observation = r
      BY DEF ClaimBracket
    <3> QED
      BY <2>1, <3>3, <3>4
  <2> HIDE DEF D
  <2>6. author[r] \notin Q /\ \A a \in A : subject[a] = author[r] => witness[a] \notin Q
    BY <2>3, <2>5 DEF ForkProofsTouching
  <2> HIDE DEF O, A, Q
  <2> QED
    BY <2>1, <2>3, <2>4, <2>6, UnconcernedBracket DEF D
<1> QED
  BY <1>1, PackInvHolds, PTL

-----------------------------------------------------------------------------
(***************************************************************************)
(* A file that arrives as it was written.                                  *)
(***************************************************************************)

\* What of the ledger can be a vertex of its DAG.
HeldObservations == observations \cap verified
HeldAttestations == attestations \cap verified

\* p is a pack of this ledger, and s what its exporter says of it, when it relies
\* on the convictions `convicted` besides those it can prove.
WrittenAs(p, s, convicted) ==
  /\ p.claims \subseteq observations
  /\ p \in ExportPack(p.claims, convicted)
  /\ s = Said(p.claims, convicted \cup Provable)

\* As long as nobody touches it, the file is a pack of this ledger: nothing is
\* stored after the export.
WrittenInv ==
  /\ losses \in Nat
  /\ pack # NoPack /\ Untouched => \E convicted : WrittenAs(pack, exported.said, convicted)

LEMMA WrittenStays ==
  ASSUME UNCHANGED vars
  PROVE  \A p, s, convicted : WrittenAs(p, s, convicted)' <=> WrittenAs(p, s, convicted)
<1>1. UNCHANGED <<observations, attestations, verified>>
  BY DEF vars
<1>2. DetectForks' = DetectForks
  BY <1>1 DEF DetectForks, Collisions
<1>3. \A k : Entries(k)' = Entries(k)
  BY <1>1 DEF Entries
<1>4. \A k : VerifyChain(k)' = VerifyChain(k)
  BY <1>1, <1>3 DEF VerifyChain, Contradicted, Equivocates, LinkViolation, Whole, Seqs, EntriesAt
<1>5. \A claims, convicted : ExportPack(claims, convicted)' = ExportPack(claims, convicted)
  <2>1. \A D, claims : CarriedObservations(D, claims)' = CarriedObservations(D, claims)
    BY <1>3 DEF CarriedObservations
  <2>2. \A claims, O, A : PackOf(claims, O, A)' = PackOf(claims, O, A)
    BY <1>1, <1>2 DEF PackOf, CarriedProofs
  <2> QED
    BY <1>1, <2>1, <2>2 DEF ExportPack
<1>6. \A claims, convicted : Said(claims, convicted)' = Said(claims, convicted)
  BY <1>1, <1>3, <1>4 DEF Said
<1>7. Provable' = Provable
  BY <1>2 DEF Provable
<1> QED
  BY <1>1, <1>5, <1>6, <1>7 DEF WrittenAs

LEMMA WrittenInvInit == ExchangeInit => WrittenInv
  BY DEF ExchangeInit, WrittenInv

LEMMA WrittenInvNext == PackInv /\ WrittenInv /\ [ExchangeNext]_exchange => WrittenInv'
<1> SUFFICES ASSUME PackInv, WrittenInv, [ExchangeNext]_exchange PROVE WrittenInv'
  OBVIOUS
<1>1. CASE UNCHANGED exchange
  <2>1. UNCHANGED <<vars, pack, exported, losses, added>>
    BY <1>1 DEF exchange
  <2> QED
    BY <2>1, WrittenStays DEF WrittenInv, Untouched
<1>2. CASE Fill
  BY <1>2 DEF Fill, WrittenInv
<1>3. ASSUME NEW claims, NEW convicted, DoExport(claims, convicted)
      PROVE  WrittenInv'
  <2>1. /\ claims \subseteq observations /\ pack' \in ExportPack(claims, convicted)
        /\ exported'.said = Said(claims, convicted \cup Provable)
        /\ losses' = losses /\ UNCHANGED vars
    BY <1>3 DEF DoExport
  <2>2. pack'.claims = claims
    BY <2>1 DEF ExportPack, PackOf
  <2>3. WrittenAs(pack', exported'.said, convicted)
    BY <2>1, <2>2 DEF WrittenAs
  <2> QED
    BY <2>1, <2>3, WrittenStays DEF WrittenInv
<1>4. ASSUME NEW o, Lose(o)
      PROVE  WrittenInv'
  BY <1>4 DEF Lose, WrittenInv, Untouched
<1>5. CASE AddEverything
  BY <1>5 DEF AddEverything, WrittenInv, Untouched
<1>6. CASE DoVerify
  <2>1. UNCHANGED <<vars, pack, exported, losses, added>>
    BY <1>6 DEF DoVerify
  <2> QED
    BY <2>1, WrittenStays DEF WrittenInv, Untouched
<1> QED
  BY <1>1, <1>2, <1>3, <1>4, <1>5, <1>6 DEF ExchangeNext

LEMMA WrittenInvHolds == ExchangeSpec => []WrittenInv
  BY WrittenInvInit, WrittenInvNext, PackInvHolds, PTL DEF ExchangeSpec

\* The DAG a ledger exports from.
LEMMA ExportedDag ==
  ASSUME TypeOK, NEW convicted
  PROVE  BuildFromStore(observations \cup attestations, verified, convicted)
           = Build(HeldObservations, HeldAttestations, convicted)
<1>1. (observations \cup attestations) \cap verified \cap Obs = HeldObservations
  BY ObjectsType DEF TypeOK, HeldObservations
<1>2. (observations \cup attestations) \cap verified \cap Att = HeldAttestations
  BY ObjectsType DEF TypeOK, HeldAttestations
<1> QED
  BY <1>1, <1>2 DEF BuildFromStore

\* What survives the self-check of an untouched file is what its ledger holds
\* under signatures that verify.
LEMMA NothingIsLost ==
  ASSUME TypeOK, NEW p, NEW s, NEW convicted, WrittenAs(p, s, convicted)
  PROVE  LET D == Build(HeldObservations, HeldAttestations, convicted)
         IN  /\ SurvivingObservations(p) = CarriedObservations(D, p.claims) \cap verified
             /\ SurvivingAttestations(p) = CarriedAttestations(D, p.claims)
             /\ p.observations = CarriedObservations(D, p.claims)
             /\ p.attestations = CarriedAttestations(D, p.claims)
             /\ p.fork_proofs = CarriedProofs(p.observations, p.attestations)
             /\ CarriedAttestations(D, p.claims) \subseteq HeldAttestations
<1> DEFINE D == Build(HeldObservations, HeldAttestations, convicted)
           O == CarriedObservations(D, p.claims)
           A == CarriedAttestations(D, p.claims)
<1>1. p = PackOf(p.claims, O, A)
  <2>1. D = BuildFromStore(observations \cup attestations, verified, convicted)
    BY ExportedDag
  <2> QED
    BY <2>1 DEF WrittenAs, ExportPack
<1>2. O \subseteq observations
  BY DEF CarriedObservations, Entries
<1>3. D.attestations = HeldAttestations
  BY DEF Build
<1>4. A \subseteq HeldAttestations
  BY <1>3 DEF CarriedAttestations, Reachable
<1> HIDE DEF D, O, A
<1>5. /\ p.observations = O /\ p.attestations = A /\ p.good = (O \cup A) \cap verified
      /\ p.fork_proofs = CarriedProofs(O, A)
  BY <1>1 DEF PackOf
<1>6. verified \subseteq SignedObs \cup SignedAtt
  BY DEF TypeOK
<1>7. SurvivingObservations(p) = O \cap verified
  BY <1>5, <1>6 DEF SurvivingObservations, VerifyId
<1>8. SurvivingAttestations(p) = A
  BY <1>4, <1>5, <1>6 DEF SurvivingAttestations, VerifyId, HeldAttestations
<1> QED
  BY <1>4, <1>5, <1>7, <1>8 DEF D, O, A

\* A claimed author's chain is carried as far as every attestation of it that is.
LEMMA SegmentIsFarEnough ==
  ASSUME LedgerInv, NEW r \in Obs, NEW convicted
  PROVE  LET D == Build(HeldObservations, HeldAttestations, convicted)
         IN  /\ SegmentReach(D, r) \in Nat /\ seq[r] <= SegmentReach(D, r)
             /\ \A a \in Reachable(D, r) : subject[a] = author[r]
                                           /\ subject_seq[a] <= SegmentReach(D, r)
<1> DEFINE D == Build(HeldObservations, HeldAttestations, convicted)
           R == Reachable(D, r)
           own == {x \in R : subject[x] = author[r]}
           anchors == {subject_seq[a] : a \in own}
<1>1. D.attestations = HeldAttestations /\ D.order = Build(HeldObservations, HeldAttestations, convicted).order
  BY DEF Build
<1>2. /\ R \in SUBSET HeldAttestations
      /\ \A a \in R : <<r, a>> \in D.order \/ <<a, r>> \in D.order
  BY <1>1 DEF Reachable
<1>3. HeldAttestations \in SUBSET Att /\ HeldObservations \in SUBSET Obs /\ R \in SUBSET Att
  BY <1>2 DEF LedgerInv, TypeOK, HeldAttestations, HeldObservations
<1>4. \A a \in R : subject[a] = author[r]
  <2> SUFFICES ASSUME NEW a \in R PROVE Owner(a) = Owner(r)
    BY <1>3, ObjectsType DEF Owner
  <2>1. \A e \in Build(HeldObservations, HeldAttestations, convicted).order : Owner(e[2]) = Owner(e[1])
    BY <1>3, ReachedIsLater
  <2>2. <<r, a>>[1] = r /\ <<r, a>>[2] = a /\ <<a, r>>[1] = a /\ <<a, r>>[2] = r
    OBVIOUS
  <2> QED
    BY <1>1, <1>2, <2>1, <2>2
<1>5. IsFiniteSet(R)
  <2>1. R \in SUBSET attestations
    BY <1>2 DEF HeldAttestations
  <2> QED
    BY <2>1, FS_Subset DEF LedgerInv, HeldIsFinite
<1> HIDE DEF R
<1>6. IsFiniteSet({seq[r]} \cup anchors) /\ {seq[r]} \cup anchors \in SUBSET Nat
  <2>1. own \in SUBSET R
    OBVIOUS
  <2>2. IsFiniteSet(own)
    <3> HIDE DEF own
    <3> QED
      BY <1>5, <2>1, FS_Subset
  <2>3. [a \in own |-> subject_seq[a]] \in Surjection(own, anchors)
    BY DEF Surjection
  <2>4. IsFiniteSet(anchors)
    <3> DEFINE at == [a \in own |-> subject_seq[a]]
    <3> HIDE DEF at, own, anchors
    <3>1. at \in Surjection(own, anchors)
      BY <2>3 DEF at
    <3> QED
      BY <2>2, <3>1, FS_Surjection
  <2>5. seq[r] \in Nat /\ \A a \in own : subject_seq[a] \in Nat
    BY <1>3, ObjectsType
  <2>6. anchors \in SUBSET Nat
    BY <2>5
  <2> HIDE DEF anchors
  <2>7. IsFiniteSet(anchors \cup {seq[r]})
    BY <2>4, FS_AddElement
  <2>8. anchors \cup {seq[r]} = {seq[r]} \cup anchors
    OBVIOUS
  <2> QED
    BY <2>5, <2>6, <2>7, <2>8
<1>7. SegmentReach(D, r) = Max({seq[r]} \cup anchors)
  BY DEF SegmentReach, R
<1>8. /\ SegmentReach(D, r) \in Nat
      /\ \A n \in {seq[r]} \cup anchors : n <= SegmentReach(D, r)
  <2> DEFINE T == {seq[r]} \cup anchors
  <2>1. T # {}
    OBVIOUS
  <2> HIDE DEF T
  <2>2. Max(T) \in Nat /\ \A n \in T : n <= Max(T)
    BY <1>6, <2>1, LargestExists DEF T
  <2> HIDE DEF D
  <2> QED
    BY <1>7, <2>2 DEF T
<1>9. \A a \in R : a \in own
  BY <1>4
<1> QED
  BY <1>4, <1>8, <1>9 DEF R

\* So the carried part yields the bracket the whole does.
LEMMA CarriedBracket ==
  ASSUME NEW O2 \in SUBSET Obs, NEW A2 \in SUBSET Att, NEW O1, NEW A1, NEW Q1, NEW Q2, NEW r,
         Carries(O1, A1, O2, A2, Q2, r), LinksFit(O2, author[r]),
         \A a \in A1 : witness[a] \in Q1 <=> witness[a] \in Q2,
         author[r] \in Q1 <=> author[r] \in Q2
  PROVE  ClaimBracket(BuildCarried(O1, A1, Q1), r) = Bracket(Build(O2, A2, Q2), r)
<1> DEFINE D == BuildCarried(O1, A1, Q1)
           B == Build(O2, A2, Q2)
           others == {a \in A1 : witness[a] # author[r]}
           sealing == {a \in others : <<r, a>> \in D.order}
           preceding == {a \in others : <<a, r>> \in D.order}
           first == {u \in sealing : ~\E o \in sealing \ {u} : <<o, u>> \in D.order}
           last == {l \in preceding : ~\E o \in preceding \ {l} : <<l, o>> \in D.order}
<1>0. D.attestations = A1 /\ D.quarantined = Q1 /\ D.order = Build(O1, A1, Q1).order
  BY SameBrackets
<1>1. /\ D.attestations = A1 /\ D.quarantined = Q1 /\ D.order = Build(O1, A1, Q1).order
      /\ B.attestations = A2 /\ B.quarantined = Q2
  BY <1>0 DEF Build
<1>2. O1 \in SUBSET Obs /\ O1 \subseteq O2 /\ A1 \in SUBSET Att /\ A1 \subseteq A2
  BY DEF Carries
<1>3. \A x, y : <<x, y>> \in D.order => <<x, y>> \in B.order
  <2>1. \A x, y : <<x, y>> \in Build(O1, A1, Q1).order => <<x, y>> \in Build(O2, A2, Q2).order
    BY <1>2, LessIsOrdered
  <2> HIDE DEF D
  <2> QED
    BY <1>0, <2>1
<1>4. \A x, y : /\ <<x, y>> \in B.order /\ (y = r \/ y \in A2)
                /\ x = r \/ <<r, x>> \in B.order \/ y = r \/ <<y, r>> \in B.order
                => <<x, y>> \in D.order
  <2>1. ASSUME NEW x, NEW y, <<x, y>> \in Build(O2, A2, Q2).order, y = r \/ y \in A2,
               \/ x = r \/ <<r, x>> \in Build(O2, A2, Q2).order
               \/ y = r \/ <<y, r>> \in Build(O2, A2, Q2).order
        PROVE  <<x, y>> \in Build(O1, A1, Q1).order
    <3>1. \A a \in A1 : witness[a] \in Q1 => witness[a] \in Q2
      OBVIOUS
    <3> QED
      BY <2>1, <3>1, CarriedOrder
  <2> HIDE DEF D
  <2> QED
    BY <1>0, <2>1
<1>5. \A a \in A2 : <<r, a>> \in B.order \/ <<a, r>> \in B.order => a \in A1
  BY DEF Carries
<1> HIDE DEF D, B
<1>6. sealing = Sealing(B, r)
  BY <1>1, <1>2, <1>3, <1>4, <1>5 DEF Sealing
<1>7. preceding = Preceding(B, r)
  BY <1>1, <1>2, <1>3, <1>4, <1>5 DEF Preceding
<1>8. first = Earliest(B, Sealing(B, r))
  <2> DEFINE S == Sealing(B, r)
  <2>1. \A o, u \in S : <<o, u>> \in D.order <=> <<o, u>> \in B.order
    BY <1>1, <1>3, <1>4 DEF Sealing
  <2>2. first = {u \in S : ~\E o \in S \ {u} : <<o, u>> \in D.order}
    BY <1>6
  <2> HIDE DEF S, first
  <2>3. first = Earliest(B, S)
    BY <2>1, <2>2 DEF Earliest
  <2> QED
    BY <2>3 DEF S
<1>9. last = Latest(B, Preceding(B, r))
  <2> DEFINE S == Preceding(B, r)
  <2>1. \A l, o \in S : <<l, o>> \in D.order <=> <<l, o>> \in B.order
    BY <1>1, <1>3, <1>4 DEF Preceding
  <2>2. last = {l \in S : ~\E o \in S \ {l} : <<l, o>> \in D.order}
    BY <1>7
  <2> HIDE DEF S, last
  <2>3. last = Latest(B, S)
    BY <2>1, <2>2 DEF Latest
  <2> QED
    BY <2>3 DEF S
<1>10. ClaimBracket(D, r) =
         [observation |-> r, sealing |-> sealing, preceding |-> preceding,
          upper_bound |-> LowestId(first), lower_bound |-> LowestId(last),
          sealed |-> sealing # {},
          witness_depth |-> Cardinality({witness[a] : a \in sealing}),
          disputed |-> author[r] \in Q1 /\ sealing = {}]
  BY <1>1 DEF ClaimBracket
<1>11. Bracket(B, r) =
         [observation |-> r,
          sealing |-> Sealing(B, r), preceding |-> Preceding(B, r),
          lower_bound |-> LowestId(Latest(B, Preceding(B, r))),
          upper_bound |-> LowestId(Earliest(B, Sealing(B, r))),
          sealed |-> Sealing(B, r) # {},
          witness_depth |-> Cardinality({witness[a] : a \in Sealing(B, r)}),
          disputed |-> author[r] \in Q2 /\ Sealing(B, r) = {}]
  BY <1>1 DEF Bracket, LowerBound, UpperBound, WitnessDepth, Disputed
<1> HIDE DEF sealing, preceding, first, last
<1> QED
  BY <1>6, <1>7, <1>8, <1>9, <1>10, <1>11 DEF D, B

\* An untouched file carries, for each record it claims, what the record's
\* bracket depends on.
LEMMA PackIsEnough ==
  ASSUME LedgerInv, NEW p, NEW s, NEW convicted, WrittenAs(p, s, convicted),
         NEW Q2, convicted \subseteq Q2, NEW r \in p.claims \cap HeldObservations
  PROVE  Carries(SurvivingObservations(p), SurvivingAttestations(p),
                 HeldObservations, HeldAttestations, Q2, r)
<1> DEFINE D == Build(HeldObservations, HeldAttestations, convicted)
           O1 == SurvivingObservations(p)
           A1 == SurvivingAttestations(p)
<1>1. /\ O1 = CarriedObservations(D, p.claims) \cap verified
      /\ A1 = CarriedAttestations(D, p.claims) /\ A1 \subseteq HeldAttestations
  BY NothingIsLost DEF LedgerInv
<1>2. /\ HeldObservations \in SUBSET Obs /\ HeldAttestations \in SUBSET Att
      /\ p.claims \in SUBSET Obs
      /\ D.attestations = HeldAttestations
  BY DEF LedgerInv, TypeOK, HeldObservations, HeldAttestations, WrittenAs, Build
<1> HIDE DEF O1, A1
<1>3. O1 \subseteq HeldObservations
  BY <1>1 DEF CarriedObservations, Entries, HeldObservations
<1>4. ASSUME NEW q \in p.claims, NEW y \in HeldObservations, author[y] = author[q],
             seq[y] <= SegmentReach(D, q)
      PROVE  y \in O1
  <2> DEFINE segments == {[of |-> c, reach |-> SegmentReach(D, c)] : c \in p.claims}
             segment == [of |-> q, reach |-> SegmentReach(D, q)]
  <2>1. segment \in segments
    OBVIOUS
  <2>2. segment.of = q /\ segment.reach = SegmentReach(D, q)
    OBVIOUS
  <2>3. y \in verified /\ y \in Entries(author[q])
    BY <1>4 DEF HeldObservations, Entries
  <2> HIDE DEF segment, D
  <2>4. y \in {x \in Entries(author[segment.of]) : seq[x] <= segment.reach}
    BY <1>4, <2>2, <2>3
  <2>5. CarriedObservations(D, p.claims)
          = UNION {{x \in Entries(author[c.of]) : seq[x] <= c.reach} : c \in segments}
    BY DEF CarriedObservations
  <2> HIDE DEF segments
  <2>6. y \in CarriedObservations(D, p.claims)
    BY <2>1, <2>4, <2>5
  <2> QED
    BY <1>1, <2>3, <2>6 DEF D
<1>5. \A c \in Obs : /\ SegmentReach(D, c) \in Nat /\ seq[c] <= SegmentReach(D, c)
                     /\ \A a \in Reachable(D, c) : /\ subject[a] = author[c]
                                                   /\ subject_seq[a] <= SegmentReach(D, c)
  BY SegmentIsFarEnough
<1>6. ASSUME NEW a \in HeldAttestations,
             \/ <<r, a>> \in Build(HeldObservations, HeldAttestations, Q2).order
             \/ <<a, r>> \in Build(HeldObservations, HeldAttestations, Q2).order
      PROVE  a \in A1
  <2>1. \A x, y : <<x, y>> \in Build(HeldObservations, HeldAttestations, Q2).order
                 => <<x, y>> \in Build(HeldObservations, HeldAttestations, convicted).order
    BY <1>2, LessIsOrdered
  <2>2. a \in Reachable(D, r)
    BY <1>2, <1>6, <2>1 DEF Reachable
  <2> HIDE DEF D
  <2> QED
    BY <1>1, <2>2 DEF CarriedAttestations, D
<1>7. ASSUME NEW y \in HeldObservations, author[y] = author[r], seq[y] <= seq[r]
      PROVE  y \in O1
  <2>1. seq[y] \in Nat /\ seq[r] \in Nat /\ r \in Obs /\ r \in p.claims
    BY <1>2, ObjectsType
  <2>2. SegmentReach(D, r) \in Nat /\ seq[r] <= SegmentReach(D, r)
    BY <1>5, <2>1
  <2>3. seq[y] <= SegmentReach(D, r)
    <3> HIDE DEF D
    <3> QED
      BY <1>7, <2>1, <2>2
  <2> HIDE DEF D
  <2> QED
    BY <1>4, <1>7, <2>1, <2>3
<1>8. ASSUME NEW a \in A1, NEW y \in HeldObservations, author[y] = author[r],
             subject[a] = author[r], seq[y] <= subject_seq[a]
      PROVE  y \in O1
  <2>1. PICK c \in p.claims : a \in Reachable(D, c)
    BY <1>1 DEF CarriedAttestations
  <2>2. a \in Att /\ c \in Obs /\ subject_seq[a] \in Nat /\ seq[y] \in Nat
    BY <1>1, <1>2, ObjectsType
  <2>3. /\ SegmentReach(D, c) \in Nat /\ subject_seq[a] <= SegmentReach(D, c)
        /\ subject[a] = author[c]
    BY <1>5, <2>1, <2>2
  <2>4. seq[y] <= SegmentReach(D, c)
    <3> HIDE DEF D
    <3> QED
      BY <1>8, <2>2, <2>3
  <2> HIDE DEF D
  <2> QED
    BY <1>4, <1>8, <2>1, <2>3, <2>4
<1>9. r \in O1
  <2>1. seq[r] \in Nat
    BY <1>2, ObjectsType
  <2>2. seq[r] <= seq[r]
    BY <2>1
  <2> QED
    BY <1>7, <2>2
<1> QED
  BY <1>1, <1>3, <1>6, <1>7, <1>8, <1>9 DEF Carries, O1, A1

\* The report of a record that survived.
LEMMA SurvivingClaim ==
  ASSUME PackInv, report # NoReport, NEW r \in pack.claims \cap SurvivingObservations(pack)
  PROVE  \E c \in report.claims :
           /\ c.outcome = "Bracketed" /\ c.observation = r
           /\ c.bracket = ClaimBracket(BuildCarried(SurvivingObservations(pack),
                                        SurvivingAttestations(pack), Quarantined(pack)), r)
<1> DEFINE D == BuildCarried(SurvivingObservations(pack), SurvivingAttestations(pack),
                             Quarantined(pack))
           b == ClaimBracket(D, r)
           c == [observation |-> r, outcome |-> "Bracketed", bracket |-> b, below |-> WindowBelow(D, r),
                 fork_proofs_touching |-> ForkProofsTouching(D, b)]
<1>1. report \in VerifyPack(pack)
  BY DEF PackInv
<1>2. report.claims = UNION {ClaimOutcomes(D, x, Invalid(pack) # {}) : x \in pack.claims}
  BY <1>1 DEF VerifyPack, ReportOn
<1>3. D.observations = SurvivingObservations(pack)
  BY DEF BuildCarried
<1>4. c.outcome = "Bracketed" /\ c.observation = r /\ c.bracket = b
  OBVIOUS
<1> HIDE DEF D
<1>5. c \in ClaimOutcomes(D, r, Invalid(pack) # {})
  BY <1>3 DEF ClaimOutcomes
<1> HIDE DEF c, b
<1>6. c \in report.claims
  BY <1>2, <1>5
<1> QED
  BY <1>4, <1>6 DEF D, b

\* An untouched file convicts a key that appears in it if and only if its
\* exporter can prove a fork of it.
LEMMA SameConvictions ==
  ASSUME LedgerInv, HeldHere(pack), QuarantineProvable, NEW convicted,
         WrittenAs(pack, exported.said, convicted),
         NEW k \in KeysIn(pack.observations, pack.attestations)
  PROVE  k \in Quarantined(pack) <=> k \in exported.said.quarantine
<1>1. exported.said.quarantine = convicted \cup Provable
  BY DEF WrittenAs, Said
<1>2. exported.said.quarantine = Provable
  BY <1>1 DEF QuarantineProvable
<1>3. k \in Quarantined(pack) => k \in Provable
  BY DEF Quarantined, ValidProofs, HeldHere, Provable
<1>4. k \in Provable => k \in Quarantined(pack)
  BY CarriedKeysConvicted
<1> QED
  BY <1>2, <1>3, <1>4

\* A stranger recomputes from an untouched file exactly the brackets its exporter
\* states (export.rs export_pack against vigil-verify bracket.rs, spec/03 3).
THEOREM StrangersRecompute == ExchangeSpec => []PackReproducesBrackets
<1>1. LedgerInv /\ PackInv /\ WrittenInv => PackReproducesBrackets
  <2> SUFFICES ASSUME LedgerInv, PackInv, WrittenInv, report # NoReport, Untouched,
                      exported.said.fits, QuarantineProvable
               PROVE  {c.bracket : c \in {d \in report.claims : d.outcome = "Bracketed"}}
                        = exported.said.brackets
    BY DEF PackReproducesBrackets, Verified
  <2> DEFINE O1 == SurvivingObservations(pack)
             A1 == SurvivingAttestations(pack)
             Q1 == Quarantined(pack)
             Q2 == exported.said.quarantine
             B == Build(HeldObservations, HeldAttestations, Q2)
             D == BuildCarried(O1, A1, Q1)
  <2>1. pack # NoPack /\ pack \in PackFile /\ HeldHere(pack)
    BY DEF PackInv, Untouched
  <2>2. PICK convicted : WrittenAs(pack, exported.said, convicted)
    BY <2>1 DEF WrittenInv
  <2>3. Q2 = convicted \cup Provable /\ convicted \subseteq Q2
    BY <2>2 DEF WrittenAs, Said
  <2>4. exported.said.brackets = {Bracket(B, r) : r \in pack.claims \cap HeldObservations}
    <3>1. BuildFromStore(observations \cup attestations, verified, Q2) = B
      BY ExportedDag DEF LedgerInv
    <3>2. B.observations = HeldObservations
      BY DEF Build
    <3>3. exported.said = Said(pack.claims, Q2)
      BY <2>2, <2>3 DEF WrittenAs
    <3> HIDE DEF B, Q2
    <3>4. Said(pack.claims, Q2).brackets =
            UNION {{Bracket(X, r) : r \in pack.claims \cap X.observations} :
                     X \in {BuildFromStore(observations \cup attestations, verified, Q2)}}
      BY DEF Said
    <3> QED
      BY <3>1, <3>2, <3>3, <3>4
  <2>5. O1 \subseteq HeldObservations
    BY <2>1, SurvivorsAreHeld DEF LedgerInv, HeldObservations
  <2>6. ASSUME NEW r \in pack.claims \cap HeldObservations
        PROVE  r \in O1 /\ ClaimBracket(D, r) = Bracket(B, r)
    <3>1. Carries(O1, A1, HeldObservations, HeldAttestations, Q2, r)
      BY <2>2, <2>3, PackIsEnough
    <3>2. HeldObservations \in SUBSET Obs /\ HeldAttestations \in SUBSET Att
      BY DEF LedgerInv, TypeOK, HeldObservations, HeldAttestations
    <3>3. LinksFit(HeldObservations, author[r])
      <4>1. \A x \in Entries(author[r]) :
              prev[x] \in Entries(author[r]) => seq[prev[x]] + 1 = seq[x]
        BY <2>2 DEF WrittenAs, Said
      <4> QED
        BY <4>1 DEF LinksFit, Entries, HeldObservations
    <3>4. /\ r \in pack.observations
          /\ \A a \in A1 : witness[a] \in KeysIn(pack.observations, pack.attestations)
          /\ author[r] \in KeysIn(pack.observations, pack.attestations)
      <4>1. r \in O1
        BY <3>1 DEF Carries
      <4> QED
        BY <4>1 DEF KeysIn, SurvivingObservations, SurvivingAttestations
    <3>5. /\ \A a \in A1 : witness[a] \in Q1 <=> witness[a] \in Q2
          /\ author[r] \in Q1 <=> author[r] \in Q2
      BY <2>1, <2>2, <3>4, SameConvictions
    <3> HIDE DEF O1, A1, Q1, Q2
    <3>6. ClaimBracket(BuildCarried(O1, A1, Q1), r) = Bracket(Build(HeldObservations, HeldAttestations, Q2), r)
      BY <3>1, <3>2, <3>3, <3>5, CarriedBracket
    <3> QED
      BY <3>1, <3>6 DEF Carries
  <2>7. ASSUME NEW c \in report.claims, c.outcome = "Bracketed"
        PROVE  c.bracket \in exported.said.brackets
    <3>1. c.observation \in O1 \cap pack.claims /\ c.bracket = ClaimBracket(D, c.observation)
      BY <2>7, ReportedClaim
    <3> HIDE DEF O1, D, B
    <3> QED
      BY <2>4, <2>5, <2>6, <3>1
  <2>8. ASSUME NEW r \in pack.claims \cap HeldObservations
        PROVE  \E c \in report.claims : c.outcome = "Bracketed" /\ c.bracket = Bracket(B, r)
    <3>1. \E c \in report.claims : c.outcome = "Bracketed" /\ c.bracket = ClaimBracket(D, r)
      BY <2>6, <2>8, SurvivingClaim
    <3> HIDE DEF D, B
    <3> QED
      BY <2>6, <2>8, <3>1
  <2> HIDE DEF B
  <2> QED
    BY <2>4, <2>7, <2>8
<1> QED
  BY <1>1, PackInvHolds, WrittenInvHolds, PTL

-----------------------------------------------------------------------------
(***************************************************************************)
(* What passes.                                                            *)
(***************************************************************************)

\* A chain verified whole holds an entry at every number up to any of its own.
LEMMA WholeChainHolds ==
  ASSUME TypeOK, StoreIsFinite, NEW k, VerifyChain(k) = "Verified",
         NEW x \in Entries(k), NEW n \in Nat, n <= seq[x]
  PROVE  \E y \in Entries(k) : seq[y] = n
<1>1. Whole(k)
  BY DEF VerifyChain
<1>2. Seqs(k) \in SUBSET Nat /\ IsFiniteSet(Seqs(k)) /\ Seqs(k) # {} /\ seq[x] \in Seqs(k)
  BY SeqsFinite DEF StoreIsFinite, Seqs
<1>3. Seqs(k) = 0 .. Max(Seqs(k)) /\ Max(Seqs(k)) \in Nat /\ seq[x] <= Max(Seqs(k))
  BY <1>1, <1>2, CountTellsInterval, LargestExists DEF Whole
<1>4. n \in 0 .. Max(Seqs(k))
  BY <1>2, <1>3
<1>5. n \in Seqs(k)
  BY <1>3, <1>4
<1> QED
  BY <1>5 DEF Seqs

\* In an untouched file without a bad object, every attestation carried for an
\* honest author's whole chain is anchored in what is carried.
LEMMA HonestChainsAnchor ==
  ASSUME LedgerInv, StoreIsFinite, NEW p, NEW s, NEW convicted, WrittenAs(p, s, convicted),
         Invalid(p) = {},
         \A r \in p.claims : author[r] \in Honest /\ VerifyChain(author[r]) = "Verified",
         NEW a \in SurvivingAttestations(p)
  PROVE  Anchored(SurvivingObservations(p), a)
<1> DEFINE D == Build(HeldObservations, HeldAttestations, convicted)
           O == CarriedObservations(D, p.claims)
<1>1. /\ SurvivingObservations(p) = O \cap verified /\ p.observations = O
      /\ SurvivingAttestations(p) = CarriedAttestations(D, p.claims)
      /\ CarriedAttestations(D, p.claims) \subseteq HeldAttestations
  BY NothingIsLost DEF LedgerInv
<1>2. SurvivingObservations(p) = O
  BY <1>1 DEF Invalid
<1>3. /\ HeldObservations \in SUBSET Obs /\ HeldAttestations \in SUBSET Att
      /\ p.claims \in SUBSET Obs /\ HeldObservations \subseteq SignedObs
  BY ObjectsType DEF LedgerInv, TypeOK, HeldObservations, HeldAttestations, WrittenAs
<1>4. PICK r \in p.claims : a \in Reachable(D, r)
  BY <1>1 DEF CarriedAttestations
<1> DEFINE k == author[r]
           h == subject_head[a]
<1>5. /\ SegmentReach(D, r) \in Nat /\ subject[a] = k /\ subject_seq[a] <= SegmentReach(D, r)
      /\ subject_seq[a] \in Nat /\ a \in Att
  BY <1>1, <1>3, <1>4, ObjectsType, SegmentIsFarEnough
<1>6. ASSUME NEW y \in Entries(k), seq[y] = subject_seq[a]
      PROVE  y \in O
  <2> DEFINE segments == {[of |-> c, reach |-> SegmentReach(D, c)] : c \in p.claims}
             segment == [of |-> r, reach |-> SegmentReach(D, r)]
  <2>1. segment \in segments /\ segment.of = r /\ segment.reach = SegmentReach(D, r)
    OBVIOUS
  <2> HIDE DEF D, segment
  <2>2. y \in {x \in Entries(author[segment.of]) : seq[x] <= segment.reach}
    BY <1>5, <1>6, <2>1
  <2>3. O = UNION {{x \in Entries(author[c.of]) : seq[x] <= c.reach} : c \in segments}
    BY DEF CarriedObservations
  <2> HIDE DEF segments, O
  <2> QED
    BY <2>1, <2>2, <2>3
<1>7. CASE <<r, a>> \in D.order
  <2>1. Anchored(HeldObservations, a)
    BY <1>1, <1>3, <1>4, <1>7, WhatIsReached
  <2>2. h \in Entries(k) /\ seq[h] = subject_seq[a] /\ author[h] = subject[a]
    BY <1>5, <2>1 DEF Anchored, Entries, HeldObservations
  <2>3. h \in O
    BY <1>6, <2>2
  <2> HIDE DEF O
  <2> QED
    BY <1>2, <2>2, <2>3 DEF Anchored
<1>8. CASE <<a, r>> \in D.order
  <2>1. PICK x \in HeldObservations : a \in acks[x] /\ SoundAck(a, x)
    BY <1>1, <1>3, <1>4, <1>8, WhatIsReached
  <2>2. author[x] = k /\ subject_seq[a] < seq[x] /\ x \in SignedObs /\ seq[x] \in Nat
        /\ x \in Entries(k)
    BY <1>3, <1>5, <2>1, ObjectsType DEF SoundAck, Entries, HeldObservations
  <2>3. k \in Honest /\ VerifyChain(k) = "Verified"
    BY <1>4
  <2>4. h \in SignedObs /\ author[h] = k /\ seq[h] = subject_seq[a]
    BY <1>5, <2>1, <2>2, <2>3, HonestSigning
  <2>5. PICK y \in Entries(k) : seq[y] = subject_seq[a]
    BY <1>5, <2>2, <2>3, WholeChainHolds DEF LedgerInv
  <2>6. y \in O /\ author[y] = k
    BY <1>6, <2>5 DEF Entries
  <2>7. y \in SignedObs
    <3> HIDE DEF O
    <3>1. y \in HeldObservations
      BY <1>1, <1>2, <2>5, <2>6 DEF HeldObservations, Entries
    <3> QED
      BY <1>3, <3>1
  <2>8. y = h
    BY <2>3, <2>4, <2>5, <2>6, <2>7, HonestSigning
  <2> HIDE DEF O
  <2> QED
    BY <1>2, <1>5, <2>4, <2>6, <2>8 DEF Anchored
<1>9. <<r, a>> \in D.order \/ <<a, r>> \in D.order
  BY <1>4 DEF Reachable
<1> QED
  BY <1>7, <1>8, <1>9

\* The report on a file, part by part.
LEMMA ReportPassed ==
  ASSUME PackInv, report # NoReport
  PROVE  LET D == BuildCarried(SurvivingObservations(pack), SurvivingAttestations(pack),
                               Quarantined(pack))
         IN  /\ report.claims = UNION {ClaimOutcomes(D, r, Invalid(pack) # {}) : r \in pack.claims}
             /\ report.chains =
                  {[author |-> k, verdict |->
                      VerifyCarriedChain({x \in SurvivingObservations(pack) : author[x] = k})] :
                     k \in {author[x] : x \in SurvivingObservations(pack)}}
             /\ report.passed <=> /\ Invalid(pack) = {} /\ pack.fork_proofs = {}
                                  /\ \A c \in report.chains : c.verdict # "Violated"
                                  /\ Unanchored(D) = {}
                                  /\ \A c \in report.claims : c.outcome = "Bracketed"
<1> DEFINE O == SurvivingObservations(pack)
           D == BuildCarried(O, SurvivingAttestations(pack), Quarantined(pack))
           verdicts == {[author |-> k, verdict |-> VerifyCarriedChain({x \in O : author[x] = k})] :
                          k \in {author[x] : x \in O}}
           outcomes == UNION {ClaimOutcomes(D, r, Invalid(pack) # {}) : r \in pack.claims}
<1>1. report \in VerifyPack(pack)
  BY DEF PackInv
<1>2. D.observations = O
  BY DEF BuildCarried
<1>3. report = ReportOn(pack, D, verdicts, outcomes)
  <2> HIDE DEF outcomes
  <2>1. report \in UNION {{ReportOn(pack, d,
                   {[author |-> k, verdict |-> VerifyCarriedChain({x \in d.observations : author[x] = k})] :
                      k \in {author[x] : x \in d.observations}}, outcomes)} : d \in {D}}
    BY <1>1 DEF VerifyPack, outcomes
  <2> HIDE DEF D
  <2> QED
    BY <1>2, <2>1
<1> HIDE DEF D, verdicts, outcomes
<1>4. /\ report.claims = outcomes /\ report.chains = verdicts
      /\ report.passed = (/\ Invalid(pack) = {} /\ pack.fork_proofs = {}
                          /\ \A c \in verdicts : c.verdict # "Violated"
                          /\ Unanchored(D) = {}
                          /\ \A c \in outcomes : c.outcome = "Bracketed")
  BY <1>3 DEF ReportOn
<1>5. /\ report.claims = outcomes /\ report.chains = verdicts
      /\ report.passed <=> /\ Invalid(pack) = {} /\ pack.fork_proofs = {}
                           /\ \A c \in report.chains : c.verdict # "Violated"
                           /\ Unanchored(D) = {}
                           /\ \A c \in report.claims : c.outcome = "Bracketed"
  BY <1>4
<1> QED
  BY <1>5 DEF D, verdicts, outcomes

\* Whole chains of honest authors that no held fork touches, in a file that
\* arrives as it was written, pass (vigil-verify report.rs, the exit code).
THEOREM HonestPacksAlwaysPass == ExchangeSpec => []HonestPackPasses
<1>1. LedgerInv /\ StoreIsFinite /\ PackInv /\ WrittenInv /\ LossesAreNotViolations
        => HonestPackPasses
  <2> SUFFICES ASSUME LedgerInv, StoreIsFinite, PackInv, WrittenInv, LossesAreNotViolations,
                      report # NoReport, Untouched,
                      \A c \in exported.said.chains : c.author \in Honest /\ c.verdict = "Verified",
                      pack.fork_proofs = {}, Invalid(pack) = {}
               PROVE  report.passed
    BY DEF HonestPackPasses, Verified
  <2> DEFINE O == SurvivingObservations(pack)
             A == SurvivingAttestations(pack)
             D == BuildCarried(O, A, Quarantined(pack))
             claimed == {author[r] : r \in pack.claims}
             verdicts == {[author |-> k, verdict |-> VerifyCarriedChain({x \in O : author[x] = k})] :
                            k \in {author[x] : x \in O}}
  <2>1. pack # NoPack
    BY DEF PackInv
  <2>2. PICK convicted : WrittenAs(pack, exported.said, convicted)
    BY <2>1 DEF WrittenInv
  <2> DEFINE S == Build(HeldObservations, HeldAttestations, convicted)
  <2>3. exported.said.chains = {[author |-> k, verdict |-> VerifyChain(k)] : k \in claimed}
    BY <2>2 DEF WrittenAs, Said
  <2>4. \A k \in claimed : /\ k \in Honest /\ VerifyChain(k) = "Verified"
                           /\ [author |-> k, verdict |-> VerifyChain(k)] \in exported.said.chains
    <3> SUFFICES ASSUME NEW k \in claimed
                 PROVE  /\ k \in Honest /\ VerifyChain(k) = "Verified"
                        /\ [author |-> k, verdict |-> VerifyChain(k)] \in exported.said.chains
      OBVIOUS
    <3> DEFINE c == [author |-> k, verdict |-> VerifyChain(k)]
    <3>1. c \in exported.said.chains /\ c.author = k /\ c.verdict = VerifyChain(k)
      BY <2>3
    <3> HIDE DEF c, claimed
    <3>2. c.author \in Honest /\ c.verdict = "Verified"
      BY <3>1
    <3> QED
      BY <3>1, <3>2 DEF c
  <2>5. /\ O = CarriedObservations(S, pack.claims) \cap verified
        /\ pack.observations = CarriedObservations(S, pack.claims)
    BY <2>2, NothingIsLost DEF LedgerInv
  <2>6. O = CarriedObservations(S, pack.claims)
    BY <2>5 DEF Invalid
  <2>7. \A x \in O : author[x] \in claimed
    <3> SUFFICES ASSUME NEW x \in O PROVE author[x] \in claimed
      OBVIOUS
    <3>1. PICK c \in {[of |-> r, reach |-> SegmentReach(S, r)] : r \in pack.claims} :
            x \in Entries(author[c.of])
      BY <2>6 DEF CarriedObservations
    <3>2. PICK r \in pack.claims : c.of = r
      BY <3>1
    <3> QED
      BY <3>1, <3>2 DEF Entries
  <2>8. ASSUME NEW c \in report.chains
        PROVE  c.verdict # "Violated"
    <3>1. report.chains = verdicts
      BY ReportPassed
    <3>2. PICK k \in {author[x] : x \in O} : c.author = k
      <4> DEFINE verdict(k) == VerifyCarriedChain({x \in O : author[x] = k})
      <4>1. PICK k \in {author[x] : x \in O} : c = [author |-> k, verdict |-> verdict(k)]
        BY <3>1
      <4> HIDE DEF verdict, O
      <4> QED
        BY <4>1
    <3>3. k \in claimed
      BY <2>7, <3>2
    <3> DEFINE s == [author |-> k, verdict |-> VerifyChain(k)]
    <3>4. s \in exported.said.chains /\ s.author = k /\ s.verdict = "Verified"
      BY <2>4, <3>3
    <3> HIDE DEF s
    <3> QED
      BY <3>2, <3>4 DEF LossesAreNotViolations, Verified, Untouched
  <2>9. Unanchored(D) = {}
    <3> SUFFICES ASSUME NEW a \in Unanchored(D) PROVE FALSE
      OBVIOUS
    <3>1. D.attestations = A /\ D.seal_status = [b \in A |-> SealStatus(O, Quarantined(pack), b)]
      BY DEF BuildCarried
    <3>2. a \in A /\ SealStatus(O, Quarantined(pack), a) = "Unanchored"
      <4> HIDE DEF D, A
      <4> QED
        BY <3>1 DEF Unanchored
    <3>3. Anchored(O, a)
      <4>1. \A r \in pack.claims : author[r] \in Honest /\ VerifyChain(author[r]) = "Verified"
        BY <2>4
      <4> QED
        BY <2>2, <3>2, <4>1, HonestChainsAnchor
    <3> QED
      BY <3>2, <3>3 DEF SealStatus, Anchored
  <2>10. ASSUME NEW r \in pack.claims
         PROVE  r \in O
    <3> DEFINE segments == {[of |-> c, reach |-> SegmentReach(S, c)] : c \in pack.claims}
               segment == [of |-> r, reach |-> SegmentReach(S, r)]
    <3>1. segment \in segments /\ segment.of = r /\ segment.reach = SegmentReach(S, r)
      OBVIOUS
    <3>2. r \in Obs /\ r \in Entries(author[r])
      BY <2>2 DEF WrittenAs, Entries, LedgerInv, TypeOK
    <3>3. seq[r] <= SegmentReach(S, r)
      BY <3>2, SegmentIsFarEnough
    <3> HIDE DEF S, segment
    <3>4. r \in {x \in Entries(author[segment.of]) : seq[x] <= segment.reach}
      BY <3>1, <3>2, <3>3
    <3>5. O = UNION {{x \in Entries(author[c.of]) : seq[x] <= c.reach} : c \in segments}
      BY <2>6 DEF CarriedObservations
    <3> HIDE DEF segments, O
    <3> QED
      BY <3>1, <3>4, <3>5
  <2>11. ASSUME NEW c \in report.claims
         PROVE  c.outcome = "Bracketed"
    <3>1. D.observations = O
      BY DEF BuildCarried
    <3>2. report.claims = UNION {ClaimOutcomes(D, r, Invalid(pack) # {}) : r \in pack.claims}
      BY ReportPassed
    <3>3. PICK r \in pack.claims : c \in ClaimOutcomes(D, r, Invalid(pack) # {})
      BY <3>2
    <3> HIDE DEF D, O
    <3> QED
      BY <2>10, <3>1, <3>3 DEF ClaimOutcomes
  <2> QED
    BY <2>8, <2>9, <2>11, ReportPassed
<1>2. ExchangeSpec => []StoreIsFinite
  BY ExchangeIsLedger, StoreFinite, PTL
<1> QED
  BY <1>1, <1>2, PackInvHolds, WrittenInvHolds, LossesNeverAccuse, PTL

=============================================================================
