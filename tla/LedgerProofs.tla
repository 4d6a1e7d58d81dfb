----------------------------- MODULE LedgerProofs -----------------------------
(***************************************************************************)
(* What holds of Ledger for every universe of objects and keys, proved.    *)
(***************************************************************************)
EXTENDS Ledger, NumberSets

-----------------------------------------------------------------------------
(***************************************************************************)
(* Type correctness.                                                       *)
(***************************************************************************)

\* A put keeps the stored signatures honest: an id counts as verified only if
\* its key signed it.
LEMMA PutKeepsType ==
  /\ \A x \in Obs, good \in BOOLEAN : TypeOK /\ PutObservation(x, good) => TypeOK'
  /\ \A a \in Att, good \in BOOLEAN : TypeOK /\ PutAttestation(a, good) => TypeOK'
  BY ObjectsType DEF TypeOK, PutObservation, PutAttestation, FirstSignature, VerifyId

\* The store holds objects of the universe, and only what was really signed
\* counts as verified (memory.rs, sign.rs).
THEOREM TypeCorrect == Spec => []TypeOK
<1>1. Init => TypeOK
  BY DEF Init, TypeOK
<1>2. TypeOK /\ [Next]_vars => TypeOK'
  <2> SUFFICES ASSUME TypeOK, [Next]_vars PROVE TypeOK'
    OBVIOUS
  <2>1. CASE \E x \in Obs \cap Arriving : AppendObservation(x)
    BY <2>1, PutKeepsType DEF AppendObservation
  <2>2. CASE \E x \in Obs \cap Arriving, good \in BOOLEAN :
               (good \/ x \in Garbled) /\ PutObservation(x, good)
    BY <2>2, PutKeepsType
  <2>3. CASE \E a \in Att \cap Arriving : IngestAttestation(a)
    BY <2>3, PutKeepsType DEF IngestAttestation
  <2>4. CASE \E a \in Att \cap Arriving, good \in BOOLEAN :
               (good \/ a \in Garbled) /\ PutAttestation(a, good)
    BY <2>4, PutKeepsType
  <2>5. CASE \E p \in ForkProof : ApplyFork(p)
    BY <2>5 DEF ApplyFork, ForkProof, TypeOK
  <2>6. CASE UNCHANGED vars
    BY <2>6 DEF vars, TypeOK
  <2> QED
    BY <2>1, <2>2, <2>3, <2>4, <2>5, <2>6 DEF Next
<1> QED
  BY <1>1, <1>2, PTL DEF Spec

-----------------------------------------------------------------------------
(***************************************************************************)
(* The store only grows.                                                   *)
(***************************************************************************)

\* No step takes away an object, a verified signature or a conviction.
LEMMA StoreGrows ==
  ASSUME [Next]_vars
  PROVE  /\ observations \subseteq observations'
         /\ attestations \subseteq attestations'
         /\ verified \subseteq verified'
         /\ quarantine \subseteq quarantine'
<1> USE DEF PutObservation, PutAttestation, FirstSignature
<1>1. CASE \E x \in Obs \cap Arriving : AppendObservation(x)
  BY <1>1 DEF AppendObservation
<1>2. CASE \E x \in Obs \cap Arriving, good \in BOOLEAN :
             (good \/ x \in Garbled) /\ PutObservation(x, good)
  BY <1>2
<1>3. CASE \E a \in Att \cap Arriving : IngestAttestation(a)
  BY <1>3 DEF IngestAttestation
<1>4. CASE \E a \in Att \cap Arriving, good \in BOOLEAN :
             (good \/ a \in Garbled) /\ PutAttestation(a, good)
  BY <1>4
<1>5. CASE \E p \in ForkProof : ApplyFork(p)
  BY <1>5 DEF ApplyFork
<1>6. CASE UNCHANGED vars
  BY <1>6 DEF vars
<1> QED
  BY <1>1, <1>2, <1>3, <1>4, <1>5, <1>6 DEF Next

-----------------------------------------------------------------------------
(***************************************************************************)
(* A contradiction found in a chain is never explained away.               *)
(***************************************************************************)

\* verify_chain reports Violated exactly when pass 1 finds something.
LEMMA ViolatedIsContradicted ==
  ASSUME NEW k
  PROVE  (VerifyChain(k) = "Violated") <=> (Entries(k) # {} /\ Contradicted(k))
  BY DEF VerifyChain

\* More entries never remove a contradiction: a broken link whose predecessor
\* turns up after all leaves two entries at that predecessor's seq.
LEMMA ContradictionStays ==
  ASSUME NEW k, observations \subseteq observations', Contradicted(k)
  PROVE  Contradicted(k)'
<1>1. Entries(k) \subseteq Entries(k)'
  BY DEF Entries
<1>2. CASE Equivocates(k)
  BY <1>1, <1>2 DEF Equivocates, Contradicted
<1>3. ASSUME NEW x \in Entries(k), LinkViolation(x)
      PROVE  Contradicted(k)'
  <2>0. author[x] = k
    BY DEF Entries
  <2>1. CASE seq[x] = 0
    BY <1>1, <1>3, <2>1 DEF LinkViolation, Contradicted
  <2>2. CASE seq[x] # 0
    <3> DEFINE held == EntriesAt(k, seq[x] - 1)
    <3>1. held # {} /\ prev[x] \notin held
      BY <1>3, <2>0, <2>2 DEF LinkViolation
    <3>2. held \subseteq held'
      BY <1>1 DEF EntriesAt
    <3>3. CASE prev[x] \notin held'
      <4>1. LinkViolation(x)'
        BY <2>0, <2>2, <3>1, <3>2, <3>3 DEF LinkViolation
      <4> QED
        BY <4>1, <1>1 DEF Contradicted
    <3>4. CASE prev[x] \in held'
      <4>1. PICK y \in held : TRUE
        BY <3>1
      <4>2. /\ y \in Entries(k)' /\ prev[x] \in Entries(k)'
            /\ y # prev[x] /\ seq[y] = seq[prev[x]]
        BY <3>1, <3>2, <3>4, <4>1 DEF EntriesAt
      <4> QED
        BY <4>2 DEF Equivocates, Contradicted
    <3> QED
      BY <3>3, <3>4
  <2> QED
    BY <2>1, <2>2
<1> QED
  BY <1>2, <1>3 DEF Contradicted

\* A chain once reported Violated is reported Violated ever after, whatever
\* arrives (chain.rs verify_chain).
THEOREM ViolationIsForever == Spec => ViolatedForever
<1>1. [Next]_vars => \A k \in Key : VerifyChain(k) = "Violated" => VerifyChain(k)' = "Violated"
  <2> SUFFICES ASSUME [Next]_vars, NEW k \in Key, VerifyChain(k) = "Violated"
               PROVE  VerifyChain(k)' = "Violated"
    OBVIOUS
  <2>1. Entries(k) # {} /\ Contradicted(k)
    BY ViolatedIsContradicted
  <2>2. Entries(k)' # {} /\ Contradicted(k)'
    BY <2>1, StoreGrows, ContradictionStays DEF Entries
  <2> QED
    BY <2>2 DEF VerifyChain
<1> QED
  BY <1>1, PTL DEF Spec, ViolatedForever

-----------------------------------------------------------------------------
(***************************************************************************)
(* Honest keys.                                                            *)
(***************************************************************************)

\* Two entries an honest key signed never collide: neither on their number nor
\* on their predecessor.
LEMMA HonestEntriesDoNotCollide ==
  ASSUME NEW x \in SignedObs, NEW y \in SignedObs,
         author[x] \in Honest, author[y] = author[x]
  PROVE  ~Collide(x, y)
<1>0. seq[x] \in Nat /\ seq[y] \in Nat
  BY ObjectsType
<1>1. (seq[x] = 0 <=> prev[x] = None) /\ (seq[y] = 0 <=> prev[y] = None)
  BY HonestSigning
<1>2. /\ seq[x] > 0 => seq[prev[x]] + 1 = seq[x]
      /\ seq[y] > 0 => seq[prev[y]] + 1 = seq[y]
  BY HonestSigning
<1>3. prev[x] = prev[y] => seq[x] = seq[y]
  BY <1>0, <1>1, <1>2
<1>4. seq[x] = seq[y] => x = y
  BY HonestSigning
<1> QED
  BY <1>3, <1>4 DEF Collide

\* A fork proof that checks carries two entries its key really signed.
LEMMA CheckedForkIsSigned ==
  ASSUME NEW p \in ForkProof, CheckForkProof(p)
  PROVE  /\ p.a \in SignedObs /\ p.b \in SignedObs
         /\ author[p.a] = p.key /\ author[p.b] = p.key
         /\ Collide(p.a, p.b)
<1>1. p.a \in Obs /\ p.b \in Obs
  BY DEF ForkProof
<1>2. p.a \in Nat /\ p.b \in Nat
  BY <1>1, ObjectsType DEF Id
<1> QED
  BY <1>1, <1>2, ObjectsType DEF CheckForkProof, VerifyId, Collide

\* No fork proof convicts a key that signs as the node code does, whoever built
\* the proof and whatever the store holds (object.rs ForkProof::check, fork.rs
\* Quarantine::apply).
THEOREM HonestKeysStayFree == Spec => []HonestNeverQuarantined
<1>1. Init => HonestNeverQuarantined
  BY DEF Init, HonestNeverQuarantined
<1>2. HonestNeverQuarantined /\ [Next]_vars => HonestNeverQuarantined'
  <2> SUFFICES ASSUME HonestNeverQuarantined, [Next]_vars
               PROVE  HonestNeverQuarantined'
    OBVIOUS
  <2>1. ASSUME NEW p \in ForkProof, ApplyFork(p)
        PROVE  HonestNeverQuarantined'
    <3>1. p.key \notin Honest
      BY <2>1, CheckedForkIsSigned, HonestEntriesDoNotCollide DEF ApplyFork
    <3> QED
      BY <2>1, <3>1 DEF ApplyFork, HonestNeverQuarantined
  <2>2. CASE UNCHANGED quarantine
    BY <2>2 DEF HonestNeverQuarantined
  <2>3. (\E p \in ForkProof : ApplyFork(p)) \/ UNCHANGED quarantine
    BY DEF Next, vars, AppendObservation, PutObservation, IngestAttestation, PutAttestation
  <2> QED
    BY <2>1, <2>2, <2>3
<1> QED
  BY <1>1, <1>2, PTL DEF Spec

\* What an honest key signed joins whatever verified part of its chain a store
\* holds.
LEMMA HonestEntryJoins ==
  ASSUME TypeOK, NEW k \in Honest, Entries(k) \subseteq verified,
         NEW x \in SignedObs, author[x] = k
  PROVE  JoinsChain(x)
<1>1. Entries(k) \subseteq SignedObs /\ Entries(k) \subseteq Obs
  BY ObjectsType DEF TypeOK, Entries
<1>2. seq[x] \in Nat
  BY ObjectsType
<1>3. CASE seq[x] = 0
  BY <1>3, HonestSigning DEF JoinsChain
<1>4. CASE seq[x] # 0
  <2>1. /\ prev[x] \in SignedObs /\ author[prev[x]] = k
        /\ seq[prev[x]] + 1 = seq[x]
    BY <1>2, <1>4, HonestSigning
  <2>2. seq[prev[x]] = seq[x] - 1
    BY <1>2, <2>1, ObjectsType
  <2>3. ASSUME NEW y \in EntriesAt(k, seq[x] - 1) PROVE prev[x] = y
    <3>1. y \in SignedObs /\ author[y] = k /\ seq[y] = seq[prev[x]]
      BY <1>1, <2>2 DEF EntriesAt, Entries
    <3> QED
      BY <2>1, <3>1, HonestSigning
  <2> QED
    BY <1>4, <2>3 DEF JoinsChain
<1> QED
  BY <1>3, <1>4

\* An honest author is never accused, in any state and for any part of its
\* chain (chain.rs append, verify_chain).
THEOREM HonestAuthorsStayClean == Spec => []HonestNeverAccused
<1>1. TypeOK => HonestNeverAccused
  <2> SUFFICES ASSUME TypeOK, NEW k \in Honest, Entries(k) \subseteq verified
               PROVE  ~Contradicted(k)
    BY HonestEntryJoins, ViolatedIsContradicted DEF HonestNeverAccused
  <2>1. Entries(k) \subseteq SignedObs
    BY ObjectsType DEF TypeOK, Entries
  <2>2. ~Equivocates(k)
    BY <2>1, HonestEntriesDoNotCollide DEF Equivocates, Entries, Collide
  <2>3. ASSUME NEW x \in Entries(k) PROVE ~LinkViolation(x)
    <3>1. x \in SignedObs /\ author[x] = k
      BY <2>1 DEF Entries
    <3>2. JoinsChain(x)
      BY <3>1, HonestEntryJoins
    <3> QED
      BY <3>2 DEF JoinsChain, LinkViolation
  <2> QED
    BY <2>2, <2>3 DEF Contradicted
<1> QED
  BY <1>1, TypeCorrect, PTL

-----------------------------------------------------------------------------
(***************************************************************************)
(* Fork evidence.                                                          *)
(***************************************************************************)

\* A collision between two held, verified entries yields a proof that checks.
LEMMA CollisionConvicts ==
  ASSUME TypeOK, NEW x \in observations \cap verified,
         NEW y \in observations \cap verified,
         author[x] = author[y], Collide(x, y), x < y
  PROVE  /\ BuildForkProof(author[x], x, TRUE, y, TRUE) \in DetectForks
         /\ BuildForkProof(author[x], x, TRUE, y, TRUE).key = author[x]
         /\ BuildForkProof(author[x], x, TRUE, y, TRUE).a = x
         /\ BuildForkProof(author[x], x, TRUE, y, TRUE).b = y
         /\ CheckForkProof(BuildForkProof(author[x], x, TRUE, y, TRUE))
<1> DEFINE proof == [key |-> author[x], a |-> x, b |-> y, sig_a |-> TRUE, sig_b |-> TRUE]
<1>1. x \in Nat /\ y \in Nat /\ x \in SignedObs /\ y \in SignedObs
  BY ObjectsType DEF TypeOK, Id
<1>2. BuildForkProof(author[x], x, TRUE, y, TRUE) = proof
  BY <1>1 DEF BuildForkProof
<1>3. /\ proof.key = author[x] /\ proof.a = x /\ proof.b = y
      /\ proof.sig_a = TRUE /\ proof.sig_b = TRUE
  OBVIOUS
<1>4. <<x, y>> \in Collisions
  BY DEF Collisions
<1>5. BuildForkProof(author[x], x, x \in verified, y, y \in verified) \in DetectForks
  BY <1>4 DEF DetectForks
<1>6. (x \in verified) = TRUE /\ (y \in verified) = TRUE
  OBVIOUS
<1>7. BuildForkProof(author[x], x, TRUE, y, TRUE) \in DetectForks
  BY <1>5, <1>6, Zenon
<1>8. CheckForkProof(proof)
  <2> HIDE DEF proof
  <2> QED
    BY <1>1, <1>3 DEF CheckForkProof, VerifyId, Collide
<1> QED
  BY <1>2, <1>3, <1>7, <1>8, Zenon

\* What detect_forks builds, entry by entry.
LEMMA DetectedForkIsCollision ==
  ASSUME TypeOK, NEW p \in DetectForks
  PROVE  \E x, y \in observations \cap verified :
           /\ author[x] = author[y] /\ Collide(x, y) /\ x < y
           /\ p = BuildForkProof(author[x], x, TRUE, y, TRUE)
<1>1. PICK c \in Collisions :
        p = BuildForkProof(author[c[1]], c[1], c[1] \in verified, c[2], c[2] \in verified)
  BY DEF DetectForks
<1>2. /\ c[1] \in observations \cap verified /\ c[2] \in observations \cap verified
      /\ c[1] < c[2] /\ author[c[1]] = author[c[2]] /\ Collide(c[1], c[2])
  BY <1>1 DEF Collisions
<1>3. (c[1] \in verified) = TRUE /\ (c[2] \in verified) = TRUE
  BY <1>2
<1>4. p = BuildForkProof(author[c[1]], c[1], TRUE, c[2], TRUE)
  BY <1>1, <1>3
<1> QED
  BY <1>2, <1>4

\* Detection and conviction agree: what detect_forks builds is accepted by
\* every checker, and any two verified entries of one key that share a seq or a
\* prev are found, whatever else is held of that key under bad signatures
\* (fork.rs detect_forks, object.rs ForkProof::check).
THEOREM DetectedForksAlwaysConvict == Spec => []DetectedForksConvict
<1>1. TypeOK => DetectedForksConvict
  <2> SUFFICES ASSUME TypeOK PROVE DetectedForksConvict
    OBVIOUS
  <2>1. ASSUME NEW p \in DetectForks PROVE CheckForkProof(p)
    <3>1. PICK x, y \in observations \cap verified :
            /\ author[x] = author[y] /\ Collide(x, y) /\ x < y
            /\ p = BuildForkProof(author[x], x, TRUE, y, TRUE)
      BY <2>1, DetectedForkIsCollision
    <3>2. CheckForkProof(BuildForkProof(author[x], x, TRUE, y, TRUE))
      BY <3>1, CollisionConvicts
    <3> QED
      BY <3>1, <3>2
  <2>2. ASSUME NEW x \in observations \cap verified, NEW y \in observations \cap verified,
               author[x] = author[y], x # y, seq[x] = seq[y] \/ prev[x] = prev[y]
        PROVE  \E p \in DetectForks : p.key = author[x] /\ {p.a, p.b} = {x, y}
    <3>1. Collide(x, y) /\ Collide(y, x)
      BY <2>2 DEF Collide
    <3>2. x < y \/ y < x
      BY <2>2, ObjectsType DEF TypeOK, Id
    <3>3. CASE x < y
      <4> DEFINE p == BuildForkProof(author[x], x, TRUE, y, TRUE)
      <4>1. p \in DetectForks /\ p.key = author[x] /\ p.a = x /\ p.b = y
        BY <2>2, <3>1, <3>3, CollisionConvicts
      <4> HIDE DEF p
      <4> QED
        BY <4>1
    <3>4. CASE y < x
      <4> DEFINE p == BuildForkProof(author[y], y, TRUE, x, TRUE)
      <4>1. p \in DetectForks /\ p.key = author[y] /\ p.a = y /\ p.b = x
        BY <2>2, <3>1, <3>4, CollisionConvicts
      <4> HIDE DEF p
      <4> QED
        BY <2>2, <4>1
    <3> QED
      BY <3>2, <3>3, <3>4
  <2> QED
    BY <2>1, <2>2 DEF DetectedForksConvict
<1> QED
  BY <1>1, TypeCorrect, PTL

\* A fork that can be proved stays provable, whatever arrives later (memory.rs
\* put_observation keeps the first signature, fork.rs).
THEOREM ForkEvidenceStays == Spec => ForkEvidenceForever
<1>1. TypeOK /\ TypeOK' /\ [Next]_vars => DetectForks \subseteq DetectForks'
  <2> SUFFICES ASSUME TypeOK, TypeOK', [Next]_vars, NEW p \in DetectForks
               PROVE  p \in DetectForks'
    OBVIOUS
  <2>1. PICK x, y \in observations \cap verified :
           /\ author[x] = author[y] /\ Collide(x, y) /\ x < y
           /\ p = BuildForkProof(author[x], x, TRUE, y, TRUE)
    BY DetectedForkIsCollision
  <2>2. x \in observations' \cap verified' /\ y \in observations' \cap verified'
    BY <2>1, StoreGrows
  <2>3. <<x, y>> \in Collisions'
    BY <2>1, <2>2 DEF Collisions
  <2>4. BuildForkProof(author[x], x, x \in verified', y, y \in verified') \in DetectForks'
    BY <2>3 DEF DetectForks
  <2>5. (x \in verified') = TRUE /\ (y \in verified') = TRUE
    BY <2>2
  <2> QED
    BY <2>1, <2>4, <2>5
<1> QED
  BY <1>1, TypeCorrect, PTL DEF Spec, ForkEvidenceForever

-----------------------------------------------------------------------------
(***************************************************************************)
(* Attestation ingest.                                                     *)
(***************************************************************************)

\* An honest witness never appears in conflict with itself (attest.rs
\* ingest_attestation).
THEOREM HonestWitnessesAgree == Spec => []HonestWitnessNeverConflicts
<1>1. TypeOK => HonestWitnessNeverConflicts
  <2> SUFFICES ASSUME TypeOK, NEW a \in SignedAtt, witness[a] \in Honest,
                      ByWitness(witness[a]) \subseteq verified
               PROVE  IngestOutcome(a) = IF a \in attestations THEN "AlreadyHeld" ELSE "Stored"
    BY DEF HonestWitnessNeverConflicts
  <2>1. ASSUME NEW h \in SameNonce(a) PROVE h = a
    <3>1. h \in SignedAtt /\ witness[h] = witness[a] /\ nonce[h] = nonce[a]
      BY ObjectsType DEF SameNonce, ByWitness, TypeOK
    <3> QED
      BY <3>1, HonestSigning
  <2>2. CASE a \in attestations
    <3>1. SameNonce(a) = {a}
      BY <2>1, <2>2 DEF SameNonce, ByWitness
    <3>2. Min({a}) = a
      BY MinOfOne, ObjectsType DEF Id
    <3> QED
      BY <2>2, <3>1, <3>2 DEF IngestOutcome
  <2>3. CASE a \notin attestations
    <3>1. SameNonce(a) = {}
      BY <2>1, <2>3 DEF SameNonce, ByWitness
    <3> QED
      BY <2>3, <3>1 DEF IngestOutcome
  <2> QED
    BY <2>2, <2>3
<1> QED
  BY <1>1, TypeCorrect, PTL

-----------------------------------------------------------------------------
(***************************************************************************)
(* Counting distinct sequence numbers is enough to know a whole chain.     *)
(***************************************************************************)

\* A store holds finitely many entries.
StoreIsFinite == IsFiniteSet(observations)

LEMMA StoreFinite == Spec => []StoreIsFinite
<1>1. Init => StoreIsFinite
  BY FS_EmptySet DEF Init, StoreIsFinite
<1>2. StoreIsFinite /\ [Next]_vars => StoreIsFinite'
  <2> SUFFICES ASSUME IsFiniteSet(observations), [Next]_vars
               PROVE  IsFiniteSet(observations')
    BY DEF StoreIsFinite
  <2>1. observations' = observations \/ \E x : observations' = observations \cup {x}
    BY DEF Next, vars, AppendObservation, PutObservation, IngestAttestation,
           PutAttestation, ApplyFork
  <2> QED
    BY <2>1, FS_AddElement
<1> QED
  BY <1>1, <1>2, PTL DEF Spec

\* The numbers of a held chain are a finite set of naturals.
LEMMA SeqsFinite ==
  ASSUME TypeOK, IsFiniteSet(observations), NEW k
  PROVE  /\ Seqs(k) \in SUBSET Nat /\ IsFiniteSet(Seqs(k))
         /\ Entries(k) # {} => Seqs(k) # {}
<1>1. Entries(k) \in SUBSET observations /\ Entries(k) \in SUBSET Obs
  BY DEF Entries, TypeOK
<1>2. IsFiniteSet(Entries(k))
  BY <1>1, FS_Subset
<1> DEFINE number == [x \in Entries(k) |-> seq[x]]
<1>3. number \in Surjection(Entries(k), Seqs(k))
  BY DEF Seqs, Surjection
<1>4. IsFiniteSet(Seqs(k))
  <2> HIDE DEF number
  <2> QED
    BY <1>2, <1>3, FS_Surjection
<1>5. Seqs(k) \in SUBSET Nat
  BY <1>1, ObjectsType DEF Seqs
<1> QED
  BY <1>4, <1>5 DEF Seqs

\* The verdict on any finite store of well-typed entries.
LEMMA VerdictIsExact == TypeOK /\ StoreIsFinite => VerifiedIsOneChain
<1> SUFFICES ASSUME TypeOK, IsFiniteSet(observations), NEW k \in Key, Entries(k) # {}
             PROVE  (~Contradicted(k) /\ Whole(k)) <=> OneChain(Entries(k))
  BY DEF VerifiedIsOneChain, VerifyChain, OneChain, StoreIsFinite
<1>1. Entries(k) \subseteq Obs /\ \A x \in Entries(k) : seq[x] \in Nat /\ author[x] = k
  BY ObjectsType DEF Entries, TypeOK
<1>2. Whole(k) <=> Seqs(k) = 0 .. Max(Seqs(k))
  BY SeqsFinite, CountTellsInterval DEF Whole
<1>3. ASSUME ~Contradicted(k), Whole(k)
      PROVE  OneChain(Entries(k))
  <2>1. ASSUME NEW x \in Entries(k)
        PROVE  IF seq[x] = 0 THEN prev[x] = None
               ELSE prev[x] \in Entries(k) /\ seq[prev[x]] + 1 = seq[x]
    <3>1. ~LinkViolation(x)
      BY <1>3 DEF Contradicted
    <3>2. CASE seq[x] = 0
      BY <3>1, <3>2 DEF LinkViolation
    <3>3. CASE seq[x] # 0
      <4>1. seq[x] \in Seqs(k) /\ seq[x] \in Nat
        BY <1>1 DEF Seqs
      <4>2. Max(Seqs(k)) \in Nat
        BY <4>1, SeqsFinite, LargestExists
      <4>3. seq[x] - 1 \in Seqs(k)
        BY <1>2, <1>3, <3>3, <4>1, <4>2
      <4>4. EntriesAt(k, seq[x] - 1) # {}
        BY <4>3 DEF Seqs, EntriesAt
      <4>5. prev[x] \in EntriesAt(k, seq[x] - 1)
        BY <1>1, <3>1, <3>3, <4>4 DEF LinkViolation
      <4> QED
        BY <1>1, <3>3, <4>5 DEF EntriesAt
    <3> QED
      BY <3>2, <3>3
  <2>2. ASSUME NEW x \in Entries(k), NEW y \in Entries(k), seq[x] = seq[y]
        PROVE  x = y
    BY <1>3, <2>2 DEF Contradicted, Equivocates
  <2> QED
    BY <2>1, <2>2 DEF OneChain
<1>4. ASSUME OneChain(Entries(k))
      PROVE  ~Contradicted(k) /\ Whole(k)
  <2>1. ~Equivocates(k)
    BY <1>4 DEF OneChain, Equivocates
  <2>2. ASSUME NEW x \in Entries(k), seq[x] # 0
        PROVE  prev[x] \in EntriesAt(k, seq[x] - 1) /\ seq[x] - 1 \in Seqs(k)
    <3>1. prev[x] \in Entries(k) /\ seq[prev[x]] + 1 = seq[x]
      BY <1>4, <2>2 DEF OneChain
    <3>2. seq[prev[x]] = seq[x] - 1
      BY <1>1, <3>1
    <3> QED
      BY <3>1, <3>2 DEF EntriesAt, Seqs
  <2>3. ASSUME NEW x \in Entries(k) PROVE ~LinkViolation(x)
    <3>1. CASE seq[x] = 0
      BY <1>4, <3>1 DEF LinkViolation, OneChain
    <3>2. CASE seq[x] # 0
      BY <1>1, <2>2, <3>2 DEF LinkViolation
    <3> QED
      BY <3>1, <3>2
  <2>4. \A n \in Seqs(k) : n > 0 => n - 1 \in Seqs(k)
    <3> SUFFICES ASSUME NEW x \in Entries(k), seq[x] > 0 PROVE seq[x] - 1 \in Seqs(k)
      BY DEF Seqs
    <3> QED
      BY <1>1, <2>2
  <2>5. Whole(k)
    BY <1>2, <2>4, SeqsFinite, ClosedBelowIsInterval
  <2> QED
    BY <2>1, <2>3, <2>5 DEF Contradicted
<1> QED
  BY <1>3, <1>4

\* verify_chain says Verified exactly for one whole chain, however many entries
\* there are and whatever was signed (chain.rs verify_chain).
THEOREM VerifiedMeansOneChain == Spec => []VerifiedIsOneChain
  BY VerdictIsExact, TypeCorrect, StoreFinite, PTL

-----------------------------------------------------------------------------
(***************************************************************************)
(* The gap list is the lowest missing numbers, up to the cap.              *)
(***************************************************************************)

\* Where the gap walk stands once it has seen the numbers of S, which numbers it
\* passed that are not among them, and what it holds.
GapsFrom(S) == IF S = {} THEN 0 ELSE Max(S) + 1
GapsOf(S) == {n \in Nat : n < GapsFrom(S)} \ S
GapState(S) == [missing |-> Lowest(GapsOf(S), MissingCap), next |-> GapsFrom(S)]

\* The gaps of a finite set are finite.
LEMMA GapsAreFinite ==
  ASSUME NEW S \in SUBSET Nat, IsFiniteSet(S)
  PROVE  /\ GapsFrom(S) \in Nat /\ \A n \in S : n < GapsFrom(S)
         /\ GapsOf(S) \in SUBSET Nat /\ IsFiniteSet(GapsOf(S))
<1>1. GapsFrom(S) \in Nat /\ \A n \in S : n < GapsFrom(S)
  <2>1. CASE S = {}
    BY <2>1 DEF GapsFrom
  <2>2. CASE S # {}
    <3>1. Max(S) \in Nat /\ \A n \in S : n \in Nat /\ n <= Max(S)
      BY <2>2, LargestExists
    <3> QED
      BY <2>2, <3>1 DEF GapsFrom
  <2> QED
    BY <2>1, <2>2
<1>2. GapsOf(S) \in SUBSET Nat /\ \A n \in GapsOf(S) : n <= GapsFrom(S)
  BY <1>1 DEF GapsOf
<1> QED
  BY <1>1, <1>2, FS_BoundedSetOfNaturals

\* Seeing the next number adds the gap up to it.
LEMMA GapsAreAdded ==
  ASSUME NEW S \in SUBSET Nat, IsFiniteSet(S), S # {}, NEW T, NEW top,
         top = Max(S), T = S \ {top}
  PROVE  /\ top \in Nat /\ T \in SUBSET Nat /\ IsFiniteSet(T) /\ GapsFrom(S) = top + 1
         /\ GapsFrom(T) <= top
         /\ GapsOf(S) = GapsOf(T) \cup (GapsFrom(T) .. top - 1)
         /\ \A n \in GapsOf(T) : n < GapsFrom(T)
<1>1. top \in S /\ top \in Nat /\ \A n \in S : n <= top
  BY LargestExists
<1>2. T \in SUBSET Nat /\ IsFiniteSet(T) /\ GapsFrom(S) = top + 1
  <2>1. T \in SUBSET S
    OBVIOUS
  <2>2. IsFiniteSet(T)
    BY <2>1, FS_Subset
  <2> QED
    BY <2>1, <2>2 DEF GapsFrom
<1>3. GapsFrom(T) \in Nat /\ \A n \in T : n < GapsFrom(T)
  BY <1>2, GapsAreFinite
<1>4. GapsFrom(T) <= top
  <2>1. CASE T = {}
    <3>1. GapsFrom(T) = 0
      BY <2>1 DEF GapsFrom
    <3> QED
      BY <1>1, <3>1
  <2>2. CASE T # {}
    <3>1. Max(T) \in T
      BY <1>2, <2>2, LargestExists
    <3>2. Max(T) \in Nat /\ Max(T) <= top /\ Max(T) # top
      BY <1>1, <1>2, <3>1
    <3> QED
      BY <1>1, <2>2, <3>2 DEF GapsFrom
  <2> QED
    BY <2>1, <2>2
<1>5. ASSUME NEW n \in Nat
      PROVE  n \in GapsOf(S) <=> n \in GapsOf(T) \/ n \in GapsFrom(T) .. top - 1
  <2>1. n \in GapsOf(S) <=> n <= top /\ n \notin S
    BY <1>1, <1>2 DEF GapsOf
  <2>2. n \in GapsOf(T) <=> n < GapsFrom(T) /\ n \notin T
    BY DEF GapsOf
  <2>3. n \in GapsFrom(T) .. top - 1 <=> GapsFrom(T) <= n /\ n < top
    BY <1>1, <1>3
  <2>4. n \in T => n < GapsFrom(T)
    BY <1>3
  <2>5. n \in S <=> n \in T \/ n = top
    BY <1>1
  <2> QED
    BY <1>1, <1>3, <1>4, <2>1, <2>2, <2>3, <2>4, <2>5
<1>6. /\ \A n \in GapsOf(S) : n \in Nat
      /\ \A n \in GapsOf(T) : n \in Nat
      /\ \A n \in GapsFrom(T) .. top - 1 : n \in Nat
  <2>1. \A n \in GapsFrom(T) .. top - 1 : n \in Nat
    BY <1>1, <1>3
  <2> QED
    BY <2>1 DEF GapsOf
<1>7. GapsOf(S) = GapsOf(T) \cup (GapsFrom(T) .. top - 1)
  <2> DEFINE passed == GapsFrom(T) .. top - 1
  <2> HIDE DEF passed
  <2>1. /\ \A n \in GapsOf(S) : n \in GapsOf(T) \cup passed
        /\ \A n \in GapsOf(T) \cup passed : n \in GapsOf(S)
    BY <1>5, <1>6 DEF passed
  <2>2. GapsOf(S) = GapsOf(T) \cup passed
    BY <2>1
  <2> QED
    BY <2>2 DEF passed
<1>8. \A n \in GapsOf(T) : n < GapsFrom(T)
  BY DEF GapsOf
<1> QED
  BY <1>1, <1>2, <1>4, <1>7, <1>8

\* One turn of the walk takes it from all numbers but the highest to all of them.
LEMMA TurnIsRight ==
  ASSUME NEW S \in SUBSET Nat, IsFiniteSet(S), S # {}
  PROVE  NextGap(GapState(S \ {Max(S)}), Max(S)) = GapState(S)
<1> DEFINE top == Max(S)
           T == S \ {top}
           old == GapsOf(T)
           start == GapsFrom(T)
           passed == start .. top - 1
           kept == Lowest(old, MissingCap)
<1>1. /\ top \in Nat /\ T \in SUBSET Nat /\ IsFiniteSet(T) /\ GapsFrom(S) = top + 1
      /\ start <= top /\ GapsOf(S) = old \cup passed
      /\ \A n \in old : n < start
  BY GapsAreAdded
<1>2. start \in Nat /\ old \in SUBSET Nat /\ IsFiniteSet(old) /\ MissingCap \in Nat \ {0}
  <2> HIDE DEF T
  <2> QED
    BY <1>1, GapsAreFinite, LedgerAssumption
<1> HIDE DEF top, T, old, start
<1>3. /\ Cardinality(old) \in Nat
      /\ Cardinality(kept) = IF Cardinality(old) < MissingCap THEN Cardinality(old) ELSE MissingCap
  BY <1>2, LowestAreLowest, FS_CardinalityType
<1>4. ASSUME NEW n \in old
      PROVE  n \in Lowest(GapsOf(S), MissingCap) <=> n \in kept
  <2>1. \A m \in passed : ~(m < n)
    BY <1>1, <1>2
  <2>2. Below(GapsOf(S), n) = Below(old, n)
    <3> HIDE DEF passed
    <3> QED
      BY <1>1, <2>1 DEF Below
  <2> QED
    BY <1>1, <2>2 DEF Lowest
<1>5. ASSUME NEW n \in passed
      PROVE  n \in Lowest(GapsOf(S), MissingCap) <=> Cardinality(kept) + (n - start) < MissingCap
  <2>0. n \in Nat /\ start <= n /\ n < top
    BY <1>1, <1>2
  <2> DEFINE lower == start .. n - 1
  <2>1. Below(GapsOf(S), n) = old \cup lower
    <3>1. \A m \in old : m < n
      BY <1>1, <1>2, <2>0
    <3>2. \A m \in passed : m < n <=> m \in lower
      BY <1>1, <1>2, <2>0
    <3>3. \A m \in lower : m \in passed
      BY <1>1, <1>2, <2>0
    <3> HIDE DEF passed, lower
    <3> QED
      BY <1>1, <3>1, <3>2, <3>3 DEF Below
  <2>2. IsFiniteSet(lower) /\ Cardinality(lower) = n - start
    <3>1. start \in Int /\ n - 1 \in Int /\ ~(start > n - 1 /\ n - start # 0)
          /\ n - 1 - start + 1 = n - start
      BY <1>2, <2>0
    <3>2. /\ IsFiniteSet(start .. n - 1)
          /\ Cardinality(start .. n - 1) = IF start > n - 1 THEN 0 ELSE n - 1 - start + 1
      BY <3>1, FS_Interval
    <3> QED
      BY <3>1, <3>2
  <2>3. old \cap lower = {}
    <3>1. \A m \in lower : ~(m < start)
      BY <1>2, <2>0
    <3> HIDE DEF lower
    <3> QED
      BY <1>1, <3>1
  <2>4. Cardinality(old \cup lower) = Cardinality(old) + (n - start)
    <3> HIDE DEF lower
    <3>1. Cardinality(old \cap lower) = 0
      BY <2>3, FS_EmptySet
    <3>2. Cardinality(old \cup lower) = Cardinality(old) + Cardinality(lower) - Cardinality(old \cap lower)
      BY <1>2, <2>2, FS_Union
    <3> QED
      BY <1>2, <1>3, <2>0, <2>2, <3>1, <3>2
  <2>5. n \in GapsOf(S)
    BY <1>1
  <2>6. n \in Lowest(GapsOf(S), MissingCap) <=> Cardinality(old) + (n - start) < MissingCap
    <3> HIDE DEF lower
    <3> QED
      BY <2>1, <2>4, <2>5 DEF Lowest
  <2> QED
    BY <1>2, <1>3, <2>0, <2>6
<1>6. Lowest(GapsOf(S), MissingCap) \subseteq old \cup passed /\ kept \subseteq old
  BY <1>1 DEF Lowest
<1>7. Lowest(GapsOf(S), MissingCap) =
        kept \cup {n \in passed : Cardinality(kept) + (n - start) < MissingCap}
  <2>1. \A n \in passed : n \notin old
    BY <1>1, <1>2
  <2> HIDE DEF passed, kept
  <2> QED
    BY <1>4, <1>5, <1>6, <2>1
<1>8. GapState(T) = [missing |-> kept, next |-> start]
  BY DEF GapState, old, start
<1>9. NextGap(GapState(T), top) =
        [missing |-> kept \cup {n \in passed : Cardinality(kept) + (n - start) < MissingCap},
         next |-> top + 1]
  <2> HIDE DEF kept
  <2> QED
    BY <1>8 DEF NextGap
<1> QED
  BY <1>1, <1>7, <1>9 DEF GapState, top, T

\* The function by which the fold is defined, each value from that on fewer numbers.
GapTurn(f, s) ==
  IF s = {} THEN [missing |-> {}, next |-> 0] ELSE NextGap(f[s \ {Max(s)}], Max(s))
GapWalk(S) == CHOOSE f : f = [s \in SUBSET S |-> GapTurn(f, s)]

\* So the walk is right at every set: else at a smallest one where it is not.
LEMMA WalkIsRight ==
  ASSUME NEW S \in SUBSET Nat, IsFiniteSet(S)
  PROVE  GapWalk(S)[S] = GapState(S)
<1> DEFINE g == [s \in SUBSET S |-> GapState(s)]
<1>1. ASSUME NEW s \in SUBSET S
      PROVE  /\ s \in SUBSET Nat /\ IsFiniteSet(s)
             /\ s # {} => s \ {Max(s)} \in SUBSET S /\ Max(s) \in s
  <2>1. s \in SUBSET Nat /\ IsFiniteSet(s)
    BY FS_Subset
  <2> QED
    BY <2>1, LargestExists
<1>2. ASSUME NEW f, NEW s \in SUBSET S, s # {} => f[s \ {Max(s)}] = GapState(s \ {Max(s)})
      PROVE  GapTurn(f, s) = GapState(s)
  <2>1. CASE s = {}
    <3>1. GapsFrom(s) = 0 /\ Lowest(GapsOf(s), MissingCap) = {}
      BY <2>1 DEF GapsFrom, GapsOf, Lowest
    <3> QED
      BY <2>1, <3>1 DEF GapTurn, GapState
  <2>2. CASE s # {}
    BY <1>1, <1>2, <2>2, TurnIsRight DEF GapTurn
  <2> QED
    BY <2>1, <2>2
<1>3. g = [s \in SUBSET S |-> GapTurn(g, s)]
  <2>1. ASSUME NEW s \in SUBSET S PROVE GapTurn(g, s) = GapState(s)
    <3>1. s # {} => g[s \ {Max(s)}] = GapState(s \ {Max(s)})
      BY <1>1
    <3> HIDE DEF g
    <3> QED
      BY <1>2, <3>1
  <2> QED
    BY <2>1
<1>4. GapWalk(S) = [s \in SUBSET S |-> GapTurn(GapWalk(S), s)]
  <2> HIDE DEF g
  <2> QED
    BY <1>3 DEF GapWalk
<1> DEFINE f == GapWalk(S)
           Wrong == {s \in SUBSET S : f[s] # GapState(s)}
           Smaller == StrictSubsetOrdering(S)
<1> HIDE DEF f, g
<1>5. f = [s \in SUBSET S |-> GapTurn(f, s)]
  BY <1>4 DEF f
<1>6. ASSUME Wrong # {} PROVE FALSE
  <2>1. Wrong \subseteq FiniteSubsetsOf(S)
    BY FS_FiniteSubsetsOfFinite
  <2>2. IsWellFoundedOn(Smaller, FiniteSubsetsOf(S))
    BY FS_StrictSubsetOrderingWellFounded
  <2>3. PICK s \in Wrong : \A t \in Wrong : <<t, s>> \notin Smaller
    <3> HIDE DEF Wrong, Smaller
    <3> QED
      BY <1>6, <2>1, <2>2, WFMin
  <2>4. s \in SUBSET S /\ f[s] # GapState(s)
    OBVIOUS
  <2>5. s # {} => f[s \ {Max(s)}] = GapState(s \ {Max(s)})
    <3> SUFFICES ASSUME s # {}, f[s \ {Max(s)}] # GapState(s \ {Max(s)}) PROVE FALSE
      OBVIOUS
    <3> DEFINE t == s \ {Max(s)}
    <3>1. t \in SUBSET S /\ Max(s) \in s
      BY <1>1, <2>4
    <3>2. <<t, s>> \in Smaller
      BY <2>4, <3>1 DEF StrictSubsetOrdering
    <3> QED
      BY <2>3, <3>1, <3>2
  <2>6. GapTurn(f, s) = GapState(s)
    BY <1>2, <2>4, <2>5
  <2>7. f[s] = GapTurn(f, s)
    BY <1>5, <2>4
  <2> QED
    BY <2>4, <2>6, <2>7
<1> QED
  BY <1>6 DEF f

\* What verify_chain lists of any chain.
LEMMA MissingIsLowest ==
  ASSUME TypeOK, StoreIsFinite, NEW k
  PROVE  Missing(k) = Lowest(GapsOf(Seqs(k)), MissingCap)
<1>1. Missing(k) = GapWalk(Seqs(k))[Seqs(k)].missing
  BY DEF Missing, MapThenFoldSet, GapWalk, GapTurn
<1>2. Seqs(k) \in SUBSET Nat /\ IsFiniteSet(Seqs(k))
  BY SeqsFinite DEF StoreIsFinite
<1>3. GapWalk(Seqs(k))[Seqs(k)] = GapState(Seqs(k))
  BY <1>2, WalkIsRight
<1> QED
  BY <1>1, <1>3 DEF GapState

\* An Incomplete chain names its lowest missing numbers, as many as there are or
\* as the cap allows, however long the chain and its gaps (chain.rs verify_chain).
THEOREM MissingAlwaysExact == Spec => []MissingIsExact
<1>1. TypeOK /\ StoreIsFinite => MissingIsExact
  <2> SUFFICES ASSUME TypeOK, StoreIsFinite, NEW k \in Key, Entries(k) # {}
               PROVE  LET gaps == (0 .. Max(Seqs(k))) \ Seqs(k)
                      IN  /\ Missing(k) \subseteq gaps
                          /\ \A m \in Missing(k), n \in gaps \ Missing(k) : m < n
                          /\ Cardinality(Missing(k)) =
                               IF Cardinality(gaps) < MissingCap
                               THEN Cardinality(gaps) ELSE MissingCap
                          /\ VerifyChain(k) = "Incomplete" => gaps # {}
    BY DEF MissingIsExact
  <2> DEFINE S == Seqs(k)
             gaps == (0 .. Max(S)) \ S
  <2>1. S \in SUBSET Nat /\ IsFiniteSet(S) /\ S # {}
    BY SeqsFinite DEF StoreIsFinite
  <2>2. Missing(k) = Lowest(GapsOf(S), MissingCap)
    BY MissingIsLowest
  <2>3. Max(S) \in Nat /\ \A n \in S : n <= Max(S)
    BY <2>1, LargestExists
  <2>4. gaps = GapsOf(S)
    <3> HIDE DEF S
    <3>1. GapsFrom(S) = Max(S) + 1
      BY <2>1 DEF GapsFrom
    <3>2. \A n \in Nat : n < GapsFrom(S) <=> n \in 0 .. Max(S)
      BY <2>3, <3>1
    <3>3. \A n \in 0 .. Max(S) : n \in Nat
      BY <2>3
    <3> QED
      BY <3>2, <3>3 DEF GapsOf
  <2>5. VerifyChain(k) = "Incomplete" => gaps # {}
    <3> SUFFICES ASSUME ~Whole(k), gaps = {} PROVE FALSE
      BY DEF VerifyChain
    <3>1. S = 0 .. Max(S)
      <4>1. \A n \in S : n \in 0 .. Max(S)
        BY <2>1, <2>3
      <4> HIDE DEF S
      <4> QED
        BY <4>1
    <3>2. Cardinality(S) = Max(S) + 1
      <4> HIDE DEF S
      <4> QED
        BY <2>1, <3>1, CountTellsInterval
    <3> QED
      BY <3>2 DEF Whole
  <2>6. GapsOf(S) \in SUBSET Nat /\ IsFiniteSet(GapsOf(S)) /\ MissingCap \in Nat \ {0}
    <3> HIDE DEF S
    <3> QED
      BY <2>1, GapsAreFinite, LedgerAssumption
  <2>7. Missing(k) \subseteq gaps
    BY <2>2, <2>4 DEF Lowest
  <2> HIDE DEF gaps
  <2>8. /\ \A m \in Missing(k), n \in gaps \ Missing(k) : m < n
        /\ Cardinality(Missing(k)) =
             IF Cardinality(gaps) < MissingCap THEN Cardinality(gaps) ELSE MissingCap
    BY <2>2, <2>4, <2>6, LowestAreLowest
  <2> QED
    BY <2>5, <2>7, <2>8 DEF gaps
<1> QED
  BY <1>1, TypeCorrect, StoreFinite, PTL
=============================================================================
