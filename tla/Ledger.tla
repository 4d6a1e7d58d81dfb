-------------------------------- MODULE Ledger --------------------------------
(***************************************************************************)
(* One node's ledger (crates/vigil-ledger): the append-only Store, the     *)
(* guarded append and the chain verification pass (chain.rs), attestation  *)
(* ingest (attest.rs), fork detection and the quarantine (fork.rs).        *)
(*                                                                         *)
(* Whatever anybody signed may arrive, in any order, any number of times   *)
(* or never: an arrival is an action on one object of the universe.        *)
(***************************************************************************)
EXTENDS Objects, FiniteSetsExt, SequencesExt

CONSTANTS
  Arriving,      \* ids that may reach this node outside of a fork proof
  Garbled,       \* ids that may arrive with a signature that does not verify
  MissingCap     \* MISSING_LIST_CAP

ASSUME LedgerAssumption ==
  /\ Arriving \subseteq Obs \cup Att /\ Garbled \subseteq Obs \cup Att
  /\ MissingCap \in Nat \ {0}

VARIABLES
  observations,  \* ids of the observations the store holds
  attestations,  \* ids of the attestations the store holds
  verified,      \* held ids whose stored signature verifies
  quarantine     \* keys convicted by a fork proof (fork.rs Quarantine)

vars == <<observations, attestations, verified, quarantine>>

Init ==
  /\ observations = {} /\ attestations = {} /\ verified = {}
  /\ quarantine = {}

-----------------------------------------------------------------------------
\* Reading the store (memory.rs).

Entries(k) == {x \in observations : author[x] = k}              \* chain
EntriesAt(k, n) == {x \in Entries(k) : seq[x] = n}              \* observations_at
Seqs(k) == {seq[x] : x \in Entries(k)}                          \* keys of by_seq
ByWitness(w) == {a \in attestations : witness[a] = w}           \* attestations_by_witness

\* The head taken from the wrong end of by_seq.
FirstEntry(k) ==
  IF Entries(k) = {} THEN None ELSE Min({x \in Entries(k) : seq[x] = Min(Seqs(k))})

\* chain_head: the highest sequence number, and among its entries the lowest id.
ChainHead(k) ==
  IF Entries(k) = {} THEN None ELSE Min({x \in Entries(k) : seq[x] = Max(Seqs(k))})

\* Storing the signature that came last, instead of the one that came first.
LastSignature(id, good, held) ==
  IF VerifyId(id, good) THEN verified \cup {id} ELSE verified \ {id}

\* Taking every stored signature for good.
TrustedSignature(id, good, held) == verified \cup {id}

\* A put of a held id changes nothing: the signature that came first stays.
FirstSignature(id, good, held) ==
  IF id \notin held /\ VerifyId(id, good) THEN verified \cup {id} ELSE verified

\* put_observation does not verify the signature.
PutObservation(x, good) ==
  /\ observations' = observations \cup {x}
  /\ verified' = FirstSignature(x, good, observations)
  /\ UNCHANGED <<attestations, quarantine>>

PutAttestation(a, good) ==
  /\ attestations' = attestations \cup {a}
  /\ verified' = FirstSignature(a, good, attestations)
  /\ UNCHANGED <<observations, quarantine>>

-----------------------------------------------------------------------------
\* The chain rule (chain.rs).

\* append with the gap below an entry taken for a contradiction.
JoinsOnlyHeld(x) ==
  IF seq[x] = 0 THEN prev[x] = None
  ELSE prev[x] \in EntriesAt(author[x], seq[x] - 1)

\* append's check: refused only if the store holds something at seq - 1 and
\* `prev` names none of it (or a genesis entry names a predecessor).
JoinsChain(x) ==
  IF seq[x] = 0 THEN prev[x] = None
  ELSE LET predecessors == EntriesAt(author[x], seq[x] - 1)
       IN  predecessors # {} => prev[x] \in predecessors

\* append: the caller has verified the signature; a refusal stores nothing.
AppendObservation(x) ==
  /\ VerifyId(x, TRUE)
  /\ JoinsChain(x)
  /\ PutObservation(x, TRUE)

\* Equivocation: two distinct entries at one seq.
Equivocates(k) == \E x, y \in Entries(k) : x # y /\ seq[x] = seq[y]

\* link_violation: a gap below the entry makes the link uncheckable, not broken.
LinkViolation(x) ==
  IF seq[x] = 0 THEN prev[x] # None
  ELSE LET predecessors == EntriesAt(author[x], seq[x] - 1)
       IN  predecessors # {} /\ prev[x] \notin predecessors

\* Pass 1 without the equivocation finding.
OnlyLinksChecked(k) == \E x \in Entries(k) : LinkViolation(x)

\* Pass 1 of verify_chain found a contradiction.
Contradicted(k) == Equivocates(k) \/ \E x \in Entries(k) : LinkViolation(x)

\* Pass 2 by counting entries below the highest one instead of to it.
WholeButHighest(k) == Cardinality(Seqs(k)) >= Max(Seqs(k))

\* Pass 2: as many distinct sequence numbers as the highest plus one.
Whole(k) == Cardinality(Seqs(k)) = Max(Seqs(k)) + 1

VerifyChain(k) ==
  IF Entries(k) = {} THEN "Incomplete"
  ELSE IF Contradicted(k) THEN "Violated"
  ELSE IF Whole(k) THEN "Verified" ELSE "Incomplete"

\* The gap walk restarting at a held sequence number.
NextGapAtSeq(gaps, s) ==
  [missing |-> gaps.missing \cup {n \in gaps.next .. s - 1 :
                 Cardinality(gaps.missing) + (n - gaps.next) < MissingCap},
   next |-> s]

\* One turn of the gap walk: the numbers from `next` up to a held one, while
\* the list is shorter than the cap.
NextGap(gaps, s) ==
  [missing |-> gaps.missing \cup {n \in gaps.next .. s - 1 :
                 Cardinality(gaps.missing) + (n - gaps.next) < MissingCap},
   next |-> s + 1]

\* ChainVerification::Incomplete { missing }: the turns of the walk over the keys
\* of by_seq, the highest one last.
Missing(k) ==
  MapThenFoldSet(LAMBDA s, gaps : NextGap(gaps, s), [missing |-> {}, next |-> 0],
                 LAMBDA s : s, Max, Seqs(k)).missing

-----------------------------------------------------------------------------
\* Attestation ingest (attest.rs).

\* Deduplicating on the nonce whoever the witness is.
SameNonceAnyWitness(a) == {h \in attestations : nonce[h] = nonce[a]}

\* Held attestations under the same (witness, nonce).
SameNonce(a) == {h \in ByWitness(witness[a]) : nonce[h] = nonce[a]}

\* ingest_attestation's report: the first held attestation, in id order, under
\* the same (witness, nonce) decides it.
IngestOutcome(a) ==
  IF SameNonce(a) = {} THEN "Stored"
  ELSE IF Min(SameNonce(a)) = a THEN "AlreadyHeld" ELSE "WitnessConflict"

\* A bad signature is refused and an exact duplicate returns early; everything
\* else is stored, a conflicting attestation included.
IngestAttestation(a) ==
  /\ VerifyId(a, TRUE)
  /\ IngestOutcome(a) # "AlreadyHeld"
  /\ PutAttestation(a, TRUE)

-----------------------------------------------------------------------------
\* Fork detection and quarantine (fork.rs).

\* detect_forks without the filter on the stored signature.
CollisionsUnfiltered ==
  {p \in observations \X observations :
     p[1] < p[2] /\ author[p[1]] = author[p[2]] /\ Collide(p[1], p[2])}

\* detect_forks giving up on an author who holds one badly signed entry.
CollisionsOfCleanAuthors ==
  {p \in CollisionsUnfiltered : Entries(author[p[1]]) \subseteq verified}

\* detect_forks' buckets: pairs of signature-valid entries of one author under
\* one seq or one prev.
Collisions ==
  {p \in (observations \cap verified) \X (observations \cap verified) :
     p[1] < p[2] /\ author[p[1]] = author[p[2]] /\ Collide(p[1], p[2])}

DetectForks ==
  {BuildForkProof(author[p[1]], p[1], p[1] \in verified, p[2], p[2] \in verified) :
     p \in Collisions}

\* Quarantine::apply takes a CheckedFork: of a proof built here or received,
\* whose entries this store may not hold.
ApplyFork(p) ==
  /\ CheckForkProof(p)
  /\ quarantine' = quarantine \cup {p.key}
  /\ UNCHANGED <<observations, attestations, verified>>

-----------------------------------------------------------------------------
Next ==
  \/ \E x \in Obs \cap Arriving : AppendObservation(x)
  \/ \E x \in Obs \cap Arriving, good \in BOOLEAN :
       (good \/ x \in Garbled) /\ PutObservation(x, good)
  \/ \E a \in Att \cap Arriving : IngestAttestation(a)
  \/ \E a \in Att \cap Arriving, good \in BOOLEAN :
       (good \/ a \in Garbled) /\ PutAttestation(a, good)
  \/ \E p \in ForkProof : ApplyFork(p)

Spec == Init /\ [][Next]_vars

-----------------------------------------------------------------------------
(***************************************************************************)
(* Type correctness.                                                       *)
(***************************************************************************)
TypeOK ==
  /\ observations \subseteq Obs /\ attestations \subseteq Att
  /\ verified \subseteq (observations \cap SignedObs) \cup (attestations \cap SignedAtt)
  /\ quarantine \subseteq Key

\* E is one whole chain: the numbers 0..n once each, every entry linked to the
\* one before it.
OneChain(E) ==
  /\ E # {}
  /\ \A x \in E : IF seq[x] = 0 THEN prev[x] = None
                  ELSE prev[x] \in E /\ seq[prev[x]] + 1 = seq[x]
  /\ \A x, y \in E : seq[x] = seq[y] => x = y

\* verify_chain decides by counting distinct sequence numbers; it says Verified
\* exactly when what is held is one whole chain from genesis to the highest
\* entry, whatever anybody signed and however it arrived.
VerifiedIsOneChain ==
  \A k \in Key : VerifyChain(k) = "Verified" <=> OneChain(Entries(k))

\* A key that signs as the node code does is never accused, whatever part of
\* its chain has arrived, in whatever order and however often: verify_chain
\* does not report it Violated and append refuses none of its entries, as long
\* as the store's callers verified what they stored.
HonestNeverAccused ==
  \A k \in Honest : Entries(k) \subseteq verified =>
    /\ VerifyChain(k) # "Violated"
    /\ \A x \in SignedObs : author[x] = k => JoinsChain(x)

\* No fork proof, built by a store or sent by anyone, convicts an honest key,
\* even when callers stored entries under its name without checking signatures.
HonestNeverQuarantined == quarantine \cap Honest = {}

\* A chain once reported Violated is reported Violated ever after.  A late
\* predecessor can mend a broken link; it must then expose an equivocation.
ViolatedForever ==
  [][\A k \in Key : VerifyChain(k) = "Violated" => VerifyChain(k)' = "Violated"]_vars

\* Every proof detect_forks builds passes ForkProof::check on any other node,
\* and any two verified entries of one key that share a seq or a prev yield the
\* proof that names both, whatever else is held of that key under signatures
\* that do not verify.
DetectedForksConvict ==
  /\ \A p \in DetectForks : CheckForkProof(p)
  /\ \A x, y \in observations \cap verified :
       author[x] = author[y] /\ x # y /\ (seq[x] = seq[y] \/ prev[x] = prev[y])
         => \E p \in DetectForks : p.key = author[x] /\ {p.a, p.b} = {x, y}

\* A fork this store can prove stays provable: no later delivery, not even of a
\* held entry under a worthless signature, takes the evidence away.
ForkEvidenceForever == [][DetectForks \subseteq DetectForks']_vars

\* An Incomplete chain that holds something names the lowest missing numbers,
\* never one it holds, and names as many as there are up to the cap.
MissingIsExact ==
  \A k \in Key : Entries(k) # {} =>
    LET gaps == (0 .. Max(Seqs(k))) \ Seqs(k)
    IN  /\ Missing(k) \subseteq gaps
        /\ \A m \in Missing(k), n \in gaps \ Missing(k) : m < n
        /\ Cardinality(Missing(k)) =
             IF Cardinality(gaps) < MissingCap THEN Cardinality(gaps) ELSE MissingCap
        /\ VerifyChain(k) = "Incomplete" => gaps # {}

\* An honest witness is never reported in conflict with itself, and what it
\* signed is stored or already held, in whatever order it arrives.
HonestWitnessNeverConflicts ==
  \A a \in SignedAtt : witness[a] \in Honest /\ ByWitness(witness[a]) \subseteq verified
    => IngestOutcome(a) = IF a \in attestations THEN "AlreadyHeld" ELSE "Stored"

=============================================================================
