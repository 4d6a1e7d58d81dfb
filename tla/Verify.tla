-------------------------------- MODULE Verify ---------------------------------
(***************************************************************************)
(* vigil-verify (crates/vigil-verify): what a stranger concludes from a    *)
(* pack file alone.  It is a second implementation of the chain check, of  *)
(* the DAG and of the bracket, and shares only vigil-core's objects.  Of   *)
(* Dag it takes here the walk along `prev` and the transitive closure,     *)
(* which are the same loops in both crates.                                *)
(***************************************************************************)
EXTENDS Dag

\* Step 2: what survives the self-check of every carried object.
SurvivingObservations(pack) == {x \in pack.observations : VerifyId(x, x \in pack.good)}
SurvivingAttestations(pack) == {a \in pack.attestations : VerifyId(a, a \in pack.good)}

Invalid(pack) ==
  (pack.observations \ SurvivingObservations(pack))
    \cup (pack.attestations \ SurvivingAttestations(pack))

\* Step 3: the keys the carried fork proofs convict.
ValidProofs(pack) == {p \in pack.fork_proofs : CheckForkProof(p)}
Quarantined(pack) == {p.key : p \in ValidProofs(pack)}

-----------------------------------------------------------------------------
\* Step 4: chain.rs over the surviving entries E of one author.

\* A predecessor that is not carried taken for a broken link.
BrokenByGap(E, x) ==
  IF seq[x] = 0 THEN prev[x] # None
  ELSE prev[x] \notin {y \in E : seq[y] + 1 = seq[x]}

BrokenLink(E, x) ==
  IF seq[x] = 0 THEN prev[x] # None
  ELSE LET predecessors == {y \in E : seq[y] + 1 = seq[x]}
       IN  predecessors # {} /\ prev[x] \notin predecessors

VerifyCarriedChain(E) ==
  IF E = {} THEN "Incomplete"
  ELSE IF \/ \E x, y \in E : x # y /\ seq[x] = seq[y]
          \/ \E x \in E : BrokenLink(E, x) THEN "Violated"
  ELSE LET seqs == {seq[x] : x \in E}
       IN  IF Cardinality(seqs) = Max(seqs) + 1 THEN "Verified" ELSE "Incomplete"

-----------------------------------------------------------------------------
\* Step 5: dag.rs, the verifier's own DAG over the survivors O and A.

\* Why an attestation does or does not seal; only an anchored one does.
SealStatus(O, Q, a) ==
  IF witness[a] = subject[a] THEN "SelfAttestation"
  ELSE IF witness[a] \in Q THEN "WitnessQuarantined"
  ELSE IF subject_head[a] \in {x \in O : author[x] = subject[a] /\ seq[x] = subject_seq[a]}
       THEN "Anchored" ELSE "Unanchored"

CarriedChainEdge(O) ==
  UNION {{<<p, x>> : p \in {y \in O : y = prev[x] /\ author[y] = author[x] /\ seq[y] + 1 = seq[x]}} :
           x \in O}

CarriedAckEdge(O, A) ==
  UNION {{<<a, x>> : a \in {b \in acks[x] \cap A : subject[b] = author[x] /\ subject_seq[b] < seq[x]}} :
           x \in O}

\* The walk along `prev` from the attested head, as far as the subject's carried
\* entries go.
CarriedSealEdge(O, A, Q) ==
  UNION {Walk(O, a) \X {a} : a \in {b \in A : SealStatus(O, Q, b) = "Anchored"}}

BuildCarried(O, A, Q) ==
  [observations |-> O, attestations |-> A, quarantined |-> Q,
   seal_status |-> [a \in A |-> SealStatus(O, Q, a)],
   order |-> UNION {Closure(O \cup A, edges) : edges \in
               {CarriedChainEdge(O) \cup CarriedAckEdge(O, A) \cup CarriedSealEdge(O, A, Q)}}]

Unanchored(D) == {a \in D.attestations : D.seal_status[a] = "Unanchored"}

-----------------------------------------------------------------------------
\* Step 6: bracket.rs and bracket_one.

\* The bracket a claim gets: U is the least id of the sealing attestations no
\* other one precedes, L that of the preceding ones that precede no other.
ClaimBracket(D, r) ==
  LET others == {a \in D.attestations : witness[a] # author[r]}
      sealing == {a \in others : <<r, a>> \in D.order}
      preceding == {a \in others : <<a, r>> \in D.order}
  IN  [observation |-> r, sealing |-> sealing, preceding |-> preceding,
       upper_bound |-> LowestId({u \in sealing : ~\E o \in sealing \ {u} : <<o, u>> \in D.order}),
       lower_bound |-> LowestId({l \in preceding : ~\E o \in preceding \ {l} : <<l, o>> \in D.order}),
       sealed |-> sealing # {},
       witness_depth |-> Cardinality({witness[a] : a \in sealing}),
       disputed |-> author[r] \in D.quarantined /\ sealing = {}]

\* The lower edge of the window when nothing carried precedes the record.
WindowBelow(D, r) ==
  LET lowest == Min({seq[x] : x \in {y \in D.observations : author[y] = author[r]}})
  IN  IF lowest = 0 THEN "genesis" ELSE "earliest held"

\* Naming only the author and the witnesses of the bounds that are left.
TouchingWhatIsLeft(D, b) ==
  D.quarantined \cap ({author[b.observation]} \cup
                      {witness[a] : a \in {b.upper_bound, b.lower_bound} \ {None}})

\* The convicted keys a claim is reported with: its author, the witnesses of its
\* bounds and whoever attested anything about its author.
ForkProofsTouching(D, b) ==
  D.quarantined \cap
    ({author[b.observation]}
       \cup {witness[a] : a \in {b.upper_bound, b.lower_bound} \ {None}}
       \cup {witness[a] : a \in {x \in D.attestations : subject[x] = author[b.observation]}})

\* bracket_one: the report of claim r; b is its bracket.
ClaimOutcomes(D, r, had_discards) ==
  IF r \notin D.observations
  THEN {[observation |-> r, outcome |-> "Unverifiable", pack_had_discards |-> had_discards]}
  ELSE {[observation |-> r, outcome |-> "Bracketed", bracket |-> b, below |-> WindowBelow(D, r),
         fork_proofs_touching |-> ForkProofsTouching(D, b)] : b \in {ClaimBracket(D, r)}}

\* The report on a pack; `passed` is exit code 0.
ReportOn(pack, D, chains, claims) ==
  [dag |-> D, chains |-> chains, claims |-> claims,
   passed |-> /\ Invalid(pack) = {}
              /\ pack.fork_proofs = {}
              /\ \A c \in chains : c.verdict # "Violated"
              /\ Unanchored(D) = {}
              /\ \A c \in claims : c.outcome = "Bracketed"]

\* verify, on a pack whose envelope is well-formed and of the expected org: the
\* one report it yields.
VerifyPack(pack) ==
  UNION {{ReportOn(pack, D,
            {[author |-> k, verdict |-> VerifyCarriedChain({x \in D.observations : author[x] = k})] :
               k \in {author[x] : x \in D.observations}},
            UNION {ClaimOutcomes(D, r, Invalid(pack) # {}) : r \in pack.claims})} :
           D \in {BuildCarried(SurvivingObservations(pack), SurvivingAttestations(pack),
                               Quarantined(pack))}}
=============================================================================
