--------------------------------- MODULE Demo ----------------------------------
(***************************************************************************)
(* The browser demo (crates/vigil-wasm, DemoCore): two nodes "a" and "b",  *)
(* each with its own store, and one quarantine they share.  A visitor      *)
(* calls its methods one at a time and in any order: append, the mutual    *)
(* exchange of attestations, and an equivocation that is detected and      *)
(* convicted within the call.  bracket and state only read.                *)
(*                                                                         *)
(* A node is its key.  Obs and Att hold every object the calls might make, *)
(* several of each shape so that ids come in every order; a call makes one *)
(* that does not exist yet, because its clock reading or nonce is new.     *)
(***************************************************************************)
EXTENDS Dag

CONSTANT MaxCalls    \* bounds `clock`, the calls that read the clock

ASSUME DemoAssumption ==
  /\ MaxCalls \in Nat
  /\ Key = {"a", "b"} /\ Honest = {}
  /\ SignedObs = Obs /\ SignedAtt = Att

VARIABLES
  a_observations, a_attestations, a_verified,    \* the store of node a
  b_observations, b_attestations, b_verified,    \* the store of node b
  quarantine,                                    \* the keys convicted
  clock                                          \* the demo's logical clock

aStore == <<a_observations, a_attestations, a_verified>>
bStore == <<b_observations, b_attestations, b_verified>>
demo == <<aStore, bStore, quarantine, clock>>

\* The two ledgers, without a quarantine of their own.
A == INSTANCE Ledger WITH
  observations <- a_observations, attestations <- a_attestations,
  verified <- a_verified, quarantine <- {},
  Arriving <- {}, Garbled <- {}, MissingCap <- 1
B == INSTANCE Ledger WITH
  observations <- b_observations, attestations <- b_attestations,
  verified <- b_verified, quarantine <- {},
  Arriving <- {}, Garbled <- {}, MissingCap <- 1

\* DemoCore::node.
observations(n) == IF n = "a" THEN a_observations ELSE b_observations
attestations(n) == IF n = "a" THEN a_attestations ELSE b_attestations
verified(n) == IF n = "a" THEN a_verified ELSE b_verified
head(n) == IF n = "a" THEN A!ChainHead("a") ELSE B!ChainHead("b")
forks(n) == IF n = "a" THEN A!DetectForks ELSE B!DetectForks

DemoInit ==
  /\ A!Init /\ B!Init
  /\ quarantine = {} /\ clock = 0

\* A clock that runs backwards.
TickBack == clock < MaxCalls /\ clock' = clock - 1

\* DemoCore::tick.
Tick == clock < MaxCalls /\ clock' = clock + 1

\* vigil_ledger::append to n's store; a refusal would leave it as it is.
AppendTo(n, x) ==
  \/ n = "a" /\ A!AppendObservation(x) /\ UNCHANGED bStore
  \/ n = "b" /\ B!AppendObservation(x) /\ UNCHANGED aStore

\* An entry n has not signed yet, at the given place of its chain.
NewEntry(n, number, link) ==
  {x \in Obs \ observations(n) : author[x] = n /\ seq[x] = number /\ prev[x] = link}

\* DemoCore::append.
Append(n) ==
  /\ Tick
  /\ \E x \in NewEntry(n, IF head(n) = None THEN 0 ELSE seq[head(n)] + 1, head(n)) :
       AppendTo(n, x)
  /\ UNCHANGED quarantine

\* An attestation w has not signed yet, of the head of the other's chain.
NewAttestation(w, s) ==
  {t \in Att \ attestations(s) :
     /\ witness[t] = w /\ subject[t] = s
     /\ subject_head[t] = head(s) /\ subject_seq[t] = seq[head(s)]}

\* DemoCore::exchange_attestation: both heads are read before anything is
\* signed, and each attestation goes to the store of its subject.
ExchangeAttestation ==
  /\ head("a") # None /\ head("b") # None
  /\ Tick
  /\ \E ba \in NewAttestation("b", "a") : A!IngestAttestation(ba)
  /\ \E ab \in NewAttestation("a", "b") : B!IngestAttestation(ab)
  /\ UNCHANGED quarantine

\* The fork proofs of the store before the sibling is in it.
DetectedBefore(n) == {p \in forks(n) : CheckForkProof(p) /\ p.key = n}

\* detect_forks over the store after the append, and what convicts n in it.
Detected(n) == {p \in forks(n)' : CheckForkProof(p) /\ p.key = n}

\* A second entry at the place of the head: same seq, same prev.
SiblingOfHead(n) == NewEntry(n, seq[head(n)], prev[head(n)])

\* DemoCore::equivocate: one proof is enough to convict.
Equivocate(n) ==
  /\ head(n) # None
  /\ Tick
  /\ \E x \in SiblingOfHead(n) : AppendTo(n, x)
  /\ quarantine' = quarantine \cup {p.key : p \in Detected(n)}

\* On an empty chain the clock has advanced when the call fails.
EquivocateOnEmptyChain(n) ==
  /\ head(n) = None
  /\ Tick
  /\ UNCHANGED <<aStore, bStore, quarantine>>

DemoNext ==
  \/ \E n \in Key : Append(n) \/ Equivocate(n) \/ EquivocateOnEmptyChain(n)
  \/ ExchangeAttestation

DemoSpec == DemoInit /\ [][DemoNext]_demo

-----------------------------------------------------------------------------
\* DemoCore::bracket of every record of n's store, over the DAG rebuilt with
\* the shared quarantine.
BracketsOf(n) ==
  Brackets(BuildFromStore(observations(n) \cup attestations(n), verified(n), quarantine))
SealedOf(n) == {b.observation : b \in {c \in BracketsOf(n) : c.sealed}}

-----------------------------------------------------------------------------
(***************************************************************************)
(* Type correctness.                                                       *)
(***************************************************************************)
DemoTypeOK ==
  /\ A!TypeOK /\ B!TypeOK
  /\ quarantine \subseteq Key /\ clock \in 0 .. MaxCalls

\* A key is convicted exactly when its own store holds two entries at one
\* number: every equivocation is caught within its call, and no call, in any
\* order, convicts the node that only appended and exchanged.
ConvictedIffForked ==
  \A n \in Key : n \in quarantine <=>
    \E x, y \in observations(n) : x # y /\ seq[x] = seq[y]

\* However calls alternate, siblings stay leaves of one trunk: all entries at a
\* number hang off one and the same entry below, so that nothing the demo does
\* breaks a link or is refused by append.
SiblingsShareTheTrunk ==
  \A n \in Key : \A x, y \in observations(n) :
    /\ author[x] = n
    /\ seq[x] = seq[y] => prev[x] = prev[y]
    /\ seq[x] # 0 => prev[x] \in observations(n) /\ seq[prev[x]] + 1 = seq[x]

\* The trunk of n's chain: what its head reaches along prev.
Trunk(n) ==
  {x \in observations(n) : x = head(n) \/ \E y \in observations(n) : prev[y] = x}

\* An exchange seals the whole chain up to the head presented, in both stores,
\* unless the witness is convicted; a convicted one seals nothing at all.
ExchangeSealsTheTrunk ==
  [][ExchangeAttestation => \A n \in Key :
       IF Key \ {n} \subseteq quarantine THEN SealedOf(n)' = {}
       ELSE SealedOf(n)' = SealedOf(n) \cup Trunk(n)]_demo

\* web/demo.html: the equivocation is convicted "while its withheld sibling
\* stays unsealed".  The convicted node's head may become that sibling.
OneSiblingSealed ==
  \A n \in Key : \A x, y \in SealedOf(n) : seq[x] = seq[y] => x = y
=============================================================================
