------------------------------- MODULE Objects -------------------------------
(***************************************************************************)
(* The signed, content-addressed objects of Vigilarch and what can be read *)
(* off them without a store: observations (chain entries), attestations    *)
(* and fork proofs (crates/vigil-core/src/object.rs).                      *)
(*                                                                         *)
(* An object IS its content address: Obs and Att are sets of ids, and the  *)
(* decoded fields are functions on them, because nobody can present two    *)
(* contents under one id.  Ids are naturals only because the code orders   *)
(* them; their order is that of the hashes and says nothing about age.     *)
(***************************************************************************)
EXTENDS Naturals, FiniteSets

CONSTANTS
  Key,           \* public keys: authors of observations, witnesses, subjects
  Honest,        \* the keys whose holder only ever signs as the node code does
  Obs,           \* ids of every observation anyone may ever present
  Att,           \* ids of every attestation anyone may ever present
  None,          \* Rust's None: the empty `prev` of a genesis entry
  SignedObs,     \* the observations the author's key really signed
  SignedAtt,     \* the attestations the witness's key really signed
  author, seq, prev, acks,                                \* Observation fields
  witness, subject, subject_head, subject_seq, nonce,     \* Attestation fields
  made           \* when an object first existed; no program can read it

Id == Nat

ASSUME ObjectsType ==
  /\ Honest \subseteq Key
  /\ Obs \subseteq Id /\ Att \subseteq Id /\ Obs \cap Att = {}
  /\ None \notin Id
  /\ SignedObs \subseteq Obs /\ SignedAtt \subseteq Att
  /\ author \in [Obs -> Key] /\ seq \in [Obs -> Nat]
  /\ prev \in [Obs -> Id \cup {None}]
  /\ acks \in [Obs -> SUBSET Id]
  /\ witness \in [Att -> Key] /\ subject \in [Att -> Key]
  /\ subject_head \in [Att -> Id] /\ subject_seq \in [Att -> Nat]
  /\ nonce \in [Att -> Nat]
  /\ made \in [Obs \cup Att -> Nat]

(***************************************************************************)
(* What BLAKE3 gives: an object that names another by its hash was made    *)
(* after it.  (A name that is no element of Obs or Att is a hash nobody    *)
(* has the preimage of.)                                                   *)
(***************************************************************************)
ASSUME HashOrder ==
  /\ \A x \in Obs : prev[x] \in Obs => made[prev[x]] < made[x]
  /\ \A x \in Obs : \A a \in acks[x] \cap Att : made[a] < made[x]
  /\ \A a \in Att : subject_head[a] \in Obs => made[subject_head[a]] < made[a]

(***************************************************************************)
(* What the holder of an honest key signs: one chain of observations, each *)
(* linked to the one before it (Node::capture, DemoCore::append and the    *)
(* simulator's append_note all build `seq` and `prev` from the chain head  *)
(* of a store that already holds the whole chain), acks only of            *)
(* attestations of an earlier head of its own, and no nonce twice.         *)
(***************************************************************************)
ASSUME HonestSigning ==
  /\ \A x \in SignedObs : author[x] \in Honest =>
       /\ (seq[x] = 0) <=> (prev[x] = None)
       /\ seq[x] > 0 => /\ prev[x] \in SignedObs
                        /\ author[prev[x]] = author[x]
                        /\ seq[prev[x]] + 1 = seq[x]
       /\ \A y \in SignedObs : author[y] = author[x] /\ seq[y] = seq[x] => y = x
       /\ \A a \in acks[x] \cap Att :
            /\ subject[a] = author[x] /\ subject_seq[a] < seq[x]
            /\ subject_head[a] \in SignedObs
            /\ author[subject_head[a]] = author[x]
            /\ seq[subject_head[a]] = subject_seq[a]
  /\ \A a, b \in SignedAtt :
       witness[a] \in Honest /\ witness[b] = witness[a] /\ nonce[a] = nonce[b] => a = b

-----------------------------------------------------------------------------
\* A detached Ed25519 signature over an id verifies (sign.rs verify_id): a
\* signature presented as good can only exist for what the key really signed.
VerifyId(x, good) == good /\ x \in SignedObs \cup SignedAtt

\* Two entries by one author that cannot sit in one chain (object.rs Collision).
Collide(x, y) == x # y /\ (seq[x] = seq[y] \/ prev[x] = prev[y])

(***************************************************************************)
(* A ForkProof carries a key and two entries with their signatures.  The   *)
(* set of every well-formed one, including those that prove nothing.       *)
(***************************************************************************)
ForkProof == [key : Key, a : Obs, b : Obs, sig_a : BOOLEAN, sig_b : BOOLEAN]

\* ForkProof::build puts the entry with the smaller id first.
BuildForkProof(k, e1, s1, e2, s2) ==
  IF e1 <= e2 THEN [key |-> k, a |-> e1, b |-> e2, sig_a |-> s1, sig_b |-> s2]
              ELSE [key |-> k, a |-> e2, b |-> e1, sig_a |-> s2, sig_b |-> s1]

\* A check that forgets to compare both authors with the convicted key.
CheckWithoutAuthor(p) ==
  /\ VerifyId(p.a, p.sig_a) /\ VerifyId(p.b, p.sig_b)
  /\ p.a < p.b
  /\ Collide(p.a, p.b)

\* ForkProof::check returns Ok: every refusal of the code is a conjunct here.
CheckForkProof(p) ==
  /\ author[p.a] = p.key /\ author[p.b] = p.key            \* WrongAuthor
  /\ VerifyId(p.a, p.sig_a) /\ VerifyId(p.b, p.sig_b)      \* BadSignature
  /\ p.a < p.b                                             \* SameEntry, Misordered
  /\ seq[p.a] = seq[p.b] \/ prev[p.a] = prev[p.b]          \* NoCollision
=============================================================================
