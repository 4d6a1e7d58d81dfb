-------------------------------- MODULE Export ---------------------------------
(***************************************************************************)
(* Export-pack assembly (crates/vigil-ledger/src/export.rs): which of the  *)
(* held objects a pack for a set of claimed records carries.               *)
(***************************************************************************)
EXTENDS Ledger, Dag

\* The attestations in reach of record r, either way.
Reachable(D, r) == {a \in D.attestations : <<r, a>> \in D.order \/ <<a, r>> \in D.order}

\* A segment that ends at the claimed record itself.
ClaimedSeq(D, r) == seq[r]

\* How far the author's chain has to be carried for r: to the furthest entry a
\* carried attestation of that chain anchors on.
SegmentReach(D, r) ==
  Max({seq[r]} \cup {subject_seq[a] : a \in {x \in Reachable(D, r) : subject[x] = author[r]}})

CarriedAttestations(D, claims) == UNION {Reachable(D, r) : r \in claims}

\* The stored segment of each claimed author, every entry at a shared number
\* and entries under a bad signature included.
CarriedObservations(D, claims) ==
  UNION {{x \in Entries(author[s.of]) : seq[x] <= s.reach} :
           s \in {[of |-> r, reach |-> SegmentReach(D, r)] : r \in claims}}

\* The keys that appear in O or A.
KeysIn(O, A) == {author[x] : x \in O} \cup {subject[a] : a \in A} \cup {witness[a] : a \in A}

\* Proofs against the authors of the claimed records only.
AuthorProofs(O, A) == {p \in DetectForks : p.key \in {author[x] : x \in O}}

CarriedProofs(O, A) == {p \in DetectForks : p.key \in KeysIn(O, A)}

\* The pack file: `good` are the carried objects whose carried signature
\* verifies.
PackOf(claims, O, A) ==
  [claims |-> claims, observations |-> O, attestations |-> A,
   good |-> (O \cup A) \cap verified, fork_proofs |-> CarriedProofs(O, A)]

\* export_pack for claims that are all held; `convicted` is the quarantine the
\* caller passes.
ExportPack(claims, convicted) ==
  UNION {{PackOf(claims, CarriedObservations(D, claims), CarriedAttestations(D, claims))} :
           D \in {BuildFromStore(observations \cup attestations, verified, convicted)}}
=============================================================================
