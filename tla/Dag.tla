--------------------------------- MODULE Dag ----------------------------------
(***************************************************************************)
(* The attestation DAG and the bracket of a record, as the pure functions  *)
(* of a held object set they are in crates/vigil-ledger/src/dag.rs and     *)
(* bracket.rs.  O and A are the observations and the attestations held     *)
(* under signatures that verify (the vertices), Q the quarantined keys.    *)
(***************************************************************************)
EXTENDS Objects, FiniteSetsExt

\* The key whose chain a vertex belongs to.
Owner(v) == IF v \in Obs THEN author[v] ELSE subject[v]

-----------------------------------------------------------------------------
\* Dag::build, edges, from the earlier vertex to the later one.

ChainEdge(O) ==
  {<<prev[x], x>> : x \in {y \in O : /\ prev[y] \in O
                                     /\ author[prev[y]] = author[y]
                                     /\ seq[prev[y]] + 1 = seq[y]}}

\* An ack of somebody else's attestation, or of one about the entry itself or a
\* later one, is a finding against the author and gives no edge.
SoundAck(a, x) == subject[a] = author[x] /\ subject_seq[a] < seq[x]

\* Every ack taken for an edge.
AnyAckEdge(O, A) == {e \in A \X O : e[1] \in acks[e[2]]}

AckEdge(O, A) == {e \in A \X O : e[1] \in acks[e[2]] /\ SoundAck(e[1], e[2])}

AckFinding(O, A) == {e \in O \X A : e[2] \in acks[e[1]] /\ ~SoundAck(e[2], e[1])}

\* The attested head is held and is what the attestation says it is.
Anchored(O, a) ==
  /\ subject_head[a] \in O
  /\ author[subject_head[a]] = subject[a]
  /\ seq[subject_head[a]] = subject_seq[a]

\* Disregarding attestations about a convicted key as well as by it.
SubjectQuarantined(O, Q, a) ==
  /\ witness[a] # subject[a] /\ Anchored(O, a)
  /\ witness[a] \notin Q /\ subject[a] \notin Q

\* An attestation that may seal: by another key, not quarantined, anchored.
Sealer(O, Q, a) ==
  /\ witness[a] # subject[a]
  /\ witness[a] \notin Q
  /\ Anchored(O, a)

\* Sealing by sequence number: every held entry at or below the attested one.
WalkBySeq(O, a) == {x \in O : author[x] = subject[a] /\ seq[x] <= subject_seq[a]}

\* The entries the walk along `prev` from the attested head reaches: those in
\* every set of the subject's held entries that holds the head and, with an
\* entry, the one its `prev` names.  The walk does not look at `seq`.
Walk(O, a) ==
  LET branch == {x \in O : author[x] = subject[a]}
  IN  branch \ UNION {branch \ S :
         S \in {T \in SUBSET branch : /\ subject_head[a] \in T
                                      /\ \A x \in T : prev[x] \in branch => prev[x] \in T}}

SealEdge(O, A, Q) == UNION {Walk(O, a) \X {a} : a \in {x \in A : Sealer(O, Q, x)}}

Edge(O, A, Q) == ChainEdge(O) \cup AckEdge(O, A) \cup SealEdge(O, A, Q)

\* Dag.reach, the transitive closure of the edges: <<x, y>> is in it when y is
\* one or more edges away from x.  It is not exactly when some set of vertices
\* that no edge leaves holds the heads of the edges out of x and not y.
Closure(V, edges) ==
  (V \X V) \ UNION {{x \in V : \A e \in edges : e[1] = x => e[2] \in S} \X (V \ S) :
                      S \in {T \in SUBSET V : \A e \in edges : e[1] \in T => e[2] \in T}}

\* The Dag.  (`edges` is a bound variable for TLC's sake, which then computes
\* the edges once and not for every set of vertices.)
Build(O, A, Q) ==
  [observations |-> O, attestations |-> A, quarantined |-> Q,
   order |-> UNION {Closure(O \cup A, edges) : edges \in {Edge(O, A, Q)}}]

\* Dag::build on a store: the vertices are the held objects whose stored
\* signature verifies.
BuildFromStore(held, good, convicted) ==
  Build(held \cap good \cap Obs, held \cap good \cap Att, convicted)

-----------------------------------------------------------------------------
\* Dag::bracket of record r on the DAG D.

Sealing(D, r) == {a \in D.attestations : witness[a] # author[r] /\ <<r, a>> \in D.order}
Preceding(D, r) == {a \in D.attestations : witness[a] # author[r] /\ <<a, r>> \in D.order}

Earliest(D, S) == {u \in S : \A other \in S \ {u} : <<other, u>> \notin D.order}
Latest(D, S) == {l \in S : \A other \in S \ {l} : <<l, other>> \notin D.order}

\* `.min()` over the candidates: ties are broken by id.
LowestId(S) == IF S = {} THEN None ELSE Min(S)

\* The attestation with the lowest id, whatever precedes or follows it.
LowestSealing(D, r) == LowestId(Sealing(D, r))
LowestPreceding(D, r) == LowestId(Preceding(D, r))

UpperBound(D, r) == LowestId(Earliest(D, Sealing(D, r)))
LowerBound(D, r) == LowestId(Latest(D, Preceding(D, r)))

\* Counting attestations instead of the keys that witnessed them.
AttestationDepth(D, r) == Cardinality(Sealing(D, r))

WitnessDepth(D, r) == Cardinality({witness[a] : a \in Sealing(D, r)})

\* A convicted author's record disputed however well it was witnessed.
DisputedWhenConvicted(D, r) == author[r] \in D.quarantined

Disputed(D, r) == author[r] \in D.quarantined /\ Sealing(D, r) = {}

\* The Bracket; its window is the pair of bounds again, with None read as the
\* author's genesis below and as the moment of verification above.
Bracket(D, r) ==
  [observation |-> r,
   sealing |-> Sealing(D, r), preceding |-> Preceding(D, r),
   lower_bound |-> LowerBound(D, r), upper_bound |-> UpperBound(D, r),
   sealed |-> Sealing(D, r) # {},
   witness_depth |-> WitnessDepth(D, r),
   disputed |-> Disputed(D, r)]

\* Every record of one DAG bracketed.
Brackets(D) == {Bracket(D, r) : r \in D.observations}
=============================================================================
