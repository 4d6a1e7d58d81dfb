------------------------------- MODULE Evidence -------------------------------
(***************************************************************************)
(* What one node's ledger can say of its records (Dag) while objects       *)
(* arrive and keys are convicted (Ledger): a DAG is built from what is     *)
(* held and from the quarantine at the moment of asking.                   *)
(***************************************************************************)
EXTENDS Ledger, Dag

VARIABLE dag   \* the Dag a query builds at this moment

evidence == <<vars, dag>>

EvidenceInit == Init /\ dag = BuildFromStore({}, {}, {})

\* A step of the ledger; only a step that changes it changes what is built.
EvidenceNext ==
  /\ Next
  /\ dag' = IF UNCHANGED vars THEN dag
            ELSE BuildFromStore(observations' \cup attestations', verified', quarantine')

EvidenceSpec == EvidenceInit /\ [][EvidenceNext]_evidence

-----------------------------------------------------------------------------
\* "x provably happened before y" is never said of two objects unless x was
\* made before y, whoever lied in them: backdated entries, forks, colluding
\* witnesses and attestations of heads nobody holds included.  (dag.rs claims a
\* partial order; that it is one follows.)
OrderIsSound == \A e \in dag.order : made[e[1]] < made[e[2]]

\* The order never leaves one author's chain: no attestation relates the
\* records of two authors (spec/02 4.6), so no key's misbehaviour can reorder,
\* seal or unseal what another key recorded.
OrderStaysInChain == \A e \in dag.order : Owner(e[2]) = Owner(e[1])

\* A bracket really encloses its record: L was signed before it and U after it,
\* both about the record's own author by another key; a sealed record always
\* has an upper bound and an unsealed one never has.
BracketEncloses ==
  \A b \in Brackets(dag) :
    LET r == b.observation L == b.lower_bound U == b.upper_bound
    IN  /\ L # None => L \in attestations /\ made[L] < made[r] /\ subject[L] = author[r]
        /\ U # None => U \in attestations /\ made[r] < made[U] /\ subject[U] = author[r]
        /\ b.sealed <=> U # None
        /\ b.preceding # {} <=> L # None

\* U is a sealing attestation no other sealing attestation precedes, L one that
\* precedes the record and that no other such attestation follows.
BoundsAreTight ==
  \A b \in Brackets(dag) :
    /\ \A a \in b.sealing : <<a, b.upper_bound>> \notin dag.order
    /\ \A a \in b.preceding : <<b.lower_bound, a>> \notin dag.order

\* Depth counts keys that signed: never the author itself, never a convicted
\* witness, never a forged attestation and never one witness twice.
DepthCountsWitnesses ==
  \A b \in Brackets(dag) :
    LET others == Key \ (quarantine \cup {author[b.observation]})
    IN  /\ b.sealing \subseteq SignedAtt
        /\ {witness[a] : a \in b.sealing} \subseteq others
        /\ b.witness_depth <= Cardinality(others)

\* Learning more never unseals: as long as nobody else than the record's author
\* is convicted, whatever arrives leaves every sealing and every preceding
\* attestation of a record in place, and its depth does not fall.  In
\* particular convicting the author does not unwitness what was witnessed.
SealsAreKept ==
  [][\A b \in Brackets(dag), c \in Brackets(dag') :
       /\ c.observation = b.observation
       /\ quarantine' \ quarantine \subseteq {author[b.observation]}
       => /\ b.sealing \subseteq c.sealing
          /\ b.preceding \subseteq c.preceding
          /\ b.witness_depth <= c.witness_depth]_evidence

\* Learning more never moves U strictly later or L strictly earlier in the
\* order (it may move either to an incomparable attestation).
BoundsNeverWiden ==
  [][\A b \in Brackets(dag), c \in Brackets(dag') :
       c.observation = b.observation /\ quarantine' = quarantine
       => /\ <<b.upper_bound, c.upper_bound>> \notin dag'.order
          /\ <<c.lower_bound, b.lower_bound>> \notin dag'.order]_evidence

\* The witnesses of the attestations that seal r by themselves: whose walk along
\* `prev` reaches it, without an ack of somebody else's attestation in between.
DirectWitnesses(r) ==
  {witness[e[2]] : e \in {s \in SealEdge(dag.observations, dag.attestations, dag.quarantined) :
                            s[1] = r}}

\* A record only becomes disputed when a key is convicted, and only once its
\* author and every witness that sealed it by itself are: no arrival disputes a
\* standing record, and convicting the author leaves a witnessed one alone.
OnlyUnwitnessedDisputed ==
  [][\A b \in Brackets(dag), c \in Brackets(dag') :
       c.observation = b.observation /\ c.disputed /\ ~b.disputed
       => /\ quarantine' # quarantine
          /\ {author[b.observation]} \cup DirectWitnesses(b.observation)
               \subseteq quarantine']_evidence

\* bracket.rs: a record of a quarantined key "that was sealed by an honest
\* witness stays valid and undisputed".
HonestSealOutlastsConvictions ==
  [][\A b \in Brackets(dag), c \in Brackets(dag') :
       /\ c.observation = b.observation
       /\ \E a \in b.sealing : witness[a] \in Honest
       => ~c.disputed]_evidence

=============================================================================
