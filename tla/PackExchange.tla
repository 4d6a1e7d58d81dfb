----------------------------- MODULE PackExchange ------------------------------
(***************************************************************************)
(* A pack on its way: a node's ledger fills (Ledger), the node exports a   *)
(* pack (Export), objects in the file are lost, damaged or added by people *)
(* who hold none of the honest keys, and a stranger verifies what is left  *)
(* (Verify).                                                               *)
(***************************************************************************)
EXTENDS Export, Verify

CONSTANTS
  MaxClaims,     \* how many records a pack is exported for
  MaxLosses      \* how many objects a file loses on the way

ASSUME PackAssumption == MaxClaims \in Nat /\ MaxLosses \in Nat

VARIABLES
  pack,          \* the file, NoPack before the export
  exported,      \* the file as it was written, and what its exporter says
  losses,        \* how many objects were lost or damaged on the way
  added,         \* whether objects were added to the file
  report         \* the verifier's report, NoReport before verification

exchange == <<vars, pack, exported, losses, added, report>>

NoPack == [claims |-> {}]
NoReport == [claims |-> {}]

ExchangeInit ==
  /\ Init
  /\ pack = NoPack /\ exported = NoPack
  /\ losses = 0 /\ added = FALSE
  /\ report = NoReport

Fill ==
  /\ pack = NoPack
  /\ Next
  /\ UNCHANGED <<pack, exported, losses, added, report>>

\* The keys whose forks this ledger can prove.
Provable == {p.key : p \in DetectForks}

\* What the exporter itself says of the claimed records and of their chains; a
\* record held under a bad signature has no bracket (it is no vertex).
Said(claims, convicted) ==
  [claims |-> claims,
   brackets |-> UNION {{Bracket(D, r) : r \in claims \cap D.observations} :
                  D \in {BuildFromStore(observations \cup attestations, verified, convicted)}},
   chains |-> {[author |-> k, verdict |-> VerifyChain(k)] : k \in {author[r] : r \in claims}},
   fits |-> \A r \in claims : \A x \in Entries(author[r]) :
              prev[x] \in Entries(author[r]) => seq[prev[x]] + 1 = seq[x],
   quarantine |-> convicted]

\* Node::export passes an empty quarantine; a caller of export_pack may pass
\* the one it keeps.
DoExport(claims, convicted) ==
  /\ pack = NoPack
  /\ claims \subseteq observations /\ claims # {}
  /\ pack' \in ExportPack(claims, convicted)
  /\ exported' = [file |-> pack', said |-> Said(claims, convicted \cup Provable)]
  /\ UNCHANGED <<vars, losses, added, report>>

\* A carried object disappears, or no longer decodes or verifies.
Lose(o) ==
  /\ pack # NoPack /\ report = NoReport /\ losses < MaxLosses /\ ~added
  /\ o \in pack.observations \cup pack.attestations
  /\ \/ pack' = [pack EXCEPT !.observations = @ \ {o}, !.attestations = @ \ {o}, !.good = @ \ {o}]
     \/ o \in pack.good /\ pack' = [pack EXCEPT !.good = @ \ {o}]
  /\ losses' = losses + 1
  /\ UNCHANGED <<vars, exported, added, report>>

\* Everything that was ever signed may be put into the file (a file that lost
\* objects is not filled up again: a bound of the model).
AddEverything ==
  /\ pack # NoPack /\ report = NoReport /\ ~added /\ losses = 0
  /\ pack' = [pack EXCEPT !.observations = SignedObs, !.attestations = SignedAtt,
                          !.good = SignedObs \cup SignedAtt]
  /\ added' = TRUE
  /\ UNCHANGED <<vars, exported, losses, report>>

DoVerify ==
  /\ pack # NoPack /\ report = NoReport
  /\ report' \in VerifyPack(pack)
  /\ UNCHANGED <<vars, pack, exported, losses, added>>

ExchangeNext ==
  \/ Fill
  \/ \E claims \in SUBSET Obs, convicted \in {{}, quarantine} :
       Cardinality(claims) <= MaxClaims /\ DoExport(claims, convicted)
  \/ \E o \in Obs \cup Att : Lose(o)
  \/ AddEverything
  \/ DoVerify

ExchangeSpec == ExchangeInit /\ [][ExchangeNext]_exchange

-----------------------------------------------------------------------------
Verified == report # NoReport
Untouched == losses = 0 /\ ~added
SaidOf(r) == CHOOSE b \in exported.said.brackets : b.observation = r

\* The exporter relies on no conviction it cannot prove in the pack.
QuarantineProvable == exported.said.quarantine \subseteq Provable

\* A file that arrives as it was written lets a stranger recompute exactly the
\* brackets the exporter states, and no others: the minimal object set is
\* enough, whatever forks and forgeries the ledger holds.  (Of chains in which every held link
\* joins consecutive numbers; spec/03 3.)
PackReproducesBrackets ==
  Verified /\ Untouched /\ exported.said.fits /\ QuarantineProvable =>
    {c.bracket : c \in {d \in report.claims : d.outcome = "Bracketed"}}
      = exported.said.brackets

\* A file of whole chains of honest authors that no held fork touches, and that
\* arrives as it was written, passes.
HonestPackPasses ==
  /\ Verified /\ Untouched
  /\ \A c \in exported.said.chains : c.author \in Honest /\ c.verdict = "Verified"
  /\ pack.fork_proofs = {} /\ Invalid(pack) = {}
  => report.passed

\* The second implementation of the chain check never accuses where the first
\* does not, also after losses: a hole is a hole and not a contradiction.
LossesAreNotViolations ==
  Verified /\ ~added =>
    \A c \in report.chains, s \in exported.said.chains :
      c.author = s.author /\ c.verdict = "Violated" => s.verdict = "Violated"

\* A file that lost objects on its way never says more than its exporter: no
\* seal, no witness and no earlier record it did not state, and a disputed
\* record is not cleared.
LossesNeverOverstate ==
  Verified /\ ~added /\ QuarantineProvable =>
    \A c \in report.claims : c.outcome = "Bracketed" =>
      LET b == c.bracket s == SaidOf(c.observation)
      IN  /\ b.sealing \subseteq s.sealing /\ b.preceding \subseteq s.preceding
          /\ b.witness_depth <= s.witness_depth
          /\ s.disputed => b.disputed

\* Whatever was put into the file or taken from it, what the report calls a
\* sealing attestation was signed, by somebody else than the author, after the
\* record was made, and what it calls a preceding one before.
ReportedBracketsAreTrue ==
  \A c \in report.claims : c.outcome = "Bracketed" =>
    LET r == c.observation
    IN  /\ \A a \in c.bracket.sealing :
             a \in SignedAtt /\ witness[a] # author[r] /\ made[r] < made[a]
        /\ \A a \in c.bracket.preceding : a \in SignedAtt /\ made[a] < made[r]

\* A bracket that a carried conviction has changed, by the bound it removed, the
\* witness it no longer counts or the dispute it opens, names a convicted key, so
\* that a reader sees why the claim says less than the objects in the file do.
ConvictionsShow ==
  \A c \in report.claims : c.outcome = "Bracketed" /\ report.dag.quarantined # {} =>
    \A plain \in {BuildCarried(report.dag.observations, report.dag.attestations, {})} :
      c.bracket # ClaimBracket(plain, c.observation) => c.fork_proofs_touching # {}

\* report.rs: "A chain reported `Incomplete` does not fail", the normal state
\* under partition: a pack of an honest author's records that nobody touched
\* passes.
IncompletePasses ==
  /\ Verified /\ Untouched
  /\ \A c \in exported.said.chains : c.author \in Honest
  /\ pack.fork_proofs = {} /\ Invalid(pack) = {}
  => report.passed

\* spec/03 3.4: leaving out a held, relevant fork proof is "the one omission
\* that can make a pack overstate".
NoPackOverstates ==
  Verified /\ Untouched =>
    \A c \in report.claims : c.outcome = "Bracketed" =>
      c.bracket.sealing \subseteq SaidOf(c.observation).sealing
=============================================================================
