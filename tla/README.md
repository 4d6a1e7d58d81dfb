# A TLA+ model of Vigilarch

Vigilarch keeps per-device chains of signed observations that witnesses attest to, so that the
records can later be placed in time ("bracketed") and misbehaviour proved without a server or a
consensus. This directory holds TLA+ modules for the parts of it that decide something, TLC
configurations that check them on small universes, and TLAPS proofs of what holds in every universe.
Paths below are relative to `crates/` of the repository.

## 1. The system

| Component | State | Operations | Correct when |
|---|---|---|---|
| Objects, `vigil-core/object.rs sign.rs types.rs` | none | content address, sign and verify, `ForkProof::build/check` | a proof that checks convicts only a key that signed both entries |
| CBOR and object codecs, `vigil-core/cbor.rs object.rs`, pack readers in `vigil-ledger/export.rs`, `vigil-verify/pack.rs` | the position in the input | encode, strict decode | everything written is read; one object has one encoding |
| Hlc, `vigil-core/types.rs` | a clock per caller | `tick`, `merge` | monotone |
| Store, `vigil-ledger/store.rs memory.rs` | observations and attestations by id, an index by (author, seq) | `put_*`, `chain`, `observations_at`, `chain_head`, `attestations_by_witness` | append-only, the first signature stays |
| Chain rule, `vigil-ledger/chain.rs` | the store | `append`, `verify_chain` | Verified means one whole chain; a gap is not a contradiction; a contradiction is never explained away |
| Attestation ingest, `vigil-ledger/attest.rs` | the store | `ingest_attestation` | a nonce reused is reported, an honest witness never is |
| Forks, `vigil-ledger/fork.rs` | `Quarantine` | `detect_forks`, `Quarantine::apply` | every verified fork is found, every proof built convinces everybody, no honest key is convicted |
| DAG and bracket, `vigil-ledger/dag.rs bracket.rs` | built per question | `Dag::build`, `Dag::bracket` | "before" is only said of what was before; a bracket encloses its record; learning more never unseals |
| Export, `vigil-ledger/export.rs` | none | `export_pack` | the pack is enough to recompute the bracket |
| Verifier, `vigil-verify` | none | `verify` | says what the exporter says, and never more when objects are missing |
| Node, `vigil-node` | ledger and hlc behind one mutex, four worker threads | capture, provenance, health, export over HTTP | one chain per key whatever the interleaving; answers agree with what clients observe |
| Demo, `vigil-wasm` | two ledgers, a shared quarantine, a clock | append, exchange, equivocate, bracket | only a forker is convicted, and within the call; each chain stays a trunk with sibling leaves; an exchange seals the trunk |
| Simulator, `vigil-sim` | scenario state | fixed scenarios per seed | its own assertions |
| `vigil-insight`, `-sync`, `-transport` | none | none (documentation only) | |

How they interact: the node calls `append` on its store under the mutex and answers queries from
the same store; whoever receives objects stores them with `append`, `put_*` or `ingest_attestation`; a
fork proof, built here or received, goes into a quarantine; a DAG is built from the store and a
quarantine at the moment of the question; `export_pack` writes what a DAG of the store says is
relevant into a file; the verifier, which shares no code with the ledger, rebuilds chain check, DAG
and bracket from the file.

What makes it hard: objects arrive in any order, several times or never; anybody may sign
contradicting objects and store objects under somebody else's name; the store keeps
signatures nobody verified; the bracket depends on everything held, so each arrival can move it; a
conviction may come after the evidence it discredits; four threads capture at once; two
implementations of one algorithm must agree on a file that may have lost objects. PROJECT.json
lists these hazards line by line.

## 2. The modules

```
Objects ──► Ledger ──► Demo (two ledgers)
   │          │ │
   └──► Dag ──┼─┴──► Evidence
         │    └────► Export ─┬► VigilNode ──implements──► CaptureLog
         └─────────► Verify ─┴► PackExchange
Cbor ──► Codec ──► Decoder
NumberSets ─┬► LedgerProofs ─┬► PackProofs (Evidence, then PackExchange)
            │                └► VigilNodeProofs (and the log)
            ├► DagProofs ──► PackProofs, DemoProofs
            └► CodecProofs ──► DecoderProofs
MCLedger, MCEvidence, MCVigilNode, MCPackExchange, MCDemo, MCDecoder: universes for TLC
```

**Objects.** A universe of objects: `Obs` and `Att` are sets of content addresses and `author`,
`seq`, `prev`, `acks`, `witness`, ... are functions on them, which is what "nobody presents two
contents under one id" means. `SignedObs` and `SignedAtt` are the ids the named key really signed;
`VerifyId(x, good)` is `verify_id` on a signature that is the genuine one (`good`) or a worthless one.
Ids are naturals because the code breaks ties by the order of hashes, and that order is unrelated to
age; age is `made`, which no operator that models code reads. Three assumptions about a universe:
`ObjectsType`; `HashOrder` (an object that names another by hash was made after it);
`HonestSigning` (a key in `Honest` signs what `Node::capture`, `DemoCore::append` and the simulator
build: one chain, acks of earlier attestations of its own heads, no nonce twice). Everyone else
signs anything.

**Ledger.** The store of `MemoryStore` as sets (`observations`, `attestations`, `verified` for the
held ids whose stored signature verifies) and the `quarantine`. One action per way in: `append`
(`AppendObservation`), `put_observation` and `put_attestation` with a signature that may not
verify, `ingest_attestation`, `Quarantine::apply`. `verify_chain` is `VerifyChain` with its two passes
(`Contradicted`, then `Whole` by counting) and its capped list `Missing`; `detect_forks` is
`DetectForks`.

**Dag, Evidence.** `Dag` is `Dag::build` and `Dag::bracket` as functions of a held set and a
quarantine: chain, ack and seal edges with the same guards, `Walk` along `prev` (the code's loop
with a visited set is the least set that holds the head and is closed under `prev`), `Closure` for
the breadth-first reach. `Evidence` runs them on the ledger: `dag` is what a question asked now would build.

**CaptureLog, VigilNode.** `VigilNode` is `serve`: workers that receive, read the body, lock,
compute, unlock and respond. `Node::capture` takes two steps under the lock, reading the head and
appending, so that a model without the lock interleaves there (that is its mutant). Provenance,
export and health each read the ledger in one step under the same lock. A request whose body cannot be
read is answered 400 by the worker; one that is malformed (a blank text, ids that are none, an
unknown path) is refused before the lock. Lookups and exports ask for ids that clients were told of,
or for one nobody has; what an export answers is given to `VerifyPack`, the stranger of `Verify`.
`CaptureLog` is the abstract specification: a log to which each capture is appended at most once
and an acknowledgement that names the place; `ImplementsCaptureLog` is the refinement under
"the entries of the node's chain in the order of their numbers".

**Export, Verify, PackExchange.** `Export` is which objects `export_pack` selects; `Verify` is the
verifier's own self-check, fork proofs, chain check, DAG (`BuildCarried`), bracket (`ClaimBracket`)
and exit condition, translated from vigil-verify and not from the ledger, so that a run compares the
two implementations. `PackExchange` fills a ledger, exports, lets the file lose or gain objects and
verifies. The node's own export passes an empty quarantine; a caller of the library may pass its own,
and both are tried.

**Demo.** `DemoCore`: the two nodes are two instances of Ledger (`A`, `B`) on stores of their own, with one
quarantine beside them. Each method is one action, since JavaScript calls them one at a time:
`Append`, `ExchangeAttestation` (both heads are read first, each attestation goes to its subject's
store) and `Equivocate`, which appends a sibling of the head, detects and convicts in one call, or
advances the clock and fails on an empty chain. `BracketsOf` is `DemoCore::bracket`. A visitor may
call anything in any order, so that a node that equivocated goes on appending and exchanging; the
chain then follows whichever sibling has the lower id.

**Cbor, Codec, Decoder.** An input is a sequence of items, each a head with its argument and width and
the string that follows; a string is its length and its rank among those of its length, which is all
that key order and identity look at. `Cbor` has the writer and, for the reader, what the code after a
point of the input still expects: reading an item checks the first expectation (`Accepts`: major type,
shortest head, range, key order) and puts what the item opens in its place (`Opens`). `Codec`
writes down `encode_fields` and `decode_fields` of the five objects and the two pack readers in these
terms, and in `Value` what `decode_fields` makes of the items it has read of each field. `Decoder` runs a
reader on an input, which is either an encoding the writer made or anything at all: `ReadHead` takes the
tag and the head of the map, `ReadKey` the next key, `ReadField` an item of that key's field, which is
collected under the key in `fields`; `Refuse` is any `DecodeError`, `End` the end of the input. A struct is built from its fields at the
end, as in the code. `wire_version` and the organisation are checked after the envelope in the code and at once here:
the inputs accepted are the same. Which `DecodeError` a refusal is, is left out.

## 3. The runs

All universes are small and hand-made so that every case of the code occurs; each MC module says
what its objects are there for.

| Run | Shows | Bounds and why they are enough |
|---|---|---|
| `ledger` | the chain verdict, the gap list, fork detection, quarantine and nonce reports are right under every arrival order | ten observations of two keys: a chain, a same-seq fork, a same-prev fork across a gap, an entry with an unknown predecessor, a genesis with a predecessor, an honest chain and a forged sibling; three attestations under one nonce; every object may come verified or not where `Garbled` says so. `MissingCap = 1` so that the cap is reached |
| `evidence` | order, brackets, depth and dispute while things arrive and keys are convicted | a forked and backdated chain with a gap that only an ack bridges, an acked attestation, a wrong ack, a forged, an unanchored and a late attestation, a conviction of witness and of author |
| `node` | one chain, a log, answers in real-time order, and packs a stranger passes, under every interleaving | three captures, an export of at most one id (`MaxAsked`) and a health check on two workers: an export can fall before, between and after captures, and two captures can race a third |
| `answers` | requests are answered; lookups agree with what clients know | two captures, a malformed one, a lookup and a client that never finishes, on two workers |
| `demo` | conviction, shape of the chains and what an exchange seals, for every order of calls | six calls (`MaxCalls`), entries up to number 2, two entries or more of each shape so that ids come in every order, two attestations of each head: enough to fork, exchange, convict, append after and fork again |
| `codec` | what is written is read, and decoded to what was written; what else is accepted for an object is the encoding of the object it decodes to | every object with one field varied at a time, every optional field present and absent, sets and tables of up to two elements, all numbers on both sides of each width (23/24, 255/256, 2^16) and of i32 and i64, where the four- and eight-byte limits are scaled to what TLC counts; for anybody's inputs every item anywhere, of which at most one (`MaxUnusual`) is a different value than the plain one for its place (a wrong item ends the input, so that one of those is enough) |
| `exchange` | the pack is sufficient, the verifier agrees, losses never overstate, and a claim that a conviction weakened names the convicted key | every ledger over two honest and one forking key with one entry that may be stored badly signed; one or two claims; a file loses objects up to `MaxLosses` or gains everything ever signed |

Five runs end in a counterexample on purpose: they check a sentence of the documentation
that the code does not keep (section 5).

The bounds the models set: the universe of objects of each MC module, `MissingCap` (4096 in the
code), `MaxClaims`, `MaxLosses`, `MaxAsked`, `MaxCalls`, `MaxUnusual` and the numbers and lengths of MCDecoder, one file per behaviour, and that a file that lost objects is not
filled up again. Sequence numbers are unbounded naturals.

`CHECK_DEADLOCK FALSE` stands where the system may really stop: everything has arrived, all
requests are answered, the report is written.

**Fairness.** Only `EveryRequestAnswered` needs it: weak fairness of `Work(w)` for each worker, that
is, the operating system schedules each thread that can take a step. A mutex is assumed free
eventually only because its holder is scheduled; weak fairness is enough in the run because
every holder releases it and requests are finitely many, so a waiting worker is not overtaken for ever.
Nothing is assumed of clients: that one sends, or that a stalled body ends or fails (`ReadFails` has no
fairness). The property is stated with fewer stalled clients than workers: with as many the node,
which has no read timeout, really stops answering.

## 4. What is proved

`LedgerProofs` proves for every universe that satisfies the assumptions of Objects and Ledger, of
any size and with any number of keys:

- `TypeCorrect`: `TypeOK` is inductive. Its content is that an id counts as verified only if its
  key signed it; everything below rests on it.
- `ViolationIsForever`. The store only grows (`StoreGrows`), and a contradiction found in a chain is
  found in every larger one (`ContradictionStays`): a broken link is mended only by a second entry
  at the predecessor's number, which is an equivocation.
- `HonestKeysStayFree`, `HonestAuthorsStayClean`, `HonestWitnessesAgree`: no step convicts, accuses
  or reports a key that signs as the node code does. The argument is that two signed entries of such a
  key never collide (`HonestSigning`), and that only signed entries count.
- `DetectedForksAlwaysConvict`, `ForkEvidenceStays`: what `detect_forks` builds passes
  `ForkProof::check`; any two verified entries of one key that share a number or a predecessor are
  found, whatever else is held of that key under bad signatures; and evidence is not displaced.
- `VerifiedMeansOneChain`: the verdict by counting is exact. It needs that the store is finite
  (`StoreFinite`, a second invariant), that a non-empty finite set of naturals has a largest
  element, and that a set closed downwards is an interval, which is exactly a set with as many elements as
  its largest plus one.
- `MissingAlwaysExact`: the gap list, the result of a loop, is the lowest missing numbers up to the cap.
  The loop is a fold over the held numbers in ascending order, so the theorem is about a recursive
  function: `GapState` says what each of its values must be, one turn leads from the value at all
  numbers but the highest to that at all of them (`TurnIsRight`), and a smallest set at which the function had another
  value would contradict that (`WalkIsRight`). How many numbers the cap lets through is
  `LowestAreLowest` in NumberSets.

`PackProofs` first proves every safety property of the `evidence` run for every universe. What it needs of a
DAG whatever ledger it was built from is in `DagProofs`, which the proofs about the demo use too. Reachability
is defined by the sets of vertices that no edge leaves, so that each fact about paths is an
instance of one set, without induction over the length of a path:

- `OrderIsAlwaysSound`, `OrderNeverLeavesChain`: every edge goes to a later vertex of the same owner
  (`EdgesGoForward`; for seal edges `WalkGoesBack`, the walk never leaves the entries made no later
  than the head), and the vertices later than x and of x's owner are a set no edge leaves.
- `BracketsAlwaysEnclose`, `BoundsAreAlwaysTight`: by the soundness of the order, a sealing
  attestation made first is preceded by no other, so a bound exists where anything seals
  (`BoundsExist`).
- `SealsAreAlwaysKept`, `BoundsNeverAreWidened`: the walk and the edges of one owner only grow with what
  is held, also when that owner is convicted (`WalkGrows`, `EdgesGrow`), hence so does what is
  reached from its vertices (`OrderGrows`).
- `OnlyUnwitnessedAreDisputed`, `DepthAlwaysCountsWitnesses` (for finitely many keys). Proving the
  former showed where an honest seal does not protect a record (run `disputed`).

The invariant behind them is `DagIsCurrent`, that `dag` is built from what the ledger holds, together with
`TypeOK`.

`VigilNodeProofs` proves `NodeKeepsOneChain` for any number of workers and requests
(`OneChainWhateverTheInterleaving`). The property is not inductive; the strengthening `NodeInv` says
that only the holder of the mutex is between reading the head and appending (`LockIsHeld`), and that the
head it read is still the head of the chain (`HeadIsFresh`). This is also where the assumption
`HonestSigning` made of honest keys is discharged for the node: what it signs is one linked chain.

It also proves `AnswersAgreeWithRealTime` (`AnswersAgree`). What an answer says is compared with what
its client could see when it asked, so the invariant `AnswersInv` carries that knowledge from the request
to the answer: what was answered before a request stands in the chain at the number told (`Placed`,
`ToldBefore`), and what a worker has computed but not sent yet is already true (`ResponsesTrue`) and stays
true, because the chain only grows (`TruthStays`). That `append` never refuses the node's own entry follows from
`HeadIsFresh`.

The third theorem, `StrangersAlwaysPassExports`, joins the node, the export and the verifier. The node
attests nothing, so its pack is the chain up to the last claim. The invariant `ExportInv` says of
an export that is answered or about to be (`ExportsTrue`, `ExportsReady`) that its pack carries one
whole chain of the node's key, no attestation and no fork proof, and one claim for each record asked for
(`ExportCarriesOneChain`: what is below a number in a whole chain is a whole chain, `CarriedChainIsWhole`);
`OneChainPasses` is then a fact about the verifier alone: of such a file it finds nothing to object to.

The fourth is the refinement, `NodeSpec => ImplementsCaptureLog` (`NodeImplementsCaptureLog`). The log is the texts of
the chain in the order of its numbers, which is a sequence because a whole chain has no gap
(`ChainIsGapless`). Signing records, answering a capture acknowledges, every other step stutters
(`NodeStepIsLogStep`). That nothing is recorded twice is `RecordedOnce`: a text in the chain is
answered, or about to be by the one worker that has it.

Then `PackProofs` proves what a stranger may believe of a pack, for any ledger, any pack and any number of losses.
The second implementation first: it draws the edges of `Dag` (`SameEdges`), so that what
is proved of every DAG holds of it. The invariant `PackInv` says that the file holds objects of the
ledger only, and every provable fork about a key in it (`HeldHere`), and that what the exporter said is true of
the ledger (`SaidTruly`); it is inductive because the ledger stands still once it has exported.

- `ReportsAreTrue`: soundness of the order, of whatever is in the file.
- `LossesNeverAccuse`: a contradiction in part of a chain is one in the whole (`PartIsNotWorse`).
- `LossesAreNotOverstated`: fewer objects under no fewer relevant convictions give no order that more
  objects do not give (`LessIsOrdered`), and the carried proofs convict every key in the file that the
  exporter distrusts (`CarriedKeysConvicted`).
- `ConvictionsAreShown`: convictions of neither an author nor a witness of it change nothing
  in the order of its vertices (`UnconcernedOrder`), hence nothing in its brackets.
- `StrangersRecompute`: the pack holds less than the ledger, and the verifier builds another DAG
  from it. The two agree on a claim because links that join consecutive numbers never lead upwards, so
  that what a path from or to the claim meets is below the number the export goes up to, and the
  edges among those are the same in both. The invariant `WrittenInv` keeps what an untouched file is.
- `HonestPacksAlwaysPass`: from that, the part of a whole chain below a number is whole
  for the verifier as well, every carried attestation is anchored, and nothing is left to fail.

`DemoProofs` proves `SiblingsShareTheTrunk` and `ConvictedIffForked`, and what an exchange seals, for any number of calls and objects.
They are inductive together with `StoresOK`, that all a store holds was appended under its own signature: an append
or a sibling made from the head keeps the trunk (`TrunkStays`), because no entry has a higher number
than the head, and detection after an equivocation finds it (`ForksAreFound`).
`ExchangeAlwaysSealsTheTrunk` is an action property that follows from that invariant: on a trunk the walk from
the head meets an entry at every number below it (`TrunkIsWalked`) and no sibling that is not itself the
head (`NothingElseIsWalked`); an attestation of a convicted witness draws no seal edge at all.

`CodecProofs` proves what does not depend on how an input is read, for all numbers, widths, lengths and
strings, and for every value: not only those in `Values`, which TLC tries with one field varied at a time,
but those of `AnyObject` and `Anything`, any combination of fields, any finite set of acks, frontier, list of chunks and parts of a pack.

- `EncodedIsReadable`: `Leads(E, w, F)` says that where E is expected, w is read and then F is expected; it
  composes (`LeadsOn`) and leaves alone what is expected later (`LeadsBefore`), so that each construct of
  the writer is proved once to fit its reader: heads, integers, strings, arrays (`ArrayFits`), maps
  (`FieldsFit`), ascending lists, tables, and variants, then each struct. That the writer's sort
  is the order the reader insists on is `OrderAscends`. Concatenation of a list of parts is recursive in the
  community modules (a recursive function); that its value is what it should be is `FlatExists` and
  `FlattenLeads`, by a least counterexample.
- `EncodedFieldsDecode`: every value, written field by field, is decoded to itself. One lemma for each
  construct says that reading undoes writing (`IntBack`, `PrevBack`, `AcksBack`, `FrontierBack`, `BodyBack`,
  ...). Integers are where it is delicate: minus one minus the argument, on both sides of 0 and at the
  limits.
- `EncodingIsOfOneObject`: no two values of an object have one encoding, so that a content
  address names one object. An encoding alone determines where each field ends: an input that is readable to
  its end as one expectation followed by another splits in one place only (`ReadableOnce`), hence so do the
  fields of a map (`BodiesOnce`), and equal fields are those of one value.

`DecoderProofs` proves both properties of the `codec` run for all values of the constants: whatever the
numbers, lengths and strings an input may hold, all of `u64` among them, and however many of its items are
unusual (`MaxUnusual`; TLC: one). What it says of the writer's inputs is said of the values in `Values`;
for all other values the three theorems above say it. The invariant `DecoderInv` has two parts. `ReaderInv` says where the decoder is: the input is the tag, the
head of the map, and under each key read so far the items `fields` holds of it; and what is held of a field, with anything that
completes what is still expected of it, is a whole value of that field (`Begun`). `WrittenInv`
says that an input made by the writer splits into what is read and a rest that can be.

- `WrittenAlwaysRead`: `WrittenInv` rules out a refusal, and an accepted input of the writer's decodes to the
  value written, because its fields can only be the writer's (`WrittenIsParsed`, `BodiesOnce`).
- `ReadAlwaysWritten`: when the decoder accepts, each field is readable to its end (`AcceptedReads`). The `...Reads`
  lemmas are the converses of the `...Fits` lemmas: what is readable as a number, a hash, a list, a table, a
  body is what the writer writes of some value of that type (`AscendingReads`, `TableReads`, `MapReads`,
  `BodyReads`), so that the fields are those of some object (`ObjectIsRead`). That object is the one decoded,
  by the round trip, and its map is the input, since keys were read in ascending order, without
  repetition, in their shortest form. Of lists
  the shortest that is read and not written would be one element longer than one that is both (`ListReadAt`, `MapReadTo`,
  `HashesReadTo`, `RowsReadTo`).

A pack is not in `ReadIsWritten`: `read_fork_proofs` accepts an array of length 0 that the writer never makes (run `pack_reader`).

`NumberSets` holds what the others need of sets of numbers: a largest and a smallest element, and when
counting decides that none is missing.

Only model-checked:

- `EveryRequestAnswered`: liveness under fairness is out of the prover's reach.

## 5. Where the code and its documentation differ

| Run | The sentence | What happens |
|---|---|---|
| `disputed` | `bracket.rs:75` a record of a quarantined key that was sealed by an honest witness stays valid and undisputed | across a gap an honest seal reaches the record only through another witness's acked attestation, and is lost when that witness is convicted |
| `partial_pack` | `report.rs:114` an Incomplete chain does not fail | a partial chain's pack carries an acked attestation whose head is not held, and an unanchored attestation fails the report |
| `overstating_pack` | `spec/03-export-pack.md:188` omitting a fork proof is the one omission that overstates | `export_pack` given a quarantine drops seals without carrying the proof when the store cannot rebuild it |
| `demo_sibling` | `web/demo.html:61` and `README.md:13`: after an equivocation the withheld sibling stays unsealed | `chain_head` is the sibling with the lower id, so the next exchange may attest, and thereby seal, the sibling |
| `pack_reader` | `spec/03-export-pack.md:97` `fork_proofs` is omitted, "never an empty array"; `pack.rs:165` total rejection on any violation | `read_fork_proofs` accepts an array of length 0 |

None of them makes a property of section 3 fail. More differences have no run:

- `attest.rs:20` says AlreadyHeld means "The exact object was already held." With two held attestations
  under one nonce, a redelivery of the one with the higher id is reported as a conflict.
- `chain.rs:197` says Incomplete means that nothing held contradicts anything else held. Two entries
  that name one predecessor across a gap are a fork for `detect_forks` and Incomplete for `verify_chain`.
- `spec/02-entanglement.md:305` and `bracket.rs:27` say an attestation can only narrow a bracket. Among
  incomparable candidates the lowest id is the bound, so an arrival can move it sideways;
  `BoundsNeverWiden` is what does hold.
- `spec/02-entanglement.md:186` says a same-seq sibling receives no seal edge. The walk follows `prev`
  without looking at `seq`; an entry that names a same-seq entry in `prev` passes the seal on.
- `append` returns `ChainMismatch` and stores nothing where `spec/01-wire-format.md:370` says that an
  observation is not discarded because its chain claims are inconsistent (`chain.rs:164`).
- `spec/02-entanglement.md:360` keeps a quarantined key's new observations out of bracketing while
  `Dag::build` takes every validly signed one (`dag.rs:117`); `ExchangeSealsTheTrunk` of the demo
  relies on what the code does.

## 6. What is not modelled, and the plan

Not modelled, and why:

- `Hlc::tick` and `merge`: a reading decides nothing in ledger, verifier, node or demo, `merge` has no
  caller outside its tests, and `tick` is fed from a counter that only grows.
- The simulator runs fixed schedules once per seed; the stores and DAGs they build are behaviours of
  Evidence. It has no state machine of its own that other code depends on.
- Restarts: the store is in memory and `Node::new` draws a fresh key, so a restarted node is another
  node. A key that signs two chains is the forking key of Ledger and Evidence.
- `chain.rs:301`, `saturating_add` at the largest u64: numbers are unbounded in Ledger, and a chain
  of that length, or a store that holds an entry with that number, is outside what its gap list says.
- Report wording, command lines, JSON shapes, the web page and the demo script, generators of test
  vectors, and the three documentation crates, which have no code.

Order of the plan: (1) Objects, Ledger and its proofs; (2) Dag and Evidence and theirs; (3) the node
and its log; (4) export and verifier; (5) proof that the node keeps one chain; (6) Demo; (7) the
codecs and pack readers; (8) exports of the node; (9) proofs of the node's log, answers and exports, of what
a pack says and is enough for, and of the demo; (10) proofs of the gap list and of the codecs,
that what is written is read; (11) the converse, that what the strict reader accepts of an object, whoever
sent it, is what the writer makes of that object, with the round trip and the uniqueness of encodings: all done.
