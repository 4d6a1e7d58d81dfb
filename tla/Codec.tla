--------------------------------- MODULE Codec ---------------------------------
(***************************************************************************)
(* The encodings of the signed objects (crates/vigil-core/src/object.rs)   *)
(* and of the export pack that carries them (export.rs of vigil-ledger,    *)
(* pack.rs of vigil-verify): what is written for every value, and a reader *)
(* that is given an input item by item.                                    *)
(***************************************************************************)
EXTENDS Cbor, FiniteSetsExt

CONSTANTS
  Number,        \* the numbers that arguments and values are taken from
  Listed,        \* the lengths of arrays
  Keyed,         \* the lengths of maps
  Rank,          \* ranks of strings among those of their length, 0 .. n
  Length,        \* the lengths of byte strings
  None,
  Type,          \* what is read: kinds of objects, and the readers of packs
  Sent,          \* those of them that anybody's inputs are tried as
  MaxUnusual     \* bounds the items of an unwritten input that are not the
                 \* first choice for their place

\* Object::TAG and PACK_MARKER.
TAG(type) == IF type \in {"pack", "verified pack"} THEN "pack" ELSE type

ASSUME CodecAssumption ==
  /\ Number \subseteq 0 .. Greatest[8] /\ Listed \cup Keyed \subseteq Number
  /\ 0 \in Number /\ 0 \in Rank /\ Rank \subseteq Nat /\ IsFiniteSet(Rank)
  /\ {0, 16, 32, 64} \subseteq Length /\ Length \subseteq 0 .. Greatest[8]
  /\ MaxUnusual \in Nat
  /\ Sent \subseteq Type /\ \A t \in Type : TAG(t) \in Tags
  /\ Type \subseteq {"observation", "attestation", "checkpoint", "blob", "forkproof",
                     "pack", "verified pack"}

UpTo(most) == {n \in Number : n <= most}
U64 == Number
Signed(most) == UpTo(most) \cup {-1 - n : n \in UpTo(most)}

-----------------------------------------------------------------------------
\* Values: a plain one of each struct, and those that differ from it in a field.

\* The values that differ from v in a field f at most, over the values D of it.
Varied(v, f, D) == {[v EXCEPT ![f] = d] : d \in D}

Hlc0 == [wall_ms |-> 0, counter |-> 0]
Hlcs == Varied(Hlc0, "wall_ms", U64) \cup Varied(Hlc0, "counter", U64)

Geo0 == [lat_udeg |-> 0, lon_udeg |-> 0, acc_mm |-> 0]
Geos ==
  Varied(Geo0, "lat_udeg", Signed(I32Max)) \cup Varied(Geo0, "lon_udeg", Signed(I32Max))
    \cup Varied(Geo0, "acc_mm", UpTo(Greatest[4]))

Note(t) == [variant |-> 0, text |-> t]
Voice(t, b) == [variant |-> 1, transcript |-> t, audio |-> b]
Media(b, k, c) == [variant |-> 2, blob |-> b, kind |-> k, caption |-> c]
Sensor(s, m, x) == [variant |-> 4, source |-> s, mantissa |-> m, exponent |-> x]
Presence(a, z, e) == [variant |-> 5, actor |-> a, zone |-> z, event |-> e]

PlainBodies ==
  {Note(0), Voice(0, 0), Media(0, 0, None), Media(0, 0, 0), Sensor(0, 0, 0),
   Presence(0, 0, "Enter")}
Bodies ==
  {Note(t) : t \in Rank} \cup {Voice(t, b) : t, b \in Rank}
    \cup {Media(b, 0, c) : b \in Rank, c \in Rank \cup {None}}
    \cup {Media(0, k, c) : k \in U64, c \in {None, 0}}
    \cup {Sensor(s, 0, 0) : s \in Rank}
    \cup {Sensor(0, i, 0) : i \in Signed(I64Max)} \cup {Sensor(0, 0, i) : i \in Signed(I64Max)}
    \cup {Presence(a, z, e) : a, z \in Rank, e \in {"Enter", "Exit"}}

PlainObservations ==
  [author : {0}, site : {0}, prev : {None, 0}, seq : {0}, hlc : {Hlc0},
   body : PlainBodies, geo : {None, Geo0}, acks : {{}, {0}}]
Observations ==
  UNION {Varied(o, "author", Rank) \cup Varied(o, "site", Rank)
           \cup Varied(o, "prev", Rank) \cup Varied(o, "seq", U64)
           \cup Varied(o, "hlc", Hlcs) \cup Varied(o, "body", Bodies)
           \cup Varied(o, "geo", Geos) \cup Varied(o, "acks", SUBSET Rank) :
         o \in PlainObservations}

Attestation0 ==
  [witness |-> 0, subject |-> 0, subject_head |-> 0, subject_seq |-> 0,
   witness_hlc |-> Hlc0, nonce |-> 0]
Attestations ==
  (UNION {Varied(Attestation0, f, Rank) : f \in {"witness", "subject", "subject_head", "nonce"}})
    \cup Varied(Attestation0, "subject_seq", U64) \cup Varied(Attestation0, "witness_hlc", Hlcs)

\* A VersionVector: the frontier maps some keys to a sequence number.
Frontiers == (UNION {[K -> {0}] : K \in SUBSET Rank}) \cup [{0} -> U64]
PlainCheckpoints ==
  [node : {0}, head : {0}, seq : {0}, hlc : {Hlc0}, frontier : [{} -> {0}] \cup [{0} -> {0}]]
Checkpoints ==
  UNION {Varied(c, "node", Rank) \cup Varied(c, "head", Rank) \cup Varied(c, "seq", U64)
           \cup Varied(c, "hlc", Hlcs) \cup Varied(c, "frontier", Frontiers) :
         c \in PlainCheckpoints}

PlainBlobs == [size : {0}, chunks : UNION {[1 .. n -> {0}] : n \in Listed}, mime : {0}]
BlobManifests ==
  UNION {Varied(m, "size", U64) \cup Varied(m, "mime", Rank)
           \cup Varied(m, "chunks", [DOMAIN m.chunks -> Rank]) : m \in PlainBlobs}

Entry0 == [preimage |-> [length |-> 0, rank |-> 0], sig |-> 0]
ForkEntries ==
  Varied(Entry0, "sig", Rank)
    \cup Varied(Entry0, "preimage", {Entry0.preimage} \cup [length : Length \ {0}, rank : Rank])
ForkProof0 == [key |-> 0, a |-> Entry0, b |-> Entry0]
ForkProofs ==
  Varied(ForkProof0, "key", Rank)
    \cup Varied(ForkProof0, "a", ForkEntries) \cup Varied(ForkProof0, "b", ForkEntries)

\* A carried object is its id, which stands for its preimage too, whatever
\* string that is; the parts of a pack map ids to signatures.
PreimageId == {2 * length + rank : length \in Length, rank \in {0, 1} \cap Rank} \ {1}
UpToTwo == UNION {kSubset(n, PreimageId) : n \in 0 .. 2}
Carried == (UNION {[K -> {0}] : K \in UpToTwo}) \cup [{64} -> Rank]

PlainPacks ==
  [org : {0}, observations : [{} -> {0}], attestations : [{} -> {0}],
   fork_proofs : {{}, {64}}, claims : SUBSET Rank]
Packs ==
  UNION {Varied(p, "org", Rank) \cup Varied(p, "observations", Carried)
           \cup Varied(p, "attestations", Carried) \cup Varied(p, "fork_proofs", UpToTwo) :
         p \in PlainPacks}

-----------------------------------------------------------------------------
\* All the values of each struct: U64, i32 coordinates, i64 readings, and any
\* hash, text or list.
AnyHlc == [wall_ms : U64, counter : U64]
AnyGeo == [lat_udeg : Signed(I32Max), lon_udeg : Signed(I32Max), acc_mm : UpTo(Greatest[4])]

AnyBody ==
  {Note(t) : t \in Rank} \cup {Voice(t, b) : t, b \in Rank}
    \cup {Media(b, k, c) : b \in Rank, k \in U64, c \in Rank \cup {None}}
    \cup {Sensor(s, m, x) : s \in Rank, m, x \in Signed(I64Max)}
    \cup {Presence(a, z, e) : a, z \in Rank, e \in {"Enter", "Exit"}}

AnyObservation ==
  [author : Rank, site : Rank, prev : Rank \cup {None}, seq : U64, hlc : AnyHlc,
   body : AnyBody, geo : AnyGeo \cup {None}, acks : SUBSET Rank]

AnyAttestation ==
  [witness : Rank, subject : Rank, subject_head : Rank, subject_seq : U64,
   witness_hlc : AnyHlc, nonce : Rank]

AnyFrontier == UNION {[K -> U64] : K \in SUBSET Rank}
AnyCheckpoint == [node : Rank, head : Rank, seq : U64, hlc : AnyHlc, frontier : AnyFrontier]
AnyBlob == [size : U64, chunks : Seq(Rank), mime : Rank]

AnyEntry == [preimage : [length : Length, rank : Rank], sig : Rank]
AnyForkProof == [key : Rank, a : AnyEntry, b : AnyEntry]

AnyObject(type) ==
  CASE type = "observation" -> AnyObservation
    [] type = "attestation" -> AnyAttestation
    [] type = "checkpoint" -> AnyCheckpoint
    [] type = "blob" -> AnyBlob
    [] type = "forkproof" -> AnyForkProof

\* The value of an absent field is none of those that are there.
ASSUME NoneAssumption == None \notin Rank /\ None \notin AnyGeo

-----------------------------------------------------------------------------
\* encode_fields of each object, each field under its number.

Hash(rank) == WriteBytes(32, rank)

WriteHlc(h) == WriteArray(<<WriteUint(h.wall_ms), WriteUint(h.counter)>>)
WriteGeo(g) == WriteArray(<<WriteInt(g.lat_udeg), WriteInt(g.lon_udeg), WriteUint(g.acc_mm)>>)

\* MapWriter::optional: field k is written if there is a value.
Optional(value, k) == IF value = None THEN {} ELSE {k}

\* A list that is empty is no field.
NotEmpty(list, k) == IF list = {} THEN {} ELSE {k}

BodyFields(b) ==
  CASE b.variant = 0 -> <<WriteText(b.text, b.text)>>
    [] b.variant = 1 -> <<WriteText(b.transcript, b.transcript), Hash(b.audio)>>
    [] b.variant = 2 -> [k \in {1, 2} \cup Optional(b.caption, 3) |->
                            CASE k = 1 -> Hash(b.blob)
                              [] k = 2 -> WriteUint(b.kind)
                              [] k = 3 -> WriteText(b.caption, b.caption)]
    [] b.variant = 4 -> <<WriteBytes(16, b.source),
                          WriteArray(<<WriteInt(b.mantissa), WriteInt(b.exponent)>>)>>
    [] b.variant = 5 -> <<WriteBytes(16, b.actor), WriteBytes(16, b.zone),
                          WriteUint(IF b.event = "Enter" THEN 0 ELSE 1)>>

WriteBody(b) == WriteArray(<<WriteUint(b.variant), WriteFields(BodyFields(b))>>)

\* Genesis is a string of length 0, never an absent field.
WritePrev(p) == IF p = None THEN WriteBytes(0, 0) ELSE Hash(p)

Hashes(seqOfRanks) == WriteArray([n \in DOMAIN seqOfRanks |-> Hash(seqOfRanks[n])])

ObservationFields(o) ==
  [k \in 1 .. 6 \cup Optional(o.geo, 7) \cup NotEmpty(o.acks, 8) |->
    CASE k = 1 -> Hash(o.author)
      [] k = 2 -> WriteBytes(16, o.site)
      [] k = 3 -> WritePrev(o.prev)
      [] k = 4 -> WriteUint(o.seq)
      [] k = 5 -> WriteHlc(o.hlc)
      [] k = 6 -> WriteBody(o.body)
      [] k = 7 -> WriteGeo(o.geo)
      [] k = 8 -> Hashes(InOrder(o.acks))]

AttestationFields(a) ==
  <<Hash(a.witness), Hash(a.subject), Hash(a.subject_head), WriteUint(a.subject_seq),
    WriteHlc(a.witness_hlc), WriteBytes(16, a.nonce)>>

CheckpointFields(c) ==
  <<Hash(c.node), Hash(c.head), WriteUint(c.seq), WriteHlc(c.hlc),
    WriteMap([k \in DOMAIN c.frontier |-> WriteUint(c.frontier[k])],
             [k \in DOMAIN c.frontier |-> Hash(k)])>>

BlobFields(m) == <<WriteUint(m.size), Hashes(m.chunks), WriteText(m.mime, m.mime)>>

WriteForkEntry(e) ==
  WriteArray(<<WriteBytes(e.preimage.length, e.preimage.rank), WriteBytes(64, e.sig)>>)

ForkProofFields(p) == <<Hash(p.key), WriteForkEntry(p.a), WriteForkEntry(p.b)>>

-----------------------------------------------------------------------------
\* encode_pack.

\* A preimage in a pack, as the string it is.
Preimage(id) == WriteBytes(id \div 2, id % 2)

WriteCarried(parts) ==
  WriteArray([n \in 1 .. Cardinality(DOMAIN parts) |->
    LET id == InOrder(DOMAIN parts)[n]
    IN  WriteArray(<<Preimage(id), WriteBytes(64, parts[id])>>)])

Preimages(ids) == WriteArray([n \in 1 .. Cardinality(ids) |-> Preimage(InOrder(ids)[n])])

PackFields(p) ==
  [k \in {1, 2, 3, 4, 6} \cup NotEmpty(p.fork_proofs, 5) |->
    CASE k = 1 -> WriteUint(1)
      [] k = 2 -> Hash(p.org)
      [] k = 3 -> WriteCarried(p.observations)
      [] k = 4 -> WriteCarried(p.attestations)
      [] k = 5 -> Preimages(p.fork_proofs)
      [] k = 6 -> Hashes(InOrder(p.claims))]

-----------------------------------------------------------------------------
\* Object::preimage and the pack file: the tag, and the map.

Values(type) ==
  CASE type = "observation" -> Observations
    [] type = "attestation" -> Attestations
    [] type = "checkpoint" -> Checkpoints
    [] type = "blob" -> BlobManifests
    [] type = "forkproof" -> ForkProofs
    [] type = "pack" -> Packs
    [] type = "verified pack" -> {p \in Packs : p.org = 0}

EncodeFields(type, v) ==
  CASE type = "observation" -> ObservationFields(v)
    [] type = "attestation" -> AttestationFields(v)
    [] type = "checkpoint" -> CheckpointFields(v)
    [] type = "blob" -> BlobFields(v)
    [] type = "forkproof" -> ForkProofFields(v)
    [] OTHER -> PackFields(v)

Encode(type, v) ==
  <<Item(TAG(type), 0, 0, 0)>> \o WriteFields(EncodeFields(type, v))

-----------------------------------------------------------------------------
\* decode_fields of each object, as what it expects under each number.

ReadHash == BytesOf({32})
ReadHlc == Tuple(<<Uint, Uint>>)
ReadGeo == Tuple(<<IntUpTo(I32Max), IntUpTo(I32Max), UintIn(0, Greatest[4])>>)

\* ObservationBody::decode; variants 3 and 6 are named and not specified.
ReadBody ==
  Union([v \in {0, 1, 2, 4, 5} |->
    CASE v = 0 -> Fields({1}, <<Text>>)
      [] v = 1 -> Fields({1, 2}, <<Text, ReadHash>>)
      [] v = 2 -> Fields({1, 2}, <<ReadHash, Uint, Text>>)
      [] v = 4 -> Fields({1, 2}, <<BytesOf({16}), Tuple(<<IntUpTo(I64Max), IntUpTo(I64Max)>>)>>)
      [] v = 5 -> Fields({1, 2, 3}, <<BytesOf({16}), BytesOf({16}), UintIn(0, 1)>>)])

\* read_acks: strictly ascending, and not empty.
ReadAcks == Ascending(1)

ObservationReader ==
  Fields(1 .. 6, <<ReadHash, BytesOf({16}), BytesOf({0, 32}), Uint, ReadHlc, ReadBody,
                   ReadGeo, ReadAcks>>)
AttestationReader ==
  Fields(1 .. 6, <<ReadHash, ReadHash, ReadHash, Uint, ReadHlc, BytesOf({16})>>)
CheckpointReader == Fields(1 .. 5, <<ReadHash, ReadHash, Uint, ReadHlc, Table>>)
BlobReader == Fields(1 .. 3, <<Uint, Array(ReadHash), Text>>)
ReadForkEntry == Tuple(<<AnyBytes, BytesOf({64})>>)
ForkProofReader == Fields(1 .. 3, <<ReadHash, ReadForkEntry, ReadForkEntry>>)

\* parse_pack of vigil-ledger: the claims in any order.
PackReader ==
  Fields({1, 2, 3, 4, 6},
         <<UintIn(1, 1), ReadHash, Array(ReadForkEntry), Array(ReadForkEntry),
           Array(AnyBytes), Array(ReadHash)>>)

\* parse_pack of vigil-verify: the organisation asked for (of rank 0), and the
\* claims strictly ascending.
VerifierReader ==
  Fields({1, 2, 3, 4, 6},
         <<UintIn(1, 1), TheBytes(32, 0), Array(ReadForkEntry), Array(ReadForkEntry),
           Array(AnyBytes), Ascending(0)>>)

Reader(type) ==
  CASE type = "observation" -> ObservationReader
    [] type = "attestation" -> AttestationReader
    [] type = "checkpoint" -> CheckpointReader
    [] type = "blob" -> BlobReader
    [] type = "forkproof" -> ForkProofReader
    [] type = "pack" -> PackReader
    [] type = "verified pack" -> VerifierReader
-----------------------------------------------------------------------------
(***************************************************************************)
(* What decode_fields makes of the fields it has read: F holds, under each *)
(* key, the items of that field.                                           *)
(***************************************************************************)
IntIn(item) == IF item.major = "negint" THEN -1 - item.arg ELSE item.arg
HlcIn(w) == [wall_ms |-> w[2].arg, counter |-> w[3].arg]
GeoIn(w) == [lat_udeg |-> IntIn(w[2]), lon_udeg |-> IntIn(w[3]), acc_mm |-> w[4].arg]
PrevIn(w) == IF w[1].arg = 0 THEN None ELSE w[1].content

\* An array of the variant and a map: its keys are the items 4, 6 and 8.
BodyIn(w) ==
  LET variant == w[2].arg
  IN  CASE variant = 0 -> Note(w[5].content)
        [] variant = 1 -> Voice(w[5].content, w[7].content)
        [] variant = 2 -> Media(w[5].content, w[7].arg,
                                IF w[3].arg = 3 THEN w[9].content ELSE None)
        [] variant = 4 -> Sensor(w[5].content, IntIn(w[8]), IntIn(w[9]))
        [] variant = 5 -> Presence(w[5].content, w[7].content,
                                   IF w[9].arg = 0 THEN "Enter" ELSE "Exit")

HashesIn(w) == [n \in 1 .. Len(w) - 1 |-> w[n + 1].content]
AcksIn(w) == {HashesIn(w)[n] : n \in 1 .. Len(w) - 1}

\* The rows of a table, in pairs of a key and its number.
FrontierIn(w) ==
  LET rows == 1 .. Len(w) \div 2
  IN  [key \in {w[2 * n].content : n \in rows} |->
        w[2 * (CHOOSE n \in rows : w[2 * n].content = key) + 1].arg]

EntryIn(w) == [preimage |-> [length |-> w[2].arg, rank |-> w[2].content], sig |-> w[3].content]

Value(type, F) ==
  CASE type = "observation" ->
         [author |-> F[1][1].content, site |-> F[2][1].content, prev |-> PrevIn(F[3]),
          seq |-> F[4][1].arg, hlc |-> HlcIn(F[5]), body |-> BodyIn(F[6]),
          geo |-> IF 7 \in DOMAIN F THEN GeoIn(F[7]) ELSE None,
          acks |-> IF 8 \in DOMAIN F THEN AcksIn(F[8]) ELSE {}]
    [] type = "attestation" ->
         [witness |-> F[1][1].content, subject |-> F[2][1].content,
          subject_head |-> F[3][1].content, subject_seq |-> F[4][1].arg,
          witness_hlc |-> HlcIn(F[5]), nonce |-> F[6][1].content]
    [] type = "checkpoint" ->
         [node |-> F[1][1].content, head |-> F[2][1].content, seq |-> F[3][1].arg,
          hlc |-> HlcIn(F[4]), frontier |-> FrontierIn(F[5])]
    [] type = "blob" ->
         [size |-> F[1][1].arg, chunks |-> HashesIn(F[2]), mime |-> F[3][1].content]
    [] type = "forkproof" ->
         [key |-> F[1][1].content, a |-> EntryIn(F[2]), b |-> EntryIn(F[3])]
=============================================================================
