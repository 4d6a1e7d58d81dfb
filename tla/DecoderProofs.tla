---------------------------- MODULE DecoderProofs ----------------------------
(***************************************************************************)
(* The decoder, proved item by item: what was written is never refused and *)
(* decodes to what it was written for, and what is accepted for an object, *)
(* whoever sent it, is the one encoding of the object it decodes to.       *)
(***************************************************************************)
EXTENDS Decoder, CodecProofs

-----------------------------------------------------------------------------
(***************************************************************************)
(* The reader, step by step, whatever the input.                           *)
(***************************************************************************)

LEMMA AppendIsJoin ==
  ASSUME NEW s, IsSequence(s), NEW a
  PROVE  Append(s, a) = s \o <<a>>
<1>1. PICK S : s \in Seq(S)
  BY DEF IsSequence
<1>2. s \in Seq(S \cup {a}) /\ <<a>> \in Seq(S \cup {a})
  BY <1>1, SeqMonotonic
<1> QED
  BY <1>2

\* The reader of each kind is that of a map, and what its map opens is known.
LEMMA ReaderIsFields ==
  ASSUME NEW type \in Type
  PROVE  /\ Reader(type).is = "fields"
         /\ Reader(type) = Fields(Reader(type).need, Reader(type).of)
<1> DEFINE IsMap(r) == r.is = "fields" /\ r = Fields(r.need, r.of)
<1>1. \A need, of : IsMap(Fields(need, of))
  BY DEF Fields
<1>2. \A need, of, r : r = Fields(need, of) => IsMap(r)
  BY <1>1
<1> HIDE DEF IsMap
<1>3. /\ IsMap(ObservationReader) /\ IsMap(AttestationReader) /\ IsMap(CheckpointReader)
      /\ IsMap(BlobReader) /\ IsMap(ForkProofReader) /\ IsMap(PackReader)
      /\ IsMap(VerifierReader)
  BY <1>2 DEF ObservationReader, AttestationReader, CheckpointReader, BlobReader,
     ForkProofReader, PackReader, VerifierReader
<1>4. type \in {"observation", "attestation", "checkpoint", "blob", "forkproof",
                "pack", "verified pack"}
  BY CodecAssumption
<1>5. \/ Reader(type) = ObservationReader \/ Reader(type) = AttestationReader
      \/ Reader(type) = CheckpointReader \/ Reader(type) = BlobReader
      \/ Reader(type) = ForkProofReader \/ Reader(type) = PackReader
      \/ Reader(type) = VerifierReader
  BY <1>4 DEF Reader
<1>6. IsMap(Reader(type))
  BY <1>3, <1>5
<1> QED
  BY <1>6 DEF IsMap

\* What is expected of the field under key k, of which F[k] is read: the highest
\* key's field is the one being read.
Rest(F, ahead, k) == IF k = Max(DOMAIN F) THEN ahead ELSE <<>>

\* What is read of each field begins what its reader reads, if what is still
\* expected of it follows.
Begun(R, F, ahead) ==
  \A k \in DOMAIN F :
    /\ IsSequence(F[k])
    /\ \A x : IsSequence(x) /\ Readable(Rest(F, ahead, k), x)
                => Readable(<<R.of[k]>>, F[k] \o x)

\* Before anything is read.
AtTag ==
  /\ input = <<>> /\ fields = <<>> /\ inner = <<>>
  /\ todo = <<Domain(TAG(kind)), Reader(kind)>>

\* After the domain tag.
AtMap(tag) ==
  /\ Accepts(Domain(TAG(kind)), tag) /\ (written = <<>> => tag \in Items)
  /\ input = <<tag>> /\ fields = <<>> /\ inner = <<>> /\ todo = <<Reader(kind)>>

\* After the map's head: the keys and fields read, under heads of their own, are
\* those `fields` holds, and as many are left as the map's head says.
AtFields(tag, map, heads, left) ==
  /\ Accepts(Domain(TAG(kind)), tag) /\ Accepts(Reader(kind), map)
  /\ left \in Nat /\ map.arg = left + Cardinality(DOMAIN fields)
  /\ todo = Keys(Reader(kind), left, DOMAIN fields)
  /\ DOMAIN fields \in SUBSET Nat /\ IsFiniteSet(DOMAIN fields)
  /\ DOMAIN fields \subseteq DOMAIN Reader(kind).of
  /\ \A k \in DOMAIN fields : heads[k].arg = k /\ heads[k].major = "uint" /\ HeadOk(heads[k])
  /\ input = <<tag>> \o (<<map>> \o Body(heads, fields))
  /\ IsSequence(inner) /\ (inner # <<>> => DOMAIN fields # {})
  /\ Begun(Reader(kind), fields, inner)
  /\ written = <<>> => /\ tag \in Items /\ map \in Items
                       /\ \A k \in DOMAIN fields : heads[k] \in Items /\ fields[k] \in Seq(Items)

ReaderInv ==
  /\ kind \in Type
  /\ AtTag \/ (\E tag : AtMap(tag)) \/ \E tag, map, heads, left : AtFields(tag, map, heads, left)
  /\ verdict = "accepted" => Finished

LEMMA ReaderStarts == DecoderInit => ReaderInv
  BY CodecAssumption DEF DecoderInit, ReaderInv, AtTag

\* What taking an item says of it.
LEMMA TakenItem ==
  ASSUME NEW item, Take(item)
  PROVE  /\ Accepts(Expected, item) /\ input' = Append(input, item)
         /\ kind' = kind /\ written' = written /\ verdict' = verdict /\ verdict = "reading"
         /\ value' = value /\ item \in Offered /\ (written = <<>> => item \in Items)
  BY DEF Take, Offered

\* A map's keys, of which some are left.
LEMMA KeysAhead ==
  ASSUME NEW R, NEW left \in Nat, NEW read
  PROVE  /\ left > 0 => Keys(R, left, read)
                          = <<[is |-> "key", fields |-> R, left |-> left, read |-> read]>>
         /\ left = 0 => Keys(R, left, read) = IF R.need \subseteq read THEN <<>> ELSE <<Missing>>
         /\ IsSequence(Keys(R, left, read))
  BY OneIsSequence, EmptyIsSequence DEF Keys

\* The domain tag and the map's head.
LEMMA HeadRead ==
  ASSUME ReaderInv, ReadHead
  PROVE  ReaderInv'
<1>1. inner = <<>> /\ todo # <<>> /\ Expected = Head(todo) /\ Expected.is # "key"
  BY DEF ReadHead, Expected
<1>2. PICK item : Take(item) /\ todo' = Opens(Expected, item) \o Tail(todo)
  BY DEF ReadHead
<1>3. inner' = inner /\ fields' = fields
  BY DEF ReadHead
<1>4. /\ Accepts(Expected, item) /\ input' = Append(input, item)
      /\ kind' = kind /\ written' = written /\ verdict' = verdict /\ verdict = "reading"
      /\ (written = <<>> => item \in Items)
  BY <1>2, TakenItem
<1>5. kind \in Type
  BY DEF ReaderInv
<1>6. CASE AtTag
  <2>1. Expected = Domain(TAG(kind)) /\ Tail(todo) = <<Reader(kind)>>
    <3> DEFINE a == Domain(TAG(kind))
               b == Reader(kind)
    <3>1. todo = <<a, b>>
      BY <1>6 DEF AtTag
    <3> HIDE DEF a, b
    <3>2. Head(todo) = a /\ Tail(todo) = <<b>>
      BY <3>1
    <3> QED
      BY <1>1, <3>2 DEF a, b
  <2>2. Opens(Expected, item) = <<>>
    BY <2>1 DEF Opens, Domain
  <2>3. todo' = <<Reader(kind)>>
    BY <1>2, <2>1, <2>2, OneIsSequence, JoinEmpty
  <2>4. input' = <<item>>
    BY <1>4, <1>6 DEF AtTag
  <2>5. AtMap(item)'
    BY <1>3, <1>4, <1>6, <2>1, <2>3, <2>4 DEF AtMap, AtTag
  <2> QED
    BY <1>4, <1>5, <2>5 DEF ReaderInv
<1>7. CASE \E tag : AtMap(tag)
  <2>1. PICK tag : AtMap(tag)
    BY <1>7
  <2>2. todo = <<Reader(kind)>> /\ input = <<tag>> /\ fields = <<>> /\ inner = <<>>
    BY <2>1 DEF AtMap
  <2>3. Expected = Reader(kind) /\ Tail(todo) = <<>>
    BY <1>1, <2>2
  <2>4. Opens(Expected, item) = Keys(Reader(kind), item.arg, {})
    BY <1>5, <2>3, ReaderIsFields DEF Opens
  <2>5. item.arg \in Nat
    BY <1>4 DEF Accepts, HeadOk
  <2>6. todo' = Keys(Reader(kind), item.arg, {})
    <3> DEFINE K == Keys(Reader(kind), item.arg, {})
    <3>1. IsSequence(K)
      BY <2>5, KeysAhead
    <3>2. todo' = K \o <<>>
      BY <1>2, <2>3, <2>4
    <3> HIDE DEF K
    <3>3. todo' = K
      BY <3>1, <3>2, JoinEmpty
    <3> QED
      BY <3>3 DEF K
  <2>7. /\ DOMAIN fields = {} /\ IsFiniteSet(DOMAIN fields) /\ Cardinality(DOMAIN fields) = 0
    BY <2>2, FS_EmptySet
  <2>8. Body(<<>>, fields) = <<>>
    BY <2>7, JointSteps DEF Body
  <2>9. input' = <<tag>> \o (<<item>> \o Body(<<>>, fields))
    <3>1. input' = <<tag>> \o <<item>>
      BY <1>4, <2>2, OneIsSequence, AppendIsJoin
    <3>2. <<item>> \o <<>> = <<item>>
      BY OneIsSequence, JoinEmpty
    <3> QED
      BY <2>8, <3>1, <3>2
  <2>10. AtFields(tag, item, <<>>, item.arg)'
    <3>1. Accepts(Domain(TAG(kind)), tag) /\ (written = <<>> => tag \in Items)
      BY <2>1 DEF AtMap
    <3>2. Accepts(Reader(kind), item)
      BY <1>4, <2>3
    <3>3. Begun(Reader(kind), fields, inner)
      BY <2>7 DEF Begun
    <3>4. IsSequence(inner)
      BY <2>2, EmptyIsSequence
    <3>5. kind' = kind /\ written' = written /\ inner' = inner /\ fields' = fields
      BY <1>3, <1>4
    <3>6. /\ Accepts(Domain(TAG(kind')), tag) /\ Accepts(Reader(kind'), item)
          /\ todo' = Keys(Reader(kind'), item.arg, DOMAIN fields')
          /\ Begun(Reader(kind'), fields', inner')
          /\ input' = <<tag>> \o (<<item>> \o Body(<<>>, fields'))
      BY <2>6, <2>7, <2>9, <3>1, <3>2, <3>3, <3>5
    <3>7. /\ DOMAIN fields' = {} /\ IsFiniteSet(DOMAIN fields') /\ Cardinality(DOMAIN fields') = 0
          /\ IsSequence(inner') /\ inner' = <<>>
      BY <2>2, <2>7, <3>4, <3>5
    <3>8. written' = <<>> => tag \in Items /\ item \in Items
      BY <1>4, <3>1, <3>5
    <3>9. item.arg = item.arg + Cardinality(DOMAIN fields')
      BY <2>5, <3>7
    <3> QED
      BY <2>5, <3>6, <3>7, <3>8, <3>9 DEF AtFields
  <2> QED
    BY <1>4, <1>5, <2>10 DEF ReaderInv
<1>8. CASE \E tag, map, heads, left : AtFields(tag, map, heads, left)
  <2>1. PICK left \in Nat : todo = Keys(Reader(kind), left, DOMAIN fields)
    BY <1>8 DEF AtFields
  <2>2. left = 0
    <3> SUFFICES ASSUME left > 0 PROVE FALSE
      OBVIOUS
    <3>1. todo = <<[is |-> "key", fields |-> Reader(kind), left |-> left, read |-> DOMAIN fields]>>
      BY <2>1, KeysAhead
    <3>2. Expected = [is |-> "key", fields |-> Reader(kind), left |-> left, read |-> DOMAIN fields]
      BY <1>1, <3>1
    <3> QED
      BY <1>1, <3>2
  <2>3. todo = <<Missing>>
    BY <1>1, <2>1, <2>2, KeysAhead
  <2>4. Expected = Missing
    BY <1>1, <2>3
  <2>5. item.major \in Wanted["missing"]
    BY <1>4, <2>4 DEF Accepts, Missing
  <2> QED
    BY <2>5 DEF Wanted
<1> QED
  BY <1>6, <1>7, <1>8 DEF ReaderInv

\* Another key: its field is still to be read.
LEMMA BegunNext ==
  ASSUME NEW R, NEW F, DOMAIN F \in SUBSET Nat, IsFiniteSet(DOMAIN F), Begun(R, F, <<>>),
         NEW k \in Nat, \A j \in DOMAIN F : k > j, NEW G, DOMAIN G = DOMAIN F \cup {k},
         G[k] = <<>>, \A j \in DOMAIN F : G[j] = F[j]
  PROVE  Begun(R, G, <<R.of[k]>>)
<1>1. Max(DOMAIN G) = k
  <2>1. DOMAIN G \in SUBSET Nat /\ IsFiniteSet(DOMAIN G) /\ DOMAIN G # {} /\ k \in DOMAIN G
    <3> DEFINE D == DOMAIN F
    <3> HIDE DEF D
    <3>1. IsFiniteSet(D \cup {k})
      BY FS_AddElement DEF D
    <3> QED
      BY <3>1 DEF D
  <2>2. Max(DOMAIN G) \in DOMAIN G /\ \A j \in DOMAIN G : j <= Max(DOMAIN G)
    BY <2>1, LargestExists
  <2> DEFINE top == Max(DOMAIN G)
  <2> HIDE DEF top
  <2>3. k <= top /\ (top = k \/ k > top) /\ top \in Nat
    BY <2>1, <2>2 DEF top
  <2> QED
    BY <2>3 DEF top
<1> SUFFICES ASSUME NEW j \in DOMAIN G
             PROVE  /\ IsSequence(G[j])
                    /\ \A x : IsSequence(x) /\ Readable(Rest(G, <<R.of[k]>>, j), x)
                                => Readable(<<R.of[j]>>, G[j] \o x)
  BY DEF Begun
<1>2. CASE j = k
  BY <1>1, <1>2, EmptyIsSequence, JoinEmpty DEF Rest
<1>3. CASE j # k
  <2>1. j \in DOMAIN F /\ G[j] = F[j] /\ Rest(G, <<R.of[k]>>, j) = <<>> /\ Rest(F, <<>>, j) = <<>>
    BY <1>1, <1>3 DEF Rest
  <2> QED
    BY <2>1 DEF Begun
<1> QED
  BY <1>2, <1>3

\* Another item of the field being read.
LEMMA BegunGrows ==
  ASSUME NEW R, NEW F, DOMAIN F \in SUBSET Nat, IsFiniteSet(DOMAIN F), DOMAIN F # {},
         NEW ahead, ahead # <<>>, IsSequence(ahead), Begun(R, F, ahead),
         NEW item, Accepts(Head(ahead), item), NEW G, DOMAIN G = DOMAIN F,
         G[Max(DOMAIN F)] = F[Max(DOMAIN F)] \o <<item>>,
         \A j \in DOMAIN F : j # Max(DOMAIN F) => G[j] = F[j]
  PROVE  Begun(R, G, Opens(Head(ahead), item) \o Tail(ahead))
<1> DEFINE top == Max(DOMAIN F)
           next == Opens(Head(ahead), item) \o Tail(ahead)
<1>1. top \in DOMAIN F /\ Max(DOMAIN G) = top
  BY LargestExists
<1>2. G[top] = F[top] \o <<item>> /\ \A j \in DOMAIN F : j # top => G[j] = F[j]
  OBVIOUS
<1> HIDE DEF top
<1> SUFFICES ASSUME NEW j \in DOMAIN G
             PROVE  /\ IsSequence(G[j])
                    /\ \A x : IsSequence(x) /\ Readable(Rest(G, next, j), x)
                                => Readable(<<R.of[j]>>, G[j] \o x)
  BY DEF Begun
<1>3. IsSequence(F[j])
  BY DEF Begun
<1>4. CASE j = top
  <2>1. IsSequence(G[j])
    BY <1>2, <1>3, <1>4, OneIsSequence, JoinIsSequence
  <2> SUFFICES ASSUME NEW x, IsSequence(x), Readable(Rest(G, next, j), x)
               PROVE  Readable(<<R.of[j]>>, G[j] \o x)
    BY <2>1
  <2>2. Readable(next, x)
    BY <1>1, <1>4 DEF Rest
  <2>3. Readable(ahead, <<item>> \o x) /\ IsSequence(<<item>> \o x)
    BY <2>2, ReadableBefore, OneIsSequence, JoinIsSequence
  <2>4. Rest(F, ahead, j) = ahead
    BY <1>4 DEF Rest, top
  <2> DEFINE a == <<item>>
             b == F[j]
  <2> HIDE DEF a
  <2>5. Readable(<<R.of[j]>>, b \o (a \o x))
    BY <2>3, <2>4 DEF Begun, a
  <2>6. IsSequence(a) /\ IsSequence(b) /\ G[j] = b \o a
    BY <1>2, <1>3, <1>4, OneIsSequence DEF a
  <2> HIDE DEF b
  <2>7. (b \o a) \o x = b \o (a \o x)
    <3>1. IsSequence(a) /\ IsSequence(b) /\ IsSequence(x)
      BY <2>6
    <3> QED
      BY ONLY <3>1, JoinAssociates
  <2> QED
    BY <2>5, <2>6, <2>7
<1>5. CASE j # top
  <2>1. G[j] = F[j] /\ Rest(G, next, j) = <<>> /\ Rest(F, ahead, j) = <<>>
    BY <1>1, <1>2, <1>5 DEF Rest, top
  <2> QED
    BY <2>1 DEF Begun
<1> QED
  BY <1>4, <1>5

\* A key.
LEMMA KeyRead ==
  ASSUME ReaderInv, ReadKey
  PROVE  ReaderInv'
<1>1. inner = <<>> /\ todo # <<>> /\ Expected = Head(todo) /\ Expected.is = "key"
  BY DEF ReadKey, Expected
<1>2. PICK item : /\ Take(item) /\ inner' = <<Head(Opens(Expected, item))>>
                  /\ todo' = Tail(Opens(Expected, item))
                  /\ fields' = [k \in DOMAIN fields \cup {item.arg} |->
                                  IF k = item.arg THEN <<>> ELSE fields[k]]
  BY DEF ReadKey
<1>3. /\ Accepts(Expected, item) /\ input' = Append(input, item)
      /\ kind' = kind /\ written' = written /\ verdict' = verdict /\ verdict = "reading"
      /\ (written = <<>> => item \in Items)
  BY <1>2, TakenItem
<1>4. kind \in Type /\ Reader(kind).is = "fields"
  BY ReaderIsFields DEF ReaderInv
<1>5. ~AtTag
  <2> SUFFICES ASSUME AtTag PROVE FALSE
    OBVIOUS
  <2>1. Expected = Domain(TAG(kind))
    <3> DEFINE a == Domain(TAG(kind))
               b == Reader(kind)
    <3>1. todo = <<a, b>>
      BY DEF AtTag
    <3> HIDE DEF a, b
    <3>2. Head(todo) = a
      BY <3>1
    <3> QED
      BY <1>1, <3>2 DEF a
  <2> QED
    BY <1>1, <2>1 DEF Domain
<1>6. ~ \E tag : AtMap(tag)
  <2> SUFFICES ASSUME NEW tag, AtMap(tag) PROVE FALSE
    OBVIOUS
  <2>1. Expected = Reader(kind)
    BY <1>1 DEF AtMap
  <2> QED
    BY <1>1, <1>4, <2>1
<1>7. PICK tag, map, heads, left : AtFields(tag, map, heads, left)
  BY <1>5, <1>6 DEF ReaderInv
<1> DEFINE R == Reader(kind)
           D == DOMAIN fields
           n == item.arg
           G == [k \in D \cup {n} |-> IF k = n THEN <<>> ELSE fields[k]]
           heads2 == [k \in D \cup {n} |-> IF k = n THEN item ELSE heads[k]]
           key == [is |-> "key", fields |-> R, left |-> left, read |-> D]
<1>8. /\ Accepts(Domain(TAG(kind)), tag) /\ Accepts(R, map)
      /\ left \in Nat /\ map.arg = left + Cardinality(D)
      /\ D \in SUBSET Nat /\ IsFiniteSet(D) /\ D \subseteq DOMAIN R.of
      /\ \A k \in D : heads[k].arg = k /\ heads[k].major = "uint" /\ HeadOk(heads[k])
      /\ input = <<tag>> \o (<<map>> \o Body(heads, fields))
      /\ Begun(R, fields, <<>>) /\ \A k \in D : IsSequence(fields[k])
      /\ written = <<>> => /\ tag \in Items /\ map \in Items
                           /\ \A k \in D : heads[k] \in Items /\ fields[k] \in Seq(Items)
  BY <1>1, <1>7 DEF AtFields, Begun
<1>9. left > 0 /\ Expected = key
  <2>0. todo = Keys(R, left, D) /\ left \in Nat
    BY <1>7, <1>8 DEF AtFields
  <2>1. left = 0 => todo = IF R.need \subseteq D THEN <<>> ELSE <<Missing>>
    BY ONLY <2>0, KeysAhead
  <2>2. left > 0 => todo = <<key>>
    BY ONLY <2>0, KeysAhead
  <2>3. ~ (left = 0)
    <3> SUFFICES ASSUME left = 0 PROVE FALSE
      OBVIOUS
    <3>1. todo = <<Missing>>
      BY <1>1, <2>1
    <3>2. Expected = Missing
      BY <1>1, <3>1
    <3> QED
      BY <1>1, <3>2 DEF Missing
  <2> HIDE DEF key
  <2> QED
    BY <1>1, <1>8, <2>2, <2>3
<1>10. /\ item.major = "uint" /\ HeadOk(item) /\ n \in Nat /\ n \in DOMAIN R.of
       /\ \A j \in D : n > j
  <2>1. Accepts(key, item) /\ key.is = "key" /\ key.fields = R /\ key.read = D
    BY <1>3, <1>9
  <2> HIDE DEF key, R, D
  <2>2. item.major \in Wanted["key"] /\ HeadOk(item) /\ n \in DOMAIN R.of /\ After(n, D)
    BY <2>1 DEF Accepts
  <2> QED
    BY <2>2 DEF Wanted, After, HeadOk
<1>11. Opens(Expected, item) = <<R.of[n]>> \o Keys(R, left - 1, D \cup {n})
  BY <1>9 DEF Opens
<1>12. inner' = <<R.of[n]>> /\ todo' = Keys(R, left - 1, D \cup {n})
  <2> DEFINE K == Keys(R, left - 1, D \cup {n})
  <2>1. IsSequence(K)
    <3>1. left - 1 \in Nat
      BY <1>8, <1>9
    <3> QED
      BY ONLY <3>1, KeysAhead
  <2>2. Opens(Expected, item) = <<R.of[n]>> \o K
    BY <1>11
  <2> HIDE DEF K
  <2>3. Head(Opens(Expected, item)) = R.of[n] /\ Tail(Opens(Expected, item)) = K
    BY <2>1, <2>2, JoinOne
  <2> QED
    BY <1>2, <2>3 DEF K
<1>13. fields' = G /\ DOMAIN G = D \cup {n} /\ G[n] = <<>> /\ \A j \in D : G[j] = fields[j]
  BY <1>2, <1>10
<1>14. heads2[n] = item /\ \A j \in D : heads2[j] = heads[j]
  BY <1>10
<1> HIDE DEF G, heads2
<1>140. PICK F, H, h, k :
          /\ F = fields /\ H = G /\ h = heads2 /\ k = n
  OBVIOUS
<1>15. Body(h, H) = Body(heads, F) \o <<item>>
  <2>1. PICK w : w = <<item>>
    OBVIOUS
  <2>2. AddsKey(F, heads, k, w, H, h)
    <3>1. w = <<item>> \o <<>>
      BY <2>1, OneIsSequence, JoinEmpty
    <3>2. w = <<h[k]>> \o H[k] /\ IsSequence(H[k])
      BY <3>1, <1>13, <1>14, <1>140, EmptyIsSequence
    <3> QED
      BY <3>2, <1>8, <1>10, <1>13, <1>14, <1>140 DEF AddsKey
  <2> QED
    BY <2>1, <2>2, BodyNext
<1>16. input' = <<tag>> \o (<<map>> \o Body(h, H))
  <2> DEFINE a == <<tag>>
             b == <<map>>
             c == Body(heads, F)
             d == <<item>>
  <2>1. IsSequence(a) /\ IsSequence(b) /\ IsSequence(c) /\ IsSequence(d)
    <3>1. /\ DOMAIN F \in SUBSET Nat /\ IsFiniteSet(DOMAIN F)
          /\ \A j \in DOMAIN F : IsSequence(F[j])
      BY <1>8, <1>140
    <3>2. IsSequence(Body(heads, F))
      BY ONLY <3>1, PartsOfFields
    <3> QED
      BY <3>2, OneIsSequence
  <2>2. input = a \o (b \o c) /\ input' = Append(input, item) /\ Body(h, H) = c \o d
    BY <1>3, <1>8, <1>15, <1>140
  <2>3. IsSequence(input)
    BY <2>1, <2>2, JoinIsSequence
  <2>4. input' = (a \o (b \o c)) \o d
    BY <2>2, <2>3, AppendIsJoin
  <2> HIDE DEF a, b, c, d
  <2>5. (a \o (b \o c)) \o d = a \o ((b \o c) \o d)
    <3> DEFINE e == b \o c
    <3>1. IsSequence(e)
      BY <2>1, JoinIsSequence
    <3> HIDE DEF e
    <3>2. (a \o e) \o d = a \o (e \o d)
      BY ONLY <2>1, <3>1, JoinAssociates
    <3> QED
      BY <3>2 DEF e
  <2>6. (b \o c) \o d = b \o (c \o d)
    BY <2>1, JoinAssociates
  <2> QED
    BY <2>2, <2>4, <2>5, <2>6 DEF a, b
<1>17. Begun(R, H, <<R.of[n]>>)
  <2>1. PICK reader : reader = R
    OBVIOUS
  <2>2. /\ DOMAIN F \in SUBSET Nat /\ IsFiniteSet(DOMAIN F) /\ Begun(reader, F, <<>>)
        /\ k \in Nat /\ (\A j \in DOMAIN F : k > j)
        /\ DOMAIN H = DOMAIN F \cup {k} /\ H[k] = <<>>
        /\ (\A j \in DOMAIN F : H[j] = F[j])
    BY <1>8, <1>10, <1>13, <1>140, <2>1
  <2>3. Begun(reader, H, <<reader.of[k]>>)
    BY ONLY <2>2, BegunNext
  <2> QED
    BY <1>140, <2>1, <2>3
<1>18. /\ D \cup {n} \in SUBSET Nat /\ IsFiniteSet(D \cup {n})
       /\ Cardinality(D) \in Nat /\ Cardinality(D \cup {n}) = Cardinality(D) + 1
  BY <1>8, <1>10, InOrderNext
<1>19. AtFields(tag, map, h, left - 1)'
  <2>1. left - 1 \in Nat /\ map.arg = (left - 1) + Cardinality(DOMAIN H)
    BY <1>8, <1>9, <1>13, <1>18, <1>140
  <2>2. \A i \in DOMAIN H : h[i].arg = i /\ h[i].major = "uint" /\ HeadOk(h[i])
    BY <1>8, <1>10, <1>13, <1>14, <1>140
  <2>3. written = <<>> => \A i \in DOMAIN H : h[i] \in Items /\ H[i] \in Seq(Items)
    <3> SUFFICES ASSUME written = <<>>, NEW i \in DOMAIN H
                 PROVE  h[i] \in Items /\ H[i] \in Seq(Items)
      OBVIOUS
    <3>1. CASE i = n
      BY <1>3, <1>13, <1>14, <1>140, <3>1, EmptySeq
    <3>2. CASE i \in D
      BY <1>8, <1>13, <1>14, <1>140, <3>2
    <3> QED
      BY <1>13, <1>140, <3>1, <3>2
  <2>4. IsSequence(inner') /\ DOMAIN H # {} /\ DOMAIN H \subseteq DOMAIN R.of
    BY <1>8, <1>10, <1>12, <1>13, <1>140, OneIsSequence
  <2>5. todo' = Keys(R, left - 1, DOMAIN H)
    BY <1>12, <1>13, <1>140
  <2>6. DOMAIN H \in SUBSET Nat /\ IsFiniteSet(DOMAIN H)
    BY <1>13, <1>18, <1>140
  <2>7. Begun(R, H, inner')
    BY <1>12, <1>17
  <2> HIDE DEF D, n
  <2>8. fields' = H /\ kind' = kind /\ written' = written
    BY <1>3, <1>13, <1>140
  <2>9. /\ Accepts(Domain(TAG(kind')), tag) /\ Accepts(Reader(kind'), map)
        /\ left - 1 \in Nat /\ map.arg = (left - 1) + Cardinality(DOMAIN fields')
        /\ todo' = Keys(Reader(kind'), left - 1, DOMAIN fields')
        /\ DOMAIN fields' \in SUBSET Nat /\ IsFiniteSet(DOMAIN fields')
        /\ DOMAIN fields' \subseteq DOMAIN Reader(kind').of
    BY <1>8, <2>1, <2>4, <2>5, <2>6, <2>8
  <2>10. \A i \in DOMAIN fields' :
           h[i].arg = i /\ h[i].major = "uint" /\ HeadOk(h[i])
    BY <2>2, <2>8
  <2>11. input' = <<tag>> \o (<<map>> \o Body(h, fields'))
    BY <1>16, <2>8
  <2>12. IsSequence(inner') /\ DOMAIN fields' # {} /\ Begun(Reader(kind'), fields', inner')
    BY <2>4, <2>7, <2>8
  <2>13. written' = <<>> => /\ tag \in Items /\ map \in Items
                            /\ \A i \in DOMAIN fields' : h[i] \in Items /\ fields'[i] \in Seq(Items)
    BY <1>8, <2>3, <2>8
  <2> QED
    BY ONLY <2>9, <2>10, <2>11, <2>12, <2>13 DEF AtFields
<1> QED
  BY <1>3, <1>4, <1>19 DEF ReaderInv

\* An item of a field.
LEMMA FieldRead ==
  ASSUME ReaderInv, ReadField
  PROVE  ReaderInv'
<1>1. inner # <<>> /\ Expected = Head(inner)
  BY DEF ReadField, Expected
<1>2. PICK item : /\ Take(item) /\ inner' = Opens(Expected, item) \o Tail(inner)
                  /\ fields' = [fields EXCEPT ![Max(DOMAIN fields)] = Append(@, item)]
  BY DEF ReadField
<1>3. /\ Accepts(Expected, item) /\ input' = Append(input, item)
      /\ kind' = kind /\ written' = written /\ verdict' = verdict /\ verdict = "reading"
      /\ (written = <<>> => item \in Items)
  BY <1>2, TakenItem
<1>4. todo' = todo
  BY DEF ReadField
<1>5. PICK tag, map, heads, left : AtFields(tag, map, heads, left)
  BY <1>1 DEF ReaderInv, AtTag, AtMap
<1>6. PICK F, H, R, ahead, next, top, w :
        /\ F = fields /\ H = fields' /\ R = Reader(kind) /\ ahead = inner /\ next = inner'
        /\ top = Max(DOMAIN F) /\ w = <<item>>
  OBVIOUS
<1>7. /\ Accepts(Domain(TAG(kind)), tag) /\ Accepts(R, map)
      /\ left \in Nat /\ map.arg = left + Cardinality(DOMAIN F)
      /\ todo = Keys(R, left, DOMAIN F)
      /\ DOMAIN F \in SUBSET Nat /\ IsFiniteSet(DOMAIN F) /\ DOMAIN F \subseteq DOMAIN R.of
      /\ DOMAIN F # {}
      /\ input = <<tag>> \o (<<map>> \o Body(heads, F))
      /\ IsSequence(ahead) /\ ahead # <<>> /\ Begun(R, F, ahead)
  BY <1>1, <1>5, <1>6 DEF AtFields
<1>8. /\ \A k \in DOMAIN F : heads[k].arg = k /\ heads[k].major = "uint" /\ HeadOk(heads[k])
      /\ \A k \in DOMAIN F : IsSequence(F[k])
      /\ written = <<>> => /\ tag \in Items /\ map \in Items
                           /\ \A k \in DOMAIN F : heads[k] \in Items /\ F[k] \in Seq(Items)
  BY <1>5, <1>6 DEF AtFields, Begun
<1>9. top \in DOMAIN F /\ \A k \in DOMAIN F : k <= top
  BY <1>6, <1>7, LargestExists
<1>10. /\ DOMAIN H = DOMAIN F /\ H[top] = Append(F[top], item)
       /\ \A j \in DOMAIN F : j # top => H[j] = F[j]
  BY <1>2, <1>6, <1>9
<1>11. AddsItem(F, top, w, H)
  BY <1>6, <1>7, <1>8, <1>9, <1>10 DEF AddsItem
<1>12. /\ Body(heads, H) = Body(heads, F) \o w
       /\ H[top] = F[top] \o w /\ \A k \in DOMAIN H : IsSequence(H[k])
  <2>1. Body(heads, H) = Body(heads, F) \o w
    BY ONLY <1>11, BodyGrows
  <2>2. H[top] = F[top] \o w
    BY <1>6, <1>8, <1>9, <1>10, AppendIsJoin
  <2>3. \A k \in DOMAIN H : IsSequence(H[k])
    BY ONLY <1>11, BodyGrows
  <2> QED
    BY <2>1, <2>2, <2>3
<1>13. next = Opens(Head(ahead), item) \o Tail(ahead) /\ Accepts(Head(ahead), item)
  BY <1>1, <1>2, <1>3, <1>6
<1>14. IsSequence(next)
  <2>1. IsSequence(Opens(Head(ahead), item)) /\ IsSequence(Tail(ahead))
    BY <1>7, <1>13, OpensIsSequence, HeadAndTail
  <2> QED
    BY <1>13, <2>1, JoinIsSequence
<1>15. Begun(R, H, next)
  <2>1. /\ DOMAIN F \in SUBSET Nat /\ IsFiniteSet(DOMAIN F) /\ DOMAIN F # {}
        /\ ahead # <<>> /\ IsSequence(ahead) /\ Begun(R, F, ahead)
        /\ Accepts(Head(ahead), item) /\ DOMAIN H = DOMAIN F
        /\ H[Max(DOMAIN F)] = F[Max(DOMAIN F)] \o <<item>>
        /\ \A j \in DOMAIN F : j # Max(DOMAIN F) => H[j] = F[j]
    BY <1>6, <1>7, <1>10, <1>12, <1>13
  <2>2. Begun(R, H, Opens(Head(ahead), item) \o Tail(ahead))
    BY ONLY <2>1, BegunGrows
  <2> QED
    BY <1>13, <2>2
<1>16. input' = <<tag>> \o (<<map>> \o Body(heads, H))
  <2> DEFINE a == <<tag>>
             b == <<map>>
             c == Body(heads, F)
  <2>1. IsSequence(a) /\ IsSequence(b) /\ IsSequence(c) /\ IsSequence(w)
    <3>1. /\ DOMAIN F \in SUBSET Nat /\ IsFiniteSet(DOMAIN F)
          /\ \A j \in DOMAIN F : IsSequence(F[j])
      BY <1>7, <1>8
    <3>2. IsSequence(Body(heads, F))
      BY ONLY <3>1, PartsOfFields
    <3> QED
      BY <1>6, <3>2, OneIsSequence
  <2>2. input = a \o (b \o c) /\ input' = Append(input, item) /\ Body(heads, H) = c \o w
    BY <1>3, <1>7, <1>12
  <2>3. IsSequence(input)
    BY <2>1, <2>2, JoinIsSequence
  <2>4. input' = (a \o (b \o c)) \o w
    BY <1>6, <2>2, <2>3, AppendIsJoin
  <2> HIDE DEF a, b, c
  <2>5. (a \o (b \o c)) \o w = a \o ((b \o c) \o w)
    <3> DEFINE e == b \o c
    <3>1. IsSequence(e)
      BY <2>1, JoinIsSequence
    <3> HIDE DEF e
    <3>2. (a \o e) \o w = a \o (e \o w)
      BY ONLY <2>1, <3>1, JoinAssociates
    <3> QED
      BY <3>2 DEF e
  <2>6. (b \o c) \o w = b \o (c \o w)
    BY <2>1, JoinAssociates
  <2> QED
    BY <2>2, <2>4, <2>5, <2>6 DEF a, b
<1>17. written = <<>> => \A k \in DOMAIN H : heads[k] \in Items /\ H[k] \in Seq(Items)
  <2> SUFFICES ASSUME written = <<>>, NEW k \in DOMAIN H
               PROVE  heads[k] \in Items /\ H[k] \in Seq(Items)
    OBVIOUS
  <2>1. heads[k] \in Items /\ F[k] \in Seq(Items) /\ item \in Items
    BY <1>3, <1>8, <1>10
  <2>2. CASE k = top
    BY <1>10, <2>1, <2>2
  <2>3. CASE k # top
    BY <1>10, <2>1, <2>3
  <2> QED
    BY <2>1, <2>2, <2>3
<1>18. AtFields(tag, map, heads, left)'
  <2>1. fields' = H /\ inner' = next /\ kind' = kind /\ written' = written /\ todo' = todo
        /\ R = Reader(kind')
    BY <1>3, <1>4, <1>6
  <2>2. /\ Accepts(Domain(TAG(kind')), tag) /\ Accepts(Reader(kind'), map)
        /\ left \in Nat /\ map.arg = left + Cardinality(DOMAIN fields')
        /\ todo' = Keys(Reader(kind'), left, DOMAIN fields')
        /\ DOMAIN fields' \in SUBSET Nat /\ IsFiniteSet(DOMAIN fields')
        /\ DOMAIN fields' \subseteq DOMAIN Reader(kind').of
    BY <1>7, <1>10, <2>1
  <2>3. \A k \in DOMAIN fields' :
           heads[k].arg = k /\ heads[k].major = "uint" /\ HeadOk(heads[k])
    BY <1>8, <1>10, <2>1
  <2>4. input' = <<tag>> \o (<<map>> \o Body(heads, fields'))
    BY <1>16, <2>1
  <2>5. IsSequence(inner') /\ DOMAIN fields' # {} /\ Begun(Reader(kind'), fields', inner')
    BY <1>7, <1>10, <1>14, <1>15, <2>1
  <2>6. written' = <<>> => /\ tag \in Items /\ map \in Items
                           /\ \A k \in DOMAIN fields' : heads[k] \in Items /\ fields'[k] \in Seq(Items)
    BY <1>8, <1>17, <2>1
  <2> QED
    BY ONLY <2>2, <2>3, <2>4, <2>5, <2>6 DEF AtFields
<1>19. kind' \in Type /\ verdict' # "accepted"
  BY <1>3 DEF ReaderInv
<1> QED
  BY <1>18, <1>19 DEF ReaderInv

LEMMA ReaderKeepsOn ==
  ASSUME ReaderInv, [DecoderNext]_decoder
  PROVE  ReaderInv'
<1>1. CASE ReadHead
  BY <1>1, HeadRead
<1>2. CASE ReadKey
  BY <1>2, KeyRead
<1>3. CASE ReadField
  BY <1>3, FieldRead
<1>4. CASE Refuse \/ End \/ UNCHANGED decoder
  <2>1. /\ kind' = kind /\ written' = written /\ input' = input /\ todo' = todo
        /\ inner' = inner /\ fields' = fields
        /\ verdict' = "accepted" => Finished \/ verdict = "accepted"
    BY <1>4 DEF Refuse, End, decoder
  <2>2. AtTag => AtTag'
    BY <2>1 DEF AtTag
  <2>3. \A tag : AtMap(tag) => AtMap(tag)'
    BY <2>1 DEF AtMap
  <2>4. \A tag, map, heads, left : AtFields(tag, map, heads, left) => AtFields(tag, map, heads, left)'
    BY <2>1 DEF AtFields
  <2>5. Finished => Finished'
    BY <2>1 DEF Finished
  <2> QED
    BY <2>1, <2>2, <2>3, <2>4, <2>5 DEF ReaderInv
<1> QED
  BY <1>1, <1>2, <1>3, <1>4 DEF DecoderNext

\* What is accepted: a tag, a map's head and, after it, every field that must be
\* there and none that must not, each read to its end.
AcceptedAs(tag, map, heads) ==
  /\ Accepts(Domain(TAG(kind)), tag) /\ Accepts(Reader(kind), map)
  /\ DOMAIN fields \in SUBSET Nat /\ IsFiniteSet(DOMAIN fields)
  /\ map.arg = Cardinality(DOMAIN fields)
  /\ Reader(kind).need \subseteq DOMAIN fields /\ DOMAIN fields \subseteq DOMAIN Reader(kind).of
  /\ \A k \in DOMAIN fields :
       /\ heads[k].arg = k /\ heads[k].major = "uint" /\ HeadOk(heads[k])
       /\ IsSequence(fields[k]) /\ Readable(<<Reader(kind).of[k]>>, fields[k])
  /\ input = <<tag>> \o (<<map>> \o Body(heads, fields))
  /\ written = <<>> => /\ tag \in Items /\ map \in Items
                       /\ \A k \in DOMAIN fields : heads[k] \in Items /\ fields[k] \in Seq(Items)

LEMMA AcceptedReads ==
  ASSUME ReaderInv, verdict = "accepted"
  PROVE  kind \in Type /\ \E tag, map, heads : AcceptedAs(tag, map, heads)
<1>1. kind \in Type /\ inner = <<>> /\ todo = <<>>
  BY DEF ReaderInv, Finished
<1>2. PICK tag, map, heads, left : AtFields(tag, map, heads, left)
  <2>1. ~AtTag /\ ~ \E tag : AtMap(tag)
    BY <1>1 DEF AtTag, AtMap
  <2> QED
    BY <2>1 DEF ReaderInv
<1>3. left = 0 /\ Reader(kind).need \subseteq DOMAIN fields
  <2>1. left \in Nat /\ todo = Keys(Reader(kind), left, DOMAIN fields)
    BY <1>2 DEF AtFields
  <2>2. left > 0 => todo # <<>>
    BY <2>1, OneIsSequence DEF Keys
  <2>3. left = 0
    BY <1>1, <2>1, <2>2
  <2>4. ~ (Reader(kind).need \subseteq DOMAIN fields) => todo # <<>>
    BY <2>1, <2>3, OneIsSequence DEF Keys
  <2> QED
    BY <1>1, <2>3, <2>4
<1>4. \A k \in DOMAIN fields : IsSequence(fields[k]) /\ Readable(<<Reader(kind).of[k]>>, fields[k])
  <2> SUFFICES ASSUME NEW k \in DOMAIN fields
               PROVE  IsSequence(fields[k]) /\ Readable(<<Reader(kind).of[k]>>, fields[k])
    OBVIOUS
  <2>1. /\ IsSequence(fields[k])
        /\ \A x : IsSequence(x) /\ Readable(Rest(fields, inner, k), x)
                    => Readable(<<Reader(kind).of[k]>>, fields[k] \o x)
    BY <1>2 DEF AtFields, Begun
  <2>2. Rest(fields, inner, k) = <<>>
    BY <1>1 DEF Rest
  <2>3. Readable(<<Reader(kind).of[k]>>, fields[k] \o <<>>)
    BY <2>1, <2>2, EmptyIsSequence, EmptyIsReadable
  <2>4. fields[k] \o <<>> = fields[k]
    BY <2>1, JoinEmpty
  <2> QED
    BY <2>1, <2>3, <2>4
<1>5. map.arg = Cardinality(DOMAIN fields)
  <2>1. DOMAIN fields \in SUBSET Nat /\ IsFiniteSet(DOMAIN fields) /\ map.arg = left + Cardinality(DOMAIN fields)
    BY <1>2 DEF AtFields
  <2>2. Cardinality(DOMAIN fields) \in Nat
    BY <2>1, FS_CardinalityType
  <2> QED
    BY <1>3, <2>1, <2>2
<1>6. /\ Accepts(Domain(TAG(kind)), tag) /\ Accepts(Reader(kind), map)
      /\ DOMAIN fields \in SUBSET Nat /\ IsFiniteSet(DOMAIN fields)
      /\ DOMAIN fields \subseteq DOMAIN Reader(kind).of
      /\ input = <<tag>> \o (<<map>> \o Body(heads, fields))
  BY <1>2 DEF AtFields
<1>7. /\ \A k \in DOMAIN fields : heads[k].arg = k /\ heads[k].major = "uint" /\ HeadOk(heads[k])
      /\ written = <<>> => /\ tag \in Items /\ map \in Items
                           /\ \A k \in DOMAIN fields : heads[k] \in Items /\ fields[k] \in Seq(Items)
  BY <1>2 DEF AtFields
<1>8. AcceptedAs(tag, map, heads)
  BY ONLY <1>3, <1>4, <1>5, <1>6, <1>7 DEF AcceptedAs
<1> QED
  BY <1>1, <1>8

-----------------------------------------------------------------------------
(***************************************************************************)
(* The reader given what the writer wrote.                                 *)
(***************************************************************************)

\* The input and what is left of it.
Splits(rest) ==
  \E S : written \in Seq(S) /\ input \in Seq(S) /\ rest \in Seq(S) /\ written = input \o rest

\* What is left is read: y of the field being read, and x after it.
Left(y, x) ==
  /\ IsSequence(y) /\ IsSequence(x) /\ IsSequence(inner) /\ IsSequence(todo)
  /\ Splits(y \o x) /\ Readable(inner, y) /\ Readable(todo, x)

\* Of what the writer wrote for a value a part is read, and the rest can be.
WrittenInv ==
  written # <<>> =>
    /\ value \in Values(kind) /\ written = Encode(kind, value)
    /\ verdict # "refused" /\ (verdict = "accepted" => input = written)
    /\ verdict = "reading" => \E y, x : Left(y, x)

\* The item offered is the first of what is left.
LEMMA OfferedIsNext ==
  ASSUME NEW rest, Splits(rest), written # <<>>
  PROVE  /\ rest = <<>> => Offered = {} /\ input = written
         /\ rest # <<>> => Offered = {Head(rest)} /\ input # written
<1>1. PICK S : written \in Seq(S) /\ input \in Seq(S) /\ rest \in Seq(S) /\ written = input \o rest
  BY DEF Splits
<1>2. /\ Len(input) \in Nat /\ Len(rest) \in Nat
      /\ Len(written) = Len(input) + Len(rest) /\ DOMAIN written = 1 .. Len(written)
  BY <1>1, LenProperties, ConcatProperties
<1>3. CASE rest = <<>>
  <2>1. input = written
    BY <1>1, <1>3, ConcatEmptySeq
  <2>2. Len(input) + 1 \notin DOMAIN written
    BY <1>2, <2>1
  <2>3. Offered = {}
    BY <2>2 DEF Offered
  <2> QED
    BY <1>3, <2>1, <2>3
<1>4. CASE rest # <<>>
  <2>1. Len(rest) >= 1 /\ Head(rest) = rest[1]
    BY <1>1, <1>4, EmptySeq, LenProperties
  <2>2. Len(input) + 1 \in DOMAIN written
    BY <1>2, <2>1
  <2>3. written[Len(input) + 1] = rest[1]
    <3> DEFINE n == Len(input)
               k == n + 1
    <3>1. n \in Nat /\ k \in 1 .. n + Len(rest) /\ ~ (k <= n) /\ k - n = 1
      BY <1>2, <2>1
    <3>2. \A i \in 1 .. Len(input) + Len(rest) :
            (input \o rest)[i] = IF i <= Len(input) THEN input[i] ELSE rest[i - Len(input)]
      BY <1>1, ConcatProperties
    <3>3. (input \o rest)[k] = rest[k - n]
      BY <3>1, <3>2
    <3> QED
      BY <1>1, <3>1, <3>3
  <2>4. Offered = {Head(rest)}
    <3>1. {Len(input) + 1} \cap DOMAIN written = {Len(input) + 1}
      BY <2>2
    <3>2. Offered = {written[n] : n \in {Len(input) + 1}}
      BY <3>1 DEF Offered
    <3>3. Offered = {written[Len(input) + 1]}
      BY <3>2
    <3> QED
      BY <2>1, <2>3, <3>3
  <2>5. Len(input) # Len(written)
    BY <1>2, <2>1
  <2> QED
    BY <1>4, <2>4, <2>5
<1> QED
  BY <1>3, <1>4

\* After the next item, what is left is one item less.
LEMMA SplitsNext ==
  ASSUME NEW rest, rest # <<>>, Splits(rest), input' = Append(input, Head(rest)), written' = written
  PROVE  Splits(Tail(rest))'
<1>1. PICK S : written \in Seq(S) /\ input \in Seq(S) /\ rest \in Seq(S) /\ written = input \o rest
  BY DEF Splits
<1>2. /\ Head(rest) \in S /\ Tail(rest) \in Seq(S) /\ rest = <<Head(rest)>> \o Tail(rest)
      /\ <<Head(rest)>> \in Seq(S)
  BY <1>1
<1>3. Append(input, Head(rest)) = input \o <<Head(rest)>>
  BY <1>1, <1>2
<1>4. input \o (<<Head(rest)>> \o Tail(rest)) = (input \o <<Head(rest)>>) \o Tail(rest)
  BY <1>1, <1>2, ConcatAssociative
<1>5. written = Append(input, Head(rest)) \o Tail(rest) /\ Append(input, Head(rest)) \in Seq(S)
  BY <1>1, <1>2, <1>3, <1>4
<1> QED
  BY <1>1, <1>2, <1>5 DEF Splits

LEMMA WrittenStarts == DecoderInit => WrittenInv
<1> SUFFICES ASSUME DecoderInit, written # <<>>
             PROVE  /\ value \in Values(kind) /\ written = Encode(kind, value)
                    /\ verdict = "reading" /\ \E y, x : Left(y, x)
  BY DEF WrittenInv
<1>1. kind \in Type /\ value \in Values(kind) /\ written = Encode(kind, value)
  BY DEF DecoderInit
<1>2. /\ input = <<>> /\ todo = <<Domain(TAG(kind)), Reader(kind)>> /\ inner = <<>>
      /\ verdict = "reading"
  BY DEF DecoderInit
<1>3. IsSequence(written) /\ Readable(todo, written)
  BY <1>1, <1>2, ValuesAreAnything, EncodedReads
<1>4. IsSequence(inner) /\ IsSequence(todo) /\ IsSequence(<<>>)
  <2>1. <<Domain(TAG(kind)), Reader(kind)>> \in Seq({Domain(TAG(kind)), Reader(kind)})
    OBVIOUS
  <2> QED
    BY <1>2, <2>1, EmptyIsSequence DEF IsSequence
<1>5. <<>> \o written = written
  BY <1>3, JoinEmpty
<1>6. Splits(written)
  <2>1. PICK S : written \in Seq(S)
    BY <1>3 DEF IsSequence
  <2>2. <<>> \in Seq(S)
    BY EmptySeq
  <2> QED
    BY <1>2, <1>5, <2>1, <2>2 DEF Splits
<1>7. Left(<<>>, written)
  BY <1>2, <1>3, <1>4, <1>5, <1>6, EmptyIsReadable DEF Left
<1> QED
  BY <1>1, <1>2, <1>7

\* The tag or the map's head: the field being read is none.
LEMMA HeadKeepsWritten ==
  ASSUME WrittenInv, ReadHead
  PROVE  WrittenInv'
<1>1. /\ inner = <<>> /\ todo # <<>> /\ Expected = Head(todo) /\ inner' = inner
  BY DEF ReadHead, Expected
<1>2. PICK item : Take(item) /\ todo' = Opens(Expected, item) \o Tail(todo)
  BY DEF ReadHead
<1>3. /\ input' = Append(input, item) /\ item \in Offered /\ kind' = kind /\ value' = value
      /\ written' = written /\ verdict' = verdict /\ verdict = "reading"
      /\ Accepts(Expected, item)
  BY <1>2, TakenItem
<1> SUFFICES ASSUME written # <<>>
             PROVE  \E y, x : Left(y, x)'
  BY <1>3 DEF WrittenInv
<1>4. PICK y, x : Left(y, x)
  BY <1>3 DEF WrittenInv
<1>5. PICK E, next : E = todo /\ next = todo'
  OBVIOUS
<1>6. y = <<>> /\ IsSequence(x) /\ IsSequence(E) /\ E # <<>> /\ Readable(E, x) /\ Splits(x)
  <2>1. y = <<>>
    BY <1>1, <1>4, NothingReadable DEF Left
  <2>2. <<>> \o x = x
    BY <1>4, JoinEmpty DEF Left
  <2> QED
    BY <1>1, <1>4, <1>5, <2>1, <2>2 DEF Left
<1>7. x # <<>> /\ Accepts(Head(E), Head(x)) /\ Readable(Opens(Head(E), Head(x)) \o Tail(E), Tail(x))
  BY ONLY <1>6, ReadableStep
<1>8. item = Head(x)
  BY <1>3, <1>6, <1>7, OfferedIsNext
<1>9. next = Opens(Head(E), Head(x)) \o Tail(E)
  BY <1>1, <1>2, <1>5, <1>8
<1>10. IsSequence(next) /\ IsSequence(Tail(x))
  BY <1>6, <1>7, <1>9, OpensIsSequence, HeadAndTail, JoinIsSequence
<1>11. Splits(Tail(x))'
  BY <1>3, <1>6, <1>7, <1>8, SplitsNext
<1>12. <<>> \o Tail(x) = Tail(x)
  BY <1>10, JoinEmpty
<1>13. Left(<<>>, Tail(x))'
  BY <1>1, <1>5, <1>7, <1>9, <1>10, <1>11, <1>12, EmptyIsSequence, EmptyIsReadable DEF Left
<1> QED
  BY <1>13

\* A key, which parts what is left into its field and the rest.
LEMMA KeyKeepsWritten ==
  ASSUME WrittenInv, ReaderInv, ReadKey
  PROVE  WrittenInv'
<1>1. inner = <<>> /\ todo # <<>> /\ Expected = Head(todo) /\ Expected.is = "key"
  BY DEF ReadKey, Expected
<1>2. PICK item : /\ Take(item) /\ inner' = <<Head(Opens(Expected, item))>>
                  /\ todo' = Tail(Opens(Expected, item))
  BY DEF ReadKey
<1>3. /\ input' = Append(input, item) /\ item \in Offered /\ kind' = kind /\ value' = value
      /\ written' = written /\ verdict' = verdict /\ verdict = "reading"
      /\ Accepts(Expected, item)
  BY <1>2, TakenItem
<1> SUFFICES ASSUME written # <<>>
             PROVE  \E y, x : Left(y, x)'
  BY <1>3 DEF WrittenInv
<1>4. PICK y, x : Left(y, x)
  BY <1>3 DEF WrittenInv
<1>5. PICK E, next : E = todo /\ next = Opens(Expected, item)
  OBVIOUS
<1>6. y = <<>> /\ IsSequence(x) /\ IsSequence(E) /\ E # <<>> /\ Readable(E, x) /\ Splits(x)
  <2>1. y = <<>>
    BY <1>1, <1>4, NothingReadable DEF Left
  <2>2. <<>> \o x = x
    BY <1>4, JoinEmpty DEF Left
  <2> QED
    BY <1>1, <1>4, <1>5, <2>1, <2>2 DEF Left
<1>7. x # <<>> /\ Accepts(Head(E), Head(x)) /\ Readable(Opens(Head(E), Head(x)) \o Tail(E), Tail(x))
  BY ONLY <1>6, ReadableStep
<1>8. item = Head(x)
  BY <1>3, <1>6, <1>7, OfferedIsNext
<1>9. next = Opens(Head(E), Head(x)) /\ IsSequence(next) /\ IsSequence(Tail(x))
  BY <1>1, <1>3, <1>5, <1>6, <1>7, <1>8, OpensIsSequence, HeadAndTail
<1>10. next # <<>> /\ Tail(E) = <<>>
  <2>1. PICK tag, map, heads, left : AtFields(tag, map, heads, left)
    <3>1. ~AtTag
      <4> SUFFICES ASSUME AtTag PROVE FALSE
        OBVIOUS
      <4> DEFINE a == Domain(TAG(kind))
                 b == Reader(kind)
      <4>1. todo = <<a, b>> /\ a.is = "domain"
        BY DEF AtTag, Domain
      <4> HIDE DEF a, b
      <4>2. Head(todo) = a
        BY <4>1
      <4> QED
        BY <1>1, <4>1, <4>2
    <3>2. \A tag : ~AtMap(tag)
      <4>1. kind \in Type
        BY DEF ReaderInv
      <4>2. Reader(kind).is = "fields"
        BY <4>1, ReaderIsFields
      <4> QED
        BY <1>1, <4>2 DEF AtMap
    <3> QED
      BY <3>1, <3>2 DEF ReaderInv
  <2>2. PICK R, read : R = Reader(kind) /\ read = DOMAIN fields
    OBVIOUS
  <2>3. left \in Nat /\ E = Keys(R, left, read)
    BY <1>5, <2>1, <2>2 DEF AtFields
  <2>4. left # 0
    <3> SUFFICES ASSUME left = 0 PROVE FALSE
      OBVIOUS
    <3>1. E = <<Missing>>
      BY <1>6, <2>3 DEF Keys
    <3>2. Expected = Missing
      BY <1>1, <1>5, <3>1
    <3> QED
      BY <1>1, <3>2 DEF Missing
  <2> DEFINE key == [is |-> "key", fields |-> R, left |-> left, read |-> read]
  <2>5. E = <<key>>
    BY <2>3, <2>4 DEF Keys
  <2>6. Opens(key, item) = <<R.of[item.arg]>> \o Keys(R, left - 1, read \cup {item.arg})
    BY DEF Opens
  <2>7. left - 1 \in Nat
    BY <2>3, <2>4
  <2>8. IsSequence(Keys(R, left - 1, read \cup {item.arg}))
    BY <2>7, KeysAhead
  <2> HIDE DEF key
  <2>9. Head(E) = key /\ Tail(E) = <<>>
    BY <2>5
  <2>10. next # <<>>
    BY <1>1, <1>5, <2>6, <2>8, <2>9, JoinOne
  <2> QED
    BY <2>9, <2>10
<1>11. Readable(<<Head(next)>> \o Tail(next), Tail(x)) /\ IsSequence(Tail(next))
  <2>1. next \o <<>> = next /\ next = <<Head(next)>> \o Tail(next)
    BY <1>9, <1>10, JoinEmpty, HeadAndTail
  <2> QED
    BY <1>7, <1>9, <1>10, <2>1, HeadAndTail
<1>12. PICK v, w : /\ IsSequence(v) /\ IsSequence(w) /\ Tail(x) = v \o w
                   /\ Readable(<<Head(next)>>, v) /\ Readable(Tail(next), w)
  <2> DEFINE a == <<Head(next)>>
             b == Tail(next)
             c == Tail(x)
  <2>1. IsSequence(a) /\ IsSequence(b) /\ IsSequence(c) /\ Readable(a \o b, c)
    BY <1>9, <1>11, OneIsSequence
  <2> HIDE DEF a, b, c
  <2>2. \E v, w : /\ IsSequence(v) /\ IsSequence(w) /\ c = v \o w /\ Readable(a, v) /\ Readable(b, w)
    BY ONLY <2>1, ReadableParts
  <2> QED
    BY <2>2 DEF a, b, c
<1>13. Splits(Tail(x))'
  BY <1>3, <1>6, <1>7, <1>8, SplitsNext
<1>14. Left(v, w)'
  BY <1>2, <1>5, <1>11, <1>12, <1>13, OneIsSequence DEF Left
<1> QED
  BY <1>14

\* An item of a field.
LEMMA FieldKeepsWritten ==
  ASSUME WrittenInv, ReadField
  PROVE  WrittenInv'
<1>1. inner # <<>> /\ Expected = Head(inner) /\ todo' = todo
  BY DEF ReadField, Expected
<1>2. PICK item : Take(item) /\ inner' = Opens(Expected, item) \o Tail(inner)
  BY DEF ReadField
<1>3. /\ input' = Append(input, item) /\ item \in Offered /\ kind' = kind /\ value' = value
      /\ written' = written /\ verdict' = verdict /\ verdict = "reading"
      /\ Accepts(Expected, item)
  BY <1>2, TakenItem
<1> SUFFICES ASSUME written # <<>>
             PROVE  \E y, x : Left(y, x)'
  BY <1>3 DEF WrittenInv
<1>4. PICK y, x : Left(y, x)
  BY <1>3 DEF WrittenInv
<1>5. PICK E, next : E = inner /\ next = inner'
  OBVIOUS
<1>6. IsSequence(y) /\ IsSequence(x) /\ IsSequence(E) /\ E # <<>> /\ Readable(E, y) /\ Splits(y \o x)
  BY <1>1, <1>4, <1>5 DEF Left
<1>7. y # <<>> /\ Accepts(Head(E), Head(y)) /\ Readable(Opens(Head(E), Head(y)) \o Tail(E), Tail(y))
  BY ONLY <1>6, ReadableStep
<1>8. y \o x # <<>> /\ Head(y \o x) = Head(y) /\ Tail(y \o x) = Tail(y) \o x
  BY <1>6, <1>7, JoinHead
<1>9. item = Head(y)
  BY <1>3, <1>6, <1>8, OfferedIsNext
<1>10. next = Opens(Head(E), Head(y)) \o Tail(E)
  BY <1>1, <1>2, <1>5, <1>9
<1>11. IsSequence(next) /\ IsSequence(Tail(y))
  BY <1>6, <1>7, <1>10, OpensIsSequence, HeadAndTail, JoinIsSequence
<1>12. Splits(Tail(y) \o x)'
  BY <1>3, <1>6, <1>8, <1>9, SplitsNext
<1>13. Left(Tail(y), x)'
  BY <1>1, <1>4, <1>5, <1>6, <1>7, <1>10, <1>11, <1>12 DEF Left
<1> QED
  BY <1>13

LEMMA RefuseKeepsWritten ==
  ASSUME WrittenInv, Refuse
  PROVE  WrittenInv'
<1> SUFFICES ASSUME written # <<>>
             PROVE  FALSE
  BY DEF WrittenInv, Refuse
<1>1. PICK y, x : Left(y, x)
  BY DEF WrittenInv, Refuse
<1>2. /\ IsSequence(y) /\ IsSequence(x) /\ Splits(y \o x) /\ Readable(inner, y) /\ Readable(todo, x)
  BY <1>1 DEF Left
<1>3. PICK item \in Offered : Finished \/ ~Accepts(Expected, item)
  BY DEF Refuse
<1>4. y \o x # <<>> /\ item = Head(y \o x)
  BY <1>2, <1>3, OfferedIsNext
<1>5. CASE y = <<>>
  <2>1. y \o x = x
    BY <1>2, <1>5, JoinEmpty
  <2>2. todo # <<>> /\ Accepts(Head(todo), item)
    BY <1>2, <1>4, <2>1, ReadableStep
  <2>3. inner = <<>>
    BY <1>2, <1>5, ReadableStep
  <2> QED
    BY <1>3, <2>2, <2>3 DEF Finished, Expected
<1>6. CASE y # <<>>
  <2>1. Head(y \o x) = Head(y)
    BY <1>2, <1>6, JoinHead
  <2>2. inner # <<>> /\ Accepts(Head(inner), item)
    BY <1>2, <1>4, <1>6, <2>1, ReadableStep
  <2> QED
    BY <1>3, <2>2 DEF Finished, Expected
<1> QED
  BY <1>5, <1>6

LEMMA EndKeepsWritten ==
  ASSUME WrittenInv, End
  PROVE  WrittenInv'
<1> SUFFICES ASSUME written # <<>>
             PROVE  verdict' = "accepted" /\ input = written
  BY DEF WrittenInv, End
<1>1. PICK y, x : Left(y, x)
  BY DEF WrittenInv, End
<1>2. /\ IsSequence(y) /\ IsSequence(x) /\ Splits(y \o x) /\ Readable(inner, y) /\ Readable(todo, x)
  BY <1>1 DEF Left
<1>3. input = written
  BY DEF End
<1>4. y \o x = <<>>
  BY <1>2, <1>3, OfferedIsNext
<1>5. y = <<>>
  BY <1>2, <1>4, JoinHead
<1>6. x = <<>>
  BY <1>2, <1>4, <1>5, JoinEmpty
<1>7. inner = <<>> /\ todo = <<>>
  BY <1>2, <1>5, <1>6, ReadableStep
<1> QED
  BY <1>3, <1>7 DEF End, Finished

LEMMA DecoderKeepsWritten ==
  ASSUME WrittenInv, ReaderInv, [DecoderNext]_decoder
  PROVE  WrittenInv'
<1>1. CASE ReadHead
  BY <1>1, HeadKeepsWritten
<1>2. CASE ReadKey
  BY <1>2, KeyKeepsWritten
<1>3. CASE ReadField
  BY <1>3, FieldKeepsWritten
<1>4. CASE Refuse
  BY <1>4, RefuseKeepsWritten
<1>5. CASE End
  BY <1>5, EndKeepsWritten
<1>6. CASE UNCHANGED decoder
  BY <1>6 DEF WrittenInv, Left, Splits, decoder
<1> QED
  BY <1>1, <1>2, <1>3, <1>4, <1>5, <1>6 DEF DecoderNext

-----------------------------------------------------------------------------
(***************************************************************************)
(* The items of anybody's input.                                           *)
(***************************************************************************)

\* Whatever its major type, an item is what that type, its width, its argument and
\* its string make it.
LEMMA ItemIs ==
  ASSUME NEW item \in Items
  PROVE  /\ item = Item(item.major, item.width, item.arg, item.content)
         /\ item.major \in {"uint", "negint"} => item.arg \in Number /\ item.content = 0
         /\ item.major = "array" => item.arg \in Listed /\ item.content = 0
         /\ item.major = "map" => item.arg \in Keyed /\ item.content = 0
         /\ item.major = "bytes" => item.arg \in Length /\ item.content \in Rank
         /\ item.major = "bytes" /\ item.arg = 0 => item.content = 0
         /\ item.major = "text" /\ item.content # NotUtf8
              => item.arg \in Rank /\ item.content = item.arg
         /\ item.major \in {"observation", "attestation", "checkpoint", "blob", "forkproof", "pack"}
              => item.width = 0 /\ item.arg = 0 /\ item.content = 0
<1> DEFINE Good(i) ==
      /\ i = Item(i.major, i.width, i.arg, i.content)
      /\ i.major \in {"uint", "negint"} => i.arg \in Number /\ i.content = 0
      /\ i.major = "array" => i.arg \in Listed /\ i.content = 0
      /\ i.major = "map" => i.arg \in Keyed /\ i.content = 0
      /\ i.major = "bytes" => i.arg \in Length /\ i.content \in Rank
      /\ i.major = "bytes" /\ i.arg = 0 => i.content = 0
      /\ i.major = "text" /\ i.content # NotUtf8 => i.arg \in Rank /\ i.content = i.arg
      /\ i.major \in {"observation", "attestation", "checkpoint", "blob", "forkproof", "pack"}
           => i.width = 0 /\ i.arg = 0 /\ i.content = 0
<1>1. \A t \in Type : Good(Item(TAG(t), 0, 0, 0))
  <2> SUFFICES ASSUME NEW t \in Type PROVE Good(Item(TAG(t), 0, 0, 0))
    OBVIOUS
  <2>1. TAG(t) \in {"observation", "attestation", "checkpoint", "blob", "forkproof", "pack"}
    BY CodecAssumption DEF TAG
  <2> QED
    BY <2>1 DEF Item
<1>2. Good(Forbidden) /\ Good(Item("text", 0, 1, NotUtf8))
  BY DEF Forbidden, Item
<1>3. \A w, n : n \in Number => Good(Item("uint", w, n, 0)) /\ Good(Item("negint", w, n, 0))
  BY DEF Item
<1>4. \A w, n : n \in Listed => Good(Item("array", w, n, 0))
  BY DEF Item
<1>5. \A w, n : n \in Keyed => Good(Item("map", w, n, 0))
  BY DEF Item
<1>6. \A w, n, r : n \in Length /\ r \in (IF n = 0 THEN {0} ELSE Rank) => Good(Item("bytes", w, n, r))
  BY ZeroIsPlain DEF Item
<1>7. \A w, n : n \in Rank => Good(Item("text", w, n, n))
  BY DEF Item
<1> HIDE DEF Good
<1>8. \/ \E t \in Type : item = Item(TAG(t), 0, 0, 0)
      \/ item = Forbidden \/ item = Item("text", 0, 1, NotUtf8)
      \/ \E n \in Number : \E m \in {"uint", "negint"} : \E w \in Widths(n) : item = Item(m, w, n, 0)
      \/ \E n \in Listed : \E w \in Widths(n) : item = Item("array", w, n, 0)
      \/ \E n \in Keyed : \E w \in Widths(n) : item = Item("map", w, n, 0)
      \/ \E n \in Length : \E w \in Widths(n) : \E r \in (IF n = 0 THEN {0} ELSE Rank) :
           item = Item("bytes", w, n, r)
      \/ \E n \in Rank : \E w \in Widths(n) : item = Item("text", w, n, n)
  <2> DEFINE T == {Item(TAG(t), 0, 0, 0) : t \in Type}
             N == UNION {{Item(m, w, n, 0) : m \in {"uint", "negint"}, w \in Widths(n)} : n \in Number}
             A == UNION {{Item("array", w, n, 0) : w \in Widths(n)} : n \in Listed}
             M == UNION {{Item("map", w, n, 0) : w \in Widths(n)} : n \in Keyed}
             B == UNION {{Item("bytes", w, n, r) : w \in Widths(n), r \in IF n = 0 THEN {0} ELSE Rank} :
                           n \in Length}
             X == UNION {{Item("text", w, n, n) : w \in Widths(n)} : n \in Rank}
  <2>1. \/ item \in T \/ item \in {Forbidden, Item("text", 0, 1, NotUtf8)} \/ item \in N
        \/ item \in A \/ item \in M \/ item \in B \/ item \in X
    <3> HIDE DEF T, N, A, M, B, X
    <3>1. Items = T \cup {Forbidden, Item("text", 0, 1, NotUtf8)} \cup N \cup A \cup M \cup B \cup X
      BY DEF Items, T, N, A, M, B, X
    <3> QED
      BY <3>1
  <2>2. item \in T => \E t \in Type : item = Item(TAG(t), 0, 0, 0)
    OBVIOUS
  <2>3. item \in N => \E n \in Number : \E m \in {"uint", "negint"} : \E w \in Widths(n) :
                        item = Item(m, w, n, 0)
    OBVIOUS
  <2>4. item \in A => \E n \in Listed : \E w \in Widths(n) : item = Item("array", w, n, 0)
    OBVIOUS
  <2>5. item \in M => \E n \in Keyed : \E w \in Widths(n) : item = Item("map", w, n, 0)
    OBVIOUS
  <2>6. item \in B => \E n \in Length : \E w \in Widths(n) : \E r \in (IF n = 0 THEN {0} ELSE Rank) :
                        item = Item("bytes", w, n, r)
    OBVIOUS
  <2>7. item \in X => \E n \in Rank : \E w \in Widths(n) : item = Item("text", w, n, n)
    OBVIOUS
  <2> HIDE DEF T, N, A, M, B, X
  <2> QED
    BY <2>1, <2>2, <2>3, <2>4, <2>5, <2>6, <2>7
<1>9. Good(item)
  BY <1>1, <1>2, <1>3, <1>4, <1>5, <1>6, <1>7, <1>8
<1> QED
  BY <1>9 DEF Good

\* An accepted one is as the writer writes it.
LEMMA AcceptedIs ==
  ASSUME NEW item \in Items, NEW e, Accepts(e, item)
  PROVE  /\ item.arg \in Nat
         /\ item = Item(item.major, Shortest(item.arg), item.arg, item.content)
         /\ item.major \in Wanted[e.is]
  BY ItemIs DEF Accepts, HeadOk

-----------------------------------------------------------------------------
(***************************************************************************)
(* Leaves: the one item that is read for them is the one that is written.  *)
(***************************************************************************)

\* What is read of one of two expectations, item by item.
LEMMA PartsOfItems ==
  ASSUME NEW S, NEW y, NEW x, IsSequence(y), IsSequence(x), y \o x \in Seq(S)
  PROVE  y \in Seq(S) /\ x \in Seq(S)
<1>1. PICK A : y \in Seq(A)
  BY DEF IsSequence
<1>2. PICK B : x \in Seq(B)
  BY DEF IsSequence
<1> DEFINE C == A \cup B
<1>3. y \in Seq(C) /\ x \in Seq(C)
  BY <1>1, <1>2, SeqMonotonic
<1> HIDE DEF C
<1>4. /\ Len(y) \in Nat /\ Len(x) \in Nat /\ Len(y \o x) = Len(y) + Len(x)
      /\ \A i \in 1 .. Len(y) + Len(x) : (y \o x)[i] = IF i <= Len(y) THEN y[i] ELSE x[i - Len(y)]
      /\ y = [i \in 1 .. Len(y) |-> y[i]] /\ x = [i \in 1 .. Len(x) |-> x[i]]
  BY <1>3, LenProperties, ConcatProperties
<1>5. \A i \in 1 .. Len(y) + Len(x) : (y \o x)[i] \in S
  BY <1>4, ElementOfSeq
<1>6. \A i \in 1 .. Len(y) : y[i] \in S
  <2> SUFFICES ASSUME NEW i \in 1 .. Len(y) PROVE y[i] \in S
    OBVIOUS
  <2>1. i \in 1 .. Len(y) + Len(x) /\ i <= Len(y)
    BY <1>4
  <2> QED
    BY <1>4, <1>5, <2>1
<1>7. \A i \in 1 .. Len(x) : x[i] \in S
  <2> SUFFICES ASSUME NEW i \in 1 .. Len(x) PROVE x[i] \in S
    OBVIOUS
  <2> DEFINE j == Len(y) + i
  <2>1. j \in 1 .. Len(y) + Len(x) /\ ~(j <= Len(y)) /\ j - Len(y) = i
    BY <1>4
  <2>2. (y \o x)[j] = x[j - Len(y)]
    BY <1>4, <2>1
  <2> QED
    BY <1>5, <2>1, <2>2
<1>8. y \in [1 .. Len(y) -> S] /\ x \in [1 .. Len(x) -> S]
  BY <1>4, <1>6, <1>7
<1> QED
  BY <1>4, <1>8, SeqDef

LEMMA ItemsReadInParts ==
  ASSUME NEW E, NEW F, NEW w \in Seq(Items), IsSequence(E), IsSequence(F), Readable(E \o F, w)
  PROVE  \E y \in Seq(Items) : \E x \in Seq(Items) :
           w = y \o x /\ Readable(E, y) /\ Readable(F, x)
<1>1. IsSequence(w)
  BY DEF IsSequence
<1>2. PICK y, x : /\ IsSequence(y) /\ IsSequence(x) /\ w = y \o x
                  /\ Readable(E, y) /\ Readable(F, x)
  BY <1>1, ReadableParts
<1> QED
  BY <1>2, PartsOfItems

\* One expectation, and what its first item opens.
LEMMA ItemReads ==
  ASSUME NEW e, NEW w \in Seq(Items), Readable(<<e>>, w)
  PROVE  \E item \in Items : \E x \in Seq(Items) :
           /\ w = <<item>> \o x /\ Accepts(e, item)
           /\ IsSequence(Opens(e, item)) /\ Readable(Opens(e, item), x)
<1> DEFINE E == <<e>>
<1>1. E # <<>> /\ Head(E) = e /\ Tail(E) = <<>>
  OBVIOUS
<1>2. Readable(E, w)
  OBVIOUS
<1> HIDE DEF E
<1>3. w # <<>> /\ Accepts(e, Head(w)) /\ Readable(Opens(e, Head(w)) \o <<>>, Tail(w))
  BY <1>1, <1>2, ReadableStep
<1>4. Head(w) \in Items /\ Tail(w) \in Seq(Items) /\ w = <<Head(w)>> \o Tail(w)
  BY <1>3
<1>5. IsSequence(Opens(e, Head(w)))
  BY <1>3, OpensIsSequence
<1>6. Opens(e, Head(w)) \o <<>> = Opens(e, Head(w))
  BY <1>5, JoinEmpty
<1> QED
  BY <1>3, <1>4, <1>5, <1>6

\* One that opens nothing.
LEMMA LeafReads ==
  ASSUME NEW e, e.is \in {"uint", "int", "bytes", "string", "this", "text"},
         NEW w \in Seq(Items), Readable(<<e>>, w)
  PROVE  \E item \in Items : w = <<item>> /\ Accepts(e, item)
<1>1. PICK item \in Items : \E x \in Seq(Items) :
        /\ w = <<item>> \o x /\ Accepts(e, item)
        /\ IsSequence(Opens(e, item)) /\ Readable(Opens(e, item), x)
  BY ItemReads
<1>2. Opens(e, item) = <<>>
  BY DEF Opens
<1>3. w = <<item>> \o <<>>
  BY <1>1, <1>2, NothingReadable
<1>4. <<item>> \o <<>> = <<item>>
  BY OneIsSequence, JoinEmpty
<1> QED
  BY <1>1, <1>3, <1>4

\* What is read of a number, a string and a text is what is written for one.
LEMMA UintReads ==
  ASSUME NEW most, NEW w \in Seq(Items), Readable(<<UintIn(0, most)>>, w)
  PROVE  \E n \in UpTo(most) : w = WriteUint(n)
<1> DEFINE e == UintIn(0, most)
<1>1. e.is = "uint" /\ e.most = most
  BY DEF UintIn
<1>2. Readable(<<e>>, w)
  OBVIOUS
<1> HIDE DEF e
<1>3. PICK item \in Items : w = <<item>> /\ Accepts(e, item)
  BY <1>1, <1>2, LeafReads
<1>4. item.major = "uint" /\ item.arg <= most
  BY <1>1, <1>3 DEF Accepts, Wanted
<1>5. item = Item("uint", Shortest(item.arg), item.arg, 0) /\ item.arg \in Number
  BY <1>3, <1>4, AcceptedIs, ItemIs
<1> QED
  BY <1>3, <1>4, <1>5 DEF UpTo, WriteUint, WriteHead

LEMMA NumberReads ==
  ASSUME NEW w \in Seq(Items), Readable(<<Uint>>, w)
  PROVE  \E n \in U64 : w = WriteUint(n)
  BY UintReads DEF Uint, UpTo, U64

LEMMA IntReads ==
  ASSUME NEW most \in Nat, NEW w \in Seq(Items), Readable(<<IntUpTo(most)>>, w)
  PROVE  \E i \in Signed(most) : w = WriteInt(i)
<1> DEFINE e == IntUpTo(most)
<1>1. e.is = "int" /\ e.most = most
  BY DEF IntUpTo
<1>2. Readable(<<e>>, w)
  OBVIOUS
<1> HIDE DEF e
<1>3. PICK item \in Items : w = <<item>> /\ Accepts(e, item)
  BY <1>1, <1>2, LeafReads
<1>4. item.major \in {"uint", "negint"} /\ item.arg <= most
  BY <1>1, <1>3 DEF Accepts, Wanted
<1>5. /\ item = Item(item.major, Shortest(item.arg), item.arg, 0)
      /\ item.arg \in UpTo(most) /\ item.arg \in Nat
  BY <1>3, <1>4, AcceptedIs, ItemIs DEF UpTo
<1> DEFINE n == item.arg
<1>6. CASE item.major = "uint"
  <2>1. n \in Signed(most) /\ n >= 0
    BY <1>5 DEF Signed
  <2> QED
    BY <1>3, <1>5, <1>6, <2>1 DEF WriteInt, WriteUint, WriteHead
<1>7. CASE item.major = "negint"
  <2>1. -1 - n \in Signed(most)
    BY <1>5 DEF Signed
  <2>2. ~ (-1 - n >= 0) /\ -1 - (-1 - n) = n
    BY <1>5
  <2> QED
    BY <1>3, <1>5, <1>7, <2>1, <2>2 DEF WriteInt, WriteHead
<1> QED
  BY <1>4, <1>6, <1>7

LEMMA BytesRead ==
  ASSUME NEW lengths, NEW w \in Seq(Items),
         Readable(<<BytesOf(lengths)>>, w) \/ Readable(<<AnyBytes>>, w)
  PROVE  \E length \in Length : \E rank \in Rank :
           /\ w = WriteBytes(length, rank) /\ (length = 0 => rank = 0)
           /\ Readable(<<BytesOf(lengths)>>, w) => length \in lengths
<1> DEFINE e == BytesOf(lengths)
           f == AnyBytes
<1>1. e.is = "bytes" /\ e.lengths = lengths /\ f.is = "string"
  BY DEF BytesOf, AnyBytes
<1>2. Readable(<<e>>, w) \/ Readable(<<f>>, w)
  OBVIOUS
<1> HIDE DEF e, f
<1>3. PICK item \in Items : /\ w = <<item>> /\ (Accepts(e, item) \/ Accepts(f, item))
                            /\ Readable(<<e>>, w) => Accepts(e, item)
  <2>1. CASE Readable(<<e>>, w)
    <3>1. PICK item \in Items : w = <<item>> /\ Accepts(e, item)
      BY <1>1, <2>1, LeafReads
    <3> QED
      BY <3>1
  <2>2. CASE ~Readable(<<e>>, w)
    <3>1. PICK item \in Items : w = <<item>> /\ Accepts(f, item)
      BY <1>1, <1>2, <2>2, LeafReads
    <3> QED
      BY <2>2, <3>1
  <2> QED
    BY <2>1, <2>2
<1>4. item.major = "bytes" /\ (Accepts(e, item) => item.arg \in lengths)
  BY <1>1, <1>3 DEF Accepts, Wanted
<1>5. item = Item("bytes", Shortest(item.arg), item.arg, item.content)
  BY <1>3, <1>4, AcceptedIs
<1>6. item.arg \in Length /\ item.content \in Rank /\ (item.arg = 0 => item.content = 0)
  BY <1>4, ItemIs
<1>7. w = WriteBytes(item.arg, item.content)
  BY <1>3, <1>5 DEF WriteBytes, WriteHead
<1> QED
  BY <1>3, <1>4, <1>6, <1>7 DEF e

\* A string of one length, and the reference to the entry before, or to none.
LEMMA OneLengthReads ==
  ASSUME NEW length, NEW w \in Seq(Items), Readable(<<BytesOf({length})>>, w)
  PROVE  \E rank \in Rank : w = WriteBytes(length, rank)
<1>1. PICK n \in Length, rank \in Rank :
        w = WriteBytes(n, rank) /\ n \in {length}
  BY BytesRead
<1> QED
  BY <1>1

LEMMA HashReads ==
  ASSUME NEW w \in Seq(Items), Readable(<<ReadHash>>, w)
  PROVE  \E rank \in Rank : w = Hash(rank)
  BY OneLengthReads DEF ReadHash, Hash

LEMMA PrevReads ==
  ASSUME NEW w \in Seq(Items), Readable(<<BytesOf({0, 32})>>, w)
  PROVE  \E p \in Rank \cup {None} : w = WritePrev(p)
<1>1. PICK n \in Length, rank \in Rank :
        w = WriteBytes(n, rank) /\ (n = 0 => rank = 0) /\ n \in {0, 32}
  BY BytesRead
<1>2. CASE n = 0
  <2>1. w = WritePrev(None)
    BY <1>1, <1>2 DEF WritePrev
  <2> QED
    BY <2>1
<1>3. CASE n = 32
  <2>1. w = WritePrev(rank)
    BY <1>1, <1>3, NoneAssumption DEF WritePrev, Hash
  <2> QED
    BY <2>1
<1> QED
  BY <1>1, <1>2, <1>3

LEMMA TextReads ==
  ASSUME NEW w \in Seq(Items), Readable(<<Text>>, w)
  PROVE  \E r \in Rank : w = WriteText(r, r)
<1> DEFINE e == Text
<1>1. e.is = "text"
  BY DEF Text
<1>2. Readable(<<e>>, w)
  OBVIOUS
<1> HIDE DEF e
<1>3. PICK item \in Items : w = <<item>> /\ Accepts(e, item)
  BY <1>1, <1>2, LeafReads
<1>4. item.major = "text" /\ item.content # NotUtf8
  BY <1>1, <1>3 DEF Accepts, Wanted
<1>5. item = Item("text", Shortest(item.arg), item.arg, item.arg) /\ item.arg \in Rank
  BY <1>3, <1>4, AcceptedIs, ItemIs
<1> QED
  BY <1>3, <1>5 DEF WriteText, WriteHead

-----------------------------------------------------------------------------
(***************************************************************************)
(* Lists: what is read of each is what is written for one.                 *)
(***************************************************************************)

\* Of a list of expectations, each is read a part: else take the shortest list
\* for which it is not so.
ListReadAt(n) ==
  \A es, w : es = [i \in 1 .. n |-> es[i]] /\ w \in Seq(Items) /\ Readable(es, w)
    => \E ws : /\ \A i \in 1 .. n : ws[i] \in Seq(Items) /\ Readable(<<es[i]>>, ws[i])
               /\ w = Joint(ws, n)

LEMMA ListReadsOn ==
  ASSUME NEW n \in Nat, ListReadAt(n)
  PROVE  ListReadAt(n + 1)
<1> SUFFICES ASSUME NEW es, es = [i \in 1 .. n + 1 |-> es[i]], NEW w \in Seq(Items), Readable(es, w)
             PROVE  \E ws : /\ \A i \in 1 .. n + 1 : ws[i] \in Seq(Items) /\ Readable(<<es[i]>>, ws[i])
                            /\ w = Joint(ws, n + 1)
  BY DEF ListReadAt
<1> DEFINE front == [i \in 1 .. n |-> es[i]]
           last == <<es[n + 1]>>
<1>1. es = front \o last /\ IsSequence(front) /\ IsSequence(last)
  <2> DEFINE S == {es[i] : i \in 1 .. n + 1}
  <2>1. front \in Seq(S) /\ Len(front) = n
    <3>1. front \in [1 .. n -> S]
      OBVIOUS
    <3> HIDE DEF front, S
    <3>2. front \in Seq(S)
      BY <3>1, SeqDef
    <3> QED
      BY <3>1, <3>2, LenProperties
  <2>2. last \in Seq(S) /\ Len(last) = 1 /\ last[1] = es[n + 1]
    OBVIOUS
  <2> HIDE DEF S
  <2>3. /\ front \o last \in Seq(S) /\ Len(front \o last) = n + 1
        /\ \A i \in 1 .. n + 1 : (front \o last)[i] = IF i <= n THEN front[i] ELSE last[i - n]
    BY <2>1, <2>2, ConcatProperties
  <2>4. \A i \in 1 .. n + 1 : (front \o last)[i] = es[i]
    <3> SUFFICES ASSUME NEW i \in 1 .. n + 1 PROVE (front \o last)[i] = es[i]
      OBVIOUS
    <3>1. CASE i <= n
      BY <2>3, <3>1
    <3>2. CASE i = n + 1
      <4>1. ~(i <= n) /\ i - n = 1
        BY <3>2
      <4> QED
        BY <2>2, <2>3, <3>2, <4>1
    <3> QED
      BY <3>1, <3>2
  <2>5. front \o last = [i \in 1 .. n + 1 |-> (front \o last)[i]]
    BY <2>3, LenProperties
  <2> QED
    BY <2>1, <2>2, <2>4, <2>5 DEF IsSequence
<1> HIDE DEF front, last
<1>2. PICK y \in Seq(Items), x \in Seq(Items) : w = y \o x /\ Readable(front, y) /\ Readable(last, x)
  <2>1. Readable(front \o last, w)
    BY <1>1
  <2>2. w \in Seq(Items)
    OBVIOUS
  <2>3. \E y \in Seq(Items) : \E x \in Seq(Items) :
          w = y \o x /\ Readable(front, y) /\ Readable(last, x)
    <3>1. PICK E, F : E = front /\ F = last
      OBVIOUS
    <3>2. IsSequence(E) /\ IsSequence(F) /\ Readable(E \o F, w) /\ w \in Seq(Items)
      BY <1>1, <2>1, <2>2, <3>1
    <3>3. \E y \in Seq(Items) : \E x \in Seq(Items) :
            w = y \o x /\ Readable(E, y) /\ Readable(F, x)
      BY ONLY <3>2, ItemsReadInParts
    <3> QED
      BY <3>1, <3>3
  <2> QED
    BY <2>3
<1>3. front = [i \in 1 .. n |-> front[i]] /\ \A i \in 1 .. n : front[i] = es[i]
  BY DEF front
<1>4. PICK vs : /\ \A i \in 1 .. n : vs[i] \in Seq(Items) /\ Readable(<<front[i]>>, vs[i])
                /\ y = Joint(vs, n)
  BY <1>2, <1>3 DEF ListReadAt
<1> DEFINE ws == [i \in 1 .. n + 1 |-> IF i = n + 1 THEN x ELSE vs[i]]
<1>5. ws[n + 1] = x /\ \A i \in 1 .. n : ws[i] = vs[i]
  OBVIOUS
<1> HIDE DEF ws
<1>6. \A i \in 1 .. n + 1 : ws[i] \in Seq(Items) /\ Readable(<<es[i]>>, ws[i])
  <2> SUFFICES ASSUME NEW i \in 1 .. n + 1 PROVE ws[i] \in Seq(Items) /\ Readable(<<es[i]>>, ws[i])
    OBVIOUS
  <2>1. CASE i \in 1 .. n
    BY <1>3, <1>4, <1>5, <2>1
  <2>2. CASE i = n + 1
    BY <1>2, <1>5, <2>2 DEF last
  <2> QED
    BY <2>1, <2>2
<1>7. Joint(ws, n + 1) = Joint(ws, n) \o ws[n + 1]
  <2>1. \A i \in 1 .. n + 1 : IsSequence(ws[i])
    BY <1>6 DEF IsSequence
  <2> QED
    BY <2>1, JointNext
<1>8. Joint(ws, n) = Joint(vs, n)
  BY <1>5, JointEqual
<1>9. w = Joint(ws, n + 1)
  BY <1>2, <1>4, <1>5, <1>7, <1>8
<1> QED
  BY <1>6, <1>9

LEMMA ListReads == \A n \in Nat : ListReadAt(n)
<1>1. ListReadAt(0)
  <2> SUFFICES ASSUME NEW es, es = [i \in 1 .. 0 |-> es[i]], NEW w \in Seq(Items), Readable(es, w)
               PROVE  w = Joint(<<>>, 0)
    BY DEF ListReadAt
  <2>1. es = <<>>
    OBVIOUS
  <2>2. w = <<>>
    BY <2>1, NothingReadable
  <2> QED
    BY <2>2, JointSteps
<1> SUFFICES ASSUME NEW m \in Nat, ~ListReadAt(m)
             PROVE  FALSE
  OBVIOUS
<1> DEFINE Wrong == {n \in Nat : ~ListReadAt(n)}
<1>2. Wrong \in SUBSET Nat /\ Wrong # {}
  OBVIOUS
<1> HIDE DEF Wrong
<1>3. Min(Wrong) \in Wrong /\ \A n \in Wrong : Min(Wrong) <= n
  BY <1>2, SmallestExists
<1>4. PICK k \in Wrong : \A n \in Wrong : k <= n
  BY <1>3
<1>5. k \in Nat /\ ~ListReadAt(k)
  BY DEF Wrong
<1>6. k # 0
  BY <1>1, <1>5
<1> DEFINE j == k - 1
<1>7. j \in Nat /\ k = j + 1 /\ ~(k <= j)
  BY <1>5, <1>6
<1>8. ListReadAt(j)
  BY <1>4, <1>7 DEF Wrong
<1>9. ListReadAt(j + 1)
  BY ONLY <1>7, <1>8, ListReadsOn
<1> QED
  BY <1>5, <1>7, <1>9

\* Arrays of a fixed number of parts, and of any number of like parts.
IsList(es, n) == es = [i \in 1 .. n |-> es[i]]
ReadInParts(es, n, w) ==
  \E ws : /\ \A i \in 1 .. n : ws[i] \in Seq(Items) /\ Readable(<<es[i]>>, ws[i])
          /\ w = WriteArray([i \in 1 .. n |-> ws[i]])

LEMMA TupleReads ==
  ASSUME NEW n \in Nat, NEW es, IsList(es, n), NEW w \in Seq(Items), Readable(<<Tuple(es)>>, w)
  PROVE  ReadInParts(es, n, w)
<1>0. es = [i \in 1 .. n |-> es[i]]
  BY DEF IsList
<1> DEFINE e == Tuple(es)
<1>1. e.is = "tuple" /\ e.parts = es
  BY DEF Tuple
<1>2. Readable(<<e>>, w)
  OBVIOUS
<1> HIDE DEF e
<1>3. PICK item \in Items, x \in Seq(Items) :
        /\ w = <<item>> \o x /\ Accepts(e, item)
        /\ IsSequence(Opens(e, item)) /\ Readable(Opens(e, item), x)
  BY <1>2, ItemReads
<1>4. item.arg = n /\ item.major = "array"
  <2>1. Len(es) = n
    BY <1>0, FunctionIsSequence
  <2> QED
    BY <1>1, <1>3, <2>1 DEF Accepts, Wanted
<1>5. item = Item("array", Shortest(n), n, 0)
  BY <1>3, <1>4, AcceptedIs, ItemIs
<1>6. Opens(e, item) = es
  BY <1>0, <1>1, <1>4 DEF Opens
<1>7. PICK ws : /\ \A i \in 1 .. n : ws[i] \in Seq(Items) /\ Readable(<<es[i]>>, ws[i])
                /\ x = Joint(ws, n)
  <2>1. ListReadAt(n) /\ Readable(es, x)
    BY <1>3, <1>6, ListReads
  <2> QED
    BY <1>0, <1>3, <2>1 DEF ListReadAt
<1>8. w = WriteArray([i \in 1 .. n |-> ws[i]])
  BY <1>3, <1>5, <1>7, ArrayIs DEF WriteArrayHead, WriteHead
<1> QED
  BY <1>7, <1>8 DEF ReadInParts

LEMMA ArrayReads ==
  ASSUME NEW part, NEW w \in Seq(Items), Readable(<<Array(part)>>, w)
  PROVE  \E n \in Listed : \E ws :
           /\ \A i \in 1 .. n : ws[i] \in Seq(Items) /\ Readable(<<part>>, ws[i])
           /\ w = WriteArray([i \in 1 .. n |-> ws[i]]) /\ n \in Nat
<1> DEFINE e == Array(part)
<1>1. e.is = "array" /\ e.part = part
  BY DEF Array
<1>2. Readable(<<e>>, w)
  OBVIOUS
<1> HIDE DEF e
<1>3. PICK item \in Items, x \in Seq(Items) :
        /\ w = <<item>> \o x /\ Accepts(e, item)
        /\ IsSequence(Opens(e, item)) /\ Readable(Opens(e, item), x)
  BY <1>2, ItemReads
<1>4. item.major = "array"
  BY <1>1, <1>3 DEF Accepts, Wanted
<1>5. PICK n : n = item.arg
  OBVIOUS
<1>6. item = Item("array", Shortest(n), n, 0) /\ n \in Listed /\ n \in Nat
  BY <1>3, <1>4, <1>5, AcceptedIs, ItemIs
<1> DEFINE es == [i \in 1 .. n |-> part]
<1>7. Opens(e, item) = es
  BY <1>1, <1>5 DEF Opens
<1>8. es = [i \in 1 .. n |-> es[i]] /\ \A i \in 1 .. n : es[i] = part
  OBVIOUS
<1> HIDE DEF es
<1>9. PICK ws : /\ \A i \in 1 .. n : ws[i] \in Seq(Items) /\ Readable(<<es[i]>>, ws[i])
                /\ x = Joint(ws, n)
  <2>1. ListReadAt(n) /\ Readable(es, x)
    BY <1>3, <1>6, <1>7, ListReads
  <2> QED
    BY <1>3, <1>8, <2>1 DEF ListReadAt
<1>10. w = WriteArray([i \in 1 .. n |-> ws[i]])
  BY <1>3, <1>6, <1>9, ArrayIs DEF WriteArrayHead, WriteHead
<1>11. \A i \in 1 .. n : ws[i] \in Seq(Items) /\ Readable(<<part>>, ws[i])
  BY <1>8, <1>9
<1> QED
  BY <1>6, <1>10, <1>11

LEMMA PairReads ==
  ASSUME NEW a, NEW b, NEW w \in Seq(Items), Readable(<<Tuple(<<a, b>>)>>, w)
  PROVE  \E u \in Seq(Items), v \in Seq(Items) :
           w = WriteArray(<<u, v>>) /\ Readable(<<a>>, u) /\ Readable(<<b>>, v)
<1> DEFINE es == <<a, b>>
<1>1. es = [i \in 1 .. 2 |-> es[i]] /\ es[1] = a /\ es[2] = b
  OBVIOUS
<1>2. Readable(<<Tuple(es)>>, w)
  OBVIOUS
<1> HIDE DEF es
<1>3. PICK ws : /\ \A i \in 1 .. 2 : ws[i] \in Seq(Items) /\ Readable(<<es[i]>>, ws[i])
                /\ w = WriteArray([i \in 1 .. 2 |-> ws[i]])
  <2>1. ReadInParts(es, 2, w)
    BY <1>1, <1>2, TupleReads DEF IsList
  <2> QED
    BY <2>1 DEF ReadInParts
<1>4. [i \in 1 .. 2 |-> ws[i]] = <<ws[1], ws[2]>>
  OBVIOUS
<1>5. 1 \in 1 .. 2 /\ 2 \in 1 .. 2
  OBVIOUS
<1> QED
  BY <1>1, <1>3, <1>4, <1>5

LEMMA TripleReads ==
  ASSUME NEW a, NEW b, NEW c, NEW w \in Seq(Items), Readable(<<Tuple(<<a, b, c>>)>>, w)
  PROVE  \E u \in Seq(Items), v \in Seq(Items), x \in Seq(Items) :
           /\ w = WriteArray(<<u, v, x>>)
           /\ Readable(<<a>>, u) /\ Readable(<<b>>, v) /\ Readable(<<c>>, x)
<1> DEFINE es == <<a, b, c>>
<1>1. es = [i \in 1 .. 3 |-> es[i]] /\ es[1] = a /\ es[2] = b /\ es[3] = c
  OBVIOUS
<1>2. Readable(<<Tuple(es)>>, w)
  OBVIOUS
<1> HIDE DEF es
<1>3. PICK ws : /\ \A i \in 1 .. 3 : ws[i] \in Seq(Items) /\ Readable(<<es[i]>>, ws[i])
                /\ w = WriteArray([i \in 1 .. 3 |-> ws[i]])
  <2>1. ReadInParts(es, 3, w)
    BY <1>1, <1>2, TupleReads DEF IsList
  <2> QED
    BY <2>1 DEF ReadInParts
<1>4. [i \in 1 .. 3 |-> ws[i]] = <<ws[1], ws[2], ws[3]>>
  OBVIOUS
<1>5. 1 \in 1 .. 3 /\ 2 \in 1 .. 3 /\ 3 \in 1 .. 3
  OBVIOUS
<1> QED
  BY <1>1, <1>3, <1>4, <1>5

LEMMA HlcReads ==
  ASSUME NEW w \in Seq(Items), Readable(<<ReadHlc>>, w)
  PROVE  \E h \in AnyHlc : w = WriteHlc(h)
<1>1. PICK u \in Seq(Items), v \in Seq(Items) :
        w = WriteArray(<<u, v>>) /\ Readable(<<Uint>>, u) /\ Readable(<<Uint>>, v)
  BY PairReads DEF ReadHlc
<1>2. PICK m \in U64 : u = WriteUint(m)
  BY <1>1, NumberReads
<1>3. PICK c \in U64 : v = WriteUint(c)
  BY <1>1, NumberReads
<1> DEFINE h == [wall_ms |-> m, counter |-> c]
<1>4. h \in AnyHlc /\ h.wall_ms = m /\ h.counter = c
  BY DEF AnyHlc
<1> HIDE DEF h
<1> QED
  BY <1>1, <1>2, <1>3, <1>4 DEF WriteHlc

LEMMA GeoReads ==
  ASSUME NEW w \in Seq(Items), Readable(<<ReadGeo>>, w)
  PROVE  \E g \in AnyGeo : w = WriteGeo(g)
<1>1. PICK u \in Seq(Items), v \in Seq(Items), x \in Seq(Items) :
        /\ w = WriteArray(<<u, v, x>>) /\ Readable(<<IntUpTo(I32Max)>>, u)
        /\ Readable(<<IntUpTo(I32Max)>>, v) /\ Readable(<<UintIn(0, Greatest[4])>>, x)
  BY TripleReads DEF ReadGeo
<1>2. PICK la \in Signed(I32Max) : u = WriteInt(la)
  BY <1>1, IntReads, LimitsAreNumbers
<1>3. PICK lo \in Signed(I32Max) : v = WriteInt(lo)
  BY <1>1, IntReads, LimitsAreNumbers
<1>4. PICK acc \in UpTo(Greatest[4]) : x = WriteUint(acc)
  BY <1>1, UintReads
<1> DEFINE g == [lat_udeg |-> la, lon_udeg |-> lo, acc_mm |-> acc]
<1>5. g \in AnyGeo /\ g.lat_udeg = la /\ g.lon_udeg = lo /\ g.acc_mm = acc
  BY DEF AnyGeo
<1> HIDE DEF g
<1> QED
  BY <1>1, <1>2, <1>3, <1>4, <1>5 DEF WriteGeo

LEMMA EntryReads ==
  ASSUME NEW w \in Seq(Items), Readable(<<ReadForkEntry>>, w)
  PROVE  \E e \in AnyEntry : w = WriteForkEntry(e)
<1>1. PICK u \in Seq(Items), v \in Seq(Items) :
        w = WriteArray(<<u, v>>) /\ Readable(<<AnyBytes>>, u) /\ Readable(<<BytesOf({64})>>, v)
  <2>1. PICK a, b : a = AnyBytes /\ b = BytesOf({64})
    OBVIOUS
  <2>2. Readable(<<Tuple(<<a, b>>)>>, w)
    BY <2>1 DEF ReadForkEntry
  <2>3. \E u \in Seq(Items), v \in Seq(Items) :
          w = WriteArray(<<u, v>>) /\ Readable(<<a>>, u) /\ Readable(<<b>>, v)
    BY <2>2, PairReads
  <2> QED
    BY <2>1, <2>3
<1>2. PICK length \in Length, rank \in Rank : u = WriteBytes(length, rank)
  BY <1>1, BytesRead
<1>3. PICK sig \in Rank : v = WriteBytes(64, sig)
  BY <1>1, OneLengthReads
<1> DEFINE e == [preimage |-> [length |-> length, rank |-> rank], sig |-> sig]
<1>4. e \in AnyEntry /\ e.preimage.length = length /\ e.preimage.rank = rank /\ e.sig = sig
  BY DEF AnyEntry
<1> HIDE DEF e
<1> QED
  BY <1>1, <1>2, <1>3, <1>4 DEF WriteForkEntry

LEMMA HashesRead ==
  ASSUME NEW w \in Seq(Items), Readable(<<Array(ReadHash)>>, w)
  PROVE  \E s \in Seq(Rank) : w = Hashes(s)
<1>0. PICK n \in Listed : \E ws :
        /\ \A i \in 1 .. n : ws[i] \in Seq(Items) /\ Readable(<<ReadHash>>, ws[i])
        /\ w = WriteArray([i \in 1 .. n |-> ws[i]]) /\ n \in Nat
  BY ArrayReads
<1>1. PICK ws :
        /\ \A i \in 1 .. n : ws[i] \in Seq(Items) /\ Readable(<<ReadHash>>, ws[i])
        /\ w = WriteArray([i \in 1 .. n |-> ws[i]]) /\ n \in Nat
  BY <1>0
<1>2. \A i \in 1 .. n : \E r \in Rank : ws[i] = Hash(r)
  BY <1>1, HashReads
<1> DEFINE s == [i \in 1 .. n |-> CHOOSE r \in Rank : ws[i] = Hash(r)]
<1>3. \A i \in 1 .. n : s[i] \in Rank /\ ws[i] = Hash(s[i])
  BY <1>2
<1>4. s \in [1 .. n -> Rank]
  BY <1>3
<1> HIDE DEF s
<1>5. s \in Seq(Rank) /\ DOMAIN s = 1 .. n
  BY <1>1, <1>4, SeqDef
<1>6. [i \in 1 .. n |-> ws[i]] = [i \in DOMAIN s |-> Hash(s[i])]
  BY <1>3, <1>5
<1> QED
  BY <1>1, <1>5, <1>6 DEF Hashes

-----------------------------------------------------------------------------
(***************************************************************************)
(* Maps, ascending lists and tables, read in as many steps as their heads  *)
(* say.                                                                    *)
(***************************************************************************)

LEMMA MissingIsNotRead ==
  ASSUME NEW w
  PROVE  ~Readable(<<Missing>>, w)
<1> SUFFICES ASSUME Readable(<<Missing>>, w) PROVE FALSE
  OBVIOUS
<1>1. Accepts(Missing, Head(w))
  <2> DEFINE E == <<Missing>>
  <2>1. E # <<>> /\ Head(E) = Missing /\ Readable(E, w)
    OBVIOUS
  <2> HIDE DEF E
  <2> QED
    BY <2>1, ReadableStep
<1>2. Head(w).major \in Wanted["missing"]
  BY <1>1 DEF Accepts, Missing
<1> QED
  BY <1>2 DEF Wanted

\* A map of n fields, of which the keys and fields F come first, and x after them.
MapReadTo(R, n, w, F, x) ==
  /\ DOMAIN F \in SUBSET Nat /\ IsFiniteSet(DOMAIN F) /\ DOMAIN F \subseteq DOMAIN R.of
  /\ F = [k \in DOMAIN F |-> F[k]]
  /\ \A k \in DOMAIN F : F[k] \in Seq(Items) /\ Readable(<<R.of[k]>>, F[k])
  /\ x \in Seq(Items) /\ w = Body([k \in DOMAIN F |-> Head1(k)], F) \o x
  /\ Readable(Keys(R, n - Cardinality(DOMAIN F), DOMAIN F), x)

LEMMA MapReadsOn ==
  ASSUME NEW R, NEW n \in Nat, NEW w, NEW F, NEW x, MapReadTo(R, n, w, F, x),
         Cardinality(DOMAIN F) < n
  PROVE  \E G, z : MapReadTo(R, n, w, G, z) /\ Cardinality(DOMAIN G) = Cardinality(DOMAIN F) + 1
<1> DEFINE D == DOMAIN F
           m == Cardinality(D)
           left == n - m
           key == [is |-> "key", fields |-> R, left |-> left, read |-> D]
<1>1. D \in SUBSET Nat /\ IsFiniteSet(D) /\ D \subseteq DOMAIN R.of
  BY DEF MapReadTo
<1>2. \A k \in D : F[k] \in Seq(Items) /\ Readable(<<R.of[k]>>, F[k])
  BY DEF MapReadTo
<1>3. x \in Seq(Items) /\ w = Body([k \in D |-> Head1(k)], F) \o x /\ Readable(Keys(R, left, D), x)
  BY DEF MapReadTo
<1>4. m \in Nat /\ left \in Nat /\ left > 0 /\ left - 1 \in Nat
  BY <1>1, FS_CardinalityType
<1>5. Keys(R, left, D) = <<key>>
  BY <1>4 DEF Keys
<1>6. key.is = "key" /\ key.fields = R /\ key.read = D /\ key.left = left
  OBVIOUS
<1> HIDE DEF key
<1>7. PICK item \in Items, y \in Seq(Items) :
        /\ x = <<item>> \o y /\ Accepts(key, item)
        /\ IsSequence(Opens(key, item)) /\ Readable(Opens(key, item), y)
  <2>1. Readable(<<key>>, x)
    BY <1>3, <1>5
  <2> QED
    BY <1>3, <2>1, ItemReads
<1>8. PICK k : k = item.arg
  OBVIOUS
<1>9. item = Head1(k) /\ k \in Nat /\ k \in DOMAIN R.of /\ \A j \in D : k > j
  <2>1. item.major \in Wanted["key"] /\ HeadOk(item) /\ item.arg \in DOMAIN R.of /\ After(item.arg, D)
    BY <1>6, <1>7 DEF Accepts
  <2>2. item.major = "uint"
    BY <2>1 DEF Wanted
  <2> QED
    BY <1>7, <1>8, <2>1, <2>2, AcceptedIs, ItemIs DEF Head1, After
<1>10. Opens(key, item) = <<R.of[k]>> \o Keys(R, left - 1, D \cup {k})
  BY <1>6, <1>8 DEF Opens
<1>11. PICK u \in Seq(Items), z \in Seq(Items) :
         y = u \o z /\ Readable(<<R.of[k]>>, u) /\ Readable(Keys(R, left - 1, D \cup {k}), z)
  <2>1. PICK A, B : A = <<R.of[k]>> /\ B = Keys(R, left - 1, D \cup {k})
    OBVIOUS
  <2>2. IsSequence(B)
    BY <1>4, <2>1, KeysAhead
  <2>3. IsSequence(A) /\ Readable(A \o B, y) /\ y \in Seq(Items)
    BY <1>7, <1>10, <2>1, OneIsSequence
  <2>4. \E u \in Seq(Items) : \E z \in Seq(Items) : y = u \o z /\ Readable(A, u) /\ Readable(B, z)
    BY ONLY <2>2, <2>3, ItemsReadInParts
  <2> QED
    BY <2>1, <2>4
<1> DEFINE G == [j \in D \cup {k} |-> IF j = k THEN u ELSE F[j]]
           heads == [j \in D |-> Head1(j)]
           heads2 == [j \in DOMAIN G |-> Head1(j)]
<1>12. /\ DOMAIN G = D \cup {k} /\ G[k] = u /\ (\A j \in D : G[j] = F[j])
       /\ G = [j \in DOMAIN G |-> G[j]]
  BY <1>9
<1>13. /\ D \cup {k} \in SUBSET Nat /\ IsFiniteSet(D \cup {k}) /\ Cardinality(D \cup {k}) = m + 1
  BY <1>1, <1>9, InOrderNext
<1> HIDE DEF G
<1>14. heads2[k] = item /\ \A j \in D : heads2[j] = heads[j]
  BY <1>9, <1>12
<1> HIDE DEF heads, heads2
<1>15. PICK v : v = <<item>> \o u
  OBVIOUS
<1>16. Body(heads2, G) = Body(heads, F) \o v
  <2>1. \A j \in D : IsSequence(F[j])
    BY <1>2 DEF IsSequence
  <2>2. AddsKey(F, heads, k, v, G, heads2)
    BY <1>1, <1>9, <1>11, <1>12, <1>14, <1>15, <2>1 DEF AddsKey, IsSequence
  <2> QED
    BY <2>2, BodyNext
<1>17. w = Body(heads2, G) \o z
  <2> DEFINE a == Body(heads, F)
             b == <<item>>
  <2>1. IsSequence(a)
    <3>1. DOMAIN F \in SUBSET Nat /\ IsFiniteSet(DOMAIN F) /\ \A j \in DOMAIN F : IsSequence(F[j])
      BY <1>1, <1>2 DEF IsSequence
    <3> QED
      BY ONLY <3>1, PartsOfFields
  <2>2. IsSequence(b) /\ IsSequence(u) /\ IsSequence(z) /\ IsSequence(v)
    BY <1>11, <1>15, OneIsSequence, JoinIsSequence DEF IsSequence
  <2>3. w = a \o (b \o (u \o z)) /\ v = b \o u
    BY <1>3, <1>7, <1>11, <1>15 DEF heads
  <2> HIDE DEF a, b
  <2>4. (b \o u) \o z = b \o (u \o z)
    BY ONLY <2>2, JoinAssociates
  <2>5. (a \o v) \o z = a \o (v \o z)
    <3>1. IsSequence(a) /\ IsSequence(v) /\ IsSequence(z)
      BY <2>1, <2>2
    <3> QED
      BY ONLY <3>1, JoinAssociates
  <2> QED
    BY <1>16, <2>3, <2>4, <2>5 DEF a
<1>18. \A j \in DOMAIN G : G[j] \in Seq(Items) /\ Readable(<<R.of[j]>>, G[j])
  BY <1>2, <1>11, <1>12
<1>19. Readable(Keys(R, n - Cardinality(DOMAIN G), DOMAIN G), z)
  <2>1. n - Cardinality(DOMAIN G) = left - 1
    BY <1>4, <1>12, <1>13
  <2> QED
    BY <1>11, <1>12, <2>1
<1>20. DOMAIN G \in SUBSET Nat /\ IsFiniteSet(DOMAIN G) /\ DOMAIN G \subseteq DOMAIN R.of
  BY <1>1, <1>9, <1>12, <1>13
<1>21. MapReadTo(R, n, w, G, z)
  BY <1>11, <1>12, <1>17, <1>18, <1>19, <1>20 DEF MapReadTo, heads2
<1> QED
  BY <1>12, <1>13, <1>21

\* A map is read as the writer writes its fields, each read for what it is.
MapReads(need, of, w, F) ==
  /\ DOMAIN F \in SUBSET Nat /\ IsFiniteSet(DOMAIN F) /\ F = [k \in DOMAIN F |-> F[k]]
  /\ need \subseteq DOMAIN F /\ DOMAIN F \subseteq DOMAIN of
  /\ \A k \in DOMAIN F : F[k] \in Seq(Items) /\ Readable(<<of[k]>>, F[k])
  /\ w = WriteFields(F)

LEMMA FieldsRead ==
  ASSUME NEW need, NEW of, NEW w \in Seq(Items), Readable(<<Fields(need, of)>>, w)
  PROVE  \E F : MapReads(need, of, w, F)
<1> DEFINE R == Fields(need, of)
<1>1. R.is = "fields" /\ R.need = need /\ R.of = of
  BY DEF Fields
<1>2. Readable(<<R>>, w)
  OBVIOUS
<1> HIDE DEF R
<1>3. PICK item \in Items, y \in Seq(Items) :
        /\ w = <<item>> \o y /\ Accepts(R, item)
        /\ IsSequence(Opens(R, item)) /\ Readable(Opens(R, item), y)
  BY <1>2, ItemReads
<1>4. item.major = "map"
  BY <1>1, <1>3 DEF Accepts, Wanted
<1>5. PICK n : n = item.arg
  OBVIOUS
<1>6. item = Item("map", Shortest(n), n, 0) /\ n \in Nat
  BY <1>3, <1>4, <1>5, AcceptedIs, ItemIs
<1>7. Opens(R, item) = Keys(R, n, {})
  BY <1>1, <1>5 DEF Opens
<1> DEFINE S == {m \in Nat : \E F, x : MapReadTo(R, n, y, F, x) /\ Cardinality(DOMAIN F) = m}
<1>8. 0 \in S
  <2>1. PICK F : F = <<>>
    OBVIOUS
  <2>2. DOMAIN F = {} /\ IsFiniteSet({}) /\ Cardinality({}) = 0
    BY <2>1, FS_EmptySet
  <2>3. F = [k \in DOMAIN F |-> F[k]]
    BY <2>1
  <2>4. y = Body([k \in DOMAIN F |-> Head1(k)], F) \o y
    <3>1. Body([k \in DOMAIN F |-> Head1(k)], F) = <<>>
      BY <2>2, JointSteps DEF Body
    <3> QED
      BY <3>1, JoinEmpty DEF IsSequence
  <2>5. n - 0 = n
    BY <1>6
  <2>6. MapReadTo(R, n, y, F, y)
    BY <1>3, <1>7, <2>2, <2>3, <2>4, <2>5 DEF MapReadTo
  <2> QED
    BY <2>2, <2>6
<1>9. \A m \in Nat : m \in S /\ m < n => m + 1 \in S
  <2> SUFFICES ASSUME NEW m \in Nat, m \in S, m < n PROVE m + 1 \in S
    OBVIOUS
  <2>1. PICK F, x : MapReadTo(R, n, y, F, x) /\ Cardinality(DOMAIN F) = m
    OBVIOUS
  <2>2. \E G, z : MapReadTo(R, n, y, G, z) /\ Cardinality(DOMAIN G) = Cardinality(DOMAIN F) + 1
    BY <1>6, <2>1, MapReadsOn
  <2> QED
    BY <2>1, <2>2
<1> HIDE DEF S
<1>10. n \in S
  BY <1>6, <1>8, <1>9, CountsUp
<1>11. PICK F, x : MapReadTo(R, n, y, F, x) /\ Cardinality(DOMAIN F) = n
  BY <1>10 DEF S
<1>12. Readable(Keys(R, 0, DOMAIN F), x) /\ x \in Seq(Items)
  <2>1. n - n = 0
    BY <1>6
  <2> QED
    BY <1>11, <2>1 DEF MapReadTo
<1>13. need \subseteq DOMAIN F /\ x = <<>>
  <2>1. Keys(R, 0, DOMAIN F) = IF need \subseteq DOMAIN F THEN <<>> ELSE <<Missing>>
    BY <1>1 DEF Keys
  <2> QED
    BY <1>12, <2>1, MissingIsNotRead, NothingReadable
<1>14. w = WriteFields(F)
  <2> DEFINE b == Body([k \in DOMAIN F |-> Head1(k)], F)
  <2>1. DOMAIN F \in SUBSET Nat /\ IsFiniteSet(DOMAIN F) /\ \A k \in DOMAIN F : IsSequence(F[k])
    BY <1>11 DEF MapReadTo, IsSequence
  <2>2. WriteFields(F) = WriteHead("map", Cardinality(DOMAIN F), 0) \o b
    BY ONLY <2>1, FieldsWritten
  <2>3. IsSequence(b)
    BY ONLY <2>1, PartsOfFields
  <2>4. y = b \o <<>>
    BY <1>11, <1>13 DEF MapReadTo
  <2> HIDE DEF b
  <2>5. y = b
    BY <2>3, <2>4, JoinEmpty
  <2> QED
    BY <1>3, <1>6, <1>11, <2>2, <2>5 DEF WriteHead
<1> QED
  BY <1>1, <1>11, <1>13, <1>14 DEF MapReadTo, MapReads

\* An ascending list of n hashes, of which the first m are s, and x comes after.
HashesReadTo(n, w, s, m, x) ==
  /\ Ascends(s, m) /\ (\A i \in 1 .. m : s[i] \in Rank) /\ x \in Seq(Items)
  /\ w = Joint([i \in 1 .. m |-> Hash(s[i])], m) \o x
  /\ Readable(Elements(n - m, IF m = 0 THEN {} ELSE {s[m]}), x)

\* One hash more at the end of a list.
LEMMA AscendsOn ==
  ASSUME NEW s, NEW m \in Nat, Ascends(s, m), NEW r \in Nat, m # 0 => r > s[m], NEW t,
         t = [i \in 1 .. m + 1 |-> IF i = m + 1 THEN r ELSE s[i]]
  PROVE  /\ Ascends(t, m + 1) /\ t[m + 1] = r /\ \A i \in 1 .. m : t[i] = s[i]
<1>1. t[m + 1] = r /\ \A i \in 1 .. m : t[i] = s[i] /\ i \in 1 .. m + 1
  OBVIOUS
<1>2. \A i \in 1 .. m : s[i] \in Nat /\ s[i] < r
  <2> SUFFICES ASSUME NEW i \in 1 .. m PROVE s[i] \in Nat /\ s[i] < r
    OBVIOUS
  <2>1. m \in 1 .. m /\ s[i] \in Nat /\ s[m] \in Nat /\ (i < m => s[i] < s[m]) /\ r > s[m]
    BY DEF Ascends
  <2>2. i = m \/ i < m
    OBVIOUS
  <2> QED
    BY <2>1, <2>2
<1>3. \A i \in 1 .. m + 1 : i = m + 1 \/ i \in 1 .. m
  OBVIOUS
<1>4. t = [i \in 1 .. m + 1 |-> t[i]]
  OBVIOUS
<1>5. \A i \in 1 .. m + 1 : t[i] \in Nat
  BY <1>1, <1>2, <1>3
<1>6. \A i, j \in 1 .. m + 1 : i < j => t[i] < t[j]
  <2> SUFFICES ASSUME NEW i \in 1 .. m + 1, NEW j \in 1 .. m + 1, i < j PROVE t[i] < t[j]
    OBVIOUS
  <2>1. i \in 1 .. m
    BY <1>3
  <2>2. CASE j = m + 1
    BY <1>1, <1>2, <2>1, <2>2
  <2>3. CASE j \in 1 .. m
    BY <1>1, <2>1, <2>3 DEF Ascends
  <2> QED
    BY <1>3, <2>2, <2>3
<1> QED
  BY <1>1, <1>4, <1>5, <1>6 DEF Ascends

\* The hash that an element or a row accepts.
LEMMA HashAccepted ==
  ASSUME NEW e, NEW last, e.is \in {"element", "row"}, e.last = last,
         NEW item \in Items, Accepts(e, item)
  PROVE  /\ item = Item("bytes", Shortest(32), 32, item.content) /\ item.content \in Rank
         /\ \A j \in last : item.content > j
<1>1. item.major = "bytes" /\ item.arg = 32 /\ After(item.content, last)
  BY DEF Accepts, Wanted
<1> QED
  BY <1>1, AcceptedIs, ItemIs DEF After

\* The parts of a list, with one more.
OneMore(m, p, q, y, w) ==
  /\ m \in Nat /\ (\A i \in 1 .. m : q[i] = p[i])
  /\ (\A i \in 1 .. m + 1 : IsSequence(q[i])) /\ IsSequence(y)
  /\ w = Joint(p, m) \o (q[m + 1] \o y)

LEMMA PartsOn ==
  ASSUME NEW m, NEW p, NEW q, NEW y, NEW w, OneMore(m, p, q, y, w)
  PROVE  w = Joint(q, m + 1) \o y
<1> USE DEF OneMore
<1>1. Joint(q, m + 1) = Joint(q, m) \o q[m + 1] /\ IsSequence(Joint(q, m)) /\ IsSequence(q[m + 1])
  BY JointNext
<1>2. Joint(p, m) = Joint(q, m)
  BY JointEqual
<1> DEFINE a == Joint(q, m)
           b == q[m + 1]
<1>3. IsSequence(a) /\ IsSequence(b) /\ IsSequence(y)
  BY <1>1
<1>4. w = a \o (b \o y) /\ Joint(q, m + 1) = a \o b
  BY <1>1, <1>2
<1> HIDE DEF a, b
<1>5. (a \o b) \o y = a \o (b \o y)
  BY ONLY <1>3, JoinAssociates
<1> QED
  BY <1>4, <1>5

LEMMA HashesReadOn ==
  ASSUME NEW n \in Nat, NEW w, NEW s, NEW m \in Nat, m < n, NEW x, HashesReadTo(n, w, s, m, x)
  PROVE  \E t, z : HashesReadTo(n, w, t, m + 1, z)
<1> DEFINE left == n - m
           last == IF m = 0 THEN {} ELSE {s[m]}
           e == [is |-> "element", left |-> left, last |-> last]
<1>1. left \in Nat /\ left # 0 /\ left - 1 \in Nat /\ left - 1 = n - (m + 1)
  OBVIOUS
<1>2. Ascends(s, m) /\ (\A i \in 1 .. m : s[i] \in Rank) /\ x \in Seq(Items)
      /\ w = Joint([i \in 1 .. m |-> Hash(s[i])], m) \o x /\ Readable(Elements(left, last), x)
  BY DEF HashesReadTo
<1>3. e.is = "element" /\ e.last = last /\ e.left = left
  OBVIOUS
<1>4. Elements(left, last) = <<e>>
  BY <1>1 DEF Elements
<1> HIDE DEF e
<1>5. PICK item \in Items, y \in Seq(Items) :
        /\ x = <<item>> \o y /\ Accepts(e, item)
        /\ IsSequence(Opens(e, item)) /\ Readable(Opens(e, item), y)
  <2>1. Readable(<<e>>, x)
    BY <1>2, <1>4
  <2> QED
    BY <1>2, <2>1, ItemReads
<1>6. PICK r : r = item.content
  OBVIOUS
<1>7. <<item>> = Hash(r) /\ r \in Rank /\ r \in Nat /\ \A j \in last : r > j
  <2>1. PICK l : l = last
    OBVIOUS
  <2>2. e.is \in {"element", "row"} /\ e.last = l /\ item \in Items /\ Accepts(e, item)
    BY <1>3, <1>5, <2>1
  <2>3. /\ item = Item("bytes", Shortest(32), 32, item.content) /\ item.content \in Rank
        /\ \A j \in l : item.content > j
    BY ONLY <2>2, HashAccepted
  <2> QED
    BY <1>6, <2>1, <2>3, NumbersAreNatural DEF Hash, WriteBytes, WriteHead
<1>8. Readable(Elements(left - 1, {r}), y)
  BY <1>3, <1>5, <1>6 DEF Opens
<1>9. PICK t : t = [i \in 1 .. m + 1 |-> IF i = m + 1 THEN r ELSE s[i]]
  OBVIOUS
<1>10. /\ Ascends(t, m + 1) /\ t[m + 1] = r /\ \A i \in 1 .. m : t[i] = s[i]
  BY <1>2, <1>7, <1>9, AscendsOn
<1>11. \A i \in 1 .. m + 1 : t[i] \in Rank
  <2> SUFFICES ASSUME NEW i \in 1 .. m + 1 PROVE t[i] \in Rank
    OBVIOUS
  <2>1. i = m + 1 \/ i \in 1 .. m
    OBVIOUS
  <2> QED
    BY <1>2, <1>7, <1>10, <2>1
<1> DEFINE p == [i \in 1 .. m |-> Hash(s[i])]
           q == [i \in 1 .. m + 1 |-> Hash(t[i])]
<1>12. \A i \in 1 .. m : q[i] = p[i]
  BY <1>10
<1>13. q[m + 1] = Hash(r) /\ \A i \in 1 .. m + 1 : q[i] = Hash(t[i])
  BY <1>10
<1>14. \A i \in 1 .. m + 1 : IsSequence(q[i])
  BY <1>13, OneIsSequence DEF Hash, WriteBytes, WriteHead
<1>15. w = Joint(p, m) \o x /\ x = q[m + 1] \o y
  BY <1>2, <1>5, <1>7, <1>13
<1> HIDE DEF p, q
<1>16. w = Joint(q, m + 1) \o y
  <2>1. OneMore(m, p, q, y, w)
    BY <1>5, <1>12, <1>14, <1>15 DEF OneMore, IsSequence
  <2> QED
    BY ONLY <2>1, PartsOn
<1>17. m + 1 # 0 /\ Readable(Elements(n - (m + 1), {t[m + 1]}), y)
  BY <1>1, <1>8, <1>10
<1>18. HashesReadTo(n, w, t, m + 1, y)
  BY <1>5, <1>10, <1>11, <1>16, <1>17 DEF HashesReadTo, q
<1> QED
  BY <1>18

\* An ascending list is read as the writer writes a set.
LEMMA AscendingReads ==
  ASSUME NEW least, NEW w \in Seq(Items), Readable(<<Ascending(least)>>, w)
  PROVE  \E S \in SUBSET Rank : /\ w = Hashes(InOrder(S))
                                /\ IsFiniteSet(S) /\ Cardinality(S) \in Nat /\ Cardinality(S) >= least
<1> DEFINE e == Ascending(least)
<1>1. e.is = "ascending" /\ e.least = least
  BY DEF Ascending
<1>2. Readable(<<e>>, w)
  OBVIOUS
<1> HIDE DEF e
<1>3. PICK item \in Items, y \in Seq(Items) :
        /\ w = <<item>> \o y /\ Accepts(e, item)
        /\ IsSequence(Opens(e, item)) /\ Readable(Opens(e, item), y)
  BY <1>2, ItemReads
<1>4. PICK n : n = item.arg
  OBVIOUS
<1>5. item.major = "array" /\ n >= least
  BY <1>1, <1>3, <1>4 DEF Accepts, Wanted
<1>6. item = Item("array", Shortest(n), n, 0) /\ n \in Nat
  BY <1>3, <1>4, <1>5, AcceptedIs, ItemIs
<1>7. Readable(Elements(n, {}), y)
  BY <1>1, <1>3, <1>4 DEF Opens
<1> DEFINE S == {m \in Nat : \E s, x : HashesReadTo(n, y, s, m, x)}
<1>8. 0 \in S
  <2>1. PICK s : s = <<>>
    OBVIOUS
  <2>2. Ascends(s, 0) /\ \A i \in 1 .. 0 : s[i] \in Rank
    BY <2>1 DEF Ascends
  <2>3. y = Joint([i \in 1 .. 0 |-> Hash(s[i])], 0) \o y
    BY JointSteps, JoinEmpty DEF IsSequence
  <2>4. n - 0 = n
    BY <1>6
  <2>5. HashesReadTo(n, y, s, 0, y)
    BY <1>3, <1>7, <2>2, <2>3, <2>4 DEF HashesReadTo
  <2> QED
    BY <2>5
<1>9. \A m \in Nat : m \in S /\ m < n => m + 1 \in S
  BY <1>6, HashesReadOn
<1> HIDE DEF S
<1>10. n \in S
  BY <1>6, <1>8, <1>9, CountsUp
<1>11. PICK s, x : HashesReadTo(n, y, s, n, x)
  BY <1>10 DEF S
<1>12. Ascends(s, n) /\ (\A i \in 1 .. n : s[i] \in Rank)
       /\ y = Joint([i \in 1 .. n |-> Hash(s[i])], n) \o x
  BY <1>11 DEF HashesReadTo
<1>13. x = <<>>
  <2>1. n - n = 0
    BY <1>6
  <2>2. \A last : Elements(0, last) = <<>>
    BY DEF Elements
  <2> QED
    BY <1>11, <2>1, <2>2, NothingReadable DEF HashesReadTo
<1> DEFINE A == {s[i] : i \in 1 .. n}
<1>14. A \in SUBSET Rank
  BY <1>12
<1>15. IsFiniteSet(A) /\ Cardinality(A) = n /\ InOrder(A) = s
  BY <1>6, <1>12, InOrderIs
<1>16. DOMAIN s = 1 .. n
  BY <1>12 DEF Ascends
<1> HIDE DEF A
<1> DEFINE p == [i \in 1 .. n |-> Hash(s[i])]
<1>17. p = [i \in 1 .. n |-> p[i]] /\ \A i \in 1 .. n : IsSequence(p[i])
  BY OneIsSequence DEF Hash, WriteBytes, WriteHead
<1>18. Hashes(InOrder(A)) = WriteArray([i \in 1 .. n |-> p[i]])
  BY <1>15, <1>16 DEF Hashes
<1>19. y = Joint(p, n) \o <<>>
  BY <1>12, <1>13
<1> HIDE DEF p
<1>20. y = Joint(p, n)
  BY <1>6, <1>17, <1>19, JointIsSequence, JoinEmpty
<1>21. w = Hashes(InOrder(A))
  BY <1>3, <1>6, <1>18, <1>20, ArrayIs DEF WriteArrayHead, WriteHead
<1> QED
  BY <1>5, <1>6, <1>14, <1>15, <1>21

\* Of a table of n rows, the first m have the keys s and the numbers c, and x
\* comes after.
RowsReadTo(n, w, s, c, m, x) ==
  /\ Ascends(s, m) /\ (\A i \in 1 .. m : s[i] \in Rank /\ c[i] \in U64) /\ x \in Seq(Items)
  /\ w = Joint([i \in 1 .. m |-> Row(s[i], c[i])], m) \o x
  /\ Readable(Rows(n - m, IF m = 0 THEN {} ELSE {s[m]}), x)

LEMMA RowIsSequence ==
  ASSUME NEW r, NEW k
  PROVE  IsSequence(Row(r, k))
<1>1. IsSequence(Hash(r)) /\ IsSequence(WriteUint(k))
  BY OneIsSequence DEF Hash, WriteBytes, WriteUint, WriteHead
<1> QED
  BY <1>1, JoinIsSequence DEF Row

LEMMA RowsReadOn ==
  ASSUME NEW n \in Nat, NEW w, NEW s, NEW c, NEW m \in Nat, m < n, NEW x,
         RowsReadTo(n, w, s, c, m, x)
  PROVE  \E t, d, z : RowsReadTo(n, w, t, d, m + 1, z)
<1> DEFINE left == n - m
           last == IF m = 0 THEN {} ELSE {s[m]}
           e == [is |-> "row", left |-> left, last |-> last]
<1>1. left \in Nat /\ left # 0 /\ left - 1 \in Nat /\ left - 1 = n - (m + 1)
  OBVIOUS
<1>2. Ascends(s, m) /\ (\A i \in 1 .. m : s[i] \in Rank /\ c[i] \in U64) /\ x \in Seq(Items)
      /\ w = Joint([i \in 1 .. m |-> Row(s[i], c[i])], m) \o x /\ Readable(Rows(left, last), x)
  BY DEF RowsReadTo
<1>3. e.is = "row" /\ e.last = last /\ e.left = left
  OBVIOUS
<1>4. Rows(left, last) = <<e>>
  BY <1>1 DEF Rows
<1> HIDE DEF e
<1>5. PICK item \in Items, y \in Seq(Items) :
        /\ x = <<item>> \o y /\ Accepts(e, item)
        /\ IsSequence(Opens(e, item)) /\ Readable(Opens(e, item), y)
  <2>1. Readable(<<e>>, x)
    BY <1>2, <1>4
  <2> QED
    BY <1>2, <2>1, ItemReads
<1>6. PICK r : r = item.content
  OBVIOUS
<1>7. <<item>> = Hash(r) /\ r \in Rank /\ r \in Nat /\ \A j \in last : r > j
  <2>1. PICK l : l = last
    OBVIOUS
  <2>2. e.is \in {"element", "row"} /\ e.last = l /\ item \in Items /\ Accepts(e, item)
    BY <1>3, <1>5, <2>1
  <2>3. /\ item = Item("bytes", Shortest(32), 32, item.content) /\ item.content \in Rank
        /\ \A j \in l : item.content > j
    BY ONLY <2>2, HashAccepted
  <2> QED
    BY <1>6, <2>1, <2>3, NumbersAreNatural DEF Hash, WriteBytes, WriteHead
<1>8. Opens(e, item) = <<Uint>> \o Rows(left - 1, {r})
  BY <1>3, <1>6 DEF Opens
<1>9. PICK u \in Seq(Items), z \in Seq(Items) :
        y = u \o z /\ Readable(<<Uint>>, u) /\ Readable(Rows(left - 1, {r}), z)
  <2>1. PICK A, B : A = <<Uint>> /\ B = Rows(left - 1, {r})
    OBVIOUS
  <2>2. IsSequence(B)
    BY <2>1, OneIsSequence, EmptyIsSequence DEF Rows
  <2>3. IsSequence(A) /\ IsSequence(B) /\ Readable(A \o B, y) /\ y \in Seq(Items)
    BY <1>5, <1>8, <2>1, <2>2, OneIsSequence
  <2>4. \E u \in Seq(Items) : \E z \in Seq(Items) : y = u \o z /\ Readable(A, u) /\ Readable(B, z)
    BY ONLY <2>3, ItemsReadInParts
  <2> QED
    BY <2>1, <2>4
<1>10. PICK k \in U64 : u = WriteUint(k)
  BY <1>9, NumberReads
<1>11. PICK t : t = [i \in 1 .. m + 1 |-> IF i = m + 1 THEN r ELSE s[i]]
  OBVIOUS
<1>12. PICK d : d = [i \in 1 .. m + 1 |-> IF i = m + 1 THEN k ELSE c[i]]
  OBVIOUS
<1>13. /\ Ascends(t, m + 1) /\ t[m + 1] = r /\ \A i \in 1 .. m : t[i] = s[i]
  BY <1>2, <1>7, <1>11, AscendsOn
<1>14. d[m + 1] = k /\ \A i \in 1 .. m : d[i] = c[i]
  BY <1>12
<1>15. \A i \in 1 .. m + 1 : t[i] \in Rank /\ d[i] \in U64
  <2> SUFFICES ASSUME NEW i \in 1 .. m + 1 PROVE t[i] \in Rank /\ d[i] \in U64
    OBVIOUS
  <2>1. i = m + 1 \/ i \in 1 .. m
    OBVIOUS
  <2> QED
    BY <1>2, <1>7, <1>10, <1>13, <1>14, <2>1
<1> DEFINE p == [i \in 1 .. m |-> Row(s[i], c[i])]
           q == [i \in 1 .. m + 1 |-> Row(t[i], d[i])]
<1>16. \A i \in 1 .. m : q[i] = p[i]
  BY <1>13, <1>14
<1>17. q[m + 1] = Row(r, k) /\ \A i \in 1 .. m + 1 : q[i] = Row(t[i], d[i])
  BY <1>13, <1>14
<1>18. \A i \in 1 .. m + 1 : IsSequence(q[i])
  BY <1>17, RowIsSequence
<1>19. w = Joint(p, m) \o x
  BY <1>2
<1> HIDE DEF p, q
<1>20. w = Joint(q, m + 1) \o z
  <2>1. x = q[m + 1] \o z
    <3>1. PICK a : a = Hash(r)
      OBVIOUS
    <3>2. IsSequence(a) /\ IsSequence(u) /\ IsSequence(z)
      BY <1>9, <3>1, OneIsSequence DEF IsSequence, Hash, WriteBytes, WriteHead
    <3>3. (a \o u) \o z = a \o (u \o z)
      BY ONLY <3>2, JoinAssociates
    <3>4. q[m + 1] = a \o u
      BY <1>10, <1>17, <3>1 DEF Row
    <3>5. x = a \o (u \o z)
      BY <1>5, <1>7, <1>9, <3>1
    <3> QED
      BY <3>3, <3>4, <3>5
  <2>2. OneMore(m, p, q, z, w)
    BY <1>9, <1>16, <1>18, <1>19, <2>1 DEF OneMore, IsSequence
  <2> QED
    BY ONLY <2>2, PartsOn
<1>21. m + 1 # 0 /\ Readable(Rows(n - (m + 1), {t[m + 1]}), z)
  BY <1>1, <1>9, <1>13
<1>22. RowsReadTo(n, w, t, d, m + 1, z)
  BY <1>9, <1>13, <1>15, <1>20, <1>21 DEF RowsReadTo, q
<1> QED
  BY <1>22

\* The function of ascending keys s to numbers c.
TableOf(f, s, c, n) ==
  /\ InOrder(DOMAIN f) = s /\ DOMAIN s = 1 .. n
  /\ \A i \in 1 .. n : s[i] \in DOMAIN f /\ f[s[i]] = c[i]

LEMMA FrontierOf ==
  ASSUME NEW n \in Nat, NEW s, NEW c, Ascends(s, n), \A i \in 1 .. n : s[i] \in Rank /\ c[i] \in U64
  PROVE  \E f \in AnyFrontier : TableOf(f, s, c, n)
<1> DEFINE K == {s[i] : i \in 1 .. n}
           f == [k \in K |-> c[CHOOSE i \in 1 .. n : s[i] = k]]
<1>1. \A i, j \in 1 .. n : s[i] = s[j] => i = j
  <2> SUFFICES ASSUME NEW i \in 1 .. n, NEW j \in 1 .. n, s[i] = s[j] PROVE i = j
    OBVIOUS
  <2>1. s[i] \in Nat /\ (i < j => s[i] < s[j]) /\ (j < i => s[j] < s[i])
    BY DEF Ascends
  <2> QED
    BY <2>1
<1>2. K \in SUBSET Rank
  OBVIOUS
<1>3. \A i \in 1 .. n : s[i] \in K /\ f[s[i]] = c[i]
  BY <1>1
<1>4. \A k \in K : f[k] \in U64
  <2> SUFFICES ASSUME NEW k \in K PROVE f[k] \in U64
    OBVIOUS
  <2>1. PICK i \in 1 .. n : s[i] = k
    OBVIOUS
  <2> QED
    BY <1>3, <2>1
<1>5. f \in [K -> U64] /\ DOMAIN f = K
  BY <1>4
<1>6. InOrder(K) = s
  BY InOrderIs
<1>7. DOMAIN s = 1 .. n
  BY DEF Ascends
<1> HIDE DEF K, f
<1>8. f \in AnyFrontier
  BY <1>2, <1>5 DEF AnyFrontier
<1> QED
  BY <1>3, <1>5, <1>6, <1>7, <1>8 DEF TableOf

\* A table is read as the writer writes a frontier.
LEMMA TableReads ==
  ASSUME NEW w \in Seq(Items), Readable(<<Table>>, w)
  PROVE  \E f \in AnyFrontier : w = WriteFrontier(f)
<1> DEFINE e == Table
<1>1. e.is = "table"
  BY DEF Table
<1>2. Readable(<<e>>, w)
  OBVIOUS
<1> HIDE DEF e
<1>3. PICK item \in Items, y \in Seq(Items) :
        /\ w = <<item>> \o y /\ Accepts(e, item)
        /\ IsSequence(Opens(e, item)) /\ Readable(Opens(e, item), y)
  BY <1>2, ItemReads
<1>4. PICK n : n = item.arg
  OBVIOUS
<1>5. item.major = "map"
  BY <1>1, <1>3, <1>4 DEF Accepts, Wanted
<1>6. item = Item("map", Shortest(n), n, 0) /\ n \in Nat
  BY <1>3, <1>4, <1>5, AcceptedIs, ItemIs
<1>7. Readable(Rows(n, {}), y)
  BY <1>1, <1>3, <1>4 DEF Opens
<1> DEFINE S == {m \in Nat : \E s, c, x : RowsReadTo(n, y, s, c, m, x)}
<1>8. 0 \in S
  <2>1. PICK s, c : s = <<>> /\ c = <<>>
    OBVIOUS
  <2>2. Ascends(s, 0) /\ \A i \in 1 .. 0 : s[i] \in Rank /\ c[i] \in U64
    BY <2>1 DEF Ascends
  <2>3. y = Joint([i \in 1 .. 0 |-> Row(s[i], c[i])], 0) \o y
    BY JointSteps, JoinEmpty DEF IsSequence
  <2>4. n - 0 = n
    BY <1>6
  <2>5. RowsReadTo(n, y, s, c, 0, y)
    BY <1>3, <1>7, <2>2, <2>3, <2>4 DEF RowsReadTo
  <2> QED
    BY <2>5
<1>9. \A m \in Nat : m \in S /\ m < n => m + 1 \in S
  BY <1>6, RowsReadOn
<1> HIDE DEF S
<1>10. n \in S
  BY <1>6, <1>8, <1>9, CountsUp
<1>11. PICK s, c, x : RowsReadTo(n, y, s, c, n, x)
  BY <1>10 DEF S
<1>12. Ascends(s, n) /\ (\A i \in 1 .. n : s[i] \in Rank /\ c[i] \in U64)
       /\ y = Joint([i \in 1 .. n |-> Row(s[i], c[i])], n) \o x
  BY <1>11 DEF RowsReadTo
<1>13. x = <<>>
  <2>1. n - n = 0
    BY <1>6
  <2>2. \A last : Rows(0, last) = <<>>
    BY DEF Rows
  <2> QED
    BY <1>11, <2>1, <2>2, NothingReadable DEF RowsReadTo
<1>14. PICK f \in AnyFrontier : TableOf(f, s, c, n)
  <2>1. n \in Nat /\ Ascends(s, n) /\ \A i \in 1 .. n : s[i] \in Rank /\ c[i] \in U64
    BY <1>6, <1>12
  <2> QED
    BY ONLY <2>1, FrontierOf
<1>15. /\ InOrder(DOMAIN f) = s /\ DOMAIN s = 1 .. n
       /\ \A i \in 1 .. n : s[i] \in DOMAIN f /\ f[s[i]] = c[i]
  BY <1>14 DEF TableOf
<1> DEFINE p == [i \in 1 .. n |-> Row(s[i], f[s[i]])]
<1>16. y = Joint(p, n) \o <<>>
  <2>1. p = [i \in 1 .. n |-> Row(s[i], c[i])]
    BY <1>15
  <2> QED
    BY <1>12, <1>13, <2>1
<1>17. p = [i \in 1 .. n |-> p[i]] /\ \A i \in 1 .. n : IsSequence(p[i])
  BY RowIsSequence
<1> HIDE DEF p
<1>18. y = Joint(p, n)
  BY <1>6, <1>16, <1>17, JointIsSequence, JoinEmpty
<1>19. WriteFrontier(f) = WriteHead("map", n, 0) \o Joint(p, n)
  <2>1. KeysOf(f, n, s)
    BY <1>6, <1>12, <1>15 DEF Ascends, KeysOf
  <2> QED
    BY <2>1, FrontierWritten DEF p
<1>20. w = WriteFrontier(f)
  BY <1>3, <1>6, <1>18, <1>19 DEF WriteHead
<1> QED
  BY <1>14, <1>20

-----------------------------------------------------------------------------
\* Bodies: a union is read as the writer writes its variant and its body.
LEMMA UnionReads ==
  ASSUME NEW of, NEW w \in Seq(Items), Readable(<<Union(of)>>, w)
  PROVE  \E v \in DOMAIN of, x \in Seq(Items) :
           w = WriteArray(<<WriteUint(v), x>>) /\ Readable(<<of[v]>>, x)
<1> DEFINE e == Union(of)
           f == Variant(of)
<1>1. e.is = "union" /\ e.of = of /\ f.is = "variant" /\ f.of = of
  BY DEF Union, Variant
<1>2. Readable(<<e>>, w)
  OBVIOUS
<1>3. f = Variant(of)
  OBVIOUS
<1> HIDE DEF e, f
<1>4. PICK item \in Items, y \in Seq(Items) :
        w = <<item>> \o y /\ Accepts(e, item) /\ Readable(Opens(e, item), y)
  BY <1>2, ItemReads
<1>5. item.major = "array" /\ item.arg = 2
  BY <1>1, <1>4 DEF Accepts, Wanted
<1>6. <<item>> = WriteArrayHead(2)
  <2>1. item = Item("array", Shortest(2), 2, 0)
    BY <1>4, <1>5, AcceptedIs, ItemIs
  <2> QED
    BY <2>1 DEF WriteArrayHead, WriteHead
<1>7. Readable(<<f>>, y)
  BY <1>1, <1>3, <1>4 DEF Opens
<1>8. PICK second \in Items, x \in Seq(Items) :
        y = <<second>> \o x /\ Accepts(f, second) /\ Readable(Opens(f, second), x)
  BY <1>7, ItemReads
<1>9. PICK v : v = second.arg
  OBVIOUS
<1>10. second.major = "uint" /\ v \in DOMAIN of
  BY <1>1, <1>8, <1>9 DEF Accepts, Wanted
<1>11. <<second>> = WriteUint(v)
  <2>1. second = Item("uint", Shortest(v), v, 0)
    BY <1>8, <1>9, <1>10, AcceptedIs, ItemIs
  <2> QED
    BY <2>1 DEF WriteUint, WriteHead
<1>12. Readable(<<of[v]>>, x)
  BY <1>1, <1>8, <1>9 DEF Opens
<1>13. w = WriteArray(<<WriteUint(v), x>>)
  BY <1>4, <1>6, <1>8, <1>11, PairIs
<1> QED
  BY <1>10, <1>12, <1>13

\* A map that has just the fields 1 .. n.
LEMMA AllFieldsRead ==
  ASSUME NEW n, NEW of, DOMAIN of = 1 .. n, NEW w \in Seq(Items),
         Readable(<<Fields(1 .. n, of)>>, w)
  PROVE  \E F : /\ F = [k \in 1 .. n |-> F[k]] /\ w = WriteFields(F)
                /\ \A k \in 1 .. n : F[k] \in Seq(Items) /\ Readable(<<of[k]>>, F[k])
<1>1. PICK F : MapReads(1 .. n, of, w, F)
  BY FieldsRead
<1>2. DOMAIN F = 1 .. n
  BY <1>1 DEF MapReads
<1> QED
  BY <1>1, <1>2 DEF MapReads

\* The reader of each variant's body.
LEMMA NoteReads ==
  ASSUME NEW w \in Seq(Items), Readable(<<Fields({1}, <<Text>>)>>, w)
  PROVE  \E b \in AnyBody : b.variant = 0 /\ w = WriteFields(BodyFields(b))
<1> DEFINE of == <<Text>>
<1>1. DOMAIN of = 1 .. 1 /\ of[1] = Text /\ 1 .. 1 = {1} /\ 1 \in 1 .. 1
  OBVIOUS
<1>2. Readable(<<Fields(1 .. 1, of)>>, w)
  BY <1>1
<1> HIDE DEF of
<1>3. PICK F : /\ F = [k \in 1 .. 1 |-> F[k]] /\ w = WriteFields(F)
               /\ \A k \in 1 .. 1 : F[k] \in Seq(Items) /\ Readable(<<of[k]>>, F[k])
  BY <1>1, <1>2, AllFieldsRead
<1>4. PICK t \in Rank : F[1] = WriteText(t, t)
  BY <1>1, <1>3, TextReads
<1> DEFINE b == Note(t)
<1>5. b \in AnyBody
  BY DEF AnyBody
<1>6. b.variant = 0 /\ b.text = t
  BY DEF Note
<1> HIDE DEF b
<1>7. F = <<F[1]>>
  BY <1>3
<1>8. F = BodyFields(b)
  BY <1>4, <1>6, <1>7 DEF BodyFields
<1> QED
  BY <1>3, <1>5, <1>6, <1>8

LEMMA VoiceReads ==
  ASSUME NEW w \in Seq(Items), Readable(<<Fields({1, 2}, <<Text, ReadHash>>)>>, w)
  PROVE  \E b \in AnyBody : b.variant = 1 /\ w = WriteFields(BodyFields(b))
<1> DEFINE of == <<Text, ReadHash>>
<1>1. /\ DOMAIN of = 1 .. 2 /\ of[1] = Text /\ of[2] = ReadHash
      /\ 1 .. 2 = {1, 2} /\ 1 \in 1 .. 2 /\ 2 \in 1 .. 2
  OBVIOUS
<1>2. Readable(<<Fields(1 .. 2, of)>>, w)
  BY <1>1
<1> HIDE DEF of
<1>3. PICK F : /\ F = [k \in 1 .. 2 |-> F[k]] /\ w = WriteFields(F)
               /\ \A k \in 1 .. 2 : F[k] \in Seq(Items) /\ Readable(<<of[k]>>, F[k])
  BY <1>1, <1>2, AllFieldsRead
<1>4. PICK t \in Rank : F[1] = WriteText(t, t)
  BY <1>1, <1>3, TextReads
<1>5. PICK a \in Rank : F[2] = Hash(a)
  BY <1>1, <1>3, HashReads
<1> DEFINE b == Voice(t, a)
<1>6. b \in AnyBody
  BY DEF AnyBody
<1>7. b.variant = 1 /\ b.transcript = t /\ b.audio = a
  BY DEF Voice
<1> HIDE DEF b
<1>8. F = <<F[1], F[2]>>
  BY <1>3
<1>9. F = BodyFields(b)
  BY <1>4, <1>5, <1>7, <1>8 DEF BodyFields
<1> QED
  BY <1>3, <1>6, <1>7, <1>9

LEMMA SensorReads ==
  ASSUME NEW w \in Seq(Items),
         Readable(<<Fields({1, 2}, <<BytesOf({16}), Tuple(<<IntUpTo(I64Max), IntUpTo(I64Max)>>)>>)>>, w)
  PROVE  \E b \in AnyBody : b.variant = 4 /\ w = WriteFields(BodyFields(b))
<1> DEFINE pair == Tuple(<<IntUpTo(I64Max), IntUpTo(I64Max)>>)
           of == <<BytesOf({16}), pair>>
<1>1. /\ DOMAIN of = 1 .. 2 /\ of[1] = BytesOf({16}) /\ of[2] = pair
      /\ 1 .. 2 = {1, 2} /\ 1 \in 1 .. 2 /\ 2 \in 1 .. 2
  OBVIOUS
<1>2. Readable(<<Fields(1 .. 2, of)>>, w)
  BY <1>1
<1> HIDE DEF of
<1>3. PICK F : /\ F = [k \in 1 .. 2 |-> F[k]] /\ w = WriteFields(F)
               /\ \A k \in 1 .. 2 : F[k] \in Seq(Items) /\ Readable(<<of[k]>>, F[k])
  BY <1>1, <1>2, AllFieldsRead
<1>4. PICK s \in Rank : F[1] = WriteBytes(16, s)
  BY <1>1, <1>3, OneLengthReads
<1>5. PICK u \in Seq(Items), v \in Seq(Items) :
        /\ F[2] = WriteArray(<<u, v>>) /\ Readable(<<IntUpTo(I64Max)>>, u)
        /\ Readable(<<IntUpTo(I64Max)>>, v)
  BY <1>1, <1>3, PairReads
<1>6. PICK m \in Signed(I64Max) : u = WriteInt(m)
  BY <1>5, IntReads, LimitsAreNumbers
<1>7. PICK x \in Signed(I64Max) : v = WriteInt(x)
  BY <1>5, IntReads, LimitsAreNumbers
<1> DEFINE b == Sensor(s, m, x)
<1>8. b \in AnyBody
  BY DEF AnyBody
<1>9. b.variant = 4 /\ b.source = s /\ b.mantissa = m /\ b.exponent = x
  BY DEF Sensor
<1> HIDE DEF b
<1>10. F = <<F[1], F[2]>>
  BY <1>3
<1>11. F = BodyFields(b)
  BY <1>4, <1>5, <1>6, <1>7, <1>9, <1>10 DEF BodyFields
<1> QED
  BY <1>3, <1>8, <1>9, <1>11

LEMMA PresenceReads ==
  ASSUME NEW w \in Seq(Items),
         Readable(<<Fields({1, 2, 3}, <<BytesOf({16}), BytesOf({16}), UintIn(0, 1)>>)>>, w)
  PROVE  \E b \in AnyBody : b.variant = 5 /\ w = WriteFields(BodyFields(b))
<1> DEFINE of == <<BytesOf({16}), BytesOf({16}), UintIn(0, 1)>>
<1>1. /\ DOMAIN of = 1 .. 3 /\ of[1] = BytesOf({16}) /\ of[2] = BytesOf({16})
      /\ of[3] = UintIn(0, 1) /\ 1 .. 3 = {1, 2, 3}
      /\ 1 \in 1 .. 3 /\ 2 \in 1 .. 3 /\ 3 \in 1 .. 3
  OBVIOUS
<1>2. Readable(<<Fields(1 .. 3, of)>>, w)
  BY <1>1
<1> HIDE DEF of
<1>3. PICK F : /\ F = [k \in 1 .. 3 |-> F[k]] /\ w = WriteFields(F)
               /\ \A k \in 1 .. 3 : F[k] \in Seq(Items) /\ Readable(<<of[k]>>, F[k])
  BY <1>1, <1>2, AllFieldsRead
<1>4. PICK a \in Rank : F[1] = WriteBytes(16, a)
  BY <1>1, <1>3, OneLengthReads
<1>5. PICK z \in Rank : F[2] = WriteBytes(16, z)
  BY <1>1, <1>3, OneLengthReads
<1>6. PICK n \in UpTo(1) : F[3] = WriteUint(n)
  BY <1>1, <1>3, UintReads
<1>7. n \in {0, 1}
  <2>1. n \in Nat /\ n <= 1
    BY NumbersAreNatural DEF UpTo
  <2> QED
    BY <2>1
<1> DEFINE event == IF n = 0 THEN "Enter" ELSE "Exit"
           b == Presence(a, z, event)
<1>8. b \in AnyBody
  BY DEF AnyBody
<1>9. b.variant = 5 /\ b.actor = a /\ b.zone = z /\ b.event = event
  BY DEF Presence
<1>10. n = IF event = "Enter" THEN 0 ELSE 1
  BY <1>7
<1> HIDE DEF b, event
<1>11. F = <<F[1], F[2], F[3]>>
  BY <1>3
<1>12. F = BodyFields(b)
  BY <1>4, <1>5, <1>6, <1>9, <1>10, <1>11 DEF BodyFields
<1> QED
  BY <1>3, <1>8, <1>9, <1>12

\* The caption of a medium may be absent.
LEMMA MediaReads ==
  ASSUME NEW w \in Seq(Items), Readable(<<Fields({1, 2}, <<ReadHash, Uint, Text>>)>>, w)
  PROVE  \E b \in AnyBody : b.variant = 2 /\ w = WriteFields(BodyFields(b))
<1> DEFINE of == <<ReadHash, Uint, Text>>
<1>1. DOMAIN of = {1, 2, 3} /\ of[1] = ReadHash /\ of[2] = Uint /\ of[3] = Text
  OBVIOUS
<1>2. Readable(<<Fields({1, 2}, of)>>, w)
  OBVIOUS
<1> HIDE DEF of
<1>3. PICK F : MapReads({1, 2}, of, w, F)
  BY <1>2, FieldsRead
<1>4. /\ {1, 2} \subseteq DOMAIN F /\ DOMAIN F \subseteq {1, 2, 3} /\ F = [k \in DOMAIN F |-> F[k]]
      /\ \A k \in DOMAIN F : F[k] \in Seq(Items) /\ Readable(<<of[k]>>, F[k])
      /\ w = WriteFields(F)
  BY <1>1, <1>3 DEF MapReads
<1>5. PICK h \in Rank : F[1] = Hash(h)
  BY <1>1, <1>4, HashReads
<1>6. PICK n \in U64 : F[2] = WriteUint(n)
  BY <1>1, <1>4, NumberReads
<1>7. PICK c \in Rank \cup {None} :
        DOMAIN F = {1, 2} \cup Optional(c, 3) /\ (3 \in DOMAIN F => F[3] = WriteText(c, c))
  <2>1. CASE 3 \in DOMAIN F
    <3>1. PICK t \in Rank : F[3] = WriteText(t, t)
      BY <1>1, <1>4, <2>1, TextReads
    <3>2. DOMAIN F = {1, 2} \cup Optional(t, 3)
      BY <1>4, <2>1, NoneAssumption DEF Optional
    <3> QED
      BY <3>1, <3>2
  <2>2. CASE 3 \notin DOMAIN F
    <3>1. DOMAIN F = {1, 2} \cup Optional(None, 3)
      BY <1>4, <2>2 DEF Optional
    <3> QED
      BY <2>2, <3>1
  <2> QED
    BY <2>1, <2>2
<1> DEFINE b == Media(h, n, c)
<1>8. b \in AnyBody
  BY DEF AnyBody
<1>9. b.variant = 2 /\ b.blob = h /\ b.kind = n /\ b.caption = c
  BY DEF Media
<1> HIDE DEF b
<1> DEFINE G == BodyFields(b)
<1>10. /\ G = [k \in DOMAIN G |-> G[k]] /\ DOMAIN G = {1, 2} \cup Optional(c, 3)
       /\ G[1] = Hash(h) /\ G[2] = WriteUint(n)
       /\ 3 \in DOMAIN G => G[3] = WriteText(c, c)
  BY <1>9 DEF BodyFields, Optional
<1> HIDE DEF G
<1>11. \A k \in DOMAIN F : F[k] = G[k]
  <2>1. \A k \in DOMAIN F : k = 1 \/ k = 2 \/ k = 3
    BY <1>4
  <2> QED
    BY <1>5, <1>6, <1>7, <1>10, <2>1
<1>12. F = G
  BY <1>4, <1>7, <1>10, <1>11
<1> QED
  BY <1>4, <1>8, <1>9, <1>12 DEF G

LEMMA BodyReads ==
  ASSUME NEW w \in Seq(Items), Readable(<<ReadBody>>, w)
  PROVE  \E b \in AnyBody : w = WriteBody(b)
<1> DEFINE of == [v \in {0, 1, 2, 4, 5} |->
     CASE v = 0 -> Fields({1}, <<Text>>)
       [] v = 1 -> Fields({1, 2}, <<Text, ReadHash>>)
       [] v = 2 -> Fields({1, 2}, <<ReadHash, Uint, Text>>)
       [] v = 4 -> Fields({1, 2}, <<BytesOf({16}), Tuple(<<IntUpTo(I64Max), IntUpTo(I64Max)>>)>>)
       [] v = 5 -> Fields({1, 2, 3}, <<BytesOf({16}), BytesOf({16}), UintIn(0, 1)>>)]
<1>1. Readable(<<Union(of)>>, w)
  BY DEF ReadBody
<1>2. DOMAIN of = {0, 1, 2, 4, 5}
  OBVIOUS
<1>3. /\ of[0] = Fields({1}, <<Text>>)
      /\ of[1] = Fields({1, 2}, <<Text, ReadHash>>)
      /\ of[2] = Fields({1, 2}, <<ReadHash, Uint, Text>>)
      /\ of[4] = Fields({1, 2}, <<BytesOf({16}), Tuple(<<IntUpTo(I64Max), IntUpTo(I64Max)>>)>>)
      /\ of[5] = Fields({1, 2, 3}, <<BytesOf({16}), BytesOf({16}), UintIn(0, 1)>>)
  OBVIOUS
<1> HIDE DEF of
<1>4. PICK v \in DOMAIN of, x \in Seq(Items) :
        w = WriteArray(<<WriteUint(v), x>>) /\ Readable(<<of[v]>>, x)
  BY <1>1, UnionReads
<1>5. \E b \in AnyBody : b.variant = v /\ x = WriteFields(BodyFields(b))
  <2>1. CASE v = 0
    BY <1>3, <1>4, <2>1, NoteReads
  <2>2. CASE v = 1
    BY <1>3, <1>4, <2>2, VoiceReads
  <2>3. CASE v = 2
    BY <1>3, <1>4, <2>3, MediaReads
  <2>4. CASE v = 4
    BY <1>3, <1>4, <2>4, SensorReads
  <2>5. CASE v = 5
    BY <1>3, <1>4, <2>5, PresenceReads
  <2> QED
    BY <1>2, <1>4, <2>1, <2>2, <2>3, <2>4, <2>5
<1> QED
  BY <1>4, <1>5 DEF WriteBody

-----------------------------------------------------------------------------
(***************************************************************************)
(* Objects: the fields read of one are what the writer writes of one.      *)
(***************************************************************************)

\* F has what the reader R of maps has read.
ReadAs(R, F) ==
  /\ F = [k \in DOMAIN F |-> F[k]] /\ R.need \subseteq DOMAIN F /\ DOMAIN F \subseteq DOMAIN R.of
  /\ \A k \in DOMAIN F : F[k] \in Seq(Items) /\ Readable(<<R.of[k]>>, F[k])

LEMMA GeoFieldReads ==
  ASSUME NEW F, 7 \in DOMAIN F => F[7] \in Seq(Items) /\ Readable(<<ReadGeo>>, F[7])
  PROVE  \E g \in AnyGeo \cup {None} :
           /\ 7 \in DOMAIN F <=> g # None
           /\ 7 \in DOMAIN F => F[7] = WriteGeo(g)
<1>1. CASE 7 \in DOMAIN F
  <2>1. PICK g \in AnyGeo : F[7] = WriteGeo(g)
    BY <1>1, GeoReads
  <2>2. g # None
    BY NoneAssumption
  <2> QED
    BY <1>1, <2>1, <2>2
<1>2. CASE 7 \notin DOMAIN F
  BY <1>2
<1> QED
  BY <1>1, <1>2

LEMMA AcksFieldReads ==
  ASSUME NEW F, 8 \in DOMAIN F => F[8] \in Seq(Items) /\ Readable(<<ReadAcks>>, F[8])
  PROVE  \E S \in SUBSET Rank :
           /\ 8 \in DOMAIN F <=> S # {}
           /\ 8 \in DOMAIN F => F[8] = Hashes(InOrder(S))
<1>1. CASE 8 \in DOMAIN F
  <2>1. PICK S \in SUBSET Rank : /\ F[8] = Hashes(InOrder(S))
                                 /\ IsFiniteSet(S) /\ Cardinality(S) \in Nat /\ Cardinality(S) >= 1
    BY <1>1, AscendingReads DEF ReadAcks
  <2>2. S # {}
    BY <2>1, FS_EmptySet
  <2> QED
    BY <1>1, <2>1, <2>2
<1>2. CASE 8 \notin DOMAIN F
  BY <1>2
<1> QED
  BY <1>1, <1>2

LEMMA ObservationIsRead ==
  ASSUME NEW F, ReadAs(ObservationReader, F)
  PROVE  \E o \in AnyObservation : F = ObservationFields(o)
<1> DEFINE R == ObservationReader
<1>1. /\ R.need = 1 .. 6 /\ DOMAIN R.of = 1 .. 8
      /\ R.of[1] = ReadHash /\ R.of[2] = BytesOf({16}) /\ R.of[3] = BytesOf({0, 32})
      /\ R.of[4] = Uint /\ R.of[5] = ReadHlc /\ R.of[6] = ReadBody
      /\ R.of[7] = ReadGeo /\ R.of[8] = ReadAcks
  BY DEF ObservationReader, Fields
<1> HIDE DEF R
<1>2. /\ F = [k \in DOMAIN F |-> F[k]] /\ 1 .. 6 \subseteq DOMAIN F /\ DOMAIN F \subseteq 1 .. 8
      /\ \A k \in DOMAIN F : F[k] \in Seq(Items) /\ Readable(<<R.of[k]>>, F[k])
  BY <1>1 DEF ReadAs, R
<1>3. /\ 1 \in DOMAIN F /\ 2 \in DOMAIN F /\ 3 \in DOMAIN F
      /\ 4 \in DOMAIN F /\ 5 \in DOMAIN F /\ 6 \in DOMAIN F
  BY <1>2
<1>4. PICK author \in Rank : F[1] = Hash(author)
  BY <1>1, <1>2, <1>3, HashReads
<1>5. PICK site \in Rank : F[2] = WriteBytes(16, site)
  BY <1>1, <1>2, <1>3, OneLengthReads
<1>6. PICK prev \in Rank \cup {None} : F[3] = WritePrev(prev)
  BY <1>1, <1>2, <1>3, PrevReads
<1>7. PICK seq \in U64 : F[4] = WriteUint(seq)
  BY <1>1, <1>2, <1>3, NumberReads
<1>8. PICK hlc \in AnyHlc : F[5] = WriteHlc(hlc)
  BY <1>1, <1>2, <1>3, HlcReads
<1>9. PICK body \in AnyBody : F[6] = WriteBody(body)
  BY <1>1, <1>2, <1>3, BodyReads
<1>10. PICK geo \in AnyGeo \cup {None} :
         (7 \in DOMAIN F <=> geo # None) /\ (7 \in DOMAIN F => F[7] = WriteGeo(geo))
  <2>1. 7 \in DOMAIN F => F[7] \in Seq(Items) /\ Readable(<<ReadGeo>>, F[7])
    BY <1>1, <1>2
  <2> QED
    BY ONLY <2>1, GeoFieldReads
<1>11. PICK acks \in SUBSET Rank :
         (8 \in DOMAIN F <=> acks # {}) /\ (8 \in DOMAIN F => F[8] = Hashes(InOrder(acks)))
  <2>1. 8 \in DOMAIN F => F[8] \in Seq(Items) /\ Readable(<<ReadAcks>>, F[8])
    BY <1>1, <1>2
  <2> QED
    BY ONLY <2>1, AcksFieldReads
<1> DEFINE o == [author |-> author, site |-> site, prev |-> prev, seq |-> seq, hlc |-> hlc,
                 body |-> body, geo |-> geo, acks |-> acks]
<1>12. o \in AnyObservation
  BY DEF AnyObservation
<1>13. /\ o.author = author /\ o.site = site /\ o.prev = prev /\ o.seq = seq /\ o.hlc = hlc
       /\ o.body = body /\ o.geo = geo /\ o.acks = acks
  OBVIOUS
<1> HIDE DEF o
<1> DEFINE G == ObservationFields(o)
<1>14. DOMAIN G = DOMAIN F
  <2>1. DOMAIN G = 1 .. 6 \cup Optional(geo, 7) \cup NotEmpty(acks, 8)
    BY <1>13 DEF ObservationFields
  <2>2. DOMAIN F = 1 .. 6 \cup Optional(geo, 7) \cup NotEmpty(acks, 8)
    <3>1. \A k : k \in 1 .. 8 <=> k \in 1 .. 6 \/ k = 7 \/ k = 8
      OBVIOUS
    <3> QED
      BY <1>2, <1>10, <1>11, <3>1 DEF Optional, NotEmpty
  <2> QED
    BY <2>1, <2>2
<1>15. \A k \in DOMAIN G :
         G[k] = CASE k = 1 -> Hash(o.author)
                  [] k = 2 -> WriteBytes(16, o.site)
                  [] k = 3 -> WritePrev(o.prev)
                  [] k = 4 -> WriteUint(o.seq)
                  [] k = 5 -> WriteHlc(o.hlc)
                  [] k = 6 -> WriteBody(o.body)
                  [] k = 7 -> WriteGeo(o.geo)
                  [] k = 8 -> Hashes(InOrder(o.acks))
  BY DEF ObservationFields
<1>16. G = [k \in DOMAIN G |-> G[k]]
  <2> DEFINE D == 1 .. 6 \cup Optional(o.geo, 7) \cup NotEmpty(o.acks, 8)
             h(k) == CASE k = 1 -> Hash(o.author)
                       [] k = 2 -> WriteBytes(16, o.site)
                       [] k = 3 -> WritePrev(o.prev)
                       [] k = 4 -> WriteUint(o.seq)
                       [] k = 5 -> WriteHlc(o.hlc)
                       [] k = 6 -> WriteBody(o.body)
                       [] k = 7 -> WriteGeo(o.geo)
                       [] k = 8 -> Hashes(InOrder(o.acks))
  <2>1. G = [k \in D |-> h(k)]
    BY Zenon DEF ObservationFields
  <2> HIDE DEF D, h, G
  <2> QED
    BY <2>1
<1> HIDE DEF G
<1>17. \A k \in DOMAIN F : F[k] = G[k]
  <2> SUFFICES ASSUME NEW k \in DOMAIN F PROVE F[k] = G[k]
    OBVIOUS
  <2>1. k \in 1 .. 8
    BY <1>2
  <2>2. k = 1 \/ k = 2 \/ k = 3 \/ k = 4 \/ k = 5 \/ k = 6 \/ k = 7 \/ k = 8
    BY <2>1
  <2>3. CASE k = 1
    BY <1>4, <1>13, <1>14, <1>15, <2>3
  <2>4. CASE k = 2
    BY <1>5, <1>13, <1>14, <1>15, <2>4
  <2>5. CASE k = 3
    BY <1>6, <1>13, <1>14, <1>15, <2>5
  <2>6. CASE k = 4
    BY <1>7, <1>13, <1>14, <1>15, <2>6
  <2>7. CASE k = 5
    BY <1>8, <1>13, <1>14, <1>15, <2>7
  <2>8. CASE k = 6
    BY <1>9, <1>13, <1>14, <1>15, <2>8
  <2>9. CASE k = 7
    BY <1>10, <1>13, <1>14, <1>15, <2>9
  <2>10. CASE k = 8
    BY <1>11, <1>13, <1>14, <1>15, <2>10
  <2> QED
    BY <2>2, <2>3, <2>4, <2>5, <2>6, <2>7, <2>8, <2>9, <2>10
<1>18. F = G
  BY <1>2, <1>14, <1>16, <1>17
<1> QED
  BY <1>12, <1>18 DEF G

LEMMA AttestationIsRead ==
  ASSUME NEW F, ReadAs(AttestationReader, F)
  PROVE  \E a \in AnyAttestation : F = AttestationFields(a)
<1> DEFINE R == AttestationReader
<1>1. /\ R.need = 1 .. 6 /\ DOMAIN R.of = 1 .. 6
      /\ R.of[1] = ReadHash /\ R.of[2] = ReadHash /\ R.of[3] = ReadHash
      /\ R.of[4] = Uint /\ R.of[5] = ReadHlc /\ R.of[6] = BytesOf({16})
  BY DEF AttestationReader, Fields
<1> HIDE DEF R
<1>2. /\ F = [k \in 1 .. 6 |-> F[k]]
      /\ \A k \in 1 .. 6 : F[k] \in Seq(Items) /\ Readable(<<R.of[k]>>, F[k])
  <2>1. DOMAIN F = 1 .. 6
    BY <1>1 DEF ReadAs, R
  <2> QED
    BY <2>1 DEF ReadAs, R
<1>3. 1 \in 1 .. 6 /\ 2 \in 1 .. 6 /\ 3 \in 1 .. 6 /\ 4 \in 1 .. 6 /\ 5 \in 1 .. 6 /\ 6 \in 1 .. 6
  OBVIOUS
<1>4. PICK witness \in Rank : F[1] = Hash(witness)
  BY <1>1, <1>2, <1>3, HashReads
<1>5. PICK subject \in Rank : F[2] = Hash(subject)
  BY <1>1, <1>2, <1>3, HashReads
<1>6. PICK head \in Rank : F[3] = Hash(head)
  BY <1>1, <1>2, <1>3, HashReads
<1>7. PICK seq \in U64 : F[4] = WriteUint(seq)
  BY <1>1, <1>2, <1>3, NumberReads
<1>8. PICK hlc \in AnyHlc : F[5] = WriteHlc(hlc)
  BY <1>1, <1>2, <1>3, HlcReads
<1>9. PICK nonce \in Rank : F[6] = WriteBytes(16, nonce)
  BY <1>1, <1>2, <1>3, OneLengthReads
<1> DEFINE a == [witness |-> witness, subject |-> subject, subject_head |-> head,
                 subject_seq |-> seq, witness_hlc |-> hlc, nonce |-> nonce]
<1>10. a \in AnyAttestation
  BY DEF AnyAttestation
<1>11. /\ a.witness = witness /\ a.subject = subject /\ a.subject_head = head
       /\ a.subject_seq = seq /\ a.witness_hlc = hlc /\ a.nonce = nonce
  OBVIOUS
<1> HIDE DEF a
<1>12. F = <<F[1], F[2], F[3], F[4], F[5], F[6]>>
  BY <1>2
<1>13. F = AttestationFields(a)
  BY <1>4, <1>5, <1>6, <1>7, <1>8, <1>9, <1>11, <1>12 DEF AttestationFields
<1> QED
  BY <1>10, <1>13

LEMMA CheckpointIsRead ==
  ASSUME NEW F, ReadAs(CheckpointReader, F)
  PROVE  \E c \in AnyCheckpoint : F = CheckpointFields(c)
<1> DEFINE R == CheckpointReader
<1>1. /\ R.need = 1 .. 5 /\ DOMAIN R.of = 1 .. 5
      /\ R.of[1] = ReadHash /\ R.of[2] = ReadHash /\ R.of[3] = Uint
      /\ R.of[4] = ReadHlc /\ R.of[5] = Table
  BY DEF CheckpointReader, Fields
<1> HIDE DEF R
<1>2. /\ F = [k \in 1 .. 5 |-> F[k]]
      /\ \A k \in 1 .. 5 : F[k] \in Seq(Items) /\ Readable(<<R.of[k]>>, F[k])
  <2>1. DOMAIN F = 1 .. 5
    BY <1>1 DEF ReadAs, R
  <2> QED
    BY <2>1 DEF ReadAs, R
<1>3. 1 \in 1 .. 5 /\ 2 \in 1 .. 5 /\ 3 \in 1 .. 5 /\ 4 \in 1 .. 5 /\ 5 \in 1 .. 5
  OBVIOUS
<1>4. PICK node \in Rank : F[1] = Hash(node)
  BY <1>1, <1>2, <1>3, HashReads
<1>5. PICK head \in Rank : F[2] = Hash(head)
  BY <1>1, <1>2, <1>3, HashReads
<1>6. PICK seq \in U64 : F[3] = WriteUint(seq)
  BY <1>1, <1>2, <1>3, NumberReads
<1>7. PICK hlc \in AnyHlc : F[4] = WriteHlc(hlc)
  BY <1>1, <1>2, <1>3, HlcReads
<1>8. PICK frontier \in AnyFrontier : F[5] = WriteFrontier(frontier)
  BY <1>1, <1>2, <1>3, TableReads
<1> DEFINE c == [node |-> node, head |-> head, seq |-> seq, hlc |-> hlc, frontier |-> frontier]
<1>9. c \in AnyCheckpoint
  BY DEF AnyCheckpoint
<1>10. c.node = node /\ c.head = head /\ c.seq = seq /\ c.hlc = hlc /\ c.frontier = frontier
  OBVIOUS
<1> HIDE DEF c
<1>11. F = <<F[1], F[2], F[3], F[4], F[5]>>
  BY <1>2
<1>12. F[5] = WriteMap([k \in DOMAIN c.frontier |-> WriteUint(c.frontier[k])],
                       [k \in DOMAIN c.frontier |-> Hash(k)])
  BY <1>8, <1>10 DEF WriteFrontier
<1>13. F = CheckpointFields(c)
  BY <1>4, <1>5, <1>6, <1>7, <1>10, <1>11, <1>12 DEF CheckpointFields
<1> QED
  BY <1>9, <1>13

LEMMA BlobIsRead ==
  ASSUME NEW F, ReadAs(BlobReader, F)
  PROVE  \E m \in AnyBlob : F = BlobFields(m)
<1> DEFINE R == BlobReader
<1>1. /\ R.need = 1 .. 3 /\ DOMAIN R.of = 1 .. 3
      /\ R.of[1] = Uint /\ R.of[2] = Array(ReadHash) /\ R.of[3] = Text
  BY DEF BlobReader, Fields
<1> HIDE DEF R
<1>2. /\ F = [k \in 1 .. 3 |-> F[k]]
      /\ \A k \in 1 .. 3 : F[k] \in Seq(Items) /\ Readable(<<R.of[k]>>, F[k])
  <2>1. DOMAIN F = 1 .. 3
    BY <1>1 DEF ReadAs, R
  <2> QED
    BY <2>1 DEF ReadAs, R
<1>3. 1 \in 1 .. 3 /\ 2 \in 1 .. 3 /\ 3 \in 1 .. 3
  OBVIOUS
<1>4. PICK size \in U64 : F[1] = WriteUint(size)
  BY <1>1, <1>2, <1>3, NumberReads
<1>5. PICK chunks \in Seq(Rank) : F[2] = Hashes(chunks)
  BY <1>1, <1>2, <1>3, HashesRead
<1>6. PICK mime \in Rank : F[3] = WriteText(mime, mime)
  BY <1>1, <1>2, <1>3, TextReads
<1> DEFINE m == [size |-> size, chunks |-> chunks, mime |-> mime]
<1>7. m \in AnyBlob
  BY DEF AnyBlob
<1>8. m.size = size /\ m.chunks = chunks /\ m.mime = mime
  OBVIOUS
<1> HIDE DEF m
<1>9. F = <<F[1], F[2], F[3]>>
  BY <1>2
<1>10. F = BlobFields(m)
  BY <1>4, <1>5, <1>6, <1>8, <1>9 DEF BlobFields
<1> QED
  BY <1>7, <1>10

LEMMA ForkProofIsRead ==
  ASSUME NEW F, ReadAs(ForkProofReader, F)
  PROVE  \E p \in AnyForkProof : F = ForkProofFields(p)
<1> DEFINE R == ForkProofReader
<1>1. /\ R.need = 1 .. 3 /\ DOMAIN R.of = 1 .. 3
      /\ R.of[1] = ReadHash /\ R.of[2] = ReadForkEntry /\ R.of[3] = ReadForkEntry
  BY DEF ForkProofReader, Fields
<1> HIDE DEF R
<1>2. /\ F = [k \in 1 .. 3 |-> F[k]]
      /\ \A k \in 1 .. 3 : F[k] \in Seq(Items) /\ Readable(<<R.of[k]>>, F[k])
  <2>1. DOMAIN F = 1 .. 3
    BY <1>1 DEF ReadAs, R
  <2> QED
    BY <2>1 DEF ReadAs, R
<1>3. 1 \in 1 .. 3 /\ 2 \in 1 .. 3 /\ 3 \in 1 .. 3
  OBVIOUS
<1>4. PICK key \in Rank : F[1] = Hash(key)
  BY <1>1, <1>2, <1>3, HashReads
<1>5. PICK a \in AnyEntry : F[2] = WriteForkEntry(a)
  BY <1>1, <1>2, <1>3, EntryReads
<1>6. PICK b \in AnyEntry : F[3] = WriteForkEntry(b)
  BY <1>1, <1>2, <1>3, EntryReads
<1> DEFINE p == [key |-> key, a |-> a, b |-> b]
<1>7. p \in AnyForkProof
  BY DEF AnyForkProof
<1>8. p.key = key /\ p.a = a /\ p.b = b
  OBVIOUS
<1> HIDE DEF p
<1>9. F = <<F[1], F[2], F[3]>>
  BY <1>2
<1>10. F = ForkProofFields(p)
  BY <1>4, <1>5, <1>6, <1>8, <1>9 DEF ForkProofFields
<1> QED
  BY <1>7, <1>10

\* The fields that have been read, as a function.
FieldsOf == [k \in DOMAIN fields |-> fields[k]]

LEMMA ObjectKinds ==
  ASSUME kind \in Type, Decoded
  PROVE  kind \in Object /\ TAG(kind) = kind
  BY CodecAssumption DEF Decoded, TAG, Object

LEMMA ObjectIsRead ==
  ASSUME NEW type \in Object, NEW F, ReadAs(Reader(type), F)
  PROVE  \E o \in AnyObject(type) : F = EncodeFields(type, o)
<1>1. CASE type = "observation"
  BY <1>1, ObservationIsRead DEF Reader, AnyObject, EncodeFields
<1>2. CASE type = "attestation"
  BY <1>2, AttestationIsRead DEF Reader, AnyObject, EncodeFields
<1>3. CASE type = "checkpoint"
  BY <1>3, CheckpointIsRead DEF Reader, AnyObject, EncodeFields
<1>4. CASE type = "blob"
  BY <1>4, BlobIsRead DEF Reader, AnyObject, EncodeFields
<1>5. CASE type = "forkproof"
  BY <1>5, ForkProofIsRead DEF Reader, AnyObject, EncodeFields
<1> QED
  BY <1>1, <1>2, <1>3, <1>4, <1>5 DEF Object

\* Anybody's input, accepted for an object, is the encoding of one.
LEMMA AcceptedIsWritten ==
  ASSUME ReaderInv, Decoded, written = <<>>
  PROVE  \E o \in AnyObject(kind) :
           /\ input = Encode(kind, o) /\ FieldsOf = EncodeFields(kind, o)
           /\ Value(kind, fields) = Value(kind, EncodeFields(kind, o))
<1>1. kind \in Type /\ \E tag, map, heads : AcceptedAs(tag, map, heads)
  BY AcceptedReads DEF Decoded
<1>2. kind \in Object /\ TAG(kind) = kind
  BY <1>1, ObjectKinds
<1>3. PICK tag, map, heads : AcceptedAs(tag, map, heads)
  BY <1>1
<1> DEFINE F == FieldsOf
           D == DOMAIN fields
           plain == [k \in D |-> Head1(k)]
<1>4. /\ Accepts(Domain(kind), tag) /\ Accepts(Reader(kind), map)
      /\ D \in SUBSET Nat /\ IsFiniteSet(D) /\ map.arg = Cardinality(D)
      /\ Reader(kind).need \subseteq D /\ D \subseteq DOMAIN Reader(kind).of
      /\ tag \in Items /\ map \in Items
  BY <1>2, <1>3 DEF AcceptedAs
<1>5. \A k \in D : /\ heads[k].arg = k /\ heads[k].major = "uint" /\ HeadOk(heads[k])
                   /\ Readable(<<Reader(kind).of[k]>>, fields[k])
                   /\ heads[k] \in Items /\ fields[k] \in Seq(Items)
  BY <1>3 DEF AcceptedAs
<1>6. input = <<tag>> \o (<<map>> \o Body(heads, fields))
  BY <1>3 DEF AcceptedAs
<1>7. DOMAIN F = D /\ (\A k \in D : F[k] = fields[k]) /\ F = [k \in DOMAIN F |-> F[k]]
  BY DEF FieldsOf
<1> HIDE DEF F
<1>8. ReadAs(Reader(kind), F)
  BY <1>4, <1>5, <1>7 DEF ReadAs
<1>9. PICK o \in AnyObject(kind) : F = EncodeFields(kind, o)
  BY <1>2, <1>8, ObjectIsRead
<1>10. tag = Item(TAG(kind), 0, 0, 0)
  <2>1. tag.major = kind
    BY <1>4 DEF Accepts, Domain
  <2> QED
    BY <1>2, <1>4, <2>1, ItemIs DEF Object
<1>11. map = Item("map", Shortest(Cardinality(D)), Cardinality(D), 0)
  <2>1. Reader(kind).is = "fields"
    BY <1>1, ReaderIsFields
  <2>2. map.major = "map"
    BY <1>4, <2>1 DEF Accepts, Wanted
  <2> QED
    BY <1>4, <2>2, AcceptedIs, ItemIs
<1>12. \A k \in D : heads[k] = plain[k]
  <2> SUFFICES ASSUME NEW k \in D PROVE heads[k] = Head1(k)
    OBVIOUS
  <2>1. PICK item : item = heads[k]
    OBVIOUS
  <2>2. item \in Items /\ item.major = "uint" /\ item.arg = k /\ item.width = Shortest(k)
    BY <1>5, <2>1 DEF HeadOk
  <2>3. item = Item(item.major, item.width, item.arg, item.content) /\ item.content = 0
    BY <2>2, ItemIs
  <2> QED
    BY <2>1, <2>2, <2>3 DEF Head1
<1> HIDE DEF plain
<1>13. Body(heads, fields) = Body(plain, F)
  <2> DEFINE p == FieldParts(heads, fields)
             q == FieldParts(plain, F)
             n == Cardinality(D)
  <2>1. n \in Nat /\ \A i \in 1 .. n : InOrder(D)[i] \in D
    BY <1>4, OrderAscends
  <2>2. \A i \in 1 .. n : p[i] = q[i]
    BY <1>7, <1>12, <2>1 DEF FieldParts
  <2> HIDE DEF p, q, n
  <2>3. Joint(p, n) = Joint(q, n)
    BY <2>1, <2>2, JointEqual
  <2> QED
    BY <1>7, <2>3 DEF Body, p, q, n
<1>14. WriteFields(F) = WriteHead("map", Cardinality(D), 0) \o Body(plain, F)
  <2>1. DOMAIN F \in SUBSET Nat /\ IsFiniteSet(DOMAIN F)
    BY <1>4, <1>7
  <2>2. WriteFields(F) = WriteHead("map", Cardinality(DOMAIN F), 0)
                            \o Body([k \in DOMAIN F |-> Head1(k)], F)
    BY ONLY <2>1, FieldsWritten
  <2> QED
    BY <1>7, <2>2 DEF plain
<1>15. input = Encode(kind, o)
  BY <1>6, <1>9, <1>10, <1>11, <1>13, <1>14 DEF Encode, WriteHead
<1>16. Value(kind, fields) = Value(kind, EncodeFields(kind, o))
  <2>1. PICK G, H : G = fields /\ H = F
    OBVIOUS
  <2>2. kind \in Object /\ DOMAIN G = DOMAIN H /\ (\A k \in DOMAIN G : G[k] = H[k])
        /\ Reader(kind).need \subseteq DOMAIN G
    BY <1>2, <1>4, <1>7, <2>1
  <2>3. Value(kind, G) = Value(kind, H)
    BY ONLY <2>2, SameValue
  <2> QED
    BY <1>9, <2>1, <2>3
<1> QED
  BY <1>9, <1>15, <1>16 DEF F

-----------------------------------------------------------------------------
(***************************************************************************)
(* What is decoded, and from what.                                         *)
(***************************************************************************)

\* What the writer wrote for an object decodes to that object.
LEMMA WrittenDecodes ==
  ASSUME ReaderInv, WrittenInv, Decoded, written # <<>>
  PROVE  value \in AnyObject(kind) /\ input = Encode(kind, value) /\ Value(kind, fields) = value
<1>1. kind \in Type /\ \E tag, map, heads : AcceptedAs(tag, map, heads)
  BY AcceptedReads DEF Decoded
<1>2. kind \in Object /\ TAG(kind) = kind
  BY <1>1, ObjectKinds
<1>3. value \in AnyObject(kind) /\ input = Encode(kind, value)
  <2>1. value \in Values(kind) /\ input = Encode(kind, value)
    BY DEF WrittenInv, Decoded
  <2>2. value \in Anything(kind)
    BY <1>1, <2>1, ValuesAreAnything
  <2> QED
    BY <1>2, <2>1, <2>2 DEF Anything, Object
<1>4. PICK tag, map, heads : AcceptedAs(tag, map, heads)
  BY <1>1
<1>5. PICK type, v, F, G, of, gs :
        /\ type = kind /\ v = value /\ F = fields /\ G = EncodeFields(type, v)
        /\ of = Reader(type).of /\ gs = [k \in DOMAIN G |-> Head1(k)]
  OBVIOUS
<1>6. type \in Object /\ v \in AnyObject(type) /\ G = EncodeFields(type, v)
  BY <1>2, <1>3, <1>5
<1>7. Parsed(of, heads, F) /\ map.arg = Cardinality(DOMAIN F)
  BY <1>4, <1>5 DEF AcceptedAs, Parsed
<1>8. Parsed(of, gs, G)
  <2>1. Parsed(Reader(type).of, [k \in DOMAIN G |-> Head1(k)], G)
    BY ONLY <1>6, WrittenIsParsed
  <2> QED
    BY <1>5, <2>1
<1>9. Reader(type).need \subseteq DOMAIN G
  BY ONLY <1>6, EncodingIs
<1>10. PICK a, b : Consists(Encode(type, v), a, b, gs, G)
  <2>1. \E a, b : Consists(Encode(type, v), a, b, [k \in DOMAIN G |-> Head1(k)], G)
    BY ONLY <1>6, EncodingIs
  <2> QED
    BY <1>5, <2>1
<1>11. map = b /\ Body(heads, F) = Body(gs, G)
  <2>1. PICK w, x, y : w = Encode(type, v) /\ x = Body(heads, F) /\ y = Body(gs, G)
    OBVIOUS
  <2>2. IsSequence(x)
    <3>1. DOMAIN F \in SUBSET Nat /\ IsFiniteSet(DOMAIN F) /\ \A k \in DOMAIN F : IsSequence(F[k])
      BY <1>7 DEF Parsed
    <3> QED
      BY <2>1, <3>1, PartsOfFields
  <2>3. w = <<tag>> \o (<<map>> \o x)
    <3>1. input = <<tag>> \o (<<map>> \o Body(heads, F))
      BY <1>4, <1>5 DEF AcceptedAs
    <3> QED
      BY <1>3, <1>5, <2>1, <3>1
  <2>4. AfterTwo(w, tag, map, x) /\ AfterTwo(w, a, b, y)
    BY <1>10, <2>1, <2>2, <2>3 DEF Consists, AfterTwo
  <2>5. map = b /\ x = y
    BY ONLY <2>4, SameItems
  <2> QED
    BY <2>1, <2>5
<1>12. /\ Parsed(of, heads, F) /\ Parsed(of, gs, G)
       /\ Cardinality(DOMAIN F) = Cardinality(DOMAIN G) /\ Body(heads, F) = Body(gs, G)
  BY <1>7, <1>8, <1>10, <1>11 DEF Consists
<1>13. DOMAIN F = DOMAIN G /\ \A k \in DOMAIN F : F[k] = G[k]
  BY ONLY <1>12, BodiesOnce
<1>14. Value(type, F) = Value(type, G)
  <2>1. /\ type \in Object /\ DOMAIN F = DOMAIN G /\ (\A k \in DOMAIN F : F[k] = G[k])
        /\ Reader(type).need \subseteq DOMAIN F
    BY <1>6, <1>9, <1>13
  <2> QED
    BY ONLY <2>1, SameValue
<1>15. Value(type, G) = v
  BY <1>6, EncodedFieldsDecode
<1> QED
  BY <1>3, <1>5, <1>14, <1>15

\* Anybody's input decodes to an object it is the encoding of.
LEMMA AcceptedDecodes ==
  ASSUME ReaderInv, Decoded, written = <<>>
  PROVE  Value(kind, fields) \in AnyObject(kind) /\ input = Encode(kind, Value(kind, fields))
<1>1. kind \in Object
  BY AcceptedReads, ObjectKinds DEF Decoded
<1>2. PICK o \in AnyObject(kind) :
        input = Encode(kind, o) /\ Value(kind, fields) = Value(kind, EncodeFields(kind, o))
  BY AcceptedIsWritten
<1>3. Value(kind, EncodeFields(kind, o)) = o
  BY <1>1, EncodedFieldsDecode
<1> QED
  BY <1>2, <1>3

\* The inductive invariant of the decoder: where in the input it is and what it has
\* read of each field, and what is left of an input that was written.
DecoderInv == ReaderInv /\ WrittenInv

LEMMA DecoderAlways == DecoderSpec => []DecoderInv
<1>1. DecoderInit => DecoderInv
  BY ReaderStarts, WrittenStarts DEF DecoderInv
<1>2. DecoderInv /\ [DecoderNext]_decoder => DecoderInv'
  BY ReaderKeepsOn, DecoderKeepsWritten DEF DecoderInv
<1> QED
  BY <1>1, <1>2, PTL DEF DecoderSpec

LEMMA DecoderInvSuffices == DecoderInv => WrittenIsRead /\ ReadIsWritten
<1> SUFFICES ASSUME DecoderInv PROVE WrittenIsRead /\ ReadIsWritten
  OBVIOUS
<1>1. WrittenIsRead
  <2> SUFFICES ASSUME written # <<>>
               PROVE  verdict # "refused" /\ (Decoded => Value(kind, fields) = value)
    BY DEF WrittenIsRead
  <2>1. verdict # "refused"
    BY DEF DecoderInv, WrittenInv
  <2>2. Decoded => Value(kind, fields) = value
    BY WrittenDecodes DEF DecoderInv
  <2> QED
    BY <2>1, <2>2
<1>2. ReadIsWritten
  <2> SUFFICES ASSUME Decoded
               PROVE  /\ Value(kind, fields) \in AnyObject(kind)
                      /\ input = Encode(kind, Value(kind, fields))
    BY DEF ReadIsWritten
  <2>1. CASE written = <<>>
    BY <2>1, AcceptedDecodes DEF DecoderInv
  <2>2. CASE written # <<>>
    BY <2>2, WrittenDecodes DEF DecoderInv
  <2> QED
    BY <2>1, <2>2
<1> QED
  BY <1>1, <1>2

\* Whatever the writer wrote, its reader never refuses, at any item of it or at its
\* end (decode_preimage of object.rs, the two parse_pack), and an object that was
\* written is the one decoded.
THEOREM WrittenAlwaysRead == DecoderSpec => []WrittenIsRead
<1>1. DecoderInv => WrittenIsRead
  BY DecoderInvSuffices
<1> QED
  BY <1>1, DecoderAlways, PTL

\* Whatever anybody sends, item by item, what decode_preimage accepts of it as an
\* object decodes to one, and is the one encoding of that object (object.rs,
\* cbor.rs): there is no second form of it, under another address.
THEOREM ReadAlwaysWritten == DecoderSpec => []ReadIsWritten
<1>1. DecoderInv => ReadIsWritten
  BY DecoderInvSuffices
<1> QED
  BY <1>1, DecoderAlways, PTL

=============================================================================
