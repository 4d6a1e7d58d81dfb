-------------------------------- MODULE Decoder --------------------------------
(***************************************************************************)
(* decode_preimage and the two parse_pack, given an input item by item:    *)
(* either something the writer wrote, or whatever anybody sends, of which  *)
(* the next item is any item at all, or the end.                           *)
(***************************************************************************)
EXTENDS Codec

VARIABLES
  kind,          \* what the input is decoded as
  value,         \* the value that is written, or None for anybody's input
  written,       \* the encoding the input consists of, or <<>> for anybody's
  input,         \* the items accepted so far
  todo,          \* what is still expected of the whole, first things first
  inner,         \* what is expected before that, of the field being read
  fields,        \* the items read of each field, under its key
  unusual,       \* how many items of the input are not the plain choice
  verdict        \* "reading", "accepted" or "refused"

decoder == <<kind, value, written, input, todo, inner, fields, unusual, verdict>>

\* Items in the shortest width or the longest; a text's rank is its length.
Widths(n) == {Shortest(n), 8}
Items ==
  {Item(TAG(t), 0, 0, 0) : t \in Type} \cup {Forbidden, Item("text", 0, 1, NotUtf8)}
    \cup (UNION {{Item(m, w, n, 0) : m \in {"uint", "negint"}, w \in Widths(n)} : n \in Number})
    \cup (UNION {{Item("array", w, n, 0) : w \in Widths(n)} : n \in Listed})
    \cup (UNION {{Item("map", w, n, 0) : w \in Widths(n)} : n \in Keyed})
    \cup (UNION {{Item("bytes", w, n, r) : w \in Widths(n), r \in IF n = 0 THEN {0} ELSE Rank} :
                   n \in Length})
    \cup (UNION {{Item("text", w, n, n) : w \in Widths(n)} : n \in Rank})

DecoderInit ==
  /\ \/ kind \in Type /\ value \in Values(kind) /\ written = Encode(kind, value)
     \/ kind \in Sent /\ value = None /\ written = <<>>
  /\ input = <<>> /\ fields = <<>>
  /\ todo = <<Domain(TAG(kind)), Reader(kind)>> /\ inner = <<>>
  /\ unusual = 0 /\ verdict = "reading"

\* The items that may come next.
Offered ==
  IF written = <<>> THEN Items
  ELSE {written[n] : n \in {Len(input) + 1} \cap DOMAIN written}

\* Whether an item differs from the plain one of its place: another number or
\* string, a map of a wrong size, a key that passes over one that must be there.
Unusual(e, item) ==
  CASE e.is = "fields" -> item.arg \notin Cardinality(e.need) .. Cardinality(DOMAIN e.of)
    [] e.is = "key" -> \E k \in e.fields.need : k < item.arg /\ \A j \in e.read : j < k
    [] e.is = "variant" -> FALSE
    [] e.is = "uint" -> item.arg # e.least
    [] e.is = "int" -> item.major = "negint" \/ item.arg # 0
    [] e.is = "string" -> item.arg # 0 \/ item.content # 0
    [] OTHER -> item.content # 0

Finished == inner = <<>> /\ todo = <<>>
Expected == IF inner = <<>> THEN Head(todo) ELSE Head(inner)

\* The next item is what is expected.
Take(item) ==
  /\ verdict = "reading" /\ ~Finished
  /\ item \in Offered /\ Accepts(Expected, item)
  /\ input' = Append(input, item)
  /\ IF written = <<>> /\ Unusual(Expected, item)
     THEN unusual < MaxUnusual /\ unusual' = unusual + 1
     ELSE UNCHANGED unusual
  /\ UNCHANGED <<kind, value, written, verdict>>

\* decode_preimage, decode_cbor: the tag, and the head of the map.
ReadHead ==
  /\ inner = <<>> /\ todo # <<>> /\ Expected.is # "key"
  /\ \E item \in Offered :
       Take(item) /\ todo' = Opens(Expected, item) \o Tail(todo)
  /\ UNCHANGED <<inner, fields>>

\* decode_fields: the next key, whose field is still empty.
ReadKey ==
  /\ inner = <<>> /\ todo # <<>> /\ Expected.is = "key"
  /\ \E item \in Offered :
       /\ Take(item)
       /\ inner' = <<Head(Opens(Expected, item))>>
       /\ todo' = Tail(Opens(Expected, item))
       /\ fields' = [k \in DOMAIN fields \cup {item.arg} |->
                       IF k = item.arg THEN <<>> ELSE fields[k]]

\* And what it holds.
ReadField ==
  /\ inner # <<>>
  /\ \E item \in Offered :
       /\ Take(item)
       /\ inner' = Opens(Expected, item) \o Tail(inner)
       /\ fields' = [fields EXCEPT ![Max(DOMAIN fields)] = Append(@, item)]
  /\ UNCHANGED todo

\* An item that is not what is expected, or one too many.
Refuse ==
  /\ verdict = "reading"
  /\ ~ \A item \in Offered : ~Finished /\ Accepts(Expected, item)
  /\ verdict' = "refused"
  /\ UNCHANGED <<kind, value, written, input, todo, inner, fields, unusual>>

\* The input ends: in time, or truncated.
End ==
  /\ verdict = "reading" /\ (written = <<>> \/ input = written)
  /\ verdict' = IF Finished THEN "accepted" ELSE "refused"
  /\ UNCHANGED <<kind, value, written, input, todo, inner, fields, unusual>>

DecoderNext == ReadHead \/ ReadKey \/ ReadField \/ Refuse \/ End

DecoderSpec == DecoderInit /\ [][DecoderNext]_decoder

-----------------------------------------------------------------------------
\* An object is decoded from the fields read.
Decoded == verdict = "accepted" /\ TAG(kind) # "pack"

\* Everything the writer can produce, the readers accept (cbor.rs, object.rs,
\* and the two pack readers): every value of every object, at the greatest and
\* the smallest of its numbers, and every pack.  What an object decodes to is the
\* value it was written for, so that no two objects share an encoding.
WrittenIsRead ==
  written # <<>> => verdict # "refused" /\ (Decoded => Value(kind, fields) = value)

\* Everything the reader accepts for an object decodes to one, and is what the
\* writer makes of that object (cbor.rs): one object has one encoding, so that a
\* content address names one object.
ReadIsWritten ==
  Decoded =>
    Value(kind, fields) \in AnyObject(kind) /\ input = Encode(kind, Value(kind, fields))

\* spec/01 section 2.3: an optional field without a value "MUST NOT be encoded
\* as null, as a zero value, or as an empty container"; the verifier's reader of
\* packs rejects any violation (pack.rs).
NoEmptyProofs ==
  verdict = "accepted" =>
    \A n \in 1 .. Len(input) - 1 :
      <<input[n]>> = WriteUint(5) => <<input[n + 1]>> # WriteArrayHead(0)
=============================================================================
