--------------------------------- MODULE Cbor ----------------------------------
(***************************************************************************)
(* The canonical CBOR profile (crates/vigil-core/src/cbor.rs): what the    *)
(* writer puts out for a value, and what the strict reader lets through.   *)
(*                                                                         *)
(* A byte stream is a sequence of items: a head with its argument and the  *)
(* width it is written in and, for a byte or text string, the string.  A   *)
(* string is its length and its rank among the strings of that length.     *)
(***************************************************************************)
EXTENDS Integers, SequencesExt

CONSTANTS
  Tags,          \* the domain tags
  Greatest       \* for each width in bytes (0: in the head's first byte) the
                 \* greatest argument that fits

ASSUME CborAssumption ==
  /\ DOMAIN Greatest = {0, 1, 2, 4, 8}
  /\ \A w \in DOMAIN Greatest : Greatest[w] \in Nat
  /\ \A w, v \in DOMAIN Greatest : w < v => Greatest[w] < Greatest[v]

I32Max == Greatest[4] \div 2
I64Max == Greatest[8] \div 2

Item(major, width, arg, content) ==
  [major |-> major, width |-> width, arg |-> arg, content |-> content]

\* The rank of a text that is not UTF-8.
NotUtf8 == -1

\* An item the profile has no place for: a tag, a float, a simple value, a
\* reserved or an indefinite head.
Forbidden == Item("forbidden", 0, 0, 0)

-----------------------------------------------------------------------------
\* The writer.

Fitting(n) == {w \in DOMAIN Greatest : n <= Greatest[w]}
Shortest(n) == Min(Fitting(n))

WriteHead(major, n, content) == <<Item(major, Shortest(n), n, content)>>
WriteUint(n) == WriteHead("uint", n, 0)
WriteBytes(length, rank) == WriteHead("bytes", length, rank)
WriteText(length, rank) == WriteHead("text", length, rank)
WriteArrayHead(n) == WriteHead("array", n, 0)

\* A negative number written as its magnitude.
WriteMagnitude(i) == IF i >= 0 THEN WriteUint(i) ELSE WriteHead("negint", -i, 0)

\* Major type 1 holds -1 - n.
WriteInt(i) == IF i >= 0 THEN WriteUint(i) ELSE WriteHead("negint", -1 - i, 0)

\* An array of parts written already.
WriteArray(parts) == WriteArrayHead(Len(parts)) \o FlattenSeq(parts)

\* A set of numbers, or of strings of one length, in ascending order.
InOrder(S) ==
  [n \in 1 .. Cardinality(S) |->
    CHOOSE k \in S : Cardinality({j \in S : j < k}) = n - 1]

\* MapWriter: whatever order the fields were added in, `finish` writes them in
\* the order of their keys; `key` is each key as written.
WriteMap(fields, key) ==
  LET keys == InOrder(DOMAIN fields)
  IN  WriteHead("map", Len(keys), 0)
        \o FlattenSeq([n \in DOMAIN keys |-> key[keys[n]] \o fields[keys[n]]])

\* MapWriter::field: keys are numbers.
WriteFields(fields) == WriteMap(fields, [k \in DOMAIN fields |-> WriteUint(k)])

-----------------------------------------------------------------------------
(***************************************************************************)
(* The reader.  What the code after a point of the input still expects is  *)
(* a sequence of expectations; reading an item checks the first of them    *)
(* and puts what it opens in its place.  (The bound on declared lengths by *)
(* the bytes that remain rejects only what would be found truncated.)      *)
(***************************************************************************)
UintIn(least, most) == [is |-> "uint", least |-> least, most |-> most]
Uint == UintIn(0, Greatest[8])
IntUpTo(most) == [is |-> "int", most |-> most]
BytesOf(lengths) == [is |-> "bytes", lengths |-> lengths]
AnyBytes == [is |-> "string"]
TheBytes(length, rank) == [is |-> "this", length |-> length, rank |-> rank]
Text == [is |-> "text"]
Tuple(parts) == [is |-> "tuple", parts |-> parts]            \* expect_array
Array(part) == [is |-> "array", part |-> part]
Ascending(least) == [is |-> "ascending", least |-> least]    \* 32-byte strings
Fields(need, of) == [is |-> "fields", need |-> need, of |-> of]
Table == [is |-> "table"]                                    \* keys are byte strings
Union(of) == [is |-> "union", of |-> of]                     \* a variant, its body
Variant(of) == [is |-> "variant", of |-> of]
Missing == [is |-> "missing"]
Domain(tag) == [is |-> "domain", tag |-> tag]

\* The rest of a map after the keys read: the next key, or what
\* the caller checks when none is left.
Keys(fields, left, read) ==
  IF left > 0 THEN <<[is |-> "key", fields |-> fields, left |-> left, read |-> read]>>
  ELSE IF fields.need \subseteq read THEN <<>> ELSE <<Missing>>

\* The rest of an ascending list, and of a table of numbers, after rank `last`.
Elements(left, last) ==
  IF left = 0 THEN <<>> ELSE <<[is |-> "element", left |-> left, last |-> last]>>
Rows(left, last) ==
  IF left = 0 THEN <<>> ELSE <<[is |-> "row", left |-> left, last |-> last]>>

\* A key that repeats the one before it let through.
NotBefore(k, read) == \A earlier \in read : k >= earlier

\* check_order: every key exceeds the one before it.
After(k, read) == \A earlier \in read : k > earlier

\* read_head: no item outside the profile, no argument, which is an unsigned
\* number, wider than it needs.
HeadOk(item) == item.arg \in Nat /\ item.width = Shortest(item.arg)

\* The major type each kind of expectation asks for; a domain tag is of its own.
Wanted ==
  [uint |-> {"uint"}, int |-> {"uint", "negint"}, key |-> {"uint"}, variant |-> {"uint"},
   bytes |-> {"bytes"}, string |-> {"bytes"}, this |-> {"bytes"}, element |-> {"bytes"},
   row |-> {"bytes"}, text |-> {"text"},
   tuple |-> {"array"}, array |-> {"array"}, union |-> {"array"}, ascending |-> {"array"},
   fields |-> {"map"}, table |-> {"map"}, missing |-> {}, domain |-> Tags]

Accepts(e, item) ==
  /\ item.major \in Wanted[e.is]
  /\ HeadOk(item)
  /\ CASE e.is = "uint" -> e.least <= item.arg /\ item.arg <= e.most
       [] e.is = "int" -> item.arg <= e.most
       [] e.is = "bytes" -> item.arg \in e.lengths
       [] e.is = "this" -> item.arg = e.length /\ item.content = e.rank
       [] e.is = "text" -> item.content # NotUtf8
       [] e.is = "tuple" -> item.arg = Len(e.parts)
       [] e.is = "union" -> item.arg = 2
       [] e.is = "ascending" -> item.arg >= e.least
       [] e.is = "key" -> item.arg \in DOMAIN e.fields.of /\ After(item.arg, e.read)
       [] e.is \in {"element", "row"} -> item.arg = 32 /\ After(item.content, e.last)
       [] e.is = "variant" -> item.arg \in DOMAIN e.of
       [] e.is = "domain" -> item.major = e.tag
       [] OTHER -> TRUE

\* What an accepted item leaves to be read in e's place.
Opens(e, item) ==
  CASE e.is = "tuple" -> [n \in 1 .. item.arg |-> e.parts[n]]
    [] e.is = "array" -> [n \in 1 .. item.arg |-> e.part]
    [] e.is = "ascending" -> Elements(item.arg, {})
    [] e.is = "element" -> Elements(e.left - 1, {item.content})
    [] e.is = "table" -> Rows(item.arg, {})
    [] e.is = "row" -> <<Uint>> \o Rows(e.left - 1, {item.content})
    [] e.is = "fields" -> Keys(e, item.arg, {})
    [] e.is = "key" -> <<e.fields.of[item.arg]>>
                         \o Keys(e.fields, e.left - 1, e.read \cup {item.arg})
    [] e.is = "union" -> <<Variant(e.of)>>
    [] e.is = "variant" -> <<e.of[item.arg]>>
    [] OTHER -> <<>>
=============================================================================
