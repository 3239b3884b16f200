------------------------------ MODULE RgdList ------------------------------
(***************************************************************************)
(* Game data (RGD): the node list of an AEGD chunk as bytes, its readers   *)
(* and its writers (crates/relic-chunky/src/rgd_patch.rs, rgd.rs,          *)
(* rgd_write.rs).                                                          *)
(*                                                                         *)
(* A raw node is [type, hash, value]; type is the code on disk and a value *)
(* is a sequence: the four bytes of a Float or an Int as one element, the  *)
(* byte of a Boolean, the characters of a string, the nodes of a list.  A  *)
(* node the decoder or the compiler works with has a key for its hash.     *)
(***************************************************************************)
EXTENDS Chunky, FiniteSetsExt

CONSTANT HashOf      \* dictionary_hash: the hash of each key

FloatType == 0
IntType == 1
BooleanType == 2
CStringType == 3
LocStringType == 4
ListType == 100
List2Type == 101

IsList(node) == node.type \in {ListType, List2Type}

\* RawValue::align, and align of the compiler.
Align(type) == CASE type \in {BooleanType, CStringType} -> 1
                 [] type = LocStringType -> 2
                 [] OTHER -> 4

-----------------------------------------------------------------------------
(* Writing *)

Nul == "nul"
Text(tag, chars) == FlattenSeq([i \in DOMAIN chars |-> Field(tag, chars[i])]) \o Field(tag, Nul)

\* Mutant of the next operator: a value that is aligned is padded once more.
PaddedFull(blob, align) ==
    blob \o FlattenSeq([i \in 1 .. align - (Len(blob) % align) |-> Field("byte", Nul)])

\* blob filled up to the next multiple of align.
Padded(blob, align) ==
    blob \o FlattenSeq([i \in 1 .. (align - (Len(blob) % align)) % align |-> Field("byte", Nul)])

\* write_raw_list: the count, the index of (hash, type, offset), the values,
\* each value padded to its own alignment within the blob.
RECURSIVE ListBytes(_)

ValueBytes(node) ==
    CASE node.type \in {FloatType, IntType} -> Field("four", node.value[1])
      [] node.type = BooleanType -> Field("byte", node.value[1])
      [] node.type = CStringType -> Text("byte", node.value)
      [] node.type = LocStringType -> Text("unit", node.value)
      [] OTHER -> ListBytes(node.value)

Laid(nodes) ==
    FoldLeft(LAMBDA laid, node :
                 LET blob == Padded(laid.blob, Align(node.type))
                 IN [offsets |-> Append(laid.offsets, Len(blob)), blob |-> blob \o ValueBytes(node)],
             [offsets |-> <<>>, blob |-> <<>>], nodes)

ListBytes(nodes) ==
    LET laid == Laid(nodes)
    IN Field("u32", Len(nodes))
         \o FlattenSeq([i \in DOMAIN nodes |-> Field("u64", nodes[i].hash)
                                                 \o Field("u32", nodes[i].type)
                                                 \o Field("u32", laid.offsets[i])])
         \o laid.blob

\* The body of an AEGD chunk: the CRC of the list, and the list.
AegdBytes(nodes) == Field("crc", ListBytes(nodes)) \o ListBytes(nodes)

-----------------------------------------------------------------------------
(* Reading *)

\* read_cstring_bytes, read_wstring_units: up to the first terminator.
RECURSIVE ReadText(_, _, _)
ReadText(bytes, p, tag) ==
    IF ~Holds(bytes, p, tag) THEN Unreadable
    ELSE IF At(bytes, p) = Nul THEN Got(<<>>)
    ELSE Then(ReadText(bytes, p + Width[tag], tag), LAMBDA rest : Got(<<At(bytes, p)>> \o rest))

ReadField(bytes, p, tag) == IF Holds(bytes, p, tag) THEN Got(<<At(bytes, p)>>) ELSE Unreadable

\* read_raw_list: each value is read where its entry of the index points,
\* counted from the end of the index.
RECURSIVE ReadList(_, _)

ReadValue(bytes, type, p) ==
    CASE type \in {FloatType, IntType} -> ReadField(bytes, p, "four")
      [] type = BooleanType -> ReadField(bytes, p, "byte")
      [] type = CStringType -> ReadText(bytes, p, "byte")
      [] type = LocStringType -> ReadText(bytes, p, "unit")
      [] type \in {ListType, List2Type} -> ReadList(bytes, p)
      [] OTHER -> Unreadable

ReadList(bytes, p) ==
    IF ~Holds(bytes, p, "u32") THEN Unreadable
    ELSE LET count == At(bytes, p)
             entry(i) == p + 4 + 16 * (i - 1)
             valid == \A i \in 1 .. count : /\ Holds(bytes, entry(i), "u64")
                                            /\ \A w \in {8, 12} : Holds(bytes, entry(i) + w, "u32")
             node(i) ==
               Then(ReadValue(bytes, At(bytes, entry(i) + 8), entry(count + 1) + At(bytes, entry(i) + 12)),
                    LAMBDA value : Got([type |-> At(bytes, entry(i) + 8), hash |-> At(bytes, entry(i)),
                                        value |-> value]))
         IN IF valid THEN Gathered([i \in 1 .. count |-> node(i)]) ELSE Unreadable

-----------------------------------------------------------------------------
(* Compiling: rgd_write.rs *)

\* Mutant of the next operator: the lists stay in the order of the source.
RECURSIVE Hashed(_)
HashedAsGiven(nodes) ==
    Each(LAMBDA n : [type |-> n.type, hash |-> HashOf[n.key],
                     value |-> IF IsList(n) THEN Hashed(n.value) ELSE n.value], nodes)

\* write_list: a list and every list in it, in the order of their hashes.
Hashed(nodes) ==
    LET raw == Each(LAMBDA n : [type |-> n.type, hash |-> HashOf[n.key],
                                value |-> IF IsList(n) THEN Hashed(n.value) ELSE n.value], nodes)
        before(i, j) == raw[i].hash < raw[j].hash \/ (raw[i].hash = raw[j].hash /\ i < j)
        at(n) == CHOOSE i \in DOMAIN raw : Cardinality({j \in DOMAIN raw : before(j, i)}) = n - 1
    IN [n \in DOMAIN raw |-> raw[at(n)]]

\* gather_keys: the keys of a tree, one for every hash, the first met kept.
RECURSIVE KeysMet(_, _)
KeysMet(nodes, met) ==
    FoldLeft(LAMBDA keys, node :
                 LET own == IF \E i \in DOMAIN keys : HashOf[keys[i]] = HashOf[node.key]
                            THEN keys ELSE Append(keys, node.key)
                 IN IF IsList(node) THEN KeysMet(node.value, own) ELSE own,
             met, nodes)

KeysBytes(keys) ==
    Field("u32", Len(keys))
      \o FlattenSeq([i \in DOMAIN keys |-> Field("u64", HashOf[keys[i]]) \o Field("u32", 1)
                                             \o Field("key", keys[i])])

\* write_rgd.
WriteRgd(nodes) ==
    WriteChunky(<<Data("AEGD", AegdBytes(Hashed(nodes))),
                  Data("KEYS", KeysBytes(SortSeq(KeysMet(nodes, <<>>), <)))>>)

-----------------------------------------------------------------------------
(* Decoding: rgd.rs *)

\* KeyTable, as parse_keys reads it: the first entry of a hash counts.
KeyTable(body) ==
    [i \in 1 .. At(body, 0) |-> [hash |-> At(body, 4 + 13 * (i - 1)), key |-> At(body, 16 + 13 * (i - 1))]]

Unknown == 0

ResolveKey(hash, table) ==
    LET hits == {i \in DOMAIN table : table[i].hash = hash}
    IN IF hits = {} THEN Unknown ELSE table[CHOOSE i \in hits : \A j \in hits : i <= j].key

RECURSIVE Resolved(_, _)
Resolved(nodes, table) ==
    Each(LAMBDA n : [type |-> n.type, key |-> ResolveKey(n.hash, table),
                     value |-> IF IsList(n) THEN Resolved(n.value, table) ELSE n.value], nodes)

\* RelicGameData::parse: one KEYS and one AEGD chunk, wherever they lie.
ParseRgd(chunks) ==
    LET keys == Named(chunks, "KEYS")
        aegd == Named(chunks, "AEGD")
    IN IF Len(keys) # 1 \/ Len(aegd) # 1 \/ Len(aegd[1].chunk.body) < 4 THEN Unreadable
       ELSE Then(ReadList(aegd[1].chunk.body, 4),
                 LAMBDA list : Got(Resolved(list, KeyTable(keys[1].chunk.body))))

-----------------------------------------------------------------------------
(* Patching: rgd_patch.rs *)

\* Mutant of the next operator: a locstring counts as a string.
MeantAnyString(node, edit) ==
    CASE edit.op = "cstring" -> node.type \in {CStringType, LocStringType} /\ node.value = edit.old
      [] edit.op = "f32" -> node.type = FloatType /\ node.hash = edit.hash /\ node.value = edit.old

\* patch_cstrings and patch_f32s: every node the edit means, at any depth.
Meant(node, edit) ==
    CASE edit.op = "cstring" -> node.type = CStringType /\ node.value = edit.old
      [] edit.op = "f32" -> node.type = FloatType /\ node.hash = edit.hash /\ node.value = edit.old

RECURSIVE Patched(_, _)
Patched(nodes, edit) ==
    Each(LAMBDA n : CASE IsList(n) -> [n EXCEPT !.value = Patched(n.value, edit)]
                      [] ~IsList(n) /\ Meant(n, edit) -> [n EXCEPT !.value = edit.new]
                      [] OTHER -> n, nodes)

RECURSIVE Replacements(_, _)
Replacements(nodes, edit) ==
    FoldLeft(LAMBDA n, node : n + (IF IsList(node) THEN Replacements(node.value, edit)
                                   ELSE IF Meant(node, edit) THEN 1 ELSE 0),
             0, nodes)

\* Mutants of the next operator: the layout of the list is not looked at, or the CRC stays as it was.
PatchedAegdAnyLayout(body, edit) ==
    IF Len(body) < 4 THEN Unreadable
    ELSE Then(ReadList(body, 4),
              LAMBDA list : Got([body |-> AegdBytes(Patched(list, edit)), count |-> Replacements(list, edit)]))

PatchedAegdKeepingCrc(body, edit) ==
    IF Len(body) < 4 THEN Unreadable
    ELSE Then(ReadList(body, 4),
              LAMBDA list : IF ListBytes(list) # SubSeq(body, 5, Len(body)) THEN Unreadable
                            ELSE Got([body |-> SubSeq(body, 1, 4) \o ListBytes(Patched(list, edit)),
                                      count |-> Replacements(list, edit)]))

\* patch_aegd of one AEGD chunk: refused unless its list, as it was read,
\* encodes to the very bytes it came from.
PatchedAegd(body, edit) ==
    IF Len(body) < 4 THEN Unreadable
    ELSE Then(ReadList(body, 4),
              LAMBDA list : IF ListBytes(list) # SubSeq(body, 5, Len(body)) THEN Unreadable
                            ELSE Got([body |-> AegdBytes(Patched(list, edit)),
                                      count |-> Replacements(list, edit)]))

\* Mutant of the next operator: a second AEGD chunk is patched as well.
PatchedEach(body, edit, count) == PatchedAegd(body, edit)

\* The AEGD chunk may be met once; count is -1 until then.
PatchedOnce(body, edit, count) == IF count # -1 THEN Unreadable ELSE PatchedAegd(body, edit)

\* patch_aegd over a tree of chunks.
RECURSIVE PatchChunks(_, _, _)
PatchChunks(chunks, edit, count) ==
    IF chunks = <<>> THEN Got([chunks |-> <<>>, count |-> count])
    ELSE LET chunk == Head(chunks)
             own == CASE chunk.kind = "FOLD" ->
                           Then(PatchChunks(chunk.body, edit, count),
                                LAMBDA inner : Got([body |-> inner.chunks, count |-> inner.count]))
                      [] chunk.kind = "DATA" /\ chunk.name = "AEGD" ->
                           PatchedOnce(chunk.body, edit, count)
                      [] OTHER -> Got([body |-> chunk.body, count |-> count])
             with(body, rest) == [chunks |-> <<[chunk EXCEPT !.body = body]>> \o rest.chunks, count |-> rest.count]
         IN Then(own, LAMBDA patched :
              Then(PatchChunks(Tail(chunks), edit, patched.count), LAMBDA rest : Got(with(patched.body, rest))))

\* The values an edit may name: strings that are there and hold no terminator,
\* floats that are finite.
NotFinite == "nan"
Nameable(edit) ==
    \A text \in {edit.old, edit.new} :
        IF edit.op = "cstring" THEN text # <<>> /\ Nul \notin Range(text)
        ELSE text # <<NotFinite>>

\* The patched chunks as bytes, if an AEGD chunk was among them.
Encoded(chunks, edit) ==
    Then(PatchChunks(chunks, edit, -1),
         LAMBDA patched : IF patched.count = -1 THEN Unreadable
                          ELSE Got([bytes |-> WriteChunky(patched.chunks), count |-> patched.count]))

\* Mutant of the next operator: the layout of the container is not looked at.
PatchBytesAnyContainer(bytes, edit) ==
    IF ~Nameable(edit) THEN Unreadable
    ELSE Then(ReadChunky(bytes), LAMBDA chunks : Encoded(chunks, edit))

\* patch_bytes: refused as well unless the container, as it was read, encodes
\* to the very bytes it came from.
PatchBytes(bytes, edit) ==
    IF ~Nameable(edit) THEN Unreadable
    ELSE Then(ReadChunky(bytes), LAMBDA chunks : IF WriteChunky(chunks) # bytes THEN Unreadable
                                                 ELSE Encoded(chunks, edit))

=============================================================================
