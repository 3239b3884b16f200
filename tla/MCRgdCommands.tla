--------------------------- MODULE MCRgdCommands ---------------------------
(***************************************************************************)
(* A small instance of RgdCommands: trees with every type of value, lists  *)
(* within lists, values whose lengths shift the alignment of what follows, *)
(* files that are laid out as the tool does and files that are not, and a  *)
(* second process that starts from what the first has written.             *)
(***************************************************************************)
EXTENDS RgdCommands

\* Keys are numbered in the order of their spelling; the hashes turn it round.
MCHashOf == [key \in 1 .. 8 |-> 90 - 10 * key]
MCKeyOf == [k \in {"$REF", "$PBGNAME", "$PBGMAP", "default", "instance_version", "id", "override_instances"} |->
              CASE k = "$PBGMAP" -> 1 [] k = "$PBGNAME" -> 2 [] k = "$REF" -> 3
                [] k = "default" -> 4 [] k = "instance_version" -> 5
                [] k = "id" -> 7 [] k = "override_instances" -> 8]

Raw(type, hash, value) == [type |-> type, hash |-> hash, value |-> value]

Short == <<"a">>
Long == <<"b", "a", "b">>
Other == <<"c">>

Mixed ==
    <<Raw(BooleanType, 10, <<"1">>), Raw(CStringType, 20, Short), Raw(LocStringType, 30, <<"a">>),
      Raw(FloatType, 40, <<"7">>), Raw(IntType, 40, <<"7">>)>>

Nested ==
    <<Raw(List2Type, 10, <<Raw(CStringType, 20, Short), Raw(FloatType, 40, <<"7">>),
                           Raw(ListType, 30, <<Raw(CStringType, 20, Short), Raw(BooleanType, 10, <<"0">>)>>)>>),
      Raw(CStringType, 50, Other), Raw(FloatType, 60, <<"7">>)>>

Keys == Data("KEYS", KeysBytes(<<1, 2>>))
File(body) == WriteChunky(<<Data("AEGD", body), Keys>>)

\* A list of two strings in another layout: bytes for the index and the blob.
Checked(list) == Field("crc", list) \o list
Entry(hash, type, offset) == Field("u64", hash) \o Field("u32", type) \o Field("u32", offset)
TwoStrings(first, second, blob) ==
    Checked(Field("u32", 2) \o Entry(10, CStringType, first) \o Entry(20, CStringType, second) \o blob)

\* Files the tool does not lay out itself.
Shared == TwoStrings(0, 0, Text("byte", Short))
Swapped == TwoStrings(2, 0, Text("byte", Other) \o Text("byte", Short))
Trailing == Checked(ListBytes(Nested) \o Field("byte", Nul))
Unaligned == Checked(Field("u32", 2) \o Entry(10, BooleanType, 0) \o Entry(20, FloatType, 1)
                       \o Field("byte", "1") \o Field("four", "7"))
StaleCrc == Field("crc", <<>>) \o ListBytes(Mixed)

\* A folder with a few bytes after its last chunk: no chunk fits there.
Slack(bytes) ==
    FileHeader \o Field("id", "FOLD") \o Field("id", "FLDR") \o Field("u32", 1) \o Field("u32", Len(bytes) + 4)
      \o Field("u32", 0) \o bytes \o Field("u32", 0)

MCSources ==
    {File(AegdBytes(Mixed)), File(AegdBytes(Nested)), File(StaleCrc),
     WriteChunky(<<Keys, Folder(<<>>, <<Data("AEGD", AegdBytes(Mixed))>>)>>),
     WriteChunky(<<Folder(Field("byte", "p"), <<Folder(<<>>, <<Data("AEGD", AegdBytes(Nested)), Keys>>),
                                                Data("INFO", Text("byte", Short))>>), Keys>>),
     WriteChunky(<<Data("AEGD", AegdBytes(Mixed)), Folder(<<>>, <<Data("AEGD", AegdBytes(Mixed))>>), Keys>>),
     File(Shared), File(Swapped), File(Trailing), File(Unaligned), File(<<>>),
     WriteChunky(<<Keys>>), File(AegdBytes(Mixed)) \o Field("u32", 0),
     Slack(ChunkBytes(Data("AEGD", AegdBytes(Mixed))))}

Cmd(op, input, output, old, new, expected) ==
    [op |-> op, input |-> input, output |-> output, old |-> old, new |-> new, hash |-> 40,
     expected |-> expected, document |-> "none"]

CString(input, output, old, new, expected) == Cmd("cstring", input, output, old, new, expected)
F32(input, output, old, new, expected) == Cmd("f32", input, output, <<old>>, <<new>>, expected)
Decode(input, output) == Cmd("decode", input, output, <<>>, <<>>, 0)
Burn(document, output) == [Cmd("burn", Base, output, <<>>, <<>>, 0) EXCEPT !.document = document]

MCCommands ==
    [p \in Processes |->
       IF p = "first"
       THEN {CString("base", "mid", Short, Long, 1), CString("base", "mid", Short, Long, 2),
             CString("base", "mid", Other, Short, 1), CString("base", "mid", Short, <<>>, 1),
             F32("base", "mid", "7", "8", 1), F32("base", "mid", "7", "nan", 1),
             Decode("base", "mid")}
            \cup {Burn(d, "mid") : d \in DOMAIN XmlDocuments}
       ELSE {CString("mid", "out", Long, Short, 2), CString("mid", "out", Short, Long, 1),
             CString("base", "out", Short, Other, 2), F32("mid", "out", "8", "7", 1),
             Decode("mid", "out")}]

Elem(tag, key, value) == [tag |-> tag, key |-> key, value |-> value, mod |-> <<>>, children |-> <<>>]
Start(elem) == [event |-> "start", elem |-> elem]
Empty(elem) == [event |-> "empty", elem |-> elem]
End == [event |-> "end"]

Instance == Start(Elem("instance", 6, <<>>))

MCXmlDocuments ==
    [whole |-> <<Instance, Start(Elem("group", 6, <<>>)),
                   Empty(Elem("float", 2, <<"7">>)), Empty(Elem("file", 1, Short)),
                   Start(Elem("template_reference", 5, Long)), Empty(Elem("bool", 6, <<"true">>)), End,
                 End, Empty(Elem("int", 6, <<"8">>)), End>>,
     lists |-> <<Instance, Start(Elem("list", 3, <<>>)),
                   Empty(Elem("instance_reference", 1, <<"a", "\\", "b", "\\", "c">>)),
                   Empty(Elem("instance_reference", 1, <<"c">>)),
                   Empty([Elem("locstring", 2, <<"7">>) EXCEPT !.mod = <<"m">>]),
                   Empty(Elem("locstring", 2, <<"7">>)), End, End>>,
     tail |-> <<Instance, Start(Elem("group", 6, <<>>)), Empty(Elem("file", 1, Short)), End>>,
     mod |-> <<Start([Elem("mod", 6, <<"true">>) EXCEPT !.mod = Short]), Empty(Elem("vector", 2, <<>>)), End>>,
     wrong |-> <<Instance, Empty(Elem("float", 2, <<"a">>)), End>>,
     strange |-> <<Instance, Empty(Elem("vector", 2, <<"7">>)), End>>,
     other |-> <<Start(Elem("group", 6, <<>>)), End>>]

=============================================================================
