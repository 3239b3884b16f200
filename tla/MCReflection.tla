---------------------------- MODULE MCReflection ----------------------------
(***************************************************************************)
(* A small instance of Reflection: one schema with every class of field, a *)
(* number of graphs that differ in what their strings, arrays and pointers *)
(* hold, and documents as people write them.                               *)
(***************************************************************************)
EXTENDS Reflection

FieldOf(name, type, offset) == [name |-> name, type |-> type, offset |-> offset]
TypeOf(size, bases, fields) == [size |-> size, bases |-> bases, fields |-> fields]
NoFields(size) == TypeOf(size, <<>>, <<>>)

MCRegistry ==
    [t \in {"Node", "Leaf", "Small", "Tint", "Store", "String", "Hash", "Array<Leaf>", "Array<Small>", "Array<Node*>"} |->
       CASE t = "Node" -> TypeOf(64, <<>>, <<FieldOf("m_title", "String", 0), FieldOf("m_nodes", "Array<Node*>", 16),
                                             FieldOf("m_leafs", "Array<Leaf>", 32),
                                             FieldOf("m_leaf", "Offset<Leaf>", 48), FieldOf("m_kind", "Hash", 56)>>)
         [] t = "Leaf" -> TypeOf(32, <<"Small">>, <<FieldOf("m_small", "Small", 0), FieldOf("m_tint", "Tint", 8),
                                                    FieldOf("m_on", "bool", 11), FieldOf("m_n", "int", 12),
                                                    FieldOf("m_text", "String", 16)>>)
         [] t = "Small" -> TypeOf(8, <<>>, <<FieldOf("m_x", "int", 0), FieldOf("m_y", "byte", 4)>>)
         [] t = "Store" -> TypeOf(24, <<>>, <<FieldOf("m_data", "Array<Small>", 0), FieldOf("m_long", "long", 16)>>)
         [] t = "Tint" -> NoFields(3)
         [] t = "Hash" -> NoFields(8)
         [] OTHER -> NoFields(16)]

MCClassByName ==
    [t \in {"String", "Hash", "Array<Leaf>", "Array<Small>", "Array<Node*>", "Offset<Leaf>", "int", "long", "byte", "bool"} |->
       CASE t = "String" -> "str" [] t = "Hash" -> "enum" [] t \in {"Array<Leaf>", "Array<Small>"} -> "array"
         [] t = "Array<Node*>" -> "pointers" [] t = "Offset<Leaf>" -> "offset" [] t = "int" -> "scalar"
         [] t = "long" -> "scalar64" [] t = "byte" -> "scalar8" [] t = "bool" -> "bool"]

MCElementOf == [t \in {"Array<Leaf>", "Array<Small>"} |-> IF t = "Array<Leaf>" THEN "Leaf" ELSE "Small"]

\* Two spellings of one name have one hash.
MCHashOfName == (<<"K">> :> 1001) @@ (<<"k">> :> 1001) @@ (<<"q">> :> 1002) @@ (<<>> :> 1003)

-----------------------------------------------------------------------------
(* Objects *)

Obj(id, type, owner, props) == [id |-> id, type |-> type, owner |-> owner, props |-> props]
Kids(name, ids) == <<name, [is |-> "children", v |-> ids]>>
Str(name, chars) == <<name, [is |-> "string", v |-> chars]>>
Num(name, n) == <<name, [is |-> "scalar", v |-> n]>>
Raw(name, count, cells) == <<name, [is |-> "bytes", v |-> cells, count |-> count]>>

\* A leaf with its embedded objects.
Leaf(id, owner, text) ==
    <<Obj(id, "Leaf", owner, <<Kids("m_small", <<10 * id>>), Kids("m_tint", <<10 * id + 1>>),
                               <<"m_on", [is |-> "bool", v |-> TRUE]>>, Num("m_n", 7), Str("m_text", text)>>),
      Obj(10 * id, "Small", id, <<Num("m_x", 3), Num("m_y", 4)>>),
      Obj(10 * id + 1, "Tint", id, <<Raw("#Raw", 3, <<<<"u8", 1, 9>>, <<"u8", 1, 0>>, <<"u8", 1, 9>>>>)>>)>>

Leafs(ids, owner, text) == FlattenSeq([i \in DOMAIN ids |-> Leaf(ids[i], owner, text)])

Kind(id, owner, chars) == <<Obj(id, "Hash", owner, <<Str("m_enumName", chars)>>)>>

Node(id, owner, title, nodes, leafs, leaf, kind) ==
    <<Obj(id, "Node", owner, <<Str("m_title", title), Kids("m_nodes", nodes), Kids("m_leafs", leafs),
                               Kids("m_leaf", leaf), Kids("m_kind", kind)>>)>>

Store(id, owner, cells) == <<Obj(id, "Store", owner, <<Raw("m_data", 1, cells), Num("m_long", 5)>>)>>

\* A root with up to two targets, one of which has a target itself, up to two
\* leafs in line and one by an offset.
Tree(title, nodes, leafs, leaf) ==
    Node(1, 0, title, nodes, leafs, leaf, <<9>>) \o Kind(9, 1, <<"K">>)
      \o (IF 2 \in Range(nodes) THEN Node(2, 1, <<"b">>, <<8>>, <<>>, <<7>>, <<19>>) \o Kind(19, 2, <<"k">>)
                                       \o Leaf(8, 2, <<>>) \o Leaf(7, 2, title) ELSE <<>>)
      \o (IF 3 \in Range(nodes) THEN Store(3, 1, Cells("u32", 6) \o Cells("u32", 0)) ELSE <<>>)
      \o Leafs(leafs, 1, title) \o Leafs(leaf, 1, <<"t">>)

Trees == {Tree(title, nodes, leafs, leaf) : title \in {<<>>, <<"a">>}, nodes \in {<<>>, <<2>>, <<3, 2>>},
                                            leafs \in {<<>>, <<4, 5>>}, leaf \in {<<>>, <<6>>}}

\* Strings and arrays that are objects of their own.
ReifiedTree ==
    <<Obj(1, "Node", 0, <<Kids("m_title", <<2>>), Kids("m_nodes", <<3>>), Kids("m_leafs", <<4>>),
                          Kids("m_leaf", <<>>), Kids("m_kind", <<5>>)>>),
      Obj(2, "String", 1, <<Str("m_value", <<"a", "b">>)>>),
      Obj(3, "Array<Node*>", 1, <<Kids("m_elements", <<6, 7>>)>>),
      Obj(4, "Array<Leaf>", 1, <<>>),
      Obj(5, "Hash", 1, <<Num("m_hashValue", 77)>>),
      Obj(6, "Store", 3, <<Kids("m_data", <<8>>), Num("m_long", 5)>>),
      Obj(7, "Store", 3, <<Kids("m_data", <<9>>), Num("m_long", 6)>>),
      Obj(8, "Array<Small>", 6, <<Raw("m_elements", 1, Cells("u32", 6) \o Cells("u32", 0))>>),
      Obj(9, "Array<Small>", 7, <<Kids("m_elements", <<10, 11>>)>>),
      Obj(10, "Small", 9, <<Num("m_x", 1), Num("m_y", 2)>>),
      Obj(11, "Small", 9, <<Num("m_x", 3), Num("m_y", 4)>>)>>

\* One target listed twice, in two slots of one array.
Twice == Node(1, 0, <<"a">>, <<3, 2, 3>>, <<>>, <<>>, <<>>) \o Store(3, 1, Cells("u32", 6) \o Cells("u32", 0))
           \o Node(2, 1, <<>>, <<>>, <<>>, <<>>, <<9>>) \o Kind(9, 2, <<"q">>)

\* References to what is not there, in each place that looks for them.
Missing == {Node(1, 0, <<>>, <<2>>, <<>>, <<>>, <<>>), Node(1, 0, <<>>, <<>>, <<2>>, <<>>, <<>>),
            Node(1, 0, <<>>, <<>>, <<>>, <<2>>, <<>>), Node(1, 0, <<>>, <<>>, <<>>, <<>>, <<2>>),
            Node(1, 2, <<>>, <<>>, <<>>, <<>>, <<>>)}

-----------------------------------------------------------------------------
(* Documents *)

Opened(name) == <<[event |-> "start", tag |-> "property", name |-> name, type |-> "String"], End("property")>>
ListedIds(ids) == FlattenSeq([i \in DOMAIN ids |-> <<Start("value"), Text(ids[i]), End("value")>>])
Whole(obj, content) == <<StartObject(obj)>> \o content \o <<End("object")>>
NodeObj(id, owner) == Obj(id, "Node", owner, <<>>)

\* A list of references goes on behind the objects nested in it.
Behind ==
    Whole(NodeObj(1, 0),
          <<StartChildren("m_nodes")>> \o ListedIds(<<2>>)
            \o Whole(NodeObj(2, 1), <<StartChildren("m_nodes")>> \o ListedIds(<<4>>)
                                      \o Whole(NodeObj(4, 2), <<>>) \o <<End("property")>>)
            \o ListedIds(<<3>>) \o Whole(NodeObj(3, 1), <<>>) \o <<End("property")>>)

\* Properties without a name, or without a value.
Nameless == <<[event |-> "empty", tag |-> "property", type |-> "Object"],
              [event |-> "empty", tag |-> "property", type |-> "String", value |-> [is |-> "string", v |-> <<"z">>]]>>
Valueless == <<[event |-> "empty", tag |-> "property", name |-> "m_title", type |-> "String"]>>
OpenedNameless == <<[event |-> "start", tag |-> "property", type |-> "Object"], End("property")>>

\* A string is an element with a start and an end, and values stray about.
Strings ==
    Opened("m_title")
      \o Whole(NodeObj(1, 0),
               Opened("m_title") \o Nameless \o <<Text(5), StartChildren("m_nodes")>> \o ListedIds(<<2, 3>>)
                 \o Whole(NodeObj(2, 1), Opened("m_title") \o Valueless
                                           \o <<StartChildren("m_leafs")>> \o ListedIds(<<4>>)
                                           \o Whole(Leaf(4, 2, <<>>)[1], OpenedNameless) \o <<End("property")>>)
                 \o Whole(NodeObj(3, 1), Opened("m_title")) \o <<End("property")>>)
      \o <<EmptyProp("m_title", [is |-> "string", v |-> <<"z">>]), [event |-> "empty", tag |-> "object"]>>

\* A list goes on behind an object in which a property that is no list was
\* opened and closed.
Astray(property) ==
    Whole(NodeObj(1, 0),
          <<StartChildren("m_nodes")>> \o ListedIds(<<2>>)
            \o Whole(NodeObj(2, 1), property)
            \o ListedIds(<<3>>) \o Whole(NodeObj(3, 1), <<>>) \o <<End("property")>>)

Written1 == ToXml(Tree(<<"a">>, <<2>>, <<>>, <<>>))
Truncated == SubSeq(Written1, 1, Len(Written1) - 20)

MCDocuments ==
    {ToXml(graph) : graph \in Trees \cup Missing \cup {ReifiedTree, Twice}}
      \cup {Behind, Strings, Astray(Opened("m_title")), Astray(OpenedNameless), Truncated, <<>>}

\* The same objects with a longer title.
MCEdits == {ToXml(Tree(<<"a", "a", "a", "a", "a", "a", "a", "a", "a">>, <<2>>, <<>>, <<>>))}
NoEdits == {}

MCGraphs == Trees \cup Missing \cup {ReifiedTree, Twice}

\* The schema, the graphs and the documents are such as NumbersAreAligned,
\* TablesAreExact and ReferencesAreAsListed suppose.
ASSUME InstanceFits ==
    /\ NaturalSchema /\ GraphsTyped /\ RoomySchema /\ GraphsRoomy
    /\ DocumentsGrammatical

=============================================================================
