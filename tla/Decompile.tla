----------------------------- MODULE Decompile -----------------------------
(***************************************************************************)
(* Reading a reflection file back (crates/relic-chunky/src/decompile.rs)   *)
(* and writing its objects as a .rdo document (src/rdo.rs, to_xml).        *)
(*                                                                         *)
(* A file is known by its chunks: rfci, the blob; robj, the table of       *)
(* objects; rfup, rnew and rshi.  It carries the schema it was made with.  *)
(***************************************************************************)
EXTENDS ReflectLayout

CONSTANT ElementOf      \* array_element_type: the type in the name of an array's

-----------------------------------------------------------------------------
(* Reading bytes *)

\* The number in some bytes that are not a field of the kind asked for.
Garbage == 2 ^ 30

Number(blob, p, tag) ==
    LET width == Width[tag]
    IN IF p < 0 \/ p + width > Len(blob) THEN 0
       ELSE IF blob[p + 1][1] = tag /\ blob[p + 1][2] = 1 THEN blob[p + 1][3]
       ELSE IF \A i \in 1 .. width : blob[p + i] = Zero THEN 0 ELSE Garbage

\* A range of bytes, if the blob has all of it.
Has(blob, from, n) == from >= 0 /\ from + n <= Len(blob)
Range8(blob, from, n) == SubSeq(blob, from + 1, from + n)

Nonnegative(n) == Larger(n, 0)

ReadString(blob, p) ==
    LET start == p + Number(blob, p, "i32")
        len == Number(blob, p + 8, "i32")
    IN IF len <= 0 \/ ~Has(blob, start, len) THEN <<>>
       ELSE [i \in 1 .. len |-> blob[start + i][3]]

-----------------------------------------------------------------------------
(* Finding objects *)

None == [ok |-> FALSE]
Some(v) == [ok |-> TRUE, value |-> v]

\* Mutant of the next operator: the first object at a place, whoever owns it.
ChildAtPlace(bin, at, owner) == SelectInSeq(bin.robj, LAMBDA o : o.at = at)

\* Emit::child_at: the first object at a place of the file with that owner.
ChildAt(bin, at, owner) == SelectInSeq(bin.robj, LAMBDA o : o.at = at /\ o.owner = owner)

\* Mutant of the next operator: every object of the parent from the first one on.
AllElements(bin, parent, first, count) ==
    LET owned == SelectSeq([i \in DOMAIN bin.robj |-> i],
                           LAMBDA i : bin.robj[i].owner = parent.id /\ bin.robj[i].at >= first)
    IN IF count = 0 THEN Some(<<>>)
       ELSE IF ChildAt(bin, first, parent.id) = 0 THEN None ELSE Some(owned)

\* array_elements: the parent's objects from the first one on, as many as counted.
ArrayElements(bin, parent, first, count) ==
    LET owned == SelectSeq([i \in DOMAIN bin.robj |-> i],
                           LAMBDA i : bin.robj[i].owner = parent.id /\ bin.robj[i].at >= first)
        sorted == SortSeq(owned, LAMBDA i, j : bin.robj[i].at < bin.robj[j].at
                                                 \/ (bin.robj[i].at = bin.robj[j].at /\ i < j))
    IN IF count = 0 THEN Some(<<>>)
       ELSE IF ChildAt(bin, first, parent.id) = 0 \/ Len(owned) < count THEN None
       ELSE Some(SubSeq(sorted, 1, count))

RawArrayBytes(bin, type, start, count) ==
    LET size == count * SizeOf(ElementOf[type])
    IN IF count = 0 \/ type \notin DOMAIN ElementOf THEN None
       ELSE IF ~Known(ElementOf[type]) \/ ~Has(bin.rfci, start, size) THEN None
       ELSE Some(Range8(bin.rfci, start, size))

PointerTargets(bin, block, count, owner) ==
    LET slot(j) == block + 8 * (j - 1)
        targets == [j \in 1 .. count |->
                      ChildAt(bin, slot(j) + Number(bin.rfci, slot(j), "i64") + RfciFileOffset, owner)]
    IN IF \E j \in 1 .. count : ~Has(bin.rfci, slot(j), 8) \/ targets[j] = 0 THEN None ELSE Some(targets)

-----------------------------------------------------------------------------
(* Building the graph *)

\* The work done so far: the ids met, the objects made, the properties of the
\* object that is being made.
RECURSIVE BuildObject(_, _, _)

Prop(work, name, is, v) == [work EXCEPT !.props = Append(@, <<name, [is |-> is, v |-> v]>>)]
BytesProp(work, name, count, v) ==
    [work EXCEPT !.props = Append(@, <<name, [is |-> "bytes", v |-> v, count |-> count]>>)]

\* children_prop: the references, and then the objects themselves.
ChildrenProp(bin, name, found, work) ==
    FoldLeft(LAMBDA w, i : BuildObject(bin, i, w),
             Prop(work, name, "children", [n \in DOMAIN found |-> bin.robj[found[n]].id]), found)

\* build_content: an enum, a string or an array that is an object of its own.
EnumContent(bin, base, work) ==
    LET hash == Number(bin.rfci, base, "u64")
        at == SelectInSeq(bin.rshi, LAMBDA s : s.hash = hash)
    IN IF at # 0 THEN Prop(work, "m_enumName", "string", bin.rshi[at].name)
       ELSE Prop(work, "m_hashValue", "scalar", hash)

ArrayContent(bin, obj, base, work) ==
    LET rel == Number(bin.rfci, base, "i32")
        count == Nonnegative(Number(bin.rfci, base + 8, "i32"))
        elements == ArrayElements(bin, obj, obj.at + rel, count)
        raw == RawArrayBytes(bin, obj.type, base + rel, count)
    IN IF elements.ok
       THEN IF elements.value = <<>> THEN work ELSE ChildrenProp(bin, "m_elements", elements.value, work)
       ELSE IF raw.ok THEN BytesProp(work, "m_elements", count, raw.value) ELSE work

PointersContent(bin, obj, base, work) ==
    LET rel == Number(bin.rfci, base, "i32")
        count == Nonnegative(Number(bin.rfci, base + 8, "i32"))
        targets == PointerTargets(bin, base + rel, count, obj.id)
    IN IF targets.ok /\ count > 0 THEN ChildrenProp(bin, "m_elements", targets.value, work) ELSE work

\* build_property.
BuildProperty(bin, parent, field, work) ==
    LET p == parent.at - RfciFileOffset + field.offset
        at == parent.at + field.offset
        class == Classify(field.type)
        child == ChildAt(bin, at, parent.id)
        rel == Number(bin.rfci, p, "i32")
        count == Nonnegative(Number(bin.rfci, p + 8, "i32"))
        target == IF rel = 0 THEN 0 ELSE ChildAt(bin, at + rel, parent.id)
        targets == PointerTargets(bin, p + rel, count, parent.id)
        elements == ArrayElements(bin, parent, at + rel, count)
        raw == RawArrayBytes(bin, field.type, p + rel, count)
        one(i) == ChildrenProp(bin, field.name, IF i = 0 THEN <<>> ELSE <<i>>, work)
        many(found) == ChildrenProp(bin, field.name, found, work)
    IN CASE class = "scalar" -> Prop(work, field.name, "scalar", Number(bin.rfci, p, "u32"))
         [] class = "scalar64" -> Prop(work, field.name, "scalar", Number(bin.rfci, p, "u64"))
         [] class = "scalar8" -> Prop(work, field.name, "scalar", Number(bin.rfci, p, "u8"))
         [] class = "bool" -> Prop(work, field.name, "bool", Number(bin.rfci, p, "u8") # 0)
         [] class = "str" /\ child = 0 -> Prop(work, field.name, "string", ReadString(bin.rfci, p))
         [] class = "offset" -> one(target)
         [] class = "pointers" /\ child = 0 -> many(IF targets.ok THEN targets.value ELSE <<>>)
         [] class = "array" /\ child = 0 /\ elements.ok -> many(elements.value)
         [] class = "array" /\ child = 0 /\ ~elements.ok ->
              IF raw.ok THEN BytesProp(work, field.name, count, raw.value) ELSE many(<<>>)
         [] OTHER -> one(child)

BuildContent(bin, obj, work) ==
    LET base == obj.at - RfciFileOffset
        class == Classify(obj.type)
        type == Registry[obj.type]
    IN CASE class = "enum" -> EnumContent(bin, base, work)
         [] class = "str" -> Prop(work, "m_value", "string", ReadString(bin.rfci, base))
         [] class = "array" -> ArrayContent(bin, obj, base, work)
         [] class = "pointers" -> PointersContent(bin, obj, base, work)
         [] class = "opaque" /\ type.fields = <<>> /\ type.size > 0 ->
              BytesProp(work, "#Raw", type.size,
                        IF Has(bin.rfci, base, type.size) THEN Range8(bin.rfci, base, type.size) ELSE <<>>)
         [] OTHER -> FoldLeft(LAMBDA w, field : BuildProperty(bin, obj, field, w), work, type.fields)

\* base_types_string: the bases of a type, if all of them are known.
BaseTypes(type) ==
    LET bases == Registry[type].bases
    IN IF bases = <<>> \/ (\E i \in DOMAIN bases : ~Known(bases[i])) THEN <<>>
       ELSE <<<<"#BaseTypes", [is |-> "string", v |-> bases]>>>>

\* build_object: an id is built once; an object joins the graph when all it
\* holds has.
BuildObject(bin, i, work) ==
    LET obj == bin.robj[i]
        built == BuildContent(bin, obj, [met |-> work.met \cup {obj.id}, out |-> work.out,
                                         props |-> BaseTypes(obj.type)])
    IN IF ~Known(obj.type) \/ obj.id \in work.met THEN work
       ELSE [met |-> built.met, props |-> work.props,
             out |-> Append(built.out, [id |-> obj.id, type |-> obj.type, owner |-> obj.owner,
                                        props |-> built.props])]

\* parse and to_rdo_graph: from the first object without an owner, or else the
\* first of the allocation table.
ToRdoGraph(bin) ==
    LET ownerless == SelectInSeq(bin.robj, LAMBDA o : o.owner = 0)
        id == IF ownerless # 0 THEN bin.robj[ownerless].id ELSE bin.rnew[1].id
        root == SelectInSeq(bin.robj, LAMBDA o : o.id = id)
    IN IF root = 0 THEN <<>> ELSE BuildObject(bin, root, [met |-> {}, out |-> <<>>, props |-> <<>>]).out

-----------------------------------------------------------------------------
(* to_xml *)

Start(tag) == [event |-> "start", tag |-> tag]
End(tag) == [event |-> "end", tag |-> tag]
Text(id) == [event |-> "text", tag |-> "text", id |-> id]
StartObject(obj) == [event |-> "start", tag |-> "object", id |-> obj.id, type |-> obj.type, owner |-> obj.owner]
StartChildren(name) == [event |-> "start", tag |-> "property", name |-> name, type |-> "Object"]
EmptyProp(name, value) ==
    [event |-> "empty", tag |-> "property", name |-> name,
     type |-> IF value.is = "children" THEN "Object" ELSE value.is, value |-> value]

RECURSIVE EmitObject(_, _, _)

\* emit_prop: all references of a property, then the objects among them that
\* were not emitted yet.
EmitProp(graph, prop, xml) ==
    LET ids == prop[2].v
        listed == [xml EXCEPT !.events = @ \o <<StartChildren(prop[1])>>
                      \o FlattenSeq([i \in DOMAIN ids |-> <<Start("value"), Text(ids[i]), End("value")>>])]
        nested == FoldLeft(LAMBDA x, id : EmitObject(graph, SelectInSeq(graph, LAMBDA o : o.id = id), x),
                           listed, ids)
    IN IF prop[2].is # "children" \/ ids = <<>>
       THEN [xml EXCEPT !.events = Append(@, EmptyProp(prop[1], prop[2]))]
       ELSE [nested EXCEPT !.events = Append(@, End("property"))]

EmitObject(graph, i, xml) ==
    IF i = 0 THEN xml
    ELSE IF graph[i].id \in xml.emitted THEN xml
    ELSE LET opened == [emitted |-> xml.emitted \cup {graph[i].id},
                        events |-> Append(xml.events, StartObject(graph[i]))]
             body == FoldLeft(LAMBDA x, prop : EmitProp(graph, prop, x), opened, graph[i].props)
         IN [body EXCEPT !.events = Append(@, End("object"))]

ToXml(graph) ==
    LET root == SelectInSeq(graph, LAMBDA o : o.owner = 0)
    IN <<Start("other")>> \o EmitObject(graph, root, [emitted |-> {}, events |-> <<>>]).events
         \o <<End("other")>>

=============================================================================
