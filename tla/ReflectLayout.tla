--------------------------- MODULE ReflectLayout ---------------------------
(***************************************************************************)
(* Placing an object graph in a reflection blob                            *)
(* (crates/relic-chunky/src/reflect_write.rs): the bytes of every object,  *)
(* the data its fields point at, and the tables made of where they went.   *)
(*                                                                         *)
(* inline_write and place call themselves and each other.  A frame here is *)
(* one call of place: the objects still to be written in line, the row of  *)
(* array elements to go on with, the items still to be placed, and what    *)
(* the call waits for.                                                     *)
(*                                                                         *)
(* An object is [id, type, owner, props], a property <<name, value>>, and  *)
(* a value [is, v] with count for raw bytes.  A byte is <<tag, i, v>>:     *)
(* byte i of a field of kind tag that holds v.  A type stands for its      *)
(* hash.                                                                   *)
(***************************************************************************)
EXTENDS Integers, Sequences, FiniteSets, SequencesExt

CONSTANTS
    Registry,       \* the schema: by type, its size, its bases and its fields [name, type, offset]
    ClassByName,    \* classify_field by the spelling of a type, for those it tells by it
    HashOfName,     \* city_hash64 of the value of an enum
    Graphs          \* the objects a compilation may start from

VARIABLES
    objects,        \* the graph that is compiled
    data,           \* State.blob; its length is State.len
    next,           \* State.next, the append cursor
    order,          \* State.order
    pointers,       \* State.pointers
    interned,       \* State.rshi
    frames,         \* the calls of place under way
    status,         \* "placing", "placed" or "failed"
    pieces          \* auxiliary: the parts of the blob given out, in order

layoutVars == <<objects, data, next, order, pointers, interned, frames, status, pieces>>

-----------------------------------------------------------------------------
(* Types *)

RfciFileOffset == 44
RfciPrefix == 4

Known(type) == type \in DOMAIN Registry
HasFields(type) == Known(type) /\ Registry[type].fields # <<>>

Classify(type) ==
    IF type \in DOMAIN ClassByName THEN ClassByName[type]
    ELSE IF HasFields(type) THEN "embed" ELSE "opaque"

SizeOf(type) == IF Known(type) THEN Registry[type].size ELSE 8

\* field_align, for types aligned as typeAlign says.
FieldAlign(typeAlign, type) ==
    LET class == Classify(type)
    IN CASE class \in {"str", "array", "pointers", "offset", "scalar64", "enum"} -> 8
         [] class = "scalar" -> 4
         [] class \in {"bool", "scalar8", "opaque"} -> 1
         [] class = "embed" -> typeAlign[type]

\* type_align: the widest alignment of the fields.
WidestField(typeAlign, type) ==
    LET fields == Registry[type].fields
    IN IF fields = <<>> THEN 8 ELSE Max({FieldAlign(typeAlign, fields[i].type) : i \in DOMAIN fields})

TypeAlign[type \in DOMAIN Registry] == WidestField(TypeAlign, type)

AlignOf(type) == IF Known(type) THEN TypeAlign[type] ELSE 8

ASSUME SchemaAssumption ==
    \* classify_field tells nothing embedded or opaque by its spelling
    /\ \A type \in DOMAIN ClassByName :
         ClassByName[type] \in {"str", "array", "pointers", "offset", "scalar64", "enum", "scalar", "bool", "scalar8"}
    /\ \A type \in DOMAIN Registry : Registry[type].size \in Nat
    \* a field lies within its type
    /\ \A type \in DOMAIN Registry :
         Registry[type].fields \in Seq([name : STRING, type : STRING, offset : 0 .. Registry[type].size - 1])
    \* no type is embedded in itself, directly or through others
    /\ \A types \in SUBSET DOMAIN Registry : types # {} =>
         \E type \in types : \A i \in DOMAIN Registry[type].fields :
           Registry[type].fields[i].type \in types => Classify(Registry[type].fields[i].type) # "embed"

-----------------------------------------------------------------------------
(* Objects *)

ByteCells == STRING \X Nat \X Int
PropValues ==
    [is : {"string"}, v : Seq(STRING)] \cup [is : {"children"}, v : Seq(Nat)]
      \cup [is : {"bytes"}, v : Seq(ByteCells), count : Nat]
      \cup [is : {"scalar"}, v : Nat] \cup [is : {"bool"}, v : BOOLEAN]
Objects == [id : Nat, type : STRING, owner : Nat, props : Seq(STRING \X PropValues)]

ASSUME GraphsAssumption == Graphs \subseteq Seq(Objects)

\* The object of an id: the last one given it; 0 if there is none.
Index(objs, id) ==
    IF \E i \in DOMAIN objs : objs[i].id = id
    THEN CHOOSE i \in DOMAIN objs : objs[i].id = id /\ \A j \in DOMAIN objs : objs[j].id = id => j <= i
    ELSE 0

\* RdoObject::scalar, string, ...: the first property of the name, if its value
\* is of the kind asked for.
PropAt(obj, name) == SelectInSeq(obj.props, LAMBDA p : p[1] = name)
HasValue(obj, name, is) == PropAt(obj, name) # 0 /\ obj.props[PropAt(obj, name)][2].is = is
Value(obj, name, is, default) == IF HasValue(obj, name, is) THEN obj.props[PropAt(obj, name)][2].v ELSE default

ChildIds(obj, name) == Value(obj, name, "children", <<>>)
RawCount(obj, name) == obj.props[PropAt(obj, name)][2].count

IsContainer(type) == Classify(type) \in {"str", "array", "pointers"}

\* Strings and arrays are objects of their own in this graph.
Reified(objs) == \E i \in DOMAIN objs : IsContainer(objs[i].type)

\* reified_child: the one child of a field if it is such an object, else 0.
ReifiedChild(objs, obj, name) ==
    LET ids == ChildIds(obj, name)
        child == IF Len(ids) = 1 THEN Index(objs, ids[1]) ELSE 0
    IN IF child # 0 /\ Len(ids) = 1
       THEN IF IsContainer(objs[child].type) THEN child ELSE 0
       ELSE 0

-----------------------------------------------------------------------------
(* Bytes *)

Width == [u8 |-> 1, u32 |-> 4, i32 |-> 4, u64 |-> 8, i64 |-> 8, char |-> 1]
Cells(tag, v) == [i \in 1 .. Width[tag] |-> <<tag, i, v>>]
Zero == <<"zero", 1, 0>>

Larger(a, b) == IF a < b THEN b ELSE a

\* ensure(end), and the writes [off, cells], which lie apart and before end.
Written(blob, end, writes) ==
    [p \in 1 .. Larger(Len(blob), end) |->
       IF \E w \in writes : w.off < p /\ p <= w.off + Len(w.cells)
       THEN LET w == CHOOSE w \in writes : w.off < p /\ p <= w.off + Len(w.cells)
            IN w.cells[p - w.off]
       ELSE IF p <= Len(blob) THEN blob[p] ELSE Zero]

\* Mutant of the next operator: the place in the blob is aligned.
AlignInBlob(rel, align) == ((rel + align - 1) \div align) * align

\* align_file: rel is rounded up so that its place in the file is aligned.
AlignFile(rel, align) ==
    ((RfciFileOffset + rel + align - 1) \div align) * align - RfciFileOffset

\* Mutant of the next operator: what was written past the cursor is not looked at.
CursorAlone(align) == AlignFile(next, align)

\* State::append.
Cursor(align) == AlignFile(Larger(next, Len(data)), align)

\* A relative reference and a count: what a field of a string or an array holds.
Reference(fpos, at, count) ==
    {[off |-> fpos, cells |-> Cells("i32", at - fpos)], [off |-> fpos + 8, cells |-> Cells("i32", count)]}

-----------------------------------------------------------------------------
(* In line *)

Item(kind, fpos, value) == [kind |-> kind, fpos |-> fpos, value |-> value]

\* An array is raw if it has bytes and no children.
ArrayItem(obj, name, fpos) ==
    IF ChildIds(obj, name) = <<>> /\ HasValue(obj, name, "bytes")
    THEN Item("raw", fpos, [bytes |-> Value(obj, name, "bytes", <<>>), count |-> RawCount(obj, name)])
    ELSE Item("array", fpos, ChildIds(obj, name))

\* What one field asks for: a write, an item to be placed, a child in line.
FieldWrite(obj, name, class, fpos) ==
    CASE class = "scalar" -> {[off |-> fpos, cells |-> Cells("u32", Value(obj, name, "scalar", 0))]}
      [] class = "scalar64" -> {[off |-> fpos, cells |-> Cells("u64", Value(obj, name, "scalar", 0))]}
      [] class = "scalar8" -> {[off |-> fpos, cells |-> Cells("u8", Value(obj, name, "scalar", 0))]}
      [] class = "bool" -> {[off |-> fpos, cells |-> Cells("u8", IF Value(obj, name, "bool", FALSE) THEN 1 ELSE 0)]}
      [] OTHER -> {}

ContainerItem(obj, name, class, fpos) ==
    CASE class = "str" -> {Item("str", fpos, Value(obj, name, "string", <<>>))}
      [] class = "array" -> {ArrayItem(obj, name, fpos)}
      [] class = "pointers" -> {Item("pointers", fpos, ChildIds(obj, name))}
      [] class = "offset" -> {Item("offset", fpos, ChildIds(obj, name))}
      [] OTHER -> {}

\* The child that is written where the field is, 0 if none is.
FieldChild(objs, obj, field) ==
    LET ids == ChildIds(obj, field.name)
    IN CASE IsContainer(field.type) -> ReifiedChild(objs, obj, field.name)
         [] Classify(field.type) \in {"embed", "enum", "opaque"} ->
              IF ids = <<>> THEN 0 ELSE Index(objs, ids[1])
         [] OTHER -> 0

\* The hash of an enum object, and whether its name is to be interned.
EnumNamed(obj) == ~HasValue(obj, "m_hashValue", "scalar")
EnumName(obj) == Value(obj, "m_enumName", "string", <<>>)
EnumHash(obj) == IF EnumNamed(obj) THEN HashOfName[EnumName(obj)] ELSE Value(obj, "m_hashValue", "scalar", 0)

\* inline_write up to the children it writes in turn: [writes, items, children].
Content(obj, off) ==
    LET class == Classify(obj.type)
        fields == IF class \in {"embed", "scalar", "scalar64", "scalar8", "bool", "offset"} /\ Known(obj.type)
                  THEN Registry[obj.type].fields ELSE <<>>
        child(i) == FieldChild(objects, obj, fields[i])
        fpos(i) == off + fields[i].offset
        inLine == [i \in DOMAIN fields |-> [obj |-> child(i), off |-> fpos(i)]]
    IN CASE class = "enum" -> [writes |-> {[off |-> off, cells |-> Cells("u64", EnumHash(obj))]},
                               items |-> {}, children |-> <<>>]
         [] class = "str" -> [writes |-> {}, items |-> ContainerItem(obj, "m_value", class, off), children |-> <<>>]
         [] class \in {"array", "pointers"} ->
              [writes |-> {}, items |-> ContainerItem(obj, "m_elements", class, off), children |-> <<>>]
         [] class = "opaque" -> [writes |-> {[off |-> off, cells |-> Value(obj, "#Raw", "bytes", <<>>)]},
                                 items |-> {}, children |-> <<>>]
         [] OTHER -> [writes |-> UNION {FieldWrite(obj, fields[i].name, Classify(fields[i].type), fpos(i)) :
                                          i \in DOMAIN fields},
                      items |-> UNION {ContainerItem(obj, fields[i].name, Classify(fields[i].type), fpos(i)) :
                                         i \in {j \in DOMAIN fields : child(j) = 0}},
                      children |-> inLine]

-----------------------------------------------------------------------------
(* Placement *)

NotWaiting == [on |-> "nothing"]
NoRow == [ids |-> <<>>, at |-> 0]
Call(todo) == [todo |-> todo, row |-> NoRow, items |-> {}, wait |-> NotWaiting]

Top == frames[Len(frames)]
Update(frame) == frames' = [frames EXCEPT ![Len(frames)] = frame]

\* place_all: the root is the first object without an owner, and its type is
\* one of the schema's.
Root(objs) == SelectInSeq(objs, LAMBDA o : o.owner = 0)
Placeable(objs) == Root(objs) # 0 /\ Known(objs[Root(objs)].type)
RootEnd(objs) == RfciPrefix + SizeOf(objs[Root(objs)].type)
FirstCall(objs) == <<Call(<<[obj |-> Root(objs), off |-> RfciPrefix]>>)>>
FirstData == Written(<<>>, RfciPrefix, {})

LayoutInit ==
    /\ objects \in Graphs
    /\ Placeable(objects)
    /\ data = FirstData
    /\ next = RootEnd(objects)
    /\ frames = FirstCall(objects)
    /\ pieces = <<[from |-> RfciPrefix, to |-> RootEnd(objects)]>>
    /\ order = <<>>
    /\ pointers = <<>>
    /\ interned = <<>>
    /\ status = "placing"

Placing == status = "placing" /\ frames # <<>>

\* The call has written in line all it has so far.
InLineDone == Placing /\ Top.todo = <<>> /\ Top.row.ids = <<>>

\* inline_write of one object: what its fields hold, the items they leave, and
\* the objects embedded in it next.
InlineWrite ==
    /\ Placing
    /\ Top.todo # <<>>
    /\ Head(Top.todo).obj # 0
    /\ LET now == Head(Top.todo)
           obj == objects[now.obj]
           content == Content(obj, now.off)
           \* an object of raw bytes may have more of them than its type has
           raw == IF Classify(obj.type) = "opaque" THEN Len(Value(obj, "#Raw", "bytes", <<>>)) ELSE 0
       IN /\ data' = Written(data, now.off + Larger(SizeOf(obj.type), raw), content.writes)
          /\ order' = Append(order, now)
          /\ interned' =
               IF Classify(obj.type) = "enum" /\ EnumNamed(obj)
                    /\ ~(\E i \in DOMAIN interned : interned[i].hash = EnumHash(obj))
               THEN Append(interned, [hash |-> EnumHash(obj), name |-> EnumName(obj)]) ELSE interned
          /\ Update([Top EXCEPT !.todo = content.children \o Tail(@), !.items = @ \cup content.items])
    /\ UNCHANGED <<objects, next, pointers, status, pieces>>

\* A field that has no object to be written in line.
SkipField ==
    /\ Placing
    /\ Top.todo # <<>>
    /\ Head(Top.todo).obj = 0
    /\ Update([Top EXCEPT !.todo = Tail(@)])
    /\ UNCHANGED <<objects, data, next, order, pointers, interned, status, pieces>>

\* The item a call places next: the one furthest on, or the first if the graph
\* is reified.
IsNext(item) ==
    /\ InLineDone
    /\ Top.wait = NotWaiting
    /\ item \in Top.items
    /\ \A other \in Top.items :
         IF Reified(objects) THEN item.fpos <= other.fpos ELSE other.fpos <= item.fpos

ItemDone(item) == [Top EXCEPT !.items = @ \ {item}]
Found(ids) == \A i \in DOMAIN ids : Index(objects, ids[i]) # 0
Child(id) == Index(objects, id)
ChildType(id) == objects[Child(id)].type

\* A part of the blob is given out.
Give(from, to) == pieces' = Append(pieces, [from |-> from, to |-> to])

\* A string: its characters and a terminator, wherever the cursor is.
PlaceStr(item) ==
    /\ IsNext(item)
    /\ item.kind = "str"
    /\ LET at == Larger(next, Len(data))
           chars == item.value
       IN /\ next' = at
          /\ data' = Written(data, at + Len(chars) + 1,
                             Reference(item.fpos, at, Len(chars))
                               \cup {[off |-> at, cells |-> [i \in DOMAIN chars |-> <<"char", 1, chars[i]>>]]})
          /\ Give(at, at + Len(chars) + 1)
    /\ Update(ItemDone(item))
    /\ UNCHANGED <<objects, order, pointers, interned, status>>

\* write_empty_array: nowhere, or at an aligned place of its own if reified.
PlaceEmptyArray(item) ==
    /\ IsNext(item)
    /\ item.kind \in {"array", "pointers"}
    /\ item.value = <<>>
    /\ LET at == IF Reified(objects) THEN Cursor(8) ELSE item.fpos
       IN /\ next' = IF Reified(objects) THEN at ELSE next
          /\ data' = Written(data, item.fpos + 12, Reference(item.fpos, at, 0))
    /\ Update(ItemDone(item))
    /\ UNCHANGED <<objects, order, pointers, interned, status, pieces>>

\* The elements of an array begin where the cursor is for the first of them.
PlaceArray(item) ==
    /\ IsNext(item)
    /\ item.kind = "array"
    /\ item.value # <<>>
    /\ Found(item.value)
    /\ LET first == Cursor(AlignOf(ChildType(item.value[1])))
       IN /\ next' = first
          /\ data' = Written(data, item.fpos + 12, Reference(item.fpos, first, Len(item.value)))
          /\ Update([ItemDone(item) EXCEPT !.row = [ids |-> item.value, at |-> first]])
    /\ UNCHANGED <<objects, order, pointers, interned, status, pieces>>

\* The next element of an array, right behind the one before it.
NextElement ==
    /\ Placing
    /\ Top.todo = <<>>
    /\ Top.row.ids # <<>>
    /\ LET id == Head(Top.row.ids)
           at == Top.row.at
           end == at + SizeOf(ChildType(id))
       IN /\ Update([Top EXCEPT !.todo = <<[obj |-> Child(id), off |-> at]>>,
                                !.row = [ids |-> Tail(@.ids), at |-> end]])
          /\ Give(at, end)
    /\ UNCHANGED <<objects, data, next, order, pointers, interned, status>>

PlaceRawArray(item) ==
    /\ IsNext(item)
    /\ item.kind = "raw"
    /\ LET at == Cursor(8)
           bytes == item.value.bytes
       IN /\ next' = at
          /\ data' = Written(data, Larger(item.fpos + 12, at + Len(bytes)),
                             Reference(item.fpos, at, item.value.count) \cup {[off |-> at, cells |-> bytes]})
          /\ Give(at, at + Len(bytes))
    /\ Update(ItemDone(item))
    /\ UNCHANGED <<objects, order, pointers, interned, status>>

\* The slots of a pointer array are set aside before its targets are placed.
BeginPointers(item) ==
    /\ IsNext(item)
    /\ item.kind = "pointers"
    /\ item.value # <<>>
    /\ Found(item.value)
    /\ LET block == Cursor(8)
           end == block + 8 * Len(item.value)
       IN /\ next' = end
          /\ data' = Written(data, end, {})
          /\ Update([ItemDone(item) EXCEPT !.wait =
                       [on |-> "pointers", fpos |-> item.fpos, block |-> block, ids |-> item.value,
                        left |-> Len(item.value), targets |-> [k \in DOMAIN item.value |-> 0]]])
          /\ Give(block, end)
    /\ UNCHANGED <<objects, order, pointers, interned, status>>

\* A call of place for one object of its own.
CallPlace(waiting, id, at) ==
    /\ next' = at
    /\ frames' = Append([frames EXCEPT ![Len(frames)] = waiting], Call(<<[obj |-> Child(id), off |-> at]>>))
    /\ Give(at, at + SizeOf(ChildType(id)))
    /\ UNCHANGED <<objects, data, order, pointers, interned, status>>

\* The targets are placed from the last slot to the first, each with all it holds.
PlaceTarget ==
    /\ InLineDone
    /\ Top.wait.on = "pointers"
    /\ Top.wait.left > 0
    /\ LET w == Top.wait
           id == w.ids[w.left]
           at == Cursor(AlignOf(ChildType(id)))
           placed == [w.targets EXCEPT ![w.left] = at]
       IN CallPlace([Top EXCEPT !.wait = [w EXCEPT !.left = w.left - 1, !.targets = placed]], id, at)

Slot(block, j) == block + 8 * (j - 1)

\* Every target is in place: the slots are filled, and noted as pointers.
EndPointers ==
    /\ InLineDone
    /\ Top.wait.on = "pointers"
    /\ Top.wait.left = 0
    /\ LET w == Top.wait
           slots == {[off |-> Slot(w.block, j), cells |-> Cells("i64", w.targets[j] - Slot(w.block, j))] :
                       j \in DOMAIN w.ids}
       IN /\ data' = Written(data, w.fpos + 12, slots \cup Reference(w.fpos, w.block, Len(w.ids)))
          /\ pointers' = pointers \o [j \in DOMAIN w.ids |->
                                        [at |-> RfciFileOffset + Slot(w.block, j),
                                         target |-> Child(w.ids[j]), off |-> w.targets[j]]]
    /\ Update([Top EXCEPT !.wait = NotWaiting])
    /\ UNCHANGED <<objects, next, order, interned, status, pieces>>

\* An offset pointer to nothing.
PlaceNothing(item) ==
    /\ IsNext(item)
    /\ item.kind = "offset"
    /\ item.value = <<>>
    /\ data' = Written(data, item.fpos + 4, {[off |-> item.fpos, cells |-> Cells("i32", 0)]})
    /\ Update(ItemDone(item))
    /\ UNCHANGED <<objects, next, order, pointers, interned, status, pieces>>

\* An offset pointer to its first child.
BeginOffset(item) ==
    /\ IsNext(item)
    /\ item.kind = "offset"
    /\ item.value # <<>>
    /\ Found(<<item.value[1]>>)
    /\ LET at == Cursor(AlignOf(ChildType(item.value[1])))
       IN CallPlace([ItemDone(item) EXCEPT !.wait = [on |-> "offset", fpos |-> item.fpos, at |-> at]],
                    item.value[1], at)

EndOffset ==
    /\ InLineDone
    /\ Top.wait.on = "offset"
    /\ data' = Written(data, Top.wait.fpos + 4,
                       {[off |-> Top.wait.fpos, cells |-> Cells("i32", Top.wait.at - Top.wait.fpos)]})
    /\ Update([Top EXCEPT !.wait = NotWaiting])
    /\ UNCHANGED <<objects, next, order, pointers, interned, status, pieces>>

\* A child that the graph does not hold ends the compilation: the look-up by id
\* returns an error, and where the alignment of the child is asked for first (the
\* first of an array, a pointer's or an offset's target) the map is indexed
\* without a check and the program panics.  Nothing is written either way, so both
\* are one outcome here; targets that would be placed before the missing one are
\* not.
MissingChild(item) ==
    /\ IsNext(item)
    /\ \/ item.kind \in {"array", "pointers"} /\ ~Found(item.value)
       \/ item.kind = "offset" /\ item.value # <<>> /\ ~Found(SubSeq(item.value, 1, 1))
    /\ status' = "failed"
    /\ UNCHANGED <<objects, data, next, order, pointers, interned, frames, pieces>>

\* A call of place returns to the one that made it.  After the first one the
\* tables are built, which fails for an object whose type is not in the schema.
Return ==
    /\ InLineDone
    /\ Top.items = {}
    /\ Top.wait = NotWaiting
    /\ frames' = SubSeq(frames, 1, Len(frames) - 1)
    /\ status' = IF Len(frames) > 1 THEN status
                 ELSE IF \A i \in DOMAIN order : Known(objects[order[i].obj].type) THEN "placed" ELSE "failed"
    /\ UNCHANGED <<objects, data, next, order, pointers, interned, pieces>>

PlaceItem ==
    \E item \in UNION {frames[i].items : i \in DOMAIN frames} :
        \/ PlaceStr(item) \/ PlaceEmptyArray(item) \/ PlaceArray(item) \/ PlaceRawArray(item)
        \/ BeginPointers(item) \/ PlaceNothing(item) \/ BeginOffset(item) \/ MissingChild(item)

LayoutNext == InlineWrite \/ SkipField \/ NextElement \/ PlaceItem \/ PlaceTarget \/ EndPointers \/ EndOffset \/ Return

LayoutSpec == LayoutInit /\ [][LayoutNext]_layoutVars

-----------------------------------------------------------------------------
(* Tables *)

\* build_robj: one record for every object placed, with its place in the file.
Robj == [i \in DOMAIN order |->
           LET obj == objects[order[i].obj]
           IN [id |-> obj.id, type |-> obj.type, owner |-> obj.owner, at |-> RfciFileOffset + order[i].off]]

\* Mutant of the next operator: the pointers in the order they were written.
RfupAsWritten == [i \in DOMAIN pointers |-> pointers[i].at]

\* The finite set K in the strict order R, a set of pairs.
Enumerate(K, R) ==
    [n \in 1 .. Cardinality(K) |-> CHOOSE k \in K : Cardinality({other \in K : <<other, k>> \in R}) = n - 1]

\* build_rfup: the places of all pointers, in ascending order.
ByPlace == {p \in (DOMAIN pointers) \X (DOMAIN pointers) :
              LET a == pointers[p[1]].at
                  b == pointers[p[2]].at
              IN a < b \/ (a = b /\ p[1] < p[2])}
Rfup == LET sorted == Enumerate(DOMAIN pointers, ByPlace)
        IN [n \in DOMAIN sorted |-> pointers[sorted[n]].at]

\* build_rnew: the first place of every pointer's target, then the root.
Firsts == {i \in DOMAIN pointers :
             \A j \in 1 .. i - 1 : objects[pointers[j].target].id # objects[pointers[i].target].id}
NewRecord(o, off) ==
    [id |-> objects[o].id, type |-> objects[o].type, at |-> RfciFileOffset + off, root |-> objects[o].owner = 0]
Rnew ==
    LET firsts == Enumerate(Firsts, {p \in Firsts \X Firsts : p[1] < p[2]})
        target(i) == NewRecord(pointers[i].target, pointers[i].off)
    IN [n \in DOMAIN firsts |-> target(firsts[n])] \o <<NewRecord(Root(objects), RfciPrefix)>>

-----------------------------------------------------------------------------
(* What the proof of NumbersAligned supposes *)

\* What an object needs where it is written in line: one of raw bytes nothing,
\* although AlignOf has 8 for it.
Need(type) ==
    IF Classify(type) \in {"str", "array", "pointers", "enum", "opaque"} THEN FieldAlign(TypeAlign, type)
    ELSE AlignOf(type)

\* The schema is laid out as a compiler lays out structures: fields at multiples
\* of their alignment, types as long as a multiple of theirs.
NaturalSchema ==
    \A type \in DOMAIN Registry :
        /\ Registry[type].size % Need(type) = 0
        /\ Classify(type) \in {"str", "array", "pointers", "enum"} => TypeAlign[type] = 8
        /\ \A i \in DOMAIN Registry[type].fields :
             Registry[type].fields[i].offset % FieldAlign(TypeAlign, Registry[type].fields[i].type) = 0

Aligned(off, align) == (RfciFileOffset + off) % align = 0

\* A byte that begins a number lies at an offset in the blob for its width.
InPlace(byte, off) == byte[2] = 1 /\ byte[1] \in DOMAIN Width => Aligned(off, Width[byte[1]])

\* A number in raw bytes is whole and where its width puts it.
RawFits(bytes) ==
    \A k \in DOMAIN bytes : bytes[k][2] = 1 /\ bytes[k][1] \in DOMAIN Width => (k - 1) % Width[bytes[k][1]] = 0

SameType(objs, ids) ==
    \A i, j \in DOMAIN ids : LET a == Index(objs, ids[i])
                                 b == Index(objs, ids[j])
                             IN a # 0 /\ b # 0 => objs[a].type = objs[b].type

\* What a list of elements has to be: of one type, or raw and aligned.
ElementsFit(objs, obj, name) == SameType(objs, ChildIds(obj, name)) /\ RawFits(Value(obj, name, "bytes", <<>>))

\* What is embedded in a field is of the field's type.
FieldFits(objs, obj, field) ==
    LET class == Classify(field.type)
        ids == ChildIds(obj, field.name)
        child == Index(objs, ids[1])
    IN /\ class \in {"embed", "enum", "opaque"} /\ ids # <<>> => child = 0 \/ objs[child].type = field.type
       /\ class = "array" => ElementsFit(objs, obj, field.name)

TypedGraph(objs) ==
    \A o \in DOMAIN objs :
        LET obj == objs[o]
            class == Classify(obj.type)
            raw == Value(obj, "#Raw", "bytes", <<>>)
        IN /\ Known(obj.type) =>
                \A i \in DOMAIN Registry[obj.type].fields : FieldFits(objs, obj, Registry[obj.type].fields[i])
           /\ class = "array" => ElementsFit(objs, obj, "m_elements")
           /\ class = "opaque" => \A k \in DOMAIN raw : raw[k][1] \in DOMAIN Width => Width[raw[k][1]] = 1

GraphsTyped == \A objs \in Graphs : TypedGraph(objs)

-----------------------------------------------------------------------------
(* What the proof of TablesExact supposes *)

\* The bytes a field of a class is given where it lies.
Room(class) == CASE class \in {"str", "array", "pointers"} -> 12
                 [] class \in {"scalar64", "enum"} -> 8
                 [] class \in {"scalar", "offset"} -> 4
                 [] class \in {"scalar8", "bool"} -> 1
                 [] OTHER -> 0

\* A field lies within its type to its end.
RoomySchema ==
    \A type \in DOMAIN Registry : \A i \in DOMAIN Registry[type].fields :
        Registry[type].fields[i].offset + Room(Classify(Registry[type].fields[i].type)) <= Registry[type].size

\* What is written in line stays within the object it is written for.
StaysWithin(objs, obj) ==
    /\ Room(Classify(obj.type)) <= SizeOf(obj.type)
    /\ Classify(obj.type) = "opaque" => Len(Value(obj, "#Raw", "bytes", <<>>)) <= SizeOf(obj.type)
    /\ Known(obj.type) =>
         \A i \in DOMAIN Registry[obj.type].fields :
             LET field == Registry[obj.type].fields[i]
                 child == FieldChild(objs, obj, field)
             IN child # 0 => field.offset + SizeOf(objs[child].type) <= SizeOf(obj.type)

\* Raw bytes are no references.
RawApart(obj) ==
    \A k \in DOMAIN obj.props : LET value == obj.props[k][2]
                                IN value.is = "bytes" => \A i \in DOMAIN value.v : value.v[i][1] # "i64"

\* Nothing refers to the root.
RootApart(objs) ==
    Root(objs) # 0 =>
        \A o \in DOMAIN objs : \A k \in DOMAIN objs[o].props :
            LET value == objs[o].props[k][2]
            IN value.is = "children" => \A i \in DOMAIN value.v : value.v[i] # objs[Root(objs)].id

RoomyGraph(objs) == RootApart(objs) /\ \A o \in DOMAIN objs : StaysWithin(objs, objs[o]) /\ RawApart(objs[o])

GraphsRoomy == \A objs \in Graphs : RoomyGraph(objs)

-----------------------------------------------------------------------------
(* Properties *)

\* Whatever the graph, no two pieces of the blob share a byte: the inline data
\* of the root and of every target, the elements of every array, the slots of
\* every pointer array, the characters of every string (reflect_write.rs,
\* State::append and its callers, between which the cursor is carried on by
\* hand).
NoOverlap ==
    \A i, j \in DOMAIN pieces : i < j => pieces[i].to <= pieces[j].from

\* Every number in the blob lies on its own alignment in the file, although the
\* blob begins at byte 44 of it and strings end anywhere (reflect_write.rs,
\* align_file and its callers).
NumbersAligned == \A p \in DOMAIN data : InPlace(data[p], p - 1)

\* A loader can move the blob: RFUP has every 8-byte reference that is in it,
\* in ascending order and nothing else; RNEW has every object a reference leads
\* to, once, at a place ROBJ has for it, and the root last (reflect_write.rs,
\* build_rfup, build_rnew, build_robj).
TablesExact ==
    status = "placed" =>
        LET last == Rnew[Len(Rnew)]
            slots == {p \in DOMAIN data : data[p][1] = "i64" /\ data[p][2] = 1}
            leadsTo == {RfciFileOffset + p - 1 + data[p][3] : p \in slots}
            idsAt(place) == {o.id : o \in {r \in Range(Robj) : r.at = place}}
        IN /\ \A i \in 2 .. Len(Rfup) : Rfup[i - 1] < Rfup[i]
           /\ Range(Rfup) = {RfciFileOffset + p - 1 : p \in slots}
           /\ \A i, j \in DOMAIN Rnew : Rnew[i].id = Rnew[j].id => i = j
           /\ \A r \in Range(Rnew) : \E o \in Range(Robj) : o.id = r.id /\ o.type = r.type /\ o.at = r.at
           /\ last.root /\ last.at = RfciFileOffset + RfciPrefix
           /\ \A i \in 1 .. Len(Rnew) - 1 : Rnew[i].at \in leadsTo
           /\ \A place \in leadsTo : \E i \in 1 .. Len(Rnew) - 1 : Rnew[i].id \in idsAt(place)

=============================================================================
