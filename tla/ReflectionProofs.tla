-------------------------- MODULE ReflectionProofs --------------------------
(***************************************************************************)
(* The parts of a blob never overlap, for every schema and every graph;    *)
(* every number in it is aligned, for graphs that keep to a schema; and    *)
(* the tables of a blob have all its references and nothing else, for      *)
(* graphs whose objects keep to the room their types have.                 *)
(*                                                                         *)
(* The cursor alone does not say why: between two parts the code moves it  *)
(* back to where the last part began, and counts on the bytes written in   *)
(* the meantime.  The invariant is what it counts on: the end of the last  *)
(* part lies within the blob, or within the one object that is written     *)
(* next, or it is where the next element of a row goes.                    *)
(*                                                                         *)
(* Of the numbers it is that whatever is still to be written or placed     *)
(* lies where its type needs it; the types of objects come from fields and *)
(* lists, so this is where the graph has to keep to the schema.            *)
(*                                                                         *)
(* Of the references it is that what is still to be written goes over none *)
(* of them, and that every object one leads to has been written or is the  *)
(* next to be.                                                             *)
(*                                                                         *)
(* And of the parser that reads a document before any of this, that the    *)
(* references listed in an element go to the property the element became,  *)
(* in order.  The parser counts the depth and marks its open properties    *)
(* with it, but never looks at which element an end belongs to, so the     *)
(* invariant says what its stacks mean in terms of the document: the       *)
(* innermost open objects, and the open properties or, between objects,    *)
(* what is as good as they are.                                            *)
(***************************************************************************)
EXTENDS ReflectLayout, RdoParser, FiniteSetTheorems, SequenceTheorems, WellFoundedInduction, TLAPS

(***************************************************************************)
(* Every nonempty set of naturals has a least element.  The library's      *)
(* induction theorems cannot be instantiated here, so it is drawn from the *)
(* well-foundedness of strict inclusion among the intervals 0..m.          *)
(***************************************************************************)
LEMMA LeastNatural ==
  ASSUME NEW S, S \subseteq Nat, S # {}
  PROVE  \E n \in S : \A m \in S : n <= m
<1>1. PICK b \in S : TRUE
  OBVIOUS
<1> DEFINE T == {0 .. m : m \in {x \in S : x <= b}}
           R == StrictSubsetOrdering(0 .. b)
<1>2. IsFiniteSet(0 .. b)
  BY FS_Interval
<1>3. IsWellFoundedOn(R, SUBSET (0 .. b))
  BY <1>2, FS_StrictSubsetOrderingWellFounded, FS_FiniteSubsetsOfFinite
<1>4. T \subseteq SUBSET (0 .. b) /\ T # {}
  BY <1>1
<1>5. PICK X \in T : \A Y \in T : <<Y, X>> \notin R
  <2> HIDE DEF T, R
  <2> QED BY <1>3, <1>4, WFMin
<1>6. PICK n \in S : n <= b /\ X = 0 .. n
  BY <1>5
<1>7. ASSUME NEW m \in S, m < n
      PROVE  FALSE
  <2>1. 0 .. m \in T
    BY <1>6, <1>7
  <2>2. 0 .. m \subseteq 0 .. n /\ 0 .. m # 0 .. n
    <3>1. n \in 0 .. n /\ n \notin 0 .. m
      BY <1>7
    <3> QED BY <1>7, <3>1
  <2>3. <<0 .. m, 0 .. n>> \in R
    BY <2>1, <2>2, <1>4, <1>5, <1>6 DEF StrictSubsetOrdering
  <2> QED BY <1>5, <1>6, <2>1, <2>3
<1> QED BY <1>7

LEMMA MinFound ==
  ASSUME NEW S, S \subseteq Nat, S # {}
  PROVE  Min(S) \in S
<1>1. \E n \in S : \A m \in S : n <= m
  BY LeastNatural
<1> QED BY <1>1 DEF Min

-----------------------------------------------------------------------------
Entries(objs) == [obj : {0} \cup DOMAIN objs, off : Nat]
Rows(objs) == {row \in [ids : Seq(Nat), at : Nat] : \A i \in DOMAIN row.ids : Index(objs, row.ids[i]) # 0}
Items == [kind : {"str"}, fpos : Nat, value : Seq(STRING)]
           \cup [kind : {"array", "pointers", "offset"}, fpos : Nat, value : Seq(Nat)]
           \cup [kind : {"raw"}, fpos : Nat, value : [bytes : Seq(ByteCells), count : Nat]]
PointerWaits == [on : {"pointers"}, fpos : Nat, block : Nat, ids : Seq(Nat), left : Nat, targets : Seq(Nat)]
Waits(objs) == {NotWaiting} \cup [on : {"offset"}, fpos : Nat, at : Nat]
                 \cup {w \in PointerWaits :
                         /\ w.left <= Len(w.ids)
                         /\ \A i \in DOMAIN w.ids : Index(objs, w.ids[i]) # 0}
Frames(objs) == [todo : Seq(Entries(objs)), row : Rows(objs), items : SUBSET Items, wait : Waits(objs)]
Pieces == [from : Nat, to : Nat]

LayoutTypeOK ==
    /\ objects \in Seq(Objects)
    /\ Len(data) \in Nat
    /\ next \in Nat
    /\ frames \in Seq(Frames(objects))
    /\ pieces \in Seq(Pieces)

\* The calls that wait for another one have nothing left to write in line.
CallersWait == \A k \in 1 .. Len(frames) - 1 : frames[k].todo = <<>> /\ frames[k].row.ids = <<>>

\* Where the last part ends, and what a call has to say of it.
LastTo(parts) == parts[Len(parts)].to
Reaches(parts, frame, blob) ==
    /\ \/ LastTo(parts) <= Len(blob)
       \/ \E e \in Entries(objects) : /\ frame.todo = <<e>> /\ e.obj # 0
                                      /\ LastTo(parts) <= e.off + SizeOf(objects[e.obj].type)
    /\ frame.row.ids # <<>> => LastTo(parts) <= frame.row.at

PartsApart == pieces # <<>> /\ NoOverlap /\ \A i \in DOMAIN pieces : pieces[i].from <= pieces[i].to

LayoutInv ==
    /\ LayoutTypeOK
    /\ CallersWait
    /\ PartsApart
    /\ frames # <<>> => Reaches(pieces, Top, data)

-----------------------------------------------------------------------------
(* Positions found in sequences *)

LEMMA IndexFound ==
  ASSUME NEW objs \in Seq(Objects), NEW id
  PROVE  /\ Index(objs, id) \in {0} \cup DOMAIN objs
         /\ Index(objs, id) # 0 => objs[Index(objs, id)].id = id
<1> DEFINE fits(i) == i \in DOMAIN objs /\ objs[i].id = id
           back == {n \in Nat : fits(Len(objs) - n)}
<1>1. ASSUME \E i \in DOMAIN objs : objs[i].id = id
      PROVE  \E i \in DOMAIN objs : objs[i].id = id /\ \A j \in DOMAIN objs : objs[j].id = id => j <= i
  <2>0. DOMAIN objs = 1 .. Len(objs) /\ Len(objs) \in Nat
    BY LenProperties
  <2>1. PICK i \in DOMAIN objs : objs[i].id = id
    BY <1>1
  <2>2. Len(objs) - i \in Nat /\ Len(objs) - (Len(objs) - i) = i
    BY <2>0, <2>1
  <2>3. back # {} /\ back \in SUBSET Nat
    BY <2>1, <2>2
  <2>4. PICK n \in back : \A m \in back : n <= m
    BY <2>3, LeastNatural
  <2>5. ASSUME NEW j \in DOMAIN objs, objs[j].id = id PROVE j <= Len(objs) - n
    <3>1. Len(objs) - j \in Nat /\ Len(objs) - (Len(objs) - j) = j
      BY <2>0
    <3>2. Len(objs) - j \in back
      BY <2>5, <3>1
    <3> QED BY <2>0, <2>4, <3>2
  <2> QED BY <2>4, <2>5
<1> DEFINE last(i) == objs[i].id = id /\ \A j \in DOMAIN objs : objs[j].id = id => j <= i
           found == CHOOSE i \in DOMAIN objs : last(i)
<1>2. CASE \E i \in DOMAIN objs : objs[i].id = id
  <2>1. \E i \in DOMAIN objs : last(i)
    BY <1>1, <1>2
  <2>2. found \in DOMAIN objs /\ last(found)
    <3> HIDE DEF last
    <3> QED BY ONLY <2>1, Zenon
  <2>3. Index(objs, id) = found
    BY <1>2 DEF Index
  <2> HIDE DEF found
  <2> QED BY <2>2, <2>3
<1>3. CASE ~ \E i \in DOMAIN objs : objs[i].id = id
  BY <1>3 DEF Index
<1> QED BY <1>2, <1>3

LEMMA RootFound ==
  ASSUME NEW objs \in Seq(Objects), Root(objs) # 0
  PROVE  Root(objs) \in DOMAIN objs
<1> DEFINE roots == {i \in 1 .. Len(objs) : objs[i].owner = 0}
<1>1. Root(objs) = IF roots # {} THEN Min(roots) ELSE 0
  BY DEF Root, SelectInSeq
<1>2. DOMAIN objs = 1 .. Len(objs) /\ Len(objs) \in Nat
  BY LenProperties
<1>3. roots \in SUBSET Nat
  BY <1>2
<1> HIDE DEF roots
<1>4. roots \subseteq DOMAIN objs
  BY <1>2 DEF roots
<1> QED BY <1>1, <1>3, <1>4, MinFound

LEMMA PropFound ==
  ASSUME NEW obj \in Objects, NEW name, PropAt(obj, name) # 0
  PROVE  PropAt(obj, name) \in DOMAIN obj.props
<1> DEFINE found == {i \in 1 .. Len(obj.props) : obj.props[i][1] = name}
<1>1. PropAt(obj, name) = IF found # {} THEN Min(found) ELSE 0
  BY DEF PropAt, SelectInSeq
<1>2. DOMAIN obj.props = 1 .. Len(obj.props) /\ Len(obj.props) \in Nat
  BY LenProperties DEF Objects
<1>3. found \in SUBSET Nat
  BY <1>2
<1> HIDE DEF found
<1>4. found \subseteq DOMAIN obj.props
  BY <1>2 DEF found
<1> QED BY <1>1, <1>3, <1>4, MinFound

-----------------------------------------------------------------------------
(* What objects hold *)

LEMMA ValueTyped ==
  ASSUME NEW obj \in Objects, NEW name
  PROVE  /\ Value(obj, name, "string", <<>>) \in Seq(STRING)
         /\ ChildIds(obj, name) \in Seq(Nat)
         /\ Value(obj, name, "bytes", <<>>) \in Seq(ByteCells)
         /\ HasValue(obj, name, "bytes") => RawCount(obj, name) \in Nat
<1> DEFINE value == obj.props[PropAt(obj, name)][2]
<1>1. ASSUME PropAt(obj, name) # 0 PROVE value \in PropValues
  <2>1. PropAt(obj, name) \in DOMAIN obj.props
    BY <1>1, PropFound
  <2>2. obj.props \in Seq(STRING \X PropValues)
    BY DEF Objects
  <2>3. obj.props[PropAt(obj, name)] \in STRING \X PropValues
    BY <2>1, <2>2, ElementOfSeq, LenProperties
  <2> QED BY <2>3
<1>2. <<>> \in Seq(STRING) /\ <<>> \in Seq(Nat) /\ <<>> \in Seq(ByteCells)
  BY EmptySeq
<1>3. /\ value \in PropValues /\ value.is = "string" => value.v \in Seq(STRING)
      /\ value \in PropValues /\ value.is = "children" => value.v \in Seq(Nat)
      /\ value \in PropValues /\ value.is = "bytes" => value.v \in Seq(ByteCells) /\ value.count \in Nat
  BY DEF PropValues
<1> QED BY <1>1, <1>2, <1>3 DEF Value, HasValue, ChildIds, RawCount

LEMMA ContainerItemTyped ==
  ASSUME NEW obj \in Objects, NEW name, NEW class, NEW fpos \in Nat
  PROVE  ContainerItem(obj, name, class, fpos) \subseteq Items
<1>1. ArrayItem(obj, name, fpos) \in Items
  <2>1. [bytes |-> Value(obj, name, "bytes", <<>>), count |-> RawCount(obj, name)]
           \in [bytes : Seq(ByteCells), count : Nat]
         \/ ~HasValue(obj, name, "bytes")
    BY ValueTyped
  <2>2. ChildIds(obj, name) \in Seq(Nat)
    BY ValueTyped
  <2> QED BY <2>1, <2>2 DEF ArrayItem, Item, Items
<1>2. Item("str", fpos, Value(obj, name, "string", <<>>)) \in Items
  BY ValueTyped DEF Item, Items
<1>3. /\ Item("pointers", fpos, ChildIds(obj, name)) \in Items
      /\ Item("offset", fpos, ChildIds(obj, name)) \in Items
  BY ValueTyped DEF Item, Items
<1> HIDE DEF Items
<1> QED BY <1>1, <1>2, <1>3 DEF ContainerItem

LEMMA FieldChildTyped ==
  ASSUME objects \in Seq(Objects), NEW obj, NEW field
  PROVE  FieldChild(objects, obj, field) \in {0} \cup DOMAIN objects
<1>1. \A id : Index(objects, id) \in {0} \cup DOMAIN objects
  BY IndexFound
<1>2. ReifiedChild(objects, obj, field.name) \in {0} \cup DOMAIN objects
  BY <1>1 DEF ReifiedChild
<1> QED BY <1>1, <1>2 DEF FieldChild

\* The fields of a type are a sequence, and lie at natural offsets.
LEMMA FieldsTyped ==
  ASSUME NEW type, Known(type)
  PROVE  /\ Len(Registry[type].fields) \in Nat
         /\ DOMAIN Registry[type].fields = 1 .. Len(Registry[type].fields)
         /\ \A i \in DOMAIN Registry[type].fields : Registry[type].fields[i].offset \in Nat
<1> DEFINE fields == Registry[type].fields
           Fields == [name : STRING, type : STRING, offset : 0 .. Registry[type].size - 1]
<1>1. fields \in Seq(Fields) /\ Registry[type].size \in Nat
  BY SchemaAssumption DEF Known
<1> HIDE DEF fields
<1>2. Len(fields) \in Nat /\ DOMAIN fields = 1 .. Len(fields) /\ \A i \in DOMAIN fields : fields[i] \in Fields
  BY <1>1, LenProperties, ElementOfSeq
<1>3. \A i \in DOMAIN fields : fields[i].offset \in Nat
  BY <1>1, <1>2
<1> QED BY <1>2, <1>3 DEF fields

LEMMA ContentTyped ==
  ASSUME objects \in Seq(Objects), NEW obj \in Objects, NEW off \in Nat
  PROVE  /\ Content(obj, off).items \subseteq Items
         /\ Content(obj, off).children \in Seq(Entries(objects))
<1> DEFINE class == Classify(obj.type)
           plain == class \in {"embed", "scalar", "scalar64", "scalar8", "bool", "offset"} /\ Known(obj.type)
           fields == IF plain THEN Registry[obj.type].fields ELSE <<>>
           fpos(i) == off + fields[i].offset
           child(i) == FieldChild(objects, obj, fields[i])
           inLine == [i \in DOMAIN fields |-> [obj |-> child(i), off |-> fpos(i)]]
           items(i) == ContainerItem(obj, fields[i].name, Classify(fields[i].type), fpos(i))
           ofFields == UNION {items(i) : i \in {j \in DOMAIN fields : child(j) = 0}}
<1>1. /\ Len(fields) \in Nat /\ DOMAIN fields = 1 .. Len(fields)
      /\ \A i \in DOMAIN fields : fpos(i) \in Nat
  <2>1. CASE plain
    BY <2>1, FieldsTyped
  <2>2. CASE ~plain
    BY <2>2
  <2> QED BY <2>1, <2>2
<1>2. \A i \in DOMAIN fields : [obj |-> child(i), off |-> fpos(i)] \in Entries(objects)
  <2> SUFFICES ASSUME NEW i \in DOMAIN fields
               PROVE  [obj |-> child(i), off |-> fpos(i)] \in Entries(objects)
    OBVIOUS
  <2>1. child(i) \in {0} \cup DOMAIN objects
    BY FieldChildTyped
  <2>2. fpos(i) \in Nat
    BY <1>1
  <2> HIDE DEF fields
  <2> QED BY <2>1, <2>2 DEF Entries
<1>3. inLine \in Seq(Entries(objects))
  <2> HIDE DEF fields
  <2> QED BY <1>1, <1>2
<1>4. ofFields \subseteq Items
  <2>1. \A i \in DOMAIN fields : items(i) \subseteq Items
    <3> HIDE DEF fields
    <3> QED BY <1>1, ContainerItemTyped
  <2> HIDE DEF fields
  <2> QED BY <2>1
<1>5. <<>> \in Seq(Entries(objects))
  BY EmptySeq
<1>6. \A name : ContainerItem(obj, name, class, off) \subseteq Items
  BY ContainerItemTyped
<1>7. CASE class \in {"enum", "opaque"}
  BY <1>5, <1>7 DEF Content
<1>8. CASE class \in {"str", "array", "pointers"}
  BY <1>5, <1>6, <1>8 DEF Content
<1>9. CASE class \notin {"enum", "opaque", "str", "array", "pointers"}
  <2>1. Content(obj, off).children = inLine /\ Content(obj, off).items = ofFields
    BY <1>9 DEF Content
  <2> QED BY <1>3, <1>4, <2>1
<1> QED BY <1>7, <1>8, <1>9

-----------------------------------------------------------------------------
(* Alignments.  The recursion of TypeAlign has a solution, the least of the *)
(* functions that are at least what it makes of them; and a solution has    *)
(* widths only, since no type is embedded in itself.                        *)

Types == DOMAIN Registry
Widths == {1, 4, 8}
FieldAligns(f, type) == {FieldAlign(f, Registry[type].fields[i].type) : i \in DOMAIN Registry[type].fields}

LEMMA Classes ==
  ASSUME NEW type
  PROVE  /\ Classify(type) \in {"str", "array", "pointers", "offset", "scalar64", "enum", "scalar", "bool", "scalar8",
                                 "embed", "opaque"}
         /\ Classify(type) = "embed" => type \in Types
BY SchemaAssumption DEF Classify, HasFields, Known, Types

LEMMA FieldAlignWidth ==
  ASSUME NEW f, NEW type, Classify(type) = "embed" => f[type] \in Widths
  PROVE  FieldAlign(f, type) \in Widths
BY Classes DEF FieldAlign, Widths

LEMMA LeastWidth ==
  ASSUME NEW S, S \subseteq Widths, S # {}
  PROVE  \E a \in S : \A b \in S : a <= b
<1>1. CASE 1 \in S
  BY <1>1 DEF Widths
<1>2. CASE 1 \notin S /\ 4 \in S
  BY <1>2 DEF Widths
<1>3. CASE 1 \notin S /\ 4 \notin S
  <2>1. S = {8}
    BY <1>3 DEF Widths
  <2> QED BY <2>1
<1> QED BY <1>1, <1>2, <1>3

LEMMA MaxWidth ==
  ASSUME NEW S, S \subseteq Widths, S # {}
  PROVE  Max(S) \in S /\ \A b \in S : b <= Max(S)
<1>1. \E a \in S : \A b \in S : a >= b
  <2>1. CASE 8 \in S
    BY <2>1 DEF Widths
  <2>2. CASE 8 \notin S /\ 4 \in S
    BY <2>2 DEF Widths
  <2>3. CASE 8 \notin S /\ 4 \notin S
    <3>1. S = {1}
      BY <2>3 DEF Widths
    <3> QED BY <3>1
  <2> QED BY <2>1, <2>2, <2>3
<1>2. Max(S) \in S /\ \A b \in S : Max(S) >= b
  BY <1>1 DEF Max
<1>3. \A a, b \in Widths : a >= b <=> b <= a
  BY DEF Widths
<1> QED BY <1>2, <1>3

LEMMA SomeField ==
  ASSUME NEW f, NEW type \in Types, Registry[type].fields # <<>>
  PROVE  FieldAligns(f, type) # {}
<1>1. Registry[type].fields \in Seq([name : STRING, type : STRING, offset : 0 .. Registry[type].size - 1])
  BY SchemaAssumption DEF Types
<1>2. 1 \in DOMAIN Registry[type].fields
  BY <1>1, EmptySeq, LenProperties
<1> QED BY <1>2 DEF FieldAligns

LEMMA WidestFound ==
  ASSUME NEW f, NEW type \in Types, FieldAligns(f, type) \subseteq Widths
  PROVE  /\ WidestField(f, type) \in Widths
         /\ Registry[type].fields # <<>> =>
              WidestField(f, type) \in FieldAligns(f, type) /\ \A a \in FieldAligns(f, type) : a <= WidestField(f, type)
<1>1. CASE Registry[type].fields = <<>>
  BY <1>1 DEF WidestField, Widths
<1>2. CASE Registry[type].fields # <<>>
  <2>1. WidestField(f, type) = Max(FieldAligns(f, type))
    BY <1>2 DEF WidestField, FieldAligns
  <2>2. FieldAligns(f, type) # {}
    BY <1>2, SomeField
  <2> QED BY <2>1, <2>2, MaxWidth
<1> QED BY <1>1, <1>2

LEMMA FieldAlignsWidths ==
  ASSUME NEW f, NEW type,
         \A t \in {Registry[type].fields[i].type : i \in DOMAIN Registry[type].fields} :
           Classify(t) = "embed" => f[t] \in Widths
  PROVE  FieldAligns(f, type) \subseteq Widths
BY FieldAlignWidth DEF FieldAligns

LEMMA WidestWidth ==
  ASSUME NEW f \in [Types -> Widths], NEW type \in Types
  PROVE  WidestField(f, type) \in Widths
BY Classes, FieldAlignsWidths, WidestFound

LEMMA WidestMonotone ==
  ASSUME NEW f \in [Types -> Widths], NEW g \in [Types -> Widths], \A t \in Types : f[t] <= g[t],
         NEW type \in Types
  PROVE  WidestField(f, type) <= WidestField(g, type)
<1>1. CASE Registry[type].fields = <<>>
  BY <1>1 DEF WidestField
<1>2. CASE Registry[type].fields # <<>>
  <2> DEFINE fields == Registry[type].fields
  <2>1. \A t : FieldAlign(f, t) \in Widths /\ FieldAlign(g, t) \in Widths
    BY Classes, FieldAlignWidth
  <2>2. \A t : FieldAlign(f, t) <= FieldAlign(g, t)
    BY Classes DEF FieldAlign
  <2>3. WidestField(f, type) \in FieldAligns(f, type)
    BY <1>2, Classes, FieldAlignsWidths, WidestFound
  <2>4. WidestField(g, type) \in Widths /\ \A a \in FieldAligns(g, type) : a <= WidestField(g, type)
    BY <1>2, Classes, FieldAlignsWidths, WidestFound
  <2>5. PICK i \in DOMAIN fields : WidestField(f, type) = FieldAlign(f, fields[i].type)
    BY <2>3 DEF FieldAligns
  <2>6. FieldAlign(g, fields[i].type) <= WidestField(g, type)
    BY <2>4 DEF FieldAligns
  <2> DEFINE a == FieldAlign(f, fields[i].type)
             b == FieldAlign(g, fields[i].type)
             c == WidestField(g, type)
  <2>7. a \in Nat /\ b \in Nat /\ c \in Nat
    BY <2>1, <2>4 DEF Widths
  <2>8. a <= b /\ b <= c
    BY <2>2, <2>6
  <2> HIDE DEF a, b, c
  <2>9. a <= c
    BY <2>7, <2>8
  <2> QED BY <2>5, <2>9 DEF a, c
<1> QED BY <1>1, <1>2

IsTypeAlign(f) == f = [type \in DOMAIN Registry |-> WidestField(f, type)]

LEMMA TypeAlignExists == \E f : IsTypeAlign(f)
<1> DEFINE Enough == {f \in [Types -> Widths] : \A t \in Types : WidestField(f, t) <= f[t]}
           least == [t \in Types |-> CHOOSE a \in {f[t] : f \in Enough} : \A f \in Enough : a <= f[t]]
           widest == [t \in Types |-> WidestField(least, t)]
<1>0. ASSUME NEW a \in Widths, NEW b \in Widths
      PROVE  /\ a <= 8
             /\ a <= b /\ b <= a => a = b
             /\ \A c \in Widths : a <= b /\ b <= c => a <= c
  BY DEF Widths
<1>1. Enough # {}
  <2> DEFINE eight == [t \in Types |-> 8]
  <2>1. eight \in [Types -> Widths]
    BY DEF Widths
  <2>2. \A t \in Types : WidestField(eight, t) <= 8
    <3> HIDE DEF eight
    <3> QED BY <1>0, <2>1, WidestWidth
  <2>3. eight \in Enough
    BY <2>1, <2>2
  <2> QED BY <2>3
<1>2. ASSUME NEW t \in Types
      PROVE  /\ \E f \in Enough : least[t] = f[t]
             /\ \A f \in Enough : least[t] <= f[t]
             /\ least[t] \in Widths
  <2> DEFINE S == {f[t] : f \in Enough}
  <2>1. S \subseteq Widths /\ S # {}
    BY <1>1
  <2>2. \E a \in S : \A b \in S : a <= b
    <3> HIDE DEF S
    <3> QED BY <2>1, LeastWidth
  <2>3. least[t] = CHOOSE a \in S : \A f \in Enough : a <= f[t]
    OBVIOUS
  <2> HIDE DEF least, Enough
  <2>4. \E a \in S : \A f \in Enough : a <= f[t]
    BY <2>2
  <2>5. least[t] \in S /\ \A f \in Enough : least[t] <= f[t]
    BY <2>3, <2>4
  <2> QED BY <2>1, <2>5
<1>3. least \in [Types -> Widths]
  <2>1. least = [t \in Types |-> least[t]]
    OBVIOUS
  <2> HIDE DEF least
  <2> QED BY <2>1, <1>2
<1> HIDE DEF least
<1>4. \A t \in Types : WidestField(least, t) \in Widths
  BY <1>3, WidestWidth
<1>5. \A t \in Types : WidestField(least, t) <= least[t]
  <2> SUFFICES ASSUME NEW t \in Types PROVE WidestField(least, t) <= least[t]
    OBVIOUS
  <2>1. PICK f \in Enough : least[t] = f[t]
    BY <1>2
  <2>2. f \in [Types -> Widths] /\ WidestField(f, t) <= f[t]
    OBVIOUS
  <2>3. \A u \in Types : least[u] <= f[u]
    BY <1>2
  <2> HIDE DEF Enough
  <2>4. WidestField(least, t) <= WidestField(f, t)
    BY <1>3, <2>2, <2>3, WidestMonotone
  <2>5. WidestField(f, t) \in Widths /\ f[t] \in Widths
    BY <2>2, WidestWidth
  <2> QED BY <1>0, <1>4, <2>1, <2>2, <2>4, <2>5
<1>6. widest \in Enough
  <2>1. widest \in [Types -> Widths] /\ \A t \in Types : widest[t] = WidestField(least, t)
    BY <1>4
  <2> HIDE DEF widest
  <2>2. \A t \in Types : WidestField(widest, t) <= WidestField(least, t)
    BY <1>3, <1>5, <2>1, WidestMonotone
  <2> QED BY <2>1, <2>2
<1>7. \A t \in Types : least[t] = WidestField(least, t)
  <2> SUFFICES ASSUME NEW t \in Types PROVE least[t] = WidestField(least, t)
    OBVIOUS
  <2>1. least[t] <= widest[t]
    BY <1>2, <1>6
  <2>2. widest[t] = WidestField(least, t)
    OBVIOUS
  <2> QED BY <1>0, <1>2, <1>4, <1>5, <2>1, <2>2
<1>8. IsTypeAlign(least)
  <2>1. least = [t \in Types |-> least[t]]
    BY <1>3
  <2> QED BY <2>1, <1>7 DEF IsTypeAlign, Types
<1> QED BY <1>8

LEMMA TypeAlignIs == \A type \in Types : TypeAlign[type] = WidestField(TypeAlign, type)
<1>1. TypeAlign = CHOOSE f : IsTypeAlign(f)
  BY DEF TypeAlign, IsTypeAlign
<1>2. IsTypeAlign(TypeAlign)
  BY <1>1, TypeAlignExists
<1>3. \A f : IsTypeAlign(f) => \A type \in Types : f[type] = WidestField(f, type)
  BY DEF IsTypeAlign, Types
<1> QED BY <1>2, <1>3

LEMMA TypesAligned == \A type \in Types : TypeAlign[type] \in Widths
<1> DEFINE Bad == {type \in Types : TypeAlign[type] \notin Widths}
<1>1. SUFFICES ASSUME Bad # {} PROVE FALSE
  OBVIOUS
<1>2. PICK type \in Bad : \A i \in DOMAIN Registry[type].fields :
        Registry[type].fields[i].type \in Bad => Classify(Registry[type].fields[i].type) # "embed"
  <2>1. Bad \in SUBSET DOMAIN Registry
    BY DEF Types
  <2> HIDE DEF Bad
  <2> QED BY <1>1, <2>1, SchemaAssumption
<1>3. \A t \in {Registry[type].fields[i].type : i \in DOMAIN Registry[type].fields} :
        Classify(t) = "embed" => TypeAlign[t] \in Widths
  BY <1>2, Classes
<1>4. FieldAligns(TypeAlign, type) \subseteq Widths
  BY <1>3, FieldAlignsWidths
<1>5. WidestField(TypeAlign, type) \in Widths
  BY <1>4, WidestFound
<1> QED BY <1>2, <1>5, TypeAlignIs

\* A field needs no more than its type.
LEMMA FieldsAligned ==
  ASSUME NEW type \in Types, NEW i \in DOMAIN Registry[type].fields
  PROVE  /\ FieldAlign(TypeAlign, Registry[type].fields[i].type) \in Widths
         /\ FieldAlign(TypeAlign, Registry[type].fields[i].type) <= TypeAlign[type]
<1> DEFINE fields == Registry[type].fields
<1>1. \A t : FieldAlign(TypeAlign, t) \in Widths
  BY Classes, TypesAligned, FieldAlignWidth
<1>2. FieldAligns(TypeAlign, type) \subseteq Widths
  BY <1>1 DEF FieldAligns
<1>3. FieldAlign(TypeAlign, fields[i].type) \in FieldAligns(TypeAlign, type)
  BY DEF FieldAligns
<1>4. fields # <<>>
  OBVIOUS
<1> QED BY <1>1, <1>2, <1>3, <1>4, WidestFound, TypeAlignIs

LEMMA SizesAndAlignments ==
  ASSUME NEW type
  PROVE  SizeOf(type) \in Nat /\ AlignOf(type) \in {1, 4, 8}
BY SchemaAssumption, TypesAligned DEF SizeOf, AlignOf, Known, Types, Widths

-----------------------------------------------------------------------------
(* Sizes and the cursor *)

LEMMA CursorPastBlob ==
  ASSUME next \in Nat, Len(data) \in Nat, NEW align \in {1, 4, 8}
  PROVE  Cursor(align) \in Nat /\ Len(data) <= Cursor(align)
<1>1. Larger(next, Len(data)) \in Nat /\ Len(data) <= Larger(next, Len(data))
  BY DEF Larger
<1>2. \A rel \in Nat : AlignFile(rel, align) \in Nat /\ rel <= AlignFile(rel, align)
  <2>1. CASE align = 1
    BY <2>1, SMT DEF AlignFile, RfciFileOffset
  <2>2. CASE align = 4
    BY <2>2, SMT DEF AlignFile, RfciFileOffset
  <2>3. CASE align = 8
    BY <2>3, SMT DEF AlignFile, RfciFileOffset
  <2> QED BY <2>1, <2>2, <2>3
<1> QED BY <1>1, <1>2 DEF Cursor

LEMMA LengthWritten ==
  ASSUME NEW blob, Len(blob) \in Nat, NEW end \in Nat, NEW writes
  PROVE  /\ Len(Written(blob, end, writes)) \in Nat
         /\ Len(blob) <= Len(Written(blob, end, writes))
         /\ end <= Len(Written(blob, end, writes))
<1> DEFINE n == Larger(Len(blob), end)
           w == Written(blob, end, writes)
           E == {w[i] : i \in 1 .. n}
<1>1. n \in Nat /\ Len(blob) <= n /\ end <= n
  BY DEF Larger
<1>2. DOMAIN w = 1 .. n /\ w = [i \in 1 .. n |-> w[i]]
  BY DEF Written
<1> HIDE DEF n, w
<1>3. w \in [1 .. n -> E]
  BY <1>2
<1>4. w \in Seq(E)
  BY <1>1, <1>3, SeqDef
<1>5. Len(w) = n
  BY <1>1, <1>2, <1>4, LenProperties
<1> QED BY <1>1, <1>5 DEF w

-----------------------------------------------------------------------------
(* What a step does to the calls and the parts *)

LEMMA TopTyped ==
  ASSUME frames \in Seq(Frames(objects)), frames # <<>>
  PROVE  /\ Len(frames) \in Nat /\ Len(frames) \in 1 .. Len(frames)
         /\ Top \in Frames(objects)
         /\ Top.todo \in Seq(Entries(objects)) /\ Top.row \in Rows(objects)
         /\ Top.items \subseteq Items /\ Top.wait \in Waits(objects)
<1>1. Len(frames) \in Nat /\ Len(frames) \in 1 .. Len(frames)
  BY EmptySeq, LenProperties
<1>2. Top \in Frames(objects)
  BY <1>1, ElementOfSeq DEF Top
<1> QED BY <1>1, <1>2 DEF Frames

\* The top call is the only one that changes.
LEMMA UpdateKeeps ==
  ASSUME LayoutTypeOK, CallersWait, frames # <<>>, NEW f \in Frames(objects), Update(f)
  PROVE  /\ frames' \in Seq(Frames(objects)) /\ frames' # <<>>
         /\ Top' = f
         /\ CallersWait'
<1> DEFINE n == Len(frames)
<1>1. frames \in Seq(Frames(objects)) /\ n \in Nat /\ n \in 1 .. n /\ frames' = [frames EXCEPT ![n] = f]
  BY TopTyped DEF LayoutTypeOK, Update
<1>2. /\ frames' \in Seq(Frames(objects)) /\ Len(frames') = n
      /\ \A k \in 1 .. n : frames'[k] = IF k = n THEN f ELSE frames[k]
  BY <1>1, ExceptSeq
<1>3. frames' # <<>>
  BY <1>1, <1>2, EmptySeq
<1>4. Top' = f
  BY <1>1, <1>2 DEF Top
<1>5. CallersWait'
  <2>2. \A k \in 1 .. n - 1 : frames[k].todo = <<>> /\ frames[k].row.ids = <<>>
    BY DEF CallersWait
  <2> HIDE DEF n
  <2>1. \A k \in 1 .. n - 1 : frames'[k] = frames[k]
    BY <1>1, <1>2
  <2>3. Len(frames') - 1 = n - 1
    BY <1>2
  <2> QED BY <2>1, <2>2, <2>3 DEF CallersWait
<1> QED BY <1>2, <1>3, <1>4, <1>5

\* A new part that begins where the last one ended, or later.
LEMMA GiveKeeps ==
  ASSUME pieces \in Seq(Pieces), PartsApart, NEW from \in Nat, NEW to \in Nat,
         from <= to, LastTo(pieces) <= from, Give(from, to)
  PROVE  pieces' \in Seq(Pieces) /\ PartsApart' /\ LastTo(pieces') = to
<1> DEFINE n == Len(pieces)
           part == [from |-> from, to |-> to]
<1>1. /\ n \in Nat /\ n >= 1 /\ DOMAIN pieces = 1 .. n
      /\ \A i \in 1 .. n : pieces[i] \in Pieces
  BY LenProperties, EmptySeq, ElementOfSeq DEF PartsApart
<1>2. part \in Pieces /\ pieces' = Append(pieces, part)
  BY DEF Pieces, Give
<1>3. /\ pieces' \in Seq(Pieces) /\ Len(pieces') = n + 1 /\ DOMAIN pieces' = 1 .. n + 1
      /\ \A i \in 1 .. n : pieces'[i] = pieces[i]
      /\ pieces'[n + 1] = part
  BY <1>2, AppendProperties, LenProperties
<1>4. LastTo(pieces') = to
  BY <1>3 DEF LastTo
<1>5. \A i \in 1 .. n : pieces[i].to <= from
  <2> SUFFICES ASSUME NEW i \in 1 .. n PROVE pieces[i].to <= from
    OBVIOUS
  <2>1. pieces[n].to <= from /\ pieces[n] \in Pieces /\ pieces[i] \in Pieces
    BY <1>1 DEF LastTo
  <2>2. i # n => pieces[i].to <= pieces[n].from
    <3> HIDE DEF n
    <3>1. i \in DOMAIN pieces /\ n \in DOMAIN pieces /\ (i # n => i < n)
      BY <1>1
    <3> QED BY <3>1 DEF PartsApart, NoOverlap
  <2>3. pieces[n].from <= pieces[n].to
    BY <1>1 DEF PartsApart
  <2>4. pieces[i].to \in Nat /\ pieces[n].from \in Nat /\ pieces[n].to \in Nat
    BY <2>1 DEF Pieces
  <2> QED BY <2>1, <2>2, <2>3, <2>4
<1>6. NoOverlap'
  <2> SUFFICES ASSUME NEW i \in 1 .. n + 1, NEW j \in 1 .. n + 1, i < j
               PROVE  pieces'[i].to <= pieces'[j].from
    BY <1>3 DEF NoOverlap
  <2>1. CASE j = n + 1
    BY <1>1, <1>3, <1>5, <2>1
  <2>2. CASE j # n + 1
    BY <1>1, <1>3, <2>2 DEF PartsApart, NoOverlap
  <2> QED BY <2>1, <2>2
<1>7. \A i \in DOMAIN pieces' : pieces'[i].from <= pieces'[i].to
  BY <1>1, <1>3 DEF PartsApart
<1>8. pieces' # <<>>
  BY <1>1, <1>3, EmptySeq
<1> QED BY <1>3, <1>4, <1>6, <1>7, <1>8 DEF PartsApart

\* A step that changes the top call, and gives out one part at most.
LEMMA StepOfTop ==
  ASSUME LayoutInv, frames # <<>>, UNCHANGED objects, next' \in Nat, Len(data') \in Nat,
         NEW f \in Frames(objects), Update(f),
         pieces' \in Seq(Pieces) /\ PartsApart',
         Reaches(pieces', f, data')
  PROVE  LayoutInv'
<1>1. frames' \in Seq(Frames(objects)) /\ Top' = f /\ CallersWait'
  BY UpdateKeeps DEF LayoutInv
<1>2. LayoutTypeOK'
  BY <1>1 DEF LayoutInv, LayoutTypeOK
<1>3. Reaches(pieces', Top', data')
  BY <1>1
<1>4. Reaches(pieces, Top, data)'
  BY <1>3 DEF Reaches
<1> QED BY <1>1, <1>2, <1>4 DEF LayoutInv

\* What the steps may use of the invariant.
LEMMA Facts ==
  ASSUME LayoutInv, Placing
  PROVE  /\ frames # <<>> /\ frames \in Seq(Frames(objects)) /\ objects \in Seq(Objects)
         /\ Top \in Frames(objects)
         /\ Top.todo \in Seq(Entries(objects)) /\ Top.row \in Rows(objects)
         /\ Top.items \subseteq Items /\ Top.wait \in Waits(objects)
         /\ next \in Nat /\ Len(data) \in Nat
         /\ pieces \in Seq(Pieces) /\ PartsApart /\ LastTo(pieces) \in Nat
         /\ Reaches(pieces, Top, data)
         /\ Top.todo = <<>> => LastTo(pieces) <= Len(data)
<1>1. /\ frames # <<>> /\ frames \in Seq(Frames(objects)) /\ objects \in Seq(Objects)
      /\ next \in Nat /\ Len(data) \in Nat
      /\ pieces \in Seq(Pieces) /\ PartsApart /\ Reaches(pieces, Top, data)
  BY DEF LayoutInv, LayoutTypeOK, Placing
<1>2. /\ Top \in Frames(objects)
      /\ Top.todo \in Seq(Entries(objects)) /\ Top.row \in Rows(objects)
      /\ Top.items \subseteq Items /\ Top.wait \in Waits(objects)
  BY <1>1, TopTyped
<1>3. LastTo(pieces) \in Nat
  <2>1. Len(pieces) \in 1 .. Len(pieces)
    BY <1>1, EmptySeq, LenProperties DEF PartsApart
  <2>2. pieces[Len(pieces)] \in Pieces
    BY <1>1, <2>1, ElementOfSeq
  <2> QED BY <2>2 DEF LastTo, Pieces
<1>4. ASSUME Top.todo = <<>> PROVE LastTo(pieces) <= Len(data)
  <2>1. \A e : <<>> # <<e>>
    OBVIOUS
  <2> QED BY <1>1, <1>4, <2>1 DEF Reaches
<1> QED BY <1>1, <1>2, <1>3, <1>4

\* Taking the first entry off a list.
LEMMA HeadAndTail ==
  ASSUME NEW S, NEW s \in Seq(S), s # <<>>
  PROVE  Head(s) \in S /\ Tail(s) \in Seq(S) /\ (\A e : s = <<e>> => Head(s) = e)
<1>1. Len(s) \in Nat /\ 1 \in 1 .. Len(s)
  BY EmptySeq, LenProperties
<1>2. Head(s) = s[1] /\ s[1] \in S
  BY <1>1, ElementOfSeq
<1>3. Tail(s) \in Seq(S)
  BY HeadTailProperties
<1> QED BY <1>2, <1>3

-----------------------------------------------------------------------------
(* Writing in line *)

LEMMA InlineWriteKeeps ==
  ASSUME LayoutInv, InlineWrite
  PROVE  LayoutInv'
<1> DEFINE now == Head(Top.todo)
           obj == objects[now.obj]
           content == Content(obj, now.off)
           raw == IF Classify(obj.type) = "opaque" THEN Len(Value(obj, "#Raw", "bytes", <<>>)) ELSE 0
           end == now.off + Larger(SizeOf(obj.type), raw)
           f == [Top EXCEPT !.todo = content.children \o Tail(@), !.items = @ \cup content.items]
<1>1. /\ Placing /\ Top.todo # <<>> /\ now.obj # 0
      /\ data' = Written(data, end, content.writes)
      /\ Update(f)
      /\ UNCHANGED <<objects, next, pieces>>
  BY DEF InlineWrite
<1>2. /\ now \in Entries(objects) /\ Tail(Top.todo) \in Seq(Entries(objects))
      /\ \A e : Top.todo = <<e>> => now = e
  BY <1>1, Facts, HeadAndTail
<1>3. now.obj \in DOMAIN objects /\ now.off \in Nat
  BY <1>1, <1>2 DEF Entries
<1>4. obj \in Objects
  BY <1>1, <1>3, Facts, LenProperties, ElementOfSeq
<1> HIDE DEF obj
<1>5. raw \in Nat
  BY <1>4, ValueTyped, LenProperties
<1>6. SizeOf(obj.type) \in Nat
  BY SizesAndAlignments
<1> HIDE DEF raw
<1>7. end \in Nat /\ now.off + SizeOf(obj.type) <= end
  BY <1>3, <1>5, <1>6 DEF Larger
<1>8. content.items \subseteq Items /\ content.children \in Seq(Entries(objects))
  BY <1>1, <1>3, <1>4, Facts, ContentTyped
<1> HIDE DEF content, now
<1>9. content.children \o Tail(Top.todo) \in Seq(Entries(objects))
  BY <1>2, <1>8, ConcatProperties
<1>10. f \in Frames(objects) /\ f.row = Top.row
  BY <1>1, <1>8, <1>9, Facts DEF Frames
<1> HIDE DEF f, end
<1>11. Len(data') \in Nat /\ Len(data) <= Len(data') /\ end <= Len(data')
  BY <1>1, <1>7, Facts, LengthWritten
<1>12. LastTo(pieces) <= Len(data')
  <2>1. LastTo(pieces) \in Nat /\ Len(data) \in Nat
    BY <1>1, Facts
  <2>2. CASE LastTo(pieces) <= Len(data)
    BY <1>11, <2>1, <2>2
  <2>3. CASE ~(LastTo(pieces) <= Len(data))
    <3>1. PICK e \in Entries(objects) :
            Top.todo = <<e>> /\ LastTo(pieces) <= e.off + SizeOf(objects[e.obj].type)
      BY <1>1, <2>3, Facts DEF Reaches
    <3>2. LastTo(pieces) <= now.off + SizeOf(obj.type)
      BY <1>2, <3>1 DEF obj
    <3> QED BY <1>3, <1>6, <1>7, <1>11, <2>1, <3>2
  <2> QED BY <2>2, <2>3
<1>13. Reaches(pieces', f, data')
  BY <1>1, <1>10, <1>12, Facts DEF Reaches
<1> QED BY <1>1, <1>10, <1>11, <1>13, Facts, StepOfTop DEF PartsApart, NoOverlap

LEMMA SkipFieldKeeps ==
  ASSUME LayoutInv, SkipField
  PROVE  LayoutInv'
<1> DEFINE f == [Top EXCEPT !.todo = Tail(@)]
<1>1. /\ Placing /\ Top.todo # <<>> /\ Head(Top.todo).obj = 0 /\ Update(f)
      /\ UNCHANGED <<objects, data, next, pieces>>
  BY DEF SkipField
<1>2. Tail(Top.todo) \in Seq(Entries(objects)) /\ \A e : Top.todo = <<e>> => Head(Top.todo) = e
  BY <1>1, Facts, HeadAndTail
<1>3. f \in Frames(objects) /\ f.row = Top.row
  BY <1>1, <1>2, Facts DEF Frames
<1>4. LastTo(pieces) <= Len(data)
  BY <1>1, <1>2, Facts DEF Reaches
<1> HIDE DEF f
<1>5. Reaches(pieces', f, data')
  BY <1>1, <1>3, <1>4, Facts DEF Reaches
<1> QED BY <1>1, <1>3, <1>5, Facts, StepOfTop DEF PartsApart, NoOverlap

LEMMA NextElementKeeps ==
  ASSUME LayoutInv, NextElement
  PROVE  LayoutInv'
<1> DEFINE id == Head(Top.row.ids)
           at == Top.row.at
           end == at + SizeOf(ChildType(id))
           e == [obj |-> Child(id), off |-> at]
           row == [ids |-> Tail(Top.row.ids), at |-> end]
           f == [Top EXCEPT !.todo = <<e>>, !.row = [ids |-> Tail(@.ids), at |-> end]]
<1>1. /\ Placing /\ Top.todo = <<>> /\ Top.row.ids # <<>> /\ Update(f) /\ Give(at, end)
      /\ UNCHANGED <<objects, data, next>>
  BY DEF NextElement
<1>2. /\ Top.row.ids \in Seq(Nat) /\ at \in Nat
      /\ \A i \in DOMAIN Top.row.ids : Index(objects, Top.row.ids[i]) # 0
  BY <1>1, Facts DEF Rows
<1>3. /\ Tail(Top.row.ids) \in Seq(Nat) /\ Index(objects, id) # 0
      /\ \A i \in DOMAIN Tail(Top.row.ids) : Index(objects, Tail(Top.row.ids)[i]) # 0
  <2> DEFINE s == Top.row.ids
  <2>1. s \in Seq(Nat) /\ s # <<>>
    BY <1>1, <1>2
  <2>2. \A i \in DOMAIN s : Index(objects, s[i]) # 0
    BY <1>2
  <2> HIDE DEF s
  <2>3. Len(s) \in Nat /\ Len(s) >= 1 /\ DOMAIN s = 1 .. Len(s) /\ Head(s) = s[1]
    BY <2>1, EmptySeq, LenProperties
  <2>4. /\ Tail(s) \in Seq(Nat) /\ Len(Tail(s)) = Len(s) - 1
        /\ \A i \in 1 .. Len(Tail(s)) : Tail(s)[i] = s[i + 1]
    BY <2>1, HeadTailProperties
  <2>5. DOMAIN Tail(s) = 1 .. Len(s) - 1
    BY <2>4, LenProperties
  <2>6. \A i \in DOMAIN Tail(s) : i + 1 \in DOMAIN s /\ Tail(s)[i] = s[i + 1]
    BY <2>3, <2>4, <2>5
  <2>7. 1 \in DOMAIN s
    BY <2>3
  <2>8. Index(objects, Head(s)) # 0
    BY <2>2, <2>3, <2>7
  <2>9. \A i \in DOMAIN Tail(s) : Index(objects, Tail(s)[i]) # 0
    BY <2>2, <2>6
  <2> QED BY <2>4, <2>8, <2>9 DEF s
<1> HIDE DEF id
<1>4. Child(id) \in DOMAIN objects /\ Child(id) # 0
  BY <1>1, <1>3, Facts, IndexFound DEF Child
<1>5. SizeOf(ChildType(id)) \in Nat
  BY SizesAndAlignments
<1>6. end \in Nat /\ at <= end
  BY <1>2, <1>5
<1>7. e \in Entries(objects) /\ e.obj # 0 /\ e.off + SizeOf(objects[e.obj].type) = end
  BY <1>2, <1>4 DEF Entries, ChildType
<1>8. row \in Rows(objects)
  BY <1>3, <1>6 DEF Rows
<1> HIDE DEF end, e
<1>9. f \in Frames(objects) /\ f.todo = <<e>> /\ f.row = row
  <2>1. <<e>> \in Seq(Entries(objects))
    BY <1>7
  <2> QED BY <1>1, <1>8, <2>1, Facts DEF Frames
<1>10. LastTo(pieces) <= at
  BY <1>1, Facts DEF Reaches
<1> HIDE DEF at
<1>11. pieces' \in Seq(Pieces) /\ PartsApart' /\ LastTo(pieces') = end
  BY <1>1, <1>2, <1>6, <1>10, Facts, GiveKeeps
<1> HIDE DEF f
<1>12. Reaches(pieces', f, data')
  <2>1. LastTo(pieces') <= e.off + SizeOf(objects[e.obj].type)
    BY <1>6, <1>7, <1>11
  <2>2. LastTo(pieces') <= f.row.at
    BY <1>6, <1>9, <1>11
  <2> QED BY <1>7, <1>9, <2>1, <2>2 DEF Reaches
<1> QED BY <1>1, <1>9, <1>11, <1>12, Facts, StepOfTop

-----------------------------------------------------------------------------
(* Placing items *)

LEMMA ItemParts ==
  ASSUME NEW item \in Items
  PROVE  /\ item.fpos \in Nat
         /\ item.kind = "str" => Len(item.value) \in Nat
         /\ item.kind \in {"array", "pointers", "offset"} => item.value \in Seq(Nat)
         /\ item.kind = "raw" => Len(item.value.bytes) \in Nat
<1>1. /\ item.fpos \in Nat
      /\ item.kind = "str" => item.value \in Seq(STRING)
      /\ item.kind \in {"array", "pointers", "offset"} => item.value \in Seq(Nat)
      /\ item.kind = "raw" => item.value.bytes \in Seq(ByteCells)
  BY DEF Items
<1> QED BY <1>1, LenProperties

LEMMA ItemFacts ==
  ASSUME LayoutInv, NEW item, IsNext(item)
  PROVE  /\ Placing /\ item \in Items
         /\ ItemDone(item) \in Frames(objects)
         /\ ItemDone(item).todo = <<>> /\ ItemDone(item).row.ids = <<>>
         /\ LastTo(pieces) <= Len(data)
<1>1. Placing /\ Top.todo = <<>> /\ Top.row.ids = <<>> /\ item \in Top.items
  BY DEF IsNext, InLineDone
<1>2. item \in Items /\ LastTo(pieces) <= Len(data)
  BY <1>1, Facts
<1>3. /\ ItemDone(item) \in Frames(objects)
      /\ ItemDone(item).todo = Top.todo /\ ItemDone(item).row = Top.row
  BY <1>1, Facts DEF ItemDone, Frames
<1> QED BY <1>1, <1>2, <1>3

\* A call with nothing to write in line, whose parts are all within the blob.
LEMMA WithinBlob ==
  ASSUME NEW parts, NEW f, NEW blob, f.row.ids = <<>>, LastTo(parts) <= Len(blob)
  PROVE  Reaches(parts, f, blob)
BY DEF Reaches

\* Items for which the blob grows, and no part of it is given out.
LEMMA BlobGrows ==
  ASSUME LayoutInv, Placing, NEW f \in Frames(objects), Update(f), f.row.ids = <<>>,
         UNCHANGED <<objects, pieces>>, next' \in Nat, LastTo(pieces) <= Len(data),
         Len(data') \in Nat, Len(data) <= Len(data')
  PROVE  LayoutInv'
<1>1. LastTo(pieces') <= Len(data')
  BY Facts
<1>2. Reaches(pieces', f, data')
  BY <1>1, WithinBlob
<1>3. pieces' \in Seq(Pieces) /\ PartsApart' /\ frames # <<>>
  BY Facts DEF PartsApart, NoOverlap
<1> QED BY <1>2, <1>3, StepOfTop

\* Items that are given a part of their own at the end of the blob.
LEMMA PartGiven ==
  ASSUME LayoutInv, Placing, NEW f \in Frames(objects), Update(f), f.row.ids = <<>>,
         UNCHANGED objects, next' \in Nat, LastTo(pieces) <= Len(data),
         NEW from \in Nat, NEW to \in Nat, Give(from, to), from <= to,
         Len(data) <= from, Len(data') \in Nat, to <= Len(data')
  PROVE  LayoutInv'
<1>1. LastTo(pieces) <= from
  BY Facts
<1>2. pieces' \in Seq(Pieces) /\ PartsApart' /\ LastTo(pieces') = to
  BY <1>1, Facts, GiveKeeps
<1>3. Reaches(pieces', f, data')
  BY <1>2, WithinBlob
<1> QED BY <1>2, <1>3, Facts, StepOfTop

LEMMA PlaceStrKeeps ==
  ASSUME LayoutInv, NEW item, PlaceStr(item)
  PROVE  LayoutInv'
<1> DEFINE at == Larger(next, Len(data))
           end == at + Len(item.value) + 1
           f == ItemDone(item)
<1>1. /\ IsNext(item) /\ item.kind = "str" /\ next' = at
      /\ \E writes : data' = Written(data, end, writes)
      /\ Give(at, end) /\ Update(f) /\ UNCHANGED objects
  BY DEF PlaceStr
<1>2. Placing /\ f \in Frames(objects) /\ f.row.ids = <<>> /\ LastTo(pieces) <= Len(data) /\ Len(item.value) \in Nat
  BY <1>1, ItemFacts, ItemParts
<1>3. at \in Nat /\ end \in Nat /\ Len(data) <= at /\ at <= end
  BY <1>2, Facts DEF Larger
<1> HIDE DEF at, end, f
<1>4. Len(data') \in Nat /\ end <= Len(data')
  BY <1>1, <1>2, <1>3, Facts, LengthWritten
<1> QED BY <1>1, <1>2, <1>3, <1>4, PartGiven

LEMMA PlaceRawArrayKeeps ==
  ASSUME LayoutInv, NEW item, PlaceRawArray(item)
  PROVE  LayoutInv'
<1> DEFINE at == Cursor(8)
           end == at + Len(item.value.bytes)
           upto == Larger(item.fpos + 12, end)
           f == ItemDone(item)
<1>1. /\ IsNext(item) /\ item.kind = "raw" /\ next' = at
      /\ \E writes : data' = Written(data, upto, writes)
      /\ Give(at, end) /\ Update(f) /\ UNCHANGED objects
  BY DEF PlaceRawArray
<1>2. /\ Placing /\ f \in Frames(objects) /\ f.row.ids = <<>> /\ LastTo(pieces) <= Len(data)
      /\ Len(item.value.bytes) \in Nat /\ item.fpos \in Nat
  BY <1>1, ItemFacts, ItemParts
<1>3. at \in Nat /\ Len(data) <= at
  BY <1>2, Facts, CursorPastBlob
<1>4. end \in Nat /\ at <= end /\ upto \in Nat /\ end <= upto
  <2> HIDE DEF at
  <2>1. end \in Nat /\ at <= end
    BY <1>2, <1>3
  <2>2. item.fpos + 12 \in Nat
    BY <1>2
  <2> HIDE DEF end
  <2> QED BY <2>1, <2>2 DEF Larger
<1> HIDE DEF at, end, upto, f
<1>5. Len(data') \in Nat /\ upto <= Len(data')
  BY <1>1, <1>2, <1>4, Facts, LengthWritten
<1>6. end <= Len(data')
  BY <1>4, <1>5
<1> QED BY <1>1, <1>2, <1>3, <1>4, <1>5, <1>6, PartGiven

LEMMA PlaceEmptyArrayKeeps ==
  ASSUME LayoutInv, NEW item, PlaceEmptyArray(item)
  PROVE  LayoutInv'
<1> DEFINE f == ItemDone(item)
<1>1. /\ IsNext(item) /\ next' \in {next, Cursor(8)}
      /\ \E writes : data' = Written(data, item.fpos + 12, writes)
      /\ Update(f) /\ UNCHANGED <<objects, pieces>>
  BY DEF PlaceEmptyArray
<1>2. Placing /\ f \in Frames(objects) /\ f.row.ids = <<>> /\ LastTo(pieces) <= Len(data) /\ item.fpos + 12 \in Nat
  BY <1>1, ItemFacts, ItemParts
<1>3. next' \in Nat
  BY <1>1, <1>2, Facts, CursorPastBlob
<1> HIDE DEF f
<1>4. Len(data') \in Nat /\ Len(data) <= Len(data')
  BY <1>1, <1>2, Facts, LengthWritten
<1> QED BY <1>1, <1>2, <1>3, <1>4, BlobGrows

LEMMA PlaceNothingKeeps ==
  ASSUME LayoutInv, NEW item, PlaceNothing(item)
  PROVE  LayoutInv'
<1> DEFINE f == ItemDone(item)
<1>1. /\ IsNext(item)
      /\ \E writes : data' = Written(data, item.fpos + 4, writes)
      /\ Update(f) /\ UNCHANGED <<objects, next, pieces>>
  BY DEF PlaceNothing
<1>2. Placing /\ f \in Frames(objects) /\ f.row.ids = <<>> /\ LastTo(pieces) <= Len(data) /\ item.fpos + 4 \in Nat
  BY <1>1, ItemFacts, ItemParts
<1> HIDE DEF f
<1>3. Len(data') \in Nat /\ Len(data) <= Len(data')
  BY <1>1, <1>2, Facts, LengthWritten
<1> QED BY <1>1, <1>2, <1>3, Facts, BlobGrows

LEMMA PlaceArrayKeeps ==
  ASSUME LayoutInv, NEW item, PlaceArray(item)
  PROVE  LayoutInv'
<1> DEFINE first == Cursor(AlignOf(ChildType(item.value[1])))
           row == [ids |-> item.value, at |-> first]
           f == [ItemDone(item) EXCEPT !.row = row]
<1>1. /\ IsNext(item) /\ item.kind = "array" /\ Found(item.value) /\ next' = first
      /\ \E writes : data' = Written(data, item.fpos + 12, writes)
      /\ Update(f) /\ UNCHANGED <<objects, pieces>>
  BY DEF PlaceArray
<1>2. /\ Placing /\ ItemDone(item) \in Frames(objects) /\ LastTo(pieces) <= Len(data)
      /\ item.fpos + 12 \in Nat /\ item.value \in Seq(Nat)
  BY <1>1, ItemFacts, ItemParts
<1>3. first \in Nat /\ Len(data) <= first
  BY <1>2, Facts, SizesAndAlignments, CursorPastBlob
<1> HIDE DEF first
<1>4. row \in Rows(objects)
  BY <1>1, <1>2, <1>3 DEF Rows, Found
<1>5. f \in Frames(objects) /\ f.row = row
  <2> HIDE DEF row
  <2> QED BY <1>2, <1>4 DEF Frames
<1>6. Len(data') \in Nat /\ Len(data) <= Len(data')
  BY <1>1, <1>2, Facts, LengthWritten
<1>7. LastTo(pieces) <= Len(data') /\ LastTo(pieces) <= first
  BY <1>2, <1>3, <1>6, Facts
<1> HIDE DEF f
<1>8. Reaches(pieces', f, data')
  BY <1>1, <1>5, <1>7 DEF Reaches
<1> QED BY <1>1, <1>2, <1>3, <1>5, <1>6, <1>8, Facts, StepOfTop DEF PartsApart, NoOverlap

LEMMA BeginPointersKeeps ==
  ASSUME LayoutInv, NEW item, BeginPointers(item)
  PROVE  LayoutInv'
<1> DEFINE block == Cursor(8)
           end == block + 8 * Len(item.value)
           wait == [on |-> "pointers", fpos |-> item.fpos, block |-> block, ids |-> item.value,
                    left |-> Len(item.value), targets |-> [k \in DOMAIN item.value |-> 0]]
           f == [ItemDone(item) EXCEPT !.wait = wait]
<1>1. /\ IsNext(item) /\ item.kind = "pointers" /\ Found(item.value) /\ next' = end
      /\ data' = Written(data, end, {})
      /\ Update(f) /\ Give(block, end) /\ UNCHANGED objects
  BY DEF BeginPointers
<1>2. /\ Placing /\ ItemDone(item) \in Frames(objects) /\ LastTo(pieces) <= Len(data)
      /\ ItemDone(item).row.ids = <<>>
      /\ item.fpos \in Nat /\ item.value \in Seq(Nat)
  BY <1>1, ItemFacts, ItemParts
<1>3. Len(item.value) \in Nat /\ DOMAIN item.value = 1 .. Len(item.value)
  BY <1>2, LenProperties
<1>4. block \in Nat /\ Len(data) <= block
  BY <1>2, Facts, CursorPastBlob
<1> HIDE DEF block
<1>5. end \in Nat /\ block <= end
  BY <1>3, <1>4
<1>6. wait.targets \in Seq(Nat)
  BY <1>3
<1>7. wait \in Waits(objects)
  <2> DEFINE ids == item.value
             targets == wait.targets
  <2>1. ids \in Seq(Nat) /\ Len(ids) \in Nat /\ Len(ids) <= Len(ids) /\ targets \in Seq(Nat)
    BY <1>2, <1>3, <1>6
  <2>2. \A i \in DOMAIN ids : Index(objects, ids[i]) # 0
    BY <1>1 DEF Found
  <2>3. wait = [on |-> "pointers", fpos |-> item.fpos, block |-> block, ids |-> ids, left |-> Len(ids), targets |-> targets]
    OBVIOUS
  <2> HIDE DEF wait, ids, targets
  <2> QED BY <1>2, <1>4, <2>1, <2>2, <2>3 DEF Waits, PointerWaits
<1> HIDE DEF wait, end
<1>8. f \in Frames(objects) /\ f.row.ids = <<>>
  BY <1>2, <1>7 DEF Frames
<1> HIDE DEF f
<1>9. Len(data') \in Nat /\ end <= Len(data')
  BY <1>1, <1>2, <1>5, Facts, LengthWritten
<1> QED BY <1>1, <1>2, <1>4, <1>5, <1>8, <1>9, PartGiven

-----------------------------------------------------------------------------
(* Calls and returns *)

\* A new call: the one that makes it waits, and the new one has an object of
\* its own to write.
LEMMA CallPlaceKeeps ==
  ASSUME LayoutInv, Placing, LastTo(pieces) <= Len(data),
         NEW waiting \in Frames(objects), waiting.todo = <<>>, waiting.row.ids = <<>>,
         NEW id, Index(objects, id) # 0, NEW at \in Nat, Len(data) <= at,
         CallPlace(waiting, id, at)
  PROVE  LayoutInv'
<1> DEFINE n == Len(frames)
           calling == [frames EXCEPT ![n] = waiting]
           e == [obj |-> Child(id), off |-> at]
           call == Call(<<e>>)
           end == at + SizeOf(ChildType(id))
<1>1. next' = at /\ frames' = Append(calling, call) /\ Give(at, end) /\ UNCHANGED <<objects, data>>
  BY DEF CallPlace
<1>2. Child(id) \in DOMAIN objects /\ Child(id) # 0
  BY Facts, IndexFound DEF Child
<1>3. e \in Entries(objects) /\ e.obj # 0 /\ end = e.off + SizeOf(objects[e.obj].type)
  BY <1>2 DEF Entries, ChildType
<1>4. SizeOf(ChildType(id)) \in Nat
  BY SizesAndAlignments
<1>5. end \in Nat /\ at <= end /\ LastTo(pieces) <= at
  BY <1>4, Facts
<1> HIDE DEF e, end
<1>6. call \in Frames(objects) /\ call.todo = <<e>> /\ call.row.ids = <<>>
  <2>1. <<e>> \in Seq(Entries(objects))
    BY <1>3
  <2>2. NoRow \in Rows(objects)
    BY DEF NoRow, Rows
  <2>3. NotWaiting \in Waits(objects)
    BY DEF Waits
  <2>4. NoRow.ids = <<>>
    BY DEF NoRow
  <2> QED BY <2>1, <2>2, <2>3, <2>4 DEF Call, Frames
<1>7. n \in Nat /\ n \in 1 .. n /\ frames \in Seq(Frames(objects))
  BY Facts, TopTyped
<1>8. /\ calling \in Seq(Frames(objects)) /\ Len(calling) = n
      /\ \A k \in 1 .. n : calling[k] = IF k = n THEN waiting ELSE frames[k]
  BY <1>7, ExceptSeq
<1> HIDE DEF call, calling
<1>9. /\ frames' \in Seq(Frames(objects)) /\ Len(frames') = n + 1
      /\ \A k \in 1 .. n : frames'[k] = calling[k]
      /\ frames'[n + 1] = call
  BY <1>1, <1>6, <1>8, AppendProperties
<1>10. CallersWait'
  <2>1. \A k \in 1 .. n - 1 : frames[k].todo = <<>> /\ frames[k].row.ids = <<>>
    BY DEF LayoutInv, CallersWait
  <2> HIDE DEF n
  <2>2. \A k \in 1 .. n : frames'[k].todo = <<>> /\ frames'[k].row.ids = <<>>
    BY <1>7, <1>8, <1>9, <2>1
  <2>3. Len(frames') - 1 = n
    BY <1>7, <1>9
  <2> QED BY <2>2, <2>3 DEF CallersWait
<1>11. Top' = call
  BY <1>9 DEF Top
<1>12. pieces' \in Seq(Pieces) /\ PartsApart' /\ LastTo(pieces') = end
  BY <1>1, <1>5, Facts, GiveKeeps
<1>13. LastTo(pieces') <= e.off + SizeOf(objects[e.obj].type)
  BY <1>3, <1>5, <1>12
<1>14. Reaches(pieces, Top, data)'
  BY <1>1, <1>3, <1>6, <1>11, <1>13 DEF Reaches
<1>15. LayoutTypeOK'
  BY <1>1, <1>9, <1>12, Facts DEF LayoutTypeOK
<1> QED BY <1>10, <1>12, <1>14, <1>15 DEF LayoutInv

LEMMA BeginOffsetKeeps ==
  ASSUME LayoutInv, NEW item, BeginOffset(item)
  PROVE  LayoutInv'
<1> DEFINE id == item.value[1]
           at == Cursor(AlignOf(ChildType(id)))
           wait == [on |-> "offset", fpos |-> item.fpos, at |-> at]
           f == [ItemDone(item) EXCEPT !.wait = wait]
<1>1. IsNext(item) /\ item.kind = "offset" /\ Found(<<id>>) /\ CallPlace(f, id, at)
  BY DEF BeginOffset
<1>2. /\ Placing /\ ItemDone(item) \in Frames(objects) /\ LastTo(pieces) <= Len(data)
      /\ ItemDone(item).todo = <<>> /\ ItemDone(item).row.ids = <<>> /\ item.fpos \in Nat
  BY <1>1, ItemFacts, ItemParts
<1>3. Index(objects, id) # 0
  BY <1>1 DEF Found
<1>4. at \in Nat /\ Len(data) <= at
  BY <1>2, Facts, SizesAndAlignments, CursorPastBlob
<1> HIDE DEF at, id
<1>5. wait \in Waits(objects)
  BY <1>2, <1>4 DEF Waits
<1> HIDE DEF wait
<1>6. f \in Frames(objects) /\ f.todo = <<>> /\ f.row.ids = <<>>
  BY <1>2, <1>5 DEF Frames
<1> HIDE DEF f
<1> QED BY <1>1, <1>2, <1>3, <1>4, <1>6, CallPlaceKeeps

\* What a call that waits with nothing left in line knows.
LEMMA WaitFacts ==
  ASSUME LayoutInv, InLineDone
  PROVE  /\ Placing /\ LastTo(pieces) <= Len(data)
         /\ Top \in Frames(objects) /\ Top.todo = <<>> /\ Top.row.ids = <<>>
         /\ Top.wait.on = "offset" => Top.wait.fpos \in Nat
         /\ Top.wait.on = "pointers" =>
              /\ Top.wait.fpos \in Nat /\ Top.wait.block \in Nat /\ Top.wait.ids \in Seq(Nat)
              /\ Top.wait.left \in Nat /\ Top.wait.targets \in Seq(Nat)
              /\ Top.wait.left <= Len(Top.wait.ids)
              /\ \A i \in DOMAIN Top.wait.ids : Index(objects, Top.wait.ids[i]) # 0
              /\ Top.wait \in PointerWaits
<1>1. Placing /\ Top.todo = <<>> /\ Top.row.ids = <<>>
  BY DEF InLineDone
<1>2. LastTo(pieces) <= Len(data) /\ Top \in Frames(objects) /\ Top.wait \in Waits(objects)
  BY <1>1, Facts
<1>3. \A w \in Waits(objects) :
        /\ w.on = "offset" => w.fpos \in Nat
        /\ w.on = "pointers" =>
             /\ w.fpos \in Nat /\ w.block \in Nat /\ w.ids \in Seq(Nat) /\ w.left \in Nat /\ w.targets \in Seq(Nat)
             /\ w.left <= Len(w.ids)
             /\ \A i \in DOMAIN w.ids : Index(objects, w.ids[i]) # 0
             /\ w \in PointerWaits
  BY DEF Waits, PointerWaits, NotWaiting
<1> QED BY <1>1, <1>2, <1>3

LEMMA ChangedSeq ==
  ASSUME NEW s \in Seq(Nat), NEW k, NEW n \in Nat
  PROVE  [s EXCEPT ![k] = n] \in Seq(Nat)
<1>1. Len(s) \in Nat /\ s \in [1 .. Len(s) -> Nat]
  BY LenProperties
<1>2. [s EXCEPT ![k] = n] \in [1 .. Len(s) -> Nat]
  BY <1>1
<1> QED BY <1>1, <1>2, SeqDef

LEMMA PlaceTargetKeeps ==
  ASSUME LayoutInv, PlaceTarget
  PROVE  LayoutInv'
<1> DEFINE w == Top.wait
           k == w.left
           id == w.ids[k]
           at == Cursor(AlignOf(ChildType(id)))
           placed == [w.targets EXCEPT ![k] = at]
           wait == [w EXCEPT !.left = k - 1, !.targets = placed]
           f == [Top EXCEPT !.wait = wait]
<1>1. InLineDone /\ w.on = "pointers" /\ k > 0 /\ CallPlace(f, id, at)
  BY DEF PlaceTarget
<1>2. /\ Placing /\ LastTo(pieces) <= Len(data)
      /\ Top \in Frames(objects) /\ Top.todo = <<>> /\ Top.row.ids = <<>>
      /\ w.fpos \in Nat /\ w.block \in Nat /\ w.ids \in Seq(Nat)
      /\ k \in Nat /\ w.targets \in Seq(Nat) /\ k <= Len(w.ids)
      /\ \A i \in DOMAIN w.ids : Index(objects, w.ids[i]) # 0
      /\ w \in PointerWaits
  BY <1>1, WaitFacts
<1>3. k \in DOMAIN w.ids
  <2>1. DOMAIN w.ids = 1 .. Len(w.ids) /\ Len(w.ids) \in Nat
    BY <1>2, LenProperties
  <2> QED BY <1>1, <1>2, <2>1
<1>4. Index(objects, id) # 0
  BY <1>2, <1>3
<1>5. at \in Nat /\ Len(data) <= at
  BY <1>2, Facts, SizesAndAlignments, CursorPastBlob
<1> HIDE DEF at, id
<1>6. placed \in Seq(Nat)
  BY <1>2, <1>5, ChangedSeq
<1>7. k - 1 \in Nat /\ k - 1 <= Len(w.ids)
  BY <1>1, <1>2, LenProperties
<1> HIDE DEF placed
<1>8. wait \in PointerWaits /\ wait.ids = w.ids /\ wait.left = k - 1
  BY <1>2, <1>6, <1>7 DEF PointerWaits
<1>9. wait \in Waits(objects)
  BY <1>2, <1>7, <1>8 DEF Waits
<1> HIDE DEF wait
<1>10. f \in Frames(objects) /\ f.todo = <<>> /\ f.row.ids = <<>>
  BY <1>2, <1>9 DEF Frames
<1> HIDE DEF f
<1> QED BY <1>1, <1>2, <1>4, <1>5, <1>10, CallPlaceKeeps

LEMMA WaitOver ==
  ASSUME NEW objs, NEW f \in Frames(objs)
  PROVE  [f EXCEPT !.wait = NotWaiting] \in Frames(objs) /\ [f EXCEPT !.wait = NotWaiting].row = f.row
<1>1. NotWaiting \in Waits(objs)
  BY DEF Waits
<1> QED BY <1>1 DEF Frames

LEMMA EndPointersKeeps ==
  ASSUME LayoutInv, EndPointers
  PROVE  LayoutInv'
<1> DEFINE f == [Top EXCEPT !.wait = NotWaiting]
<1>1. /\ InLineDone /\ Top.wait.on = "pointers"
      /\ \E writes : data' = Written(data, Top.wait.fpos + 12, writes)
      /\ Update(f) /\ UNCHANGED <<objects, next, pieces>>
  BY DEF EndPointers
<1>2. Placing /\ LastTo(pieces) <= Len(data) /\ Top \in Frames(objects) /\ Top.row.ids = <<>> /\ Top.wait.fpos + 12 \in Nat
  BY <1>1, WaitFacts
<1>3. f \in Frames(objects) /\ f.row.ids = <<>>
  BY <1>2, WaitOver
<1> HIDE DEF f
<1>4. Len(data') \in Nat /\ Len(data) <= Len(data')
  BY <1>1, <1>2, Facts, LengthWritten
<1> QED BY <1>1, <1>2, <1>3, <1>4, Facts, BlobGrows

LEMMA EndOffsetKeeps ==
  ASSUME LayoutInv, EndOffset
  PROVE  LayoutInv'
<1> DEFINE f == [Top EXCEPT !.wait = NotWaiting]
<1>1. /\ InLineDone /\ Top.wait.on = "offset"
      /\ \E writes : data' = Written(data, Top.wait.fpos + 4, writes)
      /\ Update(f) /\ UNCHANGED <<objects, next, pieces>>
  BY DEF EndOffset
<1>2. Placing /\ LastTo(pieces) <= Len(data) /\ Top \in Frames(objects) /\ Top.row.ids = <<>> /\ Top.wait.fpos + 4 \in Nat
  BY <1>1, WaitFacts
<1>3. f \in Frames(objects) /\ f.row.ids = <<>>
  BY <1>2, WaitOver
<1> HIDE DEF f
<1>4. Len(data') \in Nat /\ Len(data) <= Len(data')
  BY <1>1, <1>2, Facts, LengthWritten
<1> QED BY <1>1, <1>2, <1>3, <1>4, Facts, BlobGrows

LEMMA ReturnKeeps ==
  ASSUME LayoutInv, Return
  PROVE  LayoutInv'
<1> DEFINE n == Len(frames)
<1>1. /\ InLineDone /\ frames' = SubSeq(frames, 1, n - 1)
      /\ UNCHANGED <<objects, data, next, pieces>>
  BY DEF Return
<1>2. Placing /\ LastTo(pieces) <= Len(data)
  BY <1>1, WaitFacts
<1>3. n \in Nat /\ n \in 1 .. n /\ frames \in Seq(Frames(objects)) /\ DOMAIN frames = 1 .. n
  BY <1>2, Facts, TopTyped, LenProperties
<1>4. \A k \in 1 .. n - 1 : frames[k].todo = <<>> /\ frames[k].row.ids = <<>>
  BY DEF LayoutInv, CallersWait
<1> HIDE DEF n
<1>5. /\ frames' \in Seq(Frames(objects)) /\ Len(frames') = n - 1
      /\ \A k \in 1 .. n - 1 : frames'[k] = frames[k]
  <2>1. n - 1 \in Nat /\ n - 1 \in Int /\ 1 \in Int
    BY <1>3
  <2>2. \A k \in 1 .. n - 1 : frames[k] \in Frames(objects)
    BY <1>3, ElementOfSeq DEF n
  <2>3. /\ SubSeq(frames, 1, n - 1) \in Seq(Frames(objects))
        /\ Len(SubSeq(frames, 1, n - 1)) = IF 1 <= n - 1 THEN n - 1 - 1 + 1 ELSE 0
        /\ \A k \in 1 .. n - 1 - 1 + 1 : SubSeq(frames, 1, n - 1)[k] = frames[1 + k - 1]
    BY <2>1, <2>2, SubSeqProperties
  <2> QED BY <1>1, <1>3, <2>1, <2>3
<1>6. CallersWait'
  <2>1. \A k \in 1 .. n - 1 - 1 : k \in 1 .. n - 1
    BY <1>3
  <2> QED BY <1>4, <1>5, <2>1 DEF CallersWait
<1>7. ASSUME frames' # <<>> PROVE Reaches(pieces, Top, data)'
  <2>1. n - 1 \in 1 .. n - 1
    BY <1>3, <1>5, <1>7, EmptySeq
  <2>2. Top' = frames[n - 1]
    BY <1>5, <2>1 DEF Top
  <2>3. Top'.row.ids = <<>>
    BY <1>4, <2>1, <2>2
  <2> QED BY <1>1, <1>2, <2>3 DEF Reaches
<1>8. LayoutTypeOK' /\ PartsApart'
  BY <1>1, <1>2, <1>5, Facts DEF LayoutTypeOK, PartsApart, NoOverlap
<1> QED BY <1>6, <1>7, <1>8 DEF LayoutInv

LEMMA SameKeeps ==
  ASSUME LayoutInv, UNCHANGED <<objects, data, next, frames, pieces>>
  PROVE  LayoutInv'
BY DEF LayoutInv, LayoutTypeOK, CallersWait, PartsApart, NoOverlap, Top, Reaches

-----------------------------------------------------------------------------
(* The theorems *)

LEMMA LayoutStarts == LayoutInit => LayoutInv
<1> SUFFICES ASSUME LayoutInit PROVE LayoutInv
  OBVIOUS
<1> DEFINE e == [obj |-> Root(objects), off |-> RfciPrefix]
           call == Call(<<e>>)
           part == [from |-> RfciPrefix, to |-> RootEnd(objects)]
<1>1. /\ objects \in Seq(Objects) /\ Root(objects) # 0 /\ data = Written(<<>>, 4, {})
      /\ next = RootEnd(objects) /\ frames = <<call>> /\ pieces = <<part>>
  BY GraphsAssumption DEF LayoutInit, Placeable, FirstData, FirstCall, RfciPrefix
<1>2. Root(objects) \in DOMAIN objects
  BY <1>1, RootFound
<1>3. SizeOf(objects[Root(objects)].type) \in Nat
  BY SizesAndAlignments
<1>4. /\ RootEnd(objects) \in Nat /\ RfciPrefix \in Nat /\ RfciPrefix <= RootEnd(objects)
      /\ RootEnd(objects) = e.off + SizeOf(objects[e.obj].type)
  BY <1>3 DEF RootEnd, RfciPrefix
<1>5. e \in Entries(objects) /\ e.obj # 0
  BY <1>1, <1>2, <1>4 DEF Entries
<1> HIDE DEF e
<1>6. call \in Frames(objects) /\ call.todo = <<e>> /\ call.row.ids = <<>>
  <2>1. <<e>> \in Seq(Entries(objects))
    BY <1>5
  <2>2. NoRow \in Rows(objects)
    BY DEF NoRow, Rows
  <2>3. NotWaiting \in Waits(objects)
    BY DEF Waits
  <2>4. NoRow.ids = <<>>
    BY DEF NoRow
  <2> QED BY <2>1, <2>2, <2>3, <2>4 DEF Call, Frames
<1> HIDE DEF call
<1>7. part \in Pieces
  BY <1>4 DEF Pieces
<1>8. Len(data) \in Nat
  <2>1. Len(<<>>) \in Nat
    BY EmptySeq
  <2> QED BY <1>1, <2>1, LengthWritten
<1>9. LayoutTypeOK
  BY <1>1, <1>4, <1>6, <1>7, <1>8 DEF LayoutTypeOK
<1>10. CallersWait /\ Top = call
  BY <1>1 DEF CallersWait, Top
<1>11. PartsApart
  BY <1>1, <1>4 DEF PartsApart, NoOverlap
<1>12. LastTo(pieces) <= e.off + SizeOf(objects[e.obj].type)
  BY <1>1, <1>4 DEF LastTo
<1>13. Reaches(pieces, Top, data)
  BY <1>5, <1>6, <1>10, <1>12 DEF Reaches
<1> QED BY <1>9, <1>10, <1>11, <1>13 DEF LayoutInv

LEMMA LayoutStepKeeps == LayoutInv /\ [LayoutNext]_layoutVars => LayoutInv'
<1> SUFFICES ASSUME LayoutInv, [LayoutNext]_layoutVars PROVE LayoutInv'
  OBVIOUS
<1>1. CASE InlineWrite
  BY <1>1, InlineWriteKeeps
<1>2. CASE SkipField
  BY <1>2, SkipFieldKeeps
<1>3. CASE NextElement
  BY <1>3, NextElementKeeps
<1>4. CASE PlaceItem
  <2>1. PICK item : \/ PlaceStr(item) \/ PlaceEmptyArray(item) \/ PlaceArray(item) \/ PlaceRawArray(item)
                    \/ BeginPointers(item) \/ PlaceNothing(item) \/ BeginOffset(item) \/ MissingChild(item)
    BY <1>4 DEF PlaceItem
  <2>2. CASE MissingChild(item)
    BY <2>2, SameKeeps DEF MissingChild
  <2> QED BY <2>1, <2>2, PlaceStrKeeps, PlaceEmptyArrayKeeps, PlaceArrayKeeps, PlaceRawArrayKeeps,
             BeginPointersKeeps, PlaceNothingKeeps, BeginOffsetKeeps
<1>5. CASE PlaceTarget
  BY <1>5, PlaceTargetKeeps
<1>6. CASE EndPointers
  BY <1>6, EndPointersKeeps
<1>7. CASE EndOffset
  BY <1>7, EndOffsetKeeps
<1>8. CASE Return
  BY <1>8, ReturnKeeps
<1>9. CASE UNCHANGED layoutVars
  BY <1>9, SameKeeps DEF layoutVars
<1> QED BY <1>1, <1>2, <1>3, <1>4, <1>5, <1>6, <1>7, <1>8, <1>9 DEF LayoutNext

LEMMA LayoutInvariant == LayoutSpec => []LayoutInv
BY LayoutStarts, LayoutStepKeeps, PTL DEF LayoutSpec

\* Every state of a placement is well typed: what waits to be placed has a place
\* in the blob and an object of the graph, whatever the schema and the graph
\* (reflect_write.rs, inline_write and place).
THEOREM LayoutTyped == LayoutSpec => []LayoutTypeOK
<1>1. LayoutInv => LayoutTypeOK
  BY DEF LayoutInv
<1> QED BY <1>1, LayoutInvariant, PTL

\* No two pieces of the blob share a byte, whatever the schema and the graph:
\* State::append and its callers never give out what is already given
\* (reflect_write.rs).
THEOREM PiecesNeverOverlap == LayoutSpec => []NoOverlap
<1>1. LayoutInv => NoOverlap
  BY DEF LayoutInv, PartsApart
<1> QED BY <1>1, LayoutInvariant, PTL

-----------------------------------------------------------------------------
(* Numbers in place *)

\* A write that puts every number where its width belongs.
WriteInPlace(write) ==
    /\ write.off \in Nat
    /\ Len(write.cells) \in Nat /\ DOMAIN write.cells = 1 .. Len(write.cells)
    /\ \A k \in DOMAIN write.cells : InPlace(write.cells[k], write.off + k - 1)

\* What the numbers' places rest on: the objects and elements still to be
\* written, and the references of what is still to be placed, lie where they
\* need to.
EntryAligned(objs, entry) == entry.obj # 0 => Aligned(entry.off, Need(objs[entry.obj].type))

ItemAligned(objs, item) ==
    /\ Aligned(item.fpos, 8)
    /\ item.kind = "array" => SameType(objs, item.value)
    /\ item.kind = "raw" => RawFits(item.value.bytes)

RowAligned(objs, row) ==
    /\ SameType(objs, row.ids)
    /\ row.ids # <<>> => Aligned(row.at, Need(objs[Index(objs, row.ids[1])].type))

WaitAligned(wait) ==
    /\ wait.on \in {"offset", "pointers"} => Aligned(wait.fpos, 8)
    /\ wait.on = "pointers" => Aligned(wait.block, 8)

FrameAligned(objs, frame) ==
    /\ \A i \in DOMAIN frame.todo : EntryAligned(objs, frame.todo[i])
    /\ RowAligned(objs, frame.row)
    /\ \A item \in frame.items : ItemAligned(objs, item)
    /\ WaitAligned(frame.wait)

AlignInv ==
    /\ TypedGraph(objects)
    /\ DOMAIN data = 1 .. Len(data)
    /\ NumbersAligned
    /\ \A k \in DOMAIN frames : FrameAligned(objects, frames[k])

-----------------------------------------------------------------------------
(* Offsets *)

LEMMA Divides ==
  ASSUME NEW off \in Int, NEW a \in Widths, NEW b \in Widths, b <= a, Aligned(off, a)
  PROVE  Aligned(off, b)
<1>1. CASE a = 8 /\ b = 4
  BY <1>1, SMT DEF Aligned, RfciFileOffset
<1>2. CASE b = 1
  BY <1>2, SMT DEF Aligned, RfciFileOffset
<1>3. CASE a = b
  BY <1>3
<1> QED BY <1>1, <1>2, <1>3 DEF Widths

LEMMA Moved ==
  ASSUME NEW off \in Int, NEW a \in Widths, Aligned(off, a), NEW d \in Int, d % a = 0
  PROVE  Aligned(off + d, a)
<1>1. CASE a = 8
  BY <1>1, SMT DEF Aligned, RfciFileOffset
<1>2. CASE a = 4
  BY <1>2, SMT DEF Aligned, RfciFileOffset
<1>3. CASE a = 1
  BY <1>3, SMT DEF Aligned, RfciFileOffset
<1> QED BY <1>1, <1>2, <1>3 DEF Widths

LEMMA Anywhere == \A off \in Int : Aligned(off, 1)
BY SMT DEF Aligned, RfciFileOffset

LEMMA CursorAligned ==
  ASSUME next \in Nat, Len(data) \in Nat, NEW align \in Widths
  PROVE  Aligned(Cursor(align), align)
<1>1. Larger(next, Len(data)) \in Nat
  BY DEF Larger
<1>2. \A rel \in Nat : Aligned(AlignFile(rel, align), align)
  <2>1. CASE align = 1
    BY <2>1, SMT DEF AlignFile, Aligned, RfciFileOffset
  <2>2. CASE align = 4
    BY <2>2, SMT DEF AlignFile, Aligned, RfciFileOffset
  <2>3. CASE align = 8
    BY <2>3, SMT DEF AlignFile, Aligned, RfciFileOffset
  <2> QED BY <2>1, <2>2, <2>3 DEF Widths
<1> QED BY <1>1, <1>2 DEF Cursor

LEMMA WidthsOfTags == \A tag \in DOMAIN Width : Width[tag] \in Widths
BY DEF Width, Widths

\* One number of a tag, at an offset for its width.
LEMMA NumberInPlace ==
  ASSUME NEW tag \in DOMAIN Width, NEW v, NEW off \in Nat, Aligned(off, Width[tag])
  PROVE  WriteInPlace([off |-> off, cells |-> Cells(tag, v)])
<1> DEFINE n == Width[tag]
           cells == Cells(tag, v)
           E == {cells[i] : i \in 1 .. n}
<1>1. n \in Nat
  BY WidthsOfTags DEF Widths
<1>2. DOMAIN cells = 1 .. n /\ cells = [i \in 1 .. n |-> cells[i]] /\ \A i \in 1 .. n : cells[i] = <<tag, i, v>>
  BY DEF Cells
<1> HIDE DEF n, cells
<1>3. cells \in Seq(E)
  BY <1>1, <1>2, SeqDef
<1>4. Len(cells) = n
  BY <1>1, <1>2, <1>3, LenProperties
<1>5. \A k \in 1 .. n : InPlace(cells[k], off + k - 1)
  <2> SUFFICES ASSUME NEW k \in 1 .. n, k = 1 PROVE Aligned(off + k - 1, n)
    BY <1>2 DEF InPlace, n
  <2>1. off + k - 1 = off
    OBVIOUS
  <2> QED BY <2>1 DEF n
<1> QED BY <1>1, <1>2, <1>4, <1>5 DEF WriteInPlace, cells

LEMMA ReferenceInPlace ==
  ASSUME NEW fpos \in Nat, Aligned(fpos, 8), NEW at, NEW count
  PROVE  \A write \in Reference(fpos, at, count) : WriteInPlace(write)
<1>1. "i32" \in DOMAIN Width /\ Width["i32"] = 4
  BY DEF Width
<1>2. Aligned(fpos, 4) /\ Aligned(fpos + 8, 4) /\ fpos + 8 \in Nat
  BY SMT DEF Aligned, RfciFileOffset
<1> QED BY <1>1, <1>2, NumberInPlace DEF Reference

\* The blob after a step that writes numbers where they belong.
LEMMA WrittenInPlace ==
  ASSUME LayoutTypeOK, DOMAIN data = 1 .. Len(data), NumbersAligned,
         NEW end \in Nat, NEW writes, \A write \in writes : WriteInPlace(write),
         data' = Written(data, end, writes)
  PROVE  (DOMAIN data = 1 .. Len(data) /\ NumbersAligned)'
<1> DEFINE n == Larger(Len(data), end)
           covers(w, p) == w.off < p /\ p <= w.off + Len(w.cells)
           E == {data'[i] : i \in 1 .. n}
<1>1. n \in Nat
  BY DEF LayoutTypeOK, Larger
<1>2. DOMAIN data' = 1 .. n /\ data' = [p \in 1 .. n |-> data'[p]]
  BY DEF Written
<1>3. \A p \in 1 .. n : data'[p] = IF \E w \in writes : covers(w, p)
                                    THEN LET w == CHOOSE w \in writes : covers(w, p) IN w.cells[p - w.off]
                                    ELSE IF p <= Len(data) THEN data[p] ELSE Zero
  BY DEF Written
<1> HIDE DEF n
<1>4. data' \in Seq(E)
  BY <1>1, <1>2, SeqDef
<1>5. Len(data') = n
  BY <1>1, <1>2, <1>4, LenProperties
<1>6. ASSUME NEW p \in 1 .. n PROVE InPlace(data'[p], p - 1)
  <2>1. CASE \E w \in writes : covers(w, p)
    <3> DEFINE w == CHOOSE w \in writes : covers(w, p)
    <3>1. w \in writes /\ covers(w, p) /\ data'[p] = w.cells[p - w.off]
      BY <1>3, <2>1
    <3> HIDE DEF w
    <3>2. WriteInPlace(w)
      BY <3>1
    <3>3. p \in Nat /\ w.off \in Nat /\ Len(w.cells) \in Nat
      BY <1>1, <3>2 DEF WriteInPlace
    <3>4. p - w.off \in 1 .. Len(w.cells) /\ w.off + (p - w.off) - 1 = p - 1
      BY <3>1, <3>3
    <3>5. InPlace(w.cells[p - w.off], w.off + (p - w.off) - 1)
      BY <3>2, <3>4 DEF WriteInPlace
    <3> QED BY <3>1, <3>4, <3>5
  <2>2. CASE ~(\E w \in writes : covers(w, p)) /\ p <= Len(data)
    <3>1. data'[p] = data[p] /\ p \in DOMAIN data
      BY <1>3, <2>2
    <3> QED BY <3>1 DEF NumbersAligned
  <2>3. CASE ~(\E w \in writes : covers(w, p)) /\ ~(p <= Len(data))
    <3>1. data'[p] = Zero
      BY <1>3, <2>3
    <3>2. Zero[1] \notin DOMAIN Width
      BY DEF Zero, Width
    <3> QED BY <3>1, <3>2 DEF InPlace
  <2> QED BY <2>1, <2>2, <2>3
<1>7. \A p \in DOMAIN data' : InPlace(data'[p], p - 1)
  BY <1>2, <1>6
<1>8. NumbersAligned'
  BY <1>7 DEF NumbersAligned, InPlace, Aligned
<1> QED BY <1>2, <1>5, <1>8

-----------------------------------------------------------------------------
(* What types need *)

LEMMA NeedWidth == \A type : Need(type) \in Widths /\ AlignOf(type) \in Widths /\ FieldAlign(TypeAlign, type) \in Widths
<1>1. \A type : FieldAlign(TypeAlign, type) \in Widths
  BY Classes, TypesAligned, FieldAlignWidth
<1>2. \A type : AlignOf(type) \in Widths
  BY SizesAndAlignments DEF Widths
<1> QED BY <1>1, <1>2 DEF Need

\* Where an object is placed on the alignment of its type it has what it needs.
LEMMA NeedOfType ==
  ASSUME NaturalSchema, NEW type
  PROVE  Need(type) <= AlignOf(type)
<1>1. CASE Classify(type) \in {"str", "array", "pointers", "enum"}
  BY <1>1 DEF NaturalSchema, Need, FieldAlign, AlignOf, Known
<1>2. CASE Classify(type) = "opaque"
  <2>1. Need(type) = 1
    BY <1>2 DEF Need, FieldAlign
  <2> QED BY <2>1, NeedWidth DEF Widths
<1>3. CASE Classify(type) \notin {"str", "array", "pointers", "enum", "opaque"}
  <2>1. Need(type) = AlignOf(type)
    BY <1>3 DEF Need
  <2> QED BY <2>1, NeedWidth DEF Widths
<1> QED BY <1>1, <1>2, <1>3

\* An object that is a field, or a list or a string that is, needs what the
\* field has.
LEMMA NeedOfField ==
  ASSUME NEW type, Classify(type) \in {"embed", "enum", "opaque", "str", "array", "pointers"}
  PROVE  Need(type) = FieldAlign(TypeAlign, type)
BY Classes DEF Need, FieldAlign, AlignOf, Known, Types

LEMMA SizeFits ==
  ASSUME NaturalSchema, NEW type
  PROVE  SizeOf(type) % Need(type) = 0
<1>1. CASE Known(type)
  BY <1>1 DEF NaturalSchema, SizeOf, Known
<1>2. CASE ~Known(type)
  <2>1. SizeOf(type) = 8
    BY <1>2 DEF SizeOf
  <2>2. Need(type) \in {1, 4, 8}
    BY NeedWidth DEF Widths
  <2> QED BY <2>1, <2>2
<1> QED BY <1>1, <1>2

LEMMA AlignedForNeed ==
  ASSUME NaturalSchema, NEW type, NEW off \in Int, Aligned(off, AlignOf(type))
  PROVE  Aligned(off, Need(type))
BY NeedOfType, NeedWidth, Divides

\* The fields of an object lie where they need to, if the object does.
LEMMA FieldsInPlace ==
  ASSUME NaturalSchema, NEW type, Known(type),
         Classify(type) \in {"embed", "scalar", "scalar64", "scalar8", "bool", "offset"},
         NEW off \in Nat, Aligned(off, Need(type)), NEW i \in DOMAIN Registry[type].fields
  PROVE  /\ off + Registry[type].fields[i].offset \in Nat
         /\ Aligned(off + Registry[type].fields[i].offset, FieldAlign(TypeAlign, Registry[type].fields[i].type))
<1> DEFINE field == Registry[type].fields[i]
           a == FieldAlign(TypeAlign, field.type)
<1>1. type \in Types /\ Need(type) = TypeAlign[type]
  BY DEF Need, AlignOf, Known, Types
<1>2. a \in Widths /\ a <= TypeAlign[type] /\ TypeAlign[type] \in Widths
  BY <1>1, FieldsAligned, TypesAligned
<1>3. field.offset \in Nat /\ field.offset % a = 0
  BY <1>1, FieldsTyped DEF NaturalSchema, Types
<1> HIDE DEF a, field
<1>4. Aligned(off, a)
  BY <1>1, <1>2, Divides
<1>5. Aligned(off + field.offset, a)
  BY <1>2, <1>3, <1>4, Moved
<1> QED BY <1>3, <1>5 DEF a, field

-----------------------------------------------------------------------------
(* What an object leaves, and where *)

LEMMA CellsInPlace ==
  ASSUME NEW off \in Nat, NEW bytes \in Seq(ByteCells),
         \A k \in DOMAIN bytes : InPlace(bytes[k], off + k - 1)
  PROVE  WriteInPlace([off |-> off, cells |-> bytes])
BY LenProperties DEF WriteInPlace, InPlace

\* Raw bytes at an offset of eight.
LEMMA RawInPlace ==
  ASSUME NEW off \in Nat, Aligned(off, 8), NEW bytes \in Seq(ByteCells), RawFits(bytes)
  PROVE  WriteInPlace([off |-> off, cells |-> bytes])
<1> SUFFICES ASSUME NEW k \in DOMAIN bytes, bytes[k][2] = 1 /\ bytes[k][1] \in DOMAIN Width
             PROVE  Aligned(off + k - 1, Width[bytes[k][1]])
  BY CellsInPlace DEF InPlace
<1> DEFINE w == Width[bytes[k][1]]
<1>1. w \in Widths
  BY WidthsOfTags
<1>2. (k - 1) % w = 0
  BY DEF RawFits
<1>3. k - 1 \in Int /\ off + (k - 1) = off + k - 1
  BY LenProperties
<1> HIDE DEF w
<1>4. Aligned(off, w)
  BY <1>1, Divides DEF Widths
<1>5. Aligned(off + (k - 1), w)
  BY <1>1, <1>2, <1>3, <1>4, Moved
<1> QED BY <1>3, <1>5 DEF w

\* Single bytes, anywhere.
LEMMA BytesInPlace ==
  ASSUME NEW off \in Nat, NEW bytes \in Seq(ByteCells),
         \A k \in DOMAIN bytes : bytes[k][1] \in DOMAIN Width => Width[bytes[k][1]] = 1
  PROVE  WriteInPlace([off |-> off, cells |-> bytes])
<1>1. \A k \in DOMAIN bytes : off + k - 1 \in Int
  BY LenProperties
<1> QED BY <1>1, CellsInPlace, Anywhere DEF InPlace

LEMMA FieldWriteInPlace ==
  ASSUME NEW obj, NEW name, NEW type, NEW fpos \in Nat, Aligned(fpos, FieldAlign(TypeAlign, type))
  PROVE  \A write \in FieldWrite(obj, name, Classify(type), fpos) : WriteInPlace(write)
<1> DEFINE class == Classify(type)
           v == Value(obj, name, "scalar", 0)
           bit == IF Value(obj, name, "bool", FALSE) THEN 1 ELSE 0
<1>1. /\ {"u8", "u32", "u64"} \subseteq DOMAIN Width
      /\ Width["u8"] = 1 /\ Width["u32"] = 4 /\ Width["u64"] = 8
  BY DEF Width
<1>2. CASE class = "scalar"
  <2>1. Aligned(fpos, 4)
    BY <1>2 DEF FieldAlign
  <2>2. FieldWrite(obj, name, class, fpos) = {[off |-> fpos, cells |-> Cells("u32", v)]}
    BY <1>2 DEF FieldWrite
  <2> QED BY <1>1, <2>1, <2>2, NumberInPlace
<1>3. CASE class = "scalar64"
  <2>1. Aligned(fpos, 8)
    BY <1>3 DEF FieldAlign
  <2>2. FieldWrite(obj, name, class, fpos) = {[off |-> fpos, cells |-> Cells("u64", v)]}
    BY <1>3 DEF FieldWrite
  <2> QED BY <1>1, <2>1, <2>2, NumberInPlace
<1>4. CASE class = "scalar8"
  <2>1. Aligned(fpos, 1)
    BY Anywhere
  <2>2. FieldWrite(obj, name, class, fpos) = {[off |-> fpos, cells |-> Cells("u8", v)]}
    BY <1>4 DEF FieldWrite
  <2> QED BY <1>1, <2>1, <2>2, NumberInPlace
<1>5. CASE class = "bool"
  <2>1. Aligned(fpos, 1)
    BY Anywhere
  <2>2. FieldWrite(obj, name, class, fpos) = {[off |-> fpos, cells |-> Cells("u8", bit)]}
    BY <1>5 DEF FieldWrite
  <2> QED BY <1>1, <2>1, <2>2, NumberInPlace
<1>6. CASE class \notin {"scalar", "scalar64", "scalar8", "bool"}
  BY <1>6 DEF FieldWrite
<1> QED BY <1>2, <1>3, <1>4, <1>5, <1>6

\* The item of a string, an array or a pointer, be it a field or an object.
LEMMA ContainerItemAligned ==
  ASSUME NEW obj, NEW name, NEW type, NEW fpos, Aligned(fpos, FieldAlign(TypeAlign, type)),
         Classify(type) = "array" => ElementsFit(objects, obj, name)
  PROVE  \A item \in ContainerItem(obj, name, Classify(type), fpos) : ItemAligned(objects, item)
<1> DEFINE class == Classify(type)
<1>1. class \in {"str", "array", "pointers", "offset"} => Aligned(fpos, 8)
  BY DEF FieldAlign
<1>2. CASE class = "str"
  BY <1>1, <1>2 DEF ContainerItem, Item, ItemAligned
<1>3. CASE class = "array"
  <2>1. ItemAligned(objects, ArrayItem(obj, name, fpos))
    BY <1>1, <1>3 DEF ArrayItem, Item, ItemAligned, ElementsFit
  <2> QED BY <1>3, <2>1 DEF ContainerItem
<1>4. CASE class = "pointers"
  BY <1>1, <1>4 DEF ContainerItem, Item, ItemAligned
<1>5. CASE class = "offset"
  BY <1>1, <1>5 DEF ContainerItem, Item, ItemAligned
<1>6. CASE class \notin {"str", "array", "pointers", "offset"}
  BY <1>6 DEF ContainerItem
<1> QED BY <1>2, <1>3, <1>4, <1>5, <1>6

\* An object embedded in a field.
LEMMA ChildAligned ==
  ASSUME NEW obj, NEW field, FieldFits(objects, obj, field),
         NEW off, Aligned(off, FieldAlign(TypeAlign, field.type))
  PROVE  EntryAligned(objects, [obj |-> FieldChild(objects, obj, field), off |-> off])
<1> DEFINE class == Classify(field.type)
           child == FieldChild(objects, obj, field)
           ids == ChildIds(obj, field.name)
<1>1. SUFFICES ASSUME child # 0 PROVE Aligned(off, Need(objects[child].type))
  BY DEF EntryAligned
<1>2. CASE IsContainer(field.type)
  <2>1. child = ReifiedChild(objects, obj, field.name)
    BY <1>2 DEF FieldChild, IsContainer
  <2>2. IsContainer(objects[child].type)
    BY <1>1, <2>1 DEF ReifiedChild
  <2>3. Need(objects[child].type) = 8
    BY <2>2 DEF IsContainer, Need, FieldAlign
  <2>4. FieldAlign(TypeAlign, field.type) = 8
    BY <1>2 DEF IsContainer, FieldAlign
  <2> QED BY <2>3, <2>4
<1>3. CASE class \in {"embed", "enum", "opaque"}
  <2>1. ~IsContainer(field.type)
    BY <1>3 DEF IsContainer
  <2>2. ids # <<>> /\ child = Index(objects, ids[1])
    BY <1>1, <1>3, <2>1 DEF FieldChild
  <2>3. objects[child].type = field.type
    BY <1>1, <1>3, <2>2 DEF FieldFits
  <2>4. Need(field.type) = FieldAlign(TypeAlign, field.type)
    BY <1>3, NeedOfField
  <2> QED BY <2>3, <2>4
<1>4. CASE ~IsContainer(field.type) /\ class \notin {"embed", "enum", "opaque"}
  BY <1>1, <1>4 DEF FieldChild
<1> QED BY <1>2, <1>3, <1>4

LEMMA ContentAligned ==
  ASSUME NaturalSchema, objects \in Seq(Objects), TypedGraph(objects),
         NEW o \in DOMAIN objects, NEW off \in Nat, Aligned(off, Need(objects[o].type))
  PROVE  /\ \A write \in Content(objects[o], off).writes : WriteInPlace(write)
         /\ \A item \in Content(objects[o], off).items : ItemAligned(objects, item)
         /\ \A i \in DOMAIN Content(objects[o], off).children :
              EntryAligned(objects, Content(objects[o], off).children[i])
<1> DEFINE obj == objects[o]
           type == obj.type
           class == Classify(type)
           raw == Value(obj, "#Raw", "bytes", <<>>)
           plain == class \in {"embed", "scalar", "scalar64", "scalar8", "bool", "offset"} /\ Known(type)
           fields == IF plain THEN Registry[type].fields ELSE <<>>
           fpos(i) == off + fields[i].offset
           child(i) == FieldChild(objects, obj, fields[i])
           inLine == [i \in DOMAIN fields |-> [obj |-> child(i), off |-> fpos(i)]]
           writes(i) == FieldWrite(obj, fields[i].name, Classify(fields[i].type), fpos(i))
           items(i) == ContainerItem(obj, fields[i].name, Classify(fields[i].type), fpos(i))
           content == Content(obj, off)
<1>1. obj \in Objects
  BY LenProperties, ElementOfSeq
<1>2. /\ Known(type) => \A i \in DOMAIN Registry[type].fields : FieldFits(objects, obj, Registry[type].fields[i])
      /\ class = "array" => ElementsFit(objects, obj, "m_elements")
      /\ class = "opaque" => \A k \in DOMAIN raw : raw[k][1] \in DOMAIN Width => Width[raw[k][1]] = 1
  BY DEF TypedGraph
<1>3. Aligned(off, Need(type))
  OBVIOUS
<1> HIDE DEF obj
<1>4. CASE class = "enum"
  <2>1. /\ content.writes = {[off |-> off, cells |-> Cells("u64", EnumHash(obj))]}
        /\ content.items = {} /\ content.children = <<>>
    BY <1>4 DEF Content
  <2>2. Need(type) = 8 /\ "u64" \in DOMAIN Width /\ Width["u64"] = 8
    BY <1>4 DEF Need, FieldAlign, Width
  <2> QED BY <1>3, <2>1, <2>2, NumberInPlace DEF obj
<1>5. CASE class = "opaque"
  <2>1. content.writes = {[off |-> off, cells |-> raw]} /\ content.items = {} /\ content.children = <<>>
    BY <1>5 DEF Content
  <2>2. raw \in Seq(ByteCells)
    BY <1>1, ValueTyped
  <2>3. WriteInPlace([off |-> off, cells |-> raw])
    BY <1>2, <1>5, <2>2, BytesInPlace
  <2> QED BY <2>1, <2>3 DEF obj
<1>6. CASE class \in {"str", "array", "pointers"}
  <2>1. PICK name \in {"m_value", "m_elements"} :
          /\ class = "array" => name = "m_elements"
          /\ content.writes = {} /\ content.items = ContainerItem(obj, name, class, off) /\ content.children = <<>>
    <3>1. CASE class = "str"
      BY <3>1 DEF Content
    <3>2. CASE class \in {"array", "pointers"}
      BY <3>2 DEF Content
    <3> QED BY <1>6, <3>1, <3>2
  <2>2. Aligned(off, FieldAlign(TypeAlign, type))
    BY <1>3, <1>6 DEF Need
  <2>3. \A item \in content.items : ItemAligned(objects, item)
    BY <1>2, <2>1, <2>2, ContainerItemAligned
  <2> QED BY <2>1, <2>3 DEF obj
<1>7. CASE class \notin {"enum", "opaque", "str", "array", "pointers"}
  <2>1. /\ content.writes = UNION {writes(i) : i \in DOMAIN fields}
        /\ content.items = UNION {items(i) : i \in {j \in DOMAIN fields : child(j) = 0}}
        /\ content.children = inLine
    BY <1>7 DEF Content
  <2>2. ASSUME NEW i \in DOMAIN fields
        PROVE  /\ fpos(i) \in Nat /\ Aligned(fpos(i), FieldAlign(TypeAlign, fields[i].type))
               /\ FieldFits(objects, obj, fields[i])
    <3>1. plain
      BY EmptySeq
    <3> QED BY <1>2, <1>3, <3>1, FieldsInPlace
  <2> HIDE DEF fields
  <2>3. \A i \in DOMAIN fields : \A write \in writes(i) : WriteInPlace(write)
    BY <2>2, FieldWriteInPlace
  <2>4. \A i \in DOMAIN fields : \A item \in items(i) : ItemAligned(objects, item)
    <3> SUFFICES ASSUME NEW i \in DOMAIN fields PROVE \A item \in items(i) : ItemAligned(objects, item)
      OBVIOUS
    <3>1. Classify(fields[i].type) = "array" => ElementsFit(objects, obj, fields[i].name)
      BY <2>2 DEF FieldFits
    <3> QED BY <2>2, <3>1, ContainerItemAligned
  <2>5. \A i \in DOMAIN fields : EntryAligned(objects, [obj |-> child(i), off |-> fpos(i)])
    BY <2>2, ChildAligned
  <2> HIDE DEF content
  <2>6. \A i \in DOMAIN content.children : EntryAligned(objects, content.children[i])
    BY <2>1, <2>5
  <2>7. \A write \in content.writes : WriteInPlace(write)
    BY <2>1, <2>3
  <2>8. \A item \in content.items : ItemAligned(objects, item)
    BY <2>1, <2>4
  <2> QED BY <2>6, <2>7, <2>8 DEF content, obj
<1> QED BY <1>4, <1>5, <1>6, <1>7

-----------------------------------------------------------------------------
(* Writing in line, numbers in place *)

\* What the steps may use of the invariant.
LEMMA AlignFacts ==
  ASSUME LayoutInv, AlignInv, Placing
  PROVE  /\ objects \in Seq(Objects) /\ TypedGraph(objects)
         /\ DOMAIN data = 1 .. Len(data) /\ NumbersAligned /\ LayoutTypeOK
         /\ FrameAligned(objects, Top)
         /\ \A i \in DOMAIN Top.todo : EntryAligned(objects, Top.todo[i])
         /\ RowAligned(objects, Top.row)
         /\ \A item \in Top.items : ItemAligned(objects, item)
         /\ WaitAligned(Top.wait)
<1>1. Len(frames) \in DOMAIN frames
  BY Facts, TopTyped, LenProperties
<1>2. FrameAligned(objects, Top)
  BY <1>1 DEF AlignInv, Top
<1> QED BY <1>2, Facts DEF AlignInv, FrameAligned, LayoutInv

\* The top call changes, and the blob.
LEMMA UpdateAligned ==
  ASSUME LayoutInv, AlignInv, Placing, UNCHANGED objects,
         NEW f, Update(f), FrameAligned(objects, f),
         (DOMAIN data = 1 .. Len(data) /\ NumbersAligned)'
  PROVE  AlignInv'
<1> DEFINE n == Len(frames)
<1>1. frames' = [frames EXCEPT ![n] = f]
  BY DEF Update
<1>2. \A k \in DOMAIN frames' : FrameAligned(objects, frames'[k])
  <2> HIDE DEF n
  <2>1. \A k \in DOMAIN frames' : k \in DOMAIN frames /\ (frames'[k] = f \/ frames'[k] = frames[k])
    BY <1>1
  <2> QED BY <2>1 DEF AlignInv
<1>3. TypedGraph(objects')
  BY DEF AlignInv
<1> QED BY <1>2, <1>3 DEF AlignInv

LEMMA InlineWriteAligned ==
  ASSUME NaturalSchema, LayoutInv, AlignInv, InlineWrite
  PROVE  AlignInv'
<1> DEFINE now == Head(Top.todo)
           obj == objects[now.obj]
           content == Content(obj, now.off)
           raw == IF Classify(obj.type) = "opaque" THEN Len(Value(obj, "#Raw", "bytes", <<>>)) ELSE 0
           end == now.off + Larger(SizeOf(obj.type), raw)
           todo == content.children \o Tail(Top.todo)
           f == [Top EXCEPT !.todo = content.children \o Tail(@), !.items = @ \cup content.items]
<1>1. /\ Placing /\ Top.todo # <<>> /\ now.obj # 0
      /\ data' = Written(data, end, content.writes)
      /\ Update(f)
      /\ UNCHANGED objects
  BY DEF InlineWrite
<1>2. /\ now \in Entries(objects) /\ Tail(Top.todo) \in Seq(Entries(objects))
      /\ Top.todo \in Seq(Entries(objects))
  BY <1>1, Facts, HeadAndTail
<1>3. now.obj \in DOMAIN objects /\ now.off \in Nat
  BY <1>1, <1>2 DEF Entries
<1>4. obj \in Objects
  BY <1>1, <1>3, Facts, LenProperties, ElementOfSeq
<1>5. /\ 1 \in DOMAIN Top.todo /\ now = Top.todo[1]
      /\ \A i \in DOMAIN Tail(Top.todo) : i + 1 \in DOMAIN Top.todo /\ Tail(Top.todo)[i] = Top.todo[i + 1]
  BY <1>1, <1>2, EmptySeq, LenProperties, HeadTailProperties
<1>6. Aligned(now.off, Need(obj.type))
  BY <1>1, <1>5, AlignFacts DEF EntryAligned
<1>7. /\ \A write \in content.writes : WriteInPlace(write)
      /\ \A item \in content.items : ItemAligned(objects, item)
      /\ \A i \in DOMAIN content.children : EntryAligned(objects, content.children[i])
  BY <1>1, <1>3, <1>6, AlignFacts, ContentAligned
<1>8. content.children \in Seq(Entries(objects))
  BY <1>1, <1>3, <1>4, Facts, ContentTyped
<1>9. end \in Nat
  <2>1. raw \in Nat
    BY <1>4, ValueTyped, LenProperties
  <2>2. SizeOf(obj.type) \in Nat
    BY SizesAndAlignments
  <2> HIDE DEF obj, raw
  <2> QED BY <1>3, <2>1, <2>2 DEF Larger
<1> HIDE DEF content, obj, end, now
<1>10. \A i \in DOMAIN todo : EntryAligned(objects, todo[i])
  <2> DEFINE c == content.children
             t == Tail(Top.todo)
             m == Len(content.children)
  <2>1. /\ m \in Nat /\ DOMAIN c = 1 .. m /\ DOMAIN t = 1 .. Len(t) /\ Len(t) \in Nat
        /\ todo \in Seq(Entries(objects)) /\ Len(todo) = m + Len(t) /\ DOMAIN todo = 1 .. Len(todo)
        /\ \A i \in 1 .. Len(todo) : todo[i] = IF i <= m THEN c[i] ELSE t[i - m]
    BY <1>2, <1>8, ConcatProperties, LenProperties
  <2>2. \A i \in DOMAIN t : EntryAligned(objects, t[i])
    BY <1>1, <1>5, AlignFacts
  <2> HIDE DEF t, c, m, todo
  <2> SUFFICES ASSUME NEW i \in DOMAIN todo PROVE EntryAligned(objects, todo[i])
    OBVIOUS
  <2>3. CASE i <= m
    <3>1. i \in DOMAIN c /\ todo[i] = c[i]
      BY <2>1, <2>3
    <3> QED BY <1>7, <3>1 DEF c
  <2>4. CASE ~(i <= m)
    <3>1. i - m \in DOMAIN t /\ todo[i] = t[i - m]
      BY <2>1, <2>4
    <3> QED BY <2>2, <3>1
  <2> QED BY <2>3, <2>4
<1>11. f.todo = todo /\ f.items = Top.items \cup content.items /\ f.row = Top.row /\ f.wait = Top.wait
  BY <1>1, Facts DEF Frames
<1> HIDE DEF todo, f
<1>12. \A item \in Top.items \cup content.items : ItemAligned(objects, item)
  BY <1>1, <1>7, AlignFacts
<1>13. FrameAligned(objects, f)
  BY <1>1, <1>10, <1>11, <1>12, AlignFacts DEF FrameAligned
<1>14. (DOMAIN data = 1 .. Len(data) /\ NumbersAligned)'
  BY <1>1, <1>7, <1>9, AlignFacts, WrittenInPlace
<1> QED BY <1>1, <1>13, <1>14, UpdateAligned

LEMMA BlobSame ==
  ASSUME AlignInv, UNCHANGED data
  PROVE  (DOMAIN data = 1 .. Len(data) /\ NumbersAligned)'
BY DEF AlignInv, NumbersAligned, InPlace

LEMMA SkipFieldAligned ==
  ASSUME LayoutInv, AlignInv, SkipField
  PROVE  AlignInv'
<1> DEFINE f == [Top EXCEPT !.todo = Tail(@)]
<1>1. Placing /\ Top.todo # <<>> /\ Update(f) /\ UNCHANGED <<objects, data>>
  BY DEF SkipField
<1>2. Top.todo \in Seq(Entries(objects))
  BY <1>1, Facts
<1>3. \A i \in DOMAIN Tail(Top.todo) : i + 1 \in DOMAIN Top.todo /\ Tail(Top.todo)[i] = Top.todo[i + 1]
  BY <1>1, <1>2, EmptySeq, LenProperties, HeadTailProperties
<1>4. f.todo = Tail(Top.todo) /\ f.items = Top.items /\ f.row = Top.row /\ f.wait = Top.wait
  BY <1>1, Facts DEF Frames
<1> HIDE DEF f
<1>5. FrameAligned(objects, f)
  BY <1>1, <1>3, <1>4, AlignFacts DEF FrameAligned
<1> QED BY <1>1, <1>5, BlobSame, UpdateAligned

LEMMA NextElementAligned ==
  ASSUME NaturalSchema, LayoutInv, AlignInv, NextElement
  PROVE  AlignInv'
<1> DEFINE ids == Top.row.ids
           id == Head(ids)
           at == Top.row.at
           type == ChildType(id)
           end == at + SizeOf(type)
           e == [obj |-> Child(id), off |-> at]
           row == [ids |-> Tail(ids), at |-> end]
           f == [Top EXCEPT !.todo = <<e>>, !.row = [ids |-> Tail(@.ids), at |-> end]]
<1>1. Placing /\ ids # <<>> /\ Update(f) /\ UNCHANGED <<objects, data>>
  BY DEF NextElement
<1>2. ids \in Seq(Nat) /\ at \in Nat /\ \A i \in DOMAIN ids : Index(objects, ids[i]) # 0
  BY <1>1, Facts DEF Rows
<1>3. SameType(objects, ids) /\ Aligned(at, Need(objects[Index(objects, ids[1])].type))
  BY <1>1, AlignFacts DEF RowAligned
<1>4. f.todo = <<e>> /\ f.row = row /\ f.items = Top.items /\ f.wait = Top.wait
  BY <1>1, Facts DEF Frames
<1> HIDE DEF f, ids, at
<1>5. /\ 1 \in DOMAIN ids /\ id = ids[1] /\ DOMAIN ids = 1 .. Len(ids) /\ Len(ids) \in Nat
      /\ \A i \in DOMAIN Tail(ids) : i + 1 \in DOMAIN ids /\ Tail(ids)[i] = ids[i + 1]
      /\ Tail(ids) # <<>> => 1 \in DOMAIN Tail(ids)
  BY <1>1, <1>2, EmptySeq, LenProperties, HeadTailProperties
<1>6. Aligned(at, Need(type)) /\ type = objects[Index(objects, ids[1])].type
  BY <1>3, <1>5 DEF ChildType, Child
<1>7. EntryAligned(objects, e)
  BY <1>6 DEF EntryAligned, ChildType
<1>8. SameType(objects, Tail(ids))
  BY <1>3, <1>5 DEF SameType
<1>9. ASSUME Tail(ids) # <<>> PROVE Aligned(end, Need(objects[Index(objects, Tail(ids)[1])].type))
  <2>1. 2 \in DOMAIN ids /\ Tail(ids)[1] = ids[2]
    BY <1>5, <1>9
  <2>2. Index(objects, ids[1]) # 0 /\ Index(objects, ids[2]) # 0
    BY <1>2, <1>5, <2>1
  <2>3. objects[Index(objects, ids[2])].type = objects[Index(objects, ids[1])].type
    BY <1>3, <1>5, <2>1, <2>2 DEF SameType
  <2>4. SizeOf(type) \in Nat /\ Need(type) \in Widths /\ SizeOf(type) % Need(type) = 0
    BY SizesAndAlignments, NeedWidth, SizeFits
  <2>5. Aligned(end, Need(type))
    BY <1>2, <1>6, <2>4, Moved
  <2> QED BY <1>6, <2>1, <2>3, <2>5
<1>10. RowAligned(objects, row)
  BY <1>8, <1>9 DEF RowAligned
<1> HIDE DEF e, row
<1>11. FrameAligned(objects, f)
  BY <1>1, <1>4, <1>7, <1>10, AlignFacts DEF FrameAligned
<1> QED BY <1>1, <1>11, BlobSame, UpdateAligned

-----------------------------------------------------------------------------
(* Items, numbers in place *)

LEMMA AlignItemFacts ==
  ASSUME LayoutInv, AlignInv, NEW item, IsNext(item)
  PROVE  /\ Placing /\ ItemAligned(objects, item) /\ Aligned(item.fpos, 8)
         /\ FrameAligned(objects, ItemDone(item))
         /\ ItemDone(item) \in Frames(objects)
<1>1. Placing /\ item \in Top.items /\ ItemDone(item) \in Frames(objects)
  BY ItemFacts DEF IsNext, InLineDone
<1>2. /\ ItemDone(item).todo = Top.todo /\ ItemDone(item).row = Top.row
      /\ ItemDone(item).items = Top.items \ {item} /\ ItemDone(item).wait = Top.wait
  BY <1>1, Facts DEF ItemDone, Frames
<1>3. ItemAligned(objects, item)
  BY <1>1, AlignFacts
<1>4. FrameAligned(objects, ItemDone(item))
  BY <1>1, <1>2, AlignFacts DEF FrameAligned
<1> QED BY <1>1, <1>3, <1>4 DEF ItemAligned

LEMMA PlaceStrAligned ==
  ASSUME LayoutInv, AlignInv, NEW item, PlaceStr(item)
  PROVE  AlignInv'
<1> DEFINE at == Larger(next, Len(data))
           chars == item.value
           cells == [i \in DOMAIN chars |-> <<"char", 1, chars[i]>>]
           end == at + Len(chars) + 1
           f == ItemDone(item)
           writes == Reference(item.fpos, at, Len(chars)) \cup {[off |-> at, cells |-> cells]}
<1>1. /\ IsNext(item) /\ item.kind = "str"
      /\ data' = Written(data, end, writes)
      /\ Update(f) /\ UNCHANGED objects
  BY DEF PlaceStr
<1>2. /\ Placing /\ item \in Items /\ item.fpos \in Nat /\ Aligned(item.fpos, 8)
      /\ FrameAligned(objects, f)
  BY <1>1, ItemFacts, ItemParts, AlignItemFacts
<1>3. chars \in Seq(STRING)
  BY <1>1, <1>2 DEF Items
<1>4. Len(chars) \in Nat /\ DOMAIN chars = 1 .. Len(chars)
  BY <1>3, LenProperties
<1>5. at \in Nat /\ end \in Nat
  BY <1>2, <1>4, Facts DEF Larger
<1> HIDE DEF at, end, f, chars
<1>6. WriteInPlace([off |-> at, cells |-> cells])
  <2> DEFINE E == {cells[i] : i \in 1 .. Len(chars)}
  <2>1. DOMAIN cells = 1 .. Len(chars) /\ cells = [i \in 1 .. Len(chars) |-> cells[i]]
    BY <1>4
  <2>2. \A k \in DOMAIN cells : cells[k][1] = "char"
    BY <1>4
  <2> HIDE DEF cells
  <2>3. cells \in Seq(E)
    BY <1>4, <2>1, SeqDef
  <2>4. Len(cells) = Len(chars)
    BY <1>4, <2>1, <2>3, LenProperties
  <2>5. \A k \in DOMAIN cells : at + k - 1 \in Int /\ Width[cells[k][1]] = 1
    BY <1>4, <1>5, <2>1, <2>2 DEF Width
  <2> QED BY <1>4, <1>5, <2>1, <2>4, <2>5, Anywhere DEF WriteInPlace, InPlace
<1>7. \A write \in writes : WriteInPlace(write)
  BY <1>2, <1>6, ReferenceInPlace
<1> HIDE DEF writes
<1>8. (DOMAIN data = 1 .. Len(data) /\ NumbersAligned)'
  BY <1>1, <1>2, <1>5, <1>7, AlignFacts, WrittenInPlace
<1> QED BY <1>1, <1>2, <1>8, UpdateAligned

LEMMA PlaceEmptyArrayAligned ==
  ASSUME LayoutInv, AlignInv, NEW item, PlaceEmptyArray(item)
  PROVE  AlignInv'
<1> DEFINE at == IF Reified(objects) THEN Cursor(8) ELSE item.fpos
           f == ItemDone(item)
<1>1. /\ IsNext(item) /\ data' = Written(data, item.fpos + 12, Reference(item.fpos, at, 0))
      /\ Update(f) /\ UNCHANGED objects
  BY DEF PlaceEmptyArray
<1>2. /\ Placing /\ item.fpos \in Nat /\ item.fpos + 12 \in Nat /\ Aligned(item.fpos, 8)
      /\ FrameAligned(objects, f)
  BY <1>1, ItemFacts, ItemParts, AlignItemFacts
<1> HIDE DEF at, f
<1>3. (DOMAIN data = 1 .. Len(data) /\ NumbersAligned)'
  BY <1>1, <1>2, AlignFacts, ReferenceInPlace, WrittenInPlace
<1> QED BY <1>1, <1>2, <1>3, UpdateAligned

LEMMA PlaceArrayAligned ==
  ASSUME NaturalSchema, LayoutInv, AlignInv, NEW item, PlaceArray(item)
  PROVE  AlignInv'
<1> DEFINE type == ChildType(item.value[1])
           first == Cursor(AlignOf(type))
           row == [ids |-> item.value, at |-> first]
           f == [ItemDone(item) EXCEPT !.row = row]
<1>1. /\ IsNext(item) /\ item.kind = "array"
      /\ data' = Written(data, item.fpos + 12, Reference(item.fpos, first, Len(item.value)))
      /\ Update(f) /\ UNCHANGED objects
  BY DEF PlaceArray
<1>2. /\ Placing /\ item.fpos \in Nat /\ item.fpos + 12 \in Nat /\ Aligned(item.fpos, 8)
      /\ FrameAligned(objects, ItemDone(item)) /\ ItemDone(item) \in Frames(objects)
      /\ SameType(objects, item.value)
  BY <1>1, ItemFacts, ItemParts, AlignItemFacts DEF ItemAligned
<1>3. Aligned(first, AlignOf(type)) /\ first \in Nat
  BY <1>2, Facts, NeedWidth, SizesAndAlignments, CursorAligned, CursorPastBlob
<1> HIDE DEF first
<1>4. Aligned(first, Need(type))
  BY <1>3, AlignedForNeed
<1>5. RowAligned(objects, row)
  BY <1>2, <1>4 DEF RowAligned, ChildType, Child
<1>6. /\ f.todo = ItemDone(item).todo /\ f.row = row
      /\ f.items = ItemDone(item).items /\ f.wait = ItemDone(item).wait
  BY <1>2 DEF Frames
<1> HIDE DEF f, row
<1>7. FrameAligned(objects, f)
  BY <1>2, <1>5, <1>6 DEF FrameAligned
<1>8. (DOMAIN data = 1 .. Len(data) /\ NumbersAligned)'
  BY <1>1, <1>2, AlignFacts, ReferenceInPlace, WrittenInPlace
<1> QED BY <1>1, <1>2, <1>7, <1>8, UpdateAligned

LEMMA PlaceRawArrayAligned ==
  ASSUME LayoutInv, AlignInv, NEW item, PlaceRawArray(item)
  PROVE  AlignInv'
<1> DEFINE at == Cursor(8)
           bytes == item.value.bytes
           end == Larger(item.fpos + 12, at + Len(bytes))
           f == ItemDone(item)
           writes == Reference(item.fpos, at, item.value.count) \cup {[off |-> at, cells |-> bytes]}
<1>1. /\ IsNext(item) /\ item.kind = "raw"
      /\ data' = Written(data, end, writes)
      /\ Update(f) /\ UNCHANGED objects
  BY DEF PlaceRawArray
<1>2. /\ Placing /\ item \in Items /\ item.fpos \in Nat /\ Aligned(item.fpos, 8)
      /\ FrameAligned(objects, f) /\ RawFits(bytes)
  BY <1>1, ItemFacts, ItemParts, AlignItemFacts DEF ItemAligned
<1>3. bytes \in Seq(ByteCells)
  BY <1>1, <1>2 DEF Items
<1>4. at \in Nat /\ Aligned(at, 8)
  BY <1>2, Facts, CursorPastBlob, CursorAligned DEF Widths
<1> HIDE DEF at, bytes, f
<1>5. end \in Nat
  BY <1>2, <1>3, <1>4, LenProperties DEF Larger
<1>6. \A write \in writes : WriteInPlace(write)
  BY <1>2, <1>3, <1>4, RawInPlace, ReferenceInPlace
<1> HIDE DEF writes, end
<1>7. (DOMAIN data = 1 .. Len(data) /\ NumbersAligned)'
  BY <1>1, <1>2, <1>5, <1>6, AlignFacts, WrittenInPlace
<1> QED BY <1>1, <1>2, <1>7, UpdateAligned

LEMMA BeginPointersAligned ==
  ASSUME LayoutInv, AlignInv, NEW item, BeginPointers(item)
  PROVE  AlignInv'
<1> DEFINE block == Cursor(8)
           end == block + 8 * Len(item.value)
           wait == [on |-> "pointers", fpos |-> item.fpos, block |-> block, ids |-> item.value,
                    left |-> Len(item.value), targets |-> [k \in DOMAIN item.value |-> 0]]
           f == [ItemDone(item) EXCEPT !.wait = wait]
<1>1. /\ IsNext(item) /\ item.kind = "pointers"
      /\ data' = Written(data, end, {}) /\ Update(f) /\ UNCHANGED objects
  BY DEF BeginPointers
<1>2. /\ Placing /\ item.fpos \in Nat /\ Aligned(item.fpos, 8) /\ item.value \in Seq(Nat)
      /\ FrameAligned(objects, ItemDone(item)) /\ ItemDone(item) \in Frames(objects)
  BY <1>1, ItemFacts, ItemParts, AlignItemFacts
<1>3. block \in Nat /\ Aligned(block, 8)
  BY <1>2, Facts, CursorPastBlob, CursorAligned DEF Widths
<1> HIDE DEF block
<1>4. end \in Nat
  BY <1>2, <1>3, LenProperties
<1>5. WaitAligned(wait)
  BY <1>2, <1>3 DEF WaitAligned
<1> HIDE DEF wait, end
<1>6. /\ f.todo = ItemDone(item).todo /\ f.row = ItemDone(item).row
      /\ f.items = ItemDone(item).items /\ f.wait = wait
  BY <1>2 DEF Frames
<1> HIDE DEF f
<1>7. FrameAligned(objects, f)
  BY <1>2, <1>5, <1>6 DEF FrameAligned
<1>8. (DOMAIN data = 1 .. Len(data) /\ NumbersAligned)'
  BY <1>1, <1>2, <1>4, AlignFacts, WrittenInPlace
<1> QED BY <1>1, <1>2, <1>7, <1>8, UpdateAligned

LEMMA OffsetInPlace ==
  ASSUME NEW fpos \in Nat, Aligned(fpos, 8), NEW v
  PROVE  WriteInPlace([off |-> fpos, cells |-> Cells("i32", v)])
<1>1. "i32" \in DOMAIN Width /\ Width["i32"] = 4
  BY DEF Width
<1>2. Aligned(fpos, 4)
  BY Divides DEF Widths
<1> QED BY <1>1, <1>2, NumberInPlace

LEMMA PlaceNothingAligned ==
  ASSUME LayoutInv, AlignInv, NEW item, PlaceNothing(item)
  PROVE  AlignInv'
<1> DEFINE f == ItemDone(item)
<1>1. /\ IsNext(item) /\ data' = Written(data, item.fpos + 4, {[off |-> item.fpos, cells |-> Cells("i32", 0)]})
      /\ Update(f) /\ UNCHANGED objects
  BY DEF PlaceNothing
<1>2. /\ Placing /\ item.fpos \in Nat /\ item.fpos + 4 \in Nat /\ Aligned(item.fpos, 8)
      /\ FrameAligned(objects, f)
  BY <1>1, ItemFacts, ItemParts, AlignItemFacts
<1> HIDE DEF f
<1>3. (DOMAIN data = 1 .. Len(data) /\ NumbersAligned)'
  BY <1>1, <1>2, AlignFacts, OffsetInPlace, WrittenInPlace
<1> QED BY <1>1, <1>2, <1>3, UpdateAligned

-----------------------------------------------------------------------------
(* Calls and returns, numbers in place *)

\* A new call, of an object that lies where it needs to.
LEMMA CallPlaceAligned ==
  ASSUME LayoutInv, AlignInv, Placing, NEW waiting, FrameAligned(objects, waiting),
         NEW id, NEW at, Aligned(at, Need(ChildType(id))), CallPlace(waiting, id, at)
  PROVE  AlignInv'
<1> DEFINE n == Len(frames)
           calling == [frames EXCEPT ![n] = waiting]
           e == [obj |-> Child(id), off |-> at]
           call == Call(<<e>>)
<1>1. frames' = Append(calling, call) /\ UNCHANGED <<objects, data>>
  BY DEF CallPlace
<1>2. FrameAligned(objects, call)
  <2>1. EntryAligned(objects, e)
    BY DEF EntryAligned, ChildType
  <2>2. RowAligned(objects, NoRow)
    BY DEF RowAligned, SameType, NoRow
  <2>3. WaitAligned(NotWaiting)
    BY DEF WaitAligned, NotWaiting
  <2> HIDE DEF e
  <2>4. call.todo = <<e>> /\ call.row = NoRow /\ call.items = {} /\ call.wait = NotWaiting
    BY DEF Call
  <2> HIDE DEF call
  <2> QED BY <2>1, <2>2, <2>3, <2>4 DEF FrameAligned
<1>3. n \in Nat /\ DOMAIN frames = 1 .. n
  BY Facts, TopTyped, LenProperties
<1>4. \A k \in DOMAIN frames : FrameAligned(objects, frames[k])
  BY DEF AlignInv
<1> HIDE DEF call
<1>5. /\ DOMAIN calling = 1 .. n
      /\ \A k \in 1 .. n : FrameAligned(objects, calling[k])
  <2> HIDE DEF n
  <2>1. DOMAIN calling = 1 .. n /\ \A k \in 1 .. n : calling[k] = waiting \/ calling[k] = frames[k]
    BY <1>3
  <2> HIDE DEF calling
  <2> QED BY <1>3, <1>4, <2>1
<1>6. calling \in Seq({calling[k] : k \in 1 .. n})
  <2>1. calling = [k \in 1 .. n |-> calling[k]]
    BY <1>3
  <2> HIDE DEF calling, n
  <2> QED BY <1>3, <2>1, SeqDef
<1> HIDE DEF calling
<1>7. Len(calling) = n
  BY <1>3, <1>5, <1>6, LenProperties
<1> HIDE DEF n
<1>8. \A k \in DOMAIN frames' : frames'[k] = call \/ \E j \in 1 .. n : frames'[k] = calling[j]
  <2> DEFINE S == {calling[k] : k \in 1 .. n} \cup {call}
  <2>1. calling \in Seq(S) /\ call \in S
    BY <1>3, <1>5, <1>6, <1>7
  <2> HIDE DEF S
  <2> QED BY <1>1, <1>3, <1>7, <2>1, AppendProperties, LenProperties
<1>9. \A k \in DOMAIN frames' : FrameAligned(objects, frames'[k])
  BY <1>2, <1>5, <1>8
<1>10. TypedGraph(objects')
  BY <1>1 DEF AlignInv
<1> QED BY <1>1, <1>9, <1>10, BlobSame DEF AlignInv

LEMMA BeginOffsetAligned ==
  ASSUME NaturalSchema, LayoutInv, AlignInv, NEW item, BeginOffset(item)
  PROVE  AlignInv'
<1> DEFINE id == item.value[1]
           type == ChildType(id)
           at == Cursor(AlignOf(type))
           wait == [on |-> "offset", fpos |-> item.fpos, at |-> at]
           f == [ItemDone(item) EXCEPT !.wait = wait]
<1>1. IsNext(item) /\ CallPlace(f, id, at)
  BY DEF BeginOffset
<1>2. /\ Placing /\ Aligned(item.fpos, 8)
      /\ FrameAligned(objects, ItemDone(item)) /\ ItemDone(item) \in Frames(objects)
  BY <1>1, AlignItemFacts
<1>3. Aligned(at, AlignOf(type)) /\ at \in Nat
  BY <1>2, Facts, NeedWidth, SizesAndAlignments, CursorAligned, CursorPastBlob
<1> HIDE DEF at
<1>4. Aligned(at, Need(type))
  BY <1>3, AlignedForNeed
<1>5. WaitAligned(wait)
  BY <1>2 DEF WaitAligned
<1> HIDE DEF wait, id
<1>6. /\ f.todo = ItemDone(item).todo /\ f.row = ItemDone(item).row
      /\ f.items = ItemDone(item).items /\ f.wait = wait
  BY <1>2 DEF Frames
<1> HIDE DEF f
<1>7. FrameAligned(objects, f)
  BY <1>2, <1>5, <1>6 DEF FrameAligned
<1> QED BY <1>1, <1>2, <1>4, <1>7, CallPlaceAligned

LEMMA PlaceTargetAligned ==
  ASSUME NaturalSchema, LayoutInv, AlignInv, PlaceTarget
  PROVE  AlignInv'
<1> DEFINE w == Top.wait
           id == w.ids[w.left]
           type == ChildType(id)
           at == Cursor(AlignOf(type))
           placed == [w.targets EXCEPT ![w.left] = at]
           wait == [w EXCEPT !.left = w.left - 1, !.targets = placed]
           f == [Top EXCEPT !.wait = wait]
<1>1. InLineDone /\ w.on = "pointers" /\ CallPlace(f, id, at)
  BY DEF PlaceTarget
<1>2. Placing /\ Top \in Frames(objects) /\ w \in PointerWaits
  BY <1>1, WaitFacts
<1>3. Aligned(at, AlignOf(type)) /\ at \in Nat
  BY <1>2, Facts, NeedWidth, SizesAndAlignments, CursorAligned, CursorPastBlob
<1> HIDE DEF at, placed, id
<1>4. Aligned(at, Need(type))
  BY <1>3, AlignedForNeed
<1>5. wait.on = w.on /\ wait.fpos = w.fpos /\ wait.block = w.block
  BY <1>2 DEF PointerWaits
<1>6. WaitAligned(w)
  BY <1>2, AlignFacts
<1>7. WaitAligned(wait)
  BY <1>5, <1>6 DEF WaitAligned
<1> HIDE DEF wait
<1>8. f.todo = Top.todo /\ f.row = Top.row /\ f.items = Top.items /\ f.wait = wait
  BY <1>2 DEF Frames
<1> HIDE DEF f
<1>9. FrameAligned(objects, f)
  BY <1>2, <1>7, <1>8, AlignFacts DEF FrameAligned
<1> QED BY <1>1, <1>2, <1>4, <1>9, CallPlaceAligned

\* The call that waited goes on.
LEMMA WaitOverAligned ==
  ASSUME LayoutInv, AlignInv, Placing
  PROVE  FrameAligned(objects, [Top EXCEPT !.wait = NotWaiting])
<1> DEFINE f == [Top EXCEPT !.wait = NotWaiting]
<1>1. f.todo = Top.todo /\ f.row = Top.row /\ f.items = Top.items /\ f.wait = NotWaiting
  BY Facts DEF Frames
<1>2. WaitAligned(NotWaiting)
  BY DEF WaitAligned, NotWaiting
<1> HIDE DEF f
<1>3. FrameAligned(objects, f)
  BY <1>1, <1>2, AlignFacts DEF FrameAligned
<1> QED BY <1>3 DEF f

LEMMA EndPointersAligned ==
  ASSUME LayoutInv, AlignInv, EndPointers
  PROVE  AlignInv'
<1> DEFINE w == Top.wait
           f == [Top EXCEPT !.wait = NotWaiting]
           slot(j) == [off |-> Slot(w.block, j), cells |-> Cells("i64", w.targets[j] - Slot(w.block, j))]
           writes == {slot(j) : j \in DOMAIN w.ids} \cup Reference(w.fpos, w.block, Len(w.ids))
<1>1. /\ InLineDone /\ w.on = "pointers"
      /\ data' = Written(data, w.fpos + 12, writes)
      /\ Update(f) /\ UNCHANGED objects
  BY DEF EndPointers
<1>2. Placing /\ w.fpos \in Nat /\ w.fpos + 12 \in Nat /\ w.block \in Nat /\ w.ids \in Seq(Nat)
  BY <1>1, WaitFacts
<1>3. Aligned(w.fpos, 8) /\ Aligned(w.block, 8)
  BY <1>1, <1>2, AlignFacts DEF WaitAligned
<1>4. \A j \in DOMAIN w.ids : WriteInPlace(slot(j))
  <2> SUFFICES ASSUME NEW j \in DOMAIN w.ids PROVE WriteInPlace(slot(j))
    OBVIOUS
  <2>1. j \in Nat /\ j >= 1
    BY <1>2, LenProperties
  <2>2. Slot(w.block, j) \in Nat /\ Aligned(Slot(w.block, j), 8)
    <3> DEFINE b == w.block
    <3>1. b \in Nat /\ Aligned(b, 8)
      BY <1>2, <1>3
    <3> HIDE DEF b
    <3>2. Slot(b, j) \in Nat /\ Aligned(Slot(b, j), 8)
      BY <2>1, <3>1, SMT DEF Slot, Aligned, RfciFileOffset
    <3> QED BY <3>2 DEF b
  <2>3. "i64" \in DOMAIN Width /\ Width["i64"] = 8
    BY DEF Width
  <2> QED BY <2>2, <2>3, NumberInPlace
<1> HIDE DEF f, w
<1>5. \A write \in writes : WriteInPlace(write)
  BY <1>2, <1>3, <1>4, ReferenceInPlace
<1> HIDE DEF writes
<1>6. (DOMAIN data = 1 .. Len(data) /\ NumbersAligned)'
  BY <1>1, <1>2, <1>5, AlignFacts, WrittenInPlace
<1>7. FrameAligned(objects, f)
  BY <1>2, WaitOverAligned DEF f
<1> QED BY <1>1, <1>2, <1>6, <1>7, UpdateAligned

LEMMA EndOffsetAligned ==
  ASSUME LayoutInv, AlignInv, EndOffset
  PROVE  AlignInv'
<1> DEFINE w == Top.wait
           f == [Top EXCEPT !.wait = NotWaiting]
<1>1. /\ InLineDone /\ w.on = "offset"
      /\ data' = Written(data, w.fpos + 4, {[off |-> w.fpos, cells |-> Cells("i32", w.at - w.fpos)]})
      /\ Update(f) /\ UNCHANGED objects
  BY DEF EndOffset
<1>2. Placing /\ w.fpos \in Nat /\ w.fpos + 4 \in Nat
  BY <1>1, WaitFacts
<1>3. Aligned(w.fpos, 8)
  BY <1>1, <1>2, AlignFacts DEF WaitAligned
<1> HIDE DEF f, w
<1>4. (DOMAIN data = 1 .. Len(data) /\ NumbersAligned)'
  BY <1>1, <1>2, <1>3, AlignFacts, OffsetInPlace, WrittenInPlace
<1>5. FrameAligned(objects, f)
  BY <1>2, WaitOverAligned DEF f
<1> QED BY <1>1, <1>2, <1>4, <1>5, UpdateAligned

LEMMA ReturnAligned ==
  ASSUME LayoutInv, AlignInv, Return
  PROVE  AlignInv'
<1> DEFINE n == Len(frames)
<1>1. InLineDone /\ frames' = SubSeq(frames, 1, n - 1) /\ UNCHANGED <<objects, data>>
  BY DEF Return
<1>2. n \in Nat /\ n \in 1 .. n /\ DOMAIN frames = 1 .. n /\ frames \in Seq(Frames(objects))
  BY <1>1, Facts, TopTyped, LenProperties DEF InLineDone
<1> HIDE DEF n
<1>3. \A k \in DOMAIN frames' : k \in DOMAIN frames /\ frames'[k] = frames[k]
  <2>1. n - 1 \in Int /\ 1 \in Int /\ \A k \in 1 .. n - 1 : frames[k] \in Frames(objects)
    BY <1>2, ElementOfSeq DEF n
  <2>2. /\ SubSeq(frames, 1, n - 1) \in Seq(Frames(objects))
        /\ Len(SubSeq(frames, 1, n - 1)) = IF 1 <= n - 1 THEN n - 1 - 1 + 1 ELSE 0
        /\ \A k \in 1 .. n - 1 - 1 + 1 : SubSeq(frames, 1, n - 1)[k] = frames[1 + k - 1]
    BY <2>1, SubSeqProperties
  <2>3. DOMAIN frames' = 1 .. n - 1
    BY <1>1, <1>2, <2>2, LenProperties
  <2>4. \A k \in 1 .. n - 1 : k \in 1 .. n - 1 - 1 + 1 /\ 1 + k - 1 = k
    BY <1>2
  <2> QED BY <1>1, <1>2, <2>2, <2>3, <2>4
<1>4. TypedGraph(objects') /\ \A k \in DOMAIN frames' : FrameAligned(objects, frames'[k])
  BY <1>1, <1>3 DEF AlignInv
<1> QED BY <1>1, <1>4, BlobSame DEF AlignInv

LEMMA SameAligned ==
  ASSUME AlignInv, UNCHANGED <<objects, data, frames>>
  PROVE  AlignInv'
BY BlobSame DEF AlignInv

-----------------------------------------------------------------------------
(* The theorem of the numbers *)

LEMMA AlignStarts ==
  ASSUME NaturalSchema, GraphsTyped, LayoutInit
  PROVE  AlignInv
<1> DEFINE e == [obj |-> Root(objects), off |-> RfciPrefix]
           call == Call(<<e>>)
<1>1. /\ objects \in Graphs /\ data = Written(<<>>, RfciPrefix, {}) /\ frames = <<call>> /\ LayoutInv
  BY LayoutStarts DEF LayoutInit, FirstData, FirstCall
<1>2. TypedGraph(objects)
  BY <1>1 DEF GraphsTyped
<1>3. DOMAIN data = 1 .. Len(data) /\ NumbersAligned
  <2> DEFINE n == Larger(Len(<<>>), RfciPrefix)
  <2>1. n = 4
    BY DEF Larger, RfciPrefix
  <2>2. data = [p \in 1 .. 4 |-> Zero]
    BY <1>1, <2>1 DEF Written
  <2>3. DOMAIN data = 1 .. 4 /\ \A p \in 1 .. 4 : data[p] = Zero
    BY <2>2
  <2>4. data \in Seq({Zero})
    BY <2>2, SeqDef
  <2>5. Len(data) = 4
    BY <2>3, <2>4, LenProperties
  <2>6. Zero[1] \notin DOMAIN Width
    BY DEF Zero, Width
  <2>7. \A p \in DOMAIN data : InPlace(data[p], p - 1)
    BY <2>3, <2>6 DEF InPlace
  <2> QED BY <2>3, <2>5, <2>7 DEF NumbersAligned
<1>4. FrameAligned(objects, call)
  <2>1. Aligned(RfciPrefix, 8) /\ RfciPrefix \in Int
    BY DEF Aligned, RfciPrefix, RfciFileOffset
  <2>2. \A type : Aligned(RfciPrefix, Need(type))
    <3> TAKE type
    <3>1. Need(type) \in Widths /\ Need(type) <= 8 /\ 8 \in Widths
      BY NeedWidth DEF Widths
    <3> QED BY <2>1, <3>1, Divides
  <2>3. EntryAligned(objects, e)
    BY <2>2 DEF EntryAligned
  <2>4. RowAligned(objects, NoRow)
    BY DEF RowAligned, SameType, NoRow
  <2>5. WaitAligned(NotWaiting)
    BY DEF WaitAligned, NotWaiting
  <2> HIDE DEF e
  <2>6. call.todo = <<e>> /\ call.row = NoRow /\ call.items = {} /\ call.wait = NotWaiting
    BY DEF Call
  <2> HIDE DEF call
  <2> QED BY <2>3, <2>4, <2>5, <2>6 DEF FrameAligned
<1> HIDE DEF call
<1>5. \A k \in DOMAIN frames : FrameAligned(objects, frames[k])
  BY <1>1, <1>4
<1> QED BY <1>2, <1>3, <1>5 DEF AlignInv

LEMMA AlignStepKeeps ==
  ASSUME NaturalSchema, LayoutInv, AlignInv, [LayoutNext]_layoutVars
  PROVE  AlignInv'
<1>1. CASE InlineWrite
  BY <1>1, InlineWriteAligned
<1>2. CASE SkipField
  BY <1>2, SkipFieldAligned
<1>3. CASE NextElement
  BY <1>3, NextElementAligned
<1>4. CASE PlaceItem
  <2>1. PICK item : \/ PlaceStr(item) \/ PlaceEmptyArray(item) \/ PlaceArray(item) \/ PlaceRawArray(item)
                    \/ BeginPointers(item) \/ PlaceNothing(item) \/ BeginOffset(item) \/ MissingChild(item)
    BY <1>4 DEF PlaceItem
  <2>2. CASE MissingChild(item)
    BY <2>2, SameAligned DEF MissingChild
  <2> QED BY <2>1, <2>2, PlaceStrAligned, PlaceEmptyArrayAligned, PlaceArrayAligned, PlaceRawArrayAligned,
             BeginPointersAligned, PlaceNothingAligned, BeginOffsetAligned
<1>5. CASE PlaceTarget
  BY <1>5, PlaceTargetAligned
<1>6. CASE EndPointers
  BY <1>6, EndPointersAligned
<1>7. CASE EndOffset
  BY <1>7, EndOffsetAligned
<1>8. CASE Return
  BY <1>8, ReturnAligned
<1>9. CASE UNCHANGED layoutVars
  BY <1>9, SameAligned DEF layoutVars
<1> QED BY <1>1, <1>2, <1>3, <1>4, <1>5, <1>6, <1>7, <1>8, <1>9 DEF LayoutNext

\* Every number of a blob is on its own alignment in the file, for every schema
\* laid out as a compiler lays structures out and every graph of objects of the
\* types their fields have (reflect_write.rs, align_file and its callers).
THEOREM NumbersAreAligned ==
  ASSUME NaturalSchema, GraphsTyped
  PROVE  LayoutSpec => []NumbersAligned
<1>1. LayoutInit => AlignInv
  BY AlignStarts
<1>2. LayoutInv /\ AlignInv /\ [LayoutNext]_layoutVars => AlignInv'
  BY AlignStepKeeps
<1>3. AlignInv => NumbersAligned
  BY DEF AlignInv
<1> QED BY <1>1, <1>2, <1>3, LayoutInvariant, PTL DEF LayoutSpec

-----------------------------------------------------------------------------
(* The tables *)

Entry(o, off) == [obj |-> o, off |-> off]

\* What the call on top is to write next.
Coming == IF frames = <<>> THEN <<>> ELSE Top.todo

\* An object has been written at its place, or it is written next: nothing
\* leaves the list of a call unwritten.
Reached(placed, coming, e) ==
    (\E n \in DOMAIN placed : placed[n] = e) \/ (\E n \in DOMAIN coming : coming[n] = e)

Orders(objs) == Seq([obj : DOMAIN objs, off : Nat])
PointerRecords(objs) == Seq([at : Nat, target : DOMAIN objs, off : Nat])

NotRoot(objs, ids) == \A i \in DOMAIN ids : ids[i] # objs[Root(objs)].id

ItemApart(objs, item) == item.kind \in {"array", "pointers", "offset"} => NotRoot(objs, item.value)

\* The targets of a row of slots that are done: those behind the next one.
WaitReached(objs, placed, coming, wait) ==
    wait.on = "pointers" =>
        /\ NotRoot(objs, wait.ids)
        /\ DOMAIN wait.targets = DOMAIN wait.ids
        /\ \A j \in DOMAIN wait.ids :
             wait.left < j => Reached(placed, coming, Entry(Index(objs, wait.ids[j]), wait.targets[j]))

TargetInv ==
    /\ Root(objects) # 0 /\ RootApart(objects)
    /\ order \in Orders(objects)
    /\ pointers \in PointerRecords(objects)
    /\ Reached(order, Coming, Entry(Root(objects), RfciPrefix))
    /\ \A i \in DOMAIN pointers :
         /\ Reached(order, Coming, Entry(pointers[i].target, pointers[i].off))
         /\ objects[pointers[i].target].id # objects[Root(objects)].id
    /\ \A k \in DOMAIN frames :
         /\ WaitReached(objects, order, Coming, frames[k].wait)
         /\ \A item \in frames[k].items : ItemApart(objects, item)
    /\ status = "placed" => frames = <<>>

BlockEnd(wait) == wait.block + 8 * Len(wait.ids)

\* No reference begins from one place of the blob to another, and none will:
\* noted are the pointers in the blob, calls those that may still fill slots.
Clear(noted, from, to) ==
    \A i \in DOMAIN noted : noted[i].at < RfciFileOffset + from \/ RfciFileOffset + to <= noted[i].at
Apart(wait, from, to) == wait.on = "pointers" => to <= wait.block \/ BlockEnd(wait) <= from
Free(noted, calls, from, to) ==
    Clear(noted, from, to) /\ \A k \in DOMAIN calls : Apart(calls[k].wait, from, to)

NoReference(cells) == \A k \in DOMAIN cells : cells[k][1] # "i64"

ItemRoom(item) == IF item.kind = "offset" THEN 4 ELSE 12

EntryFree(objs, noted, calls, e) == e.obj # 0 => Free(noted, calls, e.off, e.off + SizeOf(objs[e.obj].type))
RowFree(noted, calls, row) == row.ids # <<>> => \A n \in Nat : Free(noted, calls, row.at, row.at + n)
ItemFree(noted, calls, len, item) ==
    /\ Free(noted, calls, item.fpos, item.fpos + ItemRoom(item)) /\ item.fpos + ItemRoom(item) <= len
    /\ item.kind = "raw" => NoReference(item.value.bytes)
WaitFree(noted, calls, len, wait) ==
    /\ wait.on = "offset" => Free(noted, calls, wait.fpos, wait.fpos + 4) /\ wait.fpos + 4 <= len
    /\ wait.on = "pointers" =>
         /\ Free(noted, calls, wait.fpos, wait.fpos + 12) /\ wait.fpos + 12 <= len
         /\ Clear(noted, wait.block, BlockEnd(wait)) /\ BlockEnd(wait) <= len

FrameFree(objs, noted, calls, len, f) ==
    /\ \A i \in DOMAIN f.todo : EntryFree(objs, noted, calls, f.todo[i])
    /\ RowFree(noted, calls, f.row)
    /\ \A item \in f.items : ItemFree(noted, calls, len, item)
    /\ WaitFree(noted, calls, len, f.wait)

BlocksApart(calls) ==
    \A k, l \in DOMAIN calls : k # l /\ calls[k].wait.on = "pointers" =>
        Apart(calls[l].wait, calls[k].wait.block, BlockEnd(calls[k].wait))

\* The references in the blob are the pointers noted, each where it was noted.
SlotsExact(blob, noted) ==
    /\ DOMAIN blob = 1 .. Len(blob)
    /\ \A i \in DOMAIN noted :
         LET place == noted[i].at - RfciFileOffset
         IN /\ place \in 0 .. Len(blob) - 1
            /\ blob[place + 1] = <<"i64", 1, noted[i].off - place>>
    /\ \A p \in 1 .. Len(blob) :
         blob[p][1] = "i64" /\ blob[p][2] = 1 => \E i \in DOMAIN noted : noted[i].at = RfciFileOffset + p - 1
    /\ \A i, j \in DOMAIN noted : noted[i].at = noted[j].at => i = j

SlotInv ==
    /\ RoomyGraph(objects)
    /\ SlotsExact(data, pointers)
    /\ BlocksApart(frames)
    /\ \A k \in DOMAIN frames : FrameFree(objects, pointers, frames, Len(data), frames[k])

\* A write that begins no reference and goes over none.
WriteClear(noted, write) ==
    /\ write.off \in Nat
    /\ Len(write.cells) \in Nat /\ DOMAIN write.cells = 1 .. Len(write.cells)
    /\ NoReference(write.cells)
    /\ Clear(noted, write.off, write.off + Len(write.cells))

\* The slots of the calls are those they had before.
SameBlocks(calls, after) ==
    \A k \in DOMAIN after :
        after[k].wait.on = "pointers" =>
            /\ k \in DOMAIN calls /\ calls[k].wait.on = "pointers"
            /\ after[k].wait.block = calls[k].wait.block /\ after[k].wait.ids = calls[k].wait.ids

Covers(write, p) == write.off < p /\ p <= write.off + Len(write.cells)
Covering(writes, p) == CHOOSE write \in writes : Covers(write, p)

-----------------------------------------------------------------------------
(* Everything is reached *)

\* What was written or is written next stays so.
KeepsReached ==
    \A o, off : o # 0 /\ Reached(order, Coming, Entry(o, off)) => Reached(order', Coming', Entry(o, off))

LEMMA NothingLost ==
  ASSUME frames # <<>>, Top.todo = <<>>, order' = order
  PROVE  KeepsReached
<1>1. DOMAIN Coming = {}
  BY DEF Coming
<1> QED BY <1>1 DEF KeepsReached, Reached

\* How the calls change when the top one does.
LEMMA CallsAfter ==
  ASSUME LayoutInv, Placing, NEW f \in Frames(objects), Update(f)
  PROVE  /\ Len(frames) \in Nat /\ Len(frames) \in DOMAIN frames
         /\ DOMAIN frames = 1 .. Len(frames) /\ DOMAIN frames' = DOMAIN frames
         /\ \A k \in DOMAIN frames : frames'[k] = IF k = Len(frames) THEN f ELSE frames[k]
         /\ Top = frames[Len(frames)] /\ Coming = Top.todo /\ Coming' = f.todo
         /\ \A k \in DOMAIN frames : frames[k] \in Frames(objects) /\ frames[k].wait \in Waits(objects)
<1> DEFINE n == Len(frames)
<1>1. /\ frames # <<>> /\ frames \in Seq(Frames(objects)) /\ n \in Nat /\ n \in 1 .. n
      /\ frames' = [frames EXCEPT ![n] = f]
  BY Facts, TopTyped DEF Update
<1>2. DOMAIN frames = 1 .. n
  BY <1>1, LenProperties
<1>3. /\ frames' \in Seq(Frames(objects)) /\ Len(frames') = n
      /\ \A k \in 1 .. n : frames'[k] = IF k = n THEN f ELSE frames[k]
  BY <1>1, ExceptSeq
<1>4. DOMAIN frames' = 1 .. n
  BY <1>1, <1>2
<1>5. Top' = f /\ frames' # <<>>
  BY <1>1, <1>3, EmptySeq DEF Top
<1>6. \A k \in 1 .. n : frames[k] \in Frames(objects)
  BY <1>1, ElementOfSeq
<1>7. \A g \in Frames(objects) : g.wait \in Waits(objects)
  BY DEF Frames
<1>8. Coming = Top.todo /\ Coming' = f.todo
  BY <1>1, <1>5 DEF Coming
<1> QED BY <1>1, <1>2, <1>3, <1>4, <1>6, <1>7, <1>8 DEF Top

LEMMA WaitReachedKept ==
  ASSUME KeepsReached, NEW wait \in Waits(objects), WaitReached(objects, order, Coming, wait)
  PROVE  WaitReached(objects, order', Coming', wait)
<1>1. wait.on = "pointers" => \A i \in DOMAIN wait.ids : Index(objects, wait.ids[i]) # 0
  BY DEF Waits, PointerWaits, NotWaiting
<1> QED BY <1>1 DEF WaitReached, KeepsReached

\* A step that changes the top call and notes no pointer.
LEMMA TargetStep ==
  ASSUME LayoutInv, TargetInv, Placing, UNCHANGED objects, NEW f \in Frames(objects), Update(f),
         KeepsReached, order' \in Orders(objects), pointers' = pointers, status' = status,
         WaitReached(objects, order', Coming', f.wait),
         \A item \in f.items : ItemApart(objects, item)
  PROVE  TargetInv'
<1>1. /\ DOMAIN frames' = DOMAIN frames
      /\ \A k \in DOMAIN frames : frames'[k] = IF k = Len(frames) THEN f ELSE frames[k]
      /\ \A k \in DOMAIN frames : frames[k].wait \in Waits(objects)
  BY CallsAfter
<1>2. \A k \in DOMAIN frames' :
        /\ WaitReached(objects, order', Coming', frames'[k].wait)
        /\ \A item \in frames'[k].items : ItemApart(objects, item)
  <2> SUFFICES ASSUME NEW k \in DOMAIN frames
               PROVE  /\ WaitReached(objects, order', Coming', frames'[k].wait)
                      /\ \A item \in frames'[k].items : ItemApart(objects, item)
    BY <1>1
  <2>1. CASE k = Len(frames)
    BY <1>1, <2>1
  <2>2. CASE k # Len(frames)
    <3>1. WaitReached(objects, order, Coming, frames[k].wait) /\ \A item \in frames[k].items : ItemApart(objects, item)
      BY DEF TargetInv
    <3>2. frames'[k] = frames[k] /\ frames[k].wait \in Waits(objects)
      BY <1>1, <2>2
    <3> QED BY <3>1, <3>2, WaitReachedKept
  <2> QED BY <2>1, <2>2
<1>3. Root(objects) # 0 /\ Reached(order, Coming, Entry(Root(objects), RfciPrefix))
  BY DEF TargetInv
<1>4. Reached(order', Coming', Entry(Root(objects), RfciPrefix))
  BY <1>3 DEF KeepsReached
<1>5. ASSUME NEW i \in DOMAIN pointers
      PROVE  /\ Reached(order', Coming', Entry(pointers[i].target, pointers[i].off))
             /\ objects[pointers[i].target].id # objects[Root(objects)].id
  <2>1. /\ Reached(order, Coming, Entry(pointers[i].target, pointers[i].off))
        /\ objects[pointers[i].target].id # objects[Root(objects)].id
    BY DEF TargetInv
  <2>2. pointers[i].target # 0
    <3>1. pointers[i] \in [at : Nat, target : DOMAIN objects, off : Nat]
      BY LenProperties, ElementOfSeq DEF TargetInv, PointerRecords
    <3>2. DOMAIN objects = 1 .. Len(objects)
      BY Facts, LenProperties
    <3> QED BY <3>1, <3>2
  <2> QED BY <2>1, <2>2 DEF KeepsReached
<1>6. status' # "placed"
  BY DEF Placing
<1>7. RootApart(objects) /\ pointers \in PointerRecords(objects)
  BY DEF TargetInv
<1> QED BY <1>2, <1>3, <1>4, <1>5, <1>6, <1>7 DEF TargetInv

\* What the fields of an object refer to is not the root.
LEMMA ListedNotRoot ==
  ASSUME objects \in Seq(Objects), Root(objects) # 0, RootApart(objects), NEW o \in DOMAIN objects, NEW name
  PROVE  NotRoot(objects, ChildIds(objects[o], name))
<1> DEFINE obj == objects[o]
           k == PropAt(obj, name)
<1>1. CASE ~HasValue(obj, name, "children")
  BY <1>1 DEF ChildIds, Value, NotRoot
<1>2. CASE HasValue(obj, name, "children")
  <2>1. obj \in Objects
    BY LenProperties, ElementOfSeq
  <2>2. k # 0 /\ obj.props[k][2].is = "children" /\ ChildIds(obj, name) = obj.props[k][2].v
    BY <1>2 DEF HasValue, ChildIds, Value
  <2>3. k \in DOMAIN obj.props
    BY <2>1, <2>2, PropFound
  <2> HIDE DEF k
  <2>4. \A i \in DOMAIN obj.props[k][2].v : obj.props[k][2].v[i] # objects[Root(objects)].id
    BY <2>2, <2>3 DEF RootApart
  <2> QED BY <2>2, <2>4 DEF NotRoot
<1> QED BY <1>1, <1>2

LEMMA ContainerItemApart ==
  ASSUME objects \in Seq(Objects), Root(objects) # 0, RootApart(objects), NEW o \in DOMAIN objects,
         NEW name, NEW class, NEW fpos,
         NEW item \in ContainerItem(objects[o], name, class, fpos)
  PROVE  ItemApart(objects, item)
<1>1. NotRoot(objects, ChildIds(objects[o], name))
  BY ListedNotRoot
<1>2. item.kind \in {"array", "pointers", "offset"} => item.value = ChildIds(objects[o], name)
  BY DEF ContainerItem, ArrayItem, Item
<1> QED BY <1>1, <1>2 DEF ItemApart

LEMMA ContentApart ==
  ASSUME objects \in Seq(Objects), Root(objects) # 0, RootApart(objects), NEW o \in DOMAIN objects, NEW off,
         NEW item \in Content(objects[o], off).items
  PROVE  ItemApart(objects, item)
<1>1. \E name, class, fpos : item \in ContainerItem(objects[o], name, class, fpos)
  BY DEF Content
<1> QED BY <1>1, ContainerItemApart

-----------------------------------------------------------------------------
(* The steps *)

LEMMA InlineWriteReaches ==
  ASSUME LayoutInv, TargetInv, InlineWrite
  PROVE  TargetInv'
<1> DEFINE now == Head(Top.todo)
           obj == objects[now.obj]
           content == Content(obj, now.off)
           f == [Top EXCEPT !.todo = content.children \o Tail(@), !.items = @ \cup content.items]
<1>1. /\ Placing /\ Top.todo # <<>> /\ now.obj # 0
      /\ order' = Append(order, now)
      /\ Update(f)
      /\ UNCHANGED <<objects, pointers, status>>
  BY DEF InlineWrite
<1>2. /\ now \in Entries(objects) /\ Tail(Top.todo) \in Seq(Entries(objects))
  BY <1>1, Facts, HeadAndTail
<1>3. now.obj \in DOMAIN objects /\ now.off \in Nat
  BY <1>1, <1>2 DEF Entries
<1>4. obj \in Objects
  BY <1>1, <1>3, Facts, LenProperties, ElementOfSeq
<1>5. content.items \subseteq Items /\ content.children \in Seq(Entries(objects))
  BY <1>1, <1>3, <1>4, Facts, ContentTyped
<1>6. \A item \in content.items : ItemApart(objects, item)
  BY <1>1, <1>3, Facts, ContentApart DEF TargetInv
<1> HIDE DEF content, obj
<1>7. content.children \o Tail(Top.todo) \in Seq(Entries(objects))
  BY <1>2, <1>5, ConcatProperties
<1>8. f \in Frames(objects) /\ f.wait = Top.wait /\ f.todo = content.children \o Tail(Top.todo)
      /\ f.items = Top.items \cup content.items
  BY <1>1, <1>5, <1>7, Facts DEF Frames
<1> HIDE DEF f
<1>9. Coming = Top.todo /\ Coming' = f.todo
  BY <1>1, <1>8, CallsAfter
<1>10. order \in Orders(objects) /\ now \in [obj : DOMAIN objects, off : Nat]
  BY <1>2, <1>3 DEF TargetInv, Entries
<1>11. /\ order' \in Orders(objects) /\ Len(order) \in Nat /\ DOMAIN order = 1 .. Len(order)
       /\ DOMAIN order' = 1 .. Len(order) + 1
       /\ \A n \in 1 .. Len(order) : order'[n] = order[n]
       /\ order'[Len(order) + 1] = now
  BY <1>1, <1>10, AppendProperties, LenProperties DEF Orders
<1>12. ASSUME NEW n \in DOMAIN Top.todo, Top.todo[n] # now
       PROVE  \E m \in DOMAIN f.todo : f.todo[m] = Top.todo[n]
  <2>1. /\ Top.todo \in Seq(Entries(objects)) /\ Len(Top.todo) \in Nat /\ DOMAIN Top.todo = 1 .. Len(Top.todo)
        /\ now = Top.todo[1]
    BY <1>1, Facts, LenProperties
  <2>2. n # 1 /\ n \in 1 .. Len(Top.todo)
    BY <1>12, <2>1
  <2>3. /\ Len(Tail(Top.todo)) = Len(Top.todo) - 1
        /\ \A i \in 1 .. Len(Tail(Top.todo)) : Tail(Top.todo)[i] = Top.todo[i + 1]
    BY <1>1, <2>1, HeadTailProperties
  <2> DEFINE c == Len(content.children)
             m == c + n - 1
  <2>4. c \in Nat
    BY <1>5, LenProperties
  <2> HIDE DEF c
  <2>5. /\ Len(f.todo) = c + Len(Tail(Top.todo)) /\ DOMAIN f.todo = 1 .. Len(f.todo)
        /\ \A i \in 1 .. Len(f.todo) : i > c => f.todo[i] = Tail(Top.todo)[i - c]
    <3> DEFINE s == content.children
               t == Tail(Top.todo)
    <3>1. s \in Seq(Entries(objects)) /\ t \in Seq(Entries(objects)) /\ f.todo = s \o t /\ c = Len(s)
      BY <1>2, <1>5, <1>8 DEF c
    <3> HIDE DEF s, t
    <3>2. /\ Len(s \o t) = Len(s) + Len(t) /\ s \o t \in Seq(Entries(objects))
          /\ \A i \in 1 .. Len(s) + Len(t) : (s \o t)[i] = IF i <= Len(s) THEN s[i] ELSE t[i - Len(s)]
      BY <3>1, ConcatProperties
    <3>3. DOMAIN (s \o t) = 1 .. Len(s \o t)
      BY <3>2, LenProperties
    <3>4. \A i \in 1 .. Len(s \o t) : i > c => i \in 1 .. Len(s) + Len(t) /\ ~(i <= Len(s))
      BY <2>4, <3>1, <3>2
    <3>5. \A i \in 1 .. Len(s \o t) : i > c => (s \o t)[i] = t[i - c]
      BY <3>1, <3>2, <3>4
    <3> QED BY <3>1, <3>2, <3>3, <3>5 DEF t
  <2>6. m \in 1 .. Len(f.todo) /\ m > c /\ m - c = n - 1 /\ n - 1 \in 1 .. Len(Tail(Top.todo)) /\ n - 1 + 1 = n
    BY <2>1, <2>2, <2>3, <2>4, <2>5
  <2>7. f.todo[m] = Top.todo[n]
    BY <2>3, <2>5, <2>6
  <2> QED BY <2>5, <2>6, <2>7
<1>13. KeepsReached
  <2> SUFFICES ASSUME NEW e, Reached(order, Coming, e)
               PROVE  Reached(order', Coming', e)
    BY DEF KeepsReached
  <2>1. CASE e = now
    BY <1>11, <2>1 DEF Reached
  <2>2. CASE \E n \in DOMAIN order : order[n] = e
    <3>1. \A n \in 1 .. Len(order) : n \in 1 .. Len(order) + 1
      BY <1>11
    <3> QED BY <1>11, <2>2, <3>1 DEF Reached
  <2>3. CASE e # now /\ \E n \in DOMAIN Top.todo : Top.todo[n] = e
    BY <1>9, <1>12, <2>3 DEF Reached
  <2> QED BY <1>9, <2>1, <2>2, <2>3 DEF Reached
<1>14. WaitReached(objects, order', Coming', f.wait) /\ \A item \in f.items : ItemApart(objects, item)
  <2>1. /\ WaitReached(objects, order, Coming, Top.wait) /\ \A item \in Top.items : ItemApart(objects, item)
        /\ Top.wait \in Waits(objects)
    BY <1>1, <1>8, Facts, CallsAfter DEF TargetInv
  <2>2. WaitReached(objects, order', Coming', Top.wait)
    BY <1>13, <2>1, WaitReachedKept
  <2> QED BY <1>6, <1>8, <2>1, <2>2
<1> QED BY <1>1, <1>8, <1>11, <1>13, <1>14, TargetStep

\* What the invariant says of the top call.
LEMMA TopReached ==
  ASSUME LayoutInv, TargetInv, Placing
  PROVE  /\ WaitReached(objects, order, Coming, Top.wait) /\ Top.wait \in Waits(objects)
         /\ \A item \in Top.items : ItemApart(objects, item)
         /\ Coming = Top.todo /\ order \in Orders(objects)
<1>1. /\ frames # <<>> /\ Len(frames) \in DOMAIN frames /\ Top = frames[Len(frames)] /\ Top.wait \in Waits(objects)
  BY Facts, TopTyped, LenProperties DEF Top
<1> QED BY <1>1 DEF TargetInv, Coming

LEMMA SkipFieldReaches ==
  ASSUME LayoutInv, TargetInv, SkipField
  PROVE  TargetInv'
<1> DEFINE s == Top.todo
           f == [Top EXCEPT !.todo = Tail(@)]
<1>1. /\ Placing /\ s # <<>> /\ Head(s).obj = 0 /\ Update(f)
      /\ UNCHANGED <<objects, order, pointers, status>>
  BY DEF SkipField
<1>2. s \in Seq(Entries(objects)) /\ Tail(s) \in Seq(Entries(objects))
  BY <1>1, Facts, HeadAndTail
<1>3. f \in Frames(objects) /\ f.wait = Top.wait /\ f.items = Top.items /\ f.todo = Tail(s)
  BY <1>1, <1>2, Facts DEF Frames
<1> HIDE DEF f, s
<1>4. Coming = s /\ Coming' = Tail(s)
  BY <1>1, <1>3, CallsAfter DEF s
<1>5. ASSUME NEW n \in DOMAIN s, s[n].obj # 0
      PROVE  \E m \in DOMAIN Tail(s) : Tail(s)[m] = s[n]
  <2>1. /\ Len(s) \in Nat /\ DOMAIN s = 1 .. Len(s) /\ Head(s) = s[1]
        /\ Len(Tail(s)) = Len(s) - 1 /\ DOMAIN Tail(s) = 1 .. Len(Tail(s))
        /\ \A i \in 1 .. Len(Tail(s)) : Tail(s)[i] = s[i + 1]
    BY <1>1, <1>2, HeadTailProperties, LenProperties
  <2>2. n - 1 \in 1 .. Len(Tail(s)) /\ n - 1 + 1 = n
    BY <1>1, <1>5, <2>1
  <2>3. Tail(s)[n - 1] = s[n]
    BY <2>1, <2>2
  <2> QED BY <2>1, <2>2, <2>3
<1>6. KeepsReached
  BY <1>1, <1>4, <1>5 DEF KeepsReached, Reached, Entry
<1>7. WaitReached(objects, order', Coming', f.wait) /\ \A item \in f.items : ItemApart(objects, item)
  BY <1>1, <1>3, <1>6, TopReached, WaitReachedKept
<1> QED BY <1>1, <1>3, <1>6, <1>7, TopReached, TargetStep

\* A step of a call that has nothing left to write in line.
LEMMA IdleReaches ==
  ASSUME LayoutInv, TargetInv, Placing, Top.todo = <<>>, UNCHANGED <<objects, order, pointers, status>>,
         NEW f \in Frames(objects), Update(f), f.items \subseteq Top.items,
         f.wait = Top.wait \/ WaitReached(objects, order', Coming', f.wait)
  PROVE  TargetInv'
<1>1. KeepsReached
  BY Facts, NothingLost
<1>2. WaitReached(objects, order', Coming', f.wait)
  BY <1>1, TopReached, WaitReachedKept
<1> QED BY <1>1, <1>2, TopReached, TargetStep

\* The type of what a call became is known from the invariant.
LEMMA CallTyped ==
  ASSUME LayoutInv, LayoutInv', Placing, UNCHANGED objects, NEW f, Update(f)
  PROVE  f \in Frames(objects)
<1> DEFINE n == Len(frames)
<1>1. /\ frames \in Seq(Frames(objects)) /\ n \in 1 .. n /\ DOMAIN frames = 1 .. n
      /\ frames' = [frames EXCEPT ![n] = f]
  BY Facts, TopTyped, LenProperties DEF Update
<1>2. frames' \in Seq(Frames(objects)) /\ DOMAIN frames' = 1 .. n /\ frames'[n] = f
  BY <1>1 DEF LayoutInv, LayoutTypeOK
<1> HIDE DEF n
<1>3. frames'[n] \in Frames(objects)
  BY <1>1, <1>2, LenProperties, ElementOfSeq
<1> QED BY <1>2, <1>3

LEMMA ItemsReach ==
  ASSUME LayoutInv, TargetInv, NEW item,
         \/ PlaceStr(item) \/ PlaceEmptyArray(item) \/ PlaceArray(item) \/ PlaceRawArray(item) \/ PlaceNothing(item)
  PROVE  TargetInv'
<1>1. IsNext(item) /\ UNCHANGED <<objects, order, pointers, status>>
  BY DEF PlaceStr, PlaceEmptyArray, PlaceArray, PlaceRawArray, PlaceNothing
<1>2. /\ Placing /\ Top.todo = <<>> /\ ItemDone(item) \in Frames(objects)
  BY <1>1, ItemFacts DEF IsNext, InLineDone
<1>3. ItemDone(item).items = Top.items \ {item} /\ ItemDone(item).wait = Top.wait
  BY <1>2, Facts DEF ItemDone, Frames
<1>4. CASE PlaceArray(item)
  <2> DEFINE first == Cursor(AlignOf(ChildType(item.value[1])))
             row == [ids |-> item.value, at |-> first]
             f == [ItemDone(item) EXCEPT !.row = row]
  <2>1. Update(f) /\ item.kind = "array" /\ Found(item.value)
    BY <1>4 DEF PlaceArray
  <2>2. item.value \in Seq(Nat)
    BY <1>1, <2>1, ItemFacts, ItemParts
  <2>3. first \in Nat
    BY <1>2, Facts, SizesAndAlignments, CursorPastBlob
  <2> HIDE DEF first
  <2>4. row \in Rows(objects)
    BY <2>1, <2>2, <2>3 DEF Rows, Found
  <2>5. f \in Frames(objects) /\ f.items = Top.items \ {item} /\ f.wait = Top.wait
    BY <1>2, <1>3, <2>4 DEF Frames
  <2> HIDE DEF f
  <2> QED BY <1>1, <1>2, <2>1, <2>5, IdleReaches
<1>5. CASE ~PlaceArray(item)
  <2>1. Update(ItemDone(item))
    BY <1>5 DEF PlaceStr, PlaceEmptyArray, PlaceRawArray, PlaceNothing
  <2> QED BY <1>1, <1>2, <1>3, <2>1, IdleReaches
<1> QED BY <1>4, <1>5

LEMMA NextElementReaches ==
  ASSUME LayoutInv, TargetInv, NextElement
  PROVE  TargetInv'
<1> DEFINE id == Head(Top.row.ids)
           at == Top.row.at
           end == at + SizeOf(ChildType(id))
           f == [Top EXCEPT !.todo = <<[obj |-> Child(id), off |-> at]>>, !.row = [ids |-> Tail(@.ids), at |-> end]]
<1>1. Placing /\ Top.todo = <<>> /\ Update(f) /\ UNCHANGED <<objects, order, pointers, status>>
  BY DEF NextElement
<1>2. f \in Frames(objects)
  BY <1>1, NextElementKeeps, CallTyped
<1>3. f.items = Top.items /\ f.wait = Top.wait
  BY <1>1, Facts DEF Frames
<1> HIDE DEF f
<1> QED BY <1>1, <1>2, <1>3, IdleReaches

LEMMA BeginPointersReaches ==
  ASSUME LayoutInv, TargetInv, NEW item, BeginPointers(item)
  PROVE  TargetInv'
<1> DEFINE block == Cursor(8)
           n == Len(item.value)
           wait == [on |-> "pointers", fpos |-> item.fpos, block |-> block, ids |-> item.value,
                    left |-> n, targets |-> [k \in DOMAIN item.value |-> 0]]
           f == [ItemDone(item) EXCEPT !.wait = wait]
<1>1. IsNext(item) /\ item.kind = "pointers" /\ Update(f) /\ UNCHANGED <<objects, order, pointers, status>>
  BY DEF BeginPointers
<1>2. Placing /\ Top.todo = <<>> /\ ItemDone(item) \in Frames(objects) /\ item \in Top.items /\ item.value \in Seq(Nat)
  BY <1>1, ItemFacts, ItemParts DEF IsNext, InLineDone
<1>3. f \in Frames(objects)
  BY <1>1, <1>2, BeginPointersKeeps, CallTyped
<1>4. f.items \subseteq Top.items /\ f.wait = wait
  BY <1>2, Facts DEF ItemDone, Frames
<1>5. NotRoot(objects, item.value)
  BY <1>1, <1>2, TopReached DEF ItemApart
<1>6. DOMAIN item.value = 1 .. n /\ n \in Nat
  BY <1>2, LenProperties
<1>7. \A j \in DOMAIN item.value : ~(n < j)
  BY <1>6
<1>8. WaitReached(objects, order', Coming', wait)
  BY <1>5, <1>7 DEF WaitReached
<1> HIDE DEF f, wait
<1> QED BY <1>1, <1>2, <1>3, <1>4, <1>8, IdleReaches

\* The calls after another one is made.
LEMMA CallPlaced ==
  ASSUME LayoutInv, Placing, NEW waiting \in Frames(objects), NEW id, NEW at \in Nat, CallPlace(waiting, id, at)
  PROVE  LET n == Len(frames)
             call == Call(<<Entry(Child(id), at)>>)
         IN /\ n \in Nat /\ n \in 1 .. n /\ DOMAIN frames = 1 .. n /\ frames # <<>> /\ frames' # <<>>
            /\ Len(frames') = n + 1 /\ DOMAIN frames' = 1 .. n + 1 /\ frames'[n + 1] = call
            /\ \A k \in 1 .. n : frames'[k] = IF k = n THEN waiting ELSE frames[k]
<1> DEFINE n == Len(frames)
           call == Call(<<Entry(Child(id), at)>>)
           changed == [frames EXCEPT ![n] = waiting]
<1>1. frames' = Append(changed, call)
  BY DEF CallPlace, Entry
<1>2. frames # <<>> /\ frames \in Seq(Frames(objects)) /\ n \in Nat /\ n \in 1 .. n /\ DOMAIN frames = 1 .. n
  BY Facts, TopTyped, LenProperties
<1>3. /\ changed \in Seq(Frames(objects)) /\ Len(changed) = n
      /\ \A k \in 1 .. n : changed[k] = IF k = n THEN waiting ELSE frames[k]
  BY <1>2, ExceptSeq
<1> HIDE DEF changed
<1>4. call \in Frames(objects)
  <2>1. Entry(Child(id), at) \in Entries(objects)
    BY Facts, IndexFound DEF Entries, Entry, Child
  <2>2. NoRow \in Rows(objects) /\ NotWaiting \in Waits(objects)
    BY DEF NoRow, Rows, Waits
  <2> QED BY <2>1, <2>2 DEF Call, Frames
<1> HIDE DEF call
<1>5. /\ frames' \in Seq(Frames(objects)) /\ Len(frames') = n + 1 /\ frames'[n + 1] = call
      /\ \A k \in 1 .. n : frames'[k] = changed[k]
  BY <1>1, <1>3, <1>4, AppendProperties
<1>6. DOMAIN frames' = 1 .. n + 1
  BY <1>5, LenProperties
<1>7. frames' # <<>>
  <2>1. n + 1 # 0
    BY <1>2
  <2> QED BY <1>5, <2>1, EmptySeq
<1> QED BY <1>2, <1>3, <1>5, <1>6, <1>7 DEF call

\* A call made by one that has nothing left to write in line.
LEMMA CallPlaceReaches ==
  ASSUME LayoutInv, TargetInv, Placing, Top.todo = <<>>,
         NEW waiting \in Frames(objects), waiting.items \subseteq Top.items,
         NEW id, NEW at \in Nat, CallPlace(waiting, id, at),
         WaitReached(objects, order, <<Entry(Child(id), at)>>, waiting.wait)
  PROVE  TargetInv'
<1> DEFINE n == Len(frames)
           call == Call(<<Entry(Child(id), at)>>)
<1>1. UNCHANGED <<objects, order, pointers, status>>
  BY DEF CallPlace
<1>2. frames \in Seq(Frames(objects))
  BY Facts
<1>3. /\ n \in Nat /\ n \in 1 .. n /\ DOMAIN frames = 1 .. n /\ frames # <<>> /\ frames' # <<>>
      /\ Len(frames') = n + 1 /\ DOMAIN frames' = 1 .. n + 1 /\ frames'[n + 1] = call
      /\ \A k \in 1 .. n : frames'[k] = IF k = n THEN waiting ELSE frames[k]
  BY CallPlaced
<1>4. call.todo = <<Entry(Child(id), at)>> /\ call.items = {} /\ call.wait = NotWaiting
  BY DEF Call
<1> HIDE DEF call
<1>5. Coming = <<>> /\ Coming' = <<Entry(Child(id), at)>>
  BY <1>3, <1>4 DEF Coming, Top
<1>6. KeepsReached
  BY <1>1, <1>5 DEF KeepsReached, Reached
<1>7. WaitReached(objects, order', Coming', NotWaiting)
  BY DEF WaitReached, NotWaiting
<1> HIDE DEF n
<1>8. \A k \in DOMAIN frames' :
        /\ WaitReached(objects, order', Coming', frames'[k].wait)
        /\ \A item \in frames'[k].items : ItemApart(objects, item)
  <2> SUFFICES ASSUME NEW k \in 1 .. n + 1
               PROVE  /\ WaitReached(objects, order', Coming', frames'[k].wait)
                      /\ \A item \in frames'[k].items : ItemApart(objects, item)
    BY <1>3
  <2>1. CASE k = n + 1
    BY <1>4, <1>3, <1>7, <2>1
  <2>2. CASE k = n
    <3>1. frames'[k] = waiting
      BY <1>3, <2>2
    <3>2. WaitReached(objects, order', Coming', waiting.wait)
      BY <1>1, <1>5
    <3> QED BY <3>1, <3>2, TopReached
  <2>3. CASE k \in 1 .. n - 1
    <3>1. frames'[k] = frames[k] /\ k \in DOMAIN frames /\ k \in 1 .. n
      BY <1>3, <2>3
    <3>2. WaitReached(objects, order, Coming, frames[k].wait) /\ \A item \in frames[k].items : ItemApart(objects, item)
      BY <3>1 DEF TargetInv
    <3>3. frames[k].wait \in Waits(objects)
      <4>1. frames[k] \in Frames(objects)
        BY <1>2, <3>1, ElementOfSeq
      <4> QED BY <4>1 DEF Frames
    <3> QED BY <1>6, <3>1, <3>2, <3>3, WaitReachedKept
  <2>4. k = n + 1 \/ k = n \/ k \in 1 .. n - 1
    BY <1>3
  <2> QED BY <2>1, <2>2, <2>3, <2>4
<1>9. Root(objects) # 0 /\ Reached(order', Coming', Entry(Root(objects), RfciPrefix))
  BY <1>6 DEF TargetInv, KeepsReached
<1>10. ASSUME NEW i \in DOMAIN pointers
       PROVE  /\ Reached(order', Coming', Entry(pointers[i].target, pointers[i].off))
              /\ objects[pointers[i].target].id # objects[Root(objects)].id
  BY <1>1, <1>5 DEF TargetInv, Reached
<1>11. status' # "placed"
  BY <1>1 DEF Placing
<1>12. RootApart(objects) /\ pointers \in PointerRecords(objects) /\ order \in Orders(objects)
  BY DEF TargetInv
<1> QED BY <1>1, <1>8, <1>9, <1>10, <1>11, <1>12 DEF TargetInv

LEMMA BeginOffsetReaches ==
  ASSUME LayoutInv, TargetInv, NEW item, BeginOffset(item)
  PROVE  TargetInv'
<1> DEFINE id == item.value[1]
           at == Cursor(AlignOf(ChildType(id)))
           wait == [on |-> "offset", fpos |-> item.fpos, at |-> at]
           f == [ItemDone(item) EXCEPT !.wait = wait]
<1>1. IsNext(item) /\ item.kind = "offset" /\ CallPlace(f, id, at)
  BY DEF BeginOffset
<1>2. /\ Placing /\ Top.todo = <<>> /\ ItemDone(item) \in Frames(objects) /\ item.fpos \in Nat
  BY <1>1, ItemFacts, ItemParts DEF IsNext, InLineDone
<1>3. at \in Nat
  BY <1>2, Facts, SizesAndAlignments, CursorPastBlob
<1> HIDE DEF at, id
<1>4. wait \in Waits(objects)
  BY <1>2, <1>3 DEF Waits
<1>5. WaitReached(objects, order, <<Entry(Child(id), at)>>, wait)
  BY DEF WaitReached
<1> HIDE DEF wait
<1>6. f \in Frames(objects) /\ f.items \subseteq Top.items /\ f.wait = wait
  BY <1>2, <1>4, Facts DEF Frames, ItemDone
<1> HIDE DEF f
<1> QED BY <1>1, <1>2, <1>3, <1>5, <1>6, CallPlaceReaches

LEMMA PlaceTargetReaches ==
  ASSUME LayoutInv, TargetInv, PlaceTarget
  PROVE  TargetInv'
<1> DEFINE w == Top.wait
           k == w.left
           id == w.ids[k]
           at == Cursor(AlignOf(ChildType(id)))
           placed == [w.targets EXCEPT ![k] = at]
           wait == [w EXCEPT !.left = k - 1, !.targets = placed]
           f == [Top EXCEPT !.wait = wait]
           coming == <<Entry(Child(id), at)>>
<1>1. InLineDone /\ w.on = "pointers" /\ k > 0 /\ CallPlace(f, id, at)
  BY DEF PlaceTarget
<1>2. /\ Placing /\ Top \in Frames(objects) /\ Top.todo = <<>>
      /\ w.ids \in Seq(Nat) /\ k \in Nat /\ w.targets \in Seq(Nat) /\ k <= Len(w.ids)
      /\ \A i \in DOMAIN w.ids : Index(objects, w.ids[i]) # 0
      /\ w \in PointerWaits
  BY <1>1, WaitFacts
<1>3. at \in Nat
  BY <1>2, Facts, SizesAndAlignments, CursorPastBlob
<1>4. /\ NotRoot(objects, w.ids) /\ DOMAIN w.targets = DOMAIN w.ids
      /\ \A j \in DOMAIN w.ids : k < j => Reached(order, Coming, Entry(Index(objects, w.ids[j]), w.targets[j]))
  BY <1>1, <1>2, TopReached DEF WaitReached
<1>5. DOMAIN w.ids = 1 .. Len(w.ids) /\ Len(w.ids) \in Nat
  BY <1>2, LenProperties
<1>6. Coming = <<>>
  BY <1>2, TopReached
<1> HIDE DEF at
<1>7. placed \in Seq(Nat) /\ DOMAIN placed = DOMAIN w.targets
      /\ \A j \in DOMAIN w.targets : placed[j] = IF j = k THEN at ELSE w.targets[j]
  BY <1>2, <1>3, ChangedSeq
<1> HIDE DEF placed
<1>8. /\ wait.on = "pointers" /\ wait.ids = w.ids /\ wait.left = k - 1 /\ wait.targets = placed
      /\ wait \in PointerWaits
  <2>1. k - 1 \in Nat
    BY <1>1, <1>2
  <2> QED BY <1>1, <1>2, <1>7, <2>1 DEF PointerWaits
<1> HIDE DEF wait
<1>9. wait \in Waits(objects)
  <2>1. wait.left <= Len(wait.ids)
    BY <1>2, <1>5, <1>8
  <2> QED BY <1>2, <1>8, <2>1 DEF Waits
<1>10. ASSUME NEW j \in DOMAIN w.ids, k - 1 < j
       PROVE  Reached(order, coming, Entry(Index(objects, w.ids[j]), placed[j]))
  <2>1. CASE j = k
    <3>1. Entry(Index(objects, w.ids[j]), placed[j]) = coming[1] /\ 1 \in DOMAIN coming
      BY <1>4, <1>7, <2>1 DEF Child
    <3> HIDE DEF coming
    <3> QED BY <3>1 DEF Reached
  <2>2. CASE j # k
    <3>1. k < j
      BY <1>2, <1>5, <1>10, <2>2
    <3>2. Reached(order, <<>>, Entry(Index(objects, w.ids[j]), placed[j]))
      BY <1>4, <1>6, <1>7, <2>2, <3>1
    <3>3. \E n \in DOMAIN order : order[n] = Entry(Index(objects, w.ids[j]), placed[j])
      BY <3>2 DEF Reached
    <3> QED BY <3>3 DEF Reached
  <2> QED BY <2>1, <2>2
<1> HIDE DEF coming
<1>11. WaitReached(objects, order, coming, wait)
  BY <1>4, <1>7, <1>8, <1>10 DEF WaitReached
<1>12. f = [Top EXCEPT !.wait = wait]
  BY DEF wait
<1> HIDE DEF f
<1>13. f \in Frames(objects) /\ f.items = Top.items /\ f.wait = wait
  BY <1>2, <1>9, <1>12 DEF Frames
<1>14. CallPlace(f, id, at)
  BY <1>1, <1>12 DEF f, wait, placed, at
<1> QED BY <1>2, <1>3, <1>11, <1>13, <1>14, CallPlaceReaches DEF coming

\* What EndPointers notes.
Filled(wait) ==
    [j \in DOMAIN wait.ids |-> [at |-> RfciFileOffset + Slot(wait.block, j), target |-> Child(wait.ids[j]),
                                off |-> wait.targets[j]]]

\* The records it adds, one by one.
LEMMA PointersAfter ==
  ASSUME LayoutInv, TargetInv, EndPointers
  PROVE  LET w == Top.wait
         IN /\ pointers' \in PointerRecords(objects) /\ pointers' = pointers \o Filled(w)
            /\ Len(pointers) \in Nat /\ DOMAIN pointers = 1 .. Len(pointers)
            /\ Len(w.ids) \in Nat /\ DOMAIN w.ids = 1 .. Len(w.ids)
            /\ DOMAIN pointers' = 1 .. Len(pointers) + Len(w.ids)
            /\ \A i \in DOMAIN pointers : pointers'[i] = pointers[i]
            /\ \A j \in DOMAIN w.ids :
                 /\ pointers'[Len(pointers) + j] = Filled(w)[j]
                 /\ w.block \in Nat /\ w.targets[j] \in Nat /\ Index(objects, w.ids[j]) \in DOMAIN objects
<1> DEFINE w == Top.wait
           filled == Filled(w)
           m == Len(w.ids)
           n == Len(pointers)
           P == [at : Nat, target : DOMAIN objects, off : Nat]
<1>1. InLineDone /\ w.on = "pointers" /\ pointers' = pointers \o filled
  BY DEF EndPointers, Filled
<1>2. /\ Placing /\ w.block \in Nat /\ w.ids \in Seq(Nat) /\ w.targets \in Seq(Nat)
      /\ \A i \in DOMAIN w.ids : Index(objects, w.ids[i]) # 0
  BY <1>1, WaitFacts
<1>3. DOMAIN w.targets = DOMAIN w.ids
  BY <1>1, <1>2, TopReached DEF WaitReached
<1>4. m \in Nat /\ DOMAIN w.ids = 1 .. m /\ \A j \in DOMAIN w.ids : w.targets[j] \in Nat
  BY <1>2, <1>3, LenProperties, ElementOfSeq
<1>5. \A j \in DOMAIN w.ids : Index(objects, w.ids[j]) \in DOMAIN objects
  BY <1>2, Facts, IndexFound
<1>6. \A j \in DOMAIN w.ids : filled[j] \in P
  <2> SUFFICES ASSUME NEW j \in DOMAIN w.ids PROVE filled[j] \in P
    OBVIOUS
  <2>1. RfciFileOffset + Slot(w.block, j) \in Nat
    BY <1>2, <1>4 DEF RfciFileOffset, Slot
  <2> QED BY <1>4, <1>5, <2>1 DEF Filled, Child
<1>7. DOMAIN filled = 1 .. m
  BY <1>4 DEF Filled
<1> HIDE DEF filled, w, m
<1>8. filled \in Seq(P) /\ Len(filled) = m
  <2>1. filled = [j \in 1 .. m |-> filled[j]]
    BY <1>7 DEF filled, Filled
  <2>2. filled \in [1 .. m -> P]
    BY <1>4, <1>6, <2>1
  <2>3. filled \in Seq(P)
    BY <1>4, <2>2, SeqDef DEF m
  <2> QED BY <1>4, <1>7, <2>3, LenProperties DEF m
<1>9. pointers \in Seq(P)
  BY DEF TargetInv, PointerRecords
<1> HIDE DEF P
<1>10. /\ n \in Nat /\ DOMAIN pointers = 1 .. n
       /\ pointers' \in Seq(P) /\ Len(pointers') = n + m
       /\ \A i \in 1 .. n + m : pointers'[i] = IF i <= n THEN pointers[i] ELSE filled[i - n]
  BY <1>1, <1>8, <1>9, ConcatProperties, LenProperties
<1>11. DOMAIN pointers' = 1 .. n + m
  BY <1>10, LenProperties
<1> HIDE DEF n
<1>12. \A i \in DOMAIN pointers : pointers'[i] = pointers[i]
  BY <1>4, <1>10 DEF m
<1>13. \A j \in DOMAIN w.ids : pointers'[n + j] = filled[j]
  <2> SUFFICES ASSUME NEW j \in 1 .. m PROVE pointers'[n + j] = filled[j]
    BY <1>4 DEF m
  <2>1. m \in Nat
    BY <1>4 DEF m
  <2>2. n + j \in 1 .. n + m /\ ~(n + j <= n) /\ n + j - n = j
    BY <1>10, <2>1
  <2> QED BY <1>10, <2>2
<1>14. pointers' \in PointerRecords(objects)
  BY <1>10 DEF PointerRecords, P
<1>15. pointers' = pointers \o Filled(w)
  BY <1>1 DEF filled
<1> QED BY <1>2, <1>4, <1>5, <1>10, <1>11, <1>12, <1>13, <1>14, <1>15 DEF n, m, filled, w

LEMMA EndPointersReaches ==
  ASSUME LayoutInv, TargetInv, EndPointers
  PROVE  TargetInv'
<1> DEFINE w == Top.wait
           f == [Top EXCEPT !.wait = NotWaiting]
           n == Len(pointers)
           m == Len(w.ids)
<1>1. /\ InLineDone /\ w.on = "pointers" /\ w.left = 0 /\ Update(f)
      /\ UNCHANGED <<objects, order, status>>
  BY DEF EndPointers
<1>2. /\ Placing /\ Top \in Frames(objects) /\ Top.todo = <<>>
      /\ \A i \in DOMAIN w.ids : Index(objects, w.ids[i]) # 0
  BY <1>1, WaitFacts
<1>3. f \in Frames(objects) /\ f.wait = NotWaiting /\ f.items = Top.items
  BY <1>2, WaitOver DEF Frames
<1>4. /\ pointers' \in PointerRecords(objects)
      /\ n \in Nat /\ DOMAIN pointers = 1 .. n /\ m \in Nat /\ DOMAIN w.ids = 1 .. m
      /\ DOMAIN pointers' = 1 .. n + m
      /\ \A i \in DOMAIN pointers : pointers'[i] = pointers[i]
      /\ \A j \in DOMAIN w.ids :
           /\ pointers'[n + j].target = Index(objects, w.ids[j]) /\ pointers'[n + j].off = w.targets[j]
           /\ Index(objects, w.ids[j]) \in DOMAIN objects
  <2>1. /\ pointers' \in PointerRecords(objects)
        /\ n \in Nat /\ DOMAIN pointers = 1 .. n /\ m \in Nat /\ DOMAIN w.ids = 1 .. m
        /\ DOMAIN pointers' = 1 .. n + m
        /\ \A i \in DOMAIN pointers : pointers'[i] = pointers[i]
        /\ \A j \in DOMAIN w.ids : pointers'[n + j] = Filled(w)[j] /\ Index(objects, w.ids[j]) \in DOMAIN objects
    BY PointersAfter
  <2>2. \A j \in DOMAIN w.ids : Filled(w)[j].target = Index(objects, w.ids[j]) /\ Filled(w)[j].off = w.targets[j]
    BY DEF Filled, Child
  <2> HIDE DEF w, n, m
  <2> QED BY <2>1, <2>2
<1>5. WaitReached(objects, order, Coming, w)
  BY <1>2, TopReached
<1> HIDE DEF f, w, m, n
<1>6. KeepsReached
  BY <1>1, <1>2, Facts, NothingLost
<1>7. ASSUME NEW i \in DOMAIN pointers'
      PROVE  /\ Reached(order', Coming', Entry(pointers'[i].target, pointers'[i].off))
             /\ objects[pointers'[i].target].id # objects[Root(objects)].id
  <2>1. CASE i \in DOMAIN pointers
    <3>1. /\ Reached(order, Coming, Entry(pointers[i].target, pointers[i].off))
          /\ objects[pointers[i].target].id # objects[Root(objects)].id
      BY <2>1 DEF TargetInv
    <3>2. pointers[i].target # 0
      <4>1. pointers[i] \in [at : Nat, target : DOMAIN objects, off : Nat]
        BY <2>1, LenProperties, ElementOfSeq DEF TargetInv, PointerRecords
      <4>2. DOMAIN objects = 1 .. Len(objects)
        BY <1>2, Facts, LenProperties
      <4> QED BY <4>1, <4>2
    <3> QED BY <1>4, <1>6, <2>1, <3>1, <3>2 DEF KeepsReached
  <2>2. CASE i \notin DOMAIN pointers
    <3> DEFINE j == i - n
    <3>1. j \in DOMAIN w.ids /\ n + j = i
      BY <1>4, <2>2
    <3>2. 0 < j
      BY <1>4, <3>1
    <3> HIDE DEF j
    <3>3. pointers'[i].target = Index(objects, w.ids[j]) /\ pointers'[i].off = w.targets[j]
      BY <1>4, <3>1
    <3>4. Reached(order, Coming, Entry(Index(objects, w.ids[j]), w.targets[j]))
      BY <1>1, <1>5, <3>1, <3>2 DEF WaitReached
    <3>5. Index(objects, w.ids[j]) # 0
      BY <1>2, <3>1
    <3>6. w.ids[j] # objects[Root(objects)].id
      BY <1>1, <1>5, <3>1 DEF WaitReached, NotRoot
    <3>7. objects[Index(objects, w.ids[j])].id = w.ids[j]
      BY <1>2, <3>5, Facts, IndexFound
    <3> QED BY <1>6, <3>3, <3>4, <3>5, <3>6, <3>7 DEF KeepsReached
  <2> QED BY <2>1, <2>2
<1>8. /\ DOMAIN frames' = DOMAIN frames
      /\ \A k \in DOMAIN frames : frames'[k] = IF k = Len(frames) THEN f ELSE frames[k]
      /\ \A k \in DOMAIN frames : frames[k].wait \in Waits(objects)
  BY <1>1, <1>2, <1>3, CallsAfter
<1>9. ASSUME NEW k \in DOMAIN frames'
      PROVE  /\ WaitReached(objects, order', Coming', frames'[k].wait)
             /\ \A item \in frames'[k].items : ItemApart(objects, item)
  <2>1. CASE k = Len(frames)
    <3>1. frames'[k] = f
      BY <1>8, <2>1
    <3>2. WaitReached(objects, order', Coming', NotWaiting)
      BY DEF WaitReached, NotWaiting
    <3> QED BY <1>2, <1>3, <3>1, <3>2, TopReached
  <2>2. CASE k # Len(frames)
    <3>1. frames'[k] = frames[k] /\ k \in DOMAIN frames
      BY <1>8, <2>2
    <3> QED BY <1>6, <1>8, <3>1, WaitReachedKept DEF TargetInv
  <2> QED BY <2>1, <2>2
<1>10. Root(objects) # 0 /\ Reached(order', Coming', Entry(Root(objects), RfciPrefix))
  BY <1>6 DEF TargetInv, KeepsReached
<1>11. RootApart(objects) /\ order \in Orders(objects) /\ status # "placed"
  BY <1>2 DEF TargetInv, Placing
<1> QED BY <1>1, <1>4, <1>7, <1>9, <1>10, <1>11 DEF TargetInv

LEMMA EndOffsetReaches ==
  ASSUME LayoutInv, TargetInv, EndOffset
  PROVE  TargetInv'
<1> DEFINE f == [Top EXCEPT !.wait = NotWaiting]
<1>1. InLineDone /\ Update(f) /\ UNCHANGED <<objects, order, pointers, status>>
  BY DEF EndOffset
<1>2. Placing /\ Top \in Frames(objects) /\ Top.todo = <<>>
  BY <1>1, WaitFacts
<1>3. f \in Frames(objects) /\ f.wait = NotWaiting /\ f.items = Top.items
  BY <1>2, WaitOver DEF Frames
<1>4. WaitReached(objects, order', Coming', NotWaiting)
  BY DEF WaitReached, NotWaiting
<1> HIDE DEF f
<1> QED BY <1>1, <1>2, <1>3, <1>4, IdleReaches

\* The calls after one returns.
LEMMA Returned ==
  ASSUME LayoutInv, Return
  PROVE  LET n == Len(frames)
         IN /\ n \in Nat /\ n \in 1 .. n /\ DOMAIN frames = 1 .. n /\ frames # <<>>
            /\ DOMAIN frames' = 1 .. n - 1 /\ Len(frames') = n - 1 /\ (n = 1 => frames' = <<>>)
            /\ \A k \in 1 .. n - 1 : frames'[k] = frames[k]
<1> DEFINE n == Len(frames)
<1>1. InLineDone /\ frames' = SubSeq(frames, 1, n - 1)
  BY DEF Return
<1>2. Placing
  BY <1>1, WaitFacts
<1>3. frames # <<>> /\ n \in Nat /\ n \in 1 .. n /\ frames \in Seq(Frames(objects)) /\ DOMAIN frames = 1 .. n
  BY <1>2, Facts, TopTyped, LenProperties
<1>4. /\ DOMAIN frames' = 1 .. n - 1 /\ Len(frames') = n - 1 /\ (n = 1 => frames' = <<>>)
      /\ \A k \in 1 .. n - 1 : frames'[k] = frames[k]
  <2>1. \A k \in 1 .. n - 1 : frames[k] \in Frames(objects)
    <3>1. \A k \in 1 .. n - 1 : k \in 1 .. n
      BY <1>3
    <3> QED BY <1>3, <3>1, ElementOfSeq DEF n
  <2>2. n - 1 \in Nat
    BY <1>3
  <2> HIDE DEF n
  <2>3. /\ frames' \in Seq(Frames(objects))
        /\ Len(frames') = IF 1 <= n - 1 THEN n - 1 - 1 + 1 ELSE 0
        /\ \A k \in 1 .. n - 1 - 1 + 1 : frames'[k] = frames[1 + k - 1]
    BY <1>1, <1>3, <2>1, <2>2, SubSeqProperties
  <2>4. Len(frames') = n - 1
    BY <1>3, <2>3
  <2>5. DOMAIN frames' = 1 .. n - 1
    BY <2>3, <2>4, LenProperties
  <2>6. n = 1 => frames' = <<>>
    BY <2>3, <2>4, EmptySeq
  <2> QED BY <1>3, <2>3, <2>4, <2>5, <2>6
<1> QED BY <1>3, <1>4

LEMMA ReturnReaches ==
  ASSUME LayoutInv, TargetInv, Return
  PROVE  TargetInv'
<1> DEFINE n == Len(frames)
<1>1. /\ InLineDone /\ frames' = SubSeq(frames, 1, n - 1) /\ UNCHANGED <<objects, order, pointers>>
      /\ status' = IF n > 1 THEN status
                   ELSE IF \A i \in DOMAIN order : Known(objects[order[i].obj].type) THEN "placed" ELSE "failed"
  BY DEF Return
<1>2. Placing /\ Top.todo = <<>>
  BY <1>1, WaitFacts
<1>3. frames # <<>> /\ n \in Nat /\ n \in 1 .. n /\ frames \in Seq(Frames(objects)) /\ DOMAIN frames = 1 .. n
  BY <1>2, Facts, TopTyped, LenProperties
<1>4. /\ DOMAIN frames' = 1 .. n - 1 /\ Len(frames') = n - 1 /\ (n = 1 => frames' = <<>>)
      /\ \A k \in 1 .. n - 1 : frames'[k] = frames[k]
  BY Returned
<1>5. KeepsReached
  <2>1. Coming = <<>>
    BY <1>2, <1>3 DEF Coming
  <2> QED BY <1>1, <2>1 DEF KeepsReached, Reached
<1>6. ASSUME NEW k \in DOMAIN frames'
      PROVE  /\ WaitReached(objects, order', Coming', frames'[k].wait)
             /\ \A item \in frames'[k].items : ItemApart(objects, item)
  <2>1. k \in DOMAIN frames /\ frames'[k] = frames[k] /\ k \in 1 .. n
    BY <1>3, <1>4, <1>6
  <2>2. frames[k] \in Frames(objects)
    BY <1>3, <2>1, ElementOfSeq DEF n
  <2>3. frames[k].wait \in Waits(objects)
    BY <2>2 DEF Frames
  <2> QED BY <1>5, <2>1, <2>3, WaitReachedKept DEF TargetInv
<1>7. Root(objects) # 0 /\ Reached(order', Coming', Entry(Root(objects), RfciPrefix))
  BY <1>5 DEF TargetInv, KeepsReached
<1>8. ASSUME NEW i \in DOMAIN pointers
      PROVE  /\ Reached(order', Coming', Entry(pointers[i].target, pointers[i].off))
             /\ objects[pointers[i].target].id # objects[Root(objects)].id
  <2>1. Coming = <<>>
    BY <1>2, <1>3 DEF Coming
  <2> QED BY <1>1, <2>1 DEF TargetInv, Reached
<1>9. status' = "placed" => frames' = <<>>
  BY <1>1, <1>2, <1>3, <1>4 DEF Placing
<1>10. RootApart(objects) /\ order \in Orders(objects) /\ pointers \in PointerRecords(objects)
  BY DEF TargetInv
<1> QED BY <1>1, <1>6, <1>7, <1>8, <1>9, <1>10 DEF TargetInv

LEMMA SameReaches ==
  ASSUME TargetInv, UNCHANGED <<objects, order, pointers, frames>>, status' = status \/ status' = "failed"
  PROVE  TargetInv'
<1>1. Coming' = Coming
  BY DEF Coming, Top
<1> QED BY <1>1 DEF TargetInv

LEMMA TargetStarts ==
  ASSUME GraphsRoomy, LayoutInit
  PROVE  TargetInv
<1> DEFINE e == Entry(Root(objects), RfciPrefix)
<1>1. /\ objects \in Seq(Objects) /\ objects \in Graphs /\ Root(objects) # 0 /\ frames = <<Call(<<e>>)>>
      /\ order = <<>> /\ pointers = <<>> /\ status = "placing"
  BY GraphsAssumption DEF LayoutInit, Placeable, FirstCall, Entry
<1>2. RootApart(objects)
  BY <1>1 DEF GraphsRoomy, RoomyGraph
<1>3. Top = Call(<<e>>) /\ Coming = <<e>> /\ frames[1].items = {} /\ frames[1].wait = NotWaiting
      /\ DOMAIN frames = {1}
  BY <1>1 DEF Top, Call, Coming
<1>4. Reached(order, Coming, e)
  <2> HIDE DEF e
  <2>1. 1 \in DOMAIN <<e>> /\ <<e>>[1] = e
    OBVIOUS
  <2> QED BY <1>3, <2>1 DEF Reached
<1>5. order \in Orders(objects) /\ pointers \in PointerRecords(objects)
  BY <1>1 DEF Orders, PointerRecords
<1>6. WaitReached(objects, order, Coming, NotWaiting)
  BY DEF WaitReached, NotWaiting
<1> HIDE DEF e
<1> QED BY <1>1, <1>2, <1>3, <1>4, <1>5, <1>6 DEF TargetInv, e

LEMMA TargetStepKeeps ==
  ASSUME LayoutInv, TargetInv, [LayoutNext]_layoutVars
  PROVE  TargetInv'
<1>1. CASE InlineWrite
  BY <1>1, InlineWriteReaches
<1>2. CASE SkipField
  BY <1>2, SkipFieldReaches
<1>3. CASE NextElement
  BY <1>3, NextElementReaches
<1>4. CASE PlaceItem
  <2>1. PICK item :
          \/ PlaceStr(item) \/ PlaceEmptyArray(item) \/ PlaceArray(item) \/ PlaceRawArray(item)
          \/ BeginPointers(item) \/ PlaceNothing(item) \/ BeginOffset(item) \/ MissingChild(item)
    BY <1>4 DEF PlaceItem
  <2>2. CASE PlaceStr(item) \/ PlaceEmptyArray(item) \/ PlaceArray(item) \/ PlaceRawArray(item) \/ PlaceNothing(item)
    BY <2>2, ItemsReach
  <2>3. CASE BeginPointers(item)
    BY <2>3, BeginPointersReaches
  <2>4. CASE BeginOffset(item)
    BY <2>4, BeginOffsetReaches
  <2>5. CASE MissingChild(item)
    BY <2>5, SameReaches DEF MissingChild
  <2> QED BY <2>1, <2>2, <2>3, <2>4, <2>5
<1>5. CASE PlaceTarget
  BY <1>5, PlaceTargetReaches
<1>6. CASE EndPointers
  BY <1>6, EndPointersReaches
<1>7. CASE EndOffset
  BY <1>7, EndOffsetReaches
<1>8. CASE Return
  BY <1>8, ReturnReaches
<1>9. CASE UNCHANGED layoutVars
  BY <1>9, SameReaches DEF layoutVars
<1> QED BY <1>1, <1>2, <1>3, <1>4, <1>5, <1>6, <1>7, <1>8, <1>9 DEF LayoutNext

-----------------------------------------------------------------------------
(* What is free *)

\* The bounds of the slots of a call, and the places of pointers, are numbers.
LEMMA SlotsTyped ==
  ASSUME NEW objs, NEW noted \in PointerRecords(objs), NEW calls \in Seq(Frames(objs))
  PROVE  /\ \A i \in DOMAIN noted : noted[i].at \in Nat /\ noted[i].off \in Nat /\ noted[i].target \in DOMAIN objs
         /\ \A k \in DOMAIN calls : calls[k].wait.on = "pointers" =>
              calls[k].wait.block \in Nat /\ Len(calls[k].wait.ids) \in Nat /\ BlockEnd(calls[k].wait) \in Nat
<1>1. \A i \in DOMAIN noted : noted[i] \in [at : Nat, target : DOMAIN objs, off : Nat]
  BY LenProperties, ElementOfSeq DEF PointerRecords
<1>2. ASSUME NEW k \in DOMAIN calls, calls[k].wait.on = "pointers"
      PROVE  calls[k].wait.block \in Nat /\ Len(calls[k].wait.ids) \in Nat /\ BlockEnd(calls[k].wait) \in Nat
  <2>1. calls[k] \in Frames(objs)
    BY LenProperties, ElementOfSeq
  <2>2. calls[k].wait \in PointerWaits
    BY <1>2, <2>1 DEF Frames, Waits, NotWaiting
  <2>3. calls[k].wait.block \in Nat /\ calls[k].wait.ids \in Seq(Nat)
    BY <2>2 DEF PointerWaits
  <2>4. Len(calls[k].wait.ids) \in Nat
    BY <2>3, LenProperties
  <2> QED BY <2>3, <2>4 DEF BlockEnd
<1> QED BY <1>1, <1>2

LEMMA ClearWithin ==
  ASSUME NEW objs, NEW noted \in PointerRecords(objs),
         NEW from \in Int, NEW to \in Int, NEW a \in Int, NEW b \in Int, from <= a, b <= to, Clear(noted, from, to)
  PROVE  Clear(noted, a, b)
<1> SUFFICES ASSUME NEW i \in DOMAIN noted
             PROVE  noted[i].at < RfciFileOffset + a \/ RfciFileOffset + b <= noted[i].at
  BY DEF Clear
<1>1. noted[i] \in [at : Nat, target : DOMAIN objs, off : Nat]
  BY LenProperties, ElementOfSeq DEF PointerRecords
<1>2. noted[i].at < RfciFileOffset + from \/ RfciFileOffset + to <= noted[i].at
  BY DEF Clear
<1> QED BY <1>1, <1>2 DEF RfciFileOffset

\* A part of what is free is free.
LEMMA FreeWithin ==
  ASSUME NEW objs, NEW noted \in PointerRecords(objs), NEW calls \in Seq(Frames(objs)),
         NEW from \in Int, NEW to \in Int, NEW a \in Int, NEW b \in Int, from <= a, b <= to,
         Free(noted, calls, from, to)
  PROVE  Free(noted, calls, a, b)
<1>1. Clear(noted, a, b)
  BY ClearWithin DEF Free
<1>2. ASSUME NEW k \in DOMAIN calls PROVE Apart(calls[k].wait, a, b)
  <2>1. calls[k].wait.on = "pointers" => to <= calls[k].wait.block \/ BlockEnd(calls[k].wait) <= from
    BY DEF Free, Apart
  <2>2. calls[k].wait.on = "pointers" => calls[k].wait.block \in Nat /\ BlockEnd(calls[k].wait) \in Nat
    BY SlotsTyped
  <2> QED BY <2>1, <2>2 DEF Apart
<1> QED BY <1>1, <1>2 DEF Free

LEMMA FreeKept ==
  ASSUME NEW noted, NEW calls, NEW after, SameBlocks(calls, after), NEW from, NEW to, Free(noted, calls, from, to)
  PROVE  Free(noted, after, from, to)
BY DEF Free, Apart, SameBlocks, BlockEnd

LEMMA BlocksStayApart ==
  ASSUME NEW calls, NEW after, SameBlocks(calls, after), BlocksApart(calls)
  PROVE  BlocksApart(after)
BY DEF BlocksApart, Apart, SameBlocks, BlockEnd

\* What a call needs free stays so, if what is free stays so: as far as the
\* blob goes for one with nothing left to write in line, else everywhere.
LEMMA FrameFreeMoves ==
  ASSUME NEW objs, NEW noted, NEW more, NEW calls, NEW after,
         NEW len \in Nat, NEW longer \in Nat, len <= longer, NEW f \in Frames(objs),
         FrameFree(objs, noted, calls, len, f),
         \A from, to \in Nat : to <= len /\ Free(noted, calls, from, to) => Free(more, after, from, to),
         f.todo # <<>> \/ f.row.ids # <<>> =>
           \A from, to \in Nat : Free(noted, calls, from, to) => Free(more, after, from, to),
         f.wait.on = "pointers" => Clear(more, f.wait.block, BlockEnd(f.wait))
  PROVE  FrameFree(objs, more, after, longer, f)
<1>1. /\ f.todo \in Seq(Entries(objs)) /\ f.row.at \in Nat /\ f.items \subseteq Items /\ f.wait \in Waits(objs)
  BY DEF Frames, Rows
<1>2. ASSUME NEW i \in DOMAIN f.todo PROVE EntryFree(objs, more, after, f.todo[i])
  <2>1. f.todo[i] \in Entries(objs) /\ f.todo # <<>>
    BY <1>1, LenProperties, ElementOfSeq, EmptySeq
  <2>2. f.todo[i].off \in Nat /\ f.todo[i].off + SizeOf(objs[f.todo[i].obj].type) \in Nat
    BY <2>1, SizesAndAlignments DEF Entries
  <2>3. EntryFree(objs, noted, calls, f.todo[i])
    BY DEF FrameFree
  <2> QED BY <2>1, <2>2, <2>3 DEF EntryFree
<1>3. RowFree(more, after, f.row)
  <2> SUFFICES ASSUME f.row.ids # <<>>, NEW n \in Nat PROVE Free(more, after, f.row.at, f.row.at + n)
    BY DEF RowFree
  <2>1. Free(noted, calls, f.row.at, f.row.at + n)
    BY DEF FrameFree, RowFree
  <2> QED BY <1>1, <2>1
<1>4. ASSUME NEW item \in f.items PROVE ItemFree(more, after, longer, item)
  <2>1. ItemFree(noted, calls, len, item)
    BY DEF FrameFree
  <2>2. item.fpos \in Nat
    BY <1>1, ItemParts
  <2>3. item.fpos + ItemRoom(item) \in Nat
    BY <2>2 DEF ItemRoom
  <2> QED BY <2>1, <2>2, <2>3 DEF ItemFree
<1>5. WaitFree(more, after, longer, f.wait)
  <2>1. WaitFree(noted, calls, len, f.wait)
    BY DEF FrameFree
  <2>2. f.wait.on = "offset" => f.wait.fpos \in Nat
    BY <1>1 DEF Waits, NotWaiting, PointerWaits
  <2>3. f.wait.on = "pointers" => f.wait.fpos \in Nat /\ BlockEnd(f.wait) \in Nat
    BY <1>1, LenProperties DEF Waits, NotWaiting, PointerWaits, BlockEnd
  <2>4. CASE f.wait.on = "offset"
    <3>1. Free(noted, calls, f.wait.fpos, f.wait.fpos + 4) /\ f.wait.fpos + 4 <= len
      BY <2>1, <2>4 DEF WaitFree
    <3>2. f.wait.fpos \in Nat /\ f.wait.fpos + 4 \in Nat
      BY <2>2, <2>4
    <3>3. Free(more, after, f.wait.fpos, f.wait.fpos + 4)
      BY <3>1, <3>2
    <3> QED BY <2>4, <3>1, <3>2, <3>3 DEF WaitFree
  <2>5. CASE f.wait.on = "pointers"
    <3>1. /\ Free(noted, calls, f.wait.fpos, f.wait.fpos + 12) /\ f.wait.fpos + 12 <= len
          /\ BlockEnd(f.wait) <= len
      BY <2>1, <2>5 DEF WaitFree
    <3>2. f.wait.fpos \in Nat /\ f.wait.fpos + 12 \in Nat
      BY <2>3, <2>5
    <3>3. Free(more, after, f.wait.fpos, f.wait.fpos + 12)
      BY <3>1, <3>2
    <3> QED BY <2>3, <2>5, <3>1, <3>2, <3>3 DEF WaitFree
  <2> QED BY <2>4, <2>5 DEF WaitFree
<1> QED BY <1>2, <1>3, <1>4, <1>5 DEF FrameFree

LEMMA FrameFreeKept ==
  ASSUME NEW objs, NEW noted, NEW calls, NEW after, SameBlocks(calls, after),
         NEW len \in Nat, NEW longer \in Nat, len <= longer, NEW f \in Frames(objs),
         FrameFree(objs, noted, calls, len, f)
  PROVE  FrameFree(objs, noted, after, longer, f)
<1>1. \A from, to \in Nat : Free(noted, calls, from, to) => Free(noted, after, from, to)
  BY FreeKept
<1>2. f.wait.on = "pointers" => Clear(noted, f.wait.block, BlockEnd(f.wait))
  BY DEF FrameFree, WaitFree
<1> QED BY <1>1, <1>2, FrameFreeMoves

\* Behind the blob everything is free.
LEMMA FreeBeyond ==
  ASSUME LayoutInv, TargetInv, SlotInv, Len(data) \in Nat, NEW from \in Nat, Len(data) <= from, NEW to
  PROVE  Free(pointers, frames, from, to) /\ Clear(pointers, from, to)
<1>1. pointers \in PointerRecords(objects) /\ frames \in Seq(Frames(objects))
  BY DEF TargetInv, LayoutInv, LayoutTypeOK
<1>2. Clear(pointers, from, to)
  <2> SUFFICES ASSUME NEW i \in DOMAIN pointers PROVE pointers[i].at < RfciFileOffset + from
    BY DEF Clear
  <2>1. pointers[i].at - RfciFileOffset \in 0 .. Len(data) - 1
    BY DEF SlotInv, SlotsExact
  <2>2. pointers[i].at \in Nat
    BY <1>1, SlotsTyped
  <2> QED BY <2>1, <2>2 DEF RfciFileOffset
<1>3. ASSUME NEW k \in DOMAIN frames, frames[k].wait.on = "pointers"
      PROVE  BlockEnd(frames[k].wait) <= from
  <2>1. BlockEnd(frames[k].wait) <= Len(data)
    BY <1>3 DEF SlotInv, FrameFree, WaitFree
  <2>2. BlockEnd(frames[k].wait) \in Nat
    BY <1>1, <1>3, SlotsTyped
  <2> QED BY <2>1, <2>2
<1> QED BY <1>2, <1>3 DEF Free, Apart

LEMMA BlobWritten ==
  ASSUME NEW blob, Len(blob) \in Nat, NEW end \in Nat, NEW writes
  PROVE  LET after == Written(blob, end, writes)
         IN /\ Len(after) = Larger(Len(blob), end) /\ DOMAIN after = 1 .. Len(after)
            /\ \A p \in 1 .. Len(after) :
                 after[p] = IF \E write \in writes : Covers(write, p)
                            THEN Covering(writes, p).cells[p - Covering(writes, p).off]
                            ELSE IF p <= Len(blob) THEN blob[p] ELSE Zero
<1> DEFINE n == Larger(Len(blob), end)
           after == Written(blob, end, writes)
           E == {after[i] : i \in 1 .. n}
<1>1. n \in Nat
  BY DEF Larger
<1>2. DOMAIN after = 1 .. n /\ after = [p \in 1 .. n |-> after[p]]
  BY DEF Written
<1>3. \A p \in 1 .. n : after[p] = IF \E write \in writes : Covers(write, p)
                                    THEN Covering(writes, p).cells[p - Covering(writes, p).off]
                                    ELSE IF p <= Len(blob) THEN blob[p] ELSE Zero
  BY DEF Written, Covers, Covering
<1> HIDE DEF n, after
<1>4. after \in Seq(E)
  BY <1>1, <1>2, SeqDef
<1>5. Len(after) = n
  BY <1>1, <1>2, <1>4, LenProperties
<1> QED BY <1>2, <1>3, <1>5 DEF after, n

\* What is at a place after writes that go over no reference.
LEMMA PlaceAfter ==
  ASSUME NEW objs, NEW noted \in PointerRecords(objs), NEW blob, Len(blob) \in Nat, NEW end \in Nat, NEW writes,
         \A w \in writes : WriteClear(noted, w), NEW p \in 1 .. Larger(Len(blob), end)
  PROVE  /\ \/ p <= Len(blob) /\ Written(blob, end, writes)[p] = blob[p]
            \/ Written(blob, end, writes)[p][1] # "i64"
         /\ \A i \in DOMAIN noted : noted[i].at = RfciFileOffset + p - 1 /\ p <= Len(blob) =>
              Written(blob, end, writes)[p] = blob[p]
<1> DEFINE after == Written(blob, end, writes)
           w == Covering(writes, p)
<1>1. Larger(Len(blob), end) \in Nat
  BY DEF Larger
<1>2. Len(after) = Larger(Len(blob), end) /\ p \in 1 .. Len(after) /\ p \in Nat
  BY <1>1, BlobWritten
<1>3. after[p] = IF \E write \in writes : Covers(write, p)
                 THEN w.cells[p - w.off] ELSE IF p <= Len(blob) THEN blob[p] ELSE Zero
  BY <1>2, BlobWritten
<1> HIDE DEF after
<1>4. CASE \E write \in writes : Covers(write, p)
  <2>1. w \in writes /\ Covers(w, p) /\ after[p] = w.cells[p - w.off]
    BY <1>3, <1>4 DEF Covering
  <2> HIDE DEF w
  <2>2. WriteClear(noted, w)
    BY <2>1
  <2>3. w.off \in Nat /\ Len(w.cells) \in Nat /\ p - w.off \in 1 .. Len(w.cells) /\ w.off < p /\ p <= w.off + Len(w.cells)
    BY <1>2, <2>1, <2>2 DEF WriteClear, Covers
  <2>4. after[p][1] # "i64"
    BY <2>1, <2>2, <2>3 DEF WriteClear, NoReference
  <2>5. ASSUME NEW i \in DOMAIN noted PROVE noted[i].at # RfciFileOffset + p - 1
    <3>1. noted[i].at \in Nat
      BY SlotsTyped, EmptySeq
    <3>2. noted[i].at < RfciFileOffset + w.off \/ RfciFileOffset + (w.off + Len(w.cells)) <= noted[i].at
      BY <2>2 DEF WriteClear, Clear
    <3> QED BY <1>2, <2>3, <3>1, <3>2 DEF RfciFileOffset
  <2> QED BY <2>4, <2>5 DEF after
<1>5. CASE ~(\E write \in writes : Covers(write, p)) /\ p <= Len(blob)
  BY <1>3, <1>5 DEF after
<1>6. CASE ~(\E write \in writes : Covers(write, p)) /\ ~(p <= Len(blob))
  BY <1>3, <1>6 DEF after, Zero
<1> QED BY <1>4, <1>5, <1>6

\* Such writes leave the references as they are noted.
LEMMA WrittenExact ==
  ASSUME NEW objs, NEW noted \in PointerRecords(objs), NEW blob, Len(blob) \in Nat, NEW end \in Nat, NEW writes,
         \A w \in writes : WriteClear(noted, w), SlotsExact(blob, noted)
  PROVE  SlotsExact(Written(blob, end, writes), noted)
<1> DEFINE after == Written(blob, end, writes)
<1>1. Len(after) = Larger(Len(blob), end) /\ DOMAIN after = 1 .. Len(after)
  BY BlobWritten
<1>2. Len(after) \in Nat /\ Len(blob) <= Len(after)
  BY LengthWritten
<1>3. ASSUME NEW i \in DOMAIN noted
      PROVE  LET place == noted[i].at - RfciFileOffset
             IN place \in 0 .. Len(after) - 1 /\ after[place + 1] = <<"i64", 1, noted[i].off - place>>
  <2> DEFINE place == noted[i].at - RfciFileOffset
  <2>1. place \in 0 .. Len(blob) - 1 /\ blob[place + 1] = <<"i64", 1, noted[i].off - place>>
    BY DEF SlotsExact
  <2>2. noted[i].at \in Nat
    BY SlotsTyped, EmptySeq
  <2>3. place + 1 \in 1 .. Len(after) /\ place + 1 <= Len(blob) /\ noted[i].at = RfciFileOffset + (place + 1) - 1
        /\ place \in 0 .. Len(after) - 1
    BY <1>2, <2>1, <2>2 DEF RfciFileOffset
  <2> HIDE DEF place, after
  <2>4. after[place + 1] = blob[place + 1]
    BY <1>1, <2>3, PlaceAfter DEF after
  <2> QED BY <2>1, <2>3, <2>4 DEF place
<1>4. ASSUME NEW p \in 1 .. Len(after), after[p][1] = "i64", after[p][2] = 1
      PROVE  \E i \in DOMAIN noted : noted[i].at = RfciFileOffset + p - 1
  <2> HIDE DEF after
  <2>1. p <= Len(blob) /\ after[p] = blob[p]
    BY <1>1, <1>4, PlaceAfter DEF after
  <2>2. p \in 1 .. Len(blob)
    BY <1>2, <2>1
  <2> QED BY <1>4, <2>1, <2>2 DEF SlotsExact
<1>5. \A i, j \in DOMAIN noted : noted[i].at = noted[j].at => i = j
  BY DEF SlotsExact
<1> HIDE DEF after
<1>6. SlotsExact(after, noted)
  BY <1>1, <1>3, <1>4, <1>5 DEF SlotsExact
<1> QED BY <1>6 DEF after

LEMMA CellsClear ==
  ASSUME NEW noted, NEW tag \in DOMAIN Width, tag # "i64", NEW v, NEW off \in Nat,
         Clear(noted, off, off + Width[tag])
  PROVE  WriteClear(noted, [off |-> off, cells |-> Cells(tag, v)])
<1> DEFINE cells == Cells(tag, v)
           n == Width[tag]
<1>1. n \in Nat
  BY WidthsOfTags DEF Widths
<1>2. DOMAIN cells = 1 .. n /\ cells \in Seq({cells[i] : i \in 1 .. n}) /\ \A i \in 1 .. n : cells[i][1] = tag
  BY <1>1, SeqDef DEF Cells
<1>3. Len(cells) = n
  BY <1>1, <1>2, LenProperties
<1> HIDE DEF cells, n
<1> QED BY <1>1, <1>2, <1>3 DEF WriteClear, NoReference, cells, n

LEMMA ReferenceClear ==
  ASSUME NEW objs, NEW noted \in PointerRecords(objs), NEW fpos \in Nat, Clear(noted, fpos, fpos + 12),
         NEW at, NEW count
  PROVE  \A w \in Reference(fpos, at, count) : WriteClear(noted, w)
<1>1. "i32" \in DOMAIN Width /\ Width["i32"] = 4 /\ "i32" # "i64" /\ fpos + 8 \in Nat
  BY DEF Width
<1>2. Clear(noted, fpos, fpos + 4) /\ Clear(noted, fpos + 8, fpos + 8 + 4)
  BY ClearWithin
<1>3. /\ WriteClear(noted, [off |-> fpos, cells |-> Cells("i32", at - fpos)])
      /\ WriteClear(noted, [off |-> fpos + 8, cells |-> Cells("i32", count)])
  BY <1>1, <1>2, CellsClear
<1> QED BY <1>3 DEF Reference

-----------------------------------------------------------------------------
(* Steps that note no pointers *)

\* What the invariant says of the call on top.
LEMMA SlotFacts ==
  ASSUME LayoutInv, TargetInv, SlotInv, Placing
  PROVE  /\ pointers \in PointerRecords(objects) /\ frames \in Seq(Frames(objects)) /\ objects \in Seq(Objects)
         /\ Len(data) \in Nat /\ next \in Nat
         /\ Len(frames) \in DOMAIN frames /\ Top = frames[Len(frames)] /\ Top \in Frames(objects)
         /\ FrameFree(objects, pointers, frames, Len(data), Top)
         /\ \A i \in DOMAIN Top.todo : EntryFree(objects, pointers, frames, Top.todo[i])
         /\ RowFree(pointers, frames, Top.row)
         /\ \A item \in Top.items : ItemFree(pointers, frames, Len(data), item)
         /\ WaitFree(pointers, frames, Len(data), Top.wait)
<1>1. /\ frames # <<>> /\ frames \in Seq(Frames(objects)) /\ objects \in Seq(Objects) /\ Len(data) \in Nat /\ next \in Nat
      /\ Top \in Frames(objects) /\ Len(frames) \in DOMAIN frames /\ Top = frames[Len(frames)]
  BY Facts, TopTyped, LenProperties DEF Top
<1>2. FrameFree(objects, pointers, frames, Len(data), Top)
  BY <1>1 DEF SlotInv
<1> QED BY <1>1, <1>2 DEF TargetInv, FrameFree

LEMMA QuietStep ==
  ASSUME LayoutInv, LayoutInv', TargetInv, SlotInv, UNCHANGED <<objects, pointers>>,
         Len(data) <= Len(data'), SlotsExact(data', pointers), SameBlocks(frames, frames'),
         \A k \in DOMAIN frames' :
           \/ k \in DOMAIN frames /\ frames'[k] = frames[k]
           \/ FrameFree(objects, pointers, frames, Len(data'), frames'[k])
  PROVE  SlotInv'
<1>1. Len(data) \in Nat /\ Len(data') \in Nat /\ frames \in Seq(Frames(objects)) /\ frames' \in Seq(Frames(objects))
  BY DEF LayoutInv, LayoutTypeOK
<1>2. ASSUME NEW k \in DOMAIN frames'
      PROVE  FrameFree(objects, pointers, frames', Len(data'), frames'[k])
  <2>1. frames'[k] \in Frames(objects)
    BY <1>1, LenProperties, ElementOfSeq
  <2>2. CASE k \in DOMAIN frames /\ frames'[k] = frames[k]
    <3>1. FrameFree(objects, pointers, frames, Len(data), frames'[k])
      BY <2>2 DEF SlotInv
    <3> QED BY <1>1, <2>1, <3>1, FrameFreeKept
  <2>3. CASE FrameFree(objects, pointers, frames, Len(data'), frames'[k])
    BY <1>1, <2>1, <2>3, FrameFreeKept
  <2> QED BY <2>2, <2>3
<1>3. BlocksApart(frames')
  BY BlocksStayApart DEF SlotInv
<1>4. RoomyGraph(objects)
  BY DEF SlotInv
<1> QED BY <1>2, <1>3, <1>4 DEF SlotInv

\* A step of the call on top.
LEMMA UpdateFree ==
  ASSUME LayoutInv, LayoutInv', TargetInv, SlotInv, Placing, UNCHANGED <<objects, pointers>>,
         Len(data) <= Len(data'), SlotsExact(data', pointers),
         NEW f, Update(f), f.wait = Top.wait \/ f.wait.on # "pointers",
         FrameFree(objects, pointers, frames, Len(data'), f)
  PROVE  SlotInv'
<1>1. f \in Frames(objects)
  BY CallTyped
<1>2. /\ DOMAIN frames' = DOMAIN frames /\ Top = frames[Len(frames)]
      /\ \A k \in DOMAIN frames : frames'[k] = IF k = Len(frames) THEN f ELSE frames[k]
  BY <1>1, CallsAfter
<1>3. SameBlocks(frames, frames')
  BY <1>2 DEF SameBlocks
<1> QED BY <1>2, <1>3, QuietStep

\* The blob after a step that goes over no reference.
LEMMA BlobStep ==
  ASSUME LayoutInv, TargetInv, SlotInv, NEW end \in Nat, NEW writes, data' = Written(data, end, writes),
         \A w \in writes : WriteClear(pointers, w)
  PROVE  Len(data) <= Len(data') /\ end <= Len(data') /\ Len(data') \in Nat /\ SlotsExact(data', pointers)
<1>1. Len(data) \in Nat /\ pointers \in PointerRecords(objects) /\ SlotsExact(data, pointers)
  BY DEF LayoutInv, LayoutTypeOK, TargetInv, SlotInv
<1> QED BY <1>1, LengthWritten, WrittenExact

\* What is free for the call on top remains so.
LEMMA TopStays ==
  ASSUME LayoutInv, TargetInv, SlotInv, Placing, NEW len \in Nat, Len(data) <= len
  PROVE  FrameFree(objects, pointers, frames, len, Top)
<1>1. SameBlocks(frames, frames)
  BY DEF SameBlocks
<1> QED BY <1>1, SlotFacts, FrameFreeKept

LEMMA SkipFieldFree ==
  ASSUME LayoutInv, TargetInv, SlotInv, SkipField
  PROVE  SlotInv'
<1> DEFINE s == Top.todo
           f == [Top EXCEPT !.todo = Tail(@)]
<1>1. /\ Placing /\ s # <<>> /\ Update(f) /\ UNCHANGED <<objects, pointers, data>>
  BY DEF SkipField
<1>2. LayoutInv'
  BY SkipFieldKeeps
<1>3. s \in Seq(Entries(objects)) /\ Top \in Frames(objects)
  BY <1>1, Facts
<1>4. f.row = Top.row /\ f.items = Top.items /\ f.wait = Top.wait /\ f.todo = Tail(s)
  BY <1>3 DEF Frames
<1> HIDE DEF f, s
<1>5. \A i \in DOMAIN Tail(s) : i + 1 \in DOMAIN s /\ Tail(s)[i] = s[i + 1]
  BY <1>1, <1>3, HeadTailProperties, LenProperties
<1>6. FrameFree(objects, pointers, frames, Len(data), f)
  BY <1>1, <1>4, <1>5, SlotFacts DEF FrameFree, s
<1>7. SlotsExact(data', pointers) /\ Len(data) \in Nat
  BY <1>1, SlotFacts DEF SlotInv
<1> QED BY <1>1, <1>2, <1>4, <1>6, <1>7, UpdateFree

LEMMA NextElementFree ==
  ASSUME LayoutInv, TargetInv, SlotInv, NextElement
  PROVE  SlotInv'
<1> DEFINE ids == Top.row.ids
           at == Top.row.at
           o == Child(Head(ids))
           size == SizeOf(ChildType(Head(ids)))
           e == [obj |-> o, off |-> at]
           row == [ids |-> Tail(ids), at |-> at + size]
           f == [Top EXCEPT !.todo = <<e>>, !.row = row]
<1>1. /\ Placing /\ ids # <<>> /\ UNCHANGED <<objects, pointers, data>>
      /\ Update([Top EXCEPT !.todo = <<[obj |-> Child(Head(ids)), off |-> at]>>,
                            !.row = [ids |-> Tail(@.ids), at |-> at + size]])
  BY DEF NextElement
<1>2. LayoutInv'
  BY NextElementKeeps
<1>3. Top \in Frames(objects) /\ Top.row \in Rows(objects)
  BY <1>1, Facts
<1>4. f.row = row /\ f.items = Top.items /\ f.wait = Top.wait /\ f.todo = <<e>> /\ Update(f)
  BY <1>1, <1>3 DEF Frames, Rows
<1> HIDE DEF f
<1>5. at \in Nat /\ size \in Nat
  BY <1>3, SizesAndAlignments DEF Rows
<1>6. \A n \in Nat : Free(pointers, frames, at, at + n)
  BY <1>1, SlotFacts DEF RowFree
<1>7. EntryFree(objects, pointers, frames, e)
  BY <1>5, <1>6 DEF EntryFree, ChildType
<1>8. RowFree(pointers, frames, row)
  <2> SUFFICES ASSUME NEW n \in Nat PROVE Free(pointers, frames, row.at, row.at + n)
    BY DEF RowFree
  <2> HIDE DEF size, at
  <2>1. size + n \in Nat
    BY <1>5
  <2>2. Free(pointers, frames, at, at + (size + n))
    BY <1>6, <2>1
  <2>3. at + size \in Nat /\ at <= at + size /\ (at + size) + n \in Nat /\ (at + size) + n <= at + (size + n)
        /\ at + (size + n) \in Nat
    BY <1>5
  <2>4. pointers \in PointerRecords(objects) /\ frames \in Seq(Frames(objects))
    BY <1>1, SlotFacts
  <2>5. Free(pointers, frames, at + size, (at + size) + n)
    BY <1>5, <2>2, <2>3, <2>4, FreeWithin
  <2> QED BY <2>5
<1> HIDE DEF e, row
<1>9. FrameFree(objects, pointers, frames, Len(data), f)
  BY <1>1, <1>4, <1>7, <1>8, SlotFacts DEF FrameFree
<1>10. SlotsExact(data', pointers) /\ Len(data) \in Nat
  BY <1>1, SlotFacts DEF SlotInv
<1> QED BY <1>1, <1>2, <1>4, <1>9, <1>10, UpdateFree

-----------------------------------------------------------------------------
(* Writing in line, references untouched *)

LEMMA RawNoReference ==
  ASSUME NEW obj \in Objects, RawApart(obj), NEW name
  PROVE  NoReference(Value(obj, name, "bytes", <<>>))
<1> DEFINE k == PropAt(obj, name)
<1>1. CASE ~HasValue(obj, name, "bytes")
  BY <1>1 DEF Value, NoReference
<1>2. CASE HasValue(obj, name, "bytes")
  <2>1. k # 0 /\ obj.props[k][2].is = "bytes" /\ Value(obj, name, "bytes", <<>>) = obj.props[k][2].v
    BY <1>2 DEF HasValue, Value
  <2>2. k \in DOMAIN obj.props
    BY <2>1, PropFound
  <2> HIDE DEF k
  <2>3. NoReference(obj.props[k][2].v)
    BY <2>1, <2>2 DEF RawApart, NoReference
  <2> QED BY <2>1, <2>3
<1> QED BY <1>1, <1>2

\* A write of a field stays in the room of its class.
LEMMA FieldWriteClear ==
  ASSUME NEW noted, NEW obj, NEW name, NEW class, NEW fpos \in Nat, Clear(noted, fpos, fpos + Room(class))
  PROVE  \A write \in FieldWrite(obj, name, class, fpos) : WriteClear(noted, write)
<1> DEFINE v == Value(obj, name, "scalar", 0)
           bit == IF Value(obj, name, "bool", FALSE) THEN 1 ELSE 0
<1>1. /\ "u8" \in DOMAIN Width /\ "u32" \in DOMAIN Width /\ "u64" \in DOMAIN Width
      /\ Width["u8"] = 1 /\ Width["u32"] = 4 /\ Width["u64"] = 8
  BY DEF Width
<1> HIDE DEF v, bit
<1>2. CASE class = "scalar"
  <2>1. Room(class) = 4
    BY <1>2 DEF Room
  <2>2. FieldWrite(obj, name, class, fpos) = {[off |-> fpos, cells |-> Cells("u32", v)]}
    BY <1>2 DEF FieldWrite, v
  <2> QED BY <1>1, <2>1, <2>2, CellsClear
<1>3. CASE class = "scalar64"
  <2>1. Room(class) = 8
    BY <1>3 DEF Room
  <2>2. FieldWrite(obj, name, class, fpos) = {[off |-> fpos, cells |-> Cells("u64", v)]}
    BY <1>3 DEF FieldWrite, v
  <2> QED BY <1>1, <2>1, <2>2, CellsClear
<1>4. CASE class = "scalar8"
  <2>1. Room(class) = 1
    BY <1>4 DEF Room
  <2>2. FieldWrite(obj, name, class, fpos) = {[off |-> fpos, cells |-> Cells("u8", v)]}
    BY <1>4 DEF FieldWrite, v
  <2> QED BY <1>1, <2>1, <2>2, CellsClear
<1>5. CASE class = "bool"
  <2>1. Room(class) = 1
    BY <1>5 DEF Room
  <2>2. FieldWrite(obj, name, class, fpos) = {[off |-> fpos, cells |-> Cells("u8", bit)]}
    BY <1>5 DEF FieldWrite, bit
  <2> QED BY <1>1, <2>1, <2>2, CellsClear
<1>6. CASE class \notin {"scalar", "scalar64", "scalar8", "bool"}
  BY <1>6 DEF FieldWrite
<1> QED BY <1>2, <1>3, <1>4, <1>5, <1>6

\* So does what an item of a field is given once it is placed.
LEMMA ContainerItemFree ==
  ASSUME NEW noted, NEW calls, NEW len, NEW obj \in Objects, RawApart(obj), NEW name, NEW class, NEW fpos,
         Free(noted, calls, fpos, fpos + Room(class)), fpos + Room(class) <= len
  PROVE  \A item \in ContainerItem(obj, name, class, fpos) : ItemFree(noted, calls, len, item)
<1> SUFFICES ASSUME NEW item \in ContainerItem(obj, name, class, fpos)
             PROVE  ItemFree(noted, calls, len, item)
  OBVIOUS
<1>1. CASE class = "array"
  <2>1. Room(class) = 12 /\ item = ArrayItem(obj, name, fpos)
    BY <1>1 DEF Room, ContainerItem
  <2>2. /\ item.fpos = fpos /\ item.kind \in {"raw", "array"}
        /\ item.kind = "raw" => item.value.bytes = Value(obj, name, "bytes", <<>>)
    BY <2>1 DEF ArrayItem, Item
  <2>3. ItemRoom(item) = 12
    BY <2>2 DEF ItemRoom
  <2> QED BY <2>1, <2>2, <2>3, RawNoReference DEF ItemFree
<1>2. CASE class \in {"str", "pointers", "offset"}
  <2>1. item.fpos = fpos /\ item.kind = class
    BY <1>2 DEF ContainerItem, Item
  <2>2. ItemRoom(item) = Room(class) /\ item.kind # "raw"
    BY <1>2, <2>1 DEF ItemRoom, Room
  <2> QED BY <2>1, <2>2 DEF ItemFree
<1>3. CASE class \notin {"array", "str", "pointers", "offset"}
  BY <1>3 DEF ContainerItem
<1> QED BY <1>1, <1>2, <1>3

\* All that an object holds lies within it.
LEMMA ContentFree ==
  ASSUME RoomySchema, objects \in Seq(Objects), RoomyGraph(objects),
         NEW noted \in PointerRecords(objects), NEW calls \in Seq(Frames(objects)), NEW len \in Nat,
         NEW o \in DOMAIN objects, NEW off \in Nat,
         Free(noted, calls, off, off + SizeOf(objects[o].type)), off + SizeOf(objects[o].type) <= len
  PROVE  /\ \A write \in Content(objects[o], off).writes : WriteClear(noted, write)
         /\ \A item \in Content(objects[o], off).items : ItemFree(noted, calls, len, item)
         /\ \A i \in DOMAIN Content(objects[o], off).children :
              EntryFree(objects, noted, calls, Content(objects[o], off).children[i])
<1> DEFINE obj == objects[o]
           type == obj.type
           class == Classify(type)
           size == SizeOf(type)
           raw == Value(obj, "#Raw", "bytes", <<>>)
           plain == class \in {"embed", "scalar", "scalar64", "scalar8", "bool", "offset"} /\ Known(type)
           fields == IF plain THEN Registry[type].fields ELSE <<>>
           fpos(i) == off + fields[i].offset
           child(i) == FieldChild(objects, obj, fields[i])
           inLine == [i \in DOMAIN fields |-> [obj |-> child(i), off |-> fpos(i)]]
           writes(i) == FieldWrite(obj, fields[i].name, Classify(fields[i].type), fpos(i))
           items(i) == ContainerItem(obj, fields[i].name, Classify(fields[i].type), fpos(i))
           content == Content(obj, off)
<1>1. obj \in Objects /\ RawApart(obj) /\ StaysWithin(objects, obj)
  BY LenProperties, ElementOfSeq DEF RoomyGraph
<1>2. size \in Nat /\ Room(class) <= size /\ (class = "opaque" => Len(raw) <= size)
  BY <1>1, SizesAndAlignments DEF StaysWithin
<1>3. Free(noted, calls, off, off + size) /\ off + size <= len
  OBVIOUS
<1>4. Known(type) => \A i \in DOMAIN Registry[type].fields :
                       LET c == FieldChild(objects, obj, Registry[type].fields[i])
                       IN c # 0 => Registry[type].fields[i].offset + SizeOf(objects[c].type) <= size
  BY <1>1 DEF StaysWithin
<1> HIDE DEF obj
<1>5. ASSUME NEW room \in Nat, room <= size
      PROVE  Free(noted, calls, off, off + room) /\ off + room <= len
  <2> HIDE DEF size
  <2>1. off + room \in Int /\ off + size \in Int /\ off <= off /\ off + room <= off + size
    BY <1>2, <1>5
  <2>2. Free(noted, calls, off, off + room)
    BY <1>3, <2>1, FreeWithin
  <2> QED BY <1>3, <2>1, <2>2
<1>6. CASE class = "enum"
  <2>1. /\ content.writes = {[off |-> off, cells |-> Cells("u64", EnumHash(obj))]}
        /\ content.items = {} /\ content.children = <<>>
    BY <1>6 DEF Content
  <2>2. Room(class) = 8 /\ "u64" \in DOMAIN Width /\ Width["u64"] = 8
    BY <1>6 DEF Room, Width
  <2>3. Clear(noted, off, off + 8)
    BY <1>2, <1>5, <2>2 DEF Free
  <2>4. WriteClear(noted, [off |-> off, cells |-> Cells("u64", EnumHash(obj))])
    BY <2>2, <2>3, CellsClear
  <2> QED BY <2>1, <2>4 DEF obj
<1>7. CASE class = "opaque"
  <2>1. content.writes = {[off |-> off, cells |-> raw]} /\ content.items = {} /\ content.children = <<>>
    BY <1>7 DEF Content
  <2>2. raw \in Seq(ByteCells) /\ Len(raw) \in Nat /\ DOMAIN raw = 1 .. Len(raw)
    BY <1>1, ValueTyped, LenProperties
  <2>3. NoReference(raw)
    BY <1>1, RawNoReference
  <2> HIDE DEF raw
  <2>4. Clear(noted, off, off + Len(raw))
    BY <1>2, <1>5, <1>7, <2>2 DEF Free
  <2>5. WriteClear(noted, [off |-> off, cells |-> raw])
    BY <2>2, <2>3, <2>4 DEF WriteClear
  <2> QED BY <2>1, <2>5 DEF obj
<1>8. CASE class \in {"str", "array", "pointers"}
  <2>1. PICK name \in {"m_value", "m_elements"} :
          content.writes = {} /\ content.items = ContainerItem(obj, name, class, off) /\ content.children = <<>>
    <3>1. CASE class = "str"
      BY <3>1 DEF Content
    <3>2. CASE class \in {"array", "pointers"}
      BY <3>2 DEF Content
    <3> QED BY <1>8, <3>1, <3>2
  <2>2. Room(class) = 12
    BY <1>8 DEF Room
  <2>3. Free(noted, calls, off, off + Room(class)) /\ off + Room(class) <= len
    BY <1>2, <1>5, <2>2
  <2>4. \A item \in content.items : ItemFree(noted, calls, len, item)
    BY <1>1, <2>1, <2>3, ContainerItemFree
  <2> QED BY <2>1, <2>4 DEF obj
<1>9. CASE class \notin {"enum", "opaque", "str", "array", "pointers"}
  <2>1. /\ content.writes = UNION {writes(i) : i \in DOMAIN fields}
        /\ content.items = UNION {items(i) : i \in {j \in DOMAIN fields : child(j) = 0}}
        /\ content.children = inLine
    BY <1>9 DEF Content
  <2>2. ASSUME NEW i \in DOMAIN fields
        PROVE  /\ fpos(i) \in Nat /\ Room(Classify(fields[i].type)) \in Nat
               /\ Free(noted, calls, fpos(i), fpos(i) + Room(Classify(fields[i].type)))
               /\ fpos(i) + Room(Classify(fields[i].type)) <= len
               /\ child(i) # 0 => Free(noted, calls, fpos(i), fpos(i) + SizeOf(objects[child(i)].type))
    <3> DEFINE room == Room(Classify(fields[i].type))
               place == fields[i].offset
               long == SizeOf(objects[child(i)].type)
    <3>1. plain
      BY EmptySeq
    <3>2. i \in DOMAIN Registry[type].fields /\ size = Registry[type].size /\ type \in DOMAIN Registry
          /\ fields = Registry[type].fields
      BY <3>1 DEF SizeOf, Known
    <3>3. place \in Nat
      BY <3>1, <3>2, FieldsTyped
    <3>4. room \in Nat
      BY DEF Room
    <3>5. place + room <= size
      BY <3>2 DEF RoomySchema
    <3>6. long \in Nat /\ (child(i) # 0 => place + long <= size)
      BY <1>4, <3>1, <3>2, SizesAndAlignments
    <3> HIDE DEF fields, room, long, size
    <3>7. fpos(i) = off + place /\ fpos(i) \in Nat
      BY <3>3
    <3> HIDE DEF fpos, place
    <3>8. Free(noted, calls, fpos(i), fpos(i) + room) /\ fpos(i) + room <= len
      <4>1. off + size \in Int /\ fpos(i) + room \in Int /\ off <= fpos(i) /\ fpos(i) + room <= off + size
        BY <1>2, <3>3, <3>4, <3>5, <3>7
      <4> QED BY <1>2, <1>3, <3>7, <4>1, FreeWithin
    <3>9. ASSUME child(i) # 0 PROVE Free(noted, calls, fpos(i), fpos(i) + long)
      <4>1. off + size \in Int /\ fpos(i) + long \in Int /\ off <= fpos(i) /\ fpos(i) + long <= off + size
        BY <1>2, <3>3, <3>6, <3>7, <3>9
      <4> QED BY <1>3, <3>7, <4>1, FreeWithin
    <3> QED BY <3>4, <3>7, <3>8, <3>9 DEF room, long
  <2> HIDE DEF fields
  <2>3. \A i \in DOMAIN fields : \A write \in writes(i) : WriteClear(noted, write)
    BY <2>2, FieldWriteClear DEF Free
  <2>4. \A i \in DOMAIN fields : \A item \in items(i) : ItemFree(noted, calls, len, item)
    BY <1>1, <2>2, ContainerItemFree
  <2>5. \A i \in DOMAIN fields : EntryFree(objects, noted, calls, [obj |-> child(i), off |-> fpos(i)])
    BY <2>2 DEF EntryFree
  <2> HIDE DEF content
  <2>6. \A i \in DOMAIN content.children : EntryFree(objects, noted, calls, content.children[i])
    BY <2>1, <2>5
  <2>7. \A write \in content.writes : WriteClear(noted, write)
    BY <2>1, <2>3
  <2>8. \A item \in content.items : ItemFree(noted, calls, len, item)
    BY <2>1, <2>4
  <2> QED BY <2>6, <2>7, <2>8 DEF content, obj
<1> QED BY <1>6, <1>7, <1>8, <1>9

LEMMA InlineWriteFree ==
  ASSUME RoomySchema, LayoutInv, TargetInv, SlotInv, InlineWrite
  PROVE  SlotInv'
<1> DEFINE now == Head(Top.todo)
           obj == objects[now.obj]
           content == Content(obj, now.off)
           size == SizeOf(obj.type)
           raw == IF Classify(obj.type) = "opaque" THEN Len(Value(obj, "#Raw", "bytes", <<>>)) ELSE 0
           end == now.off + Larger(size, raw)
           todo == content.children \o Tail(Top.todo)
           f == [Top EXCEPT !.todo = content.children \o Tail(@), !.items = @ \cup content.items]
<1>1. /\ Placing /\ Top.todo # <<>> /\ now.obj # 0
      /\ data' = Written(data, end, content.writes)
      /\ Update(f)
      /\ UNCHANGED <<objects, pointers>>
  BY DEF InlineWrite
<1>2. /\ now \in Entries(objects) /\ Tail(Top.todo) \in Seq(Entries(objects))
      /\ Top.todo \in Seq(Entries(objects))
  BY <1>1, Facts, HeadAndTail
<1>3. now.obj \in DOMAIN objects /\ now.off \in Nat
  BY <1>1, <1>2 DEF Entries
<1>4. obj \in Objects
  BY <1>1, <1>3, Facts, LenProperties, ElementOfSeq
<1>5. /\ 1 \in DOMAIN Top.todo /\ now = Top.todo[1]
      /\ \A i \in DOMAIN Tail(Top.todo) : i + 1 \in DOMAIN Top.todo /\ Tail(Top.todo)[i] = Top.todo[i + 1]
  BY <1>1, <1>2, EmptySeq, LenProperties, HeadTailProperties
<1>6. Free(pointers, frames, now.off, now.off + size)
  BY <1>1, <1>5, SlotFacts DEF EntryFree
<1>7. end \in Nat /\ now.off + size <= end /\ size \in Nat
  <2>1. raw \in Nat
    BY <1>4, ValueTyped, LenProperties
  <2>2. size \in Nat
    BY SizesAndAlignments
  <2> HIDE DEF obj, raw, size
  <2> QED BY <1>3, <2>1, <2>2 DEF Larger
<1>8. LayoutInv'
  BY InlineWriteKeeps
<1>9. Len(data') \in Nat /\ end <= Len(data') /\ Len(data) <= Len(data')
  BY <1>1, <1>7, SlotFacts, LengthWritten
<1> HIDE DEF end
<1>10. now.off + size <= Len(data')
  BY <1>3, <1>7, <1>9
<1>11. /\ \A write \in content.writes : WriteClear(pointers, write)
       /\ \A item \in content.items : ItemFree(pointers, frames, Len(data'), item)
       /\ \A i \in DOMAIN content.children : EntryFree(objects, pointers, frames, content.children[i])
  BY <1>1, <1>3, <1>6, <1>9, <1>10, SlotFacts, ContentFree DEF SlotInv
<1>12. content.children \in Seq(Entries(objects))
  BY <1>1, <1>3, <1>4, Facts, ContentTyped
<1> HIDE DEF content, obj, size, now
<1>13. \A i \in DOMAIN todo : EntryFree(objects, pointers, frames, todo[i])
  <2> DEFINE c == content.children
             t == Tail(Top.todo)
             m == Len(content.children)
  <2>1. /\ m \in Nat /\ DOMAIN c = 1 .. m /\ DOMAIN t = 1 .. Len(t) /\ Len(t) \in Nat
        /\ todo \in Seq(Entries(objects)) /\ Len(todo) = m + Len(t) /\ DOMAIN todo = 1 .. Len(todo)
        /\ \A i \in 1 .. Len(todo) : todo[i] = IF i <= m THEN c[i] ELSE t[i - m]
    BY <1>2, <1>12, ConcatProperties, LenProperties
  <2>2. \A i \in DOMAIN t : EntryFree(objects, pointers, frames, t[i])
    BY <1>1, <1>5, SlotFacts
  <2> HIDE DEF t, c, m, todo
  <2> SUFFICES ASSUME NEW i \in DOMAIN todo PROVE EntryFree(objects, pointers, frames, todo[i])
    OBVIOUS
  <2>3. CASE i <= m
    <3>1. i \in DOMAIN c /\ todo[i] = c[i]
      BY <2>1, <2>3
    <3> QED BY <1>11, <3>1 DEF c
  <2>4. CASE ~(i <= m)
    <3>1. i - m \in DOMAIN t /\ todo[i] = t[i - m]
      BY <2>1, <2>4
    <3> QED BY <2>2, <3>1
  <2> QED BY <2>3, <2>4
<1>14. f.todo = todo /\ f.items = Top.items \cup content.items /\ f.row = Top.row /\ f.wait = Top.wait
  BY <1>1, Facts DEF Frames
<1> HIDE DEF todo, f
<1>15. FrameFree(objects, pointers, frames, Len(data'), Top)
  BY <1>1, <1>9, TopStays
<1>16. FrameFree(objects, pointers, frames, Len(data'), f)
  BY <1>11, <1>13, <1>14, <1>15 DEF FrameFree
<1>17. SlotsExact(data', pointers)
  BY <1>1, <1>7, <1>11, BlobStep DEF end
<1> QED BY <1>1, <1>8, <1>9, <1>14, <1>16, <1>17, UpdateFree

-----------------------------------------------------------------------------
(* Placing items, references untouched *)

LEMMA ItemFreeFacts ==
  ASSUME LayoutInv, TargetInv, SlotInv, NEW item, IsNext(item)
  PROVE  /\ Placing /\ item \in Items /\ item.fpos \in Nat /\ ItemDone(item) \in Frames(objects)
         /\ Free(pointers, frames, item.fpos, item.fpos + ItemRoom(item))
         /\ Clear(pointers, item.fpos, item.fpos + ItemRoom(item))
         /\ item.fpos + ItemRoom(item) <= Len(data)
         /\ item.kind = "raw" => NoReference(item.value.bytes)
         /\ ItemDone(item).todo = <<>> /\ ItemDone(item).row = Top.row /\ ItemDone(item).row.ids = <<>>
         /\ ItemDone(item).items \subseteq Top.items /\ ItemDone(item).wait = NotWaiting /\ Top.wait = NotWaiting
         /\ \A len \in Nat : Len(data) <= len => FrameFree(objects, pointers, frames, len, ItemDone(item))
<1>1. Placing /\ item \in Top.items /\ item \in Items /\ item.fpos \in Nat /\ ItemDone(item) \in Frames(objects)
      /\ Top.wait = NotWaiting /\ Top.todo = <<>> /\ ItemDone(item).row.ids = <<>>
  BY ItemFacts, ItemParts DEF IsNext, InLineDone
<1>2. /\ ItemDone(item).todo = Top.todo /\ ItemDone(item).row = Top.row
      /\ ItemDone(item).items = Top.items \ {item} /\ ItemDone(item).wait = Top.wait
  BY <1>1, Facts DEF ItemDone, Frames
<1>3. ItemFree(pointers, frames, Len(data), item)
  BY <1>1, SlotFacts
<1>4. ASSUME NEW len \in Nat, Len(data) <= len
      PROVE  FrameFree(objects, pointers, frames, len, ItemDone(item))
  <2>1. FrameFree(objects, pointers, frames, len, Top)
    BY <1>1, <1>4, TopStays
  <2> QED BY <1>2, <2>1 DEF FrameFree
<1> QED BY <1>1, <1>2, <1>3, <1>4 DEF ItemFree, Free

\* An item is done and the blob has been written where it is free.
LEMMA ItemStep ==
  ASSUME LayoutInv, LayoutInv', TargetInv, SlotInv, NEW item, IsNext(item), Update(ItemDone(item)),
         UNCHANGED <<objects, pointers>>, NEW end \in Nat, NEW writes, data' = Written(data, end, writes),
         \A w \in writes : WriteClear(pointers, w)
  PROVE  SlotInv'
<1>1. Len(data) <= Len(data') /\ Len(data') \in Nat /\ SlotsExact(data', pointers)
  BY BlobStep
<1>2. /\ Placing /\ ItemDone(item).wait = Top.wait
      /\ FrameFree(objects, pointers, frames, Len(data'), ItemDone(item))
  BY <1>1, ItemFreeFacts
<1> QED BY <1>1, <1>2, UpdateFree

LEMMA CharsClear ==
  ASSUME LayoutInv, TargetInv, SlotInv, NEW at \in Nat, Len(data) <= at, NEW chars \in Seq(STRING)
  PROVE  WriteClear(pointers, [off |-> at, cells |-> [i \in DOMAIN chars |-> <<"char", 1, chars[i]>>]])
<1> DEFINE cells == [i \in DOMAIN chars |-> <<"char", 1, chars[i]>>]
           E == {cells[i] : i \in 1 .. Len(chars)}
<1>1. Len(chars) \in Nat /\ DOMAIN chars = 1 .. Len(chars)
  BY LenProperties
<1>2. DOMAIN cells = 1 .. Len(chars) /\ cells = [i \in 1 .. Len(chars) |-> cells[i]]
  BY <1>1
<1>3. NoReference(cells)
  BY DEF NoReference
<1> HIDE DEF cells
<1>4. cells \in Seq(E)
  BY <1>1, <1>2, SeqDef
<1>5. Len(cells) = Len(chars)
  BY <1>1, <1>2, <1>4, LenProperties
<1>6. Clear(pointers, at, at + Len(cells))
  BY FreeBeyond DEF LayoutInv, LayoutTypeOK
<1>7. WriteClear(pointers, [off |-> at, cells |-> cells])
  BY <1>1, <1>2, <1>3, <1>5, <1>6 DEF WriteClear
<1> QED BY <1>7 DEF cells

LEMMA PlaceStrFree ==
  ASSUME LayoutInv, TargetInv, SlotInv, NEW item, PlaceStr(item)
  PROVE  SlotInv'
<1> DEFINE at == Larger(next, Len(data))
           chars == item.value
           end == at + Len(chars) + 1
           cells == [i \in DOMAIN chars |-> <<"char", 1, chars[i]>>]
           writes == Reference(item.fpos, at, Len(chars)) \cup {[off |-> at, cells |-> cells]}
<1>1. /\ IsNext(item) /\ item.kind = "str"
      /\ data' = Written(data, end, writes)
      /\ Update(ItemDone(item)) /\ UNCHANGED <<objects, pointers>>
  BY DEF PlaceStr
<1>2. /\ Placing /\ item \in Items /\ item.fpos \in Nat /\ Clear(pointers, item.fpos, item.fpos + 12)
  BY <1>1, ItemFreeFacts DEF ItemRoom
<1>3. chars \in Seq(STRING)
  BY <1>1, <1>2 DEF Items
<1>4. at \in Nat /\ Len(data) <= at /\ Len(chars) \in Nat /\ end \in Nat
  BY <1>2, <1>3, Facts, LenProperties DEF Larger
<1> HIDE DEF at, end, chars
<1>5. WriteClear(pointers, [off |-> at, cells |-> cells])
  BY <1>3, <1>4, CharsClear
<1> HIDE DEF cells
<1>6. pointers \in PointerRecords(objects)
  BY DEF TargetInv
<1>7. \A w \in writes : WriteClear(pointers, w)
  BY <1>2, <1>5, <1>6, ReferenceClear
<1>8. LayoutInv'
  BY PlaceStrKeeps
<1> HIDE DEF writes
<1> QED BY <1>1, <1>4, <1>7, <1>8, ItemStep

LEMMA PlaceEmptyArrayFree ==
  ASSUME LayoutInv, TargetInv, SlotInv, NEW item, PlaceEmptyArray(item)
  PROVE  SlotInv'
<1> DEFINE at == IF Reified(objects) THEN Cursor(8) ELSE item.fpos
<1>1. /\ IsNext(item) /\ item.kind \in {"array", "pointers"}
      /\ data' = Written(data, item.fpos + 12, Reference(item.fpos, at, 0))
      /\ Update(ItemDone(item)) /\ UNCHANGED <<objects, pointers>>
  BY DEF PlaceEmptyArray
<1>2. item.fpos \in Nat /\ item.fpos + 12 \in Nat /\ Clear(pointers, item.fpos, item.fpos + 12)
  BY <1>1, ItemFreeFacts DEF ItemRoom
<1> HIDE DEF at
<1>3. pointers \in PointerRecords(objects)
  BY DEF TargetInv
<1>4. \A w \in Reference(item.fpos, at, 0) : WriteClear(pointers, w)
  BY <1>2, <1>3, ReferenceClear
<1>5. LayoutInv'
  BY PlaceEmptyArrayKeeps
<1> QED BY <1>1, <1>2, <1>4, <1>5, ItemStep

LEMMA PlaceRawArrayFree ==
  ASSUME LayoutInv, TargetInv, SlotInv, NEW item, PlaceRawArray(item)
  PROVE  SlotInv'
<1> DEFINE at == Cursor(8)
           bytes == item.value.bytes
           end == Larger(item.fpos + 12, at + Len(bytes))
           writes == Reference(item.fpos, at, item.value.count) \cup {[off |-> at, cells |-> bytes]}
<1>1. /\ IsNext(item) /\ item.kind = "raw" /\ data' = Written(data, end, writes)
      /\ Update(ItemDone(item)) /\ UNCHANGED <<objects, pointers>>
  BY DEF PlaceRawArray
<1>2. /\ Placing /\ item \in Items /\ item.fpos \in Nat /\ Clear(pointers, item.fpos, item.fpos + 12)
      /\ NoReference(bytes)
  BY <1>1, ItemFreeFacts DEF ItemRoom
<1>3. bytes \in Seq(ByteCells)
  BY <1>1, <1>2 DEF Items
<1>4. at \in Nat /\ Len(data) <= at /\ Len(bytes) \in Nat /\ DOMAIN bytes = 1 .. Len(bytes)
  BY <1>2, <1>3, Facts, CursorPastBlob, LenProperties
<1> HIDE DEF at, bytes
<1>5. end \in Nat
  BY <1>2, <1>4 DEF Larger
<1>6. Clear(pointers, at, at + Len(bytes))
  BY <1>4, FreeBeyond DEF LayoutInv, LayoutTypeOK
<1>7. WriteClear(pointers, [off |-> at, cells |-> bytes])
  BY <1>2, <1>4, <1>6 DEF WriteClear
<1>8. pointers \in PointerRecords(objects)
  BY DEF TargetInv
<1>9. \A w \in writes : WriteClear(pointers, w)
  BY <1>2, <1>7, <1>8, ReferenceClear
<1>10. LayoutInv'
  BY PlaceRawArrayKeeps
<1> HIDE DEF writes, end
<1> QED BY <1>1, <1>5, <1>9, <1>10, ItemStep

LEMMA OffsetClear ==
  ASSUME NEW noted, NEW fpos \in Nat, Clear(noted, fpos, fpos + 4), NEW v
  PROVE  \A w \in {[off |-> fpos, cells |-> Cells("i32", v)]} : WriteClear(noted, w)
<1>1. "i32" \in DOMAIN Width /\ Width["i32"] = 4
  BY DEF Width
<1> QED BY <1>1, CellsClear

LEMMA PlaceNothingFree ==
  ASSUME LayoutInv, TargetInv, SlotInv, NEW item, PlaceNothing(item)
  PROVE  SlotInv'
<1> DEFINE writes == {[off |-> item.fpos, cells |-> Cells("i32", 0)]}
<1>1. /\ IsNext(item) /\ item.kind = "offset" /\ data' = Written(data, item.fpos + 4, writes)
      /\ Update(ItemDone(item)) /\ UNCHANGED <<objects, pointers>>
  BY DEF PlaceNothing
<1>2. item.fpos \in Nat /\ item.fpos + 4 \in Nat /\ Clear(pointers, item.fpos, item.fpos + 4)
  BY <1>1, ItemFreeFacts DEF ItemRoom
<1>3. \A w \in writes : WriteClear(pointers, w)
  BY <1>2, OffsetClear
<1>4. LayoutInv'
  BY PlaceNothingKeeps
<1> HIDE DEF writes
<1> QED BY <1>1, <1>2, <1>3, <1>4, ItemStep

LEMMA PlaceArrayFree ==
  ASSUME LayoutInv, TargetInv, SlotInv, NEW item, PlaceArray(item)
  PROVE  SlotInv'
<1> DEFINE first == Cursor(AlignOf(ChildType(item.value[1])))
           row == [ids |-> item.value, at |-> first]
           f == [ItemDone(item) EXCEPT !.row = row]
           writes == Reference(item.fpos, first, Len(item.value))
<1>1. /\ IsNext(item) /\ item.kind = "array"
      /\ data' = Written(data, item.fpos + 12, writes)
      /\ Update(f) /\ UNCHANGED <<objects, pointers>>
  BY DEF PlaceArray
<1>2. /\ Placing /\ item.fpos \in Nat /\ item.fpos + 12 \in Nat /\ Clear(pointers, item.fpos, item.fpos + 12)
      /\ ItemDone(item) \in Frames(objects) /\ ItemDone(item).wait = Top.wait
      /\ \A len \in Nat : Len(data) <= len => FrameFree(objects, pointers, frames, len, ItemDone(item))
  BY <1>1, ItemFreeFacts DEF ItemRoom
<1>3. first \in Nat /\ Len(data) <= first
  BY <1>2, Facts, SizesAndAlignments, CursorPastBlob
<1>4. /\ f.todo = ItemDone(item).todo /\ f.row = row
      /\ f.items = ItemDone(item).items /\ f.wait = ItemDone(item).wait
  BY <1>2 DEF Frames
<1>5. pointers \in PointerRecords(objects)
  BY DEF TargetInv
<1>6. \A w \in writes : WriteClear(pointers, w)
  BY <1>2, <1>5, ReferenceClear
<1> HIDE DEF first, f, writes
<1>7. Len(data) <= Len(data') /\ Len(data') \in Nat /\ SlotsExact(data', pointers)
  BY <1>1, <1>2, <1>6, BlobStep
<1>8. RowFree(pointers, frames, row)
  BY <1>3, FreeBeyond DEF RowFree, LayoutInv, LayoutTypeOK
<1> HIDE DEF row
<1>9. FrameFree(objects, pointers, frames, Len(data'), f)
  BY <1>2, <1>4, <1>7, <1>8 DEF FrameFree
<1>10. LayoutInv'
  BY PlaceArrayKeeps
<1> QED BY <1>1, <1>2, <1>4, <1>7, <1>9, <1>10, UpdateFree

LEMMA EndOffsetFree ==
  ASSUME LayoutInv, TargetInv, SlotInv, EndOffset
  PROVE  SlotInv'
<1> DEFINE fpos == Top.wait.fpos
           f == [Top EXCEPT !.wait = NotWaiting]
           writes == {[off |-> fpos, cells |-> Cells("i32", Top.wait.at - fpos)]}
<1>1. /\ InLineDone /\ Top.wait.on = "offset" /\ data' = Written(data, fpos + 4, writes)
      /\ Update(f) /\ UNCHANGED <<objects, pointers>>
  BY DEF EndOffset
<1>2. Placing /\ Top \in Frames(objects) /\ fpos \in Nat /\ fpos + 4 \in Nat
  BY <1>1, WaitFacts
<1>3. Clear(pointers, fpos, fpos + 4)
  BY <1>1, <1>2, SlotFacts DEF WaitFree, Free
<1>4. \A w \in writes : WriteClear(pointers, w)
  BY <1>2, <1>3, OffsetClear
<1> HIDE DEF writes, fpos
<1>5. Len(data) <= Len(data') /\ Len(data') \in Nat /\ SlotsExact(data', pointers)
  BY <1>1, <1>2, <1>4, BlobStep
<1>6. f.todo = Top.todo /\ f.row = Top.row /\ f.items = Top.items /\ f.wait = NotWaiting
  BY <1>2 DEF Frames
<1> HIDE DEF f
<1>7. FrameFree(objects, pointers, frames, Len(data'), Top)
  BY <1>2, <1>5, TopStays
<1>8. WaitFree(pointers, frames, Len(data'), NotWaiting) /\ NotWaiting.on # "pointers"
  BY DEF WaitFree, NotWaiting
<1>9. FrameFree(objects, pointers, frames, Len(data'), f)
  BY <1>6, <1>7, <1>8 DEF FrameFree
<1>10. LayoutInv'
  BY EndOffsetKeeps
<1> QED BY <1>1, <1>2, <1>5, <1>6, <1>8, <1>9, <1>10, UpdateFree

LEMMA ReturnFree ==
  ASSUME LayoutInv, TargetInv, SlotInv, Return
  PROVE  SlotInv'
<1> DEFINE n == Len(frames)
<1>1. UNCHANGED <<objects, pointers, data>>
  BY DEF Return
<1>2. /\ n \in Nat /\ DOMAIN frames = 1 .. n /\ DOMAIN frames' = 1 .. n - 1
      /\ \A k \in 1 .. n - 1 : frames'[k] = frames[k]
  BY Returned
<1>3. \A k \in DOMAIN frames' : k \in DOMAIN frames /\ frames'[k] = frames[k]
  BY <1>2
<1>4. SameBlocks(frames, frames')
  BY <1>3 DEF SameBlocks
<1>5. LayoutInv' /\ SlotsExact(data', pointers) /\ Len(data) \in Nat
  BY <1>1, ReturnKeeps DEF SlotInv, LayoutInv, LayoutTypeOK
<1>6. Len(data) <= Len(data')
  BY <1>1, <1>5
<1> QED BY <1>1, <1>3, <1>4, <1>5, <1>6, QuietStep

\* A call is made for an object behind the blob.
LEMMA CallPlaceFree ==
  ASSUME LayoutInv, LayoutInv', TargetInv, SlotInv, Placing,
         NEW waiting \in Frames(objects), NEW id, NEW at \in Nat, Len(data) <= at, CallPlace(waiting, id, at),
         waiting.wait.on = "pointers" =>
           Top.wait.on = "pointers" /\ waiting.wait.block = Top.wait.block /\ waiting.wait.ids = Top.wait.ids,
         FrameFree(objects, pointers, frames, Len(data), waiting)
  PROVE  SlotInv'
<1> DEFINE n == Len(frames)
           e == Entry(Child(id), at)
           call == Call(<<e>>)
<1>1. UNCHANGED <<objects, pointers, data>>
  BY DEF CallPlace
<1>2. /\ n \in Nat /\ n \in 1 .. n /\ DOMAIN frames = 1 .. n
      /\ DOMAIN frames' = 1 .. n + 1 /\ frames'[n + 1] = call
      /\ \A k \in 1 .. n : frames'[k] = IF k = n THEN waiting ELSE frames[k]
  BY CallPlaced
<1>3. /\ call.todo = <<e>> /\ call.row.ids = <<>> /\ call.items = {} /\ call.wait = NotWaiting
  BY DEF Call, NoRow
<1> HIDE DEF call
<1>4. EntryFree(objects, pointers, frames, e)
  BY FreeBeyond DEF EntryFree, Entry, LayoutInv, LayoutTypeOK
<1> HIDE DEF e
<1>5. FrameFree(objects, pointers, frames, Len(data), call)
  <2>1. \A i \in DOMAIN call.todo : EntryFree(objects, pointers, frames, call.todo[i])
    BY <1>3, <1>4
  <2>2. RowFree(pointers, frames, call.row) /\ WaitFree(pointers, frames, Len(data), call.wait)
    BY <1>3 DEF RowFree, WaitFree, NotWaiting
  <2> QED BY <1>3, <2>1, <2>2 DEF FrameFree
<1>6. Top = frames[n]
  BY DEF Top
<1> HIDE DEF n
<1>7. \A k \in DOMAIN frames' : k = n + 1 \/ k = n \/ (k \in 1 .. n /\ k # n)
  <2> SUFFICES ASSUME NEW k \in 1 .. n + 1 PROVE k = n + 1 \/ k = n \/ (k \in 1 .. n /\ k # n)
    BY <1>2
  <2> QED BY <1>2
<1>8. SameBlocks(frames, frames')
  <2> SUFFICES ASSUME NEW k \in DOMAIN frames', frames'[k].wait.on = "pointers"
               PROVE  /\ k \in DOMAIN frames /\ frames[k].wait.on = "pointers"
                      /\ frames'[k].wait.block = frames[k].wait.block /\ frames'[k].wait.ids = frames[k].wait.ids
    BY DEF SameBlocks
  <2>1. CASE k = n + 1
    BY <1>2, <1>3, <2>1 DEF NotWaiting
  <2>2. CASE k = n
    BY <1>2, <1>6, <2>2
  <2>3. CASE k \in 1 .. n /\ k # n
    BY <1>2, <2>3
  <2> QED BY <1>7, <2>1, <2>2, <2>3
<1>9. \A k \in DOMAIN frames' : \/ k \in DOMAIN frames /\ frames'[k] = frames[k]
                                \/ FrameFree(objects, pointers, frames, Len(data), frames'[k])
  BY <1>2, <1>5, <1>7
<1>10. SlotsExact(data', pointers) /\ Len(data) \in Nat
  BY <1>1 DEF SlotInv, LayoutInv, LayoutTypeOK
<1>11. Len(data) <= Len(data')
  BY <1>1, <1>10
<1> QED BY <1>1, <1>8, <1>9, <1>10, <1>11, QuietStep

LEMMA BeginOffsetFree ==
  ASSUME LayoutInv, TargetInv, SlotInv, NEW item, BeginOffset(item)
  PROVE  SlotInv'
<1> DEFINE id == item.value[1]
           at == Cursor(AlignOf(ChildType(id)))
           wait == [on |-> "offset", fpos |-> item.fpos, at |-> at]
           f == [ItemDone(item) EXCEPT !.wait = wait]
<1>1. IsNext(item) /\ item.kind = "offset" /\ CallPlace(f, id, at)
  BY DEF BeginOffset
<1>2. /\ Placing /\ ItemDone(item) \in Frames(objects) /\ item.fpos \in Nat
      /\ Free(pointers, frames, item.fpos, item.fpos + 4) /\ item.fpos + 4 <= Len(data)
      /\ \A len \in Nat : Len(data) <= len => FrameFree(objects, pointers, frames, len, ItemDone(item))
      /\ Len(data) \in Nat
  BY <1>1, ItemFreeFacts, SlotFacts DEF ItemRoom
<1>3. at \in Nat /\ Len(data) <= at
  BY <1>2, Facts, SizesAndAlignments, CursorPastBlob
<1> HIDE DEF at, id
<1>4. wait \in Waits(objects) /\ wait.on = "offset"
  BY <1>2, <1>3 DEF Waits
<1>5. WaitFree(pointers, frames, Len(data), wait)
  BY <1>2 DEF WaitFree
<1> HIDE DEF wait
<1>6. /\ f \in Frames(objects) /\ f.wait = wait
      /\ f.todo = ItemDone(item).todo /\ f.row = ItemDone(item).row /\ f.items = ItemDone(item).items
  BY <1>2, <1>4, Facts DEF Frames
<1> HIDE DEF f
<1>7. FrameFree(objects, pointers, frames, Len(data), ItemDone(item))
  BY <1>2
<1>8. FrameFree(objects, pointers, frames, Len(data), f)
  BY <1>5, <1>6, <1>7 DEF FrameFree
<1>9. LayoutInv'
  BY BeginOffsetKeeps
<1>10. f.wait.on # "pointers"
  BY <1>4, <1>6
<1> QED BY <1>1, <1>2, <1>3, <1>6, <1>8, <1>9, <1>10, CallPlaceFree

LEMMA PlaceTargetFree ==
  ASSUME LayoutInv, TargetInv, SlotInv, PlaceTarget
  PROVE  SlotInv'
<1> DEFINE w == Top.wait
           k == w.left
           id == w.ids[k]
           at == Cursor(AlignOf(ChildType(id)))
           placed == [w.targets EXCEPT ![k] = at]
           wait == [w EXCEPT !.left = k - 1, !.targets = placed]
           f == [Top EXCEPT !.wait = wait]
<1>1. InLineDone /\ w.on = "pointers" /\ k > 0 /\ CallPlace(f, id, at)
  BY DEF PlaceTarget
<1>2. /\ Placing /\ Top \in Frames(objects) /\ w \in PointerWaits /\ k \in Nat /\ w.targets \in Seq(Nat)
      /\ k <= Len(w.ids) /\ \A i \in DOMAIN w.ids : Index(objects, w.ids[i]) # 0
  BY <1>1, WaitFacts
<1>3. at \in Nat /\ Len(data) <= at
  BY <1>2, Facts, SizesAndAlignments, CursorPastBlob
<1> HIDE DEF at, id
<1>4. wait \in Waits(objects) /\ wait.on = "pointers" /\ wait.fpos = w.fpos /\ wait.block = w.block /\ wait.ids = w.ids
  <2>1. placed \in Seq(Nat) /\ k - 1 \in Nat
    BY <1>1, <1>2, <1>3, ChangedSeq
  <2> HIDE DEF placed
  <2>2. /\ wait \in PointerWaits /\ wait.on = w.on /\ wait.fpos = w.fpos /\ wait.block = w.block
        /\ wait.ids = w.ids /\ wait.left = k - 1
    BY <1>1, <1>2, <2>1 DEF PointerWaits
  <2>3. Len(w.ids) \in Nat
    BY <1>2, LenProperties DEF PointerWaits
  <2>4. wait.left <= Len(wait.ids)
    BY <1>2, <2>2, <2>3
  <2> HIDE DEF wait
  <2> QED BY <1>1, <1>2, <2>2, <2>4 DEF Waits
<1>5. WaitFree(pointers, frames, Len(data), w)
  BY <1>2, SlotFacts
<1> HIDE DEF wait
<1>6. WaitFree(pointers, frames, Len(data), wait)
  BY <1>1, <1>4, <1>5 DEF WaitFree, BlockEnd
<1>7. f \in Frames(objects) /\ f.wait = wait /\ f.todo = Top.todo /\ f.row = Top.row /\ f.items = Top.items
  BY <1>2, <1>4, Facts DEF Frames
<1> HIDE DEF f
<1>8. FrameFree(objects, pointers, frames, Len(data), f)
  BY <1>2, <1>6, <1>7, SlotFacts DEF FrameFree
<1>9. LayoutInv'
  BY PlaceTargetKeeps
<1> QED BY <1>1, <1>2, <1>3, <1>4, <1>7, <1>8, <1>9, CallPlaceFree

LEMMA SameFree ==
  ASSUME SlotInv, UNCHANGED <<objects, data, pointers, frames>>
  PROVE  SlotInv'
BY DEF SlotInv

-----------------------------------------------------------------------------
(* Slots are set aside, and filled *)

LEMMA BeginPointersFree ==
  ASSUME LayoutInv, TargetInv, SlotInv, NEW item, BeginPointers(item)
  PROVE  SlotInv'
<1> DEFINE n == Len(frames)
           block == Cursor(8)
           end == block + 8 * Len(item.value)
           wait == [on |-> "pointers", fpos |-> item.fpos, block |-> block, ids |-> item.value,
                    left |-> Len(item.value), targets |-> [k \in DOMAIN item.value |-> 0]]
           g == ItemDone(item)
           f == [g EXCEPT !.wait = wait]
<1>1. /\ IsNext(item) /\ item.kind = "pointers" /\ data' = Written(data, end, {})
      /\ Update(f) /\ UNCHANGED <<objects, pointers>>
  BY DEF BeginPointers
<1>2. /\ Placing /\ item \in Items /\ item.fpos \in Nat /\ g \in Frames(objects)
      /\ Free(pointers, frames, item.fpos, item.fpos + 12) /\ item.fpos + 12 <= Len(data)
      /\ g.todo = <<>> /\ g.row.ids = <<>>
      /\ \A len \in Nat : Len(data) <= len => FrameFree(objects, pointers, frames, len, g)
      /\ g.wait = NotWaiting
  BY <1>1, ItemFreeFacts DEF ItemRoom
<1>3. Len(data) \in Nat /\ next \in Nat /\ Len(item.value) \in Nat
  BY <1>1, <1>2, Facts, ItemParts, LenProperties
<1>4. block \in Nat /\ Len(data) <= block
  BY <1>2, Facts, CursorPastBlob
<1> HIDE DEF block
<1>5. end \in Nat
  BY <1>3, <1>4
<1>6. /\ wait.on = "pointers" /\ wait.fpos = item.fpos /\ wait.block = block /\ BlockEnd(wait) = end
  BY DEF BlockEnd
<1> HIDE DEF end, wait
<1>7. LayoutInv'
  BY BeginPointersKeeps
<1>8. f \in Frames(objects)
  BY <1>1, <1>2, <1>7, CallTyped
<1>9. f.todo = g.todo /\ f.row = g.row /\ f.items = g.items /\ f.wait = wait
  BY <1>2 DEF Frames
<1> HIDE DEF f, g
<1>10. Len(data) <= Len(data') /\ end <= Len(data') /\ Len(data') \in Nat /\ SlotsExact(data', pointers)
  BY <1>1, <1>5, BlobStep
<1>11. /\ n \in Nat /\ n \in DOMAIN frames /\ DOMAIN frames' = DOMAIN frames /\ DOMAIN frames = 1 .. n
       /\ \A k \in DOMAIN frames : frames'[k] = IF k = n THEN f ELSE frames[k]
       /\ \A k \in DOMAIN frames : frames[k] \in Frames(objects)
  BY <1>1, <1>2, <1>8, CallsAfter
<1> HIDE DEF n
<1>12. ASSUME NEW from \in Nat, NEW to \in Nat, to <= Len(data), Free(pointers, frames, from, to)
       PROVE  Free(pointers, frames', from, to)
  <2>1. Apart(wait, from, to)
    BY <1>3, <1>4, <1>6, <1>12 DEF Apart
  <2>2. \A k \in DOMAIN frames' : Apart(frames'[k].wait, from, to)
    BY <1>9, <1>11, <1>12, <2>1 DEF Free
  <2> QED BY <1>12, <2>2 DEF Free
<1>13. ASSUME NEW k \in DOMAIN frames, k # n
       PROVE  FrameFree(objects, pointers, frames', Len(data'), frames'[k])
  <2>1. frames'[k] = frames[k] /\ frames[k] \in Frames(objects)
    BY <1>11, <1>13
  <2>2. frames[k].todo = <<>> /\ frames[k].row.ids = <<>>
    <3>1. k \in 1 .. n - 1
      BY <1>11, <1>13
    <3> QED BY <3>1 DEF LayoutInv, CallersWait, n
  <2>3. FrameFree(objects, pointers, frames, Len(data), frames[k])
    BY DEF SlotInv
  <2>4. frames[k].wait.on = "pointers" => Clear(pointers, frames[k].wait.block, BlockEnd(frames[k].wait))
    BY <2>3 DEF FrameFree, WaitFree
  <2>5. FrameFree(objects, pointers, frames', Len(data'), frames[k])
    BY <1>3, <1>10, <1>12, <2>1, <2>2, <2>3, <2>4, FrameFreeMoves
  <2> QED BY <2>1, <2>5
<1>14. FrameFree(objects, pointers, frames', Len(data'), f)
  <2>1. FrameFree(objects, pointers, frames, Len(data), g)
    BY <1>2, <1>3
  <2>2. g.wait.on # "pointers"
    BY <1>2 DEF NotWaiting
  <2>3. FrameFree(objects, pointers, frames', Len(data'), g)
    BY <1>2, <1>3, <1>10, <1>12, <2>1, <2>2, FrameFreeMoves
  <2>4. item.fpos + 12 \in Nat /\ item.fpos + 12 <= Len(data')
    BY <1>2, <1>3, <1>10
  <2>5. Free(pointers, frames', item.fpos, item.fpos + 12)
    BY <1>2, <1>12, <2>4
  <2>6. Clear(pointers, block, end)
    BY <1>3, <1>4, FreeBeyond
  <2>7. WaitFree(pointers, frames', Len(data'), wait)
    BY <1>6, <1>10, <2>4, <2>5, <2>6 DEF WaitFree
  <2> QED BY <1>9, <2>3, <2>7 DEF FrameFree
<1>15. BlocksApart(frames')
  <2> SUFFICES ASSUME NEW k \in DOMAIN frames, NEW l \in DOMAIN frames, k # l,
                      frames'[k].wait.on = "pointers", frames'[l].wait.on = "pointers"
               PROVE  \/ BlockEnd(frames'[k].wait) <= frames'[l].wait.block
                      \/ BlockEnd(frames'[l].wait) <= frames'[k].wait.block
    BY <1>11 DEF BlocksApart, Apart
  <2>1. \A m \in DOMAIN frames : m # n /\ frames[m].wait.on = "pointers" => BlockEnd(frames[m].wait) <= block
    <3> SUFFICES ASSUME NEW m \in DOMAIN frames, frames[m].wait.on = "pointers"
                 PROVE  BlockEnd(frames[m].wait) <= block
      OBVIOUS
    <3>1. BlockEnd(frames[m].wait) <= Len(data)
      BY DEF SlotInv, FrameFree, WaitFree
    <3>2. BlockEnd(frames[m].wait) \in Nat
      BY SlotsTyped DEF TargetInv, LayoutInv, LayoutTypeOK
    <3> QED BY <1>3, <1>4, <3>1, <3>2
  <2>2. CASE k = n
    BY <1>6, <1>9, <1>11, <2>1, <2>2
  <2>3. CASE l = n
    BY <1>6, <1>9, <1>11, <2>1, <2>3
  <2>4. CASE k # n /\ l # n
    <3>1. frames'[k] = frames[k] /\ frames'[l] = frames[l]
      BY <1>11, <2>4
    <3>2. frames[k].wait.on = "pointers" /\ Apart(frames[l].wait, frames[k].wait.block, BlockEnd(frames[k].wait))
      BY <3>1 DEF SlotInv, BlocksApart
    <3> QED BY <3>1, <3>2 DEF Apart
  <2> QED BY <2>2, <2>3, <2>4
<1>16. \A k \in DOMAIN frames' : FrameFree(objects, pointers, frames', Len(data'), frames'[k])
  BY <1>11, <1>13, <1>14
<1> QED BY <1>1, <1>10, <1>15, <1>16 DEF SlotInv

\* What EndPointers writes.
SlotWrites(wait) ==
    {[off |-> Slot(wait.block, j), cells |-> Cells("i64", wait.targets[j] - Slot(wait.block, j))] :
       j \in DOMAIN wait.ids}
InSlot(wait, j, p) == Slot(wait.block, j) < p /\ p <= Slot(wait.block, j) + 8

LEMMA CellsAre ==
  ASSUME NEW tag \in DOMAIN Width, NEW v
  PROVE  /\ Len(Cells(tag, v)) = Width[tag]
         /\ \A q \in 1 .. Width[tag] : Cells(tag, v)[q] = <<tag, q, v>>
<1> DEFINE cells == Cells(tag, v)
           n == Width[tag]
<1>1. n \in Nat
  BY WidthsOfTags DEF Widths
<1>2. DOMAIN cells = 1 .. n /\ cells \in Seq({cells[i] : i \in 1 .. n}) /\ \A q \in 1 .. n : cells[q] = <<tag, q, v>>
  BY <1>1, SeqDef DEF Cells
<1> HIDE DEF cells, n
<1>3. Len(cells) = n
  BY <1>1, <1>2, LenProperties
<1> QED BY <1>2, <1>3 DEF cells, n

\* A byte of a slot belongs to no other write, one outside of them to none of the slots.
LEMMA SlotsWritten ==
  ASSUME NEW blob, Len(blob) \in Nat, NEW w, w.block \in Nat, w.fpos \in Nat,
         Len(w.ids) \in Nat, DOMAIN w.ids = 1 .. Len(w.ids),
         BlockEnd(w) <= Len(blob), w.fpos + 12 <= Len(blob),
         w.fpos + 12 <= w.block \/ BlockEnd(w) <= w.fpos,
         NEW p \in 1 .. Len(blob)
  PROVE  LET after == Written(blob, w.fpos + 12, SlotWrites(w) \cup Reference(w.fpos, w.block, Len(w.ids)))
         IN /\ \A j \in DOMAIN w.ids : InSlot(w, j, p) =>
                 after[p] = <<"i64", p - Slot(w.block, j), w.targets[j] - Slot(w.block, j)>>
            /\ (\A j \in DOMAIN w.ids : ~InSlot(w, j, p)) =>
                 \/ after[p] = blob[p]
                 \/ after[p][1] # "i64" /\ w.fpos < p /\ p <= w.fpos + 12
<1> DEFINE m == Len(w.ids)
           refs == Reference(w.fpos, w.block, m)
           writes == SlotWrites(w) \cup refs
           after == Written(blob, w.fpos + 12, writes)
           v(j) == w.targets[j] - Slot(w.block, j)
           x == Covering(writes, p)
<1>1. Len(after) = Len(blob) /\ p \in 1 .. Len(after)
  <2>1. w.fpos + 12 \in Nat
    OBVIOUS
  <2>2. Len(after) = Larger(Len(blob), w.fpos + 12)
    BY <2>1, BlobWritten
  <2> QED BY <2>1, <2>2 DEF Larger
<1>2. after[p] = IF \E y \in writes : Covers(y, p) THEN x.cells[p - x.off] ELSE IF p <= Len(blob) THEN blob[p] ELSE Zero
  <2>1. w.fpos + 12 \in Nat
    OBVIOUS
  <2> QED BY <1>1, <2>1, BlobWritten
<1>3. "i64" \in DOMAIN Width /\ Width["i64"] = 8 /\ "i32" \in DOMAIN Width /\ Width["i32"] = 4
  BY DEF Width
<1>4. \A j \in DOMAIN w.ids : Slot(w.block, j) \in Nat /\ Slot(w.block, j) = w.block + 8 * (j - 1)
  BY DEF Slot
<1>5. BlockEnd(w) = w.block + 8 * m
  BY DEF BlockEnd
<1>6. ASSUME NEW y \in SlotWrites(w), Covers(y, p)
      PROVE  \E j \in DOMAIN w.ids : /\ y.off = Slot(w.block, j) /\ InSlot(w, j, p)
                                     /\ y.cells[p - y.off] = <<"i64", p - Slot(w.block, j), v(j)>>
  <2>1. PICK j \in DOMAIN w.ids : y = [off |-> Slot(w.block, j), cells |-> Cells("i64", v(j))]
    BY DEF SlotWrites
  <2> HIDE DEF v
  <2>2. y.off = Slot(w.block, j) /\ y.cells = Cells("i64", v(j))
    BY <2>1
  <2>3. Len(y.cells) = 8 /\ \A q \in 1 .. 8 : y.cells[q] = <<"i64", q, v(j)>>
    <3>1. Len(Cells("i64", v(j))) = 8 /\ \A q \in 1 .. 8 : Cells("i64", v(j))[q] = <<"i64", q, v(j)>>
      BY <1>3, CellsAre
    <3> QED BY <2>2, <3>1
  <2>4. InSlot(w, j, p)
    BY <1>6, <2>2, <2>3 DEF InSlot, Covers
  <2>5. p - y.off \in 1 .. 8
    <3> DEFINE from == Slot(w.block, j)
    <3>1. from < p /\ p <= from + 8 /\ from \in Nat /\ y.off = from
      BY <1>4, <2>2, <2>4 DEF InSlot
    <3> HIDE DEF from
    <3> QED BY <3>1
  <2> QED BY <2>2, <2>3, <2>4, <2>5
<1>7. ASSUME NEW y \in refs, Covers(y, p)
      PROVE  w.fpos < p /\ p <= w.fpos + 12 /\ y.cells[p - y.off][1] = "i32"
  <2> PICK off \in {w.fpos, w.fpos + 8} : \E a : y = [off |-> off, cells |-> Cells("i32", a)]
    BY DEF Reference
  <2>1. PICK a : y = [off |-> off, cells |-> Cells("i32", a)]
    OBVIOUS
  <2>2. y.off = off /\ Len(y.cells) = 4 /\ \A q \in 1 .. 4 : y.cells[q] = <<"i32", q, a>>
    BY <1>3, <2>1, CellsAre
  <2>3. off < p /\ p <= off + 4 /\ off \in Nat
    <3>1. off \in Nat
      OBVIOUS
    <3>2. y.off < p /\ p <= y.off + Len(y.cells)
      BY <1>7 DEF Covers
    <3> QED BY ONLY <2>2, <3>1, <3>2
  <2>4. p - off \in 1 .. 4
    BY <2>3
  <2>5. w.fpos < p /\ p <= w.fpos + 12
    BY <2>3
  <2> QED BY <2>2, <2>4, <2>5
<1> HIDE DEF refs, after, v
<1>8. ASSUME NEW j \in DOMAIN w.ids, InSlot(w, j, p)
      PROVE  after[p] = <<"i64", p - Slot(w.block, j), v(j)>>
  <2>1. w.block + 8 * (j - 1) < p /\ p <= w.block + 8 * (j - 1) + 8 /\ j \in 1 .. m
    BY <1>4, <1>8 DEF InSlot
  <2>2. \E y \in writes : Covers(y, p)
    <3> DEFINE y == [off |-> Slot(w.block, j), cells |-> Cells("i64", v(j))]
    <3>1. y \in SlotWrites(w)
      BY DEF SlotWrites, v
    <3>2. y.off = Slot(w.block, j) /\ Len(y.cells) = 8
      BY <1>3, CellsAre
    <3> HIDE DEF y
    <3>3. Covers(y, p)
      BY <1>8, <3>2 DEF InSlot, Covers
    <3> QED BY <3>1, <3>3
  <2>3. x \in writes /\ Covers(x, p) /\ after[p] = x.cells[p - x.off]
    BY <1>2, <2>2 DEF Covering
  <2> HIDE DEF x
  <2>4. x \notin refs
    <3> SUFFICES ASSUME x \in refs PROVE FALSE
      OBVIOUS
    <3>1. w.fpos < p /\ p <= w.fpos + 12
      BY <1>7, <2>3
    <3> QED BY <1>5, <2>1, <3>1
  <2>5. PICK k \in DOMAIN w.ids : /\ InSlot(w, k, p)
                                  /\ x.cells[p - x.off] = <<"i64", p - Slot(w.block, k), v(k)>>
    BY <1>6, <2>3, <2>4
  <2>6. k = j
    <3>1. w.block + 8 * (k - 1) < p /\ p <= w.block + 8 * (k - 1) + 8 /\ k \in 1 .. m
      BY <1>4, <2>5 DEF InSlot
    <3> QED BY <2>1, <3>1
  <2> QED BY <2>3, <2>5, <2>6
<1>9. ASSUME \A j \in DOMAIN w.ids : ~InSlot(w, j, p)
      PROVE  after[p] = blob[p] \/ (after[p][1] # "i64" /\ w.fpos < p /\ p <= w.fpos + 12)
  <2>1. CASE \E y \in writes : Covers(y, p)
    <3>1. x \in writes /\ Covers(x, p) /\ after[p] = x.cells[p - x.off]
      BY <1>2, <2>1 DEF Covering
    <3> HIDE DEF x
    <3>2. x \in refs
      BY <1>6, <1>9, <3>1
    <3> QED BY <1>7, <3>1, <3>2
  <2>2. CASE ~(\E y \in writes : Covers(y, p))
    BY <1>2, <2>2
  <2> QED BY <2>1, <2>2
<1> QED BY <1>8, <1>9 DEF after, refs, v

LEMMA EndPointersFree ==
  ASSUME LayoutInv, TargetInv, SlotInv, EndPointers
  PROVE  SlotInv'
<1> DEFINE w == Top.wait
           n == Len(pointers)
           m == Len(w.ids)
           end == w.fpos + 12
           f == [Top EXCEPT !.wait = NotWaiting]
           last == Len(frames)
<1>1. /\ InLineDone /\ w.on = "pointers" /\ Update(f) /\ UNCHANGED objects
      /\ data' = Written(data, end, SlotWrites(w) \cup Reference(w.fpos, w.block, m))
  BY DEF EndPointers, SlotWrites
<1>2. /\ Placing /\ Top \in Frames(objects) /\ Top.todo = <<>> /\ Top.row.ids = <<>>
      /\ w.fpos \in Nat /\ w.block \in Nat /\ w.ids \in Seq(Nat)
  BY <1>1, WaitFacts
<1>3. m \in Nat /\ DOMAIN w.ids = 1 .. m /\ Len(data) \in Nat
  BY <1>2, Facts, LenProperties
<1>4. BlockEnd(w) = w.block + 8 * m /\ BlockEnd(w) \in Nat /\ end \in Nat
  BY <1>2, <1>3 DEF BlockEnd
<1>5. /\ Free(pointers, frames, w.fpos, end) /\ end <= Len(data)
      /\ Clear(pointers, w.block, BlockEnd(w)) /\ BlockEnd(w) <= Len(data)
  BY <1>1, <1>2, SlotFacts DEF WaitFree
<1>6. /\ last \in DOMAIN frames /\ Top = frames[last] /\ DOMAIN frames' = DOMAIN frames
      /\ \A k \in DOMAIN frames : frames'[k] = IF k = last THEN f ELSE frames[k]
      /\ \A k \in DOMAIN frames : frames[k] \in Frames(objects)
      /\ f \in Frames(objects) /\ f.wait = NotWaiting
      /\ f.todo = Top.todo /\ f.row = Top.row /\ f.items = Top.items
  <2>1. f \in Frames(objects) /\ f.wait = NotWaiting /\ f.todo = Top.todo /\ f.row = Top.row /\ f.items = Top.items
    BY <1>2, WaitOver DEF Frames
  <2> HIDE DEF f
  <2> QED BY <1>1, <1>2, <2>1, CallsAfter
<1> HIDE DEF f, last
<1>7. end <= w.block \/ BlockEnd(w) <= w.fpos
  BY <1>1, <1>5, <1>6 DEF Free, Apart
<1>8. /\ n \in Nat /\ DOMAIN pointers = 1 .. n /\ DOMAIN pointers' = 1 .. n + m
      /\ \A i \in DOMAIN pointers : pointers'[i] = pointers[i]
      /\ \A j \in DOMAIN w.ids : pointers'[n + j] = Filled(w)[j] /\ w.targets[j] \in Nat
  BY PointersAfter
<1>9. \A i \in DOMAIN pointers : pointers[i].at \in Nat
  BY SlotsTyped DEF TargetInv, LayoutInv, LayoutTypeOK
<1>10. ASSUME NEW j \in DOMAIN w.ids
       PROVE  /\ pointers'[n + j].at = RfciFileOffset + Slot(w.block, j) /\ pointers'[n + j].off = w.targets[j]
              /\ Slot(w.block, j) \in Nat /\ w.block <= Slot(w.block, j) /\ Slot(w.block, j) + 8 <= BlockEnd(w)
  <2>1. pointers'[n + j].at = RfciFileOffset + Slot(w.block, j) /\ pointers'[n + j].off = w.targets[j]
    <3> HIDE DEF w, n
    <3>1. pointers'[n + j] = Filled(w)[j]
      BY <1>8
    <3>2. Filled(w)[j].at = RfciFileOffset + Slot(w.block, j) /\ Filled(w)[j].off = w.targets[j]
      BY DEF Filled
    <3> QED BY <3>1, <3>2
  <2>2. j \in 1 .. m
    BY <1>3
  <2> HIDE DEF w, n, m
  <2> QED BY <1>2, <1>3, <1>4, <2>1, <2>2 DEF Slot
<1>11. Len(data') = Len(data) /\ DOMAIN data' = 1 .. Len(data')
  <2>1. Len(data') = Larger(Len(data), end) /\ DOMAIN data' = 1 .. Len(data')
    BY <1>1, <1>3, <1>4, BlobWritten
  <2> HIDE DEF end
  <2> QED BY <1>3, <1>4, <1>5, <2>1 DEF Larger
<1>12. ASSUME NEW p \in 1 .. Len(data)
       PROVE  /\ \A j \in DOMAIN w.ids : InSlot(w, j, p) =>
                   data'[p] = <<"i64", p - Slot(w.block, j), w.targets[j] - Slot(w.block, j)>>
              /\ (\A j \in DOMAIN w.ids : ~InSlot(w, j, p)) =>
                   data'[p] = data[p] \/ (data'[p][1] # "i64" /\ w.fpos < p /\ p <= end)
  <2> HIDE DEF w
  <2> DEFINE after == Written(data, w.fpos + 12, SlotWrites(w) \cup Reference(w.fpos, w.block, Len(w.ids)))
  <2>1. data' = after
    BY <1>1
  <2>2. /\ \A j \in DOMAIN w.ids : InSlot(w, j, p) =>
             after[p] = <<"i64", p - Slot(w.block, j), w.targets[j] - Slot(w.block, j)>>
        /\ (\A j \in DOMAIN w.ids : ~InSlot(w, j, p)) =>
             after[p] = data[p] \/ (after[p][1] # "i64" /\ w.fpos < p /\ p <= w.fpos + 12)
    BY <1>2, <1>3, <1>5, <1>7, SlotsWritten
  <2> HIDE DEF after
  <2> QED BY <2>1, <2>2
\* every record of a pointer is one of those there were or one of a slot
<1>13. ASSUME NEW i \in DOMAIN pointers', i \notin DOMAIN pointers
       PROVE  i - n \in DOMAIN w.ids /\ pointers'[i] = pointers'[n + (i - n)]
  BY <1>3, <1>8, <1>13
<1>14. \A j \in DOMAIN w.ids : n + j \in DOMAIN pointers' /\ n + j \notin DOMAIN pointers
  BY <1>3, <1>8
<1>15. \A i \in DOMAIN pointers : i \in DOMAIN pointers' /\ pointers'[i] = pointers[i]
  BY <1>3, <1>8
<1>16. \A i \in DOMAIN pointers :
         pointers[i].at < RfciFileOffset + w.block \/ RfciFileOffset + BlockEnd(w) <= pointers[i].at
  BY <1>5 DEF Clear
<1>17. \A i \in DOMAIN pointers :
         pointers[i].at < RfciFileOffset + w.fpos \/ RfciFileOffset + end <= pointers[i].at
  BY <1>5 DEF Clear, Free
<1> HIDE DEF w, n, m, end
<1>18. SlotsExact(data', pointers')
  <2>1. ASSUME NEW i \in DOMAIN pointers'
        PROVE  LET place == pointers'[i].at - RfciFileOffset
               IN /\ place \in 0 .. Len(data') - 1
                  /\ data'[place + 1] = <<"i64", 1, pointers'[i].off - place>>
    <3> DEFINE place == pointers'[i].at - RfciFileOffset
    <3>1. CASE i \in DOMAIN pointers
      <4>1. /\ pointers'[i] = pointers[i] /\ place \in 0 .. Len(data) - 1
            /\ data[place + 1] = <<"i64", 1, pointers[i].off - place>>
        BY <1>15, <3>1 DEF SlotInv, SlotsExact
      <4>2. pointers[i].at \in Nat /\ place + 1 \in 1 .. Len(data) /\ pointers[i].at = RfciFileOffset + place
        BY <1>3, <1>9, <3>1, <4>1 DEF RfciFileOffset
      <4>3. place \in Nat /\ (place < w.block \/ BlockEnd(w) <= place) /\ (place < w.fpos \/ end <= place)
        <5> HIDE DEF place
        <5>1. place \in Nat
          BY <4>1
        <5>2. /\ RfciFileOffset + place < RfciFileOffset + w.block \/ RfciFileOffset + BlockEnd(w) <= RfciFileOffset + place
              /\ RfciFileOffset + place < RfciFileOffset + w.fpos \/ RfciFileOffset + end <= RfciFileOffset + place
          BY <1>16, <1>17, <3>1, <4>2
        <5> QED BY <1>2, <1>4, <5>1, <5>2 DEF RfciFileOffset
      <4> HIDE DEF place
      <4>4. \A j \in DOMAIN w.ids : ~InSlot(w, j, place + 1)
        <5> SUFFICES ASSUME NEW j \in DOMAIN w.ids, Slot(w.block, j) < place + 1, place + 1 <= Slot(w.block, j) + 8
                     PROVE  FALSE
          BY DEF InSlot
        <5> QED BY <1>2, <1>4, <1>10, <4>3
      <4>5. ~(w.fpos < place + 1 /\ place + 1 <= end)
        BY <1>2, <1>4, <4>3
      <4>6. data'[place + 1] = data[place + 1]
        BY <1>12, <4>2, <4>4, <4>5
      <4> QED BY <1>11, <4>1, <4>6 DEF place
    <3>2. CASE i \notin DOMAIN pointers
      <4> DEFINE j == i - n
                 at == Slot(w.block, j)
      <4>1. j \in DOMAIN w.ids /\ pointers'[i] = pointers'[n + j]
        BY <1>13, <3>2
      <4>2. pointers'[i].at = RfciFileOffset + at /\ pointers'[i].off = w.targets[j] /\ at \in Nat /\ at + 8 <= BlockEnd(w)
        BY <1>10, <4>1
      <4> HIDE DEF j, at
      <4>3. place = at /\ at + 1 \in 1 .. Len(data) /\ at \in 0 .. Len(data) - 1 /\ at < at + 1 /\ at + 1 <= at + 8
            /\ at + 1 - at = 1
        BY <1>3, <1>4, <1>5, <4>2 DEF RfciFileOffset
      <4>4. InSlot(w, j, at + 1)
        BY <4>3 DEF InSlot, at
      <4>5. data'[at + 1] = <<"i64", at + 1 - at, w.targets[j] - at>>
        BY <1>12, <4>1, <4>3, <4>4 DEF at
      <4> QED BY <1>11, <4>2, <4>3, <4>5
    <3> QED BY <3>1, <3>2
  <2>2. ASSUME NEW p \in 1 .. Len(data'), data'[p][1] = "i64", data'[p][2] = 1
        PROVE  \E i \in DOMAIN pointers' : pointers'[i].at = RfciFileOffset + p - 1
    <3>1. p \in 1 .. Len(data) /\ p \in Nat
      BY <1>3, <1>11
    <3>2. CASE \E j \in DOMAIN w.ids : InSlot(w, j, p)
      <4>1. PICK j \in DOMAIN w.ids : InSlot(w, j, p)
        BY <3>2
      <4>2. data'[p] = <<"i64", p - Slot(w.block, j), w.targets[j] - Slot(w.block, j)>>
        BY <1>12, <3>1, <4>1
      <4>3. p - Slot(w.block, j) = 1
        BY <2>2, <4>2
      <4>4. pointers'[n + j].at = RfciFileOffset + p - 1
        BY <1>10, <3>1, <4>3 DEF RfciFileOffset
      <4> QED BY <1>14, <4>4
    <3>3. CASE \A j \in DOMAIN w.ids : ~InSlot(w, j, p)
      <4>1. data'[p] = data[p]
        BY <1>12, <2>2, <3>1, <3>3
      <4>2. PICK i \in DOMAIN pointers : pointers[i].at = RfciFileOffset + p - 1
        BY <2>2, <3>1, <4>1 DEF SlotInv, SlotsExact
      <4> QED BY <1>15, <4>2
    <3> QED BY <3>2, <3>3
  <2>3. ASSUME NEW i \in DOMAIN pointers', NEW k \in DOMAIN pointers', pointers'[i].at = pointers'[k].at
        PROVE  i = k
    <3>1. CASE i \in DOMAIN pointers /\ k \in DOMAIN pointers
      <4>1. pointers[i].at = pointers[k].at
        BY <1>15, <2>3, <3>1
      <4> QED BY <3>1, <4>1 DEF SlotInv, SlotsExact
    <3>2. CASE i \notin DOMAIN pointers /\ k \notin DOMAIN pointers
      <4> DEFINE a == i - n
                 b == k - n
      <4>1. /\ a \in DOMAIN w.ids /\ b \in DOMAIN w.ids
            /\ pointers'[i] = pointers'[n + a] /\ pointers'[k] = pointers'[n + b]
        BY <1>13, <3>2
      <4>2. RfciFileOffset + Slot(w.block, a) = RfciFileOffset + Slot(w.block, b)
        BY <1>10, <2>3, <4>1
      <4>3. a \in 1 .. m /\ b \in 1 .. m
        BY <1>3, <4>1
      <4>4. i \in 1 .. n + m /\ k \in 1 .. n + m
        BY <1>8
      <4> HIDE DEF a, b
      <4>5. a = b
        BY <1>2, <1>3, <4>2, <4>3 DEF RfciFileOffset, Slot
      <4> QED BY <1>3, <1>8, <4>4, <4>5 DEF a, b
    <3>3. ASSUME NEW x \in DOMAIN pointers, NEW y \in DOMAIN pointers', y \notin DOMAIN pointers
          PROVE  pointers'[x].at # pointers'[y].at
      <4> DEFINE j == y - n
      <4>1. j \in DOMAIN w.ids /\ pointers'[y] = pointers'[n + j] /\ pointers'[x] = pointers[x]
        BY <1>13, <1>15, <3>3
      <4>2. /\ pointers'[y].at = RfciFileOffset + Slot(w.block, j) /\ Slot(w.block, j) \in Nat
            /\ w.block <= Slot(w.block, j) /\ Slot(w.block, j) + 8 <= BlockEnd(w)
        BY <1>10, <4>1
      <4>3. pointers[x].at \in Nat
            /\ (pointers[x].at < RfciFileOffset + w.block \/ RfciFileOffset + BlockEnd(w) <= pointers[x].at)
        BY <1>9, <1>16
      <4> HIDE DEF j
      <4> QED BY <1>2, <1>4, <4>1, <4>2, <4>3 DEF RfciFileOffset
    <3> QED BY <2>3, <3>1, <3>2, <3>3
  <2> QED BY <1>11, <2>1, <2>2, <2>3 DEF SlotsExact
\* what lies apart from the slots is as clear as it was
<1>19. ASSUME NEW from \in Nat, NEW to \in Nat, Clear(pointers, from, to), to <= w.block \/ BlockEnd(w) <= from
       PROVE  Clear(pointers', from, to)
  <2> SUFFICES ASSUME NEW i \in DOMAIN pointers'
               PROVE  pointers'[i].at < RfciFileOffset + from \/ RfciFileOffset + to <= pointers'[i].at
    BY DEF Clear
  <2>1. CASE i \in DOMAIN pointers
    BY <1>15, <1>19, <2>1 DEF Clear
  <2>2. CASE i \notin DOMAIN pointers
    <3> DEFINE j == i - n
    <3>1. j \in DOMAIN w.ids /\ pointers'[i] = pointers'[n + j]
      BY <1>13, <2>2
    <3>2. /\ pointers'[i].at = RfciFileOffset + Slot(w.block, j) /\ Slot(w.block, j) \in Nat
          /\ w.block <= Slot(w.block, j) /\ Slot(w.block, j) + 8 <= BlockEnd(w)
      BY <1>10, <3>1
    <3> HIDE DEF j
    <3> QED BY <1>2, <1>4, <1>19, <3>2 DEF RfciFileOffset
  <2> QED BY <2>1, <2>2
<1>20. SameBlocks(frames, frames')
  BY <1>6 DEF SameBlocks, NotWaiting
<1>21. ASSUME NEW from \in Nat, NEW to \in Nat, Free(pointers, frames, from, to)
       PROVE  Free(pointers', frames', from, to)
  <2>1. Clear(pointers, from, to) /\ Apart(w, from, to)
    BY <1>6, <1>21 DEF Free, w
  <2>2. Clear(pointers', from, to)
    BY <1>1, <1>19, <2>1 DEF Apart
  <2>3. Free(pointers, frames', from, to)
    BY <1>20, <1>21, FreeKept
  <2> QED BY <2>2, <2>3 DEF Free
<1>22. ASSUME NEW g \in Frames(objects), FrameFree(objects, pointers, frames, Len(data), g),
              g.wait.on = "pointers" => Clear(pointers', g.wait.block, BlockEnd(g.wait))
       PROVE  FrameFree(objects, pointers', frames', Len(data'), g)
  <2>1. Len(data) <= Len(data) /\ Len(data') = Len(data)
    BY <1>3, <1>11
  <2>2. FrameFree(objects, pointers', frames', Len(data), g)
    BY <1>3, <1>21, <1>22, <2>1, FrameFreeMoves
  <2> QED BY <2>1, <2>2
<1>23. ASSUME NEW k \in DOMAIN frames, k # last
       PROVE  FrameFree(objects, pointers', frames', Len(data'), frames'[k])
  <2>1. frames'[k] = frames[k] /\ frames[k] \in Frames(objects) /\ FrameFree(objects, pointers, frames, Len(data), frames[k])
    BY <1>6, <1>23 DEF SlotInv
  <2>2. ASSUME frames[k].wait.on = "pointers"
        PROVE  Clear(pointers', frames[k].wait.block, BlockEnd(frames[k].wait))
    <3>1. Clear(pointers, frames[k].wait.block, BlockEnd(frames[k].wait))
      BY <2>1, <2>2 DEF FrameFree, WaitFree
    <3>2. Apart(w, frames[k].wait.block, BlockEnd(frames[k].wait))
      BY <1>6, <1>23, <2>2 DEF SlotInv, BlocksApart, w
    <3>3. frames[k].wait.block \in Nat /\ BlockEnd(frames[k].wait) \in Nat
      BY <2>2, SlotsTyped DEF TargetInv, LayoutInv, LayoutTypeOK
    <3> QED BY <1>1, <1>19, <3>1, <3>2, <3>3 DEF Apart
  <2> QED BY <1>22, <2>1, <2>2
<1>24. FrameFree(objects, pointers', frames', Len(data'), f)
  <2>1. FrameFree(objects, pointers, frames, Len(data), Top)
    BY <1>2, SlotFacts
  <2>2. WaitFree(pointers, frames, Len(data), NotWaiting) /\ f.wait.on # "pointers"
    BY <1>6 DEF WaitFree, NotWaiting
  <2>3. FrameFree(objects, pointers, frames, Len(data), f)
    BY <1>6, <2>1, <2>2 DEF FrameFree
  <2> QED BY <1>6, <1>22, <2>2, <2>3
<1>25. \A k \in DOMAIN frames' : FrameFree(objects, pointers', frames', Len(data'), frames'[k])
  BY <1>6, <1>23, <1>24
<1>26. BlocksApart(frames') /\ RoomyGraph(objects)
  BY <1>20, BlocksStayApart DEF SlotInv
<1> QED BY <1>1, <1>18, <1>25, <1>26 DEF SlotInv

LEMMA SlotStarts ==
  ASSUME GraphsRoomy, LayoutInit
  PROVE  SlotInv
<1> DEFINE e == [obj |-> Root(objects), off |-> RfciPrefix]
<1>1. /\ objects \in Seq(Objects) /\ RoomyGraph(objects) /\ pointers = <<>> /\ data = Written(<<>>, RfciPrefix, {})
      /\ frames = <<Call(<<e>>)>>
  BY GraphsAssumption DEF LayoutInit, FirstCall, FirstData, GraphsRoomy
<1> HIDE DEF e
<1>2. DOMAIN frames = {1} /\ frames[1] = Call(<<e>>)
  BY <1>1
<1>3. SlotsExact(data, pointers)
  <2>1. SlotsExact(<<>>, <<>>) /\ Len(<<>>) \in Nat
    BY DEF SlotsExact
  <2>2. <<>> \in PointerRecords(objects) /\ RfciPrefix \in Nat
    BY DEF PointerRecords, RfciPrefix
  <2>3. SlotsExact(Written(<<>>, RfciPrefix, {}), <<>>)
    BY <2>1, <2>2, WrittenExact
  <2> QED BY <1>1, <2>3
<1>4. frames[1].todo = <<e>> /\ frames[1].row.ids = <<>> /\ frames[1].items = {} /\ frames[1].wait = NotWaiting
  BY <1>2 DEF Call, NoRow
<1>5. \A from, to : Free(pointers, frames, from, to)
  BY <1>1, <1>2, <1>4 DEF Free, Clear, Apart, NotWaiting
<1>6. FrameFree(objects, pointers, frames, Len(data), frames[1])
  <2>1. \A i \in DOMAIN frames[1].todo : EntryFree(objects, pointers, frames, frames[1].todo[i])
    BY <1>5 DEF EntryFree
  <2>2. RowFree(pointers, frames, frames[1].row) /\ WaitFree(pointers, frames, Len(data), frames[1].wait)
    BY <1>4 DEF RowFree, WaitFree, NotWaiting
  <2> QED BY <1>4, <2>1, <2>2 DEF FrameFree
<1>7. BlocksApart(frames)
  BY <1>2, <1>4 DEF BlocksApart, NotWaiting
<1> QED BY <1>1, <1>2, <1>3, <1>6, <1>7 DEF SlotInv

LEMMA SlotStepKeeps ==
  ASSUME RoomySchema, LayoutInv, TargetInv, SlotInv, [LayoutNext]_layoutVars
  PROVE  SlotInv'
<1>1. CASE InlineWrite
  BY <1>1, InlineWriteFree
<1>2. CASE SkipField
  BY <1>2, SkipFieldFree
<1>3. CASE NextElement
  BY <1>3, NextElementFree
<1>4. CASE PlaceItem
  <2>1. PICK item :
          \/ PlaceStr(item) \/ PlaceEmptyArray(item) \/ PlaceArray(item) \/ PlaceRawArray(item)
          \/ BeginPointers(item) \/ PlaceNothing(item) \/ BeginOffset(item) \/ MissingChild(item)
    BY <1>4 DEF PlaceItem
  <2>2. CASE MissingChild(item)
    BY <2>2, SameFree DEF MissingChild
  <2> QED BY <2>1, <2>2, PlaceStrFree, PlaceEmptyArrayFree, PlaceArrayFree, PlaceRawArrayFree,
             BeginPointersFree, PlaceNothingFree, BeginOffsetFree
<1>5. CASE PlaceTarget
  BY <1>5, PlaceTargetFree
<1>6. CASE EndPointers
  BY <1>6, EndPointersFree
<1>7. CASE EndOffset
  BY <1>7, EndOffsetFree
<1>8. CASE Return
  BY <1>8, ReturnFree
<1>9. CASE UNCHANGED layoutVars
  BY <1>9, SameFree DEF layoutVars
<1> QED BY <1>1, <1>2, <1>3, <1>4, <1>5, <1>6, <1>7, <1>8, <1>9 DEF LayoutNext

(***************************************************************************)
(* Enumerate lists every element of a finite set, and in its order: the    *)
(* number of elements before one is an injection into 0..C-1, so it meets  *)
(* every number there.                                                     *)
(***************************************************************************)
(***************************************************************************)
(* Enumerate lists every element of a finite set, and in its order.  The   *)
(* number of elements before one is an injection into 0..C-1, so it meets  *)
(* every number there.                                                     *)
(***************************************************************************)
StrictOrder(K, R) ==
  /\ \A i \in K : <<i, i>> \notin R
  /\ \A i, j \in K : i # j => <<i, j>> \in R \/ <<j, i>> \in R
  /\ \A i, j, k \in K : <<i, j>> \in R /\ <<j, k>> \in R => <<i, k>> \in R

LEMMA EnumerateInOrder ==
  ASSUME NEW K, IsFiniteSet(K), NEW R, StrictOrder(K, R)
  PROVE  /\ Cardinality(K) \in Nat
         /\ Enumerate(K, R) \in [1 .. Cardinality(K) -> K]
         /\ \A i \in K : \E k \in 1 .. Cardinality(K) : Enumerate(K, R)[k] = i
         /\ \A k, l \in 1 .. Cardinality(K) :
              k < l => <<Enumerate(K, R)[k], Enumerate(K, R)[l]>> \in R
<1> DEFINE Before(i) == {j \in K : <<j, i>> \in R}
           C == Cardinality(K)
           rank == [i \in K |-> Cardinality(Before(i))]
           listed == Enumerate(K, R)
<1>1. C \in Nat
  BY FS_CardinalityType
<1>2. ASSUME NEW i \in K
      PROVE  rank[i] \in 0 .. C - 1
  <2>1. Before(i) \in SUBSET K /\ Before(i) # K
    BY DEF StrictOrder
  <2> HIDE DEF Before
  <2>2. IsFiniteSet(Before(i))
    BY <2>1, FS_Subset
  <2>3. Cardinality(Before(i)) \in Nat
    BY <2>2, FS_CardinalityType
  <2>4. Cardinality(Before(i)) <= C
    BY <2>1, FS_Subset
  <2>5. Cardinality(Before(i)) # C
    BY <2>1, FS_Subset
  <2> QED BY <1>1, <2>3, <2>4, <2>5
<1>3. ASSUME NEW i \in K, NEW j \in K, <<i, j>> \in R
      PROVE  rank[i] < rank[j]
  <2>1. Before(i) \in SUBSET Before(j) /\ Before(i) # Before(j)
    BY <1>3 DEF StrictOrder
  <2>2. Before(j) \in SUBSET K
    OBVIOUS
  <2>3. rank[i] = Cardinality(Before(i)) /\ rank[j] = Cardinality(Before(j))
    OBVIOUS
  <2>4. rank[i] \in Nat /\ rank[j] \in Nat
    BY <1>1, <1>2
  <2> HIDE DEF Before, rank
  <2>5. IsFiniteSet(Before(j))
    BY <2>2, FS_Subset
  <2>6. Cardinality(Before(i)) <= Cardinality(Before(j))
    BY <2>1, <2>5, FS_Subset
  <2>7. Cardinality(Before(i)) # Cardinality(Before(j))
    BY <2>1, <2>5, FS_Subset
  <2> QED BY <2>3, <2>4, <2>6, <2>7
<1>4. rank \in [K -> 0 .. C - 1]
  <2>1. rank = [i \in K |-> rank[i]]
    OBVIOUS
  <2> HIDE DEF rank, C
  <2> QED BY <1>2, <2>1
<1>5. rank \in Injection(K, 0 .. C - 1)
  <2> HIDE DEF rank, C
  <2>1. ASSUME NEW i \in K, NEW j \in K, rank[i] = rank[j]
        PROVE  i = j
    <3>1. rank[i] \in Int /\ rank[j] \in Int
      BY <1>1, <1>2
    <3>2. i # j => <<i, j>> \in R \/ <<j, i>> \in R
      BY DEF StrictOrder
    <3>3. <<i, j>> \in R => rank[i] < rank[j]
      BY <1>3
    <3>4. <<j, i>> \in R => rank[j] < rank[i]
      BY <1>3
    <3> QED BY <2>1, <3>1, <3>2, <3>3, <3>4
  <2> QED BY <1>4, <2>1 DEF Injection, IsInjective
<1>6. rank \in Surjection(K, 0 .. C - 1)
  <2> HIDE DEF rank
  <2>1. IsFiniteSet(0 .. C - 1)
    BY <1>1, FS_Interval
  <2>2. Cardinality(0 .. C - 1) = C
    BY <1>1, FS_Interval
  <2>3. Cardinality(K) = Cardinality(0 .. C - 1) <=> rank \in Surjection(K, 0 .. C - 1)
    BY <1>5, <2>1, FS_Injection
  <2> QED BY <2>2, <2>3
<1>7. ASSUME NEW k \in 1 .. C
      PROVE  listed[k] \in K /\ rank[listed[k]] = k - 1
  <2>1. k - 1 \in 0 .. C - 1
    BY <1>1
  <2>2. \E i \in K : Cardinality(Before(i)) = k - 1
    <3>1. \E i \in K : rank[i] = k - 1
      <4> HIDE DEF rank, C
      <4> QED BY <1>6, <2>1 DEF Surjection
    <3> QED BY <3>1
  <2>3. listed[k] = CHOOSE i \in K : Cardinality(Before(i)) = k - 1
    BY DEF Enumerate
  <2> HIDE DEF Before, listed
  <2>4. listed[k] \in K /\ Cardinality(Before(listed[k])) = k - 1
    BY <2>2, <2>3
  <2> QED BY <2>4
<1>8. listed \in [1 .. C -> K]
  <2> DEFINE g == [k \in 1 .. C |-> CHOOSE i \in K : Cardinality(Before(i)) = k - 1]
  <2>1. listed = g
    BY DEF Enumerate
  <2>2. \A k \in 1 .. C : g[k] \in K
    <3> HIDE DEF g, listed
    <3> QED BY <1>7, <2>1
  <2>3. g \in [1 .. C -> K]
    <3> HIDE DEF Before
    <3> QED BY <2>2
  <2> QED BY <2>1, <2>3
<1>9. ASSUME NEW i \in K
      PROVE  \E k \in 1 .. C : listed[k] = i
  <2> HIDE DEF rank, listed, C
  <2>1. rank[i] + 1 \in 1 .. C /\ rank[i] \in Int
    BY <1>1, <1>2
  <2>2. listed[rank[i] + 1] \in K /\ rank[listed[rank[i] + 1]] = rank[i]
    BY <1>7, <2>1
  <2>3. listed[rank[i] + 1] = i
    BY <1>5, <2>2 DEF Injection, IsInjective
  <2> QED BY <2>1, <2>3
<1>10. ASSUME NEW k \in 1 .. C, NEW l \in 1 .. C, k < l
       PROVE  <<listed[k], listed[l]>> \in R
  <2> HIDE DEF rank, listed, C
  <2>1. /\ listed[k] \in K /\ rank[listed[k]] = k - 1
        /\ listed[l] \in K /\ rank[listed[l]] = l - 1
    BY <1>7
  <2>2. listed[k] # listed[l]
    BY <1>10, <2>1
  <2>3. <<listed[l], listed[k]>> \notin R
    <3>1. ~ (l - 1 < k - 1)
      BY <1>10
    <3> QED BY <1>3, <2>1, <3>1
  <2> QED BY <2>1, <2>2, <2>3 DEF StrictOrder
<1> HIDE DEF listed
<1> QED BY <1>1, <1>8, <1>9, <1>10 DEF listed

-----------------------------------------------------------------------------
(* The tables of a blob that is placed *)

Slots(blob) == {p \in DOMAIN blob : blob[p][1] = "i64" /\ blob[p][2] = 1}

\* What the invariants say of a blob that is placed.
Placed ==
    /\ objects \in Seq(Objects) /\ Root(objects) # 0
    /\ pointers \in PointerRecords(objects)
    /\ order \in Orders(objects)
    /\ SlotsExact(data, pointers)
    /\ \E n \in DOMAIN order : order[n] = Entry(Root(objects), RfciPrefix)
    /\ \A i \in DOMAIN pointers :
         /\ \E n \in DOMAIN order : order[n] = Entry(pointers[i].target, pointers[i].off)
         /\ objects[pointers[i].target].id # objects[Root(objects)].id

LEMMA PlacedHolds ==
  ASSUME LayoutInv, TargetInv, SlotInv, status = "placed"
  PROVE  Placed
<1>1. frames = <<>>
  BY DEF TargetInv
<1>2. DOMAIN Coming = {}
  BY <1>1 DEF Coming
<1>3. \A e : Reached(order, Coming, e) <=> \E n \in DOMAIN order : order[n] = e
  BY <1>2 DEF Reached
<1>4. objects \in Seq(Objects)
  BY DEF LayoutInv, LayoutTypeOK
<1> QED BY <1>3, <1>4 DEF TargetInv, SlotInv, Placed

\* Pointers lie where slots are, each at a place of its own.
LEMMA PointersTell ==
  ASSUME Placed
  PROVE  /\ Len(pointers) \in Nat /\ DOMAIN pointers = 1 .. Len(pointers)
         /\ \A i \in DOMAIN pointers : /\ pointers[i].at \in Nat /\ pointers[i].off \in Nat
                                       /\ pointers[i].target \in DOMAIN objects
         /\ \A i, j \in DOMAIN pointers : pointers[i].at = pointers[j].at => i = j
         /\ \A i \in DOMAIN pointers : \E p \in Slots(data) :
              /\ pointers[i].at = RfciFileOffset + p - 1
              /\ RfciFileOffset + pointers[i].off = RfciFileOffset + p - 1 + data[p][3]
         /\ \A p \in Slots(data) : \E i \in DOMAIN pointers :
              /\ pointers[i].at = RfciFileOffset + p - 1
              /\ RfciFileOffset + pointers[i].off = RfciFileOffset + p - 1 + data[p][3]
<1>1. Len(pointers) \in Nat /\ DOMAIN pointers = 1 .. Len(pointers)
  BY LenProperties DEF Placed, PointerRecords
<1>2. \A i \in DOMAIN pointers : /\ pointers[i].at \in Nat /\ pointers[i].off \in Nat
                                 /\ pointers[i].target \in DOMAIN objects
  <2> SUFFICES ASSUME NEW i \in DOMAIN pointers
               PROVE  pointers[i] \in [at : Nat, target : DOMAIN objects, off : Nat]
    OBVIOUS
  <2> QED BY <1>1, ElementOfSeq DEF Placed, PointerRecords
<1>3. \A i, j \in DOMAIN pointers : pointers[i].at = pointers[j].at => i = j
  BY DEF Placed, SlotsExact
<1>4. DOMAIN data = 1 .. Len(data)
  BY DEF Placed, SlotsExact
<1>5. ASSUME NEW i \in DOMAIN pointers, NEW place \in Int, place = pointers[i].at - RfciFileOffset
      PROVE  /\ place + 1 \in DOMAIN data /\ data[place + 1] = <<"i64", 1, pointers[i].off - place>>
             /\ pointers[i].at = RfciFileOffset + (place + 1) - 1
             /\ RfciFileOffset + pointers[i].off = RfciFileOffset + (place + 1) - 1 + (pointers[i].off - place)
  <2>1. place \in 0 .. Len(data) - 1 /\ data[place + 1] = <<"i64", 1, pointers[i].off - place>>
    BY <1>5 DEF Placed, SlotsExact
  <2>2. place + 1 \in DOMAIN data
    BY <1>4, <2>1
  <2>3. pointers[i].at \in Nat /\ pointers[i].off \in Nat
    BY <1>2
  <2> QED BY <1>5, <2>1, <2>2, <2>3 DEF RfciFileOffset
<1>6. ASSUME NEW i \in DOMAIN pointers
      PROVE  pointers[i].at - RfciFileOffset \in Int
  BY <1>2 DEF RfciFileOffset
<1>7. ASSUME NEW i \in DOMAIN pointers
      PROVE  \E p \in Slots(data) : /\ pointers[i].at = RfciFileOffset + p - 1
                                    /\ RfciFileOffset + pointers[i].off = RfciFileOffset + p - 1 + data[p][3]
  <2> DEFINE place == pointers[i].at - RfciFileOffset
             p == place + 1
  <2>1. place \in Int
    BY <1>6
  <2> HIDE DEF place
  <2>2. /\ p \in DOMAIN data /\ data[p] = <<"i64", 1, pointers[i].off - place>>
        /\ pointers[i].at = RfciFileOffset + p - 1
        /\ RfciFileOffset + pointers[i].off = RfciFileOffset + p - 1 + (pointers[i].off - place)
    BY <1>5, <2>1 DEF place
  <2> HIDE DEF p
  <2>3. data[p][1] = "i64" /\ data[p][2] = 1 /\ data[p][3] = pointers[i].off - place
    BY <2>2
  <2>4. p \in Slots(data)
    BY <2>2, <2>3 DEF Slots
  <2> QED BY <2>2, <2>3, <2>4
<1>8. ASSUME NEW p \in Slots(data)
      PROVE  \E i \in DOMAIN pointers : /\ pointers[i].at = RfciFileOffset + p - 1
                                        /\ RfciFileOffset + pointers[i].off = RfciFileOffset + p - 1 + data[p][3]
  <2>1. p \in 1 .. Len(data) /\ data[p][1] = "i64" /\ data[p][2] = 1
    BY <1>4 DEF Slots
  <2>2. PICK i \in DOMAIN pointers : pointers[i].at = RfciFileOffset + p - 1
    BY <2>1 DEF Placed, SlotsExact
  <2>3. PICK q \in Slots(data) : /\ pointers[i].at = RfciFileOffset + q - 1
                                 /\ RfciFileOffset + pointers[i].off = RfciFileOffset + q - 1 + data[q][3]
    BY <1>7
  <2>4. p = q
    <3>1. p \in Int /\ q \in Int
      BY <1>4, <2>1 DEF Slots
    <3> QED BY <2>2, <2>3, <3>1 DEF RfciFileOffset
  <2> QED BY <2>2, <2>3, <2>4
<1> QED BY <1>1, <1>2, <1>3, <1>7, <1>8

\* The places in RFUP: one for each pointer, in ascending order.
LEMMA RfupExact ==
  ASSUME Placed
  PROVE  /\ \A i \in 2 .. Len(Rfup) : Rfup[i - 1] < Rfup[i]
         /\ Range(Rfup) = {pointers[i].at : i \in DOMAIN pointers}
<1> DEFINE K == DOMAIN pointers
           C == Cardinality(K)
           sorted == Enumerate(K, ByPlace)
<1>1. /\ Len(pointers) \in Nat /\ K = 1 .. Len(pointers)
      /\ \A i \in K : i \in Nat /\ pointers[i].at \in Nat
      /\ \A i, j \in K : pointers[i].at = pointers[j].at => i = j
  BY PointersTell
<1>2. IsFiniteSet(K)
  BY <1>1, FS_Interval
<1>3. \A i, j \in K : <<i, j>> \in ByPlace <=> pointers[i].at < pointers[j].at
  <2>1. \A i, j \in K : <<i, j>> \in ByPlace <=>
          pointers[i].at < pointers[j].at \/ (pointers[i].at = pointers[j].at /\ i < j)
    BY DEF ByPlace
  <2> HIDE DEF K
  <2>2. ASSUME NEW i \in K, NEW j \in K PROVE ~ (pointers[i].at = pointers[j].at /\ i < j)
    <3>1. i \in Nat /\ (pointers[i].at = pointers[j].at => i = j)
      BY <1>1
    <3> QED BY <3>1
  <2> QED BY <2>1, <2>2
<1>4. StrictOrder(K, ByPlace)
  <2> HIDE DEF K
  <2>1. \A i \in K : <<i, i>> \notin ByPlace
    BY <1>1, <1>3
  <2>2. ASSUME NEW i \in K, NEW j \in K, i # j PROVE <<i, j>> \in ByPlace \/ <<j, i>> \in ByPlace
    <3>1. pointers[i].at # pointers[j].at /\ pointers[i].at \in Nat /\ pointers[j].at \in Nat
      BY <1>1, <2>2
    <3> QED BY <1>3, <3>1
  <2>3. ASSUME NEW i \in K, NEW j \in K, NEW k \in K, <<i, j>> \in ByPlace, <<j, k>> \in ByPlace
        PROVE  <<i, k>> \in ByPlace
    <3>1. pointers[i].at < pointers[j].at /\ pointers[j].at < pointers[k].at
      BY <1>3, <2>3
    <3>2. pointers[i].at < pointers[k].at
      BY <1>1, <3>1
    <3> QED BY <1>3, <3>2
  <2> QED BY <2>1, <2>2, <2>3 DEF StrictOrder
<1> HIDE DEF K
<1>5. /\ C \in Nat /\ sorted \in [1 .. C -> K]
      /\ \A i \in K : \E k \in 1 .. C : sorted[k] = i
      /\ \A k, l \in 1 .. C : k < l => <<sorted[k], sorted[l]>> \in ByPlace
  BY <1>2, <1>4, EnumerateInOrder
<1>6. Rfup = [n \in DOMAIN sorted |-> pointers[sorted[n]].at]
  BY DEF Rfup, K
<1> HIDE DEF sorted, C
<1>7. DOMAIN sorted = 1 .. C /\ \A n \in 1 .. C : sorted[n] \in K
  BY <1>5
<1>8. Rfup \in [1 .. C -> Nat] /\ \A n \in 1 .. C : Rfup[n] = pointers[sorted[n]].at
  BY <1>1, <1>6, <1>7
<1>9. Len(Rfup) = C
  <2>1. Rfup \in Seq(Nat)
    BY <1>5, <1>8, SeqDef
  <2> QED BY <1>5, <1>8, <2>1, LenProperties
<1>10. ASSUME NEW i \in 2 .. Len(Rfup) PROVE Rfup[i - 1] < Rfup[i]
  <2>1. i \in 1 .. C /\ i - 1 \in 1 .. C /\ i - 1 < i
    BY <1>5, <1>9
  <2>2. <<sorted[i - 1], sorted[i]>> \in ByPlace /\ sorted[i - 1] \in K /\ sorted[i] \in K
    BY <1>5, <1>7, <2>1
  <2> QED BY <1>3, <1>8, <2>1, <2>2
<1>11. Range(Rfup) = {pointers[i].at : i \in K}
  <2>1. Range(Rfup) = {Rfup[n] : n \in 1 .. C}
    BY <1>8 DEF Range
  <2>2. \A n \in 1 .. C : \E i \in K : Rfup[n] = pointers[i].at
    BY <1>7, <1>8
  <2>3. \A i \in K : \E n \in 1 .. C : Rfup[n] = pointers[i].at
    BY <1>5, <1>8
  <2> QED BY <2>1, <2>2, <2>3
<1> QED BY <1>10, <1>11 DEF K

\* Every pointer's target is that of the first pointer to an object of its id.
LEMMA FirstOfId ==
  ASSUME Placed, NEW i \in DOMAIN pointers
  PROVE  \E f \in Firsts : objects[pointers[f].target].id = objects[pointers[i].target].id
<1> DEFINE Same == {j \in DOMAIN pointers : objects[pointers[j].target].id = objects[pointers[i].target].id}
<1>1. Len(pointers) \in Nat /\ DOMAIN pointers = 1 .. Len(pointers)
  BY PointersTell
<1>2. Same \subseteq Nat /\ Same # {}
  BY <1>1
<1>3. PICK f \in Same : \A j \in Same : f <= j
  <2> HIDE DEF Same
  <2> QED BY <1>2, LeastNatural
<1>4. \A j \in 1 .. f - 1 : objects[pointers[j].target].id # objects[pointers[f].target].id
  <2> SUFFICES ASSUME NEW j \in 1 .. f - 1, objects[pointers[j].target].id = objects[pointers[f].target].id
               PROVE  FALSE
    OBVIOUS
  <2>1. f \in 1 .. Len(pointers)
    BY <1>1
  <2>2. j \in DOMAIN pointers /\ ~ f <= j
    BY <1>1, <2>1
  <2> QED BY <1>3, <2>2
<1> QED BY <1>4 DEF Firsts

\* The records of RNEW: one for each first pointer, then one for the root.
FirstsIn == {p \in Firsts \X Firsts : p[1] < p[2]}
FirstNumbers == Enumerate(Firsts, FirstsIn)
RnewAt(n) ==
    IF n \in DOMAIN FirstNumbers
    THEN NewRecord(pointers[FirstNumbers[n]].target, pointers[FirstNumbers[n]].off)
    ELSE NewRecord(Root(objects), RfciPrefix)

LEMMA FirstsNumbered ==
  ASSUME Placed
  PROVE  /\ Cardinality(Firsts) \in Nat /\ DOMAIN FirstNumbers = 1 .. Cardinality(Firsts)
         /\ \A n \in DOMAIN FirstNumbers : FirstNumbers[n] \in Firsts
         /\ \A i \in Firsts : \E n \in DOMAIN FirstNumbers : FirstNumbers[n] = i
         /\ \A k, l \in DOMAIN FirstNumbers : k < l => FirstNumbers[k] < FirstNumbers[l]
<1>1. Len(pointers) \in Nat /\ DOMAIN pointers = 1 .. Len(pointers)
  BY PointersTell
<1>2. IsFiniteSet(Firsts) /\ \A i \in Firsts : i \in Nat
  <2>1. IsFiniteSet(DOMAIN pointers) /\ Firsts \subseteq DOMAIN pointers
    BY <1>1, FS_Interval DEF Firsts
  <2> QED BY <1>1, <2>1, FS_Subset
<1>3. \A i, j \in Firsts : <<i, j>> \in FirstsIn <=> i < j
  BY DEF FirstsIn
<1>4. StrictOrder(Firsts, FirstsIn)
  BY <1>2, <1>3 DEF StrictOrder
<1>5. /\ Cardinality(Firsts) \in Nat /\ FirstNumbers \in [1 .. Cardinality(Firsts) -> Firsts]
      /\ \A i \in Firsts : \E k \in 1 .. Cardinality(Firsts) : FirstNumbers[k] = i
      /\ \A k, l \in 1 .. Cardinality(Firsts) : k < l => <<FirstNumbers[k], FirstNumbers[l]>> \in FirstsIn
  BY <1>2, <1>4, EnumerateInOrder DEF FirstNumbers
<1> QED BY <1>3, <1>5

LEMMA RnewIs ==
  ASSUME Placed
  PROVE  /\ Len(Rnew) = Cardinality(Firsts) + 1 /\ DOMAIN Rnew = 1 .. Cardinality(Firsts) + 1
         /\ \A n \in DOMAIN Rnew : Rnew[n] = RnewAt(n)
<1> DEFINE C == Cardinality(Firsts)
           record(n) == NewRecord(pointers[FirstNumbers[n]].target, pointers[FirstNumbers[n]].off)
           front == [n \in DOMAIN FirstNumbers |-> record(n)]
           root == NewRecord(Root(objects), RfciPrefix)
           E == {record(n) : n \in 1 .. C} \cup {root}
<1>1. C \in Nat /\ DOMAIN FirstNumbers = 1 .. C
  BY FirstsNumbered
<1>2. Rnew = front \o <<root>>
  BY DEF Rnew, FirstNumbers, FirstsIn
<1>3. front = [n \in 1 .. C |-> record(n)]
  BY <1>1
<1> HIDE DEF C, record, root
<1>4. front \in Seq(E)
  <2>1. \A n \in 1 .. C : record(n) \in E
    OBVIOUS
  <2> HIDE DEF E
  <2> QED BY <1>1, <1>3, <2>1, SeqDef
<1>5. Len(front) = C /\ \A n \in 1 .. C : front[n] = record(n)
  <2> HIDE DEF E
  <2>1. DOMAIN front = 1 .. Len(front) /\ Len(front) \in Nat
    BY <1>4, LenProperties
  <2> QED BY <1>1, <1>3, <1>4, <2>1, LenProperties
<1> HIDE DEF front
<1>6. <<root>> \in Seq(E) /\ Len(<<root>>) = 1 /\ <<root>>[1] = root
  OBVIOUS
<1> HIDE DEF E
<1>7. /\ Rnew \in Seq(E) /\ Len(Rnew) = C + 1
      /\ \A n \in 1 .. C + 1 : Rnew[n] = IF n <= C THEN front[n] ELSE <<root>>[n - C]
  <2>1. /\ Rnew \in Seq(E) /\ Len(Rnew) = Len(front) + Len(<<root>>)
        /\ \A n \in 1 .. Len(front) + Len(<<root>>) :
             Rnew[n] = IF n <= Len(front) THEN front[n] ELSE <<root>>[n - Len(front)]
    BY <1>2, <1>4, <1>6, ConcatProperties
  <2> QED BY <1>5, <1>6, <2>1
<1>8. DOMAIN Rnew = 1 .. C + 1
  BY <1>1, <1>7, LenProperties
<1>9. ASSUME NEW n \in 1 .. C + 1 PROVE Rnew[n] = RnewAt(n)
  <2>1. CASE n <= C
    <3>1. n \in 1 .. C
      BY <1>1, <2>1
    <3>2. RnewAt(n) = record(n)
      BY <1>1, <3>1 DEF RnewAt, record
    <3> QED BY <1>5, <1>7, <2>1, <3>1, <3>2
  <2>2. CASE ~ n <= C
    <3>1. n - C = 1 /\ n \notin 1 .. C
      BY <1>1, <2>2
    <3>2. RnewAt(n) = root
      BY <1>1, <3>1 DEF RnewAt, root
    <3>3. Rnew[n] = <<root>>[n - C]
      BY <1>7, <2>2
    <3> QED BY <1>6, <3>1, <3>2, <3>3
  <2> QED BY <2>1, <2>2
<1> QED BY <1>7, <1>8, <1>9 DEF C

LEMMA NewRecordParts ==
  \A o, off : /\ NewRecord(o, off).id = objects[o].id /\ NewRecord(o, off).type = objects[o].type
              /\ NewRecord(o, off).at = RfciFileOffset + off
              /\ NewRecord(o, off).root <=> objects[o].owner = 0
BY DEF NewRecord

LEMMA RnewParts ==
  ASSUME Placed, NEW n \in DOMAIN FirstNumbers
  PROVE  /\ n \in Nat /\ n < Len(Rnew) /\ n \in DOMAIN Rnew
         /\ FirstNumbers[n] \in DOMAIN pointers
         /\ Rnew[n] = NewRecord(pointers[FirstNumbers[n]].target, pointers[FirstNumbers[n]].off)
<1>1. n \in 1 .. Cardinality(Firsts) /\ FirstNumbers[n] \in Firsts /\ Cardinality(Firsts) \in Nat
  BY FirstsNumbered
<1>2. n \in 1 .. Cardinality(Firsts) + 1 /\ n < Cardinality(Firsts) + 1
  BY <1>1
<1>3. Rnew[n] = RnewAt(n)
  BY <1>2, RnewIs
<1> QED BY <1>1, <1>2, <1>3, RnewIs DEF RnewAt, Firsts

LEMMA RnewLast ==
  ASSUME Placed
  PROVE  /\ Len(Rnew) \in DOMAIN Rnew /\ Len(Rnew) \notin DOMAIN FirstNumbers
         /\ \A n \in DOMAIN Rnew : n \in DOMAIN FirstNumbers \/ n = Len(Rnew)
         /\ \A n \in 1 .. Len(Rnew) - 1 : n \in DOMAIN FirstNumbers
         /\ Rnew[Len(Rnew)] = NewRecord(Root(objects), RfciPrefix)
<1> DEFINE C == Cardinality(Firsts)
<1>1. C \in Nat /\ DOMAIN FirstNumbers = 1 .. C
  BY FirstsNumbered
<1>2. Len(Rnew) = C + 1 /\ DOMAIN Rnew = 1 .. C + 1 /\ \A n \in DOMAIN Rnew : Rnew[n] = RnewAt(n)
  BY RnewIs
<1> HIDE DEF C
<1>3. C + 1 \in 1 .. C + 1 /\ C + 1 \notin 1 .. C
  BY <1>1
<1>4. Rnew[C + 1] = NewRecord(Root(objects), RfciPrefix)
  BY <1>1, <1>2, <1>3 DEF RnewAt
<1> QED BY <1>1, <1>2, <1>3, <1>4

\* No two records of RNEW are of one id.
LEMMA RnewOnce ==
  ASSUME Placed, NEW i \in DOMAIN Rnew, NEW j \in DOMAIN Rnew, Rnew[i].id = Rnew[j].id
  PROVE  i = j
<1> DEFINE N == DOMAIN FirstNumbers
           Id(n) == objects[pointers[FirstNumbers[n]].target].id
           rootId == objects[Root(objects)].id
<1>1. \A n \in N : Rnew[n].id = Id(n) /\ FirstNumbers[n] \in DOMAIN pointers /\ n \in Nat
  BY RnewParts, NewRecordParts
<1>2. \A n \in N : Id(n) # rootId
  BY <1>1 DEF Placed
<1>3. Rnew[Len(Rnew)].id = rootId /\ \A n \in DOMAIN Rnew : n \in N \/ n = Len(Rnew)
  BY RnewLast, NewRecordParts
<1>4. ASSUME NEW k \in N, NEW l \in N, k < l PROVE Id(k) # Id(l)
  <2>1. FirstNumbers[k] < FirstNumbers[l] /\ FirstNumbers[l] \in Firsts /\ FirstNumbers[k] \in DOMAIN pointers
        /\ FirstNumbers[l] \in DOMAIN pointers
    BY <1>1, <1>4, FirstsNumbered
  <2>2. DOMAIN pointers = 1 .. Len(pointers) /\ Len(pointers) \in Nat
    BY PointersTell
  <2>3. FirstNumbers[k] \in 1 .. FirstNumbers[l] - 1
    BY <2>1, <2>2
  <2> QED BY <2>1, <2>3 DEF Firsts
<1> HIDE DEF N, Id, rootId
<1>5. CASE i \in N /\ j \in N
  <2>1. i \in Nat /\ j \in Nat /\ Id(i) = Id(j)
    BY <1>1, <1>5
  <2>2. ~ i < j /\ ~ j < i
    BY <1>4, <1>5, <2>1
  <2> QED BY <2>1, <2>2
<1>6. CASE ~ (i \in N /\ j \in N)
  BY <1>1, <1>2, <1>3, <1>6
<1> QED BY <1>5, <1>6

\* An object that was written has a record in ROBJ.
LEMMA RobjHas ==
  ASSUME NEW o, NEW off, \E n \in DOMAIN order : order[n] = Entry(o, off)
  PROVE  \E r \in Range(Robj) : /\ r.id = objects[o].id /\ r.type = objects[o].type
                                /\ r.at = RfciFileOffset + off
<1>1. PICK n \in DOMAIN order : order[n] = Entry(o, off)
  OBVIOUS
<1>2. order[n].obj = o /\ order[n].off = off
  BY <1>1 DEF Entry
<1> DEFINE obj == objects[o]
           r == [id |-> obj.id, type |-> obj.type, owner |-> obj.owner, at |-> RfciFileOffset + off]
<1>3. n \in DOMAIN Robj /\ Robj[n] = r
  BY <1>2 DEF Robj
<1>4. r \in Range(Robj)
  BY <1>3 DEF Range
<1> QED BY <1>4

LEMMA RootOwner ==
  ASSUME NEW objs \in Seq(Objects), Root(objs) # 0
  PROVE  objs[Root(objs)].owner = 0
<1> DEFINE roots == {i \in 1 .. Len(objs) : objs[i].owner = 0}
<1>1. Root(objs) = IF roots # {} THEN Min(roots) ELSE 0
  BY DEF Root, SelectInSeq
<1>2. roots \in SUBSET Nat /\ \A i \in roots : objs[i].owner = 0
  BY LenProperties
<1> HIDE DEF roots
<1> QED BY <1>1, <1>2, MinFound

\* Where the references lead is where the pointers say.
LeadsTo(blob) == {RfciFileOffset + p - 1 + blob[p][3] : p \in Slots(blob)}

LEMMA LeadsToIs ==
  ASSUME Placed
  PROVE  /\ {RfciFileOffset + p - 1 : p \in Slots(data)} = {pointers[i].at : i \in DOMAIN pointers}
         /\ \A i \in DOMAIN pointers : RfciFileOffset + pointers[i].off \in LeadsTo(data)
         /\ \A place \in LeadsTo(data) : \E i \in DOMAIN pointers : place = RfciFileOffset + pointers[i].off
<1> DEFINE At(p) == RfciFileOffset + p - 1
           To(p) == RfciFileOffset + p - 1 + data[p][3]
<1>1. /\ \A i \in DOMAIN pointers : \E p \in Slots(data) :
           pointers[i].at = At(p) /\ RfciFileOffset + pointers[i].off = To(p)
      /\ \A p \in Slots(data) : \E i \in DOMAIN pointers :
           pointers[i].at = At(p) /\ RfciFileOffset + pointers[i].off = To(p)
  BY PointersTell
<1>2. LeadsTo(data) = {To(p) : p \in Slots(data)}
  BY DEF LeadsTo
<1> HIDE DEF At, To
<1>3. {At(p) : p \in Slots(data)} = {pointers[i].at : i \in DOMAIN pointers}
  BY <1>1
<1> QED BY <1>1, <1>2, <1>3 DEF At

LEMMA TablesOfPlaced ==
  ASSUME Placed
  PROVE  TablesExact
<1> DEFINE last == Rnew[Len(Rnew)]
           idsAt(place) == {o.id : o \in {r \in Range(Robj) : r.at = place}}
<1>1. \A i \in 2 .. Len(Rfup) : Rfup[i - 1] < Rfup[i]
  BY RfupExact
<1>2. Range(Rfup) = {RfciFileOffset + p - 1 : p \in Slots(data)}
  BY RfupExact, LeadsToIs
<1>3. \A i, j \in DOMAIN Rnew : Rnew[i].id = Rnew[j].id => i = j
  BY RnewOnce
<1>4. ASSUME NEW r \in Range(Rnew)
      PROVE  \E o \in Range(Robj) : o.id = r.id /\ o.type = r.type /\ o.at = r.at
  <2>1. PICK n \in DOMAIN Rnew : Rnew[n] = r
    BY DEF Range
  <2>2. \E o, off : r = NewRecord(o, off) /\ \E k \in DOMAIN order : order[k] = Entry(o, off)
    <3>1. CASE n \in DOMAIN FirstNumbers
      BY <2>1, <3>1, RnewParts DEF Placed
    <3>2. CASE n = Len(Rnew)
      BY <2>1, <3>2, RnewLast DEF Placed
    <3> QED BY <3>1, <3>2, RnewLast
  <2>3. PICK o, off : r = NewRecord(o, off) /\ \E k \in DOMAIN order : order[k] = Entry(o, off)
    BY <2>2
  <2>4. r.id = objects[o].id /\ r.type = objects[o].type /\ r.at = RfciFileOffset + off
    BY <2>3, NewRecordParts
  <2> QED BY <2>3, <2>4, RobjHas
<1>5. last.root /\ last.at = RfciFileOffset + RfciPrefix
  BY RnewLast, RootOwner, NewRecordParts DEF Placed
<1>6. ASSUME NEW i \in 1 .. Len(Rnew) - 1 PROVE Rnew[i].at \in LeadsTo(data)
  <2>1. i \in DOMAIN FirstNumbers
    BY RnewLast
  <2>2. FirstNumbers[i] \in DOMAIN pointers /\ Rnew[i].at = RfciFileOffset + pointers[FirstNumbers[i]].off
    BY <2>1, RnewParts, NewRecordParts
  <2> QED BY <2>2, LeadsToIs
<1>7. ASSUME NEW place \in LeadsTo(data)
      PROVE  \E i \in 1 .. Len(Rnew) - 1 : Rnew[i].id \in idsAt(place)
  <2>1. PICK p \in DOMAIN pointers : place = RfciFileOffset + pointers[p].off
    BY LeadsToIs
  <2>2. PICK f \in Firsts : objects[pointers[f].target].id = objects[pointers[p].target].id
    BY FirstOfId
  <2>3. PICK i \in DOMAIN FirstNumbers : FirstNumbers[i] = f
    BY FirstsNumbered
  <2>4. i \in 1 .. Len(Rnew) - 1
    <3>1. i \in 1 .. Cardinality(Firsts) /\ Len(Rnew) = Cardinality(Firsts) + 1 /\ Cardinality(Firsts) \in Nat
      BY FirstsNumbered, RnewIs
    <3> QED BY <3>1
  <2>5. Rnew[i].id = objects[pointers[p].target].id
    BY <2>2, <2>3, RnewParts, NewRecordParts
  <2>6. PICK r \in Range(Robj) : r.id = objects[pointers[p].target].id /\ r.at = place
    BY <2>1, RobjHas DEF Placed
  <2> QED BY <2>4, <2>5, <2>6
<1> HIDE DEF last, idsAt
<1> QED BY <1>1, <1>2, <1>3, <1>4, <1>5, <1>6, <1>7 DEF TablesExact, Slots, LeadsTo, last, idsAt

(***************************************************************************)
(* A loader can move every blob: RFUP has every 8-byte reference in it, in *)
(* ascending order and nothing else, RNEW every object one leads to, once, *)
(* where ROBJ has it, and the root last (reflect_write.rs, build_rfup,     *)
(* build_rnew, build_robj): for every schema whose fields lie within their *)
(* types, and graphs whose objects stay within theirs, whose raw bytes     *)
(* hold no references, and in which nothing refers to the root.            *)
(***************************************************************************)
THEOREM TablesAreExact ==
  ASSUME RoomySchema, GraphsRoomy
  PROVE  LayoutSpec => []TablesExact
<1> DEFINE Inv == LayoutInv /\ TargetInv /\ SlotInv
<1>1. LayoutInit => Inv
  BY LayoutStarts, TargetStarts, SlotStarts
<1>2. Inv /\ [LayoutNext]_layoutVars => Inv'
  BY LayoutStepKeeps, TargetStepKeeps, SlotStepKeeps
<1>3. Inv => TablesExact
  <2> SUFFICES ASSUME Inv, status = "placed" PROVE TablesExact
    BY DEF TablesExact
  <2> QED BY PlacedHolds, TablesOfPlaced
<1> HIDE DEF Inv
<1> QED BY <1>1, <1>2, <1>3, PTL DEF LayoutSpec

-----------------------------------------------------------------------------
(***************************************************************************)
(* Documents: which elements are open before an event, and that the parent *)
(* of an event is the innermost of them.                                   *)
(***************************************************************************)
Outer(doc, n) == {i \in 1 .. n - 1 : doc[i].event = "start" /\ Depth(doc, i) = Depth(doc, n) - 1}
ParentOf(doc, n) == Max({0} \cup Outer(doc, n))
Open(doc, n) == {i \in 1 .. n - 1 : doc[i].event = "start" /\ \A j \in i + 1 .. n : Depth(doc, j) > Depth(doc, i)}

\* How an event changes the depth behind it.
Rise(event) == IF event = "start" THEN 1 ELSE IF event = "end" THEN 0 - 1 ELSE 0

\* How many of a set come up to n, one more than up to n - 1 if n is in it.
LEMMA CountTo ==
  ASSUME NEW S, NEW n \in Nat \ {0}
  PROVE  /\ IsFiniteSet(S \cap 1 .. n)
         /\ Cardinality(S \cap 1 .. n) \in Nat /\ Cardinality(S \cap 1 .. n - 1) \in Nat
         /\ Cardinality(S \cap 1 .. n) = Cardinality(S \cap 1 .. n - 1) + (IF n \in S THEN 1 ELSE 0)
<1>1. IsFiniteSet(1 .. n) /\ IsFiniteSet(1 .. n - 1)
  BY FS_Interval
<1>2. IsFiniteSet(S \cap 1 .. n) /\ IsFiniteSet(S \cap 1 .. n - 1)
  BY <1>1, FS_Subset
<1>3. Cardinality(S \cap 1 .. n) \in Nat /\ Cardinality(S \cap 1 .. n - 1) \in Nat
  BY <1>2, FS_CardinalityType
<1>4. CASE n \in S
  <2>1. S \cap 1 .. n = (S \cap 1 .. n - 1) \cup {n}
    BY <1>4
  <2>2. n \notin S \cap 1 .. n - 1
    OBVIOUS
  <2> QED BY <2>1, <2>2, <1>2, <1>3, <1>4, FS_AddElement
<1>5. CASE n \notin S
  <2>1. S \cap 1 .. n = S \cap 1 .. n - 1
    BY <1>5
  <2> QED BY <2>1, <1>2, <1>3, <1>5
<1> QED BY <1>4, <1>5

\* Nothing comes before the first.
LEMMA CountNone ==
  ASSUME NEW S
  PROVE  Cardinality(S \cap 1 .. 0) = 0
<1>1. S \cap 1 .. 0 = {}
  OBVIOUS
<1> QED BY <1>1, FS_EmptySet

\* Behind a start it is one deeper, behind an end one less deep.
LEMMA DepthNext ==
  ASSUME NEW doc, NEW n \in Nat \ {0}
  PROVE  /\ Depth(doc, n) \in Int /\ Depth(doc, 1) = 0
         /\ Depth(doc, n + 1) = Depth(doc, n) + Rise(doc[n].event)
<1> DEFINE S(event) == {i \in Nat : doc[i].event = event}
<1>1. ASSUME NEW event, NEW m \in Nat
      PROVE  {i \in 1 .. m : doc[i].event = event} = S(event) \cap 1 .. m
  OBVIOUS
<1>2. \A m \in Nat \ {0} : Depth(doc, m) = Cardinality(S("start") \cap 1 .. m - 1) - Cardinality(S("end") \cap 1 .. m - 1)
  <2> TAKE m \in Nat \ {0}
  <2>1. {i \in 1 .. m - 1 : doc[i].event = "start"} = S("start") \cap 1 .. m - 1
    BY <1>1
  <2>2. {i \in 1 .. m - 1 : doc[i].event = "end"} = S("end") \cap 1 .. m - 1
    BY <1>1
  <2> HIDE DEF S
  <2> QED BY <2>1, <2>2 DEF Depth
<1>3. \A event : /\ Cardinality(S(event) \cap 1 .. n) \in Nat /\ Cardinality(S(event) \cap 1 .. n - 1) \in Nat
                 /\ Cardinality(S(event) \cap 1 .. n) = Cardinality(S(event) \cap 1 .. n - 1) + (IF doc[n].event = event THEN 1 ELSE 0)
  <2> TAKE event
  <2>1. n \in S(event) <=> doc[n].event = event
    OBVIOUS
  <2> HIDE DEF S
  <2> QED BY <2>1, CountTo
<1>4. \A event : Cardinality(S(event) \cap 1 .. 0) = 0
  BY CountNone
<1> HIDE DEF S
<1>5. Depth(doc, n + 1) = Cardinality(S("start") \cap 1 .. n) - Cardinality(S("end") \cap 1 .. n)
  <2>1. (n + 1) - 1 = n /\ n + 1 \in Nat \ {0}
    OBVIOUS
  <2> QED BY <2>1, <1>2
<1>6. Depth(doc, 1) = 0
  <2>1. 1 - 1 = 0 /\ 1 \in Nat \ {0}
    OBVIOUS
  <2>2. Depth(doc, 1) = Cardinality(S("start") \cap 1 .. 0) - Cardinality(S("end") \cap 1 .. 0)
    BY <2>1, <1>2
  <2> QED BY <2>2, <1>4
<1>7. Depth(doc, n) = Cardinality(S("start") \cap 1 .. n - 1) - Cardinality(S("end") \cap 1 .. n - 1)
  BY <1>2
<1> DEFINE a == Cardinality(S("start") \cap 1 .. n - 1)
           b == Cardinality(S("end") \cap 1 .. n - 1)
           c == Cardinality(S("start") \cap 1 .. n)
           d == Cardinality(S("end") \cap 1 .. n)
<1>8. /\ a \in Nat /\ b \in Nat
      /\ c = a + (IF doc[n].event = "start" THEN 1 ELSE 0) /\ d = b + (IF doc[n].event = "end" THEN 1 ELSE 0)
  BY <1>3
<1>9. Depth(doc, n) = a - b /\ Depth(doc, n + 1) = c - d
  BY <1>5, <1>7
<1> HIDE DEF a, b, c, d
<1> QED BY <1>6, <1>8, <1>9 DEF Rise

\* The maximum is what is in the set and nowhere exceeded.
LEMMA MaxIs ==
  ASSUME NEW S, NEW x, S \subseteq Int, x \in S, \A y \in S : y <= x
  PROVE  Max(S) = x
<1>1. \A y \in S : x >= y
  OBVIOUS
<1>2. Max(S) \in S /\ \A y \in S : Max(S) >= y
  BY <1>1 DEF Max
<1> DEFINE m == Max(S)
<1>3. m \in S /\ m >= x
  BY <1>2
<1> HIDE DEF m
<1>4. m = x
  BY <1>3
<1> QED BY <1>4 DEF m

\* The parent of an event is the innermost element open before it.
Nested(doc, n) ==
    /\ ParentOf(doc, n) \in {0} \cup Outer(doc, n)
    /\ \A i \in Outer(doc, n) : i <= ParentOf(doc, n)
    /\ ParentOf(doc, n) = 0 => Open(doc, n) = {}
    /\ ParentOf(doc, n) # 0 => ParentOf(doc, n) \in Open(doc, n)

\* Nothing is open before the first event.
LEMMA NestedFirst ==
  ASSUME NEW doc
  PROVE  Nested(doc, 1) /\ ParentOf(doc, 1) = 0 /\ Open(doc, 1) = {}
<1>1. Outer(doc, 1) = {} /\ Open(doc, 1) = {}
  BY DEF Outer, Open
<1>2. ParentOf(doc, 1) = 0
  BY <1>1, MaxIs DEF ParentOf
<1> QED BY <1>1, <1>2 DEF Nested

\* The parent is the last of the outer starts.
LEMMA ParentIs ==
  ASSUME NEW doc, NEW n \in Nat \ {0}, NEW p \in Outer(doc, n) \cup {0},
         \A i \in Outer(doc, n) : i <= p
  PROVE  ParentOf(doc, n) = p
<1>1. Outer(doc, n) \subseteq Nat
  BY DEF Outer
<1>2. {0} \cup Outer(doc, n) \subseteq Int /\ p \in {0} \cup Outer(doc, n) /\ p >= 0
  BY <1>1
<1>3. \A y \in {0} \cup Outer(doc, n) : y <= p
  BY <1>2
<1> HIDE DEF Outer
<1> QED BY <1>2, <1>3, MaxIs DEF ParentOf

\* Behind a start its element is open, too.
LEMMA NestedStart ==
  ASSUME NEW doc, NEW n \in Nat \ {0}, Nested(doc, n), doc[n].event = "start"
  PROVE  /\ Nested(doc, n + 1)
         /\ ParentOf(doc, n + 1) = n
         /\ Open(doc, n + 1) = Open(doc, n) \cup {n}
<1>1. Depth(doc, n) \in Int /\ Depth(doc, n + 1) = Depth(doc, n) + 1
  BY DepthNext DEF Rise
<1>2. n \in Outer(doc, n + 1) /\ \A i \in Outer(doc, n + 1) : i <= n
  BY <1>1 DEF Outer
<1>3. ParentOf(doc, n + 1) = n
  BY <1>2, ParentIs
<1>4. \A i \in Nat \ {0} : Depth(doc, i) \in Int
  BY DepthNext
<1>5. ASSUME NEW i \in Open(doc, n)
      PROVE  i \in Open(doc, n + 1)
  <2>1. /\ i \in 1 .. n - 1 /\ doc[i].event = "start"
        /\ \A j \in i + 1 .. n : Depth(doc, j) > Depth(doc, i)
    BY <1>5 DEF Open
  <2>2. Depth(doc, n) > Depth(doc, i) /\ Depth(doc, i) \in Int
    BY <2>1, <1>4
  <2>3. ASSUME NEW j \in i + 1 .. n + 1
        PROVE  Depth(doc, j) > Depth(doc, i)
    <3>1. CASE j = n + 1
      BY <3>1, <2>2, <1>1
    <3>2. CASE j # n + 1
      BY <3>2, <2>1
    <3> QED BY <3>1, <3>2
  <2> QED BY <2>1, <2>3 DEF Open
<1>6. n \in Open(doc, n + 1)
  <2>1. \A j \in n + 1 .. n + 1 : j = n + 1
    OBVIOUS
  <2>2. \A j \in n + 1 .. n + 1 : Depth(doc, j) > Depth(doc, n)
    BY <2>1, <1>1
  <2> QED BY <2>2 DEF Open
<1>7. ASSUME NEW i \in Open(doc, n + 1), i # n
      PROVE  i \in Open(doc, n)
  BY <1>7 DEF Open
<1>8. Open(doc, n + 1) = Open(doc, n) \cup {n}
  BY <1>5, <1>6, <1>7
<1> QED BY <1>2, <1>3, <1>6, <1>8 DEF Nested

\* Behind an event that is neither start nor end the same elements are.
LEMMA NestedOn ==
  ASSUME NEW doc, NEW n \in Nat \ {0}, Nested(doc, n), doc[n].event \notin {"start", "end"}
  PROVE  /\ Nested(doc, n + 1)
         /\ ParentOf(doc, n + 1) = ParentOf(doc, n)
         /\ Open(doc, n + 1) = Open(doc, n)
<1>1. Depth(doc, n) \in Int /\ Depth(doc, n + 1) = Depth(doc, n)
  BY DepthNext DEF Rise
<1>2. Outer(doc, n + 1) = Outer(doc, n)
  <2>1. \A i \in Outer(doc, n + 1) : i # n
    BY DEF Outer
  <2> QED BY <2>1, <1>1 DEF Outer
<1>3. ParentOf(doc, n + 1) = ParentOf(doc, n)
  BY <1>2 DEF ParentOf
<1>4. ASSUME NEW i \in Open(doc, n)
      PROVE  i \in Open(doc, n + 1)
  <2>1. /\ i \in 1 .. n - 1 /\ doc[i].event = "start"
        /\ \A j \in i + 1 .. n : Depth(doc, j) > Depth(doc, i)
    BY <1>4 DEF Open
  <2>2. Depth(doc, n) > Depth(doc, i)
    BY <2>1
  <2>3. ASSUME NEW j \in i + 1 .. n + 1
        PROVE  Depth(doc, j) > Depth(doc, i)
    <3>1. CASE j = n + 1
      BY <3>1, <2>2, <1>1
    <3>2. CASE j # n + 1
      BY <3>2, <2>1
    <3> QED BY <3>1, <3>2
  <2> QED BY <2>1, <2>3 DEF Open
<1>5. ASSUME NEW i \in Open(doc, n + 1)
      PROVE  i \in Open(doc, n)
  <2>1. i # n
    BY <1>5 DEF Open
  <2> QED BY <1>5, <2>1 DEF Open
<1>6. Open(doc, n + 1) = Open(doc, n)
  BY <1>4, <1>5
<1> QED BY <1>2, <1>3, <1>6 DEF Nested

\* What is open within an element is what was open before it, and itself.
LEMMA OpenWithin ==
  ASSUME NEW doc, NEW n \in Nat \ {0}, Nested(doc, n), ParentOf(doc, n) # 0
  PROVE  LET p == ParentOf(doc, n)
         IN /\ p \in 1 .. n - 1 /\ doc[p].event = "start" /\ Depth(doc, p) = Depth(doc, n) - 1
            /\ Open(doc, n) = Open(doc, p) \cup {p}
            /\ \A i \in Open(doc, n) : i <= p
<1> DEFINE p == ParentOf(doc, n)
<1>1. p \in 1 .. n - 1 /\ doc[p].event = "start" /\ Depth(doc, p) = Depth(doc, n) - 1
  BY DEF Nested, Outer
<1>2. p \in Open(doc, n)
  BY DEF Nested
<1> HIDE DEF p
<1>3. \A i \in Nat \ {0} : Depth(doc, i) \in Int
  BY DepthNext
<1>4. \A j \in p + 1 .. n : Depth(doc, j) > Depth(doc, p)
  BY <1>2 DEF Open
<1>5. ASSUME NEW i \in Open(doc, n)
      PROVE  i <= p /\ (i # p => i \in Open(doc, p))
  <2>1. /\ i \in 1 .. n - 1 /\ doc[i].event = "start"
        /\ \A j \in i + 1 .. n : Depth(doc, j) > Depth(doc, i)
    BY <1>5 DEF Open
  <2>2. ASSUME i > p
        PROVE  FALSE
    <3>1. Depth(doc, i) > Depth(doc, p) /\ Depth(doc, n) > Depth(doc, i)
      BY <2>1, <2>2, <1>1, <1>4
    <3>2. Depth(doc, i) \in Int /\ Depth(doc, p) \in Int /\ Depth(doc, n) \in Int
      BY <2>1, <1>1, <1>3
    <3> QED BY <3>1, <3>2, <1>1
  <2>3. i <= p
    BY <2>1, <2>2, <1>1
  <2> QED BY <2>1, <2>3, <1>1 DEF Open
<1>6. ASSUME NEW i \in Open(doc, p)
      PROVE  i \in Open(doc, n)
  <2>1. /\ i \in 1 .. p - 1 /\ doc[i].event = "start"
        /\ \A j \in i + 1 .. p : Depth(doc, j) > Depth(doc, i)
    BY <1>6 DEF Open
  <2>2. Depth(doc, p) > Depth(doc, i) /\ Depth(doc, p) \in Int /\ Depth(doc, i) \in Int
    BY <2>1, <1>1, <1>3
  <2>3. ASSUME NEW j \in i + 1 .. n
        PROVE  Depth(doc, j) > Depth(doc, i)
    <3>1. CASE j <= p
      BY <3>1, <2>1, <1>1
    <3>2. CASE j > p
      <4>1. Depth(doc, j) > Depth(doc, p) /\ Depth(doc, j) \in Int
        BY <3>2, <2>1, <1>1, <1>3, <1>4
      <4> QED BY <4>1, <2>2
    <3> QED BY <3>1, <3>2, <2>1, <1>1
  <2>4. i \in 1 .. n - 1
    BY <2>1, <1>1
  <2> QED BY <2>1, <2>3, <2>4 DEF Open
<1>7. Open(doc, n) = Open(doc, p) \cup {p} /\ \A i \in Open(doc, n) : i <= p
  BY <1>2, <1>5, <1>6
<1> QED BY <1>1, <1>7 DEF p

\* Behind an end the elements are open that were before its start.
LEMMA NestedEnd ==
  ASSUME NEW doc, NEW n \in Nat \ {0}, Nested(doc, n), doc[n].event = "end",
         ParentOf(doc, n) # 0, Nested(doc, ParentOf(doc, n))
  PROVE  LET p == ParentOf(doc, n)
         IN /\ Nested(doc, n + 1)
            /\ ParentOf(doc, n + 1) = ParentOf(doc, p)
            /\ Open(doc, n + 1) = Open(doc, p)
            /\ Open(doc, n + 1) = Open(doc, n) \ {p}
<1> DEFINE p == ParentOf(doc, n)
<1>1. /\ p \in 1 .. n - 1 /\ doc[p].event = "start" /\ Depth(doc, p) = Depth(doc, n) - 1
      /\ Open(doc, n) = Open(doc, p) \cup {p}
  BY OpenWithin
<1>2. Nested(doc, p) /\ p \in Open(doc, n)
  BY DEF Nested
<1> HIDE DEF p
<1>3. \A i \in Nat \ {0} : Depth(doc, i) \in Int
  BY DepthNext
<1>4. Depth(doc, n + 1) = Depth(doc, p)
  <2>1. Depth(doc, n) \in Int /\ Depth(doc, n + 1) = Depth(doc, n) - 1
    BY DepthNext DEF Rise
  <2> QED BY <2>1, <1>1
<1>5. \A j \in p + 1 .. n : Depth(doc, j) > Depth(doc, p)
  BY <1>2 DEF Open
<1>6. p \in Nat \ {0}
  BY <1>1
<1>7. Outer(doc, n + 1) = Outer(doc, p)
  <2>1. ASSUME NEW i \in Outer(doc, n + 1)
        PROVE  i \in Outer(doc, p)
    <3>1. i \in 1 .. n /\ doc[i].event = "start" /\ Depth(doc, i) = Depth(doc, p) - 1
      BY <2>1, <1>4 DEF Outer
    <3>2. Depth(doc, i) \in Int /\ Depth(doc, p) \in Int
      BY <3>1, <1>3, <1>6
    <3>3. ~(i > p)
      <4>1. ASSUME i > p
            PROVE  Depth(doc, i) > Depth(doc, p)
        BY <3>1, <4>1, <1>5, <1>6
      <4> QED BY <4>1, <3>1, <3>2
    <3>4. i # p
      BY <3>1, <3>2
    <3> QED BY <3>1, <3>3, <3>4, <1>6 DEF Outer
  <2>2. ASSUME NEW i \in Outer(doc, p)
        PROVE  i \in Outer(doc, n + 1)
    BY <2>2, <1>1, <1>4 DEF Outer
  <2> QED BY <2>1, <2>2
<1>8. ParentOf(doc, n + 1) = ParentOf(doc, p)
  BY <1>7 DEF ParentOf
<1>9. Open(doc, n + 1) = Open(doc, p)
  <2>1. ASSUME NEW i \in Open(doc, n + 1)
        PROVE  i \in Open(doc, p)
    <3>1. /\ i \in 1 .. n /\ doc[i].event = "start"
          /\ \A j \in i + 1 .. n + 1 : Depth(doc, j) > Depth(doc, i)
      BY <2>1 DEF Open
    <3>2. Depth(doc, n + 1) > Depth(doc, i) /\ Depth(doc, i) \in Int /\ Depth(doc, p) \in Int
      BY <3>1, <1>3, <1>6
    <3>3. i # p
      BY <3>2, <1>4
    <3>4. ~(i > p)
      <4>1. ASSUME i > p
            PROVE  Depth(doc, i) > Depth(doc, p)
        BY <3>1, <4>1, <1>5, <1>6
      <4> QED BY <4>1, <3>2, <1>4
    <3>5. i \in 1 .. p - 1 /\ p <= n
      BY <3>1, <3>3, <3>4, <1>1
    <3>6. ASSUME NEW j \in i + 1 .. p
          PROVE  Depth(doc, j) > Depth(doc, i)
      BY <3>1, <3>5, <1>6
    <3> QED BY <3>1, <3>5, <3>6 DEF Open
  <2>2. ASSUME NEW i \in Open(doc, p)
        PROVE  i \in Open(doc, n + 1)
    <3>1. /\ i \in 1 .. p - 1 /\ doc[i].event = "start"
          /\ \A j \in i + 1 .. p : Depth(doc, j) > Depth(doc, i)
      BY <2>2 DEF Open
    <3>2. i \in Open(doc, n)
      BY <2>2, <1>1
    <3>3. \A j \in i + 1 .. n : Depth(doc, j) > Depth(doc, i)
      BY <3>2 DEF Open
    <3>4. Depth(doc, p) > Depth(doc, i)
      BY <3>1, <1>1
    <3>5. ASSUME NEW j \in i + 1 .. n + 1
          PROVE  Depth(doc, j) > Depth(doc, i)
      <4>1. CASE j = n + 1
        BY <4>1, <3>4, <1>4
      <4>2. CASE j # n + 1
        BY <4>2, <3>1, <3>3
      <4> QED BY <4>1, <4>2
    <3>6. i \in 1 .. (n + 1) - 1
      BY <3>1, <1>1
    <3> QED BY <3>1, <3>5, <3>6 DEF Open
  <2> QED BY <2>1, <2>2
<1>10. Nested(doc, n + 1)
  BY <1>2, <1>7, <1>8, <1>9 DEF Nested
<1>11. p \notin Open(doc, p)
  BY <1>6 DEF Open
<1>12. Open(doc, n + 1) = Open(doc, n) \ {p}
  BY <1>1, <1>9, <1>11
<1> QED BY <1>8, <1>9, <1>10, <1>12 DEF p

\* Every end is that of an element.
EndsClose(doc) == \A n \in 1 .. Len(doc) : doc[n].event = "end" => ParentOf(doc, n) # 0

\* So it is for every event of a document: the first it is not for cannot be
\* the first event, nor behind a start, an end or another event.
LEMMA AllNested ==
  ASSUME NEW doc, Len(doc) \in Nat, EndsClose(doc)
  PROVE  \A n \in 1 .. Len(doc) + 1 : Nested(doc, n)
<1> DEFINE Bad == {n \in 1 .. Len(doc) + 1 : ~Nested(doc, n)}
<1> SUFFICES ASSUME Bad # {}
             PROVE  FALSE
  OBVIOUS
<1>1. PICK m \in Bad : \A n \in Bad : m <= n
  <2>1. Bad \subseteq Nat
    OBVIOUS
  <2> QED BY <2>1, LeastNatural
<1>2. m \in 1 .. Len(doc) + 1 /\ ~Nested(doc, m)
  OBVIOUS
<1>3. m # 1
  BY <1>2, NestedFirst
<1>4. PICK n \in 1 .. Len(doc) : m = n + 1
  <2>1. m - 1 \in 1 .. Len(doc) /\ m = (m - 1) + 1
    BY <1>2, <1>3
  <2> QED BY <2>1
<1>5. \A k \in 1 .. n : Nested(doc, k)
  BY <1>1, <1>4
<1> HIDE DEF Bad
<1>6. Nested(doc, n) /\ n \in Nat \ {0}
  BY <1>5
<1>7. CASE doc[n].event = "start"
  BY <1>2, <1>4, <1>6, <1>7, NestedStart
<1>8. CASE doc[n].event = "end"
  <2>1. ParentOf(doc, n) # 0
    BY <1>8 DEF EndsClose
  <2>2. ParentOf(doc, n) \in 1 .. n - 1
    BY <2>1, <1>6, OpenWithin
  <2>3. Nested(doc, ParentOf(doc, n))
    BY <2>2, <1>5
  <2> QED BY <2>1, <2>3, <1>2, <1>4, <1>6, <1>8, NestedEnd
<1>9. CASE doc[n].event \notin {"start", "end"}
  BY <1>2, <1>4, <1>6, <1>9, NestedOn
<1> QED BY <1>7, <1>8, <1>9

(***************************************************************************)
(* What is counted and what is kept in order.                              *)
(***************************************************************************)
LEMMA CountMonotone ==
  ASSUME NEW S, NEW i \in Nat, NEW j \in Nat, i <= j
  PROVE  /\ Cardinality(S \cap 1 .. i) \in Nat
         /\ Cardinality(S \cap 1 .. i) <= Cardinality(S \cap 1 .. j)
         /\ i < j /\ j \in S => Cardinality(S \cap 1 .. i) < Cardinality(S \cap 1 .. j)
<1>1. IsFiniteSet(1 .. j) /\ IsFiniteSet(1 .. i)
  BY FS_Interval
<1>2. IsFiniteSet(S \cap 1 .. j) /\ IsFiniteSet(S \cap 1 .. i)
  BY <1>1, FS_Subset
<1>3. S \cap 1 .. i \in SUBSET (S \cap 1 .. j)
  OBVIOUS
<1>4. /\ Cardinality(S \cap 1 .. i) <= Cardinality(S \cap 1 .. j)
      /\ Cardinality(S \cap 1 .. j) = Cardinality(S \cap 1 .. i) => S \cap 1 .. j = S \cap 1 .. i
  BY <1>2, <1>3, FS_Subset
<1>5. Cardinality(S \cap 1 .. i) \in Nat /\ Cardinality(S \cap 1 .. j) \in Nat
  BY <1>2, FS_CardinalityType
<1>6. ASSUME i < j, j \in S
      PROVE  S \cap 1 .. j # S \cap 1 .. i
  <2>1. j \in S \cap 1 .. j /\ j \notin S \cap 1 .. i
    BY <1>6
  <2> QED BY <2>1
<1> QED BY <1>4, <1>5, <1>6

\* Members have different numbers, from 1 on.
LEMMA CountsDiffer ==
  ASSUME NEW S, NEW i \in Nat \ {0}, NEW j \in Nat \ {0}, i \in S
  PROVE  /\ Cardinality(S \cap 1 .. i) \in Nat \ {0}
         /\ j \in S /\ Cardinality(S \cap 1 .. i) = Cardinality(S \cap 1 .. j) => i = j
<1>1. Cardinality(S \cap 1 .. i) \in Nat /\ Cardinality(S \cap 1 .. j) \in Nat
  BY CountTo
<1>2. Cardinality(S \cap 1 .. 0) < Cardinality(S \cap 1 .. i)
  <2>1. 0 \in Nat /\ 0 <= i /\ 0 < i
    OBVIOUS
  <2> QED BY <2>1, CountMonotone
<1>3. ASSUME j \in S, i # j
      PROVE  Cardinality(S \cap 1 .. i) # Cardinality(S \cap 1 .. j)
  <2>1. CASE i < j
    <3>1. i \in Nat /\ j \in Nat /\ i <= j
      BY <2>1
    <3>2. Cardinality(S \cap 1 .. i) < Cardinality(S \cap 1 .. j)
      BY <3>1, <2>1, <1>3, CountMonotone
    <3> QED BY <3>2, <1>1
  <2>2. CASE j < i
    <3>1. i \in Nat /\ j \in Nat /\ j <= i
      BY <2>2
    <3>2. Cardinality(S \cap 1 .. j) < Cardinality(S \cap 1 .. i)
      BY <3>1, <2>2, CountMonotone
    <3> QED BY <3>2, <1>1
  <2>3. i < j \/ j < i
    BY <1>3
  <2> QED BY <2>1, <2>2, <2>3
<1>4. Cardinality(S \cap 1 .. i) # 0
  BY <1>1, <1>2, CountNone
<1> QED BY <1>1, <1>3, <1>4

\* A sequence, whatever it is of.
IsSeq(s) == s \in Seq(Range(s))

LEMMA IsSeqFacts ==
  ASSUME NEW s, IsSeq(s)
  PROVE  Len(s) \in Nat /\ DOMAIN s = 1 .. Len(s)
  BY DEF IsSeq

LEMMA SeqIsSeq ==
  ASSUME NEW S, NEW s \in Seq(S)
  PROVE  IsSeq(s)
<1>1. \A k \in 1 .. Len(s) : s[k] \in Range(s)
  BY DEF Range
<1> QED BY <1>1 DEF IsSeq

\* What Append does to any sequence.
LEMMA AppendIs ==
  ASSUME NEW s, NEW x, IsSeq(s)
  PROVE  /\ IsSeq(Append(s, x))
         /\ Len(Append(s, x)) = Len(s) + 1
         /\ Append(s, x)[Len(s) + 1] = x
         /\ \A k \in 1 .. Len(s) : Append(s, x)[k] = s[k]
<1> DEFINE S == Range(s) \cup {x}
<1>1. s \in Seq(S)
  <2>1. \A k \in 1 .. Len(s) : s[k] \in S
    BY DEF IsSeq, Range
  <2> HIDE DEF S
  <2> QED BY <2>1 DEF IsSeq
<1>2. x \in S
  OBVIOUS
<1> HIDE DEF S
<1>3. /\ Append(s, x) \in Seq(S) /\ Len(Append(s, x)) = Len(s) + 1
      /\ Append(s, x)[Len(s) + 1] = x /\ \A k \in 1 .. Len(s) : Append(s, x)[k] = s[k]
  BY <1>1, <1>2
<1>4. IsSeq(Append(s, x))
  BY <1>3, SeqIsSeq
<1> QED BY <1>3, <1>4

\* A list in order is, with the next text appended.
LEMMA InOrderNext ==
  ASSUME NEW doc, NEW T, NEW n \in Nat \ {0}, NEW ids, IsSeq(ids), n \in T,
         InOrder(ids, doc, T \cap 1 .. n - 1)
  PROVE  InOrder(Append(ids, doc[n].id), doc, T \cap 1 .. n)
<1> DEFINE new == Append(ids, doc[n].id)
<1>1. /\ Len(new) = Len(ids) + 1 /\ new[Len(ids) + 1] = doc[n].id
      /\ \A k \in 1 .. Len(ids) : new[k] = ids[k]
  BY AppendIs
<1> HIDE DEF new
<1>2. Cardinality(T \cap 1 .. n) = Cardinality(T \cap 1 .. n - 1) + 1
  BY CountTo
<1>3. Len(ids) = Cardinality(T \cap 1 .. n - 1)
  BY DEF InOrder
<1>4. ASSUME NEW m \in Nat, NEW i \in T \cap 1 .. m
      PROVE  {j \in T \cap 1 .. m : j <= i} = T \cap 1 .. i
  OBVIOUS
<1>5. ASSUME NEW i \in T \cap 1 .. n
      PROVE  new[Cardinality({j \in T \cap 1 .. n : j <= i})] = doc[i].id
  <2>1. Cardinality({j \in T \cap 1 .. n : j <= i}) = Cardinality(T \cap 1 .. i)
    BY <1>4
  <2>2. CASE i = n
    BY <2>1, <2>2, <1>1, <1>2, <1>3
  <2>3. CASE i # n
    <3>1. i \in T \cap 1 .. n - 1 /\ n - 1 \in Nat
      BY <2>3
    <3>2. ids[Cardinality({j \in T \cap 1 .. n - 1 : j <= i})] = doc[i].id
      BY <3>1 DEF InOrder
    <3>3. Cardinality({j \in T \cap 1 .. n - 1 : j <= i}) = Cardinality(T \cap 1 .. i)
      BY <3>1, <1>4
    <3>4. Cardinality(T \cap 1 .. i) \in Nat \ {0}
      BY <3>1, CountsDiffer
    <3>5. Cardinality(T \cap 1 .. i) <= Cardinality(T \cap 1 .. n - 1)
      <4>1. i \in Nat /\ i <= n - 1
        BY <3>1
      <4> QED BY <4>1, <3>1, CountMonotone
    <3>6. Cardinality(T \cap 1 .. i) \in 1 .. Len(ids)
      BY <3>4, <3>5, <1>3, IsSeqFacts
    <3> QED BY <2>1, <3>2, <3>3, <3>6, <1>1
  <2> QED BY <2>2, <2>3
<1> QED BY <1>1, <1>2, <1>3, <1>5 DEF InOrder, new

(***************************************************************************)
(* A vector that holds a value for every member of a set, in their order.  *)
(***************************************************************************)
Ascends(s, S) ==
    /\ s \in Seq(S)
    /\ \A x \in S : \E k \in 1 .. Len(s) : s[k] = x
    /\ \A j, k \in 1 .. Len(s) : j < k => s[j] < s[k]

Holds(v, S, f) == \E s : Ascends(s, S) /\ v = [k \in 1 .. Len(s) |-> f[s[k]]]

\* A vector holds the values of no member if it is empty.
LEMMA HoldsNone ==
  ASSUME NEW f, NEW v
  PROVE  Holds(v, {}, f) <=> v = <<>>
<1>1. ASSUME v = <<>>
      PROVE  Holds(v, {}, f)
  <2>1. Ascends(<<>>, {})
    BY DEF Ascends
  <2>2. <<>> = [k \in 1 .. Len(<<>>) |-> f[<<>>[k]]]
    OBVIOUS
  <2> QED BY <2>1, <2>2, <1>1 DEF Holds
<1>2. ASSUME Holds(v, {}, f)
      PROVE  v = <<>>
  <2>1. PICK s : Ascends(s, {}) /\ v = [k \in 1 .. Len(s) |-> f[s[k]]]
    BY <1>2 DEF Holds
  <2>2. s \in Seq({}) /\ \A k \in 1 .. Len(s) : s[k] \in {}
    BY <2>1 DEF Ascends
  <2>3. Len(s) = 0
    BY <2>2
  <2> QED BY <2>1, <2>3
<1> QED BY <1>1, <1>2

\* push() adds the value of a member greater than all.
LEMMA HoldsPush ==
  ASSUME NEW v, NEW S, NEW f, Holds(v, S, f), NEW n \in Nat, S \subseteq Nat, \A x \in S : x < n
  PROVE  Holds(Append(v, f[n]), S \cup {n}, f)
<1>1. PICK s : Ascends(s, S) /\ v = [k \in 1 .. Len(s) |-> f[s[k]]]
  BY DEF Holds
<1> DEFINE t == Append(s, n)
           U == S \cup {n}
<1>2. s \in Seq(S) /\ s \in Seq(U) /\ n \in U
  BY <1>1 DEF Ascends
<1>3. /\ t \in Seq(U) /\ Len(t) = Len(s) + 1 /\ t[Len(s) + 1] = n
      /\ \A k \in 1 .. Len(s) : t[k] = s[k]
  <2> HIDE DEF U
  <2> QED BY <1>2, AppendProperties
<1> HIDE DEF t
<1>4. Ascends(t, U)
  <2>1. ASSUME NEW x \in U
        PROVE  \E k \in 1 .. Len(t) : t[k] = x
    <3>1. CASE x = n
      BY <3>1, <1>2, <1>3
    <3>2. CASE x \in S
      <4>1. PICK k \in 1 .. Len(s) : s[k] = x
        BY <3>2, <1>1 DEF Ascends
      <4> QED BY <4>1, <1>2, <1>3
    <3> QED BY <3>1, <3>2
  <2>2. ASSUME NEW j \in 1 .. Len(t), NEW k \in 1 .. Len(t), j < k
        PROVE  t[j] < t[k]
    <3>1. j \in 1 .. Len(s) /\ t[j] = s[j] /\ s[j] \in S
      BY <2>2, <1>2, <1>3
    <3>2. CASE k \in 1 .. Len(s)
      BY <3>1, <3>2, <2>2, <1>1, <1>3 DEF Ascends
    <3>3. CASE k \notin 1 .. Len(s)
      <4>1. k = Len(s) + 1
        BY <3>3, <1>2, <1>3
      <4> QED BY <4>1, <3>1, <1>3
    <3> QED BY <3>2, <3>3
  <2> QED BY <2>1, <2>2, <1>3 DEF Ascends
<1>5. Append(v, f[n]) = [k \in 1 .. Len(t) |-> f[t[k]]]
  <2>1. Len(s) \in Nat
    BY <1>2
  <2>2. v \in Seq({f[s[k]] : k \in 1 .. Len(s)}) /\ Len(v) = Len(s)
    BY <2>1, <1>1
  <2>3. IsSeq(v)
    BY <2>2, SeqIsSeq
  <2>4. /\ IsSeq(Append(v, f[n])) /\ Len(Append(v, f[n])) = Len(s) + 1
        /\ Append(v, f[n])[Len(s) + 1] = f[n]
        /\ \A k \in 1 .. Len(s) : Append(v, f[n])[k] = v[k]
    BY <2>2, <2>3, AppendIs
  <2> DEFINE w == Append(v, f[n])
  <2> HIDE DEF w
  <2>5. w = [k \in 1 .. Len(w) |-> w[k]] /\ Len(w) = Len(t)
    BY <2>4, <1>3 DEF IsSeq, w
  <2>6. ASSUME NEW k \in 1 .. Len(t)
        PROVE  w[k] = f[t[k]]
    <3>1. CASE k \in 1 .. Len(s)
      BY <3>1, <2>4, <1>1, <1>3 DEF w
    <3>2. CASE k = Len(s) + 1
      BY <3>2, <2>4, <1>3 DEF w
    <3> QED BY <3>1, <3>2, <2>1, <1>3
  <2> QED BY <2>5, <2>6 DEF w
<1> QED BY <1>4, <1>5 DEF Holds

\* The last value is that of the greatest member, and pop() takes it away.
LEMMA HoldsPop ==
  ASSUME NEW v, NEW S, NEW f, Holds(v, S, f), S \subseteq Nat, NEW p \in S, \A x \in S : x <= p
  PROVE  v # <<>> /\ Last(v) = f[p] /\ Holds(Popped(v), S \ {p}, f)
<1>1. PICK s : Ascends(s, S) /\ v = [k \in 1 .. Len(s) |-> f[s[k]]]
  BY DEF Holds
<1>2. s \in Seq(S) /\ Len(s) \in Nat /\ \A k \in 1 .. Len(s) : s[k] \in S
  BY <1>1 DEF Ascends
<1>3. PICK l \in 1 .. Len(s) : s[l] = p
  BY <1>1 DEF Ascends
<1>4. l = Len(s)
  <2>1. ASSUME l < Len(s)
        PROVE  FALSE
    <3>1. Len(s) \in 1 .. Len(s) /\ s[l] < s[Len(s)]
      BY <2>1, <1>1, <1>2 DEF Ascends
    <3>2. s[Len(s)] \in S
      BY <3>1, <1>2
    <3>3. s[Len(s)] \in Nat /\ p \in Nat /\ s[Len(s)] <= p
      BY <3>2
    <3> QED BY <3>1, <3>3, <1>3
  <2> QED BY <2>1, <1>2
<1>5. v \in Seq({f[s[k]] : k \in 1 .. Len(s)}) /\ Len(v) = Len(s)
  BY <1>1, <1>2
<1>6. v # <<>> /\ Last(v) = f[p]
  BY <1>1, <1>3, <1>4, <1>5 DEF Last
<1> DEFINE t == [k \in 1 .. Len(s) - 1 |-> s[k]]
<1>7. Len(s) - 1 \in Nat
  BY <1>2, <1>3
<1>8. \A k \in 1 .. Len(s) - 1 : k \in 1 .. Len(s) /\ s[k] \in S \ {p}
  <2> TAKE k \in 1 .. Len(s) - 1
  <2>1. k \in 1 .. Len(s) /\ k < l
    BY <1>2, <1>4
  <2>2. s[k] < s[l] /\ s[k] \in S
    BY <2>1, <1>1, <1>2 DEF Ascends
  <2> QED BY <2>1, <2>2, <1>3
<1>9. Ascends(t, S \ {p})
  <2>1. t \in Seq(S \ {p}) /\ Len(t) = Len(s) - 1
    BY <1>7, <1>8
  <2>2. ASSUME NEW x \in S \ {p}
        PROVE  \E k \in 1 .. Len(t) : t[k] = x
    <3>1. PICK k \in 1 .. Len(s) : s[k] = x
      BY <1>1 DEF Ascends
    <3>2. k \in 1 .. Len(s) - 1
      BY <3>1, <1>2, <1>3, <1>4
    <3> QED BY <3>1, <3>2, <2>1
  <2>3. ASSUME NEW j \in 1 .. Len(t), NEW k \in 1 .. Len(t), j < k
        PROVE  t[j] < t[k]
    BY <2>1, <2>3, <1>1, <1>8 DEF Ascends
  <2> QED BY <2>1, <2>2, <2>3 DEF Ascends
<1>10. Popped(v) = [k \in 1 .. Len(t) |-> f[t[k]]]
  <2>1. Popped(v) = SubSeq(v, 1, Len(s) - 1)
    BY <1>5, <1>6 DEF Popped, Front
  <2>2. SubSeq(v, 1, Len(s) - 1) = [k \in 1 .. Len(s) - 1 |-> v[k]]
    BY <1>5, <1>7
  <2>3. \A k \in 1 .. Len(s) - 1 : v[k] = f[t[k]]
    BY <1>1, <1>8
  <2>4. Len(t) = Len(s) - 1
    BY <1>7
  <2> HIDE DEF t
  <2> QED BY <2>1, <2>2, <2>3, <2>4
<1> QED BY <1>6, <1>9, <1>10 DEF Holds

(***************************************************************************)
(* What the grammar says of parents, and of the elements that are open.    *)
(***************************************************************************)
IsObject(doc, n) == Is(doc, n, "start", "object")
IsValue(doc, n) == Is(doc, n, "start", "value")

\* The parents of the property are those reasoned about here.
LEMMA ParentsAre ==
  ASSUME NEW doc, IsSeq(doc)
  PROVE  \A n \in 1 .. Len(doc) : Parents(doc)[n] = ParentOf(doc, n)
<1> DEFINE depth == [n \in DOMAIN doc |-> Depth(doc, n)] \o <<>>
           MaxOf(n) == Max({0} \cup {i \in 1 .. n - 1 : doc[i].event = "start" /\ depth[i] = depth[n] - 1})
           up == [n \in DOMAIN doc |-> MaxOf(n)]
<1>1. Len(doc) \in Nat /\ DOMAIN doc = 1 .. Len(doc)
  BY IsSeqFacts
<1>2. ASSUME NEW f, f = [n \in 1 .. Len(doc) |-> f[n]]
      PROVE  f \o <<>> = f
  <2>1. f \in Seq({f[n] : n \in 1 .. Len(doc)})
    BY <1>1, <1>2
  <2> QED BY <2>1, ConcatEmptySeq
<1>3. \A n \in 1 .. Len(doc) : depth[n] = Depth(doc, n)
  BY <1>1, <1>2
<1>4. up \o <<>> = up
  <2> HIDE DEF MaxOf
  <2>1. up = [n \in 1 .. Len(doc) |-> up[n]]
    BY <1>1
  <2> QED BY <2>1, <1>2
<1> HIDE DEF depth
<1>5. ASSUME NEW n \in 1 .. Len(doc)
      PROVE  MaxOf(n) = ParentOf(doc, n)
  <2>1. {i \in 1 .. n - 1 : doc[i].event = "start" /\ depth[i] = depth[n] - 1} = Outer(doc, n)
    BY <1>1, <1>3 DEF Outer
  <2> QED BY <2>1 DEF ParentOf
<1>6. Parents(doc) = up \o <<>>
  BY DEF Parents, depth
<1> HIDE DEF MaxOf
<1> QED BY <1>1, <1>4, <1>5, <1>6

\* A document of the grammar is nested, and keeps to the grammar.
LEMMA GrammarFacts ==
  ASSUME NEW doc, Grammatical(doc)
  PROVE  /\ IsSeq(doc) /\ Len(doc) \in Nat /\ DOMAIN doc = 1 .. Len(doc)
         /\ \A n \in 1 .. Len(doc) + 1 : Nested(doc, n)
         /\ \A n \in 1 .. Len(doc) :
              /\ Parents(doc)[n] = ParentOf(doc, n)
              /\ ParentOf(doc, n) \in 0 .. n - 1
              /\ doc[n].event = "end" => ParentOf(doc, n) # 0 /\ doc[n].tag = doc[ParentOf(doc, n)].tag
              /\ doc[n].event = "start" => ~IsValue(doc, ParentOf(doc, n))
              /\ IsValue(doc, n) => /\ IsChildren(doc, ParentOf(doc, n))
                                    /\ IsObject(doc, ParentOf(doc, ParentOf(doc, n)))
              /\ doc[n].event # "end" /\ doc[n].tag = "property" =>
                    \/ ParentOf(doc, n) = 0 \/ IsObject(doc, ParentOf(doc, n))
                    \/ ParentOf(doc, ParentOf(doc, n)) = 0
<1>1. IsSeq(doc)
  BY DEF Grammatical, IsSeq
<1>2. Len(doc) \in Nat /\ DOMAIN doc = 1 .. Len(doc)
  BY <1>1, IsSeqFacts
<1>3. \A n \in 1 .. Len(doc) : Parents(doc)[n] = ParentOf(doc, n)
  BY <1>1, ParentsAre
<1>4. EndsClose(doc)
  BY <1>2, <1>3 DEF Grammatical, EndsClose
<1>5. \A n \in 1 .. Len(doc) + 1 : Nested(doc, n)
  BY <1>2, <1>4, AllNested
<1>6. ASSUME NEW n \in 1 .. Len(doc)
      PROVE  ParentOf(doc, n) \in 0 .. n - 1
  <2>1. Nested(doc, n) /\ n \in Nat \ {0}
    BY <1>2, <1>5
  <2>2. ParentOf(doc, n) = 0 \/ ParentOf(doc, n) \in 1 .. n - 1
    BY <2>1, OpenWithin
  <2> QED BY <2>2
<1>7. ASSUME NEW n \in 1 .. Len(doc)
      PROVE  /\ doc[n].event = "end" => ParentOf(doc, n) # 0 /\ doc[n].tag = doc[ParentOf(doc, n)].tag
             /\ doc[n].event = "start" => ~IsValue(doc, ParentOf(doc, n))
             /\ IsValue(doc, n) => /\ IsChildren(doc, ParentOf(doc, n))
                                   /\ IsObject(doc, ParentOf(doc, ParentOf(doc, n)))
             /\ doc[n].event # "end" /\ doc[n].tag = "property" =>
                   \/ ParentOf(doc, n) = 0 \/ IsObject(doc, ParentOf(doc, n))
                   \/ ParentOf(doc, ParentOf(doc, n)) = 0
  <2>1. Parents(doc)[n] = ParentOf(doc, n) /\ n \in DOMAIN doc
    BY <1>2, <1>3
  <2>2. ParentOf(doc, n) # 0 => Parents(doc)[ParentOf(doc, n)] = ParentOf(doc, ParentOf(doc, n))
    BY <1>2, <1>3, <1>6
  <2>3. IsValue(doc, n) /\ IsChildren(doc, ParentOf(doc, n)) => ParentOf(doc, n) # 0
    BY DEF IsChildren, Is
  <2> QED BY <2>1, <2>2, <2>3 DEF Grammatical, IsValue, IsObject
<1> HIDE DEF Grammatical
<1> QED BY <1>1, <1>2, <1>3, <1>5, <1>6, <1>7

\* The objects that are open before an event.
ObjectsAround(doc, n) == {i \in Open(doc, n) : doc[i].tag = "object"}

\* The properties whose references are looked for.
IsTarget(doc, n) == IsChildren(doc, n) /\ IsObject(doc, ParentOf(doc, n))
Targets(doc, n) == {i \in Open(doc, n) : IsTarget(doc, i)}

\* Behind an event.
LEMMA OpenNext ==
  ASSUME NEW doc, Grammatical(doc), NEW n \in 1 .. Len(doc)
  PROVE  LET p == ParentOf(doc, n)
         IN /\ Open(doc, n) \subseteq 1 .. n - 1
            /\ p = 0 \/ /\ p \in Open(doc, n) /\ doc[p].event = "start" /\ p \in 1 .. n - 1
                        /\ \A i \in Open(doc, n) : i <= p
                        /\ Open(doc, n) = Open(doc, p) \cup {p}
            /\ doc[n].event = "start" => /\ ParentOf(doc, n + 1) = n
                                         /\ Open(doc, n + 1) = Open(doc, n) \cup {n}
            /\ doc[n].event = "end" => /\ p # 0
                                       /\ ParentOf(doc, n + 1) = ParentOf(doc, p)
                                       /\ Open(doc, n + 1) = Open(doc, n) \ {p}
            /\ doc[n].event \notin {"start", "end"} => /\ ParentOf(doc, n + 1) = p
                                                       /\ Open(doc, n + 1) = Open(doc, n)
<1> DEFINE p == ParentOf(doc, n)
<1>1. Nested(doc, n) /\ n \in Nat \ {0} /\ p \in 0 .. n - 1 /\ (doc[n].event = "end" => p # 0)
  BY GrammarFacts
<1>2. Open(doc, n) \subseteq 1 .. n - 1
  BY DEF Open
<1>3. p = 0 \/ /\ p \in Open(doc, n) /\ doc[p].event = "start" /\ p \in 1 .. n - 1
               /\ \A i \in Open(doc, n) : i <= p
               /\ Open(doc, n) = Open(doc, p) \cup {p}
  BY <1>1, OpenWithin
<1>4. p # 0 => Nested(doc, p)
  BY <1>1, GrammarFacts
<1>5. CASE doc[n].event = "start"
  BY <1>1, <1>2, <1>3, <1>5, NestedStart
<1>6. CASE doc[n].event = "end"
  BY <1>1, <1>2, <1>3, <1>4, <1>6, NestedEnd
<1>7. CASE doc[n].event \notin {"start", "end"}
  BY <1>1, <1>2, <1>3, <1>7, NestedOn
<1> QED BY <1>5, <1>6, <1>7

\* A property that is not in an object is outside of all objects.
LEMMA PropertyPlaces ==
  ASSUME NEW doc, Grammatical(doc), NEW n \in 1 .. Len(doc), doc[n].event # "end", doc[n].tag = "property"
  PROVE  /\ Open(doc, n) \subseteq Nat
         /\ IsObject(doc, ParentOf(doc, n)) => /\ ParentOf(doc, n) \in ObjectsAround(doc, n)
                                               /\ \A i \in ObjectsAround(doc, n) : i <= ParentOf(doc, n)
         /\ ~IsObject(doc, ParentOf(doc, n)) => ObjectsAround(doc, n) = {}
<1> DEFINE p == ParentOf(doc, n)
<1>1. /\ Open(doc, n) \subseteq 1 .. n - 1
      /\ p = 0 \/ /\ p \in Open(doc, n) /\ doc[p].event = "start" /\ p \in 1 .. n - 1
                  /\ \A i \in Open(doc, n) : i <= p
                  /\ Open(doc, n) = Open(doc, p) \cup {p}
  BY OpenNext
<1>2. p = 0 \/ IsObject(doc, p) \/ ParentOf(doc, p) = 0
  BY GrammarFacts
<1>3. CASE IsObject(doc, p)
  <2>1. p # 0 /\ doc[p].tag = "object"
    BY <1>3 DEF IsObject, Is
  <2> QED BY <1>1, <1>3, <2>1 DEF ObjectsAround
<1>4. CASE ~IsObject(doc, p)
  <2>1. CASE p = 0
    <3>1. Nested(doc, n)
      BY GrammarFacts
    <3>2. Open(doc, n) = {}
      BY <3>1, <2>1 DEF Nested
    <3> QED BY <3>2, <1>4 DEF ObjectsAround
  <2>2. CASE p # 0
    <3>1. Nested(doc, p)
      BY <1>1, <2>2, GrammarFacts
    <3>2. Open(doc, n) = {p}
      BY <3>1, <2>2, <1>1, <1>2, <1>4 DEF Nested
    <3>3. doc[p].tag # "object"
      BY <1>1, <1>4, <2>2 DEF IsObject, Is
    <3> QED BY <3>2, <3>3, <1>1, <1>4 DEF ObjectsAround
  <2> QED BY <2>1, <2>2
<1> QED BY <1>3, <1>4

(***************************************************************************)
(* The stack: the numbers of the open objects.                             *)
(***************************************************************************)
NumberOf(doc) == [i \in Nat |-> ObjectNo(doc, i)]
PropNo(doc, n) == Cardinality({i \in 1 .. n : IsProperty(doc, i) /\ ParentOf(doc, i) = ParentOf(doc, n)})
PlaceOf(doc) == [i \in Nat |-> [obj |-> ObjectNo(doc, ParentOf(doc, i)), prop |-> PropNo(doc, i)]]

\* What the stack is before an event.
StackIs(doc, n, v) == IsSeq(v) /\ Holds(v, ObjectsAround(doc, n), NumberOf(doc))

\* pop() leaves a sequence.
LEMMA PoppedIs ==
  ASSUME NEW v, IsSeq(v)
  PROVE  IsSeq(Popped(v))
<1>1. CASE v = <<>>
  BY <1>1 DEF Popped
<1>2. CASE v # <<>>
  <2>1. v \in Seq(Range(v))
    BY DEF IsSeq
  <2>2. Popped(v) = SubSeq(v, 1, Len(v) - 1)
    BY <1>2 DEF Popped, Front
  <2>3. Len(v) \in Nat \ {0}
    BY <2>1, <1>2
  <2>4. SubSeq(v, 1, Len(v) - 1) \in Seq(Range(v))
    BY <2>1, <2>3
  <2> QED BY <2>2, <2>4, SeqIsSeq
<1> QED BY <1>1, <1>2

\* The start of an object pushes its number.
LEMMA StackOpened ==
  ASSUME NEW doc, Grammatical(doc), NEW n \in 1 .. Len(doc), NEW v, StackIs(doc, n, v), IsObject(doc, n)
  PROVE  StackIs(doc, n + 1, Append(v, ObjectNo(doc, n)))
<1>1. doc[n].event = "start" /\ doc[n].tag = "object" /\ n \in Nat
  BY GrammarFacts DEF IsObject, Is
<1>2. Open(doc, n) \subseteq 1 .. n - 1 /\ Open(doc, n + 1) = Open(doc, n) \cup {n}
  BY <1>1, OpenNext
<1>3. ObjectsAround(doc, n + 1) = ObjectsAround(doc, n) \cup {n}
  BY <1>1, <1>2 DEF ObjectsAround
<1>4. ObjectsAround(doc, n) \subseteq Nat /\ \A x \in ObjectsAround(doc, n) : x < n
  BY <1>1, <1>2 DEF ObjectsAround
<1>5. NumberOf(doc)[n] = ObjectNo(doc, n)
  BY <1>1 DEF NumberOf
<1>6. IsSeq(Append(v, ObjectNo(doc, n)))
  BY AppendIs DEF StackIs
<1>7. Holds(v, ObjectsAround(doc, n), NumberOf(doc))
  BY DEF StackIs
<1>8. Holds(Append(v, NumberOf(doc)[n]), ObjectsAround(doc, n) \cup {n}, NumberOf(doc))
  BY <1>1, <1>4, <1>7, HoldsPush
<1> QED BY <1>3, <1>5, <1>6, <1>8 DEF StackIs

\* The end of an object pops the number of that object.
LEMMA StackClosed ==
  ASSUME NEW doc, Grammatical(doc), NEW n \in 1 .. Len(doc), NEW v, StackIs(doc, n, v),
         Is(doc, n, "end", "object")
  PROVE  StackIs(doc, n + 1, Popped(v))
<1> DEFINE p == ParentOf(doc, n)
<1>1. doc[n].event = "end" /\ doc[n].tag = "object"
  BY DEF Is
<1>2. p # 0 /\ doc[p].tag = "object"
  BY <1>1, GrammarFacts
<1>3. /\ Open(doc, n) \subseteq 1 .. n - 1 /\ p \in Open(doc, n) /\ \A i \in Open(doc, n) : i <= p
      /\ Open(doc, n + 1) = Open(doc, n) \ {p}
  BY <1>1, <1>2, OpenNext
<1>4. ObjectsAround(doc, n + 1) = ObjectsAround(doc, n) \ {p} /\ p \in ObjectsAround(doc, n)
  BY <1>2, <1>3 DEF ObjectsAround
<1>5. ObjectsAround(doc, n) \subseteq Nat /\ \A x \in ObjectsAround(doc, n) : x <= p
  BY <1>3 DEF ObjectsAround
<1>6. IsSeq(v) /\ Holds(v, ObjectsAround(doc, n), NumberOf(doc))
  BY DEF StackIs
<1> HIDE DEF p
<1>7. Holds(Popped(v), ObjectsAround(doc, n) \ {p}, NumberOf(doc))
  BY <1>4, <1>5, <1>6, HoldsPop
<1> QED BY <1>4, <1>6, <1>7, PoppedIs DEF StackIs

\* No other event opens or closes an object.
LEMMA StackSame ==
  ASSUME NEW doc, Grammatical(doc), NEW n \in 1 .. Len(doc), NEW v, StackIs(doc, n, v),
         doc[n].tag # "object" \/ doc[n].event \notin {"start", "end"}
  PROVE  StackIs(doc, n + 1, v)
<1> DEFINE p == ParentOf(doc, n)
<1>1. ObjectsAround(doc, n + 1) = ObjectsAround(doc, n)
  <2>1. CASE doc[n].event = "start"
    <3>1. Open(doc, n + 1) = Open(doc, n) \cup {n}
      BY <2>1, OpenNext
    <3> QED BY <3>1, <2>1 DEF ObjectsAround
  <2>2. CASE doc[n].event = "end"
    <3>1. p # 0 /\ doc[p].tag # "object"
      BY <2>2, GrammarFacts
    <3>2. Open(doc, n + 1) = Open(doc, n) \ {p}
      BY <2>2, OpenNext
    <3> QED BY <3>1, <3>2 DEF ObjectsAround
  <2>3. CASE doc[n].event \notin {"start", "end"}
    <3>1. Open(doc, n + 1) = Open(doc, n)
      BY <2>3, OpenNext
    <3> QED BY <3>1 DEF ObjectsAround
  <2> QED BY <2>1, <2>2, <2>3
<1> QED BY <1>1 DEF StackIs

\* In an object, the object is the last of the stack; outside of all, the
\* stack is empty.
LEMMA StackTop ==
  ASSUME NEW doc, Grammatical(doc), NEW n \in 1 .. Len(doc), NEW v, StackIs(doc, n, v),
         doc[n].event # "end", doc[n].tag = "property"
  PROVE  /\ IsObject(doc, ParentOf(doc, n)) <=> v # <<>>
         /\ v # <<>> => Last(v) = ObjectNo(doc, ParentOf(doc, n))
<1> DEFINE p == ParentOf(doc, n)
<1>1. /\ Open(doc, n) \subseteq Nat
      /\ IsObject(doc, p) => p \in ObjectsAround(doc, n) /\ \A i \in ObjectsAround(doc, n) : i <= p
      /\ ~IsObject(doc, p) => ObjectsAround(doc, n) = {}
  BY PropertyPlaces
<1>2. ObjectsAround(doc, n) \subseteq Nat
  BY <1>1 DEF ObjectsAround
<1>3. Holds(v, ObjectsAround(doc, n), NumberOf(doc))
  BY DEF StackIs
<1> HIDE DEF p
<1>4. CASE IsObject(doc, p)
  <2>1. v # <<>> /\ Last(v) = NumberOf(doc)[p]
    BY <1>1, <1>2, <1>3, <1>4, HoldsPop
  <2>2. NumberOf(doc)[p] = ObjectNo(doc, p)
    BY <1>1, <1>2, <1>4 DEF NumberOf
  <2> QED BY <2>1, <2>2, <1>4 DEF p
<1>5. CASE ~IsObject(doc, p)
  <2>1. ObjectsAround(doc, n) = {}
    BY <1>1, <1>5
  <2>2. Holds(v, {}, NumberOf(doc))
    BY <2>1, <1>3
  <2>3. v = <<>>
    BY <2>2, HoldsNone
  <2> QED BY <2>3, <1>5 DEF p
<1> QED BY <1>4, <1>5

(***************************************************************************)
(* The flag of values: no object begins in a value.                        *)
(***************************************************************************)
ValueIs(doc, n, flag) ==
    /\ flag \in BOOLEAN
    /\ flag <=> IsValue(doc, ParentOf(doc, n))
    /\ IsValue(doc, ParentOf(doc, n)) => \A i \in ParentOf(doc, n) .. n - 1 : ~IsObject(doc, i)

\* The flag goes up at the start of a value and down at its end only.
LEMMA ValueNext ==
  ASSUME NEW doc, Grammatical(doc), NEW n \in 1 .. Len(doc), NEW flag, ValueIs(doc, n, flag)
  PROVE  /\ IsValue(doc, n) => ValueIs(doc, n + 1, TRUE)
         /\ Is(doc, n, "end", "value") => ValueIs(doc, n + 1, FALSE)
         /\ ~IsValue(doc, n) /\ ~Is(doc, n, "end", "value") => ValueIs(doc, n + 1, flag)
<1> DEFINE p == ParentOf(doc, n)
<1>0. n \in Nat \ {0} /\ p \in 0 .. n - 1
  BY GrammarFacts
<1>1. CASE doc[n].event = "start"
  <2>1. ParentOf(doc, n + 1) = n /\ ~IsValue(doc, p)
    BY <1>1, OpenNext, GrammarFacts
  <2>2. flag = FALSE
    BY <2>1 DEF ValueIs
  <2>3. ~Is(doc, n, "end", "value")
    BY <1>1 DEF Is
  <2>4. IsValue(doc, n) => \A i \in n .. (n + 1) - 1 : ~IsObject(doc, i)
    <3>1. \A i \in n .. (n + 1) - 1 : i = n
      BY <1>0
    <3> QED BY <3>1 DEF IsValue, IsObject, Is
  <2> QED BY <2>1, <2>2, <2>3, <2>4 DEF ValueIs
<1>2. CASE doc[n].event = "end"
  <2>1. /\ p # 0 /\ p \in 1 .. n - 1 /\ ParentOf(doc, n + 1) = ParentOf(doc, p)
        /\ doc[p].event = "start" /\ doc[p].tag = doc[n].tag
    BY <1>2, OpenNext, GrammarFacts
  <2>2. p \in 1 .. Len(doc)
    BY <2>1, <1>0, GrammarFacts
  <2>3. ~IsValue(doc, ParentOf(doc, p))
    BY <2>1, <2>2, GrammarFacts
  <2>4. ~IsValue(doc, n)
    BY <1>2 DEF IsValue, Is
  <2>5. Is(doc, n, "end", "value") <=> IsValue(doc, p)
    BY <2>1, <1>0, <1>2 DEF Is, IsValue
  <2>6. ~Is(doc, n, "end", "value") => flag = FALSE
    BY <2>5 DEF ValueIs
  <2> QED BY <2>1, <2>3, <2>4, <2>6 DEF ValueIs
<1>3. CASE doc[n].event \notin {"start", "end"}
  <2>1. ParentOf(doc, n + 1) = p
    BY <1>3, OpenNext
  <2>2. ~IsValue(doc, n) /\ ~IsObject(doc, n) /\ ~Is(doc, n, "end", "value")
    BY <1>3 DEF IsValue, IsObject, Is
  <2>3. IsValue(doc, p) => \A i \in p .. (n + 1) - 1 : ~IsObject(doc, i)
    <3>1. \A i \in p .. (n + 1) - 1 : i = n \/ i \in p .. n - 1
      BY <1>0
    <3> QED BY <3>1, <2>2 DEF ValueIs
  <2> QED BY <2>1, <2>2, <2>3 DEF ValueIs
<1> QED BY <1>1, <1>2, <1>3

(***************************************************************************)
(* The properties that are open.  Where every opened property holds        *)
(* objects they are the open ones, in order; where lists come before       *)
(* objects, the last one is right until an object begins in it.            *)
(***************************************************************************)
OpenPropsAre(doc, n, v) ==
    /\ IsSeq(v)
    /\ (\A i \in 1 .. Len(doc) : Is(doc, i, "start", "property") => IsChildren(doc, i)) =>
          Holds(v, Targets(doc, n), PlaceOf(doc))
    /\ \A m \in Targets(doc, n) :
          (\A i \in m .. n - 1 : ~IsObject(doc, i)) => v # <<>> /\ Last(v) = PlaceOf(doc)[m]

\* What is open around an open element.
LEMMA OpenAround ==
  ASSUME NEW doc, NEW n \in Nat \ {0}, NEW m \in Open(doc, n)
  PROVE  m \in 1 .. n - 1 /\ Open(doc, m) \subseteq Open(doc, n)
<1>1. /\ m \in 1 .. n - 1 /\ \A j \in m + 1 .. n : Depth(doc, j) > Depth(doc, m)
  BY DEF Open
<1>2. \A i \in Nat \ {0} : Depth(doc, i) \in Int
  BY DepthNext
<1>3. ASSUME NEW k \in Open(doc, m)
      PROVE  k \in Open(doc, n)
  <2>1. /\ k \in 1 .. m - 1 /\ doc[k].event = "start"
        /\ \A j \in k + 1 .. m : Depth(doc, j) > Depth(doc, k)
    BY <1>3 DEF Open
  <2>2. Depth(doc, m) > Depth(doc, k) /\ Depth(doc, m) \in Int /\ Depth(doc, k) \in Int
    BY <2>1, <1>1, <1>2
  <2>3. ASSUME NEW j \in k + 1 .. n
        PROVE  Depth(doc, j) > Depth(doc, k)
    <3>1. CASE j <= m
      BY <3>1, <2>1, <1>1
    <3>2. CASE j > m
      <4>1. Depth(doc, j) > Depth(doc, m) /\ Depth(doc, j) \in Int
        BY <3>2, <2>1, <1>1, <1>2
      <4> QED BY <4>1, <2>2
    <3> QED BY <3>1, <3>2, <2>1, <1>1
  <2>4. k \in 1 .. n - 1
    BY <2>1, <1>1
  <2> QED BY <2>1, <2>3, <2>4 DEF Open
<1> QED BY <1>1, <1>3

\* An open target is in an open object.
LEMMA TargetAround ==
  ASSUME NEW doc, Grammatical(doc), NEW n \in 1 .. Len(doc) + 1, NEW m \in Targets(doc, n)
  PROVE  /\ m \in 1 .. n - 1 /\ IsTarget(doc, m) /\ m \in Open(doc, n)
         /\ ParentOf(doc, m) \in ObjectsAround(doc, n)
<1>1. n \in Nat \ {0} /\ Len(doc) \in Nat
  BY GrammarFacts
<1>2. m \in Open(doc, n) /\ IsTarget(doc, m)
  BY DEF Targets
<1>3. m \in 1 .. n - 1 /\ Open(doc, m) \subseteq Open(doc, n)
  BY <1>1, <1>2, OpenAround
<1>4. ParentOf(doc, m) # 0 /\ doc[ParentOf(doc, m)].tag = "object"
  BY <1>2 DEF IsTarget, IsObject, Is
<1>5. Nested(doc, m)
  BY <1>1, <1>3, GrammarFacts
<1>6. ParentOf(doc, m) \in Open(doc, n)
  BY <1>3, <1>4, <1>5 DEF Nested
<1> QED BY <1>2, <1>3, <1>4, <1>6 DEF ObjectsAround

\* A target is the start of a property in an object.
LEMMA TargetIs ==
  ASSUME NEW doc, NEW m, IsTarget(doc, m)
  PROVE  /\ doc[m].event = "start" /\ doc[m].tag = "property" /\ m # 0
         /\ ~IsObject(doc, m) /\ IsObject(doc, ParentOf(doc, m))
BY DEF IsTarget, IsChildren, IsObject, Is

\* The start of a target pushes its place.
LEMMA PropsOpened ==
  ASSUME NEW doc, Grammatical(doc), NEW n \in 1 .. Len(doc), NEW v, OpenPropsAre(doc, n, v), IsTarget(doc, n)
  PROVE  OpenPropsAre(doc, n + 1, Append(v, PlaceOf(doc)[n]))
<1> DEFINE p == ParentOf(doc, n)
           w == Append(v, PlaceOf(doc)[n])
<1>1. /\ doc[n].event = "start" /\ doc[n].tag = "property" /\ IsObject(doc, p)
      /\ p # 0 /\ n \in Nat \ {0} /\ n + 1 \in 1 .. Len(doc) + 1
  BY TargetIs, GrammarFacts DEF IsObject, Is
<1>2. /\ Open(doc, n) \subseteq 1 .. n - 1 /\ p \in 1 .. n - 1 /\ \A i \in Open(doc, n) : i <= p
      /\ Open(doc, n + 1) = Open(doc, n) \cup {n}
  BY <1>1, OpenNext
<1>3. Targets(doc, n + 1) = Targets(doc, n) \cup {n}
  BY <1>2 DEF Targets
<1>4. Targets(doc, n) \subseteq Nat /\ \A x \in Targets(doc, n) : x < n
  BY <1>2 DEF Targets
<1>5. IsSeq(v)
  BY DEF OpenPropsAre
<1>6. /\ IsSeq(w) /\ Len(w) = Len(v) + 1 /\ w[Len(v) + 1] = PlaceOf(doc)[n] /\ Len(v) \in Nat
  BY <1>5, AppendIs, IsSeqFacts
<1>7. w # <<>> /\ Last(w) = PlaceOf(doc)[n]
  <2> HIDE DEF w
  <2>1. Len(w) # 0
    BY <1>6
  <2> QED BY <2>1, <1>6 DEF Last
<1>8. ASSUME NEW m \in Targets(doc, n + 1), \A i \in m .. (n + 1) - 1 : ~IsObject(doc, i)
      PROVE  m = n
  <2>1. ASSUME m # n
        PROVE  FALSE
    <3>1. m \in Open(doc, n) /\ IsTarget(doc, m)
      BY <2>1, <1>3 DEF Targets
    <3>2. m \in 1 .. n - 1 /\ m <= p
      BY <3>1, <1>2
    <3>3. p \in m .. (n + 1) - 1
      BY <3>2, <1>1, <1>2
    <3> QED BY <3>3, <1>1, <1>8
  <2> QED BY <2>1
<1>9. ASSUME Holds(v, Targets(doc, n), PlaceOf(doc))
      PROVE  Holds(w, Targets(doc, n + 1), PlaceOf(doc))
  <2>1. n \in Nat
    BY <1>1
  <2>2. Holds(w, Targets(doc, n) \cup {n}, PlaceOf(doc))
    BY <2>1, <1>4, <1>9, HoldsPush
  <2> QED BY <2>2, <1>3
<1> HIDE DEF w
<1>10. OpenPropsAre(doc, n + 1, w)
  BY <1>6, <1>7, <1>8, <1>9 DEF OpenPropsAre
<1> QED BY <1>10 DEF w

\* The end of any property pops: the innermost target, where all properties hold
\* objects; and in any case an object has begun in every target left open.
LEMMA PropsClosed ==
  ASSUME NEW doc, Grammatical(doc), NEW n \in 1 .. Len(doc), NEW v, OpenPropsAre(doc, n, v),
         Is(doc, n, "end", "property")
  PROVE  OpenPropsAre(doc, n + 1, Popped(v))
<1> DEFINE p == ParentOf(doc, n)
<1>1. doc[n].event = "end" /\ doc[n].tag = "property" /\ n \in Nat \ {0} /\ n + 1 \in 1 .. Len(doc) + 1
  BY GrammarFacts DEF Is
<1>2. /\ p # 0 /\ p \in 1 .. n - 1 /\ doc[p].event = "start" /\ doc[p].tag = "property"
      /\ Open(doc, n) \subseteq 1 .. n - 1 /\ p \in Open(doc, n) /\ \A i \in Open(doc, n) : i <= p
      /\ Open(doc, n) = Open(doc, p) \cup {p}
      /\ Open(doc, n + 1) = Open(doc, n) \ {p}
  BY <1>1, OpenNext, GrammarFacts
<1>3. p \in 1 .. Len(doc)
  BY <1>2, GrammarFacts
<1>4. Targets(doc, n + 1) = Targets(doc, n) \ {p}
  BY <1>2 DEF Targets
<1>5. Targets(doc, n) \subseteq Nat /\ \A x \in Targets(doc, n) : x <= p
  BY <1>2 DEF Targets
<1>6. /\ IsObject(doc, ParentOf(doc, p)) => \A i \in ObjectsAround(doc, p) : i <= ParentOf(doc, p)
      /\ IsObject(doc, ParentOf(doc, p)) => ParentOf(doc, p) \in ObjectsAround(doc, p)
      /\ ~IsObject(doc, ParentOf(doc, p)) => ObjectsAround(doc, p) = {}
  BY <1>2, <1>3, PropertyPlaces
<1>7. ASSUME NEW m \in Targets(doc, n), m # p
      PROVE  /\ m \in Open(doc, p) /\ m \in 1 .. p - 1 /\ IsTarget(doc, m)
             /\ IsObject(doc, ParentOf(doc, p))
  <2>1. m \in Open(doc, p) /\ IsTarget(doc, m) /\ m \in Targets(doc, p)
    BY <1>2, <1>7 DEF Targets
  <2>2. m \in 1 .. p - 1
    BY <2>1 DEF Open
  <2>3. p \in 1 .. Len(doc) + 1
    BY <1>3, GrammarFacts
  <2>4. ParentOf(doc, m) \in ObjectsAround(doc, p)
    BY <2>1, <2>3, TargetAround
  <2> QED BY <2>1, <2>2, <2>4, <1>6
<1>8. ASSUME NEW m \in Targets(doc, n + 1)
      PROVE  \E i \in m .. (n + 1) - 1 : IsObject(doc, i)
  <2> DEFINE q == ParentOf(doc, p)
  <2>1. m \in Targets(doc, n) /\ m # p
    BY <1>4
  <2>2. m \in Open(doc, p) /\ m \in 1 .. p - 1 /\ IsTarget(doc, m) /\ IsObject(doc, q)
    BY <2>1, <1>7
  <2>3. q \in 1 .. p - 1 /\ \A i \in Open(doc, p) : i <= q
    <3>1. q # 0
      BY <2>2 DEF IsObject, Is
    <3> QED BY <3>1, <1>3, OpenNext
  <2>4. q \in m .. (n + 1) - 1
    BY <2>2, <2>3, <1>1, <1>2
  <2> QED BY <2>2, <2>4
<1>9. ASSUME \A i \in 1 .. Len(doc) : Is(doc, i, "start", "property") => IsChildren(doc, i)
      PROVE  Holds(Popped(v), Targets(doc, n + 1), PlaceOf(doc))
  <2>1. Holds(v, Targets(doc, n), PlaceOf(doc))
    BY <1>9 DEF OpenPropsAre
  <2>2. IsChildren(doc, p)
    BY <1>2, <1>3, <1>9 DEF Is
  <2>3. CASE IsObject(doc, ParentOf(doc, p))
    <3>1. p \in Targets(doc, n)
      BY <2>2, <2>3, <1>2 DEF Targets, IsTarget
    <3> HIDE DEF p
    <3>2. Holds(Popped(v), Targets(doc, n) \ {p}, PlaceOf(doc))
      BY <3>1, <2>1, <1>5, HoldsPop
    <3> QED BY <3>2, <1>4
  <2>4. CASE ~IsObject(doc, ParentOf(doc, p))
    <3>1. Targets(doc, n) = {}
      <4>1. p \notin Targets(doc, n)
        BY <2>4 DEF Targets, IsTarget
      <4> QED BY <4>1, <2>4, <1>7
    <3>2. Targets(doc, n + 1) = {} /\ Holds(v, {}, PlaceOf(doc))
      BY <3>1, <2>1, <1>4
    <3>3. v = <<>>
      BY <3>2, HoldsNone
    <3>4. Popped(v) = v
      BY <3>3 DEF Popped
    <3> QED BY <3>2, <3>4
  <2> QED BY <2>3, <2>4
<1>10. IsSeq(Popped(v))
  BY PoppedIs DEF OpenPropsAre
<1> QED BY <1>8, <1>9, <1>10 DEF OpenPropsAre

\* No other event opens or closes a target.
LEMMA PropsSame ==
  ASSUME NEW doc, Grammatical(doc), NEW n \in 1 .. Len(doc), NEW v, OpenPropsAre(doc, n, v),
         ~Is(doc, n, "end", "property"), ~IsTarget(doc, n)
  PROVE  OpenPropsAre(doc, n + 1, v)
<1> DEFINE p == ParentOf(doc, n)
<1>1. n \in Nat \ {0}
  BY GrammarFacts
<1>2. Targets(doc, n + 1) = Targets(doc, n)
  <2>1. CASE doc[n].event = "start"
    <3>1. Open(doc, n + 1) = Open(doc, n) \cup {n}
      BY <2>1, OpenNext
    <3> QED BY <3>1 DEF Targets
  <2>2. CASE doc[n].event = "end"
    <3>1. p # 0 /\ doc[p].tag = doc[n].tag /\ Open(doc, n + 1) = Open(doc, n) \ {p}
      BY <2>2, OpenNext, GrammarFacts
    <3>2. ~IsTarget(doc, p)
      <4>1. doc[n].tag # "property"
        BY <2>2, <1>1 DEF Is
      <4> QED BY <4>1, <3>1, TargetIs
    <3> QED BY <3>1, <3>2 DEF Targets
  <2>3. CASE doc[n].event \notin {"start", "end"}
    <3>1. Open(doc, n + 1) = Open(doc, n)
      BY <2>3, OpenNext
    <3> QED BY <3>1 DEF Targets
  <2> QED BY <2>1, <2>2, <2>3
<1>3. ASSUME NEW m \in Targets(doc, n), \A i \in m .. (n + 1) - 1 : ~IsObject(doc, i)
      PROVE  \A i \in m .. n - 1 : ~IsObject(doc, i)
  <2>1. m \in 1 .. n - 1
    BY DEF Targets, Open
  <2> QED BY <2>1, <1>1, <1>3
<1>4. ASSUME NEW m \in Targets(doc, n), \A i \in m .. (n + 1) - 1 : ~IsObject(doc, i)
      PROVE  v # <<>> /\ Last(v) = PlaceOf(doc)[m]
  BY <1>3, <1>4 DEF OpenPropsAre
<1> QED BY <1>2, <1>4 DEF OpenPropsAre

\* Where the text of a value goes.
LEMMA TextPlace ==
  ASSUME NEW doc, Grammatical(doc), NEW n \in 1 .. Len(doc), NEW v, OpenPropsAre(doc, n, v),
         NEW flag, ValueIs(doc, n, flag), IsValue(doc, ParentOf(doc, n)), Regular(doc, Parents(doc))
  PROVE  LET t == ParentOf(doc, ParentOf(doc, n))
         IN t \in 1 .. n - 1 /\ IsTarget(doc, t) /\ v # <<>> /\ Last(v) = PlaceOf(doc)[t]
<1> DEFINE w == ParentOf(doc, n)
           t == ParentOf(doc, w)
<1>1. w # 0
  BY DEF IsValue, Is
<1>2. /\ Open(doc, n) \subseteq 1 .. n - 1 /\ w \in 1 .. n - 1 /\ Open(doc, n) = Open(doc, w) \cup {w}
      /\ w \in 1 .. Len(doc) /\ n \in Nat /\ n \in 1 .. Len(doc) + 1 /\ Len(doc) \in Nat /\ DOMAIN doc = 1 .. Len(doc)
  BY <1>1, OpenNext, GrammarFacts
<1>3. IsTarget(doc, t) /\ t # 0
  BY <1>2, GrammarFacts, TargetIs DEF IsTarget
<1>4. /\ Open(doc, w) \subseteq 1 .. w - 1 /\ t \in Open(doc, w) /\ t \in 1 .. w - 1
      /\ \A i \in Open(doc, w) : i <= t
  BY <1>2, <1>3, OpenNext
<1>5. t \in Targets(doc, n) /\ ~IsTarget(doc, w)
  <2>1. doc[w].tag # "property"
    BY DEF IsValue, Is
  <2> QED BY <2>1, <1>2, <1>3, <1>4, TargetIs DEF Targets
<1>6. Targets(doc, n) \subseteq Nat /\ \A x \in Targets(doc, n) : x <= t
  BY <1>2, <1>4, <1>5 DEF Targets
<1>7. t \in 1 .. n - 1
  BY <1>2, <1>4
<1>8. CASE \A i \in DOMAIN doc : Is(doc, i, "start", "property") => IsChildren(doc, i)
  <2>1. Holds(v, Targets(doc, n), PlaceOf(doc))
    BY <1>2, <1>8 DEF OpenPropsAre
  <2> HIDE DEF t
  <2>2. v # <<>> /\ Last(v) = PlaceOf(doc)[t]
    BY <2>1, <1>5, <1>6, HoldsPop
  <2> QED BY <2>2, <1>3, <1>7 DEF t
<1>9. CASE \A i \in DOMAIN doc : Is(doc, i, "start", "value") =>
                                    \A j \in Parents(doc)[i] .. i : ~Is(doc, j, "start", "object")
  <2>1. Parents(doc)[w] = t
    BY <1>2, GrammarFacts
  <2>2. \A j \in t .. w : ~IsObject(doc, j)
    BY <2>1, <1>2, <1>9 DEF IsValue, IsObject
  <2>3. \A j \in w .. n - 1 : ~IsObject(doc, j)
    BY DEF ValueIs
  <2>4. \A j \in t .. n - 1 : ~IsObject(doc, j)
    <3> TAKE j \in t .. n - 1
    <3>1. j \in t .. w \/ j \in w .. n - 1
      BY <1>2, <1>4
    <3> QED BY <3>1, <2>2, <2>3
  <2>5. v # <<>> /\ Last(v) = PlaceOf(doc)[t]
    BY <2>4, <1>5 DEF OpenPropsAre
  <2> QED BY <2>5, <1>3, <1>7
<1> QED BY <1>8, <1>9 DEF Regular

(***************************************************************************)
(* The objects and properties found so far.                                *)
(***************************************************************************)
ObjectStarts(doc) == {i \in Nat : IsObject(doc, i)}
PropsIn(doc, p) == {i \in Nat : IsProperty(doc, i) /\ ParentOf(doc, i) = p}
TextsOf(doc, m) == {i \in Nat : /\ Is(doc, i, "text", "text") /\ IsValue(doc, ParentOf(doc, i))
                                /\ ParentOf(doc, ParentOf(doc, i)) = m}

\* After n events.
ParsedIs(doc, n, objs) ==
    /\ IsSeq(objs) /\ Len(objs) = ObjectNo(doc, n)
    /\ \A k \in 1 .. Len(objs) : "props" \in DOMAIN objs[k] /\ IsSeq(objs[k].props)
    /\ \A i \in 1 .. n : IsObject(doc, i) =>
          Len(objs[ObjectNo(doc, i)].props) = Cardinality(PropsIn(doc, i) \cap 1 .. n)

\* Up to event n every target has, at its place, the texts listed in it.
RefsAre(doc, n, objs) ==
    \A m \in 1 .. n : IsTarget(doc, m) =>
        \E ids : /\ IsSeq(ids) /\ InOrder(ids, doc, TextsOf(doc, m) \cap 1 .. n)
                 /\ objs[ObjectNo(doc, ParentOf(doc, m))].props[PropNo(doc, m)] = <<doc[m].name, Children(ids)>>

\* The number of an object and the place of a property, as counts.
LEMMA ObjectNoIs ==
  ASSUME NEW doc, NEW n \in Nat
  PROVE  ObjectNo(doc, n) = Cardinality(ObjectStarts(doc) \cap 1 .. n)
<1>1. {i \in 1 .. n : Is(doc, i, "start", "object")} = ObjectStarts(doc) \cap 1 .. n
  BY DEF ObjectStarts, IsObject
<1> QED BY <1>1 DEF ObjectNo

LEMMA PropNoIs ==
  ASSUME NEW doc, NEW n \in Nat
  PROVE  PropNo(doc, n) = Cardinality(PropsIn(doc, ParentOf(doc, n)) \cap 1 .. n)
<1>1. {i \in 1 .. n : IsProperty(doc, i) /\ ParentOf(doc, i) = ParentOf(doc, n)} = PropsIn(doc, ParentOf(doc, n)) \cap 1 .. n
  BY DEF PropsIn
<1> QED BY <1>1 DEF PropNo

\* The number of an object lies within the objects found, and is its own.
LEMMA ObjectNumbers ==
  ASSUME NEW doc, NEW n \in Nat, NEW i \in 1 .. n, IsObject(doc, i)
  PROVE  /\ ObjectNo(doc, n) \in Nat /\ ObjectNo(doc, i) \in 1 .. ObjectNo(doc, n)
         /\ \A j \in 1 .. n : IsObject(doc, j) /\ ObjectNo(doc, i) = ObjectNo(doc, j) => i = j
<1> DEFINE S == ObjectStarts(doc)
<1>1. i \in Nat \ {0} /\ i \in S /\ i <= n
  BY DEF ObjectStarts
<1>2. \A j \in 1 .. n : j \in Nat \ {0} /\ (IsObject(doc, j) <=> j \in S)
  BY DEF ObjectStarts
<1> HIDE DEF S
<1>3. ObjectNo(doc, n) = Cardinality(S \cap 1 .. n)
  BY ObjectNoIs DEF S
<1>4. \A j \in 1 .. n : ObjectNo(doc, j) = Cardinality(S \cap 1 .. j)
  BY ObjectNoIs DEF S
<1>5. /\ Cardinality(S \cap 1 .. i) \in Nat \ {0}
      /\ Cardinality(S \cap 1 .. i) <= Cardinality(S \cap 1 .. n)
      /\ Cardinality(S \cap 1 .. n) \in Nat
  <2>1. i \in Nat /\ n <= n
    OBVIOUS
  <2> QED BY <2>1, <1>1, CountsDiffer, CountMonotone
<1>6. \A j \in 1 .. n : j \in S /\ Cardinality(S \cap 1 .. i) = Cardinality(S \cap 1 .. j) => i = j
  BY <1>1, <1>2, CountsDiffer
<1>7. ObjectNo(doc, n) \in Nat /\ ObjectNo(doc, i) \in 1 .. ObjectNo(doc, n)
  <2>1. ObjectNo(doc, i) = Cardinality(S \cap 1 .. i)
    BY <1>4
  <2> QED BY <2>1, <1>3, <1>5
<1>8. ASSUME NEW j \in 1 .. n, IsObject(doc, j), ObjectNo(doc, i) = ObjectNo(doc, j)
      PROVE  i = j
  BY <1>2, <1>4, <1>6, <1>8
<1> QED BY <1>7, <1>8

\* So are the place of a property and its number.
LEMMA PropNumbers ==
  ASSUME NEW doc, NEW n \in Nat, NEW m \in 1 .. n, IsProperty(doc, m)
  PROVE  /\ Cardinality(PropsIn(doc, ParentOf(doc, m)) \cap 1 .. n) \in Nat
         /\ PropNo(doc, m) \in 1 .. Cardinality(PropsIn(doc, ParentOf(doc, m)) \cap 1 .. n)
         /\ \A j \in 1 .. n :
               IsProperty(doc, j) /\ ParentOf(doc, j) = ParentOf(doc, m) /\ PropNo(doc, j) = PropNo(doc, m) => j = m
<1> DEFINE S == PropsIn(doc, ParentOf(doc, m))
<1>1. m \in Nat \ {0} /\ m \in S /\ m <= n
  BY DEF PropsIn
<1>2. \A j \in 1 .. n : j \in Nat \ {0} /\ (IsProperty(doc, j) /\ ParentOf(doc, j) = ParentOf(doc, m) <=> j \in S)
  BY DEF PropsIn
<1> HIDE DEF S
<1>3. \A j \in 1 .. n : ParentOf(doc, j) = ParentOf(doc, m) => PropNo(doc, j) = Cardinality(S \cap 1 .. j)
  BY PropNoIs DEF S
<1>4. /\ Cardinality(S \cap 1 .. m) \in Nat \ {0}
      /\ Cardinality(S \cap 1 .. m) <= Cardinality(S \cap 1 .. n)
      /\ Cardinality(S \cap 1 .. n) \in Nat
  <2>1. m \in Nat /\ n <= n
    OBVIOUS
  <2> QED BY <2>1, <1>1, CountsDiffer, CountMonotone
<1>5. \A j \in 1 .. n : j \in S /\ Cardinality(S \cap 1 .. m) = Cardinality(S \cap 1 .. j) => m = j
  BY <1>1, <1>2, CountsDiffer
<1>6. PropNo(doc, m) = Cardinality(S \cap 1 .. m)
  BY <1>3
<1>7. ASSUME NEW j \in 1 .. n, IsProperty(doc, j), ParentOf(doc, j) = ParentOf(doc, m),
             PropNo(doc, j) = PropNo(doc, m)
      PROVE  j = m
  <2>1. j \in S /\ PropNo(doc, j) = Cardinality(S \cap 1 .. j)
    BY <1>2, <1>3, <1>7
  <2> QED BY <2>1, <1>5, <1>6, <1>7
<1>8. Cardinality(S \cap 1 .. n) \in Nat /\ PropNo(doc, m) \in 1 .. Cardinality(S \cap 1 .. n)
  BY <1>4, <1>6
<1> QED BY <1>7, <1>8 DEF S

\* What an event adds to the counts.
LEMMA CountsNext ==
  ASSUME NEW doc, NEW n \in Nat \ {0}
  PROVE  /\ n - 1 \in Nat /\ ObjectNo(doc, n - 1) \in Nat
         /\ IsObject(doc, n) => ObjectNo(doc, n) = ObjectNo(doc, n - 1) + 1
         /\ ~IsObject(doc, n) => ObjectNo(doc, n) = ObjectNo(doc, n - 1)
         /\ \A p : LET S == PropsIn(doc, p)
                  IN /\ Cardinality(S \cap 1 .. n - 1) \in Nat
                     /\ IF IsProperty(doc, n) /\ ParentOf(doc, n) = p
                        THEN Cardinality(S \cap 1 .. n) = Cardinality(S \cap 1 .. n - 1) + 1
                        ELSE Cardinality(S \cap 1 .. n) = Cardinality(S \cap 1 .. n - 1)
         /\ \A m : n \notin TextsOf(doc, m) => TextsOf(doc, m) \cap 1 .. n = TextsOf(doc, m) \cap 1 .. n - 1
<1>1. n - 1 \in Nat
  OBVIOUS
<1>2. n \in ObjectStarts(doc) <=> IsObject(doc, n)
  BY DEF ObjectStarts
<1>3. /\ ObjectNo(doc, n) = Cardinality(ObjectStarts(doc) \cap 1 .. n)
      /\ ObjectNo(doc, n - 1) = Cardinality(ObjectStarts(doc) \cap 1 .. n - 1)
  BY <1>1, ObjectNoIs
<1>4. \A S : /\ Cardinality(S \cap 1 .. n - 1) \in Nat
             /\ n \in S => Cardinality(S \cap 1 .. n) = Cardinality(S \cap 1 .. n - 1) + 1
             /\ n \notin S => Cardinality(S \cap 1 .. n) = Cardinality(S \cap 1 .. n - 1)
  <2> TAKE S
  <2> DEFINE a == Cardinality(S \cap 1 .. n - 1)
             b == Cardinality(S \cap 1 .. n)
  <2>1. a \in Nat /\ b = a + (IF n \in S THEN 1 ELSE 0)
    BY CountTo
  <2> HIDE DEF a, b
  <2>2. a \in Nat /\ (n \in S => b = a + 1) /\ (n \notin S => b = a)
    BY <2>1
  <2> QED BY <2>2 DEF a, b
<1>5. \A p : n \in PropsIn(doc, p) <=> IsProperty(doc, n) /\ ParentOf(doc, n) = p
  BY DEF PropsIn
<1>6. \A m : n \notin TextsOf(doc, m) => TextsOf(doc, m) \cap 1 .. n = TextsOf(doc, m) \cap 1 .. n - 1
  OBVIOUS
<1> QED BY <1>1, <1>2, <1>3, <1>4, <1>5, <1>6

\* A function of 1..n is a sequence.
LEMMA FunctionIsSeq ==
  ASSUME NEW f, NEW n \in Nat, f = [k \in 1 .. n |-> f[k]]
  PROVE  IsSeq(f) /\ Len(f) = n
<1>1. f \in Seq({f[k] : k \in 1 .. n}) /\ Len(f) = n
  OBVIOUS
<1> QED BY <1>1, SeqIsSeq

\* The objects, one with other properties.
WithProps(objs, c, ps) == [objs EXCEPT ![c].props = ps]

\* Nothing but its properties changes.
LEMMA ObjectChanged ==
  ASSUME NEW objs, IsSeq(objs), NEW c \in 1 .. Len(objs), NEW ps,
         \A k \in 1 .. Len(objs) : "props" \in DOMAIN objs[k],
         NEW new, new = WithProps(objs, c, ps)
  PROVE  /\ IsSeq(new) /\ Len(new) = Len(objs) /\ new[c].props = ps
         /\ \A k \in 1 .. Len(objs) : "props" \in DOMAIN new[k] /\ (k # c => new[k] = objs[k])
<1>1. Len(objs) \in Nat /\ DOMAIN objs = 1 .. Len(objs)
  BY IsSeqFacts
<1>2. new = [k \in 1 .. Len(objs) |-> IF k = c THEN [objs[c] EXCEPT !.props = ps] ELSE objs[k]]
  BY <1>1 DEF WithProps
<1>3. [objs[c] EXCEPT !.props = ps].props = ps /\ "props" \in DOMAIN [objs[c] EXCEPT !.props = ps]
  OBVIOUS
<1>4. new = [k \in 1 .. Len(objs) |-> new[k]]
  BY <1>2
<1>5. IsSeq(new) /\ Len(new) = Len(objs)
  BY <1>1, <1>4, FunctionIsSeq
<1>6. new[c].props = ps
  BY <1>2, <1>3
<1>7. \A k \in 1 .. Len(objs) : "props" \in DOMAIN new[k] /\ (k # c => new[k] = objs[k])
  BY <1>2, <1>3
<1> QED BY <1>5, <1>6, <1>7

\* The places of the properties found are within the objects found.
LEMMA PlacesExist ==
  ASSUME NEW doc, Grammatical(doc), NEW n \in Nat, n <= Len(doc), NEW objs, ParsedIs(doc, n, objs),
         NEW m \in 1 .. n, IsProperty(doc, m), IsObject(doc, ParentOf(doc, m))
  PROVE  LET c == ObjectNo(doc, ParentOf(doc, m))
         IN /\ c \in 1 .. Len(objs) /\ ParentOf(doc, m) \in 1 .. n
            /\ PropNo(doc, m) \in 1 .. Len(objs[c].props)
            /\ Len(objs[c].props) = Cardinality(PropsIn(doc, ParentOf(doc, m)) \cap 1 .. n)
<1>1. m \in 1 .. Len(doc) /\ Len(doc) \in Nat
  BY GrammarFacts
<1>2. ParentOf(doc, m) \in 0 .. m - 1 /\ ParentOf(doc, m) # 0
  BY <1>1, GrammarFacts DEF IsObject, Is
<1>3. ParentOf(doc, m) \in 1 .. n
  BY <1>1, <1>2
<1>4. ObjectNo(doc, ParentOf(doc, m)) \in 1 .. Len(objs)
  BY <1>3, ObjectNumbers DEF ParsedIs
<1>5. Len(objs[ObjectNo(doc, ParentOf(doc, m))].props) = Cardinality(PropsIn(doc, ParentOf(doc, m)) \cap 1 .. n)
  BY <1>3 DEF ParsedIs
<1>6. PropNo(doc, m) \in 1 .. Cardinality(PropsIn(doc, ParentOf(doc, m)) \cap 1 .. n)
  BY PropNumbers
<1> QED BY <1>3, <1>4, <1>5, <1>6

\* An event that is no object, no property of one and no text of a target
\* leaves what was found.
LEMMA ParsedSame ==
  ASSUME NEW doc, Grammatical(doc), NEW n \in 1 .. Len(doc), NEW objs,
         ParsedIs(doc, n - 1, objs), RefsAre(doc, n - 1, objs),
         ~IsObject(doc, n), ~(IsProperty(doc, n) /\ IsObject(doc, ParentOf(doc, n))),
         \A m : IsTarget(doc, m) => n \notin TextsOf(doc, m)
  PROVE  ParsedIs(doc, n, objs) /\ RefsAre(doc, n, objs)
<1>1. n \in Nat \ {0}
  BY GrammarFacts
<1>2. ObjectNo(doc, n) = ObjectNo(doc, n - 1)
  BY <1>1, CountsNext
<1>3. ASSUME NEW i \in 1 .. n, IsObject(doc, i)
      PROVE  Len(objs[ObjectNo(doc, i)].props) = Cardinality(PropsIn(doc, i) \cap 1 .. n)
  <2>1. i \in 1 .. n - 1
    BY <1>1, <1>3
  <2>2. ~(IsProperty(doc, n) /\ ParentOf(doc, n) = i)
    BY <1>3
  <2>3. Cardinality(PropsIn(doc, i) \cap 1 .. n) = Cardinality(PropsIn(doc, i) \cap 1 .. n - 1)
    BY <2>2, <1>1, CountsNext
  <2> QED BY <2>1, <2>3, <1>3 DEF ParsedIs
<1>4. ParsedIs(doc, n, objs)
  BY <1>2, <1>3 DEF ParsedIs
<1>5. ASSUME NEW m \in 1 .. n, IsTarget(doc, m)
      PROVE  m \in 1 .. n - 1 /\ TextsOf(doc, m) \cap 1 .. n = TextsOf(doc, m) \cap 1 .. n - 1
  <2>1. m # n
    BY <1>5 DEF IsTarget, IsProperty
  <2>2. n \notin TextsOf(doc, m)
    BY <1>5
  <2> QED BY <2>1, <2>2, <1>1, CountsNext
<1>6. RefsAre(doc, n, objs)
  BY <1>5 DEF RefsAre
<1> QED BY <1>4, <1>6

\* The start of an object appends one without properties, under its number.
LEMMA ParsedObject ==
  ASSUME NEW doc, Grammatical(doc), NEW n \in 1 .. Len(doc), NEW objs,
         ParsedIs(doc, n - 1, objs), RefsAre(doc, n - 1, objs), IsObject(doc, n),
         NEW obj, "props" \in DOMAIN obj, obj.props = <<>>
  PROVE  /\ ParsedIs(doc, n, Append(objs, obj)) /\ RefsAre(doc, n, Append(objs, obj))
         /\ Len(objs) + 1 = ObjectNo(doc, n)
<1> DEFINE new == Append(objs, obj)
<1>1. n \in Nat \ {0} /\ Len(doc) \in Nat
  BY GrammarFacts
<1>2. ObjectNo(doc, n) = ObjectNo(doc, n - 1) + 1 /\ ObjectNo(doc, n - 1) \in Nat
  BY <1>1, CountsNext
<1>3. /\ IsSeq(objs) /\ Len(objs) = ObjectNo(doc, n - 1)
      /\ \A k \in 1 .. Len(objs) : "props" \in DOMAIN objs[k] /\ IsSeq(objs[k].props)
  BY DEF ParsedIs
<1>4. /\ IsSeq(new) /\ Len(new) = Len(objs) + 1 /\ new[Len(objs) + 1] = obj
      /\ \A k \in 1 .. Len(objs) : new[k] = objs[k]
  BY <1>3, AppendIs
<1> HIDE DEF new
<1>5. IsSeq(<<>>)
  <2>1. <<>> \in Seq({})
    OBVIOUS
  <2> QED BY <2>1, SeqIsSeq
<1>6. \A k \in 1 .. Len(new) : "props" \in DOMAIN new[k] /\ IsSeq(new[k].props)
  <2> TAKE k \in 1 .. Len(new)
  <2>1. k \in 1 .. Len(objs) \/ k = Len(objs) + 1
    BY <1>2, <1>3, <1>4
  <2> QED BY <2>1, <1>3, <1>4, <1>5
<1>7. ~IsProperty(doc, n) /\ ~IsTarget(doc, n) /\ \A m : n \notin TextsOf(doc, m)
  BY DEF IsObject, IsTarget, IsProperty, IsChildren, Is, TextsOf
<1>8. ASSUME NEW i \in 1 .. n, IsObject(doc, i)
      PROVE  Len(new[ObjectNo(doc, i)].props) = Cardinality(PropsIn(doc, i) \cap 1 .. n)
  <2>1. Cardinality(PropsIn(doc, i) \cap 1 .. n) = Cardinality(PropsIn(doc, i) \cap 1 .. n - 1)
    BY <1>1, <1>7, CountsNext
  <2>2. CASE i = n
    <3>1. PropsIn(doc, i) \cap 1 .. n = {}
      <4>1. ASSUME NEW j \in PropsIn(doc, i) \cap 1 .. n
            PROVE  FALSE
        <5>1. j \in 1 .. n /\ j \in 1 .. Len(doc) /\ ParentOf(doc, j) = n
          BY <4>1, <2>2, <1>1 DEF PropsIn
        <5>2. ParentOf(doc, j) \in 0 .. j - 1
          BY <5>1, GrammarFacts
        <5> QED BY <5>1, <5>2, <1>1
      <4> QED BY <4>1
    <3>2. new[ObjectNo(doc, i)] = obj
      BY <2>2, <1>2, <1>3, <1>4
    <3> QED BY <3>1, <3>2, FS_EmptySet
  <2>3. CASE i # n
    <3>1. i \in 1 .. n - 1 /\ n - 1 \in Nat
      BY <2>3, <1>1
    <3>2. ObjectNo(doc, i) \in 1 .. Len(objs)
      BY <3>1, <1>3, <1>8, ObjectNumbers
    <3>3. Len(objs[ObjectNo(doc, i)].props) = Cardinality(PropsIn(doc, i) \cap 1 .. n - 1)
      BY <3>1, <1>8 DEF ParsedIs
    <3> QED BY <3>2, <3>3, <2>1, <1>4
  <2> QED BY <2>2, <2>3
<1>9. ParsedIs(doc, n, new)
  BY <1>2, <1>3, <1>4, <1>6, <1>8 DEF ParsedIs
<1>10. ASSUME NEW m \in 1 .. n, IsTarget(doc, m)
       PROVE  /\ m \in 1 .. n - 1 /\ TextsOf(doc, m) \cap 1 .. n = TextsOf(doc, m) \cap 1 .. n - 1
              /\ new[ObjectNo(doc, ParentOf(doc, m))] = objs[ObjectNo(doc, ParentOf(doc, m))]
  <2>1. m \in 1 .. n - 1 /\ n - 1 \in Nat /\ n - 1 <= Len(doc)
    BY <1>1, <1>7, <1>10
  <2>2. TextsOf(doc, m) \cap 1 .. n = TextsOf(doc, m) \cap 1 .. n - 1
    BY <1>1, <1>7, CountsNext
  <2>3. ObjectNo(doc, ParentOf(doc, m)) \in 1 .. Len(objs)
    BY <2>1, <1>10, PlacesExist DEF IsTarget, IsProperty
  <2> QED BY <2>1, <2>2, <2>3, <1>4
<1>11. RefsAre(doc, n, new)
  BY <1>10 DEF RefsAre
<1> QED BY <1>2, <1>3, <1>9, <1>11 DEF new

\* A reference appended to the list of a property.
LEMMA TextAdded ==
  ASSUME NEW a, NEW old, NEW x
  PROVE  [<<a, Children(old)>> EXCEPT ![2].v = Append(@, x)] = <<a, Children(Append(old, x))>>
<1>1. [Children(old) EXCEPT !.v = Append(@, x)] = Children(Append(old, x))
  BY DEF Children
<1> DEFINE b == Children(old)
           c == Children(Append(old, x))
<1>2. [<<a, b>> EXCEPT ![2] = c] = <<a, c>>
  <2> HIDE DEF b, c
  <2> QED OBVIOUS
<1>3. [<<a, b>> EXCEPT ![2].v = Append(@, x)] = [<<a, b>> EXCEPT ![2] = [b EXCEPT !.v = Append(@, x)]]
  <2> HIDE DEF b, c
  <2> QED OBVIOUS
<1> QED BY <1>1, <1>2, <1>3

\* The texts of a property come behind its start.
LEMMA TextsBehind ==
  ASSUME NEW doc, Grammatical(doc), NEW n \in 1 .. Len(doc), NEW i \in 1 .. Len(doc), i <= n
  PROVE  i \notin TextsOf(doc, n)
<1>1. ASSUME i \in TextsOf(doc, n)
      PROVE  FALSE
  <2> DEFINE w == ParentOf(doc, i)
  <2>1. IsValue(doc, w) /\ ParentOf(doc, w) = n
    BY <1>1 DEF TextsOf
  <2>2. w # 0 /\ w \in 0 .. i - 1
    BY <2>1, GrammarFacts DEF IsValue, Is
  <2>3. Len(doc) \in Nat /\ w \in 1 .. Len(doc)
    BY <2>2, GrammarFacts
  <2>4. ParentOf(doc, w) \in 0 .. w - 1
    BY <2>3, GrammarFacts
  <2> QED BY <2>1, <2>2, <2>3, <2>4
<1> QED BY <1>1

\* A property of an object is appended to those of that object, at its place.
LEMMA ParsedProperty ==
  ASSUME NEW doc, Grammatical(doc), NEW n \in 1 .. Len(doc), NEW objs,
         ParsedIs(doc, n - 1, objs), RefsAre(doc, n - 1, objs),
         IsProperty(doc, n), IsObject(doc, ParentOf(doc, n)),
         NEW value, IsTarget(doc, n) => value = Children(<<>>)
  PROVE  LET c == ObjectNo(doc, ParentOf(doc, n))
             new == [objs EXCEPT ![c].props = Append(objs[c].props, <<doc[n].name, value>>)]
         IN /\ c \in 1 .. Len(objs)
            /\ ParsedIs(doc, n, new) /\ RefsAre(doc, n, new)
            /\ PlaceOf(doc)[n] = [obj |-> c, prop |-> Len(objs[c].props) + 1]
<1> DEFINE p == ParentOf(doc, n)
           c == ObjectNo(doc, p)
           ps == Append(objs[c].props, <<doc[n].name, value>>)
           new == [objs EXCEPT ![c].props = ps]
<1>1. n \in Nat \ {0} /\ Len(doc) \in Nat /\ n - 1 \in Nat /\ n - 1 <= Len(doc)
  BY GrammarFacts
<1>2. p \in 1 .. n - 1
  <2>1. p # 0 /\ p \in 0 .. n - 1
    BY GrammarFacts DEF IsObject, Is
  <2> QED BY <2>1, <1>1
<1>3. /\ IsSeq(objs) /\ Len(objs) = ObjectNo(doc, n - 1)
      /\ \A k \in 1 .. Len(objs) : "props" \in DOMAIN objs[k] /\ IsSeq(objs[k].props)
  BY DEF ParsedIs
<1>4. c \in 1 .. Len(objs)
  BY <1>1, <1>2, <1>3, ObjectNumbers
<1>5. /\ IsSeq(ps) /\ Len(ps) = Len(objs[c].props) + 1 /\ ps[Len(objs[c].props) + 1] = <<doc[n].name, value>>
      /\ \A k \in 1 .. Len(objs[c].props) : ps[k] = objs[c].props[k]
      /\ Len(objs[c].props) \in Nat
  BY <1>3, <1>4, AppendIs, IsSeqFacts
<1> HIDE DEF ps, c
<1>6. /\ IsSeq(new) /\ Len(new) = Len(objs) /\ new[c].props = ps
      /\ \A k \in 1 .. Len(objs) : "props" \in DOMAIN new[k] /\ (k # c => new[k] = objs[k])
  <2>1. new = WithProps(objs, c, ps)
    BY DEF WithProps
  <2> HIDE DEF new
  <2> QED BY <2>1, <1>3, <1>4, ObjectChanged
<1> HIDE DEF new, c
<1>7. ~IsObject(doc, n) /\ \A m : n \notin TextsOf(doc, m)
  BY DEF IsObject, IsProperty, IsChildren, Is, TextsOf
<1>8. Len(objs[c].props) = Cardinality(PropsIn(doc, p) \cap 1 .. n - 1)
  BY <1>2 DEF ParsedIs, c
<1>9. PropNo(doc, n) = Len(objs[c].props) + 1
  <2>1. PropNo(doc, n) = Cardinality(PropsIn(doc, p) \cap 1 .. n)
    BY <1>1, PropNoIs
  <2>2. Cardinality(PropsIn(doc, p) \cap 1 .. n) = Cardinality(PropsIn(doc, p) \cap 1 .. n - 1) + 1
    BY <1>1, CountsNext
  <2> QED BY <2>1, <2>2, <1>8
<1>10. PlaceOf(doc)[n] = [obj |-> c, prop |-> Len(objs[c].props) + 1]
  BY <1>1, <1>9 DEF PlaceOf, c
<1>11. ASSUME NEW i \in 1 .. n, IsObject(doc, i)
       PROVE  Len(new[ObjectNo(doc, i)].props) = Cardinality(PropsIn(doc, i) \cap 1 .. n)
  <2>1. i \in 1 .. n - 1
    BY <1>1, <1>7, <1>11
  <2>2. Len(objs[ObjectNo(doc, i)].props) = Cardinality(PropsIn(doc, i) \cap 1 .. n - 1)
    BY <2>1, <1>11 DEF ParsedIs
  <2>3. CASE i = p
    <3>1. Cardinality(PropsIn(doc, i) \cap 1 .. n) = Cardinality(PropsIn(doc, i) \cap 1 .. n - 1) + 1
      BY <2>3, <1>1, CountsNext
    <3> QED BY <3>1, <2>3, <1>5, <1>6, <1>8 DEF c
  <2>4. CASE i # p
    <3>1. Cardinality(PropsIn(doc, i) \cap 1 .. n) = Cardinality(PropsIn(doc, i) \cap 1 .. n - 1)
      BY <2>4, <1>1, CountsNext
    <3>2. ObjectNo(doc, i) # c /\ ObjectNo(doc, i) \in 1 .. Len(objs)
      BY <2>1, <2>4, <1>1, <1>2, <1>3, <1>11, ObjectNumbers DEF c
    <3> QED BY <3>1, <3>2, <2>2, <1>6
  <2> QED BY <2>3, <2>4
<1>12. \A k \in 1 .. Len(new) : "props" \in DOMAIN new[k] /\ IsSeq(new[k].props)
  <2> TAKE k \in 1 .. Len(new)
  <2>1. CASE k = c
    BY <2>1, <1>4, <1>5, <1>6
  <2>2. CASE k # c
    BY <2>2, <1>3, <1>6
  <2> QED BY <2>1, <2>2
<1>13. ObjectNo(doc, n) = ObjectNo(doc, n - 1)
  BY <1>1, <1>7, CountsNext
<1>14. ParsedIs(doc, n, new)
  BY <1>3, <1>6, <1>11, <1>12, <1>13 DEF ParsedIs
<1>15. ASSUME NEW m \in 1 .. n, IsTarget(doc, m)
       PROVE  \E ids : /\ IsSeq(ids) /\ InOrder(ids, doc, TextsOf(doc, m) \cap 1 .. n)
                       /\ new[ObjectNo(doc, ParentOf(doc, m))].props[PropNo(doc, m)] = <<doc[m].name, Children(ids)>>
  <2>1. CASE m = n
    <3>1. new[ObjectNo(doc, ParentOf(doc, m))].props[PropNo(doc, m)] = <<doc[m].name, Children(<<>>)>>
      BY <2>1, <1>5, <1>6, <1>9, <1>15 DEF c
    <3>2. TextsOf(doc, m) \cap 1 .. n = {}
      <4>1. \A i \in 1 .. n : i \in 1 .. Len(doc) /\ i <= n
        BY <1>1
      <4> QED BY <4>1, <2>1, TextsBehind
    <3>3. InOrder(<<>>, doc, {})
      BY FS_EmptySet DEF InOrder
    <3>4. IsSeq(<<>>)
      <4>1. <<>> \in Seq({})
        OBVIOUS
      <4> QED BY <4>1, SeqIsSeq
    <3> QED BY <3>1, <3>2, <3>3, <3>4
  <2>2. CASE m # n
    <3> DEFINE d == ObjectNo(doc, ParentOf(doc, m))
               k == PropNo(doc, m)
    <3>1. m \in 1 .. n - 1
      BY <2>2, <1>1
    <3>2. PICK ids : /\ IsSeq(ids) /\ InOrder(ids, doc, TextsOf(doc, m) \cap 1 .. n - 1)
                     /\ objs[d].props[k] = <<doc[m].name, Children(ids)>>
      BY <3>1, <1>15 DEF RefsAre
    <3>3. TextsOf(doc, m) \cap 1 .. n = TextsOf(doc, m) \cap 1 .. n - 1
      BY <1>1, <1>7, CountsNext
    <3>4. d \in 1 .. Len(objs) /\ k \in 1 .. Len(objs[d].props)
      BY <3>1, <1>1, <1>15, PlacesExist DEF IsTarget, IsProperty
    <3> HIDE DEF d, k
    <3>5. new[d].props[k] = objs[d].props[k]
      <4>1. CASE d = c
        BY <4>1, <3>4, <1>5, <1>6
      <4>2. CASE d # c
        BY <4>2, <3>4, <1>6
      <4> QED BY <4>1, <4>2
    <3> QED BY <3>2, <3>3, <3>5 DEF d, k
  <2> QED BY <2>1, <2>2
<1>16. RefsAre(doc, n, new)
  BY <1>15 DEF RefsAre
<1> QED BY <1>4, <1>10, <1>14, <1>16 DEF new, ps, c

\* A text of a target is appended to the list at the place of the target.
LEMMA ParsedText ==
  ASSUME NEW doc, Grammatical(doc), NEW n \in 1 .. Len(doc), NEW objs,
         ParsedIs(doc, n - 1, objs), RefsAre(doc, n - 1, objs),
         NEW t \in 1 .. n - 1, IsTarget(doc, t), n \in TextsOf(doc, t),
         NEW at, at = PlaceOf(doc)[t]
  PROVE  LET new == [objs EXCEPT ![at.obj].props[at.prop][2].v = Append(@, doc[n].id)]
         IN ParsedIs(doc, n, new) /\ RefsAre(doc, n, new)
<1> DEFINE c == ObjectNo(doc, ParentOf(doc, t))
           l == PropNo(doc, t)
<1>1. n \in Nat \ {0} /\ Len(doc) \in Nat /\ n - 1 \in Nat /\ n - 1 <= Len(doc)
  BY GrammarFacts
<1>2. at = [obj |-> c, prop |-> l]
  BY <1>1 DEF PlaceOf
<1>3. /\ IsSeq(objs) /\ Len(objs) = ObjectNo(doc, n - 1)
      /\ \A k \in 1 .. Len(objs) : "props" \in DOMAIN objs[k] /\ IsSeq(objs[k].props)
  BY DEF ParsedIs
<1>4. c \in 1 .. Len(objs) /\ l \in 1 .. Len(objs[c].props) /\ ParentOf(doc, t) \in 1 .. n - 1
  BY <1>1, PlacesExist DEF IsTarget, IsProperty
<1>5. PICK old : /\ IsSeq(old) /\ InOrder(old, doc, TextsOf(doc, t) \cap 1 .. n - 1)
                 /\ objs[c].props[l] = <<doc[t].name, Children(old)>>
  BY DEF RefsAre
<1> DEFINE ids == Append(old, doc[n].id)
           prop == <<doc[t].name, Children(ids)>>
           ps == [objs[c].props EXCEPT ![l] = prop]
           new == [objs EXCEPT ![c].props = ps]
<1>6. IsSeq(ids) /\ InOrder(ids, doc, TextsOf(doc, t) \cap 1 .. n)
  BY <1>1, <1>5, InOrderNext, AppendIs
<1>7. [objs EXCEPT ![at.obj].props[at.prop][2].v = Append(@, doc[n].id)] = new
  <2>1. [objs[c].props[l] EXCEPT ![2].v = Append(@, doc[n].id)] = prop
    BY <1>5, TextAdded
  <2>2. at.obj = c /\ at.prop = l
    BY <1>2
  <2> HIDE DEF prop, c, l
  <2>3. [objs[c].props EXCEPT ![l][2].v = Append(@, doc[n].id)] = ps
    BY <2>1, <1>4
  <2> HIDE DEF ps
  <2>4. [objs EXCEPT ![c].props[l][2].v = Append(@, doc[n].id)] = new
    BY <2>3
  <2> QED BY <2>2, <2>4
<1> HIDE DEF prop, ids
<1>8. IsSeq(ps) /\ Len(ps) = Len(objs[c].props) /\ ps[l] = prop /\ \A k \in 1 .. Len(ps) : k # l => ps[k] = objs[c].props[k]
  <2>1. objs[c].props \in Seq(Range(objs[c].props)) /\ Len(objs[c].props) \in Nat
    BY <1>3, <1>4 DEF IsSeq
  <2>2. ps = [k \in 1 .. Len(objs[c].props) |-> IF k = l THEN prop ELSE objs[c].props[k]]
    BY <2>1
  <2> HIDE DEF ps
  <2>3. IsSeq(ps) /\ Len(ps) = Len(objs[c].props)
    BY <2>1, <2>2, FunctionIsSeq
  <2> QED BY <2>2, <2>3, <1>4
<1> HIDE DEF ps, c, l
<1>9. /\ IsSeq(new) /\ Len(new) = Len(objs) /\ new[c].props = ps
      /\ \A k \in 1 .. Len(objs) : "props" \in DOMAIN new[k] /\ (k # c => new[k] = objs[k])
  <2>1. new = WithProps(objs, c, ps)
    BY DEF WithProps
  <2> HIDE DEF new
  <2> QED BY <2>1, <1>3, <1>4, ObjectChanged
<1> HIDE DEF new, c, l
<1>10. ~IsObject(doc, n) /\ ~IsProperty(doc, n) /\ ~IsTarget(doc, n) /\ \A m : m # t => n \notin TextsOf(doc, m)
  BY DEF IsObject, IsProperty, IsChildren, IsTarget, Is, TextsOf
<1>11. ASSUME NEW i \in 1 .. n, IsObject(doc, i)
       PROVE  Len(new[ObjectNo(doc, i)].props) = Cardinality(PropsIn(doc, i) \cap 1 .. n)
  <2>1. i \in 1 .. n - 1
    BY <1>1, <1>10, <1>11
  <2>2. Len(objs[ObjectNo(doc, i)].props) = Cardinality(PropsIn(doc, i) \cap 1 .. n - 1)
    BY <2>1, <1>11 DEF ParsedIs
  <2>3. Cardinality(PropsIn(doc, i) \cap 1 .. n) = Cardinality(PropsIn(doc, i) \cap 1 .. n - 1)
    BY <1>1, <1>10, CountsNext
  <2>4. ObjectNo(doc, i) \in 1 .. Len(objs)
    BY <2>1, <1>1, <1>3, <1>11, ObjectNumbers
  <2>5. Len(new[ObjectNo(doc, i)].props) = Len(objs[ObjectNo(doc, i)].props)
    <3>1. CASE ObjectNo(doc, i) = c
      BY <3>1, <1>8, <1>9
    <3>2. CASE ObjectNo(doc, i) # c
      BY <3>2, <2>4, <1>9
    <3> QED BY <3>1, <3>2
  <2> QED BY <2>2, <2>3, <2>5
<1>12. \A k \in 1 .. Len(new) : "props" \in DOMAIN new[k] /\ IsSeq(new[k].props)
  <2> TAKE k \in 1 .. Len(new)
  <2>1. CASE k = c
    BY <2>1, <1>4, <1>8, <1>9
  <2>2. CASE k # c
    BY <2>2, <1>3, <1>9
  <2> QED BY <2>1, <2>2
<1>13. ObjectNo(doc, n) = ObjectNo(doc, n - 1)
  BY <1>1, <1>10, CountsNext
<1>14. ParsedIs(doc, n, new)
  BY <1>3, <1>9, <1>11, <1>12, <1>13 DEF ParsedIs
<1>15. ASSUME NEW m \in 1 .. n, IsTarget(doc, m)
       PROVE  \E is : /\ IsSeq(is) /\ InOrder(is, doc, TextsOf(doc, m) \cap 1 .. n)
                      /\ new[ObjectNo(doc, ParentOf(doc, m))].props[PropNo(doc, m)] = <<doc[m].name, Children(is)>>
  <2>1. CASE m = t
    <3>1. new[ObjectNo(doc, ParentOf(doc, m))].props[PropNo(doc, m)] = <<doc[m].name, Children(ids)>>
      BY <2>1, <1>8, <1>9 DEF c, l, prop
    <3> QED BY <3>1, <2>1, <1>6
  <2>2. CASE m # t
    <3> DEFINE d == ObjectNo(doc, ParentOf(doc, m))
               k == PropNo(doc, m)
    <3>1. m \in 1 .. n - 1
      BY <1>1, <1>10, <1>15
    <3>2. PICK is : /\ IsSeq(is) /\ InOrder(is, doc, TextsOf(doc, m) \cap 1 .. n - 1)
                    /\ objs[d].props[k] = <<doc[m].name, Children(is)>>
      BY <3>1, <1>15 DEF RefsAre
    <3>3. TextsOf(doc, m) \cap 1 .. n = TextsOf(doc, m) \cap 1 .. n - 1
      BY <2>2, <1>1, <1>10, CountsNext
    <3>4. d \in 1 .. Len(objs) /\ k \in 1 .. Len(objs[d].props) /\ ParentOf(doc, m) \in 1 .. n - 1
      BY <3>1, <1>1, <1>15, PlacesExist DEF IsTarget, IsProperty
    <3>5. d = c => k # l
      <4>1. ASSUME d = c, k = l
            PROVE  m = t
        <5>1. ParentOf(doc, m) = ParentOf(doc, t)
          BY <4>1, <3>4, <1>1, <1>4, <1>15, ObjectNumbers DEF c, IsTarget
        <5>2. IsProperty(doc, m) /\ IsProperty(doc, t)
          BY <1>15 DEF IsTarget, IsProperty
        <5> QED BY <5>1, <5>2, <4>1, <3>1, <1>1, PropNumbers DEF l
      <4> QED BY <4>1, <2>2
    <3> HIDE DEF d, k
    <3>6. new[d].props[k] = objs[d].props[k]
      <4>1. CASE d = c
        BY <4>1, <3>4, <3>5, <1>8, <1>9
      <4>2. CASE d # c
        BY <4>2, <3>4, <1>9
      <4> QED BY <4>1, <4>2
    <3> QED BY <3>2, <3>3, <3>6 DEF d, k
  <2> QED BY <2>1, <2>2
<1>16. RefsAre(doc, n, new)
  BY <1>15 DEF RefsAre
<1> QED BY <1>7, <1>14, <1>16

(***************************************************************************)
(* The steps.                                                              *)
(***************************************************************************)
\* Before event n.
SoFar(doc, n) ==
    /\ StackIs(doc, n, stack)
    /\ ValueIs(doc, n, inValue)
    /\ OpenPropsAre(doc, n, openProps)
    /\ ParsedIs(doc, n - 1, parsed)
    /\ RefsAre(doc, n - 1, parsed)

\* The event to be read, in a document that is right so far.
Reading(doc, n) ==
    /\ doc = events /\ n = pos + 1
    /\ Grammatical(doc) /\ Regular(doc, Parents(doc))
    /\ SoFar(doc, n)

\* The event that is read.
LEMMA ReadsIs ==
  ASSUME NEW doc, NEW n \in 1 .. Len(doc), doc = events, n = pos + 1, NEW event, NEW tag, Reads(event, tag)
  PROVE  Event = doc[n] /\ doc[n].event = event /\ doc[n].tag = tag /\ Is(doc, n, event, tag)
BY DEF Reads, Event, Is

\* Each arm of the loop keeps what is said of its event.
LEMMA OpenObjectReads ==
  ASSUME NEW doc, NEW n \in 1 .. Len(doc), Reading(doc, n), OpenObject
  PROVE  SoFar(doc, n + 1)'
<1> DEFINE obj == [id |-> Event.id, type |-> Event.type, owner |-> Event.owner, props |-> <<>>]
<1>1. Grammatical(doc) /\ SoFar(doc, n)
  BY DEF Reading
<1>2. IsObject(doc, n) /\ Is(doc, n, "start", "object")
  BY ReadsIs DEF Reading, OpenObject, IsObject
<1>3. /\ parsed' = Append(parsed, obj) /\ stack' = Append(stack, Len(parsed) + 1)
      /\ openProps' = openProps /\ inValue' = inValue
  BY DEF OpenObject
<1>4. "props" \in DOMAIN obj /\ obj.props = <<>>
  OBVIOUS
<1> HIDE DEF obj
<1>5. ParsedIs(doc, n, parsed') /\ RefsAre(doc, n, parsed') /\ Len(parsed) + 1 = ObjectNo(doc, n)
  BY <1>1, <1>2, <1>3, <1>4, ParsedObject DEF SoFar
<1>6. StackIs(doc, n + 1, stack')
  BY <1>1, <1>2, <1>3, <1>5, StackOpened DEF SoFar
<1>7. ~IsValue(doc, n) /\ ~Is(doc, n, "end", "value") /\ ~IsTarget(doc, n) /\ ~Is(doc, n, "end", "property")
  BY <1>2 DEF IsValue, IsTarget, IsChildren, Is
<1>8. ValueIs(doc, n + 1, inValue')
  BY <1>1, <1>3, <1>7, ValueNext DEF SoFar
<1>9. OpenPropsAre(doc, n + 1, openProps')
  BY <1>1, <1>3, <1>7, PropsSame DEF SoFar
<1>10. (n + 1) - 1 = n
  BY <1>1, GrammarFacts
<1> QED BY <1>5, <1>6, <1>8, <1>9, <1>10 DEF SoFar

\* Events that neither begin an object, nor a property of one, nor are texts.
LEMMA ParsedOn ==
  ASSUME NEW doc, Grammatical(doc), NEW n \in 1 .. Len(doc), NEW objs,
         ParsedIs(doc, n - 1, objs), RefsAre(doc, n - 1, objs),
         ~IsObject(doc, n), ~IsProperty(doc, n), ~Is(doc, n, "text", "text")
  PROVE  ParsedIs(doc, n, objs) /\ RefsAre(doc, n, objs)
<1>1. \A m : n \notin TextsOf(doc, m)
  BY DEF TextsOf
<1> QED BY <1>1, ParsedSame

LEMMA CloseObjectReads ==
  ASSUME NEW doc, NEW n \in 1 .. Len(doc), Reading(doc, n), CloseObject
  PROVE  SoFar(doc, n + 1)'
<1>1. Grammatical(doc) /\ SoFar(doc, n)
  BY DEF Reading
<1>2. Is(doc, n, "end", "object")
  BY ReadsIs DEF Reading, CloseObject
<1>3. parsed' = parsed /\ stack' = Popped(stack) /\ openProps' = openProps /\ inValue' = inValue
  BY DEF CloseObject
<1>4. /\ ~IsObject(doc, n) /\ ~IsProperty(doc, n) /\ ~Is(doc, n, "text", "text")
      /\ ~IsValue(doc, n) /\ ~Is(doc, n, "end", "value") /\ ~IsTarget(doc, n) /\ ~Is(doc, n, "end", "property")
  BY <1>2 DEF IsObject, IsProperty, IsValue, IsTarget, IsChildren, Is
<1>5. ParsedIs(doc, n, parsed') /\ RefsAre(doc, n, parsed')
  BY <1>1, <1>3, <1>4, ParsedOn DEF SoFar
<1>6. StackIs(doc, n + 1, stack')
  BY <1>1, <1>2, <1>3, StackClosed DEF SoFar
<1>7. ValueIs(doc, n + 1, inValue')
  BY <1>1, <1>3, <1>4, ValueNext DEF SoFar
<1>8. OpenPropsAre(doc, n + 1, openProps')
  BY <1>1, <1>3, <1>4, PropsSame DEF SoFar
<1>9. (n + 1) - 1 = n
  BY <1>1, GrammarFacts
<1> QED BY <1>5, <1>6, <1>7, <1>8, <1>9 DEF SoFar

LEMMA OpenPropertyReads ==
  ASSUME NEW doc, NEW n \in 1 .. Len(doc), Reading(doc, n), OpenProperty
  PROVE  SoFar(doc, n + 1)'
<1> DEFINE c == ObjectNo(doc, ParentOf(doc, n))
<1>1. Grammatical(doc) /\ SoFar(doc, n)
  BY DEF Reading
<1>2. Is(doc, n, "start", "property") /\ Event = doc[n] /\ doc[n].event = "start" /\ doc[n].tag = "property"
  BY ReadsIs DEF Reading, OpenProperty
<1>3. doc[n].type = "Object" /\ stack # <<>> /\ HasNameAttr(doc[n])
  BY <1>2 DEF OpenProperty, OpensChildren
<1>4. IsObject(doc, ParentOf(doc, n)) /\ Current = c
  BY <1>1, <1>2, <1>3, StackTop DEF SoFar, Current
<1>5. /\ parsed' = [parsed EXCEPT ![c].props = Append(parsed[c].props, <<doc[n].name, Children(<<>>)>>)]
      /\ openProps' = Append(openProps, [obj |-> c, prop |-> Len(parsed[c].props) + 1])
      /\ stack' = stack /\ inValue' = inValue
  BY <1>2, <1>4 DEF OpenProperty, AddProp
<1>6. IsTarget(doc, n) /\ IsProperty(doc, n)
  BY <1>2, <1>3, <1>4 DEF IsTarget, IsProperty, IsChildren
<1> HIDE DEF c
<1>7. /\ ParsedIs(doc, n, parsed') /\ RefsAre(doc, n, parsed')
      /\ PlaceOf(doc)[n] = [obj |-> c, prop |-> Len(parsed[c].props) + 1]
  BY <1>1, <1>4, <1>5, <1>6, ParsedProperty DEF SoFar, c
<1>8. StackIs(doc, n + 1, stack')
  BY <1>1, <1>2, <1>5, StackSame DEF SoFar
<1>9. ~IsValue(doc, n) /\ ~Is(doc, n, "end", "value")
  BY <1>2 DEF IsValue, Is
<1>10. ValueIs(doc, n + 1, inValue')
  BY <1>1, <1>5, <1>9, ValueNext DEF SoFar
<1>11. OpenPropsAre(doc, n + 1, openProps')
  BY <1>1, <1>5, <1>6, <1>7, PropsOpened DEF SoFar
<1>12. (n + 1) - 1 = n
  BY <1>1, GrammarFacts
<1> QED BY <1>7, <1>8, <1>10, <1>11, <1>12 DEF SoFar

LEMMA PassPropertyReads ==
  ASSUME NEW doc, NEW n \in 1 .. Len(doc), Reading(doc, n), PassProperty
  PROVE  SoFar(doc, n + 1)'
<1>1. Grammatical(doc) /\ SoFar(doc, n)
  BY DEF Reading
<1>2. Is(doc, n, "start", "property") /\ Event = doc[n] /\ doc[n].event = "start" /\ doc[n].tag = "property"
  BY ReadsIs DEF Reading, PassProperty
<1>3. ~(doc[n].type = "Object" /\ stack # <<>> /\ HasNameAttr(doc[n]))
  BY <1>2 DEF PassProperty, OpensChildren
<1>4. IsObject(doc, ParentOf(doc, n)) <=> stack # <<>>
  BY <1>1, <1>2, StackTop DEF SoFar
<1>5. parsed' = parsed /\ stack' = stack /\ openProps' = openProps /\ inValue' = inValue
  BY DEF PassProperty
<1>6. /\ ~IsObject(doc, n) /\ ~(IsProperty(doc, n) /\ IsObject(doc, ParentOf(doc, n)))
      /\ ~IsTarget(doc, n) /\ ~Is(doc, n, "text", "text")
      /\ ~IsValue(doc, n) /\ ~Is(doc, n, "end", "value") /\ ~Is(doc, n, "end", "property")
  BY <1>2, <1>3, <1>4 DEF IsObject, IsTarget, IsProperty, IsChildren, IsValue, Is
<1>7. \A m : n \notin TextsOf(doc, m)
  BY <1>6 DEF TextsOf
<1>8. ParsedIs(doc, n, parsed') /\ RefsAre(doc, n, parsed')
  BY <1>1, <1>5, <1>6, <1>7, ParsedSame DEF SoFar
<1>9. StackIs(doc, n + 1, stack')
  BY <1>1, <1>2, <1>5, StackSame DEF SoFar
<1>10. ValueIs(doc, n + 1, inValue')
  BY <1>1, <1>5, <1>6, ValueNext DEF SoFar
<1>11. OpenPropsAre(doc, n + 1, openProps')
  BY <1>1, <1>5, <1>6, PropsSame DEF SoFar
<1>12. (n + 1) - 1 = n
  BY <1>1, GrammarFacts
<1> QED BY <1>8, <1>9, <1>10, <1>11, <1>12 DEF SoFar

LEMMA EmptyPropertyReads ==
  ASSUME NEW doc, NEW n \in 1 .. Len(doc), Reading(doc, n), EmptyProperty
  PROVE  SoFar(doc, n + 1)'
<1> DEFINE c == ObjectNo(doc, ParentOf(doc, n))
           value == IF doc[n].type = "Object" THEN Children(<<>>) ELSE doc[n].value
<1>1. Grammatical(doc) /\ SoFar(doc, n)
  BY DEF Reading
<1>2. Is(doc, n, "empty", "property") /\ Event = doc[n] /\ doc[n].event = "empty" /\ doc[n].tag = "property"
  BY ReadsIs DEF Reading, EmptyProperty
<1>3. /\ IsObject(doc, ParentOf(doc, n)) <=> stack # <<>>
      /\ stack # <<>> => Current = c
  BY <1>1, <1>2, StackTop DEF SoFar, Current
<1>4. /\ ~IsObject(doc, n) /\ ~IsTarget(doc, n) /\ ~Is(doc, n, "text", "text")
      /\ IsProperty(doc, n) <=> Kept(doc[n])
      /\ ~IsValue(doc, n) /\ ~Is(doc, n, "end", "value") /\ ~Is(doc, n, "end", "property")
  BY <1>2 DEF IsObject, IsTarget, IsProperty, IsChildren, IsValue, Is
<1>5. stack' = stack /\ openProps' = openProps /\ inValue' = inValue
  BY DEF EmptyProperty
<1>6. ParsedIs(doc, n, parsed') /\ RefsAre(doc, n, parsed')
  <2>1. CASE stack = <<>> \/ ~Kept(doc[n])
    <3>1. \A m : n \notin TextsOf(doc, m)
      BY <1>4 DEF TextsOf
    <3>2. parsed' = parsed
      BY <2>1, <1>2 DEF EmptyProperty
    <3> QED BY <3>1, <3>2, <2>1, <1>1, <1>3, <1>4, ParsedSame DEF SoFar
  <2>2. CASE stack # <<>> /\ Kept(doc[n])
    <3>1. parsed' = [parsed EXCEPT ![c].props = Append(parsed[c].props, <<doc[n].name, value>>)]
      BY <2>2, <1>2, <1>3 DEF EmptyProperty, AddProp
    <3> HIDE DEF c, value
    <3> QED BY <3>1, <2>2, <1>1, <1>3, <1>4, ParsedProperty DEF SoFar, c
  <2> QED BY <2>1, <2>2
<1>7. StackIs(doc, n + 1, stack')
  BY <1>1, <1>2, <1>5, StackSame DEF SoFar
<1>8. ValueIs(doc, n + 1, inValue')
  BY <1>1, <1>4, <1>5, ValueNext DEF SoFar
<1>9. OpenPropsAre(doc, n + 1, openProps')
  BY <1>1, <1>4, <1>5, PropsSame DEF SoFar
<1>10. (n + 1) - 1 = n
  BY <1>1, GrammarFacts
<1> QED BY <1>6, <1>7, <1>8, <1>9, <1>10 DEF SoFar

LEMMA ClosePropertyReads ==
  ASSUME NEW doc, NEW n \in 1 .. Len(doc), Reading(doc, n), CloseProperty
  PROVE  SoFar(doc, n + 1)'
<1>1. Grammatical(doc) /\ SoFar(doc, n)
  BY DEF Reading
<1>2. Is(doc, n, "end", "property") /\ doc[n].tag = "property"
  BY ReadsIs DEF Reading, CloseProperty
<1>3. parsed' = parsed /\ stack' = stack /\ openProps' = Popped(openProps) /\ inValue' = inValue
  BY DEF CloseProperty
<1>4. /\ ~IsObject(doc, n) /\ ~IsProperty(doc, n) /\ ~Is(doc, n, "text", "text")
      /\ ~IsValue(doc, n) /\ ~Is(doc, n, "end", "value")
  BY <1>2 DEF IsObject, IsProperty, IsValue, IsChildren, Is
<1>5. ParsedIs(doc, n, parsed') /\ RefsAre(doc, n, parsed')
  BY <1>1, <1>3, <1>4, ParsedOn DEF SoFar
<1>6. StackIs(doc, n + 1, stack')
  BY <1>1, <1>2, <1>3, StackSame DEF SoFar
<1>7. ValueIs(doc, n + 1, inValue')
  BY <1>1, <1>3, <1>4, ValueNext DEF SoFar
<1>8. OpenPropsAre(doc, n + 1, openProps')
  BY <1>1, <1>2, <1>3, PropsClosed DEF SoFar
<1>9. (n + 1) - 1 = n
  BY <1>1, GrammarFacts
<1> QED BY <1>5, <1>6, <1>7, <1>8, <1>9 DEF SoFar

LEMMA ValueReads ==
  ASSUME NEW doc, NEW n \in 1 .. Len(doc), Reading(doc, n), OpenValue \/ CloseValue
  PROVE  SoFar(doc, n + 1)'
<1>1. Grammatical(doc) /\ SoFar(doc, n)
  BY DEF Reading
<1>2. \/ Is(doc, n, "start", "value") /\ inValue' = TRUE
      \/ Is(doc, n, "end", "value") /\ inValue' = FALSE
  BY ReadsIs DEF Reading, OpenValue, CloseValue
<1>3. parsed' = parsed /\ stack' = stack /\ openProps' = openProps
  BY DEF OpenValue, CloseValue
<1>4. /\ ~IsObject(doc, n) /\ ~IsProperty(doc, n) /\ ~Is(doc, n, "text", "text")
      /\ ~IsTarget(doc, n) /\ ~Is(doc, n, "end", "property") /\ doc[n].tag = "value"
  BY <1>2 DEF IsObject, IsProperty, IsTarget, IsChildren, Is
<1>5. ParsedIs(doc, n, parsed') /\ RefsAre(doc, n, parsed')
  BY <1>1, <1>3, <1>4, ParsedOn DEF SoFar
<1>6. StackIs(doc, n + 1, stack')
  BY <1>1, <1>3, <1>4, StackSame DEF SoFar
<1>7. ValueIs(doc, n + 1, inValue')
  BY <1>1, <1>2, ValueNext DEF SoFar, IsValue
<1>8. OpenPropsAre(doc, n + 1, openProps')
  BY <1>1, <1>3, <1>4, PropsSame DEF SoFar
<1>9. (n + 1) - 1 = n
  BY <1>1, GrammarFacts
<1> QED BY <1>5, <1>6, <1>7, <1>8, <1>9 DEF SoFar

LEMMA ReadTextReads ==
  ASSUME NEW doc, NEW n \in 1 .. Len(doc), Reading(doc, n), ReadText
  PROVE  SoFar(doc, n + 1)'
<1> DEFINE t == ParentOf(doc, ParentOf(doc, n))
<1>1. Grammatical(doc) /\ SoFar(doc, n) /\ Regular(doc, Parents(doc))
  BY DEF Reading
<1>2. Is(doc, n, "text", "text") /\ Event = doc[n] /\ doc[n].tag = "text"
  BY ReadsIs DEF Reading, ReadText
<1>3. stack' = stack /\ openProps' = openProps /\ inValue' = inValue
  BY DEF ReadText
<1>4. /\ ~IsObject(doc, n) /\ ~IsProperty(doc, n) /\ ~IsTarget(doc, n) /\ ~Is(doc, n, "end", "property")
      /\ ~IsValue(doc, n) /\ ~Is(doc, n, "end", "value")
  BY <1>2 DEF IsObject, IsProperty, IsTarget, IsChildren, IsValue, Is
<1>5. inValue <=> IsValue(doc, ParentOf(doc, n))
  BY <1>1 DEF SoFar, ValueIs
<1>6. ParsedIs(doc, n, parsed') /\ RefsAre(doc, n, parsed')
  <2>1. CASE IsValue(doc, ParentOf(doc, n))
    <3>1. t \in 1 .. n - 1 /\ IsTarget(doc, t) /\ openProps # <<>> /\ Last(openProps) = PlaceOf(doc)[t]
      BY <2>1, <1>1, TextPlace DEF SoFar
    <3>2. n \in TextsOf(doc, t)
      <4>1. n \in Nat
        BY <1>1, GrammarFacts
      <4> QED BY <4>1, <2>1, <1>2 DEF TextsOf
    <3> DEFINE at == Last(openProps)
    <3>3. parsed' = [parsed EXCEPT ![at.obj].props[at.prop][2].v = Append(@, doc[n].id)]
      BY <2>1, <3>1, <1>2, <1>5 DEF ReadText
    <3>4. at = PlaceOf(doc)[t]
      BY <3>1
    <3> HIDE DEF at, t
    <3> QED BY <3>1, <3>2, <3>3, <3>4, <1>1, ParsedText DEF SoFar
  <2>2. CASE ~IsValue(doc, ParentOf(doc, n))
    <3>1. parsed' = parsed
      BY <2>2, <1>5 DEF ReadText
    <3>2. \A m : n \notin TextsOf(doc, m)
      BY <2>2 DEF TextsOf
    <3> QED BY <3>1, <3>2, <1>1, <1>4, ParsedSame DEF SoFar
  <2> QED BY <2>1, <2>2
<1>7. StackIs(doc, n + 1, stack')
  BY <1>1, <1>2, <1>3, StackSame DEF SoFar
<1>8. ValueIs(doc, n + 1, inValue')
  BY <1>1, <1>3, <1>4, ValueNext DEF SoFar
<1>9. OpenPropsAre(doc, n + 1, openProps')
  BY <1>1, <1>3, <1>4, PropsSame DEF SoFar
<1>10. (n + 1) - 1 = n
  BY <1>1, GrammarFacts
<1> QED BY <1>6, <1>7, <1>8, <1>9, <1>10 DEF SoFar

LEMMA PassOtherReads ==
  ASSUME NEW doc, NEW n \in 1 .. Len(doc), Reading(doc, n), PassOther
  PROVE  SoFar(doc, n + 1)'
<1>1. Grammatical(doc) /\ SoFar(doc, n)
  BY DEF Reading
<1>2. doc[n].tag = "other" \/ (doc[n].event = "empty" /\ doc[n].tag # "property")
  BY DEF Reading, PassOther, Event
<1>3. parsed' = parsed /\ stack' = stack /\ openProps' = openProps /\ inValue' = inValue
  BY DEF PassOther
<1>4. /\ ~IsObject(doc, n) /\ ~IsProperty(doc, n) /\ ~Is(doc, n, "text", "text")
      /\ ~IsTarget(doc, n) /\ ~Is(doc, n, "end", "property")
      /\ ~IsValue(doc, n) /\ ~Is(doc, n, "end", "value")
  BY <1>2 DEF IsObject, IsProperty, IsTarget, IsChildren, IsValue, Is
<1>5. ParsedIs(doc, n, parsed') /\ RefsAre(doc, n, parsed')
  BY <1>1, <1>3, <1>4, ParsedOn DEF SoFar
<1>6. StackIs(doc, n + 1, stack')
  BY <1>1, <1>2, <1>3, StackSame DEF SoFar
<1>7. ValueIs(doc, n + 1, inValue')
  BY <1>1, <1>3, <1>4, ValueNext DEF SoFar
<1>8. OpenPropsAre(doc, n + 1, openProps')
  BY <1>1, <1>3, <1>4, PropsSame DEF SoFar
<1>9. (n + 1) - 1 = n
  BY <1>1, GrammarFacts
<1> QED BY <1>5, <1>6, <1>7, <1>8, <1>9 DEF SoFar

\* The invariant: the document is of the grammar, and all is right so far.
RdoInv ==
    /\ Grammatical(events)
    /\ pos \in 0 .. Len(events)
    /\ Regular(events, Parents(events)) => SoFar(events, pos + 1)

\* Before the first event nothing is open and nothing found.
LEMMA RdoStarts ==
  ASSUME DocumentsGrammatical, ParserInit
  PROVE  RdoInv
<1>1. /\ events \in Documents /\ pos = 0 /\ parsed = <<>> /\ stack = <<>> /\ openProps = <<>> /\ inValue = FALSE
  BY DEF ParserInit
<1>2. Grammatical(events)
  BY <1>1 DEF DocumentsGrammatical
<1>3. Len(events) \in Nat
  BY <1>2, GrammarFacts
<1>4. Open(events, 1) = {} /\ ParentOf(events, 1) = 0
  BY NestedFirst
<1>5. ObjectsAround(events, 1) = {} /\ Targets(events, 1) = {} /\ ~IsValue(events, ParentOf(events, 1))
  BY <1>4 DEF ObjectsAround, Targets, IsValue, Is
<1>6. IsSeq(<<>>)
  <2>1. <<>> \in Seq({})
    OBVIOUS
  <2> QED BY <2>1, SeqIsSeq
<1>7. StackIs(events, 1, stack)
  BY <1>1, <1>5, <1>6, HoldsNone DEF StackIs
<1>8. OpenPropsAre(events, 1, openProps)
  <2>1. Holds(<<>>, {}, PlaceOf(events))
    BY HoldsNone
  <2> QED BY <2>1, <1>1, <1>5, <1>6 DEF OpenPropsAre
<1>9. ValueIs(events, 1, inValue)
  BY <1>1, <1>5 DEF ValueIs
<1>10. ObjectNo(events, 0) = 0
  <2>1. {i \in 1 .. 0 : Is(events, i, "start", "object")} = {}
    OBVIOUS
  <2> QED BY <2>1, FS_EmptySet DEF ObjectNo
<1>11. ParsedIs(events, 0, parsed) /\ RefsAre(events, 0, parsed)
  BY <1>1, <1>6, <1>10 DEF ParsedIs, RefsAre
<1>12. SoFar(events, pos + 1)
  <2>1. pos + 1 = 1 /\ (pos + 1) - 1 = 0
    BY <1>1
  <2> QED BY <2>1, <1>7, <1>8, <1>9, <1>11 DEF SoFar
<1> QED BY <1>1, <1>2, <1>3, <1>12 DEF RdoInv

\* Every step keeps the invariant.
LEMMA RdoStepKeeps ==
  ASSUME RdoInv, [ParserNext]_parserVars
  PROVE  RdoInv'
<1>1. CASE UNCHANGED parserVars
  BY <1>1 DEF RdoInv, parserVars, SoFar
<1>2. CASE ParserNext
  <2>1. Grammatical(events) /\ pos \in 0 .. Len(events) /\ Len(events) \in Nat
    BY GrammarFacts DEF RdoInv
  <2>2. pos < Len(events) /\ Read
    BY <1>2 DEF ParserNext, OpenObject, CloseObject, OpenProperty, PassProperty, EmptyProperty, CloseProperty,
                OpenValue, ReadText, CloseValue, PassOther, Reads
  <2>3. events' = events /\ pos' = pos + 1 /\ pos + 1 \in 1 .. Len(events)
    BY <2>1, <2>2 DEF Read
  <2>4. PICK doc, n : doc = events /\ n = pos + 1
    OBVIOUS
  <2>5. n \in 1 .. Len(doc)
    BY <2>3, <2>4
  <2>6. ASSUME Regular(doc, Parents(doc))
        PROVE  SoFar(doc, n + 1)'
    <3>1. Reading(doc, n)
      BY <2>1, <2>4, <2>6 DEF Reading, RdoInv
    <3>2. CASE OpenObject
      BY <3>1, <3>2, <2>5, OpenObjectReads
    <3>3. CASE CloseObject
      BY <3>1, <3>3, <2>5, CloseObjectReads
    <3>4. CASE OpenProperty
      BY <3>1, <3>4, <2>5, OpenPropertyReads
    <3>5. CASE PassProperty
      BY <3>1, <3>5, <2>5, PassPropertyReads
    <3>6. CASE EmptyProperty
      BY <3>1, <3>6, <2>5, EmptyPropertyReads
    <3>7. CASE CloseProperty
      BY <3>1, <3>7, <2>5, ClosePropertyReads
    <3>8. CASE OpenValue \/ CloseValue
      BY <3>1, <3>8, <2>5, ValueReads
    <3>9. CASE ReadText
      BY <3>1, <3>9, <2>5, ReadTextReads
    <3>10. CASE PassOther
      BY <3>1, <3>10, <2>5, PassOtherReads
    <3> QED BY <3>2, <3>3, <3>4, <3>5, <3>6, <3>7, <3>8, <3>9, <3>10, <1>2 DEF ParserNext
  <2>7. doc = events' /\ n + 1 = (pos + 1)' /\ pos' \in 0 .. Len(events')
    BY <2>1, <2>2, <2>3, <2>4
  <2>8. Grammatical(events)' /\ (Regular(events, Parents(events))' => SoFar(events, pos + 1)')
    BY <2>1, <2>3, <2>4, <2>6, <2>7 DEF SoFar
  <2> QED BY <2>7, <2>8 DEF RdoInv
<1> QED BY <1>1, <1>2

\* At the end of a document the references found are those listed in it.
LEMMA RdoFinds == RdoInv => ChildrenAsListed
<1> SUFFICES ASSUME RdoInv, ParserDone, Regular(events, Parents(events)),
                    NEW n \in DOMAIN events, IsChildren(events, n), Is(events, Parents(events)[n], "start", "object")
             PROVE  InOrder(parsed[ObjectNo(events, Parents(events)[n])].props[PropertyNo(events, Parents(events), n)][2].v,
                            events, Listed(events, Parents(events), n))
  BY DEF ChildrenAsListed, ReferencesAsListed
<1> DEFINE L == Len(events)
           parent == Parents(events)
<1>1. Grammatical(events)
  BY DEF RdoInv
<1>2. /\ L \in Nat /\ DOMAIN events = 1 .. L
      /\ \A i \in 1 .. L : parent[i] = ParentOf(events, i) /\ ParentOf(events, i) \in 0 .. i - 1
  BY <1>1, GrammarFacts
<1> HIDE DEF L, parent
<1>3. pos = L /\ (pos + 1) - 1 = L
  BY <1>2 DEF ParserDone, L
<1>4. RefsAre(events, L, parsed)
  BY <1>3 DEF RdoInv, SoFar, parent
<1>5. IsTarget(events, n) /\ n \in 1 .. L
  BY <1>2 DEF IsTarget, IsObject, parent
<1>6. PICK ids : /\ InOrder(ids, events, TextsOf(events, n) \cap 1 .. L)
                 /\ parsed[ObjectNo(events, ParentOf(events, n))].props[PropNo(events, n)]
                      = <<events[n].name, Children(ids)>>
  BY <1>4, <1>5 DEF RefsAre
<1>7. PropertyNo(events, parent, n) = PropNo(events, n) /\ parent[n] = ParentOf(events, n)
  <2>1. {i \in 1 .. n : IsProperty(events, i) /\ parent[i] = parent[n]}
          = {i \in 1 .. n : IsProperty(events, i) /\ ParentOf(events, i) = ParentOf(events, n)}
    BY <1>2, <1>5
  <2> QED BY <2>1, <1>2, <1>5 DEF PropertyNo, PropNo
<1>8. Listed(events, parent, n) = TextsOf(events, n) \cap 1 .. L
  <2>1. ASSUME NEW i \in 1 .. L, IsValue(events, ParentOf(events, i))
        PROVE  parent[ParentOf(events, i)] = ParentOf(events, ParentOf(events, i))
    <3>1. ParentOf(events, i) # 0
      BY <2>1 DEF IsValue, Is
    <3>2. ParentOf(events, i) \in 1 .. L
      BY <3>1, <1>2
    <3> QED BY <3>2, <1>2
  <2> QED BY <2>1, <1>2 DEF Listed, TextsOf, IsValue
<1>9. <<events[n].name, Children(ids)>>[2].v = ids
  BY DEF Children
<1> QED BY <1>6, <1>7, <1>8, <1>9 DEF parent

(***************************************************************************)
(* A list of references has what its element lists, in that order, in      *)
(* every document of the grammar in which no property is opened but named  *)
(* lists of objects, or in which lists come before the objects nested with *)
(* them (rdo.rs:260-350).  Other documents of the grammar can lose         *)
(* references: ReferencesWhereListed does not hold of them.                *)
(***************************************************************************)
THEOREM ReferencesAreAsListed ==
  ASSUME DocumentsGrammatical
  PROVE  ParserSpec => []ChildrenAsListed
<1>1. ParserInit => RdoInv
  BY RdoStarts
<1>2. RdoInv /\ [ParserNext]_parserVars => RdoInv'
  BY RdoStepKeeps
<1> QED BY <1>1, <1>2, RdoFinds, PTL DEF ParserSpec

=============================================================================
