----------------------------- MODULE AttribXml -----------------------------
(***************************************************************************)
(* Attribute sources (crates/relic-chunky/src/attrib.rs): the element tree *)
(* built from the events of the XML reader, and the game data nodes it is  *)
(* turned into.                                                            *)
(*                                                                         *)
(* An element is [tag, key, value, mod, children]: its name= as a key, its *)
(* value= and its mod= as sequences of characters, mod empty where there   *)
(* is none.  An event is [event, elem], with event "start", "empty" or     *)
(* "end"; the reader checks that ends match their starts, and a document   *)
(* may break off.                                                          *)
(***************************************************************************)
EXTENDS RgdList

CONSTANTS
    KeyOf,       \* the keys the compiler adds itself, by name
    Numbers      \* the characters that are a number, as an attribute spells it

-----------------------------------------------------------------------------
(* parse_tree *)

\* An element that is complete joins the innermost open one, or is the root;
\* a root that comes later takes the place of an earlier one.
Close(state, elem) ==
    IF state.open = <<>> THEN [state EXCEPT !.root = <<elem>>]
    ELSE [state EXCEPT !.open[Len(state.open)].children = Append(@, elem)]

OnEvent(state, e) ==
    CASE e.event = "start" -> [state EXCEPT !.open = Append(@, e.elem)]
      [] e.event = "empty" -> Close(state, e.elem)
      [] e.event = "end" -> Close([state EXCEPT !.open = Front(@)], Last(state.open))

\* At most one root; elements still open at the end of the input are dropped.
ParseTree(events) == FoldLeft(OnEvent, [open |-> <<>>, root |-> <<>>], events).root

-----------------------------------------------------------------------------
(* transform *)

IsNumber(chars) == Len(chars) = 1 /\ chars[1] \in Numbers

Node(type, key, value) == [type |-> type, key |-> key, value |-> value]

\* parse_bool, as the byte it is written as.
Truth(chars) == IF chars = <<"true">> THEN <<"1">> ELSE <<"0">>

\* The position of the last separator of a path, 0 if it has none.
LastSeparator(chars) == Max({0} \cup {i \in DOMAIN chars : chars[i] = "\\"})

RECURSIVE Transform(_)

\* Every child, or nothing at all if one of them is refused.
Children(elem) == Gathered([i \in DOMAIN elem.children |-> Transform(elem.children[i])])

ListNode(type, elem, first) ==
    Then(Children(elem), LAMBDA children : Got(Node(type, elem.key, first \o children)))

Number(type, elem) ==
    IF IsNumber(elem.value) THEN Got(Node(type, elem.key, elem.value)) ELSE Unreadable

Transform(elem) ==
    LET cut == LastSeparator(elem.value)
    IN CASE elem.tag \in {"group", "enum_table"} -> ListNode(ListType, elem, <<>>)
         [] elem.tag = "list" -> ListNode(List2Type, elem, <<>>)
         [] elem.tag = "template_reference" ->
              ListNode(ListType, elem, <<Node(CStringType, KeyOf["$REF"], elem.value)>>)
         [] elem.tag = "instance_reference" ->
              Got(Node(List2Type, elem.key,
                       <<Node(CStringType, KeyOf["$PBGNAME"], SubSeq(elem.value, cut + 1, Len(elem.value))),
                         Node(CStringType, KeyOf["$PBGMAP"], SubSeq(elem.value, 1, cut - 1))>>))
         [] elem.tag = "float" -> Number(FloatType, elem)
         [] elem.tag \in {"int", "uniqueid"} -> Number(IntType, elem)
         [] elem.tag = "bool" -> Got(Node(BooleanType, elem.key, Truth(elem.value)))
         [] elem.tag = "file" -> Got(Node(CStringType, elem.key, elem.value))
         [] elem.tag = "locstring" /\ elem.mod # <<>> ->
              Got(Node(LocStringType, elem.key, <<"$">> \o elem.mod \o <<":">> \o elem.value))
         [] elem.tag = "locstring" /\ elem.mod = <<>> -> Number(IntType, elem)
         [] OTHER -> Unreadable

\* compile_attrib, up to the encoding: the nodes of a <mod> or an <instance>
\* document.  A <mod> has its override_instances= as value and its guid= as mod,
\* and what it holds is not looked at.
CompileAttrib(events) ==
    LET tree == ParseTree(events)
        root == tree[1]
    IN CASE tree = <<>> -> Unreadable
         [] tree # <<>> /\ root.tag = "mod" ->
              Got(<<Node(BooleanType, KeyOf["override_instances"], Truth(root.value)),
                    Node(CStringType, KeyOf["id"], root.mod)>>)
         [] tree # <<>> /\ root.tag = "instance" ->
              Then(Children(root), LAMBDA children :
                Got(<<Node(ListType, KeyOf["default"], children),
                      Node(IntType, KeyOf["instance_version"], <<"2">>)>>))
         [] OTHER -> Unreadable

=============================================================================
