----------------------------- MODULE RdoParser -----------------------------
(***************************************************************************)
(* Reading a .rdo document (crates/relic-chunky/src/rdo.rs, parse_rdo):    *)
(* one step for every event of the XML reader.                             *)
(*                                                                         *)
(* An event is [event, tag, ...]: event "start", "empty", "end" or "text". *)
(* A DataObject has its id, its type and its owner (0 where the attribute  *)
(* is missing), a DataProperty its name, its type and the value of its     *)
(* attributes, where a field name or value that is not there is a missing  *)
(* attribute; a text is a number.  The reader checks that ends match their *)
(* starts, not that a document ends where its root does.                   *)
(***************************************************************************)
EXTENDS Integers, Sequences, FiniteSets, FiniteSetsExt, SequencesExt

CONSTANT Documents      \* the documents that may be read

VARIABLES
    events,             \* the document
    pos,                \* how many of its events were read
    parsed,             \* objects of parse_rdo
    stack,              \* the objects that are open
    openProps,          \* open_props: object and property, as positions
    inValue             \* in_data_value

parserVars == <<events, pos, parsed, stack, openProps, inValue>>

Children(ids) == [is |-> "children", v |-> ids]

ParserInit ==
    /\ events \in Documents
    /\ pos = 0
    /\ parsed = <<>>
    /\ stack = <<>>
    /\ openProps = <<>>
    /\ inValue = FALSE

-----------------------------------------------------------------------------
(* The arms of the loop *)

Event == events[pos + 1]
Reads(event, tag) == pos < Len(events) /\ Event.event = event /\ Event.tag = tag
Read == pos' = pos + 1 /\ UNCHANGED events

Current == Last(stack)
AddProp(value) == parsed' = [parsed EXCEPT ![Current].props = Append(@, <<Event.name, value>>)]

OpenObject ==
    /\ Reads("start", "object")
    /\ Read
    /\ parsed' = Append(parsed, [id |-> Event.id, type |-> Event.type, owner |-> Event.owner, props |-> <<>>])
    /\ stack' = Append(stack, Len(parsed) + 1)
    /\ UNCHANGED <<openProps, inValue>>

\* Attributes that are there.
HasNameAttr(event) == "name" \in DOMAIN event
HasValueAttr(event) == "value" \in DOMAIN event

\* An opening DataProperty counts if it holds objects, an object is open and it
\* has a name.
OpensChildren == Event.type = "Object" /\ stack # <<>> /\ HasNameAttr(Event)

OpenProperty ==
    /\ Reads("start", "property")
    /\ OpensChildren
    /\ Read
    /\ AddProp(Children(<<>>))
    /\ openProps' = Append(openProps, [obj |-> Current, prop |-> Len(parsed[Current].props) + 1])
    /\ UNCHANGED <<stack, inValue>>

PassProperty ==
    /\ Reads("start", "property")
    /\ ~OpensChildren
    /\ Read
    /\ UNCHANGED <<parsed, stack, openProps, inValue>>

\* A DataProperty without content counts if it has a name, and a value where it
\* holds no objects.
Kept(event) == HasNameAttr(event) /\ (event.type = "Object" \/ HasValueAttr(event))

\* A DataProperty without content, within an object or outside all of them.
EmptyProperty ==
    /\ Reads("empty", "property")
    /\ Read
    /\ IF stack = <<>> \/ ~Kept(Event) THEN UNCHANGED parsed
       ELSE AddProp(IF Event.type = "Object" THEN Children(<<>>) ELSE Event.value)
    /\ UNCHANGED <<stack, openProps, inValue>>

OpenValue ==
    /\ Reads("start", "value")
    /\ Read
    /\ inValue' = TRUE
    /\ UNCHANGED <<parsed, stack, openProps>>

\* The text of a DataValue goes to the property opened last.
ReadText ==
    /\ Reads("text", "text")
    /\ Read
    /\ IF inValue /\ openProps # <<>>
       THEN LET at == Last(openProps)
            IN parsed' = [parsed EXCEPT ![at.obj].props[at.prop][2].v = Append(@, Event.id)]
       ELSE UNCHANGED parsed
    /\ UNCHANGED <<stack, openProps, inValue>>

CloseValue ==
    /\ Reads("end", "value")
    /\ Read
    /\ inValue' = FALSE
    /\ UNCHANGED <<parsed, stack, openProps>>

\* pop() of an empty vector does nothing.
Popped(s) == IF s = <<>> THEN s ELSE Front(s)

CloseObject ==
    /\ Reads("end", "object")
    /\ Read
    /\ stack' = Popped(stack)
    /\ UNCHANGED <<parsed, openProps, inValue>>

\* Mutant of the next action: an end leaves the property open.
CloseNothing ==
    /\ Reads("end", "property")
    /\ Read
    /\ UNCHANGED <<parsed, stack, openProps, inValue>>

\* Every end of a DataProperty pops, whatever its start did.
CloseProperty ==
    /\ Reads("end", "property")
    /\ Read
    /\ openProps' = Popped(openProps)
    /\ UNCHANGED <<parsed, stack, inValue>>

\* Anything else: the DataWarehouse around the objects, a DataObject without content.
PassOther ==
    /\ pos < Len(events)
    /\ Event.tag = "other" \/ (Event.event = "empty" /\ Event.tag # "property")
    /\ Read
    /\ UNCHANGED <<parsed, stack, openProps, inValue>>

ParserNext ==
    \/ OpenObject \/ CloseObject
    \/ OpenProperty \/ PassProperty \/ EmptyProperty \/ CloseProperty
    \/ OpenValue \/ ReadText \/ CloseValue
    \/ PassOther

ParserDone == pos = Len(events)

ParserSpec == ParserInit /\ [][ParserNext]_parserVars

-----------------------------------------------------------------------------
(* Properties *)

Is(doc, n, event, tag) == n # 0 /\ doc[n].event = event /\ doc[n].tag = tag
IsChildren(doc, n) == Is(doc, n, "start", "property") /\ doc[n].type = "Object" /\ HasNameAttr(doc[n])
IsProperty(doc, n) == IsChildren(doc, n) \/ (Is(doc, n, "empty", "property") /\ Kept(doc[n]))

\* In how many elements an event is; the start and the end of an element are
\* not in it and in it.
Depth(doc, n) ==
    LET before(event) == Cardinality({i \in 1 .. n - 1 : doc[i].event = event})
    IN before("start") - before("end")

\* For every event, the start of the element it is in, 0 outside of all.
Parents(doc) ==
    LET depth == [n \in DOMAIN doc |-> Depth(doc, n)] \o <<>>
    IN [n \in DOMAIN doc |-> Max({0} \cup {i \in 1 .. n - 1 : doc[i].event = "start"
                                                            /\ depth[i] = depth[n] - 1})] \o <<>>

\* The documents whose references cannot go astray: either no property is opened
\* but named lists of objects, as the decompiler writes them, or every list of
\* references comes before the objects that are nested with it.
Regular(doc, parent) ==
    \/ \A n \in DOMAIN doc : Is(doc, n, "start", "property") => IsChildren(doc, n)
    \/ \A n \in DOMAIN doc : Is(doc, n, "start", "value") => \A i \in parent[n] .. n : ~Is(doc, i, "start", "object")

\* The texts of the values of a property.
Listed(doc, parent, n) ==
    {i \in DOMAIN doc : Is(doc, i, "text", "text") /\ Is(doc, parent[i], "start", "value") /\ parent[parent[i]] = n}

InOrder(ids, doc, texts) ==
    /\ Len(ids) = Cardinality(texts)
    /\ \A i \in texts : ids[Cardinality({j \in texts : j <= i})] = doc[i].id

\* Which object an element begins, and which property of its object.
ObjectNo(doc, n) == Cardinality({i \in 1 .. n : Is(doc, i, "start", "object")})
PropertyNo(doc, parent, n) == Cardinality({i \in 1 .. n : IsProperty(doc, i) /\ parent[i] = parent[n]})

\* Every property has the references its own element lists, in their order.
ReferencesAsListed(doc, parent) ==
    \A n \in {i \in DOMAIN doc : IsChildren(doc, i) /\ Is(doc, parent[i], "start", "object")} :
        InOrder(parsed[ObjectNo(doc, parent[n])].props[PropertyNo(doc, parent, n)][2].v, doc, Listed(doc, parent, n))

\* In a regular document a property has the references its own element lists, in
\* their order, however deep the objects between them are nested (rdo.rs,
\* parse_rdo: open_props is pushed by some starts and popped by every end).
ChildrenAsListed ==
    LET parent == Parents(events)
    IN ParserDone /\ Regular(events, parent) => ReferencesAsListed(events, parent)

\* "<DataValue> lines are the authoritative child references (and child order)"
\* (rdo.rs, the comment on parse_rdo): of whatever document.  It does not hold:
\* the end of a property that is no list, in an object nested in a list, closes
\* the list, and what the list says behind it is lost.
ReferencesWhereListed == ParserDone => ReferencesAsListed(events, Parents(events))

\* The documents the theorem about this property is for.  Ends are those of the
\* elements they are in, as the reader checks; values have no elements in them
\* and are in properties that hold objects and belong to one; and a property is
\* in an object, in the element around all objects or in none.
Grammatical(doc) ==
    LET parent == Parents(doc)
    IN /\ doc \in Seq(Range(doc))
       /\ \A n \in DOMAIN doc :
            /\ doc[n].event = "end" => parent[n] # 0 /\ doc[n].tag = doc[parent[n]].tag
            /\ doc[n].event = "start" => ~Is(doc, parent[n], "start", "value")
            /\ Is(doc, n, "start", "value") =>
                  IsChildren(doc, parent[n]) /\ Is(doc, parent[parent[n]], "start", "object")
            /\ doc[n].event # "end" /\ doc[n].tag = "property" =>
                  parent[n] = 0 \/ Is(doc, parent[n], "start", "object") \/ parent[parent[n]] = 0

DocumentsGrammatical == \A doc \in Documents : Grammatical(doc)

=============================================================================
