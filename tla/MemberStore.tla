---------------------------- MODULE MemberStore ----------------------------
(***************************************************************************)
(* What an editing session on an archive promises its caller, whatever the *)
(* tables look like: the archive is a map from members to contents and a   *)
(* list of its TOCs, an upsert sets one member and touches no other, a     *)
(* removal takes exactly the members asked for, and nothing else changes   *)
(* the map.                                                                *)
(*                                                                         *)
(* A member is a TOC alias and a case-folded path (a sequence of keys).    *)
(***************************************************************************)
EXTENDS Integers, Sequences

CONSTANTS
  DefaultAlias,   \* the TOC an archive without TOCs gets
  Data, Bases,
  Puts,           \* the members callers name by TOC and path
  Paths,          \* the paths callers name without a TOC
  Removals

VARIABLES
  members,        \* members to contents
  order           \* the aliases of the TOCs, in their order

vars == <<members, order>>

Member(alias, path) == [alias |-> alias, path |-> path]

Init == \E b \in Bases : members = b.members /\ order = b.order

\* A TOC that is not there yet comes last.
WithAlias(aliases, alias) ==
  IF \E i \in DOMAIN aliases : aliases[i] = alias THEN aliases ELSE Append(aliases, alias)

Put(alias, path, d) ==
  LET m == Member(alias, path)
  IN  /\ members' = [x \in DOMAIN members \cup {m} |-> IF x = m THEN d ELSE members[x]]
      /\ order' = WithAlias(order, alias)

\* An upsert that names no TOC overwrites the member of that path in the first
\* TOC that holds one; a new member goes into the first TOC.
PutAnywhere(path, d) ==
  \/ \E i \in DOMAIN order :
       /\ Member(order[i], path) \in DOMAIN members
       /\ \A j \in DOMAIN order : j < i => Member(order[j], path) \notin DOMAIN members
       /\ Put(order[i], path, d)
  \/ /\ \A m \in DOMAIN members : m.path # path
     /\ Put(IF order = <<>> THEN DefaultAlias ELSE order[1], path, d)

\* The members whose last component is in K go.
Remove(K) ==
  /\ members' = [x \in {m \in DOMAIN members : m.path[Len(m.path)] \notin K} |->
                   members[x]]
  /\ UNCHANGED order

Next ==
  \/ \E m \in Puts, d \in Data : Put(m.alias, m.path, d)
  \/ \E path \in Paths, d \in Data : PutAnywhere(path, d)
  \/ \E K \in Removals : Remove(K)

Spec == Init /\ [][Next]_vars

=============================================================================
