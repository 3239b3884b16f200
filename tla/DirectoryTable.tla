-------------------------- MODULE DirectoryTable --------------------------
(***************************************************************************)
(* One folder's directory table: the list of its files, or of its child    *)
(* folders, as crates/sga/src/archive.rs keeps it in memory.  The game     *)
(* searches such a table by name, so a table is useful only while it is    *)
(* sorted by the case-folded name and holds a folded name once.            *)
(*                                                                         *)
(* A table is a sequence of records that carry a `name'.  This module has  *)
(* no variables: ArchiveTree applies its operators to every folder of an   *)
(* archive.                                                                *)
(***************************************************************************)
EXTENDS Integers, Sequences, FiniteSets, SequencesExt

CONSTANT Keys       \* the case-folded spellings, numbered in folded order

ASSUME KeysAssumption == Keys \subseteq Nat

(***************************************************************************)
(* A name is its folded spelling and whether it is stored with capitals.   *)
(* Two names are equal as strings iff the records are; the order of the    *)
(* tables looks at the key only.                                           *)
(***************************************************************************)
Names == [key : Keys, cased : BOOLEAN]

Lower(name) == [name EXCEPT !.cased = FALSE]

IsLower(name) == ~ name.cased

(***************************************************************************)
(* Enumerate(K, R) lists the finite set K in the strict total order R (a   *)
(* set of pairs): the k-th entry is the one that has k-1 others before it. *)
(***************************************************************************)
Enumerate(K, R) ==
  [k \in 1 .. Cardinality(K) |->
     CHOOSE i \in K : Cardinality({j \in K : <<j, i>> \in R}) = k - 1]

(***************************************************************************)
(* The places partition_point may return for a name with this key: the end *)
(* of the entries that sort before it.  The library promises nothing when  *)
(* the table is not partitioned by the test, so any place may come back.   *)
(***************************************************************************)
Splits(table, key) ==
  {at \in 0 .. Len(table) :
     /\ \A i \in 1 .. at : table[i].name.key < key
     /\ \A i \in at + 1 .. Len(table) : table[i].name.key >= key}

PartitionPoints(table, key) ==
  IF Splits(table, key) # {} THEN Splits(table, key) ELSE 0 .. Len(table)

\* The index of the first entry stored under exactly this name, 0 if none.
Position(table, name) == SelectInSeq(table, LAMBDA entry : entry.name = name)

\* Mutants of the next operator: a new entry pushed at the end, and one put in
\* without looking for the entry it replaces.
InsertOrReplaceAtEnd(table, entry) ==
  LET i == Position(table, entry.name)
  IN  {IF i # 0 THEN [table EXCEPT ![i] = entry] ELSE Append(table, entry)}

InsertAlways(table, entry) ==
  {InsertAt(table, at + 1, entry) : at \in PartitionPoints(table, entry.name.key)}

(***************************************************************************)
(* insert_or_replace below its descent: an entry of exactly that name is   *)
(* replaced where it stands, otherwise the entry goes in at the partition  *)
(* point.  The set of the tables that may result.                          *)
(***************************************************************************)
InsertOrReplace(table, entry) ==
  LET i == Position(table, entry.name)
  IN  IF i # 0
      THEN {[table EXCEPT ![i] = entry]}
      ELSE {InsertAt(table, at + 1, entry) :
              at \in PartitionPoints(table, entry.name.key)}

\* The indices of a table by folded name, equal ones as they stand.
NameOrder(table) ==
  {p \in (1 .. Len(table)) \X (1 .. Len(table)) :
     \/ table[p[1]].name.key < table[p[2]].name.key
     \/ table[p[1]].name.key = table[p[2]].name.key /\ p[1] < p[2]}

\* The stable sort of a table by its folded names.
SortTable(table) ==
  LET order == Enumerate(1 .. Len(table), NameOrder(table))
  IN  [k \in 1 .. Len(table) |-> table[order[k]]]

\* Vec::retain: the entries at the indices K, in their order.
Retain(table, K) ==
  LET order == Enumerate(K, {p \in K \X K : p[1] < p[2]})
  IN  [k \in 1 .. Cardinality(K) |-> table[order[k]]]

(***************************************************************************)
(* What the game needs of a table.                                         *)
(***************************************************************************)
Sorted(table) ==
  \A i, j \in DOMAIN table : i <= j => table[i].name.key <= table[j].name.key

UniquelyNamed(table) ==
  \A i, j \in DOMAIN table : table[i].name.key = table[j].name.key => i = j

AllLower(table) == \A i \in DOMAIN table : IsLower(table[i].name)

=============================================================================
