-------------------------- MODULE ArchiveMembers --------------------------
(***************************************************************************)
(* An archive seen from outside, as the map from members to contents and   *)
(* the list of TOCs that MemberStore speaks of: a member is a listed file, *)
(* by TOC and folded path, and its content is that of the first entry      *)
(* listed under it.                                                        *)
(***************************************************************************)
EXTENDS ArchiveEdits

FoldPath(p, key) == [i \in 1 .. Len(p) + 1 |-> IF i > Len(p) THEN key ELSE p[i].key]

MemberAt(ts, s) ==
  [alias |-> ts[s.toc].alias,
   path  |-> FoldPath(s.path, ts[s.toc].tree[s.path].files[s.file].name.key)]

SlotsOf(ts) ==
  UNION {UNION {{[toc |-> i, path |-> p, file |-> k] :
                   k \in DOMAIN ts[i].tree[p].files} :
                p \in DOMAIN ts[i].tree} :
         i \in DOMAIN ts}

MembersOf(ts) ==
  [m \in {MemberAt(ts, s) : s \in SlotsOf(ts)} |->
     LET s == CHOOSE s \in SlotsOf(ts) :
                /\ MemberAt(ts, s) = m
                /\ \A r \in SlotsOf(ts) : MemberAt(ts, r) = m => s.file <= r.file
     IN  ts[s.toc].tree[s.path].files[s.file].data]

\* The folded path of what a caller hands in.
FoldRel(rel) == [i \in DOMAIN rel |-> rel[i].key]

AliasesOf(ts) == [i \in DOMAIN ts |-> ts[i].alias]

Store == INSTANCE MemberStore WITH
  members  <- MembersOf(tocs),
  order    <- AliasesOf(tocs),
  Bases    <- {[members |-> MembersOf(b), order |-> AliasesOf(b)] : b \in Bases},
  Puts     <- {[alias |-> to.alias, path |-> FoldRel(to.rel)] : to \in Targets},
  Paths    <- {FoldRel(rel) : rel \in StoredRels},
  Removals <- Predicates

\* No two TOCs of an archive to start from share an alias.
BasesApart == \A b \in Bases : \A i, j \in DOMAIN b : b[i].alias = b[j].alias => i = j

\* Seen as a map, the archive changes as MemberStore says: an upsert sets one
\* member, where the caller names no TOC that of the first TOC to hold the path
\* (archive.rs, upsert_stored); a removal takes the members asked for; re-packing,
\* sorting and pruning (even a re-packing that fails half way) lose and change
\* nothing.
ImplementsMemberStore == Store!Spec

=============================================================================
