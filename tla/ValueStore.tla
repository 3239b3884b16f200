----------------------------- MODULE ValueStore -----------------------------
(***************************************************************************)
(* What patching game data promises, with no files, chunks or offsets in   *)
(* it.  Every name holds a document or none, a document gives a leaf to    *)
(* every path of the tree, and the only thing that ever happens is that a  *)
(* name without a document receives one: that of another name in which     *)
(* every leaf an edit means has the new value, or one that was compiled.   *)
(***************************************************************************)
CONSTANTS
    Names,      \* where documents are kept
    None,       \* nothing readable is kept there
    Edits,      \* what may be asked: [op, old, new], with hash for floats
    Compiled    \* the documents a source compiles to

VARIABLE docs

Means(edit, leaf) ==
    /\ leaf.value = edit.old
    /\ \/ edit.op = "cstring" /\ leaf.type = 3
       \/ edit.op = "f32" /\ leaf.type = 0 /\ leaf.hash = edit.hash

Edited(doc, edit) ==
    [path \in DOMAIN doc |->
       IF doc[path].type \in {0, 3} /\ Means(edit, doc[path]) THEN [doc[path] EXCEPT !.value = edit.new]
       ELSE doc[path]]

Init == DOMAIN docs = Names

Appears(to) ==
    /\ docs[to] = None
    /\ docs'[to] # None
    /\ \A name \in Names \ {to} : docs'[name] = docs[name]

Substitute(to) ==
    /\ Appears(to)
    /\ \E doc \in {docs[from] : from \in Names \ {to}} \ {None} :
         docs'[to] \in {Edited(doc, edit) : edit \in Edits}

Compile(to) == Appears(to) /\ docs'[to] \in Compiled

Next == \E to \in Names : Substitute(to) \/ Compile(to)

Spec == Init /\ [][Next]_docs

=============================================================================
