---------------------------- MODULE RgdCommands ----------------------------
(***************************************************************************)
(* The commands on game data: patch-rgd-cstring, patch-rgd-f32, decode-rgd *)
(* (crates/sga-archiver-cli/src/machine.rs) and the burning of attribute   *)
(* sources, run by several processes on one file system.  Each reads its   *)
(* input, works in memory, looks whether its output is there, creates the  *)
(* output and writes it, and may die in between; what it writes is the     *)
(* input of the next.                                                      *)
(***************************************************************************)
EXTENDS AttribXml

CONSTANTS
    Processes,
    Paths,
    NoFile,         \* what a path without a file holds
    Sources,        \* the files the input may be to begin with
    Base,           \* where it is
    Commands,       \* by process: [op, input, output, ...]
    XmlDocuments    \* the attribute documents, by name

VARIABLES
    files,          \* the bytes at each path
    proc,           \* what each process is doing
    docs            \* auxiliary: the document in each file, for the refinement below

rgdVars == <<files, proc, docs>>

Idle == [at |-> "idle"]
Patches(c) == c.op \in {"cstring", "f32"}

ASSUME RgdAssumption ==
    /\ Base \in Paths
    /\ \A p \in Processes : \A c \in Commands[p] : {c.input, c.output} \subseteq Paths
    \* no two processes are given one output
    /\ \A p, q \in Processes : \A c \in Commands[p], d \in Commands[q] : c.output = d.output => p = q

-----------------------------------------------------------------------------
(* What a command makes of its input *)

\* game_data_to_xml, by its content.
Xml(nodes) == Field("xml", nodes)

\* The bytes a command is to write, none where it ends with an error: a patch
\* is dropped unless it replaced as many values as it was told to expect.
Outcome(c, bytes) ==
    CASE Patches(c) ->
           Then(PatchBytes(bytes, c), LAMBDA patched :
             IF patched.count # c.expected THEN Unreadable ELSE Got(patched.bytes))
      [] c.op = "decode" ->
           Then(ReadChunky(bytes), LAMBDA chunks : Then(ParseRgd(chunks), LAMBDA nodes : Got(Xml(nodes))))
      [] c.op = "burn" ->
           Then(CompileAttrib(XmlDocuments[c.document]), LAMBDA nodes : Got(WriteRgd(nodes)))

-----------------------------------------------------------------------------
(* The document a file holds *)

RECURSIVE PathsOf(_)
PathsOf(nodes) ==
    UNION {{<<i>>} \cup {<<i>> \o path : path \in IF IsList(nodes[i]) THEN PathsOf(nodes[i].value) ELSE {}} :
           i \in DOMAIN nodes}

RECURSIVE NodeAt(_, _)
NodeAt(nodes, path) ==
    IF Len(path) = 1 THEN nodes[path[1]] ELSE NodeAt(nodes[path[1]].value, Tail(path))

\* The document of a list of nodes: its leaves, a list counting as empty.
Leaves(nodes) ==
    [path \in PathsOf(nodes) |->
       LET node == NodeAt(nodes, path) IN IF IsList(node) THEN [node EXCEPT !.value = <<>>] ELSE node]

\* The document in the bytes at a path, none if no single list can be read.
DocumentIn(bytes) ==
    IF bytes = NoFile THEN NoFile
    ELSE LET document == Then(ReadChunky(bytes), LAMBDA chunks :
                           IF Len(Named(chunks, "AEGD")) # 1 THEN Unreadable
                           ELSE Then(ReadList(Named(chunks, "AEGD")[1].chunk.body, 4),
                                     LAMBDA nodes : Got(Leaves(nodes))))
         IN IF document.ok THEN document.value ELSE NoFile

-----------------------------------------------------------------------------
(* Steps *)

RgdInit ==
    /\ \E source \in Sources : files = [path \in Paths |-> IF path = Base THEN source ELSE NoFile]
    /\ docs = [path \in Paths |-> DocumentIn(files[path])]
    /\ proc = [p \in Processes |-> Idle]

\* The file at path now holds these bytes.
Put(path, bytes) ==
    /\ files' = [files EXCEPT ![path] = bytes]
    /\ docs' = [docs EXCEPT ![path] = DocumentIn(bytes)]

Become(p, state) == proc' = [proc EXCEPT ![p] = state]

\* The command reads its input and works on it; input and output are different
\* paths.  decode-rgd looks for its output before it reads, the others after;
\* a burned file stands for one that extract-member then takes out of its archive.
ReadInput(p, c) ==
    /\ proc[p] = Idle
    /\ c.input # c.output
    /\ c.op = "burn" \/ files[c.input] # NoFile
    /\ c.op = "decode" => files[c.output] = NoFile
    /\ LET outcome == Outcome(c, files[c.input])
       IN /\ outcome.ok
          /\ Become(p, [at |-> IF c.op = "decode" THEN "create" ELSE "check", command |-> c, source |-> files[c.input],
                        result |-> outcome.value])
    /\ UNCHANGED <<files, docs>>

\* write_patched refuses an output that is there.
OutputFree(p) ==
    /\ proc[p].at = "check"
    /\ files[proc[p].command.output] = NoFile
    /\ Become(p, [proc[p] EXCEPT !.at = "create"])
    /\ UNCHANGED <<files, docs>>

\* Where a file that is being written may break off with whole chunks in it.
Cuts(bytes) ==
    {0} \cup {n \in {FileHeaderLen} \cup {d.pos + Len(d.chunk.body) : d \in
                         IF ReadChunky(bytes).ok THEN Range(DataChunksOf(ReadChunky(bytes).value)) ELSE {}} :
              n < Len(bytes)}

\* fs::write creates the file and fills it; until it has ended, the file holds
\* a prefix of what it will hold.
CreateOutput(p) ==
    /\ proc[p].at = "create"
    /\ \E n \in Cuts(proc[p].result) : Put(proc[p].command.output, Bytes(proc[p].result, 0, n))
    /\ Become(p, [proc[p] EXCEPT !.at = "write"])

WriteOutput(p) ==
    /\ proc[p].at = "write"
    /\ Put(proc[p].command.output, proc[p].result)
    /\ Become(p, Idle)

\* The command ends with an error, or the process is killed; what it has
\* written stays.
Die(p) ==
    /\ proc[p] # Idle
    /\ Become(p, Idle)
    /\ UNCHANGED <<files, docs>>

RgdNext ==
    \E p \in Processes :
        \/ \E c \in Commands[p] : ReadInput(p, c)
        \/ OutputFree(p)
        \/ CreateOutput(p)
        \/ WriteOutput(p)
        \/ Die(p)

RgdSpec == RgdInit /\ [][RgdNext]_rgdVars

-----------------------------------------------------------------------------
(* Properties *)

\* The process has worked out what it is to write.
Patching(p) == proc[p].at = "check" /\ Patches(proc[p].command)
Burning(p) == proc[p].at = "check" /\ proc[p].command.op = "burn"

AegdOf(bytes) == Named(ReadChunky(bytes).value, "AEGD")[1].chunk.body

\* What a patch writes can be read and patched again: its container and its
\* node list encode to the very bytes they were read from, the CRC is that of
\* the list, and the positions computed for its chunks are where their bodies
\* lie (rgd_patch.rs, patch_bytes and patch_aegd; container.rs, data_chunks).
PatchedReadsAgain ==
    \A p \in Processes : Patching(p) =>
        LET bytes == proc[p].result
            chunky == ReadChunky(bytes)
            list == ReadList(AegdOf(bytes), 4)
        IN /\ chunky.ok
           /\ WriteChunky(chunky.value) = bytes
           /\ list.ok
           /\ AegdBytes(list.value) = AegdOf(bytes)
           /\ \A d \in Range(DataChunksOf(chunky.value)) :
                Bytes(bytes, d.pos, Len(d.chunk.body)) = d.chunk.body

\* A tree of chunks with nothing in its AEGD chunks.
RECURSIVE Blanked(_)
Blanked(chunks) ==
    [i \in DOMAIN chunks |->
       [chunks[i] EXCEPT !.body = CASE chunks[i].kind = "FOLD" -> Blanked(@)
                                    [] chunks[i].name = "AEGD" -> <<>>
                                    [] OTHER -> @]]

\* "a patched file differs from its source only in the values that were asked
\* to change (and the CRC that covers them)" (rgd_patch.rs:12-16): source and
\* result have the one AEGD chunk, at whatever depth; outside it, the folders,
\* paths, names and bytes of every chunk stay, in their order, and not a byte
\* between or after them is lost or added.
OnlyAegdChanges ==
    \A p \in Processes : Patching(p) =>
        LET was == proc[p].source
            is == proc[p].result
        IN /\ \A bytes \in {was, is} : Len(Named(ReadChunky(bytes).value, "AEGD")) = 1
           /\ Blanked(ReadChunky(is).value) = Blanked(ReadChunky(was).value)
           /\ Len(is) - Len(AegdOf(is)) = Len(was) - Len(AegdOf(was))

\* Where the values of the list at position q lie, each with the alignment of
\* its type, and the same of the lists among them.
RECURSIVE Spots(_, _)
Spots(body, q) ==
    LET nodes == ReadList(body, q).value
        start == q + 4 + 16 * Len(nodes)
        from(i) == start + At(body, q + 16 * i)
        own == [i \in DOMAIN nodes |-> [from |-> from(i), to |-> from(i) + Len(ValueBytes(nodes[i])),
                                        align |-> Align(nodes[i].type)]]
    IN {own} \cup UNION {Spots(body, from(i)) : i \in {j \in DOMAIN nodes : IsList(nodes[j])}}

\* Whatever the lengths of the values that were replaced, in a patched list
\* every value lies on its alignment, after the one before it, and with less
\* than four bytes between them (rgd_patch.rs, write_raw_list).
ValuesInPlace ==
    \A p \in Processes : Patching(p) =>
        LET body == AegdOf(proc[p].result)
        IN \A own \in Spots(body, 4) : \A i \in DOMAIN own :
             /\ own[i].from % own[i].align = 0
             /\ own[i].to <= Len(body)
             /\ i > 1 => (own[i].from >= own[i - 1].to /\ own[i].from < own[i - 1].to + 4)

Back(c) == [c EXCEPT !.old = c.new, !.new = c.old]

\* A patch to a value that was not there before can be taken back: patching
\* the new value to the old one gives the source's bytes again, however its
\* list was laid out (rgd_patch.rs:12-16).  A source whose CRC was wrong gets
\* the right one.
PatchesUndo ==
    \A p \in Processes : Patching(p) =>
        LET c == proc[p].command
            body == AegdOf(proc[p].source)
            alone == Replacements(ReadList(body, 4).value, Back(c)) = 0
        IN (alone /\ At(body, 0) = SubSeq(body, 5, Len(body))) =>
               PatchBytes(proc[p].result, Back(c)).value.bytes = proc[p].source

\* got is the tree of nodes with each of its lists in the order of the hashes,
\* nodes of one key in the order they had.
RECURSIVE SameInHashOrder(_, _)
SameInHashOrder(got, nodes) ==
    LET under(list, key) == SelectSeq(list, LAMBDA n : n.key = key)
        keys == {nodes[i].key : i \in DOMAIN nodes}
    IN /\ Len(got) = Len(nodes)
       /\ \A i \in 2 .. Len(got) : HashOf[got[i - 1].key] <= HashOf[got[i].key]
       /\ \A key \in keys :
            /\ Len(under(got, key)) = Len(under(nodes, key))
            /\ \A i \in DOMAIN under(nodes, key) :
                 LET a == under(got, key)[i]
                     b == under(nodes, key)[i]
                 IN /\ a.type = b.type
                    /\ IF IsList(b) THEN SameInHashOrder(a.value, b.value) ELSE a.value = b.value

\* Reader and writer of game data are inverses (tests/rgd.rs:189-194): what is
\* burned from an attribute document decodes to the document's nodes, in the
\* order of their hashes and under their keys, and encodes to the same bytes
\* again; a document that breaks off before its root is closed burns nothing.
BurnedReadsBack ==
    \A p \in Processes : Burning(p) =>
            LET events == XmlDocuments[proc[p].command.document]
                count(event) == Len(SelectSeq(events, LAMBDA e : e.event = event))
                read == ParseRgd(ReadChunky(proc[p].result).value)
            IN /\ count("start") = count("end")
               /\ read.ok
               /\ SameInHashOrder(read.value, CompileAttrib(events).value)
               /\ WriteRgd(read.value) = proc[p].result

-----------------------------------------------------------------------------
(* Refinement *)

Store == INSTANCE ValueStore WITH
    Names <- Paths,
    None <- NoFile,
    Edits <- {c \in UNION {Commands[p] : p \in Processes} : Patches(c)},
    Compiled <- {Leaves(Hashed(CompileAttrib(XmlDocuments[d]).value)) :
                   d \in {e \in DOMAIN XmlDocuments : CompileAttrib(XmlDocuments[e]).ok}}

\* Files, chunks, indexes and offsets are one way to keep documents: every
\* step of every command, its death half-way included, leaves all documents as
\* they are or puts one with exactly the values asked for where none was
\* (rgd_patch.rs, patch_cstrings and patch_f32s; machine.rs, write_patched).
ImplementsValueStore == Store!Spec

=============================================================================
