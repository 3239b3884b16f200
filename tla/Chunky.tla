------------------------------- MODULE Chunky -------------------------------
(***************************************************************************)
(* The Relic Chunky container (crates/relic-chunky/src/container.rs): a    *)
(* file header and a tree of FOLD and DATA chunks, every one of them with  *)
(* the length of its body ahead of it.                                     *)
(*                                                                         *)
(* A file is a sequence of bytes, and position p of the code is element    *)
(* p + 1.  A byte is known by the field it belongs to: <<tag, i, v>> is    *)
(* byte i of a field of kind tag that holds v.  A read that does not fall  *)
(* on the first byte of a whole field of the kind it asks for fails (the   *)
(* code would read some other number there); files are put together from   *)
(* whole fields, and break off anywhere.                                   *)
(***************************************************************************)
EXTENDS Integers, Sequences, SequencesExt

-----------------------------------------------------------------------------
(* Fields *)

\* The width of each kind of field in bytes.
Width == [magic |-> 16, u16 |-> 2, id |-> 4, u32 |-> 4, u64 |-> 8,
          four |-> 4, crc |-> 4, byte |-> 1, unit |-> 2, key |-> 1, xml |-> 1]

Field(tag, v) == [i \in 1 .. Width[tag] |-> <<tag, i, v>>]

\* A whole field of kind tag begins at position p.
Holds(bytes, p, tag) ==
    /\ p >= 0
    /\ p + Width[tag] <= Len(bytes)
    /\ bytes[p + 1][1] = tag
    /\ bytes[p + 1][2] = 1

At(bytes, p) == bytes[p + 1][3]

\* What follows position p, n bytes of it.
Bytes(bytes, p, n) == SubSeq(bytes, p + 1, p + n)

\* The two outcomes of a read.
Got(v) == [ok |-> TRUE, value |-> v]
Unreadable == [ok |-> FALSE]

\* The `?` of the code: go on with the value of an outcome, unless it has none.
Then(outcome, Op(_)) == IF outcome.ok THEN Op(outcome.value) ELSE Unreadable

\* A sequence element by element; \o makes TLC work out every element once.
Each(Op(_), s) == [i \in DOMAIN s |-> Op(s[i])] \o <<>>

\* Outcomes one after the other, none of which may fail.
Gathered(outcomes) ==
    LET all == outcomes \o <<>>
    IN IF \E i \in DOMAIN all : ~all[i].ok THEN Unreadable
       ELSE Got([i \in DOMAIN all |-> all[i].value])

-----------------------------------------------------------------------------
(* Chunks: the body of a DATA chunk is its bytes, of a FOLD chunk its children *)

Data(name, body) == [kind |-> "DATA", name |-> name, path |-> <<>>, body |-> body]
Folder(path, children) == [kind |-> "FOLD", name |-> "FLDR", path |-> path, body |-> children]

FileHeaderLen == 24
ChunkHeaderFixed == 20

\* write_chunk: a folder's length is what its children take.
RECURSIVE ChunkBytes(_)
ChunkBytes(chunk) ==
    LET body == IF chunk.kind = "DATA" THEN chunk.body
                ELSE FlattenSeq(Each(ChunkBytes, chunk.body))
    IN Field("id", chunk.kind) \o Field("id", chunk.name) \o Field("u32", 1)
         \o Field("u32", Len(body)) \o Field("u32", Len(chunk.path)) \o chunk.path \o body

\* Chunky::write, for the one version and platform the tool writes.
FileHeader == Field("magic", "Relic Chunky") \o Field("u16", 4) \o Field("u16", 0) \o Field("u32", 1)

WriteChunky(chunks) ==
    FileHeader \o FlattenSeq(Each(ChunkBytes, chunks))

HeaderHolds(bytes, pos) ==
    /\ \A w \in {0, 4} : Holds(bytes, pos + w, "id")
    /\ \A w \in {8, 12, 16} : Holds(bytes, pos + w, "u32")

\* read_chunks: chunks are read while a header fits below the limit, so less
\* than a header's worth of bytes at the end of a folder or of the file is
\* passed over; a folder is read to its own length, which nothing holds
\* against its parent's.
RECURSIVE ReadChunks(_, _, _)
ReadChunks(bytes, pos, limit) ==
    LET kind == At(bytes, pos)
        length == At(bytes, pos + 12)
        pathLen == At(bytes, pos + 16)
        start == pos + ChunkHeaderFixed + pathLen
        body == CASE kind = "FOLD" -> ReadChunks(bytes, start, start + length)
                  [] kind = "DATA" /\ start + length <= Len(bytes) -> Got(Bytes(bytes, start, length))
                  [] OTHER -> Unreadable
        with(own, rest) == <<[kind |-> kind, name |-> At(bytes, pos + 4),
                              path |-> Bytes(bytes, pos + ChunkHeaderFixed, pathLen),
                              body |-> own]>> \o rest
    IN CASE pos + ChunkHeaderFixed > limit -> Got(<<>>)
         [] ~HeaderHolds(bytes, pos) -> Unreadable
         [] start > Len(bytes) -> Unreadable
         [] OTHER -> Then(body, LAMBDA own :
                       Then(ReadChunks(bytes, start + length, limit), LAMBDA rest : Got(with(own, rest))))

\* Chunky::read.
ReadChunky(bytes) ==
    IF Len(bytes) < FileHeaderLen \/ Bytes(bytes, 0, FileHeaderLen) # FileHeader THEN Unreadable
    ELSE ReadChunks(bytes, FileHeaderLen, Len(bytes))

-----------------------------------------------------------------------------
(* Positions *)

\* collect_data_chunks: every DATA chunk, depth first in file order, with the
\* position of its body as the sizes give it; pos is where the next chunk begins.
RECURSIVE Collect(_, _)
Collect(chunks, found) ==
    IF chunks = <<>> THEN found
    ELSE LET chunk == Head(chunks)
             body == found.pos + ChunkHeaderFixed + Len(chunk.path)
             after == IF chunk.kind = "DATA"
                      THEN [pos |-> body + Len(chunk.body),
                            out |-> Append(found.out, [chunk |-> chunk, pos |-> body])]
                      ELSE Collect(chunk.body, [found EXCEPT !.pos = body])
         IN Collect(Tail(chunks), after)

DataChunksOf(chunks) == Collect(chunks, [pos |-> FileHeaderLen, out |-> <<>>]).out

Named(chunks, name) == SelectSeq(DataChunksOf(chunks), LAMBDA d : d.chunk.name = name)

=============================================================================
