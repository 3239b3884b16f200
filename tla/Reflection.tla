----------------------------- MODULE Reflection -----------------------------
(***************************************************************************)
(* From .rdo to .bin and back (crates/relic-chunky/src/rdo.rs,             *)
(* reflect_write.rs, decompile.rs): a document is parsed, its objects are  *)
(* placed, the tables are built (compile_bin_from_schema); the file is     *)
(* decompiled, perhaps edited, and compiled again into itself              *)
(* (recompile_bin).                                                        *)
(***************************************************************************)
EXTENDS Decompile, RdoParser

CONSTANTS
    Edits,          \* what may be compiled into a file instead of its own document
    NoBin

VARIABLES
    phase,          \* "parse", "place" or "done"
    bin,            \* the compiled file
    edited          \* the document is not the one the file was decompiled to

reflectionVars == <<layoutVars, parserVars, phase, bin, edited>>

-----------------------------------------------------------------------------
(* Compiling *)

NothingPlaced ==
    /\ objects = <<>> /\ data = <<>> /\ next = 0 /\ order = <<>> /\ pointers = <<>>
    /\ interned = <<>> /\ frames = <<>> /\ status = "none" /\ pieces = <<>>

ReflectionInit ==
    /\ ParserInit
    /\ NothingPlaced
    /\ phase = "parse"
    /\ bin = NoBin
    /\ edited = FALSE

Parse ==
    /\ phase = "parse"
    /\ ParserNext
    /\ UNCHANGED <<layoutVars, phase, bin, edited>>

\* place_all; a document without a root, or with a root of no known type, ends
\* the compilation.
StartPlacing ==
    /\ phase = "parse"
    /\ ParserDone
    /\ Placeable(parsed)
    /\ phase' = "place"
    /\ objects' = parsed
    /\ data' = FirstData
    /\ next' = RootEnd(parsed)
    /\ frames' = FirstCall(parsed)
    /\ pieces' = <<[from |-> RfciPrefix, to |-> RootEnd(parsed)]>>
    /\ order' = <<>> /\ pointers' = <<>> /\ interned' = <<>> /\ status' = "placing"
    /\ UNCHANGED <<parserVars, bin, edited>>

Place ==
    /\ phase = "place"
    /\ LayoutNext
    /\ UNCHANGED <<parserVars, phase, bin, edited>>

\* compile_reflect_full makes every chunk; compile_reflect takes the file that
\* is there and replaces the blob, the table of objects and, if there are
\* interned strings, the table of those.
Full == [rfci |-> data, rfup |-> Rfup, rnew |-> Rnew, rshi |-> interned, robj |-> Robj]
Replaced == [bin EXCEPT !.rfci = data, !.robj = Robj, !.rshi = IF interned = <<>> THEN @ ELSE interned]

Finish ==
    /\ phase = "place"
    /\ status = "placed"
    /\ phase' = "done"
    /\ bin' = IF bin = NoBin THEN Full ELSE Replaced
    /\ UNCHANGED <<layoutVars, parserVars, edited>>

\* The file is decompiled; what is compiled into it is its own document or an
\* edited one.
Recompile ==
    /\ phase = "done"
    /\ \E doc \in {ToXml(ToRdoGraph(bin))} \cup Edits :
         /\ events' = doc
         /\ edited' = (doc # ToXml(ToRdoGraph(bin)))
    /\ pos' = 0 /\ parsed' = <<>> /\ stack' = <<>> /\ openProps' = <<>> /\ inValue' = FALSE
    /\ phase' = "parse"
    /\ UNCHANGED <<layoutVars, bin>>

ReflectionNext == Parse \/ StartPlacing \/ Place \/ Finish \/ Recompile

ReflectionSpec == ReflectionInit /\ [][ReflectionNext]_reflectionVars

-----------------------------------------------------------------------------
(* Properties *)

Done == phase = "done"

RefersTo(obj) == UNION {Range(p[2].v) : p \in {q \in Range(obj.props) : q[2].is = "children"}}

\* No id is given twice, every object but the root is listed by its owner, and
\* nothing else is listed.
WellOwned(objs) ==
    /\ \A i, j \in DOMAIN objs : objs[i].id = objs[j].id => i = j
    /\ \A o \in Range(objs) : o.owner = 0 \/ (\E owner \in Range(objs) : owner.id = o.owner /\ o.id \in RefersTo(owner))
    /\ \A o \in Range(objs) : \A id \in RefersTo(o) : \E child \in Range(objs) : child.id = id /\ child.owner = o.id

Default == [string |-> <<>>, children |-> <<>>, bytes |-> <<>>, scalar |-> 0, bool |-> FALSE]

\* Two objects say the same: enums by their hash, others by every field of
\* their type.
SameContent(a, b) ==
    LET names == {"m_value", "m_elements", "#Raw"}
                   \cup {f.name : f \in IF Known(a.type) THEN Range(Registry[a.type].fields) ELSE {}}
    IN /\ a.id = b.id /\ a.type = b.type /\ a.owner = b.owner
       /\ IF Classify(a.type) = "enum" THEN EnumHash(a) = EnumHash(b)
          ELSE \A name \in names : \A is \in DOMAIN Default :
                 Value(a, name, is, Default[is]) = Value(b, name, is, Default[is])

\* Decompiling gives back the graph that was compiled: every object, with its
\* owner and what it holds, is found from the offsets alone, although objects
\* begin at the place of what they are embedded in, arrays say only how many
\* elements they have, and a raw array looks like any other
\* (tests/decompile.rs:10-14; decompile.rs, child_at and array_elements).
DecompiledIsSource ==
    (Done /\ ~edited /\ WellOwned(parsed)) =>
        LET graph == ToRdoGraph(bin)
        IN /\ Len(graph) = Len(parsed)
           /\ \A o \in Range(parsed) : \E g \in Range(graph) : SameContent(o, g)

\* Decompiling a file and compiling what it gives changes no byte of the file
\* (reflect_write.rs, recompile_bin: "byte-identical to `reference_bin` when the
\* `.rdo` is unchanged"), whatever the document it was first made from listed
\* twice, left out or had in excess.
RecompiledIsSame == [][bin # NoBin /\ ~edited => bin' = bin]_reflectionVars

\* What compile_reflect takes over from the file it compiles into does not
\* depend on the document: "reusing the type schema and the invariant chunks
\* (`RFTY`, `RNEW`, ...) from `reference`" (reflect_write.rs:550-551).
ReusedAreInvariant == Done => bin.rfup = Rfup /\ bin.rnew = Rnew

=============================================================================
