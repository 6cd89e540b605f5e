----------------------------- MODULE JsonBinary -----------------------------
(***************************************************************************)
(* A document is written in a binary format, and what was written is read: *)
(* all of it, or as much as was there when it was cut off.                 *)
(***************************************************************************)
EXTENDS JsonBinaryReader

CONSTANTS
    Binaries,   \* <<value, options>> that may be written; options are
                \* [format, tags, count, type, bjdata, draft3]
    Cuts(_)     \* where a document of a length may be cut off

VARIABLES
    stored,    \* the document, or <<>>
    options,
    written,   \* what was written of it
    result,    \* what was read of it
    phase      \* "idle", "throws", "written", and "whole" or "part" once it is read

binaryVars == <<stored, options, written, result, phase>>

BinaryIdle ==
    stored = <<>> /\ options = <<>> /\ written = <<>> /\ result = Fail /\ phase = "idle"
WrittenInit ==
    \E b \in Binaries :
        /\ stored = b[1] /\ options = b[2] /\ result = Fail
        /\ LET throws == WriteThrows(b[1], b[2]) IN
           /\ phase = IF throws THEN "throws" ELSE "written"
           /\ written = IF throws THEN <<>> ELSE Encoded(b[1], b[2])

ReadBinary ==
    /\ phase = "written"
    /\ \E n \in Cuts(Len(written)) \cup {Len(written)} :
        /\ written' = SubSeq(written, 1, n)
        /\ result' = Decode(SubSeq(written, 1, n), options)
        /\ phase' = IF n = Len(written) THEN "whole" ELSE "part"
    /\ UNCHANGED <<stored, options>>

-----------------------------------------------------------------------------
\* The value a document is read as: what the format cannot tell apart is gone.
SubtypeKept(subtype, o) ==
    CASE o.format = "bson" -> IF subtype = <<>> THEN Filled(<<0>>, 0) ELSE Filled(Low(subtype, 1), 0)
      [] subtype = <<>> \/ o.tags = "ignore" \/ o.format = "ubjson" -> <<>>
      [] o.format = "msgpack" -> Filled(Low(subtype, 1), 0)
      [] OTHER -> subtype
IsNumberList(b, o) == o.format = "ubjson" /\ ~(o.bjdata /\ o.draft3 /\ o.type)
RECURSIVE ReadAs(_, _)
ReadAs(value, o) ==
    CASE value[1] \in {"integer", "unsigned"} ->
           <<IF IsNegativeInteger(value) THEN "integer" ELSE "unsigned", value[2]>>
      [] value[1] = "binary" ->
           IF IsNumberList(value[2], o)
           THEN <<"array", [i \in DOMAIN value[2].bytes |-> Unsigned(<<value[2].bytes[i]>>)]>>
           ELSE <<"binary", [value[2] EXCEPT !.subtype = SubtypeKept(@, o)]>>
      [] value[1] = "array" -> <<"array", [i \in DOMAIN value[2] |-> ReadAs(value[2][i], o)]>>
      [] value[1] = "object" -> <<"object", [k \in DOMAIN value[2] |-> ReadAs(value[2][k], o)]>>
      [] OTHER -> value
\* A number that is not negative compares equal whether it is signed or not.
RECURSIVE Normal(_)
Normal(value) ==
    CASE value[1] = "integer" /\ ~IsNegativeInteger(value) -> <<"unsigned", value[2]>>
      [] value[1] = "array" -> <<"array", [i \in DOMAIN value[2] |-> Normal(value[2][i])]>>
      [] value[1] = "object" -> <<"object", [k \in DOMAIN value[2] |-> Normal(value[2][k])]>>
      [] OTHER -> value
RECURSIVE HasTag(_)
HasTag(value) ==
    CASE value[1] = "binary" -> value[2].subtype # <<>>
      [] value[1] = "array" -> \E i \in DOMAIN value[2] : HasTag(value[2][i])
      [] value[1] = "object" -> \E k \in DOMAIN value[2] : HasTag(value[2][k])
      [] OTHER -> FALSE

\* Whatever format a document is written in, it is read as the value it was, up to what
\* the format cannot say, unless it holds a tag and tags are errors; nothing is read of
\* one that was cut off.  The size at the head of a BSON document, computed before it is
\* written, is its length.
BinaryIsRead ==
    /\ phase = "whole" =>
           IF options.format = "cbor" /\ options.tags = "error" /\ HasTag(stored) THEN ~result.ok
           ELSE result.ok /\ Normal(result.value) = ReadAs(stored, options)
    /\ phase = "part" => ~result.ok
    /\ phase = "whole" /\ options.format = "bson" => ToInt(Reverse(SubSeq(written, 1, 4))) = Len(written)

=============================================================================
