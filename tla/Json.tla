-------------------------------- MODULE Json --------------------------------
(***************************************************************************)
(* Reading and writing JSON: a text that is delivered byte by byte is      *)
(* parsed, a document is dumped and what was written is parsed, or a       *)
(* document is written in a binary format and read again.                  *)
(***************************************************************************)
EXTENDS JsonText, JsonBinary

CONSTANTS
    Dumps,      \* <<value, option>> that may be dumped; options are [indent, ascii, handler]
    DocBytes    \* the bytes of their strings

VARIABLES
    doc,     \* the document that was dumped, or <<>>
    option

vars == <<parseVars, doc, option, binaryVars>>

ParseText ==
    /\ doc = <<>> /\ option = <<>> /\ BinaryIdle
    /\ \E in \in Inputs : ParseInit(in, <<>>, "parsing")
DumpDocument ==
    /\ BinaryIdle
    /\ \E d \in Dumps :
        /\ doc = d[1] /\ option = d[2]
        /\ LET dump == Dump(d[1], d[2]) IN
           IF dump.throws THEN ParseInit(<<>>, <<>>, "throws")
                          ELSE ParseInit(<<>>, dump.text, "parsing")
WriteDocument ==
    /\ doc = <<>> /\ option = <<>> /\ ParseInit(<<>>, <<>>, "idle")
    /\ WrittenInit

Init == ParseText \/ DumpDocument \/ WriteDocument

Next ==
    \/ ParseStep /\ UNCHANGED <<doc, option, binaryVars>>
    \/ ReadBinary /\ UNCHANGED <<parseVars, doc, option>>

Spec == Init /\ [][Next]_vars

-----------------------------------------------------------------------------
\* The value at an address.
RECURSIVE Tree(_, _)
Tree(mem, at) ==
    LET v == mem[at] IN
    CASE v[1] = "array" -> <<"array", [i \in DOMAIN v[2] |-> Tree(mem, v[2][i])]>>
      [] v[1] = "object" -> <<"object", [k \in DOMAIN v[2] |-> Tree(mem, v[2][k])]>>
      [] OTHER -> v

Valid == [in \in Inputs |-> JsonTexts(in)]
ValidPrefixes == [in \in Inputs |-> UNION {{SubSeq(t[1], 1, n) : n \in 0..Len(t[1])} : t \in Valid[in]}]
ValidTexts == [in \in Inputs |-> {t[1] : t \in Valid[in]}]

\* The parser accepts the texts of RFC 8259 and builds their values, whatever vectors
\* and maps did while it kept pointers into them; what it refuses has no continuation
\* that is one.
ParserAcceptsJson ==
    input # <<>> =>
        /\ outcome = "accepted" => <<text, Tree(memory, 1)>> \in Valid[input]
        /\ outcome \in {"101", "406"} =>
               text \notin IF ended THEN ValidTexts[input] ELSE ValidPrefixes[input]

DocCharacters == {c : c \in CharactersOver(DocBytes)}
RECURSIVE StringsOf(_)
StringsOf(value) ==   \* the strings of a document, names included
    CASE value[1] = "string" -> {value[2]}
      [] value[1] = "array" -> UNION {StringsOf(value[2][i]) : i \in DOMAIN value[2]}
      [] value[1] = "object" -> DOMAIN value[2] \cup UNION {StringsOf(value[2][k]) : k \in DOMAIN value[2]}
      [] OTHER -> {}

RECURSIVE Expected(_, _)
Expected(value, o) ==
    LET replacement == IF o.handler = "replace" THEN <<239, 191, 189>> ELSE <<>>
        Mended(s) == Repaired(s, DocCharacters, replacement)
    IN  CASE value[1] = "string" -> <<"string", Mended(value[2])>>
          [] value[1] \in {"integer", "unsigned"} ->
               <<IF value[2] < 0 THEN "integer" ELSE "unsigned", value[2]>>
          [] value[1] = "float" -> IF value[2].bits = Infinity THEN <<"null", 0>> ELSE value
          [] value[1] = "array" -> <<"array", [i \in DOMAIN value[2] |-> Expected(value[2][i], o)]>>
          [] value[1] = "object" ->
               <<"object", ObjectOf([i \in DOMAIN Keys(value[2]) |->
                    <<Mended(Keys(value[2])[i]), Expected(value[2][Keys(value[2])[i]], o)>>])>>
          [] OTHER -> value

\* What dump writes parse reads: the same value, with what is not finite null and each
\* ill-formed part of a string ignored or replaced, as the handler says.  Only the strict
\* one throws, and only over such a string.
DumpIsRead ==
    doc # <<>> /\ outcome # "parsing" =>
        LET illFormed == \E s \in StringsOf(doc) : ~WellFormed(s, DocCharacters) IN
        /\ outcome = "throws" <=> (option.handler = "strict" /\ illFormed)
        /\ outcome \notin {"101", "406"}
        /\ outcome = "accepted" => Tree(memory, 1) = Expected(doc, option)

=============================================================================
