------------------------------- MODULE MCJson -------------------------------
(* Instances of Json for TLC. *)
EXTENDS Json

In(bytes, length, chars, digits) ==
    [bytes |-> bytes, length |-> length, chars |-> chars, digits |-> digits]
\* The bytes: [ ] , 1
Lists == In({91, 93, 44, 49}, 9, 0, 1)
\* { } " : , 1 a
Objects == In({123, 125, 34, 58, 44, 49, 97}, 13, 1, 1)
\* [ ] { } " : , 1 space
Nested == In({91, 93, 123, 125, 34, 58, 44, 49, 32}, 7, 0, 1)
\* - + . e 0 1 8
Floating == In({45, 43, 46, 101, 48, 49, 56}, 6, 0, 6)
Integers1 == In({45} \cup Digits, 3, 0, 3)
\* " \ u d 8 c 0
CodeUnits == In({34, 92, 117, 100, 56, 99, 48}, 14, 1, 1)
\* " \ / b f n r t and control characters
Escaping == In({34, 92, 47, 98, 102, 110, 114, 116, 31, 127, 10}, 6, 2, 0)
\* " and the limits of the bytes of UTF-8
Limits == {127, 128, 143, 144, 159, 160, 191, 192, 193, 194, 223, 224, 225, 236, 237, 238, 239,
           240, 241, 243, 244, 245, 255}
Characters == In(Limits \cup {34}, 6, 1, 0)
\* true, null, false, NUL, a blank and a byte order mark
Literal == In({116, 114, 117, 101, 110, 108, 102, 97, 115, 0, 32, 239, 187, 191}, 8, 0, 0)
MCInputs == {Lists, Objects, Nested, Floating, Integers1, CodeUnits, Escaping, Characters, Literal}
MCMinExp == -6
MCAlpha == -10
MCGamma == -6
MCMinDec == -4

Option(indent, ascii, handler) == [indent |-> indent, ascii |-> ascii, handler |-> handler]
Compact == Option(-1, FALSE, "strict")
StringOptions == [indent : {-1}, ascii : BOOLEAN, handler : {"strict", "replace", "ignore"}]
Strings(bytes, n) == {<<"string", s>> : s \in UNION {[1..i -> bytes] : i \in 0..n}}
\* A control character, DEL, a quote and sequences of two to four bytes and their pieces.
MCDocBytes == {31, 34, 97, 127, 144, 160, 195, 226, 237, 240}
Long == {97, 144, 240}
StringDumps == (Strings(MCDocBytes, 3) \cup Strings(Long, 5)) \X StringOptions
NumberDumps ==
    ({<<"integer", n>> : n \in -64..63} \cup {<<"unsigned", n>> : n \in 0..127}
     \cup {<<"float", [negative |-> b, bits |-> x]>> : b \in BOOLEAN, x \in Floats}) \X {Compact}
Leaves == {<<"null", 0>>, <<"boolean", 1>>, <<"integer", -64>>, <<"string", <<34>>>>}
Containers(values) ==
    {<<"array", a>> : a \in UNION {[1..n -> values] : n \in 0..2}}
    \cup {<<"object", m>> : m \in UNION {[K -> values] : K \in SUBSET {<<>>, <<97>>}}}
\* Two names that become one when they are mended.
Twins == {<<"object", (<<240>> :> <<"null", 0>>) @@ (<<195>> :> <<"boolean", 1>>)>>}
ContainerDumps ==
    (Containers(Leaves) \cup Containers({<<"null", 0>>} \cup Containers({<<"boolean", 0>>}))
     \cup {<<"array", a>> : a \in [1..5 -> {<<"null", 0>>, <<"array", <<>>>>}]})
        \X {Compact, Option(2, TRUE, "strict")}
MCDumps == StringDumps \cup NumberDumps \cup ContainerDumps \cup (Twins \X StringOptions)

-----------------------------------------------------------------------------
(* Documents of the binary formats, at the limits of their lengths.        *)
Nought(n) == [i \in 1..n |-> 0]
Null == <<"null", 0>>
One == <<"float", <<63, 240, 0, 0, 0, 0, 0, 0>>>>
Huge64 == <<"unsigned", <<255>> \o Nought(7)>>
\* Around the limits of one, two, four and eight bytes.
Edges ==
    {Bytes(n, 8) : n \in {0, 1, 15, 16, 23, 24, 31, 32, 127, 128, 255, 256, 32767, 32768, 65535, 65536}}
    \cup {Nought(4) \o b \o <<255, 255, 255>> : b \in {<<127>>, <<255>>}}
    \cup {Nought(4) \o <<128, 0, 0, 0>>, Nought(3) \o <<1>> \o Nought(4)}
    \cup {b \o [i \in 1..7 |-> 255] : b \in {<<127>>, <<255>>}} \cup {<<128>> \o Nought(7)}
BinaryIntegers ==
    LET positive == {v \in Edges : v[1] < 128} IN
    {<<"unsigned", v>> : v \in Edges} \cup {<<"integer", v>> : v \in positive}
    \cup {<<"integer", Complement(v)>> : v \in positive} \cup {<<"integer", <<128>> \o Nought(7)>>}
\* Exact as singles, just not, subnormal, largest, infinite and no number at all.
BinaryFloats ==
    {<<"float", <<s + p[1], p[2], p[3], 0, p[4], p[5], 0, p[6]>>>> : s \in {0, 128},
        p \in {<<0, 0, 0, 0, 0, 0>>, <<63, 240, 0, 0, 0, 0>>, <<63, 240, 1, 32, 0, 0>>, <<63, 240, 1, 16, 0, 0>>,
               <<63, 240, 0, 0, 0, 1>>, <<71, 224, 0, 0, 0, 0>>, <<71, 240, 0, 0, 0, 0>>, <<56, 16, 0, 0, 0, 0>>,
               <<56, 0, 0, 0, 0, 0>>, <<56, 8, 0, 0, 0, 0>>, <<54, 160, 0, 0, 0, 0>>, <<54, 168, 0, 0, 0, 0>>,
               <<54, 144, 0, 0, 0, 0>>, <<127, 240, 0, 0, 0, 0>>, <<0, 0, 0, 0, 0, 1>>, <<0, 16, 0, 0, 0, 0>>,
               <<127, 224, 0, 0, 0, 0>>}}
    \cup {<<"float", <<127, 248>> \o Nought(6)>>}
As(n) == [i \in 1..n |-> 97]
BinaryStrings ==
    {<<"string", As(n)>> : n \in {0, 1, 2, 4, 8, 15, 16, 17, 23, 24, 31, 32, 127, 128, 255, 256}}
Subtypes == {<<>>} \cup {Bytes(n, 8) : n \in {0, 5, 255, 256, 65536}} \cup {Nought(3) \o <<1>> \o Nought(4)}
ByteArrays ==
    {<<"binary", [bytes |-> As(n), subtype |-> t]>> : n \in {0, 1, 2, 3, 4, 8, 16, 17, 24, 256}, t \in Subtypes}
TwoLetters(n) == {<<97 + (i \div 16), 97 + (i % 16)>> : i \in 1..n}
LongContainers ==
    {<<"array", [i \in 1..n |-> v]>> : n \in {0, 1, 15, 16, 23, 24, 256}, v \in {Null, <<"unsigned", Bytes(1, 8)>>}}
    \cup {<<"object", [k \in TwoLetters(n) |-> Null]>> : n \in {0, 1, 15, 16, 24}}
\* Values of every kind, some of which have a common type and some not.
Few == {Null, <<"boolean", 1>>, <<"unsigned", Bytes(200, 8)>>, Huge64, One}
Mixed ==
    Few \cup {<<"boolean", 0>>, <<"integer", Complement(Nought(8))>>, <<"string", <<78>>>>,
              <<"binary", [bytes |-> <<7>>, subtype |-> <<>>]>>, <<"binary", [bytes |-> <<>>, subtype |-> Bytes(3, 8)]>>}
Inner == {<<"array", <<>>>>, <<"array", <<Null>>>>, <<"object", <<>>>>, <<"object", <<78>> :> <<"boolean", 1>>>>, Null}
ShortContainers ==
    {<<"array", <<v>>>> : v \in Mixed} \cup {<<"array", <<v, w>>>> : v \in Mixed, w \in Few}
    \cup {<<"object", m>> : m \in UNION {[K -> Few] : K \in SUBSET {<<>>, <<78>>}}}
    \cup {<<"array", a>> : a \in [1..2 -> Inner]}
    \cup {<<"object", m>> : m \in [{<<97>>, <<0>>} -> Inner]}   \* a name with a zero byte

Format(format, tags, c, b) ==
    [format |-> format, tags |-> tags, count |-> c[1], type |-> c[2], bjdata |-> b[1], draft3 |-> b[2]]
No == <<FALSE, FALSE>>
Steps == {No, <<TRUE, FALSE>>, <<TRUE, TRUE>>}
Formats ==
    {Format(f, "store", No, No) : f \in {"msgpack", "bson"}} \cup {Format("cbor", t, No, No) : t \in {"error", "ignore", "store"}}
    \cup {Format("ubjson", "store", c, b) : c \in Steps, b \in Steps}
Documents ==
    BinaryIntegers \cup BinaryFloats \cup BinaryStrings \cup ByteArrays \cup LongContainers \cup ShortContainers
InObject(v) == IF v[1] = "object" THEN v ELSE <<"object", <<97>> :> v>>
\* The lengths of two bytes and of four only in a few formats.
MCBinaries ==
    {<<IF o.format = "bson" THEN InObject(d) ELSE d, o>> : d \in Documents, o \in Formats}
    \cup {<<<<"string", As(n)>>, o>> : n \in {40000, 65536},
              o \in {f \in Formats : f.format \in {"msgpack", "ubjson"} /\ ~f.count /\ ~f.draft3}}
\* A document is cut off near its ends.
MCCuts(n) == IF n < 300 THEN {k \in 0..n : k <= 12 \/ k >= n - 12} ELSE {3, n - 1}
=============================================================================
