-------------------------- MODULE JsonBinaryWriter --------------------------
(***************************************************************************)
(* The binary formats of the JSON library, written: CBOR, MessagePack,     *)
(* UBJSON, BJData and BSON (binary_writer).  Here an integer is its eight  *)
(* bytes in two's complement, the first the highest, and a float the eight *)
(* bytes of a double; <<"binary", [bytes, subtype]>> has the subtype's     *)
(* eight bytes or none.  The annotated arrays of BJData are left out.      *)
(***************************************************************************)
EXTENDS JsonSerializer

Bytes(n, k) == [i \in 1..k |-> IF k - i > 3 THEN 0 ELSE (n \div 256^(k - i)) % 256]
Low(v, k) == SubSeq(v, 9 - k, 8)
Complement(v) == [i \in 1..8 |-> 255 - v[i]]   \* -1 - v
FitsUnsigned(v, k) == \A i \in 1..(8 - k) : v[i] = 0
FitsSignedLoose(v, k) == \A i \in 1..(8 - k) : v[i] \in {0, 255}   \* faulty: the limit of the unsigned
FitsSigned(v, k) == \A i \in 1..(8 - k) : v[i] = IF v[9 - k] >= 128 THEN 255 ELSE 0
Widths == {1, 2, 4, 8}
Log2 == (1 :> 0) @@ (2 :> 1) @@ (4 :> 2) @@ (8 :> 3)
UnsignedWidth(v, widths) == Min({k \in widths : FitsUnsigned(v, k)})
SignedWidth(v) == Min({k \in Widths : FitsSigned(v, k)})
IsNegativeInteger(value) == value[1] = "integer" /\ value[2][1] >= 128

\* write_number.
Ordered(bytes, little) == IF little THEN Reverse(bytes) ELSE bytes
Concatenated(parts) == FlattenSeq(parts)
Over(value, Text(_)) == [i \in DOMAIN value[2] |-> Text(value[2][i])]   \* an array's elements
OverKeys(value, Text(_, _)) ==                                           \* an object's members
    LET keys == Keys(value[2]) IN [i \in DOMAIN keys |-> Text(keys[i], value[2][keys[i]])]

-----------------------------------------------------------------------------
(* Floats.  A double is exact as a single if no digit is lost.             *)
Exponent(f) == (f[1] % 128) * 16 + f[2] \div 16
Upper(f) == (f[2] % 16) * 2^19 + f[3] * 2^11 + f[4] * 2^3 + f[5] \div 32
Rest(f) == f[5] % 32 = 0 /\ f[6] = 0 /\ f[7] = 0 /\ f[8] = 0
IsZero(f) == Exponent(f) = 0 /\ Upper(f) = 0 /\ Rest(f)
IsNaN(f) == Exponent(f) = 2047 /\ ~(Upper(f) = 0 /\ Rest(f))
IsInf(f) == Exponent(f) = 2047 /\ Upper(f) = 0 /\ Rest(f)
SingleExponent(f) == Exponent(f) - 896
IsExact(f) ==
    LET e == SingleExponent(f) IN
    \/ IsZero(f)
    \/ /\ Rest(f)
       /\ e \in 1..254 \/ (e \in -22..0 /\ (2^23 + Upper(f)) % 2^(1 - e) = 0)
Narrow(f) ==   \* static_cast<float>
    LET e == SingleExponent(f)
        bits == IF IsZero(f) THEN 0
                ELSE IF e > 254 THEN 255 * 2^23 + Upper(f)
                ELSE IF e > 0 THEN e * 2^23 + Upper(f)
                ELSE (2^23 + Upper(f)) \div 2^(1 - e)
    IN  [Bytes(bits, 4) EXCEPT ![1] = @ + 128 * (f[1] \div 128)]
\* write_compact_float.
CompactFloat(f, single, double) ==
    IF Exponent(f) = 2047 \/ IsExact(f) THEN <<single>> \o Narrow(f) ELSE <<double>> \o f

-----------------------------------------------------------------------------
(* write_cbor.                                                             *)
CborHead(base, v) ==
    LET k == UnsignedWidth(v, Widths) IN
    IF k = 1 /\ v[8] <= 23 THEN <<base + v[8]>> ELSE <<base + 24 + Log2[k]>> \o Low(v, k)
CborSize(base, s) == CborHead(base, Bytes(Len(s), 8))
CborString(s) == CborSize(96, s) \o s
CborFloat(f) ==
    CASE IsNaN(f) -> <<249, 126, 0>>
      [] IsInf(f) -> <<249, IF f[1] < 128 THEN 124 ELSE 252, 0>>
      [] OTHER -> CompactFloat(f, 250, 251)
CborBinary(b) ==
    LET k == UnsignedWidth(b.subtype, Widths)
        tag == IF b.subtype = <<>> THEN <<>> ELSE <<216 + Log2[k]>> \o Low(b.subtype, k)
    IN  tag \o CborSize(64, b.bytes) \o b.bytes

RECURSIVE WriteCbor(_)
WriteCbor(value) ==
    CASE value[1] = "null" -> <<246>>
      [] value[1] = "boolean" -> <<244 + value[2]>>
      [] value[1] \in {"integer", "unsigned"} ->
           IF IsNegativeInteger(value) THEN CborHead(32, Complement(value[2])) ELSE CborHead(0, value[2])
      [] value[1] = "float" -> CborFloat(value[2])
      [] value[1] = "string" -> CborString(value[2])
      [] value[1] = "binary" -> CborBinary(value[2])
      [] value[1] = "array" -> CborSize(128, value[2]) \o Concatenated(Over(value, WriteCbor))
      [] value[1] = "object" ->
           CborHead(160, Bytes(Cardinality(DOMAIN value[2]), 8))
           \o Concatenated(OverKeys(value, LAMBDA key, v : CborString(key) \o WriteCbor(v)))

-----------------------------------------------------------------------------
(* write_msgpack.                                                          *)
MsgpackInteger(value) ==
    LET v == value[2]
        k == UnsignedWidth(v, Widths)
        n == SignedWidth(v)
    IN  CASE IsNegativeInteger(value) -> IF n = 1 /\ v[8] >= 224 THEN <<v[8]>>
                                         ELSE <<208 + Log2[n]>> \o Low(v, n)
          [] ~IsNegativeInteger(value) -> IF k = 1 /\ v[8] < 128 THEN <<v[8]>>
                                          ELSE <<204 + Log2[k]>> \o Low(v, k)
\* A size of at most limit is part of the head; markers are those of the widths.
MsgpackSize(n, base, limit, markers) ==
    LET k == UnsignedWidth(Bytes(n, 8), DOMAIN markers) IN
    IF n <= limit THEN <<base + n>> ELSE <<markers[k]>> \o Bytes(n, k)
StrMarkers == (1 :> 217) @@ (2 :> 218) @@ (4 :> 219)
ArrayMarkers == (2 :> 220) @@ (4 :> 221)
MapMarkers == (2 :> 222) @@ (4 :> 223)
BinMarkers == (1 :> 196) @@ (2 :> 197) @@ (4 :> 198)
ExtMarkers == (1 :> 199) @@ (2 :> 200) @@ (4 :> 201)
FixExt == (1 :> 212) @@ (2 :> 213) @@ (4 :> 214) @@ (8 :> 215) @@ (16 :> 216)
MsgpackString(s) == MsgpackSize(Len(s), 160, 31, StrMarkers) \o s
MsgpackBinary(b) ==
    LET n == Len(b.bytes) IN
    (IF b.subtype = <<>> THEN MsgpackSize(n, 0, -1, BinMarkers)
     ELSE (IF n \in DOMAIN FixExt THEN <<FixExt[n]>> ELSE MsgpackSize(n, 0, -1, ExtMarkers))
          \o Low(b.subtype, 1))
    \o b.bytes

RECURSIVE WriteMsgpack(_)
WriteMsgpack(value) ==
    CASE value[1] = "null" -> <<192>>
      [] value[1] = "boolean" -> <<194 + value[2]>>
      [] value[1] \in {"integer", "unsigned"} -> MsgpackInteger(value)
      [] value[1] = "float" -> CompactFloat(value[2], 202, 203)
      [] value[1] = "string" -> MsgpackString(value[2])
      [] value[1] = "binary" -> MsgpackBinary(value[2])
      [] value[1] = "array" ->
           MsgpackSize(Len(value[2]), 144, 15, ArrayMarkers) \o Concatenated(Over(value, WriteMsgpack))
      [] value[1] = "object" ->
           MsgpackSize(Cardinality(DOMAIN value[2]), 128, 15, MapMarkers)
           \o Concatenated(OverKeys(value, LAMBDA key, v : MsgpackString(key) \o WriteMsgpack(v)))

-----------------------------------------------------------------------------
(* write_ubjson; o says whether counts and types are written, and whether  *)
(* for BJData and its third draft.                                         *)
Mark == [
    int8 |-> 105, uint8 |-> 85, int16 |-> 73, uint16 |-> 117, int32 |-> 108, uint32 |-> 109,
    int64 |-> 76, uint64 |-> 77, precise |-> 72, single |-> 100, double |-> 68, half |-> 104,
    string |-> 83, char |-> 67, byte |-> 66, true |-> 84, false |-> 70, null |-> 90, noop |-> 78,
    array |-> 91, endArray |-> 93, object |-> 123, endObject |-> 125, type |-> 36, count |-> 35]

\* The markers in the order in which they are tried, with width and sign.
Ladder == <<<<Mark.int8, 1, TRUE>>, <<Mark.uint8, 1, FALSE>>, <<Mark.int16, 2, TRUE>>, <<Mark.uint16, 2, FALSE>>,
            <<Mark.int32, 4, TRUE>>, <<Mark.uint32, 4, FALSE>>, <<Mark.int64, 8, TRUE>>, <<Mark.uint64, 8, FALSE>>>>
OnlyBjdata == {Mark.uint16, Mark.uint32, Mark.uint64}
Holds(rung, value) ==
    LET v == value[2] IN
    IF rung[3] THEN FitsSigned(v, rung[2]) /\ (value[1] = "unsigned" => v[1] < 128)
               ELSE FitsUnsigned(v, rung[2]) /\ (value[1] = "integer" => v[1] < 128)
Rung(value, o) ==
    LET rungs == {i \in 1..8 : Holds(Ladder[i], value) /\ (o.bjdata \/ Ladder[i][1] \notin OnlyBjdata)}
    IN  IF rungs = {} THEN <<Mark.precise, 0, FALSE>> ELSE Ladder[Min(rungs)]
UbjsonPrefix(value, o) ==
    CASE value[1] = "null" -> Mark.null
      [] value[1] = "boolean" -> IF value[2] = 1 THEN Mark.true ELSE Mark.false
      [] value[1] \in {"integer", "unsigned"} -> Rung(value, o)[1]
      [] value[1] = "float" -> Mark.double
      [] value[1] = "string" -> Mark.string
      [] value[1] \in {"array", "binary"} -> Mark.array
      [] value[1] = "object" -> Mark.object

\* The decimal digits of eight bytes: times 256 and plus a byte, from the last digit on.
Shifted(digits, b) ==
    LET Carry(acc, d) == [out |-> <<(d * 256 + acc.carry) % 10>> \o acc.out,
                          carry |-> (d * 256 + acc.carry) \div 10]
        r == FoldLeft(Carry, [out |-> <<>>, carry |-> b], Reverse(digits))
    IN  <<r.carry \div 100, (r.carry \div 10) % 10, r.carry % 10>> \o r.out
DecimalText(v) ==
    LET digits == FoldLeft(Shifted, <<>>, v)
        first == Min({i \in DOMAIN digits : digits[i] # 0})
    IN  [i \in 1..(Len(digits) - first + 1) |-> 48 + digits[first + i - 1]]
SizeOn(rung, n, o) == <<rung[1]>> \o Ordered(Bytes(n, rung[2]), o.bjdata)
SizeOf(n, o) == SizeOn(Rung(<<"unsigned", Bytes(n, 8)>>, o), n, o)
Sized(text, o) == SizeOf(Len(text), o) \o text
IntegerOn(rung, v, o) ==
    IF rung[1] = Mark.precise THEN Sized(DecimalText(v), o) ELSE Ordered(Low(v, rung[2]), o.bjdata)
UbjsonInteger(value, o) == IntegerOn(Rung(value, o), value[2], o)

\* The type that all the values of a container have, if it may stand in front.
NotOptimized == {Mark.array, Mark.object, Mark.string, Mark.precise, Mark.true, Mark.false, Mark.noop, Mark.null}
CommonType(prefixes, o) ==
    IF o.type /\ Cardinality(prefixes) = 1 /\ ~(o.bjdata /\ prefixes \subseteq NotOptimized)
    THEN prefixes ELSE {}
ContainerHead(type, n, o) ==
    (IF type = {} THEN <<>> ELSE <<Mark.type, CHOOSE t \in type : TRUE>>)
    \o IF o.count THEN <<Mark.count>> \o SizeOf(n, o) ELSE <<>>
ContainerTail(close, o) == IF o.count THEN <<>> ELSE <<close>>
UbjsonBinary(b, o) ==
    LET mark == IF o.draft3 THEN Mark.byte ELSE Mark.uint8
        type == IF o.type /\ (o.draft3 \/ b # <<>>) THEN {mark} ELSE {}
    IN  ContainerHead(type, Len(b), o)
        \o (IF o.type THEN b ELSE Concatenated([i \in DOMAIN b |-> <<mark, b[i]>>]))
        \o ContainerTail(Mark.endArray, o)

RECURSIVE WriteUbjson(_, _, _)
WriteUbjson(value, o, prefixed) ==
    LET Headed(type, Text(_)) ==   \* Text: whether the members have prefixes
            ContainerHead(type, Cardinality(DOMAIN value[2]), o) \o Text(type = {})
        Members(Text(_)) ==
            Headed(CommonType({UbjsonPrefix(value[2][k], o) : k \in DOMAIN value[2]}, o), Text)
        rest ==
            CASE value[1] \in {"null", "boolean"} -> <<>>
              [] value[1] \in {"integer", "unsigned"} -> UbjsonInteger(value, o)
              [] value[1] = "float" -> Ordered(value[2], o.bjdata)
              [] value[1] = "string" -> Sized(value[2], o)
              [] value[1] = "binary" -> UbjsonBinary(value[2].bytes, o)
              [] value[1] = "array" ->
                   Members(LAMBDA p : Concatenated(Over(value, LAMBDA v : WriteUbjson(v, o, p))))
                   \o ContainerTail(Mark.endArray, o)
              [] value[1] = "object" ->
                   Members(LAMBDA p :
                       Concatenated(OverKeys(value, LAMBDA key, v : Sized(key, o) \o WriteUbjson(v, o, p))))
                   \o ContainerTail(Mark.endObject, o)
    IN  (IF prefixed THEN <<UbjsonPrefix(value, o)>> ELSE <<>>) \o rest

-----------------------------------------------------------------------------
(* write_bson: the sizes are computed before anything is written.          *)
BsonName(i) == DigitsOf(i - 1)   \* of an array's element: std::to_string
NamedMembers(value) ==
    IF value[1] = "array" THEN [i \in DOMAIN value[2] |-> <<BsonName(i), value[2][i]>>]
    ELSE OverKeys(value, LAMBDA key, v : <<key, v>>)
IntegerSize(value) ==   \* of type int32, int64 or uint64
    IF FitsSigned(value[2], 4) /\ (value[1] = "unsigned" => value[2][1] < 128) THEN 4 ELSE 8
RECURSIVE BsonSize(_)
BsonSize(value) ==
    CASE value[1] \in {"array", "object"} ->
           LET members == NamedMembers(value)
               MemberSize(i) == 1 + Len(members[i][1]) + 1 + BsonSize(members[i][2])
           IN  5 + MapThenSumSet(MemberSize, DOMAIN members)
      [] value[1] = "binary" -> 4 + Len(value[2].bytes) + 1
      [] value[1] = "boolean" -> 1
      [] value[1] = "float" -> 8
      [] value[1] \in {"integer", "unsigned"} -> IntegerSize(value)
      [] value[1] = "string" -> 4 + Len(value[2]) + 1
      [] value[1] = "null" -> 0
RECURSIVE HasBadName(_)   \* a name with a zero byte throws
HasBadName(value) ==
    value[1] \in {"array", "object"} /\
    \E i \in DOMAIN NamedMembers(value) :
        LET m == NamedMembers(value)[i] IN (\E j \in DOMAIN m[1] : m[1][j] = 0) \/ HasBadName(m[2])
BsonThrows(value) == value[1] # "object" \/ HasBadName(value)

BsonType(value) ==
    CASE value[1] = "float" -> 1 [] value[1] = "string" -> 2 [] value[1] = "object" -> 3
      [] value[1] = "array" -> 4 [] value[1] = "binary" -> 5 [] value[1] = "boolean" -> 8
      [] value[1] = "null" -> 10
      [] value[1] \in {"integer", "unsigned"} ->
           IF IntegerSize(value) = 4 THEN 16
           ELSE IF value[1] = "unsigned" /\ value[2][1] >= 128 THEN 17 ELSE 18
Little(n) == Reverse(Bytes(n, 4))
RECURSIVE WriteBson(_)
WriteBson(value) ==
    CASE value[1] \in {"array", "object"} ->
           LET members == NamedMembers(value)
               Element(m) == <<BsonType(m[2])>> \o m[1] \o <<0>> \o WriteBson(m[2])
           IN  Little(BsonSize(value)) \o Concatenated([i \in DOMAIN members |-> Element(members[i])]) \o <<0>>
      [] value[1] = "binary" ->
           Little(Len(value[2].bytes))
           \o (IF value[2].subtype = <<>> THEN <<0>> ELSE Low(value[2].subtype, 1)) \o value[2].bytes
      [] value[1] = "boolean" -> <<value[2]>>
      [] value[1] = "float" -> Reverse(value[2])
      [] value[1] \in {"integer", "unsigned"} -> Reverse(Low(value[2], IntegerSize(value)))
      [] value[1] = "string" -> Little(Len(value[2]) + 1) \o Append(value[2], 0)
      [] value[1] = "null" -> <<>>

-----------------------------------------------------------------------------
\* to_cbor, to_msgpack, to_ubjson, to_bjdata and to_bson.
WriteThrows(value, o) == o.format = "bson" /\ BsonThrows(value)
Encoded(value, o) ==
    CASE o.format = "cbor" -> WriteCbor(value)
      [] o.format = "msgpack" -> WriteMsgpack(value)
      [] o.format = "ubjson" -> WriteUbjson(value, o, TRUE)
      [] o.format = "bson" -> WriteBson(value)

=============================================================================
