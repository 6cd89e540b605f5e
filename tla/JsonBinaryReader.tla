-------------------------- MODULE JsonBinaryReader --------------------------
(***************************************************************************)
(* The binary formats of the JSON library, read (binary_reader).  A read   *)
(* starts behind the first `at' bytes of s and gives a value and the       *)
(* position behind it, or fails: parse_error throws.  The annotated arrays *)
(* of BJData are left out.                                                 *)
(***************************************************************************)
EXTENDS JsonBinaryWriter

Fail == [ok |-> FALSE, value |-> <<"null", 0>>, at |-> 0]
Got(value, at) == [ok |-> TRUE, value |-> value, at |-> at]
ReadThen(r, Next2(_)) == IF r.ok THEN Next2(r) ELSE Fail

\* get, unexpect_eof, get_number, get_string and get_binary.
Current(s, at) == IF at < Len(s) THEN s[at + 1] ELSE -1
GetBytes(s, at, n) == IF at + n > Len(s) THEN Fail ELSE Got(SubSeq(s, at + 1, at + n), at + n)
GetNumber(s, at, k, Meaning(_)) ==
    ReadThen(GetBytes(s, at, k), LAMBDA r : Got(Meaning(r.value), r.at))
ToInt(bytes) == FoldLeft(LAMBDA n, b : 256 * n + b, 0, bytes)
Filled(bytes, fill) == [i \in 1..(8 - Len(bytes)) |-> fill] \o bytes
Unsigned(bytes) == <<"unsigned", Filled(bytes, 0)>>
Signed(bytes) == <<"integer", Filled(bytes, IF Head(bytes) >= 128 THEN 255 ELSE 0)>>
NegativeOf(bytes) == <<"integer", Complement(Filled(bytes, 0))>>   \* -1 - n
GetText(s, at, k, type) ==   \* a length of k bytes and the bytes
    ReadThen(GetNumber(s, at, k, ToInt), LAMBDA n :
    ReadThen(GetBytes(s, n.at, n.value), LAMBDA r : Got(<<type, r.value>>, r.at)))
PlainBinary(bytes) == <<"binary", [bytes |-> bytes, subtype |-> <<>>]>>

\* m * 2^e as a double, m below 2^24 (ldexp); singles and halves are read with it.
DoubleOf(sign, exponent, upper) ==
    <<128 * sign + exponent \div 16, (exponent % 16) * 16 + upper \div 2^19, (upper \div 2^11) % 256,
      (upper \div 8) % 256, (upper % 8) * 32, 0, 0, 0>>
Ldexp(sign, m, e) ==
    LET j == CHOOSE j \in 0..23 : m \in 2^j..(2^(j + 1) - 1) IN
    IF m = 0 THEN DoubleOf(sign, 0, 0) ELSE DoubleOf(sign, j + e + 1023, (m - 2^j) * 2^(23 - j))
SingleOf(b) ==
    LET sign == b[1] \div 128
        exponent == (b[1] % 128) * 2 + b[2] \div 128
        m == (b[2] % 128) * 2^16 + b[3] * 256 + b[4]
    IN  <<"float", CASE exponent = 0 -> Ldexp(sign, m, -149)
                     [] exponent = 255 -> DoubleOf(sign, 2047, m)
                     [] OTHER -> Ldexp(sign, m + 2^23, exponent - 150)>>
HalfOf(b) ==
    LET sign == b[1] \div 128
        exponent == (b[1] \div 4) % 32
        m == (b[1] % 4) * 256 + b[2]
    IN  <<"float", CASE exponent = 0 -> Ldexp(sign, m, -24)
                     [] exponent = 31 -> DoubleOf(sign, 2047, IF m = 0 THEN 0 ELSE 2^22)
                     [] OTHER -> Ldexp(sign, m + 1024, exponent - 25)>>
FloatOfBytes(bytes) == <<"float", bytes>>

Repeated(n, at, Item(_)) ==   \* Item reads one item behind a position
    LET read[i \in 0..n] ==
            IF i = 0 THEN Got(<<>>, at)
            ELSE ReadThen(read[i - 1], LAMBDA a : ReadThen(Item(a.at), LAMBDA r : Got(Append(a.value, r.value), r.at)))
    IN  read[n]
ArrayOf(r) == ReadThen(r, LAMBDA a : Got(<<"array", a.value>>, a.at))
\* Of two members with one name the last counts.
ObjectFrom(r) ==
    ReadThen(r, LAMBDA a : Got(<<"object", [k \in {a.value[i][1] : i \in DOMAIN a.value} |->
        a.value[Max({i \in DOMAIN a.value : a.value[i][1] = k})][2]]>>, a.at))
Member2(key, Value2(_)) ==
    ReadThen(key, LAMBDA k : ReadThen(Value2(k.at), LAMBDA v : Got(<<k.value[2], v.value>>, v.at)))

-----------------------------------------------------------------------------
(* CBOR.  The lower five bits of a head say a size, or where it is.        *)
Indefinite == -1
Break == 255
CborLength(s, at) ==
    LET info == Current(s, at) % 32 IN
    CASE info < 24 -> Got(info, at + 1)
      [] info \in 24..27 -> GetNumber(s, at + 1, 2^(info - 24), ToInt)
      [] info = 31 -> Got(Indefinite, at + 1)
      [] OTHER -> Fail
CborInteger(s, at, negative) ==
    LET info == s[at + 1] % 32
        Meaning(bytes) == IF negative THEN NegativeOf(bytes) ELSE Unsigned(bytes)
    IN
    CASE info < 24 -> Got(Meaning(<<info>>), at + 1)
      [] info \in 24..27 -> GetNumber(s, at + 1, 2^(info - 24), Meaning)
      [] OTHER -> Fail

\* get_cbor_string and get_cbor_binary: the bytes, in one piece or in chunks.
RECURSIVE GetCborText(_, _, _), CborChunks(_, _, _)
GetCborText(s, at, base) ==
    IF Current(s, at) \notin base..(base + 31) THEN Fail
    ELSE ReadThen(CborLength(s, at), LAMBDA n :
         IF n.value = Indefinite THEN CborChunks(s, n.at, base) ELSE GetBytes(s, n.at, n.value))
CborChunks(s, at, base) ==
    IF Current(s, at) = Break THEN Got(<<>>, at + 1)
    ELSE ReadThen(GetCborText(s, at, base), LAMBDA chunk :
         ReadThen(CborChunks(s, chunk.at, base), LAMBDA r : Got(chunk.value \o r.value, r.at)))
CborString2(s, at) ==
    ReadThen(GetCborText(s, at, 96), LAMBDA r : Got(<<"string", r.value>>, r.at))
CborBinary2(s, at, subtype) ==
    ReadThen(GetCborText(s, at, 64), LAMBDA r :
        Got(<<"binary", [bytes |-> r.value, subtype |-> subtype]>>, r.at))

Tags == (198..212) \cup (216..219)
CborTag(s, at) ==   \* its subtype, or none
    IF s[at + 1] >= 216 THEN GetNumber(s, at + 1, 2^(s[at + 1] - 216), LAMBDA b : Filled(b, 0))
    ELSE Got(<<>>, at + 1)
CborSpecial(s, at) ==
    LET b == s[at + 1] IN
    CASE b \in {244, 245} -> Got(<<"boolean", b - 244>>, at + 1)
      [] b = 246 -> Got(<<"null", 0>>, at + 1)
      [] b = 249 -> GetNumber(s, at + 1, 2, HalfOf)
      [] b = 250 -> GetNumber(s, at + 1, 4, SingleOf)
      [] b = 251 -> GetNumber(s, at + 1, 8, FloatOfBytes)
      [] OTHER -> Fail

RECURSIVE ReadCbor(_, _, _), CborUntilBreak(_, _, _, _)
CborItem(s, at, tags, named) ==
    IF named THEN Member2(CborString2(s, at), LAMBDA a : ReadCbor(s, a, tags)) ELSE ReadCbor(s, at, tags)
CborUntilBreak(s, at, tags, named) ==
    IF Current(s, at) = Break THEN Got(<<>>, at + 1)
    ELSE ReadThen(CborItem(s, at, tags, named), LAMBDA item :
         ReadThen(CborUntilBreak(s, item.at, tags, named), LAMBDA r :
             Got(<<item.value>> \o r.value, r.at)))
CborItems(s, at, tags, named) ==
    ReadThen(CborLength(s, at), LAMBDA n :
        IF n.value = Indefinite THEN CborUntilBreak(s, n.at, tags, named)
        ELSE Repeated(n.value, n.at, LAMBDA a : CborItem(s, a, tags, named)))
CborTagged(s, at, tags) ==
    ReadThen(CborTag(s, at), LAMBDA tag :
        CASE tags = "error" -> Fail
          [] tags = "ignore" \/ (tags = "store" /\ tag.value = <<>>) -> ReadCbor(s, tag.at, tags)
          [] OTHER -> CborBinary2(s, tag.at, tag.value))
ReadCbor(s, at, tags) ==
    LET b == Current(s, at) IN
    CASE b = -1 -> Fail
      [] b \in 0..31 -> CborInteger(s, at, FALSE)
      [] b \in 32..63 -> CborInteger(s, at, TRUE)
      [] b \in 64..95 -> CborBinary2(s, at, <<>>)
      [] b \in 96..127 -> CborString2(s, at)
      [] b \in 128..159 -> ArrayOf(CborItems(s, at, tags, FALSE))
      [] b \in 160..191 -> ObjectFrom(CborItems(s, at, tags, TRUE))
      [] b \in Tags -> CborTagged(s, at, tags)
      [] b \in (192..255) \ Tags -> CborSpecial(s, at)

-----------------------------------------------------------------------------
(* MessagePack.                                                            *)
MsgpackText(s, at) ==   \* get_msgpack_string
    LET b == Current(s, at) IN
    CASE b \in 160..191 ->
           ReadThen(GetBytes(s, at + 1, b % 32), LAMBDA r : Got(<<"string", r.value>>, r.at))
      [] b \in 217..219 -> GetText(s, at + 1, 2^(b - 217), "string")
      [] OTHER -> Fail
MsgpackBytes(s, at) ==   \* get_msgpack_binary
    LET b == s[at + 1]
        Ext(n) == ReadThen(GetBytes(s, n.at, 1), LAMBDA subtype :
                  ReadThen(GetBytes(s, subtype.at, n.value), LAMBDA r :
                      Got(<<"binary", [bytes |-> r.value, subtype |-> Filled(subtype.value, 0)]>>, r.at)))
    IN  CASE b \in 196..198 ->
               ReadThen(GetText(s, at + 1, 2^(b - 196), "binary"), LAMBDA r : Got(PlainBinary(r.value[2]), r.at))
          [] b \in 199..201 -> ReadThen(GetNumber(s, at + 1, 2^(b - 199), ToInt), Ext)
          [] b \in 212..216 -> Ext(Got(2^(b - 212), at + 1))
RECURSIVE ReadMsgpack(_, _)
MsgpackItems(s, size, named) ==
    ReadThen(size, LAMBDA n : Repeated(n.value, n.at, LAMBDA a :
        IF named THEN Member2(MsgpackText(s, a), LAMBDA v : ReadMsgpack(s, v)) ELSE ReadMsgpack(s, a)))
ReadMsgpack(s, at) ==
    LET b == Current(s, at) IN
    CASE b \in 0..127 -> Got(Unsigned(<<b>>), at + 1)
      [] b \in 128..143 -> ObjectFrom(MsgpackItems(s, Got(b % 16, at + 1), TRUE))
      [] b \in 144..159 -> ArrayOf(MsgpackItems(s, Got(b % 16, at + 1), FALSE))
      [] b \in (160..191) \cup (217..219) -> MsgpackText(s, at)
      [] b = 192 -> Got(<<"null", 0>>, at + 1)
      [] b \in {194, 195} -> Got(<<"boolean", b - 194>>, at + 1)
      [] b \in (196..201) \cup (212..216) -> MsgpackBytes(s, at)
      [] b = 202 -> GetNumber(s, at + 1, 4, SingleOf)
      [] b = 203 -> GetNumber(s, at + 1, 8, FloatOfBytes)
      [] b \in 204..207 -> GetNumber(s, at + 1, 2^(b - 204), Unsigned)
      [] b \in 208..211 -> GetNumber(s, at + 1, 2^(b - 208), Signed)
      [] b \in {220, 221} -> ArrayOf(MsgpackItems(s, GetNumber(s, at + 1, 2^(b - 219), ToInt), FALSE))
      [] b \in {222, 223} -> ObjectFrom(MsgpackItems(s, GetNumber(s, at + 1, 2^(b - 221), ToInt), TRUE))
      [] b \in 224..255 -> Got(Signed(<<b>>), at + 1)
      [] b \in {-1, 193} -> Fail

-----------------------------------------------------------------------------
(* UBJSON and BJData.                                                      *)
RECURSIVE SkipNoops(_, _)   \* get_ignore_noop
SkipNoops(s, at) == IF Current(s, at) = Mark.noop THEN SkipNoops(s, at + 1) ELSE at

\* The rung of an integer's marker, if the format has it.
RungOf(marker, o) ==
    {i \in 1..8 : Ladder[i][1] = marker /\ (o.bjdata \/ marker \notin OnlyBjdata)}
UbjsonNumber(s, at, rung, o) ==
    GetNumber(s, at, rung[2], LAMBDA b :
        IF rung[3] THEN Signed(Ordered(b, o.bjdata)) ELSE Unsigned(Ordered(b, o.bjdata)))
SmallOf(value) == IF value[2][1] >= 128 THEN -1 ELSE ToInt(value[2])
\* The marker and the number of a size; at stands before the marker.
SizeValue(s, at, o) ==
    LET rungs == RungOf(Current(s, at), o) IN
    IF rungs = {} THEN Fail
    ELSE ReadThen(UbjsonNumber(s, at + 1, Ladder[Max(rungs)], o), LAMBDA r : Got(SmallOf(r.value), r.at))
\* get_ubjson_string: a negative length reads nothing.
GetUbjsonString(s, at, o) ==
    ReadThen(SizeValue(s, at, o), LAMBDA n :
    ReadThen(GetBytes(s, n.at, IF n.value < 0 THEN 0 ELSE n.value), LAMBDA r : Got(<<"string", r.value>>, r.at)))
\* get_ubjson_size_value: a negative count is an error.
Count(s, at, o) ==
    ReadThen(SizeValue(s, SkipNoops(s, at), o), LAMBDA n : IF n.value < 0 THEN Fail ELSE n)

\* get_ubjson_size_type: <<size, type>>; at the end of a container without a size the
\* position is before what stands first in it.
NoSize == -1
NoType == 0
SizeAndType(s, at, o) ==
    LET first == SkipNoops(s, at)
        type == Current(s, first + 1)
        hash == SkipNoops(s, first + 2)
        Typed(r, t) == ReadThen(r, LAMBDA n : Got(<<n.value, t>>, n.at))
    IN  CASE Current(s, first) = Mark.type ->
               IF type = -1 \/ (o.bjdata /\ type \in NotOptimized) \/ Current(s, hash) # Mark.count THEN Fail
               ELSE Typed(Count(s, hash + 1, o), type)
          [] Current(s, first) = Mark.count -> Typed(Count(s, first + 1, o), NoType)
          [] OTHER -> Got(<<NoSize, NoType>>, first)

\* The digits of a number that is too large for the other types.
DigitsToBytes(digits) ==
    LET Carry(acc, b) == [out |-> <<(b * 10 + acc.carry) % 256>> \o acc.out,
                          carry |-> (b * 10 + acc.carry) \div 256]
        Step(bytes, c) == FoldLeft(Carry, [out |-> <<>>, carry |-> c - 48], Reverse(bytes)).out
    IN  FoldLeft(Step, Filled(<<0>>, 0), digits)
GetHighPrecision(s, at, o) ==
    ReadThen(Count(s, at, o), LAMBDA n : ReadThen(GetBytes(s, n.at, n.value), LAMBDA r :
        IF r.value = <<>> \/ \E i \in DOMAIN r.value : r.value[i] \notin 48..57 THEN Fail
        ELSE Got(<<"unsigned", DigitsToBytes(r.value)>>, r.at)))

RECURSIVE UbjsonValue(_, _, _, _), UbjsonUntil(_, _, _, _)
\* parse_ubjson_internal
ReadUbjson(s, at, o) ==
    LET first == SkipNoops(s, at) IN UbjsonValue(s, first + 1, Current(s, first), o)
UbjsonMember(s, at, type, o) ==
    Member2(GetUbjsonString(s, at, o), LAMBDA a :
        IF type = NoType THEN ReadUbjson(s, a, o) ELSE UbjsonValue(s, a, type, o))
\* The items of a container that ends with close.
UbjsonUntil(s, at, close, o) ==
    IF Current(s, at) = close THEN Got(<<>>, at + 1)
    ELSE LET item == IF close = Mark.endArray THEN UbjsonValue(s, at + 1, Current(s, at), o)
                     ELSE UbjsonMember(s, at, NoType, o)
         IN  ReadThen(item, LAMBDA i :
             ReadThen(UbjsonUntil(s, SkipNoops(s, i.at), close, o), LAMBDA r :
                 Got(<<i.value>> \o r.value, r.at)))
UbjsonArray(s, at, o) ==
    ReadThen(SizeAndType(s, at, o), LAMBDA r :
        LET size == r.value[1]
            type == r.value[2]
        IN  CASE size = NoSize -> ArrayOf(UbjsonUntil(s, r.at, Mark.endArray, o))
              [] o.bjdata /\ type = Mark.byte ->
                   ReadThen(GetBytes(s, r.at, size), LAMBDA b : Got(PlainBinary(b.value), b.at))
              [] size # NoSize /\ type = Mark.noop -> Got(<<"array", <<>>>>, r.at)
              [] OTHER -> ArrayOf(Repeated(size, r.at, LAMBDA a :
                     IF type = NoType THEN ReadUbjson(s, a, o) ELSE UbjsonValue(s, a, type, o))))
UbjsonObject(s, at, o) ==
    ReadThen(SizeAndType(s, at, o), LAMBDA r : ObjectFrom(
        IF r.value[1] = NoSize THEN UbjsonUntil(s, r.at, Mark.endObject, o)
        ELSE Repeated(r.value[1], r.at, LAMBDA a : UbjsonMember(s, a, r.value[2], o))))
UbjsonValue(s, at, marker, o) ==
    CASE marker = Mark.true -> Got(<<"boolean", 1>>, at)
      [] marker = Mark.false -> Got(<<"boolean", 0>>, at)
      [] marker = Mark.null -> Got(<<"null", 0>>, at)
      [] RungOf(marker, o) # {} -> UbjsonNumber(s, at, Ladder[Max(RungOf(marker, o))], o)
      [] marker = Mark.byte /\ o.bjdata -> GetNumber(s, at, 1, Unsigned)
      [] marker = Mark.half /\ o.bjdata -> GetNumber(s, at, 2, LAMBDA b : HalfOf(Reverse(b)))
      [] marker = Mark.single -> GetNumber(s, at, 4, LAMBDA b : SingleOf(Ordered(b, o.bjdata)))
      [] marker = Mark.double -> GetNumber(s, at, 8, LAMBDA b : FloatOfBytes(Ordered(b, o.bjdata)))
      [] marker = Mark.precise -> GetHighPrecision(s, at, o)
      [] marker = Mark.char ->
           ReadThen(GetBytes(s, at, 1), LAMBDA r : IF r.value[1] > 127 THEN Fail ELSE Got(<<"string", r.value>>, r.at))
      [] marker = Mark.string -> GetUbjsonString(s, at, o)
      [] marker = Mark.array -> UbjsonArray(s, at, o)
      [] marker = Mark.object -> UbjsonObject(s, at, o)
      [] OTHER -> Fail

-----------------------------------------------------------------------------
(* BSON: the size of a document is read and not looked at.                 *)
RECURSIVE GetCstr(_, _)   \* get_bson_cstr
GetCstr(s, at) ==
    CASE Current(s, at) = -1 -> Fail
      [] Current(s, at) = 0 -> Got(<<"string", <<>>>>, at + 1)
      [] OTHER -> ReadThen(GetCstr(s, at + 1), LAMBDA r :
                      Got(<<"string", <<s[at + 1]>> \o r.value[2]>>, r.at))
LittleInt(bytes) == SmallOf(Signed(Reverse(bytes)))
BsonString(s, at) ==   \* get_bson_string: the byte behind the string may be any
    ReadThen(GetNumber(s, at, 4, LittleInt), LAMBDA n :
        IF n.value < 1 THEN Fail
        ELSE ReadThen(GetBytes(s, n.at, n.value - 1), LAMBDA r :
             ReadThen(GetBytes(s, r.at, 1), LAMBDA z : Got(<<"string", r.value>>, z.at))))
BsonBinary(s, at) ==   \* get_bson_binary
    ReadThen(GetNumber(s, at, 4, LittleInt), LAMBDA n :
        IF n.value < 0 THEN Fail
        ELSE ReadThen(GetBytes(s, n.at, 1), LAMBDA subtype :
             ReadThen(GetBytes(s, subtype.at, n.value), LAMBDA r :
                 Got(<<"binary", [bytes |-> r.value, subtype |-> Filled(subtype.value, 0)]>>, r.at))))
RECURSIVE ReadBson(_, _), BsonElements(_, _), BsonElement(_, _, _)
BsonElement(s, at, type) ==   \* parse_bson_element_internal
    CASE type = 1 -> GetNumber(s, at, 8, LAMBDA b : FloatOfBytes(Reverse(b)))
      [] type = 2 -> BsonString(s, at)
      [] type = 3 -> ReadBson(s, at)
      [] type = 4 -> ReadThen(GetBytes(s, at, 4), LAMBDA size :
                     ReadThen(BsonElements(s, size.at), LAMBDA r :
                         Got(<<"array", [i \in DOMAIN r.value |-> r.value[i][2]]>>, r.at)))
      [] type = 5 -> BsonBinary(s, at)
      [] type = 8 -> Got(<<"boolean", IF Current(s, at) = 0 THEN 0 ELSE 1>>, at + 1)
      [] type = 10 -> Got(<<"null", 0>>, at)
      [] type = 16 -> GetNumber(s, at, 4, LAMBDA b : Signed(Reverse(b)))
      [] type = 17 -> GetNumber(s, at, 8, LAMBDA b : Unsigned(Reverse(b)))
      [] type = 18 -> GetNumber(s, at, 8, LAMBDA b : Signed(Reverse(b)))
      [] OTHER -> Fail
BsonElements(s, at) ==   \* parse_bson_element_list
    CASE Current(s, at) = 0 -> Got(<<>>, at + 1)
      [] Current(s, at) = -1 -> Fail
      [] OTHER -> ReadThen(Member2(GetCstr(s, at + 1), LAMBDA a : BsonElement(s, a, s[at + 1])), LAMBDA m :
                  ReadThen(BsonElements(s, m.at), LAMBDA r : Got(<<m.value>> \o r.value, r.at)))
ReadBson(s, at) == ReadThen(GetBytes(s, at, 4), LAMBDA size : ObjectFrom(BsonElements(s, size.at)))

-----------------------------------------------------------------------------
\* sax_parse, strict: nothing but what UBJSON skips may follow.
Strict(r, s, o) ==
    LET end == IF o.format = "ubjson" THEN SkipNoops(s, r.at) ELSE r.at
    IN  IF r.ok /\ end >= Len(s) THEN r ELSE Fail
Decode(s, o) ==
    CASE o.format = "cbor" -> Strict(ReadCbor(s, 0, o.tags), s, o)
      [] o.format = "msgpack" -> Strict(ReadMsgpack(s, 0), s, o)
      [] o.format = "ubjson" -> Strict(ReadUbjson(s, 0, o), s, o)
      [] o.format = "bson" -> Strict(ReadBson(s, 0), s, o)

=============================================================================
