------------------------------ MODULE JsonText ------------------------------
(***************************************************************************)
(* What JSON texts are, independently of the scanner and the parser: the   *)
(* sets of the texts of each length over an alphabet, with their values,   *)
(* built from the grammar of RFC 8259; and what well-formed UTF-8 is.      *)
(***************************************************************************)
EXTENDS JsonParser, Functions, FiniteSetsExt

-----------------------------------------------------------------------------
(* UTF-8: a sequence is well-formed if it is what a code point encodes to. *)

Surrogate(u) == IsHigh(u) \/ IsLow(u)
Scalar(u) == u \in 0..1114111 /\ ~Surrogate(u)
Bits(s) == FoldLeft(LAMBDA u, b : u * 64 + (b % 64), 0, Tail(s))
Codepoint(s) ==
    CASE Len(s) = 1 -> Head(s)
      [] Len(s) = 2 -> (Head(s) % 32) * 64 + Bits(s)
      [] Len(s) = 3 -> (Head(s) % 16) * 4096 + Bits(s)
      [] Len(s) = 4 -> (Head(s) % 8) * 262144 + Bits(s)
IsCharacter(s) == Len(s) \in 1..4 /\ Scalar(Codepoint(s)) /\ Utf8(Codepoint(s)) = s

\* The characters over an alphabet, and the sequences that begin one.
CharactersOver(bytes) == {s \in UNION {[1..n -> bytes] : n \in 1..4} : IsCharacter(s)}
Begins(s, characters) == \E c \in characters : IsPrefix(s, c)

\* A text with each maximal ill-formed part of a sequence replaced.
Longest(s, characters) ==
    LET lengths == {n \in 1..Len(s) : Begins(SubSeq(s, 1, n), characters)}
    IN  IF lengths = {} THEN 1 ELSE Max(lengths)
RECURSIVE Repaired(_, _, _)
Repaired(s, characters, replacement) ==
    IF s = <<>> THEN <<>>
    ELSE LET n == Longest(s, characters)
             part == SubSeq(s, 1, n)
         IN  (IF part \in characters THEN part ELSE replacement)
             \o Repaired(SubSeq(s, n + 1, Len(s)), characters, replacement)
WellFormed(s, characters) == Repaired(s, characters, <<>>) = s

-----------------------------------------------------------------------------
(* The grammar.  A text with its value is <<text, value>>.                 *)

Texts(bytes, n) == [1..n -> bytes]
Glued(texts1, texts2) == {s \o t : s \in texts1, t \in texts2}

\* Numbers: minus, int, frac, exp.
IsDigits(s) == s # <<>> /\ ToSet(s) \subseteq Digits
IsInt(s) == IsDigits(s) /\ (Head(s) = 48 => Len(s) = 1)
IsFrac(s) == s = <<>> \/ (Head(s) = Dot /\ IsDigits(Tail(s)))
IsExp(s) ==
    \/ s = <<>>
    \/ Head(s) \in Exponents /\ Len(s) > 1
       /\ IsDigits(IF s[2] \in {Plus, Minus} THEN Tail(Tail(s)) ELSE Tail(s))
IsNumber(s) ==
    LET magnitude == IF Head(s) = Minus THEN Tail(s) ELSE s IN
    \E i \in 0..Len(magnitude) : \E j \in i..Len(magnitude) :
        /\ IsInt(SubSeq(magnitude, 1, i)) /\ IsFrac(SubSeq(magnitude, i + 1, j))
        /\ IsExp(SubSeq(magnitude, j + 1, Len(magnitude)))
IsInteger(s) == ToSet(s) \cap ({Dot} \cup Exponents) = {}

\* Integers are kept as such if they fit; what is too big for a float is no text.
NumberValue(s) ==
    IF IsInteger(s) /\ Head(s) # Minus /\ NumberOf(s) <= 2^IntBits - 1 THEN <<"unsigned", NumberOf(s)>>
    ELSE IF IsInteger(s) /\ Head(s) = Minus /\ NumberOf(Tail(s)) <= 2^(IntBits - 1)
    THEN <<"integer", -NumberOf(Tail(s))>>
    ELSE <<"float", FloatOf(s)>>
NumbersOver(bytes, n) ==
    {<<s, NumberValue(s)>> : s \in {t \in Texts(bytes, n) : IsNumber(t) /\ IsFinite(NumberValue(t))}}

Words == {<<<<116, 114, 117, 101>>, <<"boolean", 1>>>>, <<<<110, 117, 108, 108>>, <<"null", 0>>>>,
          <<<<102, 97, 108, 115, 101>>, <<"boolean", 0>>>>}

\* The characters of strings as they are written, with what they stand for.
Hex(s) == FoldLeft(LAMBDA u, c : u * 16 + HexDigit(c), 0, s)
HexOver(bytes) == {h \in Texts(bytes, 4) : \A i \in 1..4 : HexDigit(h[i]) # -1}
Units16(bytes) == {<<<<Backslash, 117>> \o h, Hex(h)>> : h \in HexOver(bytes)}
Written16(bytes) ==
    LET units16 == IF {Backslash, 117} \subseteq bytes THEN Units16(bytes) ELSE {} IN
    {<<u[1], Utf8(u[2])>> : u \in {x \in units16 : ~Surrogate(x[2])}}
    \cup {<<u[1] \o v[1], Utf8(65536 + (u[2] - 55296) * 1024 + (v[2] - 56320))>> :
              u \in {x \in units16 : IsHigh(x[2])}, v \in {x \in units16 : IsLow(x[2])}}
CharactersWritten(bytes) ==
    {<<s, s>> : s \in {c \in CharactersOver(bytes) :
                          ~(Len(c) = 1 /\ (Head(c) < 32 \/ Head(c) \in {Quote, Backslash}))}}
    \cup {<<<<Backslash, c>>, <<Escapes[c]>>>> :
              c \in IF Backslash \in bytes THEN DOMAIN Escapes \cap bytes ELSE {}}
    \cup Written16(bytes)

RECURSIVE StringsOver(_, _)
StringsOver(characters, n) ==   \* of at most n characters
    IF n = 0 THEN {<<<<>>, <<>>>>}
    ELSE LET shorter == StringsOver(characters, n - 1) IN
         shorter \cup {<<s[1] \o c[1], s[2] \o c[2]>> : s \in shorter, c \in characters}
StringTexts(in) ==
    IF Quote \notin in.bytes THEN {}
    ELSE {<<<<Quote>> \o s[1] \o <<Quote>>, s[2]>> :
             s \in StringsOver(CharactersWritten(in.bytes), in.chars)}

\* Of two members with one name the last counts.
ObjectOf(pairs) ==
    [k \in {pairs[i][1] : i \in DOMAIN pairs} |->
        pairs[Max({i \in DOMAIN pairs : pairs[i][1] = k})][2]]

Byte(c, bytes) == IF c \in bytes THEN {<<c>>} ELSE {}
Pairs(texts1, texts2, Meaning(_, _)) ==   \* one text behind another
    {<<s[1] \o t[1], Meaning(s[2], t[2])>> : s \in texts1, t \in texts2}
Between(open, texts, close, bytes, Meaning(_)) ==
    {<<o \o t[1] \o c, Meaning(t[2])>> : o \in Byte(open, bytes), t \in texts, c \in Byte(close, bytes)}
Behind(texts, separator, bytes) ==
    {<<t[1] \o c, t[2]>> : t \in texts, c \in Byte(separator, bytes)}

\* levels[n + 1] are the texts of length n: values, and values, names, members and lists
\* of them with blanks around.  Each length is built from the shorter ones.
Blanks(in, n) == {<<b, <<>>>> : b \in Texts(in.bytes \cap Spaces, n)}
Around(in, texts(_), n) ==
    UNION {{<<b[1] \o t[1] \o c[1], t[2]>> : b \in Blanks(in, i), t \in texts(n - i - j),
            c \in Blanks(in, j)} : i \in 0..n, j \in 0..n}
Level(in, scalars, names, levels, n) ==
    LET At(k) == levels[k + 1]
        Exactly(texts, k) == {t \in texts : Len(t[1]) = k}
        Empty == IF n < 2 THEN {} ELSE Blanks(in, n - 2)
        values ==
            Exactly(scalars, n)
            \cup Between(91, Empty, 93, in.bytes, LAMBDA v : <<"array", v>>)
            \cup Between(123, Empty, 125, in.bytes, LAMBDA v : <<"object", v>>)
            \cup IF n < 2 THEN {}
                 ELSE Between(91, At(n - 2).elements, 93, in.bytes, LAMBDA v : <<"array", v>>)
                      \cup Between(123, At(n - 2).members, 125, in.bytes, LAMBDA v : <<"object", ObjectOf(v)>>)
        elems == Around(in, LAMBDA k : IF k = n THEN values ELSE IF k < 0 THEN {} ELSE At(k).values, n)
        member ==
            UNION {Pairs(Behind(Around(in, LAMBDA k : Exactly(names, k), i), 58, in.bytes),
                         At(n - 1 - i).elem, LAMBDA k, v : <<k, v>>) : i \in 0..(n - 1)}
        Lists(one, Longer(_)) ==
            {<<t[1], <<t[2]>>>> : t \in one}
            \cup UNION {Longer(i) : i \in 0..(n - 1)}
    IN  [values |-> values, elem |-> elems, member |-> member,
         elements |-> Lists(elems, LAMBDA i : Pairs(Behind(At(i).elem, 44, in.bytes),
                                                      At(n - 1 - i).elements, LAMBDA v, w : <<v>> \o w)),
         members |-> Lists(member, LAMBDA i : Pairs(Behind(At(i).member, 44, in.bytes),
                                                    At(n - 1 - i).members, LAMBDA v, w : <<v>> \o w))]
Numbers(in) == UNION {NumbersOver(in.bytes \cap NumberBytes, n) : n \in 1..in.digits}
LevelsOf(in) ==
    LET names == StringTexts(in)
        scalars == Words \cup Numbers(in) \cup {<<s[1], <<"string", s[2]>>>> : s \in names}
    IN  FoldLeft(LAMBDA levels, n : Append(levels, Level(in, scalars, names, levels, n)), <<>>,
                 [i \in 1..(in.length + 1) |-> i - 1])

\* JSON texts of at most the input's length over its bytes.  A byte order mark may stand
\* in front; a NUL behind one is taken for its end.
Bom3 == <<239, 187, 191>>
Plain(levels, bytes) == {t \in UNION {l.elem : l \in Range(levels)} : ToSet(t[1]) \subseteq bytes}
Marked(texts, bytes) ==
    texts \cup (IF ToSet(Bom3) \subseteq bytes THEN {<<Bom3 \o t[1], t[2]>> : t \in texts} ELSE {})
Closed(texts, bytes) ==
    texts \cup (IF 0 \in bytes THEN {<<Append(t[1], 0), t[2]>> : t \in texts} ELSE {})
JsonTexts(in) ==
    {t \in Closed(Marked(Plain(LevelsOf(in), in.bytes), in.bytes), in.bytes) : Len(t[1]) <= in.length}

=============================================================================
