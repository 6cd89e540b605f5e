----------------------------- MODULE JsonLexer -----------------------------
(***************************************************************************)
(* The scanner of the JSON library: bytes in, tokens out.  One action is   *)
(* one call of get() and what the scanner does with the byte; scan is the  *)
(* place in the code where the next byte is awaited.  Bytes are numbers,   *)
(* integers have IntBits bits.  The input is either delivered byte by      *)
(* byte, and may be anything, or is a text given before.                   *)
(***************************************************************************)
EXTENDS Integers, Sequences, SequencesExt, TLC, JsonNumber

CONSTANTS
    Inputs   \* what may be delivered: [bytes, length, chars, digits] bound the bytes it is made
             \* of, their number, the characters in a string and the bytes of a number

VARIABLES
    input,    \* which of the Inputs is read, or <<>> if it is given
    given,    \* what is left of an input that is given
    text,     \* what has been delivered
    ended,    \* the end of the input has been delivered
    current,  \* the byte read last
    unget,    \* next_unget
    scan,     \* where the scanner is, "token" if it has returned
    token,    \* the last token
    buffer,   \* token_buffer
    todo,     \* what the following bytes must be, one set for each
    units,    \* the UTF-16 code units of an escape, and the characters of the string
    kind      \* number_type

lexVars == <<input, given, text, ended, current, unget, scan, token, buffer, todo, units, kind>>

Eof == -1
Quote == 34
Plus == 43
Minus == 45
Dot == 46
Backslash == 92
Digits == 48..57
Exponents == {69, 101}
NumberBytes == Digits \cup Exponents \cup {Plus, Minus, Dot}
Spaces == {32, 9, 10, 13}

NumberStates ==
    {"minus", "zero", "any1", "decimal1", "decimal2", "exponent", "sign", "any2"}

\* get: the byte that was put back, or the next one.
StringIsFull == scan = "string" /\ units.chars = input.chars
NumberIsFull == scan \in NumberStates /\ Len(buffer) = input.digits
Deliverable ==
    IF unget THEN {current}
    ELSE IF ended THEN {Eof}
    ELSE IF input = <<>> THEN {IF given = <<>> THEN Eof ELSE Head(given)}
    ELSE IF Len(text) = input.length THEN {Eof}
    ELSE {Eof} \cup (IF StringIsFull THEN input.bytes \cap {Quote}
                     ELSE IF NumberIsFull THEN input.bytes \ NumberBytes ELSE input.bytes)

Read(c) ==
    /\ c \in Deliverable
    /\ current' = c
    /\ text' = IF unget \/ c = Eof THEN text ELSE Append(text, c)
    /\ given' = IF unget \/ given = <<>> THEN given ELSE Tail(given)
    /\ ended' = (ended \/ c = Eof)
    /\ UNCHANGED input
Get(c) == Read(c) /\ unget' = FALSE

Return(t) == scan' = "token" /\ token' = t
Fails == Return("parse_error")
Goto(s) == scan' = s /\ UNCHANGED token

-----------------------------------------------------------------------------
\* skip_bom: a byte that is no BOM is put back.
SkipBom(c) ==
    /\ scan = "bom"
    /\ Read(c)
    /\ unget' = (c # 239)
    /\ Goto(IF c = 239 THEN "bom2" ELSE "space")
    /\ UNCHANGED <<buffer, todo, units, kind>>

Bom(c) ==
    /\ scan \in {"bom2", "bom3"}
    /\ Get(c)
    /\ CASE scan = "bom2" /\ c = 187 -> Goto("bom3")
         [] scan = "bom3" /\ c = 191 -> Goto("space")
         [] OTHER -> Fails
    /\ UNCHANGED <<buffer, todo, units, kind>>

Single ==   \* [ ] { } : ,
    (91 :> "begin_array") @@ (93 :> "end_array") @@ (123 :> "begin_object")
    @@ (125 :> "end_object") @@ (58 :> "name_separator") @@ (44 :> "value_separator")
Literals == ("t" :> <<{114}, {117}, {101}>>) @@ ("f" :> <<{97}, {108}, {115}, {101}>>)
            @@ ("n" :> <<{117}, {108}, {108}>>)
Names == (116 :> "t") @@ (102 :> "f") @@ (110 :> "n")
LiteralTokens == ("t" :> "literal_true") @@ ("f" :> "literal_false") @@ ("n" :> "literal_null")

NoUnits == [high |-> -1, hex |-> 0, value |-> 0, chars |-> 0]

\* scan: blanks are skipped, the first byte decides what follows.
Scan(c) ==
    /\ scan = "space"
    /\ Get(c)
    /\ buffer' = IF c \in Digits \cup {Minus} THEN <<c>> ELSE <<>>
    /\ units' = NoUnits
    /\ kind' = IF c \in Digits \cup {Minus} THEN "value_unsigned" ELSE kind
    /\ todo' = IF c \in DOMAIN Names THEN Literals[Names[c]] ELSE <<>>
    /\ CASE c \in Spaces -> Goto("space")
         [] c \in DOMAIN Single -> Return(Single[c])
         [] c \in DOMAIN Names -> Goto(Names[c])
         [] c = Quote -> Goto("string")
         [] c = Minus -> Goto("minus")
         [] c = 48 -> Goto("zero")
         [] c \in Digits \ {48} -> Goto("any1")
         [] c \in {0, Eof} -> Return("end_of_input")
         [] OTHER -> Fails

ScanLiteral(c) ==
    /\ scan \in DOMAIN Literals
    /\ Get(c)
    /\ todo' = Tail(todo)
    /\ IF c \notin Head(todo) THEN Fails
       ELSE IF Len(todo) = 1 THEN Return(LiteralTokens[scan]) ELSE Goto(scan)
    /\ UNCHANGED <<buffer, units, kind>>

-----------------------------------------------------------------------------
(* scan_string.                                                            *)

Continuation == 128..191

\* What must follow the first byte of a character: 7801-7912.
TwoBytes(c) == c \in 194..223
ThreeBytesE0(c) == c = 224
ThreeBytes(c) == c \in (225..236) \cup {238, 239}
ThreeBytesED(c) == c = 237
FourBytesF0(c) == c = 240
FourBytes(c) == c \in 241..243
FourBytesF4(c) == c = 244
TailsLoose(c) ==   \* faulty variant: surrogates and overlong forms are let through
    CASE TwoBytes(c) -> <<Continuation>>
      [] ThreeBytesE0(c) \/ ThreeBytes(c) \/ ThreeBytesED(c) -> <<Continuation, Continuation>>
      [] FourBytesF0(c) \/ FourBytes(c) \/ FourBytesF4(c) ->
           <<Continuation, Continuation, Continuation>>
      [] OTHER -> <<>>
Tails(c) ==
    CASE TwoBytes(c) -> <<Continuation>>
      [] ThreeBytesE0(c) -> <<160..191, Continuation>>
      [] ThreeBytes(c) -> <<Continuation, Continuation>>
      [] ThreeBytesED(c) -> <<128..159, Continuation>>
      [] FourBytesF0(c) -> <<144..191, Continuation, Continuation>>
      [] FourBytes(c) -> <<Continuation, Continuation, Continuation>>
      [] FourBytesF4(c) -> <<128..143, Continuation, Continuation>>
      [] OTHER -> <<>>

\* Control characters must be escaped.
ControlCharacter(c) == c \in 0..31
AsciiCharacter(c) == c \in 32..127

ScanString(c) ==
    /\ scan = "string"
    /\ Get(c)
    /\ CASE c = Quote ->
              Return("value_string") /\ UNCHANGED <<buffer, todo, units>>
         [] c = Backslash ->
              Goto("escape") /\ UNCHANGED <<buffer, todo, units>>
         [] AsciiCharacter(c) /\ c \notin {Quote, Backslash} ->
              /\ buffer' = Append(buffer, c)
              /\ units' = [units EXCEPT !.chars = @ + 1]
              /\ Goto("string") /\ UNCHANGED todo
         [] Tails(c) # <<>> ->
              /\ buffer' = Append(buffer, c)
              /\ todo' = Tails(c)
              /\ Goto("tail") /\ UNCHANGED units
         [] c = Eof \/ ControlCharacter(c) \/ (c > 127 /\ Tails(c) = <<>>) ->
              Fails /\ UNCHANGED <<buffer, todo, units>>
    /\ UNCHANGED kind

\* next_byte_in_range.
NextByteInRange(c) ==
    /\ scan = "tail"
    /\ Get(c)
    /\ IF c \notin Head(todo) THEN Fails /\ UNCHANGED <<buffer, todo, units>>
       ELSE /\ buffer' = Append(buffer, c)
            /\ todo' = Tail(todo)
            /\ units' = IF Len(todo) = 1 THEN [units EXCEPT !.chars = @ + 1] ELSE units
            /\ Goto(IF Len(todo) = 1 THEN "string" ELSE "tail")
    /\ UNCHANGED kind

\* \" \\ \/ \b \f \n \r \t
Escapes == (34 :> 34) @@ (92 :> 92) @@ (47 :> 47) @@ (98 :> 8) @@ (102 :> 12)
           @@ (110 :> 10) @@ (114 :> 13) @@ (116 :> 9)

Escape(c) ==
    /\ scan = "escape"
    /\ Get(c)
    /\ IF c \in DOMAIN Escapes
       THEN /\ buffer' = Append(buffer, Escapes[c])
            /\ units' = [units EXCEPT !.chars = @ + 1]
            /\ Goto("string")
       ELSE /\ UNCHANGED buffer
            /\ units' = [units EXCEPT !.high = -1, !.hex = 0, !.value = 0]
            /\ IF c = 117 THEN Goto("hex") ELSE Fails
    /\ UNCHANGED <<todo, kind>>

IsHigh(u) == u \in 55296..56319   \* 0xD800..0xDBFF
IsLow(u) == u \in 56320..57343    \* 0xDC00..0xDFFF
\* A high and a low surrogate: (high << 10) + low - 0x35FDC00.
Paired(high, low) == high * 1024 + low - 56613888

Utf8(codepoint) ==
    CASE codepoint < 128 -> <<codepoint>>
      [] codepoint \in 128..2047 -> <<192 + (codepoint \div 64), 128 + (codepoint % 64)>>
      [] codepoint \in 2048..65535 ->
           <<224 + (codepoint \div 4096), 128 + ((codepoint \div 64) % 64), 128 + (codepoint % 64)>>
      [] codepoint > 65535 ->
           <<240 + (codepoint \div 262144), 128 + ((codepoint \div 4096) % 64),
             128 + ((codepoint \div 64) % 64), 128 + (codepoint % 64)>>

HexDigit(c) ==
    CASE c \in Digits -> c - 48
      [] c \in 65..70 -> c - 55
      [] c \in 97..102 -> c - 87
      [] OTHER -> -1

\* A code unit is complete: half of a pair, a character of its own, or an error.
CharacterRead(codepoint) ==
    /\ buffer' = buffer \o Utf8(codepoint)
    /\ units' = [units EXCEPT !.chars = @ + 1]
    /\ Goto("string")
CodeUnitRead(u) ==
    CASE units.high = -1 /\ IsHigh(u) ->
           units' = [units EXCEPT !.high = u] /\ Goto("low") /\ UNCHANGED buffer
      [] units.high = -1 /\ ~IsHigh(u) /\ ~IsLow(u) -> CharacterRead(u)
      [] units.high # -1 /\ IsLow(u) -> CharacterRead(Paired(units.high, u))
      [] OTHER -> Fails /\ UNCHANGED <<buffer, units>>

\* get_codepoint.
GetCodepoint(c) ==
    /\ scan = "hex"
    /\ Get(c)
    /\ LET value == units.value * 16 + HexDigit(c) IN
       IF HexDigit(c) = -1 THEN Fails /\ UNCHANGED <<buffer, units>>
       ELSE IF units.hex < 3
       THEN /\ units' = [units EXCEPT !.hex = @ + 1, !.value = value]
            /\ Goto("hex") /\ UNCHANGED buffer
       ELSE CodeUnitRead(value)
    /\ UNCHANGED <<todo, kind>>

\* A high surrogate must be followed by another escape.
LowSurrogate(c) ==
    /\ scan \in {"low", "low u"}
    /\ Get(c)
    /\ CASE scan = "low" /\ c = Backslash -> Goto("low u") /\ UNCHANGED units
         [] scan = "low u" /\ c = 117 ->
              units' = [units EXCEPT !.hex = 0, !.value = 0] /\ Goto("hex")
         [] OTHER -> Fails /\ UNCHANGED units
    /\ UNCHANGED <<buffer, todo, kind>>

-----------------------------------------------------------------------------
(* scan_number.                                                            *)

\* The state machine: where a byte leads to, "done" if it is not part of the number.
MinusTo(c) == IF c = 48 THEN "zero" ELSE IF c \in Digits THEN "any1" ELSE "error"
ZeroTo(c) == IF c = Dot THEN "decimal1" ELSE IF c \in Exponents THEN "exponent" ELSE "done"
Any1To(c) == IF c \in Digits THEN "any1" ELSE ZeroTo(c)
Decimal1To(c) == IF c \in Digits THEN "decimal2" ELSE "error"
Decimal2To(c) ==
    IF c \in Digits THEN "decimal2" ELSE IF c \in Exponents THEN "exponent" ELSE "done"
ExponentTo(c) ==
    IF c \in {Plus, Minus} THEN "sign" ELSE IF c \in Digits THEN "any2" ELSE "error"
SignTo(c) == IF c \in Digits THEN "any2" ELSE "error"
Any2To(c) == IF c \in Digits THEN "any2" ELSE "done"
NumberTo(s, c) ==
    CASE s = "minus" -> MinusTo(c)       [] s = "zero" -> ZeroTo(c)
      [] s = "any1" -> Any1To(c)         [] s = "decimal1" -> Decimal1To(c)
      [] s = "decimal2" -> Decimal2To(c) [] s = "exponent" -> ExponentTo(c)
      [] s = "sign" -> SignTo(c)         [] s = "any2" -> Any2To(c)

\* A sign makes it an integer, a fraction or an exponent a float.
KindIn(s) ==
    CASE s = "minus" -> "value_integer"
      [] s \in {"decimal1", "exponent"} -> "value_float"
      [] OTHER -> kind

\* Integers that do not fit become floats.
NumberToken(k) == IF k # "value_float" /\ FitsIn(k, buffer) THEN k ELSE "value_float"

\* The byte behind the number is put back.
ScanNumber(c) ==
    LET to == NumberTo(scan, c) IN
    /\ scan \in NumberStates
    /\ Read(c)
    /\ unget' = (to = "done")
    /\ kind' = KindIn(scan)
    /\ buffer' = IF to \in {"done", "error"} THEN buffer ELSE Append(buffer, c)
    /\ CASE to = "error" -> Fails
         [] to = "done" -> Return(NumberToken(kind))
         [] OTHER -> Goto(to)
    /\ UNCHANGED <<todo, units>>

-----------------------------------------------------------------------------
LexInit(in, bytes) ==
    /\ input = in /\ given = bytes
    /\ text = <<>> /\ ended = FALSE
    /\ current = Eof /\ unget = FALSE
    /\ scan = "bom" /\ token = "uninitialized"
    /\ buffer = <<>> /\ todo = <<>> /\ units = NoUnits /\ kind = "value_unsigned"

\* get_token: scan again.
GetToken ==
    /\ scan' = "space"
    /\ UNCHANGED <<input, given, text, ended, current, unget, token, buffer, todo, units, kind>>

LexStep ==
    \E c \in Deliverable :
          SkipBom(c) \/ Bom(c) \/ Scan(c) \/ ScanLiteral(c) \/ ScanString(c) \/ NextByteInRange(c)
          \/ Escape(c) \/ GetCodepoint(c) \/ LowSurrogate(c) \/ ScanNumber(c)

=============================================================================
