--------------------------- MODULE JsonSerializer ---------------------------
(***************************************************************************)
(* The serializer of the JSON library.  Strings go through a decoder of    *)
(* UTF-8 and a buffer of BufferSize bytes that is written out when it has  *)
(* no room left for the longest escape.                                    *)
(***************************************************************************)
EXTENDS JsonDtoa, Functions

CONSTANTS BufferSize   \* string_buffer: 512 in the library

ASSUME BufferAssumption == BufferSize \in Nat /\ BufferSize >= 16

-----------------------------------------------------------------------------
(* decode: a finite automaton over classes of bytes.                       *)
ACCEPT == 0
REJECT == 1
ClassOf(b) ==
    CASE b \in 0..127 -> 0
      [] b \in 128..143 -> 1
      [] b \in 144..159 -> 9
      [] b \in 160..191 -> 7
      [] b \in {192, 193} \cup (245..255) -> 8
      [] b \in 194..223 -> 2
      [] b = 224 -> 10
      [] b \in (225..236) \cup {238, 239} -> 3
      [] b = 237 -> 4
      [] b = 240 -> 11
      [] b \in 241..243 -> 6
      [] b = 244 -> 5
\* Rows of the table; what is not listed leads to REJECT.
Transition ==
    (0 :> ((0 :> 0) @@ (2 :> 2) @@ (3 :> 3) @@ (4 :> 5) @@ (5 :> 8) @@ (6 :> 7) @@ (10 :> 4) @@ (11 :> 6)))
    @@ (2 :> ((1 :> 0) @@ (7 :> 0) @@ (9 :> 0))) @@ (3 :> ((1 :> 2) @@ (7 :> 2) @@ (9 :> 2)))
    @@ (4 :> (7 :> 2)) @@ (5 :> ((1 :> 2) @@ (9 :> 2))) @@ (6 :> ((7 :> 3) @@ (9 :> 3)))
    @@ (7 :> ((1 :> 3) @@ (7 :> 3) @@ (9 :> 3))) @@ (8 :> (1 :> 3))
Decoded(state, b) ==
    IF ClassOf(b) \in DOMAIN Transition[state] THEN Transition[state][ClassOf(b)] ELSE REJECT
CodepointOf(state, codepoint, b) ==
    IF state # ACCEPT THEN (b % 64) + codepoint * 64
    ELSE IF ClassOf(b) < 8 THEN b % 2^(8 - ClassOf(b)) ELSE 0

-----------------------------------------------------------------------------
(* dump_escaped.                                                           *)
HexDigitOf(n) == IF n < 10 THEN 48 + n ELSE 87 + n
U4(n) == <<92, 117, HexDigitOf(n \div 4096), HexDigitOf((n \div 256) % 16),
           HexDigitOf((n \div 16) % 16), HexDigitOf(n % 16)>>
Surrogates(codepoint) == U4(55232 + (codepoint \div 1024)) \o U4(56320 + (codepoint % 1024))
Short == (8 :> 98) @@ (9 :> 116) @@ (10 :> 110) @@ (12 :> 102) @@ (13 :> 114)
         @@ (34 :> 34) @@ (92 :> 92)
\* What the last byte of a code point adds to the buffer.
Escaped(codepoint, b, ascii) ==
    CASE codepoint \in DOMAIN Short -> <<92, Short[codepoint]>>
      [] codepoint \notin DOMAIN Short /\ (codepoint < 32 \/ (ascii /\ codepoint >= 127)) ->
           IF codepoint < 65536 THEN U4(codepoint) ELSE Surrogates(codepoint)
      [] OTHER -> <<b>>
Replacement(ascii) == IF ascii THEN U4(65533) ELSE <<239, 191, 189>>

\* The buffer is written out while the longest escape still fits.
FlushedUnmarked(e) ==   \* faulty variant: what was accepted is not remembered
    IF BufferSize - Len(e.buffer) < 13
    THEN [e EXCEPT !.out = @ \o e.buffer, !.buffer = <<>>, !.accepted = 0] ELSE e
Flushed(e) ==
    IF BufferSize - Len(e.buffer) < 13
    THEN [e EXCEPT !.out = @ \o e.buffer, !.buffer = <<>>, !.accepted = 0]
    ELSE [e EXCEPT !.accepted = Len(e.buffer)]

\* A byte that does not belong to a sequence that was begun is looked at again.
CodepointEnds(e, codepoint, b, ascii) ==
    Flushed([e EXCEPT !.buffer = @ \o Escaped(codepoint, b, ascii), !.state = ACCEPT,
                      !.codepoint = codepoint, !.undumped = 0])
SequenceGoesOn(e, state, codepoint, b, ascii) ==
    [e EXCEPT !.buffer = IF ascii THEN @ ELSE Append(@, b), !.state = state,
              !.codepoint = codepoint, !.undumped = @ + 1]
Rejected(e, handler, ascii) ==
    LET back == [e EXCEPT !.buffer = SubSeq(@, 1, e.accepted), !.state = ACCEPT, !.undumped = 0]
    IN  CASE handler = "strict" -> [e EXCEPT !.throws = TRUE]
          [] handler = "ignore" -> back
          [] handler = "replace" -> Flushed([back EXCEPT !.buffer = @ \o Replacement(ascii)])
\* One round of the loop; a rejected byte behind others is taken once more.
Round1(e, b, handler, ascii) ==
    LET state == Decoded(e.state, b)
        codepoint == CodepointOf(e.state, e.codepoint, b)
    IN  CASE state = ACCEPT -> CodepointEnds(e, codepoint, b, ascii)
          [] state = REJECT -> Rejected(e, handler, ascii)
          [] OTHER -> SequenceGoesOn(e, state, codepoint, b, ascii)
ByteDumped(e, b, handler, ascii) ==
    IF e.throws THEN e
    ELSE IF Decoded(e.state, b) = REJECT /\ e.undumped > 0 /\ handler # "strict"
    THEN Round1(Round1(e, b, handler, ascii), b, handler, ascii)
    ELSE Round1(e, b, handler, ascii)

\* What is left of the buffer, and of a sequence that did not end.
LastWritten(e, handler, ascii) ==
    IF e.state = ACCEPT THEN [text |-> e.out \o e.buffer, throws |-> e.throws]
    ELSE [text |-> e.out \o SubSeq(e.buffer, 1, e.accepted)
                   \o (IF handler = "replace" THEN Replacement(ascii) ELSE <<>>),
          throws |-> e.throws \/ handler = "strict"]
DumpEscaped(s, handler, ascii) ==
    LET start == [out |-> <<>>, buffer |-> <<>>, accepted |-> 0, undumped |-> 0,
                  state |-> ACCEPT, codepoint |-> 0, throws |-> FALSE]
    IN  LastWritten(FoldLeft(LAMBDA e, b : ByteDumped(e, b, handler, ascii), start, s),
                    handler, ascii)

-----------------------------------------------------------------------------
(* dump: options are [indent, ascii, handler]; an indent below 0 is compact. *)
Written(text) == [text |-> text, throws |-> FALSE]
Then(r, s) == [text |-> r.text \o s.text, throws |-> r.throws \/ s.throws]
Joined(parts) == FoldLeft(Then, Written(<<>>), parts)
Quoted(s, o) == Joined(<<Written(<<34>>), DumpEscaped(s, o.handler, o.ascii), Written(<<34>>)>>)

Pretty(o) == o.indent >= 0
NewLine(o, indent) == IF Pretty(o) THEN <<10>> \o [i \in 1..indent |-> 32] ELSE <<>>
\* The items of a container, one on each line if pretty.
Container(open, items, close, o, current) ==
    LET Item(i) == Then(Written((IF i = 1 THEN <<>> ELSE <<44>>) \o NewLine(o, current + o.indent)),
                        items[i])
    IN  IF items = <<>> THEN Written(<<open, close>>)
        ELSE Joined(<<Written(<<open>>), Joined([i \in 1..Len(items) |-> Item(i)]),
                      Written(NewLine(o, current) \o <<close>>)>>)

\* The order of the keys of a std::map.
Before(s, t) ==
    \/ IsStrictPrefix(s, t)
    \/ \E i \in DOMAIN s \cap DOMAIN t : s[i] < t[i] /\ \A j \in 1..(i - 1) : s[j] = t[j]
Keys(members) ==
    LET keys == DOMAIN members IN
    [i \in 1..Cardinality(keys) |-> CHOOSE k \in keys : Cardinality({j \in keys : Before(j, k)}) = i - 1]

RECURSIVE Dumped(_, _, _)
Dumped(value, o, current) ==
    LET new == current + o.indent
        Member(members, key) ==
            Joined(<<Quoted(key, o), Written(<<58>> \o (IF Pretty(o) THEN <<32>> ELSE <<>>)),
                     Dumped(members[key], o, new)>>)
    IN  CASE value[1] = "object" ->
               Container(123, [i \in DOMAIN Keys(value[2]) |-> Member(value[2], Keys(value[2])[i])],
                         125, o, current)
          [] value[1] = "array" ->
               Container(91, [i \in DOMAIN value[2] |-> Dumped(value[2][i], o, new)], 93, o, current)
          [] value[1] = "string" -> Quoted(value[2], o)
          [] value[1] = "boolean" ->
               Written(IF value[2] = 1 THEN <<116, 114, 117, 101>> ELSE <<102, 97, 108, 115, 101>>)
          [] value[1] \in {"integer", "unsigned"} -> Written(DumpInteger(value[2]))
          [] value[1] = "float" -> Written(DumpFloat(value[2]))
          [] value[1] = "null" -> Written(<<110, 117, 108, 108>>)

\* basic_json::dump.
Dump(value, o) == Dumped(value, o, 0)

=============================================================================
