----------------------------- MODULE JsonParser -----------------------------
(***************************************************************************)
(* The parser of the JSON library: a loop over the tokens with a stack of  *)
(* the containers that are open (sax_parse_internal), and the builder that *)
(* turns its events into values (json_sax_dom_parser).  The builder keeps  *)
(* raw pointers to the open containers and to the element a key named, so  *)
(* values live at addresses: the elements of an array move when its vector *)
(* grows, and what was there is gone.                                      *)
(*                                                                         *)
(* A value is <<type, payload>>; an array holds the addresses of its       *)
(* elements, an object the address of the value of each key.               *)
(***************************************************************************)
EXTENDS JsonLexer

VARIABLES
    states,   \* the containers that are open, as the parser counts them
    expects,  \* what the token that is read next is taken for
    memory,   \* address -> value
    refs,     \* ref_stack
    element,  \* object_element
    outcome   \* "parsing", or how it ended

domVars == <<memory, refs, element>>
parseVars == <<lexVars, states, expects, domVars, outcome>>

Freed == <<"freed", 0>>
Nullptr == 0
Dom == [memory |-> memory, refs |-> refs, element |-> element]
Becomes(dom) == memory' = dom.memory /\ refs' = dom.refs /\ element' = dom.element

-----------------------------------------------------------------------------
(* json_sax_dom_parser.                                                    *)

\* emplace_back: a full vector (its capacity doubles) moves its elements.
IsFull(n) == \E k \in 0..n : n = 2^k
MovedTo(mem, addresses) ==
    [a \in 1..(Len(mem) + Len(addresses)) |->
        IF a > Len(mem) THEN mem[addresses[a - Len(mem)]]
        ELSE IF a \in ToSet(addresses) THEN Freed ELSE mem[a]]
EmplaceBack(dom, array, value) ==
    LET old == dom.memory[array][2]
        moves == IsFull(Len(old))
        mem == IF moves THEN MovedTo(dom.memory, old) ELSE dom.memory
        elements == IF moves THEN [i \in 1..Len(old) |-> Len(dom.memory) + i] ELSE old
        new == Append(mem, value)
    IN  [dom EXCEPT !.memory =
            [new EXCEPT ![array] = <<"array", Append(elements, Len(new))>>]]

\* handle_value, and the address it returns.
HandleValue(dom, value) ==
    IF dom.refs = <<>> THEN [dom |-> [dom EXCEPT !.memory[1] = value], at |-> 1]
    ELSE IF dom.memory[Last(dom.refs)][1] = "array"
    THEN LET new == EmplaceBack(dom, Last(dom.refs), value)
         IN  [dom |-> new, at |-> Len(new.memory)]
    ELSE [dom |-> [dom EXCEPT !.memory[dom.element] = value], at |-> dom.element]

\* start_object and start_array.
StartContainer(dom, type) ==
    LET handled == HandleValue(dom, <<type, <<>>>>) IN
    [handled.dom EXCEPT !.refs = Append(@, handled.at)]

\* key: operator[] of the map finds the element or makes one.
KeyOf(dom, key) ==
    LET object == Last(dom.refs)
        members == dom.memory[object][2]
        at == Len(dom.memory) + 1
        grown == [k \in DOMAIN members \cup {key} |-> IF k = key THEN at ELSE members[k]]
    IN  IF key \in DOMAIN members THEN [dom EXCEPT !.element = members[key]]
        ELSE [dom EXCEPT !.memory = Append([@ EXCEPT ![object] = <<"object", grown>>], <<"null", 0>>),
                         !.element = at]

\* end_object and end_array.
EndContainer(dom) == [dom EXCEPT !.refs = Front(@)]

-----------------------------------------------------------------------------
(* sax_parse_internal.                                                     *)

ParseInit(in, bytes, how) ==
    /\ LexInit(in, bytes)
    /\ states = <<>> /\ expects = "value"
    /\ memory = <<Freed>> /\ refs = <<>> /\ element = Nullptr
    /\ outcome = how

Next1(what) == expects' = what /\ GetToken /\ UNCHANGED outcome
TokenRead(what) == outcome = "parsing" /\ scan = "token" /\ expects = what
Error(code) ==
    /\ outcome' = code
    /\ UNCHANGED <<lexVars, states, expects, domVars>>

Scalars == {"value_unsigned", "value_integer", "value_float", "value_string",
            "literal_true", "literal_false", "literal_null"}
ScalarRead ==
    CASE token = "value_unsigned" -> <<"unsigned", NumberOf(buffer)>>
      [] token = "value_integer" -> <<"integer", IntegerOf(buffer)>>
      [] token = "value_float" -> <<"float", FloatOf(buffer)>>
      [] token = "value_string" -> <<"string", buffer>>
      [] token = "literal_true" -> <<"boolean", 1>>
      [] token = "literal_false" -> <<"boolean", 0>>
      [] token = "literal_null" -> <<"null", 0>>
IsFinite(value) == value[1] = "float" => value[2].bits # Infinity

\* What follows a value that is complete: what the containers around it say.
ValueEnds(open) ==
    Next1(IF open = <<>> THEN "end" ELSE IF Last(open) = "array" THEN "more" ELSE "member")

ParseScalar ==
    /\ TokenRead("value") /\ token \in Scalars
    /\ IF IsFinite(ScalarRead)
       THEN Becomes(HandleValue(Dom, ScalarRead).dom) /\ ValueEnds(states) /\ UNCHANGED states
       ELSE Error("406")

BeginObject ==
    /\ TokenRead("value") /\ token = "begin_object"
    /\ Becomes(StartContainer(Dom, "object"))
    /\ Next1("first key") /\ UNCHANGED states
BeginArray ==
    /\ TokenRead("value") /\ token = "begin_array"
    /\ Becomes(StartContainer(Dom, "array"))
    /\ Next1("first element") /\ UNCHANGED states

EndEmpty ==
    /\ \/ TokenRead("first key") /\ token = "end_object"
       \/ TokenRead("first element") /\ token = "end_array"
    /\ Becomes(EndContainer(Dom))
    /\ ValueEnds(states) /\ UNCHANGED states

\* The token of the first element is handled without reading another.
FirstElement ==
    /\ TokenRead("first element") /\ token # "end_array"
    /\ states' = Append(states, "array")
    /\ expects' = "value"
    /\ UNCHANGED <<lexVars, domVars, outcome>>

ParseKey ==
    /\ TokenRead("first key") \/ TokenRead("key")
    /\ token = "value_string"
    /\ Becomes(KeyOf(Dom, buffer))
    /\ Next1(IF expects = "key" THEN "separator" ELSE "first separator")
    /\ UNCHANGED states
NameSeparator ==
    /\ TokenRead("first separator") \/ TokenRead("separator")
    /\ token = "name_separator"
    /\ states' = IF expects = "separator" THEN states ELSE Append(states, "object")
    /\ Next1("value") /\ UNCHANGED domVars

ValueSeparator ==
    /\ TokenRead("more") \/ TokenRead("member")
    /\ token = "value_separator"
    /\ Next1(IF expects = "more" THEN "value" ELSE "key")
    /\ UNCHANGED <<states, domVars>>

EndOfContainer ==
    /\ \/ TokenRead("more") /\ token = "end_array"
       \/ TokenRead("member") /\ token = "end_object"
    /\ Becomes(EndContainer(Dom))
    /\ states' = Front(states)
    /\ ValueEnds(Front(states))

\* parse: strict.
Accept ==
    /\ TokenRead("end") /\ token = "end_of_input"
    /\ outcome' = "accepted"
    /\ UNCHANGED <<lexVars, states, expects, domVars>>

Allowed(what) ==
    CASE what = "value" -> Scalars \cup {"begin_object", "begin_array"}
      [] what = "first element" -> {token}
      [] what = "first key" -> {"value_string", "end_object"}
      [] what = "key" -> {"value_string"}
      [] what \in {"first separator", "separator"} -> {"name_separator"}
      [] what = "more" -> {"value_separator", "end_array"}
      [] what = "member" -> {"value_separator", "end_object"}
      [] what = "end" -> {"end_of_input"}
ParseError ==
    /\ TokenRead(expects) /\ token \notin Allowed(expects)
    /\ Error("101")

ParseStep ==
    \/ ParseScalar \/ BeginObject \/ BeginArray \/ EndEmpty \/ FirstElement \/ ParseKey
    \/ NameSeparator \/ ValueSeparator \/ EndOfContainer \/ Accept \/ ParseError
    \/ outcome = "parsing" /\ LexStep /\ UNCHANGED <<states, expects, domVars, outcome>>

=============================================================================
