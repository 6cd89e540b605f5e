----------------------------- MODULE HttpRequest -----------------------------
(***************************************************************************)
(* How the requests of one connection are read: the bytes of a stream come *)
(* in pieces of any size, onMessage calls HttpRequest::parse on what the   *)
(* buffer holds, and every complete request is handled and answered.  One  *)
(* action is one round of the loop in parse, or of the loop in onMessage.  *)
(*                                                                         *)
(* A line of a request is two bytes, the second of which stands for all up *)
(* to CRLF; a body is bytes without CRLF.  What the network has not        *)
(* delivered is in wire, the input buffer is the Buffer.                   *)
(***************************************************************************)
EXTENDS Buffer, FiniteSets, SequencesExt

CONSTANTS
    Kinds,        \* the kinds of request a client may send, see Lines
    MaxRequests   \* bound on the requests of a behaviour

ASSUME ConstantsAssumption ==
    /\ Kinds \subseteq {"get", "close", "post", "post0", "post2", "junk", "badheader", "nan"}
    /\ MaxRequests \in Nat

\* The lines of a request; "junk" is no request line and no header.
Lines(kind) ==
    CASE kind = "get" -> <<"GET", "end">>
      [] kind = "close" -> <<"GET", "close", "end">>
      [] kind = "post" -> <<"POST", "end">>
      [] kind = "post0" -> <<"POST", "length0", "end">>
      [] kind = "post2" -> <<"POST", "length2", "end">>
      [] kind = "nan" -> <<"POST", "lengthNaN", "end">>
      [] kind = "badheader" -> <<"GET", "junk">>
      [] kind = "junk" -> <<"junk">>

BodyLength(kind) == IF kind = "post2" THEN 2 ELSE 0

Unit(n, line, part) == [req |-> n, line |-> line, part |-> part]
Encoded(kind, n) ==
    LET head == 2 * Len(Lines(kind)) IN
    [i \in 1..(head + BodyLength(kind)) |->
        IF i <= head THEN Unit(n, Lines(kind)[(i + 1) \div 2], IF i % 2 = 1 THEN 1 ELSE 2)
        ELSE Unit(n, "body", 0)]

\* Any byte a client sends is one a buffer can hold.
ASSUME BytesAssumption ==
    \A kind \in Kinds, n \in 1..MaxRequests : Encoded(kind, n) \in Seq(Byte)

VARIABLES
    sent,       \* the kinds of the requests sent
    wire,       \* bytes not yet delivered
    tls,        \* whether the connection has an SSL object
    request,    \* the HttpRequest of the connection, and the number of its request
    conn,       \* the Connection's state
    pc,         \* "wait" for data, "read" it, "parse", or the process "died"
    executed,   \* requests given to a handler
    answers,    \* responses sent
    cut         \* a body was taken before all of it was in the buffer

vars == <<bufferVars, sent, wire, tls, request, conn, pc, executed, answers, cut>>

\* HttpRequest::reset.
NewRequest ==
    [state |-> "kExpectRequestLine", req |-> 0, method |-> "INVALID", length |-> "none",
     close |-> FALSE, body |-> 0]

Init ==
    /\ BufferInit
    /\ sent = <<>> /\ wire = <<>> /\ tls \in BOOLEAN
    /\ request = NewRequest
    /\ conn = "kConnected" /\ pc = "wait"
    /\ executed = <<>> /\ answers = <<>> /\ cut = FALSE

-----------------------------------------------------------------------------
\* What is sent while onMessage runs is as good as sent when it is done.
Send(kind) ==
    /\ pc = "wait" /\ Len(sent) < MaxRequests
    /\ sent' = Append(sent, kind)
    /\ wire' = wire \o Encoded(kind, Len(sent) + 1)
    /\ UNCHANGED <<bufferVars, tls, request, conn, pc, executed, answers, cut>>

\* Connection::handleRead reads piece after piece, TLS records into its own array first,
\* until nothing more has arrived; then onMessage runs.
Read(n) ==
    /\ pc \in {"wait", "read"} /\ conn = "kConnected"
    /\ n \in 1..Len(wire)
    /\ IF tls THEN AppendBytes(SubSeq(wire, 1, n)) ELSE ReadFd(SubSeq(wire, 1, n))
    /\ wire' = SubSeq(wire, n + 1, Len(wire))
    /\ pc' = IF moved' = "died" THEN "died" ELSE "read"
    /\ UNCHANGED <<sent, tls, request, conn, executed, answers, cut>>

ReadDone ==
    /\ pc = "read"
    /\ pc' = "parse"
    /\ UNCHANGED <<bufferVars, sent, wire, tls, request, conn, executed, answers, cut>>

-----------------------------------------------------------------------------
(* HttpRequest::parse.                                                     *)

Text == Readable(buffer)

\* searchCRLF: the end of the first line in the buffer, 0 if there is none.
LineEnd == IF \E i \in DOMAIN Text : Text[i].part = 2
           THEN CHOOSE i \in DOMAIN Text :
                    Text[i].part = 2 /\ \A j \in 1..i-1 : Text[j].part # 2
           ELSE 0
\* A line that starts with the bytes of a body, or is put together from pieces of
\* others, means nothing.
Line == IF LineEnd = 2 /\ Text[1] = [Text[2] EXCEPT !.part = 1] THEN Text[1].line ELSE "junk"

Parsing(state) == pc = "parse" /\ request.state = state

\* Neither a whole line nor a whole request: onMessage waits for more data.
Incomplete ==
    /\ Parsing("kExpectRequestLine") \/ Parsing("kExpectHeaders")
    /\ LineEnd = 0
    /\ pc' = "wait"
    /\ UNCHANGED <<bufferVars, sent, wire, tls, request, conn, executed, answers, cut>>

\* A line that does not parse: 400, shutdown, and the line stays in the buffer.
BadLine ==
    /\ \/ Parsing("kExpectRequestLine") /\ Line \notin {"GET", "POST"}
       \/ Parsing("kExpectHeaders") /\ Line = "junk"
    /\ LineEnd # 0
    /\ answers' = IF conn = "kConnected"
                  THEN Append(answers, [code |-> 400, req |-> 0, body |-> 0]) ELSE answers
    /\ conn' = "kDisconnecting"
    /\ pc' = "wait"
    /\ UNCHANGED <<bufferVars, sent, wire, tls, request, executed, cut>>

ParseRequestLine ==
    /\ Parsing("kExpectRequestLine") /\ LineEnd # 0
    /\ Line \in {"GET", "POST"}
    /\ request' = [request EXCEPT !.state = "kExpectHeaders", !.method = Line, !.req = Text[1].req]
    /\ Retrieve(LineEnd)
    /\ UNCHANGED <<sent, wire, tls, conn, pc, executed, answers, cut>>

ParseHeader ==
    /\ Parsing("kExpectHeaders") /\ LineEnd # 0
    /\ Line \notin {"end", "junk"}
    /\ request' = IF Line = "close" THEN [request EXCEPT !.close = TRUE]
                                    ELSE [request EXCEPT !.length = Line]
    /\ Retrieve(LineEnd)
    /\ UNCHANGED <<sent, wire, tls, conn, pc, executed, answers, cut>>

\* Only a POST has a body; stoi throws on a length that is no number.
BodyFollows == request.method = "POST" /\ request.length = "length2"
Throws == request.method = "POST" /\ request.length = "lengthNaN"

EndOfHeaders ==
    /\ Parsing("kExpectHeaders") /\ LineEnd # 0
    /\ Line = "end"
    /\ Retrieve(LineEnd)
    /\ request' = [request EXCEPT !.state = IF BodyFollows THEN "kExpectBody" ELSE "kGotALL"]
    /\ pc' = IF Throws THEN "died" ELSE "parse"
    /\ UNCHANGED <<sent, wire, tls, conn, executed, answers, cut>>

\* parseBody leaves the body empty if not all of it is there; the state becomes
\* kGotALL all the same.
ParseBody ==
    LET whole == ReadableBytes(buffer) >= 2 IN
    /\ Parsing("kExpectBody")
    /\ request' = [request EXCEPT !.state = "kGotALL", !.body = IF whole THEN 2 ELSE 0]
    /\ IF whole THEN Retrieve(2) ELSE UNCHANGED bufferVars
    /\ cut' = (cut \/ ~whole)
    /\ UNCHANGED <<sent, wire, tls, conn, pc, executed, answers>>

-----------------------------------------------------------------------------
(* A round of onMessage that found a whole request.                        *)

Answer == [code |-> 200, req |-> request.req, body |-> request.body]

ResetKeepsBody == [NewRequest EXCEPT !.body = request.body]   \* faulty variant
ResetNothing == request   \* faulty variant
Reset == NewRequest

\* After a shutdown the response is dropped, but the handler has run; requests that
\* are already in the buffer are still served in this way.
Serve ==
    /\ Parsing("kGotALL")
    /\ executed' = Append(executed, request.req)
    /\ answers' = IF conn = "kConnected" THEN Append(answers, Answer) ELSE answers
    /\ conn' = IF request.close THEN "kDisconnecting" ELSE conn
    /\ request' = Reset
    /\ pc' = IF ReadableBytes(buffer) = 0 THEN "wait" ELSE "parse"
    /\ UNCHANGED <<bufferVars, sent, wire, tls, cut>>

Parse ==
    \/ Incomplete \/ BadLine \/ ParseRequestLine \/ ParseHeader
    \/ EndOfHeaders \/ ParseBody \/ Serve

Next ==
    \/ \E kind \in Kinds : Send(kind)
    \/ \E n \in 1..Len(wire) : Read(n)
    \/ ReadDone
    \/ Parse

Spec == Init /\ [][Next]_vars

-----------------------------------------------------------------------------
TypeOK ==
    /\ BufferTypeOK
    /\ tls \in BOOLEAN
    /\ sent \in BoundedSeq(Kinds, MaxRequests)
    /\ request.state \in {"kExpectRequestLine", "kExpectHeaders", "kExpectBody", "kGotALL"}
    /\ request.req \in 0..Len(sent)
    /\ executed \in BoundedSeq(1..MaxRequests, MaxRequests)
    /\ \A i \in DOMAIN answers : answers[i].req \in 0..Len(sent) /\ answers[i].body \in {0, 2}
    /\ conn \in {"kConnected", "kDisconnecting"}
    /\ pc \in {"wait", "read", "parse", "died"}
    /\ cut \in BOOLEAN

\* What the stream means, however it is cut into pieces: every request is answered in
\* its turn, up to the first that asks to close, does not parse or has no length.
EndsStream(kind) == kind \in {"close", "junk", "badheader", "nan"}
Ended == {i \in DOMAIN sent : EndsStream(sent[i])}
Expected(i) ==
    IF sent[i] \in {"junk", "badheader"} THEN [code |-> 400, req |-> 0, body |-> 0]
    ELSE [code |-> 200, req |-> i, body |-> BodyLength(sent[i])]
Meant == {i \in DOMAIN sent : sent[i] # "nan" /\ \A j \in Ended : i <= j}
Meaning == [i \in Meant |-> Expected(i)]

\* The answers do not depend on how the stream was cut into pieces, unless a body was
\* cut: they are those of the whole stream, in its order, and once everything has
\* arrived everything is answered.
AnswersFollowStream ==
    ~cut /\ moved = "no" =>
        /\ IsPrefix(answers, Meaning)
        /\ pc = "wait" /\ wire = <<>> => answers = Meaning

\* No request reaches a handler twice, or after a later one, whatever was cut.
ExecutedInOrder ==
    moved = "no" => \A i, j \in DOMAIN executed : i < j => executed[i] < executed[j]

\* http_request.cpp:73, "the body is to be read as Content-Length says": a request is
\* not handled before its body has arrived.
BodyIsWhole ==
    \A i \in DOMAIN answers :
        answers[i].code = 200 /\ moved = "no" => answers[i].body = BodyLength(sent[answers[i].req])

=============================================================================
