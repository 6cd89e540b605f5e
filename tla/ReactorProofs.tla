---------------------------- MODULE ReactorProofs ----------------------------
(***************************************************************************)
(* What the loop, its poller and its timers promise of the connections,    *)
(* for any number of connections and descriptors, whatever the peers send  *)
(* and the kernel answers: no pointer the loop keeps dangles, the maps by  *)
(* descriptor agree, no replaced timer fires, a closed connection watches  *)
(* nothing, and, without TLS, an open one keeps its timer, flushes before  *)
(* it closes and has no input the loop was not told of.                    *)
(*                                                                         *)
(* The handlers are taken one by one: what each may make of a connection   *)
(* (After, Handshaken), what Effect then does to the maps, the queue and   *)
(* the timers (EffectObjects, EffectTimers), and then every action.        *)
(***************************************************************************)
EXTENDS Reactor, SequenceLemmas, TLAPS

-----------------------------------------------------------------------------
(* The inductive invariant.                                                *)

\* What the variables of the connections hold, and those of the loop's round.
ObjectTypes ==
    /\ setup \in Setups
    /\ conn \in [Conns -> ConnType]
    /\ sock \in [Conns -> SockType]
    /\ ready \subseteq Conns
    /\ connections \in [Fds -> Conns \cup {NoConn}]
    /\ channels \in [Fds -> Conns \cup {NoConn}]
    /\ timers \subseteq Conns \X {0, 1}
    /\ pending \in Seq(Functors) /\ running \in Seq(Functors)
    /\ retired \subseteq Conns
RoundTypes ==
    /\ pc \in {"poll", "events", "functors", "timers", "expire"}
    /\ active \subseteq [conn : Conns, revents : SUBSET {"IN", "OUT", "HUP", "ERR"}]
    /\ expired \subseteq Conns \X {0, 1}
    /\ cur \in Conns \cup {NoConn}
    /\ todo \subseteq {"close", "error", "handshake", "read", "write"}

\* The loop holds c's object and its channel.
Attached(c) == conn[c].state \in Live \cup {"kDisconnected"} /\ c \notin retired

\* No two connections own one descriptor.
FdInv ==
    \A c, d \in Conns :
        conn[c].state \in HoldsFd /\ conn[d].state \in HoldsFd /\ conn[c].fd = conn[d].fd => c = d

Establishing(c) == [op |-> "establish", conn |-> c]
Removing(c) == [op |-> "remove", conn |-> c]
Queued == ToSet(running) \cup ToSet(pending)

\* One functor waits for each connection that is to be established or removed.
QueueInv ==
    /\ Once(running) /\ Once(pending) /\ ToSet(running) \cap ToSet(pending) = {}
    /\ \A c \in Conns :
        /\ Establishing(c) \in Queued <=> conn[c].state = "accepted"
        /\ Removing(c) \in Queued <=> conn[c].state = "kDisconnected" /\ c \notin retired

\* The maps of the loop and of the poller hold the connections that are attached.
MapInv ==
    /\ \A fd \in Fds : connections[fd] # NoConn =>
           conn[connections[fd]].state \in Live /\ conn[connections[fd]].fd = fd
    /\ \A fd \in Fds : channels[fd] # NoConn =>
           Attached(channels[fd]) /\ conn[channels[fd]].fd = fd
    /\ \A c \in Conns : conn[c].state \in Live => connections[conn[c].fd] = c
    /\ \A c \in Conns : Attached(c) => channels[conn[c].fd] = c
    /\ \A c \in retired : conn[c].state = "kDisconnected"

\* What the callbacks have made of a connection: without interest once it is closed,
\* and no handshake that failed can be taken up again.
Greeting(s) == s.inbox # <<>> /\ Head(s.inbox) = "hello"
Refused(s) == s.rst \/ (~Greeting(s) /\ (s.end \/ s.inbox # <<>>))
Sound(r, s) ==
    /\ r.state \in {"kDisconnected", "destroyed"} => r.events = {}
    /\ r.handler = "handshake" => Ssl /\ r.state \in {"kConnecting", "kDisconnected"}
    /\ r.state = "kConnecting" => r.handler = "handshake"
    /\ r.handler = "handshake" /\ r.state = "kDisconnected" => Refused(s)
    /\ Len(s.inbox) <= s.sent
SoundInv == \A c \in Conns : Sound(conn[c], sock[c])

Objects == ObjectTypes /\ FdInv /\ QueueInv /\ MapInv /\ SoundInv

\* What the loop holds belongs to where it stands, and is attached to it.
RoundInv ==
    /\ pc # "functors" => running = <<>> /\ retired = {}
    /\ pc # "events" => active = {}
    /\ pc # "expire" => expired = {}
    /\ cur # NoConn => pc \in {"events", "functors"} /\ Attached(cur)
    /\ cur = NoConn => todo = {} /\ msgs = <<>>
    /\ cur # NoConn /\ (todo \cap {"close", "error"} # {} \/ msgs # <<>>) =>
           conn[cur].handler = "http"
    /\ \A a \in active : Attached(a.conn)
    /\ \A c \in ready : Attached(c)

\* A timer belongs to a connection that was established, and while that lives, to its
\* last activity.
TimerInv ==
    \A t \in timers \cup expired :
        /\ conn[t[1]].state \notin {"none", "accepted"}
        /\ conn[t[1]].state \in Live => t[2] = conn[t[1]].timer

\* No assert fails; what ends the process is a callback.
DiedInv ==
    /\ died \in {"no", "retrieve", "sigpipe"}
    /\ died # "no" => pc \in {"events", "functors"}

GuardInv ==
    ~Ssl => \A c \in Conns : conn[c].state = "kConnected" => Guarded(c) \/ died # "no"

\* Without TLS: interest in input lasts as long as the connection, a response that waits
\* is watched for, and nothing waits once the write half is shut down.
Plain(r, s) ==
    /\ r.state \in Live => "R" \in r.events
    /\ r.state \in Live /\ r.output => "W" \in r.events
    /\ r.state = "accepted" => ~r.output
    /\ ~s.notified
    /\ s.fin => ~r.output /\ r.state \in {"kDisconnecting", "kDisconnected"}
PlainInv == ~Ssl => \A c \in Conns : Plain(conn[c], sock[c])

\* Without TLS, input that was not read yet is on its way to the loop.
Noticed(c) ==
    \/ c \in ready
    \/ \E a \in active : a.conn = c /\ "IN" \in a.revents
    \/ cur = c /\ "read" \in todo
UnreadInv ==
    ~Ssl => \A c \in Conns : conn[c].state = "kConnected" /\ sock[c].inbox # <<>> => Noticed(c)

IInv ==
    /\ Objects /\ RoundTypes /\ RoundInv /\ TimerInv /\ DiedInv
    /\ GuardInv /\ PlainInv /\ UnreadInv

-----------------------------------------------------------------------------
(* What the handlers of Connection may make of one.                        *)

\* What an Outcome holds.
LEMMA OutcomeFields ==
    \A r, s, how :
        /\ Outcome(r, s).conn = r /\ Outcome(r, s).sock = s /\ Outcome(r, s).died = "no"
        /\ Dies(r, s, how).conn = r /\ Dies(r, s, how).sock = s /\ Dies(r, s, how).died = how
BY DEF Outcome, Dies

\* What no callback changes.
Same(r, q) == q.fd = r.fd /\ q.timer = r.timer /\ q.handler = r.handler
\* What a peer sent is not touched.
SameIn(s, z) == z.inbox = s.inbox /\ z.end = s.end /\ z.sent = s.sent

\* handleClose's and the masks' updates, field by field.
LEMMA ConnFields ==
    ASSUME NEW r \in ConnType
    PROVE  /\ Closed(r) \in ConnType /\ Same(r, Closed(r))
           /\ Closed(r).state = "kDisconnected" /\ Closed(r).events = {}
           /\ Closed(r).output = r.output
           /\ Writing(r) \in ConnType /\ Same(r, Writing(r))
           /\ Writing(r).state = r.state /\ Writing(r).events = r.events \cup {"W"}
           /\ Writing(r).output = r.output
           /\ NotWriting(r) \in ConnType /\ Same(r, NotWriting(r))
           /\ NotWriting(r).state = r.state /\ NotWriting(r).events = r.events \ {"W"}
           /\ NotWriting(r).output = r.output
  BY DEF ConnType, States, Closed, Writing, NotWriting, Same

\* An update of the state, or of the output, leaves the other fields.
LEMMA ConnUpdate ==
    ASSUME NEW r \in ConnType
    PROVE  /\ \A st \in States : LET q == [r EXCEPT !.state = st] IN
                /\ q \in ConnType /\ Same(r, q)
                /\ q.state = st /\ q.events = r.events /\ q.output = r.output
           /\ \A b \in BOOLEAN : LET q == [r EXCEPT !.output = b] IN
                /\ q \in ConnType /\ Same(r, q)
                /\ q.state = r.state /\ q.events = r.events /\ q.output = b
  BY DEF ConnType, Same

\* BoundedSeq of the community modules holds the sequences up to a length.
LEMMA BoundedSeqIs ==
    ASSUME NEW S, NEW n \in Nat, NEW s
    PROVE  s \in BoundedSeq(S, n) <=> s \in Seq(S) /\ Len(s) <= n
<1>1. ASSUME s \in BoundedSeq(S, n) PROVE s \in Seq(S) /\ Len(s) <= n
  <2>1. PICK m \in 0..n : s \in [1..m -> S]
    BY <1>1 DEF BoundedSeq, SeqOf
  <2> QED
    BY <2>1
<1>2. ASSUME s \in Seq(S), Len(s) <= n PROVE s \in BoundedSeq(S, n)
  <2>1. Len(s) \in 0..n /\ s \in [1..Len(s) -> S]
    BY <1>2
  <2> QED
    BY <2>1 DEF BoundedSeq, SeqOf
<1> QED
  BY <1>1, <1>2

\* The updates of the kernel's side that the handlers make.
LEMMA SockUpdate ==
    ASSUME NEW s \in SockType
    PROVE  /\ Broken(s) \in SockType /\ SameIn(s, Broken(s)) /\ Broken(s).fin = s.fin
           /\ Broken(s).notified = s.notified
           /\ Filled(s) \in SockType /\ SameIn(s, Filled(s)) /\ Filled(s).fin = s.fin
           /\ Filled(s).notified = s.notified
           /\ \A b \in BOOLEAN : LET z == [s EXCEPT !.fin = b] IN
                 /\ z \in SockType /\ SameIn(s, z) /\ z.fin = b /\ z.notified = s.notified
           /\ \A b \in BOOLEAN : LET z == [s EXCEPT !.notified = b] IN
                 /\ z \in SockType /\ SameIn(s, z) /\ z.fin = s.fin /\ z.notified = b
  BY DEF SockType, Broken, Filled, SameIn

\* The states of a connection that speaks HTTP and was established.
HttpStates == {"kConnected", "kDisconnecting", "kDisconnected"}

\* What a handler of an HTTP connection may make of it.
After(r, s, q, z) ==
    /\ q \in ConnType /\ z \in SockType /\ Same(r, q)
    /\ q.state \in HttpStates
    /\ q.state = "kConnected" => r.state = "kConnected"
    /\ r.state = "kDisconnected" => q.state = "kDisconnected"
    /\ q.state = "kDisconnected" => q.events = {}
    /\ z.end = s.end /\ z.sent = s.sent /\ z.inbox \in {s.inbox, <<>>}
    /\ ~Ssl /\ Plain(r, s) => Plain(q, z)

\* A connection that speaks HTTP.
OpenHttp(r) ==
    /\ r \in ConnType /\ r.state \in HttpStates
    /\ r.state = "kDisconnected" => r.events = {}

\* One handler after another.
LEMMA AfterTransitive ==
    ASSUME NEW r, NEW s, NEW q, NEW z, NEW q2, NEW z2, After(r, s, q, z), After(q, z, q2, z2)
    PROVE  After(r, s, q2, z2)
BY DEF After, Same

\* A handler that changes nothing.
LEMMA AfterNothing ==
    ASSUME NEW r, OpenHttp(r), NEW s \in SockType
    PROVE  After(r, s, r, s)
BY DEF After, Same, OpenHttp

\* A handler that ends in handleClose.
LEMMA AfterClose ==
    ASSUME NEW r, OpenHttp(r), NEW s \in SockType, NEW z \in SockType,
           z.end = s.end, z.sent = s.sent, z.inbox \in {s.inbox, <<>>}, z.fin = s.fin, ~Ssl => z.notified = s.notified
    PROVE  After(r, s, Closed(r), z)
BY ConnFields DEF After, Same, OpenHttp, HttpStates, Plain, Live

\* sendInLoop.
LEMMA SendAfter ==
    ASSUME NEW r, OpenHttp(r), NEW s \in SockType, NEW o \in SendInLoop(r, s)
    PROVE  After(r, s, o.conn, o.sock) /\ o.died \in {"no", "sigpipe"}
<1>1. r \in ConnType
  BY DEF OpenHttp
<1> DEFINE w == [Writing(r) EXCEPT !.output = TRUE]
<1>2. /\ w \in ConnType /\ Same(r, w) /\ w.state = r.state /\ w.events = r.events \cup {"W"}
      /\ w.output = TRUE
  <2>1. /\ Writing(r) \in ConnType /\ Same(r, Writing(r))
        /\ Writing(r).state = r.state /\ Writing(r).events = r.events \cup {"W"}
    BY <1>1, ConnFields
  <2> QED
    BY <2>1, ConnUpdate DEF Same
<1>3. o \in {Outcome(r, s), Outcome(w, s), Outcome(w, Filled(s)), Outcome(Closed(r), Broken(s)),
             Dies(r, Broken(s), "sigpipe")}
  BY DEF SendInLoop, When
<1>4. o # Outcome(r, s) => r.state = "kConnected"
  BY DEF SendInLoop, OpenHttp, HttpStates
<1> HIDE DEF w
<1>5. o.died \in {"no", "sigpipe"} /\ <<o.conn, o.sock>> \in {<<r, s>>, <<w, s>>, <<w, Filled(s)>>,
             <<Closed(r), Broken(s)>>, <<r, Broken(s)>>}
  BY <1>3, OutcomeFields
<1>6. After(r, s, r, s) /\ After(r, s, r, Broken(s)) /\ After(r, s, Closed(r), Broken(s))
  BY <1>1, AfterNothing, AfterClose, SockUpdate DEF After, SameIn, Same, Plain, OpenHttp
<1>7. ASSUME r.state = "kConnected" PROVE After(r, s, w, s) /\ After(r, s, w, Filled(s))
  BY <1>1, <1>2, <1>7, SockUpdate DEF After, SameIn, Same, Plain, HttpStates, Live
<1>8. CASE r.state # "kConnected"
  BY <1>4, <1>6, <1>8, OutcomeFields
<1>9. CASE r.state = "kConnected"
  BY <1>5, <1>6, <1>7, <1>9
<1> QED
  BY <1>8, <1>9

\* shutdownInLoop: the connection is no longer connected, or the process ended.
LEMMA ShutdownAfter ==
    ASSUME NEW r, OpenHttp(r), NEW s \in SockType, NEW o \in ShutdownInLoop(r, s)
    PROVE  After(r, s, o.conn, o.sock) /\ o.died \in {"no", "sigpipe"}
           /\ (o.conn.state # "kConnected" \/ o.died # "no")
<1>1. r \in ConnType
  BY DEF OpenHttp
<1> DEFINE d == [r EXCEPT !.state = "kDisconnecting"]
           n == [s EXCEPT !.notified = TRUE]
<1>2. d \in ConnType /\ Same(r, d) /\ d.state = "kDisconnecting" /\ d.events = r.events
      /\ d.output = r.output
  BY <1>1, ConnUpdate DEF States
<1>3. n \in SockType /\ SameIn(s, n) /\ n.fin = s.fin
  BY SockUpdate
<1>4. CASE r.state # "kConnected"
  <2>1. o = Outcome(r, s)
    BY <1>4 DEF ShutdownInLoop
  <2> QED
    BY <1>4, <2>1, OutcomeFields, AfterNothing
<1>5. CASE r.state = "kConnected"
  <2> DEFINE f == [s EXCEPT !.fin = TRUE]
             m == [n EXCEPT !.fin = TRUE]
  <2>1. f \in SockType /\ SameIn(s, f) /\ f.fin = TRUE /\ f.notified = s.notified
    BY SockUpdate
  <2>2. m \in SockType /\ SameIn(n, m) 
    BY <1>3, SockUpdate
  <2>3. \/ o = Outcome(d, s) /\ "W" \in r.events
        \/ o = Outcome(d, f) /\ "W" \notin r.events
        \/ Ssl /\ o \in {Outcome(d, m), Outcome(Writing(d), n), Outcome(Closed(d), Broken(s)),
                         Dies(d, Broken(s), "sigpipe")}
    BY <1>5 DEF ShutdownInLoop, When
  <2> HIDE DEF d, n, f, m
  <2>4. After(r, s, d, s)
    BY <1>2, <1>5, AfterNothing DEF After, OpenHttp, Plain, Same, SameIn, HttpStates, Live
  <2>5. "W" \notin r.events => After(r, s, d, f)
    BY <1>2, <1>5, <2>1, AfterNothing DEF After, OpenHttp, Plain, Same, SameIn, HttpStates, Live
  <2>6. ASSUME Ssl
        PROVE  /\ After(r, s, d, m) /\ After(r, s, Writing(d), n)
               /\ After(r, s, Closed(d), Broken(s)) /\ After(r, s, d, Broken(s))
    <3>1. Writing(d) \in ConnType /\ Same(d, Writing(d)) /\ Writing(d).state = d.state
          /\ Closed(d) \in ConnType /\ Same(d, Closed(d)) /\ Closed(d).state = "kDisconnected"
          /\ Closed(d).events = {}
      BY <1>2, ConnFields
    <3>2. Broken(s) \in SockType /\ SameIn(s, Broken(s))
      BY SockUpdate
    <3> QED
      BY <1>2, <1>3, <1>5, <2>2, <2>6, <3>1, <3>2 DEF After, Same, SameIn, HttpStates
  <2>7. d.state # "kConnected" /\ Closed(d).state # "kConnected" /\ Writing(d).state # "kConnected"
    BY <1>2, ConnFields
  <2>8. CASE o = Outcome(d, s)
    BY <2>4, <2>7, <2>8, OutcomeFields
  <2>9. CASE o = Outcome(d, f) /\ "W" \notin r.events
    BY <2>5, <2>7, <2>9, OutcomeFields
  <2>10. CASE Ssl /\ o \in {Outcome(d, m), Outcome(Writing(d), n), Outcome(Closed(d), Broken(s)),
                         Dies(d, Broken(s), "sigpipe")}
    BY <2>6, <2>7, <2>10, OutcomeFields
  <2> QED
    BY <2>3, <2>8, <2>9, <2>10
<1> QED
  BY <1>4, <1>5

\* handleWrite, both its branches.
LEMMA WriteAfter ==
    ASSUME MaxIn \in Nat, NEW r, OpenHttp(r), NEW s \in SockType, NEW o \in Write(r, s)
    PROVE  After(r, s, o.conn, o.sock) /\ o.died \in {"no", "sigpipe", "retrieve"}
<1>1. r \in ConnType
  BY DEF OpenHttp
<1>2. /\ Broken(s) \in SockType /\ SameIn(s, Broken(s)) /\ Broken(s).fin = s.fin
      /\ Broken(s).notified = s.notified
      /\ Filled(s) \in SockType /\ SameIn(s, Filled(s)) /\ Filled(s).fin = s.fin
      /\ Filled(s).notified = s.notified
  BY SockUpdate
<1>3. After(r, s, r, s) /\ After(r, s, r, Filled(s)) /\ After(r, s, r, Broken(s))
      /\ After(r, s, Closed(r), s) /\ After(r, s, Closed(r), Broken(s))
  BY <1>1, <1>2, AfterNothing, AfterClose DEF After, SameIn, Same, Plain, OpenHttp
<1>4. CASE "W" \notin r.events
  <2>1. o = Outcome(r, s)
    BY <1>4 DEF Write
  <2> QED
    BY <1>3, <2>1, OutcomeFields
<1>5. CASE "W" \in r.events /\ Ssl /\ r.state = "kDisconnecting"
  <2> DEFINE n == [s EXCEPT !.notified = TRUE, !.inbox = <<>>]
             m == [n EXCEPT !.zero = TRUE, !.fin = TRUE]
  <2>1. n \in SockType /\ n.inbox = <<>> /\ n.end = s.end /\ n.sent = s.sent
        /\ m \in SockType /\ m.inbox = <<>> /\ m.end = s.end /\ m.sent = s.sent
    <3>1. <<>> \in BoundedSeq(Tokens, MaxIn)
      <4>1. <<>> \in Seq(Tokens) /\ Len(<<>>) <= MaxIn
        OBVIOUS
      <4> QED
        BY <4>1, BoundedSeqIs, Zenon
    <3> QED
      BY <3>1 DEF SockType
  <2>2. o \in {Outcome(Closed(r), n), Outcome(NotWriting(r), m), Outcome(r, n),
               Outcome(Closed(r), Broken(s)), Dies(r, Broken(s), "sigpipe")}
    BY <1>5 DEF Write, ContinueShutdown, When
  <2> HIDE DEF n, m
  <2>3. After(r, s, Closed(r), n) /\ After(r, s, NotWriting(r), m) /\ After(r, s, r, n)
    BY <1>1, <1>5, <2>1, ConnFields DEF After, OpenHttp, Same, HttpStates
  <2> QED
    BY <1>3, <2>2, <2>3, OutcomeFields
<1>6. CASE "W" \in r.events /\ ~(Ssl /\ r.state = "kDisconnecting")
  <2> DEFINE sent == [NotWriting(r) EXCEPT !.output = FALSE]
             f == [s EXCEPT !.fin = @ \/ r.state = "kDisconnecting"]
  <2>1. sent \in ConnType /\ Same(r, sent) /\ sent.state = r.state /\ sent.events = r.events \ {"W"}
        /\ sent.output = FALSE
    <3>1. /\ NotWriting(r) \in ConnType /\ Same(r, NotWriting(r))
          /\ NotWriting(r).state = r.state /\ NotWriting(r).events = r.events \ {"W"}
      BY <1>1, ConnFields
    <3> QED
      BY <3>1, ConnUpdate DEF Same
  <2>2. f \in SockType /\ SameIn(s, f) /\ (f.fin => s.fin \/ r.state = "kDisconnecting")
        /\ f.notified = s.notified
    BY DEF SockType, SameIn
  <2>3. o \in {Outcome(sent, s), Outcome(r, Filled(s)), Outcome(Closed(r), s),
               Dies(r, Broken(s), "sigpipe"), Dies(r, Broken(s), "retrieve"),
               Outcome(sent, f), Dies(r, Filled(s), "retrieve")}
    BY <1>6 DEF Write, When
  <2> HIDE DEF sent, f
  <2>4. r.state # "kDisconnected"
    BY <1>6 DEF OpenHttp
  <2>5. After(r, s, sent, s) /\ After(r, s, sent, f)
    BY <2>1, <2>2, <2>4 DEF After, Same, SameIn, OpenHttp, HttpStates, Plain, Live
  <2> QED
    BY <1>3, <2>3, <2>5, OutcomeFields
<1> QED
  BY <1>4, <1>5, <1>6

\* What a handshake may make of a connection.
Handshaken(r, s, q, z) ==
    /\ q \in ConnType /\ z \in SockType /\ q.fd = r.fd /\ q.timer = r.timer
    /\ \/ q.state = r.state /\ q.handler = "handshake" /\ ~(r.state = "kDisconnected") /\ q.state = "kConnecting"
       \/ r.state = "kConnecting" /\ q.state = "kConnected" /\ q.handler = "http"
       \/ q.state = "kDisconnected" /\ q.handler = "handshake" /\ q.events = {} /\ Refused(z)
    /\ z.sent = s.sent /\ Len(z.inbox) <= Len(s.inbox)

\* handleHandShake.
LEMMA HandshakeAfter ==
    ASSUME MaxIn \in Nat, NEW r \in ConnType, NEW s \in SockType, r.handler = "handshake",
           r.state = "kConnecting" \/ (r.state = "kDisconnected" /\ Refused(s)),
           NEW o \in HandShake(r, s)
    PROVE  Handshaken(r, s, o.conn, o.sock) /\ o.died = "no"
<1> DEFINE up == [r EXCEPT !.state = "kConnected", !.handler = "http"]
           rest == [s EXCEPT !.inbox = Tail(@)]
<1>1. up \in ConnType /\ up.fd = r.fd /\ up.timer = r.timer /\ up.state = "kConnected" /\ up.handler = "http"
  BY DEF ConnType, States
<1>2. s.inbox \in Seq(Tokens) /\ Len(s.inbox) <= MaxIn /\ Len(s.inbox) \in Nat
  BY BoundedSeqIs DEF SockType
<1>3. Greeting(s) => rest \in SockType /\ rest.sent = s.sent /\ Len(rest.inbox) <= Len(s.inbox)
  <2> SUFFICES ASSUME Greeting(s) PROVE rest \in SockType /\ rest.sent = s.sent /\ Len(rest.inbox) <= Len(s.inbox)
    OBVIOUS
  <2>1. Tail(s.inbox) \in Seq(Tokens) /\ Len(Tail(s.inbox)) = Len(s.inbox) - 1
    BY <1>2 DEF Greeting
  <2>2. Tail(s.inbox) \in BoundedSeq(Tokens, MaxIn)
    <3>1. Len(Tail(s.inbox)) <= MaxIn
      BY <1>2, <2>1
    <3> QED
      BY <2>1, <3>1, BoundedSeqIs, Zenon
  <2>3. rest \in SockType /\ rest.sent = s.sent /\ rest.inbox = Tail(s.inbox)
    BY <2>2 DEF SockType
  <2> QED
    BY <1>2, <2>1, <2>3
<1>4. \/ \E b \in BOOLEAN : o = [Outcome(up, rest) EXCEPT !.read = b] /\ Greeting(s) /\ ~s.rst
      \/ o = Outcome([r EXCEPT !.events = {"R"}], s) /\ s.inbox = <<>> /\ ~s.end /\ ~s.rst
      \/ o = Outcome([r EXCEPT !.events = {"W"}], Filled(s)) /\ Greeting(s) /\ ~s.rst
      \/ o = Outcome(Closed(r), s) /\ (s.rst \/ (~Greeting(s) /\ (s.end \/ s.inbox # <<>>)))
  BY DEF HandShake, When, Greeting, MayFill
<1>5. ASSUME NEW b, o = [Outcome(up, rest) EXCEPT !.read = b]
      PROVE  o.conn = up /\ o.sock = rest /\ o.died = "no"
  BY <1>5 DEF Outcome
<1>6. CASE \E b \in BOOLEAN : o = [Outcome(up, rest) EXCEPT !.read = b] /\ Greeting(s) /\ ~s.rst
  <2>1. r.state = "kConnecting" /\ o.conn = up /\ o.sock = rest /\ o.died = "no"
    BY <1>5, <1>6 DEF Refused
  <2> HIDE DEF up, rest
  <2> QED
    BY <1>1, <1>3, <1>6, <2>1 DEF Handshaken
<1>7. CASE o = Outcome([r EXCEPT !.events = {"R"}], s) /\ s.inbox = <<>> /\ ~s.end /\ ~s.rst
  <2> DEFINE q == [r EXCEPT !.events = {"R"}]
  <2>1. q \in ConnType /\ q.fd = r.fd /\ q.timer = r.timer /\ q.state = r.state /\ q.handler = r.handler
    BY DEF ConnType
  <2>2. r.state = "kConnecting"
    BY <1>7 DEF Refused
  <2>3. o.conn = q /\ o.sock = s /\ o.died = "no"
    BY <1>7, OutcomeFields
  <2> HIDE DEF q
  <2> QED
    BY <1>2, <2>1, <2>2, <2>3 DEF Handshaken
<1>8. CASE o = Outcome([r EXCEPT !.events = {"W"}], Filled(s)) /\ Greeting(s) /\ ~s.rst
  <2> DEFINE q == [r EXCEPT !.events = {"W"}]
  <2>1. q \in ConnType /\ q.fd = r.fd /\ q.timer = r.timer /\ q.state = r.state /\ q.handler = r.handler
    BY DEF ConnType
  <2>2. r.state = "kConnecting"
    BY <1>8 DEF Refused
  <2>3. o.conn = q /\ o.sock = Filled(s) /\ o.died = "no"
    BY <1>8, OutcomeFields
  <2>4. Filled(s) \in SockType /\ SameIn(s, Filled(s))
    BY SockUpdate
  <2> HIDE DEF q
  <2> QED
    BY <1>2, <2>1, <2>2, <2>3, <2>4 DEF Handshaken, SameIn
<1>9. CASE o = Outcome(Closed(r), s) /\ (s.rst \/ (~Greeting(s) /\ (s.end \/ s.inbox # <<>>)))
  <2>1. /\ Closed(r) \in ConnType /\ Same(r, Closed(r))
        /\ Closed(r).state = "kDisconnected" /\ Closed(r).events = {}
    BY ConnFields
  <2>2. o.conn = Closed(r) /\ o.sock = s /\ o.died = "no"
    BY <1>9, OutcomeFields
  <2> QED
    BY <1>2, <1>9, <2>1, <2>2 DEF Handshaken, Same, Refused
<1> QED
  BY <1>4, <1>6, <1>7, <1>8, <1>9
-----------------------------------------------------------------------------
(* What Effect and Return leave.                                           *)

\* The set-up of a run never changes, nor do the types that depend on it.
LEMMA SetupFixed ==
    ASSUME setup' = setup
    PROVE  /\ SockType' = SockType /\ Ssl' = Ssl /\ MaxIn' = MaxIn /\ Tokens' = Tokens
           /\ \A r, s : Sound(r, s)' = Sound(r, s)
  BY DEF SockType, Ssl, MaxIn, Tokens, Sound

\* A handler's step keeps the connection in the loop, or closes it for good.
Moved(r, s, q, z) ==
    /\ q \in ConnType /\ z \in SockType /\ q.fd = r.fd
    /\ q.state \in Live \cup {"kDisconnected"}
    /\ r.state = "kDisconnected" => q.state = "kDisconnected"
    /\ Sound(q, z)

\* The outcome of a handler goes into the maps, the queue and the poller: the objects and
\* the registries agree again, and no assert failed.
LEMMA EffectObjects ==
    ASSUME Objects, setup' = setup, NEW c \in Conns, Attached(c), NEW o, NEW base, NEW armed,
           Effect(c, o, base, armed), Moved(conn[c], sock[c], o.conn, o.sock),
           base \subseteq timers, armed \subseteq Conns \X {0, 1}, UNCHANGED <<running, retired>>
    PROVE  /\ Objects'
           /\ conn'[c] = o.conn /\ sock'[c] = o.sock
           /\ \A d \in Conns \ {c} : conn'[d] = conn[d] /\ sock'[d] = sock[d]
           /\ \A d \in Conns : Attached(d) => Attached(d)'
           /\ ready' \subseteq ready \cup {c} /\ ready \subseteq ready'
           /\ died' = o.died
<1> DEFINE old == conn[c]
           closes == o.conn.state = "kDisconnected" /\ old.state # "kDisconnected"
           updates == closes \/ o.conn.events # old.events
           fd == old.fd
<1>1. /\ conn' = [conn EXCEPT ![c] = o.conn]
      /\ sock' = [sock EXCEPT ![c] = o.sock]
      /\ timers' = (IF closes THEN base \ {<<c, old.timer>>} ELSE base) \cup armed
      /\ connections' = IF closes THEN [connections EXCEPT ![fd] = NoConn] ELSE connections
      /\ IF closes THEN pending' = Append(pending, Removing(c)) ELSE pending' = pending
      /\ channels' = IF updates /\ channels[fd] = NoConn THEN [channels EXCEPT ![fd] = c] ELSE channels
      /\ ready' = IF updates /\ Revents(o.conn, o.sock) # {} THEN ready \cup {c} ELSE ready
      /\ died' = IF (closes /\ connections[fd] = NoConn)
                  \/ (updates /\ channels[fd] \notin {NoConn, c})
                 THEN "assert" ELSE o.died
  BY DEF Effect, QueueInLoop, queue, Removing, Erased
<1>2. /\ ObjectTypes /\ conn[c] \in ConnType /\ fd \in Fds /\ channels[fd] = c /\ c # NoConn
      /\ c \notin retired /\ conn[c].state \in Live \cup {"kDisconnected"}
  BY ConstantsAssumption DEF Objects, ObjectTypes, MapInv, Attached, ConnType
<1>3. /\ o.conn \in ConnType /\ o.sock \in SockType /\ o.conn.fd = fd
      /\ o.conn.state \in Live \cup {"kDisconnected"}
      /\ old.state = "kDisconnected" => o.conn.state = "kDisconnected"
      /\ Sound(o.conn, o.sock)
  BY DEF Moved
<1>4. closes => old.state \in Live /\ connections[fd] = c
  BY <1>2 DEF Objects, MapInv
<1>5. channels' = channels /\ died' = o.died
  BY <1>1, <1>2, <1>4
<1>6. /\ conn'[c] = o.conn /\ sock'[c] = o.sock
      /\ \A d \in Conns \ {c} : conn'[d] = conn[d] /\ sock'[d] = sock[d]
  BY <1>1, <1>2 DEF ObjectTypes
<1>7. \A d \in Conns : Attached(d)' <=> Attached(d)
  BY <1>2, <1>3, <1>6 DEF Attached
<1>8. \A d \in Conns : /\ conn'[d].fd = conn[d].fd
                       /\ conn'[d].state \in HoldsFd <=> conn[d].state \in HoldsFd
                       /\ conn'[d].state = "accepted" <=> conn[d].state = "accepted"
  BY <1>2, <1>3, <1>6 DEF HoldsFd, Live
<1>9. Removing(c) \in Functors
  BY DEF Removing, Functors
<1>10. ObjectTypes'
  <2>1. conn' \in [Conns -> ConnType] /\ sock' \in [Conns -> SockType']
    BY <1>1, <1>2, <1>3, SetupFixed DEF ObjectTypes
  <2>2. pending' \in Seq(Functors) /\ running' \in Seq(Functors)
    <3>1. pending \in Seq(Functors) /\ running \in Seq(Functors)
      BY <1>2 DEF ObjectTypes
    <3>2. pending' = pending \/ pending' = Append(pending, Removing(c))
      BY <1>1
    <3> HIDE DEF closes
    <3> QED
      BY ONLY <1>9, <3>1, <3>2, UNCHANGED <<running, retired>>
  <2>3. connections' \in [Fds -> Conns \cup {NoConn}] /\ channels' \in [Fds -> Conns \cup {NoConn}]
    BY <1>1, <1>2, <1>5 DEF ObjectTypes
  <2>4. ready' \subseteq Conns /\ timers' \subseteq Conns \X {0, 1}
    <3>1. timers' \subseteq base \cup armed
      BY <1>1
    <3> QED
      BY <1>1, <1>2, <3>1 DEF ObjectTypes
  <2> QED
    BY <1>2, <2>1, <2>2, <2>3, <2>4 DEF ObjectTypes
<1>11. FdInv'
  BY <1>8 DEF Objects, FdInv
<1>12. QueueInv'
  <2>0. /\ Once(running) /\ Once(pending) /\ ToSet(running) \cap ToSet(pending) = {}
        /\ \A d \in Conns :
             /\ Establishing(d) \in Queued <=> conn[d].state = "accepted"
             /\ Removing(d) \in Queued <=> conn[d].state = "kDisconnected" /\ d \notin retired
    BY DEF Objects, QueueInv
  <2>1. CASE closes
    <3>1. Removing(c) \notin Queued
      BY <2>0, <2>1
    <3>2. /\ Once(pending') /\ ToSet(pending') = ToSet(pending) \cup {Removing(c)}
      <4>1. pending' = Append(pending, Removing(c)) /\ pending \in Seq(Functors)
        BY <1>1, <1>2, <2>1 DEF ObjectTypes
      <4>2. Once(pending) /\ Removing(c) \notin ToSet(pending)
        BY <2>0, <3>1 DEF Queued
      <4> QED
        BY ONLY <1>9, <4>1, <4>2, QueueGrows
    <3>3. Queued' = Queued \cup {Removing(c)} /\ running' = running
      BY <3>2 DEF Queued
    <3>4. \A d \in Conns : Establishing(d) # Removing(c) /\ (Removing(d) = Removing(c) <=> d = c)
      BY DEF Establishing, Removing
    <3>5. \A d \in Conns : conn'[d].state = "kDisconnected" <=> conn[d].state = "kDisconnected" \/ d = c
      BY <1>6, <2>1
    <3>6. \A d \in Conns : Establishing(d)' = Establishing(d) /\ Removing(d)' = Removing(d)
      BY DEF Establishing, Removing
    <3>7. ToSet(running) \cap (ToSet(pending) \cup {Removing(c)}) = {}
      BY <2>0, <3>1 DEF Queued
    <3> QED
      BY <1>2, <1>8, <2>0, <3>2, <3>3, <3>4, <3>5, <3>6, <3>7 DEF QueueInv
  <2>2. CASE ~closes
    <3>1. \A d \in Conns : conn'[d].state = "kDisconnected" <=> conn[d].state = "kDisconnected"
      BY <1>3, <1>6, <2>2
    <3>2. Queued' = Queued /\ pending' = pending /\ running' = running
      BY <1>1, <2>2 DEF Queued
    <3>3. \A d \in Conns : Establishing(d)' = Establishing(d) /\ Removing(d)' = Removing(d)
      BY DEF Establishing, Removing
    <3> QED
      BY <1>8, <2>0, <3>1, <3>2, <3>3 DEF QueueInv
  <2> QED
    BY <2>1, <2>2
<1>13. MapInv'
  <2>1. \A d \in Conns : d # c => conn'[d] = conn[d]
    BY <1>6
  <2>2. \A d \in Conns : conn[d].state \in Live /\ d # c => conn[d].fd # fd
    BY <1>2 DEF Objects, FdInv, HoldsFd
  <2>3. ASSUME NEW fd2 \in Fds, connections'[fd2] # NoConn
        PROVE  conn'[connections'[fd2]].state \in Live /\ conn'[connections'[fd2]].fd = fd2
    <3>1. connections[fd2] # NoConn /\ connections'[fd2] = connections[fd2] /\ (closes => fd2 # fd)
      BY <1>1, <1>2, <2>3 DEF ObjectTypes
    <3> DEFINE d == connections[fd2]
    <3>2. d \in Conns /\ conn[d].state \in Live /\ conn[d].fd = fd2
      BY <1>2, <3>1 DEF Objects, MapInv, ObjectTypes
    <3>3. d = c => o.conn.state \in Live
      BY <1>3, <3>1, <3>2 DEF Live
    <3> QED
      BY <1>6, <1>8, <3>1, <3>2, <3>3
  <2>4. ASSUME NEW d \in Conns, conn'[d].state \in Live PROVE connections'[conn'[d].fd] = d
    <3>1. conn[d].state \in Live /\ (d = c => ~closes)
      BY <1>2, <1>3, <1>6, <2>4 DEF Live
    <3>2. connections[conn[d].fd] = d /\ conn'[d].fd = conn[d].fd
      BY <1>8, <3>1 DEF Objects, MapInv
    <3>3. closes => conn[d].fd # fd
      BY <2>2, <3>1
    <3> QED
      BY <1>1, <1>2, <3>2, <3>3 DEF ObjectTypes
  <2>5. \A fd2 \in Fds : channels'[fd2] # NoConn =>
           Attached(channels[fd2])' /\ conn'[channels'[fd2]].fd = fd2
    BY <1>2, <1>5, <1>7, <1>8 DEF Objects, MapInv, ObjectTypes, Attached
  <2>6. \A d \in Conns : Attached(d)' => channels'[conn'[d].fd] = d
    BY <1>5, <1>7, <1>8 DEF Objects, MapInv
  <2>7. \A d \in retired' : conn'[d].state = "kDisconnected"
    BY <1>2, <2>1 DEF Objects, MapInv, ObjectTypes
  <2> QED
    BY <1>5, <2>3, <2>4, <2>5, <2>6, <2>7 DEF MapInv, Attached
<1>14. SoundInv'
  BY <1>3, <1>6, SetupFixed DEF Objects, SoundInv
<1> QED
  BY <1>1, <1>5, <1>6, <1>7, <1>10, <1>11, <1>12, <1>13, <1>14 DEF Objects

\* What a handler does to the idle timer of c: nothing, or it cancels the timer it
\* remembers and perhaps sets the next one.
Retimed(c, o, base, armed) ==
    \/ base = timers /\ armed = {} /\ o.conn.timer = conn[c].timer
    \/ /\ base = Cancelled(c) /\ armed = {} /\ o.conn.timer = conn[c].timer
       /\ o.conn.state = "kConnected" => o.died # "no"
    \/ base = Cancelled(c) /\ armed = Rearmed(c) /\ o.conn.timer = 1 - conn[c].timer

\* The timers after a handler: only the one that a live connection remembers.
LEMMA EffectTimers ==
    ASSUME ObjectTypes, RoundTypes, TimerInv, GuardInv, setup' = setup, NEW c \in Conns, Attached(c),
           NEW o, NEW base, NEW armed,
           Effect(c, o, base, armed), Moved(conn[c], sock[c], o.conn, o.sock),
           Retimed(c, o, base, armed), expired' \subseteq expired, died = "no",
           expired = {} \/ o.conn.state = "kDisconnected",
           \A t \in expired \ expired' : t[1] = c,
           ~Ssl /\ o.conn.state = "kConnected" => conn[c].state = "kConnected",
           died' = o.died
    PROVE  TimerInv' /\ GuardInv' /\ base \subseteq timers /\ armed \subseteq Conns \X {0, 1}
<1>1. /\ conn[c] \in ConnType /\ conn[c].timer \in {0, 1} /\ conn[c].state \in Live \cup {"kDisconnected"}
      /\ conn \in [Conns -> ConnType]
  BY DEF ObjectTypes, ConnType, Attached
<1>2. /\ base \in {timers, timers \ {<<c, conn[c].timer>>}}
      /\ armed \in {{}, {<<c, 1 - conn[c].timer>>}}
  BY DEF Retimed, Cancelled, Rearmed
<1>3. base \subseteq timers /\ armed \subseteq Conns \X {0, 1}
  BY <1>1, <1>2
<1>4. /\ conn'[c] = o.conn /\ \A d \in Conns \ {c} : conn'[d] = conn[d]
      /\ timers' \subseteq base \cup armed
      /\ o.conn.state # "kDisconnected" => timers' = base \cup armed
      /\ \A d \in Conns \ {c} : \A x : <<d, x>> \in timers => <<d, x>> \in timers'
  <2>1. /\ conn' = [conn EXCEPT ![c] = o.conn]
        /\ timers' = (IF o.conn.state = "kDisconnected" /\ conn[c].state # "kDisconnected"
                      THEN base \ {<<c, conn[c].timer>>} ELSE base) \cup armed
    BY DEF Effect
  <2>2. conn'[c] = o.conn /\ \A d \in Conns \ {c} : conn'[d] = conn[d]
    BY <1>1, <2>1
  <2>3. /\ timers' \subseteq base \cup armed
        /\ o.conn.state # "kDisconnected" => timers' = base \cup armed
        /\ \A d \in Conns \ {c} : \A x : <<d, x>> \in timers => <<d, x>> \in timers'
    BY <1>2, <2>1
  <2> QED
    BY <2>2, <2>3
<1>5. o.conn.state \in Live \cup {"kDisconnected"}
  BY DEF Moved
<1>6. TimerInv'
  <2> SUFFICES ASSUME NEW t \in timers' \cup expired'
               PROVE  /\ conn'[t[1]].state \notin {"none", "accepted"}
                      /\ conn'[t[1]].state \in Live => t[2] = conn'[t[1]].timer
    BY DEF TimerInv
  <2>1. CASE t[1] # c
    <3>1. t \in timers \cup expired /\ t[1] \in Conns
      <4>1. t \in timers \cup armed \cup expired
        BY <1>3, <1>4
      <4>2. t \in armed => t[1] = c
        BY <1>2
      <4>3. t \in timers => t[1] \in Conns
        BY DEF ObjectTypes
      <4>4. t \in expired => t[1] \in Conns
        BY DEF RoundTypes
      <4> QED
        BY <2>1, <4>1, <4>2, <4>3, <4>4
    <3> QED
      BY <1>4, <2>1, <3>1 DEF TimerInv
  <2>2. CASE t[1] = c /\ o.conn.state = "kDisconnected"
    BY <1>4, <2>2 DEF Live
  <2>3. CASE t[1] = c /\ o.conn.state # "kDisconnected"
    <3>1. t \in base \cup armed /\ o.conn.state \in Live /\ conn[c].state \in Live
      BY <1>1, <1>3, <1>4, <1>5, <2>3 DEF Live, Moved
    <3>2. t \in timers => t[2] = conn[c].timer
      BY <2>3, <3>1 DEF TimerInv
    <3>3. t[2] = o.conn.timer
      <4>1. CASE t \in armed
        BY <4>1 DEF Retimed, Rearmed
      <4>2. CASE t \in base
        <5>1. t \in timers /\ t = <<c, conn[c].timer>>
          BY <1>3, <2>3, <3>2, <4>2 DEF ObjectTypes
        <5>2. base = timers
          BY <1>2, <4>2, <5>1
        <5>3. t \notin Cancelled(c)
          BY <5>1 DEF Cancelled
        <5> QED
          BY <3>2, <4>2, <5>1, <5>3 DEF Retimed
      <4> QED
        BY <3>1, <4>1, <4>2
    <3> QED
      BY <1>4, <2>3, <3>1, <3>3 DEF Live
  <2> QED
    BY <2>1, <2>2, <2>3
<1>7. GuardInv'
  <2> SUFFICES ASSUME ~Ssl', NEW d \in Conns, conn'[d].state = "kConnected", died' = "no"
               PROVE  <<d, conn'[d].timer>> \in timers' \cup expired'
    BY DEF GuardInv, Guarded
  <2>1. ~Ssl
    BY DEF Ssl
  <2>2. CASE d # c
    <3>1. conn'[d] = conn[d] /\ <<d, conn[d].timer>> \in timers \cup expired
      BY <1>4, <2>1, <2>2 DEF GuardInv, Guarded
    <3>2. <<d, conn[d].timer>> \in expired => <<d, conn[d].timer>> \in expired'
      BY <2>2
    <3> QED
      BY <1>4, <2>2, <3>1, <3>2
  <2>3. CASE d = c
    <3>1. o.conn.state = "kConnected" /\ conn[c].state = "kConnected" /\ expired = {} /\ o.died = "no"
      BY <1>4, <2>1, <2>3
    <3>2. <<c, conn[c].timer>> \in timers /\ timers' = base \cup armed
      BY <1>4, <2>1, <3>1 DEF GuardInv, Guarded
    <3>3. <<c, o.conn.timer>> \in base \cup armed
      BY <3>1, <3>2 DEF Retimed, Rearmed
    <3> QED
      BY <1>4, <2>3, <3>2, <3>3
  <2> QED
    BY <2>2, <2>3
<1> QED
  BY <1>3, <1>6, <1>7

\* A callback of connection c is over: the invariant holds again.
LEMMA CallbackInv ==
    ASSUME IInv, setup' = setup, NEW c \in Conns, cur = c, died = "no",
           NEW o, NEW base, NEW armed, NEW rest, NEW requests,
           rest \subseteq {"close", "error", "handshake", "read", "write"},
           Effect(c, o, base, armed), Return(rest, requests),
           Moved(conn[c], sock[c], o.conn, o.sock), Retimed(c, o, base, armed),
           o.died \in {"no", "retrieve", "sigpipe"},
           ~Ssl /\ o.conn.state = "kConnected" => conn[c].state = "kConnected",
           ~Ssl /\ Plain(conn[c], sock[c]) => Plain(o.conn, o.sock),
           rest \cap {"close", "error"} # {} \/ requests # <<>> => o.conn.handler = "http",
           ~Ssl /\ o.conn.state = "kConnected" /\ o.sock.inbox # <<>> =>
               sock[c].inbox # <<>> /\ ("read" \in todo => "read" \in rest)
    PROVE  IInv'
<1>1. /\ Objects /\ ObjectTypes /\ RoundTypes /\ RoundInv /\ TimerInv /\ GuardInv /\ PlainInv /\ UnreadInv
      /\ c # NoConn
  BY ConstantsAssumption DEF IInv, Objects
<1>2. Attached(c) /\ pc \in {"events", "functors"} /\ expired = {}
  BY <1>1 DEF RoundInv
<1>3. /\ UNCHANGED <<pc, active, running, retired, expired>>
      /\ todo' = rest /\ msgs' = requests /\ cur' \in {c, NoConn}
      /\ cur' = NoConn => todo' = {} /\ msgs' = <<>>
      /\ rest # {} => cur' = c
  <2>1. /\ UNCHANGED <<pc, active, running, retired, expired>>
        /\ todo' = rest /\ msgs' = requests
        /\ cur' = IF rest = {} /\ requests = <<>> THEN NoConn ELSE c
    BY DEF Return, round
  <2> QED
    BY ONLY <1>1, <2>1
<1>4. /\ base \subseteq timers /\ armed \subseteq Conns \X {0, 1}
  BY <1>1, <1>2 DEF Retimed, Cancelled, Rearmed, Attached, ObjectTypes, ConnType
<1>5. /\ Objects'
      /\ conn'[c] = o.conn /\ sock'[c] = o.sock
      /\ \A d \in Conns \ {c} : conn'[d] = conn[d] /\ sock'[d] = sock[d]
      /\ \A d \in Conns : Attached(d) => Attached(d)'
      /\ ready' \subseteq ready \cup {c} /\ ready \subseteq ready'
      /\ died' = o.died
  BY <1>1, <1>2, <1>3, <1>4, EffectObjects
<1>6. TimerInv' /\ GuardInv'
  BY <1>1, <1>2, <1>3, <1>5, EffectTimers
<1>7. RoundTypes'
  BY <1>1, <1>3 DEF RoundTypes
<1>8. RoundInv'
  <2>1. \A a \in active : a.conn \in Conns
    BY <1>1 DEF RoundTypes
  <2>2. ready' \subseteq Conns
    BY <1>5 DEF Objects, ObjectTypes
  <2>3. \A a \in active : Attached(a.conn)'
    BY <1>1, <1>5, <2>1 DEF RoundInv
  <2>4. \A d \in ready' : Attached(d)'
    BY <1>1, <1>2, <1>5, <2>2 DEF RoundInv
  <2>5. cur' # NoConn => Attached(cur)'
    <3>1. Attached(c)'
      BY <1>2, <1>5
    <3> QED
      BY <1>3, <3>1 DEF Attached
  <2>6. cur' # NoConn /\ (todo' \cap {"close", "error"} # {} \/ msgs' # <<>>) =>
            conn'[cur'].handler = "http"
    BY <1>3, <1>5
  <2> QED
    BY <1>1, <1>2, <1>3, <2>3, <2>4, <2>5, <2>6 DEF RoundInv, Attached
<1>9. DiedInv'
  BY <1>2, <1>3, <1>5 DEF DiedInv
<1>10. PlainInv'
  BY <1>1, <1>5 DEF PlainInv, Ssl, Plain
<1>11. UnreadInv'
  <2> SUFFICES ASSUME ~Ssl, NEW d \in Conns, conn'[d].state = "kConnected", sock'[d].inbox # <<>>
               PROVE  Noticed(d)'
    BY DEF UnreadInv, Ssl
  <2>1. CASE d # c
    <3>1. conn[d].state = "kConnected" /\ sock[d].inbox # <<>>
      BY <1>5, <2>1
    <3>2. Noticed(d)
      BY <1>1, <3>1 DEF UnreadInv
    <3> QED
      BY <1>3, <1>5, <2>1, <3>2 DEF Noticed
  <2>2. CASE d = c
    <3>1. /\ conn[c].state = "kConnected" /\ sock[c].inbox # <<>>
          /\ "read" \in todo => "read" \in rest
      BY <1>5, <2>2
    <3>2. Noticed(c)
      BY <1>1, <3>1 DEF UnreadInv
    <3> QED
      BY <1>3, <1>5, <2>2, <3>1, <3>2 DEF Noticed
  <2> QED
    BY <2>1, <2>2
<1> QED
  BY <1>5, <1>6, <1>7, <1>8, <1>9, <1>10, <1>11 DEF IInv
-----------------------------------------------------------------------------
(* The callbacks.                                                          *)

\* The bound on the tokens of a peer is a number.
LEMMA MaxInIs == ASSUME ObjectTypes PROVE MaxIn \in Nat
  BY ConstantsAssumption DEF ObjectTypes, MaxIn

\* A step of a connection that speaks HTTP.
HttpStep(r, s, q, z) ==
    /\ Moved(r, s, q, z)
    /\ q.handler = "http"
    /\ q.state = "kConnected" => r.state = "kConnected"
    /\ ~Ssl /\ Plain(r, s) => Plain(q, z)
    /\ z.inbox \in {s.inbox, <<>>}

\* What After says is a step of a connection that speaks HTTP.
LEMMA StepAfter ==
    ASSUME NEW r, NEW s, r.handler = "http", Sound(r, s), s.sent \in Nat, NEW q, NEW z, After(r, s, q, z)
    PROVE  HttpStep(r, s, q, z) /\ q.timer = r.timer
<1>1. Sound(q, z)
  BY DEF After, Same, Sound, HttpStates
<1> QED
  BY <1>1 DEF HttpStep, Moved, After, Same, HttpStates, Live

\* The same if the handler restarts the idle timer.
LEMMA RestartAfter ==
    ASSUME NEW r, NEW s, r.handler = "http", Sound(r, s), s.sent \in Nat, NEW q, NEW z, After(r, s, q, z)
    PROVE  LET p == [q EXCEPT !.timer = 1 - @] IN
             HttpStep(r, s, p, z) /\ p.timer = 1 - r.timer /\ p.state = q.state
<1>1. HttpStep(r, s, q, z) /\ q.timer = r.timer
  BY StepAfter
<1> DEFINE p == [q EXCEPT !.timer = 1 - @]
<1>2. /\ p \in ConnType /\ p.timer = 1 - q.timer /\ p.state = q.state /\ p.fd = q.fd
      /\ p.events = q.events /\ p.handler = q.handler /\ p.output = q.output
  BY DEF After, ConnType
<1> HIDE DEF p
<1>3. HttpStep(r, s, p, z)
  BY <1>1, <1>2 DEF HttpStep, Moved, Sound, Plain
<1> QED
  BY <1>1, <1>2, <1>3 DEF p

\* A callback of a connection that speaks HTTP.
LEMMA HttpCallbackInv ==
    ASSUME IInv, setup' = setup, NEW c \in Conns, cur = c, died = "no", conn[c].handler = "http",
           NEW o, NEW base, NEW armed, NEW rest \in SUBSET todo, NEW requests,
           Effect(c, o, base, armed), Return(rest, requests),
           HttpStep(conn[c], sock[c], o.conn, o.sock), Retimed(c, o, base, armed),
           o.died \in {"no", "retrieve", "sigpipe"},
           "read" \in todo \ rest => o.sock.inbox = <<>> \/ o.conn.state # "kConnected"
    PROVE  IInv'
<1>1. rest \subseteq {"close", "error", "handshake", "read", "write"}
  BY DEF IInv, RoundTypes
<1>2. /\ Moved(conn[c], sock[c], o.conn, o.sock) /\ o.conn.handler = "http"
      /\ o.conn.state = "kConnected" => conn[c].state = "kConnected"
      /\ ~Ssl /\ Plain(conn[c], sock[c]) => Plain(o.conn, o.sock)
      /\ o.sock.inbox \in {sock[c].inbox, <<>>}
  BY DEF HttpStep
<1> QED
  BY <1>1, <1>2, CallbackInv

\* What the invariant says of the connection whose callbacks are running.
LEMMA Current ==
    ASSUME IInv, NEW c \in Conns, cur = c
    PROVE  /\ ObjectTypes /\ Attached(c) /\ conn[c] \in ConnType /\ sock[c] \in SockType
           /\ sock[c].sent \in Nat /\ Sound(conn[c], sock[c])
           /\ conn[c].handler = "http" => OpenHttp(conn[c])
           /\ conn[c].handler \in {"http", "handshake"}
<1>1. c # NoConn /\ ObjectTypes /\ RoundInv /\ SoundInv
  BY ConstantsAssumption DEF IInv, Objects
<1>2. Attached(c) /\ conn[c] \in ConnType /\ sock[c] \in SockType /\ Sound(conn[c], sock[c])
  BY <1>1 DEF RoundInv, ObjectTypes, SoundInv
<1>3. sock[c].sent \in Nat
  BY <1>1, <1>2, MaxInIs DEF SockType
<1>4. conn[c].handler \in {"http", "handshake"}
  BY <1>2 DEF ConnType
<1>5. conn[c].handler = "http" => OpenHttp(conn[c])
  BY <1>2 DEF OpenHttp, Sound, Attached, HttpStates, Live
<1> QED
  BY <1>1, <1>2, <1>3, <1>4, <1>5

\* The close and the error callback.
LEMMA HandleCloseInv ==
    ASSUME IInv, setup' = setup, NEW c \in Conns, NEW x, HandleClose(c, x)
    PROVE  IInv'
<1> DEFINE o == Outcome(Closed(conn[c]), sock[c])
<1>1. /\ cur = c /\ c # NoConn /\ died = "no" /\ x \in {"close", "error"} /\ x \in todo
      /\ Effect(c, o, timers, {}) /\ Return(todo \ {x}, <<>>)
  BY ConstantsAssumption DEF HandleClose, Turn
<1>2. conn[c].handler = "http"
  BY <1>1 DEF IInv, RoundInv
<1>3. /\ conn[c] \in ConnType /\ sock[c] \in SockType /\ Sound(conn[c], sock[c])
      /\ OpenHttp(conn[c]) /\ sock[c].sent \in Nat
  BY <1>1, <1>2, Current
<1>4. After(conn[c], sock[c], Closed(conn[c]), sock[c]) /\ Closed(conn[c]).state # "kConnected"
  BY <1>3, AfterClose, ConnFields
<1>5. HttpStep(conn[c], sock[c], Closed(conn[c]), sock[c]) /\ Closed(conn[c]).timer = conn[c].timer
  BY <1>2, <1>3, <1>4, StepAfter
<1>6. o.conn = Closed(conn[c]) /\ o.sock = sock[c] /\ o.died = "no"
  BY OutcomeFields
<1>7. Retimed(c, o, timers, {})
  BY <1>5, <1>6 DEF Retimed
<1> HIDE DEF o
<1> QED
  BY <1>1, <1>2, <1>4, <1>5, <1>6, <1>7, HttpCallbackInv

\* The write callback.
LEMMA HandleWriteInv ==
    ASSUME IInv, setup' = setup, NEW c \in Conns, HandleWrite(c)
    PROVE  IInv'
<1>1. /\ cur = c /\ died = "no" /\ conn[c].handler = "http" /\ Return(todo \ {"write"}, <<>>)
  BY DEF HandleWrite, Turn
<1>2. PICK o \in Write(conn[c], sock[c]) : Effect(c, o, timers, {})
  BY DEF HandleWrite
<1>3. /\ ObjectTypes /\ sock[c] \in SockType /\ Sound(conn[c], sock[c])
      /\ OpenHttp(conn[c]) /\ sock[c].sent \in Nat
  BY <1>1, Current
<1>4. MaxIn \in Nat
  BY <1>3, MaxInIs
<1>5. After(conn[c], sock[c], o.conn, o.sock) /\ o.died \in {"no", "sigpipe", "retrieve"}
  BY <1>3, <1>4, WriteAfter
<1>6. HttpStep(conn[c], sock[c], o.conn, o.sock) /\ o.conn.timer = conn[c].timer
  BY <1>1, <1>3, <1>5, StepAfter
<1>7. Retimed(c, o, timers, {})
  BY <1>6 DEF Retimed
<1> QED
  BY <1>1, <1>2, <1>5, <1>6, <1>7, HttpCallbackInv

\* Send, then shut down: what the last request of a connection leads to.
LEMMA SendShutdown ==
    ASSUME NEW r, OpenHttp(r), NEW s \in SockType, NEW o \in SendInLoop(r, s),
           NEW p \in IF o.died = "no" THEN ShutdownInLoop(o.conn, o.sock) ELSE {o}
    PROVE  /\ After(r, s, p.conn, p.sock) /\ p.died \in {"no", "sigpipe"}
           /\ p.conn.state # "kConnected" \/ p.died # "no"
<1>1. After(r, s, o.conn, o.sock) /\ o.died \in {"no", "sigpipe"}
  BY SendAfter
<1>2. CASE o.died # "no"
  BY <1>1, <1>2
<1>3. CASE o.died = "no"
  <2>1. OpenHttp(o.conn) /\ o.sock \in SockType /\ p \in ShutdownInLoop(o.conn, o.sock)
    BY <1>1, <1>3 DEF After, OpenHttp
  <2>2. /\ After(o.conn, o.sock, p.conn, p.sock) /\ p.died \in {"no", "sigpipe"}
        /\ p.conn.state # "kConnected" \/ p.died # "no"
    BY <2>1, ShutdownAfter
  <2> QED
    BY <1>1, <2>2, AfterTransitive
<1> QED
  BY <1>2, <1>3

\* The timer of an outcome's connection is set to the next one.
LEMMA OutcomeTimer ==
    ASSUME NEW r, NEW s, NEW how, NEW o \in {Outcome(r, s), Dies(r, s, how)}
    PROVE  LET p == [o EXCEPT !.conn.timer = 1 - @] IN
             p.conn = [o.conn EXCEPT !.timer = 1 - @] /\ p.sock = o.sock /\ p.died = o.died
  BY DEF Outcome, Dies

\* One request of onMessage.
LEMMA OnRequestInv ==
    ASSUME IInv, setup' = setup, NEW c \in Conns, OnRequest(c)
    PROVE  IInv'
<1> DEFINE r == conn[c]
           s == sock[c]
<1>1. /\ cur = c /\ c # NoConn /\ died = "no" /\ Return(todo, Tail(msgs)) /\ msgs # <<>>
  BY ConstantsAssumption DEF OnRequest
<1>2. PICK o \in SendInLoop(r, s) :
        IF Head(msgs) = "last"
        THEN \E p \in IF o.died = "no" THEN ShutdownInLoop(o.conn, o.sock) ELSE {o} :
                Effect(c, p, Cancelled(c), {})
        ELSE Effect(c, [o EXCEPT !.conn.timer = 1 - @], Cancelled(c), Rearmed(c))
  BY DEF OnRequest
<1>3. r.handler = "http"
  BY <1>1 DEF IInv, RoundInv
<1>4. /\ s \in SockType /\ Sound(r, s) /\ s.sent \in Nat /\ OpenHttp(r)
  BY <1>1, <1>3, Current
<1>5. todo \in SUBSET todo
  OBVIOUS
<1>6. CASE Head(msgs) = "last"
  <2>1. PICK p \in IF o.died = "no" THEN ShutdownInLoop(o.conn, o.sock) ELSE {o} :
            Effect(c, p, Cancelled(c), {})
    BY <1>2, <1>6
  <2>2. /\ After(r, s, p.conn, p.sock) /\ p.died \in {"no", "sigpipe"}
        /\ p.conn.state # "kConnected" \/ p.died # "no"
    BY <1>4, SendShutdown
  <2>3. HttpStep(r, s, p.conn, p.sock) /\ p.conn.timer = r.timer
    BY <1>3, <1>4, <2>2, StepAfter
  <2>4. Retimed(c, p, Cancelled(c), {})
    BY <2>2, <2>3 DEF Retimed
  <2> QED
    BY <1>1, <1>3, <1>5, <2>1, <2>2, <2>3, <2>4, HttpCallbackInv
<1>7. CASE Head(msgs) # "last"
  <2> DEFINE p == [o EXCEPT !.conn.timer = 1 - @]
             q == [o.conn EXCEPT !.timer = 1 - @]
  <2>1. Effect(c, p, Cancelled(c), Rearmed(c))
    BY <1>2, <1>7
  <2>2. After(r, s, o.conn, o.sock) /\ o.died \in {"no", "sigpipe"}
    BY <1>4, SendAfter
  <2>3. HttpStep(r, s, q, o.sock) /\ q.timer = 1 - r.timer
    BY <1>3, <1>4, <2>2, RestartAfter
  <2>4. p.conn = q /\ p.sock = o.sock /\ p.died = o.died
    <3>1. \E y, z, how : o \in {Outcome(y, z), Dies(y, z, how)}
      BY DEF SendInLoop, When
    <3> QED
      BY <3>1, OutcomeTimer
  <2> HIDE DEF p, q
  <2>5. Retimed(c, p, Cancelled(c), Rearmed(c))
    BY <2>3, <2>4 DEF Retimed
  <2> QED
    BY <1>1, <1>3, <1>5, <2>1, <2>2, <2>3, <2>4, <2>5, HttpCallbackInv
<1> QED
  BY <1>6, <1>7

\* The request that does not parse.
LEMMA OnBadRequestInv ==
    ASSUME IInv, setup' = setup, NEW c \in Conns, OnBadRequest(c)
    PROVE  IInv'
<1>1. /\ cur = c /\ c # NoConn /\ died = "no" /\ Return(todo, <<>>) /\ msgs # <<>>
  BY ConstantsAssumption DEF OnBadRequest
<1>2. PICK o \in SendInLoop(conn[c], sock[c]) :
        \E p \in IF o.died = "no" THEN ShutdownInLoop(o.conn, o.sock) ELSE {o} :
            Effect(c, p, timers, {})
  BY DEF OnBadRequest
<1>3. PICK p \in IF o.died = "no" THEN ShutdownInLoop(o.conn, o.sock) ELSE {o} :
            Effect(c, p, timers, {})
  BY <1>2
<1>4. conn[c].handler = "http"
  BY <1>1 DEF IInv, RoundInv
<1>5. /\ sock[c] \in SockType /\ Sound(conn[c], sock[c]) /\ sock[c].sent \in Nat /\ OpenHttp(conn[c])
  BY <1>1, <1>4, Current
<1>6. After(conn[c], sock[c], p.conn, p.sock) /\ p.died \in {"no", "sigpipe"}
  BY <1>5, SendShutdown
<1>7. HttpStep(conn[c], sock[c], p.conn, p.sock) /\ p.conn.timer = conn[c].timer
  BY <1>4, <1>5, <1>6, StepAfter
<1>8. Retimed(c, p, timers, {})
  BY <1>7 DEF Retimed
<1>9. todo \in SUBSET todo
  OBVIOUS
<1> QED
  BY <1>1, <1>3, <1>4, <1>6, <1>7, <1>8, <1>9, HttpCallbackInv

\* The read callback.
LEMMA HandleReadInv ==
    ASSUME IInv, setup' = setup, NEW c \in Conns, HandleRead(c)
    PROVE  IInv'
<1> DEFINE r == conn[c]
           data == Data(sock[c])
           s == Drained(sock[c])
           q == [r EXCEPT !.partial = IF data = <<>> THEN @ ELSE Last(data) = "part"]
<1>1. /\ cur = c /\ c # NoConn /\ died = "no" /\ r.handler = "http" /\ "read" \in todo
  BY ConstantsAssumption DEF HandleRead, Turn
<1>2. /\ sock[c] \in SockType /\ Sound(r, sock[c]) /\ sock[c].sent \in Nat /\ OpenHttp(r)
      /\ r \in ConnType /\ ObjectTypes
  BY <1>1, Current
<1>3. \/ /\ Effect(c, Outcome(r, sock[c]), timers, {}) /\ r.state # "kConnected"
         /\ Return(todo \ {"read"}, <<>>)
      \/ Effect(c, Outcome(Closed(r), s), timers, {}) /\ Return(todo \ {"read"}, <<>>)
      \/ /\ Effect(c, Outcome(q, s), timers, {})
         /\ Return(todo \ {"read"}, SelectSeq(data, LAMBDA t : t # "part"))
  BY DEF HandleRead
<1>4. /\ s \in SockType /\ s.end = sock[c].end /\ s.sent = sock[c].sent /\ s.inbox = <<>>
      /\ s.fin = sock[c].fin /\ s.notified = sock[c].notified
  <2>1. MaxIn \in Nat
    BY <1>2, MaxInIs
  <2>2. <<>> \in BoundedSeq(Tokens, MaxIn)
    <3>1. <<>> \in Seq(Tokens) /\ Len(<<>>) <= MaxIn
      BY <2>1
    <3> QED
      BY <2>1, <3>1, BoundedSeqIs, Zenon
  <2> QED
    BY <1>2, <2>2 DEF SockType, Drained
<1>5. /\ q \in ConnType /\ Same(r, q) /\ q.state = r.state /\ q.events = r.events
      /\ q.output = r.output
  BY <1>2 DEF ConnType, Same
<1> HIDE DEF s, q
<1>6. /\ After(r, sock[c], r, sock[c]) /\ After(r, sock[c], Closed(r), s)
      /\ After(r, sock[c], q, s)
  <2>1. After(r, sock[c], r, sock[c]) /\ After(r, sock[c], Closed(r), s)
    BY <1>2, <1>4, AfterNothing, AfterClose
  <2>2. After(r, sock[c], q, s)
    BY <1>2, <1>4, <1>5 DEF After, OpenHttp, Plain
  <2> QED
    BY <2>1, <2>2
<1>7. PICK p, z, requests :
        /\ Effect(c, Outcome(p, z), timers, {}) /\ Return(todo \ {"read"}, requests)
        /\ After(r, sock[c], p, z) /\ (z.inbox = <<>> \/ p.state # "kConnected")
  BY <1>3, <1>4, <1>6, ConnFields
<1>8. HttpStep(r, sock[c], p, z) /\ p.timer = r.timer
  BY <1>1, <1>2, <1>7, StepAfter
<1> DEFINE o == Outcome(p, z)
<1>9. o.conn = p /\ o.sock = z /\ o.died = "no" /\ Effect(c, o, timers, {})
  BY <1>7, OutcomeFields
<1> HIDE DEF o
<1>10. Retimed(c, o, timers, {})
  BY <1>8, <1>9 DEF Retimed
<1>11. (todo \ {"read"}) \in SUBSET todo
  OBVIOUS
<1> QED
  BY <1>1, <1>7, <1>8, <1>9, <1>10, <1>11, HttpCallbackInv

\* The callback of a connection in its handshake.
LEMMA HandleHandShakeInv ==
    ASSUME IInv, setup' = setup, NEW c \in Conns, NEW x, HandleHandShake(c, x)
    PROVE  IInv'
<1>1. /\ cur = c /\ c # NoConn /\ died = "no" /\ conn[c].handler = "handshake"
      /\ \A y \in todo : Rank[x] <= Rank[y]
      /\ x \in {"handshake", "read", "write"}
  BY ConstantsAssumption DEF HandleHandShake, Turn
<1>2. PICK o \in HandShake(conn[c], sock[c]) :
        /\ Effect(c, o, timers, {})
        /\ Return((todo \ {x}) \cup (IF o.read THEN {"read"} ELSE {}), <<>>)
  BY DEF HandleHandShake
<1>3. /\ ObjectTypes /\ conn[c] \in ConnType /\ sock[c] \in SockType /\ Sound(conn[c], sock[c])
      /\ sock[c].sent \in Nat /\ Attached(c)
  BY <1>1, Current
<1>4. MaxIn \in Nat
  BY <1>3, MaxInIs
<1>5. /\ Ssl
      /\ conn[c].state = "kConnecting" \/ (conn[c].state = "kDisconnected" /\ Refused(sock[c]))
  BY <1>1, <1>3 DEF Sound
<1>6. Handshaken(conn[c], sock[c], o.conn, o.sock) /\ o.died = "no"
  BY <1>1, <1>3, <1>4, <1>5, HandshakeAfter
<1>7. /\ Moved(conn[c], sock[c], o.conn, o.sock) /\ o.conn.timer = conn[c].timer
  <2>1. o.sock \in SockType /\ Len(o.sock.inbox) \in Nat /\ Len(sock[c].inbox) \in Nat
    <3>1. o.sock \in SockType
      BY <1>6 DEF Handshaken
    <3>2. o.sock.inbox \in Seq(Tokens) /\ sock[c].inbox \in Seq(Tokens)
      BY <1>3, <1>4, <3>1, BoundedSeqIs DEF SockType
    <3> QED
      BY <3>1, <3>2
  <2>2. Len(o.sock.inbox) <= o.sock.sent
    BY <1>3, <1>6, <2>1 DEF Handshaken, Sound
  <2> QED
    BY <1>5, <1>6, <2>1, <2>2 DEF Moved, Handshaken, Sound, Live
<1>8. Retimed(c, o, timers, {})
  BY <1>7 DEF Retimed
<1> DEFINE rest == (todo \ {x}) \cup (IF o.read THEN {"read"} ELSE {})
<1>9. rest \subseteq {"close", "error", "handshake", "read", "write"}
      /\ rest \cap {"close", "error"} = {}
  BY <1>1 DEF IInv, RoundTypes, RoundInv
<1>10. Effect(c, o, timers, {}) /\ Return(rest, <<>>)
  BY <1>2
<1> HIDE DEF rest
<1> QED
  BY <1>1, <1>5, <1>6, <1>7, <1>8, <1>9, <1>10, CallbackInv
-----------------------------------------------------------------------------
(* The peers.                                                              *)

\* Functors of the two kinds, and of two connections, differ.
LEMMA FunctorsDiffer ==
    /\ \A c \in Conns : Establishing(c) \in Functors /\ Removing(c) \in Functors
    /\ \A c, d \in Conns : Establishing(c) # Removing(d)
    /\ \A c, d \in Conns : Establishing(c) = Establishing(d) => c = d
    /\ \A c, d \in Conns : Removing(c) = Removing(d) => c = d
  BY DEF Establishing, Removing, Functors

\* The kernel side of a connection that was not accepted yet, or is destroyed.
LEMMA NewSockIs ==
    ASSUME MaxIn \in Nat
    PROVE  /\ NewSock \in SockType /\ NewSock.inbox = <<>> /\ NewSock.sent = 0 /\ NewSock.fin = FALSE
           /\ NewSock.notified = FALSE /\ Len(NewSock.inbox) = 0 /\ Len(NewSock.inbox) <= NewSock.sent
<1>1. <<>> \in Seq(Tokens) /\ Len(<<>>) <= MaxIn /\ Len(<<>>) = 0
  OBVIOUS
<1>2. <<>> \in BoundedSeq(Tokens, MaxIn)
  BY <1>1, BoundedSeqIs, Zenon
<1> QED
  BY <1>1, <1>2 DEF NewSock, SockType

\* There is a descriptor.
LEMMA AnyFdIs == AnyFd \in Fds
  BY ConstantsAssumption DEF AnyFd

\* The loop starts with nothing.
LEMMA InitInv == ASSUME Init PROVE IInv
<1>1. /\ setup \in Setups /\ MaxIn \in Nat
      /\ conn = [c \in Conns |-> NewConn("none", AnyFd)] /\ sock = [c \in Conns |-> NewSock]
      /\ ready = {} /\ timers = {} /\ pending = <<>> /\ running = <<>>
      /\ connections = [fd \in Fds |-> NoConn] /\ channels = [fd \in Fds |-> NoConn]
      /\ active = {} /\ retired = {} /\ expired = {} /\ pc = "poll"
      /\ cur = NoConn /\ todo = {} /\ msgs = <<>> /\ died = "no"
  BY ConstantsAssumption DEF Init, MaxIn
<1>2. ASSUME NEW c \in Conns
      PROVE  /\ conn[c] \in ConnType /\ sock[c] \in SockType
             /\ conn[c].state = "none" /\ conn[c].handler = "http" /\ ~conn[c].output
             /\ sock[c].inbox = <<>> /\ Len(sock[c].inbox) <= sock[c].sent
             /\ ~sock[c].fin /\ ~sock[c].notified
  <2>1. conn[c] = NewConn("none", AnyFd) /\ sock[c] = NewSock /\ "none" \in States /\ AnyFd \in Fds
    BY <1>1, AnyFdIs DEF States
  <2>2. /\ conn[c] \in ConnType /\ conn[c].state = "none" /\ conn[c].handler = "http"
        /\ conn[c].output = FALSE
    BY ONLY <2>1 DEF NewConn, ConnType
  <2> QED
    <3>1. MaxIn \in Nat /\ sock[c] = NewSock
      BY <1>1, <2>1
    <3>2. /\ sock[c] \in SockType /\ sock[c].inbox = <<>> /\ sock[c].sent = 0
          /\ sock[c].fin = FALSE /\ sock[c].notified = FALSE /\ Len(sock[c].inbox) = 0
      BY ONLY <3>1, NewSockIs
    <3> QED
      BY <2>2, <3>2
<1>3. ObjectTypes
  <2>1. conn \in [Conns -> ConnType] /\ sock \in [Conns -> SockType]
    BY <1>1, <1>2
  <2>2. pending \in Seq(Functors) /\ running \in Seq(Functors)
    BY <1>1
  <2> QED
    BY <1>1, <2>1, <2>2 DEF ObjectTypes
<1>4. FdInv
  BY <1>2 DEF FdInv, HoldsFd, Live
<1>5. QueueInv
  BY <1>1, <1>2, EmptyQueue DEF QueueInv, Queued
<1>6. MapInv
  BY <1>1, <1>2 DEF MapInv, Attached, Live
<1>7. SoundInv
  BY <1>2 DEF SoundInv, Sound
<1>8. RoundTypes /\ RoundInv /\ TimerInv /\ DiedInv
  BY <1>1 DEF RoundTypes, RoundInv, TimerInv, DiedInv
<1>9. GuardInv /\ UnreadInv
  BY <1>2 DEF GuardInv, UnreadInv
<1>10. PlainInv
  BY <1>2 DEF PlainInv, Plain, Live
<1> QED
  BY <1>3, <1>4, <1>5, <1>6, <1>7, <1>8, <1>9, <1>10 DEF IInv, Objects

\* The kernel's side of connection c changes under the loop's hands.
LEMMA PeerInv ==
    ASSUME IInv, setup' = setup, NEW c \in Conns, Environment(c), NEW z \in SockType,
           sock' = [sock EXCEPT ![c] = z], Sound(conn[c], z),
           z.fin = sock[c].fin, z.notified = sock[c].notified,
           ready' = ready \/ (ready' = ready \cup {c} /\ Registered(c)),
           z.inbox = sock[c].inbox \/ (Registered(c) /\ "R" \in conn[c].events => c \in ready')
    PROVE  IInv'
<1>1. /\ Objects /\ ObjectTypes /\ RoundTypes /\ RoundInv /\ TimerInv /\ DiedInv
      /\ GuardInv /\ PlainInv /\ UnreadInv /\ c # NoConn
  BY ConstantsAssumption DEF IInv, Objects
<1>2. /\ UNCHANGED <<conn, connections, channels, timers, pending, wake, pc, active, running,
                     retired, expired, cur, todo, msgs, died>>
      /\ conn[c].state \in HoldsFd
  BY DEF Environment, queue, round, call
<1>3. sock'[c] = z /\ \A d \in Conns \ {c} : sock'[d] = sock[d]
  BY <1>1 DEF ObjectTypes
<1>4. Registered(c) => Attached(c)
  BY <1>1 DEF Registered, Objects, MapInv, ObjectTypes, ConnType
<1>5. ObjectTypes'
  BY <1>1, <1>2, SetupFixed DEF ObjectTypes
<1>6. FdInv' /\ QueueInv' /\ MapInv'
  <2>1. \A d \in Conns : Attached(d)' = Attached(d)
    BY <1>2 DEF Attached
  <2>2. FdInv' /\ QueueInv'
    BY <1>1, <1>2 DEF Objects, FdInv, QueueInv, Queued, Establishing, Removing
  <2>3. MapInv'
    BY <1>1, <1>2 DEF Objects, MapInv, Attached
  <2> QED
    BY <2>2, <2>3
<1>7. SoundInv'
  BY <1>1, <1>2, <1>3, SetupFixed DEF Objects, SoundInv
<1>8. RoundTypes' /\ DiedInv'
  BY <1>1, <1>2 DEF RoundTypes, DiedInv
<1>9. RoundInv'
  BY <1>1, <1>2, <1>4 DEF RoundInv, Attached
<1>10. TimerInv'
  BY <1>1, <1>2 DEF TimerInv
<1>11. GuardInv'
  BY <1>1, <1>2 DEF GuardInv, Guarded, Ssl
<1>12. PlainInv'
  BY <1>1, <1>2, <1>3 DEF PlainInv, Plain, Ssl
<1>13. UnreadInv'
  <2> SUFFICES ASSUME ~Ssl, NEW d \in Conns, conn[d].state = "kConnected", sock'[d].inbox # <<>>
               PROVE  Noticed(d)'
    BY <1>2 DEF UnreadInv, Ssl
  <2>1. ASSUME sock[d].inbox # <<>> PROVE Noticed(d)'
    <3>1. Noticed(d)
      BY <1>1, <2>1 DEF UnreadInv
    <3> QED
      BY <1>2, <3>1 DEF Noticed
  <2>2. ASSUME sock[d].inbox = <<>> PROVE Noticed(d)'
    <3>1. d = c /\ z.inbox # sock[c].inbox
      BY <1>3, <2>2
    <3>2. c \notin retired
      BY <1>1, <3>1 DEF Objects, MapInv
    <3>3. Registered(c)
      BY <1>1, <3>1, <3>2 DEF Objects, MapInv, Attached, Live, Registered
    <3>4. "R" \in conn[c].events
      BY <1>1, <3>1 DEF PlainInv, Plain, Live
    <3> QED
      BY <3>1, <3>3, <3>4 DEF Noticed
  <2> QED
    BY <2>1, <2>2
<1> QED
  BY <1>5, <1>6, <1>7, <1>8, <1>9, <1>10, <1>11, <1>12, <1>13 DEF IInv, Objects

\* Every action of a peer.
LEMMA PeerActionsInv ==
    ASSUME IInv, setup' = setup, NEW c \in Conns,
           (\E token \in Tokens : PeerSends(c, token)) \/ PeerCloses(c) \/ PeerResets(c) \/ PeerDrains(c)
    PROVE  IInv'
<1>1. /\ sock[c] \in SockType /\ Sound(conn[c], sock[c]) /\ ObjectTypes
  BY DEF IInv, Objects, ObjectTypes, SoundInv
<1>2. MaxIn \in Nat
  BY <1>1, MaxInIs
<1> DEFINE s == sock[c]
<1>3. s.inbox \in Seq(Tokens) /\ Len(s.inbox) \in Nat /\ Len(s.inbox) <= s.sent /\ s.sent \in Nat
  BY <1>1, <1>2, BoundedSeqIs DEF SockType, Sound
<1>4. ASSUME NEW token \in Tokens, PeerSends(c, token) PROVE IInv'
  <2> DEFINE in == Append(s.inbox, token)
             n == s.sent + 1
             z == [s EXCEPT !.inbox = in, !.sent = n]
  <2>1. /\ Environment(c) /\ ~s.end /\ ~s.rst /\ s.sent < MaxIn
        /\ ready' = IF Registered(c) /\ "R" \in conn[c].events THEN ready \cup {c} ELSE ready
        /\ sock' = [sock EXCEPT ![c].inbox = Append(@, token), ![c].sent = @ + 1]
    BY <1>4 DEF PeerSends
  <2>2. sock' = [sock EXCEPT ![c] = z]
    BY <2>1
  <2>3. Append(s.inbox, token) \in BoundedSeq(Tokens, MaxIn)
    <3>1. Append(s.inbox, token) \in Seq(Tokens) /\ Len(Append(s.inbox, token)) <= MaxIn
      BY <1>2, <1>3, <2>1
    <3> QED
      BY <1>2, <3>1, BoundedSeqIs, Zenon
  <2>4. /\ z \in SockType /\ z.fin = s.fin /\ z.notified = s.notified
        /\ z.end = s.end /\ z.rst = s.rst /\ z.inbox = Append(s.inbox, token) /\ z.sent = s.sent + 1
    <3>1. n \in 0..MaxIn
      BY <1>2, <1>3, <2>1
    <3>2. s \in SockType /\ in \in BoundedSeq(Tokens, MaxIn)
      BY <1>1, <2>3
    <3>0. z = [s EXCEPT !.inbox = in, !.sent = n]
      OBVIOUS
    <3> HIDE DEF in, n, s, z
    <3>3. /\ z \in SockType /\ z.fin = s.fin /\ z.notified = s.notified
          /\ z.end = s.end /\ z.rst = s.rst /\ z.inbox = in /\ z.sent = n
      BY ONLY <3>0, <3>1, <3>2 DEF SockType
    <3> QED
      BY <3>3 DEF in, n
  <2> HIDE DEF z
  <2>5. Sound(conn[c], z)
    <3>1. s.inbox # <<>> => z.inbox # <<>> /\ Head(z.inbox) = Head(s.inbox)
      BY <1>3, <2>4
    <3>2. Len(z.inbox) = Len(s.inbox) + 1
      BY <1>3, <2>4
    <3>3. Len(z.inbox) <= z.sent
      BY <1>3, <2>4, <3>2
    <3>4. Refused(s) => Refused(z)
      BY <2>1, <2>4, <3>1 DEF Refused, Greeting
    <3> QED
      BY <1>1, <3>3, <3>4 DEF Sound
  <2> QED
    BY <2>1, <2>2, <2>4, <2>5, PeerInv
<1>5. CASE PeerCloses(c)
  <2> DEFINE z == [s EXCEPT !.end = TRUE]
  <2>1. Environment(c) /\ ready' = (IF Registered(c) THEN ready \cup {c} ELSE ready)
        /\ sock' = [sock EXCEPT ![c] = z]
    BY <1>5 DEF PeerCloses
  <2>2. /\ z \in SockType /\ z.fin = s.fin /\ z.notified = s.notified
        /\ z.end /\ z.rst = s.rst /\ z.inbox = s.inbox /\ z.sent = s.sent
    BY <1>1 DEF SockType
  <2> HIDE DEF z
  <2>3. Sound(conn[c], z)
    BY <1>1, <2>2 DEF Sound, Refused, Greeting
  <2> QED
    BY <2>1, <2>2, <2>3, PeerInv
<1>6. CASE PeerResets(c)
  <2> DEFINE z == [s EXCEPT !.rst = TRUE]
  <2>1. Environment(c) /\ ready' = (IF Registered(c) THEN ready \cup {c} ELSE ready)
        /\ sock' = [sock EXCEPT ![c] = z]
    BY <1>6 DEF PeerResets
  <2>2. /\ z \in SockType /\ z.fin = s.fin /\ z.notified = s.notified
        /\ z.end = s.end /\ z.rst /\ z.inbox = s.inbox /\ z.sent = s.sent
    BY <1>1 DEF SockType
  <2> HIDE DEF z
  <2>3. Sound(conn[c], z)
    BY <1>1, <2>2 DEF Sound, Refused
  <2> QED
    BY <2>1, <2>2, <2>3, PeerInv
<1>7. CASE PeerDrains(c)
  <2> DEFINE z == [s EXCEPT !.blocked = FALSE]
  <2>1. /\ Environment(c)
        /\ ready' = (IF Registered(c) /\ "W" \in conn[c].events THEN ready \cup {c} ELSE ready)
        /\ sock' = [sock EXCEPT ![c] = z]
    BY <1>7 DEF PeerDrains
  <2>2. /\ z \in SockType /\ z.fin = s.fin /\ z.notified = s.notified
        /\ z.end = s.end /\ z.rst = s.rst /\ z.inbox = s.inbox /\ z.sent = s.sent
    BY <1>1 DEF SockType
  <2> HIDE DEF z
  <2>3. Sound(conn[c], z)
    BY <1>1, <2>2 DEF Sound, Refused, Greeting
  <2> QED
    BY <2>1, <2>2, <2>3, PeerInv
<1> QED
  BY <1>4, <1>5, <1>6, <1>7
-----------------------------------------------------------------------------
(* The rounds of the loop.                                                 *)

\* The parts of the invariant, by name.
LEMMA Parts ==
    ASSUME IInv
    PROVE  /\ Objects /\ ObjectTypes /\ FdInv /\ QueueInv /\ MapInv /\ SoundInv
           /\ RoundTypes /\ RoundInv /\ TimerInv /\ DiedInv /\ GuardInv /\ PlainInv /\ UnreadInv
  BY DEF IInv, Objects

\* Poller::poll: the input of a connection in the ready list is reported.
LEMMA PollInv == ASSUME IInv, setup' = setup, Poll PROVE IInv'
<1>1. /\ pc = "poll" /\ pc' = "events" /\ active' = Reports /\ ready' \subseteq ready
      /\ UNCHANGED <<conn, sock, connections, channels, timers, pending, running, retired,
                     expired, cur, todo, msgs, died>>
  BY DEF Poll, call
<1>2. /\ running = <<>> /\ retired = {} /\ expired = {} /\ cur = NoConn /\ todo = {} /\ msgs = <<>>
      /\ active = {} /\ \A c \in ready : Attached(c)
  BY <1>1, Parts DEF RoundInv
<1>3. ObjectTypes'
  BY <1>1, Parts, SetupFixed DEF ObjectTypes
<1>4. FdInv' /\ QueueInv'
  BY <1>1, Parts DEF FdInv, QueueInv, Queued, Establishing, Removing
<1>5. MapInv'
  BY <1>1, Parts DEF MapInv, Attached
<1>6. SoundInv'
  BY <1>1, Parts, SetupFixed DEF SoundInv
<1>7. \A a \in active' : a.conn \in ready /\ a \in [conn : Conns, revents : SUBSET {"IN", "OUT", "HUP", "ERR"}]
  BY <1>1, Parts DEF Reports, Report, Revents, ObjectTypes
<1>8. RoundTypes'
  BY <1>1, <1>7, Parts DEF RoundTypes
<1>9. RoundInv'
  BY <1>1, <1>2, <1>7 DEF RoundInv, Attached
<1>10. TimerInv' /\ DiedInv'
  BY <1>1, Parts DEF TimerInv, DiedInv, Poll
<1>11. GuardInv' /\ PlainInv'
  BY <1>1, Parts DEF GuardInv, Guarded, PlainInv, Plain, Ssl
<1>12. UnreadInv'
  <2> SUFFICES ASSUME ~Ssl, NEW c \in Conns, conn[c].state = "kConnected", sock[c].inbox # <<>>
               PROVE  Noticed(c)'
    BY <1>1 DEF UnreadInv, Ssl
  <2>1. c \in ready
    BY <1>2, Parts DEF UnreadInv, Noticed
  <2>2. "IN" \in Revents(conn[c], sock[c])
    BY Parts DEF PlainInv, Plain, Live, Revents
  <2>3. Report(c) \in Reports /\ Report(c).conn = c /\ "IN" \in Report(c).revents
    BY <2>1, <2>2 DEF Reports, Report
  <2> QED
    BY <1>1, <2>3 DEF Noticed
<1> QED
  BY <1>3, <1>4, <1>5, <1>6, <1>8, <1>9, <1>10, <1>11, <1>12 DEF IInv, Objects

\* Channel::handleEvent chooses the callbacks.
LEMMA HandleEventInv ==
    ASSUME IInv, setup' = setup, NEW a \in active, HandleEvent(a) PROVE IInv'
<1>1. /\ died = "no" /\ pc = "events" /\ cur = NoConn /\ active' = active \ {a}
      /\ UNCHANGED <<conn, sock, ready, connections, channels, timers, pending, wake, pc, running,
                     retired, expired, msgs, died>>
      /\ todo' \subseteq {"close", "error", "read", "write"}
      /\ todo' \cap {"close", "error"} # {} => conn[a.conn].handler = "http"
      /\ "read" \in todo' <=> "IN" \in a.revents
      /\ cur' = IF todo' = {} THEN NoConn ELSE a.conn
  BY DEF HandleEvent, queue
<1>2. a.conn \in Conns /\ Attached(a.conn) /\ a.conn # NoConn
  BY Parts, ConstantsAssumption DEF RoundTypes, RoundInv
<1>3. ObjectTypes'
  BY <1>1, Parts, SetupFixed DEF ObjectTypes
<1>4. FdInv' /\ QueueInv'
  BY <1>1, Parts DEF FdInv, QueueInv, Queued, Establishing, Removing
<1>5. MapInv'
  BY <1>1, Parts DEF MapInv, Attached
<1>6. SoundInv'
  BY <1>1, Parts, SetupFixed DEF SoundInv
<1>7. RoundTypes'
  BY <1>1, <1>2, Parts DEF RoundTypes
<1>8. RoundInv'
  BY <1>1, <1>2, Parts DEF RoundInv, Attached
<1>9. TimerInv' /\ DiedInv'
  BY <1>1, Parts DEF TimerInv, DiedInv
<1>10. GuardInv' /\ PlainInv'
  BY <1>1, Parts DEF GuardInv, Guarded, PlainInv, Plain, Ssl
<1>11. UnreadInv'
  <2> SUFFICES ASSUME ~Ssl, NEW c \in Conns, conn[c].state = "kConnected", sock[c].inbox # <<>>
               PROVE  Noticed(c)'
    BY <1>1 DEF UnreadInv, Ssl
  <2>1. c \in ready \/ \E b \in active : b.conn = c /\ "IN" \in b.revents
    BY <1>1, Parts, ConstantsAssumption DEF UnreadInv, Noticed
  <2> QED
    BY <1>1, <2>1 DEF Noticed
<1> QED
  BY <1>3, <1>4, <1>5, <1>6, <1>7, <1>8, <1>9, <1>10, <1>11 DEF IInv, Objects

\* The functors that are pending become those of this round.
LEMMA HandleEventsDoneInv == ASSUME IInv, setup' = setup, HandleEventsDone PROVE IInv'
<1>1. /\ died = "no" /\ pc = "events" /\ cur = NoConn /\ active = {} /\ pc' = "functors"
      /\ running' = pending /\ pending' = <<>>
      /\ UNCHANGED <<conn, sock, ready, connections, channels, timers, wake, active, retired,
                     expired, cur, todo, msgs, died>>
  BY DEF HandleEventsDone, call
<1>2. running = <<>> /\ retired = {}
  BY <1>1, Parts DEF RoundInv
<1>3. ObjectTypes'
  BY <1>1, Parts, SetupFixed DEF ObjectTypes
<1>4. FdInv'
  BY <1>1, Parts DEF FdInv
<1>5. QueueInv'
  <2>1. Queued' = Queued /\ Once(pending)
    BY <1>1, <1>2, Parts, EmptyQueue DEF Queued, QueueInv
  <2>2. Once(running') /\ Once(pending') /\ ToSet(running') \cap ToSet(pending') = {}
    BY <1>1, <2>1, EmptyQueue
  <2>3. \A c \in Conns : Establishing(c)' = Establishing(c) /\ Removing(c)' = Removing(c)
    BY DEF Establishing, Removing
  <2> QED
    BY <1>1, <2>1, <2>2, <2>3, Parts DEF QueueInv
<1>6. MapInv'
  BY <1>1, Parts DEF MapInv, Attached
<1>7. SoundInv'
  BY <1>1, Parts, SetupFixed DEF SoundInv
<1>8. RoundTypes'
  BY <1>1, Parts DEF RoundTypes
<1>9. RoundInv'
  BY <1>1, <1>2, Parts DEF RoundInv, Attached
<1>10. TimerInv' /\ DiedInv'
  BY <1>1, Parts DEF TimerInv, DiedInv
<1>11. GuardInv' /\ PlainInv'
  BY <1>1, Parts DEF GuardInv, Guarded, PlainInv, Plain, Ssl
<1>12. UnreadInv'
  BY <1>1, Parts DEF UnreadInv, Noticed, Ssl
<1> QED
  BY <1>3, <1>4, <1>5, <1>6, <1>7, <1>8, <1>9, <1>10, <1>11, <1>12 DEF IInv, Objects

\* handleExpireTimers takes the timers that are due.
LEMMA TakeExpiredInv ==
    ASSUME IInv, setup' = setup, NEW due \in SUBSET timers, TakeExpired(due) PROVE IInv'
<1>1. /\ died = "no" /\ pc = "timers" /\ timers' = timers \ due /\ expired' = due
      /\ pc' = (IF due = {} THEN "poll" ELSE "expire")
      /\ UNCHANGED <<conn, sock, ready, connections, channels, pending, wake, active, running,
                     retired, cur, todo, msgs, died>>
  BY DEF TakeExpired, queue, call
<1>2. expired = {} /\ timers' \cup expired' = timers \cup expired
  BY <1>1, Parts DEF RoundInv
<1>3. ObjectTypes'
  BY <1>1, Parts, SetupFixed DEF ObjectTypes
<1>4. FdInv' /\ QueueInv'
  BY <1>1, Parts DEF FdInv, QueueInv, Queued, Establishing, Removing
<1>5. MapInv'
  BY <1>1, Parts DEF MapInv, Attached
<1>6. SoundInv'
  BY <1>1, Parts, SetupFixed DEF SoundInv
<1>7. RoundTypes'
  BY <1>1, Parts DEF RoundTypes, ObjectTypes
<1>8. RoundInv'
  BY <1>1, Parts DEF RoundInv, Attached
<1>9. TimerInv' /\ DiedInv'
  BY <1>1, <1>2, Parts DEF TimerInv, DiedInv
<1>10. GuardInv' /\ PlainInv'
  BY <1>1, <1>2, Parts DEF GuardInv, Guarded, PlainInv, Plain, Ssl
<1>11. UnreadInv'
  BY <1>1, Parts DEF UnreadInv, Noticed, Ssl
<1> QED
  BY <1>3, <1>4, <1>5, <1>6, <1>7, <1>8, <1>9, <1>10, <1>11 DEF IInv, Objects

\* An idle timer's callback.
LEMMA RunTimerInv ==
    ASSUME IInv, setup' = setup, NEW t \in expired, RunTimer(t) PROVE IInv'
<1> DEFINE c == t[1]
           o == Outcome(Closed(conn[c]), sock[c])
<1>1. /\ died = "no" /\ pc = "expire" /\ expired' = expired \ {t}
      /\ pc' = (IF expired = {t} THEN "poll" ELSE "expire")
      /\ UNCHANGED <<active, running, retired, cur, todo, msgs>>
  BY DEF RunTimer, call
<1>2. /\ running = <<>> /\ retired = {} /\ active = {} /\ cur = NoConn /\ todo = {} /\ msgs = <<>>
      /\ \A d \in ready : Attached(d)
  BY <1>1, Parts DEF RoundInv
<1>3. c \in Conns /\ conn[c] \in ConnType /\ sock[c] \in SockType
  BY Parts DEF RoundTypes, ObjectTypes
<1>4. RoundTypes'
  BY <1>1, Parts DEF RoundTypes
<1>5. CASE conn[c].state \in {"kConnected", "kDisconnecting"}
  <2>1. Effect(c, o, timers, {})
    BY <1>5 DEF RunTimer
  <2>2. Attached(c) /\ conn[c].state # "kDisconnected"
    BY <1>2, <1>5 DEF Attached, Live
  <2>3. /\ Closed(conn[c]) \in ConnType /\ Same(conn[c], Closed(conn[c]))
        /\ Closed(conn[c]).state = "kDisconnected" /\ Closed(conn[c]).events = {}
        /\ Closed(conn[c]).output = conn[c].output
    BY <1>3, ConnFields
  <2>4. o.conn = Closed(conn[c]) /\ o.sock = sock[c] /\ o.died = "no"
    BY OutcomeFields
  <2>5. conn[c].handler = "http" /\ Sound(conn[c], sock[c])
    BY <1>3, <1>5, Parts DEF SoundInv, Sound, ConnType
  <2>6. Moved(conn[c], sock[c], o.conn, o.sock)
    BY <1>3, <2>3, <2>4, <2>5 DEF Moved, Same, Sound
  <2>7. Retimed(c, o, timers, {})
    BY <2>3, <2>4 DEF Retimed, Same
  <2> HIDE DEF o
  <2>8. {} \subseteq Conns \X {0, 1} /\ UNCHANGED <<running, retired>> /\ timers \subseteq timers
    BY <1>1
  <2>9. /\ Objects'
        /\ conn'[c] = o.conn /\ sock'[c] = o.sock
        /\ \A d \in Conns \ {c} : conn'[d] = conn[d] /\ sock'[d] = sock[d]
        /\ \A d \in Conns : Attached(d) => Attached(d)'
        /\ ready' \subseteq ready \cup {c} /\ ready \subseteq ready'
        /\ died' = o.died
    BY <1>3, <2>1, <2>2, <2>6, <2>8, Parts, EffectObjects
  <2>10. TimerInv' /\ GuardInv'
    <3>1. /\ \A u \in expired \ expired' : u[1] = c
          /\ expired' \subseteq expired
          /\ o.conn.state = "kDisconnected"
      BY <1>1, <2>3, <2>4
    <3> HIDE DEF c
    <3> QED
      BY <1>1, <1>3, <2>1, <2>2, <2>6, <2>7, <2>9, <3>1, Parts, EffectTimers
  <2>11. RoundInv'
    BY <1>1, <1>2, <1>3, <2>2, <2>9, Parts DEF RoundInv, ObjectTypes, Attached
  <2>12. DiedInv'
    BY <2>4, <2>9 DEF DiedInv
  <2>13. PlainInv'
    <3>1. ~Ssl => Plain(o.conn, o.sock)
      BY <1>3, <1>5, <2>3, <2>4, Parts DEF PlainInv, Plain, Live
    <3> QED
      BY <2>9, <3>1, Parts DEF PlainInv, Plain, Ssl
  <2>14. UnreadInv'
    <3> SUFFICES ASSUME ~Ssl, NEW d \in Conns, conn'[d].state = "kConnected", sock'[d].inbox # <<>>
                 PROVE  Noticed(d)'
      BY DEF UnreadInv, Ssl
    <3>1. d # c
      BY <2>3, <2>4, <2>9
    <3>2. Noticed(d)
      BY <2>9, <3>1, Parts DEF UnreadInv
    <3> QED
      BY <1>1, <2>9, <3>2 DEF Noticed
  <2> QED
    BY <1>4, <2>9, <2>10, <2>11, <2>12, <2>13, <2>14 DEF IInv
<1>6. CASE conn[c].state \notin {"kConnected", "kDisconnecting"}
  <2>1. UNCHANGED <<conn, sock, ready, connections, channels, timers, pending, wake, died>>
    BY <1>6 DEF RunTimer, queue
  <2>3. ObjectTypes'
    BY <1>1, <2>1, Parts, SetupFixed DEF ObjectTypes
  <2>4. FdInv' /\ QueueInv'
    BY <1>1, <2>1, Parts DEF FdInv, QueueInv, Queued, Establishing, Removing
  <2>5. MapInv'
    BY <1>1, <2>1, Parts DEF MapInv, Attached
  <2>6. SoundInv'
    BY <1>1, <2>1, Parts, SetupFixed DEF SoundInv
  <2>8. RoundInv'
    BY <1>1, <1>2, <2>1 DEF RoundInv, Attached
  <2>9. TimerInv' /\ DiedInv'
    BY <1>1, <2>1, Parts DEF TimerInv, DiedInv
  <2>10. GuardInv'
    BY <1>1, <1>6, <2>1, Parts DEF GuardInv, Guarded, Ssl
  <2>11. PlainInv' /\ UnreadInv'
    BY <1>1, <2>1, Parts DEF PlainInv, Plain, UnreadInv, Noticed, Ssl
  <2> QED
    BY <1>4, <2>3, <2>4, <2>5, <2>6, <2>8, <2>9, <2>10, <2>11 DEF IInv, Objects
<1> QED
  BY <1>5, <1>6

\* The functors are destroyed, and with them the connections only they held.
LEMMA FunctorsDoneInv == ASSUME IInv, setup' = setup, FunctorsDone PROVE IInv'
<1> DEFINE dead(c) == [NewConn("destroyed", AnyFd) EXCEPT !.timer = conn[c].timer]
<1>1. /\ died = "no" /\ pc = "functors" /\ cur = NoConn /\ running = <<>>
      /\ conn' = [c \in Conns |-> IF c \in retired THEN dead(c) ELSE conn[c]]
      /\ sock' = [c \in Conns |-> IF c \in retired THEN NewSock ELSE sock[c]]
      /\ died' = (IF \A c \in retired : conn[c].events = {} THEN "no" ELSE "assert")
      /\ retired' = {} /\ pc' = "timers"
      /\ UNCHANGED <<ready, connections, channels, timers, pending, wake, active, running, expired,
                     cur, todo, msgs>>
  BY DEF FunctorsDone, queue, call
<1>2. /\ todo = {} /\ msgs = <<>> /\ active = {} /\ expired = {} /\ \A c \in ready : Attached(c)
  BY <1>1, Parts DEF RoundInv
<1>3. MaxIn \in Nat /\ retired \subseteq Conns /\ \A c \in retired : conn[c].state = "kDisconnected"
  BY Parts, MaxInIs DEF MapInv, ObjectTypes
<1>4. ASSUME NEW c \in retired
      PROVE  /\ conn'[c] \in ConnType /\ conn'[c].state = "destroyed" /\ conn'[c].events = {}
             /\ conn'[c].handler = "http" /\ conn'[c].output = FALSE
             /\ sock'[c] \in SockType /\ Len(sock'[c].inbox) <= sock'[c].sent
             /\ sock'[c].fin = FALSE /\ sock'[c].notified = FALSE
  <2>1. conn'[c] = dead(c) /\ sock'[c] = NewSock /\ conn[c].timer \in {0, 1} /\ AnyFd \in Fds
    BY <1>1, <1>3, Parts, AnyFdIs DEF ObjectTypes, ConnType
  <2>2. /\ conn'[c] \in ConnType /\ conn'[c].state = "destroyed" /\ conn'[c].events = {}
        /\ conn'[c].handler = "http" /\ conn'[c].output = FALSE
    BY ONLY <2>1 DEF NewConn, ConnType, States
  <2>3. /\ NewSock \in SockType /\ Len(NewSock.inbox) <= NewSock.sent
        /\ NewSock.fin = FALSE /\ NewSock.notified = FALSE
    BY <1>3, NewSockIs, Zenon
  <2> QED
    BY <2>1, <2>2, <2>3
<1> HIDE DEF dead
<1>5. \A c \in Conns \ retired : conn'[c] = conn[c] /\ sock'[c] = sock[c]
  BY <1>1
<1>6. died' = "no"
  BY <1>1, <1>3, Parts DEF SoundInv, Sound
<1>7. ObjectTypes'
  <2>1. \A c \in Conns : conn'[c] \in ConnType /\ sock'[c] \in SockType
    BY <1>4, <1>5, Parts DEF ObjectTypes
  <2>2. conn' \in [Conns -> ConnType] /\ sock' \in [Conns -> SockType']
    BY <1>1, <2>1, SetupFixed
  <2> QED
    BY <1>1, <2>2, Parts DEF ObjectTypes
<1>8. \A c \in Conns : conn'[c].state \in HoldsFd => conn'[c] = conn[c] /\ c \notin retired
  BY <1>4, <1>5 DEF HoldsFd, Live
<1>9. FdInv'
  BY <1>8, Parts DEF FdInv
<1>10. QueueInv'
  <2>1. \A c \in Conns : /\ conn'[c].state = "accepted" <=> conn[c].state = "accepted"
                         /\ conn'[c].state = "kDisconnected" <=> conn[c].state = "kDisconnected" /\ c \notin retired
    BY <1>3, <1>4, <1>5
  <2>2. /\ \A c \in Conns : Establishing(c)' = Establishing(c) /\ Removing(c)' = Removing(c)
        /\ Queued' = Queued
    BY <1>1 DEF Establishing, Removing, Queued
  <2> QED
    BY <1>1, <2>1, <2>2, Parts DEF QueueInv
<1>11. \A c \in Conns : Attached(c)' <=> Attached(c)
  BY <1>1, <1>4, <1>5 DEF Attached, Live
<1>12. MapInv'
  <2>1. \A c \in Conns : conn[c].state \in Live => c \notin retired
    BY <1>3 DEF Live
  <2>2. \A c \in Conns : Attached(c) => c \notin retired
    BY DEF Attached
  <2>3. \A fd \in Fds : connections'[fd] # NoConn =>
            conn'[connections'[fd]].state \in Live /\ conn'[connections'[fd]].fd = fd
    BY <1>1, <1>5, <2>1, Parts DEF MapInv, ObjectTypes
  <2>4. \A fd \in Fds : channels'[fd] # NoConn =>
            Attached(channels[fd])' /\ conn'[channels'[fd]].fd = fd
    BY <1>1, <1>5, <1>11, <2>2, Parts DEF MapInv, ObjectTypes
  <2>5. \A c \in Conns : conn'[c].state \in Live => connections'[conn'[c].fd] = c
    BY <1>1, <1>8, Parts DEF MapInv, HoldsFd
  <2>6. \A c \in Conns : Attached(c)' => channels'[conn'[c].fd] = c
    BY <1>1, <1>5, <1>11, <2>2, Parts DEF MapInv
  <2> QED
    BY <1>1, <2>3, <2>4, <2>5, <2>6 DEF MapInv, Attached
<1>13. SoundInv'
  <2>1. \A c \in retired : Sound(conn'[c], sock'[c])
    BY <1>4 DEF Sound
  <2> QED
    BY <1>5, <2>1, Parts, SetupFixed DEF SoundInv
<1>14. RoundTypes'
  BY <1>1, Parts DEF RoundTypes
<1>15. RoundInv'
  <2>1. \A c \in ready' : Attached(c)'
    BY <1>1, <1>2, <1>11, Parts DEF ObjectTypes
  <2> QED
    BY <1>1, <1>2, <2>1 DEF RoundInv
<1>16. TimerInv'
  <2> SUFFICES ASSUME NEW t \in timers \cup expired
               PROVE  /\ conn'[t[1]].state \notin {"none", "accepted"}
                      /\ conn'[t[1]].state \in Live => t[2] = conn'[t[1]].timer
    BY <1>1 DEF TimerInv
  <2>1. t[1] \in Conns
    BY Parts DEF ObjectTypes, RoundTypes
  <2>2. CASE t[1] \in retired
    BY <1>4, <2>2 DEF Live
  <2>3. CASE t[1] \notin retired
    BY <1>5, <2>1, <2>3, Parts DEF TimerInv
  <2> QED
    BY <2>2, <2>3
<1>17. DiedInv'
  BY <1>6 DEF DiedInv
<1>18. \A c \in Conns : conn'[c].state = "kConnected" => conn'[c] = conn[c] /\ sock'[c] = sock[c]
  BY <1>4, <1>5
<1>19. GuardInv' /\ UnreadInv'
  BY <1>1, <1>18, Parts DEF GuardInv, Guarded, UnreadInv, Noticed, Ssl
<1>20. PlainInv'
  BY <1>4, <1>5, Parts DEF PlainInv, Plain, Live, Ssl
<1> QED
  BY <1>7, <1>9, <1>10, <1>12, <1>13, <1>14, <1>15, <1>16, <1>17, <1>19, <1>20 DEF IInv, Objects
-----------------------------------------------------------------------------
(* Connections come and go.                                                *)

\* handleConnection, on the acceptor's thread.
LEMMA AcceptInv ==
    ASSUME IInv, setup' = setup, NEW c \in Conns, NEW fd \in setup.fds, Accept(c, fd) PROVE IInv'
<1>1. /\ died = "no" /\ conn[c].state = "none"
      /\ \A d \in Conns : conn[d].fd = fd => conn[d].state \notin HoldsFd
      /\ conn' = [conn EXCEPT ![c] = NewConn("accepted", fd)]
      /\ pending' = Append(pending, Establishing(c))
      /\ UNCHANGED <<sock, ready, connections, channels, timers, pc, active, running, retired,
                     expired, cur, todo, msgs, died>>
  BY DEF Accept, QueueInLoop, Establishing, round, call
<1>2. fd \in Fds
  BY ConstantsAssumption, Parts DEF ObjectTypes
<1> DEFINE r == conn'[c]
<1>3. /\ r \in ConnType /\ r.state = "accepted" /\ r.fd = fd /\ r.events = {}
      /\ r.handler = "http" /\ r.output = FALSE
      /\ \A d \in Conns \ {c} : conn'[d] = conn[d]
  <2>1. r = NewConn("accepted", fd) /\ \A d \in Conns \ {c} : conn'[d] = conn[d]
    BY <1>1, Parts DEF ObjectTypes
  <2>2. /\ r \in ConnType /\ r.state = "accepted" /\ r.fd = fd /\ r.events = {}
        /\ r.handler = "http" /\ r.output = FALSE
    BY ONLY <1>2, <2>1 DEF NewConn, ConnType, States
  <2> QED
    BY <2>1, <2>2
<1>4. pending \in Seq(Functors) /\ Establishing(c) \in Functors /\ Establishing(c) \notin Queued
  BY <1>1, Parts, FunctorsDiffer DEF QueueInv, ObjectTypes
<1>5. /\ pending' \in Seq(Functors) /\ ToSet(pending') = ToSet(pending) \cup {Establishing(c)}
      /\ Once(pending')
  <2>1. Once(pending) /\ Establishing(c) \notin ToSet(pending)
    BY <1>4, Parts DEF QueueInv, Queued
  <2> QED
    BY ONLY <1>1, <1>4, <2>1, QueueGrows
<1>6. \A d \in Conns : Attached(d)' <=> Attached(d)
  BY <1>1, <1>3 DEF Attached, Live
<1>7. ObjectTypes'
  <2>1. conn' \in [Conns -> ConnType]
    BY <1>1, <1>3, Parts DEF ObjectTypes
  <2> QED
    BY <1>1, <1>5, <2>1, Parts, SetupFixed DEF ObjectTypes
<1>8. FdInv'
  BY <1>1, <1>3, Parts DEF FdInv
<1>9. QueueInv'
  <2>1. Queued' = Queued \cup {Establishing(c)} /\ running' = running
    BY <1>1, <1>5 DEF Queued
  <2>2. ToSet(running') \cap ToSet(pending') = {}
    BY <1>1, <1>4, <1>5, Parts DEF QueueInv, Queued
  <2>3. \A d \in Conns : Establishing(d)' = Establishing(d) /\ Removing(d)' = Removing(d)
    BY DEF Establishing, Removing
  <2>4. ASSUME NEW d \in Conns
        PROVE  /\ Establishing(d) \in Queued' <=> conn'[d].state = "accepted"
               /\ Removing(d) \in Queued' <=> conn'[d].state = "kDisconnected" /\ d \notin retired
    <3>1. CASE d = c
      BY <1>1, <1>3, <2>1, <3>1, Parts, FunctorsDiffer DEF QueueInv
    <3>2. CASE d # c
      BY <1>3, <2>1, <3>2, Parts, FunctorsDiffer DEF QueueInv
    <3> QED
      BY <3>1, <3>2
  <2> QED
    BY <1>1, <1>5, <2>2, <2>3, <2>4, Parts DEF QueueInv
<1>10. MapInv'
  <2>1. \A d \in Conns : conn'[d].state \in Live <=> conn[d].state \in Live
    BY <1>1, <1>3 DEF Live
  <2>2. \A d \in Conns : conn[d].state \in Live \/ Attached(d) \/ d \in retired => d # c
    BY <1>1, Parts DEF Live, Attached, MapInv
  <2>3. \A d \in retired : d \in Conns /\ conn'[d].state = "kDisconnected"
    BY <1>3, <2>2, Parts DEF MapInv, ObjectTypes
  <2>4. \A fd2 \in Fds : connections'[fd2] # NoConn =>
            conn'[connections'[fd2]].state \in Live /\ conn'[connections'[fd2]].fd = fd2
    BY <1>1, <1>3, <2>1, <2>2, Parts DEF MapInv, ObjectTypes
  <2>5. \A fd2 \in Fds : channels'[fd2] # NoConn =>
            Attached(channels[fd2])' /\ conn'[channels'[fd2]].fd = fd2
    BY <1>1, <1>3, <1>6, <2>2, Parts DEF MapInv, ObjectTypes
  <2>6. \A d \in Conns : conn'[d].state \in Live => connections'[conn'[d].fd] = d
    BY <1>1, <1>3, <2>1, <2>2, Parts DEF MapInv
  <2>7. \A d \in Conns : Attached(d)' => channels'[conn'[d].fd] = d
    BY <1>1, <1>3, <1>6, <2>2, Parts DEF MapInv
  <2> QED
    BY <1>1, <2>3, <2>4, <2>5, <2>6, <2>7 DEF MapInv, Attached
<1>11. SoundInv'
  <2>1. Sound(r, sock[c])
    BY <1>3, Parts DEF SoundInv, Sound
  <2> QED
    BY <1>1, <1>3, <2>1, Parts, SetupFixed DEF SoundInv
<1>12. RoundTypes' /\ DiedInv'
  BY <1>1, Parts DEF RoundTypes, DiedInv
<1>13. RoundInv'
  <2>1. \A d \in ready \cup {a.conn : a \in active} : d \in Conns /\ Attached(d)'
    BY <1>6, Parts DEF RoundInv, ObjectTypes, RoundTypes
  <2>2. cur # NoConn => Attached(cur)' /\ cur # c /\ cur \in Conns
    BY <1>1, <1>6, Parts DEF RoundInv, RoundTypes, Attached, Live
  <2>3. cur # NoConn /\ (todo \cap {"close", "error"} # {} \/ msgs # <<>>) => conn'[cur].handler = "http"
    BY <1>3, <2>2, Parts DEF RoundInv
  <2>4. cur' # NoConn => Attached(cur)'
    BY <1>1, <2>2 DEF Attached
  <2>5. \A a \in active' : Attached(a.conn)'
    BY <1>1, <2>1
  <2> QED
    BY <1>1, <2>1, <2>3, <2>4, <2>5, Parts DEF RoundInv
<1>14. TimerInv'
  <2>1. \A t \in timers \cup expired : t[1] \in Conns /\ t[1] # c
    BY <1>1, Parts DEF TimerInv, ObjectTypes, RoundTypes
  <2> QED
    BY <1>1, <1>3, <2>1, Parts DEF TimerInv
<1>15. GuardInv' /\ UnreadInv'
  BY <1>1, <1>3, Parts DEF GuardInv, Guarded, UnreadInv, Noticed, Ssl
<1>16. PlainInv'
  <2>1. ~Ssl => Plain(r, sock[c])
    BY <1>1, <1>3, Parts DEF PlainInv, Plain, Live
  <2> QED
    BY <1>1, <1>3, <2>1, Parts DEF PlainInv, Plain, Ssl
<1> QED
  BY <1>7, <1>8, <1>9, <1>10, <1>11, <1>12, <1>13, <1>14, <1>15, <1>16 DEF IInv, Objects

\* The functor at the head of this round's queue.
LEMMA Taken ==
    ASSUME IInv, running # <<>>, running' = Tail(running), pending' = pending
    PROVE  /\ running' \in Seq(Functors) /\ Once(running') /\ Once(pending')
           /\ ToSet(running') \cap ToSet(pending') = {}
           /\ Queued' = Queued \ {Head(running)} /\ Head(running) \in Queued
<1>1. running \in Seq(Functors) /\ Once(running) /\ Once(pending)
      /\ ToSet(running) \cap ToSet(pending) = {}
  BY Parts DEF ObjectTypes, QueueInv
<1>2. /\ Head(running) \in ToSet(running) /\ Tail(running) \in Seq(Functors)
      /\ Once(Tail(running)) /\ ToSet(Tail(running)) = ToSet(running) \ {Head(running)}
  BY <1>1, QueueTaken
<1> QED
  BY <1>1, <1>2 DEF Queued

\* Poller::removeChannel.
LEMMA RemoveChannelInv ==
    ASSUME IInv, setup' = setup, NEW c \in Conns, RemoveChannel(c) PROVE IInv'
<1> DEFINE fd == conn[c].fd
<1>1. /\ died = "no" /\ pc = "functors" /\ cur = NoConn /\ running # <<>>
      /\ Head(running) = Removing(c) /\ running' = Tail(running)
      /\ channels' = [channels EXCEPT ![fd] = NoConn]
      /\ ready' = ready \ {c} /\ retired' = retired \cup {c}
      /\ died' = (IF channels[fd] = c THEN "no" ELSE "assert")
      /\ UNCHANGED <<conn, sock, connections, timers, pending, wake, pc, active, expired,
                     cur, todo, msgs>>
  BY DEF RemoveChannel, Removing, Unregistered, queue, call
<1>2. /\ running' \in Seq(Functors) /\ Once(running') /\ Once(pending')
      /\ ToSet(running') \cap ToSet(pending') = {}
      /\ Queued' = Queued \ {Removing(c)} /\ Removing(c) \in Queued
  BY <1>1, Taken
<1>3. conn[c].state = "kDisconnected" /\ c \notin retired /\ Attached(c)
  BY <1>2, Parts DEF QueueInv, Attached
<1>4. channels[fd] = c /\ died' = "no" /\ fd \in Fds /\ c # NoConn
  BY <1>1, <1>3, Parts, ConstantsAssumption DEF MapInv, ObjectTypes, ConnType
<1>5. /\ todo = {} /\ msgs = <<>> /\ active = {} /\ expired = {}
      /\ \A d \in ready : d \in Conns /\ Attached(d)
  BY <1>1, Parts DEF RoundInv, ObjectTypes
<1>6. \A d \in Conns : Attached(d)' <=> Attached(d) /\ d # c
  BY <1>1, <1>3 DEF Attached
<1>7. ObjectTypes'
  BY <1>1, <1>2, <1>4, Parts, SetupFixed DEF ObjectTypes
<1>8. FdInv'
  BY <1>1, Parts DEF FdInv
<1>9. QueueInv'
  <2>1. \A d \in Conns : Establishing(d)' = Establishing(d) /\ Removing(d)' = Removing(d)
    BY DEF Establishing, Removing
  <2>2. ASSUME NEW d \in Conns
        PROVE  /\ Establishing(d) \in Queued' <=> conn'[d].state = "accepted"
               /\ Removing(d) \in Queued' <=> conn'[d].state = "kDisconnected" /\ d \notin retired'
    BY <1>1, <1>2, Parts, FunctorsDiffer DEF QueueInv
  <2> QED
    BY <1>2, <2>1, <2>2 DEF QueueInv
<1>10. MapInv'
  <2>1. \A fd2 \in Fds : channels'[fd2] # NoConn =>
            Attached(channels[fd2]) /\ conn[channels[fd2]].fd = fd2 /\ channels[fd2] # c
            /\ channels'[fd2] = channels[fd2] /\ channels[fd2] \in Conns
    BY <1>1, <1>4, Parts DEF MapInv, ObjectTypes
  <2>2. \A fd2 \in Fds : channels'[fd2] # NoConn => channels'[fd2] = channels[fd2]
            /\ Attached(channels[fd2])' /\ conn'[channels[fd2]].fd = fd2
    BY <1>1, <1>6, <2>1
  <2>3. ASSUME NEW d \in Conns, Attached(d), d # c PROVE channels'[conn[d].fd] = d
    <3>1. conn[d].state \in HoldsFd /\ conn[c].state \in HoldsFd
      BY <1>3, <2>3 DEF Attached, HoldsFd
    <3>2. conn[d].fd # fd /\ channels[conn[d].fd] = d /\ conn[d].fd \in Fds
      BY <2>3, <3>1, Parts DEF FdInv, MapInv, ObjectTypes, ConnType
    <3> QED
      BY <1>1, <3>2, Parts DEF ObjectTypes
  <2>4. \A d \in Conns : Attached(d)' => channels'[conn'[d].fd] = d
    BY <1>1, <1>6, <2>3
  <2> QED
    BY <1>1, <1>3, <2>2, <2>4, Parts DEF MapInv, Attached
<1>11. SoundInv'
  BY <1>1, Parts, SetupFixed DEF SoundInv
<1>12. RoundTypes' /\ DiedInv'
  BY <1>1, <1>4, Parts DEF RoundTypes, DiedInv
<1>13. RoundInv'
  <2>1. \A d \in ready' : Attached(d)'
    BY <1>1, <1>5, <1>6
  <2> QED
    BY <1>1, <1>5, <2>1 DEF RoundInv
<1>14. TimerInv'
  BY <1>1, Parts DEF TimerInv
<1>15. GuardInv' /\ PlainInv'
  BY <1>1, <1>4, Parts DEF GuardInv, Guarded, PlainInv, Plain, Ssl
<1>16. UnreadInv'
  BY <1>1, <1>3, Parts DEF UnreadInv, Noticed, Ssl
<1> QED
  BY <1>7, <1>8, <1>9, <1>10, <1>11, <1>12, <1>13, <1>14, <1>15, <1>16 DEF IInv, Objects

\* connectionEstablished: the descriptor is free in both maps.
LEMMA EstablishInv ==
    ASSUME IInv, setup' = setup, NEW c \in Conns, Establish(c) PROVE IInv'
<1> DEFINE fd == conn[c].fd
           r == [conn[c] EXCEPT !.state = IF Ssl THEN "kConnecting" ELSE "kConnected",
                                !.handler = IF Ssl THEN "handshake" ELSE "http",
                                !.events = {"R"}]
<1>1. /\ died = "no" /\ pc = "functors" /\ cur = NoConn /\ running # <<>>
      /\ Head(running) = Establishing(c) /\ running' = Tail(running)
      /\ conn' = [conn EXCEPT ![c] = r]
      /\ connections' = [connections EXCEPT ![fd] = c]
      /\ channels' = [channels EXCEPT ![fd] = c]
      /\ died' = (IF channels[fd] = NoConn THEN "no" ELSE "assert")
      /\ ready' = (IF Revents(r, sock[c]) # {} THEN ready \cup {c} ELSE ready)
      /\ timers' = timers \cup {<<c, r.timer>>}
      /\ cur' = (IF Ssl THEN c ELSE NoConn)
      /\ todo' = (IF Ssl THEN {"handshake"} ELSE {})
      /\ UNCHANGED <<sock, pending, wake, pc, active, retired, expired, msgs>>
  BY DEF Establish, Establishing, queue
<1>2. /\ running' \in Seq(Functors) /\ Once(running') /\ Once(pending')
      /\ ToSet(running') \cap ToSet(pending') = {}
      /\ Queued' = Queued \ {Establishing(c)} /\ Establishing(c) \in Queued
  BY <1>1, Taken
<1>3. /\ conn[c].state = "accepted" /\ conn[c] \in ConnType /\ fd \in Fds /\ c # NoConn
      /\ sock[c] \in SockType
  BY <1>2, Parts, ConstantsAssumption DEF QueueInv, ObjectTypes, ConnType
<1>4. /\ r \in ConnType /\ r.fd = fd /\ r.timer = conn[c].timer /\ r.timer \in {0, 1}
      /\ r.output = conn[c].output /\ r.events = {"R"}
      /\ r.state = (IF Ssl THEN "kConnecting" ELSE "kConnected")
      /\ r.handler = (IF Ssl THEN "handshake" ELSE "http")
  BY <1>3 DEF ConnType, States
<1> HIDE DEF r
<1>5. conn'[c] = r /\ \A d \in Conns \ {c} : conn'[d] = conn[d]
  BY <1>1, Parts DEF ObjectTypes
<1>6. r.state \in Live /\ c \notin retired
  BY <1>3, <1>4, Parts DEF Live, MapInv
<1>7. \A d \in Conns : Attached(d)' <=> Attached(d) \/ d = c
  BY <1>1, <1>5, <1>6 DEF Attached
<1>8. \A d \in Conns : conn[d].state \in HoldsFd /\ conn[d].fd = fd => d = c
  BY <1>3, Parts DEF FdInv, HoldsFd
<1>9. channels[fd] = NoConn
  <2> SUFFICES ASSUME channels[fd] # NoConn PROVE FALSE
    OBVIOUS
  <2>1. channels[fd] \in Conns /\ Attached(channels[fd]) /\ conn[channels[fd]].fd = fd
    BY <1>3, Parts DEF MapInv, ObjectTypes
  <2>2. channels[fd] = c
    BY <1>8, <2>1 DEF Attached, HoldsFd
  <2> QED
    BY <1>3, <2>1, <2>2 DEF Attached, Live
<1>10. died' = "no"
  BY <1>1, <1>9
<1>11. /\ todo = {} /\ msgs = <<>> /\ active = {} /\ expired = {}
       /\ \A d \in ready : d \in Conns /\ Attached(d)
  BY <1>1, Parts DEF RoundInv, ObjectTypes
<1>12. ObjectTypes'
  <2>1. conn' \in [Conns -> ConnType] /\ sock' \in [Conns -> SockType']
    BY <1>1, <1>4, Parts, SetupFixed DEF ObjectTypes
  <2>2. connections' \in [Fds -> Conns \cup {NoConn}] /\ channels' \in [Fds -> Conns \cup {NoConn}]
    BY <1>1, <1>3, Parts DEF ObjectTypes
  <2>3. timers' \subseteq Conns \X {0, 1} /\ ready' \subseteq Conns
    BY <1>1, <1>4, Parts DEF ObjectTypes
  <2> QED
    BY <1>1, <1>2, <2>1, <2>2, <2>3, Parts DEF ObjectTypes
<1>13. FdInv'
  BY <1>3, <1>4, <1>5, <1>6, <1>8, Parts DEF FdInv, HoldsFd
<1>14. QueueInv'
  <2>1. \A d \in Conns : Establishing(d)' = Establishing(d) /\ Removing(d)' = Removing(d)
    BY DEF Establishing, Removing
  <2>2. ASSUME NEW d \in Conns
        PROVE  /\ Establishing(d) \in Queued' <=> conn'[d].state = "accepted"
               /\ Removing(d) \in Queued' <=> conn'[d].state = "kDisconnected" /\ d \notin retired'
    <3>1. CASE d = c
      BY <1>2, <1>3, <1>5, <1>6, <3>1, Parts, FunctorsDiffer DEF QueueInv, Live
    <3>2. CASE d # c
      BY <1>1, <1>2, <1>5, <3>2, Parts, FunctorsDiffer DEF QueueInv
    <3> QED
      BY <3>1, <3>2
  <2> QED
    BY <1>2, <2>1, <2>2 DEF QueueInv
<1>15. MapInv'
  <2>1. ASSUME NEW fd2 \in Fds, connections'[fd2] # NoConn
        PROVE  conn'[connections'[fd2]].state \in Live /\ conn'[connections'[fd2]].fd = fd2
    <3>1. CASE fd2 = fd
      BY <1>1, <1>3, <1>4, <1>5, <1>6, <3>1, Parts DEF ObjectTypes
    <3>2. CASE fd2 # fd
      <4>1. connections'[fd2] = connections[fd2] /\ connections[fd2] \in Conns
        BY <1>1, <1>3, <2>1, <3>2, Parts DEF ObjectTypes
      <4>2. conn[connections[fd2]].state \in Live /\ conn[connections[fd2]].fd = fd2
        BY <2>1, <4>1, Parts DEF MapInv
      <4> QED
        BY <1>5, <3>2, <4>1, <4>2
    <3> QED
      BY <3>1, <3>2
  <2>2. ASSUME NEW fd2 \in Fds, channels'[fd2] # NoConn
        PROVE  Attached(channels[fd2])' /\ conn'[channels'[fd2]].fd = fd2
    <3>1. CASE fd2 = fd
      <4>1. channels'[fd2] = c
        BY <1>1, <3>1, Parts DEF ObjectTypes
      <4>2. conn'[c].state \in Live /\ conn'[c].fd = fd /\ c \notin retired'
        BY <1>1, <1>4, <1>5, <1>6
      <4> QED
        BY <3>1, <4>1, <4>2 DEF Attached
    <3>2. CASE fd2 # fd
      <4>1. channels'[fd2] = channels[fd2] /\ channels[fd2] \in Conns
        BY <1>1, <1>3, <2>2, <3>2, Parts DEF ObjectTypes
      <4>2. Attached(channels[fd2]) /\ conn[channels[fd2]].fd = fd2
        BY <2>2, <4>1, Parts DEF MapInv
      <4>3. conn'[channels[fd2]].fd = fd2
        BY <1>5, <3>2, <4>1, <4>2
      <4> QED
        BY <1>7, <4>1, <4>2, <4>3 DEF Attached
    <3> QED
      BY <3>1, <3>2
  <2>3. ASSUME NEW d \in Conns, conn'[d].state \in Live PROVE connections'[conn'[d].fd] = d
    <3>1. CASE d = c
      BY <1>1, <1>3, <1>4, <1>5, <3>1, Parts DEF ObjectTypes
    <3>2. CASE d # c
      <4>1. conn'[d] = conn[d] /\ conn[d].fd # fd
        BY <1>5, <1>8, <2>3, <3>2 DEF HoldsFd
      <4> QED
        BY <1>1, <2>3, <4>1, Parts DEF MapInv, ObjectTypes, ConnType
    <3> QED
      BY <3>1, <3>2
  <2>4. ASSUME NEW d \in Conns, Attached(d)' PROVE channels'[conn'[d].fd] = d
    <3>1. CASE d = c
      BY <1>1, <1>3, <1>4, <1>5, <3>1, Parts DEF ObjectTypes
    <3>2. CASE d # c
      <4>1. Attached(d) /\ conn'[d] = conn[d]
        BY <1>5, <1>7, <2>4, <3>2
      <4>2. conn[d].fd # fd
        BY <1>8, <3>2, <4>1 DEF Attached, HoldsFd
      <4> QED
        BY <1>1, <4>1, <4>2, Parts DEF MapInv, ObjectTypes, ConnType
    <3> QED
      BY <3>1, <3>2
  <2>5. \A d \in retired' : conn'[d].state = "kDisconnected"
    BY <1>1, <1>5, <1>6, Parts DEF MapInv, ObjectTypes
  <2> QED
    BY <2>1, <2>2, <2>3, <2>4, <2>5 DEF MapInv, Attached
<1>16. SoundInv'
  <2>1. Sound(r, sock[c])
    BY <1>4, <1>6, Parts DEF SoundInv, Sound, Live
  <2> QED
    BY <1>1, <1>5, <2>1, Parts, SetupFixed DEF SoundInv
<1>17. RoundTypes' /\ DiedInv'
  BY <1>1, <1>10, Parts DEF RoundTypes, DiedInv
<1>18. RoundInv'
  <2>1. \A d \in ready' : Attached(d)'
    BY <1>1, <1>7, <1>11
  <2>2. cur' # NoConn => cur' = c /\ Attached(c)' /\ todo' \cap {"close", "error"} = {}
    BY <1>1, <1>7
  <2>3. cur' # NoConn => Attached(cur)'
    BY <2>2 DEF Attached
  <2>4. cur' = NoConn => todo' = {}
    BY <1>1, <1>3
  <2> QED
    BY <1>1, <1>11, <2>1, <2>2, <2>3, <2>4 DEF RoundInv
<1>19. \A t \in timers \cup expired : t[1] \in Conns /\ t[1] # c
  BY <1>3, Parts DEF TimerInv, ObjectTypes, RoundTypes
<1>20. TimerInv'
  BY <1>1, <1>4, <1>5, <1>6, <1>19, Parts DEF TimerInv, Live
<1>21. GuardInv'
  BY <1>1, <1>5, Parts DEF GuardInv, Guarded, Ssl
<1>22. PlainInv'
  <2>1. ~Ssl => Plain(r, sock[c])
    BY <1>3, <1>4, <1>6, Parts DEF PlainInv, Plain, Live
  <2> QED
    BY <1>1, <1>5, <2>1, Parts DEF PlainInv, Plain, Ssl
<1>23. UnreadInv'
  <2> SUFFICES ASSUME ~Ssl, NEW d \in Conns, conn'[d].state = "kConnected", sock[d].inbox # <<>>
               PROVE  Noticed(d)'
    BY <1>1 DEF UnreadInv, Ssl
  <2>1. CASE d = c
    <3>1. "IN" \in Revents(r, sock[c])
      BY <1>4, <2>1 DEF Revents
    <3> QED
      BY <1>1, <2>1, <3>1 DEF Noticed
  <2>2. CASE d # c
    <3>1. Noticed(d)
      BY <1>5, <2>2, Parts DEF UnreadInv
    <3> QED
      BY <1>1, <1>11, <3>1 DEF Noticed
  <2> QED
    BY <2>1, <2>2
<1> QED
  BY <1>12, <1>13, <1>14, <1>15, <1>16, <1>17, <1>18, <1>20, <1>21, <1>22, <1>23 DEF IInv, Objects

\* Nothing happens.
LEMMA StutterInv == ASSUME IInv, UNCHANGED <<vars, setup>> PROVE IInv'
<1>1. /\ UNCHANGED <<setup, conn, sock, ready, connections, channels, timers, pending, wake, pc,
                     active, running, retired, expired, cur, todo, msgs, died>>
  BY DEF vars, queue, call, round
<1>2. ObjectTypes' /\ FdInv' /\ QueueInv'
  BY <1>1, Parts, SetupFixed DEF ObjectTypes, FdInv, QueueInv, Queued, Establishing, Removing
<1>3. MapInv' /\ SoundInv'
  BY <1>1, Parts, SetupFixed DEF MapInv, SoundInv, Attached
<1>4. RoundTypes' /\ RoundInv' /\ TimerInv' /\ DiedInv'
  BY <1>1, Parts DEF RoundTypes, RoundInv, TimerInv, DiedInv, Attached
<1>5. GuardInv' /\ PlainInv' /\ UnreadInv'
  BY <1>1, Parts DEF GuardInv, Guarded, PlainInv, Plain, UnreadInv, Noticed, Ssl
<1> QED
  BY <1>2, <1>3, <1>4, <1>5 DEF IInv, Objects

-----------------------------------------------------------------------------
(* The invariant, and the theorems.                                        *)

\* The invariant is inductive.
LEMMA NextInv == ASSUME IInv, [Next]_<<vars, setup>> PROVE IInv'
<1>1. CASE UNCHANGED <<vars, setup>>
  BY <1>1, StutterInv
<1>2. CASE Next
  <2>0. setup' = setup
    BY <1>2 DEF Next
  <2>1. CASE Peer
    <3>1. ASSUME NEW c \in Conns, NEW fd \in setup.fds, Accept(c, fd) PROVE IInv'
      BY <2>0, <3>1, AcceptInv
    <3>2. ASSUME NEW c \in Conns,
                 (\E token \in Tokens : PeerSends(c, token)) \/ PeerCloses(c) \/ PeerResets(c)
                 \/ PeerDrains(c)
          PROVE  IInv'
      BY <2>0, <3>2, PeerActionsInv
    <3> QED
      BY <2>1, <3>1, <3>2 DEF Peer
  <2>2. CASE Callback
    <3>1. ASSUME NEW c \in Conns, NEW x \in todo, HandleClose(c, x) \/ HandleHandShake(c, x)
          PROVE  IInv'
      BY <2>0, <3>1, HandleCloseInv, HandleHandShakeInv
    <3>2. ASSUME NEW c \in Conns, HandleRead(c) \/ HandleWrite(c) \/ OnRequest(c) \/ OnBadRequest(c)
          PROVE  IInv'
      BY <2>0, <3>2, HandleReadInv, HandleWriteInv, OnRequestInv, OnBadRequestInv
    <3> QED
      BY <2>2, <3>1, <3>2 DEF Callback
  <2>3. CASE Poll
    BY <2>0, <2>3, PollInv
  <2>4. ASSUME NEW a \in active, HandleEvent(a) PROVE IInv'
    BY <2>0, <2>4, HandleEventInv
  <2>5. CASE HandleEventsDone
    BY <2>0, <2>5, HandleEventsDoneInv
  <2>6. ASSUME NEW c \in Conns, Establish(c) \/ RemoveChannel(c) PROVE IInv'
    BY <2>0, <2>6, EstablishInv, RemoveChannelInv
  <2>7. CASE FunctorsDone
    BY <2>0, <2>7, FunctorsDoneInv
  <2>8. ASSUME NEW due \in SUBSET timers, TakeExpired(due) PROVE IInv'
    BY <2>0, <2>8, TakeExpiredInv
  <2>9. ASSUME NEW t \in expired, RunTimer(t) PROVE IInv'
    BY <2>0, <2>9, RunTimerInv
  <2> QED
    BY <1>2, <2>1, <2>2, <2>3, <2>4, <2>5, <2>6, <2>7, <2>8, <2>9 DEF Next, Loop
<1> QED
  BY <1>1, <1>2

\* So it holds of every behaviour.
LEMMA InvariantHolds == Spec => []IInv
  BY InitInv, NextInv, PTL DEF Spec

\* The raw pointers the loop keeps across handlers (active_channels_, the running
\* callback, Poller::channels_) never name a connection that was destroyed.
THEOREM NoPointerDangles == Spec => []NoDanglingChannel
<1>1. IInv => NoDanglingChannel
  <2> SUFFICES ASSUME IInv PROVE NoDanglingChannel
    OBVIOUS
  <2>1. ASSUME NEW c, Attached(c) PROVE conn[c].state \in HoldsFd
    BY <2>1 DEF Attached, HoldsFd
  <2> QED
    BY <2>1, Parts DEF NoDanglingChannel, RoundInv, MapInv
<1> QED
  BY <1>1, InvariantHolds, PTL

\* After handleClose no handler brings back interest in events, and none of the asserts of
\* EventLoop, Poller, Channel and Connection on the maps and masks fails.
THEOREM ClosedIsSilent == Spec => []ClosedStaysSilent
<1>1. IInv => ClosedStaysSilent
  BY Parts DEF ClosedStaysSilent, SoundInv, Sound, DiedInv
<1> QED
  BY <1>1, InvariantHolds, PTL

\* connections_ and channels_ hold exactly the connections that own their descriptor, up to
\* the removal still queued, although descriptors are reused.
THEOREM MapsAgree == Spec => []RegistriesAgree
<1>1. IInv => RegistriesAgree
  <2> SUFFICES ASSUME IInv PROVE RegistriesAgree
    OBVIOUS
  <2>1. \A c \in Conns : conn[c].state \in Live => connections[conn[c].fd] = c /\ channels[conn[c].fd] = c
    BY Parts DEF MapInv, Attached, Live
  <2>2. ASSUME NEW c \in Conns, conn[c].state = "kDisconnected", c \notin retired
        PROVE  /\ channels[conn[c].fd] = c
               /\ [op |-> "remove", conn |-> c] \in ToSet(pending) \cup ToSet(running)
    BY <2>2, Parts DEF MapInv, Attached, QueueInv, Queued, Removing
  <2>3. \A fd \in Fds : connections[fd] # NoConn =>
           conn[connections[fd]].state \in Live /\ conn[connections[fd]].fd = fd
    BY Parts DEF MapInv
  <2> QED
    BY <2>1, <2>2, <2>3 DEF RegistriesAgree
<1> QED
  BY <1>1, InvariantHolds, PTL

\* A timer that later activity replaced never closes a live connection.
THEOREM TimersAreCurrent == Spec => []OnlyCurrentTimer
<1>1. IInv => OnlyCurrentTimer
  BY Parts DEF OnlyCurrentTimer, TimerInv
<1> QED
  BY <1>1, InvariantHolds, PTL

\* Without TLS, whatever was requested, an open connection keeps an idle timer between the
\* rounds of the loop.
THEOREM OpenKeepsATimer == Spec => []OpenIsGuarded
<1>1. IInv => OpenIsGuarded
  <2> SUFFICES ASSUME IInv, ~Ssl, pc \in {"poll", "timers"}, NEW c \in Conns,
                      conn[c].state \in {"kConnecting", "kConnected"}
               PROVE  Guarded(c)
    BY DEF OpenIsGuarded
  <2>1. died = "no"
    BY Parts DEF DiedInv
  <2>2. conn[c].state = "kConnected"
    BY Parts DEF SoundInv, Sound
  <2> QED
    BY <2>1, <2>2, Parts DEF GuardInv
<1> QED
  BY <1>1, InvariantHolds, PTL

\* The write half of a plain connection is shut down only once the response has left
\* output_buffer_: the mask tells whether some of it waits.
THEOREM PlainIsFlushed == Spec => []FlushedBeforeClose
<1>1. IInv => FlushedBeforeClose
  BY Parts DEF FlushedBeforeClose, PlainInv, Plain
<1> QED
  BY <1>1, InvariantHolds, PTL

\* When the loop is about to block no open plain connection holds input that it was not
\* told of: edge triggering loses nothing.
THEOREM PlainIsRead == Spec => []NothingUnread
<1>1. IInv => NothingUnread
  <2> SUFFICES ASSUME IInv, ~Ssl, Blocks, NEW c \in Conns, conn[c].state = "kConnected",
                      sock[c].inbox # <<>>
               PROVE  FALSE
    BY DEF NothingUnread
  <2>1. c \in ready
    BY Parts DEF Blocks, UnreadInv, Noticed, RoundInv
  <2>2. "IN" \in Revents(conn[c], sock[c])
    BY Parts DEF PlainInv, Plain, Live, Revents
  <2>3. Report(c) \in Reports
    BY <2>1, <2>2 DEF Reports
  <2> QED
    BY <2>3 DEF Blocks
<1> QED
  BY <1>1, InvariantHolds, PTL

=============================================================================
