------------------------------- MODULE Reactor -------------------------------
(***************************************************************************)
(* One I/O thread of the server: an EventLoop with its Poller, its timers  *)
(* and its queue of functors, and the Connections it owns.  The acceptor   *)
(* runs on another thread and only queues functors.  Every handler is one  *)
(* action; what a system call or OpenSSL may answer is chosen by the       *)
(* kernel's side of the connection (sock) and by Faults.                   *)
(*                                                                         *)
(* The peer's bytes are tokens: "hello" (its handshake flight), "req" and  *)
(* "last" (a request that keeps the connection alive, or does not), "bad"  *)
(* (one that does not parse), "part" (an unfinished one, completed by what *)
(* follows it), "notify" (the TLS close alert).  A response is one unit:   *)
(* output says whether some of it waits in output_buffer_.                 *)
(***************************************************************************)
EXTENDS Integers, Sequences, FiniteSets, SequencesExt

CONSTANTS
    Conns,      \* the connections that may ever be accepted
    NoConn,
    Fds,        \* the descriptors the kernel hands out, lowest or not
    Requests,   \* kinds of token a peer may send besides the TLS ones
    Setups,     \* what a run may start from: whether ssl_context_ is set, the descriptors
                \* in use, and the tokens a peer may send on a connection
    Faults      \* "slow": a send buffer may fill; "reset": a connection may break

ASSUME ConstantsAssumption ==
    /\ NoConn \notin Conns
    /\ Fds # {}
    /\ Requests \subseteq {"req", "last", "bad", "part"}
    /\ Setups \subseteq [ssl : BOOLEAN, fds : SUBSET Fds, maxIn : Nat]

VARIABLES
    setup,         \* the one of the Setups this is
    conn,          \* the Connection objects and their Channels
    sock,          \* the kernel's (and OpenSSL's) side of each connection
    ready,         \* connections whose descriptor is in epoll's ready list
    connections,   \* EventLoop::connections_
    channels,      \* Poller::channels_
    timers,        \* TimerQueue::timers_: the idle timers, <<connection, id>>
    pending,       \* EventLoop::pending_functors_
    wake,          \* an unreported write to wakeup_fd_
    pc,            \* where EventLoop::loop stands
    active,        \* active_channels_ still to be handled
    running,       \* functors of this round still to be run
    retired,       \* connections only this round's functors still hold
    expired,       \* timers of this round still to be run
    cur,           \* the connection whose callbacks are running
    todo,          \* the callbacks still to be called for it
    msgs,          \* the requests Server's message callback still has to serve
    died           \* how the process ended, "no" while it runs

queue == <<pending, wake>>
call == <<cur, todo, msgs>>
round == <<active, running, retired, expired>>
vars == <<conn, sock, ready, connections, channels, timers, queue, pc, round, call, died>>

Ssl == setup.ssl
MaxIn == setup.maxIn

States == {"none", "accepted", "kConnecting", "kConnected", "kDisconnecting",
           "kDisconnected", "destroyed"}
Live == {"kConnecting", "kConnected", "kDisconnecting"}
HoldsFd == Live \cup {"accepted", "kDisconnected"}
Tokens == Requests \cup (IF Ssl THEN {"hello", "notify"} ELSE {})

NewConn(state, fd) ==
    [state |-> state, fd |-> fd, events |-> {}, handler |-> "http",
     partial |-> FALSE, output |-> FALSE, timer |-> 0]
NewSock ==
    [inbox |-> <<>>, sent |-> 0, end |-> FALSE, rst |-> FALSE, fin |-> FALSE,
     zero |-> FALSE, notified |-> FALSE, blocked |-> FALSE]

AnyFd == CHOOSE fd \in Fds : TRUE

Init ==
    /\ setup \in Setups
    /\ conn = [c \in Conns |-> NewConn("none", AnyFd)]
    /\ sock = [c \in Conns |-> NewSock]
    /\ ready = {}
    /\ connections = [fd \in Fds |-> NoConn]
    /\ channels = [fd \in Fds |-> NoConn]
    /\ timers = {}
    /\ pending = <<>> /\ wake = FALSE
    /\ pc = "poll"
    /\ active = {} /\ running = <<>> /\ retired = {} /\ expired = {}
    /\ cur = NoConn /\ todo = {} /\ msgs = <<>>
    /\ died = "no"

-----------------------------------------------------------------------------
(* epoll: a mask with "R" is edge-triggered (EPOLLET is part of kReadEvent). *)

Registered(c) == channels[conn[c].fd] = c

Revents(r, s) ==
    {e \in {"IN", "OUT", "HUP", "ERR"} :
        \/ e = "IN" /\ "R" \in r.events /\ (s.inbox # <<>> \/ s.end \/ s.rst)
        \/ e = "OUT" /\ "W" \in r.events /\ (~s.blocked \/ s.rst)
        \/ e = "HUP" /\ (s.rst \/ (s.end /\ s.fin))
        \/ e = "ERR" /\ s.rst}

Report(c) == [conn |-> c, revents |-> Revents(conn[c], sock[c])]
Reports == {Report(c) : c \in {d \in ready : Revents(conn[d], sock[d]) # {}}}

-----------------------------------------------------------------------------
(* The acceptor's thread and the peers.                                    *)

\* Faulty variant: no wakeup by the loop's own thread.
QueueWakesFromOutside(f) ==
    /\ pending' = Append(pending, f)
    /\ wake' = (wake \/ f.op = "establish")

\* EventLoop::queueInLoop: append under the lock, then always wake the loop up.
QueueInLoop(f) ==
    /\ pending' = Append(pending, f)
    /\ wake' = TRUE

\* Server::handleConnection for one connection: runInLoop from another thread.
Accept(c, fd) ==
    /\ died = "no"
    /\ conn[c].state = "none"
    /\ \A d \in Conns : conn[d].fd = fd => conn[d].state \notin HoldsFd
    /\ conn' = [conn EXCEPT ![c] = NewConn("accepted", fd)]
    /\ QueueInLoop([op |-> "establish", conn |-> c])
    /\ UNCHANGED <<sock, ready, connections, channels, timers, pc, round, call, died>>

Environment(c) ==
    /\ died = "no"
    /\ conn[c].state \in HoldsFd
    /\ UNCHANGED <<conn, connections, channels, timers, queue, pc, round, call, died>>

PeerSends(c, token) ==
    /\ Environment(c)
    /\ ~sock[c].end /\ ~sock[c].rst
    /\ sock[c].sent < MaxIn
    /\ "notify" \notin ToSet(sock[c].inbox) /\ ~sock[c].zero
    /\ token = "hello" => sock[c].sent = 0
    /\ Ssl /\ sock[c].sent = 0 => token \in {"hello", "bad"}
    /\ sock' = [sock EXCEPT ![c].inbox = Append(@, token), ![c].sent = @ + 1]
    /\ ready' = IF Registered(c) /\ "R" \in conn[c].events THEN ready \cup {c} ELSE ready

PeerCloses(c) ==
    /\ Environment(c)
    /\ ~sock[c].end /\ ~sock[c].rst
    /\ sock' = [sock EXCEPT ![c].end = TRUE]
    /\ ready' = IF Registered(c) THEN ready \cup {c} ELSE ready

PeerResets(c) ==
    /\ Environment(c)
    /\ "reset" \in Faults /\ ~sock[c].rst
    /\ sock' = [sock EXCEPT ![c].rst = TRUE]
    /\ ready' = IF Registered(c) THEN ready \cup {c} ELSE ready

PeerDrains(c) ==
    /\ Environment(c)
    /\ sock[c].blocked
    /\ sock' = [sock EXCEPT ![c].blocked = FALSE]
    /\ ready' = IF Registered(c) /\ "W" \in conn[c].events THEN ready \cup {c} ELSE ready

-----------------------------------------------------------------------------
(* What a handler of Connection leaves behind: the object, the socket, a   *)
(* follow-up handleRead, and how the process ended if it did.              *)

When(condition, outcomes) == IF condition THEN outcomes ELSE {}
Outcome(r, s) == [conn |-> r, sock |-> s, read |-> FALSE, died |-> "no"]
Dies(r, s, how) == [Outcome(r, s) EXCEPT !.died = how]

\* handleClose and handleError: what they do to the object itself.
ClosedStillWriting(r) ==   \* faulty variant: disableReading for disableAll
    [r EXCEPT !.state = "kDisconnected", !.events = @ \ {"R"}]
Closed(r) == [r EXCEPT !.state = "kDisconnected", !.events = {}]
Writing(r) == [r EXCEPT !.events = @ \cup {"W"}]
NotWriting(r) == [r EXCEPT !.events = @ \ {"W"}]

\* A peer may reset the connection while the handler runs.
MayBreak(s) == s.rst \/ "reset" \in Faults
MayFill(s) == ~s.rst /\ (s.blocked \/ "slow" \in Faults)
Broken(s) == [s EXCEPT !.rst = TRUE]
Filled(s) == [s EXCEPT !.blocked = TRUE]

\* Connection::sendInLoop.  SIGPIPE has its default action: nothing ignores it.
SendInLoop(r, s) ==
    IF r.state \in {"kDisconnecting", "kDisconnected"} THEN {Outcome(r, s)}
    ELSE IF "W" \in r.events \/ r.output
    THEN {Outcome([Writing(r) EXCEPT !.output = TRUE], s)}
    ELSE When(~s.rst /\ ~s.blocked, {Outcome(r, s)})
         \cup When(MayFill(s), {Outcome([Writing(r) EXCEPT !.output = TRUE], Filled(s))})
         \cup When(MayBreak(s), {Outcome(Closed(r), Broken(s)), Dies(r, Broken(s), "sigpipe")})

\* Faulty variant: the write half is shut down whatever is still to be sent.
ShutdownAtOnce(r, s) ==
    IF r.state # "kConnected" THEN {Outcome(r, s)}
    ELSE {Outcome([r EXCEPT !.state = "kDisconnecting"], [s EXCEPT !.fin = TRUE])}

\* Connection::shutdownInLoop.  SSL_shutdown answers 1 once the peer's alert was
\* read, and otherwise asks to be called again.
ShutdownInLoop(r, s) ==
    LET d == [r EXCEPT !.state = "kDisconnecting"]
        n == [s EXCEPT !.notified = TRUE] IN
    IF r.state # "kConnected" THEN {Outcome(r, s)}
    ELSE IF "W" \in r.events THEN {Outcome(d, s)}
    ELSE IF ~Ssl THEN {Outcome(d, [s EXCEPT !.fin = TRUE])}
    ELSE {IF s.zero THEN Outcome(d, [n EXCEPT !.fin = TRUE]) ELSE Outcome(Writing(d), n)}
         \cup When(MayBreak(s), {Outcome(Closed(d), Broken(s)), Dies(d, Broken(s), "sigpipe")})

\* The SSL_shutdown calls of handleWrite: they also read, and may always fail (a
\* first call answers 0, which SSL_get_error does not call a retry).
ContinueShutdown(r, s) ==
    LET n == [s EXCEPT !.notified = TRUE, !.inbox = <<>>] IN
    {Outcome(Closed(r), n)}
    \cup When(~s.rst /\ (s.zero \/ s.inbox = <<"notify">>), {Outcome(NotWriting(r), [n EXCEPT !.zero = TRUE, !.fin = TRUE])})
    \cup When(~s.rst /\ ~s.end /\ ~s.zero /\ s.inbox = <<>>, {Outcome(r, n)})
    \cup When(MayBreak(s), {Outcome(Closed(r), Broken(s)), Dies(r, Broken(s), "sigpipe")})

\* Connection::handleHandShake.  SSL_pending may or may not hold early bytes.
HandShake(r, s) ==
    LET up == [r EXCEPT !.state = "kConnected", !.handler = "http"]
        rest == [s EXCEPT !.inbox = Tail(@)]
        hello == s.inbox # <<>> /\ Head(s.inbox) = "hello" IN
    {[Outcome(up, rest) EXCEPT !.read = b] : b \in {b \in BOOLEAN :
        hello /\ ~s.rst /\ (b => Tail(s.inbox) # <<>>)}}
    \cup When(s.inbox = <<>> /\ ~s.end /\ ~s.rst, {Outcome([r EXCEPT !.events = {"R"}], s)})
    \cup When(hello /\ MayFill(s), {Outcome([r EXCEPT !.events = {"W"}], Filled(s))})
    \cup When(s.rst \/ (~hello /\ (s.end \/ s.inbox # <<>>)), {Outcome(Closed(r), s)})

\* Connection::handleWrite.  A TLS retry may always fail: OpenSSL wants the buffer
\* of the first SSL_write, and handleWrite passes another one.  The plain branch keeps the result of write() in a
\* size_t: an error looks like a huge count and Buffer::retrieve's assert fails.
Write(r, s) ==
    LET sent == [NotWriting(r) EXCEPT !.output = FALSE] IN
    IF "W" \notin r.events THEN {Outcome(r, s)}
    ELSE IF Ssl /\ r.state = "kDisconnecting" THEN ContinueShutdown(r, s)
    ELSE IF Ssl THEN
        When(r.output /\ ~s.rst /\ ~s.blocked, {Outcome(sent, s)})
        \cup When(MayFill(s), {Outcome(r, Filled(s))})
        \cup {Outcome(Closed(r), s)}
        \cup When(MayBreak(s), {Dies(r, Broken(s), "sigpipe")})
    ELSE
        When(~s.rst /\ ~s.blocked, {Outcome(sent, [s EXCEPT !.fin = @ \/ r.state = "kDisconnecting"])})
        \cup When(MayFill(s), {Dies(r, Filled(s), "retrieve")})
        \cup When(MayBreak(s), {Dies(r, Broken(s), how) : how \in {"retrieve", "sigpipe"}})

-----------------------------------------------------------------------------
(* The event loop.                                                         *)

\* removeConnectionInLoop's erase, onMessage's cancel and its runAfter.
EraseForgotten(c) == connections   \* faulty variant
Erased(c) == [connections EXCEPT ![conn[c].fd] = NoConn]
CancelForgotten(c) == timers       \* faulty variant
Cancelled(c) == timers \ {<<c, conn[c].timer>>}
NotRearmed(c) == {}                \* faulty variant
Rearmed(c) == {<<c, 1 - conn[c].timer>>}

\* Connection c goes through outcome o of a handler; armed tells what the handler
\* does to its idle timer.  handleClose cancels the timer, removeConnectionInLoop
\* erases the connection and queues the removal of its channel, and a new mask
\* goes through Poller::updateChannel.
Effect(c, o, base, armed) ==
    LET old == conn[c]
        closes == o.conn.state = "kDisconnected" /\ old.state # "kDisconnected"
        updates == closes \/ o.conn.events # old.events
        fd == old.fd IN
    /\ conn' = [conn EXCEPT ![c] = o.conn]
    /\ sock' = [sock EXCEPT ![c] = o.sock]
    /\ timers' = (IF closes THEN base \ {<<c, old.timer>>} ELSE base) \cup armed
    /\ connections' = IF closes THEN Erased(c) ELSE connections
    /\ IF closes THEN QueueInLoop([op |-> "remove", conn |-> c]) ELSE UNCHANGED queue
    /\ channels' = IF updates /\ channels[fd] = NoConn THEN [channels EXCEPT ![fd] = c] ELSE channels
    /\ ready' = IF updates /\ Revents(o.conn, o.sock) # {} THEN ready \cup {c} ELSE ready
    /\ died' = IF (closes /\ connections[fd] = NoConn)
                  \/ (updates /\ channels[fd] \notin {NoConn, c})
               THEN "assert" ELSE o.died

\* Poller::poll: it returns on events, on a wakeup, or when a timer is due.
Poll ==
    /\ died = "no" /\ pc = "poll"
    /\ Reports # {} \/ wake \/ timers # {}
    /\ active' = Reports
    /\ ready' = {c \in ready : Revents(conn[c], sock[c]) # {} /\ "R" \notin conn[c].events}
    /\ wake' = FALSE
    /\ pc' = "events"
    /\ UNCHANGED <<conn, sock, connections, channels, timers, pending, running, retired,
                   expired, call, died>>

\* Channel::handleEvent: during the handshake only two callbacks are set.
HandleEvent(a) ==
    /\ died = "no" /\ pc = "events" /\ cur = NoConn
    /\ a \in active
    /\ active' = active \ {a}
    /\ LET http == conn[a.conn].handler = "http"
           calls == {x \in {"close", "error", "read", "write"} :
               \/ x = "close" /\ http /\ "HUP" \in a.revents /\ "IN" \notin a.revents
               \/ x = "error" /\ http /\ "ERR" \in a.revents
               \/ x = "read" /\ "IN" \in a.revents
               \/ x = "write" /\ "OUT" \in a.revents} IN
       /\ todo' = calls
       /\ cur' = IF calls = {} THEN NoConn ELSE a.conn
    /\ UNCHANGED <<conn, sock, ready, connections, channels, timers, queue, pc, running,
                   retired, expired, msgs, died>>

\* The order in which handleEventWithGuard tests revents_.
Rank == [close |-> 1, error |-> 2, handshake |-> 3, read |-> 4, write |-> 5]

\* Callback x of connection c is the next one to call.
Turn(c, x) ==
    /\ died = "no" /\ cur = c /\ msgs = <<>>
    /\ x \in todo
    /\ \A y \in todo : Rank[x] <= Rank[y]

\* The callback is over; the next one, or the loop, goes on.
Return(rest, requests) ==
    /\ todo' = rest
    /\ msgs' = requests
    /\ cur' = IF rest = {} /\ requests = <<>> THEN NoConn ELSE cur
    /\ UNCHANGED <<pc, round>>

HandleClose(c, x) ==
    /\ x \in {"close", "error"}
    /\ Turn(c, x)
    /\ Effect(c, Outcome(Closed(conn[c]), sock[c]), timers, {})
    /\ Return(todo \ {x}, <<>>)

HandleHandShake(c, x) ==
    /\ x \in {"handshake", "read", "write"}
    /\ Turn(c, x) /\ conn[c].handler = "handshake"
    /\ \E o \in HandShake(conn[c], sock[c]) :
        /\ Effect(c, o, timers, {})
        /\ Return((todo \ {x}) \cup (IF o.read THEN {"read"} ELSE {}), <<>>)

\* The loop over readv or SSL_read, up to EAGAIN.
Data(s) == SelectSeq(s.inbox, LAMBDA t : t # "notify")
DrainedOnce(s) ==   \* faulty variant: one read, as if level-triggered
    [s EXCEPT !.inbox = IF @ = <<>> THEN @ ELSE Tail(@)]
Drained(s) == [s EXCEPT !.inbox = <<>>, !.zero = @ \/ Data(s) # s.inbox]

\* Connection::handleRead reads all there is; if the connection survives it, the
\* whole requests read go to onMessage and an unfinished one stays buffered.
HandleRead(c) ==
    LET r == conn[c]
        data == Data(sock[c])
        s == Drained(sock[c])
        ends == \/ s.rst
                \/ s.end /\ ~s.zero
                \/ s.zero /\ data = <<>> /\ ~r.partial IN
    /\ Turn(c, "read") /\ r.handler = "http"
    /\ IF r.state # "kConnected" THEN
           /\ Effect(c, Outcome(r, sock[c]), timers, {})
           /\ Return(todo \ {"read"}, <<>>)
       ELSE IF ends THEN
           /\ Effect(c, Outcome(Closed(r), s), timers, {})
           /\ Return(todo \ {"read"}, <<>>)
       ELSE
           /\ Effect(c, Outcome([r EXCEPT !.partial =
                  IF data = <<>> THEN @ ELSE Last(data) = "part"], s), timers, {})
           /\ Return(todo \ {"read"}, SelectSeq(data, LAMBDA t : t # "part"))

\* One round of onMessage: it restarts the idle timer of a connection that stays.
OnRequest(c) ==
    LET r == conn[c] IN
    /\ died = "no" /\ cur = c /\ msgs # <<>>
    /\ Head(msgs) \in {"req", "last"}
    /\ \E o \in SendInLoop(r, sock[c]) :
        IF Head(msgs) = "last"
        THEN \E p \in IF o.died = "no" THEN ShutdownInLoop(o.conn, o.sock) ELSE {o} :
                Effect(c, p, Cancelled(c), {})
        ELSE Effect(c, [o EXCEPT !.conn.timer = 1 - @], Cancelled(c), Rearmed(c))
    /\ Return(todo, Tail(msgs))

\* The last round, on a request that does not parse: the timer is left alone.
OnBadRequest(c) ==
    /\ died = "no" /\ cur = c /\ msgs # <<>>
    /\ Head(msgs) = "bad"
    /\ \E o \in SendInLoop(conn[c], sock[c]) :
        \E p \in IF o.died = "no" THEN ShutdownInLoop(o.conn, o.sock) ELSE {o} :
            Effect(c, p, timers, {})
    /\ Return(todo, <<>>)

HandleWrite(c) ==
    /\ Turn(c, "write") /\ conn[c].handler = "http"
    /\ \E o \in Write(conn[c], sock[c]) : Effect(c, o, timers, {})
    /\ Return(todo \ {"write"}, <<>>)

HandleEventsDone ==
    /\ died = "no" /\ pc = "events" /\ cur = NoConn
    /\ active = {}
    /\ running' = pending
    /\ pending' = <<>>
    /\ pc' = "functors"
    /\ UNCHANGED <<conn, sock, ready, connections, channels, timers, wake, active, retired,
                   expired, call, died>>

\* The functor handleConnection queued: addConnection, then connectionEstablished,
\* which sets the idle timer (onConnection) and calls handleHandShake or sets up HTTP.
Establish(c) ==
    LET fd == conn[c].fd
        r == [conn[c] EXCEPT !.state = IF Ssl THEN "kConnecting" ELSE "kConnected",
                             !.handler = IF Ssl THEN "handshake" ELSE "http",
                             !.events = {"R"}] IN
    /\ died = "no" /\ pc = "functors" /\ cur = NoConn
    /\ running # <<>> /\ Head(running) = [op |-> "establish", conn |-> c]
    /\ running' = Tail(running)
    /\ conn' = [conn EXCEPT ![c] = r]
    /\ connections' = [connections EXCEPT ![fd] = c]
    /\ channels' = [channels EXCEPT ![fd] = c]
    /\ died' = IF channels[fd] = NoConn THEN "no" ELSE "assert"
    /\ ready' = IF Revents(r, sock[c]) # {} THEN ready \cup {c} ELSE ready
    /\ timers' = timers \cup {<<c, r.timer>>}
    /\ cur' = IF Ssl THEN c ELSE NoConn
    /\ todo' = IF Ssl THEN {"handshake"} ELSE {}
    /\ UNCHANGED <<sock, queue, pc, active, retired, expired, msgs>>

\* The erase of Poller::removeChannel.
UnregisterForgotten(c) == channels   \* faulty variant
Unregistered(c) == [channels EXCEPT ![conn[c].fd] = NoConn]

\* The functor removeConnectionInLoop queued: Channel::remove, Poller::removeChannel.
RemoveChannel(c) ==
    LET fd == conn[c].fd IN
    /\ died = "no" /\ pc = "functors" /\ cur = NoConn
    /\ running # <<>> /\ Head(running) = [op |-> "remove", conn |-> c]
    /\ running' = Tail(running)
    /\ channels' = Unregistered(c)
    /\ ready' = ready \ {c}
    /\ retired' = retired \cup {c}
    /\ died' = IF channels[fd] = c THEN "no" ELSE "assert"
    /\ UNCHANGED <<conn, sock, connections, timers, queue, pc, active, expired, call>>

\* The functors of the round are destroyed, and with them the connections only they
\* held: ~Connection closes the descriptor, and asserts that the mask is empty.
FunctorsDone ==
    /\ died = "no" /\ pc = "functors" /\ cur = NoConn
    /\ running = <<>>
    /\ conn' = [c \in Conns |->
           IF c \in retired THEN [NewConn("destroyed", AnyFd) EXCEPT !.timer = conn[c].timer]
                            ELSE conn[c]]
    /\ sock' = [c \in Conns |-> IF c \in retired THEN NewSock ELSE sock[c]]
    /\ died' = IF \A c \in retired : conn[c].events = {} THEN "no" ELSE "assert"
    /\ retired' = {}
    /\ pc' = "timers"
    /\ UNCHANGED <<ready, connections, channels, timers, queue, active, running, expired, call>>

\* TimerQueue::handleExpireTimers takes the timers that are due, then runs them.
TakeExpired(due) ==
    /\ died = "no" /\ pc = "timers"
    /\ due \subseteq timers
    /\ timers' = timers \ due
    /\ expired' = due
    /\ pc' = IF due = {} THEN "poll" ELSE "expire"
    /\ UNCHANGED <<conn, sock, ready, connections, channels, queue, active, running, retired,
                   call, died>>

\* The callback of an idle timer: Connection::forceCloseInLoop, if it still lives.
RunTimer(t) ==
    LET c == t[1] IN
    /\ died = "no" /\ pc = "expire"
    /\ t \in expired
    /\ expired' = expired \ {t}
    /\ pc' = IF expired = {t} THEN "poll" ELSE "expire"
    /\ IF conn[c].state \in {"kConnected", "kDisconnecting"}
       THEN Effect(c, Outcome(Closed(conn[c]), sock[c]), timers, {})
       ELSE UNCHANGED <<conn, sock, ready, connections, channels, timers, queue, died>>
    /\ UNCHANGED <<active, running, retired, call>>

-----------------------------------------------------------------------------
Peer ==
    \E c \in Conns :
        \/ \E fd \in setup.fds : Accept(c, fd)
        \/ \E token \in Tokens : PeerSends(c, token)
        \/ PeerCloses(c) \/ PeerResets(c) \/ PeerDrains(c)

Callback ==
    \E c \in Conns :
        \/ \E x \in todo : HandleClose(c, x) \/ HandleHandShake(c, x)
        \/ HandleRead(c) \/ HandleWrite(c)
        \/ OnRequest(c) \/ OnBadRequest(c)

Loop ==
    \/ Poll
    \/ \E a \in active : HandleEvent(a)
    \/ HandleEventsDone
    \/ \E c \in Conns : Establish(c) \/ RemoveChannel(c)
    \/ FunctorsDone
    \/ \E due \in SUBSET timers : TakeExpired(due)
    \/ \E t \in expired : RunTimer(t)
    \/ Callback

Next == (Peer \/ Loop) /\ UNCHANGED setup

Spec == Init /\ [][Next]_<<vars, setup>>

\* The thread runs while it has something to do, and time passes: an armed timer
\* is not passed over for ever.  Nothing is assumed of the peers.
Expires(t) == \E due \in SUBSET timers : t \in due /\ TakeExpired(due)
Fairness ==
    /\ WF_vars(Loop)
    /\ \A t \in Conns \X {0, 1} : SF_vars(Expires(t))
FairSpec == Spec /\ Fairness

-----------------------------------------------------------------------------
ConnType ==
    [state : States, fd : Fds, events : SUBSET {"R", "W"}, handler : {"handshake", "http"},
     partial : BOOLEAN, output : BOOLEAN, timer : {0, 1}]
SockType ==
    [inbox : BoundedSeq(Tokens, MaxIn), sent : 0..MaxIn, end : BOOLEAN, rst : BOOLEAN,
     fin : BOOLEAN, zero : BOOLEAN, notified : BOOLEAN, blocked : BOOLEAN]
Functors == [op : {"establish", "remove"}, conn : Conns]

TypeOK ==
    /\ setup \in Setups
    /\ conn \in [Conns -> ConnType]
    /\ sock \in [Conns -> SockType]
    /\ ready \subseteq Conns
    /\ connections \in [Fds -> Conns \cup {NoConn}]
    /\ channels \in [Fds -> Conns \cup {NoConn}]
    /\ timers \subseteq Conns \X {0, 1}
    /\ expired \subseteq Conns \X {0, 1}
    /\ pending \in Seq(Functors) /\ running \in Seq(Functors)
    /\ wake \in BOOLEAN
    /\ pc \in {"poll", "events", "functors", "timers", "expire"}
    /\ active \subseteq [conn : Conns, revents : SUBSET {"IN", "OUT", "HUP", "ERR"}]
    /\ retired \subseteq Conns
    /\ cur \in Conns \cup {NoConn}
    /\ todo \subseteq {"close", "error", "handshake", "read", "write"}
    /\ ToSet(msgs) \subseteq Tokens
    /\ died \in {"no", "assert", "retrieve", "sigpipe"}

\* The raw pointers the loop keeps across handlers (active_channels_, the running
\* callback, Poller::channels_) never name a connection that was destroyed: what
\* the tie_ of a Channel and the two-step removal are for.
NoDanglingChannel ==
    /\ \A a \in active : conn[a.conn].state \in HoldsFd
    /\ cur # NoConn => conn[cur].state \in HoldsFd
    /\ \A fd \in Fds : channels[fd] # NoConn => conn[channels[fd]].state \in HoldsFd

\* No handler after handleClose brings back interest in events, so ~Connection and
\* ~Channel find an empty mask, and none of the asserts on the maps fails.
ClosedStaysSilent ==
    /\ \A c \in Conns : conn[c].state \in {"kDisconnected", "destroyed"} => conn[c].events = {}
    /\ died # "assert"

\* Descriptors are reused: the two maps keyed by descriptor always hold exactly the
\* connections that own theirs, up to the removal that is still queued.
RegistriesAgree ==
    /\ \A c \in Conns :
           conn[c].state \in Live => connections[conn[c].fd] = c /\ channels[conn[c].fd] = c
    /\ \A c \in Conns : conn[c].state = "kDisconnected" =>
           \/ c \in retired
           \/ /\ channels[conn[c].fd] = c
              /\ [op |-> "remove", conn |-> c] \in ToSet(pending) \cup ToSet(running)
    /\ \A fd \in Fds : connections[fd] # NoConn =>
           conn[connections[fd]].state \in Live /\ conn[connections[fd]].fd = fd

\* A connection is never closed by a timer that later activity replaced: the only
\* timer of a live connection is the one it remembers.
OnlyCurrentTimer ==
    \A t \in timers \cup expired : conn[t[1]].state \in Live => t[2] = conn[t[1]].timer

\* Whatever was requested, a connection that is still open keeps an idle timer, so
\* that a silent peer cannot hold it for ever.  (Not so with TLS: a timer that expires
\* during the handshake is spent, and the connection that follows has none.)
Guarded(c) == <<c, conn[c].timer>> \in timers \cup expired
OpenIsGuarded ==
    ~Ssl /\ pc \in {"poll", "timers"} =>
        \A c \in Conns : conn[c].state \in {"kConnecting", "kConnected"} => Guarded(c)

\* On a plain connection the write half is shut down only once the response has left
\* output_buffer_, at once or later by handleWrite.  (Not so with TLS: handleWrite tests
\* the state before it looks at the buffer, and calls SSL_shutdown with output pending.)
FlushedBeforeClose ==
    ~Ssl => \A c \in Conns : sock[c].fin => ~conn[c].output

\* When the loop is about to block, no open plain connection has bytes it was not told
\* of: the price of edge triggering is that handleRead must read to the end.  (Not so with
\* TLS: after the handshake only SSL_pending is asked, and what is still in the kernel was
\* reported already.)
Blocks == died = "no" /\ pc = "poll" /\ Reports = {} /\ ~wake
NothingUnread ==
    ~Ssl /\ Blocks => \A c \in Conns : conn[c].state = "kConnected" => sock[c].inbox = <<>>

\* A peer that stops reading does not bring the process down.
SlowReaderIsSurvived == died # "retrieve"

\* Every functor that was queued is run, without help from any other event: what the
\* acceptor hands over is taken up, and a connection that was closed is destroyed and
\* its descriptor given back.
QueuedIsRun ==
    \A c \in Conns :
        /\ conn[c].state = "accepted" ~> conn[c].state # "accepted" \/ died # "no"
        /\ conn[c].state = "kDisconnected" ~> conn[c].state = "destroyed" \/ died # "no"

\* A plain connection does not stay open for ever without requests: its timer closes it.
\* (With TLS the timer may have been spent during the handshake.)
IdleIsClosed ==
    \A c \in Conns :
        ~Ssl /\ conn[c].state = "kConnected" ~> conn[c].state # "kConnected" \/ died # "no"

=============================================================================
