------------------------------- MODULE Server -------------------------------
(***************************************************************************)
(* The start of the program and its two listening servers: main starts the *)
(* I/O threads of each one after the other, then runs the base loop, which *)
(* accepts connections and deals them to the loops of the server's pool.   *)
(* Every thread runs its own EventLoop; what a connection does once it is  *)
(* established is the subject of Reactor.                                  *)
(***************************************************************************)
EXTENDS Integers, Sequences, SequencesExt

CONSTANTS
    MaxConns,        \* bound on the connections peers open; they are numbered as they come
    MaxThreads,      \* the most I/O threads the configuration asks for
    Uninitialised,   \* the servers whose accept channel may happen to have tied_ set: sets of them
    Faults           \* "cert": enableSsl throws; "ssl": no SSL object; "accept": accept fails

ASSUME ConstantsAssumption == MaxConns \in Nat /\ MaxThreads \in Nat

Conns == 1..MaxConns
Servers == {"http", "https"}
Workers == Servers \X (1..MaxThreads)
Base == <<"base", 0>>

VARIABLES
    threads, ssl,   \* what the configuration says
    pc,             \* where main stands
    starting,       \* the server main is starting
    waiting,        \* main sleeps on cond_ of the thread it started last
    loops, next,    \* of each server's pool: how many loops_ it has, and next_
    server,         \* the Server objects
    thread,         \* the I/O threads with their EventLoops
    conn,           \* the connections and the loops they were dealt to
    active,         \* accept channels of this round still to be handled
    dealt,          \* how many connections each loop was dealt
    joined          \* threads of the http pool that were joined

main == <<pc, starting, waiting, active, joined>>
pool == <<loops, next>>
vars == <<threads, ssl, main, pool, server, thread, conn, dealt>>

Init ==
    /\ threads \in 0..MaxThreads /\ ssl \in BOOLEAN
    /\ pc = "pool" /\ starting = "http" /\ waiting = FALSE
    /\ loops = [s \in Servers |-> 0] /\ next = [s \in Servers |-> 0]
    /\ \E tied \in {t \cap (IF ssl THEN Servers ELSE {"http"}) : t \in Uninitialised} :
        server = [s \in Servers |->
            [listening |-> FALSE, reading |-> FALSE, callback |-> FALSE,
             backlog |-> <<>>, edge |-> FALSE, tied |-> s \in tied, gaveUp |-> FALSE]]
    /\ thread = [w \in Workers |->
            [pc |-> "none", loop |-> FALSE, quit |-> FALSE, wake |-> FALSE,
             pending |-> <<>>, running |-> <<>>]]
    /\ conn = [c \in Conns |-> [state |-> "none", server |-> "http", loop |-> Base, timer |-> FALSE]]
    /\ active = <<>> /\ joined = 0
    /\ dealt = [w \in Workers |-> 0]

-----------------------------------------------------------------------------
(* main, up to its loop.                                                   *)

Started == <<starting, loops[starting] + 1>>

\* EventLoopThreadPool::start, one turn of its loop; startLoop creates the thread.
StartThread ==
    /\ pc = "pool"
    /\ loops[starting] < threads
    /\ thread' = [thread EXCEPT ![Started].pc = "new"]
    /\ pc' = "startLoop"
    /\ UNCHANGED <<threads, ssl, pool, starting, waiting, server, conn, active, dealt, joined>>

\* startLoop under the mutex: it has the loop, or sleeps until it is notified.
StartLoop ==
    /\ pc = "startLoop" /\ ~waiting
    /\ IF thread[Started].loop
       THEN /\ loops' = [loops EXCEPT ![starting] = @ + 1]
            /\ pc' = "pool"
            /\ UNCHANGED waiting
       ELSE waiting' = TRUE /\ UNCHANGED <<loops, pc>>
    /\ UNCHANGED <<threads, ssl, starting, next, server, thread, conn, active, dealt, joined>>

SpuriousWakeup ==
    /\ pc = "startLoop" /\ waiting
    /\ waiting' = FALSE
    /\ UNCHANGED <<threads, ssl, pool, pc, starting, server, thread, conn, active, dealt, joined>>

\* The rest of Server::start.
Listen ==
    /\ pc = "pool" /\ loops[starting] = threads
    /\ server' = [server EXCEPT ![starting].listening = TRUE]
    /\ pc' = "enable"
    /\ UNCHANGED <<threads, ssl, pool, starting, waiting, thread, conn, active, dealt, joined>>

\* EPOLL_CTL_ADD reports what has already arrived.
EnableReading ==
    /\ pc = "enable"
    /\ server' = [server EXCEPT ![starting].reading = TRUE,
                                ![starting].edge = server[starting].backlog # <<>>]
    /\ pc' = "callback"
    /\ UNCHANGED <<threads, ssl, pool, starting, waiting, thread, conn, active, dealt, joined>>

SetConnectionCallback ==
    /\ pc = "callback"
    /\ server' = [server EXCEPT ![starting].callback = TRUE]
    /\ pc' = IF starting = "http" /\ ssl THEN "ssl" ELSE "loop"
    /\ UNCHANGED <<threads, ssl, pool, starting, waiting, thread, conn, active, dealt, joined>>

EnableSsl ==
    /\ pc = "ssl"
    /\ pc' = "pool" /\ starting' = "https"
    /\ UNCHANGED <<threads, ssl, pool, waiting, server, thread, conn, active, dealt, joined>>

\* It throws: the stack unwinds through ~Server of both servers.
EnableSslThrows ==
    /\ pc = "ssl" /\ "cert" \in Faults
    /\ pc' = "quit"
    /\ server' = [server EXCEPT !["http"].reading = FALSE]
    /\ UNCHANGED <<threads, ssl, pool, starting, waiting, thread, conn, active, dealt, joined>>

\* ~EventLoopThread of the next thread: quit sets a flag and wakes nobody.
Quit ==
    /\ pc = "quit" /\ joined < loops["http"]
    /\ thread' = [thread EXCEPT ![<<"http", joined + 1>>].quit = TRUE]
    /\ pc' = "join"
    /\ UNCHANGED <<threads, ssl, pool, starting, waiting, server, conn, active, dealt, joined>>

Join ==
    /\ pc = "join" /\ thread[<<"http", joined + 1>>].pc = "exited"
    /\ joined' = joined + 1
    /\ pc' = "quit"
    /\ UNCHANGED <<threads, ssl, pool, starting, waiting, server, thread, conn, active, dealt>>

\* The handler of main's try block: LOG_FATAL aborts the process.
MainFails ==
    /\ pc = "quit" /\ joined = loops["http"]
    /\ pc' = "aborted"
    /\ UNCHANGED <<threads, ssl, pool, starting, waiting, server, thread, conn, active, dealt, joined>>

-----------------------------------------------------------------------------
(* The base loop: Server::handleConnection.                                *)

Poll ==
    LET ready == {s \in Servers : server[s].reading /\ server[s].edge} IN
    /\ pc = "loop" /\ active = <<>>
    /\ ready # {}
    /\ active' \in SetToSeqs(ready)
    /\ server' = [s \in Servers |-> [server[s] EXCEPT !.edge = @ /\ s \notin ready]]
    /\ UNCHANGED <<threads, ssl, pool, pc, starting, waiting, thread, conn, dealt, joined>>

\* A channel whose tied_ happens to be true has nothing to lock: its event is dropped.
HandleEventDropped ==
    /\ pc = "loop" /\ active # <<>>
    /\ server[Head(active)].tied
    /\ active' = Tail(active)
    /\ UNCHANGED <<threads, ssl, pool, pc, starting, waiting, server, thread, conn, dealt, joined>>

Accepting(s) == pc = "loop" /\ active # <<>> /\ s = Head(active) /\ ~server[s].tied

\* Faulty variant: next_ is left where it is.
TurnForgotten(s) == next[s]
\* EventLoopThreadPool::getNextLoop: the loop, and whose turn is next.
NextLoop(s) == IF loops[s] = 0 THEN Base ELSE <<s, next[s] + 1>>
Turn(s) == (next[s] + 1) % loops[s]
TakeTurn(s) ==
    IF loops[s] = 0 THEN UNCHANGED <<next, dealt>>
    ELSE /\ next' = [next EXCEPT ![s] = Turn(s)]
         /\ dealt' = [dealt EXCEPT ![<<s, next[s] + 1>>] = @ + 1]

\* runInLoop from another thread than the loop's: queued with a wakeup.
QueueWithoutWakeup(w, c) == [thread EXCEPT ![w].pending = Append(@, c)]   \* faulty variant
QueueInLoop(w, c) == [thread EXCEPT ![w].pending = Append(@, c), ![w].wake = TRUE]

\* accept: one connection less in the backlog.
Accepted(s) == [server EXCEPT ![s].backlog = Tail(@)]

AcceptConnection(s) ==
    LET c == Head(server[s].backlog)
        w == NextLoop(s) IN
    /\ Accepting(s) /\ server[s].backlog # <<>>
    /\ server' = Accepted(s)
    /\ TakeTurn(s)
    /\ IF w = Base
       THEN /\ conn' = [conn EXCEPT ![c].state = "established", ![c].timer = server[s].callback]
            /\ UNCHANGED thread
       ELSE /\ conn' = [conn EXCEPT ![c].state = "queued", ![c].loop = w]
            /\ thread' = QueueInLoop(w, c)
    /\ UNCHANGED <<threads, ssl, main, loops>>

\* SSL_new or SSL_set_fd fails: the connection is closed, but its turn was taken.
SslFails(s) ==
    /\ Accepting(s) /\ server[s].backlog # <<>>
    /\ s = "https" /\ "ssl" \in Faults
    /\ server' = Accepted(s)
    /\ TakeTurn(s)
    /\ conn' = [conn EXCEPT ![Head(server[s].backlog)].state = "closed"]
    /\ UNCHANGED <<threads, ssl, main, loops, thread>>

\* accept answers EAGAIN.
BacklogEmpty(s) ==
    /\ Accepting(s) /\ server[s].backlog = <<>>
    /\ active' = Tail(active)
    /\ server' = [server EXCEPT ![s].gaveUp = FALSE]
    /\ UNCHANGED <<threads, ssl, pool, pc, starting, waiting, thread, conn, dealt, joined>>

\* accept fails otherwise (no descriptor left, say): the loop ends as well.
AcceptFails(s) ==
    /\ Accepting(s) /\ server[s].backlog # <<>> /\ "accept" \in Faults
    /\ active' = Tail(active)
    /\ server' = [server EXCEPT ![s].gaveUp = TRUE]
    /\ UNCHANGED <<threads, ssl, pool, pc, starting, waiting, thread, conn, dealt, joined>>

-----------------------------------------------------------------------------
(* The I/O threads: EventLoopThread::threadFunc and its EventLoop.         *)

Runs(w, at) == pc # "aborted" /\ thread[w].pc = at
OnlyThread == UNCHANGED <<threads, ssl, pool, main, server, conn, dealt>>

\* Faulty variant: loop_ is set and nobody is notified.
PublishSilently(w) ==
    /\ Runs(w, "new")
    /\ thread' = [thread EXCEPT ![w].pc = "enter", ![w].loop = TRUE]
    /\ OnlyThread
\* The thread has made its loop: set loop_ and notify, under the mutex.
Publish(w) ==
    /\ Runs(w, "new")
    /\ thread' = [thread EXCEPT ![w].pc = "enter", ![w].loop = TRUE]
    /\ waiting' = FALSE
    /\ UNCHANGED <<threads, ssl, pool, pc, starting, active, joined, server, conn, dealt>>

\* EventLoop::loop clears quit_ before its first test of it.
EnterLoop(w) ==
    /\ Runs(w, "enter")
    /\ thread' = [thread EXCEPT ![w].pc = "run", ![w].quit = FALSE]
    /\ OnlyThread

\* The end of a round, and what the loop's condition finds.
RoundEnds(w) ==
    /\ Runs(w, "run") /\ thread[w].running = <<>>
    /\ thread' = IF thread[w].quit THEN [thread EXCEPT ![w].pc = "exited", ![w].loop = FALSE]
                 ELSE [thread EXCEPT ![w].pc = "poll"]
    /\ OnlyThread

\* Nothing but a write to wakeup_fd_ ends a poll here.
WorkerPoll(w) ==
    /\ Runs(w, "poll") /\ thread[w].wake
    /\ thread' = [thread EXCEPT ![w].pc = "functors", ![w].wake = FALSE]
    /\ OnlyThread

\* doPendingFunctors takes the queue under the lock, then runs it without.
TakePendingOverwrites(w) ==   \* faulty variant: only the last functor is taken
    /\ Runs(w, "functors")
    /\ thread' = [thread EXCEPT ![w].pc = "run", ![w].pending = <<>>,
          ![w].running = SubSeq(thread[w].pending, Len(thread[w].pending), Len(thread[w].pending))]
    /\ OnlyThread
TakePending(w) ==
    /\ Runs(w, "functors")
    /\ thread' = [thread EXCEPT ![w].pc = "run", ![w].running = thread[w].pending,
                                ![w].pending = <<>>]
    /\ OnlyThread

\* The functor handleConnection queued; its onConnection sets the idle timer.
Establish(w) ==
    /\ Runs(w, "run") /\ thread[w].running # <<>>
    /\ thread' = [thread EXCEPT ![w].running = Tail(@)]
    /\ LET c == Head(thread[w].running) IN
       conn' = [conn EXCEPT ![c].state = "established",
                            ![c].timer = server[conn[c].server].callback]
    /\ UNCHANGED <<threads, ssl, pool, main, server, dealt>>

-----------------------------------------------------------------------------
\* A peer connects: an edge for the accept channel if it is watched.
Connect(c, s) ==
    /\ pc # "aborted"
    /\ server[s].listening
    /\ conn[c].state = "none" /\ \A d \in Conns : d < c => conn[d].state # "none"
    /\ conn' = [conn EXCEPT ![c].state = "waiting", ![c].server = s]
    /\ server' = [server EXCEPT ![s].backlog = Append(@, c), ![s].edge = server[s].reading]
    /\ UNCHANGED <<threads, ssl, pool, main, thread, dealt>>

Main ==
    \/ StartThread \/ StartLoop \/ Listen \/ EnableReading \/ SetConnectionCallback
    \/ EnableSsl \/ EnableSslThrows \/ Quit \/ Join \/ MainFails
    \/ Poll \/ HandleEventDropped
    \/ \E s \in Servers : AcceptConnection(s) \/ SslFails(s) \/ BacklogEmpty(s) \/ AcceptFails(s)

Worker(w) ==
    \/ Publish(w) \/ EnterLoop(w)
    \/ WorkerPoll(w) \/ TakePending(w) \/ Establish(w) \/ RoundEnds(w)

Next ==
    \/ Main
    \/ \E w \in Workers : Worker(w)
    \/ \E c \in Conns, s \in Servers : Connect(c, s)
    \/ SpuriousWakeup

Spec == Init /\ [][Next]_vars

\* Every thread runs while it can.  Peers need not connect, and no wakeup is spurious
\* of necessity.
FairSpec == Spec /\ WF_vars(Main) /\ \A w \in Workers : WF_vars(Worker(w))

-----------------------------------------------------------------------------
TypeOK ==
    /\ threads \in 0..MaxThreads /\ ssl \in BOOLEAN
    /\ pc \in {"pool", "startLoop", "enable", "callback", "ssl", "loop", "quit", "join", "aborted"}
    /\ starting \in Servers /\ waiting \in BOOLEAN /\ joined \in 0..MaxThreads
    /\ loops \in [Servers -> 0..MaxThreads] /\ next \in [Servers -> Nat]
    /\ server \in [Servers ->
           [listening : BOOLEAN, reading : BOOLEAN,
            callback : BOOLEAN, backlog : Seq(Conns), edge : BOOLEAN, tied : BOOLEAN,
            gaveUp : BOOLEAN]]
    /\ \A w \in Workers :
           /\ thread[w].pc \in {"none", "new", "enter", "poll", "functors", "run", "exited"}
           /\ thread[w].pending \in Seq(Conns) /\ thread[w].running \in Seq(Conns)
    /\ \A c \in Conns :
           /\ conn[c].state \in {"none", "waiting", "queued", "established", "closed"}
           /\ conn[c].server \in Servers /\ conn[c].loop \in Workers \cup {Base}
    /\ active \in Seq(Servers)
    /\ dealt \in [Workers -> Nat]

\* Connections are dealt evenly: two loops of a pool differ by at most one, whatever
\* becomes of the connections.
TurnsAreEven ==
    \A s \in Servers : \A i, j \in 1..loops[s] : dealt[<<s, i>>] <= dealt[<<s, j>>] + 1

\* A connection is always in one place: in the backlog, in the queue of the loop it was
\* dealt to (of its own server, and running), or established there with an idle timer.
Places(c) ==
    {<<"backlog", s>> : s \in {s \in Servers : c \in ToSet(server[s].backlog)}}
    \cup {<<"queue", w>> : w \in {w \in Workers : c \in ToSet(thread[w].pending)}}
    \cup {<<"round", w>> : w \in {w \in Workers : c \in ToSet(thread[w].running)}}
NoneIsLost ==
    \A c \in Conns :
        /\ conn[c].state = "waiting" => Places(c) = {<<"backlog", conn[c].server>>}
        /\ conn[c].state = "queued" =>
               /\ Places(c) \in {{<<"queue", conn[c].loop>>}, {<<"round", conn[c].loop>>}}
               /\ conn[c].loop[1] = conn[c].server /\ thread[conn[c].loop].loop
        /\ conn[c].state = "established" => Places(c) = {} /\ conn[c].timer

\* Every connection is taken up without help from later ones, once the program runs;
\* not if its accept channel is deaf, and not if accept failed over it.
Served(c) ==
    \/ conn[c].state \in {"none", "established", "closed"}
    \/ server[conn[c].server].gaveUp \/ server[conn[c].server].tied
ConnectedIsServed == pc = "loop" ~> \A c \in Conns : Served(c)

\* The start comes to an end: main reaches its loop, or has to unwind.
StartEnds == <>(pc \in {"loop", "quit"})

=============================================================================
