---------------------------- MODULE ServerProofs ----------------------------
(***************************************************************************)
(* However many loops the pools have, and whatever peers, threads and      *)
(* failing calls do, connections are dealt evenly, and none is ever lost   *)
(* between the backlog it waits in and the loop that serves it.            *)
(***************************************************************************)
EXTENDS Server, SequenceLemmas, FiniteSetTheorems

\* Before the first lap of the loops all were dealt k connections; those the lap has
\* passed have one more.  Loops join their pool before the first connection is dealt.
Lap(s, k) ==
    \A i \in 1..loops[s] : dealt[<<s, i>>] = IF i <= next[s] THEN k + 1 ELSE k

PoolInv ==
    /\ threads \in 0..MaxThreads /\ starting \in Servers
    /\ loops \in [Servers -> 0..MaxThreads]
    /\ next \in [Servers -> Nat]
    /\ dealt \in [Workers -> Nat]
    /\ \A s \in Servers : next[s] < loops[s] \/ next[s] = 0
    /\ pc = "startLoop" => loops[starting] < threads
    /\ pc # "loop" => /\ \A s \in Servers : next[s] = 0
                      /\ \A w \in Workers : dealt[w] = 0
    /\ \A s \in Servers : \E k \in Nat : Lap(s, k)

\* What PoolInv is about.
dealing == <<threads, starting, pool, dealt>>

LEMMA PoolInit == Init => PoolInv
<1> SUFFICES ASSUME Init PROVE PoolInv
  OBVIOUS
<1>1. \A s \in Servers : Lap(s, 0)
  <2> SUFFICES ASSUME NEW s \in Servers, NEW i \in 1..loops[s]
               PROVE dealt[<<s, i>>] = IF i <= next[s] THEN 0 + 1 ELSE 0
    BY DEF Lap
  <2> QED
    BY DEF Init
<1> QED
  BY <1>1, ConstantsAssumption DEF Init, PoolInv, ConstantsAssumption, Servers, Workers

\* A step that deals nothing and starts nothing keeps the invariant, as long as it
\* does not leave the loop.
LEMMA PoolKept ==
    ASSUME PoolInv, UNCHANGED dealing, pc' = "startLoop" => loops[starting] < threads,
           pc = "loop" => pc' = "loop"
    PROVE  PoolInv'
<1>1. \A s \in Servers, k \in Nat : Lap(s, k) => Lap(s, k)'
  BY DEF dealing, pool, Lap
<1>2. \A s \in Servers : \E k \in Nat : Lap(s, k)'
  BY <1>1 DEF PoolInv
<1> QED
  BY <1>2 DEF PoolInv, dealing, pool

\* startLoop returns: the pool has a loop more, which was dealt nothing.
LEMMA PoolGrows == ASSUME PoolInv, StartLoop PROVE PoolInv'
<1>1. CASE thread[Started].loop
  <2>1. /\ loops' = [loops EXCEPT ![starting] = @ + 1]
        /\ pc = "startLoop" /\ pc' = "pool"
        /\ UNCHANGED <<threads, starting, next, dealt>>
    BY <1>1 DEF StartLoop
  <2>2. loops[starting] + 1 \in 0..MaxThreads
    BY <2>1, ConstantsAssumption DEF PoolInv, ConstantsAssumption
  <2>3. loops' \in [Servers -> 0..MaxThreads]
    BY <2>1, <2>2 DEF PoolInv
  <2>4. \A s \in Servers : next'[s] = 0
    BY <2>1 DEF PoolInv
  <2>5. \A w \in Workers : dealt'[w] = 0
    BY <2>1 DEF PoolInv
  <2>6. \A s \in Servers : Lap(s, 0)'
    <3> SUFFICES ASSUME NEW s \in Servers, NEW i \in 1..loops'[s]
                 PROVE dealt'[<<s, i>>] = IF i <= next'[s] THEN 0 + 1 ELSE 0
      BY DEF Lap
    <3>1. i \in 1..MaxThreads
      BY <2>3, ConstantsAssumption DEF ConstantsAssumption
    <3>2. <<s, i>> \in Workers
      BY <3>1 DEF Workers
    <3> QED
      BY <2>4, <2>5, <3>1, <3>2, ConstantsAssumption DEF ConstantsAssumption
  <2> QED
    BY <2>1, <2>3, <2>4, <2>5, <2>6 DEF PoolInv
<1>2. CASE ~thread[Started].loop
  <2>1. UNCHANGED dealing /\ pc = "startLoop" /\ pc' = pc
    BY <1>2 DEF StartLoop, dealing, pool
  <2>2. loops[starting] < threads
    BY <2>1 DEF PoolInv
  <2> QED
    BY <2>1, <2>2, PoolKept
<1> QED
  BY <1>1, <1>2

\* getNextLoop, used or not, deals one connection and passes the turn on.
LEMMA TurnTaken ==
    ASSUME PoolInv, NEW s \in Servers, TakeTurn(s), UNCHANGED <<threads, starting, loops, pc>>,
           pc = "loop"
    PROVE  PoolInv'
<1>1. CASE loops[s] = 0
  <2>1. UNCHANGED dealing
    BY <1>1 DEF TakeTurn, dealing, pool
  <2> QED
    BY <2>1, PoolKept
<1>2. CASE loops[s] # 0
  <2> DEFINE w == <<s, next[s] + 1>>
  <2>1. /\ next' = [next EXCEPT ![s] = Turn(s)]
        /\ dealt' = [dealt EXCEPT ![w] = @ + 1]
    BY <1>2 DEF TakeTurn
  <2>2. loops[s] \in Nat /\ loops[s] > 0 /\ next[s] \in Nat /\ next[s] < loops[s]
        /\ loops[s] <= MaxThreads
    BY <1>2, ConstantsAssumption DEF PoolInv, ConstantsAssumption
  <2>3. Turn(s) = IF next[s] + 1 = loops[s] THEN 0 ELSE next[s] + 1
    <3>1. CASE next[s] + 1 = loops[s]
      BY <2>2, <3>1 DEF Turn
    <3>2. CASE next[s] + 1 # loops[s]
      <4>1. next[s] + 1 \in 0..(loops[s] - 1)
        BY <2>2, <3>2
      <4> QED
        BY <2>2, <3>2, <4>1 DEF Turn
    <3> QED
      BY <3>1, <3>2
  <2>4. w \in Workers
    BY <2>2, ConstantsAssumption DEF Workers, ConstantsAssumption
  <2>5. /\ next' \in [Servers -> Nat] /\ dealt' \in [Workers -> Nat]
        /\ \A r \in Servers \ {s} : next'[r] = next[r]
        /\ next'[s] = Turn(s)
        /\ \A v \in Workers \ {w} : dealt'[v] = dealt[v]
        /\ dealt'[w] = dealt[w] + 1
    BY <2>1, <2>2, <2>3, <2>4 DEF PoolInv
  <2>6. \A r \in Servers : next'[r] < loops'[r] \/ next'[r] = 0
    BY <2>2, <2>3, <2>5 DEF PoolInv
  <2>7. \A r \in Servers : \A i \in 1..loops[r] : <<r, i>> \in Workers
    <3> SUFFICES ASSUME NEW r \in Servers, NEW i \in 1..loops[r] PROVE <<r, i>> \in Workers
      OBVIOUS
    <3>1. loops[r] \in 0..MaxThreads
      BY DEF PoolInv
    <3>2. i \in 1..MaxThreads
      BY <3>1, ConstantsAssumption DEF ConstantsAssumption
    <3> QED
      BY <3>2 DEF Workers
  <2>8. \A r \in Servers \ {s} : \E k \in Nat : Lap(r, k)'
    <3> SUFFICES ASSUME NEW r \in Servers \ {s} PROVE \E k \in Nat : Lap(r, k)'
      OBVIOUS
    <3>1. PICK k \in Nat : Lap(r, k)
      BY DEF PoolInv
    <3>2. \A i \in 1..loops[r] : dealt'[<<r, i>>] = dealt[<<r, i>>]
      BY <2>5, <2>7
    <3> QED
      BY <2>5, <3>1, <3>2 DEF Lap
  <2>9. \E k \in Nat : Lap(s, k)'
    <3>1. PICK k \in Nat : Lap(s, k)
      BY DEF PoolInv
    <3>2. \A i \in 1..loops[s] :
             dealt'[<<s, i>>] = IF i <= next[s] + 1 THEN k + 1 ELSE k
      <4> SUFFICES ASSUME NEW i \in 1..loops[s]
                   PROVE dealt'[<<s, i>>] = IF i <= next[s] + 1 THEN k + 1 ELSE k
        OBVIOUS
      <4>1. dealt[<<s, i>>] = IF i <= next[s] THEN k + 1 ELSE k
        BY <3>1 DEF Lap
      <4>2. CASE i = next[s] + 1
        BY <4>1, <4>2, <2>2, <2>5
      <4>3. CASE i # next[s] + 1
        <5>1. <<s, i>> # w /\ <<s, i>> \in Workers
          BY <4>3, <2>7
        <5>2. dealt'[<<s, i>>] = dealt[<<s, i>>]
          BY <5>1, <2>5
        <5> QED
          BY <5>2, <4>1, <4>3, <2>2
      <4> QED
        BY <4>2, <4>3
    <3>3. CASE next[s] + 1 = loops[s]
      <4>1. \A i \in 1..loops[s] : dealt'[<<s, i>>] = k + 1
        BY <3>2, <3>3, <2>2
      <4>2. next'[s] = 0
        BY <2>3, <2>5, <3>3
      <4>3. Lap(s, k + 1)'
        BY <4>1, <4>2 DEF Lap
      <4> QED
        BY <4>3
    <3>4. CASE next[s] + 1 # loops[s]
      <4>1. next'[s] = next[s] + 1
        BY <2>3, <2>5, <3>4
      <4>2. Lap(s, k)'
        BY <3>2, <4>1 DEF Lap
      <4> QED
        BY <4>2
    <3> QED
      BY <3>3, <3>4
  <2>10. /\ threads' \in 0..MaxThreads /\ starting' \in Servers
         /\ loops' \in [Servers -> 0..MaxThreads] /\ pc' = "loop"
    BY DEF PoolInv
  <2>11. \A r \in Servers : \E k \in Nat : Lap(r, k)'
    BY <2>8, <2>9
  <2> HIDE DEF w
  <2> QED
    BY <2>5, <2>6, <2>10, <2>11 DEF PoolInv
<1> QED
  BY <1>1, <1>2

LEMMA PoolStep == PoolInv /\ [Next]_vars => PoolInv'
<1> SUFFICES ASSUME PoolInv, [Next]_vars PROVE PoolInv'
  OBVIOUS
<1>1. CASE StartThread
  BY <1>1, PoolKept DEF StartThread, dealing, pool
<1>2. CASE StartLoop
  BY <1>2, PoolGrows
<1>3. CASE Listen \/ EnableReading \/ SetConnectionCallback \/ EnableSslThrows
  BY <1>3, PoolKept
  DEF Listen, EnableReading, SetConnectionCallback, EnableSslThrows, dealing, pool
<1>4. CASE EnableSsl
  <2>1. \A s \in Servers, k \in Nat : Lap(s, k) => Lap(s, k)'
    BY <1>4 DEF EnableSsl, pool, Lap
  <2>2. \A s \in Servers : \E k \in Nat : Lap(s, k)'
    BY <2>1 DEF PoolInv
  <2> QED
    BY <1>4, <2>2 DEF PoolInv, EnableSsl, pool, Servers
<1>5. CASE Quit \/ Join \/ MainFails
  BY <1>5, PoolKept DEF Quit, Join, MainFails, dealing, pool
<1>6. CASE Poll \/ HandleEventDropped
  BY <1>6, PoolKept DEF Poll, HandleEventDropped, dealing, pool
<1>7. ASSUME NEW s \in Servers, AcceptConnection(s) \/ SslFails(s) PROVE PoolInv'
  <2>1. TakeTurn(s) /\ UNCHANGED <<threads, starting, loops, pc>> /\ pc = "loop"
    BY <1>7 DEF AcceptConnection, SslFails, Accepting, main
  <2> QED
    BY <2>1, TurnTaken
<1>8. ASSUME NEW s \in Servers, BacklogEmpty(s) \/ AcceptFails(s) PROVE PoolInv'
  BY <1>8, PoolKept DEF BacklogEmpty, AcceptFails, Accepting, dealing, pool
<1>9. ASSUME NEW w \in Workers, Worker(w) PROVE PoolInv'
  <2>1. UNCHANGED dealing /\ pc' = pc
    BY <1>9 DEF Worker, Publish, EnterLoop, WorkerPoll, TakePending, Establish, RoundEnds,
                OnlyThread, main, dealing, pool
  <2>2. pc = "startLoop" => loops[starting] < threads
    BY DEF PoolInv
  <2> QED
    BY <2>1, <2>2, PoolKept
<1>10. ASSUME NEW c \in Conns, NEW s \in Servers, Connect(c, s) PROVE PoolInv'
  <2>1. UNCHANGED dealing /\ pc' = pc
    BY <1>10 DEF Connect, main, dealing, pool
  <2>2. pc = "startLoop" => loops[starting] < threads
    BY DEF PoolInv
  <2> QED
    BY <2>1, <2>2, PoolKept
<1>11. CASE SpuriousWakeup \/ UNCHANGED vars
  <2>1. UNCHANGED dealing /\ pc' = pc
    BY <1>11 DEF SpuriousWakeup, vars, main, dealing, pool
  <2>2. pc = "startLoop" => loops[starting] < threads
    BY DEF PoolInv
  <2> QED
    BY <2>1, <2>2, PoolKept
<1> QED
  BY <1>1, <1>2, <1>3, <1>4, <1>5, <1>6, <1>7, <1>8, <1>9, <1>10, <1>11 DEF Next, Main

LEMMA PoolIsEven == PoolInv => TurnsAreEven
<1> SUFFICES ASSUME PoolInv, NEW s \in Servers, NEW i \in 1..loops[s], NEW j \in 1..loops[s]
             PROVE dealt[<<s, i>>] <= dealt[<<s, j>>] + 1
  BY DEF TurnsAreEven
<1>1. PICK k \in Nat : Lap(s, k)
  BY DEF PoolInv
<1>2. dealt[<<s, i>>] \in {k, k + 1} /\ dealt[<<s, j>>] \in {k, k + 1}
  BY <1>1 DEF Lap
<1> QED
  BY <1>2

\* No loop of a pool is ever two connections ahead of another, for any number of
\* threads and connections.
THEOREM DealtEvenly == Spec => []TurnsAreEven
  BY PoolInit, PoolStep, PoolIsEven, PTL DEF Spec
-----------------------------------------------------------------------------
(* Where a connection is, from the backlog to the loop that serves it.     *)

Unwinding == {"quit", "join", "aborted"}
InPool(w) == w[2] <= loops[w[1]]
Waits(c, s) == conn[c].state = "waiting" /\ conn[c].server = s
Queued(c, w) == conn[c].state = "queued" /\ conn[c].loop = w

ConnRecord == [state : {"none", "waiting", "queued", "established", "closed"},
               server : Servers, loop : Workers \cup {Base}, timer : BOOLEAN]
ServerRecord == [listening : BOOLEAN, reading : BOOLEAN, callback : BOOLEAN,
                 backlog : Seq(Conns), edge : BOOLEAN, tied : BOOLEAN, gaveUp : BOOLEAN]
ThreadRecord == [pc : {"none", "new", "enter", "poll", "functors", "run", "exited"},
                 loop : BOOLEAN, quit : BOOLEAN, wake : BOOLEAN,
                 pending : Seq(Conns), running : Seq(Conns)]
RecordTypes ==
    /\ conn \in [Conns -> ConnRecord]
    /\ server \in [Servers -> ServerRecord]
    /\ thread \in [Workers -> ThreadRecord]
    /\ active \in Seq(Servers)

\* Nothing is accepted before main's loop; then the callbacks of all that may be accepted
\* are set, and until the stack unwinds the loops of the pools are there.
StartInv ==
    /\ pc # "loop" => active = <<>> /\ \A c \in Conns : conn[c].state \in {"none", "waiting"}
    /\ \A s \in Servers : server[s].reading =>
          server[s].callback \/ (pc = "callback" /\ s = starting) \/ pc \in Unwinding
    /\ \A s \in ToSet(active) : server[s].callback
    /\ pc \notin Unwinding =>
          \A w \in Workers : ~thread[w].quit /\ (InPool(w) => thread[w].loop)

\* The queues hold the connections whose state says so, each of them once.
BacklogInv(s) ==
    /\ Once(server[s].backlog)
    /\ \A c \in Conns : c \in ToSet(server[s].backlog) <=> Waits(c, s)
LoopInv(w) ==
    /\ Once(thread[w].pending) /\ Once(thread[w].running)
    /\ thread[w].pc # "run" => thread[w].running = <<>>
    /\ \A c \in Conns :
          /\ ~(c \in ToSet(thread[w].pending) /\ c \in ToSet(thread[w].running))
          /\ c \in ToSet(thread[w].pending) \/ c \in ToSet(thread[w].running) <=> Queued(c, w)
QueueInv == (\A s \in Servers : BacklogInv(s)) /\ (\A w \in Workers : LoopInv(w))

ConnInv ==
    \A c \in Conns :
        /\ conn[c].state = "queued" =>
              /\ conn[c].loop \in Workers /\ conn[c].loop[1] = conn[c].server
              /\ InPool(conn[c].loop)
              /\ server[conn[c].server].callback
        /\ conn[c].state = "established" => conn[c].timer

PlaceInv == PoolInv /\ RecordTypes /\ StartInv /\ QueueInv /\ ConnInv

LEMMA PlaceInit == Init => PlaceInv
<1> SUFFICES ASSUME Init PROVE PlaceInv
  OBVIOUS
<1>1. RecordTypes
  BY DEF Init, RecordTypes, Servers, ConnRecord, ServerRecord, ThreadRecord
<1>2. StartInv
  BY EmptyQueue DEF Init, StartInv, InPool, Workers, Servers
<1>3. QueueInv
  BY EmptyQueue DEF Init, QueueInv, BacklogInv, LoopInv, Waits, Queued, Servers
<1>4. ConnInv
  BY DEF Init, ConnInv
<1> QED
  BY <1>1, <1>2, <1>3, <1>4, PoolInit DEF PlaceInv

LEMMA Fields ==
    ASSUME RecordTypes
    PROVE  /\ \A s \in Servers : /\ server[s] \in ServerRecord
                                 /\ server[s].backlog \in Seq(Conns)
           /\ \A w \in Workers : /\ thread[w] \in ThreadRecord
                                 /\ thread[w].pending \in Seq(Conns)
                                 /\ thread[w].running \in Seq(Conns)
           /\ \A c \in Conns : /\ conn[c] \in ConnRecord
                               /\ conn[c].server \in Servers
                               /\ conn[c].loop \in Workers \cup {Base}
  BY DEF RecordTypes, ServerRecord, ThreadRecord, ConnRecord

\* A step that moves no connection.
LEMMA ConnsKept ==
    ASSUME RecordTypes, QueueInv, ConnInv, UNCHANGED conn,
           \A s \in Servers : /\ server'[s].backlog = server[s].backlog
                              /\ server[s].callback => server'[s].callback,
           \A w \in Workers : /\ thread'[w].pending = thread[w].pending
                              /\ thread'[w].running = thread[w].running
                              /\ thread'[w].pc # "run" => thread[w].running = <<>>,
           \A w \in Workers : InPool(w) => InPool(w)'
    PROVE  QueueInv' /\ ConnInv'
<1>1. QueueInv'
  BY DEF QueueInv, BacklogInv, LoopInv, Waits, Queued
<1>2. \A c \in Conns : conn[c].server \in Servers
  BY Fields
<1>3. ConnInv'
  BY <1>2 DEF ConnInv
<1> QED
  BY <1>1, <1>3

\* One thread steps, one server changes, one connection moves.
LEMMA ThreadSteps ==
    ASSUME RecordTypes, NEW w \in Workers, NEW r \in ThreadRecord,
           thread' = [thread EXCEPT ![w] = r]
    PROVE  /\ thread' \in [Workers -> ThreadRecord]
           /\ thread'[w] = r
           /\ \A v \in Workers : v # w => thread'[v] = thread[v]
  BY DEF RecordTypes
LEMMA ServerChanges ==
    ASSUME RecordTypes, NEW s \in Servers, NEW r \in ServerRecord,
           server' = [server EXCEPT ![s] = r]
    PROVE  /\ server' \in [Servers -> ServerRecord]
           /\ server'[s] = r
           /\ \A t \in Servers : t # s => server'[t] = server[t]
  BY DEF RecordTypes
LEMMA ConnMoves ==
    ASSUME RecordTypes, NEW c \in Conns, NEW r \in ConnRecord,
           conn' = [conn EXCEPT ![c] = r]
    PROVE  /\ conn' \in [Conns -> ConnRecord]
           /\ conn'[c] = r
           /\ \A d \in Conns : d # c => conn'[d] = conn[d]
  BY DEF RecordTypes

LEMMA PoolOf ==
    ASSUME PoolInv, NEW w \in Workers
    PROVE  w[1] \in Servers /\ w[2] \in 1..MaxThreads /\ w = <<w[1], w[2]>> /\ loops[w[1]] \in Nat
  BY ConstantsAssumption DEF PoolInv, Workers, ConstantsAssumption

\* main before its loop.
LEMMA StartSteps ==
    ASSUME PlaceInv,
           StartThread \/ Listen \/ EnableReading \/ SetConnectionCallback \/ EnableSsl
    PROVE  RecordTypes' /\ StartInv' /\ QueueInv' /\ ConnInv'
<1>0. PoolInv /\ RecordTypes /\ StartInv /\ QueueInv /\ ConnInv
  BY DEF PlaceInv
<1>1. /\ pc \notin Unwinding /\ pc # "loop"
      /\ pc' \notin Unwinding
      /\ UNCHANGED <<pool, conn, active>>
  BY DEF StartThread, Listen, EnableReading, SetConnectionCallback, EnableSsl, Unwinding
<1>2. /\ active = <<>>
      /\ \A c \in Conns : conn[c].state \in {"none", "waiting"}
      /\ \A w \in Workers : ~thread[w].quit /\ (InPool(w) => thread[w].loop)
  BY <1>0, <1>1 DEF StartInv
<1>3. UNCHANGED <<loops, conn, active>> /\ \A w : InPool(w)' = InPool(w)
  BY <1>1 DEF pool, InPool
<1>4. starting \in Servers /\ server[starting] \in ServerRecord
      /\ (\A s \in Servers : server[s] \in ServerRecord)
      /\ (\A w \in Workers : thread[w] \in ThreadRecord)
  BY <1>0, Fields DEF PoolInv
<1>5. ToSet(active) = {} /\ active \in Seq(Servers)
  BY <1>0, <1>2, EmptyQueue DEF RecordTypes
<1>6. \A s \in Servers : server[s].reading => server[s].callback \/ (pc = "callback" /\ s = starting)
  BY <1>0, <1>1 DEF StartInv
<1>7. \A w \in Workers : thread[w].pc # "run" => thread[w].running = <<>>
  BY <1>0 DEF QueueInv, BacklogInv, LoopInv
<1>8. ASSUME server' \in [Servers -> ServerRecord],
             \A s \in Servers : /\ server'[s].backlog = server[s].backlog
                                /\ server[s].callback => server'[s].callback
                                /\ server'[s].reading =>
                                      server'[s].callback \/ (pc' = "callback" /\ s = starting'),
             thread' \in [Workers -> ThreadRecord],
             \A w \in Workers : /\ thread'[w].pending = thread[w].pending
                                /\ thread'[w].running = thread[w].running
                                /\ thread'[w].pc # "run" => thread[w].running = <<>>
                                /\ thread'[w].quit = thread[w].quit
                                /\ thread'[w].loop = thread[w].loop
      PROVE  RecordTypes' /\ StartInv' /\ QueueInv' /\ ConnInv'
  <2>1. RecordTypes'
    BY <1>0, <1>3, <1>8 DEF RecordTypes
  <2>2. QueueInv' /\ ConnInv'
    BY <1>0, <1>3, <1>8, ConnsKept
  <2>3. StartInv'
    <3>1. active' = <<>> /\ \A c \in Conns : conn'[c].state \in {"none", "waiting"}
      BY <1>2, <1>3
    <3>2. \A w \in Workers : ~thread'[w].quit /\ (InPool(w)' => thread'[w].loop)
      BY <1>2, <1>3, <1>8
    <3>3. \A s \in ToSet(active') : server'[s].callback
      BY <1>3, <1>5
    <3>4. \A s \in Servers : server'[s].reading =>
             server'[s].callback \/ (pc' = "callback" /\ s = starting')
      BY <1>8
    <3> QED
      BY <3>1, <3>2, <3>3, <3>4 DEF StartInv
  <2> QED
    BY <2>1, <2>2, <2>3
<1>9. UNCHANGED thread =>
        /\ thread' \in [Workers -> ThreadRecord]
        /\ \A w \in Workers : /\ thread'[w].pending = thread[w].pending
                              /\ thread'[w].running = thread[w].running
                              /\ thread'[w].pc # "run" => thread[w].running = <<>>
                              /\ thread'[w].quit = thread[w].quit
                              /\ thread'[w].loop = thread[w].loop
  BY <1>0, <1>7 DEF RecordTypes
<1>10. CASE Listen
  <2> DEFINE r == [server[starting] EXCEPT !.listening = TRUE]
  <2>1. server' = [server EXCEPT ![starting] = r] /\ pc' # "callback" /\ pc # "callback" /\ UNCHANGED <<starting, thread>>
    BY <1>10 DEF Listen
  <2>2. r \in ServerRecord /\ r.backlog = server[starting].backlog
        /\ r.callback = server[starting].callback /\ r.reading = server[starting].reading
    BY <1>4 DEF ServerRecord
  <2> HIDE DEF r
  <2>3. /\ server' \in [Servers -> ServerRecord]
        /\ server'[starting] = r
        /\ \A t \in Servers : t # starting => server'[t] = server[t]
    BY <1>0, <1>4, <2>1, <2>2, ServerChanges
  <2>4. \A s \in Servers : /\ server'[s].backlog = server[s].backlog
                           /\ server[s].callback => server'[s].callback
                           /\ server'[s].reading => server'[s].callback
    BY <1>6, <2>1, <2>2, <2>3
  <2> QED
    BY <1>8, <1>9, <2>1, <2>3, <2>4
<1>11. CASE EnableReading
  <2> DEFINE r == [server[starting] EXCEPT !.reading = TRUE,
                                           !.edge = server[starting].backlog # <<>>]
  <2>1. server' = [server EXCEPT ![starting] = r] /\ pc' = "callback" /\ pc # "callback" /\ UNCHANGED <<starting, thread>>
    BY <1>11 DEF EnableReading
  <2>2. r \in ServerRecord /\ r.backlog = server[starting].backlog
        /\ r.callback = server[starting].callback
    BY <1>4 DEF ServerRecord
  <2> HIDE DEF r
  <2>3. /\ server' \in [Servers -> ServerRecord]
        /\ server'[starting] = r
        /\ \A t \in Servers : t # starting => server'[t] = server[t]
    BY <1>0, <1>4, <2>1, <2>2, ServerChanges
  <2>4. \A s \in Servers : /\ server'[s].backlog = server[s].backlog
                           /\ server[s].callback => server'[s].callback
                           /\ server'[s].reading =>
                                 server'[s].callback \/ (pc' = "callback" /\ s = starting')
    BY <1>6, <2>1, <2>2, <2>3
  <2> QED
    BY <1>8, <1>9, <2>1, <2>3, <2>4
<1>12. CASE SetConnectionCallback
  <2> DEFINE r == [server[starting] EXCEPT !.callback = TRUE]
  <2>1. server' = [server EXCEPT ![starting] = r] /\ UNCHANGED <<starting, thread>>
    BY <1>12 DEF SetConnectionCallback
  <2>2. r \in ServerRecord /\ r.backlog = server[starting].backlog
        /\ r.callback = TRUE /\ r.reading = server[starting].reading
    BY <1>4 DEF ServerRecord
  <2> HIDE DEF r
  <2>3. /\ server' \in [Servers -> ServerRecord]
        /\ server'[starting] = r
        /\ \A t \in Servers : t # starting => server'[t] = server[t]
    BY <1>0, <1>4, <2>1, <2>2, ServerChanges
  <2>4. \A s \in Servers : /\ server'[s].backlog = server[s].backlog
                           /\ server[s].callback => server'[s].callback
                           /\ server'[s].reading => server'[s].callback
    BY <1>6, <2>1, <2>2, <2>3
  <2> QED
    BY <1>8, <1>9, <2>1, <2>3, <2>4
<1>13. CASE EnableSsl
  <2>1. pc # "callback" /\ UNCHANGED <<server, thread>>
    BY <1>13 DEF EnableSsl
  <2>2. server' \in [Servers -> ServerRecord]
    BY <1>0, <2>1 DEF RecordTypes
  <2>3. \A s \in Servers : /\ server'[s].backlog = server[s].backlog
                           /\ server[s].callback => server'[s].callback
                           /\ server'[s].reading => server'[s].callback
    BY <1>6, <2>1
  <2> QED
    BY <1>8, <1>9, <2>1, <2>2, <2>3
<1>14. CASE StartThread
  <2> DEFINE w == Started
  <2> DEFINE r == [thread[w] EXCEPT !.pc = "new"]
  <2>1. thread' = [thread EXCEPT ![w] = r] /\ pc # "callback" /\ UNCHANGED server /\ loops[starting] < threads
    BY <1>14 DEF StartThread
  <2>2. w \in Workers
    BY <1>0, <2>1, ConstantsAssumption DEF Started, Workers, PoolInv, ConstantsAssumption
  <2>3. thread[w].running = <<>>
    <3>1. thread[w].running \in Seq(Conns) /\ ToSet(thread[w].running) \subseteq Conns
      BY <1>0, <2>2, Fields, ToSetIs
    <3>2. \A c \in Conns : c \notin ToSet(thread[w].running)
      BY <1>0, <1>2, <2>2 DEF QueueInv, BacklogInv, LoopInv, Queued
    <3> QED
      BY <3>1, <3>2, ToSetIs
  <2>4. r \in ThreadRecord /\ r.pending = thread[w].pending /\ r.running = thread[w].running
        /\ r.quit = thread[w].quit /\ r.loop = thread[w].loop
    BY <1>4, <2>2 DEF ThreadRecord
  <2> HIDE DEF r, w
  <2>5. /\ thread' \in [Workers -> ThreadRecord]
        /\ thread'[w] = r
        /\ \A v \in Workers : v # w => thread'[v] = thread[v]
    BY <1>0, <2>1, <2>2, <2>4, ThreadSteps
  <2>6. server' \in [Servers -> ServerRecord]
        /\ \A s \in Servers : /\ server'[s].backlog = server[s].backlog
                              /\ server[s].callback => server'[s].callback
                              /\ server'[s].reading => server'[s].callback
    BY <1>0, <1>6, <2>1 DEF RecordTypes
  <2>7. \A v \in Workers : /\ thread'[v].pending = thread[v].pending
                           /\ thread'[v].running = thread[v].running
                           /\ thread'[v].pc # "run" => thread[v].running = <<>>
                           /\ thread'[v].quit = thread[v].quit
                           /\ thread'[v].loop = thread[v].loop
    BY <1>7, <2>3, <2>4, <2>5
  <2> QED
    BY <1>8, <2>5, <2>6, <2>7
<1> QED
  BY <1>10, <1>11, <1>12, <1>13, <1>14

\* startLoop has the loop it waited for, and the pool takes it in.
LEMMA StartLoopPlace ==
    ASSUME PlaceInv, StartLoop
    PROVE  RecordTypes' /\ StartInv' /\ QueueInv' /\ ConnInv'
<1>0. PoolInv /\ RecordTypes /\ StartInv /\ QueueInv /\ ConnInv
  BY DEF PlaceInv
<1>1. /\ pc = "startLoop" /\ pc' \in {"startLoop", "pool"}
      /\ UNCHANGED <<conn, active, server, thread>>
      /\ loops' = loops \/ (thread[Started].loop /\ loops' = [loops EXCEPT ![starting] = @ + 1])
  BY DEF StartLoop
<1>2. /\ active = <<>>
      /\ \A c \in Conns : conn[c].state \in {"none", "waiting"}
      /\ \A w \in Workers : ~thread[w].quit /\ (InPool(w) => thread[w].loop)
      /\ \A s \in Servers : server[s].reading => server[s].callback
  BY <1>0, <1>1 DEF StartInv, Unwinding
<1>3. \A w \in Workers : /\ InPool(w) => InPool(w)'
                         /\ InPool(w)' => InPool(w) \/ (thread[Started].loop /\ w = Started)
  <2> SUFFICES ASSUME NEW w \in Workers
               PROVE /\ InPool(w) => InPool(w)'
                     /\ InPool(w)' => InPool(w) \/ (thread[Started].loop /\ w = Started)
    OBVIOUS
  <2>1. w[1] \in Servers /\ w[2] \in 1..MaxThreads /\ w = <<w[1], w[2]>> /\ loops[w[1]] \in Nat
    BY <1>0, PoolOf
  <2>2. loops \in [Servers -> 0..MaxThreads] /\ starting \in Servers /\ loops[starting] \in 0..MaxThreads
    BY <1>0 DEF PoolInv
  <2>3. CASE loops' = loops
    BY <2>3 DEF InPool
  <2>4. CASE thread[Started].loop /\ loops' = [loops EXCEPT ![starting] = @ + 1]
    <3>1. loops'[w[1]] = IF w[1] = starting THEN loops[starting] + 1 ELSE loops[w[1]]
      BY <2>1, <2>2, <2>4
    <3>2. InPool(w) <=> w[2] <= loops[w[1]]
      BY DEF InPool
    <3>3. InPool(w)' <=> w[2] <= loops'[w[1]]
      BY DEF InPool
    <3>4. w[1] = starting /\ w[2] = loops[starting] + 1 => w = Started
      BY <2>1 DEF Started
    <3> QED
      BY <2>1, <2>2, <2>4, <3>1, <3>2, <3>3, <3>4, ConstantsAssumption DEF ConstantsAssumption
  <2> QED
    BY <1>1, <2>3, <2>4
<1>4. RecordTypes'
  BY <1>0, <1>1 DEF RecordTypes
<1>5. QueueInv' /\ ConnInv'
  <2>1. \A w \in Workers : thread[w].pc # "run" => thread[w].running = <<>>
    BY <1>0 DEF QueueInv, BacklogInv, LoopInv
  <2> QED
    BY <1>0, <1>1, <1>3, <2>1, ConnsKept
<1>6. StartInv'
  <2>1. active' = <<>> /\ ToSet(active') = {}
    BY <1>1, <1>2, EmptyQueue
  <2>2. \A w \in Workers : ~thread'[w].quit /\ (InPool(w)' => thread'[w].loop)
    BY <1>1, <1>2, <1>3
  <2> QED
    BY <1>1, <1>2, <2>1, <2>2 DEF StartInv
<1> QED
  BY <1>4, <1>5, <1>6

\* The stack unwinds: nothing was accepted, and the loops are on their own.
LEMMA UnwindSteps ==
    ASSUME PlaceInv, EnableSslThrows \/ Quit \/ Join \/ MainFails
    PROVE  RecordTypes' /\ StartInv' /\ QueueInv' /\ ConnInv'
<1>0. PoolInv /\ RecordTypes /\ StartInv /\ QueueInv /\ ConnInv
  BY DEF PlaceInv
<1>1. /\ pc # "loop" /\ pc # "callback"
      /\ pc' \in Unwinding
      /\ UNCHANGED <<pool, conn, active>>
  BY DEF EnableSslThrows, Quit, Join, MainFails, Unwinding
<1>2. active = <<>> /\ \A c \in Conns : conn[c].state \in {"none", "waiting"}
  BY <1>0, <1>1 DEF StartInv
<1>3. UNCHANGED <<loops, conn, active>> /\ \A w : InPool(w)' = InPool(w)
  BY <1>1 DEF pool, InPool
<1>4. \A w \in Workers : thread[w].pc # "run" => thread[w].running = <<>>
  BY <1>0 DEF QueueInv, BacklogInv, LoopInv
<1>5. StartInv'
  BY <1>1, <1>2, <1>3, EmptyQueue DEF StartInv, Unwinding
<1>6. ASSUME server' \in [Servers -> ServerRecord],
             \A s \in Servers : /\ server'[s].backlog = server[s].backlog
                                /\ server'[s].callback = server[s].callback,
             thread' \in [Workers -> ThreadRecord],
             \A w \in Workers : /\ thread'[w].pending = thread[w].pending
                                /\ thread'[w].running = thread[w].running
                                /\ thread'[w].pc = thread[w].pc
      PROVE  RecordTypes' /\ QueueInv' /\ ConnInv'
  <2>1. RecordTypes'
    BY <1>0, <1>3, <1>6 DEF RecordTypes
  <2>2. QueueInv' /\ ConnInv'
    BY <1>0, <1>3, <1>4, <1>6, ConnsKept
  <2> QED
    BY <2>1, <2>2
<1>7. /\ server \in [Servers -> ServerRecord] /\ server["http"] \in ServerRecord
      /\ thread \in [Workers -> ThreadRecord]
  BY <1>0, Fields DEF RecordTypes, Servers
<1>8. CASE EnableSslThrows
  <2> DEFINE r == [server["http"] EXCEPT !.reading = FALSE]
  <2>1. server' = [server EXCEPT !["http"] = r] /\ UNCHANGED thread
    BY <1>8 DEF EnableSslThrows
  <2>2. r \in ServerRecord /\ r.backlog = server["http"].backlog
        /\ r.callback = server["http"].callback
    BY <1>7 DEF ServerRecord
  <2> HIDE DEF r
  <2>3. /\ server' \in [Servers -> ServerRecord]
        /\ server'["http"] = r
        /\ \A t \in Servers : t # "http" => server'[t] = server[t]
    BY <1>0, <1>7, <2>1, <2>2, ServerChanges DEF Servers
  <2>4. \A s \in Servers : /\ server'[s].backlog = server[s].backlog
                           /\ server'[s].callback = server[s].callback
    BY <2>1, <2>2, <2>3
  <2> QED
    BY <1>5, <1>6, <1>7, <2>1, <2>3, <2>4
<1>9. CASE Quit
  <2> DEFINE w == <<"http", joined + 1>>
  <2> DEFINE r == [thread[w] EXCEPT !.quit = TRUE]
  <2>1. thread' = [thread EXCEPT ![w] = r] /\ UNCHANGED server
    BY <1>9 DEF Quit
  <2> HIDE DEF w
  <2>2. CASE w \in Workers
    <3>1. r \in ThreadRecord /\ r.pending = thread[w].pending
          /\ r.running = thread[w].running /\ r.pc = thread[w].pc
      <4>1. thread[w] \in ThreadRecord
        BY <1>0, <2>2, Fields
      <4> QED
        BY <4>1 DEF ThreadRecord
    <3> HIDE DEF r
    <3>2. /\ thread' \in [Workers -> ThreadRecord]
          /\ thread'[w] = r
          /\ \A v \in Workers : v # w => thread'[v] = thread[v]
      BY <1>0, <2>1, <2>2, <3>1, ThreadSteps
    <3> QED
      BY <1>5, <1>6, <1>7, <2>1, <3>1, <3>2
  <2>3. CASE w \notin Workers
    <3> HIDE DEF r
    <3>1. thread' = thread
      BY <1>7, <2>1, <2>3
    <3> QED
      BY <1>5, <1>6, <1>7, <2>1, <3>1
  <2> QED
    BY <2>2, <2>3
<1>10. CASE Join \/ MainFails
  <2>1. UNCHANGED <<server, thread>>
    BY <1>10 DEF Join, MainFails
  <2> QED
    BY <1>5, <1>6, <1>7, <2>1
<1> QED
  BY <1>8, <1>9, <1>10

-----------------------------------------------------------------------------
(* The base loop.                                                          *)

LEMMA SeqsOf ==
    ASSUME NEW T, NEW S, S \subseteq T, IsFiniteSet(S), NEW f \in SetToSeqs(S)
    PROVE  f \in Seq(T) /\ ToSet(f) \subseteq S
<1>1. Cardinality(S) \in Nat
  BY FS_CardinalityType
<1>2. f \in [1..Cardinality(S) -> S]
  BY DEF SetToSeqs
<1>3. f \in Seq(S) /\ f \in Seq(T)
  BY <1>1, <1>2
<1> QED
  BY <1>3, ToSetIs

\* What main's loop may rely on.
LEMMA LoopFacts ==
    ASSUME PlaceInv, pc = "loop"
    PROVE  /\ \A s \in Servers : server[s].reading => server[s].callback
           /\ \A s \in ToSet(active) : server[s].callback
           /\ \A w \in Workers : ~thread[w].quit /\ (InPool(w) => thread[w].loop)
           /\ \A w \in Workers : thread[w].pc # "run" => thread[w].running = <<>>
  BY DEF PlaceInv, StartInv, Unwinding, QueueInv, LoopInv

\* Steps of the base loop that accept nothing.
LEMMA RoundSteps ==
    ASSUME PlaceInv,
           Poll \/ HandleEventDropped \/ \E s \in Servers : BacklogEmpty(s) \/ AcceptFails(s)
    PROVE  RecordTypes' /\ StartInv' /\ QueueInv' /\ ConnInv'
<1>0. PoolInv /\ RecordTypes /\ StartInv /\ QueueInv /\ ConnInv
  BY DEF PlaceInv
<1>1. /\ pc = "loop" /\ pc' = "loop"
      /\ UNCHANGED <<pool, conn, thread>>
  BY DEF Poll, HandleEventDropped, BacklogEmpty, AcceptFails, Accepting
<1>2. UNCHANGED <<loops, conn, thread>> /\ \A w : InPool(w)' = InPool(w)
  BY <1>1 DEF pool, InPool
<1>3. ASSUME server' \in [Servers -> ServerRecord],
             \A s \in Servers : /\ server'[s].backlog = server[s].backlog
                                /\ server'[s].callback = server[s].callback
                                /\ server'[s].reading = server[s].reading,
             active' \in Seq(Servers),
             \A s \in ToSet(active') : server[s].callback
      PROVE  RecordTypes' /\ StartInv' /\ QueueInv' /\ ConnInv'
  <2>1. RecordTypes'
    BY <1>0, <1>2, <1>3 DEF RecordTypes
  <2>2. QueueInv' /\ ConnInv'
    BY <1>0, <1>1, <1>2, <1>3, ConnsKept, LoopFacts
  <2>3. ToSet(active') \subseteq Servers
    BY <1>3, ToSetIs
  <2>4. StartInv'
    BY <1>1, <1>2, <1>3, <2>3, LoopFacts DEF StartInv
  <2> QED
    BY <2>1, <2>2, <2>4
<1>4. CASE Poll
  <2> DEFINE ready == {s \in Servers : server[s].reading /\ server[s].edge}
  <2>1. /\ active' \in SetToSeqs(ready)
        /\ server' = [s \in Servers |-> [server[s] EXCEPT !.edge = @ /\ s \notin ready]]
    BY <1>4 DEF Poll
  <2>2. \A s \in ready : s \in Servers /\ server[s].callback
    BY <1>1, LoopFacts
  <2>3. IsFiniteSet(ready)
    <3>1. IsFiniteSet(Servers)
      <4>1. IsFiniteSet({} \cup {"http"})
        BY FS_EmptySet, FS_AddElement, Zenon
      <4>2. IsFiniteSet(({} \cup {"http"}) \cup {"https"})
        BY <4>1, FS_AddElement, Zenon
      <4>3. ({} \cup {"http"}) \cup {"https"} = Servers
        BY DEF Servers
      <4> QED
        BY <4>2, <4>3, Zenon
    <3> QED
      BY <3>1, FS_Subset
  <2> HIDE DEF ready
  <2>4. ready \subseteq Servers
    BY <2>2
  <2>5. active' \in Seq(Servers) /\ ToSet(active') \subseteq ready
    BY <2>1, <2>3, <2>4, SeqsOf
  <2>6. \A s \in Servers : /\ server'[s] \in ServerRecord
                           /\ server'[s].backlog = server[s].backlog
                           /\ server'[s].callback = server[s].callback
                           /\ server'[s].reading = server[s].reading
    <3> SUFFICES ASSUME NEW s \in Servers
                 PROVE /\ server'[s] \in ServerRecord
                       /\ server'[s].backlog = server[s].backlog
                       /\ server'[s].callback = server[s].callback
                       /\ server'[s].reading = server[s].reading
      OBVIOUS
    <3>1. server[s] \in ServerRecord
      BY <1>0, Fields
    <3>2. PICK b \in BOOLEAN : server'[s] = [server[s] EXCEPT !.edge = b]
      <4>1. server'[s] = [server[s] EXCEPT !.edge = server[s].edge /\ s \notin ready]
        BY <2>1
      <4>2. (server[s].edge /\ s \notin ready) \in BOOLEAN
        OBVIOUS
      <4> QED
        BY <4>1, <4>2
    <3> QED
      BY <3>1, <3>2 DEF ServerRecord
  <2>7. server' \in [Servers -> ServerRecord]
    BY <2>1, <2>6
  <2> QED
    BY <1>3, <2>2, <2>5, <2>6, <2>7
<1>5. active # <<>> => /\ Head(active) \in Servers /\ Tail(active) \in Seq(Servers)
                       /\ ToSet(Tail(active)) \subseteq ToSet(active)
  BY <1>0, QueueTaken DEF RecordTypes
<1>6. CASE HandleEventDropped
  <2>1. active # <<>> /\ active' = Tail(active) /\ UNCHANGED server
    BY <1>6 DEF HandleEventDropped
  <2>2. active' \in Seq(Servers) /\ \A s \in ToSet(active') : server[s].callback
    BY <1>1, <1>5, <2>1, LoopFacts
  <2>3. server' \in [Servers -> ServerRecord]
    BY <1>0, <2>1 DEF RecordTypes
  <2> QED
    BY <1>3, <2>1, <2>2, <2>3
<1>7. ASSUME NEW s \in Servers, BacklogEmpty(s) \/ AcceptFails(s)
      PROVE  RecordTypes' /\ StartInv' /\ QueueInv' /\ ConnInv'
  <2>1. PICK b \in BOOLEAN : server' = [server EXCEPT ![s] = [server[s] EXCEPT !.gaveUp = b]]
    BY <1>7 DEF BacklogEmpty, AcceptFails
  <2>2. active # <<>> /\ active' = Tail(active)
    BY <1>7 DEF BacklogEmpty, AcceptFails, Accepting
  <2>3. active' \in Seq(Servers) /\ \A t \in ToSet(active') : server[t].callback
    BY <1>1, <1>5, <2>2, LoopFacts
  <2> DEFINE r == [server[s] EXCEPT !.gaveUp = b]
  <2>4. r \in ServerRecord /\ r.backlog = server[s].backlog
        /\ r.callback = server[s].callback /\ r.reading = server[s].reading
    <3>1. server[s] \in ServerRecord
      BY <1>0, Fields
    <3> QED
      BY <3>1 DEF ServerRecord
  <2>5. server' = [server EXCEPT ![s] = r]
    BY <2>1
  <2> HIDE DEF r
  <2>6. /\ server' \in [Servers -> ServerRecord]
        /\ server'[s] = r
        /\ \A t \in Servers : t # s => server'[t] = server[t]
    BY <1>0, <2>4, <2>5, ServerChanges
  <2>7. \A t \in Servers : /\ server'[t].backlog = server[t].backlog
                           /\ server'[t].callback = server[t].callback
                           /\ server'[t].reading = server[t].reading
    BY <2>4, <2>6
  <2> QED
    BY <1>3, <2>3, <2>6, <2>7
<1> QED
  BY <1>4, <1>6, <1>7

\* accept takes the first connection of a backlog.
LEMMA Accepts ==
    ASSUME PlaceInv, NEW s \in Servers, Accepting(s), server[s].backlog # <<>>,
           server' = Accepted(s)
    PROVE  LET c == Head(server[s].backlog) IN
           /\ c \in Conns /\ conn[c].state = "waiting" /\ conn[c].server = s
           /\ server[s].callback
           /\ server' \in [Servers -> ServerRecord]
           /\ \A t \in Servers : server'[t].callback = server[t].callback
                                /\ server'[t].reading = server[t].reading
           /\ \A t \in Servers :
                 /\ Once(server'[t].backlog)
                 /\ \A d \in Conns : d \in ToSet(server'[t].backlog) <=> Waits(d, t) /\ d # c
<1>0. RecordTypes /\ QueueInv /\ pc = "loop"
  BY DEF PlaceInv, Accepting
<1> DEFINE c == Head(server[s].backlog)
<1> DEFINE q == Tail(server[s].backlog)
<1> DEFINE r == [server[s] EXCEPT !.backlog = q]
<1>1. server[s] \in ServerRecord /\ server[s].backlog \in Seq(Conns)
  BY <1>0, Fields
<1>2. BacklogInv(s) /\ Once(server[s].backlog)
  BY <1>0 DEF QueueInv, BacklogInv
<1>3. /\ c \in ToSet(server[s].backlog) /\ c \in Conns /\ q \in Seq(Conns)
      /\ Once(q) /\ ToSet(q) = ToSet(server[s].backlog) \ {c}
  BY <1>1, <1>2, QueueTaken
<1>4. server' = [server EXCEPT ![s] = r]
  BY DEF Accepted
<1> HIDE DEF q, c
<1>5. r \in ServerRecord /\ r.backlog = q /\ r.callback = server[s].callback
      /\ r.reading = server[s].reading
  BY <1>1, <1>3 DEF ServerRecord
<1> HIDE DEF r
<1>6. /\ server' \in [Servers -> ServerRecord]
      /\ server'[s] = r
      /\ \A t \in Servers : t # s => server'[t] = server[t]
  BY <1>0, <1>4, <1>5, ServerChanges
<1>7. conn[c].state = "waiting" /\ conn[c].server = s
  BY <1>2, <1>3 DEF BacklogInv, Waits
<1>8. server[s].callback
  <2>1. s \in ToSet(active)
    BY <1>0, QueueTaken DEF Accepting, RecordTypes
  <2> QED
    BY <1>0, <2>1, LoopFacts
<1>9. ASSUME NEW t \in Servers
      PROVE  /\ Once(server'[t].backlog)
             /\ \A d \in Conns : d \in ToSet(server'[t].backlog) <=> Waits(d, t) /\ d # c
  <2>1. BacklogInv(t)
    BY <1>0 DEF QueueInv
  <2>2. CASE t = s
    BY <1>2, <1>3, <1>5, <1>6, <2>2 DEF BacklogInv
  <2>3. CASE t # s
    <3>1. ~Waits(c, t)
      BY <1>7, <2>3 DEF Waits
    <3> QED
      BY <1>6, <2>1, <2>3, <3>1 DEF BacklogInv
  <2> QED
    BY <2>2, <2>3
<1>10. \A t \in Servers : server'[t].callback = server[t].callback
                         /\ server'[t].reading = server[t].reading
  BY <1>5, <1>6
<1> QED
  BY <1>3, <1>6, <1>7, <1>8, <1>9, <1>10 DEF c

\* A connection that waits is in no loop's queue.
LEMMA NotQueued ==
    ASSUME QueueInv, NEW c \in Conns, conn[c].state # "queued", NEW w \in Workers
    PROVE  c \notin ToSet(thread[w].pending) /\ c \notin ToSet(thread[w].running)
  BY DEF QueueInv, LoopInv, Queued

\* The loops' queues are left alone, by a connection that was and is in none.
LEMMA LoopsKept ==
    ASSUME QueueInv, UNCHANGED thread, NEW c \in Conns,
           conn[c].state # "queued", conn'[c].state # "queued",
           \A d \in Conns : d # c => conn'[d] = conn[d]
    PROVE  \A w \in Workers : LoopInv(w)'
  BY DEF QueueInv, LoopInv, Queued

\* The SSL object cannot be made, or the connection is established in the base loop.
LEMMA LeavesServer ==
    ASSUME PlaceInv, NEW s \in Servers, Accepting(s), server[s].backlog # <<>>,
           server' = Accepted(s), UNCHANGED <<main, loops, thread>>,
           NEW r \in ConnRecord, r.state \in {"established", "closed"},
           r.state = "established" /\ server[s].callback => r.timer,
           conn' = [conn EXCEPT ![Head(server[s].backlog)] = r]
    PROVE  RecordTypes' /\ StartInv' /\ QueueInv' /\ ConnInv'
<1>0. PoolInv /\ RecordTypes /\ StartInv /\ QueueInv /\ ConnInv /\ pc = "loop"
  BY DEF PlaceInv, Accepting
<1> DEFINE c == Head(server[s].backlog)
<1>1. /\ c \in Conns /\ conn[c].state = "waiting" /\ conn[c].server = s
      /\ server[s].callback
      /\ server' \in [Servers -> ServerRecord]
      /\ \A t \in Servers : server'[t].callback = server[t].callback
                           /\ server'[t].reading = server[t].reading
  BY Accepts
<1>2. \A t \in Servers :
         /\ Once(server'[t].backlog)
         /\ \A d \in Conns : d \in ToSet(server'[t].backlog) <=> Waits(d, t) /\ d # c
  BY Accepts
<1>3. conn' = [conn EXCEPT ![c] = r]
  OBVIOUS
<1> HIDE DEF c
<1>4. conn' \in [Conns -> ConnRecord] /\ conn'[c] = r /\ \A d \in Conns : d # c => conn'[d] = conn[d]
  BY <1>0, <1>1, <1>3, ConnMoves
<1>5. UNCHANGED <<pc, starting, active, loops, thread>> /\ \A w : InPool(w)' = InPool(w)
  BY DEF main, InPool
<1>6. RecordTypes'
  BY <1>0, <1>1, <1>4, <1>5 DEF RecordTypes
<1>7. StartInv'
  <2>1. ToSet(active) \subseteq Servers
    BY <1>0, ToSetIs DEF RecordTypes
  <2> QED
    BY <1>0, <1>1, <1>5, <2>1 DEF StartInv
<1>8. QueueInv'
  <2>1. \A t \in Servers : \A d \in Conns : Waits(d, t)' <=> Waits(d, t) /\ d # c
    BY <1>1, <1>4 DEF Waits
  <2>2. \A t \in Servers : BacklogInv(t)'
    BY <1>2, <2>1 DEF BacklogInv
  <2>3. \A w \in Workers : LoopInv(w)'
    BY <1>0, <1>1, <1>4, <1>5, LoopsKept
  <2> QED
    BY <2>2, <2>3 DEF QueueInv
<1>9. ConnInv'
  <2>1. \A d \in Conns : conn[d].server \in Servers
    BY <1>0, Fields
  <2>2. conn'[c].state # "queued" /\ (conn'[c].state = "established" => conn'[c].timer)
    BY <1>1, <1>4
  <2> QED
    BY <1>0, <1>1, <1>4, <1>5, <2>1, <2>2 DEF ConnInv
<1> QED
  BY <1>6, <1>7, <1>8, <1>9

\* The connection is queued for a loop of the pool.
LEMMA QueuedInPool ==
    ASSUME PlaceInv, NEW s \in Servers, Accepting(s), server[s].backlog # <<>>,
           server' = Accepted(s), UNCHANGED <<main, loops>>, loops[s] # 0,
           conn' = [conn EXCEPT ![Head(server[s].backlog)] =
                       [conn[Head(server[s].backlog)] EXCEPT !.state = "queued",
                                                             !.loop = <<s, next[s] + 1>>]],
           thread' = [thread EXCEPT ![<<s, next[s] + 1>>] =
                         [thread[<<s, next[s] + 1>>] EXCEPT
                             !.pending = Append(@, Head(server[s].backlog)), !.wake = TRUE]]
    PROVE  RecordTypes' /\ StartInv' /\ QueueInv' /\ ConnInv'
<1>0. PoolInv /\ RecordTypes /\ StartInv /\ QueueInv /\ ConnInv /\ pc = "loop"
  BY DEF PlaceInv, Accepting
<1> DEFINE c == Head(server[s].backlog)
<1> DEFINE w == <<s, next[s] + 1>>
<1>1. /\ c \in Conns /\ conn[c].state = "waiting" /\ conn[c].server = s
      /\ server[s].callback
      /\ server' \in [Servers -> ServerRecord]
      /\ \A t \in Servers : server'[t].callback = server[t].callback
                           /\ server'[t].reading = server[t].reading
  BY Accepts
<1>2. \A t \in Servers :
         /\ Once(server'[t].backlog)
         /\ \A d \in Conns : d \in ToSet(server'[t].backlog) <=> Waits(d, t) /\ d # c
  BY Accepts
<1>3. w \in Workers /\ InPool(w) /\ w[1] = s
  <2>1. loops[s] \in 0..MaxThreads /\ next[s] \in Nat /\ next[s] + 1 <= loops[s]
    BY <1>0, ConstantsAssumption DEF PoolInv, ConstantsAssumption
  <2> QED
    BY <2>1, ConstantsAssumption DEF Workers, InPool, ConstantsAssumption
<1> DEFINE q == [conn[c] EXCEPT !.state = "queued", !.loop = w]
<1> DEFINE r == [thread[w] EXCEPT !.pending = Append(@, c), !.wake = TRUE]
<1>4. conn' = [conn EXCEPT ![c] = q]
  OBVIOUS
<1>4a. thread' = [thread EXCEPT ![w] = r]
  OBVIOUS
<1> HIDE DEF c, w
<1>5. /\ thread[w] \in ThreadRecord /\ thread[w].pending \in Seq(Conns)
      /\ thread[w].running \in Seq(Conns) /\ conn[c] \in ConnRecord
  BY <1>0, <1>1, <1>3, Fields
<1>6. /\ q \in ConnRecord /\ q.state = "queued" /\ q.loop = w /\ q.server = s
  BY <1>1, <1>3, <1>5 DEF ConnRecord
<1>7. /\ c \notin ToSet(thread[w].pending) /\ c \notin ToSet(thread[w].running)
  BY <1>0, <1>1, <1>3, NotQueued
<1>8. /\ \A v \in Workers : LoopInv(v)
  BY <1>0 DEF QueueInv
<1>9. /\ Append(thread[w].pending, c) \in Seq(Conns)
      /\ ToSet(Append(thread[w].pending, c)) = ToSet(thread[w].pending) \cup {c}
      /\ Once(Append(thread[w].pending, c))
  <2>1. Once(thread[w].pending)
    BY <1>3, <1>8 DEF LoopInv
  <2> QED
    BY <1>1, <1>5, <1>7, <2>1, QueueGrows
<1>10. /\ r \in ThreadRecord /\ r.pending = Append(thread[w].pending, c)
       /\ r.running = thread[w].running /\ r.pc = thread[w].pc
       /\ r.quit = thread[w].quit /\ r.loop = thread[w].loop
  BY <1>5, <1>9 DEF ThreadRecord
<1> HIDE DEF q, r
<1>11. conn' \in [Conns -> ConnRecord] /\ conn'[c] = q /\ \A d \in Conns : d # c => conn'[d] = conn[d]
  BY <1>0, <1>1, <1>4, <1>6, ConnMoves
<1>12. /\ thread' \in [Workers -> ThreadRecord]
       /\ thread'[w] = r
       /\ \A v \in Workers : v # w => thread'[v] = thread[v]
  BY <1>0, <1>3, <1>4a, <1>10, ThreadSteps
<1>13. UNCHANGED <<pc, starting, active, loops>> /\ \A v : InPool(v)' = InPool(v)
  BY DEF main, InPool
<1>14. RecordTypes'
  BY <1>0, <1>1, <1>11, <1>12, <1>13 DEF RecordTypes
<1>15. StartInv'
  <2>1. ToSet(active) \subseteq Servers
    BY <1>0, ToSetIs DEF RecordTypes
  <2>2. \A v \in Workers : thread'[v].quit = thread[v].quit /\ thread'[v].loop = thread[v].loop
    BY <1>10, <1>12
  <2> QED
    BY <1>0, <1>1, <1>13, <2>1, <2>2 DEF StartInv
<1>16. QueueInv'
  <2>1. \A t \in Servers : \A d \in Conns : Waits(d, t)' <=> Waits(d, t) /\ d # c
    BY <1>1, <1>6, <1>11 DEF Waits
  <2>2. \A t \in Servers : BacklogInv(t)'
    BY <1>2, <2>1 DEF BacklogInv
  <2>3. \A v \in Workers : \A d \in Conns : Queued(d, v)' <=> Queued(d, v) \/ (d = c /\ v = w)
    BY <1>1, <1>6, <1>11 DEF Queued
  <2>4. ASSUME NEW v \in Workers PROVE LoopInv(v)'
    <3>1. CASE v = w
      <4>1. /\ thread'[v].pending = Append(thread[w].pending, c)
            /\ thread'[v].running = thread[w].running /\ thread'[v].pc = thread[w].pc
        BY <1>10, <1>12, <3>1
      <4>2. LoopInv(w)
        BY <1>3, <1>8
      <4> QED
        BY <1>3, <1>7, <1>9, <2>3, <3>1, <4>1, <4>2 DEF LoopInv
    <3>2. CASE v # w
      BY <1>8, <1>12, <2>3, <3>2 DEF LoopInv
    <3> QED
      BY <3>1, <3>2
  <2> QED
    BY <2>2, <2>4 DEF QueueInv
<1>17. ConnInv'
  <2>1. \A d \in Conns : conn[d].server \in Servers
    BY <1>0, Fields
  <2>2. /\ conn'[c].state = "queued" /\ conn'[c].loop = w /\ conn'[c].server = s
    BY <1>6, <1>11
  <2>3. /\ \A v : InPool(v)' = InPool(v)
        /\ \A t \in Servers : server'[t].callback = server[t].callback
    BY <1>1, <1>13
  <2> SUFFICES ASSUME NEW d \in Conns
               PROVE /\ conn'[d].state = "queued" =>
                          /\ conn'[d].loop \in Workers /\ conn'[d].loop[1] = conn'[d].server
                          /\ InPool(conn'[d].loop)
                          /\ server'[conn'[d].server].callback
                     /\ conn'[d].state = "established" => conn'[d].timer
    BY <2>3 DEF ConnInv
  <2>4. CASE d = c
    BY <1>1, <1>3, <2>2, <2>3, <2>4
  <2>5. CASE d # c
    <3>1. conn'[d] = conn[d]
      BY <1>11, <2>5
    <3> QED
      BY <1>0, <2>1, <2>3, <3>1 DEF ConnInv
  <2> QED
    BY <2>4, <2>5
<1> QED
  BY <1>14, <1>15, <1>16, <1>17

LEMMA AcceptSteps ==
    ASSUME PlaceInv, NEW s \in Servers, AcceptConnection(s) \/ SslFails(s)
    PROVE  RecordTypes' /\ StartInv' /\ QueueInv' /\ ConnInv'
<1> DEFINE c == Head(server[s].backlog)
<1>1. /\ Accepting(s) /\ server[s].backlog # <<>>
      /\ server' = Accepted(s) /\ UNCHANGED <<main, loops>>
  BY DEF AcceptConnection, SslFails
<1>2. c \in Conns /\ conn[c] \in ConnRecord /\ server[s].callback \in BOOLEAN
  <2>1. c \in Conns
    BY <1>1, Accepts
  <2>2. RecordTypes
    BY DEF PlaceInv
  <2>3. server[s] \in ServerRecord
    BY <2>2, Fields
  <2> QED
    BY <2>1, <2>2, <2>3, Fields DEF ServerRecord
<1>3. CASE SslFails(s)
  <2> DEFINE r == [conn[c] EXCEPT !.state = "closed"]
  <2>1. conn' = [conn EXCEPT ![c] = r] /\ UNCHANGED thread
    BY <1>3 DEF SslFails
  <2>2. r \in ConnRecord /\ r.state = "closed"
    BY <1>2 DEF ConnRecord
  <2> HIDE DEF r
  <2> QED
    BY <1>1, <2>1, <2>2, LeavesServer
<1>4. CASE AcceptConnection(s) /\ NextLoop(s) = Base
  <2> DEFINE r == [conn[c] EXCEPT !.state = "established", !.timer = server[s].callback]
  <2>1. conn' = [conn EXCEPT ![c] = r] /\ UNCHANGED thread
    BY <1>4 DEF AcceptConnection
  <2>2. r \in ConnRecord /\ r.state = "established" /\ r.timer = server[s].callback
    BY <1>2 DEF ConnRecord
  <2> HIDE DEF r
  <2> QED
    BY <1>1, <2>1, <2>2, LeavesServer
<1>5. CASE AcceptConnection(s) /\ NextLoop(s) # Base
  <2>1. NextLoop(s) = <<s, next[s] + 1>> /\ loops[s] # 0
    BY <1>5 DEF NextLoop
  <2> DEFINE w == <<s, next[s] + 1>>
  <2>2. /\ conn' = [conn EXCEPT ![c] = [conn[c] EXCEPT !.state = "queued", !.loop = w]]
        /\ thread' = [thread EXCEPT ![w] = [thread[w] EXCEPT !.pending = Append(@, c), !.wake = TRUE]]
    BY <1>5, <2>1 DEF AcceptConnection, QueueInLoop
  <2> QED
    BY <1>1, <2>1, <2>2, QueuedInPool
<1> QED
  BY <1>3, <1>4, <1>5

-----------------------------------------------------------------------------
(* The I/O threads and the peers.                                          *)

\* Steps of a thread that leave its queues alone.
LEMMA ThreadTurns ==
    ASSUME PlaceInv, NEW w \in Workers,
           Publish(w) \/ EnterLoop(w) \/ WorkerPoll(w) \/ RoundEnds(w)
    PROVE  RecordTypes' /\ StartInv' /\ QueueInv' /\ ConnInv'
<1>0. PoolInv /\ RecordTypes /\ StartInv /\ QueueInv /\ ConnInv
  BY DEF PlaceInv
<1>1. /\ UNCHANGED <<pc, starting, active, loops, server, conn>>
      /\ \A v : InPool(v)' = InPool(v)
  BY DEF Publish, EnterLoop, WorkerPoll, RoundEnds, OnlyThread, main, pool, InPool
<1>2. thread[w] \in ThreadRecord /\ server \in [Servers -> ServerRecord]
      /\ \A v \in Workers : thread[v].pc # "run" => thread[v].running = <<>>
  BY <1>0, Fields DEF RecordTypes, QueueInv, LoopInv
<1>3. ASSUME NEW r \in ThreadRecord, thread' = [thread EXCEPT ![w] = r],
             r.pending = thread[w].pending, r.running = thread[w].running,
             r.pc # "run" => thread[w].running = <<>>,
             pc \notin Unwinding /\ ~thread[w].quit => ~r.quit /\ (thread[w].loop => r.loop)
      PROVE  RecordTypes' /\ StartInv' /\ QueueInv' /\ ConnInv'
  <2>1. /\ thread' \in [Workers -> ThreadRecord]
        /\ thread'[w] = r
        /\ \A v \in Workers : v # w => thread'[v] = thread[v]
    BY <1>0, <1>3, ThreadSteps
  <2>2. RecordTypes'
    BY <1>0, <1>1, <2>1 DEF RecordTypes
  <2>3. \A v \in Workers : /\ thread'[v].pending = thread[v].pending
                           /\ thread'[v].running = thread[v].running
                           /\ thread'[v].pc # "run" => thread[v].running = <<>>
    BY <1>2, <1>3, <2>1
  <2>4. QueueInv' /\ ConnInv'
    BY <1>0, <1>1, <2>3, ConnsKept
  <2>5. pc \notin Unwinding => \A v \in Workers : ~thread'[v].quit /\ (InPool(v) => thread'[v].loop)
    BY <1>0, <1>3, <2>1 DEF StartInv
  <2>6. StartInv'
    BY <1>0, <1>1, <2>5 DEF StartInv
  <2> QED
    BY <2>2, <2>4, <2>6
<1>4. CASE Publish(w)
  <2> DEFINE r == [thread[w] EXCEPT !.pc = "enter", !.loop = TRUE]
  <2>1. thread' = [thread EXCEPT ![w] = r] /\ thread[w].pc = "new"
    BY <1>4 DEF Publish, Runs
  <2>2. /\ r \in ThreadRecord /\ r.pending = thread[w].pending /\ r.running = thread[w].running
        /\ r.quit = thread[w].quit /\ r.loop = TRUE
    BY <1>2 DEF ThreadRecord
  <2> HIDE DEF r
  <2> QED
    BY <1>2, <1>3, <2>1, <2>2
<1>5. CASE EnterLoop(w)
  <2> DEFINE r == [thread[w] EXCEPT !.pc = "run", !.quit = FALSE]
  <2>1. thread' = [thread EXCEPT ![w] = r] /\ thread[w].pc = "enter"
    BY <1>5 DEF EnterLoop, Runs
  <2>2. /\ r \in ThreadRecord /\ r.pending = thread[w].pending /\ r.running = thread[w].running
        /\ r.quit = FALSE /\ r.loop = thread[w].loop
    BY <1>2 DEF ThreadRecord
  <2> HIDE DEF r
  <2> QED
    BY <1>2, <1>3, <2>1, <2>2
<1>6. CASE WorkerPoll(w)
  <2> DEFINE r == [thread[w] EXCEPT !.pc = "functors", !.wake = FALSE]
  <2>1. thread' = [thread EXCEPT ![w] = r] /\ thread[w].pc = "poll"
    BY <1>6 DEF WorkerPoll, Runs
  <2>2. /\ r \in ThreadRecord /\ r.pending = thread[w].pending /\ r.running = thread[w].running
        /\ r.quit = thread[w].quit /\ r.loop = thread[w].loop
    BY <1>2 DEF ThreadRecord
  <2> HIDE DEF r
  <2> QED
    BY <1>2, <1>3, <2>1, <2>2
<1>7. CASE RoundEnds(w) /\ thread[w].quit
  <2> DEFINE r == [thread[w] EXCEPT !.pc = "exited", !.loop = FALSE]
  <2>1. thread' = [thread EXCEPT ![w] = r] /\ thread[w].running = <<>>
    BY <1>7 DEF RoundEnds
  <2>2. /\ r \in ThreadRecord /\ r.pending = thread[w].pending /\ r.running = thread[w].running
    BY <1>2 DEF ThreadRecord
  <2> HIDE DEF r
  <2> QED
    BY <1>3, <1>7, <2>1, <2>2
<1>8. CASE RoundEnds(w) /\ ~thread[w].quit
  <2> DEFINE r == [thread[w] EXCEPT !.pc = "poll"]
  <2>1. thread' = [thread EXCEPT ![w] = r] /\ thread[w].running = <<>>
    BY <1>8 DEF RoundEnds
  <2>2. /\ r \in ThreadRecord /\ r.pending = thread[w].pending /\ r.running = thread[w].running
        /\ r.quit = thread[w].quit /\ r.loop = thread[w].loop
    BY <1>2 DEF ThreadRecord
  <2> HIDE DEF r
  <2> QED
    BY <1>3, <2>1, <2>2
<1> QED
  BY <1>4, <1>5, <1>6, <1>7, <1>8

\* The queue is taken as a whole.
LEMMA QueueTakenOver ==
    ASSUME PlaceInv, NEW w \in Workers, TakePending(w)
    PROVE  RecordTypes' /\ StartInv' /\ QueueInv' /\ ConnInv'
<1>0. PoolInv /\ RecordTypes /\ StartInv /\ QueueInv /\ ConnInv
  BY DEF PlaceInv
<1>1. /\ UNCHANGED <<pc, starting, active, loops, server, conn>>
      /\ \A v : InPool(v)' = InPool(v)
  BY DEF TakePending, OnlyThread, main, pool, InPool
<1>2. /\ thread[w] \in ThreadRecord /\ thread[w].pending \in Seq(Conns)
      /\ server \in [Servers -> ServerRecord]
  BY <1>0, Fields DEF RecordTypes
<1> DEFINE q == thread[w].pending
<1> DEFINE r == [thread[w] EXCEPT !.pc = "run", !.running = q, !.pending = <<>>]
<1>3. thread' = [thread EXCEPT ![w] = r] /\ thread[w].pc = "functors"
  BY DEF TakePending, Runs
<1> HIDE DEF q
<1>4. /\ r \in ThreadRecord /\ r.pc = "run" /\ r.running = q /\ r.pending = <<>>
      /\ r.quit = thread[w].quit /\ r.loop = thread[w].loop
  <2>1. q \in Seq(Conns) /\ <<>> \in Seq(Conns)
    BY <1>2 DEF q
  <2> QED
    BY <1>2, <2>1 DEF ThreadRecord
<1> HIDE DEF r
<1>5. /\ thread' \in [Workers -> ThreadRecord]
      /\ thread'[w] = r
      /\ \A v \in Workers : v # w => thread'[v] = thread[v]
  BY <1>0, <1>3, <1>4, ThreadSteps
<1>6. RecordTypes'
  BY <1>0, <1>1, <1>5 DEF RecordTypes
<1>7. StartInv'
  <2>1. \A v \in Workers : thread'[v].quit = thread[v].quit /\ thread'[v].loop = thread[v].loop
    BY <1>4, <1>5
  <2> QED
    BY <1>0, <1>1, <2>1 DEF StartInv
<1>8. QueueInv'
  <2>1. \A v \in Workers, d \in Conns : Queued(d, v)' <=> Queued(d, v)
    BY <1>1 DEF Queued
  <2>2. \A s \in Servers : BacklogInv(s)'
    BY <1>0, <1>1 DEF QueueInv, BacklogInv, Waits
  <2>3. LoopInv(w) /\ thread[w].running = <<>>
    BY <1>0, <1>3 DEF QueueInv, LoopInv
  <2>4. LoopInv(w)'
    BY <1>4, <1>5, <2>1, <2>3, EmptyQueue DEF LoopInv, q
  <2>5. \A v \in Workers : v # w => LoopInv(v)'
    BY <1>0, <1>5, <2>1 DEF QueueInv, LoopInv
  <2> QED
    BY <2>2, <2>4, <2>5 DEF QueueInv
<1>9. ConnInv'
  BY <1>0, <1>1 DEF ConnInv
<1> QED
  BY <1>6, <1>7, <1>8, <1>9

\* The first functor of the round establishes its connection.
LEMMA Establishes ==
    ASSUME PlaceInv, NEW w \in Workers, Establish(w)
    PROVE  RecordTypes' /\ StartInv' /\ QueueInv' /\ ConnInv'
<1>0. PoolInv /\ RecordTypes /\ StartInv /\ QueueInv /\ ConnInv
  BY DEF PlaceInv
<1>1. /\ UNCHANGED <<pc, starting, active, loops, server>>
      /\ \A v : InPool(v)' = InPool(v)
  BY DEF Establish, main, pool, InPool
<1> DEFINE c == Head(thread[w].running)
<1> DEFINE q == Tail(thread[w].running)
<1>2. /\ thread[w] \in ThreadRecord /\ thread[w].running \in Seq(Conns)
      /\ thread[w].running # <<>> /\ thread[w].pc = "run"
      /\ server \in [Servers -> ServerRecord]
  BY <1>0, Fields DEF RecordTypes, Establish, Runs
<1>3. LoopInv(w)
  BY <1>0 DEF QueueInv
<1>4. /\ c \in Conns /\ c \in ToSet(thread[w].running) /\ q \in Seq(Conns)
      /\ Once(q) /\ ToSet(q) = ToSet(thread[w].running) \ {c}
  BY <1>2, <1>3, QueueTaken DEF LoopInv
<1> DEFINE r == [thread[w] EXCEPT !.running = q]
<1> DEFINE e == [conn[c] EXCEPT !.state = "established", !.timer = server[conn[c].server].callback]
<1>5. thread' = [thread EXCEPT ![w] = r]
  BY DEF Establish
<1>6. conn' = [conn EXCEPT ![c] = e]
  BY DEF Establish
<1> HIDE DEF c, q
<1>7. Queued(c, w) /\ c \notin ToSet(thread[w].pending)
  BY <1>3, <1>4 DEF LoopInv
<1>8. /\ conn[c] \in ConnRecord /\ conn[c].server \in Servers /\ conn[c].state = "queued"
      /\ conn[c].loop = w /\ server[conn[c].server].callback = TRUE
  <2>1. conn[c] \in ConnRecord /\ conn[c].server \in Servers
    BY <1>0, <1>4, Fields
  <2>2. conn[c].state = "queued" /\ conn[c].loop = w
    BY <1>7 DEF Queued
  <2>3. server[conn[c].server] \in ServerRecord /\ server[conn[c].server].callback
    BY <1>0, <1>4, <2>1, <2>2, Fields DEF ConnInv
  <2>4. server[conn[c].server].callback \in BOOLEAN
    BY <2>3 DEF ServerRecord
  <2> QED
    BY <2>1, <2>2, <2>3, <2>4
<1>9. e \in ConnRecord /\ e.state = "established" /\ e.timer = TRUE
  BY <1>8 DEF ConnRecord
<1>10. /\ r \in ThreadRecord /\ r.running = q /\ r.pending = thread[w].pending
       /\ r.pc = "run" /\ r.quit = thread[w].quit /\ r.loop = thread[w].loop
  BY <1>2, <1>4 DEF ThreadRecord
<1> HIDE DEF r, e
<1>11. /\ thread' \in [Workers -> ThreadRecord]
       /\ thread'[w] = r
       /\ \A v \in Workers : v # w => thread'[v] = thread[v]
  BY <1>0, <1>5, <1>10, ThreadSteps
<1>12. conn' \in [Conns -> ConnRecord] /\ conn'[c] = e /\ \A d \in Conns : d # c => conn'[d] = conn[d]
  BY <1>0, <1>4, <1>6, <1>9, ConnMoves
<1>13. RecordTypes'
  BY <1>0, <1>1, <1>11, <1>12 DEF RecordTypes
<1>14. StartInv'
  <2>1. \A v \in Workers : thread'[v].quit = thread[v].quit /\ thread'[v].loop = thread[v].loop
    BY <1>10, <1>11
  <2>2. pc = "loop"
    BY <1>0, <1>4, <1>8 DEF StartInv
  <2> QED
    BY <1>0, <1>1, <2>1, <2>2 DEF StartInv
<1>15. QueueInv'
  <2>1. \A s \in Servers, d \in Conns : Waits(d, s)' <=> Waits(d, s)
    BY <1>8, <1>9, <1>12 DEF Waits
  <2>2. \A s \in Servers : BacklogInv(s)'
    BY <1>0, <1>1, <2>1 DEF QueueInv, BacklogInv
  <2>3. \A v \in Workers, d \in Conns : Queued(d, v)' <=> Queued(d, v) /\ d # c
    BY <1>8, <1>9, <1>12 DEF Queued
  <2>4. LoopInv(w)'
    BY <1>3, <1>4, <1>7, <1>10, <1>11, <2>3 DEF LoopInv
  <2>5. ASSUME NEW v \in Workers, v # w PROVE LoopInv(v)'
    <3>1. LoopInv(v) /\ thread'[v] = thread[v] /\ ~Queued(c, v)
      BY <1>0, <1>7, <1>11, <2>5 DEF QueueInv, Queued
    <3> QED
      BY <2>3, <3>1 DEF LoopInv
  <2> QED
    BY <2>2, <2>4, <2>5 DEF QueueInv
<1>16. ConnInv'
  BY <1>0, <1>1, <1>9, <1>12 DEF ConnInv
<1> QED
  BY <1>13, <1>14, <1>15, <1>16

\* A peer connects: its connection waits at the end of the backlog.
LEMMA Connects ==
    ASSUME PlaceInv, NEW c \in Conns, NEW s \in Servers, Connect(c, s)
    PROVE  RecordTypes' /\ StartInv' /\ QueueInv' /\ ConnInv'
<1>0. PoolInv /\ RecordTypes /\ StartInv /\ QueueInv /\ ConnInv
  BY DEF PlaceInv
<1>1. /\ UNCHANGED <<pc, starting, active, loops, thread>>
      /\ \A v : InPool(v)' = InPool(v)
      /\ conn[c].state = "none"
  BY DEF Connect, main, pool, InPool
<1> DEFINE q == Append(server[s].backlog, c)
<1> DEFINE r == [server[s] EXCEPT !.backlog = q, !.edge = server[s].reading]
<1> DEFINE e == [conn[c] EXCEPT !.state = "waiting", !.server = s]
<1>2. server' = [server EXCEPT ![s] = r]
  BY DEF Connect
<1>3. conn' = [conn EXCEPT ![c] = e]
  BY DEF Connect
<1>4. /\ server[s] \in ServerRecord /\ server[s].backlog \in Seq(Conns)
      /\ conn[c] \in ConnRecord
      /\ thread \in [Workers -> ThreadRecord] /\ active \in Seq(Servers)
  BY <1>0, Fields DEF RecordTypes
<1>5. \A t \in Servers : BacklogInv(t) /\ c \notin ToSet(server[t].backlog)
  BY <1>0, <1>1 DEF QueueInv, BacklogInv, Waits
<1>6. q \in Seq(Conns) /\ Once(q) /\ ToSet(q) = ToSet(server[s].backlog) \cup {c}
  <2>1. Once(server[s].backlog) /\ c \notin ToSet(server[s].backlog)
    BY <1>5 DEF BacklogInv
  <2> QED
    BY <1>4, <2>1, QueueGrows
<1> HIDE DEF q
<1>7. e \in ConnRecord /\ e.state = "waiting" /\ e.server = s
  BY <1>4 DEF ConnRecord
<1>8. /\ r \in ServerRecord /\ r.backlog = q /\ r.callback = server[s].callback
      /\ r.reading = server[s].reading
  BY <1>4, <1>6 DEF ServerRecord
<1> HIDE DEF r, e
<1>9. /\ server' \in [Servers -> ServerRecord]
      /\ server'[s] = r
      /\ \A t \in Servers : t # s => server'[t] = server[t]
  BY <1>0, <1>2, <1>8, ServerChanges
<1>10. conn' \in [Conns -> ConnRecord] /\ conn'[c] = e /\ \A d \in Conns : d # c => conn'[d] = conn[d]
  BY <1>0, <1>3, <1>7, ConnMoves
<1>11. \A t \in Servers : server'[t].callback = server[t].callback
                       /\ server'[t].reading = server[t].reading
  BY <1>8, <1>9
<1>12. RecordTypes'
  BY <1>0, <1>1, <1>9, <1>10 DEF RecordTypes
<1>13. StartInv'
  <2>1. ToSet(active) \subseteq Servers
    BY <1>4, ToSetIs
  <2>2. \A d \in Conns : conn[d].state \in {"none", "waiting"} => conn'[d].state \in {"none", "waiting"}
    BY <1>7, <1>10
  <2> QED
    BY <1>0, <1>1, <1>11, <2>1, <2>2 DEF StartInv
<1>14. QueueInv'
  <2>1. \A t \in Servers, d \in Conns : Waits(d, t)' <=> Waits(d, t) \/ (d = c /\ t = s)
    BY <1>1, <1>7, <1>10 DEF Waits
  <2>2. BacklogInv(s)'
    BY <1>5, <1>6, <1>8, <1>9, <2>1 DEF BacklogInv
  <2>3. \A t \in Servers : t # s => BacklogInv(t)'
    BY <1>5, <1>9, <2>1 DEF BacklogInv
  <2>4. \A v \in Workers : LoopInv(v)'
    BY <1>0, <1>1, <1>7, <1>10, LoopsKept
  <2> QED
    BY <2>2, <2>3, <2>4 DEF QueueInv
<1>15. ConnInv'
  <2>1. \A d \in Conns : conn[d].server \in Servers
    BY <1>0, Fields
  <2> QED
    BY <1>0, <1>1, <1>7, <1>10, <1>11, <2>1 DEF ConnInv
<1> QED
  BY <1>12, <1>13, <1>14, <1>15

\* main sleeps or wakes up; nothing else.
LEMMA NothingHappens ==
    ASSUME PlaceInv, SpuriousWakeup \/ UNCHANGED vars
    PROVE  RecordTypes' /\ StartInv' /\ QueueInv' /\ ConnInv'
<1>1. UNCHANGED <<pc, starting, active, loops, server, conn, thread>>
  BY DEF SpuriousWakeup, vars, main, pool
<1>2. RecordTypes /\ StartInv /\ QueueInv /\ ConnInv
  BY DEF PlaceInv
<1>3. RecordTypes' /\ StartInv'
  BY <1>1, <1>2 DEF RecordTypes, StartInv, InPool
<1>4. QueueInv' /\ ConnInv'
  BY <1>1, <1>2 DEF QueueInv, BacklogInv, LoopInv, Waits, Queued, ConnInv, InPool
<1> QED
  BY <1>3, <1>4

LEMMA PlaceStep == PlaceInv /\ [Next]_vars => PlaceInv'
<1> SUFFICES ASSUME PlaceInv, [Next]_vars PROVE PlaceInv'
  OBVIOUS
<1>1. PoolInv'
  BY PoolStep DEF PlaceInv
<1>2. RecordTypes' /\ StartInv' /\ QueueInv' /\ ConnInv'
  <2>1. CASE Main
    BY <2>1, StartSteps, StartLoopPlace, UnwindSteps, RoundSteps, AcceptSteps DEF Main
  <2>2. CASE \E w \in Workers : Worker(w)
    BY <2>2, ThreadTurns, QueueTakenOver, Establishes DEF Worker
  <2>3. CASE \E c \in Conns, s \in Servers : Connect(c, s)
    BY <2>3, Connects
  <2>4. CASE SpuriousWakeup \/ UNCHANGED vars
    BY <2>4, NothingHappens
  <2> QED
    BY <2>1, <2>2, <2>3, <2>4 DEF Next
<1> QED
  BY <1>1, <1>2 DEF PlaceInv

LEMMA PlacesAreKnown == PlaceInv => NoneIsLost
<1> SUFFICES ASSUME PlaceInv, NEW c \in Conns
             PROVE /\ conn[c].state = "waiting" => Places(c) = {<<"backlog", conn[c].server>>}
                   /\ conn[c].state = "queued" =>
                        /\ Places(c) \in {{<<"queue", conn[c].loop>>}, {<<"round", conn[c].loop>>}}
                        /\ conn[c].loop[1] = conn[c].server /\ thread[conn[c].loop].loop
                   /\ conn[c].state = "established" => Places(c) = {} /\ conn[c].timer
  BY DEF NoneIsLost
<1>1. RecordTypes /\ StartInv /\ QueueInv /\ ConnInv
  BY DEF PlaceInv
<1>2. conn[c].server \in Servers
  BY <1>1, Fields
<1> DEFINE inBacklog == {s \in Servers : c \in ToSet(server[s].backlog)}
<1> DEFINE inQueue == {w \in Workers : c \in ToSet(thread[w].pending)}
<1> DEFINE inRound == {w \in Workers : c \in ToSet(thread[w].running)}
<1>3. Places(c) = {<<"backlog", s>> : s \in inBacklog} \cup {<<"queue", w>> : w \in inQueue}
                  \cup {<<"round", w>> : w \in inRound}
  BY DEF Places
<1>4. inBacklog = {s \in Servers : conn[c].state = "waiting" /\ conn[c].server = s}
  BY <1>1 DEF QueueInv, BacklogInv, Waits
<1>5. \A w \in Workers : /\ ~(w \in inQueue /\ w \in inRound)
                         /\ w \in inQueue \/ w \in inRound <=>
                               conn[c].state = "queued" /\ conn[c].loop = w
  BY <1>1 DEF QueueInv, LoopInv, Queued
<1>6. inQueue \subseteq Workers /\ inRound \subseteq Workers
  OBVIOUS
<1> HIDE DEF inBacklog, inQueue, inRound
<1>7. CASE conn[c].state = "waiting"
  <2>1. inBacklog = {conn[c].server} /\ inQueue = {} /\ inRound = {}
    BY <1>2, <1>4, <1>5, <1>6, <1>7
  <2> QED
    BY <1>3, <1>7, <2>1
<1>8. CASE conn[c].state = "queued"
  <2>1. /\ conn[c].loop \in Workers /\ conn[c].loop[1] = conn[c].server
        /\ InPool(conn[c].loop)
    BY <1>1, <1>8 DEF ConnInv
  <2>2. pc = "loop"
    BY <1>1, <1>8 DEF StartInv
  <2>3. thread[conn[c].loop].loop
    BY <1>1, <2>1, <2>2 DEF StartInv, Unwinding
  <2>4. inBacklog = {}
    BY <1>4, <1>8
  <2>5. \/ inQueue = {conn[c].loop} /\ inRound = {}
        \/ inQueue = {} /\ inRound = {conn[c].loop}
    BY <1>5, <1>6, <1>8, <2>1
  <2> QED
    BY <1>3, <1>8, <2>1, <2>3, <2>4, <2>5
<1>9. CASE conn[c].state = "established"
  <2>1. inBacklog = {} /\ inQueue = {} /\ inRound = {}
    BY <1>4, <1>5, <1>6, <1>9
  <2>2. conn[c].timer
    BY <1>1, <1>9 DEF ConnInv
  <2> QED
    BY <1>3, <1>9, <2>1, <2>2
<1> QED
  BY <1>7, <1>8, <1>9

\* Whatever peers, threads and failing calls do, a connection that was made is in the
\* backlog it waits in, or in one queue of the running loop it was dealt to, or established
\* with its idle timer set: for any number of connections and threads.
THEOREM NoConnectionIsLost == Spec => []NoneIsLost
  BY PlaceInit, PlaceStep, PlacesAreKnown, PTL DEF Spec

=============================================================================
