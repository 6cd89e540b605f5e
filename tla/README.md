# Verification of tf_web_server in TLA+

tf_web_server is a multi-threaded HTTP(S) server written from scratch: a Reactor network library (epoll,
one loop per thread), an HTTP layer, an asynchronous log, a small log-structured key-value engine (TFDB), and a
web application ("the catalogue": algorithm problems and favourite lists) that keeps its data in that engine.
This directory holds TLA+ models of its stateful parts and of the JSON library under its records, TLC configurations
that check them, and TLAPS proofs, for every value of the constants, of the safety properties they check but three of the JSON library, and of
the engine's refinement of a map. Where the code keeps a property for plain connections only, the property says so (`~Ssl`), and section 5 what it does with TLS. Paths below are relative to the repository root (`src/` is where it is unpacked here).

- [1. The system](#1-the-system): inventory, interaction, what is hard, what makes each part correct
- [2. Modules](#2-modules): which module models which part, and how
- [3. Runs](#3-runs): what each configuration checks and shows, bounds, fairness
- [4. Proofs](#4-proofs)
- [5. Where the code departs from what it says](#5-where-the-code-departs-from-what-it-says)
- [6. Not modelled](#6-not-modelled)
- [7. Plan](#7-plan)

## 1. The system

### 1.1 Components

| Component | Code | State it keeps | Operations |
|---|---|---|---|
| Storage engine | `src/db` | append-only data files, `write_off_`, the in-memory index, `mutex_` | `Open` (replay), `Put`, `Get`, `Delete`, `Close` |
| Event loop | `net/event_loop`, `poller`, `channel`, `timer` | `pending_functors_`, `wakeup_fd_`, `connections_`, `Poller::channels_`, `active_channels_`, timers | `loop`, `runInLoop`, `queueInLoop`, `addConnection`, `removeConnection`, `runAfter`, `cancel` |
| Connection | `connection`, `socket` | `state_`, channel mask, input and output buffers, `SSL*`, idle-timer id, context (an `HttpRequest`) | `connectionEstablished`, `handleHandShake`, `handleRead`, `handleWrite`, `handleClose`, `handleError`, `send`, `shutdown`, `forceClose` |
| Server | `server`, `main` | the acceptors and the pools of loops | start-up of both servers, `handleConnection`, `onConnection`, `onMessage` |
| Asynchronous log | `utils/async_logging`, `logger`, `logfile` | four rotating buffers, `buffers_`, `running_`, the log file | `append`, `threadFunc`, `start`, `stop`, `~Logger` (with abort for FATAL) |
| Catalogue handlers | `http/handlers_algo` | records, id counters and index lists in the engine; `data_mutex` | add / update / delete problem, create favourite, add to / remove from favourite, and the reading handlers |
| HTTP parser | `http_request`, `buffer` | parse state, method, headers, parameters; a growing byte buffer | `parse`, `reset`; `retrieve`, `append`, `readFd` |
| I/O threads | `net/event_loop_thread*` | a loop per thread, a round-robin index | `startLoop`, `getNextLoop`, `~EventLoopThread` |
| Configuration, router | `utils/config`, `http/http_router` | sections and keys; exact and pattern routes, fixed after start-up | `load`, `addRoute`, `route` |
| Demonstration handlers, static files | `http/handlers`, `http_utils` | none (what a request carries) | one handler per route |
| JSON library | `utils/json.hpp` | scanner, parser stack, document under construction; string buffer of the serializer | `parse`, `dump`, `to_*` and `from_*` of four binary formats |
| Responses, MIME types, TLS context, formatting, migration tool | see PROJECT.json | none that outlives a call | |

### 1.2 Interaction

- `main` loads `server.ini`, makes its `[routes]` the router's tables, starts a server and its pool for HTTP and one for HTTPS, and
  runs the base loop with the two acceptors.
- The base loop accepts a descriptor, takes the next loop of the server's pool and queues a functor on it (`queueInLoop`: lock,
  append, write to an eventfd). From then on the connection belongs to that loop's thread alone.
- The loop waits in `epoll_wait`, calls the channels' callbacks, runs the queued functors, runs the timers that are due. A
  closing connection leaves `connections_` at once and `Poller::channels_` in a later functor.
- `handleRead` fills the input buffer and calls `onMessage`, which parses and handles as many requests as the buffer
  holds, routes each to its handler, sends each response, and cancels and restarts the idle timer.
- The handlers of different connections run side by side on the I/O threads. Those that change the catalogue hold
  `data_mutex` from start to end; those that read take no lock. Each of their engine calls is atomic for the others only as
  far as the engine makes it so: `Put` and `Delete` hold the engine's own mutex, `Get` does not.
- Records, request bodies and answers of the catalogue are JSON texts, read and written by the JSON library.
- Every thread logs through `AsyncLogging::append`; one back-end thread writes.

### 1.3 What is hard here, and what correct means

Forty places that a test would hardly reach are listed in PROJECT.json under `hazards`, each at its line. In short:

- **Engine.** Append and index update are two steps, readers take no lock, a process may die between any two steps or in
  the middle of a `write`. *Correct*: linearizable operations on one map, no answered write lost, the index is always what a
  restart would rebuild, a reader's position stays valid, a torn tail damages nothing before it.
- **Event loop and connections.** Edge-triggered events are told once; events of one round are handled after earlier ones
  have closed connections; descriptors are reused at once and both maps are keyed by them; timers race with the requests that
  replace them; TLS turns reads into writes. *Correct*: no dangling channel, maps that agree, a closed connection stays silent,
  only the current idle timer pending, and what was accepted is established, what was closed is destroyed. On a plain connection, further: it
  keeps an idle timer while it is open, output leaves before the shutdown, nothing is left unread, and what is idle is closed. With TLS the code keeps none of
  these four (section 5).
- **Log.** Buffers circulate between the front end, the back end and a spare list. *Correct*: nobody ever finds a moved-from
  buffer, no line is lost, doubled or reordered, every line reaches the disk, `stop` returns and loses nothing logged before it.
- **Catalogue.** One request is up to a dozen engine calls; other handlers and the end of the process come between them.
  *Correct*: ids are not reused, what a client was told stays true, indexes and records agree, deletion leaves no reference.
- **HTTP parser and buffer.** The stream arrives in arbitrary pieces; the buffer grows, is read into in two parts and moves its
  bytes to the front. *Correct*: what is answered does not depend on the pieces, and the buffer is a queue of bytes.
- **Configuration, router, handlers.** Lines may come in any order; the routes are registered in the order of their names, not of the
  file; the `HttpRequest` of a connection outlives its requests. *Correct*: a request is led where the file says, and is
  answered from its own parameters.
- **Start-up and hand-over.** Threads start each other by a condition variable; an edge-triggered acceptor deals connections to
  loops that may be asleep; a start may fail after threads exist. *Correct*: the start ends, turns are even, a connection is
  always in one place and is served.
- **JSON.** The builder keeps raw pointers into containers that grow; numbers change width and representation; a string is written
  through a buffer that is flushed in the middle of characters. *Correct*: the parser accepts exactly the grammar's texts and builds
  their values, and what is written in any format reads back as the value it was.

## 2. Modules

Every definition is tied to its lines in PROJECT.json (`map`). Definitions whose comment begins "faulty variant" are
not part of any specification: each is a plausible slip in the definition next to it, and substituting it makes the property
named in `mutants` fail. They show that the properties are sensitive to the code they are about.

### KVStore: what the engine promises
A map with atomic `Put`, `Delete` and `Get`; `answer[t]` is what an operation returned. A write answered `kIOError` has no
effect. When the process dies (`Stop`), at most one write whose caller has no answer yet may have taken effect. A closed engine
refuses writes and still tells present from absent keys, as the code does.

### Engine: `src/src/db/core`
A file is a sequence of *units*; a record of type, key and value is `HeaderSize + 1 + ValueSize[value]` units, each carrying
its record and its place in it. "Header decodes, body is long enough, CRC matches" becomes `IntactAt(f, offset)`: the units
of one record follow from there on in order. So partial records, offsets in the middle of a record and garbage after a tear are
all represented, while bytes are not.

| Model | Code |
|---|---|
| `file`, `synced`, `writeOff` | the active `DBFile`: content, what `fsync` covered, `write_off_` |
| `index`, `mutex` | `Indexer::index_`, `Engine::mutex_` |
| `phase`, `scan` | `Open` while it replays (`LoadRecord`, `LoadNextFile`, `LoadDone` are the rounds and exits of `LoadIndexFromFile`) |
| `Lock`, `CheckPresent/Absent`, `AppendRecord`, `UpdateIndex` | `Put` and `Delete`: lock guard, `Delete`'s existence test, `AppendLogRecord`, `Indexer::Put/Delete` |
| `AppendRecordFails`, `AppendRecordShort` | `DBFile::Append` when `write` returns -1, or fewer bytes than asked |
| `Lookup`, `ReadLogRecord` | `Get`: index lookup, then `pread`, without the engine's mutex |
| `Crash` | kill; `"tear"`: in the middle of a write; `"power"`: unsynced data lost |

`AppendRecord` writes at the end of the file and takes the position from `write_off_`, because the descriptor is `O_APPEND`
(`db_file.cpp:24`). `ReadAnswer` reads the *active* file whatever `file_id` says, as `ReadLogRecord` does.

### EngineRefinement: Engine implements KVStore
`store` is what the index leads to while the engine serves, and what a replay would rebuild while it is down. A write takes
effect at `UpdateIndex`, a read at `Lookup` (its answer is fixed there, which is the claim that later writers cannot disturb it).

### The proofs
`EngineProofs`, `ReactorProofs`, `CatalogProofs`, `AsyncLoggingProofs`, `ServerProofs` and `JsonParserProofs` hold the theorems about the
modules they are named after; `SiteProofs` those about Buffer, HttpRequest, Router and Site, each built on the one before; `SequenceLemmas`
what they all need about queues, flattening and folds. See section 4.

### Reactor: one I/O thread
`Loop` is `EventLoop::loop`: `Poll`, one `HandleEvent` per active channel and one action per callback it calls, then
`HandleEventsDone`, one action per functor (`Establish`, `RemoveChannel`), `FunctorsDone` (where the functors, and with them the
last references to closed connections, are destroyed), then the timers (`TakeExpired`, `RunTimer`). The acceptor and the
peers (`Peer`) take steps between any two of these.

A connection is an object (`conn[c]`: state, mask, which callbacks are installed, whether a partial request or unsent output
is buffered, which of two alternating timer ids is its own) and a kernel side (`sock[c]`: unread tokens, end of stream, reset, the
TLS close alert, a full send buffer). A handler is an operator that returns the *set* of outcomes (`SendInLoop`, `ShutdownInLoop`,
`HandShake`, `Write`, ...), one per answer the system call or OpenSSL may give; `Effect` applies an outcome to the maps, the
timers, the functor queue and epoll. `ready` is epoll's ready list: a mask with `EPOLLIN` is edge-triggered (`EPOLLET` is part of
`kReadEvent`), a mask without it is level-triggered. `died` tells how the process ended: an assert of the loop's maps, the
assert in `Buffer::retrieve`, or SIGPIPE, which nothing ignores.

`setup` says whether the connections use TLS, which descriptors there are and how much each peer may send; it is chosen at the start,
so that one run covers several instances.

### Server: start-up, acceptors and pools
`Main` is the main thread: `StartThread` and `StartLoop` are `EventLoopThreadPool::start` and the hand-over of the loop pointer
(`waiting` while it sleeps on `cond_`), then `Listen`, `EnableReading`, `SetConnectionCallback`, for one server after the other;
`EnableSslThrows` leads to `Quit`, `Join` and `MainFails`. After that `Poll` and one action per outcome of `accept` are the base
loop. A worker is a thread with the part of `EventLoop` that takes hand-overs: `EnterLoop`, `WorkerPoll` (asleep until
woken), `TakePending` (the swap under the mutex), `Establish`, `RoundEnds`. The listening sockets are edge-triggered: `edge` is the
event not yet reported. `tied_` of the accept channel is not initialised by the code, so `Uninitialised` gives the values the build
may find there; `HandleEventDropped` is what happens if it is true. `dealt` counts what each loop was given.

### AsyncLogging
A buffer is the sequence of the lines in it (`Capacity` at most), a moved-from `unique_ptr` is `NoBuffer`. `AppendLine` is the
front end under the mutex; `Collect`, `WriteBuffers`, `Recycle` are the three stretches of `threadFunc`'s loop, `Drain` what
follows it. `wait_for` always returns, by notification or by its timeout, so that `Collect` needs no condition. `AsyncLogging` extends
`LogFile`, so that every line that is written goes through its decisions.

### LogFile
The part of a log file that decides: its size, the count of appends since the clock was last read, the period it belongs to, and when it
was last rolled and flushed. `FileAppended` is `append_unlocked` with `rollFile` and `flush`; `late` counts appends since the period ended.

### Catalog
One action per engine call of the changing handlers, with the locals of the handler in `loc[t]`; readers likewise, without
the mutex. The engine is taken for the atomic map of KVStore, which is what `ImplementsKVStore` justifies. `Restart` is the end
of the process between any two calls (a kill, or an exception out of a handler such as `stoi` on a malformed id).
`answered`, `kept` and `sure` are history: what clients have been told. A problem is its algorithm list and tags, a
favourite its set of ids; titles, links, dates and paging are left out. `RemoveTag` does what the code does:
`std::remove` and then `erase` of *one* element, so that equal tags leave shifted or moved-from elements behind.

### Buffer
The vector with its two indices; every member function is an operator from buffers to buffers (`Retrieved`, `Appended`, `ReadInto`,
`MakeSpace`), and the actions keep the `queue` of bytes it stands for beside it. `makeSpace` moves the wrong range
(`buffer.cpp:37`); `moved` tells whether it ever did ("no", "moved", or the process "died" in the copy), and the properties say what
holds until then.

### HttpRequest
The stream is a sequence of units, two to a line (the second ends in CRLF) and one or more to a body; `Read` delivers any
number of them into the `Buffer`, by `readFd` or, with TLS, by `append`. `parse` is one action per round of its loop, `Serve` one
round of `onMessage` with a complete request. The kinds of request cover a keep-alive and a closing GET, a POST with no length, with
length 0, 2 or one that is no number, a malformed request line and a malformed header (`site_run` has a GET of two routes, a closing one, a
POST of length 2, one with no number and a malformed header; a body that is cut off leaves malformed request lines there). `answers` says which requests were answered.

### Router
`ReadLine` is one round of `Config::load`; `LoadEnds`, `RegisterRoute`, `RegisterLast` are what main makes of `[routes]`: it takes the
`names` of the section in the order of a `std::map`, which `KeyOrder` gives (`Rank`). A text is a sequence of tokens: words, and the characters the code looks for (brackets, signs, commas, blanks). A pattern is a path with the
regular-expression tokens `server.ini` uses among its tokens; what std::regex does with them is external (`Fits`, `Readings`).
`HandlerFor` and `ParamsFor` are `HttpRouter::route`: the handler, and the route parameters the request has when it is called. A
response is its status, its body and whether it tells its length.

### Site: Router and HttpRequest together
The composition: the site is configured, then the requests of a connection are sent, cut, read, and at each `Serve` routed and
answered. `paths`, `params` and `responses` are the path of each request, `route_params_` of the connection's one `HttpRequest`
(which `reset` leaves alone), and what each handler answered. `MeantHandler` says independently of `load` and `addRoute` what the
lines of a file mean. `FilesAssumption` says that lines are texts and that `KeyOrder` ranks the keys they use.

### Json*: the JSON library
| Module | Models |
|---|---|
| `JsonNumber` | integers of `IntBits` bits and binary floats of `Precision` digits; `strtod` by the result it promises |
| `JsonLexer` | `lexer::scan`: one action per byte, `scan` is the place in the code where it is awaited |
| `JsonParser` | `sax_parse_internal` with its stack, and the builder with its raw pointers: values live at addresses, a vector that grows moves them |
| `JsonText` | RFC 8259 and UTF-8 as sets of texts with their values, independent of the two above |
| `JsonDtoa` | `dump_integer`, Grisu2 with its table of powers, and the layout of the digits |
| `JsonSerializer` | `dump`, with `dump_escaped`'s automaton, its buffer and its three error handlers |
| `JsonBinaryWriter`, `JsonBinaryReader` | CBOR, MessagePack, UBJSON, BJData and BSON, byte for byte, with integers of 64 bits |
| `JsonBinary` | write, cut off, read again |
| `Json` | the three scenarios: a text is parsed, a document is dumped and parsed, a document is written and read |

Documents are trees, and `JsonText` and the modules behind it use RECURSIVE operators, so that nothing can be proved in them. The lexer and the
parser do without, and `JsonParserProofs` is about these.

## 3. Runs

Run a configuration with `tlc -workers 2 -config <cfg> <module>`. Deadlock is not checked: in every model the system may
legitimately stop (the disk is full and nobody calls, all connections are gone, the bound on inputs is used up).

### 3.1 Runs that pass

| Run | What it shows | Bounds |
|---|---|---|
| `engine_store` | Engine refines KVStore (`ImplementsKVStore`); every call and every replay ends, the mutex is released on every path, `Get` waits for nobody (`CallsEnd`) | 2 threads, 1 key, 2 values (one empty), disk of 6 units, write errors, kills |
| `engine_log` | the index is the replay of the log; positions found without the lock stay readable; whole records survive a torn tail | 2 threads, 2 keys, 1 value, disk of 5 units, an archived file with its own torn tail, short writes, kills, torn writes, power failures |
| `reactor_run` | descriptors, channels, timers stay consistent through close, reuse and removal (that an open connection has a timer: plain ones only); no handler wakes a closed connection or trips an assert | 2 connections: plain on 2 descriptors with 1 token each, and TLS on 1 descriptor with 3 tokens each; full send buffers, resets |
| `reactor_live` | queued functors are run (what is accepted is established, what is closed destroyed), with and without TLS; of plain connections only: output before shutdown, nothing unread, the idle are closed | 2 connections in turn on 1 descriptor, plain or TLS, 2 tokens each, full send buffers |
| `log_run` | double buffering never runs dry; lines are neither lost nor reordered; files roll by size and by period; flushing and stopping make progress | 1 line to a buffer, 4 lines, roll at 2 bytes or after 2 seconds, clock to 3, looked at every 2nd append; stop, LOG_FATAL and abort anywhere |
| `catalog_run` | ids, indexes, records, favourites and answers agree across interleavings and restarts; lock-free readers miss nothing that stands | 2 writers, 1 reader, 2 problem ids, 1 favourite id, algorithm lists with 0 or 1 tag (tag changes also against lists of 1 and 2) |
| `site_run` | a configuration file leads to the routes it means; answers do not depend on how the stream is cut; nothing runs twice; each request is answered from its own route and parameters; the buffer is a queue | files of 13 kinds of line: all of up to 3 lines, and all of 4 that begin with `[routes]`; for one site 3 requests of 6 kinds, cut anywhere; vector of 3 cells, second buffer of 3 |
| `server_run` | the start ends, turns of the pool are even, a connection is in one place and is served | 0 to 2 threads, with and without HTTPS, 3 connections; certificate, SSL and accept failures, spurious wakeups, `tied_` of no channel or of the HTTPS one set |
| `json_run` | the parser accepts the texts of the grammar and builds their values; what dump or a binary writer writes is read back; what is cut off is refused | see below |

Why these bounds reach the interesting cases:

- **Engine.** A record of the empty value is 2 units, of the other 3. Six units hold a put, an overwrite and a tombstone, so
  that a reader can be overtaken twice before it reads; five units hold two records and a torn unit, or a torn unit that later
  appends run into. Two threads suffice for every pair of operations; one key is where they conflict, and the log run has two so
  that replay must tell keys apart. The archive has a record *and* a torn tail, so that replay passes both exits of a file.
- **Reactor.** The hazards are about a descriptor used by a second connection while traces of the first remain: two
  connections on one descriptor give exactly this, two on two give events of one round that concern both. Two tokens give pipelined
  requests and a request completed by a later segment. TLS needs three (handshake flight, data, close alert). Two timer ids
  are enough because a connection remembers one and the property says no other is pending.
- **Log.** Four lines fill both front buffers of one line and two more, so that the back end finds more buffers than it has
  spares. Two bytes to a file and a clock of four seconds give rolls by size, refused rolls within a second, a new period between
  two looks at the clock, and a flush that is due.
- **Catalog.** Two writers contend for `data_mutex` and a counter; one favourite can become empty and vanish during the
  sweep; two problems give an index from which one is removed. `MaxId` bounds the ids, not the operations.
- **Site.** Three requests give a predecessor whose leftovers (headers, parameters, bytes) could leak, the request, and a successor
  that could be swallowed. A body of two units can be absent, cut in half or whole. A vector of three cells behind one in front is
  filled by a line and a half, so that growth, the two-part read and `makeSpace`'s move all happen. Three lines of a file hold a
  header and two entries (repeated, overlapping, malformed, out of place), four a section that is left and opened again.
- **Server.** Two threads give a turn that wraps around; three connections one lap and the next; both servers deal at once.
- **Json.** Texts: nine alphabets, one for each part of the grammar (lists, objects, nesting, floats, integers, `\u` escapes
  and surrogates, short escapes, UTF-8 at its limits, literals), of 3 to 14 bytes. Numbers: 7-bit integers, floats of 5 digits and 12
  exponents, Grisu with 14 bits, and every one of them is dumped and read; the buffer of dump_escaped holds 16 bytes where the
  library has 512, so that strings of 5 bytes already flush it. Binary formats have their real widths: integers and lengths at the
  edges of 1, 2, 4 and 8 bytes (15/16, 23/24, 31/32, 127/128, 255/256, 32767/32768, 65535/65536, 2^31, 2^32, 2^63, 2^64 - 1),
  lengths up to 256 and strings of 40000 and 65536 bytes, doubles exactly, barely and not representable as singles, and documents
  cut within 12 bytes of their ends.

Symmetry is used only in runs without temporal properties, over threads (`engine_log`), writers (`catalog_run`) and connections (`reactor_run`).

### 3.2 Fairness

- `Engine`: weak fairness of replay and of each thread inside an operation. The operating system schedules them; a
  thread that waits for the mutex gets weak fairness only, so nothing is claimed about a particular writer getting it.
- `Reactor`: weak fairness of the loop as a whole (its thread is scheduled while it has something to do) and, per timer,
  strong fairness of being taken when due: time passes, so that an armed timer is not passed over for ever. Nothing is assumed of
  peers: they need not send, read or close. A peer that never drains is therefore part of every liveness result.
- `AsyncLogging`: weak fairness of the back-end thread, whose wait has a timeout. The timeout is assumed, so that a missed notification cannot
  go wrong in the model.
- `Server`: weak fairness of main and of each worker thread. `ConnectedIsServed` does not speak of servers whose accept gave up or whose accept
  channel took the branch of an uninitialised `tied_`: the code does not serve those connections (section 5). Spurious wakeups and peers are not fair.
- `HttpRequest`, `Router`, `Site`, `Json` need none: their properties are safety.
- Crashes, errors, calls and `stop` are never fair.

### 3.3 Runs that find a violation: see section 5.

## 4. Proofs

### 4.1 The engine

`EngineProofs` proves, with TLAPS, for **every** set of threads, keys and values, every record layout, disk size, archive
and set of faults allowed by `ConstantsAssumption` and `ArchiveAssumption` of Engine:

| Theorem | Statement |
|---|---|
| `Invariance` | `Spec => []IInv` |
| `TypeCorrect` | `Spec => []TypeOK` (among others, `write_off_` never passes the end of the file) |
| `IndexIsReplayOfLog` | `Spec => []IndexMatchesLog` |
| `ReadersFindTheirRecord` | `Spec => []LocatedRecordReadable` |

The inductive invariant `IInv` (also in Engine) is the conjunction of

- `TypeOK`;
- `OpInv`: a thread inside an operation runs one with a real key, of the kind its place in the code belongs to. Without it
  the record it appends could be anything.
- `LockInv`: exactly the holder of the mutex is between taking and releasing it. It makes the record that is written and not
  yet indexed unique.
- `QuietInv`: no operation runs during replay, so that replay sees a file that does not change.
- `ScanInv`: what replay has passed is whole records. It makes the position replay indexes a position in the log.
- `TailInv`: without a torn tail the whole file is whole records.
- `PendingInv`: the record not yet indexed is the last one and lies where its writer remembers it.
- `ReadInv`: a reader's position is a real one.
- `IndexMatchesLog` and `LocatedRecordReadable` themselves.

The argument: `Logged`, `Latest` and `IsReplay` describe the log without recursion (a position is in the log if the units up
to its end are whole records). Lemmas show that appending units changes no position already logged, adds exactly one when the
file was whole, and that the latest record of every other key stays the latest; so `AppendRecord` keeps the index a
replay "up to the pending record" and `UpdateIndex` makes it one up to the end. Replay is the same step with `scan` as the limit.
A reader keeps its record because files only grow while the engine serves. The invariance proof has one lemma per action (or group of like actions), and
in it one step per conjunct the action can disturb.

`Untorn` (the write offset is the end of the file) guards `TailInv` and the conclusions: after a short write or a torn tail
the code's positions are wrong (section 5), and these three theorems say nothing there. What still holds then is a theorem of its own,
`TearsSpareTheLog` (`Spec => []PrefixSurvivesTear`): what a replay rebuilds and what a reader finds among the whole records in front of the
tear stays. Its invariant adds `TornInv` to `IInv`: behind a torn tail no prefix of the file is whole records again beyond
the write offset, or beyond the place of a record that is still to be indexed. That is what a later append could break.

`EngineImplementsStore` proves the refinement: `Spec => ImplementsKVStore` (with the mapping of
EngineRefinement), for any threads, keys, values and disk, and for engines whose writes are whole or fail whole
(`Faults \subseteq {"error", "crash"}`) and that start without archived files (`Archive = <<>>`). Both hypotheses are those of
`engine_store`, and are needed: with a torn tail the code appends where it does not index, and `Get` reads the active file for a
position in an archived one, so that it does not implement a map there. `IInv` is strengthened by `RInv`:

- `WholeInv`: the file is whole records, and the engine writes at its end;
- `AtRestInv`, `SilentInv`: a thread outside the engine has no operation, and nobody has an answer from before the start;
- `DeleteInv`: nobody takes the key away from a `Delete` that has found it.

`InitMaps` and `StepMaps` then show that initial states map to initial states and every step to a step or a stutter, with one lemma per
action or group of like actions: replay does not change what the log stands for (`LoadMaps`), a write takes effect at its index
update (`UpdateMaps`), a read at its lookup (`LookupMaps`), and what dies with the process is at most the write that was logged and not yet
indexed (`StopMaps`).

### 4.2 The buffer, the connection over it, and the site behind that

`SiteProofs` goes from the bottom up, in one module because each part is stated of the same variables.

**The buffer**, for any cell type, prepended area, initial size and second buffer: `BufferIndices` (`BufferSpec => []IndicesInBounds`)
and `BufferBytes` (`BufferSpec => []BufferIsQueue`). A buffer is `Sound` if its cells are a function on its size and its indices are
ordered; lemmas say of each member function that it keeps a buffer sound and what it does to `Readable` (drops a prefix, appends
the data), and the inductive invariant `BufferInv` adds that the readable bytes are the queue as long as `moved = "no"`, and that
their number is right always.

**The connection** is a use of its buffer: every step of `HttpRequest` is a step of `BufferNext` or leaves the buffer alone
(`ConnectionUsesBuffer`, `Spec => BufferSpec`), whatever the peer sends and however the parser behaves. `InputIsWhatWasSent` follows:
`Spec => [](BufferIsQueue /\ IndicesInBounds)`. Two more theorems are about the requests. `HandledInOrder` (`Spec => []ExecutedInOrder`):
however the stream is cut and whatever bodies are taken for request lines, no request is handled twice or out of order, as long as `makeSpace`
has moved nothing. `OrderInv` says that the first bytes of the request lines, in what is buffered and on its way, come in the order they were
sent and behind everything already begun. `AnswersAreMeant` (`Spec => []AnswersFollowStream`): as long as no body was cut and no byte moved,
the answers are those the requests mean, up to the first request that ends the stream. `AnswerInv` places every request in the stream
(`Laid`: byte by byte, from an offset that is negative once parsing is inside it) and says what the parsed lines have made of the `HttpRequest`
(`Progress`: between requests, in the lines, in the body, or complete).

**The configuration.** `SiteFollowsFile` (`SiteSpec => []RoutesFollowFile`), for files of any length, with repeated, malformed and reopened
sections: every registered route is one the file declares, and in the end the router leads where the file says. `LoadInv` is about the lines
read so far (`Seen`): the last header among them names the current section, and a key of `[routes]` has the value of the last line that
gives it one. `RegisterInv` is about the names gone over: the exact routes are those of the last of them for each path and method, the patterns
those of all of them in their order. When no name is left, both are statements about the whole file, and `HandlerFor` finds what
`MeantHandler` says: the route of the highest rank among equal exact paths, that of the lowest among the patterns that fit.

**The site** behaves, towards its peer, as a connection does: `SiteReadsRequests` (`SiteSpec => Spec`), so that everything above holds of it
(`SiteAnswersFollowStream`). `SiteAnswersByRoute` (`SiteSpec /\ TakersCapture => []AnsweredByItsRoute`) says that each answer is what the request would
be answered alone on a fresh connection. It is the theorem about `route_params_`, which `reset()` leaves alone. `TakersCapture` is its one hypothesis: a route the file gives
to `getUserById` or `getProductByName`, the handlers that look at the parameters, has a group. It holds of `src/server.ini` and of every file of
`site_run`; of a file without it the property is false, since the handler would find what an earlier request captured. The proof: a route with a group
that matches captures something, which replaces what was left (`CapturesSome`), and the other handlers do not look (`Lengths`).

### 4.3 The log

`AsyncLoggingProofs`, for any sizes, intervals and periods: `LogFilesRoll` (`LogFileSpec => []FilesRoll`). The invariant ties the count
of appends to the number of appends that were late, and the size of a file to the second it was opened: `rollFile` refuses within that
second only, and a period that is over is noticed at the next look at the clock. `LogUsesLogFile` (`Spec => LogFileSpec`) shows that the
asynchronous log, in each of its steps, uses the file so, and `LogRollsItsFiles` that its files therefore roll.

For any capacity of a buffer and any number of lines:

| Theorem | Statement |
|---|---|
| `BuffersSuffice` | `Spec => []NeverWithoutBuffer`: nobody uses a moved-from buffer |
| `LinesAreKept` | `Spec => []NothingLostOrReordered`: file, buffers being written, buffers and current buffer are the log, in order |
| `StopKeepsTheLines` | `Spec => []KeptBeforeStop`: what was logged before `stop` is in the file when the thread has ended |

`LogInv` is `LogType`; `SparesInv` (which of the back end's two spares are there, moved away or about to be refilled at each place of the
loop: the front end may have taken `next` only if a full buffer was handed over, which is the one that will come back);
`WrittenInv` (how far the write loop has come); `NothingLostOrReordered` itself; and `EndInv` for the time after the thread.

### 4.4 The pools

`ServerProofs`, for any number of threads, connections and any set of faults. `DealtEvenly` (`Spec => []TurnsAreEven`): the invariant
`PoolInv` says how many each loop has been dealt in terms of `next_`, `k + 1` in front of it and `k` behind, and that no connection is dealt
before a pool is complete. `NoConnectionIsLost` (`Spec => []NoneIsLost`): a connection is in its backlog, in exactly one queue of the
loop it was dealt to, or established with its timer. Its invariant `PlaceInv` adds `StartInv` (nothing is accepted before main's loop runs, the
callbacks are set by then, and loops are there until main unwinds), `QueueInv` (the queues hold exactly the connections whose state says so,
each once) and `ConnInv` (a queued connection has a loop of its server's pool).

### 4.5 The loop, its poller and its timers

`ReactorProofs`, for any set of connections, descriptors (not empty), setups and faults, whatever the peers send and the system calls answer:

| Theorem | Property |
|---|---|
| `NoPointerDangles` | `NoDanglingChannel`: no map, functor, event list or epoll entry leads to a destroyed connection |
| `MapsAgree` | `RegistriesAgree`: the maps by descriptor agree with the connections, also when a descriptor is used again |
| `ClosedIsSilent` | `ClosedStaysSilent`: a closed connection watches nothing |
| `TimersAreCurrent`, `OpenKeepsATimer` | `OnlyCurrentTimer`, `OpenIsGuarded`: only the timer of the last activity is pending, and an open plain connection has it |
| `PlainIsFlushed`, `PlainIsRead` | `FlushedBeforeClose`, `NothingUnread`: on a plain connection output leaves before the shutdown, and no input is there that the loop was not told of |

The inductive invariant has two halves. `Objects` is about connections and maps: `FdInv` (no two connections own one descriptor), `QueueInv`
(exactly one functor waits for each connection to be established or removed), `MapInv` (the maps hold the attached connections), `SoundInv` (a
closed connection has no interest, a failed handshake cannot be taken up again). The others say where the loop stands: `RoundInv` (what it
holds, such as the event list and the current connection, is attached: this is what excludes an event of a connection that an
earlier event of the round closed and destroyed), `TimerInv`, `DiedInv` (no assert of the maps ever fails: what ends the process is the assert in `retrieve`
or SIGPIPE), `GuardInv`, `PlainInv`, `UnreadInv`.

The proof takes the handlers first: `After` and `Handshaken` bound the outcomes each handler of `Connection` may make of a connection and
its socket; `EffectObjects` and `EffectTimers` say what `Effect` then does to the maps, the functors and the timers; every action is an
instance of these.

The last two theorems, like `OpenKeepsATimer`, are about plain connections, and so are the properties they name, because the code does not keep them with
TLS: `handleWrite` calls `SSL_shutdown` with output pending, after the handshake only `SSL_pending` is asked, and a handshake that wants to write
gives up the interest in input (section 5). `Reactor`'s `TypeOK` is not among the theorems: it also says that `msgs` holds tokens, and `msgs` is filled by `SelectSeq`, of
which the provers know nothing. The types the invariant needs are `ObjectTypes` and `RoundTypes`.

### 4.6 The catalogue

`CatalogProofs`, for any number of threads, problems and favourites, lists of tags of any length, and an end of the process between any two calls of
the engine:

| Theorem | Property |
|---|---|
| `FreshIds` | `IdIsFresh`: no create stores over a record or under a listed id |
| `AnswersStand` | `AnsweredIsKept`: what a client was told is stored and listed until it is undone |
| `IndexesListRecords` | `IndexesAgree`: unless a handler was cut short, indexes and records agree whenever the mutex is free |
| `RemovalLeavesNone` | `RemovalIsComplete`: no listed favourite keeps a deleted problem |
| `ReadersMissNothing` | `ReadersSeeWhatStands`: a reader shows all that stood while it read |
| `TagsAreRight` | `TagsFollowAlgorithm` |
| `TypeCorrect` | `TypeOK` |

The invariant: `StoreInv` (ids come from the counters, which never go back; an index lists none twice; what was answered stands), `MutexInv` (the
holder of `data_mutex`, and nobody else, is inside a changing handler), `HandlerInv` (where a handler stands, what its locals remember of the engine
is still true; by `MutexInv` this matters for one thread only), `AgreeInv` (as long as nothing was cut short, records and index differ by exactly what the handler
inside has still to do) and `ReaderInv` (what a reader is sure of is shown already or still before it). A write under
the mutex disturbs readers in one way only: a record may vanish, and then it was not among what they were sure of.

`RemoveOld`, `AddNew` and `Without` are folds over lists. That they do what `TagsFollowAlgorithm` says follows from lemmas about each pass
(`WithoutRuns`, `RemoveOldRuns`, `AddNewRuns`).

### 4.7 The pointers of the JSON builder

`JsonParserProofs`, for texts of any length and nesting: `ParserKeepsItsPointers`, `ParseInit(...) /\ [][ParseStep]_parseVars => []PointersAreLive`.
`json_sax_dom_parser` keeps raw pointers (`ref_stack`, `object_element`) into vectors and maps that grow while it does. No pointer is ever to
a value that was moved away; the stack is the path of the open containers from the root, of the types `sax_parse_internal` counts in its
own stack; where a member's value is read, `object_element` is a member of the innermost object; no element is in two places.

The invariant (`ParserInv`) orders the addresses. `emplace_back` moves the elements of the innermost open array and nothing else. They
lie behind it (`IsBelow`) and the open containers before it (`Stack`), so that no pointer of the stack is to one of them; that nothing else leads to
them is `Heap` (what containers hold is alive and in one place). `IsBelow` is claimed of open containers only: one that is closed may have been moved behind its own
elements. `Fitting` relates the stack to the parser, by what it expects next (`Opened` has the container that is begun and not yet counted).

The parse steps of `Json` are `ParseStep`. `PointersAreLive` itself is not among the properties of `json_run`: a dangling pointer would build a wrong
value, which `ParserAcceptsJson` sees there.

### 4.8 Assumptions, and induction

The theorems rest on the named assumptions of their modules (`ConstantsAssumption`, `ArchiveAssumption`, `BufferAssumption`, `BytesAssumption`,
`LogFileAssumption`, `KeyOrderAssumption`, `FilesAssumption`, `RequestsAssumption`), which TLC evaluates in every run. They say that constants are of their kind and that special values (`NoConn`, `NoThread`, `Absent`)
are none of the ordinary ones; none restricts what the code may do.

The library's induction theorems take an operator and cannot be instantiated here. `SequenceLemmas` therefore derives induction over the natural
numbers for a *set* (`SetInduction`, from the least number that is not in it), and with it the existence and the equations of the functions behind
`FlattenSeq` and `FoldLeft`. Statements "for all lists" are then sets of lengths.

### 4.9 What is only model-checked

- Liveness under fairness (`CallsEnd`, the liveness properties of Reactor, AsyncLogging and Server): out of the prover's reach.
- `ParserAcceptsJson`, `DumpIsRead` and `BinaryIsRead`: they compare with definitions that are recursive in the document, which takes induction
  over data and RECURSIVE operators.
- `Reactor`'s `TypeOK`, see 4.5.

## 5. Where the code departs from what it says

Each of these has a run in which TLC finds the violation, and a finding in PROJECT.json:

- `engine_badtail` / `AppendedWhereIndexed`: `db_engine.cpp:206-209` says that resetting the write offset after a bad tail makes
  the next append overwrite it. The descriptor is `O_APPEND`: the record goes behind the bad bytes, the index in front.
  (Two threads, two keys, 8 units, kills and torn writes.)
- `reactor_slow` / `SlowReaderIsSurvived`: `connection.cpp:341` provides for a full kernel buffer, but the result of `write` is
  in a `size_t`; -1 is taken for a huge count and `Buffer::retrieve`'s assert ends the process. (One connection.)
- `request_body` / `BodyIsWhole`: `http_request.cpp:73` says the body is read as Content-Length says; `parse` declares the request
  complete even if the body has not arrived, and the body is then read as the next request line. (Two requests.)

Seen while modelling, represented in the models, without a run of their own: `Get` of a key in an archived file reads the active
one (`db_engine.cpp:328`); LOG_FATAL's line is output twice and then lost in memory by `abort` (`logger.cpp:48`); `stop` right
after `start` trips `threadFunc`'s assert; the idle timer fired during a TLS handshake is spent; a connection that is half closed by the server stays until the loop ends,
because nothing reads its end of stream and its timer was cancelled (`connection.cpp:210`); a handshake that once wanted to
write never enables reading again, and one that ends leaves a request that arrived with its last flight in the kernel unread, because
only `SSL_pending` is asked (`connection.cpp:104`); a TLS response that waits for the socket when the connection is shut down is not sent any more, because
`handleWrite` tests `kDisconnecting` before it looks at the buffer (`connection.cpp:289`); requests behind one that closes are handled and their answers dropped; equal tags leave nulls
among the tags; `stoi` exceptions end the process; a delete cut short is never finished by a later one; `makeSpace` moves a wrong range
(`buffer.cpp:37`); `tied_` of the accept channel is read uninitialised (`channel.cpp:11`); `quit` does not wake a loop up, so that a
certificate that does not load leaves main waiting in `join` (`event_loop.cpp:84`); an `accept` that fails leaves the rest of the
backlog to the next connection (`server.cpp:92`). Also read, and outside what the models tell apart: comments behind a value are
stripped in `[routes]` only, so that `log_level = DEBUG ; ...` in `server.ini:13` is no known level; several error answers of the
catalogue have no Content-Length on a connection that is kept alive (`handlers_algo.cpp:339`, `:401`, `:415`); a query is decoded
twice. The `hazards` list has the lines of those the models cover.

## 6. Not modelled

CRC collisions and the CRC table's lazy initialisation; the growth of poll's event array and the heap of timers; the
options and signals of `main`; URL decoding, query strings and the form parser (they are pure text functions, abstracted into the kinds of
request); how a response is put into text, content types, the file system under static files; the typed getters of `Config`;
formatting of log lines and times; failing engine writes under the catalogue; the migration tool; of the JSON library the value
operations and iterators, JSON pointers, patches and `flatten`, comments, parser callbacks, the SAX interface and BJData's annotated arrays;
assets. PROJECT.json lists every component with its status and reason.

## 7. Plan

The order follows the weight of the behaviour: data that must survive first, then the loop everything runs on, then what
runs on it. Done: KVStore, Engine, EngineRefinement; Reactor;
AsyncLogging with LogFile; Catalog; Buffer and HttpRequest; Server; Router and Site; the Json modules; and the proofs of section 4,
the last of them those of Site (with Router and HttpRequest under it) and of the JSON parser's pointers.

Models that would extend this, most useful first:

1. Catalog with an engine that fails (`kIOError`), and the migration tool as one more writer.
2. JSON pointers, patches and `merge_patch` over the values `JsonParser` builds; comments in the lexer.
3. The form parser and URL decoding between HttpRequest and Router.

Theorems still to prove, most important first:

1. The refinement for engines that start with archived files, restricted to `Get`s of keys in the active one, and across torn tails up to the
   first append behind them.
2. For TLS connections, the exact conditions under which the alert overtakes output and under which input stays unread.
3. LogFile's size bound as a function of `roll` and the largest line.
4. `dump_escaped` never writes past its `string_buffer`: the definition has to leave the modules that declare RECURSIVE operators first.
