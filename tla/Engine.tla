------------------------------- MODULE Engine -------------------------------
(***************************************************************************)
(* TFDB, the log-structured engine of src/src/db: an append-only data file *)
(* plus an in-memory index from keys to record positions.                  *)
(*                                                                         *)
(* A file is a sequence of units.  A record is RecLen units long: the      *)
(* fixed header, one unit of key and ValueSize of value; unit i of record  *)
(* r is [rec |-> r, part |-> i].  A reader finds a record at an offset     *)
(* exactly when all of its units follow, in order: that is what the length *)
(* checks and the CRC of the code decide (CRC collisions are ignored).     *)
(***************************************************************************)
EXTENDS Integers, Sequences

CONSTANTS
    Threads, Keys, Values, EmptyKey, NoValue,
    NoThread,
    HeaderSize,   \* kMaxHeaderSize, in units
    ValueSize,    \* ValueSize[v]: length of v, in units
    DiskSize,     \* units the disk can hold: a write that does not fit fails
    Archive,      \* contents of the data files below the active one, by id
    Faults        \* which of "error", "short", "crash", "tear", "power" may happen

ASSUME ConstantsAssumption ==
    /\ HeaderSize \in Nat \ {0}
    /\ ValueSize \in [Values -> Nat]
    /\ DiskSize \in Nat
    /\ NoValue \notin Values
    /\ NoThread \notin Threads
    /\ EmptyKey \notin Keys

NORMAL == 1
DELETED == 2

\* LogRecord: a tombstone carries no value.
Records ==
    [type : {NORMAL}, key : Keys, value : Values]
    \cup [type : {DELETED}, key : Keys, value : {NoValue}]

RecLen(rec) == HeaderSize + 1 + (IF rec.type = NORMAL THEN ValueSize[rec.value] ELSE 0)
Unit(rec, i) == [rec |-> rec, part |-> i]
Units == [rec : Records, part : Nat \ {0}]

\* Codec::Encode
Encode(rec) == [i \in 1..RecLen(rec) |-> Unit(rec, i)]

\* Codec::DecodeHeader, the body read and the CRC check, at an offset of file f.
IntactAt(f, offset) ==
    /\ offset + 1 \in 1..Len(f)
    /\ LET rec == f[offset + 1].rec IN
       /\ offset + RecLen(rec) <= Len(f)
       /\ \A i \in 1..RecLen(rec) : f[offset + i] = Unit(rec, i)
RecordAt(f, offset) == f[offset + 1].rec

ASSUME ArchiveAssumption == Archive \in Seq(Seq(Units))

ActiveId == Len(Archive)
Positions == [file_id : 0..ActiveId, offset : Nat]
Position(f, o) == [file_id |-> f, offset |-> o]
NoPos == [file_id |-> ActiveId + 1, offset |-> 0]   \* not in the index

VARIABLES
    file,       \* content of the active file on disk
    synced,     \* units of it that fsync has made durable
    writeOff,   \* DBFile::write_off_ of the active file
    index,      \* Indexer::index_, NoPos where the key is absent
    mutex,      \* holder of Engine::mutex_
    phase,      \* "down", "load" (Open is replaying), "open", "closed"
    scan,       \* where the replay of Engine::Open stands
    pc, op, pos, ans

disk == <<file, synced>>
local == <<pc, op, pos, ans>>
vars == <<file, synced, writeOff, index, mutex, phase, scan, pc, op, pos, ans>>

\* The file of an id, when f is the active one.
File(f, id) == IF id = ActiveId THEN f ELSE Archive[id + 1]

Answer(s, v) == [status |-> s, value |-> v]
NoAnswer == Answer("kInvalid", NoValue)
NoOp == [op |-> "get", key |-> EmptyKey, value |-> NoValue]
Ops ==
    [op : {"put"}, key : Keys \cup {EmptyKey}, value : Values]
    \cup [op : {"get", "delete"}, key : Keys \cup {EmptyKey}, value : {NoValue}]

\* The record a writing thread appends.
OpRecord(t) ==
    [type |-> IF op[t].op = "put" THEN NORMAL ELSE DELETED,
     key |-> op[t].key, value |-> op[t].value]

NoIndex == [k \in Keys |-> NoPos]
Quiet ==
    /\ pc' = [t \in Threads |-> "idle"]
    /\ op' = [t \in Threads |-> NoOp]
    /\ pos' = [t \in Threads |-> NoPos]
    /\ ans' = [t \in Threads |-> NoAnswer]

Init ==
    /\ file = <<>>
    /\ synced = 0
    /\ writeOff = 0
    /\ index = NoIndex
    /\ mutex = NoThread
    /\ phase = "down"
    /\ scan = Position(0, 0)
    /\ pc = [t \in Threads |-> "idle"]
    /\ op = [t \in Threads |-> NoOp]
    /\ pos = [t \in Threads |-> NoPos]
    /\ ans = [t \in Threads |-> NoAnswer]

-----------------------------------------------------------------------------
(* Engine::Open: a new Engine object opens every data file and replays it. *)

Open ==
    /\ phase \in {"down", "closed"}
    /\ \A t \in Threads : pc[t] = "idle"
    /\ phase' = "load"
    /\ writeOff' = Len(file)
    /\ index' = NoIndex
    /\ scan' = Position(0, 0)
    /\ mutex' = NoThread
    /\ Quiet
    /\ UNCHANGED disk

\* Faulty variants: the offset advances before the record is indexed, or never.
LoadRecordIndexesNext ==
    /\ phase = "load"
    /\ IntactAt(File(file, scan.file_id), scan.offset)
    /\ LET rec == RecordAt(File(file, scan.file_id), scan.offset)
           next == [scan EXCEPT !.offset = @ + RecLen(rec)] IN
       /\ index' = [index EXCEPT ![rec.key] = IF rec.type = NORMAL THEN next ELSE NoPos]
       /\ scan' = next
    /\ UNCHANGED <<disk, writeOff, mutex, phase, local>>

\* One round of LoadIndexFromFile's loop on a good record.
LoadRecord ==
    /\ phase = "load"
    /\ IntactAt(File(file, scan.file_id), scan.offset)
    /\ LET rec == RecordAt(File(file, scan.file_id), scan.offset) IN
       /\ index' = [index EXCEPT ![rec.key] = IF rec.type = NORMAL THEN scan ELSE NoPos]
       /\ scan' = [scan EXCEPT !.offset = @ + RecLen(rec)]
    /\ UNCHANGED <<disk, writeOff, mutex, phase, local>>

\* The end of a file, or the first record of it that is not good.
LoadNextFile ==
    /\ phase = "load"
    /\ scan.file_id < ActiveId
    /\ ~IntactAt(File(file, scan.file_id), scan.offset)
    /\ scan' = Position(scan.file_id + 1, 0)
    /\ UNCHANGED <<disk, writeOff, index, mutex, phase, local>>

\* Of the active file, the bad tail is what SetWriteOffset leaves behind.
LoadDone ==
    /\ phase = "load"
    /\ scan.file_id = ActiveId
    /\ ~IntactAt(file, scan.offset)
    /\ writeOff' = scan.offset
    /\ phase' = "open"
    /\ UNCHANGED <<disk, index, mutex, scan, local>>

-----------------------------------------------------------------------------
(* Calls and answers.  ans[t] is what t's last operation returned.         *)

Serving == phase \in {"open", "closed"}

Call(t, o) ==
    /\ Serving
    /\ pc[t] = "idle"
    /\ ans' = [ans EXCEPT ![t] = NoAnswer]      \* kInvalid is the answer to an empty key
    /\ IF o.key = EmptyKey
       THEN UNCHANGED <<pc, op>>
       ELSE /\ op' = [op EXCEPT ![t] = o]
            /\ pc' = [pc EXCEPT ![t] = IF o.op = "get" THEN "lookup" ELSE "lock"]
    /\ UNCHANGED <<disk, writeOff, index, mutex, phase, scan, pos>>

\* The operation returns; its locals are gone.
Return(t, a) ==
    /\ pc' = [pc EXCEPT ![t] = "idle"]
    /\ ans' = [ans EXCEPT ![t] = a]
    /\ op' = [op EXCEPT ![t] = NoOp]
    /\ pos' = [pos EXCEPT ![t] = NoPos]

\* Faulty variant: the lock is not waited for.
LockWithoutWaiting(t) ==
    /\ pc[t] = "lock"
    /\ mutex' = t
    /\ pc' = [pc EXCEPT ![t] = IF op[t].op = "put" THEN "append" ELSE "check"]
    /\ UNCHANGED <<disk, writeOff, index, phase, scan, op, pos, ans>>

\* std::lock_guard in Put and Delete.
Lock(t) ==
    /\ pc[t] = "lock"
    /\ mutex = NoThread
    /\ mutex' = t
    /\ pc' = [pc EXCEPT ![t] = IF op[t].op = "put" THEN "append" ELSE "check"]
    /\ UNCHANGED <<disk, writeOff, index, phase, scan, op, pos, ans>>

\* Delete looks the key up first.
CheckPresent(t) ==
    /\ pc[t] = "check"
    /\ index[op[t].key] # NoPos
    /\ pc' = [pc EXCEPT ![t] = "append"]
    /\ UNCHANGED <<disk, writeOff, index, mutex, phase, scan, op, pos, ans>>

CheckAbsent(t) ==
    /\ pc[t] = "check"
    /\ index[op[t].key] = NoPos
    /\ mutex' = NoThread
    /\ Return(t, Answer("kKeyNotFound", NoValue))
    /\ UNCHANGED <<disk, writeOff, index, phase, scan>>

\* Faulty variant: the position is taken after the write.
AppendRecordThenPosition(t) ==
    /\ pc[t] = "append"
    /\ phase = "open"
    /\ LET bytes == Encode(OpRecord(t)) IN
       /\ Len(file) + Len(bytes) <= DiskSize
       /\ file' = file \o bytes
       /\ writeOff' = writeOff + Len(bytes)
    /\ pos' = [pos EXCEPT ![t] = Position(ActiveId, writeOff')]
    /\ pc' = [pc EXCEPT ![t] = "index"]
    /\ UNCHANGED <<synced, index, mutex, phase, scan, op, ans>>

\* AppendLogRecord: the position is where write_off_ stands; the descriptor is
\* O_APPEND, so the bytes go to the end of the file wherever that is.
AppendRecord(t) ==
    /\ pc[t] = "append"
    /\ phase = "open"
    /\ LET bytes == Encode(OpRecord(t)) IN
       /\ Len(file) + Len(bytes) <= DiskSize
       /\ file' = file \o bytes
       /\ writeOff' = writeOff + Len(bytes)
    /\ pos' = [pos EXCEPT ![t] = Position(ActiveId, writeOff)]
    /\ pc' = [pc EXCEPT ![t] = "index"]
    /\ UNCHANGED <<synced, index, mutex, phase, scan, op, ans>>

\* Faulty variant: the offset advances although nothing was written.
AppendRecordFailsButAdvances(t) ==
    /\ pc[t] = "append"
    /\ Len(file) + RecLen(OpRecord(t)) > DiskSize
    /\ writeOff' = writeOff + RecLen(OpRecord(t))
    /\ mutex' = NoThread
    /\ Return(t, Answer("kIOError", NoValue))
    /\ UNCHANGED <<disk, index, phase, scan>>

\* write returned -1: an I/O error, no space at all, or a closed descriptor.
AppendRecordFails(t) ==
    /\ pc[t] = "append"
    /\ \/ "error" \in Faults
       \/ phase = "closed"
       \/ Len(file) + RecLen(OpRecord(t)) > DiskSize
    /\ mutex' = NoThread
    /\ Return(t, Answer("kIOError", NoValue))
    /\ UNCHANGED <<disk, writeOff, index, phase, scan>>

\* write stored only the first n units: an answer of kIOError, and a torn tail.
AppendRecordShort(t) ==
    /\ pc[t] = "append"
    /\ phase = "open"
    /\ "short" \in Faults
    /\ \E n \in 1..(RecLen(OpRecord(t)) - 1) :
          /\ Len(file) + n <= DiskSize
          /\ file' = file \o SubSeq(Encode(OpRecord(t)), 1, n)
    /\ mutex' = NoThread
    /\ Return(t, Answer("kIOError", NoValue))
    /\ UNCHANGED <<synced, writeOff, index, phase, scan>>

\* Faulty variant: Delete leaves the key in the index.
UpdateIndexKeepsDeleted(t) ==
    /\ pc[t] = "index"
    /\ index' = [index EXCEPT ![op[t].key] = pos[t]]
    /\ mutex' = NoThread
    /\ Return(t, Answer("kSuccess", NoValue))
    /\ UNCHANGED <<disk, writeOff, phase, scan>>

\* Indexer::Put or Indexer::Delete, and the release of the mutex on return.
UpdateIndex(t) ==
    /\ pc[t] = "index"
    /\ index' = [index EXCEPT ![op[t].key] = IF op[t].op = "put" THEN pos[t] ELSE NoPos]
    /\ mutex' = NoThread
    /\ Return(t, Answer("kSuccess", NoValue))
    /\ UNCHANGED <<disk, writeOff, phase, scan>>

\* Faulty variant: Get waits for the writers.
LookupUnderMutex(t) ==
    /\ pc[t] = "lookup"
    /\ mutex = NoThread
    /\ IF index[op[t].key] = NoPos
       THEN Return(t, Answer("kKeyNotFound", NoValue))
       ELSE /\ pos' = [pos EXCEPT ![t] = index[op[t].key]]
            /\ pc' = [pc EXCEPT ![t] = "read"]
            /\ UNCHANGED <<op, ans>>
    /\ UNCHANGED <<disk, writeOff, index, mutex, phase, scan>>

\* Get takes no engine lock: Indexer::Get, then a pread at the position found.
Lookup(t) ==
    /\ pc[t] = "lookup"
    /\ IF index[op[t].key] = NoPos
       THEN Return(t, Answer("kKeyNotFound", NoValue))
       ELSE /\ pos' = [pos EXCEPT ![t] = index[op[t].key]]
            /\ pc' = [pc EXCEPT ![t] = "read"]
            /\ UNCHANGED <<op, ans>>
    /\ UNCHANGED <<disk, writeOff, index, mutex, phase, scan>>

\* What Get answers from a position: ReadLogRecord finds the file of the
\* position but reads the active one, and compares no key.
ReadAnswer(p) ==
    IF phase = "closed" \/ ~IntactAt(file, p.offset) THEN Answer("kDataCorrupted", NoValue)
    ELSE IF RecordAt(file, p.offset).type = DELETED THEN Answer("kKeyNotFound", NoValue)
    ELSE Answer("kSuccess", RecordAt(file, p.offset).value)

ReadLogRecord(t) ==
    /\ pc[t] = "read"
    /\ Return(t, ReadAnswer(pos[t]))
    /\ UNCHANGED <<disk, writeOff, index, mutex, phase, scan>>

-----------------------------------------------------------------------------
(* Close flushes and closes the files.  Its callers have no operation      *)
(* running (test_phasel.cpp is the only one).                              *)
Close ==
    /\ phase = "open"
    /\ \A t \in Threads : pc[t] = "idle"
    /\ phase' = "closed"
    /\ synced' = Len(file)
    /\ UNCHANGED <<file, writeOff, index, mutex, scan, local>>

\* The process dies.  What write accepted stays in the page cache; a write in
\* progress may have stored a prefix ("tear"); a power failure keeps only some
\* prefix of what was not synced ("power").
Crash ==
    /\ phase # "down"
    /\ "crash" \in Faults
    /\ \/ UNCHANGED disk
       \/ /\ "tear" \in Faults
          /\ phase = "open"
          /\ \E t \in Threads : \E n \in 1..(RecLen(OpRecord(t)) - 1) :
                /\ pc[t] = "append"
                /\ Len(file) + n <= DiskSize
                /\ file' = file \o SubSeq(Encode(OpRecord(t)), 1, n)
          /\ UNCHANGED synced
       \/ /\ "power" \in Faults
          /\ \E n \in synced..Len(file) : file' = SubSeq(file, 1, n)
          /\ synced' = Len(file')
    /\ phase' = "down"
    /\ writeOff' = 0
    /\ index' = NoIndex
    /\ mutex' = NoThread
    /\ scan' = Position(0, 0)
    /\ Quiet

Step(t) ==
    \/ Lock(t) \/ CheckPresent(t) \/ CheckAbsent(t)
    \/ AppendRecord(t) \/ AppendRecordFails(t) \/ AppendRecordShort(t)
    \/ UpdateIndex(t) \/ Lookup(t) \/ ReadLogRecord(t)

Load == LoadRecord \/ LoadNextFile \/ LoadDone

Next ==
    \/ Open \/ Load \/ Close \/ Crash
    \/ \E t \in Threads : Step(t) \/ \E o \in Ops : Call(t, o)

Spec == Init /\ [][Next]_vars

\* The operating system keeps scheduling the thread that replays the log and the
\* threads inside an operation; nothing obliges a caller to call, or a fault to come.
Fairness == WF_vars(Load) /\ \A t \in Threads : WF_vars(Step(t))
FairSpec == Spec /\ Fairness

-----------------------------------------------------------------------------
TypeOK ==
    /\ file \in Seq(Units)
    /\ synced \in 0..Len(file)
    /\ writeOff \in 0..Len(file)
    /\ index \in [Keys -> Positions \cup {NoPos}]
    /\ mutex \in Threads \cup {NoThread}
    /\ phase \in {"down", "load", "open", "closed"}
    /\ scan \in Positions
    /\ pc \in [Threads -> {"idle", "lock", "check", "append", "index", "lookup", "read"}]
    /\ op \in [Threads -> Ops]
    /\ pos \in [Threads -> Positions \cup {NoPos}]
    /\ ans \in [Threads -> [status : {"kSuccess", "kKeyNotFound", "kDataCorrupted",
                                      "kIOError", "kInvalid"},
                            value : Values \cup {NoValue}]]

-----------------------------------------------------------------------------
(* What the log means, and how the index and the readers relate to it.     *)

\* The first n units of f are whole records, one after the other.
WellFormed(f, n) ==
    \A i \in 1..n : LET rec == f[i].rec
                        start == i - f[i].part IN
        /\ start >= 0
        /\ f[i].part <= RecLen(rec)
        /\ start + RecLen(rec) <= n
        /\ \A j \in 1..RecLen(rec) : f[start + j] = Unit(rec, j)

\* The positions of the records a replay of the files reaches.
Logged(f, p) ==
    LET g == File(f, p.file_id)
        rec == RecordAt(g, p.offset) IN
    /\ p.offset + 1 \in 1..Len(g)
    /\ g[p.offset + 1].part = 1
    /\ p.offset + RecLen(rec) <= Len(g)
    /\ WellFormed(g, p.offset + RecLen(rec))
LogPositions(f) ==
    UNION {{p \in {Position(i, o) : o \in 0..Len(File(f, i))} : Logged(f, p)} : i \in 0..ActiveId}
Record(f, p) == RecordAt(File(f, p.file_id), p.offset)

Before(p, q) ==
    \/ p.file_id < q.file_id
    \/ p.file_id = q.file_id /\ p.offset < q.offset

\* p is the latest record of key k before the position limit.
Latest(f, k, p, limit) ==
    /\ p \in LogPositions(f)
    /\ Record(f, p).key = k
    /\ Before(p, limit)
    /\ \A q \in LogPositions(f) :
          Record(f, q).key = k /\ Before(q, limit) => ~Before(p, q)

\* idx is the index that replaying the records before limit builds.
IsReplay(f, idx, limit) ==
    \A k \in Keys :
        /\ idx[k] # NoPos => /\ Latest(f, k, idx[k], limit)
                            /\ Record(f, idx[k]).type = NORMAL
        /\ idx[k] = NoPos =>
              \A p \in LogPositions(f) : Latest(f, k, p, limit) => Record(f, p).type = DELETED

\* No torn tail: the engine's write offset is the end of the file.
Untorn == writeOff = Len(file)

\* While Open replays and, as long as the file has no torn tail, at every moment of
\* the life of the engine, the index maps each key to its latest record in the log, or
\* to nothing if that record is a tombstone: a restart would rebuild the same index
\* (LoadIndexFromFile against Put and Delete).  It lags the log by the one record
\* whose writer has not indexed it yet.
IndexMatchesLog ==
    /\ phase = "load" => IsReplay(file, index, scan)
    /\ Serving /\ Untorn =>
        /\ \A t \in Threads : pc[t] = "index" => IsReplay(file, index, pos[t])
        /\ (\A t \in Threads : pc[t] # "index") =>
              IsReplay(file, index, Position(ActiveId, writeOff))

\* Get reads without the engine's lock: whatever writers did since its lookup, the
\* position it found still holds a complete live record of the key it asked for
\* (db_engine.cpp:241-250).  Positions in archived files are out of it: ReadLogRecord reads
\* the active file whatever file_id says.
LocatedRecordReadable ==
    \A t \in Threads :
        pc[t] = "read" /\ Untorn /\ pos[t].file_id = ActiveId =>
            /\ IntactAt(file, pos[t].offset)
            /\ RecordAt(file, pos[t].offset).key = op[t].key
            /\ RecordAt(file, pos[t].offset).type = NORMAL

\* A torn tail, from a short write or from a crash in the middle of one, never damages
\* what lies before it: an index entry into the whole records at the start of the file
\* leads to a live record of its key.
PrefixSurvivesTear ==
    \A k \in Keys :
        LET o == index[k].offset IN
        index[k].file_id = ActiveId
        /\ (\E n \in 1..Len(file) : o < n /\ WellFormed(file, n)) =>
            /\ IntactAt(file, o)
            /\ RecordAt(file, o).key = k
            /\ RecordAt(file, o).type = NORMAL

\* db_engine.cpp:206-209 says that after a bad tail "the next Append overwrites the bad
\* data": the record a writer is about to index then lies at the position it indexes.
AppendedWhereIndexed ==
    \A t \in Threads :
        pc[t] = "index" => /\ IntactAt(file, pos[t].offset)
                           /\ RecordAt(file, pos[t].offset) = OpRecord(t)

\* No call waits for ever: a writer that holds the engine's mutex releases it, even when
\* its write fails, and Get, which never waits for a writer, returns.
CallsEnd ==
    /\ mutex # NoThread ~> mutex = NoThread
    /\ \A t \in Threads : pc[t] = "lookup" ~> pc[t] = "idle"

-----------------------------------------------------------------------------
(* The rest of the inductive invariant.                                    *)

\* A thread inside an operation runs one whose key is not empty.
OpInv ==
    \A t \in Threads :
        /\ pc[t] # "idle" => op[t].key \in Keys
        /\ pc[t] \in {"lock", "append", "index"} => op[t].op \in {"put", "delete"}
        /\ pc[t] = "check" => op[t].op = "delete"
        /\ pc[t] \in {"lookup", "read"} => op[t].op = "get"

\* The threads between taking and releasing the mutex are its holder, if any.
LockInv == \A t \in Threads : pc[t] \in {"check", "append", "index"} <=> mutex = t

\* No operation runs before Open returns.
QuietInv == phase \in {"down", "load"} => \A t \in Threads : pc[t] = "idle"

\* What has been replayed of a file is whole records.
ScanInv ==
    phase = "load" =>
        /\ scan.offset <= Len(File(file, scan.file_id))
        /\ WellFormed(File(file, scan.file_id), scan.offset)

\* Without a torn tail the whole file is whole records.
TailInv == Serving /\ Untorn => WellFormed(file, Len(file))

\* A record that is written and not yet indexed is the last of the file.
PendingInv ==
    \A t \in Threads : pc[t] = "index" =>
        /\ phase = "open"
        /\ pos[t].file_id = ActiveId
        /\ pos[t].offset + RecLen(OpRecord(t)) = writeOff
        /\ Untorn => IntactAt(file, pos[t].offset) /\ RecordAt(file, pos[t].offset) = OpRecord(t)

\* pos[t] is a real position while t reads at it.
ReadInv == \A t \in Threads : pc[t] = "read" => pos[t] # NoPos

IInv ==
    /\ TypeOK /\ OpInv /\ LockInv /\ QuietInv /\ ScanInv /\ TailInv
    /\ PendingInv /\ ReadInv /\ IndexMatchesLog /\ LocatedRecordReadable
\* Behind a torn tail no record is whole again, so none of them counts from where the
\* engine writes, or from where a record is to be indexed.
TornInv ==
    Serving =>
        /\ \A n \in 1..Len(file) : WellFormed(file, n) => n <= writeOff
        /\ \A t \in Threads : pc[t] = "index" /\ ~Untorn =>
              \A n \in 1..Len(file) : WellFormed(file, n) => n <= pos[t].offset
=============================================================================
