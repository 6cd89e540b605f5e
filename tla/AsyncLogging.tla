---------------------------- MODULE AsyncLogging ----------------------------
(***************************************************************************)
(* The asynchronous log: threads append lines to the front buffer under a  *)
(* mutex, one back-end thread swaps the buffers out and writes them to a   *)
(* LogFile.  A buffer is the sequence of its lines and holds at most       *)
(* Capacity of them; a line is the number the run gave it, and has one     *)
(* byte.  What stdio still buffers of the file is not on disk.             *)
(***************************************************************************)
EXTENDS LogFile, Sequences, SequencesExt

CONSTANTS
    Capacity,   \* lines a FixedBuffer holds
    MaxLines    \* bound on the lines appended in a behaviour

ASSUME ConstantsAssumption == Capacity \in Nat \ {0} /\ MaxLines \in Nat

NoBuffer == <<0>>   \* a BufferPtr that was moved from: lines count from 1

VARIABLES
    current, next,        \* current_buffer_, next_buffer_
    buffers,              \* buffers_
    newBuffer1, newBuffer2, buffersToWrite,   \* locals of threadFunc
    written,              \* how many of the buffers to write have been written
    running,              \* running_
    pc,                   \* where threadFunc stands
    file, flushed,        \* lines given to fwrite (in all files), and how many are on disk
    log,                  \* every line appended so far
    kept,                 \* how many there were when stop was called
    fatal, outputs,       \* the line of a LOG_FATAL, and how often it went out
    died                  \* "no", "assert", "abort"

front == <<current, next, buffers>>
back == <<newBuffer1, newBuffer2, buffersToWrite, written>>
disk == <<file, flushed, logFileVars>>
vars == <<front, back, running, pc, disk, log, kept, fatal, outputs, died>>

Init ==
    /\ current = <<>> /\ next = <<>> /\ buffers = <<>>
    /\ newBuffer1 = NoBuffer /\ newBuffer2 = NoBuffer /\ buffersToWrite = <<>> /\ written = 0
    /\ running = FALSE /\ pc = "none"
    /\ file = <<>> /\ flushed = 0 /\ LogFileInit
    /\ log = <<>> /\ kept = 0
    /\ fatal = 0 /\ outputs = 0 /\ died = "no"

-----------------------------------------------------------------------------
(* The front end.                                                          *)

\* Faulty variant: the line that finds the buffer full is not written to the new one.
AppendLineLosesOne(line) ==
    /\ log' = Append(log, line)
    /\ IF Len(current) < Capacity
       THEN current' = Append(current, line) /\ UNCHANGED <<next, buffers>>
       ELSE buffers' = Append(buffers, current) /\ current' = <<>> /\ next' = NoBuffer

\* AsyncLogging::append, under the mutex the back end takes to swap.
AppendLine(line) ==
    /\ log' = Append(log, line)
    /\ IF Len(current) < Capacity
       THEN /\ current' = Append(current, line)
            /\ UNCHANGED <<next, buffers>>
       ELSE /\ buffers' = Append(buffers, current)
            /\ current' = <<line>>
            /\ next' = NoBuffer

\* The back end holds the mutex over its last writes.
MutexIsFree == pc # "draining"

\* ~Logger below FATAL.
Log ==
    /\ died = "no" /\ MutexIsFree
    /\ Len(log) < MaxLines
    /\ AppendLine(Len(log) + 1)
    /\ UNCHANGED <<back, running, pc, disk, kept, fatal, outputs, died>>

\* ~Logger of LOG_FATAL: the line goes out, goes out again, and the process aborts.
LogFatal ==
    /\ died = "no" /\ outputs = 0 /\ MutexIsFree
    /\ Len(log) < MaxLines
    /\ AppendLine(Len(log) + 1)
    /\ fatal' = Len(log) + 1
    /\ outputs' = 1
    /\ UNCHANGED <<back, running, pc, disk, kept, died>>

LogFatalAgain ==
    /\ died = "no" /\ outputs = 1 /\ MutexIsFree
    /\ AppendLine(fatal)
    /\ outputs' = 2
    /\ UNCHANGED <<back, running, pc, disk, kept, fatal, died>>

Abort ==
    /\ died = "no" /\ outputs = 2
    /\ died' = "abort"
    /\ UNCHANGED <<front, back, running, pc, disk, log, kept, fatal, outputs>>

Start ==
    /\ died = "no" /\ pc = "none"
    /\ running' = TRUE
    /\ pc' = "begin"
    /\ UNCHANGED <<front, back, disk, log, kept, fatal, outputs, died>>

\* The notification may be missed; wait_for's timeout stands in for it.
Stop ==
    /\ died = "no" /\ running
    /\ running' = FALSE
    /\ kept' = Len(log)
    /\ UNCHANGED <<front, back, pc, disk, log, fatal, outputs, died>>

-----------------------------------------------------------------------------
(* The back end: threadFunc.                                               *)

\* It asserts that it still runs, opens the LogFile, then takes two spare buffers.
Begin ==
    /\ died = "no" /\ pc = "begin"
    /\ died' = IF running THEN "no" ELSE "assert"
    /\ newBuffer1' = <<>> /\ newBuffer2' = <<>>
    /\ pc' = "loop"
    /\ UNCHANGED <<front, buffersToWrite, written, running, disk, log, kept, fatal, outputs>>

\* Faulty variant: the loop never looks at running_.
NeverStops ==
    /\ died = "no" /\ pc = "loop"
    /\ pc' = "collect"
    /\ UNCHANGED <<front, back, running, disk, log, kept, fatal, outputs, died>>

\* The loop's condition, and its three asserts.
CheckRunning ==
    /\ died = "no" /\ pc = "loop"
    /\ pc' = IF running THEN "collect" ELSE "drain"
    /\ died' = IF running /\ ~(newBuffer1 = <<>> /\ newBuffer2 = <<>> /\ buffersToWrite = <<>>)
               THEN "assert" ELSE "no"
    /\ UNCHANGED <<front, back, running, disk, log, kept, fatal, outputs>>

\* Faulty variant: the second spare is given away although next_buffer_ is there.
CollectGivesBoth ==
    /\ died = "no" /\ pc = "collect"
    /\ buffersToWrite' = Append(buffers, current)
    /\ buffers' = buffersToWrite
    /\ current' = newBuffer1 /\ next' = newBuffer2
    /\ newBuffer1' = NoBuffer /\ newBuffer2' = NoBuffer
    /\ pc' = "write" /\ written' = 0
    /\ UNCHANGED <<running, disk, log, kept, fatal, outputs, died>>

\* The locked block: at the latest when wait_for times out, everything is taken.
Collect ==
    /\ died = "no" /\ pc = "collect"
    /\ buffersToWrite' = Append(buffers, current)
    /\ buffers' = buffersToWrite
    /\ current' = newBuffer1
    /\ newBuffer1' = NoBuffer
    /\ IF next = NoBuffer
       THEN next' = newBuffer2 /\ newBuffer2' = NoBuffer
       ELSE UNCHANGED <<next, newBuffer2>>
    /\ pc' = "write" /\ written' = 0
    /\ UNCHANGED <<running, disk, log, kept, fatal, outputs, died>>

\* LogFile::append of one buffer.  Closing or flushing the file brings all of it to the
\* disk, and stdio may bring any part of it there at any append.
WriteBuffer(buffer) ==
    /\ \E t \in now..MaxTime : AppendToFile(Len(buffer), t)
    /\ file' = file \o buffer
    /\ flushed' \in (IF Flushes(logFile, logFile') THEN {Len(file')} ELSE flushed..Len(file'))
    /\ written' = written + 1

\* The buffers that were taken are written one after another.
WriteBuffers ==
    /\ died = "no" /\ pc = "write"
    /\ WriteBuffer(buffersToWrite[written + 1])
    /\ pc' = IF written' = Len(buffersToWrite) THEN "recycle" ELSE "write"
    /\ UNCHANGED <<front, newBuffer1, newBuffer2, buffersToWrite, running, log, kept, fatal, outputs, died>>

\* Faulty variant: the buffers are recycled without fflush.
RecycleWithoutFlush ==
    /\ died = "no" /\ pc = "recycle"
    /\ newBuffer1' = <<>> /\ newBuffer2' = <<>>
    /\ buffersToWrite' = <<>> /\ written' = 0
    /\ pc' = "loop"
    /\ UNCHANGED <<front, running, disk, log, kept, fatal, outputs, died>>

\* The written buffers become the spare ones again, then fflush.
Recycle ==
    LET spare == IF Len(buffersToWrite) < 2 THEN Len(buffersToWrite) ELSE 2
        needed == (IF newBuffer1 = NoBuffer THEN 1 ELSE 0) + (IF newBuffer2 = NoBuffer THEN 1 ELSE 0) IN
    /\ died = "no" /\ pc = "recycle"
    /\ died' = IF needed <= spare THEN "no" ELSE "assert"
    /\ newBuffer1' = <<>> /\ newBuffer2' = <<>>
    /\ buffersToWrite' = <<>> /\ written' = 0
    /\ flushed' = Len(file)
    /\ pc' = "loop"
    /\ UNCHANGED <<front, running, file, logFileVars, log, kept, fatal, outputs>>

\* After the loop: a flush, then the mutex is taken.
LeaveLoop ==
    /\ died = "no" /\ pc = "drain"
    /\ flushed' = Len(file)
    /\ pc' = "draining"
    /\ UNCHANGED <<front, back, running, file, logFileVars, log, kept, fatal, outputs, died>>

\* Faulty variant: only the full buffers are written at the end.
FullBuffers == buffers

\* What the front end still holds is written as well.
LastBuffers == buffers \o (IF current \in {NoBuffer, <<>>} THEN <<>> ELSE <<current>>)
Drain ==
    /\ died = "no" /\ pc = "draining"
    /\ written < Len(LastBuffers)
    /\ WriteBuffer(LastBuffers[written + 1])
    /\ UNCHANGED <<front, newBuffer1, newBuffer2, buffersToWrite, running, pc, log, kept, fatal, outputs, died>>

\* The last flush; the mutex is released.
ThreadEnds ==
    /\ died = "no" /\ pc = "draining"
    /\ written = Len(LastBuffers)
    /\ flushed' = Len(file)
    /\ pc' = "done"
    /\ UNCHANGED <<front, back, running, file, logFileVars, log, kept, fatal, outputs, died>>

BackEnd ==
    \/ Begin \/ CheckRunning \/ Collect \/ WriteBuffers \/ Recycle
    \/ LeaveLoop \/ Drain \/ ThreadEnds
Next == Log \/ LogFatal \/ LogFatalAgain \/ Abort \/ Start \/ Stop \/ BackEnd

Spec == Init /\ [][Next]_vars

\* The back-end thread is scheduled, and its wait always ends: wait_for has a timeout.
FairSpec == Spec /\ WF_vars(BackEnd)

-----------------------------------------------------------------------------
Buffer == BoundedSeq(1..MaxLines, Capacity)
After(s, n) == SubSeq(s, n + 1, Len(s))

TypeOK ==
    /\ {current, next, newBuffer1, newBuffer2} \subseteq Buffer \cup {NoBuffer}
    /\ ToSet(buffers) \cup ToSet(buffersToWrite) \subseteq Buffer
    /\ running \in BOOLEAN
    /\ pc \in {"none", "begin", "loop", "collect", "write", "recycle",
              "drain", "draining", "done"}
    /\ flushed \in 0..Len(file)
    /\ kept \in 0..Len(log)
    /\ fatal \in 0..MaxLines /\ outputs \in 0..2
    /\ died \in {"no", "assert", "abort"}

\* Double buffering never runs out: append and the swap always find a buffer in
\* current_buffer_, and the swapped-out ones always replace the spares that went.
NeverWithoutBuffer ==
    /\ current # NoBuffer
    /\ pc \in {"loop", "collect"} => newBuffer1 = <<>> /\ newBuffer2 = <<>>
    /\ running => died # "assert"

\* No line is lost, doubled or reordered on its way through the buffers: the files, the
\* buffers taken and those of the front end, read in this order, are the log.
NothingLostOrReordered ==
    pc # "done" =>
        file \o FlattenSeq(After(buffersToWrite, written))
             \o FlattenSeq(After(Append(buffers, current), IF pc = "draining" THEN written ELSE 0)) = log

\* When stop has joined the thread, every line appended before stop is on disk.
KeptBeforeStop == pc = "done" => flushed >= kept /\ IsPrefix(SubSeq(log, 1, kept), file)

\* While the log runs, every line reaches the disk.
EveryLineIsFlushed ==
    \A n \in 1..MaxLines :
        running /\ Len(log) >= n ~> flushed >= n \/ ~running \/ died # "no"

\* stop returns: the thread it joins comes to its end.
StopEnds == pc # "none" /\ ~running ~> pc = "done" \/ died # "no"

=============================================================================
