------------------------- MODULE AsyncLoggingProofs -------------------------
(***************************************************************************)
(* The log files are rolled when they are due, for every size, interval    *)
(* and period; the asynchronous log uses its LogFile as LogFile says, so   *)
(* that this holds of its files as well.  And its two spare buffers always *)
(* suffice, no line is lost or reordered, and stop keeps what came before. *)
(***************************************************************************)
EXTENDS AsyncLogging, SequenceLemmas

-----------------------------------------------------------------------------
(* LogFile alone.                                                          *)

\* The record's fields, and what ties the count to the appends that were late.
FileType ==
    /\ logFile \in [size : Nat, count : Nat, start : Int, lastRoll : Int, lastFlush : Int]
    /\ now \in Nat /\ late \in Nat

FileInv ==
    /\ FileType
    /\ RollsWhenFull
    /\ logFile.count < CheckEveryN
    /\ late <= logFile.count
    /\ logFile.lastRoll <= now
    /\ now = logFile.lastRoll => late = 0
    /\ logFile.start = PeriodOf(logFile.lastRoll)

LEMMA PeriodIsInt == ASSUME NEW t \in Nat PROVE PeriodOf(t) \in Int
  BY LogFileAssumption DEF LogFileAssumption, PeriodOf

\* What rollFile leaves.
LEMMA RolledIs ==
    ASSUME NEW f \in [size : Nat, count : Nat, start : Int, lastRoll : Int, lastFlush : Int],
           NEW t \in Nat
    PROVE  /\ Rolled(f, t) \in [size : Nat, count : Nat, start : Int, lastRoll : Int, lastFlush : Int]
           /\ Rolled(f, t).count = f.count
           /\ t > f.lastRoll => /\ Rolled(f, t).size = 0
                                /\ Rolled(f, t).lastRoll = t
                                /\ Rolled(f, t).start = PeriodOf(t)
           /\ ~(t > f.lastRoll) => Rolled(f, t) = f
<1>1. PeriodOf(t) \in Int
  BY PeriodIsInt
<1>2. f.count \in Nat /\ f.lastRoll \in Int
  OBVIOUS
<1> QED
  BY <1>1, <1>2 DEF Rolled

LEMMA FileInit == LogFileInit => FileInv
<1> SUFFICES ASSUME LogFileInit PROVE FileInv
  OBVIOUS
<1> DEFINE f == [size |-> 0, count |-> 0, start |-> 0, lastRoll |-> 0, lastFlush |-> 0]
<1>1. f \in [size : Nat, count : Nat, start : Int, lastRoll : Int, lastFlush : Int]
  OBVIOUS
<1>2. now = 1 /\ late = 0 /\ logFile = Rolled(f, 1)
  BY DEF LogFileInit, NewLogFile
<1>3. f.count = 0 /\ f.lastRoll = 0
  OBVIOUS
<1> HIDE DEF f
<1>4. 1 \in Nat /\ 1 > f.lastRoll
  BY <1>3
<1>5. /\ logFile \in [size : Nat, count : Nat, start : Int, lastRoll : Int, lastFlush : Int]
      /\ logFile.count = 0 /\ logFile.size = 0
      /\ logFile.lastRoll = 1 /\ logFile.start = PeriodOf(1)
  BY <1>1, <1>2, <1>3, <1>4, RolledIs
<1> QED
  BY <1>2, <1>5, LogFileAssumption DEF FileInv, FileType, RollsWhenFull, LogFileAssumption

\* One append, of any length at any later time.
LEMMA FileStep ==
    ASSUME FileInv, NEW len \in Nat, NEW t \in Nat, AppendToFile(len, t)
    PROVE  FileInv'
<1> DEFINE R == [size : Nat, count : Nat, start : Int, lastRoll : Int, lastFlush : Int]
<1> DEFINE grown == Lengthened(logFile, len)
<1> DEFINE looked == Recounted(grown)
<1> DEFINE counted == Counted(grown)
<1>1. /\ logFile \in R /\ now \in Nat /\ late \in Nat
      /\ t >= now /\ now' = t
      /\ late' = IF logFile'.start = PeriodOf(t) THEN 0 ELSE late + 1
      /\ PeriodOf(t) \in Int
  BY PeriodIsInt DEF FileInv, FileType, AppendToFile
<1>2. /\ grown \in R /\ grown.count = logFile.count /\ grown.size = logFile.size + len
      /\ grown.start = logFile.start /\ grown.lastRoll = logFile.lastRoll
  BY <1>1 DEF Lengthened
<1> HIDE DEF grown
<1>3. /\ looked \in R /\ looked.count = 0 /\ looked.size = logFile.size + len
      /\ looked.start = logFile.start /\ looked.lastRoll = logFile.lastRoll
  BY <1>2 DEF Recounted
<1>4. /\ counted \in R /\ counted.count = logFile.count + 1 /\ counted.size = logFile.size + len
      /\ counted.start = logFile.start /\ counted.lastRoll = logFile.lastRoll
  BY <1>2, <1>1 DEF Counted
<1> HIDE DEF looked, counted
<1>5. logFile' = FileAppended(logFile, len, t)
  BY DEF AppendToFile
<1>6. logFile.start = PeriodOf(logFile.lastRoll) /\ logFile.lastRoll <= now
  BY DEF FileInv
<1>7. logFile.count < CheckEveryN /\ late <= logFile.count /\ CheckEveryN \in Nat \ {0}
  BY LogFileAssumption DEF FileInv, LogFileAssumption
<1>8. logFile' \in R => FileType'
  BY <1>1 DEF FileType
<1>a. CASE OutgrownBy(logFile, len)
  <2>1. logFile' = Rolled(grown, t)
    BY <1>5, <1>a DEF FileAppended, grown
  <2>2. CASE t > logFile.lastRoll
    <3>1. /\ logFile' \in R /\ logFile'.size = 0 /\ logFile'.count = logFile.count
          /\ logFile'.lastRoll = t /\ logFile'.start = PeriodOf(t)
      BY <2>1, <2>2, <1>1, <1>2, RolledIs
    <3>2. late' = 0
      BY <3>1, <1>1
    <3> QED
      BY <3>1, <3>2, <1>1, <1>7, <1>8, LogFileAssumption
      DEF FileInv, RollsWhenFull, LogFileAssumption
  <2>3. CASE ~(t > logFile.lastRoll)
    <3>1. logFile' = grown
      BY <2>1, <2>3, <1>1, <1>2, RolledIs
    <3>2. t = logFile.lastRoll
      BY <2>3, <1>1, <1>6
    <3>3. late' = 0
      BY <3>1, <3>2, <1>1, <1>2, <1>6
    <3> QED
      BY <3>1, <3>2, <3>3, <1>1, <1>2, <1>6, <1>7, <1>8 DEF FileInv, RollsWhenFull
  <2> QED
    BY <2>2, <2>3
<1>b. CASE ~OutgrownBy(logFile, len) /\ Checks(logFile)
  <2>1. logFile' = Checked(looked, t)
    BY <1>5, <1>b DEF FileAppended, looked, grown
  <2>2. looked.size <= RollSize /\ RollSize \in Nat
    BY <1>b, <1>1, <1>3, LogFileAssumption DEF OutgrownBy, LogFileAssumption
  <2>3. CASE PeriodOf(t) # logFile.start
    <3>1. t > logFile.lastRoll
      BY <2>3, <1>1, <1>6
    <3>2. logFile' = Rolled(looked, t)
      BY <2>1, <2>3, <1>3 DEF Checked
    <3>3. /\ logFile' \in R /\ logFile'.size = 0 /\ logFile'.count = 0
          /\ logFile'.lastRoll = t /\ logFile'.start = PeriodOf(t)
      BY <3>1, <3>2, <1>1, <1>3, RolledIs
    <3>4. late' = 0
      BY <3>3, <1>1
    <3> QED
      BY <3>3, <3>4, <1>1, <1>7, <1>8, LogFileAssumption
      DEF FileInv, RollsWhenFull, LogFileAssumption
  <2>4. CASE PeriodOf(t) = logFile.start
    <3>1. logFile' \in {looked, [looked EXCEPT !.lastFlush = t]}
      BY <2>1, <2>4, <1>3 DEF Checked
    <3>2. /\ logFile' \in R /\ logFile'.size = looked.size /\ logFile'.count = 0
          /\ logFile'.start = logFile.start /\ logFile'.lastRoll = logFile.lastRoll
      BY <3>1, <1>1, <1>3
    <3>3. late' = 0
      BY <3>2, <2>4, <1>1
    <3> QED
      BY <3>2, <3>3, <2>2, <1>1, <1>6, <1>7, <1>8 DEF FileInv, RollsWhenFull
  <2> QED
    BY <2>3, <2>4
<1>c. CASE ~OutgrownBy(logFile, len) /\ ~Checks(logFile)
  <2>1. logFile' = counted
    BY <1>5, <1>c DEF FileAppended, counted, grown
  <2>2. counted.size <= RollSize /\ RollSize \in Nat
    BY <1>c, <1>1, <1>4, LogFileAssumption DEF OutgrownBy, LogFileAssumption
  <2>3. counted.count < CheckEveryN
    BY <1>c, <1>1, <1>4, <1>7 DEF Checks
  <2>4. late' <= counted.count
    BY <2>1, <1>1, <1>4, <1>7
  <2>5. t = logFile.lastRoll => late' = 0
    BY <2>1, <1>1, <1>4, <1>6
  <2> QED
    BY <2>1, <2>2, <2>3, <2>4, <2>5, <1>1, <1>4, <1>6, <1>8 DEF FileInv, RollsWhenFull
<1> QED
  BY <1>a, <1>b, <1>c

LEMMA FileKept == ASSUME FileInv, UNCHANGED logFileVars PROVE FileInv'
  BY DEF FileInv, FileType, RollsWhenFull, logFileVars, PeriodOf

\* A file left beyond RollSize was opened this very second, and the file of an earlier
\* period outlives fewer than CheckEveryN appends.
THEOREM LogFilesRoll == LogFileSpec => []FilesRoll
<1>1. LogFileInit => FileInv
  BY FileInit
<1>2. FileInv /\ [LogFileNext]_logFileVars => FileInv'
  <2> SUFFICES ASSUME FileInv, [LogFileNext]_logFileVars PROVE FileInv'
    OBVIOUS
  <2>1. CASE LogFileNext
    <3>1. PICK len \in Nat, t \in now..MaxTime : AppendToFile(len, t)
      BY <2>1 DEF LogFileNext
    <3>2. t \in Nat
      BY LogFileAssumption DEF FileInv, FileType, LogFileAssumption
    <3> QED
      BY <3>1, <3>2, FileStep
  <2>2. CASE UNCHANGED logFileVars
    BY <2>2, FileKept
  <2> QED
    BY <2>1, <2>2
<1>3. FileInv => FilesRoll
  BY LogFileAssumption DEF FileInv, FileType, FilesRoll, RollsEachPeriod, LogFileAssumption
<1> QED
  BY <1>1, <1>2, <1>3, PTL DEF LogFileSpec

-----------------------------------------------------------------------------
(* The log over its files.                                                 *)

\* Buffers hold lines, and the one to be written next is there.
BuffersInv ==
    /\ current \in Seq(Nat) /\ next \in Seq(Nat)
    /\ newBuffer1 \in Seq(Nat) /\ newBuffer2 \in Seq(Nat)
    /\ buffers \in Seq(Seq(Nat)) /\ buffersToWrite \in Seq(Seq(Nat))
    /\ log \in Seq(Nat) /\ fatal \in Nat /\ written \in Nat
    /\ pc = "write" => written < Len(buffersToWrite)

LEMMA BuffersInit == Init => BuffersInv
  BY DEF Init, BuffersInv, NoBuffer

LEMMA AppendLineKeeps ==
    ASSUME BuffersInv, NEW line \in Nat, AppendLine(line)
    PROVE  /\ current' \in Seq(Nat) /\ next' \in Seq(Nat)
           /\ buffers' \in Seq(Seq(Nat)) /\ log' \in Seq(Nat)
<1>1. /\ Append(log, line) \in Seq(Nat) /\ Append(current, line) \in Seq(Nat)
      /\ <<line>> \in Seq(Nat) /\ NoBuffer \in Seq(Nat)
      /\ next \in Seq(Nat) /\ buffers \in Seq(Seq(Nat))
  BY DEF BuffersInv, NoBuffer
<1>2. Append(buffers, current) \in Seq(Seq(Nat))
  BY DEF BuffersInv
<1>3. CASE Len(current) < Capacity
  BY <1>1, <1>3 DEF AppendLine
<1>4. CASE ~(Len(current) < Capacity)
  BY <1>1, <1>2, <1>4 DEF AppendLine
<1> QED
  BY <1>3, <1>4

LEMMA BuffersStep == BuffersInv /\ [Next]_vars => BuffersInv'
<1> SUFFICES ASSUME BuffersInv, [Next]_vars PROVE BuffersInv'
  OBVIOUS
<1>0. Len(log) + 1 \in Nat /\ fatal \in Nat
  BY DEF BuffersInv
<1>1. CASE Log
  BY <1>0, <1>1, AppendLineKeeps DEF BuffersInv, Log, back
<1>2. CASE LogFatal
  BY <1>0, <1>2, AppendLineKeeps DEF BuffersInv, LogFatal, back
<1>3. CASE LogFatalAgain
  BY <1>0, <1>3, AppendLineKeeps DEF BuffersInv, LogFatalAgain, back
<1>4. CASE Abort \/ Start \/ Stop
  BY <1>4 DEF BuffersInv, Abort, Start, Stop, front, back
<1>5. CASE Begin
  BY <1>5 DEF BuffersInv, Begin, front
<1>6. CASE CheckRunning
  BY <1>6 DEF BuffersInv, CheckRunning, front, back
<1>7. CASE Collect
  <2>1. Append(buffers, current) \in Seq(Seq(Nat)) /\ 0 < Len(Append(buffers, current))
    BY DEF BuffersInv
  <2>2. NoBuffer \in Seq(Nat)
    BY DEF NoBuffer
  <2>3. /\ buffersToWrite' = Append(buffers, current) /\ buffers' = buffersToWrite
        /\ current' = newBuffer1 /\ newBuffer1' = NoBuffer
        /\ written' = 0 /\ UNCHANGED <<log, fatal>>
    BY <1>7 DEF Collect
  <2>4. next' \in {next, newBuffer2} /\ newBuffer2' \in {newBuffer2, NoBuffer}
    BY <1>7 DEF Collect
  <2>5. /\ current' \in Seq(Nat) /\ next' \in Seq(Nat)
        /\ newBuffer1' \in Seq(Nat) /\ newBuffer2' \in Seq(Nat)
    BY <2>2, <2>3, <2>4 DEF BuffersInv
  <2> QED
    BY <2>1, <2>3, <2>5 DEF BuffersInv
<1>8. CASE WriteBuffers
  <2>1. written' = written + 1 /\ written < Len(buffersToWrite) /\ Len(buffersToWrite) \in Nat
    BY <1>8 DEF BuffersInv, WriteBuffers, WriteBuffer
  <2>2. pc' = "write" => written' < Len(buffersToWrite)
    BY <1>8, <2>1 DEF BuffersInv, WriteBuffers
  <2> QED
    BY <1>8, <2>1, <2>2 DEF BuffersInv, WriteBuffers, front
<1>9. CASE Recycle
  <2>1. /\ newBuffer1' = <<>> /\ newBuffer2' = <<>> /\ buffersToWrite' = <<>> /\ written' = 0
        /\ pc' = "loop" /\ UNCHANGED <<front, log, fatal>>
    BY <1>9 DEF Recycle
  <2> QED
    BY <2>1 DEF BuffersInv, front
<1>10. CASE LeaveLoop \/ ThreadEnds
  BY <1>10 DEF BuffersInv, LeaveLoop, ThreadEnds, front, back
<1>11. CASE Drain
  BY <1>11 DEF BuffersInv, Drain, WriteBuffer, front
<1>12. CASE UNCHANGED vars
  BY <1>12 DEF BuffersInv, vars, front, back
<1> QED
  BY <1>1, <1>2, <1>3, <1>4, <1>5, <1>6, <1>7, <1>8, <1>9, <1>10, <1>11, <1>12
  DEF Next, BackEnd

\* A step of the log appends to the file as LogFile does, or leaves it alone.
LEMMA FileStepOfLog == BuffersInv /\ [Next]_vars => [LogFileNext]_logFileVars
<1> SUFFICES ASSUME BuffersInv, [Next]_vars PROVE [LogFileNext]_logFileVars
  OBVIOUS
<1>1. ASSUME NEW buffer \in Seq(Nat), WriteBuffer(buffer) PROVE LogFileNext
  <2>1. Len(buffer) \in Nat
    OBVIOUS
  <2> QED
    BY <1>1, <2>1 DEF WriteBuffer, LogFileNext
<1>2. CASE WriteBuffers
  <2>1. written \in Nat /\ written < Len(buffersToWrite) /\ buffersToWrite \in Seq(Seq(Nat))
    BY <1>2 DEF BuffersInv, WriteBuffers
  <2>2. written + 1 \in 1..Len(buffersToWrite)
    BY <2>1
  <2>3. buffersToWrite[written + 1] \in Seq(Nat)
    BY <2>1, <2>2
  <2> QED
    BY <1>1, <1>2, <2>3 DEF WriteBuffers
<1>3. CASE Drain
  <2>1. LastBuffers \in Seq(Seq(Nat))
    BY DEF BuffersInv, LastBuffers
  <2>2. LastBuffers[written + 1] \in Seq(Nat)
    BY <1>3, <2>1 DEF BuffersInv, Drain
  <2> QED
    BY <1>1, <1>3, <2>2 DEF Drain
<1>4. CASE Log \/ LogFatal \/ LogFatalAgain \/ Abort \/ Start \/ Stop
  BY <1>4 DEF Log, LogFatal, LogFatalAgain, Abort, Start, Stop, disk
<1>5. CASE Begin \/ CheckRunning \/ Collect \/ LeaveLoop \/ ThreadEnds
  BY <1>5 DEF Begin, CheckRunning, Collect, LeaveLoop, ThreadEnds, disk
<1>6. CASE Recycle
  BY <1>6 DEF Recycle
<1>7. CASE UNCHANGED vars
  BY <1>7 DEF vars, disk
<1> QED
  BY <1>2, <1>3, <1>4, <1>5, <1>6, <1>7 DEF Next, BackEnd

\* The back end, with its swaps and its last writes, uses its LogFile as one that is
\* appended to, one buffer at a time, and never otherwise.
THEOREM LogUsesLogFile == Spec => LogFileSpec
<1>1. Init => LogFileInit
  BY DEF Init
<1> QED
  BY <1>1, BuffersInit, BuffersStep, FileStepOfLog, PTL DEF Spec, LogFileSpec

\* So the files of the asynchronous log are rolled when they are due.
THEOREM LogRollsItsFiles == Spec => []FilesRoll
  BY LogUsesLogFile, LogFilesRoll, PTL
-----------------------------------------------------------------------------
(* The lines on their way through the buffers.                             *)

Line == Nat \ {0}
Lines == Seq(Line)

LogType ==
    /\ current \in Lines
    /\ next \in Lines \cup {NoBuffer}
    /\ newBuffer1 \in Lines \cup {NoBuffer} /\ newBuffer2 \in Lines \cup {NoBuffer}
    /\ buffers \in Seq(Lines) /\ buffersToWrite \in Seq(Lines)
    /\ written \in Nat
    /\ file \in Lines /\ log \in Lines
    /\ flushed \in 0..Len(file) /\ kept \in 0..Len(log)
    /\ fatal \in Nat /\ (outputs = 1 => fatal \in Line)

\* Which of the back end's buffers are empty, gone or still to be written, where it stands.
SparesInv ==
    /\ next = NoBuffer => buffers # <<>>
    /\ pc \in {"loop", "collect"} => newBuffer1 = <<>> /\ newBuffer2 = <<>>
    /\ pc \in {"write", "recycle"} =>
          /\ newBuffer1 = NoBuffer
          /\ newBuffer2 = <<>> \/ (newBuffer2 = NoBuffer /\ Len(buffersToWrite) >= 2)
          /\ buffersToWrite # <<>>
    /\ pc \notin {"write", "recycle"} => buffersToWrite = <<>>
    /\ pc \in {"drain", "draining", "done"} => ~running
    /\ running => died # "assert"

WrittenInv ==
    /\ pc = "write" => written < Len(buffersToWrite)
    /\ pc = "recycle" => written = Len(buffersToWrite)
    /\ pc = "draining" => written <= Len(LastBuffers)
    /\ pc \notin {"write", "recycle", "draining", "done"} => written = 0

\* Lines may come after the thread has ended, and stay in the buffers.
EndInv ==
    pc = "done" => kept <= flushed /\ Len(file) <= Len(log) /\ file = SubSeq(log, 1, Len(file))

LogInv == LogType /\ SparesInv /\ WrittenInv /\ NothingLostOrReordered /\ EndInv

LEMMA FlattenOne ==
    ASSUME NEW S, NEW s \in Seq(S)
    PROVE  FlattenSeq(<<s>>) = s
<1>1. <<>> \in Seq(Seq(S)) /\ Append(<<>>, s) = <<s>> /\ <<>> \o s = s
  OBVIOUS
<1>2. FlattenSeq(<<>>) = <<>>
  BY <1>1, FlattenIs
<1>3. FlattenSeq(Append(<<>>, s)) = FlattenSeq(<<>>) \o s
  BY <1>1, FlattenAppend, Zenon
<1> QED
  BY <1>1, <1>2, <1>3, Zenon

\* The buffers after the n-th: all of them, none, and what the next one adds.
LEMMA AfterIs ==
    ASSUME NEW ss \in Seq(Lines), NEW n \in Nat
    PROVE  /\ After(ss, n) \in Seq(Lines)
           /\ n = 0 => After(ss, n) = ss
           /\ n >= Len(ss) => After(ss, n) = <<>>
           /\ n < Len(ss) => /\ ss[n + 1] \in Lines
                             /\ FlattenSeq(After(ss, n)) = ss[n + 1] \o FlattenSeq(After(ss, n + 1))
<1>1. ASSUME NEW m \in Nat PROVE After(ss, m) \in Seq(Lines)
  BY DEF After
<1>2. n = 0 => After(ss, n) = ss
  BY DEF After
<1>3. n >= Len(ss) => After(ss, n) = <<>>
  BY DEF After
<1>4. ASSUME n < Len(ss)
      PROVE  /\ ss[n + 1] \in Lines
             /\ FlattenSeq(After(ss, n)) = ss[n + 1] \o FlattenSeq(After(ss, n + 1))
  <2>1. /\ n + 1 \in 1..Len(ss) /\ Len(ss) \in n + 1..Len(ss)
        /\ ss[n + 1] \in Lines /\ <<ss[n + 1]>> \in Seq(Lines)
    BY <1>4
  <2>2. After(ss, n) = <<ss[n + 1]>> \o After(ss, n + 1)
    BY <2>1, SubSeqRecursiveFirst DEF After
  <2>3. After(ss, n + 1) \in Seq(Lines)
    BY <1>1
  <2>4. FlattenSeq(<<ss[n + 1]>> \o After(ss, n + 1))
          = FlattenSeq(<<ss[n + 1]>>) \o FlattenSeq(After(ss, n + 1))
    BY <2>1, <2>3, FlattenConcat, Zenon DEF Lines
  <2>5. FlattenSeq(<<ss[n + 1]>>) = ss[n + 1]
    BY <2>1, FlattenOne, Zenon DEF Lines
  <2> QED
    BY <2>1, <2>2, <2>4, <2>5, Zenon
<1> QED
  BY <1>1, <1>2, <1>3, <1>4

LEMMA NothingAfter ==
    ASSUME NEW ss \in Seq(Lines), NEW n \in Nat, Len(ss) <= n
    PROVE  After(ss, n) = <<>>
  BY DEF After

LEMMA NothingAfterNothing == \A n \in Nat : After(<<>>, n) = <<>>
  BY DEF After

\* A buffer of lines is not one that was moved from.
LEMMA LinesAreThere == ASSUME NEW c \in Lines PROVE c # NoBuffer
<1>1. SUFFICES ASSUME c = NoBuffer PROVE FALSE
  OBVIOUS
<1>2. NoBuffer[1] = 0 /\ 1 \in 1..Len(NoBuffer)
  BY DEF NoBuffer
<1>3. c[1] \in Line
  BY <1>1, <1>2, ElementOfSeq DEF Lines
<1> QED
  BY <1>1, <1>2, <1>3 DEF Line

LEMMA FlatLines == ASSUME NEW ss \in Seq(Lines) PROVE FlattenSeq(ss) \in Lines
  BY FlattenIs, Zenon DEF Lines

\* What the front end holds, and how an appended line adds to it.
Held == FlattenSeq(Append(buffers, current))

LEMMA LinesConcat ==
    /\ \A x, y \in Lines : x \o y \in Lines
    /\ \A x \in Lines : x \o <<>> = x /\ <<>> \o x = x
    /\ <<>> \in Lines
    /\ \A x \in Lines, l \in Line : <<l>> \in Lines /\ Append(x, l) = x \o <<l>>
  BY DEF Lines

LEMMA LinesAssociative == \A x, y, z \in Lines : (x \o y) \o z = x \o (y \o z)
  BY DEF Lines

LEMMA AppendLineTypes ==
    ASSUME LogType, NEW line \in Line, AppendLine(line)
    PROVE  /\ current' \in Lines /\ next' \in Lines \cup {NoBuffer}
           /\ buffers' \in Seq(Lines)
           /\ log' \in Lines /\ log' = Append(log, line) /\ Len(log') = Len(log) + 1
           /\ Held' = Held \o <<line>>
           /\ (next = NoBuffer => buffers # <<>>) => (next' = NoBuffer => buffers' # <<>>)
<1>1. /\ current \in Lines /\ buffers \in Seq(Lines) /\ log \in Lines
      /\ next \in Lines \cup {NoBuffer}
  BY DEF LogType
<1>2. /\ Append(current, line) \in Lines /\ <<line>> \in Lines
      /\ Append(current, line) = current \o <<line>>
      /\ Append(log, line) \in Lines /\ Len(Append(log, line)) = Len(log) + 1
      /\ Append(buffers, current) \in Seq(Lines) /\ Append(buffers, current) # <<>>
  <2>1. <<line>> \in Lines /\ Append(current, line) = current \o <<line>>
    BY <1>1, LinesConcat, Zenon
  <2>2. Append(current, line) \in Lines /\ Append(log, line) \in Lines
    BY <1>1 DEF Lines
  <2>3. Len(Append(log, line)) = Len(log) + 1
    BY <1>1 DEF Lines
  <2>4. Append(buffers, current) \in Seq(Lines) /\ Append(buffers, current) # <<>>
    BY <1>1, AppendProperties
  <2> QED
    BY <2>1, <2>2, <2>3, <2>4
<1>3. log' = Append(log, line)
  BY DEF AppendLine
<1>4. \A b \in Seq(Lines), c \in Lines : FlattenSeq(Append(b, c)) = FlattenSeq(b) \o c
  BY FlattenAppend, Zenon DEF Lines
<1>5. FlattenSeq(buffers) \in Lines
  BY <1>1, FlatLines
<1>6. CASE Len(current) < Capacity
  <2>1. current' = Append(current, line) /\ next' = next /\ buffers' = buffers
    BY <1>6 DEF AppendLine
  <2>2. Held' = FlattenSeq(buffers) \o (current \o <<line>>)
    BY <1>1, <1>2, <1>4, <2>1, Zenon DEF Held
  <2>3. Held = FlattenSeq(buffers) \o current
    BY <1>1, <1>4, Zenon DEF Held
  <2>4. Held' = Held \o <<line>>
    <3>1. (FlattenSeq(buffers) \o current) \o <<line>> = FlattenSeq(buffers) \o (current \o <<line>>)
      <4>1. FlattenSeq(buffers) \in Lines /\ current \in Lines /\ <<line>> \in Lines
        BY <1>1, <1>2, <1>5
      <4> QED
        BY <4>1, LinesAssociative
    <3> QED
      BY <2>2, <2>3, <3>1, Zenon
  <2> QED
    BY <1>1, <1>2, <1>3, <2>1, <2>4
<1>7. CASE ~(Len(current) < Capacity)
  <2>1. current' = <<line>> /\ next' = NoBuffer /\ buffers' = Append(buffers, current)
    BY <1>7 DEF AppendLine
  <2>4. Held' = Held \o <<line>>
    BY <1>1, <1>2, <1>4, <2>1, Zenon DEF Held
  <2> QED
    BY <1>1, <1>2, <1>3, <2>1, <2>4
<1> QED
  BY <1>6, <1>7

\* What the back end still has to write of the buffers it took.
Taken == FlattenSeq(After(buffersToWrite, written))

\* The invariant outside the last writes, where the front end's buffers are all to come.
LEMMA NothingLostIs ==
    ASSUME LogType, pc # "draining"
    PROVE  /\ NothingLostOrReordered <=> (pc # "done" => file \o Taken \o Held = log)
           /\ Taken \in Lines /\ Held \in Lines
           /\ Append(buffers, current) \in Seq(Lines)
<1>1. Append(buffers, current) \in Seq(Lines)
  BY DEF LogType
<1>2. After(Append(buffers, current), 0) = Append(buffers, current)
  BY <1>1, AfterIs
<1>3. After(buffersToWrite, written) \in Seq(Lines)
  BY AfterIs DEF LogType
<1>4. Taken \in Lines /\ Held \in Lines
  BY <1>1, <1>3, FlatLines DEF Taken, Held
<1> QED
  BY <1>1, <1>2, <1>4 DEF NothingLostOrReordered, Taken, Held

LEMMA AllAreHeld == \A b \in Seq(Lines), c \in Lines : After(Append(b, c), 0) = Append(b, c)
<1> SUFFICES ASSUME NEW b \in Seq(Lines), NEW c \in Lines
             PROVE  After(Append(b, c), 0) = Append(b, c)
  OBVIOUS
<1>1. Append(b, c) \in Seq(Lines)
  OBVIOUS
<1> QED
  BY <1>1, AfterIs

LEMMA LogInit == Init => LogInv
<1> SUFFICES ASSUME Init PROVE LogInv
  OBVIOUS
<1>1. LogType
  BY DEF Init, LogType, NoBuffer, Lines, Line
<1>2. SparesInv /\ WrittenInv /\ EndInv
  BY DEF Init, SparesInv, WrittenInv, EndInv, NoBuffer
<1>3. file \o Taken \o Held = log
  <2>1. After(buffersToWrite, written) = <<>>
    BY <1>1, AfterIs DEF Init, LogType
  <2>2. <<>> \in Seq(Lines) /\ <<>> \in Lines
    BY DEF Lines
  <2>3. FlattenSeq(<<>>) = <<>>
    BY <2>2, FlattenIs DEF Lines
  <2>4. Held = <<>>
    <3>1. Held = FlattenSeq(Append(<<>>, <<>>))
      BY DEF Init, Held
    <3>2. FlattenSeq(Append(<<>>, <<>>)) = FlattenSeq(<<>>) \o <<>>
      BY <2>2, FlattenAppend DEF Lines
    <3> QED
      BY <3>1, <3>2, <2>3
  <2> QED
    BY <2>1, <2>3, <2>4 DEF Init, Taken
<1> QED
  BY <1>1, <1>2, <1>3, NothingLostIs DEF LogInv, Init

\* A line that is appended, whoever logs it.
LEMMA FrontStep ==
    ASSUME LogInv, NEW line \in Line, AppendLine(line), pc # "draining",
           UNCHANGED <<back, running, pc, disk, kept, died>>,
           fatal' \in Nat, outputs' = 1 => fatal' \in Line
    PROVE  LogInv'
<1>1. /\ LogType /\ SparesInv /\ WrittenInv /\ NothingLostOrReordered /\ EndInv
      /\ UNCHANGED <<newBuffer1, newBuffer2, buffersToWrite, written, running, pc, file, flushed, kept, died>>
  BY DEF LogInv, back, disk
<1>2. /\ current' \in Lines /\ next' \in Lines \cup {NoBuffer} /\ buffers' \in Seq(Lines)
      /\ log' \in Lines /\ log' = Append(log, line) /\ Len(log') = Len(log) + 1
      /\ Held' = Held \o <<line>>
      /\ (next' = NoBuffer => buffers' # <<>>)
  BY <1>1, AppendLineTypes DEF SparesInv
<1>3. LogType'
  <2>1. kept' \in 0..Len(log')
    BY <1>1, <1>2 DEF LogType, Lines
  <2> QED
    BY <1>1, <1>2, <2>1 DEF LogType
<1>4. SparesInv' /\ WrittenInv'
  BY <1>1, <1>2 DEF SparesInv, WrittenInv
<1>5. NothingLostOrReordered'
  <2>1. SUFFICES ASSUME pc # "done" PROVE (file \o Taken \o Held = log)'
    BY <1>1, <1>2, AllAreHeld DEF NothingLostOrReordered, Taken, Held
  <2>2. /\ file \o Taken \o Held = log /\ Taken \in Lines /\ Held \in Lines
        /\ file \in Lines /\ file \o Taken \in Lines /\ <<line>> \in Lines
    BY <1>1, <2>1, NothingLostIs, LinesConcat DEF LogType
  <2>3. Taken' = Taken /\ file' = file
    BY <1>1 DEF Taken, After
  <2>4. ((file \o Taken) \o Held) \o <<line>> = (file \o Taken) \o (Held \o <<line>>)
    BY <2>2, LinesAssociative
  <2>5. log' = log \o <<line>>
    BY <1>1, <1>2, LinesConcat DEF LogType
  <2> QED
    BY <1>2, <2>2, <2>3, <2>4, <2>5
<1>6. EndInv'
  <2> SUFFICES ASSUME pc = "done"
               PROVE  Len(file) <= Len(log') /\ file = SubSeq(log', 1, Len(file))
    BY <1>1 DEF EndInv
  <2>1. /\ log \in Lines /\ Len(file) \in Nat /\ Len(file) <= Len(log)
        /\ file = SubSeq(log, 1, Len(file))
    BY <1>1 DEF LogType, EndInv, Lines
  <2>2. SubSeq(Append(log, line), 1, Len(file)) = SubSeq(log, 1, Len(file))
    BY <2>1 DEF Lines
  <2> QED
    BY <1>2, <2>1, <2>2 DEF Lines
<1> QED
  BY <1>3, <1>4, <1>5, <1>6 DEF LogInv

LEMMA FrontActions ==
    ASSUME LogInv, Log \/ LogFatal \/ LogFatalAgain
    PROVE  LogInv'
<1>1. Len(log) + 1 \in Line /\ (outputs = 1 => fatal \in Line) /\ fatal \in Nat
  BY DEF LogInv, LogType, Lines, Line
<1>2. CASE Log
  BY <1>1, <1>2, FrontStep DEF Log, MutexIsFree
<1>3. CASE LogFatal
  BY <1>1, <1>3, FrontStep DEF LogFatal, MutexIsFree, Line
<1>4. CASE LogFatalAgain
  BY <1>1, <1>4, FrontStep DEF LogFatalAgain, MutexIsFree
<1> QED
  BY <1>2, <1>3, <1>4

\* Steps that move no line: only flags, pc and what is on disk change.
LEMMA QuietStep ==
    ASSUME LogInv, UNCHANGED <<front, log, file, buffersToWrite, written>>,
           pc # "draining", pc # "done", pc' # "done", pc' = "draining" => written = 0,
           LogType', SparesInv', WrittenInv'
    PROVE  LogInv'
<1>1. UNCHANGED <<current, buffers, file, log, buffersToWrite, written>>
  BY DEF front
<1>2. /\ LogType /\ NothingLostOrReordered
      /\ buffers \in Seq(Lines) /\ current \in Lines
  BY DEF LogInv, LogType
<1>3. file \o Taken \o Held = log
  BY <1>2, NothingLostIs
<1>4. NothingLostOrReordered'
  BY <1>1, <1>2, <1>3, AllAreHeld DEF NothingLostOrReordered, Taken, Held, After
<1> QED
  BY <1>4 DEF LogInv, EndInv

LEMMA AbortOrStutter == ASSUME LogInv, Abort \/ UNCHANGED vars PROVE LogInv'
<1>1. /\ UNCHANGED <<front, back, running, pc, disk, log, kept, fatal, outputs>>
      /\ died' \in {died, "abort"}
  BY DEF Abort, vars
<1>2. UNCHANGED <<current, next, buffers, newBuffer1, newBuffer2, buffersToWrite, written, file, flushed>>
  BY <1>1 DEF front, back, disk
<1>3. LogType'
  BY <1>1, <1>2 DEF LogInv, LogType
<1>4. SparesInv'
  BY <1>1, <1>2 DEF LogInv, SparesInv
<1>5. WrittenInv' /\ EndInv'
  BY <1>1, <1>2 DEF LogInv, WrittenInv, EndInv, LastBuffers
<1>6. NothingLostOrReordered'
  BY <1>1, <1>2, Zenon DEF LogInv, NothingLostOrReordered, After
<1> QED
  BY <1>3, <1>4, <1>5, <1>6 DEF LogInv

LEMMA FlagActions == ASSUME LogInv, Start \/ Stop \/ Begin \/ CheckRunning PROVE LogInv'
<1>1. /\ UNCHANGED <<front, buffersToWrite, written, disk, log, fatal, outputs>>
      /\ pc \notin {"draining", "done"} /\ pc' \notin {"draining", "done"}
      /\ kept' \in {kept, Len(log)}
      /\ <<newBuffer1', newBuffer2'>> \in {<<newBuffer1, newBuffer2>>, <<(<<>>), (<<>>)>>}
  BY DEF LogInv, SparesInv, Start, Stop, Begin, CheckRunning, back
<1>2. UNCHANGED <<current, next, buffers, buffersToWrite, written, file, flushed, log, fatal, outputs>>
  BY <1>1 DEF front, disk
<1>3. LogType'
  <2>1. LogType /\ <<>> \in Lines /\ Len(log) \in Nat
    BY DEF LogInv, LogType, Lines
  <2>2. newBuffer1' \in {newBuffer1, <<>>} /\ newBuffer2' \in {newBuffer2, <<>>}
    BY <1>1
  <2>3. newBuffer1' \in Lines \cup {NoBuffer} /\ newBuffer2' \in Lines \cup {NoBuffer}
    BY <2>1, <2>2 DEF LogType
  <2>4. kept' \in 0..Len(log)
    BY <1>1, <2>1 DEF LogType
  <2> QED
    BY <1>2, <2>1, <2>3, <2>4 DEF LogType
<1>4. SparesInv' /\ WrittenInv'
  <2>1. SparesInv /\ WrittenInv
    BY DEF LogInv
  <2>2. CASE Start
    BY <1>2, <2>1, <2>2 DEF SparesInv, WrittenInv, Start, back
  <2>3. CASE Stop
    BY <1>1, <1>2, <2>1, <2>3 DEF SparesInv, WrittenInv, Stop, back
  <2>4. CASE Begin
    BY <1>2, <2>1, <2>4 DEF SparesInv, WrittenInv, Begin
  <2>5. CASE CheckRunning
    BY <1>2, <2>1, <2>5 DEF SparesInv, WrittenInv, CheckRunning, back
  <2> QED
    BY <2>2, <2>3, <2>4, <2>5
<1> QED
  BY <1>1, <1>2, <1>3, <1>4, QuietStep

LEMMA LeaveLoopStep == ASSUME LogInv, LeaveLoop PROVE LogInv'
<1>1. /\ UNCHANGED <<front, back, running, file, log, kept, fatal, outputs, died>>
      /\ pc = "drain" /\ pc' = "draining" /\ flushed' = Len(file)
  BY DEF LeaveLoop
<1>2. UNCHANGED <<current, next, buffers, newBuffer1, newBuffer2, buffersToWrite, written>>
  BY <1>1 DEF front, back
<1>3. LogType'
  BY <1>1, <1>2 DEF LogInv, LogType, Lines
<1>4. written = 0 /\ SparesInv'
  BY <1>1, <1>2 DEF LogInv, SparesInv, WrittenInv
<1>5. WrittenInv'
  <2>1. LastBuffers \in Seq(Lines)
    BY DEF LogInv, LogType, LastBuffers
  <2>2. LastBuffers' = LastBuffers /\ 0 <= Len(LastBuffers)
    BY <1>2, <2>1 DEF LastBuffers
  <2> QED
    BY <1>1, <1>2, <1>4, <2>2 DEF WrittenInv
<1> QED
  BY <1>1, <1>2, <1>3, <1>4, <1>5, QuietStep

LEMMA CollectStep == ASSUME LogInv, Collect PROVE LogInv'
<1>1. LogType /\ SparesInv /\ WrittenInv /\ NothingLostOrReordered
  BY DEF LogInv
<1>2. /\ buffersToWrite' = Append(buffers, current) /\ buffers' = buffersToWrite
      /\ current' = newBuffer1 /\ newBuffer1' = NoBuffer
      /\ IF next = NoBuffer
         THEN next' = newBuffer2 /\ newBuffer2' = NoBuffer
         ELSE UNCHANGED <<next, newBuffer2>>
      /\ pc = "collect" /\ pc' = "write" /\ written' = 0
      /\ UNCHANGED <<running, file, flushed, log, kept, fatal, outputs, died>>
  BY DEF Collect, disk
<1>3. newBuffer1 = <<>> /\ newBuffer2 = <<>> /\ buffersToWrite = <<>> /\ written = 0
  BY <1>1, <1>2 DEF SparesInv, WrittenInv
<1>4. /\ buffers \in Seq(Lines) /\ current \in Lines /\ Append(buffers, current) \in Seq(Lines)
      /\ Len(Append(buffers, current)) = Len(buffers) + 1
      /\ <<>> \in Lines /\ <<>> \in Seq(Lines)
      /\ next = NoBuffer => Len(buffers) > 0
      /\ Len(buffers) \in Nat
  BY <1>1 DEF LogType, SparesInv, Lines
<1>5. LogType'
  BY <1>1, <1>2, <1>3, <1>4 DEF LogType
<1>6. SparesInv'
  <2>1. NoBuffer # <<>>
    BY DEF NoBuffer
  <2>2. Append(buffers, current) # <<>>
    BY <1>4
  <2>3. next' # NoBuffer
    BY <1>2, <1>3, <2>1
  <2>4. newBuffer2' = <<>> \/ (newBuffer2' = NoBuffer /\ Len(buffersToWrite') >= 2)
    BY <1>2, <1>3, <1>4
  <2> QED
    BY <1>1, <1>2, <2>2, <2>3, <2>4 DEF SparesInv
<1>7. WrittenInv'
  BY <1>2, <1>4 DEF WrittenInv
<1>8. NothingLostOrReordered'
  <2>1. file \o Taken \o Held = log
    BY <1>1, <1>2, NothingLostIs
  <2>2. Taken = <<>>
    <3>1. After(buffersToWrite, written) = <<>>
      BY <1>3, <1>4, AfterIs
    <3> QED
      BY <1>4, <3>1, FlattenIs DEF Taken, Lines
  <2>3. Taken' = Held
    BY <1>2, <1>4, AllAreHeld DEF Taken, Held
  <2>4. Held' = <<>>
    <3>1. Held' = FlattenSeq(Append(<<>>, <<>>))
      BY <1>2, <1>3 DEF Held
    <3>2. FlattenSeq(Append(<<>>, <<>>)) = FlattenSeq(<<>>) \o <<>>
      BY <1>4, FlattenAppend DEF Lines
    <3>3. FlattenSeq(<<>>) = <<>>
      BY <1>4, FlattenIs DEF Lines
    <3> QED
      BY <3>1, <3>2, <3>3
  <2>5. /\ file \in Lines /\ Held \in Lines /\ file \o Held \in Lines
        /\ file \o <<>> = file /\ (file \o Held) \o <<>> = file \o Held
    BY <1>1, <1>2, NothingLostIs, LinesConcat DEF LogType
  <2>6. (file \o Taken \o Held = log)'
    BY <1>2, <2>1, <2>2, <2>3, <2>4, <2>5
  <2> QED
    BY <1>2, <1>3, <1>4, <2>6, AllAreHeld DEF NothingLostOrReordered, Taken, Held
<1> QED
  BY <1>2, <1>5, <1>6, <1>7, <1>8 DEF LogInv, EndInv

\* One buffer goes to the file.
LEMMA WriteStep ==
    ASSUME LogType, NEW buffer \in Lines, WriteBuffer(buffer)
    PROVE  /\ written' = written + 1 /\ written' \in Nat
           /\ file' = file \o buffer /\ file' \in Lines
           /\ flushed' \in 0..Len(file')
<1>1. file \in Lines /\ flushed \in 0..Len(file) /\ written \in Nat
  BY DEF LogType
<1>2. /\ file \o buffer \in Lines
      /\ Len(file \o buffer) = Len(file) + Len(buffer) /\ Len(file) \in Nat /\ Len(buffer) \in Nat
  BY <1>1 DEF Lines
<1>3. /\ written' = written + 1 /\ file' = file \o buffer
      /\ flushed' = Len(file') \/ flushed' \in flushed..Len(file')
  BY DEF WriteBuffer
<1>4. flushed' \in 0..Len(file')
  BY <1>1, <1>2, <1>3
<1> QED
  BY <1>1, <1>2, <1>3, <1>4

LEMMA WriteBuffersStep == ASSUME LogInv, WriteBuffers PROVE LogInv'
<1> DEFINE buffer == buffersToWrite[written + 1]
<1>1. LogType /\ SparesInv /\ WrittenInv /\ NothingLostOrReordered
  BY DEF LogInv
<1>2. /\ UNCHANGED <<front, newBuffer1, newBuffer2, buffersToWrite, running, log, kept, fatal, outputs, died>>
      /\ pc = "write" /\ WriteBuffer(buffer)
      /\ pc' = IF written' = Len(buffersToWrite) THEN "recycle" ELSE "write"
  BY DEF WriteBuffers
<1>3. UNCHANGED <<current, next, buffers>>
  BY <1>2 DEF front
<1>4. /\ written \in Nat /\ written < Len(buffersToWrite)
      /\ buffersToWrite \in Seq(Lines) /\ Len(buffersToWrite) \in Nat
  BY <1>1, <1>2 DEF LogType, WrittenInv
<1>5. /\ buffer \in Lines
      /\ Taken = buffer \o FlattenSeq(After(buffersToWrite, written + 1))
      /\ After(buffersToWrite, written + 1) \in Seq(Lines)
  <2>1. written + 1 \in Nat
    BY <1>4
  <2> QED
    BY <1>4, <2>1, AfterIs DEF Taken
<1> HIDE DEF buffer
<1>6. /\ written' = written + 1 /\ written' \in Nat
      /\ file' = file \o buffer /\ file' \in Lines
      /\ flushed' \in 0..Len(file')
  BY <1>1, <1>2, <1>5, WriteStep
<1>7. LogType'
  BY <1>1, <1>2, <1>3, <1>6 DEF LogType
<1>8. SparesInv'
  BY <1>1, <1>2, <1>3 DEF SparesInv
<1>9. WrittenInv'
  BY <1>2, <1>4, <1>6 DEF WrittenInv
<1>10. NothingLostOrReordered'
  <2>1. file \o Taken \o Held = log /\ Held \in Lines /\ file \in Lines
    BY <1>1, <1>2, NothingLostIs DEF LogType
  <2>2. Taken' = FlattenSeq(After(buffersToWrite, written + 1)) /\ Taken' \in Lines
    BY <1>2, <1>5, <1>6, FlatLines DEF Taken, After
  <2>3. (file \o buffer) \o Taken' = file \o (buffer \o Taken')
    BY <1>5, <2>1, <2>2, LinesAssociative
  <2>4. file' \o Taken' = file \o Taken
    BY <1>5, <1>6, <2>2, <2>3, Zenon
  <2>5. Held' = Held /\ log' = log
    BY <1>2, <1>3 DEF Held
  <2>6. (file \o Taken \o Held = log)'
    BY <2>1, <2>4, <2>5
  <2>7. buffers \in Seq(Lines) /\ current \in Lines
    BY <1>1 DEF LogType
  <2> QED
    BY <1>2, <1>3, <2>6, <2>7, AllAreHeld DEF NothingLostOrReordered, Taken, Held
<1> QED
  BY <1>2, <1>7, <1>8, <1>9, <1>10 DEF LogInv, EndInv

LEMMA RecycleStep == ASSUME LogInv, Recycle PROVE LogInv'
<1>1. LogType /\ SparesInv /\ WrittenInv /\ NothingLostOrReordered
  BY DEF LogInv
<1> DEFINE spare == IF Len(buffersToWrite) < 2 THEN Len(buffersToWrite) ELSE 2
<1> DEFINE needed == (IF newBuffer1 = NoBuffer THEN 1 ELSE 0) + (IF newBuffer2 = NoBuffer THEN 1 ELSE 0)
<1>2. /\ newBuffer1' = <<>> /\ newBuffer2' = <<>> /\ buffersToWrite' = <<>> /\ written' = 0
      /\ flushed' = Len(file) /\ pc = "recycle" /\ pc' = "loop"
      /\ died = "no" /\ died' = IF needed <= spare THEN "no" ELSE "assert"
      /\ UNCHANGED <<front, running, file, log, kept, fatal, outputs>>
  BY Zenon DEF Recycle
<1>3. UNCHANGED <<current, next, buffers>>
  BY <1>2 DEF front
<1>4. died' = "no"
  <2>1. Len(buffersToWrite) \in Nat /\ buffersToWrite \in Seq(Lines)
    BY <1>1 DEF LogType
  <2>2. Len(buffersToWrite) >= 1 /\ NoBuffer # <<>>
    BY <1>1, <1>2, <2>1 DEF SparesInv, NoBuffer
  <2>3. newBuffer1 = NoBuffer /\ (newBuffer2 = <<>> \/ Len(buffersToWrite) >= 2)
    BY <1>1, <1>2 DEF SparesInv
  <2>4. needed <= spare
    BY <2>1, <2>2, <2>3
  <2> QED
    BY <1>2, <2>4
<1>5. LogType'
  BY <1>1, <1>2, <1>3 DEF LogType, Lines
<1>6. SparesInv' /\ WrittenInv'
  BY <1>1, <1>2, <1>3, <1>4 DEF SparesInv, WrittenInv
<1>7. NothingLostOrReordered'
  <2>1. file \o Taken \o Held = log
    BY <1>1, <1>2, NothingLostIs
  <2>2. written = Len(buffersToWrite) /\ <<>> \in Seq(Lines) /\ Len(buffersToWrite) \in Nat
    BY <1>1, <1>2 DEF WrittenInv, LogType, Lines
  <2>3. After(buffersToWrite, written) = <<>> /\ After(<<>>, 0) = <<>>
    <3>1. After(buffersToWrite, written) = <<>>
      BY <1>1, <2>2, NothingAfter DEF LogType
    <3>2. After(<<>>, 0) = <<>>
      BY <2>2, AfterIs
    <3> QED
      BY <3>1, <3>2
  <2>4. Taken' = Taken /\ Held' = Held /\ file' = file /\ log' = log
    BY <1>2, <1>3, <2>3 DEF Taken, Held
  <2>5. buffers \in Seq(Lines) /\ current \in Lines
    BY <1>1 DEF LogType
  <2> QED
    BY <1>2, <1>3, <2>1, <2>4, <2>5, AllAreHeld DEF NothingLostOrReordered, Taken, Held
<1> QED
  BY <1>2, <1>5, <1>6, <1>7 DEF LogInv, EndInv

\* The buffers the last writes have still to write are all that is left: an empty
\* current_buffer_ is passed over.
LEMMA LastIsRest ==
    ASSUME LogType
    PROVE  /\ LastBuffers \in Seq(Lines)
           /\ \A n \in 0..Len(LastBuffers) :
                FlattenSeq(After(Append(buffers, current), n)) = FlattenSeq(After(LastBuffers, n))
           /\ FlattenSeq(After(Append(buffers, current), Len(LastBuffers))) = <<>>
<1>1. /\ buffers \in Seq(Lines) /\ current \in Lines
      /\ Append(buffers, current) \in Seq(Lines) /\ Append(buffers, current) = buffers \o <<current>>
      /\ Len(Append(buffers, current)) = Len(buffers) + 1
      /\ Len(buffers) \in Nat
  BY DEF LogType
<1>2. current # NoBuffer
  BY <1>1, LinesAreThere
<1>3. LastBuffers \in Seq(Lines) /\ Len(LastBuffers) \in Nat
  BY <1>1, <1>2 DEF LastBuffers
<1>4. ASSUME NEW n \in 0..Len(LastBuffers)
      PROVE  FlattenSeq(After(Append(buffers, current), n)) = FlattenSeq(After(LastBuffers, n))
  <2>1. CASE current # <<>>
    BY <1>1, <1>2, <2>1 DEF LastBuffers
  <2>2. CASE current = <<>>
    <3>1. LastBuffers = buffers /\ n \in Nat /\ n <= Len(buffers)
      BY <1>1, <1>3, <2>2 DEF LastBuffers
    <3> DEFINE L == Len(buffers) + 1
    <3>2. n + 1 \in 1..L /\ L \in n + 1..L
      BY <1>1, <3>1
    <3>3. SubSeq(Append(buffers, current), n + 1, L)
            = SubSeq(Append(buffers, current), n + 1, L - 1) \o <<Append(buffers, current)[L]>>
      BY <1>1, <3>2, SubSeqRecursiveSecond
    <3>4. Append(buffers, current)[L] = current /\ L - 1 = Len(buffers)
      BY <1>1
    <3>5. SubSeq(Append(buffers, current), n + 1, Len(buffers)) = After(buffers, n)
      BY <1>1, <3>1 DEF After
    <3>6. After(Append(buffers, current), n) = After(buffers, n) \o <<current>>
      BY <1>1, <3>3, <3>4, <3>5 DEF After
    <3>7. After(buffers, n) \in Seq(Lines) /\ FlattenSeq(After(buffers, n)) \in Lines /\ <<current>> \in Seq(Lines)
      <4>1. After(buffers, n) \in Seq(Lines)
        BY <1>1, <3>1, AfterIs
      <4>2. <<current>> \in Seq(Lines)
        BY <1>1
      <4> QED
        BY <4>1, <4>2, FlatLines
    <3>8. FlattenSeq(After(buffers, n) \o <<current>>) = FlattenSeq(After(buffers, n)) \o FlattenSeq(<<current>>)
      BY <3>7, FlattenConcat DEF Lines
    <3>9. FlattenSeq(<<current>>) = <<>>
      BY <1>1, <2>2, FlattenOne DEF Lines
    <3>10. FlattenSeq(After(buffers, n)) \o <<>> = FlattenSeq(After(buffers, n))
      BY <3>7, LinesConcat
    <3> QED
      BY <3>1, <3>6, <3>8, <3>9, <3>10
  <2> QED
    BY <2>1, <2>2
<1>5. FlattenSeq(After(LastBuffers, Len(LastBuffers))) = <<>>
  <2>1. After(LastBuffers, Len(LastBuffers)) = <<>> /\ <<>> \in Seq(Lines)
    BY <1>3, NothingAfter
  <2> QED
    BY <2>1, FlattenIs DEF Lines
<1> QED
  BY <1>3, <1>4, <1>5

\* The invariant during the last writes.
LEMMA DrainingIs ==
    ASSUME LogType, SparesInv, WrittenInv, pc = "draining"
    PROVE  /\ NothingLostOrReordered <=> file \o FlattenSeq(After(LastBuffers, written)) = log
           /\ FlattenSeq(After(LastBuffers, written)) \in Lines
<1>1. /\ written \in 0..Len(LastBuffers) /\ LastBuffers \in Seq(Lines)
      /\ file \in Lines /\ buffersToWrite = <<>> /\ written \in Nat
  BY LastIsRest DEF LogType, SparesInv, WrittenInv
<1>2. FlattenSeq(After(buffersToWrite, written)) = <<>>
  <2>1. <<>> \in Seq(Lines) /\ Len(<<>>) = 0
    BY DEF Lines
  <2>2. After(buffersToWrite, written) = <<>>
    BY <1>1, NothingAfterNothing
  <2> QED
    BY <2>1, <2>2, FlattenIs DEF Lines
<1>3. file \o <<>> = file
  BY <1>1, LinesConcat
<1>4. FlattenSeq(After(LastBuffers, written)) \in Lines
  BY <1>1, AfterIs, FlatLines
<1> QED
  BY <1>1, <1>2, <1>3, <1>4, LastIsRest DEF NothingLostOrReordered

LEMMA DrainStep == ASSUME LogInv, Drain PROVE LogInv'
<1> DEFINE buffer == LastBuffers[written + 1]
<1> DEFINE rest == FlattenSeq(After(LastBuffers, written + 1))
<1>1. LogType /\ SparesInv /\ WrittenInv /\ NothingLostOrReordered
  BY DEF LogInv
<1>2. /\ UNCHANGED <<front, newBuffer1, newBuffer2, buffersToWrite, running, pc, log, kept, fatal, outputs, died>>
      /\ pc = "draining" /\ written < Len(LastBuffers) /\ WriteBuffer(buffer)
  BY DEF Drain
<1>3. UNCHANGED <<current, next, buffers>>
  BY <1>2 DEF front
<1>4. LastBuffers \in Seq(Lines) /\ written \in Nat /\ buffersToWrite = <<>> /\ LastBuffers' = LastBuffers
  BY <1>1, <1>2, <1>3, LastIsRest DEF LogType, SparesInv, LastBuffers
<1>5. /\ buffer \in Lines /\ rest \in Lines
      /\ FlattenSeq(After(LastBuffers, written)) = buffer \o rest
  <2>1. written + 1 \in Nat
    BY <1>4
  <2> QED
    BY <1>2, <1>4, <2>1, AfterIs, FlatLines
<1> HIDE DEF buffer
<1>6. /\ written' = written + 1 /\ written' \in Nat
      /\ file' = file \o buffer /\ file' \in Lines
      /\ flushed' \in 0..Len(file')
  BY <1>1, <1>2, <1>5, WriteStep
<1>7. LogType'
  BY <1>1, <1>2, <1>3, <1>6 DEF LogType
<1>8. SparesInv'
  BY <1>1, <1>2, <1>3 DEF SparesInv
<1>9. WrittenInv'
  <2>1. Len(LastBuffers) \in Nat
    BY <1>4
  <2> QED
    BY <1>2, <1>4, <1>6, <2>1 DEF WrittenInv
<1>10. NothingLostOrReordered'
  <2>1. file \o FlattenSeq(After(LastBuffers, written)) = log /\ file \in Lines
    BY <1>1, <1>2, DrainingIs DEF LogType
  <2>2. (file \o buffer) \o rest = file \o (buffer \o rest)
    BY <1>5, <2>1, LinesAssociative
  <2>3. file' \o rest = log
    BY <1>5, <1>6, <2>1, <2>2
  <2>4. written + 1 \in 0..Len(LastBuffers)
    BY <1>2, <1>4
  <2>5. FlattenSeq(After(Append(buffers, current), written + 1)) = rest
    BY <1>1, <2>4, LastIsRest
  <2>6. FlattenSeq(After(<<>>, written + 1)) = <<>> /\ file' \o <<>> = file'
    <3>1. <<>> \in Seq(Lines) /\ Len(<<>>) = 0 /\ written + 1 \in Nat
      BY <1>4 DEF Lines
    <3>2. After(<<>>, written + 1) = <<>>
      BY <3>1, NothingAfterNothing
    <3> QED
      BY <1>6, <3>1, <3>2, FlattenIs, LinesConcat DEF Lines
  <2> HIDE DEF rest
  <2> QED
    BY <1>2, <1>3, <1>4, <1>6, <2>3, <2>5, <2>6 DEF NothingLostOrReordered
<1> QED
  BY <1>2, <1>7, <1>8, <1>9, <1>10 DEF LogInv, EndInv

LEMMA ThreadEndsStep == ASSUME LogInv, ThreadEnds PROVE LogInv'
<1>1. LogType /\ SparesInv /\ WrittenInv /\ NothingLostOrReordered
  BY DEF LogInv
<1>2. /\ UNCHANGED <<front, back, running, file, log, kept, fatal, outputs, died>>
      /\ pc = "draining" /\ written = Len(LastBuffers) /\ flushed' = Len(file) /\ pc' = "done"
  BY DEF ThreadEnds
<1>3. UNCHANGED <<current, next, buffers, newBuffer1, newBuffer2, buffersToWrite, written>>
  BY <1>2 DEF front, back
<1>4. file = log
  <2>1. file \in Lines /\ file \o <<>> = file
    BY <1>1, LinesConcat DEF LogType
  <2>2. FlattenSeq(After(LastBuffers, written)) = <<>>
    <3>1. /\ LastBuffers \in Seq(Lines) /\ Len(LastBuffers) \in Nat
          /\ <<>> \in Seq(Lines)
      BY <1>1, LastIsRest
    <3>2. After(LastBuffers, written) = <<>>
      BY <1>2, <3>1, NothingAfter
    <3> QED
      BY <3>1, <3>2, FlattenIs DEF Lines
  <2> QED
    BY <1>1, <1>2, <2>1, <2>2, DrainingIs
<1>5. LogType' /\ log \in Lines
  BY <1>1, <1>2, <1>3 DEF LogType, Lines
<1>6. SparesInv' /\ WrittenInv'
  BY <1>1, <1>2, <1>3 DEF SparesInv, WrittenInv
<1>7. EndInv'
  <2>1. Len(log) \in Nat /\ SubSeq(log, 1, Len(log)) = log
    BY <1>5, SubSeqFull DEF Lines
  <2> QED
    BY <1>1, <1>2, <1>4, <2>1 DEF EndInv, LogType
<1> QED
  BY <1>2, <1>5, <1>6, <1>7 DEF LogInv, NothingLostOrReordered

LEMMA LogNext == LogInv /\ [Next]_vars => LogInv'
  BY FrontActions, AbortOrStutter, FlagActions, LeaveLoopStep, CollectStep, WriteBuffersStep,
     RecycleStep, DrainStep, ThreadEndsStep
  DEF Next, BackEnd

LEMMA LogInvariant == Spec => []LogInv
  BY LogInit, LogNext, PTL DEF Spec

\* Double buffering never runs out, for every capacity: append and the swap find a buffer
\* to write to, and neither the asserts at the head of the loop nor the one of the
\* recycling fails while the log runs.
THEOREM BuffersSuffice == Spec => []NeverWithoutBuffer
<1>1. LogInv => NeverWithoutBuffer
  <2> SUFFICES ASSUME LogInv PROVE NeverWithoutBuffer
    OBVIOUS
  <2>1. current # NoBuffer
    BY LinesAreThere DEF LogInv, LogType
  <2> QED
    BY <2>1 DEF LogInv, SparesInv, NeverWithoutBuffer
<1> QED
  BY <1>1, LogInvariant, PTL

\* The files, the buffers taken and those of the front end, read in this order, are the
\* log, whatever appends come between the swap and the writes.
THEOREM LinesAreKept == Spec => []NothingLostOrReordered
<1>1. LogInv => NothingLostOrReordered
  BY DEF LogInv
<1> QED
  BY <1>1, LogInvariant, PTL

\* When stop has joined the thread, every line appended before it was called is on disk.
THEOREM StopKeepsTheLines == Spec => []KeptBeforeStop
<1>1. LogInv => KeptBeforeStop
  <2> SUFFICES ASSUME LogInv, pc = "done"
               PROVE  flushed >= kept /\ IsPrefix(SubSeq(log, 1, kept), file)
    BY DEF KeptBeforeStop
  <2>1. /\ kept <= flushed /\ Len(file) <= Len(log) /\ file = SubSeq(log, 1, Len(file))
        /\ file \in Lines /\ log \in Lines /\ flushed \in 0..Len(file) /\ kept \in 0..Len(log)
    BY DEF LogInv, EndInv, LogType
  <2>2. Len(file) \in Nat /\ Len(log) \in Nat /\ kept <= Len(file) /\ kept \in Nat
    BY <2>1 DEF Lines
  <2>3. SubSeq(log, 1, kept) \in Lines /\ Len(SubSeq(log, 1, kept)) = kept
    BY <2>1, <2>2 DEF Lines
  <2>4. SubSeq(SubSeq(log, 1, kept), 1, kept) = SubSeq(log, 1, kept)
    BY <2>3, SubSeqFull DEF Lines
  <2>5. SubSeq(file, 1, kept) = SubSeq(log, 1, kept)
    <3>1. SubSeq(file, 1, kept) \in Lines /\ Len(SubSeq(file, 1, kept)) = kept
      BY <2>1, <2>2 DEF Lines
    <3>2. \A i \in 1..kept : file[i] = log[i]
      <4>1. \A i \in 1..Len(file) : SubSeq(log, 1, Len(file))[i] = log[i]
        BY <2>1, <2>2 DEF Lines
      <4> QED
        BY <2>1, <2>2, <4>1
    <3>3. \A i \in 1..kept : SubSeq(file, 1, kept)[i] = file[i] /\ SubSeq(log, 1, kept)[i] = log[i]
      BY <2>1, <2>2 DEF Lines
    <3> QED
      BY <2>3, <3>1, <3>2, <3>3, SeqEqual DEF Lines
  <2> QED
    BY <2>1, <2>2, <2>3, <2>4, <2>5 DEF IsPrefix
<1> QED
  BY <1>1, LogInvariant, PTL

=============================================================================
