------------------------------ MODULE LogFile ------------------------------
(***************************************************************************)
(* The log files: append writes to the open one and decides whether to     *)
(* roll to the next (it has outgrown RollSize, or a new period has begun)  *)
(* or to flush.  Time is read once in an append and passes between them.   *)
(***************************************************************************)
EXTENDS Integers

CONSTANTS
    RollSize,        \* roll_size_
    CheckEveryN,     \* check_every_n_
    FlushInterval,   \* flush_interval_
    RollPeriod,      \* kRollPerSeconds_
    MaxTime          \* bound on the clock

ASSUME LogFileAssumption ==
    /\ RollSize \in Nat /\ FlushInterval \in Nat
    /\ CheckEveryN \in Nat \ {0} /\ RollPeriod \in Nat \ {0}
    /\ MaxTime \in Nat \ {0}

VARIABLES
    logFile,      \* size of the open file; count_, start_of_period_, last_roll_, last_flush_
    now,          \* the time of the last append
    late          \* appends in a row that left the file of an earlier period open

logFileVars == <<logFile, now, late>>

PeriodOf(t) == t - (t % RollPeriod)

\* rollFile: file names have a resolution of one second, so that a file is not
\* followed by another in the second it was opened.
Rolled(f, t) ==
    IF t > f.lastRoll
    THEN [size |-> 0, count |-> f.count, start |-> PeriodOf(t), lastRoll |-> t, lastFlush |-> t]
    ELSE f

NewLogFile(t) == Rolled([size |-> 0, count |-> 0, start |-> 0, lastRoll |-> 0, lastFlush |-> 0], t)

OutgrownBy(f, len) == f.size + len > RollSize
Checks(f) == f.count + 1 >= CheckEveryN

\* append_unlocked.
Checked(f, t) ==
    IF PeriodOf(t) # f.start THEN Rolled(f, t)
    ELSE IF t - f.lastFlush > FlushInterval THEN [f EXCEPT !.lastFlush = t] ELSE f
Lengthened(f, len) == [f EXCEPT !.size = @ + len]
Counted(f) == [f EXCEPT !.count = @ + 1]
Recounted(f) == [f EXCEPT !.count = 0]
\* Faulty variant: the size is not looked at.
FileAppendedUnchecked(f, len, t) ==
    IF Checks(f) THEN Checked(Recounted(Lengthened(f, len)), t) ELSE Counted(Lengthened(f, len))
FileAppended(f, len, t) ==
    IF OutgrownBy(f, len) THEN Rolled(Lengthened(f, len), t)
    ELSE IF Checks(f) THEN Checked(Recounted(Lengthened(f, len)), t)
    ELSE Counted(Lengthened(f, len))

\* A roll closes the file, which flushes it.
Flushes(f, g) == g.lastRoll # f.lastRoll \/ g.lastFlush # f.lastFlush

LogFileInit ==
    /\ now = 1
    /\ logFile = NewLogFile(now)
    /\ late = 0

AppendToFile(len, t) ==
    /\ t \in now..MaxTime
    /\ now' = t
    /\ logFile' = FileAppended(logFile, len, t)
    /\ late' = IF logFile'.start = PeriodOf(t) THEN 0 ELSE late + 1

LogFileNext == \E len \in Nat, t \in now..MaxTime : AppendToFile(len, t)
LogFileSpec == LogFileInit /\ [][LogFileNext]_logFileVars

-----------------------------------------------------------------------------
\* A file is left with more than RollSize only by an append in the second it was opened.
RollsWhenFull == logFile.size > RollSize => now = logFile.lastRoll

\* A new period is noticed within CheckEveryN appends.
RollsEachPeriod == late < CheckEveryN

\* Files are rolled when they are due, although rollFile may refuse, and the look at
\* the clock is taken only every so often.
FilesRoll == RollsWhenFull /\ RollsEachPeriod

=============================================================================
