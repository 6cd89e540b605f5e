SPECIFICATION FairSpec
CONSTANTS
    Capacity = 1
    MaxLines = 4
    RollSize = 2
    CheckEveryN = 2
    FlushInterval = 1
    RollPeriod = 2
    MaxTime = 3
INVARIANT NeverWithoutBuffer
INVARIANT NothingLostOrReordered
INVARIANT KeptBeforeStop
INVARIANT FilesRoll
PROPERTY EveryLineIsFlushed
PROPERTY StopEnds
CHECK_DEADLOCK FALSE
