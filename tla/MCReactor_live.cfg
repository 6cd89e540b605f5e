SPECIFICATION FairSpec
CONSTANTS
    c1 = c1
    c2 = c2
    f1 = f1
    f2 = f2
    NoConn = NoConn
    Conns = {c1, c2}
    Fds = {f1}
    Setups <- InTurn
    Requests = {"req", "last", "bad", "part"}
    Faults = {"slow"}
INVARIANT FlushedBeforeClose
INVARIANT NothingUnread
PROPERTY QueuedIsRun
PROPERTY IdleIsClosed
CHECK_DEADLOCK FALSE
