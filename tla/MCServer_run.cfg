SPECIFICATION FairSpec
CONSTANTS
    MaxConns = 3
    MaxThreads = 2
    Uninitialised = {{}, {"https"}}
    Faults = {"cert", "ssl", "accept"}
INVARIANT TurnsAreEven
INVARIANT NoneIsLost
PROPERTY ConnectedIsServed
PROPERTY StartEnds
CHECK_DEADLOCK FALSE
