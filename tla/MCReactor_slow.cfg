SPECIFICATION Spec
CONSTANTS
    c1 = c1
    c2 = c2
    f1 = f1
    f2 = f2
    NoConn = NoConn
    Conns = {c1}
    Fds = {f1}
    Setups <- PlainOnce
    Requests = {"req"}
    Faults = {"slow"}
INVARIANT SlowReaderIsSurvived
CHECK_DEADLOCK FALSE
