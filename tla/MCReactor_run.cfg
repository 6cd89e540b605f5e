SPECIFICATION Spec
CONSTANTS
    c1 = c1
    c2 = c2
    f1 = f1
    f2 = f2
    NoConn = NoConn
    Conns = {c1, c2}
    Fds = {f1, f2}
    Setups <- PlainAndTls
    Requests = {"req", "last", "bad", "part"}
    Faults = {"slow", "reset"}
SYMMETRY Symmetry
INVARIANT NoDanglingChannel
INVARIANT RegistriesAgree
INVARIANT OnlyCurrentTimer
INVARIANT OpenIsGuarded
INVARIANT ClosedStaysSilent
CHECK_DEADLOCK FALSE
