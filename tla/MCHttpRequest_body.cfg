SPECIFICATION Spec
CONSTANTS
    Kinds = {"get", "close", "post0", "post2", "junk", "badheader", "nan"}
    Byte <- Units
    Zero <- Nul
    Prepend = 1
    InitialSize = 3
    Extra = 3
    MaxRequests = 2
INVARIANT BodyIsWhole
CHECK_DEADLOCK FALSE
