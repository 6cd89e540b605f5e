SPECIFICATION Spec
CONSTANTS
    Threads = {t1, t2}
    Keys = {k1, k2}
    Values = {v1, v2}
    t1 = t1
    t2 = t2
    k1 = k1
    k2 = k2
    v1 = v1
    v2 = v2
    EmptyKey = EmptyKey
    NoValue = NoValue
    NoThread = NoThread
    HeaderSize = 1
    ValueSize <- MCValueSize
    DiskSize = 8
    Archive <- NoArchive
    Faults = {"crash", "tear"}
INVARIANT
    AppendedWhereIndexed
CHECK_DEADLOCK FALSE
