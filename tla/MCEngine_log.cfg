SPECIFICATION Spec
CONSTANTS
    Threads = {t1, t2}
    Keys = {k1, k2}
    Values = {v1}
    t1 = t1
    t2 = t2
    k1 = k1
    k2 = k2
    v1 = v1
    v2 = v2
    EmptyKey = EmptyKey
    NoValue = NoValue
    NoThread = NoThread
    HeaderSize = 1
    ValueSize <- MCValueSize
    DiskSize = 5
    Archive <- MCArchive
    Faults = {"short", "crash", "tear", "power"}
SYMMETRY Symmetry
INVARIANTS
    TypeOK
    IndexMatchesLog
    LocatedRecordReadable
    PrefixSurvivesTear
CHECK_DEADLOCK FALSE
