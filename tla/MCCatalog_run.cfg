SPECIFICATION Spec
CONSTANTS
    Writers = {t1, t2}
    Readers = {r}
    NoThread = NoThread
    MaxId <- MCMaxId
    Algos <- MCAlgos
    Lists <- MCLists
    New = New
    Null = Null
    Absent = Absent
    t1 = t1
    t2 = t2
    r = r
    a = a
    b = b
SYMMETRY Symmetry
INVARIANTS
    IdIsFresh
    AnsweredIsKept
    IndexesAgree
    RemovalIsComplete
    ReadersSeeWhatStands
    TagsFollowAlgorithm
CHECK_DEADLOCK FALSE
