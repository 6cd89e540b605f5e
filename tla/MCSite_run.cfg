SPECIFICATION SiteSpec
CONSTANTS
    Kinds = {"get", "close", "post2", "badheader", "nan"}
    Byte <- Units
    Zero <- Nul
    Prepend = 1
    InitialSize = 3
    Extra = 3
    MaxRequests = 3
    KeyOrder <- MCKeyOrder
    Registry <- MCRegistry
    WebFiles <- MCWebFiles
    Unreadable <- MCUnreadable
    Numbers <- MCNumbers
    Names <- MCNames
    Paths <- MCPaths
    Files <- MCFiles
    Requests <- MCRequests
INVARIANTS
    AnswersFollowStream
    ExecutedInOrder
    IndicesInBounds
    BufferIsQueue
    RoutesFollowFile
    AnsweredByItsRoute
CHECK_DEADLOCK FALSE
