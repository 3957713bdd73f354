CONSTANTS
    Threads = {1, 2}
    Elements <- AllElements
    InitLists <- OneLongList
    InitFree <- RestFree
    MaxOps = 1
    Ops = {"get"}
    END = END
    LOCK = LOCK
SPECIFICATION FairSpec
PROPERTY OperationsReturn
