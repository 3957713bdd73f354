CONSTANTS
    Threads = {1, 2}
    Elements <- AllElements
    InitLists <- OneLongList
    InitFree <- RestFree
    MaxOps = 2
    Ops = {"get", "set", "insert", "remove"}
    END = END
    LOCK = LOCK
SPECIFICATION Spec
INVARIANTS TypeOK ListsLinked ElementsConserved NoOrphanedLock
