CONSTANTS
    Threads = {1, 2}
    Keys = {"a", "b", "c"}
    Values = {v1}
    Home <- ClusterHome
    HashSize = 5
    PerThread = 2
    Loaded <- Nothing
    LoadedValue = v1
    Ops = {"get", "set", "insert", "insertOrSet", "process"}
    MaxOps = 2
    MaxLockDepth = 5
    FREE = FREE
    LOCK = LOCK
    None = None
SPECIFICATION FairSpec
INVARIANTS TypeOK LocksOwned ProbeInvariant FreeNotHashed NoAbort FreeElementReady
PROPERTIES OperationsReturn ImplementsCache
