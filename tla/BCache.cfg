CONSTANTS
    Threads = {t1, t2}
    NoThread = NoThread
    MaxBlock = 3
    nMaxHashIndex = 2
    nMaxEntry = 2
    ClusterSize = 2
    MaxRead = 1
    MaxVersion = 1
SPECIFICATION Spec
INVARIANTS OneEntryPerBlock CountersMatch CachedIsLatest CachedIsOwn

