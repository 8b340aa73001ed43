SPECIFICATION SyncSpec
CONSTANTS
    a1 = a1
    a2 = a2
    b1 = b1
    pa = pa
    pb = pb
    Threads = {a1, a2, b1}
    Processes = {pa, pb}
    ProcOf <- MCProcOf
    Sems = {s1, s2}
    Names = {n1}
    NoName = NoName
    NoSem = NoSem
    InitValues <- MCInitValues
    MinValue <- MCMinValue
    MaxValue = 1
    MaxRef = 2
    Loaders = {t1, t2, t3, t4}
    MaxCount = 2
INVARIANTS
    NoSleeperWithPermit
    SleepersAreLinked
    OpenSemaphoresLive
    MutualExclusion
    FreeSectionHasTaker
PROPERTIES
    SemaphoreRefined
    SectionIsUsed
