SPECIFICATION Spec
CONSTANTS
    MaxPid = 3
    MaxTid = 3
    MAX_KMESG = 2
    MaxPending = 2
    Sniper = Sniper
    NoOne = NoOne
INVARIANTS
    ThreadsHaveProcess
    ExitIsReportedOnce
    UndeadNeverRuns
CHECK_DEADLOCK FALSE
