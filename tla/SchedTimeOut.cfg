SPECIFICATION Spec
CONSTANTS
    t1 = t1
    t2 = t2
    t3 = t3
    Threads = {t1, t2, t3}
    Boot = t1
    Events = {ide}
    NoEvent = NoEvent
    NoThread = NoThread
    KeyEvents = {}
    KbdEvents = {}
    SignalEvents = {}
    TS_READY_HIGHEST = 1
    TS_READY_LOWEST = 2
    TS_READY_LAZY = 3
    StartLevels = {1}
    MaxCount = 1
    MaxTimeOut = 1
INVARIANT TimedOutThreadIsAwake
