SPECIFICATION QueuesSpec
CONSTANTS
    t1 = t1
    t2 = t2
    Threads = {t1, t2}
    MAX_KMESG = 3
    Types = {exit, kill}
    Mesgs <- MCMesgs
    NoMesg = NoMesg
    KMESG_ANY = KMESG_ANY
    Readers = {r1, r2}
    RShell = RShell
    Keys = {k1, k2}
    NoKey = NoKey
    MAX_KEY = 2
    SERIAL_PORT_BUFF_SIZE = 2
SYMMETRY Symmetry
INVARIANTS
    CountCoversMessages
    SleeperHasNoMessage
    InputTypeOK
PROPERTY
    KeysInOrder
CHECK_DEADLOCK FALSE
