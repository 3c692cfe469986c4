SPECIFICATION Spec
CONSTANTS
    Loads <- MCLoads
    Names <- MCNames
    Fds = {1, 2, 3}
    MaxIno = 5
    MaxOs = 4
    MaxFaults = 1
    CacheSize = 2
    thread_count = 2
    LLONG_MAX = 2
INVARIANT PendingStored
CHECK_DEADLOCK FALSE
