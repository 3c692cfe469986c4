SPECIFICATION FairSpec
CONSTANTS
    f1 = f1
    f2 = f2
    NoFd = NoFd
    Fds = {f1, f2}
    Mixes <- SmallMixes
    MaxCuts = 1
INVARIANTS
    RightDescriptor
    ViewSound
    NoLeak
PROPERTIES
    AnsweredOnce
    EveryCallAnswered
CHECK_DEADLOCK FALSE
