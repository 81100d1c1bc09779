SPECIFICATION IntSpec
CONSTANTS
    RtProc = {1, 2, 3}
    RtLock = {11, 12}
    MLFQ_LEVELS = 3
    SpinLocks = {l1, l2}
    SpinPid = {1, 2}
    MaxHeld = 2
    MaxEntries = 3
    SigPid = {1, 2}
    SigGid <- MCSigGid
    SIGMAX = 2
    Timer = {t1, t2, t3}
    MaxTime = 2
    ActionId = {1, 2, 3}
    Dev = {d1, d2}
    MaxPosts = 2
INVARIANTS
    
    SignalsInOrder
    TimersRun
    ActionsLive
PROPERTY SpinlocksNest
CHECK_DEADLOCK FALSE
