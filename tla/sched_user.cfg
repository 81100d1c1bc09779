SPECIFICATION WaitFairSpec
CONSTANTS
    MaxPid = 3
    MLFQ_LEVELS = 2
    mlfq_quantums <- MCQuantums
    WaitQueues = {}
    MaxSleep = 1
    Calls <- UserCalls
PROPERTIES ReadyRuns WaitReturns
