SPECIFICATION Spec
CONSTANTS
    MaxPid = 3
    MLFQ_LEVELS = 2
    mlfq_quantums <- MCQuantums
    WaitQueues = {w1}
    MaxSleep = 1
    Calls <- KernelCalls
INVARIANTS QueueIntegrity OneRunning
PROPERTY ImplementsCpu
