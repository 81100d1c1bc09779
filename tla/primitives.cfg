SPECIFICATION PrimSpec
CONSTANTS
    Proc = {p1, p2, p3, p4}
    Queues = {"sem", "mutex", "cond", "read_wait", "write_wait", "barrier"}
    Permits = 1
    MaxPosts = 3
    MaxDepth = 2
    Priority = {0, 1}
    Count = 2
    MaxRounds = 3
SYMMETRY Symmetry
INVARIANTS PermitsConserved MutualExclusion WriterAlone NoLostWakeup NoEarlyRelease
