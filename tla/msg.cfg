SPECIFICATION MsgSpec
CONSTANTS
    Proc = {p1, p2, p3}
    Queues = {"mutex", "cond"}
    MaxDepth = 1
    Priority = {0}
    Type = {1, 2}
    MaxSends = 3
SYMMETRY Symmetry
INVARIANTS TypeFifo NoMissedMessage
