SPECIFICATION Spec
CONSTANTS
    Proc = {r1, r2, w1, w2}
    Readers = {r1, r2}
    Writers = {w1, w2}
    Queues = {"read_wait", "write_wait"}
    PIPE_SIZE = 2
    Byte = {x, y}
    MaxSize = 2
SYMMETRY Symmetry
INVARIANT NoLostWakeup
PROPERTY ImplementsFifo
