SPECIFICATION Spec
CONSTANTS
    Proc = {p1}
    Queues = {"kbd_wq"}
    KBD_BUFFER_SIZE = 4
    MaxCount = 2
INVARIANT NoSleepOverInput
PROPERTY ImplementsFifo
