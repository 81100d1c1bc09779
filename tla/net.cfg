SPECIFICATION NetSpec
CONSTANTS
    SkbId = {1, 2, 3}
    NUM_TX = 3
    NUM_RX = 3
    Frames <- MCFrames
    Payloads = {1}
INVARIANTS
    SkbOwned
    RxRing
