SPECIFICATION StorageSpec
CONSTANTS
    User = {u1, u2}
    Block = {b1, b2}
    BufId = {1, 2}
    MAX_BUFFER_CACHE = 1
    MaxCount = 2
    Sector <- MCSector
    MaxBios = 3
    CmdSlot = {0, 1}
    MAP_SIZE = 2
    Accessor = {a1, a2}
    Index = {0, 1, 5, 6}
    PageId = {1, 2, 3}
    MaxCountUp = 1
INVARIANTS
    BuffersShared
    BufferCoherent
    RequestsSound
    PageCacheExact
    TransfersOwned
    
CHECK_DEADLOCK FALSE
