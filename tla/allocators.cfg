SPECIFICATION AllocSpec
CONSTANTS
    total_pages = 7
    low_pages = 1
    reserved_frames = 2
    HeapSize = 30
    HEAP_BLOCK_SIZE = 5
    MinSplit = 2
    MaxSize = 6
INVARIANTS PagesSound HeapSound
