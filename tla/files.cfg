SPECIFICATION FsSpec
CONSTANTS
    Proc = {p1, p2}
    Names <- MCNames
    Paths <- MCPaths
    MAX_FILES = 2
    MaxDentries = 4
    MaxOpens = 1
    Handles = {h1, h2}
    Values = {"x", "y"}
    PAGE = 2
    MaxSize = 5
    max_cluster = 7
    DataEnd = 6
    EntriesPerCluster = 2
    MaxInodes = 2
    MaxFileSize = 3
SYMMETRY Symmetry
INVARIANTS DirectoriesComplete FilesCounted ContentKept ClustersOwned
PROPERTIES NamesStay
CHECK_DEADLOCK FALSE
