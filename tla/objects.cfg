SPECIFICATION ObjSpec
CONSTANTS
    Frames = {1, 2, 3, 4, 5, 6, 7, 8, 9, 10}
    VUser <- MCVUser
    StackPages <- MCStackPages
    MmioPages <- MCMmioPages
    Programs <- MCPrograms
    SwapSlots = {0, 1}
    Values = {2}
    Slots = {0, 1}
    MaxFunc = 1
    ConfigSpace <- MCConfigSpace
    MultiFunction = {0}
    PciDrivers <- MCPciDrivers
    HasRemove = {"nic"}
    ModProc = {1, 2}
    Images <- MCImages
    KSymtab = {"printk"}
    ModId = {1, 2, 3}
    Majors = {1}
    Names = {"a", "b"}
    NetDev = {1, 2, 3}
    MAX_SOCKETS = 2
    SockId = {1, 2, 3}
    Keys = {7, 8}
    ShmProc = {1, 2}
    TaskPid = {0, 1, 2}
    FilterId = {1, 2}
    Syscalls = {3}
    Subsys = {"cpu"}
    CGROUP_SUBSYS_COUNT = 1
    NsKind = {"uts"}
    MaxProxies = 2
INVARIANTS
    AddressSpaceSound
    DevicesBound
    RegistriesSound
    TasksCounted
CHECK_DEADLOCK FALSE
