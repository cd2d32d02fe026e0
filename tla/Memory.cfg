SPECIFICATION Spec
CONSTANTS
    PAGE_SIZE = 4
    MAX_ORDER = 2
    POOL_SIZE = 16
    Top = 272
    KERNEL_RESERVE_PAGES = 3
    MaxDrained = 1
    MAX_RANGES = 4
    MAX_EXCL = 4
    BIN_SIZES <- Twelve
    SMALL_OBJ = 1
    MEDIUM_OBJ = 2
    MAX_SLABS = 2
    LEVELS = 3
    ENTRIES = 8
    BOOT_TABLE_POOL_SIZE = 10
    BOOT_STACK_SIZE = 8
    Root = root
    CSpaces <- Space
    L1_SIZE = 2
    L2_SIZE = 4
    max_slots <- Quota
    Objects = {o1, o2, o3, o4}
    AllRights = {"MAP", "READ", "WRITE", "EXECUTE"}
    Machines <- AllMachines
    Box <- SmallBox
    DrainBuffer = 5
    Requests <- Sizes
    Threads = {t1, t2}
    Virts <- Addresses
    Counts = {2}
    Prots <- Protections
    MaxCalls = 3
SYMMETRY Symmetry
INVARIANTS BlocksInv NoFalseShortage HeapSound UserView KernelMapped
CHECK_DEADLOCK FALSE
