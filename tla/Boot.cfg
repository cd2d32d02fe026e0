SPECIFICATION Spec
CONSTANTS
    Machines <- AllMachines
    MEMORY_PAGES = 112
    Top = 896
    PAGE_SIZE = 8
    MAX_ORDER = 4
    POOL_SIZE = 40
    KERNEL_RESERVE_PAGES = 26
    MaxDrained = 6
    MAX_RANGES = 12
    MAX_EXCL = 12
    MAX_MODULES = 2
    MAX_CMDLINE_LEN = 4
    TooLong = {"long"}
    MAX_LOAD_SEGMENTS = 2
    INIT_MAX_SEGMENTS = 3
    MAX_PLATFORM_RESOURCES = 16
    MAX_CPUS = 4
    MAX_DEPTH = 4
    MAX_IDENTITY_REGIONS = 40
    MEM_MAP_ENTRY_PAGES = 2
    MAP_ENTRIES_PER_PAGE = 16
    DESCRIPTORS_PER_PAGE = 10
    DESCRIPTOR_SLACK = 4
    BOOT_STACK_PAGES = 2
    TRAMPOLINE_LIMIT = 4
    BOOT_LEVELS = 4
    TABLE_ENTRIES = 16
    PCI_HALF = 2944
    PCI_HIGH = 80000
    BUS_SIZE = 16
    MAX_ENTRIES = 40
    IrqIds <- Irqs
    IO_PORTS = 64
    ADDRESS_LIMIT = 1000000
    KERNEL_STACK_PAGES = 4
    INIT_KSTACK_ORDER = 2
    INIT_INFO_SIZE = 5
    CAP_DESCRIPTOR_SIZE = 2
    INIT_INFO_MAX_PAGES = 8
    INIT_INFO_VADDR = 200
    INIT_STACK_TOP = 206
    INIT_STACK_PAGES = 2
INVARIANTS
    OnlyFreeMemory
    InitInfoRight
    DevicesDisjoint
    ApsAreThemselves
PROPERTIES
    SchedulerEntered
CHECK_DEADLOCK FALSE
