SPECIFICATION Spec
CONSTANTS
  Disk <- McDisk
  Capacity <- McCapacity
  PARTITION_TABLE_SIZE = 3
  Threads <- McThreads
  Endpoints <- McEndpoints
  Queues <- McQueues
  SECTOR_WORDS = 5
  FAT16_PER_SECTOR = 4
  FAT32_PER_SECTOR = 2
  DIR_PER_SECTOR = 4
  FAT16_CLUSTERS = 7
  Short <- McShort
  Volumes <- McVolumes
  MAX_OPEN_FILES = 2
  MSG_DATA_WORDS_MAX = 5
  MAX_MOUNTS = 2
  MAX_GPT_PARTS = 3
  WORKER_PAGES = 2
  DriverEndpoints <- McDriverEndpoints
  PAGE_WORDS = 8
  HEADER_WORDS = 2
  PROCESS_STACK_PAGES = 1
  Modules <- McModules
  MAX_PROCESSES = 10
  MAX_FREE_PAGES = 1
  MAX_GRANT = 2
  VFS_CHUNK = 4
  Instances <- McInstances
  ConfigSpace <- McConfigSpace
  BUSES = 1
  SLOTS = 4
  FUNCTIONS = 2
  MAX_DEVICES = 4
  MAX_BARS = 6
  MAX_CAPS = 4
  MAX_SERVICES = 2
  MAX_RESTARTS = 1
  REGISTRY_CAPACITY = 1
  Names <- McNames
  Crashers <- McCrashers
  Smokes <- McSmokes
  HEAP_INITIAL_PAGES = 3
  FRAMES_PER_REQUEST = 2
  Machines <- McMachines
  AMPLE = 70
  Files <- McFiles
  LOG_THREAD_STACK_PAGES = 1
  READ_WORDS = 5
  HwEcam <- McEcam
  HwWindows <- McWindows
  HwIrqs <- McIrqs
  IRQ_BATCH = 2
  RootUuid = "root"
INVARIANTS BootCompletes RightCapabilities MountsRight ReadRight DeathNoticed FramesOwnedOnce
CHECK_DEADLOCK FALSE
