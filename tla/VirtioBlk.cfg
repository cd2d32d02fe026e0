\* one request in flight on four descriptors, ring indices that wrap; every
\* completion may leave up to six stale wake-ups, and the foreign
\* interrupt adds its own, so nine attempts
SPECIFICATION Spec
CONSTANTS
    QUEUE_SIZE = 4
    IDX = 4
    Disk <- ThreeSectors
    Capacity = 3
    Requests <- TwoClients
    PARTITION_TABLE_SIZE = 2
    MAX_WAIT_ATTEMPTS = 9
    Triggers = {"level", "strict"}
    MaxForeign = 1
    MaxLost = 1
    MaxFaults = 1
    StartFaults = TRUE
INVARIANTS DescriptorsAccounted CompletionWakes
PROPERTIES ImplementsBlockDevice
CHECK_DEADLOCK FALSE
