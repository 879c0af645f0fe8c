SPECIFICATION Spec
CONSTANTS
    SCHEDULER_MAX_TASK_COUNT = 3
    MAX_FILE_DESCRIPTOR_COUNT = 3
    SECTION_COUNT = 7
    TABLE_COUNT = 4
    HEAP_CAPACITY = 2
    MaxPid = 4
    ExitStatuses = {0, 1}
    StoredWords = {0, 1}
    ChildWaitOnly = TRUE
    BuffersInside = FALSE
INVARIANTS
    TypeOK
    TableSorted
    ParentAlive
    WaitsOnLiveChild
    CurrentIsScheduled
    ResourcesOwned
    NoTablePanic
    NoResourcePanic
PROPERTIES
    WaitDelivers
    PrivateMemory
