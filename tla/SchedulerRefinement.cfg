SPECIFICATION FairSpec
CONSTANTS
    SCHEDULER_MAX_TASK_COUNT = 3
    MAX_FILE_DESCRIPTOR_COUNT = 3
    SECTION_COUNT = 7
    TABLE_COUNT = 4
    HEAP_CAPACITY = 2
    MaxPid = 4
    ExitStatuses = {1}
    StoredWords = {}
    ChildWaitOnly = TRUE
    BuffersInside = FALSE
INVARIANTS
    NoDeadlock
PROPERTIES
    ImplementsLifecycle
    NoStarvation
