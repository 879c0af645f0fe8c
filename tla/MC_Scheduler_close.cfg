SPECIFICATION Spec
CONSTANTS
    SCHEDULER_MAX_TASK_COUNT = 2
    MAX_FILE_DESCRIPTOR_COUNT = 4
    SECTION_COUNT = 6
    TABLE_COUNT = 3
    HEAP_CAPACITY = 3
    MaxPid = 2
    ExitStatuses = {1}
    StoredWords = {}
    ChildWaitOnly = TRUE
    BuffersInside = FALSE
INVARIANTS
    ReleasedUnreferenced
