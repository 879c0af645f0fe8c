SPECIFICATION Spec
CONSTANTS
    SCHEDULER_MAX_TASK_COUNT = 3
    MAX_FILE_DESCRIPTOR_COUNT = 4
    SECTION_COUNT = 7
    TABLE_COUNT = 4
    HEAP_CAPACITY = 4
    MaxPid = 3
    ExitStatuses = {1}
    StoredWords = {}
    ChildWaitOnly = FALSE
    BuffersInside = FALSE
INVARIANTS
    OpenFilesCounted
