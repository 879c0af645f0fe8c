SPECIFICATION Spec
CONSTANTS
    SCHEDULER_MAX_TASK_COUNT = 4
    MAX_FILE_DESCRIPTOR_COUNT = 3
    SECTION_COUNT = 8
    TABLE_COUNT = 5
    HEAP_CAPACITY = 2
    MaxPid = 4
    ExitStatuses = {1}
    StoredWords = {}
    ChildWaitOnly = FALSE
    BuffersInside = FALSE
INVARIANTS
    OnlyExitMovesCurrent
