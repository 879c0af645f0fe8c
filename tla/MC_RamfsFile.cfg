SPECIFICATION Spec
CONSTANTS
    Buffers <- ShortBuffers
    ReadSizes = {0, 2}
    Offsets <- ShortOffsets
    JUNK = 9
    WORD = 2
    META_SIZE = 0
    HEAP_SIZE = 20
    MaxFiles = 2
    RAMFS_INITIAL_FILE_ALLOC = 1
    RAMFS_INODE_MAX_CHILDREN_COUNT = 2
    MaxPos = 2
INVARIANTS
    TypeOK
    BlocksApart
    ListingComplete
PROPERTY ImplementsByteFile
