SPECIFICATION Spec
CONSTANTS
    Volumes <- SmallVolumes
    Paths <- SomePaths
    ReadSizes = {0, 1, 2, 5}
    Offsets <- SomeOffsets
    FAT32_SECTOR_SIZE = 2
    FatEntries = 2
    DirEntries = 2
    FAT_ENTRY_END = 99
    FAT_LFN_CHAR_COUNT = 2
    EXT_LENGTH = 2
    CharValues = 256
    NameLength = 8
    MAX_DIR_NAME_LEN = 6
    Modulus = 256
    MaxTurns = 8
INVARIANTS
    CursorMatchesPos
    StopsOnlyOutside
    ListingComplete
PROPERTIES
    ReadsFile
    PathsResolve
