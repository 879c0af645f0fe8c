CONSTANTS
    a = a
    b = b
    Names = {a, b}
    EMPTY = EMPTY
    Paths <- ShortPaths
    DevicePaths <- BlockDevices
    FatTree <- Disk
    FatFormat <- DiskFormats
    DENTRY_COUNT = 4
    DENTRY_MAX_CHILREN_COUNT = 2
    RAMFS_INODE_MAX_CHILDREN_COUNT = 2
    MaxInodes = 4
SPECIFICATION Spec
INVARIANTS
    TypeOK
    LookupCorrect
    CacheIsTree
    NamesUnique
    DirectoryNeverFull
PROPERTY FilesStay
