CONSTANTS
    ByteBase = 8
    SIZE_BYTES = 2
    KERNEL_MAX_SIZE = 10
    Images <- AnyImages
    LateImages <- PlainImages
    MaxPending = 3
    MaxFaults = 3
SPECIFICATION FairSpec
INVARIANT TypeOK
INVARIANT LaunchedIntact
PROPERTY SuccessMeansReceived
PROPERTY EventuallyBoots
