SPECIFICATION FairSpec
CONSTANTS
    BLOCK_SIZE = 2
    CardBlocks = 3
    RamBlocks = 2
    ReadSizes = {0, 1, 3}
    PollPeriod = 2
    PollLimit = 2
    MaxFaults = 3
INVARIANTS
    ReadyMeansSelected
    ReadsDevice
PROPERTIES
    CommandsApart
    CallEnds
