SPECIFICATION FairSpec
CONSTANTS
    WRITE_BUFFER_SIZE = 2
    HeapFiles = 1
    Texts <- SomeTexts
    Conversions <- SomeConversions
    ReadSizes = {2}
    Offsets <- SomeOffsets
    Modulus = 16
    MaxPos = 3
    MaxOpens = 1
PROPERTIES
    StreamIsFile
    WriteEnds
    NumbersReadBack
