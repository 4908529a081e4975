SPECIFICATION Spec
CONSTANTS
    LastByte = 5
    Chunk = 2
    Byte = 5
    Offsets <- MCOffsets
    Sizes <- MCSizes
    Data = {b0, b1}
INVARIANTS
    TypeOK
    ReadReturnsImage
    TagMatchesBlock
    RequestsAnswered
