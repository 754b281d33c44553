CONSTANTS
    Inputs <- MCInputs
    SectorBytes = 2
    ChunkBytes = 2
    LaterBytes = {0, 5}
SPECIFICATION FileSpec
INVARIANTS
    BodyIsExact
    TagBlockRight
    ReadsInsidePartition
    StreamIsTheFile
    RefusalJustified
