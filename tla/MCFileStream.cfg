CONSTANTS
    Calls <- MCCalls
    ChunkBytes = 2
SPECIFICATION Spec
INVARIANTS
    CopyIsHonest
PROPERTIES
    ImplementsBoundedCopy
