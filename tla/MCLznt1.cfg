CONSTANTS
    Inputs <- MCInputs
    TokenBits = 6
    MinDisplacementBits = 2
    ChunkBytes = 16
    MinMatch = 3
SPECIFICATION DecodeSpec
INVARIANTS
    DecodesExactly
    LimitsExact
