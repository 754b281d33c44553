CONSTANTS
    Byte <- MCByte
    Sources <- MCSources
    Texts <- MCTexts
    BlockSizes = {0, 1, 2, 3}
    MaxBlockBytes = 2
    None = None
SPECIFICATION FairSpec
INVARIANTS
    VerdictIsTheFile
PROPERTIES
    ImplementsBoundedCopy
    CancelReturns
