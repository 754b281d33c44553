CONSTANTS
    Inputs <- MCInputs
    Name <- MCName
    DescriptorBytes = 1
    FirstDescriptorSector = 1
    MinRecordBytes = 1
SPECIFICATION FairSpec
INVARIANTS
    ReadsInsideSource
    ReadAtMostOnce
    BytesReadAccounted
    BudgetsHold
    ListingIsSound
    OmissionsReported
    RejectionsReported
PROPERTIES
    ImplementsTraversal
    Terminates
