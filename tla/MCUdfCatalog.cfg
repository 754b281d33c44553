CONSTANTS
    Inputs <- MCInputs
    Name <- MCName
    SectorBytes = 2
    AnchorSector = 2
    MaxDescriptorBytes = 12
SPECIFICATION FairSpec
INVARIANTS
    VolumeVouchedFor
    PrevailingDescriptors
    BudgetsHold
    ListingIsSound
    OmissionsReported
    RejectionsReported
PROPERTIES
    ImplementsTraversal
    Terminates
