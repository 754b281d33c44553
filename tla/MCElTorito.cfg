CONSTANTS
    Inputs <- MCInputs
    Platform = {1, 2, 3}
    BlockBytes = 4
    FirstDescriptor = 1
    LoadSectorBytes = 1
    Slots = 5
SPECIFICATION Spec
INVARIANTS
    OneAuthority
    CatalogIsTheBlock
