CONSTANTS
    Streams <- MCStreams
    Totals = {0, 1, 2, 3, 4, 5, 6}
    Configs <- MCConfigs
    HexRowBytes = 2
    AddressDigits = 1
    AddressBase = 2
    NoPreview = NoPreview
SPECIFICATION Spec
INVARIANTS
    ViewValidates
