CONSTANTS
    Precision = 4
    MaxBytes = 127
    Kib = 4
    Grain = 128
    TopBits = 20
    ChsLimit = 1000
    SmallBytes = 100
    None = None
    NoExtent = NoExtent
    SizeQuestions <- MCSizeQuestions
    TypeQuestions <- MCTypeQuestions
    ProbeQuestions <- MCProbeQuestions
    ExtentQuestions <- MCExtentQuestions
    PageQuestions <- MCPageQuestions
SPECIFICATION AskSpec
INVARIANTS
    SizeFaithful
    TypeReadsBack
    ProbeStable
    ExtentExact
    PagesTile
