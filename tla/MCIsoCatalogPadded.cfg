CONSTANTS
    Inputs <- PaddedInputs
    Name <- MCName
    DescriptorBytes = 1
    FirstDescriptorSector = 1
    MinRecordBytes = 1
SPECIFICATION FairSpec
PROPERTIES
    Terminates
