CONSTANTS
    plain = plain
    mixed = mixed
    unknown = unknown
    joint = joint
    large = large
    None = None
    Sha <- MCSha
    CommitsOf <- MCCommitsOf
    Account = {1, 2, 3}
    Owner = 1
    Submitter = 2
    Records <- MCRecords
    MaxCommits = 3
    PageCommits = 1
    MaxPushes = 2
    MaxEdits = 1
    MaxStops = 1
SPECIFICATION FairSpec
INVARIANTS
    SuccessMeansAccepted
    NoOldSuccess
PROPERTIES
    HeadIsJudged
CHECK_DEADLOCK FALSE
