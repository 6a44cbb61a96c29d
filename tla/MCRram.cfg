SPECIFICATION FairSpec
CONSTANTS
    UnitSize = 2
    MaxWrite = 4
    Limit = 8
    Top = 9
    Regions <- MCRegions
    Sizes = {0, 1, 2, 4, 6}
    Contents <- MCContents
    Cells = {"erased", "a", "b"}
    Erased = "erased"
    Wrap = 4
    Timeout = 2
    MaxGap = 1
INVARIANTS
    TransactionExact
    TimeoutHonoured
PROPERTIES
    Completes
    ImplementsClient
