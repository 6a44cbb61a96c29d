SPECIFICATION FairSpec
CONSTANTS
    LengthMin = 2
    LengthMax = 4
    ExtensionMin = 1
    MarginMin = 1
    Times = {0, 1, 2, 3, 4, 5}
    GrantMax = 5
    CleanupOutcomes = {TRUE}
INVARIANTS
    DeadlineInGrant
    OwnerOnlyInGrant
    SessionAgrees
PROPERTIES
    GrantEnds
    ImplementsClient
