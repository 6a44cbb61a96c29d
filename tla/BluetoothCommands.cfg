SPECIFICATION Spec
CONSTANTS
    OracleDrops = 1
    MaxChunk = 2
    Rounds = 5
    TargetDrops = 2
    Bonding = {TRUE, FALSE}
    CachedBonds = {TRUE, FALSE}
    MaxSwitches = 4
INVARIANTS
    OracleLeavesQuiet
    OracleAnswerIsMine
    RoundsLinked
    BondProved
    ScanFresh
PROPERTIES
    CommandEnds
CHECK_DEADLOCK FALSE
