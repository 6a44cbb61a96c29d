SPECIFICATION BenchSpec
CONSTANTS
    Procs = {p1, p2}
    Manifests = {m1}
    NImages = 1
    SigTerm = TRUE
    Torn = Torn
    Other = Other
    NoProc = NoProc
    Children = 2
INVARIANTS
    ProbeExclusive
    BondsRecoverable
    CleanupHonest
    BurstNotLost
PROPERTIES
    OnlyAudited
CHECK_DEADLOCK FALSE
