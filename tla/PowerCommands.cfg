SPECIFICATION Spec
CONSTANTS
    Profiles = 2
    Peers = {2}
    LateErrors = TRUE
    Wrap = 3
    Count = 7
    MaxLost = 3
    Voltages = {1800, 5000}
    Instruments = {p1, p2, p3}
    Audited = {p1, p2}
    CleanupFaults = TRUE
    MaxSuspends = 5
    MaxResets = 1
    Resumers = 2
INVARIANTS
    SuiteAccounts
    SessionExact
    AuditRestores
    WakeProved
PROPERTIES
    CommandEnds
CHECK_DEADLOCK FALSE
