SPECIFICATION Spec
CONSTANTS
    Boards = {b1, b2}
    MaxCommands = 4
    SwapInRestore = FALSE
    Versions = {v1, v2}
    Toolchains = {t1, t2}
    Variants = {gnu, plain}
    Edited = Edited
    None = None
    Overlap = FALSE
    Bank = 4
    Limit = 8
    Payloads <- MCPayloads
    MaxRecords = 4
    Forbidden <- MCForbidden
    Allowlist <- MCAllowlist
    Procs = {c1, c2}
    Manifests = {Normal, Fault}
    NImages = 2
    SigTerm = TRUE
    Torn = Torn
    Other = Other
    NoProc = NoProc
    Normal = Normal
    Fault = Fault
    Cycles = 2
INVARIANTS
    ReportsHold
    ManifestBinds
    AuditExact
    GateRestores
CHECK_DEADLOCK FALSE
