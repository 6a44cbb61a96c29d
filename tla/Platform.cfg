SPECIFICATION FairSpec
CONSTANTS
    Configs = {good, other, badrange, badrc}
    InRange = {good, other, badrc}
    RcConsistent = {good, other, badrange}
    NoConfig = none
    Clients = {radio, rram}
    MaxSessions = 2
    HciBound = 2
    DepthBound = 2
    PowerModes = {off, standby}
    Standby = standby
INVARIANTS
    ReferencesCounted
    ClientsKeepMpsl
    Announced
    CleanWhenDown
    RunsLockedConfig
    HardwareFollows
PROPERTIES
    WorkRuns
    TeardownCompletes
