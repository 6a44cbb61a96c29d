SPECIFICATION FairSpec
INVARIANTS
    ConnectionAgrees
PROPERTY
    PlugAttaches
