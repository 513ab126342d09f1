SPECIFICATION Spec
CONSTANTS
    Addrs <- MCAddrs
    RawConfigs <- MCRawConfigs
    MaxAccesses = 4
INVARIANTS
    TypeOK
    TrafficBalance
    StallBalance
    DirtyDataAccounted
PROPERTY
    ImplementsHistory
