SPECIFICATION FairSpec
CONSTANTS
    i1 = i1
    i2 = i2
    t1 = t1
    t2 = t2
    x1 = x1
    Instance = {i1, i2}
    Caller = {c1}
    NoInstance = NoInstance
    Task = {t1, t2}
    Item = {x1}
    ItemOf <- OneItem
    MaxFaults = 1
INVARIANTS
    ListedTogether
    RunningIsListed
    RunningIsRegistered
    LocalTablesAgree
PROPERTIES
    StopEndsTask
    ImplementsLifecycle
