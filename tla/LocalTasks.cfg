SPECIFICATION FairSpec
CONSTANTS
    t1 = t1
    t2 = t2
    t3 = t3
    c1 = c1
    c2 = c2
    x1 = x1
    Task = {t1, t2}
    Caller = {c1, c2}
    Item = {x1}
    NoTask = NoTask
    ItemOf <- OneItem
INVARIANTS
    CancelledAtMostOnce
    UnlistedIsBeingStopped
    ListedForItem
PROPERTIES
    StopIsAnswered
    ImplementsLifecycle
CHECK_DEADLOCK FALSE
