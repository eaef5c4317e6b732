SPECIFICATION Spec
CONSTANTS
    t1 = t1
    t2 = t2
    t3 = t3
    c1 = c1
    c2 = c2
    x1 = x1
    Task = {t1, t2, t3}
    Caller = {c1}
    Item = {x1}
    NoTask = NoTask
    ItemOf <- OneItem
INVARIANTS
    ItemStopStopsAll
CHECK_DEADLOCK FALSE
