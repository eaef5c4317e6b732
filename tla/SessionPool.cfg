SPECIFICATION Spec
CONSTANTS
    i1 = i1
    i2 = i2
    i3 = i3
    u1 = u1
    u2 = u2
    s1 = s1
    s2 = s2
    s3 = s3
    s4 = s4
    Instance = {i1, i2, i3}
    User = {u1, u2}
    Session = {s1, s2, s3, s4}
    NoUser = NoUser
    UserOf <- TwoUsers
    HomeOf <- Spread
INVARIANTS
    PoolsAgree
    ActiveHasSession
    EndedLeavesDocuments
CHECK_DEADLOCK FALSE
