SPECIFICATION Spec
CONSTANTS
    i1 = i1
    i2 = i2
    s1 = s1
    s2 = s2
    s3 = s3
    m1 = m1
    m2 = m2
    Instance = {i1, i2}
    Cleaner = {i1}
    Model = {m1}
    Session = {s1, s2, s3}
    HomeOf <- ThreeHomes
    Timeout = 1
    Period = 1
    Horizon = 3
SYMMETRY Models
INVARIANTS
    CleanerSurvives
    ListedModelsHaveSessions
    StaleIsSwept
    FreshIsListed
