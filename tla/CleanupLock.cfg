SPECIFICATION Spec
CONSTANTS
    Instance = {i1, i2, i3}
    None = None
    Gone = Gone
    LockTimeout = 4
    Period = 1
    MaxLate = 1
SYMMETRY Symmetry
INVARIANTS
    OneCleaner
    ReleasesOwnLock
    SkipsOnlyForLiveCleaner
