SPECIFICATION Spec
CONSTANTS
    Chat = {a, b}
    MaxMsgs = 2
    MaxMoves = 2
    MaxRatings = 1
    MaxAsides = 1
    MaxBusy = 3
    MaxMishaps = 1
SYMMETRY ChatSymmetry
CHECK_DEADLOCK FALSE
INVARIANTS
    
    
    StayingIsSafe
