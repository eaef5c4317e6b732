SPECIFICATION PageSpec
CONSTANTS
    MaxAnswers = 2
    MaxQuestions = 2
    MaxAsks = 1
    MaxModels = 2
    MaxBusy = 3
    MaxUpsets = 1
CHECK_DEADLOCK FALSE
INVARIANTS
    NotDoneIsComing
