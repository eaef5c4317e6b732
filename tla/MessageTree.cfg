SPECIFICATION Spec
CONSTANTS
    MaxMessages = 5
    MaxModels = 2
    MaxWaiting = 2
    MaxUpsets = 1
CONSTRAINT BeforeStaleCopy
CHECK_DEADLOCK FALSE
INVARIANTS
    TreeAgrees
    WholeBranchShown
    AnswersHaveQuestions
