SPECIFICATION Spec
SYMMETRY Symmetric
CONSTANTS
    NumQuestions = 2
    MaxDepth = 2
    MaxFollowUps = 1
    MaxAttempts = 1
    MaxTries = 2
    Clients = {c1}
    Requests = {r1, r2}
    Contents = {d1}
    Texts <- AllTexts
    StaleAfterTimeout = FALSE
    MaxPosts = 2
    MaxCrashes = 1
    MaxLost = 0
    MaxApiCrashes = 0
    MaxTimeouts = 0
    MaxTransients = 1
    MaxRedisErrors = 0
    None = None
CHECK_DEADLOCK FALSE
INVARIANTS OneOpenTurn QuestionsInOrder
PROPERTIES EndedIsFinal GradesAreFinal ImplementsProgress
