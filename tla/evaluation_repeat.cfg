SPECIFICATION Spec
CONSTANTS
    NumQuestions = 1
    MaxDepth = 1
    MaxFollowUps = 0
    MaxAttempts = 1
    MaxTries = 1
    Clients = {c1, c2}
    Requests = {r1}
    Contents = {d1, d2}
    Texts <- AllTexts
    StaleAfterTimeout = TRUE
    MaxPosts = 2
    MaxCrashes = 0
    MaxLost = 0
    MaxApiCrashes = 0
    MaxTimeouts = 0
    MaxTransients = 0
    MaxRedisErrors = 0
    None = None
CHECK_DEADLOCK FALSE
INVARIANTS OtherTextIsRefused
