SPECIFICATION FairSpec
CONSTANTS
    NumQuestions = 1
    MaxDepth = 1
    MaxFollowUps = 0
    MaxAttempts = 2
    MaxTries = 2
    Clients = {c1, c2}
    Requests = {r1, r2}
    Contents = {d1, d2}
    Texts <- OneText
    StaleAfterTimeout = TRUE
    MaxPosts = 2
    MaxCrashes = 0
    MaxLost = 1
    MaxApiCrashes = 1
    MaxTimeouts = 1
    MaxTransients = 0
    MaxRedisErrors = 1
    None = None
CHECK_DEADLOCK FALSE
INVARIANTS GradesMatchAnswers AcknowledgedIsStored ClaimIsExclusive
PROPERTIES EvaluationSettles
