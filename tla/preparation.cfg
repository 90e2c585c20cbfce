SPECIFICATION FairSpec
CONSTANTS
    MaxAttempts = 2
    MaxTries = 3
    Clients = {c1, c2}
    StaleAfterTimeout = TRUE
    MaxClaims = 3
    MaxPosts = 2
    MaxCrashes = 1
    MaxLost = 1
    MaxTimeouts = 1
    MaxErrors = 1
    MaxFaults = 1
CHECK_DEADLOCK FALSE
INVARIANTS ClaimIsExclusive
PROPERTIES ImplementsLife PreparationSettles
