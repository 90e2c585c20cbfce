SPECIFICATION FairSpec
CONSTANTS
    MaxAttempts = 2
    MaxTries = 3
    Clients = {c1, c2}
    MaxPosts = 2
    MaxCrashes = 1
    MaxTimeouts = 1
    MaxErrors = 1
    MaxInvalid = 1
    MaxStalls = 1
    MaxFaults = 2
CHECK_DEADLOCK FALSE
INVARIANTS LatestClaimWins OneBuilder
PROPERTIES ReadyIsFinal ImplementsLife ReportSettles
