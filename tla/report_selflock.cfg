SPECIFICATION Spec
CONSTANTS
    MaxAttempts = 2
    MaxTries = 3
    Clients = {c1}
    MaxPosts = 1
    MaxCrashes = 0
    MaxTimeouts = 0
    MaxErrors = 0
    MaxInvalid = 0
    MaxStalls = 1
    MaxFaults = 1
CHECK_DEADLOCK FALSE
INVARIANTS NeverWaitsForItself
