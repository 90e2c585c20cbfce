SPECIFICATION Spec
CONSTANTS
    Requests = {r1, r2, r3}
    Interval = 2
    Timeout = 2
    MaxCrashes = 0
    MaxErrors = 0
CHECK_DEADLOCK FALSE
INVARIANTS DuplicatesAreBlocked
