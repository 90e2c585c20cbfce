SPECIFICATION FairSpec
CONSTANTS
    Requests = {r1, r2, r3}
    Interval = 2
    Timeout = 2
    MaxCrashes = 1
    MaxErrors = 1
CHECK_DEADLOCK FALSE
INVARIANTS OverlapHasCause
PROPERTIES SlotComesFree
