SPECIFICATION Spec
CONSTANTS
    Tabs = {t1, t2}
    MaxCalls = 4
    MaxFaults = 2
SYMMETRY Symmetry
INVARIANTS OneLiveTokenPerLogin RefusalHasCause StoredTokenWorks
CHECK_DEADLOCK FALSE
