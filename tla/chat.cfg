SPECIFICATION FairSpec
CONSTANTS
    Deliveries = {d1, d2}
    Requests = {r1, r2}
    MaxDisconnects = 2
    MaxCrashes = 1
    MaxErrors = 2
INVARIANTS ReplyFollowsItsQuestion ShownIsStored RepeatIsReplayed
PROPERTIES AnswerSettles
CHECK_DEADLOCK FALSE
