SPECIFICATION SpeechSpec
CONSTANTS
    Callers = {1, 2, 3}
    Keys = {k1}
    Fingerprints = {f1, f2}
    Limit = 2
    MaxSessions = 3
    MaxAudio = 2
INVARIANTS SynthesizedOnce AudioIsOwn RateIsBounded SessionsAreReleased ResultsAreCurrent
PROPERTIES WaitersAreAnswered IdleConnectionEnds
CHECK_DEADLOCK FALSE
