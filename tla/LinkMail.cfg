SPECIFICATION FairSpec
CONSTANTS
    Letters = {l1}
    MaxAttempts = 1
    InitialBackoff = 0
    MaxBackoff = 0
    MaxAge = 0
    MaxRowId = 1
    NoAnswerTimeout = 1
    Retention = 2
    RelayCap = 1
    SysOpReplays = TRUE
    MaxAnswers = 2
    MaxIncidents = 1
CHECK_DEADLOCK FALSE
INVARIANTS
    InGoodHands
    DroppedOnlyIfReplayed
PROPERTIES
    KeepsPromise
    EveryLetterSettles
