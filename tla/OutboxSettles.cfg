SPECIFICATION FairSpec
CONSTANTS
    Letters = {l1,l2}
    MaxAttempts = 2
    InitialBackoff = 1
    MaxBackoff = 1
    MaxAge = 0
    NoAnswerTimeout = 1
    MaxRowId = 2
    EnforceTrustPolicy = TRUE
    SysOpActs = FALSE
    LaneErrors = FALSE
    Crashes = FALSE
    MaxFaults = 0
    PeerAnswers = {}
    SenderReads = FALSE
INVARIANTS PendingIsTracked
PROPERTIES EveryLetterSettles RelayedLetterSettles
