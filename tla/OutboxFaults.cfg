SPECIFICATION Spec
CONSTANTS
    Letters = {l1}
    MaxAttempts = 2
    InitialBackoff = 1
    MaxBackoff = 1
    MaxAge = 1
    NoAnswerTimeout = 1
    MaxRowId = 1
    EnforceTrustPolicy = TRUE
    SysOpActs = FALSE
    LaneErrors = TRUE
    Crashes = TRUE
    MaxFaults = 1
    PeerAnswers = {"accepted", "bounced"}
    SenderReads = TRUE
INVARIANTS NoFalseAlarm NeverSilentFailure PushedMeansHanded
PROPERTIES AnswersAreFinal
