SPECIFICATION FairSpec
CONSTANTS
    Letters = {l1}
    Requests = {r1}
    MailboxCap = 1
    MaxAttempts = 2
    InitialBackoff = 1
    MaxBackoff = 1
    MaxAge = 1
    MaxRowId = 1
    EnforceTrustPolicy = TRUE
    Standings = {"established", "probationary", "user_blocked", "node_blocked"}
    MarksUnread = TRUE
    LaneErrors = FALSE
    Crashes = FALSE
    MaxFaults = 0
    l1 = l1
    r1 = r1
INVARIANTS
    NeverSilent
PROPERTIES
    EveryLetterAnswered
    EveryAnswerSettles
