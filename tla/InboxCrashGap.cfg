SPECIFICATION Spec
CONSTANTS
    Letters = {l1}
    Requests = {r1}
    MailboxCap = 1
    MaxAttempts = 1
    InitialBackoff = 1
    MaxBackoff = 0
    MaxAge = 0
    MaxRowId = 1
    EnforceTrustPolicy = TRUE
    Standings = {"established"}
    MarksUnread = FALSE
    LaneErrors = FALSE
    Crashes = TRUE
    MaxFaults = 1
    l1 = l1
    r1 = r1
INVARIANTS
    NeverSilent
