SPECIFICATION Spec
CONSTANTS
    Letters = {l1}
    Requests = {r1, r2}
    MailboxCap = 1
    MaxAttempts = 1
    InitialBackoff = 1
    MaxBackoff = 1
    MaxAge = 0
    MaxRowId = 3
    EnforceTrustPolicy = TRUE
    Standings = {"established", "probationary", "node_blocked"}
    MarksUnread = FALSE
    LaneErrors = TRUE
    Crashes = TRUE
    MaxFaults = 2
    l1 = l1
    r1 = r1
    r2 = r2
SYMMETRY RequestSymmetry
INVARIANTS
    AtMostOneCopy
    AcceptedIsLastWord
