SPECIFICATION FairSpec
CONSTANTS
    Msgs = {"m1"}
    MaxId = 1
    MaxPending = 2
    MaxPerPacket = 1
    CrashAttempts = 2
    DirectAttempts = 2
    MaxHeld = 1
    MaxCrashes = 1
    MaxForgets = 1
    QueueAfterDrop = FALSE
CHECK_DEADLOCK FALSE
INVARIANTS
    SentMeansReceived
    KeptOrCounted
    StoredOnce
    NeverSilent
PROPERTIES
    DirectMailSettles
