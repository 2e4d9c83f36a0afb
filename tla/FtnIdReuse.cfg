SPECIFICATION Spec
CONSTANTS
    Msgs = {"m1", "m2"}
    MaxId = 2
    MaxPending = 2
    MaxPerPacket = 2
    CrashAttempts = 1
    DirectAttempts = 2
    MaxHeld = 1
    MaxCrashes = 0
    MaxForgets = 0
    QueueAfterDrop = TRUE
CHECK_DEADLOCK FALSE
INVARIANTS
    SentMeansReceived
