SPECIFICATION FairSpec
CONSTANTS
    c1 = c1
    c2 = c2
    a1 = a1
    Files = {c1, c2, a1}
    FilesOf <- MCFilesOf
    EmptyFiles = {c2}
    Foreign = {"answerer"}
    Logins <- MCLogins
    MaxBatches = 3
CHECK_DEADLOCK FALSE
INVARIANTS
    ConfirmedIsReceived
    CleanEnd
    SecureAgrees
    OnlyFaultsFail
PROPERTIES
    SessionEnds
