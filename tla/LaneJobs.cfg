SPECIFICATION FairSpec
CONSTANTS
    Lanes = {fg, bg}
    Jobs = {j1, j2, j3}
    Plans <- MCPlans
    MaxQueued = 1
    MaxWrites = 1
    Strict = FALSE
    fg = fg
    bg = bg
    j1 = j1
    j2 = j2
    j3 = j3
CHECK_DEADLOCK FALSE
INVARIANTS
    OwnWritesOnly
    NoIdleSlot
    LoadBounded
    ShutIsQuiet
PROPERTIES
    CancelledNeverStarts
    EveryCallEnds
