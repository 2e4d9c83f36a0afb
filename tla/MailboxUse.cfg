SPECIFICATION Spec
CONSTANTS
    m1 = m1
    m2 = m2
    m3 = m3
    Letters = {m1, m2, m3}
    KindsOf <- MCKindsOf
    Cap = 1
    KeptCap = 1
    MaxId = 3
    Menus = {u1}
CHECK_DEADLOCK FALSE
INVARIANTS
    BoundsNeedOverlap
    NoOrphanRow
    EvictionsTold
PROPERTIES
    CleanDelivery
    ReceiptStays
