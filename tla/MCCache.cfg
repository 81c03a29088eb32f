CONSTANTS
    k1 = k1
    k2 = k2
    k3 = k3
    Keys = {k1, k2, k3}
    Values = {v1}
    v1 = v1
    v2 = v2
    TTLs = {1, 2}
    TTLOf <- TTLChangesInOne
    Removable = {k3}
    ClockMayStepBack = TRUE
    MaxNow = 3
    NotFound = NotFound
    NoReply = NoReply
SPECIFICATION FairSpec
INVARIANTS
    TypeOK
    KeyFiled
    NoDuplicates
    FiledInOrder
    SweptUnlessBehindStray
PROPERTIES
    SweepKeepsLive
    ImplementsStore
    LeakedOnlyBehindStray
