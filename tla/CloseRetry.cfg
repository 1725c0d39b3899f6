CONSTANTS
    c1 = c1
    s1 = s1
    Ops = {o1, o2, o3}
    ClientIds = {c1}
    NoId = NoId
    Symbols = {s1}
    Slots = {0}
    NoPid = NoPid
    NoTrade = NoTrade
    Requests <- CloseOnly
    MaxLives = 1
    FlakyReads = FALSE
    DiskFaults = FALSE
SYMMETRY Symmetry
SPECIFICATION Spec
INVARIANTS
    CloseRetrySendsOnce
CHECK_DEADLOCK FALSE
