CONSTANTS
    c1 = c1
    s1 = s1
    Ops = {o1, o2}
    ClientIds = {c1}
    NoId = NoId
    Symbols = {s1}
    Slots = {0, 1}
    NoPid = NoPid
    NoTrade = NoTrade
    Requests <- OneSymbol
    MaxLives = 1
    FlakyReads = TRUE
    DiskFaults = TRUE
SPECIFICATION FairSpec
PROPERTIES
    EveryOperationSettles
CHECK_DEADLOCK FALSE
