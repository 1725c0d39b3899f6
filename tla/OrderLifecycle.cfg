CONSTANTS
    c1 = c1
    s1 = s1
    Ops = {o1, o2, o3}
    ClientIds = {c1}
    NoId = NoId
    Symbols = {s1}
    Slots = {0, 1}
    NoPid = NoPid
    NoTrade = NoTrade
    Requests <- OneSymbol
    MaxLives = 2
    FlakyReads = FALSE
    DiskFaults = TRUE
SYMMETRY Symmetry
SPECIFICATION Spec
INVARIANTS
    TypeOK
    RegistryIsTruthful
    ErrorMeansNothingSent
    OneOrderPerKey
    ReplayNamesSamePosition
PROPERTIES
    LedgerKept
CHECK_DEADLOCK FALSE
