SPECIFICATION FairSpec
CONSTANTS
    j1 = j1
    j2 = j2
    EURUSD = EURUSD
    XAUUSD = XAUUSD
    None = None
    Jobs <- MCJobs
    Symbols <- MCSymbols
    Orders <- MCOrders
    MaxFaults = 1
CHECK_DEADLOCK FALSE
INVARIANTS
    TypeOK
    OneJobAtATime
    DoneIsComplete
PROPERTIES
    Immutable
    TasksEnd
