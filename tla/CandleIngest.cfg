CONSTANTS
    Syms = {s1, s2}
    Lists <- OneOfTwo
    Answering = {s1}
    s1 = s1
    s2 = s2
    Horizon = 6
    MaxLives = 2
    Minute = 2
    ClosedMinutes <- Break
    StaleSeconds = 2
    PollInterval = 1
    BackoffBase = 1
    BackoffMax = 3
    MaxFailures = 3
    StoreFaults = TRUE
SPECIFICATION Spec
INVARIANTS
    TypeOK
    NoBreakCandles
PROPERTIES
    NoTickLost
    CandlesAreFinal
CHECK_DEADLOCK FALSE
