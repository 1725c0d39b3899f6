SPECIFICATION FairSpec
CONSTANTS
    Horizon = 7
    MonthLength = 4
    Canonical = 1
    Day = 4
    Closed <- Pause
    Prefetch = 3
    Warmup = 1
    MaxMissing24h = 1
    StaleMinutes = 2
INVARIANTS
    TypeOK
PROPERTIES
    MissingIsReal
    ReadyIsCovered
    MissingRecovers
