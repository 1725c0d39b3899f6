SPECIFICATION Spec
CONSTANTS
    Horizon = 7
    MonthLength = 4
    Canonical = 0
    Day = 4
    Closed <- Break
    Prefetch = 3
    Warmup = 1
    MaxMissing24h = 1
    StaleMinutes = 2
PROPERTIES
    StaleIsReal
