CONSTANTS
    Jobs = {j1, j2}
    NoJob = NoJob
    Months = {1, 2}
    Ranges <- Overlapping
    Workers = 1
    Retries = 1
    IndexFaults = TRUE
    MaxLives = 1
SPECIFICATION FairSpec
PROPERTIES
    EveryJobEnds
CHECK_DEADLOCK FALSE
