CONSTANTS
    Jobs = {j1, j2}
    NoJob = NoJob
    Months = {1, 2}
    Ranges <- Overlapping
    Workers = 2
    Retries = 1
    IndexFaults = TRUE
    MaxLives = 2
SYMMETRY JobSymmetry
SPECIFICATION Spec
INVARIANTS
    TypeOK
    OneRunningJobPerRange
    RunningJobIsRun
    NoRefetch
    DoneMeansSynced
    IndexClaimsOnlyFiles
CHECK_DEADLOCK FALSE
