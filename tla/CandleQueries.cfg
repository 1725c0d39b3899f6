SPECIFICATION Spec
CONSTANTS
    NoRound = NoRound
    None = None
    Horizon = 5
    MonthLength = 2
    Canonical = 1
    Window = 2
    MaxMissing = 3
    Limits = {1, 2}
    Histories <- SomeHistories
INVARIANTS
    TypeOK
    RoundFills
    ResponseIsHonest
    PagesAreExact
