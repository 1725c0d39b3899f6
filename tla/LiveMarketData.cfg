SPECIFICATION FairSpec
CONSTANTS
    c1 = c1
    c2 = c2
    XAUUSD = XAUUSD
    NoOne = NoOne
    NoCast = NoCast
    NoMinute = NoMinute
    Clients <- MCClients
    Symbols <- MCSymbols
    Channels <- MCChannels
    BufferSize = 2
    MaxLinks = 2
    MaxRequests = 3
    QueueSize = 1
    TickerGap = 1
    MinuteLen = 1
    MaxTime = 2
    MaxEmits = 3
    MaxBacks = 1
    MaxLives = 2
    DiskFaults = TRUE
CHECK_DEADLOCK FALSE
INVARIANTS
    TypeOK
    AnnouncementsAreTrue
PROPERTIES
    PromisesKept
    LoopComesBack
