SPECIFICATION FairSpec
CONSTANTS
    o1 = o1
    o2 = o2
    c1 = c1
    ETH = ETH
    Unset = Unset
    NoPosition = NoPosition
    NoFill = NoFill
    Openings <- MCOpenings
    Closings <- MCClosings
    Symbols <- MCSymbols
    Costed = {ETH}
    Orders <- MCOrders
    Feed <- MCFeed
    Stops = {9}
    Initial = 100
    Slip = 1
    OpenBps = 600
    CloseBps = 500
    Maintenance = 500
    TTL = 1
    MaxNow = 1
INVARIANTS
    TypeOK
    ManualClosingsAreAnswered
PROPERTIES
    AccountKept
    OverdueIsClosed
