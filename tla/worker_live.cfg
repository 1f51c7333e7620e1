SPECIFICATION FairSpec
CONSTANTS
    Symbols = {"AAA", "BBB"}
    Strategies = {"breakout_momentum"}
    Order <- MCOrder
    Profiles <- ActiveOnly
    Bars <- LiveBars
    InitialCapital = 100
    DayLength = 3
    PremarketStart = 0
    TradingStart = 0
    TradingEnd = 1
    AfterhoursEnd = 2
    Weekend = {9}
    UtcAhead = 1
    MaxTime = 1
    MaxDisturbances = 2
CHECK_DEADLOCK FALSE
INVARIANTS
    OneLateBuy
PROPERTIES
    TripReachesDatabase
    RunsFinish
