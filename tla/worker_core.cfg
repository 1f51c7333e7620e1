SPECIFICATION FairSpec
CONSTANTS
    Symbols = {"AAA", "BBB"}
    Strategies = {"breakout_momentum", "mean_reversion_scalp"}
    Order <- MCOrder
    Profiles <- MCProfiles
    Bars <- MCBars
    InitialCapital = 100
    DayLength = 2
    PremarketStart = 0
    TradingStart = 0
    TradingEnd = 0
    AfterhoursEnd = 1
    Weekend = {9}
    UtcAhead = 0
    MaxTime = 2
    MaxDisturbances = 1
CHECK_DEADLOCK FALSE
INVARIANTS
    BooksMatchFills
    LockFollowsPosition
    DailyTradeLimit
    EntriesInOpenSessions
    NeverBorrows
