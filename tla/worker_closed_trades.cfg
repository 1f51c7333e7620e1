SPECIFICATION Spec
CONSTANTS
    Symbols = {"AAA", "BBB"}
    Strategies = {"breakout_momentum", "mean_reversion_scalp"}
    Order <- MCOrder
    Profiles <- ActiveOnly
    Bars <- FewBars
    InitialCapital = 100
    DayLength = 3
    PremarketStart = 0
    TradingStart = 0
    TradingEnd = 1
    AfterhoursEnd = 2
    Weekend = {9}
    UtcAhead = 0
    MaxTime = 1
    MaxDisturbances = 0
CHECK_DEADLOCK FALSE
INVARIANTS
    ClosedTradesCounted
