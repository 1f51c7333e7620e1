SPECIFICATION FairSpec
CONSTANTS
    Markets = {m1}
    NoMarket = NoMarket
    Strategies = {"orderbook_spread", "correlated_markets", "resolution_carry"}
    MaxPositions = 2
    MaxRetries = 1
    DailyLossLimit = 1
    WebThreads = {}
    MarketEvents = {"ended", "resolved"}
    FaultKinds = {"dropped", "rejected", "rest", "read"}
    MaxRecords = 2
    MaxFaults = 1
    MaxDay = 2
INVARIANTS
    EveryBuyRecorded
    SingleNeverOversold
PROPERTIES
    AgedPositionLeaves
