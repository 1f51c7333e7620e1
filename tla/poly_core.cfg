SPECIFICATION Spec
CONSTANTS
    Markets = {m1}
    NoMarket = NoMarket
    Strategies = {"orderbook_spread", "resolution_carry"}
    MaxPositions = 1
    MaxRetries = 0
    DailyLossLimit = 2
    WebThreads = {"web1"}
    MarketEvents = {"ended", "resolved"}
    FaultKinds = {"lost", "rejected", "crash", "save"}
    MaxRecords = 2
    MaxFaults = 1
    MaxDay = 1
INVARIANTS
    PositionLimit
    MarkedBeforeSell
    ClosedOnlyAfterAck
PROPERTIES
    LifecycleSpec
