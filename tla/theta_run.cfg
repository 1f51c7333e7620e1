SPECIFICATION FairSpec
CONSTANTS
    Assets = {"ETH"}
    Processes = {"monitor", "runner"}
    HlDryRun = FALSE
    BasisDryRun = FALSE
    MinRate = 15
    MinAnnual = 100
    RateLevels = {10, 15}
    BasisLevels <- MCBasis
    MaxScans = 1
    MaxCrashes = 1
    Profiles <- AllProfiles
    Hurdle = 150
    PosUsd = 2
    MomentumEdges = {170}
    Prices = {1, 2}
    Balances = {0}
    StartUsd = 6
    StartBase = 2
CHECK_DEADLOCK FALSE
INVARIANTS
    BudgetBoundsTrading
    TickWithinLimits
    UnreportedIsMisread
    NoBackwardation
PROPERTIES
    CooldownSpacesOrders
    TickEnds
