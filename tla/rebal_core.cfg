SPECIFICATION FairSpec
CONSTANTS
    Funds = 25
    OtherFunds = 20
    Scores = {0, 1, 3}
    ScoreGap = 2
    MinUsd = 1
    CooldownSec = 3
    TimeoutSec = 2
    FaultKinds = {"probe", "rejected", "lost", "crash"}
    OtherAmounts = {16}
    MaxTime = 8
    MaxTransfers = 3
    MaxOthers = 1
    MaxFaults = 2
INVARIANTS
    CooldownHolds
    ConfirmedBacked
PROPERTIES
    WaitEnds
