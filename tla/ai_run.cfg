SPECIFICATION FairSpec
CONSTANTS
  multiplier = multiplier
  Params = {multiplier}
  Defaults <- MCDefaults
  Lo <- MCLo
  Hi <- MCHi
  RequestThreads = {"r1"}
  MaxFills = 4
  MinTradeCount = 2
  MaxChanged = 1
  MaxChangePct = 20
  LowImpactPct = 10
  Budget = 1
  Trades = 3
  Offered = {1500, 1600}
  MaxAnalyses = 2
  MaxFaults = 1
INVARIANTS
    DecisionsHold
    AnswersCounted
    PendingBound
PROPERTIES
    TimerDecides
CHECK_DEADLOCK FALSE
