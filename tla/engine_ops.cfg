SPECIFICATION Spec
CONSTANTS
    Brokers = {b1}
    Strategies = {s1}
    Symbols = {x1, x2}
    GlobalMaxPositions = 1
    ErrorThreshold = 1
    HourlyTripLimit = 2
    Cooldown = 1
    Hour = 2
    MaxSignals = 2
    FaultKinds = {"order", "refresh", "save", "crash", "tear"}
    MaxTime = 4
    MaxFaults = 3
SYMMETRY Symmetry
INVARIANTS
    BreakerHandsOver
PROPERTIES
    StopHolds
    BreakerStaysOpen
