SPECIFICATION LiveSpec
CONSTANTS
    RequestThreads = {"t1", "t2"}
    MaxAttempts = 2
    Passwords <- MCPasswords
    MaxRequests = 2
    MaxFaults = 2
    Values <- MCValues
    Default = "v1"
    Refused = "bad"
    MaxTrades = 1
    BootstrapOnStartup = TRUE
    BootstrapPassword = "pw1"
CHECK_DEADLOCK FALSE
INVARIANTS
    BlockedAfterFailures
    NoUseAfterLogout
    AcknowledgedUpdatesLast
    CompletedHasTrades
PROPERTIES
    KillSwitchConverges
