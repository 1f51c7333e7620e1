SPECIFICATION Spec
CONSTANTS
  multiplier = multiplier
  bonus = bonus
  Params <- MCParams
  Defaults <- MCDefaults
  Lo <- MCLo
  Hi <- MCHi
  RequestThreads = {"r1", "r2"}
  MaxBegun = 3
  MaxRestarts = 1
INVARIANTS
    ParamsInBounds
    BackupBeforeReplace
CHECK_DEADLOCK FALSE
