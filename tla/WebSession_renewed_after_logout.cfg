SPECIFICATION SessionSpec
CONSTANTS
  MaxTokens = 2
  MaxTries = 1
  MaxAway = 2
  MaxReloads = 0
  Settings <- Renewing
INVARIANTS OnlyManualLogin
CHECK_DEADLOCK FALSE
