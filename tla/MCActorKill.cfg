SPECIFICATION Spec
CONSTANTS
  TransferIds = {t1}
  StaleIds = {}
  MaxInputs = 1
  MaxKills = 1
  MaxFaults = 0
INVARIANT KillIsNotLost
CHECK_DEADLOCK FALSE
