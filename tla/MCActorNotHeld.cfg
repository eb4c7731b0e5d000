SPECIFICATION Spec
CONSTANTS
  TransferIds = {t1}
  StaleIds = {}
  MaxInputs = 1
  MaxKills = 0
  MaxFaults = 1
INVARIANT NotHeldMeansNotCommitted
CHECK_DEADLOCK FALSE
