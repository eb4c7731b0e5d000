SPECIFICATION Spec
CONSTANTS
  TransferIds = {t1, t2}
  StaleIds = {t2}
  MaxInputs = 2
  MaxKills = 1
  MaxFaults = 1
INVARIANTS TypeOK EffectsFollowRecord MessagesCountOnce
CHECK_DEADLOCK FALSE
