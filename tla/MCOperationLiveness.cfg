SPECIFICATION Spec
CONSTANTS
  Parts = {"launch", "actor", "claim", "plain"}
PROPERTIES WithdrawalsEnd NobodyIsStranded
CHECK_DEADLOCK FALSE
