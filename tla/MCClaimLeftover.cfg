SPECIFICATION Spec
CONSTANTS
  Launcher = launcher
  Daemon = daemon
  Contenders = {c1}
  MaxDeaths = 0
CHECK_DEADLOCK FALSE
INVARIANTS
  ReleaseLeavesNothing
