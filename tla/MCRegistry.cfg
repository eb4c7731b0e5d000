SPECIFICATION Spec
CONSTANTS
  Parts = {"collect", "keyed", "scan", "control", "freeze", "own", "settle", "table"}
  \* SessionControl
  Pids = {2, 3, 4}
  MaxToken = 4
  Boots = {"here", "none"}
  FailLimit = 1
  Ops = {"stop", "signal", "rm", "rmgen", "evidence", "retire", "orphan", "abandon", "sweep",
         "reconcile", "retain"}
INVARIANTS CollectionIsSteady ObservationsAreTrue OnlyOwnTreeIsKilled
PROPERTIES RowsSurvive
CHECK_DEADLOCK FALSE
