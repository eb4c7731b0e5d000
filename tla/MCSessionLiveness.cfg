SPECIFICATION Spec
CONSTANTS
  Parts = {"record", "events", "attach", "substrate", "input"}
PROPERTIES ExitsAreTold WaitsEnd
CHECK_DEADLOCK FALSE
