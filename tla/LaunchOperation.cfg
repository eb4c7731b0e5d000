SPECIFICATION Safe
SYMMETRY Symmetry
CONSTANTS
  Launchers = {l1, l2}
  Requests = {q1, q2}
  Expected = TRUE
  InitialRows = {"absent", "predecessor", "other"}
  MaxCrashes = 2
  MaxFaults = 2
  MaxRetires = 2
INVARIANTS TypeOK CommandOnlyAfterTransfer WriterOwnsRecord EndingsAreTruthful
PROPERTIES DecisionsAreFinal ForeignRowsUntouched KeepsContract
