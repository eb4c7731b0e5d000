SPECIFICATION Spec
CONSTANTS
  Launcher = launcher
  Daemon = daemon
  Contenders = {c1, c2}
  MaxDeaths = 2
SYMMETRY Symmetry
CHECK_DEADLOCK FALSE
INVARIANTS
  TypeOK
  HolderOwnsLock
  PublicationIsExclusive
  ClaimsComeBack
PROPERTIES
  EntryChangesUnderFlock
  LiveClaimIsRespected
  RevocationIsFinal
