SPECIFICATION InstSpec
CONSTANTS
  Procs = {p1, p2}
  OldRows <- UsedRows
  OldRuns = {3}
  Today = 9
  MaxWrites = 1
  MaxSweeps = 1
  MaxBackups = 3
SYMMETRY Interchangeable
INVARIANTS
  ManifestIsLast
  ReleaseIsReady
  UpgradeKeepsRows
PROPERTIES
  BackupIsOneMoment
  OverwritesAreKept
CHECK_DEADLOCK FALSE
