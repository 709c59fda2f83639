SPECIFICATION InstSpec
CONSTANTS
  Procs = {p1, p2}
  OldRows <- UsedRows
  OldRuns = {3}
  Today = 9
  MaxWrites = 2
  MaxSweeps = 1
  MaxBackups = 2
SYMMETRY Interchangeable
PROPERTIES
  RestoredIsBackup
CHECK_DEADLOCK FALSE
