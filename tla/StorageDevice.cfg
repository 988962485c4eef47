SPECIFICATION DevSpec
CONSTANTS
  Slow = TRUE
  MaxPlugs = 2
  MaxFormats = 2
  MaxScans = 5
CHECK_DEADLOCK FALSE
INVARIANTS FoldersAlive
PROPERTIES DeinitReturns GetsMounted
