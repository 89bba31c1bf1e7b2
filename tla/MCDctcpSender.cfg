SPECIFICATION Spec
CONSTANTS
  MaxSeq = 5
  RWnd = 4
  DupThresh = 2
  DataRetries = 1
  MaxBytes = 3
  Echoes = {TRUE, FALSE}
INVARIANTS TypeOK CountersInSync ScoreboardSound RecoveryPointAhead FractionIsFraction OutstandingHasTimer
PROPERTIES ResendsOnlyMissing ReducesOncePerWindow CwrOncePerWindow ImplementsWindow
CHECK_DEADLOCK FALSE
