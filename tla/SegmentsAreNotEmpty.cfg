SPECIFICATION Spec
CONSTANTS
  MaxSeq = 6
  RWnd = 4
  DupThresh = 3
  DataRetries = 2
  MaxBytes = 4
  Echoes = {FALSE}
INVARIANT SegmentsAreNotEmpty
CHECK_DEADLOCK FALSE
