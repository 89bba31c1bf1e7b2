SPECIFICATION FairSpec
CONSTANTS
  MaxSeq = 4
  RWnd = 3
  DupThresh = 2
  DataRetries = 1
  MaxBytes = 3
  Echoes = {FALSE}
PROPERTIES SentIsSettled
CHECK_DEADLOCK FALSE
