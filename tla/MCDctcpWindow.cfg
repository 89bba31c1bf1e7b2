SPECIFICATION Spec
CONSTANTS
  SegmentSize = 4
  InitialCwnd = 2
  RWnd = 16
  TxBufferSize = 20
  AlphaSteps = 2
  Word = 128
  MaxCwnd = 20
CHECK_DEADLOCK FALSE
INVARIANTS TypeOK ShareReduces SendsWhatLeaves WaitsBeforeTimeout
