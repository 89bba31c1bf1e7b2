CONSTANTS
  MaxSeq = 4
  RcvBuf = 2
  DelAckMaxCount = 2
  CodePoints = {"NotECT", "ECT", "CE"}
  FullDuplex = TRUE
SPECIFICATION Spec
PROPERTY ImplementsService
