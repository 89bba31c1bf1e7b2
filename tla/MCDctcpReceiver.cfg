CONSTANTS
  MaxSeq = 8
  RcvBuf = 4
  DelAckMaxCount = 3
  CodePoints = {"ECT", "CE"}
  FullDuplex = FALSE
SPECIFICATION FairSpec
INVARIANTS TypeOK RcvNxtIsFirstGap AckedIsReceived DelayBound HeldHasTimer CEStatesAgree
PROPERTIES EpisodeEchoed EchoMatchesState EventuallyAcked
