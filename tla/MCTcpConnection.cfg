SPECIFICATION FairSpec
CONSTANTS
  SynRetries = 2
  DataRetries = 1
  EcnModes <- MatchingModes
  NetSize = 2
CHECK_DEADLOCK FALSE
INVARIANTS TypeOK EcnAgreed FinAcked
PROPERTY AttemptsEnd
