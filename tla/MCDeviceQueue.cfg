SPECIFICATION Spec
CONSTANTS
  MinTh = 9
  MaxTh = 9
  LInterm = 2
  MaxSize = 3
  Gentle = TRUE
  UseEcn = FALSE
  UseHardDrop = TRUE
  Packets <- SizedPackets
  MinSize = 1
  Mtu = 2
  Header = 1
  DevMax = 5
  Quota = 3
  Limited = TRUE
  Modulus = 12
  MinLimit = 0
  MaxLimit = 3
CHECK_DEADLOCK FALSE
INVARIANTS TypeOK NoLostWake StoppedIsBusy StoppedWhenFull LimitsCountQueue
