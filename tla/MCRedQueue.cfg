SPECIFICATION FairSpec
CONSTANTS
  MinTh = 1
  MaxTh = 2
  LInterm = 2
  MaxSize = 5
  Gentle = TRUE
  UseEcn = TRUE
  UseHardDrop = FALSE
  Packets <- MixedPackets
  MinSize = 1
  Mtu = 1
  Header = 0
  DevMax = 2
  Quota = 2
  Limited = FALSE
  Modulus = 8
  MinLimit = 0
  MaxLimit = 3
CHECK_DEADLOCK FALSE
INVARIANT DeepIsMarked
PROPERTIES CapableIsKept DiscDrains ImplementsFifo
