SPECIFICATION Spec
CONSTANTS
  FramesToSend = 2
  FlushPackets = 2
  TxRing = 2
  NicCap = 1
  BufCap = 2
  MinRows = 1
  MaxLost = 1
  MaxDup = 1
  MaxForeign = 0
CHECK_DEADLOCK FALSE
INVARIANT LossesAreMissing
