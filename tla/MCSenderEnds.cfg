SPECIFICATION Spec
CONSTANTS
  FramesToSend = 2
  FlushPackets = 2
  TxRing = 2
  NicCap = 1
  BufCap = 2
  MinRows = 1
  MaxLost = 0
  MaxDup = 0
  MaxForeign = 0
CHECK_DEADLOCK FALSE
PROPERTY SenderEnds
