SPECIFICATION Spec
CONSTANTS
  PacketCount = 3
  EarlyLimit = 1
  SeqMissed = 888
  SeqInvalid = 999
  PrevInit = 999
  ERROR_DUPLICATE = 3131
  ERROR_MSGQ_COPY = 4343
  ERROR_NOTHING_TO_FORWARD = 5656
  TwoTo64 = 10000
  SetupReads = 2
  Tries = 2
  QueueCap = 3
  NetCap <- TwoEach
  Duplicating = {"AB"}
  Signallable = {}
  StaleQueues <- LeftQueue
INVARIANT ForwardsOnlyReceived
