SPECIFICATION Spec
CONSTANTS
  PacketCount = 3
  EarlyLimit = 1
  SeqMissed = 888
  SeqInvalid = 999
  PrevInit = 2
  ERROR_DUPLICATE = 3131
  ERROR_MSGQ_COPY = 4343
  ERROR_NOTHING_TO_FORWARD = 5656
  TwoTo64 = 10000
  SetupReads = 1
  Tries = 1
  QueueCap = 2
  NetCap <- TwoOne
  Duplicating = {"AB"}
  Signallable = {}
  StaleQueues <- CleanQueue
INVARIANTS TypeOK NoEarlyStop ForwardedInOrder ForwardsOnlyReceived SkippedWasForwarded
PROPERTY ImplementsForwardLink
