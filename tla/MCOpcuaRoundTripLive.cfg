SPECIFICATION Spec
CONSTANTS
  PacketCount = 2
  EarlyLimit = 0
  SeqMissed = 888
  SeqInvalid = 999
  PrevInit = 999
  ERROR_DUPLICATE = 3131
  ERROR_MSGQ_COPY = 4343
  ERROR_NOTHING_TO_FORWARD = 5656
  TwoTo64 = 10000
  SetupReads = 2
  Tries = 2
  QueueCap = 1
  NetCap <- OneEach
  Duplicating = {}
  Signallable = {"A", "B"}
  StaleQueues <- CleanQueue
PROPERTIES GateStaysOpen Terminates ImplementsReturnLink
