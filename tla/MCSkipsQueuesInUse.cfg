SPECIFICATION Spec
CONSTANTS
  Docs <- ClashDocs
  Absent = Absent
  PKT_COUNT_MAX = 10
  FIVE_DIGIT_MAX = 20
  MAX_OPCUA_THREAD = 3
  TwoTo16 = 16
  TransportLayers = 2
  Period = 2
  SubDelay = 1
  Second = 2
  ONE_MSEC_NSEC = 1
  StartTime = 1
  SetupTime = 2
  MaxDelay = 1
  TxCap = 2
  Remote = {1, 2, 3, 17}
CHECK_DEADLOCK FALSE
INVARIANT SkipsQueuesInUse
