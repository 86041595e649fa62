SPECIFICATION Spec
CONSTANTS
  N = 3
  NicCap = 2
  FramesToSend = 5
  Flush = 2
  MaxReceived = 1
INVARIANTS TypeOK WireFaithful PolledQueueIntact NeverStuck
