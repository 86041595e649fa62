SPECIFICATION Spec
CONSTANTS
  N = 3
  FramesToSend = 2
  SeqLimit = 4
  Seqs = {0, 1, 2, 4}
  MaxArrivals = 5
INVARIANTS TypeOK OneOwnerPerFrame DeliveredIntact ReserveNeverSpins ResubmitsConsumedFrame
PROPERTY LastFrameStops
