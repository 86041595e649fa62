SPECIFICATION Spec
\* A listener blocked in accept() or select() with no talker left really stops.
CHECK_DEADLOCK FALSE
CONSTANTS
  Talkers = {t1, t2}
  NoTalker = NoTalker
  BUFFER_SIZE = 3
  FirstSec = 1
  LastSec = 3
INVARIANTS TypeOK WaitingSamplesAreFresh
PROPERTIES ImplementsAlignedSeconds SignalSeenAtNextMessage
