SPECIFICATION FairSpec
CONSTANTS
  Senders = {s1, s2}
  None = None
  BufferSize = 3
  FirstBytes = 1
  FrameBytes = 2
  Lengths = {0, 1, 4}
  MaxMessages = 2
  MaxWaiting = 2
  MaxFaults = 2
INVARIANTS PoolExact Intact InOrder
PROPERTIES EventuallyDelivered
