SPECIFICATION Spec
CONSTANTS
  MaxWriteQueueSize = 2
  OverflowLimit = 2
  MaxTaskQueue = 2
  MaxPackets = 4
  MaxPosts = 12
INVARIANT ClosedMeansTornDown
CHECK_DEADLOCK FALSE
