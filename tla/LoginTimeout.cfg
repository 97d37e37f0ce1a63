SPECIFICATION LFairSpec
CONSTANTS
  MaxWriteQueueSize = 2
  OverflowLimit = 1
  MaxTaskQueue = 2
  MaxPackets = 2
  MaxPosts = 7
INVARIANTS
  TypeOK
  OneReader
  CloseOnce
  SilentUntilSecret
PROPERTIES
  WriteQueueRefined
  TimeoutSparesLogin
  ClosedIsReleased
  LogsInOrCloses
CHECK_DEADLOCK FALSE
