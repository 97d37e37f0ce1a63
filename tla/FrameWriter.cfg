SPECIFICATION FSpec
CONSTANTS
  MaxWriteQueueSize = 3
  OverflowLimit = 2
  MaxPosts = 7
INVARIANTS
  TypeOK
  SingleWriter
  InOrder
  ExactUntilOverflow
  NoStall
  OneLostPerDrop
  BodyIntactUntilOverflow
