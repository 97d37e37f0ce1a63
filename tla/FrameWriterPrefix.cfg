SPECIFICATION FSpec
CONSTANTS
  MaxWriteQueueSize = 3
  OverflowLimit = 2
  MaxPosts = 5
INVARIANT PrefixIntact
