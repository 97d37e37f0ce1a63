SPECIFICATION Spec
CONSTANTS
  NumSessions = 3
  Acceptor = Acceptor
  Cleaners = {}
  Nicknames = {a, b}
  none = none
  IdSpace = 2
  ShardCount = 2
  MaxLogins = 3
INVARIANT InUseMeansUsed
CHECK_DEADLOCK FALSE
