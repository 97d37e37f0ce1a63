SPECIFICATION FairSpec
CONSTANTS
  NumSessions = 3
  Acceptor = Acceptor
  Cleaners = {}
  Nicknames = {a, b}
  none = none
  IdSpace = 2
  ShardCount = 2
  MaxLogins = 3
INVARIANTS TypeOK NicknameOwner TrackedUntilWrap
PROPERTY OperationsReturn
CHECK_DEADLOCK FALSE
