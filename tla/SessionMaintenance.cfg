SPECIFICATION MFairSpec
CONSTANTS
    NumSessions = 2
    Nicknames = {n1}
    Acceptor = Acceptor
    Cleaners = {cleaner}
    none = none
    IdSpace = 4
    ShardCount = 2
    MaxLogins = 2
    Operations = {"inactive", "unauth", "keepalive", "expired", "unregister"}
    MaxIdle = 0
    MaxUnauth = 1
    MaxClock = 1
    MaxRounds = 1
INVARIANTS
    NicknameOwner
    UnauthBounded
    InactiveGone
PROPERTY OnlyUnregisterHangs
CHECK_DEADLOCK FALSE
