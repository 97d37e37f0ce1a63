SPECIFICATION FairSpec
CONSTANTS
    Cores = {0, 1, 2}
    DefaultThreads = 3
    Addresses = {"192.168.0.100", "203.0.113.4"}
    missing = missing
    monitor = monitor
    accept = accept
    MaxAccepts = 3
INVARIANTS ListedOnly OneThreadLost
PROPERTY SessionsServed
CHECK_DEADLOCK FALSE
