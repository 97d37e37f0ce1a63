SPECIFICATION FairSpec
CONSTANTS
    Clients = {t1, t2, t3}
    Connections = {c1, c2, c3, c4, c5}
    Capacity = 2
    main = main
    none = none
INVARIANTS TypeOK OneHand BurstSubsides
PROPERTIES Owned GivesBack
