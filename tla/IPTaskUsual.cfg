\* The driver above the IP task, a user below it.
SPECIFICATION FairSpec
CONSTANTS
    driver = driver
    u1 = u1
    u2 = u2
    Drivers <- MCDrivers
    Users <- MCOneUser
    Lower <- MCUsers
    Higher <- MCDrivers
    Instant = TRUE
    QueueLength = 2
    ArpPeriod = 2
    TcpPeriod = 1
    MaxSleep = 3
    CountWidth = 4
INVARIANTS
    TypeOK
    InitBeforeTraffic
    NoLostTcpWork
    ArpOnTime
    DownNotLost

    
