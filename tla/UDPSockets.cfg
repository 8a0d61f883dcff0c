SPECIFICATION FairSpec
CONSTANTS
    t1 = t1
    t2 = t2
    s1 = s1
    s2 = s2
    Tasks = {t1, t2}
    Sockets = {s1, s2}
    Users <- OwnSockets
    Ports = {1, 2}
    Wanted = {1}
    ZeroCopy = {t1}
    Signalled = {s1}
    Buffers = {b1, b2}
    QueueLength = 2
    DriverReleases = TRUE
    None = None
INVARIANTS
    TypeOK
    BuffersOwnedOnce
    
    NoFreedSocketUsed
PROPERTIES
    BindCompletes
    ReaderServed
