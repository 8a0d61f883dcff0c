SPECIFICATION FairSpec
CONSTANTS
    t1 = t1
    t2 = t2
    s1 = s1
    s2 = s2
    Tasks = {t1, t2}
    Sockets = {s1}
    Users <- SharedSockets
    Ports = {1, 2}
    Wanted = {1}
    ZeroCopy = {}
    Signalled = {}
    Buffers = {b1, b2}
    QueueLength = 2
    DriverReleases = FALSE
    None = None
PROPERTY SentBuffersReturn
