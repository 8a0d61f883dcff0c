CONSTANTS
    StreamLength = 8
    Packets <- FixedCuts
    MSS = 2
    RxWindow = 6
    RxStreamSize = 7
    Little = 1
    Enough = 3
    Segments = 3
    Stale = Stale
SPECIFICATION Spec
INVARIANTS TypeOK UserSeesPeersBytes ReassemblyHonest AcceptedFits
PROPERTIES ImplementsReliableStream
CHECK_DEADLOCK FALSE
