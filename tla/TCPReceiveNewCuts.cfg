CONSTANTS
    StreamLength = 4
    Packets <- NewCuts
    MSS = 3
    RxWindow = 6
    RxStreamSize = 6
    Little = 1
    Enough = 3
    Segments = 2
    Stale = Stale
SPECIFICATION Spec
INVARIANTS UserSeesPeersBytes
CHECK_DEADLOCK FALSE
