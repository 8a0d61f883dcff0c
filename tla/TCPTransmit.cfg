CONSTANTS
    StreamLength = 4
    FirstNumber = 3
    Modulus = 16
    MSS = 2
    TxWindow = 6
    LENGTH = 4
    Segments = 3
    PeerSpace = 3
    MAX_TRANSMIT_COUNT_USING_LARGE_WINDOW = 1
    DUPLICATE_ACKS_BEFORE_FAST_RETRANSMIT = 1
    MaxAcks = 1
    Missing = Missing
SPECIFICATION Spec
INVARIANTS TypeOK WindowConsistent InPeerWindow
PROPERTIES ImplementsReliableStream
CHECK_DEADLOCK FALSE
