CONSTANTS
    Listener = Listener
    Children = {s1, s2}
    Clients = {c1, c2}
    Backlog = 2
    QueueLength = 2
    ListenerStays = TRUE
    None = None
SPECIFICATION Spec
INVARIANTS TypeOK ChildCountExact NoFreedSocketUsed OneOwner NoClientForgotten
PROPERTIES ClientAccepted
