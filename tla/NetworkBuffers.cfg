\* Two descriptors for three tasks: the pool runs empty and tasks wait.
CONSTANTS
    ipTask = ipTask
    appA = appA
    appB = appB
    d1 = d1
    d2 = d2
    None = None
    Tasks <- MCTasks
    Blocking <- MCBlocking
    Descriptors <- MCDescriptors
SPECIFICATION FairSpec
INVARIANTS
    TypeOK
    EachInOnePlace
    PermitAccounting
PROPERTIES WaiterServed
