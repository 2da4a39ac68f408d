\* Whatever the timers do, transfers come to an end.
SPECIFICATION FairSpec
CONSTANTS
    c1 = c1
    c2 = c2
    b1 = b1
    b2 = b2
    b3 = b3
    Server = Server
    Clients = {c1}
    Block = {b1, b2}
    File <- FileTwo
    Faults <- AnyFailure
    Reorder = FALSE
    QueueCap = 3
    MAX_TRIES = 2
    WindowSize = 0
    MaxSock = 2
    MaxChild = 2
    Prompt = FALSE
INVARIANTS
    OneChildPerSocket
PROPERTIES
    
    ChildrenStop
\* The system comes to rest when every transfer is over.
CHECK_DEADLOCK FALSE
