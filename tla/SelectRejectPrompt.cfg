\* The two faults of libcpe464 and sends that fail, timers that run out only when a packet is lost.
SPECIFICATION Spec
CONSTANTS
    c1 = c1
    c2 = c2
    b1 = b1
    b2 = b2
    b3 = b3
    Server = Server
    Clients = {c1}
    Block = {b1, b2}
    File <- FileTwo
    Faults <- AnyFailure
    Reorder = FALSE
    QueueCap = 3
    MAX_TRIES = 3
    WindowSize = 0
    MaxSock = 3
    MaxChild = 2
    Prompt = TRUE
INVARIANTS
    TypeOK
    NeverHappens
    StopAndWait
    SuccessIsComplete
    RestsOnlyAtTheEnd
PROPERTIES
    IsFileCopy
\* The system comes to rest when every transfer is over.
CHECK_DEADLOCK FALSE
