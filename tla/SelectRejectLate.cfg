\* Two clients, the two faults of libcpe464, reordering, and timers that may run
\* out too early.
SPECIFICATION Spec
CONSTANTS
    c1 = c1
    c2 = c2
    b1 = b1
    b2 = b2
    b3 = b3
    Server = Server
    Clients = {c1, c2}
    Block = {b1, b2, b3}
    File <- FilePair
    Faults <- DropAndFlip
    Reorder = TRUE
    QueueCap = 2
    MAX_TRIES = 1
    WindowSize = 2
    MaxSock = 1
    MaxChild = 2
    Prompt = FALSE
INVARIANTS
    IInv
    OutputIsPrefix
    AcksOnlyReceived
\* The system comes to rest when every transfer is over.
CHECK_DEADLOCK FALSE
