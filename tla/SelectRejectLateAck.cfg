\* One early timer and nothing lost: a second RR meets a child that waits for EOF_ACK.
SPECIFICATION Spec
CONSTANTS
    c1 = c1
    c2 = c2
    b1 = b1
    b2 = b2
    b3 = b3
    Server = Server
    Clients = {c1}
    Block = {b1, b2}
    File <- FileOne
    Faults <- NoFault
    Reorder = FALSE
    QueueCap = 3
    MAX_TRIES = 2
    WindowSize = 2
    MaxSock = 1
    MaxChild = 2
    Prompt = FALSE
INVARIANTS
    NeverHappens
\* The system comes to rest when every transfer is over.
CHECK_DEADLOCK FALSE
