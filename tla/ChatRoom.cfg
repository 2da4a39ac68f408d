\* Two clients that talk at length; their inputs may end, nobody leaves.
SPECIFICATION Spec
CONSTANTS
    c1 = c1
    c2 = c2
    c3 = c3
    h1 = h1
    h2 = h2
    h3 = h3
    NoClient = NoClient
    NoHandle = NoHandle
    Clients = {c1, c2}
    Handle = {h1, h2, h3}
    name <- AllDifferent
    BufCap = 2
    MaxFD = 3
    MaxCommands = 1
    Endless = FALSE
    MaxPieces = 3
    To <- ToMany
    MayLeave = FALSE
    MayStop = FALSE
    MayHangUp = TRUE
PROPERTIES
    IsChatRoom
\* The chat rests while its users do.
CHECK_DEADLOCK FALSE
