\* Three clients, two of one name, two descriptors; they leave and are stopped.
SPECIFICATION Spec
CONSTANTS
    c1 = c1
    c2 = c2
    c3 = c3
    h1 = h1
    h2 = h2
    h3 = h3
    NoClient = NoClient
    NoHandle = NoHandle
    Clients = {c1, c2, c3}
    Handle = {h1, h2, h3}
    name <- TwoAlike
    BufCap = 3
    MaxFD = 3
    MaxCommands = 1
    Endless = FALSE
    MaxPieces = 1
    To <- Nobody
    MayLeave = TRUE
    MayStop = TRUE
    MayHangUp = FALSE
INVARIANTS
    TypeOK
    HandlesDiffer
    NodesAreOpen
    AnswerComesFirst
    RefusedIsOut
\* The chat rests while its users do.
CHECK_DEADLOCK FALSE
