\* Two clients that leave or whose input ends, connections that hold one PDU.
SPECIFICATION FairSpec
CONSTANTS
    c1 = c1
    c2 = c2
    c3 = c3
    h1 = h1
    h2 = h2
    h3 = h3
    NoClient = NoClient
    NoHandle = NoHandle
    Clients = {c1, c2}
    Handle = {h1, h2, h3}
    name <- AllDifferent
    BufCap = 1
    MaxFD = 3
    MaxCommands = 1
    Endless = TRUE
    MaxPieces = 1
    To <- Nobody
    MayLeave = TRUE
    MayStop = FALSE
    MayHangUp = TRUE
INVARIANTS
    RestsOnlyWhen
PROPERTIES
    ExitIsAnswered
\* The chat rests while its users do.
CHECK_DEADLOCK FALSE
