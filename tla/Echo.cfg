SPECIFICATION Spec
CONSTANTS
    c1 = c1
    c2 = c2
    m1 = m1
    m2 = m2
    fill = fill
    Clients = {c1, c2}
    Lines <- MCLines
    Exit = exit
    Fill = fill
    NoLine = noline
    Stale = stale
    Labs <- MCLabs
    Limits <- MCLimits
    NoClient = noclient
    POLL_SET_SIZE = 4
INVARIANTS
    EchoIsOwn
    NobodyIsTurnedOut
    PollSetIsOpen
    EndsOnlyBecause
PROPERTIES
    IsAnswered
CHECK_DEADLOCK FALSE
