\* Four sockets and room for all of them.
SPECIFICATION Spec
CONSTANTS
    h1 = h1
    h2 = h2
    Data = {4, 5, 6, 7}
    Handle = {h1, h2}
    MaxNode = 4
INVARIANTS
    BothWays
PROPERTIES
    IsHandleSequence
