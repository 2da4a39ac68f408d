SPECIFICATION Spec
CONSTANTS
    main = main
    c1 = c1
    c2 = c2
    absent = absent
    junk = junk
    Absent = absent
    Junk = junk
    Process = {main, c1, c2}
    Root = main
    Environ <- MCEnviron
    Arguments <- MCArguments
    Port = {7}
    DRAWS = 2
    LEN = 2
    UINT32 = 8
    Time = {10, 11}
    MaxMsg = 3
INVARIANTS
    OverridesWin
    ListedAreDropped
    OneByteAtMost
    SiblingSeedsDiffer
PROPERTY IsFaultyLink
SYMMETRY Children
CHECK_DEADLOCK FALSE
