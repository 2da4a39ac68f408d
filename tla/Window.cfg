SPECIFICATION Spec
CONSTANTS
    null = null
    wild = wild
    NULL = null
    Wild = wild
    SIZE = 4
    IntMax = 31
    Typed <- MCTyped
    Junk <- MCJunk
    MAXLEN = 14
    MaxSeq = 18
INVARIANTS
    UnackedIsKept
    SlotsHoldLast
    StopsOnlyBecause
    NoneIsLost
CHECK_DEADLOCK FALSE
