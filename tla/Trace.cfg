SPECIFICATION Spec
CONSTANTS
    none = none
    None = none
    MaxErrors = 1
    Captures <- MCCaptures
INVARIANTS
    GoodIsCorrect
    DamageIsNoticed
    ReportsFollowFile
PROPERTY EndsWithFile
CHECK_DEADLOCK FALSE
