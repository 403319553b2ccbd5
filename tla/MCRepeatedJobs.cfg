SPECIFICATION Spec
CONSTANTS
    Builds = {TRUE, FALSE}
    Ids = {a, b}
    Intervals = {1, 2, 3}
    TicksPerMs = 1
    IntervalMod = 100
    CallbackCalls = TRUE
    KeepsOwnEntry = TRUE
    LateBound = 3
INVARIANTS
    ListInv
PROPERTIES
    NothingOverdue
    JobsRecur
    PassEnds
CHECK_DEADLOCK FALSE
