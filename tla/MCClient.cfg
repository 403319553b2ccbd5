SPECIFICATION Spec
CONSTANTS
    LifeTime = 4
    TimeToRenew = 3
    MaxDelay = 1
    MaxCalls = 3
    MaxStray = 1
INVARIANTS
    ConnectionInv
    TokenValidOnArrival
    GoodMeansServed
PROPERTIES
    CallsReturn
CHECK_DEADLOCK FALSE
