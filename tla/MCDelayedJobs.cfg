SPECIFICATION Spec
CONSTANTS
    NThreads = 2
    Arrays <- Pairs
    LateArrays <- NoneOpen
    StopArrays <- OneOpen
    BatchSize = 2
    DelayedJobsSize = 1
    CounterMod = 2
    JobBound = 3
    DispatchBound = 1
INVARIANTS
    JobsInv
    ListedAfterDispatched
PROPERTIES
    WorkFinishes
CHECK_DEADLOCK FALSE
