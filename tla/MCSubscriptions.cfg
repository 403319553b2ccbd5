SPECIFICATION Spec
CONSTANTS
    KeepAlives = {1}
    KeepAliveMin = 0
    KeepAliveMax = 1
    MaxNotifications = 3
    QueueMax = 2
    DiscardOldest = TRUE
    Reregisters = FALSE
    IdBound = 2
    ChangeBound = 2
    RepeatBound = 1
    JobBound = 1
INVARIANTS
    QueueInv
PROPERTIES
    RetainedUntilAcked
    ChangesSampled
CHECK_DEADLOCK FALSE
