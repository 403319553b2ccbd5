SPECIFICATION Spec
CONSTANTS
    p1 = p1
    p2 = p2
    Peers = {p1, p2}
    Fds = {3, 4}
    Scenarios <- MCScenarios
    HeaderSize = 2
    MaxMessageSize = 4
    RecvBufferSize = 4
    AnswerSizes = {1, 2}
    SendBufferSize = 1
INVARIANTS
    MappingInv
    StreamPreserved
    FreedOnlyUsedByStop
PROPERTIES
    MessagesServed
    ClosedReclaimed
CHECK_DEADLOCK FALSE
