CONSTANTS
    Workers = {w1, w2}
    Builds = {TRUE, FALSE}
    NodeIds = {1, 2, 3, 4, 5, 6, 7, 8, 9, 10, 11, 12, 13}
    InitialNodes <- Startup
    Scenarios <- Mixed
SPECIFICATION Spec
INVARIANTS InstancesInv NoLostEdit 
PROPERTIES AllAnswered
