SPECIFICATION Spec
CONSTANTS
    Null = Null
    NoNode = NoNode
    Emptied = Emptied
    NodeIds <- MCNodeIds
    InitialNodes <- MCInitialNodes
    Requests <- MCRequests
    BrowsePaths <- MCBrowsePaths
    NewReferences <- MCNewReferences
    MaxReferences = {0, 1, 2}
    TypeNodes = {"folder"}
    InstantiateMax = 2
    MAXCONTINUATIONPOINTS = 2
    CpIds = {1, 2, 3}
    ResultsSize = 8
    TargetsSize = 3
    EditBound = 2
    ShortageBound = 1
    NextRequests <- MCNextRequests
    EditedNodes = {"folder"}
    DeletedNodes = {"folder", "v"}
INVARIANTS
    PointsAccounted
    PagesComplete
    PathsResolved
CHECK_DEADLOCK FALSE
