CONSTANTS
    Structs <- MCStructs
    PointerFree = {"Pair"}
    InitialHeap <- MCInitialHeap
    InitialNodes <- MCInitialNodes
    TypeBlock <- MCTypeBlock
    Clients <- WholeRead
    BufferSize = 200
    UINT32_RANGE = 1024
    BinEncoding <- MCBinEncoding
    FaultBound = 0
    AllocBound = 8
    WriteBound = 2
SPECIFICATION Spec
INVARIANT BlocksFound
CHECK_DEADLOCK FALSE
