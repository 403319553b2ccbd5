CONSTANTS
    Structs <- MCStructs
    PointerFree = {"Pair"}
    InitialHeap <- MCInitialHeap
    InitialNodes <- MCInitialNodes
    TypeBlock <- MCTypeBlock
    Clients <- MCClients
    BufferSize = 200
    UINT32_RANGE = 1024
    BinEncoding <- MCBinEncoding
    FaultBound = 1
    AllocBound = 8
    WriteBound = 2
SPECIFICATION Spec
INVARIANTS MemorySound Transfers ReadsExactly
PROPERTY WritesExactly
CHECK_DEADLOCK FALSE
