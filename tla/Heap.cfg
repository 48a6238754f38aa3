SPECIFICATION FairSpec
CONSTANTS
    NIL = NIL
    LowPages = 8
    KernelPages = {2}
    PageBytes = 2
    TableSpan = 2
    PageUnits = 4
    TaskSizes = {1, 2, 3, 4}
    IrqSizes = {1}
    MemoryMaps <- Maps
INVARIANTS TypeOK ChunksTile PagesAgree SoundHeap
PROPERTIES NoPageLeaks ImplementsBlockStore CallsEnd
CHECK_DEADLOCK FALSE
