SPECIFICATION Spec
CONSTANTS
    NIL = NIL
    LowPages = 8
    KernelPages = {2}
    PageBytes = 2
    TableSpan = 2
    PageUnits = 4
    TaskSizes = {1, 2, 4}
    IrqSizes = {1}
    MemoryMaps <- Maps
PROPERTY MapsAtHeapEnd
CHECK_DEADLOCK FALSE
