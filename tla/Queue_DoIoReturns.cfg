SPECIFICATION FairSpec
CONSTANTS
    Client = {c1}
    c1 = c1
    c2 = c2
    low1 = low1
    low2 = low2
    Console = Console
    NULL = NULL
    Enter = "enter"
    Workload <- OneClient
    pri <- Priority
PROPERTY DoIoReturns
CHECK_DEADLOCK FALSE
