SPECIFICATION FairSpec
CONSTANTS
    Client = {c1, c2, low1, low2}
    c1 = c1
    c2 = c2
    low1 = low1
    low2 = low2
    Console = Console
    NULL = NULL
    Enter = "enter"
    Workload <- Workloads
    pri <- Priority
INVARIANTS TypeOK SlotsAgree MoveIsPossible SectionsExclude RequestStays NoLostWakeup
PROPERTIES ImplementsChannels KeysKeepOff Answered
CHECK_DEADLOCK FALSE
