SPECIFICATION Spec
CONSTANTS
    kernel = kernel
    console = console
    timer = timer
    NoTask = NoTask
    Task <- AllTasks
    Boot = kernel
    Created <- AllCreated
    Owner = console
    May <- AllMay
    pri <- AllPri
    Delays = {0, 1}
    TickRange = 2
    MaxSlots = 1
    MaxForbid = 2
CHECK_DEADLOCK FALSE
CONSTRAINT SoundOrSmall
INVARIANTS
    TypeOK TasksInPlace ForbidCounts WaitReturnsSignalled NoMissedPreemption
    ListsAreQueues MisuseOnlyIfUnsound WaitLockGuards ReenterCounts RunFlag
PROPERTY SwitchAtTaskLevel
