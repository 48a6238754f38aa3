SPECIFICATION FairSpec
CONSTANTS
    kernel = kernel
    console = console
    timer = timer
    NoTask = NoTask
    Task <- SleepTasks
    Boot = kernel
    Created <- SleepCreated
    Owner = kernel
    May <- SleepMay
    pri <- SleepPri
    Delays = {2}
    TickRange = 3
    MaxSlots = 1
    MaxForbid = 0
CHECK_DEADLOCK FALSE
PROPERTIES DelayEnds TopTaskRuns
