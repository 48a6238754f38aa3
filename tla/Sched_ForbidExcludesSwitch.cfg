SPECIFICATION Spec
CONSTANTS
    kernel = kernel
    console = console
    timer = timer
    NoTask = NoTask
    Task <- KeyTasks
    Boot = kernel
    Created <- AllCreated
    Owner = console
    May <- KeyMay
    pri <- KeyPri
    Delays = {0, 1}
    TickRange = 2
    MaxSlots = 1
    MaxForbid = 2
CHECK_DEADLOCK FALSE
PROPERTY ForbidExcludesSwitch
