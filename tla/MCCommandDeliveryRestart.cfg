CONSTANTS
    t1 = t1
    t2 = t2
    Tasks <- OneTask
    NoTask = NoTask
    Window = 2
    StoreCapacity = 3
    OutboxCapacity = 3
    ControlCapacity = 2
    Events = {}
    MaxCommands = 1
    MaxDrops = 0
    MaxRestarts = 1
SPECIFICATION RestartSpec
PROPERTIES SessionHolds
CHECK_DEADLOCK FALSE
