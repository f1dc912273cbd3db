CONSTANTS
    t1 = t1
    t2 = t2
    Tasks <- OneTask
    NoTask = NoTask
    Window = 2
    StoreCapacity = 3
    OutboxCapacity = 3
    ControlCapacity = 2
    Events = {}
    MaxCommands = 2
    MaxDrops = 1
    MaxRestarts = 0
SPECIFICATION Spec
PROPERTIES StopWins
CHECK_DEADLOCK FALSE
