CONSTANTS
    t1 = t1
    t2 = t2
    Tasks <- TwoTasks
    NoTask = NoTask
    Window = 2
    StoreCapacity = 3
    OutboxCapacity = 3
    ControlCapacity = 2
    Events = {"end","transient","refuse"}
    MaxCommands = 2
    MaxDrops = 1
    MaxRestarts = 0
SPECIFICATION Spec
INVARIANTS OutcomesAgree OnceOnly
PROPERTIES ShutdownAfterAck StopsSettle SessionHolds
CHECK_DEADLOCK FALSE
