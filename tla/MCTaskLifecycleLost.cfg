CONSTANTS
    t1 = t1
    t2 = t2
    a1 = a1
    a2 = a2
    NoTask = NoTask
    NoAgent = NoAgent
    Health = Health
    Watchdog = Watchdog
    Tasks <- OneTask
    Agents <- TwoAgents
    Events = {"crash"}
    MaxFaults = 1
SPECIFICATION Spec
PROPERTIES AllLostEnds
CHECK_DEADLOCK FALSE
