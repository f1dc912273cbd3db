CONSTANTS
    t1 = t1
    t2 = t2
    a1 = a1
    a2 = a2
    NoTask = NoTask
    NoAgent = NoAgent
    Health = Health
    Watchdog = Watchdog
    Tasks <- OneTask
    Agents <- OneAgent
    Events = {"stop", "deadline", "crash", "schedule"}
    MaxFaults = 1
SPECIFICATION Spec
PROPERTIES  OrphansEnd
CHECK_DEADLOCK FALSE
