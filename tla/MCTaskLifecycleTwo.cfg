CONSTANTS
    t1 = t1
    t2 = t2
    a1 = a1
    a2 = a2
    NoTask = NoTask
    NoAgent = NoAgent
    Health = Health
    Watchdog = Watchdog
    Tasks <- TwoTasks
    Agents <- OneAgent
    Events = {"disconnect", "silent", "reject"}
    MaxFaults = 1
SPECIFICATION Spec
PROPERTIES RealReportKept
CHECK_DEADLOCK FALSE
