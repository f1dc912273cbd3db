CONSTANTS
    t1 = t1
    t2 = t2
    a1 = a1
    a2 = a2
    NoTask = NoTask
    NoAgent = NoAgent
    Health = Health
    Watchdog = Watchdog
    Tasks <- OneTask
    Agents <- TwoAgents
    Events = {"stop", "crash"}
    MaxFaults = 1
SPECIFICATION Spec
SYMMETRY AgentSymmetry
INVARIANTS StoppedIsComplete 
PROPERTIES KeepsContract
CHECK_DEADLOCK FALSE
