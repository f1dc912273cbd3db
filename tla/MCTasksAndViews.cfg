CONSTANTS
    t1 = t1
    t2 = t2
    Tasks <- MCTasks
    SharedTasks <- MCSharedTasks
    NoTask = NoTask
    Faults = {"queueSave"}
    MaxRestarts = 2
    Reporters = {a1, a2}
    MaxSamples = 2
    MaxHooks = 1
    MaxTime = 32
    MaxChanges = 1
SPECIFICATION TasksAndViewsSpec
INVARIANTS ActiveIDExact  
PROPERTIES CleanupSparesLiveRuns QueueDrains
CHECK_DEADLOCK FALSE
