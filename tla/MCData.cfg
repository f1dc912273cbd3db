CONSTANTS
    t1 = t1
    a1 = a1
    a2 = a2
    Tasks = {t1}
    Agents = {a1, a2}
    StageBoundaries <- TheBoundaries
    Outcomes <- TheOutcomes
    Requests <- TheRequests
    MetaStages = {0, 1}
    Users = {p1, p2}
    RetentionDays = 0
    MaxDays = 1
    MaxRestarts = 1
    MaxPoints = 1
    MaxEdits = 2
    Clients = {p1, p2}
    Names = {"a", " b ", " "}
    Trimmed <- TheTrimmed
    Bodies <- TheBodies
    TooLong = {}
    MaxIDs = 2
    MaxClock = 3
    Robots = {p1, p2}
    DefaultClaimTTL = 4
    Values = {"bigint"}
    Scopes <- EachType
    TTLs = {0, 1}
    MaxCalls <- CallsByType
    MaxTime = 2
    MaxCleanups = 1
SPECIFICATION DataSpec
SYMMETRY DataSymmetry
INVARIANTS DistributionAddsUp TablesAgree RestoresAreSafe 
PROPERTIES StarsProtect
CHECK_DEADLOCK FALSE
