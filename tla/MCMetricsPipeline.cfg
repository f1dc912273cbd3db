CONSTANTS
    r1 = r1
    Recorders <- MCRecorders
    ApdexT = 200
    ApdexBefore = 100
    MaxRecords = 1
    MaxTicks = 1
    MaxEvents = 1
    SlotCapacity = 2
SPECIFICATION FairSpec
INVARIANTS MeasuredOnce SlotsAreServed
PROPERTY DeliveryEnds
CHECK_DEADLOCK FALSE
