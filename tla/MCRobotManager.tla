--------------------------- MODULE MCRobotManager ---------------------------
\* TLC instance of RobotManager: one or two batches of up to three robots.
EXTENDS RobotManager

Stage(n, r) == [count |-> n, reset |-> r]
Run(p, t, f) == [stages |-> p, timed |-> t, faults |-> f]

AllAtOnce == <<Stage(2, FALSE)>>
TwoStages == <<Stage(1, FALSE), Stage(1, FALSE)>>
WithReset == <<Stage(2, FALSE), Stage(1, TRUE)>>
ShortReset == <<Stage(1, FALSE), Stage(1, TRUE)>>

SomeRuns ==
    {Run(AllAtOnce, FALSE, {"cancel", "timeout"}),
     Run(AllAtOnce, FALSE, {"newRobot", "pool"}),
     Run(<<Stage(1, FALSE)>>, TRUE, {"cancel", "pool", "timeout"}),
     Run(TwoStages, FALSE, {"cancel", "newRobot", "timeout"}),
     Run(ShortReset, FALSE, {"cancel", "timeout"}),
     Run(WithReset, FALSE, {"timeout"})}
=============================================================================
