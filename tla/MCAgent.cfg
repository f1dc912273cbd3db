CONSTANTS
    Runs <- SomeRuns
    Flows <- TheFlows
    BundleAgents = {a1, a2}
    Size = 2
    MaxStreams = 1
    MaxFaults = 3
    MaxRaw = 2
    MaxSteps = 4
SPECIFICATION AgentSpec
INVARIANTS DrainedUnlessOvertaken CompletionIsNoticed EachRobotOnce FlowIsExact PromptStop LazinessIsInvisible BundleIsWhole
PROPERTIES SegmentIsClosed StopReturns FlowEnds BundleArrives
CHECK_DEADLOCK FALSE
