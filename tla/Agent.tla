------------------------------- MODULE Agent -------------------------------
(***************************************************************************)
(* The parts of an agent side by side: the manager of its robots           *)
(* (RobotManager, which this module extends), the flow of one robot        *)
(* (FlowExecutor) and the bundle cache (BundleCache).  They meet only at   *)
(* their edges: a start waits for the cache, a robot that is given up      *)
(* cancels its flow.                                                       *)
(***************************************************************************)
EXTENDS RobotManager

CONSTANTS
    Flows,                                      \* those of FlowExecutor
    BundleAgents, Size, MaxStreams, MaxFaults   \* those of BundleCache

VARIABLES
    name, stack, call, ret, stopped, executing, late, insisting, broken,
    store, streams, download, archive, dir, tmp, ensurePc, cut, retry, ensured, faults

flowVars == <<name, stack, call, ret, stopped, executing, late, insisting, broken>>
bundleVars == <<store, streams, download, archive, dir, tmp, ensurePc, cut, retry, ensured, faults>>

Flow == INSTANCE FlowExecutor WITH canceled <- stopped
Bundle == INSTANCE BundleCache WITH
    Agents <- BundleAgents, part <- download, pc <- ensurePc, offset <- cut, got <- ensured

(* What the decoder makes of a flow file (flow.go), and the chunks of an   *)
(* archive.                                                                *)
ASSUME AgentAssumption ==
    /\ \A f \in DOMAIN Flows : Flow!IsFlow(Flows[f])
    /\ Size \in Nat

-----------------------------------------------------------------------------
(* A flow that is cut short leaves an exact gauge of running actions, no   *)
(* action of a broken sequence counted twice or lost but one, and no stray *)
(* signal (FlowExecutor; engine/executor.go).                              *)
FlowIsExact == Flow!FlowIsExact

(* A stopped robot begins at most one more attempt, and one for each retry *)
(* that was waiting for its handler (FlowExecutor; engine/executor.go,     *)
(* robot/robot.go).                                                        *)
PromptStop == Flow!PromptStop

(* Ensure returns only a directory unpacked in full from the right archive *)
(* (BundleCache; agent/bundle/cache.go).                                   *)
BundleIsWhole == Bundle!BundleIsWhole
=============================================================================
