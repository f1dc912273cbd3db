------------------------------ MODULE MCAgent ------------------------------
(***************************************************************************)
(* TLC instance of the parts of an agent that meet only at their edges:    *)
(* RobotManager, the flow of one robot and the bundle cache (Agent), and   *)
(* the responses a robot keeps in its state (WireState).  Each behaviour   *)
(* is one of these parts, the others rest in an initial state.             *)
(***************************************************************************)
EXTENDS Agent, MCRobotManager, MCFlows, MCWireState

CONSTANTS MaxRaw, MaxSteps

VARIABLES part,                                               \* the part that runs
          raw, data, plain, steps

wireVars == <<raw, data, plain, steps>>

Wire == INSTANCE WireState WITH
    Schema <- MCSchema, Root <- "Resp", Occurrences <- MCOccurrences, IndexOf <- MCIndexOf,
    Keys <- {"a"}, Fields <- MCFields, Mappings <- MCMappings, Written <- MCWritten

AgentInit ==
    /\ part \in {"manager", "flow", "wire", "bundle"}
    /\ Init /\ (part # "manager" => run = Run(AllAtOnce, FALSE, {"cancel", "timeout"}))
    /\ Flow!Init /\ (part # "flow" => name = "everything")
    /\ Wire!Init /\ Bundle!Init

ManagerNext == part = "manager" /\ Next /\ UNCHANGED <<part, flowVars, wireVars, bundleVars>>
FlowNext == part = "flow" /\ Flow!Next /\ UNCHANGED <<part, vars, wireVars, bundleVars>>
WireNext == part = "wire" /\ Wire!Next /\ UNCHANGED <<part, vars, flowVars, bundleVars>>
BundleNext == part = "bundle" /\ Bundle!Next /\ UNCHANGED <<part, vars, flowVars, wireVars>>

\* The fairness of the specifications; WireState has none.
AgentSpec ==
    /\ AgentInit
    /\ [][ManagerNext \/ FlowNext \/ WireNext \/ BundleNext]_<<part, vars, flowVars, wireVars, bundleVars>>
    /\ WF_vars(part = "manager" /\ RunnerStep)
    /\ WF_vars(part = "manager" /\ CloserStep)
    /\ WF_vars(part = "manager" /\ \E r \in Bots : RobotStep(r))
    /\ WF_flowVars(part = "flow" /\ Flow!Run)
    /\ WF_bundleVars(part = "bundle" /\ (Bundle!BuildWrite \/ Bundle!BuildPublish))
    /\ \A a \in BundleAgents : /\ WF_bundleVars(part = "bundle" /\ Bundle!Ensure(a))
                               /\ SF_bundleVars(part = "bundle" /\ Bundle!StreamOpen(a))

\* A stopped robot leaves its flow, and a finite flow ends (FlowExecutor).
FlowEnds == Flow!FlowEnds

\* A robot cannot tell that responses are kept as bytes and read late
\* (WireState; protocol/protox, state/overlay.go).
LazinessIsInvisible == part = "wire" => Wire!LazinessIsInvisible

\* Every agent gets its bundle again and again (BundleCache; cache.go, the
\* streams of bundle_service.go).
BundleArrives == part = "bundle" => Bundle!BundleArrives
=============================================================================
