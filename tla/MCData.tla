------------------------------- MODULE MCData -------------------------------
(***************************************************************************)
(* TLC instance of the parts that compute or keep what others build on:    *)
(* the way a start is split over the agents (Distribution) and what        *)
(* outlives a run (Data): the archive of ended tasks, the template         *)
(* libraries and the state robots share in Redis.  Each behaviour is one   *)
(* of these parts, the others rest in an initial state.  Init, Next and    *)
(* SharingIsSound are those of SharedState.                                *)
(***************************************************************************)
EXTENDS Data, MCDistribution

CONSTANTS t1, a1, a2

VARIABLES
    part,                                                     \* the part that runs
    request, nodes, order, assignments, commands

startVars == <<request, nodes, order, assignments, commands>>

Start == INSTANCE Distribution WITH
    NodeLists <- UpToThreeNodes, Configs <- SomeConfigs, phase <- request, task <- order

\* A task with a segment, reported in part; who has left a snapshot differs.
TheBoundaries == t1 :> <<2>>
Ending(agent, segment, snap) == [agent |-> agent, index |-> segment, snap |-> snap]
TheOutcomes ==
    t1 :> {[reports |-> {a1, a2}, snaps |-> {a1},
            stages |-> {Ending(a1, 2, TRUE), Ending(a2, 2, FALSE), Ending(a2, 1, TRUE)}],
           [reports |-> {a2}, snaps |-> {}, stages |-> {}]}
TheRequests == {[starred |-> TRUE], [starred |-> FALSE], [tags |-> {"x"}, note |-> "n"]}

TheTrimmed == ("a" :> "a") @@ (" b " :> "b") @@ ("b" :> "b") @@ (" " :> "") @@ ("" :> "")
ActionBody(has) == [pattern |-> "tcpSend", own |-> "tcpSend", has |-> has, method |-> "", contentType |-> ""]
TheBodies ==
    [action |-> {ActionBody({"service", "route", "c2sProto"}), ActionBody({"service"})},
     listen |-> {[kind |-> "lua", keys |-> {"script", "store"}, blank |-> FALSE, ref |-> {"server", "route"}],
                 [kind |-> "silent", keys |-> {"store"}, blank |-> FALSE, ref |-> {}]},
     flow   |-> {[valid |-> TRUE, empty |-> FALSE], [valid |-> FALSE, empty |-> TRUE]}]

\* One type of data at a time; the calls of all robots.
EachType == {{t} : t \in Types}
CallsByType == [kv |-> 2, counter |-> 3, claim |-> 3, queue |-> 2, hash |-> 2]

DataInit ==
    /\ part \in {"start", "history", "templates", "shared"}
    /\ Start!Init /\ History!Init
    /\ Templates!Init /\ (part # "templates" => kind = "action")
    /\ Init /\ (part # "shared" => scope = {"claim"})

DataNext ==
    \/ part = "start" /\ Start!Next /\ UNCHANGED <<part, historyVars, templateVars, vars>>
    \/ part = "history" /\ History!Next /\ UNCHANGED <<part, startVars, templateVars, vars>>
    \/ part = "templates" /\ Templates!Next /\ UNCHANGED <<part, startVars, historyVars, vars>>
    \/ part = "shared" /\ Next /\ UNCHANGED <<part, startVars, historyVars, templateVars>>

DataSpec == DataInit /\ [][DataNext]_<<part, startVars, historyVars, templateVars, vars>>

\* Users, clients and robots do the same things.  They are the same values: as
\* one part runs at a time, one group of permutations serves them all.
DataSymmetry == Permutations(Users)

\* Accounts, concurrency, stages and segments split over the agents add up again
\* (Distribution; admin/task/assignment.go, distribution.go, stage_plan.go).
DistributionAddsUp == part = "start" => Start!DistributionAddsUp
=============================================================================
