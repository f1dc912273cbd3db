---------------------------- MODULE Distribution ----------------------------
(***************************************************************************)
(* How one task becomes one Start command per agent: the assignment of     *)
(* robots to the idle nodes, the check of the configured concurrency, the  *)
(* split of concurrency and of the ramp-up stages, and the batch that      *)
(* Dispatcher.ScheduleStart builds; with the stage plan that history and   *)
(* metrics derive from the same configuration.                             *)
(*                                                                         *)
(* The code compares fractions as float64.  Here a fraction is an integer  *)
(* numerator over a common denominator, and equal fractions go to the      *)
(* first index, as the code's strict comparison sends them.                *)
(***************************************************************************)
EXTENDS Integers, Sequences, FiniteSets, Functions

CONSTANTS NodeLists,  \* the lists of registered nodes a start can find
          Configs     \* the task configurations a user can submit

VARIABLES phase,      \* how far the start request has come
          nodes,      \* the registry's nodes when the request arrives
          task,       \* the task's configuration
          assignments,\* Task.Assignments, in the order of the nodes
          commands    \* the batch written to the command bus

vars == <<phase, nodes, task, assignments, commands>>

NoConfig == [bots |-> 0, start |-> 0, debug |-> FALSE, concurrency |-> 0, stages |-> <<>>]

Init ==
    /\ phase = "none"
    /\ nodes = <<>>
    /\ task = NoConfig
    /\ assignments = <<>>
    /\ commands = <<>>
-----------------------------------------------------------------------------
(* handleCreateTask *)

Counts(stages) == [i \in DOMAIN stages |-> stages[i].count]

(* A ramp-up with stages must have positive counts that add up to the      *)
(* task's robots.                                                          *)
ValidConfig(c) ==
    /\ c.bots > 0
    /\ c.stages # <<>> =>
         /\ \A i \in DOMAIN c.stages : c.stages[i].count > 0
         /\ SumFunction(Counts(c.stages)) = c.bots

HandleCreateTask ==
    /\ phase = "none"
    /\ \E c \in Configs : ValidConfig(c) /\ task' = c
    /\ phase' = "pending"
    /\ UNCHANGED <<nodes, assignments, commands>>
-----------------------------------------------------------------------------
(* Assigner.Assign *)

(* The first index at which f is largest. *)
FirstMax(f) ==
    CHOOSE i \in DOMAIN f :
        \A j \in DOMAIN f : f[j] < f[i] \/ (f[j] = f[i] /\ i <= j)

Available(list) == SelectSeq(list, LAMBDA n : n.idle /\ n.max > 0)

Capacity(list) == SumFunction([i \in DOMAIN list |-> list[i].max])

\* Mutant: the fractions are computed once, so every missing robot goes to
\* the same node.
ProportionalAssignOnce(list, total) ==
    LET capacity == Capacity(list)
        floor == [i \in DOMAIN list |-> (total * list[i].max) \div capacity]
        frac == [i \in DOMAIN list |-> (total * list[i].max) % capacity]
    IN [floor EXCEPT ![FirstMax(frac)] = @ + total - SumFunction(floor)]

(* Shares in proportion to MaxBots, rounded down; each missing robot goes  *)
(* to the node that is then furthest below its exact share.                *)
ProportionalAssign(list, total) ==
    LET capacity == Capacity(list)
        floor == [i \in DOMAIN list |-> (total * list[i].max) \div capacity]
        missing(bots) ==
            [i \in DOMAIN list |-> total * list[i].max - bots[i] * capacity]
        after[k \in 0..total] ==
            IF k = 0 THEN floor
            ELSE LET best == FirstMax(missing(after[k - 1]))
                 IN [after[k - 1] EXCEPT ![best] = @ + 1]
    IN after[total - SumFunction(floor)]

(* Debug mode: the first of the smallest nodes that can hold every robot. *)
SingleNode(list, total) ==
    {i \in DOMAIN list :
        /\ list[i].max >= total
        /\ \A j \in DOMAIN list :
             list[j].max >= total =>
                \/ list[i].max < list[j].max
                \/ list[i].max = list[j].max /\ i <= j}

(* The account range of each share starts where the one before it ends. *)
Ranges(list, bots, start) ==
    [i \in DOMAIN list |->
        [node |-> list[i],
         start |-> start + SumFunctionOnSet(bots, 1..(i - 1)),
         bots |-> bots[i]]]

Clamp(start) == IF start < 0 THEN 0 ELSE start

Assign(list, c) ==
    LET single == SingleNode(list, c.bots)
    IN IF c.debug /\ single # {}
       THEN LET best == list[CHOOSE i \in single : TRUE]
            IN Ranges(<<best>>, <<c.bots>>, Clamp(c.start))
       ELSE Ranges(list, ProportionalAssign(list, c.bots), Clamp(c.start))
-----------------------------------------------------------------------------
(* ValidateDistributedConcurrency *)

Shares(as) == [i \in DOMAIN as |-> as[i].bots]

Busy(shares) == {i \in DOMAIN shares : shares[i] > 0}

ConcurrencyOK(c, as) ==
    LET agents == Cardinality(Busy(Shares(as)))
        enough(n) == n = 0 \/ n >= agents
    IN agents > 1 =>
         /\ enough(c.concurrency)
         /\ \A i \in DOMAIN c.stages : enough(c.stages[i].concurrency)
-----------------------------------------------------------------------------
(* SplitGlobalValues and ScaleRampUp *)

(* Each index that precedes i when the fractions are handed out. *)
Ahead(frac, eligible, i) ==
    {j \in eligible : frac[j] > frac[i] \/ (frac[j] = frac[i] /\ j < i)}

(* One more for each of the first `missing` indices by fraction. *)
TopUp(floor, frac, eligible, missing) ==
    [i \in DOMAIN floor |->
        IF i \in eligible /\ Cardinality(Ahead(frac, eligible, i)) < missing
        THEN floor[i] + 1
        ELSE floor[i]]

(* One less for the largest value, `surplus` times, but never below 1. *)
Reclaim(values, surplus) ==
    LET after[k \in 0..surplus] ==
            IF k = 0 THEN values
            ELSE LET best == FirstMax(after[k - 1])
                 IN IF after[k - 1][best] > 1
                    THEN [after[k - 1] EXCEPT ![best] = @ - 1]
                    ELSE after[k - 1]
    IN after[surplus]

AtLeastOne(n) == IF n < 1 THEN 1 ELSE n

(* A node without robots has no entry in the code's map: it reads 0. *)
SplitGlobalValues(global, total, shares) ==
    IF global <= 0 THEN [i \in DOMAIN shares |-> 0]
    ELSE LET busy == Busy(shares)
             floor == [i \in DOMAIN shares |->
                         IF i \in busy
                         THEN AtLeastOne((global * shares[i]) \div total)
                         ELSE 0]
             frac == [i \in DOMAIN shares |-> (global * shares[i]) % total]
             used == SumFunction(floor)
         IN IF used <= global
            THEN TopUp(floor, frac, busy, global - used)
            ELSE Reclaim(floor, used - global)

(* One agent's stages: counts scaled to its share, concurrency split. *)
ScaleRampUp(stages, total, shares, i) ==
    LET count == [s \in DOMAIN stages |-> (stages[s].count * shares[i]) \div total]
        frac == [s \in DOMAIN stages |-> (stages[s].count * shares[i]) % total]
        counts == TopUp(count, frac, DOMAIN stages, shares[i] - SumFunction(count))
    IN IF shares[i] = total THEN stages
       ELSE [s \in DOMAIN stages |->
                [stages[s] EXCEPT
                    !.count = IF shares[i] <= 0 THEN 0 ELSE counts[s],
                    !.concurrency =
                        IF shares[i] <= 0 THEN @
                        ELSE SplitGlobalValues(@, total, shares)[i]]]
-----------------------------------------------------------------------------
(* Dispatcher.ScheduleStart *)

AssignmentStartIndex(a, taskStart) == a.start - taskStart

(* The command for assignment i; its base is the first assignment's start. *)
Dispatch(c, as, i) ==
    [start |-> as[1].start,
     index |-> AssignmentStartIndex(as[i], as[1].start),
     bots |-> as[i].bots,
     concurrency |-> SplitGlobalValues(c.concurrency, c.bots, Shares(as))[i],
     stages |-> ScaleRampUp(c.stages, c.bots, Shares(as), i)]

(* TaskAssignmentToProto refuses a share without robots. *)
Transportable(d) == d.index >= 0 /\ d.bots > 0

Batch(c, as) == [i \in DOMAIN as |-> Dispatch(c, as, i)]
-----------------------------------------------------------------------------
(* BuildStagePlan, on 1-based stage numbers: stage b + 1 with reset ends a  *)
(* segment at the code's boundary b; a reset on the first stage is ignored. *)

Boundaries(stages) == {b \in 1..(Len(stages) - 1) : stages[b + 1].reset}

(* The segments, each the set of stages it covers and the robots it adds.  *)
BuildStagePlan(stages) ==
    LET cuts == Boundaries(stages) \cup {Len(stages)}
        from(b) == {p \in 1..b : \A c \in cuts : c < b => p > c}
    IN IF Boundaries(stages) = {} THEN {}
       ELSE {[no |-> Cardinality({c \in cuts : c <= b}),
              stages |-> from(b),
              peak |-> SumFunctionOnSet(Counts(stages), from(b)),
              final |-> b = Len(stages)] : b \in cuts}
-----------------------------------------------------------------------------
(* handleStartTask: it assigns and validates; a refusal fails the task. *)
HandleStartTask ==
    /\ phase = "pending"
    /\ \E list \in NodeLists :
         LET usable == Available(list)
             feasible == usable # <<>> /\ Capacity(usable) >= task.bots
             as == Assign(usable, task)
             accepted == feasible /\ ConcurrencyOK(task, as)
         IN /\ nodes' = list
            /\ phase' = IF accepted THEN "assigned" ELSE "refused"
            /\ assignments' = IF accepted THEN as ELSE <<>>
    /\ UNCHANGED <<task, commands>>

(* startTaskBackground: every command is built before the batch is created, *)
(* and the first one that cannot be built fails the task.                   *)
ScheduleStart ==
    /\ phase = "assigned"
    /\ LET batch == Batch(task, assignments)
           ok == \A i \in DOMAIN batch : Transportable(batch[i])
       IN /\ phase' = IF ok THEN "dispatched" ELSE "failed"
          /\ commands' = IF ok THEN batch ELSE <<>>
    /\ UNCHANGED <<nodes, task, assignments>>

Next == HandleCreateTask \/ HandleStartTask \/ ScheduleStart

Spec == Init /\ [][Next]_vars
-----------------------------------------------------------------------------
(* Properties *)

Phases == {"none", "pending", "refused", "assigned", "dispatched", "failed"}

(* Every command carries natural numbers: a start, an index, a share and    *)
(* the split concurrencies that the agent's FromProto accepts.              *)
TypeOK ==
    /\ phase \in Phases
    /\ \A i \in DOMAIN commands :
         /\ commands[i].start \in Nat
         /\ commands[i].index \in Nat
         /\ commands[i].bots \in Nat
         /\ commands[i].concurrency \in Nat
         /\ \A s \in DOMAIN commands[i].stages :
              /\ commands[i].stages[s].count \in Nat
              /\ commands[i].stages[s].concurrency \in Nat

(* The account numbers the agents will use: robotIdentity adds the index    *)
(* and the local ordinal to the task's start number.                        *)
Accounts(d) == {d.start + d.index + k : k \in 0..(d.bots - 1)}

(* Two robots of the cluster never share an account and none is left out:   *)
(* the commands' account ranges are disjoint and make up the task's range,  *)
(* and no node gets more robots than its MaxBots.                           *)
AccountsPartition ==
    phase = "dispatched" =>
        /\ UNION {Accounts(commands[i]) : i \in DOMAIN commands}
             = {Clamp(task.start) + k : k \in 0..(task.bots - 1)}
        /\ \A i, j \in DOMAIN commands :
             i # j => Accounts(commands[i]) \cap Accounts(commands[j]) = {}
        /\ \A i \in DOMAIN commands : commands[i].bots <= assignments[i].node.max

(* The values the agents get for a configured concurrency, 0 if it is unset.*)
Conserved(global, values) ==
    /\ SumFunction(values) = global
    /\ global > 0 => \A i \in DOMAIN values : values[i] >= 1

(* The agents' concurrencies add up to the configured one and no agent gets *)
(* none, for the task's concurrency and for each stage that overrides it:   *)
(* rounding up the small shares is taken back from the large ones.          *)
ConcurrencyConserved ==
    phase = "dispatched" =>
        /\ Conserved(task.concurrency, [i \in DOMAIN commands |-> commands[i].concurrency])
        /\ \A s \in DOMAIN task.stages :
             Conserved(task.stages[s].concurrency,
                       [i \in DOMAIN commands |-> commands[i].stages[s].concurrency])

(* The robots that the cluster starts in stage s. *)
Cluster(s) == SumFunction([i \in DOMAIN commands |-> commands[i].stages[s].count])

(* Each agent's stages start exactly its share of robots.  The agents round *)
(* on their own, so the cluster's stage may differ from the configured one, *)
(* but by less than one robot per agent.                                    *)
StagesAddUp ==
    phase = "dispatched" /\ task.stages # <<>> =>
        /\ \A i \in DOMAIN commands :
             SumFunction(Counts(commands[i].stages)) = commands[i].bots
        /\ \A s \in DOMAIN task.stages :
             /\ Cluster(s) < task.stages[s].count + Len(commands)
             /\ Cluster(s) > task.stages[s].count - Len(commands)

(* The segments of the stage plan, which history derives from the task's    *)
(* configuration, cover its stages once, are numbered in stage order and    *)
(* account for every robot; and the resets at which an agent reports, taken *)
(* from its scaled stages, are exactly the plan's boundaries.               *)
SegmentsMatchReports ==
    phase = "dispatched" =>
        LET plan == BuildStagePlan(task.stages)
        IN /\ plan # {} =>
                /\ UNION {g.stages : g \in plan} = DOMAIN task.stages
                /\ SumFunction([g \in plan |-> g.peak]) = task.bots
                /\ \A g, h \in plan :
                     g # h =>
                        /\ g.stages \cap h.stages = {}
                        /\ g.no < h.no <=> \E p \in g.stages : \A q \in h.stages : p < q
                /\ \A g \in plan : g.final <=> g.no = Cardinality(plan)
           /\ \A i \in DOMAIN commands :
                Boundaries(commands[i].stages) = Boundaries(task.stages)

(* An accepted start fails only in the one case the conversion refuses: a   *)
(* node whose share is no robot at all.                                     *)
FailsForEmptyShare ==
    phase \in {"dispatched", "failed"} =>
        (phase = "failed" <=> \E i \in DOMAIN assignments : assignments[i].bots = 0)

(* Whatever is split over the agents adds up again: accounts, concurrency,  *)
(* stages and the segments that history expects.                            *)
DistributionAddsUp ==
    /\ TypeOK /\ FailsForEmptyShare
    /\ AccountsPartition /\ ConcurrencyConserved /\ StagesAddUp /\ SegmentsMatchReports
=============================================================================
