---------------------------- MODULE HistoryStore ----------------------------
(***************************************************************************)
(* The history of finished tasks in MySQL (admin/history/store.go,         *)
(* admin/httpapi/history.go, admin/mysql): the archive a terminal task     *)
(* writes in one transaction, the trend points of its sampler, the stars,  *)
(* tags and notes users put on a task or on one stage segment of it,       *)
(* deletion, expiry, and what the read routes show of all that.            *)
(*                                                                         *)
(* A transaction (Archive, the last part of Delete and of PruneExpired) is *)
(* one step; the single statements around it are steps of their own, since *)
(* nothing locks the rows between them.  A snapshot is the set of agents   *)
(* it merges.  Only admins with a database get this far: without one every *)
(* route answers HISTORY_DISABLED and changes nothing.                     *)
(***************************************************************************)
EXTENDS Integers, Sequences, FiniteSets, Functions, SequencesExt

CONSTANTS
    Tasks, Agents,
    Users,         \* HTTP requests being served at the same time
    StageBoundaries,    \* [Tasks -> Seq(Nat)]: where the ramp-up of a task resets
    Outcomes,      \* [Tasks -> SUBSET [reports, snaps, stages]]: how its agents may end
    Requests,      \* the metadata updates users send
    MetaStages,    \* the stageIndex values they send them with
    RetentionDays,
    MaxDays,       \* bound: days that pass
    MaxRestarts,   \* bound: restarts of the admin
    MaxPoints,     \* bound: trend points of a task
    MaxEdits       \* bound: metadata updates

VARIABLES
    active,      \* data/tasks: the tasks whose file says they are active
    task,        \* how it ended, as the memory has it
    jobs,        \* tasks whose asynchronous archive is under way
    hist,        \* task_history: the day the task stopped
    assignment,  \* task_assignment: rows of every agent
    report,      \* task_report: rows of every agent and stage_index
    aggregated,  \* task_aggregated: final_stress by stage_index
    config,      \* task_config_archive
    series,      \* task_timeseries: stage_index by batch token
    meta,        \* task_meta by stage_index
    op,          \* what every user's request is doing
    pruning,     \* the IDs PruneExpired has read, {} when it is not running
    now, restarts, edits,
    safe         \* history: starred tasks that no running deletion overtook

vars == <<active, task, jobs, hist, assignment, report, aggregated, config, series, meta,
          op, pruning, now, restarts, edits, safe>>

taskVars  == <<active, task, jobs, restarts, edits>>
rowVars   == <<hist, assignment, report, aggregated, config>>

NoRow == -1        \* no row in task_history
Overall == -1      \* the stage_index of the whole task
Active == [reports |-> {}, stages |-> {}, snaps |-> {}, stopped |-> -1]
Idle == [kind |-> "idle"]
Empty == <<>>      \* the function with no keys: no row

\* INSERT ... ON DUPLICATE KEY UPDATE: new rows replace those under their keys.
Upserted(table, new) ==
    [k \in DOMAIN table \cup DOMAIN new |-> IF k \in DOMAIN new THEN new[k] ELSE table[k]]

-----------------------------------------------------------------------------
(* The stage plan of a task: segment k ends at the k-th reset boundary, the *)
(* last one at the end of the task.                                         *)

HasReset(t) == StageBoundaries[t] # <<>>
FinalSegmentNo(t) == IF HasReset(t) THEN Len(StageBoundaries[t]) + 1 ELSE 0
SegmentNoForResetIndex(t, index) ==
    IF Contains(StageBoundaries[t], index) THEN CHOOSE k \in DOMAIN StageBoundaries[t]: StageBoundaries[t][k] = index
    ELSE 0
Segments(t) == IF HasReset(t) THEN 1..FinalSegmentNo(t) ELSE {}

\* stage_index <= 0 stands for the whole task.
Normalized(stage) == IF stage <= 0 THEN Overall ELSE stage

-----------------------------------------------------------------------------
(* Archive *)

\* The rows insertTaskReport adds: the final reports under -1, the reports
\* of planned resets under their segment, and with resets the final reports
\* again under the last segment.
ReportRows(t) ==
    {<<a, Overall>> : a \in task[t].reports}
    \cup {<<r.agent, SegmentNoForResetIndex(t, r.index)>> :
            r \in {x \in task[t].stages: SegmentNoForResetIndex(t, x.index) # 0}}
    \cup {<<a, FinalSegmentNo(t)>> : a \in IF HasReset(t) THEN task[t].reports ELSE {}}

\* buildFinalStressFromReports: reports without a snapshot are left out; when
\* none is left the windows of the agents are aggregated instead.
FinalStress(t) == IF task[t].snaps # {} THEN task[t].snaps ELSE Agents
SegmentAgents(t, seg) ==
    {r.agent : r \in {x \in task[t].stages: x.snap /\ SegmentNoForResetIndex(t, x.index) = seg}}

\* insertTaskAggregated: a segment nobody reported has no row, the last one
\* and the task itself have the final snapshot.
AggregatedRows(t) ==
    LET segs == {seg \in Segments(t): SegmentAgents(t, seg) # {}}
    IN  [seg \in segs \cup {Overall} \cup (IF HasReset(t) THEN {FinalSegmentNo(t)} ELSE {}) |->
            IF seg \in {Overall, FinalSegmentNo(t)} THEN FinalStress(t) ELSE SegmentAgents(t, seg)]

\* Archive: task_history, the aggregates and the configuration are upserted;
\* assignments, reports and events are inserted, whatever is there already.
Archive(t) ==
    /\ hist' = [hist EXCEPT ![t] = task[t].stopped]
    /\ assignment' = [assignment EXCEPT ![t] = [a \in Agents |-> @[a] + 1]]
    /\ report' = [report EXCEPT ![t] =
                    [r \in DOMAIN @ |-> IF r \in ReportRows(t) THEN @[r] + 1 ELSE @[r]]]
    /\ aggregated' = [aggregated EXCEPT ![t] = Upserted(@, AggregatedRows(t))]
    /\ config' = config \cup {t}

\* The archive job of onTaskTerminal: a failed merge or transaction leaves
\* nothing behind and is only logged.
ArchiveJob(t) ==
    /\ t \in jobs
    /\ jobs' = jobs \ {t}
    /\ Archive(t) \/ UNCHANGED rowVars
    /\ UNCHANGED <<active, task, restarts, edits, series, meta, op, pruning, now>>

Ended(o, day) == [reports |-> o.reports, stages |-> o.stages, snaps |-> o.snaps, stopped |-> day]

\* The task reaches its end: the terminal callback starts the archive; the
\* file says so unless it cannot be written.
End(t) ==
    /\ task[t] = Active
    /\ \E o \in Outcomes[t], saved \in BOOLEAN:
         /\ task' = [task EXCEPT ![t] = Ended(o, now)]
         /\ active' = IF saved THEN active \ {t} ELSE active
    /\ jobs' = jobs \cup {t}
    /\ UNCHANGED <<rowVars, series, meta, op, pruning, now, restarts, edits>>

\* AppendTimeseries: a batch saved twice keeps its first row.
AppendTimeseries(t, token, stage) ==
    /\ task[t] = Active
    /\ series' = [series EXCEPT ![t] = Upserted([k \in {token} |-> IF stage = 0 THEN Overall ELSE stage], @)]
    /\ UNCHANGED <<taskVars, rowVars, meta, op, pruning, now>>

\* The admin ends and starts again: running requests, prunings and archive
\* jobs are lost; a task that is still active in its file is failed in memory,
\* with the reports that reached the file, and its callback replayed.  The
\* file is not written.
Restart ==
    /\ restarts < MaxRestarts
    /\ restarts' = restarts + 1
    /\ jobs' = active
    /\ \E kept \in [Tasks -> UNION {Outcomes[t] : t \in Tasks}]:
         /\ \A t \in Tasks: kept[t] \in Outcomes[t]
         /\ task' = [t \in Tasks |-> IF t \notin active THEN task[t]
                                     ELSE Ended(IF task[t] = Active THEN kept[t] ELSE task[t], now)]
    /\ op' = [u \in Users |-> Idle]
    /\ pruning' = {}
    /\ UNCHANGED <<active, rowVars, series, meta, now, edits>>

-----------------------------------------------------------------------------
(* UpsertMeta: look the task up, load its metadata, write the merged row *)

ZeroMeta == [starred |-> FALSE, tags |-> {}, note |-> ""]
loadMeta(t, stage) == IF stage \in DOMAIN meta[t] THEN meta[t][stage] ELSE ZeroMeta

\* The fields of the request replace the current ones.
Merged(cur, req) == req @@ cur

UpsertCheck(u, t, stage, req) ==
    /\ op[u] = Idle
    /\ edits < MaxEdits
    /\ edits' = edits + 1
    /\ hist[t] # NoRow
    /\ op' = [op EXCEPT ![u] = [kind |-> "load", task |-> t, stage |-> Normalized(stage), req |-> req]]
    /\ UNCHANGED <<active, task, jobs, restarts, rowVars, series, meta, pruning, now>>

UpsertLoad(u) ==
    /\ op[u].kind = "load"
    /\ op' = [op EXCEPT ![u] =
                [kind |-> "write", task |-> @.task, stage |-> @.stage, req |-> @.req,
                 row |-> Merged(loadMeta(@.task, @.stage), @.req)]]
    /\ UNCHANGED <<taskVars, rowVars, series, meta, pruning, now>>

UpsertWrite(u) ==
    /\ op[u].kind = "write"
    /\ meta' = [meta EXCEPT ![op[u].task] = Upserted(@, [s \in {op[u].stage} |-> op[u].row])]
    /\ op' = [op EXCEPT ![u] = Idle]
    /\ UNCHANGED <<taskVars, rowVars, series, pruning, now>>

-----------------------------------------------------------------------------
(* Delete and PruneExpired *)

\* A star on the task or on any segment protects it.
Starred(t) == \E stage \in DOMAIN meta[t]: meta[t][stage].starred

\* Mutant: one child table is forgotten.
MutantRemoveTasks(ids) ==
    /\ hist' = [t \in Tasks |-> IF t \in ids THEN NoRow ELSE hist[t]]
    /\ assignment' = [t \in Tasks |-> IF t \in ids THEN [a \in Agents |-> 0] ELSE assignment[t]]
    /\ report' = [t \in Tasks |-> IF t \in ids THEN [r \in DOMAIN report[t] |-> 0] ELSE report[t]]
    /\ series' = [t \in Tasks |-> IF t \in ids THEN Empty ELSE series[t]]
    /\ config' = config \ ids
    /\ meta' = [t \in Tasks |-> IF t \in ids THEN Empty ELSE meta[t]]
    /\ UNCHANGED aggregated

\* The transaction that removes tasks: their rows in every table.
RemoveTasks(ids) ==
    /\ hist' = [t \in Tasks |-> IF t \in ids THEN NoRow ELSE hist[t]]
    /\ assignment' = [t \in Tasks |-> IF t \in ids THEN [a \in Agents |-> 0] ELSE assignment[t]]
    /\ report' = [t \in Tasks |-> IF t \in ids THEN [r \in DOMAIN report[t] |-> 0] ELSE report[t]]
    /\ aggregated' = [t \in Tasks |-> IF t \in ids THEN Empty ELSE aggregated[t]]
    /\ series' = [t \in Tasks |-> IF t \in ids THEN Empty ELSE series[t]]
    /\ config' = config \ ids
    /\ meta' = [t \in Tasks |-> IF t \in ids THEN Empty ELSE meta[t]]

\* Mutant: only the star of the task itself is looked at.
MutantDeleteCheck(u, t, force) ==
    /\ op[u] = Idle
    /\ force \/ (hist[t] # NoRow /\ ~loadMeta(t, Overall).starred)
    /\ op' = [op EXCEPT ![u] = [kind |-> "delete", task |-> t, force |-> force]]
    /\ UNCHANGED <<taskVars, rowVars, series, meta, pruning, now>>

\* handleDeleteHistory: without force the task must exist and bear no star.
DeleteCheck(u, t, force) ==
    /\ op[u] = Idle
    /\ force \/ (hist[t] # NoRow /\ ~Starred(t))
    /\ op' = [op EXCEPT ![u] = [kind |-> "delete", task |-> t, force |-> force]]
    /\ UNCHANGED <<taskVars, rowVars, series, meta, pruning, now>>

\* Without a row in task_history the transaction is rolled back: metadata and
\* trend points of such a task stay.
DeleteTx(u) ==
    /\ op[u].kind = "delete"
    /\ op' = [op EXCEPT ![u] = Idle]
    /\ IF hist[op[u].task] # NoRow THEN RemoveTasks({op[u].task})
       ELSE UNCHANGED <<rowVars, series, meta>>
    /\ UNCHANGED <<taskVars, pruning, now>>

\* PruneExpired reads the expired tasks without a star ...
PruneSelect ==
    /\ pruning = {}
    /\ pruning' = {t \in Tasks: /\ hist[t] # NoRow
                                /\ hist[t] < now - RetentionDays
                                /\ ~Starred(t)}
    /\ pruning' # {}
    /\ UNCHANGED <<taskVars, rowVars, series, meta, op, now>>

\* ... and removes them by ID.
PruneTx ==
    /\ pruning # {}
    /\ RemoveTasks(pruning)
    /\ pruning' = {}
    /\ UNCHANGED <<taskVars, op, now>>

DayPasses ==
    /\ now < MaxDays
    /\ now' = now + 1
    /\ UNCHANGED <<taskVars, rowVars, series, meta, op, pruning>>

-----------------------------------------------------------------------------
(* What the read routes show *)

\* getRecord, and a row of List.
Record(t) == [starred |-> loadMeta(t, Overall).starred, tags |-> loadMeta(t, Overall).tags,
              note |-> loadMeta(t, Overall).note]

\* loadStageMetaBatch and loadStageAggBatch: the rows of segments.
StageMeta(t) == [seg \in {s \in DOMAIN meta[t]: s >= 1} |-> meta[t][seg]]
StageAgg(t) == [seg \in {s \in DOMAIN aggregated[t]: s > 0} |-> aggregated[t][seg]]

\* enrichStageGroups: the children List shows under a task with resets.
Children(t) ==
    [seg \in Segments(t) |->
        [meta   |-> IF seg \in DOMAIN StageMeta(t) THEN StageMeta(t)[seg] ELSE ZeroMeta,
         stress |-> IF seg \in DOMAIN StageAgg(t) THEN StageAgg(t)[seg] ELSE {}]]

\* queryAggregatedSummary and the query of GetCompareTask.
Aggregate(t, stage) ==
    IF Normalized(stage) \in DOMAIN aggregated[t] THEN aggregated[t][Normalized(stage)] ELSE {}

\* queryReportSummaries: how many rows every agent has.
ReportSummaries(t, stage) == [a \in Agents |-> report[t][<<a, Normalized(stage)>>]]

\* GetDetailSummary: a segment shows its own metadata, not the task's.
GetDetailSummary(t, stage) ==
    [meta    |-> IF stage > 0 THEN loadMeta(t, stage) ELSE Record(t),
     reports |-> ReportSummaries(t, stage),
     stress  |-> Aggregate(t, stage)]

\* buildListWhere with a starred filter: the tasks List leaves in.
Listed(want) == {t \in Tasks: hist[t] # NoRow /\ (Starred(t) <=> want)}

\* AllTags
AllTags == UNION {UNION {meta[t][s].tags : s \in DOMAIN meta[t]} : t \in Tasks}

-----------------------------------------------------------------------------
Init ==
    /\ active = Tasks
    /\ task = [t \in Tasks |-> Active]
    /\ jobs = {}
    /\ hist = [t \in Tasks |-> NoRow]
    /\ assignment = [t \in Tasks |-> [a \in Agents |-> 0]]
    /\ report = [t \in Tasks |-> [r \in Agents \X ({Overall} \cup Segments(t)) |-> 0]]
    /\ aggregated = [t \in Tasks |-> Empty]
    /\ config = {}
    /\ series = [t \in Tasks |-> Empty]
    /\ meta = [t \in Tasks |-> Empty]
    /\ op = [u \in Users |-> Idle]
    /\ pruning = {}
    /\ now = 0
    /\ restarts = 0
    /\ edits = 0
    /\ safe = {}

Step ==
    \/ \E t \in Tasks:
         \/ End(t) \/ ArchiveJob(t)
         \/ \E token \in 1..MaxPoints, stage \in {0} \cup Segments(t): AppendTimeseries(t, token, stage)
         \/ \E u \in Users:
              \/ \E stage \in MetaStages, req \in Requests: UpsertCheck(u, t, stage, req)
              \/ \E force \in BOOLEAN: DeleteCheck(u, t, force)
    \/ \E u \in Users: UpsertLoad(u) \/ UpsertWrite(u) \/ DeleteTx(u)
    \/ PruneSelect \/ PruneTx
    \/ DayPasses \/ Restart

\* Deletions that have made up their mind about a task without force.
Doomed == pruning \cup {op[u].task : u \in {v \in Users: op[v].kind = "delete" /\ ~op[v].force}}

Next ==
    /\ Step
    /\ safe' = {t \in Tasks: /\ \E stage \in DOMAIN meta'[t]: meta'[t][stage].starred
                             /\ (t \in safe \/ t \notin Doomed)}

Spec == Init /\ [][Next]_vars

-----------------------------------------------------------------------------
\* A starred task is not removed by a deletion without force or by expiry,
\* unless the star came after the deletion had read the stars: Delete and
\* PruneExpired look at the stars of the task and of all its segments, but
\* outside the transaction that removes the rows.
StarsProtect ==
    [][\A t \in safe:
         hist'[t] = NoRow /\ hist[t] # NoRow =>
            \E u \in Users: op[u].kind = "delete" /\ op[u].force /\ op[u].task = t /\ op'[u] = Idle]_vars

\* The tables agree: a task without a row in task_history has no archive rows
\* left in any table, and one with a row has its configuration, an overall
\* aggregate, the same aggregate for its last segment, and as many copies of
\* every agent's final report under that segment as under the task.
ArchiveIsWhole ==
    \A t \in Tasks:
        IF hist[t] = NoRow
        THEN /\ \A a \in Agents: assignment[t][a] = 0
             /\ \A r \in DOMAIN report[t]: report[t][r] = 0
             /\ aggregated[t] = Empty
             /\ t \notin config
        ELSE /\ t \in config
             /\ Overall \in DOMAIN aggregated[t]
             /\ HasReset(t) =>
                  /\ Aggregate(t, FinalSegmentNo(t)) = Aggregate(t, Overall)
                  /\ ReportSummaries(t, FinalSegmentNo(t)) = ReportSummaries(t, Overall)

\* The routes tell one story: a segment has the same metadata and the same
\* aggregate as a child in the list and in its own detail, and a task is
\* listed as starred exactly when some star is shown on it or on a segment.
ViewsAgree ==
    \A t \in Tasks:
        /\ \A seg \in Segments(t):
             /\ Children(t)[seg].meta = GetDetailSummary(t, seg).meta
             /\ Children(t)[seg].stress = GetDetailSummary(t, seg).stress
        /\ hist[t] # NoRow =>
             (t \in Listed(TRUE) <=> \/ Record(t).starred
                                     \/ \E seg \in Segments(t): Children(t)[seg].meta.starred)

\* What a finished task leaves in the archive tells one story, in the tables
\* and on every route that reads them.
TablesAgree == ArchiveIsWhole /\ ViewsAgree
=============================================================================
