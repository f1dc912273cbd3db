-------------------------------- MODULE Data --------------------------------
(***************************************************************************)
(* What outlives a run side by side: the state robots share in Redis       *)
(* (SharedState, which this module extends), the archive of ended tasks    *)
(* (HistoryStore) and the template libraries (TemplateLibrary).  They have *)
(* nothing in common but the databases they are kept in.                   *)
(***************************************************************************)
EXTENDS SharedState

CONSTANTS
    Tasks, Agents, Users, StageBoundaries, Outcomes, Requests, MetaStages,       \* those of HistoryStore
    RetentionDays, MaxDays, MaxRestarts, MaxPoints, MaxEdits,
    Clients, Names, Trimmed, TooLong, Bodies, MaxIDs, MaxClock              \* and of TemplateLibrary

VARIABLES
    active, task, jobs, hist, assignment, report, aggregated, config, series, meta, op, pruning,
    now, restarts, edits, safe,
    kind, rows, ids, clock, seen, touched, dropped

historyVars == <<active, task, jobs, hist, assignment, report, aggregated, config, series, meta,
                 op, pruning, now, restarts, edits, safe>>
templateVars == <<kind, rows, ids, clock, seen, touched, dropped>>

History == INSTANCE HistoryStore
Templates == INSTANCE TemplateLibrary WITH MaxTime <- MaxClock, time <- clock, lost <- dropped

(* Stages are numbered, and a reset ends one of them; trimming a name      *)
(* (strings.TrimSpace) leaves nothing to trim.                             *)
ASSUME DataAssumption ==
    /\ \A t \in Tasks : StageBoundaries[t] \in Seq(Nat)
    /\ \A n \in Names : Trimmed[Trimmed[n]] = Trimmed[n]

-----------------------------------------------------------------------------
(* The tables of the archive and the routes that read them tell one story  *)
(* (HistoryStore; admin/history/store.go).                                 *)
TablesAgree == History!TablesAgree

(* Neither Delete without force nor PruneExpired removes a task that was   *)
(* starred before they looked (HistoryStore; admin/history/store.go).      *)
StarsProtect == History!StarsProtect

(* A restore discards nothing its author has not seen, conflicts only when *)
(* somebody wrote, and leaves a library that could have been saved as it   *)
(* is (TemplateLibrary; admin/template).                                   *)
RestoresAreSafe == Templates!RestoresAreSafe
=============================================================================
