-------------------------- MODULE MCTasksAndViews --------------------------
(***************************************************************************)
(* TLC instance of the tasks the admin keeps (TaskRepository) and of what  *)
(* it shows of the measurements of one (MetricsView).  Each behaviour is   *)
(* one of the two, the other one rests.                                    *)
(***************************************************************************)
EXTENDS MCTaskRepository, MCMetricsView

CONSTANTS Reporters, MaxSamples, MaxHooks, MaxTime, MaxChanges

VARIABLES part,                                               \* the part that runs
          collector, node, store, windows, rejected, now, changes, ghost

viewVars == <<collector, node, store, windows, rejected, now, changes, ghost>>

View == INSTANCE MetricsView WITH
    Agents <- Reporters, Samples <- TheSamples, Durations <- TheDurations, Codes <- {7},
    Hooks <- {"RobotRunning"}, Stages <- {"build"}, ApdexT <- 2, Every <- 5, Step <- 16,
    pending <- windows

TasksAndViewsInit == part \in {"tasks", "view"} /\ Init /\ View!Init

TasksAndViewsNext ==
    \/ part = "tasks" /\ Next /\ UNCHANGED <<part, viewVars>>
    \/ part = "view" /\ View!Next /\ UNCHANGED <<part, vars>>

\* The fairness of TaskRepository; MetricsView has none.
TasksAndViewsSpec ==
    /\ TasksAndViewsInit
    /\ [][TasksAndViewsNext]_<<part, vars, viewVars>>
    /\ WF_vars(part = "tasks" /\ Tick)
    /\ \A t \in Tasks: /\ WF_vars(part = "tasks" /\ OnTerminal(t))
                       /\ SF_vars(part = "tasks" /\ AttemptCleanup(t))
                       /\ WF_vars(part = "tasks" /\ AttemptRemove(t))

\* What the user sees of a run is what its agents have measured: no report is
\* refused, and panel and trend show the pooled measurements (MetricsView).
ViewsArePooled == part = "view" => View!ViewsArePooled
=============================================================================
