----------------------------- MODULE TaskStates -----------------------------
(***************************************************************************)
(* The task state machine shared by the task repository and the handlers   *)
(* that drive it: the states of admin/task/types.go and the edges of       *)
(* admin/task/store.go validTransition.                                    *)
(***************************************************************************)

\* A task that was never created, or was deleted, has no record.
Absent == "absent"
Deleted == "deleted"

\* admin/task/types.go: State constants.
States == {"pending", "starting", "running", "stopping", "stopped", "failed"}

\* IsActiveState: the states of which the whole cluster may hold only one.
ActiveStates == {"starting", "running", "stopping"}

TerminalStates == {"stopped", "failed"}

\* validTransition: the legal edges, the roll-back stopping -> running
\* of a failed stop request included.
ValidTransition ==
    {<<"pending", "starting">>, <<"pending", "failed">>, <<"pending", "stopped">>,
     <<"starting", "running">>, <<"starting", "failed">>,
     <<"running", "stopping">>, <<"running", "stopped">>, <<"running", "failed">>,
     <<"stopping", "running">>, <<"stopping", "stopped">>, <<"stopping", "failed">>}

=============================================================================
