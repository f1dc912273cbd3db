---------------------------- MODULE TaskLifecycle ----------------------------
(***************************************************************************)
(* The life of a task across the cluster: the HTTP handlers that start and *)
(* stop it (admin/httpapi/task_routes.go), the callbacks, the timer and    *)
(* the watchdog of admin/app.go, the reports of admin/task/completion.go,  *)
(* the agent registry (admin/agent/registry.go), the control sessions      *)
(* (admin/grpcapi) and the agent processes (agent/), all interleaved.      *)
(*                                                                         *)
(* The repository and the registry hold their lock for one call, so every  *)
(* Get, Update and Transition is a step of its own and a handler that made *)
(* a decision may find the state changed when it acts on it.               *)
(*                                                                         *)
(* The admin's own crash is in TaskRepository; how a command reaches its   *)
(* agent exactly once is in CommandDelivery.                               *)
(***************************************************************************)
EXTENDS TaskStates, Naturals, Sequences

CONSTANTS
    Tasks, Agents,
    NoTask,            \* an empty task identifier
    NoAgent,           \* no agent
    Health, Watchdog,  \* the goroutines of the health checker and the watchdog
    Events,            \* which of EventKinds happen
    MaxFaults          \* bound: how many faults happen in one behaviour

\* The user stops the task; its deadline passes; a session breaks, or is silent
\* for longer than the lease; an agent process dies; commands cannot be
\* created; an agent rejects a start because it cannot use the bundle.
FaultKinds == {"disconnect", "silent", "crash", "schedule", "reject"}
EventKinds == {"stop", "deadline"} \cup FaultKinds

ASSUME NamesAssumption ==
    /\ NoTask \notin Tasks
    /\ NoAgent \notin Agents
    /\ Health \notin Agents /\ Watchdog \notin Agents /\ Health # Watchdog
ASSUME EventsAssumption == Events \subseteq EventKinds /\ MaxFaults \in Nat

VARIABLES
    st,        \* Task.State
    assigned,  \* agents of Task.Assignments; SucceededAgents is the same set
    reports,   \* Task.Reports: "none", "real" (of the agent) or "synth"
    startPc,   \* handleStartTask and its background half, one per task
    plan,      \* the assignments handleStartTask has computed
    stopPc,    \* handleStopTask, one per task
    timer,     \* startStopTimeout, one per task
    node,      \* Registry.agents: the status and current task of every node
    inst,      \* Registry.instances: the task last known for the process
    conn,      \* the agent process and its control session
    orphan,    \* Session.orphanStop
    cmds,      \* the unconfirmed commands of every agent, in order
    accept,    \* handleEvent inside CompletionService.Accept, one per session
    job,       \* the callbacks running in Health, Watchdog and the handshakes
    lost,      \* status changes the health checker has still to report
    run,       \* Agent.currentTask
    phase,     \* how far executeTask is
    outbox,    \* ReportOutbox: final reports without an acknowledgement
    fresh,     \* the process has started and has not registered yet
    faults     \* history: faults so far

taskVars == <<st, assigned, reports>>
handlerVars == <<startPc, plan, stopPc, timer>>
registryVars == <<node, inst>>
sessionVars == <<conn, orphan, cmds, accept>>
jobVars == <<job, lost>>
agentVars == <<run, phase, outbox, fresh>>
vars == <<taskVars, handlerVars, registryVars, sessionVars, jobVars, agentVars, faults>>

Jobs == Agents \cup {Health, Watchdog}
Gone == [status |-> "gone", task |-> NoTask]
NodeOf(t) == [status |-> IF t = NoTask THEN "idle" ELSE "busy", task |-> t]
NoJob == [pc |-> "idle", task |-> NoTask, agent |-> NoAgent, todo |-> {}]
NoAccept == [pc |-> "idle", task |-> NoTask, kind |-> "none", from |-> "none"]

\* The agents have registered and are idle, no task has been started.
Init ==
    /\ st = [t \in Tasks |-> "pending"]
    /\ assigned = [t \in Tasks |-> {}]
    /\ reports = [t \in Tasks |-> [a \in Agents |-> "none"]]
    /\ startPc = [t \in Tasks |-> "idle"]
    /\ plan = [t \in Tasks |-> {}]
    /\ stopPc = [t \in Tasks |-> "idle"]
    /\ timer = [t \in Tasks |-> "off"]
    /\ node = [a \in Agents |-> NodeOf(NoTask)]
    /\ inst = [a \in Agents |-> NoTask]
    /\ conn = [a \in Agents |-> "up"]
    /\ orphan = [a \in Agents |-> FALSE]
    /\ cmds = [a \in Agents |-> <<>>]
    /\ accept = [a \in Agents |-> NoAccept]
    /\ job = [p \in Jobs |-> NoJob]
    /\ lost = {}
    /\ run = [a \in Agents |-> NoTask]
    /\ phase = [a \in Agents |-> "idle"]
    /\ outbox = [a \in Agents |-> {}]
    /\ fresh = [a \in Agents |-> FALSE]
    /\ faults = 0

-----------------------------------------------------------------------------
\* Small pieces the handlers share.

Fault(kind) == kind \in Events /\ faults < MaxFaults /\ faults' = faults + 1

\* Mutant: Transition does not compare the state before it sets it.
CasBlind(t, from, to) == st' = [st EXCEPT ![t] = to]

\* Transition as its callers see it: the state moves if it is still the one
\* they expect, and otherwise the call fails and changes nothing.
Cas(t, from, to) == st' = IF st[t] = from THEN [st EXCEPT ![t] = to] ELSE st

\* Mutant: ownership is membership, whatever became of the task.
OwnsAnyTask(a, t) == t # NoTask /\ a \in assigned[t]

\* CompletionService.OwnsActiveTask.
OwnsActiveTask(a, t) ==
    /\ t # NoTask
    /\ st[t] \in ActiveStates
    /\ a \in assigned[t]
    /\ reports[t][a] = "none"

AllReported(t) == \A a \in assigned[t]: reports[t][a] # "none"

\* Mutant: a synthetic report replaces whatever is there.
SynthesizeAlways(t, S) ==
    reports' = [reports EXCEPT ![t] =
        [a \in Agents |-> IF a \in S THEN "synth" ELSE reports[t][a]]]

\* Write a synthetic report for the agents of S that have none.
Synthesize(t, S) ==
    reports' = [reports EXCEPT ![t] =
        [a \in Agents |-> IF a \in S /\ reports[t][a] = "none" THEN "synth" ELSE reports[t][a]]]

\* Bus.CreateBatch: one command per agent, appended to what is pending.  A
\* second stop right behind a stop of the same task has no effect of its own
\* and is left out.
Schedule(kind, t, S) ==
    LET c == [kind |-> kind, task |-> t, outcome |-> "none"]
        Add(q) == IF q # <<>> /\ q[Len(q)] = c THEN q ELSE Append(q, c) IN
    cmds' = [a \in Agents |-> IF a \in S THEN Add(cmds[a]) ELSE cmds[a]]

-----------------------------------------------------------------------------
\* handleStartTask and startTaskBackground.

\* StartTask -> Begin: refused while another task is active.
StartTask(t) ==
    /\ st[t] = "pending"
    /\ \A u \in Tasks: st[u] \notin ActiveStates
    /\ st' = [st EXCEPT ![t] = "starting"]
    /\ startPc' = [startPc EXCEPT ![t] = "assign"]
    /\ UNCHANGED <<assigned, reports, plan, stopPc, timer, registryVars, sessionVars,
                   jobVars, agentVars, faults>>

\* Redis is missing, no capacity is left or the concurrency is too small.
StartRefused(t) ==
    /\ startPc[t] = "assign"
    /\ startPc' = [startPc EXCEPT ![t] = "done"]
    /\ Cas(t, "starting", "failed")
    /\ UNCHANGED <<assigned, reports, plan, stopPc, timer, registryVars, sessionVars,
                   jobVars, agentVars, faults>>

\* ListByStatus(Idle) and Assign.  Debug mode takes one node, an unhealthy
\* node is left out: any nonempty part of the idle nodes.
Assign(t) ==
    /\ startPc[t] = "assign"
    /\ \E S \in SUBSET {a \in Agents: node[a].status = "idle"}:
         /\ S # {}
         /\ plan' = [plan EXCEPT ![t] = S]
    /\ startPc' = [startPc EXCEPT ![t] = "save"]
    /\ UNCHANGED <<taskVars, stopPc, timer, registryVars, sessionVars, jobVars,
                   agentVars, faults>>

\* Update(Assignments), then the background half is submitted.
SaveAssignments(t) ==
    /\ startPc[t] = "save"
    /\ assigned' = [assigned EXCEPT ![t] = plan[t]]
    /\ startPc' = [startPc EXCEPT ![t] = "dispatch"]
    /\ UNCHANGED <<st, reports, plan, stopPc, timer, registryVars, sessionVars,
                   jobVars, agentVars, faults>>

\* ScheduleStart; its error leads to starting -> failed.
DispatchStart(t) ==
    /\ startPc[t] = "dispatch"
    /\ \/ /\ Schedule("start", t, plan[t])
          /\ startPc' = [startPc EXCEPT ![t] = "run"]
          /\ UNCHANGED faults
       \/ /\ Fault("schedule")
          /\ startPc' = [startPc EXCEPT ![t] = "fail"]
          /\ UNCHANGED cmds
    /\ UNCHANGED <<taskVars, plan, stopPc, timer, registryVars, conn, orphan, accept,
                   jobVars, agentVars>>

\* Transition(starting, running); if it fails so does starting -> failed.
StartRuns(t) ==
    /\ startPc[t] = "run"
    /\ Cas(t, "starting", "running")
    /\ startPc' = [startPc EXCEPT ![t] = IF st[t] = "starting" THEN "finish" ELSE "fail"]
    /\ UNCHANGED <<assigned, reports, plan, stopPc, timer, registryVars, sessionVars,
                   jobVars, agentVars, faults>>

StartFails(t) ==
    /\ startPc[t] = "fail"
    /\ Cas(t, "starting", "failed")
    /\ startPc' = [startPc EXCEPT ![t] = "done"]
    /\ UNCHANGED <<assigned, reports, plan, stopPc, timer, registryVars, sessionVars,
                   jobVars, agentVars, faults>>

\* Mutant: reports that came in while the task was starting are not looked at.
FinishNever(t) ==
    /\ startPc[t] = "finish"
    /\ startPc' = [startPc EXCEPT ![t] = "done"]
    /\ UNCHANGED <<taskVars, plan, stopPc, timer, registryVars, sessionVars, jobVars,
                   agentVars, faults>>

\* FinishIfFullyReported, its Get: reports may have arrived while starting.
FinishIfFullyReported(t) ==
    /\ startPc[t] = "finish"
    /\ startPc' = [startPc EXCEPT ![t] =
         IF st[t] = "running" /\ AllReported(t) THEN "finishStop" ELSE "done"]
    /\ UNCHANGED <<taskVars, plan, stopPc, timer, registryVars, sessionVars, jobVars,
                   agentVars, faults>>

\* FinishIfFullyReported, its Transition.
FinishStops(t) ==
    /\ startPc[t] = "finishStop"
    /\ Cas(t, "running", "stopped")
    /\ startPc' = [startPc EXCEPT ![t] = "done"]
    /\ UNCHANGED <<assigned, reports, plan, stopPc, timer, registryVars, sessionVars,
                   jobVars, agentVars, faults>>

-----------------------------------------------------------------------------
\* handleStopTask and startStopTimeout.

StopTask(t) ==
    /\ "stop" \in Events
    /\ stopPc[t] = "idle"
    /\ st[t] = "running"
    /\ st' = [st EXCEPT ![t] = "stopping"]
    /\ stopPc' = [stopPc EXCEPT ![t] = "schedule"]
    /\ UNCHANGED <<assigned, reports, startPc, plan, timer, registryVars, sessionVars,
                   jobVars, agentVars, faults>>

StopSchedules(t) ==
    /\ stopPc[t] = "schedule"
    /\ \/ /\ Schedule("stop", t, assigned[t])
          /\ stopPc' = [stopPc EXCEPT ![t] = "synth"]
          /\ UNCHANGED faults
       \/ /\ Fault("schedule")
          /\ stopPc' = [stopPc EXCEPT ![t] = "rollback"]
          /\ UNCHANGED cmds
    /\ UNCHANGED <<taskVars, startPc, plan, timer, registryVars, conn, orphan, accept,
                   jobVars, agentVars>>

StopRollsBack(t) ==
    /\ stopPc[t] = "rollback"
    /\ Cas(t, "stopping", "running")
    /\ stopPc' = [stopPc EXCEPT ![t] = "idle"]
    /\ UNCHANGED <<assigned, reports, startPc, plan, timer, registryVars, sessionVars,
                   jobVars, agentVars, faults>>

\* Mutant: no stop timeout is started for the agents that are still connected.
SynthesizeWithoutTimer(t) ==
    /\ stopPc[t] = "synth"
    /\ Synthesize(t, {a \in assigned[t]: node[a] = Gone})
    /\ stopPc' = [stopPc EXCEPT ![t] =
         IF \A a \in assigned[t]: reports'[t][a] # "none" THEN "toStopped" ELSE "idle"]
    /\ UNCHANGED <<st, assigned, startPc, plan, timer, registryVars, sessionVars, jobVars,
                   agentVars, faults>>

\* synthesizeOfflineReports, which decides between the end and the timer.
SynthesizeOfflineReports(t) ==
    /\ stopPc[t] = "synth"
    /\ Synthesize(t, {a \in assigned[t]: node[a] = Gone})
    /\ IF \A a \in assigned[t]: reports'[t][a] # "none"
         THEN stopPc' = [stopPc EXCEPT ![t] = "toStopped"] /\ UNCHANGED timer
         ELSE /\ stopPc' = [stopPc EXCEPT ![t] = "idle"]
              /\ timer' = [timer EXCEPT ![t] = "armed"]
    /\ UNCHANGED <<st, assigned, startPc, plan, registryVars, sessionVars, jobVars,
                   agentVars, faults>>

StopEnds(t) ==
    /\ stopPc[t] = "toStopped"
    /\ Cas(t, "stopping", "stopped")
    /\ stopPc' = [stopPc EXCEPT ![t] = "idle"]
    /\ UNCHANGED <<assigned, reports, startPc, plan, timer, registryVars, sessionVars,
                   jobVars, agentVars, faults>>

\* The timer fires while the task is still stopping: every missing report is
\* synthesized.  In any other state it does nothing.
StopTimeout(t) ==
    /\ timer[t] = "armed" /\ st[t] = "stopping"
    /\ Synthesize(t, assigned[t])
    /\ timer' = [timer EXCEPT ![t] = "toStopped"]
    /\ UNCHANGED <<st, assigned, startPc, plan, stopPc, registryVars, sessionVars,
                   jobVars, agentVars, faults>>

StopTimeoutEnds(t) ==
    /\ timer[t] = "toStopped"
    /\ Cas(t, "stopping", "stopped")
    /\ timer' = [timer EXCEPT ![t] = "off"]
    /\ UNCHANGED <<assigned, reports, startPc, plan, stopPc, registryVars, sessionVars,
                   jobVars, agentVars, faults>>

-----------------------------------------------------------------------------
\* The registry's health checker and the callbacks of admin/app.go.

\* scanAndMarkStatus: the nodes without a heartbeat are deleted under the lock
\* and their changes reported after it.  Two bounds on time are assumed, both
\* from the order of the thresholds that admin/config.go enforces.  The lease
\* is shorter than the offline threshold, so the agent has cancelled its task
\* by then.  A node is unhealthy, and no longer listed as idle, long before it
\* is offline, so handleStartTask does not hold one that is to be deleted.
ScanAndMarkStatus ==
    /\ lost = {} /\ job[Health].pc = "idle"
    /\ \E S \in SUBSET {a \in Agents:
            /\ node[a] # Gone
            /\ phase[a] # "running"
            /\ \A t \in Tasks: startPc[t] = "save" => a \notin plan[t]}:
         /\ S # {}
         /\ \/ (\A a \in S: conn[a] \in {"down", "dead"}) /\ UNCHANGED faults
            \/ (\A a \in S: conn[a] = "up") /\ Fault("silent")
         /\ lost' = S
         /\ node' = [a \in Agents |-> IF a \in S THEN Gone ELSE node[a]]
    /\ UNCHANGED <<taskVars, handlerVars, inst, sessionVars, job, agentVars>>

Goto(p, pc) == job' = [job EXCEPT ![p].pc = pc]
EndJob(p) == job' = [job EXCEPT ![p] = NoJob]

\* onAgentStatusChange(offline) of one change, its read of the active task.
OnAgentOffline(a) ==
    /\ a \in lost /\ job[Health].pc = "idle"
    /\ lost' = lost \ {a}
    /\ \/ \E t \in Tasks:
            /\ st[t] \in ActiveStates /\ a \in assigned[t]
            /\ job' = [job EXCEPT ![Health] =
                 [pc |-> IF st[t] = "stopping" THEN "synthOne" ELSE "check",
                  task |-> t, agent |-> a, todo |-> {}]]
       \/ /\ \A t \in Tasks: st[t] \in ActiveStates => a \notin assigned[t]
          /\ UNCHANGED job
    /\ UNCHANGED <<taskVars, handlerVars, registryVars, sessionVars, agentVars, faults>>

\* The report of a node that went offline while the task was stopping.  The
\* code compares the number of reports with the number of assignments, which
\* is the same because Accept and Synthesize record assigned agents only.
SynthesizeOne(p) ==
    /\ job[p].pc = "synthOne"
    /\ LET t == job[p].task IN
         /\ Synthesize(t, {job[p].agent})
         /\ IF \A a \in assigned[t]: reports'[t][a] # "none"
              THEN Goto(p, "toStopped") ELSE EndJob(p)
    /\ UNCHANGED <<st, assigned, handlerVars, registryVars, sessionVars, lost, agentVars,
                   faults>>

JobStops(p) ==
    /\ job[p].pc = "toStopped"
    /\ Cas(job[p].task, "stopping", "stopped")
    /\ EndJob(p)
    /\ UNCHANGED <<assigned, reports, handlerVars, registryVars, sessionVars, lost,
                   agentVars, faults>>

\* onAgentRestart, its read of the active task.
OnAgentRestart(p) ==
    /\ job[p].pc = "restarted"
    /\ IF st[job[p].task] \in ActiveStates /\ job[p].agent \in assigned[job[p].task]
         THEN Goto(p, "synthRestart") ELSE EndJob(p)
    /\ UNCHANGED <<taskVars, handlerVars, registryVars, sessionVars, lost, agentVars,
                   faults>>

SynthesizeRestarted(p) ==
    /\ job[p].pc = "synthRestart"
    /\ Synthesize(job[p].task, {job[p].agent})
    /\ Goto(p, "check")
    /\ UNCHANGED <<st, assigned, handlerVars, registryVars, sessionVars, lost, agentVars,
                   faults>>

\* checkAndStopIfAllLost: one read of the task, then one of every node.
CheckAllLost(p) ==
    /\ job[p].pc = "check"
    /\ LET t == job[p].task
           todo == {a \in assigned[t]: reports[t][a] = "none"} IN
         IF st[t] \in ActiveStates
           THEN job' = [job EXCEPT ![p].pc = "probe", ![p].todo = todo]
           ELSE EndJob(p)
    /\ UNCHANGED <<taskVars, handlerVars, registryVars, sessionVars, lost, agentVars,
                   faults>>

\* A node counts as alive only while the registry shows it on this task.
ProbeNode(p, a) ==
    /\ job[p].pc = "probe" /\ a \in job[p].todo
    /\ IF node[a].task = job[p].task
         THEN EndJob(p)
         ELSE job' = [job EXCEPT ![p].todo = @ \ {a}]
    /\ UNCHANGED <<taskVars, handlerVars, registryVars, sessionVars, lost, agentVars,
                   faults>>

\* The watchdog finds the deadline of the running task passed.
DeadlinePasses(t) ==
    /\ "deadline" \in Events
    /\ job[Watchdog].pc = "idle"
    /\ st[t] = "running"
    /\ job' = [job EXCEPT ![Watchdog] =
         [pc |-> "probe", task |-> t, agent |-> NoAgent, todo |-> {}]]
    /\ UNCHANGED <<taskVars, handlerVars, registryVars, sessionVars, lost, agentVars,
                   faults>>

\* autoStopTask, its read of the task: no node is left to be probed.
AutoStopTask(p) ==
    /\ job[p].pc = "probe" /\ job[p].todo = {}
    /\ CASE st[job[p].task] = "starting" -> Goto(p, "failStarting")
         [] st[job[p].task] = "running" -> Goto(p, "toStopping")
         [] st[job[p].task] = "stopping" -> Goto(p, "schedule")
         [] OTHER -> EndJob(p)
    /\ UNCHANGED <<taskVars, handlerVars, registryVars, sessionVars, lost, agentVars,
                   faults>>

AutoStopFailsStart(p) ==
    /\ job[p].pc = "failStarting"
    /\ Cas(job[p].task, "starting", "failed")
    /\ EndJob(p)
    /\ UNCHANGED <<assigned, reports, handlerVars, registryVars, sessionVars, lost,
                   agentVars, faults>>

AutoStopBegins(p) ==
    /\ job[p].pc = "toStopping"
    /\ Cas(job[p].task, "running", "stopping")
    /\ IF st[job[p].task] = "running" THEN Goto(p, "schedule") ELSE EndJob(p)
    /\ UNCHANGED <<assigned, reports, handlerVars, registryVars, sessionVars, lost,
                   agentVars, faults>>

\* ScheduleStop; here a failure is only logged.
AutoStopSchedules(p) ==
    /\ job[p].pc = "schedule"
    /\ \/ Schedule("stop", job[p].task, assigned[job[p].task]) /\ UNCHANGED faults
       \/ Fault("schedule") /\ UNCHANGED cmds
    /\ Goto(p, "synthAll")
    /\ UNCHANGED <<taskVars, handlerVars, registryVars, conn, orphan, accept, lost,
                   agentVars>>

AutoStopSynthesizes(p) ==
    /\ job[p].pc = "synthAll"
    /\ Synthesize(job[p].task, assigned[job[p].task])
    /\ Goto(p, "toFailed")
    /\ UNCHANGED <<st, assigned, handlerVars, registryVars, sessionVars, lost, agentVars,
                   faults>>

AutoStopEnds(p) ==
    /\ job[p].pc = "toFailed"
    /\ Cas(job[p].task, "stopping", "failed")
    /\ EndJob(p)
    /\ UNCHANGED <<assigned, reports, handlerVars, registryVars, sessionVars, lost,
                   agentVars, faults>>

-----------------------------------------------------------------------------
\* Control sessions: grpcapi/control_service.go over one stream per agent.

\* The oldest command that the admin has no acknowledgement of is executed and
\* acknowledged in one step; CommandDelivery has the steps between.
HeadCommand(a, kind) ==
    /\ conn[a] = "up" /\ accept[a].pc = "idle"
    /\ cmds[a] # <<>> /\ Head(cmds[a]).kind = kind
Confirm(a) == cmds' = [cmds EXCEPT ![a] = Tail(@)]

\* OutcomeOutbox: the outcome of the command is kept and sent again, and the
\* command is not executed a second time (FindAndReplay).
Keep(a, outcome) == cmds' = [cmds EXCEPT ![a][1].outcome = outcome]

CloseSession(a) ==
    /\ conn' = [conn EXCEPT ![a] = "down"]
    /\ orphan' = [orphan EXCEPT ![a] = FALSE]

Disconnect(a) ==
    /\ conn[a] \in {"hello", "up"} /\ job[a].pc = "idle"
    /\ Fault("disconnect")
    /\ CloseSession(a)
    /\ UNCHANGED <<taskVars, handlerVars, registryVars, cmds, accept, jobVars, agentVars>>

\* Session, up to Register: the node is entered as the agent describes itself.
\* A new process that replaces one with a task starts onAgentRestart.  The
\* gate of the agent makes it wait for an event still being handled.
Register(a) ==
    /\ conn[a] = "down" /\ accept[a].pc = "idle" /\ job[a].pc = "idle"
    /\ conn' = [conn EXCEPT ![a] = "hello"]
    /\ node' = [node EXCEPT ![a] = NodeOf(run[a])]
    /\ inst' = [inst EXCEPT ![a] = run[a]]
    /\ fresh' = [fresh EXCEPT ![a] = FALSE]
    /\ job' = IF fresh[a] /\ inst[a] # NoTask
                THEN [job EXCEPT ![a] = [pc |-> "restarted", task |-> inst[a],
                                         agent |-> a, todo |-> {}]]
                ELSE job
    /\ UNCHANGED <<taskVars, handlerVars, orphan, cmds, accept, lost, run, phase, outbox,
                   faults>>

\* The rest of the handshake: a task that the admin no longer holds is
\* stopped, then Welcome is sent.
Welcome(a) ==
    /\ conn[a] = "hello" /\ job[a].pc = "idle"
    /\ conn' = [conn EXCEPT ![a] = "up"]
    /\ LET t == node[a].task IN
         IF t # NoTask /\ ~OwnsActiveTask(a, t)
           THEN Schedule("stop", t, {a}) /\ orphan' = [orphan EXCEPT ![a] = TRUE]
           ELSE UNCHANGED <<cmds, orphan>>
    /\ UNCHANGED <<taskVars, handlerVars, registryVars, accept, jobVars, agentVars, faults>>

\* Registry.Heartbeat: the node as the agent describes it, healthy again.
NodeHeartbeat(a) ==
    /\ node' = [node EXCEPT ![a] = NodeOf(run[a])]
    /\ inst' = [inst EXCEPT ![a] = run[a]]

\* handleEvent(Heartbeat): a node that was deleted meanwhile must register
\* again; an orphaned task is stopped, once per session.
Heartbeat(a) ==
    /\ conn[a] = "up" /\ accept[a].pc = "idle"
    /\ IF node[a] = Gone
         THEN CloseSession(a) /\ UNCHANGED <<node, inst, cmds>>
         ELSE /\ NodeHeartbeat(a)
              /\ IF run[a] # NoTask /\ ~OwnsActiveTask(a, run[a]) /\ ~orphan[a]
                   THEN Schedule("stop", run[a], {a}) /\ orphan' = [orphan EXCEPT ![a] = TRUE]
                   ELSE UNCHANGED <<cmds, orphan>>
              /\ UNCHANGED conn
    /\ UNCHANGED <<taskVars, handlerVars, accept, jobVars, agentVars, faults>>

\* sendLoop: a command that starts a task that is over is not sent.
DropStart(a) ==
    /\ HeadCommand(a, "start")
    /\ Head(cmds[a]).outcome = "none" /\ ~OwnsActiveTask(a, Head(cmds[a]).task)
    /\ Confirm(a)
    /\ UNCHANGED <<taskVars, handlerVars, registryVars, conn, orphan, accept, jobVars,
                   agentVars, faults>>

-----------------------------------------------------------------------------
\* CompletionService.Accept, called by handleEvent.

\* The node is idle again, unless it holds another task by now or is deleted.
CompleteTask(a, t) ==
    IF node[a].task = t
      THEN /\ node' = [node EXCEPT ![a] = NodeOf(NoTask)]
           /\ inst' = [inst EXCEPT ![a] = NoTask]
      ELSE UNCHANGED <<node, inst>>

\* Mutant: the first final report counts as the last one.
AcceptFirst(a, t, kind) ==
    IF a \in assigned[t]
      THEN /\ reports' = [reports EXCEPT ![t][a] = kind]
           /\ CompleteTask(a, t)
           /\ accept' = IF st[t] \in {"running", "stopping"}
                          THEN [accept EXCEPT ![a] = [pc |-> "move", task |-> t,
                                                      kind |-> kind, from |-> st[t]]]
                          ELSE accept
      ELSE UNCHANGED <<reports, node, inst, accept>>

\* The Update of the task and CompleteTask: the report is recorded if the
\* agent is expected, and the last one decides on a transition.  The result
\* is the state to leave, or "none".
Accept(a, t, kind) ==
    LET complete == \A b \in assigned[t] \ {a}: reports[t][b] # "none" IN
    IF a \in assigned[t]
      THEN /\ reports' = [reports EXCEPT ![t][a] = kind]
           /\ CompleteTask(a, t)
           /\ accept' = IF complete /\ st[t] \in {"running", "stopping"}
                          THEN [accept EXCEPT ![a] = [pc |-> "move", task |-> t,
                                                      kind |-> kind, from |-> st[t]]]
                          ELSE accept
      ELSE UNCHANGED <<reports, node, inst, accept>>

\* ReportAck: the agent may forget its report.
AckReport(a, t) == outbox' = [outbox EXCEPT ![a] = @ \ {t}]

\* handleEvent(FinalReport) of a report in the agent's outbox.
ReceiveReport(a, t) ==
    /\ conn[a] = "up" /\ accept[a].pc = "idle" /\ t \in outbox[a]
    /\ Accept(a, t, "real")
    /\ IF accept'[a].pc = "idle" THEN AckReport(a, t) ELSE UNCHANGED outbox
    /\ UNCHANGED <<st, assigned, handlerVars, conn, orphan, cmds, jobVars, run, phase,
                   fresh, faults>>

\* handleEvent(CommandAck) of a rejected command, which stands for a report:
\* its outcome is kept until the report is settled.
Reject(a) ==
    /\ Accept(a, Head(cmds[a]).task, "synth")
    /\ IF accept'[a].pc = "idle" THEN Confirm(a) ELSE Keep(a, "rejected")

\* The Transition, then the acknowledgement, unless the session is gone.  If
\* the state has moved on, the session is closed and the agent repeats itself.
AcceptMoves(a) ==
    LET t == accept[a].task IN
    /\ accept[a].pc = "move"
    /\ accept' = [accept EXCEPT ![a] = NoAccept]
    /\ Cas(t, accept[a].from, "stopped")
    /\ IF st[t] = accept[a].from
         THEN /\ IF conn[a] = "up" /\ accept[a].kind = "real"
                   THEN AckReport(a, t) ELSE UNCHANGED outbox
              /\ IF conn[a] = "up" /\ accept[a].kind = "synth"
                   THEN Confirm(a) ELSE UNCHANGED cmds
              /\ UNCHANGED <<conn, orphan>>
         ELSE /\ IF conn[a] = "up" THEN CloseSession(a) ELSE UNCHANGED <<conn, orphan>>
              /\ UNCHANGED <<cmds, outbox>>
    /\ UNCHANGED <<assigned, reports, handlerVars, registryVars, jobVars, run, phase,
                   fresh, faults>>

-----------------------------------------------------------------------------
\* The agent process.

\* handleEvent(CommandAck) of an applied start: the node is marked busy if the
\* admin still wants the task; if the node was deleted meanwhile the session
\* ends and the acknowledgement is repeated in the next one.
AckStart(a, t) ==
    IF OwnsActiveTask(a, t) /\ node[a] = Gone
      THEN CloseSession(a) /\ Keep(a, "applied") /\ UNCHANGED <<node, inst>>
      ELSE /\ IF OwnsActiveTask(a, t)
                THEN /\ node' = [node EXCEPT ![a] = NodeOf(t)]
                     /\ inst' = [inst EXCEPT ![a] = t]
                ELSE UNCHANGED <<node, inst>>
           /\ Confirm(a)
           /\ UNCHANGED <<conn, orphan>>

\* StartTask takes the free task slot.  An agent gets one start for a task, so
\* the slot never holds the task of a start that is not executed yet.
ExecuteStart(a) ==
    LET t == Head(cmds[a]).task IN
    /\ HeadCommand(a, "start") /\ Head(cmds[a]).outcome = "none"
    /\ OwnsActiveTask(a, t) /\ run[a] = NoTask
    /\ run' = [run EXCEPT ![a] = t]
    /\ phase' = [phase EXCEPT ![a] = "running"]
    /\ AckStart(a, t)
    /\ UNCHANGED <<taskVars, handlerVars, accept, jobVars, outbox, fresh, faults>>

\* The outcome of a start that is applied already is sent again.
ReplayStart(a) ==
    /\ HeadCommand(a, "start") /\ Head(cmds[a]).outcome = "applied"
    /\ AckStart(a, Head(cmds[a]).task)
    /\ UNCHANGED <<taskVars, handlerVars, accept, jobVars, agentVars, faults>>

\* The slot is taken by another task, or the bundle cannot be used.
RejectStart(a) ==
    LET t == Head(cmds[a]).task IN
    /\ HeadCommand(a, "start")
    /\ \/ Head(cmds[a]).outcome = "rejected" /\ UNCHANGED faults
       \/ /\ Head(cmds[a]).outcome = "none" /\ OwnsActiveTask(a, t)
          /\ \/ run[a] # NoTask /\ UNCHANGED faults
             \/ run[a] = NoTask /\ Fault("reject")
    /\ Reject(a)
    /\ UNCHANGED <<st, assigned, handlerVars, conn, orphan, jobVars, agentVars>>

CancelTask(a) ==
    phase' = IF phase[a] = "running" THEN [phase EXCEPT ![a] = "cancelled"] ELSE phase

\* StopTask cancels the task it names, or finds nothing to cancel.
ExecuteStop(a) ==
    /\ HeadCommand(a, "stop")
    /\ Head(cmds[a]).outcome = "none" /\ run[a] \in {Head(cmds[a]).task, NoTask}
    /\ CancelTask(a)
    /\ Confirm(a)
    /\ UNCHANGED <<taskVars, handlerVars, registryVars, conn, orphan, accept, jobVars, run,
                   outbox, fresh, faults>>

\* StopTask for a task while another one runs.
RejectStop(a) ==
    /\ HeadCommand(a, "stop")
    /\ Head(cmds[a]).outcome = "rejected" \/ run[a] \notin {Head(cmds[a]).task, NoTask}
    /\ Reject(a)
    /\ UNCHANGED <<st, assigned, handlerVars, conn, orphan, jobVars, agentVars, faults>>

\* leaseLoop: no HeartbeatAck has extended the lease, because the session is
\* gone or silent or the admin does not hold the task.
LeaseExpires(a) ==
    /\ phase[a] = "running"
    /\ conn[a] # "up" \/ ~OwnsActiveTask(a, run[a]) \/ "silent" \in Events
    /\ CancelTask(a)
    /\ UNCHANGED <<taskVars, handlerVars, registryVars, sessionVars, jobVars, run, outbox,
                   fresh, faults>>

\* executeTask: the runner returns and the final report is offered.
RunnerReturns(a) ==
    /\ phase[a] \in {"running", "cancelled"}
    /\ phase' = [phase EXCEPT ![a] = "reporting"]
    /\ outbox' = [outbox EXCEPT ![a] = @ \cup {run[a]}]
    /\ UNCHANGED <<taskVars, handlerVars, registryVars, sessionVars, jobVars, run, fresh,
                   faults>>

\* executeTask: the report is acknowledged or TaskReportTimeout has passed;
\* the task slot is free again.
FreeSlot(a) ==
    /\ phase[a] = "reporting"
    /\ run' = [run EXCEPT ![a] = NoTask]
    /\ phase' = [phase EXCEPT ![a] = "idle"]
    /\ UNCHANGED <<taskVars, handlerVars, registryVars, sessionVars, jobVars, outbox, fresh,
                   faults>>

\* The process dies with everything it held; what it had not acknowledged
\* will be sent again.
Crash(a) ==
    /\ conn[a] # "dead" /\ job[a].pc = "idle"
    /\ Fault("crash")
    /\ conn' = [conn EXCEPT ![a] = "dead"]
    /\ orphan' = [orphan EXCEPT ![a] = FALSE]
    /\ IF cmds[a] # <<>> /\ Head(cmds[a]).outcome # "none"
         THEN Confirm(a) ELSE UNCHANGED cmds
    /\ run' = [run EXCEPT ![a] = NoTask]
    /\ phase' = [phase EXCEPT ![a] = "idle"]
    /\ outbox' = [outbox EXCEPT ![a] = {}]
    /\ fresh' = [fresh EXCEPT ![a] = TRUE]
    /\ UNCHANGED <<taskVars, handlerVars, registryVars, accept, jobVars>>

Boot(a) ==
    /\ conn[a] = "dead"
    /\ conn' = [conn EXCEPT ![a] = "down"]
    /\ UNCHANGED <<taskVars, handlerVars, registryVars, orphan, cmds, accept, jobVars,
                   agentVars, faults>>

-----------------------------------------------------------------------------
HandlerStep(t) ==
    \/ StartRefused(t) \/ Assign(t) \/ SaveAssignments(t) \/ DispatchStart(t)
    \/ StartRuns(t) \/ StartFails(t) \/ FinishIfFullyReported(t) \/ FinishStops(t)
    \/ StopSchedules(t) \/ StopRollsBack(t) \/ SynthesizeOfflineReports(t) \/ StopEnds(t)
    \/ StopTimeout(t) \/ StopTimeoutEnds(t)

JobStep(p) ==
    \/ SynthesizeOne(p) \/ JobStops(p)
    \/ OnAgentRestart(p) \/ SynthesizeRestarted(p)
    \/ CheckAllLost(p) \/ (\E a \in Agents: ProbeNode(p, a))
    \/ AutoStopTask(p) \/ AutoStopFailsStart(p) \/ AutoStopBegins(p)
    \/ AutoStopSchedules(p) \/ AutoStopSynthesizes(p) \/ AutoStopEnds(p)

HealthStep == ScanAndMarkStatus \/ \E a \in Agents: OnAgentOffline(a)

HandshakeStep(a) == Register(a) \/ Welcome(a) \/ AcceptMoves(a)

CommandStep(a) ==
    \/ DropStart(a)
    \/ ExecuteStart(a) \/ ReplayStart(a) \/ RejectStart(a) \/ ExecuteStop(a) \/ RejectStop(a)

RunStep(a) == LeaseExpires(a) \/ RunnerReturns(a) \/ FreeSlot(a)

Next ==
    \/ \E t \in Tasks: StartTask(t) \/ StopTask(t) \/ HandlerStep(t) \/ DeadlinePasses(t)
    \/ HealthStep
    \/ \E p \in Jobs: JobStep(p)
    \/ \E a \in Agents:
         \/ HandshakeStep(a) \/ Heartbeat(a) \/ CommandStep(a) \/ RunStep(a)
         \/ (\E t \in Tasks: ReceiveReport(a, t))
         \/ Disconnect(a) \/ Crash(a) \/ Boot(a)

\* Goroutines run on; the agent reconnects and beats for ever; what it sends
\* while connected again and again arrives; a cancelled runner returns; the
\* timer, the lease and the health checker fire.  A user need not stop a task,
\* a task need not end by itself and a dead process need not start again.
Fairness ==
    /\ \A t \in Tasks: WF_vars(HandlerStep(t))
    /\ \A p \in Jobs: WF_vars(JobStep(p))
    /\ WF_vars(HealthStep)
    /\ \A a \in Agents:
         /\ WF_vars(HandshakeStep(a)) /\ WF_vars(Heartbeat(a))
         /\ SF_vars(CommandStep(a)) /\ SF_vars(\E t \in Tasks: ReceiveReport(a, t))
         /\ WF_vars(RunStep(a) /\ ~(phase[a] = "running" /\ phase'[a] = "reporting"))

Spec == Init /\ [][Next]_vars /\ Fairness

-----------------------------------------------------------------------------
StartPcs == {"idle", "assign", "save", "dispatch", "run", "fail", "finish", "finishStop",
             "done"}
StopPcs == {"idle", "schedule", "rollback", "synth", "toStopped"}
JobPcs == {"idle", "synthOne", "toStopped", "restarted", "synthRestart", "check", "probe",
           "failStarting", "toStopping", "schedule", "synthAll", "toFailed"}
Commands == [kind: {"start", "stop"}, task: Tasks,
             outcome: {"none", "applied", "rejected"}]
Nodes == [status: {"gone", "idle", "busy"}, task: Tasks \cup {NoTask}]
Accepts == [pc: {"idle", "move"}, task: Tasks \cup {NoTask}, kind: {"none", "real", "synth"},
            from: {"none", "running", "stopping"}]
Callbacks == [pc: JobPcs, task: Tasks \cup {NoTask}, agent: Agents \cup {NoAgent},
              todo: SUBSET Agents]

\* The types of the state; a node is either idle, busy or deleted, since the
\* scan that marks it offline deletes it in the same critical section.
TypeOK ==
    /\ st \in [Tasks -> States]
    /\ assigned \in [Tasks -> SUBSET Agents]
    /\ reports \in [Tasks -> [Agents -> {"none", "real", "synth"}]]
    /\ startPc \in [Tasks -> StartPcs]
    /\ plan \in [Tasks -> SUBSET Agents]
    /\ stopPc \in [Tasks -> StopPcs]
    /\ timer \in [Tasks -> {"off", "armed", "toStopped"}]
    /\ node \in [Agents -> Nodes]
    /\ inst \in [Agents -> Tasks \cup {NoTask}]
    /\ conn \in [Agents -> {"dead", "down", "hello", "up"}]
    /\ orphan \in [Agents -> BOOLEAN]
    /\ cmds \in [Agents -> Seq(Commands)]
    /\ accept \in [Agents -> Accepts]
    /\ job \in [Jobs -> Callbacks]
    /\ lost \in SUBSET Agents
    /\ run \in [Agents -> Tasks \cup {NoTask}]
    /\ phase \in [Agents -> {"idle", "running", "cancelled", "reporting"}]
    /\ outbox \in [Agents -> SUBSET Tasks]
    /\ fresh \in [Agents -> BOOLEAN]
    /\ faults \in Nat

\* A task is called stopped only when every agent it was given to has a
\* report, whichever of the five ways to stopped it took: a handler that found
\* the reports complete may be overtaken by any other before it transitions.
StoppedIsComplete ==
    \A t \in Tasks: st[t] = "stopped" => assigned[t] # {} /\ AllReported(t)

\* A running task all of whose agents have reported is about to be stopped:
\* some goroutine is past its decision and still has to take a transition out
\* of running, so the single active slot of the cluster is not lost for good.
Closing(t) ==
    \/ startPc[t] \in {"finish", "finishStop"}
    \/ \E a \in Agents: /\ accept[a].pc = "move" /\ accept[a].task = t
                        /\ accept[a].from = "running"
    \/ \E p \in Jobs: /\ job[p].task = t
                      /\ \/ job[p].pc \in {"check", "toStopping"}
                         \/ job[p].pc = "probe" /\ job[p].todo = {}
NoZombie ==
    \A t \in Tasks: (st[t] = "running" /\ AllReported(t)) => Closing(t)

\* While a task is active the report of an agent is never overwritten by a
\* synthetic one: a node that is declared lost, restarted or timed out after
\* its report came in keeps it.
RealReportKept ==
    [][\A t \in Tasks: \A a \in Agents:
        (reports[t][a] = "real" /\ st[t] \in ActiveStates) => reports'[t][a] = "real"]_vars

\* The handlers together keep the contract of TaskContract.
Contract == INSTANCE TaskContract WITH
    state <- st, members <- assigned,
    results <- [t \in Tasks |-> {a \in Agents: reports[t][a] # "none"}]
KeepsContract == Contract!Spec

\* A task that is starting or stopping does not stay so: every way out of
\* these states is taken or replaced by another one, and the stop timeout
\* closes what lost agents leave open.
TransientStatesEnd ==
    \A t \in Tasks: st[t] \in {"starting", "stopping"} ~> st[t] \notin {"starting", "stopping"}

\* An agent does not run a task for ever that the admin has given up: the
\* orphan stop or the lease ends it.
OrphansEnd ==
    \A t \in Tasks: \A a \in Agents:
        (st[t] \in TerminalStates /\ run[a] = t) ~> run[a] # t

\* A running task does not wait for nodes that are gone: once every agent has
\* reported or has died and been deleted, the task ends, or one of them comes
\* back.  "Agent process exits with a task ... the remaining nodes continue,
\* all lost means failed".
AllLostEnds ==
    \A t \in Tasks:
        (st[t] = "running" /\ \A a \in assigned[t]: reports[t][a] # "none" \/ conn[a] = "dead")
            ~> (st[t] # "running" \/ \E a \in Agents: conn[a] # "dead" /\ reports[t][a] = "none")
=============================================================================
