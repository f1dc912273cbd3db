------------------------- MODULE TaskLifecycleProofs -------------------------
(***************************************************************************)
(* What is proved about TaskLifecycle, for every number of tasks, agents   *)
(* and faults and for every choice of Events:                              *)
(*                                                                         *)
(*   LifecycleTypeCorrect, LifecycleStoppedIsComplete                      *)
(*       from LifeInv /\ RejectKept: a goroutine that has decided that a   *)
(*       task is over stays right about it until it takes its transition;  *)
(*   LifecycleKeepsContract                                                *)
(*       every step is a step of TaskContract, or changes nothing there;   *)
(*   LifecycleNoZombie                                                     *)
(*       from NoWayBack, which says that a task is not rolled back from    *)
(*       stopping to running (see the theorem);                            *)
(*   LifecycleRealReportKept                                               *)
(*       from ReportInv: an agent runs a task once, and the agent that     *)
(*       has run the active task has none of its commands to reject.       *)
(*                                                                         *)
(* Every part begins with its invariant, then the lemmas about the pieces  *)
(* the actions share, then one lemma for each group of actions of Next.    *)
(***************************************************************************)
EXTENDS TaskLifecycle, SequenceTheorems, TLAPS

-----------------------------------------------------------------------------
\* The invariant behind the end of a task.

\* Every agent the task was given to has a report, and there is such an agent.
Complete(t) == assigned[t] # {} /\ AllReported(t)

\* The slot of the agent names a task as long as executeTask has not freed it.
SlotHeld == \A a \in Agents: phase[a] # "idle" => run[a] \in Tasks

\* How far handleStartTask is tells what the task looks like: its members are
\* chosen once, are not empty when the task runs, and nothing but the
\* background half takes it out of starting into running.
StartsInOrder ==
    \A t \in Tasks:
        /\ startPc[t] = "idle" <=> st[t] = "pending"
        /\ startPc[t] \in {"assign", "save", "dispatch", "run"}
             => st[t] \in {"starting", "failed"}
        /\ startPc[t] \in {"idle", "assign", "save"} => assigned[t] = {}
        /\ startPc[t] = "save" => plan[t] # {}
        /\ startPc[t] \in {"dispatch", "run", "finish", "finishStop"} => assigned[t] # {}
        /\ st[t] \in {"running", "stopping", "stopped"} => assigned[t] # {}
        /\ stopPc[t] # "idle" => assigned[t] # {}

\* Whoever has decided that a task is over, and has not taken the transition
\* yet, stays right about it.
DecisionsHold ==
    /\ \A t \in Tasks:
         (\/ st[t] = "stopped" \/ startPc[t] = "finishStop"
          \/ stopPc[t] = "toStopped" \/ timer[t] = "toStopped") => Complete(t)
    /\ \A a \in Agents: accept[a].pc = "move" =>
         /\ accept[a].task \in Tasks /\ accept[a].from \in {"running", "stopping"}
         /\ Complete(accept[a].task)
    /\ \A p \in Jobs:
         /\ job[p].pc # "idle" => job[p].task \in Tasks
         /\ job[p].pc = "toStopped" => Complete(job[p].task)
         /\ job[p].pc \in {"synthOne", "synthRestart"}
              => job[p].agent \in assigned[job[p].task]

\* While a rejected command waits for its report to be settled, it is the
\* first of its session; a session that is being set up settles nothing.
RejectKept ==
    \A a \in Agents:
        /\ conn[a] = "hello" => accept[a].pc = "idle"
        /\ (conn[a] = "up" /\ accept[a].pc = "move" /\ accept[a].kind = "synth")
             => cmds[a] # <<>> /\ cmds[a][1].outcome = "rejected"

LifeInv == TypeOK /\ SlotHeld /\ StartsInOrder /\ DecisionsHold

-----------------------------------------------------------------------------
\* What the shared pieces of the handlers do to the state.

USE NamesAssumption, EventsAssumption

\* Records keep their type when one field changes.
LEMMA CommandRecord ==
    ASSUME NEW c \in Commands
    PROVE  /\ c.task \in Tasks
           /\ \A o \in {"applied", "rejected"}: [c EXCEPT !.outcome = o] \in Commands
BY DEF Commands

LEMMA NewCommand ==
    ASSUME NEW kind \in {"start", "stop"}, NEW t \in Tasks
    PROVE  [kind |-> kind, task |-> t, outcome |-> "none"] \in Commands
BY DEF Commands

LEMMA NodeRecord ==
    /\ Gone \in Nodes
    /\ \A t \in Tasks \cup {NoTask}: NodeOf(t) \in Nodes
BY DEF Nodes, Gone, NodeOf

LEMMA NodeTask == ASSUME NEW n \in Nodes PROVE n.task \in Tasks \cup {NoTask}
BY DEF Nodes

LEMMA CallbackRecord ==
    /\ NoJob \in Callbacks
    /\ \A j \in Callbacks: /\ j.task \in Tasks \cup {NoTask}
                           /\ j.todo \in SUBSET Agents
                           /\ \A pc \in JobPcs: [j EXCEPT !.pc = pc] \in Callbacks
                           /\ \A S \in SUBSET Agents: [j EXCEPT !.todo = S] \in Callbacks
    /\ \A pc \in JobPcs, t \in Tasks, a \in Agents \cup {NoAgent}:
         [pc |-> pc, task |-> t, agent |-> a, todo |-> {}] \in Callbacks
BY DEF Callbacks, NoJob, JobPcs

LEMMA CallbackFields ==
    ASSUME NEW j \in Callbacks, NEW x
    PROVE  /\ [j EXCEPT !.pc = x].pc = x /\ [j EXCEPT !.pc = x].task = j.task
           /\ [j EXCEPT !.pc = x].agent = j.agent /\ [j EXCEPT !.pc = x].todo = j.todo
           /\ [j EXCEPT !.todo = x].pc = j.pc /\ [j EXCEPT !.todo = x].task = j.task
           /\ [j EXCEPT !.todo = x].todo = x
BY DEF Callbacks

LEMMA AcceptRecord ==
    /\ NoAccept \in Accepts
    /\ \A x \in Accepts: x.task \in Tasks \cup {NoTask} /\ x.from \in {"none", "running", "stopping"}
    /\ \A t \in Tasks, kind \in {"real", "synth"}, from \in {"running", "stopping"}:
         [pc |-> "move", task |-> t, kind |-> kind, from |-> from] \in Accepts
BY DEF Accepts, NoAccept

LEMMA CasStep ==
    ASSUME TypeOK, NEW t \in Tasks, NEW from \in States, NEW to \in States, Cas(t, from, to)
    PROVE  /\ st' \in [Tasks -> States]
           /\ st[t] = from => st'[t] = to
           /\ \A u \in Tasks: st'[u] = st[u] \/ (u = t /\ st[u] = from /\ st'[u] = to)
BY DEF Cas, TypeOK

LEMMA SynthesizeStep ==
    ASSUME TypeOK, NEW t \in Tasks, NEW S, Synthesize(t, S)
    PROVE  /\ reports' \in [Tasks -> [Agents -> {"none", "real", "synth"}]]
           /\ \A u \in Tasks, a \in Agents: reports[u][a] # "none" => reports'[u][a] = reports[u][a]
           /\ \A u \in Tasks: u # t => reports'[u] = reports[u]
           /\ \A a \in Agents:
                reports'[t][a] = IF a \in S /\ reports[t][a] = "none" THEN "synth"
                                                                    ELSE reports[t][a]
BY DEF Synthesize, TypeOK

LEMMA ScheduleType ==
    ASSUME TypeOK, NEW t \in Tasks, NEW S, NEW kind \in {"start", "stop"}, Schedule(kind, t, S)
    PROVE  cmds' \in [Agents -> Seq(Commands)]
<1> DEFINE c == [kind |-> kind, task |-> t, outcome |-> "none"]
           Add(q) == IF q # <<>> /\ q[Len(q)] = c THEN q ELSE Append(q, c)
<1>1. c \in Commands
  BY NewCommand
<1>2. \A q \in Seq(Commands): Add(q) \in Seq(Commands)
  BY <1>1
<1>3. cmds' = [a \in Agents |-> IF a \in S THEN Add(cmds[a]) ELSE cmds[a]]
  BY DEF Schedule
<1> HIDE DEF Add
<1> QED BY <1>2, <1>3 DEF TypeOK

LEMMA ConfirmType ==
    ASSUME TypeOK, NEW a \in Agents, cmds[a] # <<>>, Confirm(a)
    PROVE  cmds' \in [Agents -> Seq(Commands)]
BY DEF TypeOK, Confirm

LEMMA KeepType ==
    ASSUME TypeOK, NEW a \in Agents, cmds[a] # <<>>,
           NEW outcome \in {"applied", "rejected"}, Keep(a, outcome)
    PROVE  cmds' \in [Agents -> Seq(Commands)]
<1>1. cmds[a] \in Seq(Commands) /\ 1 \in 1..Len(cmds[a]) /\ cmds[a][1] \in Commands
  BY DEF TypeOK
<1>2. [cmds[a][1] EXCEPT !.outcome = outcome] \in Commands
  BY <1>1, CommandRecord
<1>3. cmds' = [cmds EXCEPT ![a] = [cmds[a] EXCEPT ![1] = [cmds[a][1] EXCEPT !.outcome = outcome]]]
  BY <1>1 DEF Keep, TypeOK
<1>4. [cmds[a] EXCEPT ![1] = [cmds[a][1] EXCEPT !.outcome = outcome]] \in Seq(Commands)
  BY <1>1, <1>2
<1> QED BY <1>3, <1>4 DEF TypeOK

LEMMA HeadType ==
    ASSUME TypeOK, NEW a \in Agents, cmds[a] # <<>>
    PROVE  Head(cmds[a]) \in Commands /\ Head(cmds[a]).task \in Tasks /\ Head(cmds[a]) = cmds[a][1]
<1>1. Head(cmds[a]) \in Commands /\ Head(cmds[a]) = cmds[a][1]
  BY DEF TypeOK
<1> QED BY <1>1, CommandRecord

LEMMA GotoStep ==
    ASSUME TypeOK, NEW p \in Jobs, NEW pc \in JobPcs, Goto(p, pc)
    PROVE  /\ job' \in [Jobs -> Callbacks]
           /\ job'[p].pc = pc /\ job'[p].task = job[p].task
           /\ job'[p].agent = job[p].agent /\ job'[p].todo = job[p].todo
           /\ \A q \in Jobs: q # p => job'[q] = job[q]
<1> DEFINE r == [job[p] EXCEPT !.pc = pc]
<1>1. job' = [job EXCEPT ![p] = r] /\ job[p] \in Callbacks
  BY DEF Goto, TypeOK
<1>2. r \in Callbacks
  BY <1>1, CallbackRecord
<1>3. r.pc = pc /\ r.task = job[p].task /\ r.agent = job[p].agent /\ r.todo = job[p].todo
  BY <1>1, CallbackFields
<1> HIDE DEF r
<1> QED BY <1>1, <1>2, <1>3 DEF TypeOK

LEMMA EndJobStep ==
    ASSUME TypeOK, NEW p \in Jobs, EndJob(p)
    PROVE  /\ job' \in [Jobs -> Callbacks]
           /\ job'[p] = NoJob
           /\ \A q \in Jobs: q # p => job'[q] = job[q]
BY CallbackRecord DEF EndJob, TypeOK

\* Accept records a report of a member, and decides only on a complete task.
LEMMA AcceptStep ==
    ASSUME TypeOK, NEW a \in Agents, NEW t \in Tasks, NEW kind \in {"real", "synth"},
           accept[a].pc = "idle", Accept(a, t, kind)
    PROVE  /\ reports' \in [Tasks -> [Agents -> {"none", "real", "synth"}]]
           /\ node' \in [Agents -> Nodes]
           /\ inst' \in [Agents -> Tasks \cup {NoTask}]
           /\ accept' \in [Agents -> Accepts]
           /\ \A u \in Tasks, b \in Agents:
                \/ reports'[u][b] = reports[u][b]
                \/ u = t /\ b = a /\ a \in assigned[t] /\ reports'[u][b] = kind
           /\ \A b \in Agents: b # a => accept'[b] = accept[b]
           /\ accept'[a] = accept[a]
              \/ /\ accept'[a].pc = "move" /\ accept'[a].task = t /\ accept'[a].from = st[t]
                 /\ accept'[a].kind = kind
                 /\ st[t] \in {"running", "stopping"} /\ a \in assigned[t]
                 /\ \A b \in assigned[t] \ {a}: reports[t][b] # "none"
                 /\ reports'[t][a] = kind
<1>1. CASE a \notin assigned[t]
  BY <1>1 DEF Accept, TypeOK
<1>2. CASE a \in assigned[t]
  <2>1. /\ reports' = [reports EXCEPT ![t][a] = kind]
        /\ CompleteTask(a, t)
        /\ accept' = IF (\A b \in assigned[t] \ {a}: reports[t][b] # "none")
                          /\ st[t] \in {"running", "stopping"}
                       THEN [accept EXCEPT ![a] = [pc |-> "move", task |-> t,
                                                   kind |-> kind, from |-> st[t]]]
                       ELSE accept
    BY <1>2 DEF Accept
  <2>2. /\ node' \in [Agents -> Nodes]
        /\ inst' \in [Agents -> Tasks \cup {NoTask}]
    <3>1. NodeOf(NoTask) \in Nodes
      BY NodeRecord
    <3>2. CASE node[a].task = t
      <4>1. node' = [node EXCEPT ![a] = NodeOf(NoTask)] /\ inst' = [inst EXCEPT ![a] = NoTask]
        BY <2>1, <3>2 DEF CompleteTask
      <4>2. node \in [Agents -> Nodes] /\ inst \in [Agents -> Tasks \cup {NoTask}]
        BY DEF TypeOK
      <4> QED BY <3>1, <4>1, <4>2
    <3>3. CASE node[a].task # t
      BY <2>1, <3>3 DEF CompleteTask, TypeOK
    <3> QED BY <3>2, <3>3
  <2>3. /\ reports' \in [Tasks -> [Agents -> {"none", "real", "synth"}]]
        /\ reports'[t][a] = kind
        /\ \A u \in Tasks, b \in Agents:
                reports'[u][b] = reports[u][b] \/ (u = t /\ b = a /\ reports'[u][b] = kind)
    BY <2>1 DEF TypeOK
  <2>4. accept' \in [Agents -> Accepts]
    BY <2>1, AcceptRecord DEF TypeOK
  <2>5. \A b \in Agents: b # a => accept'[b] = accept[b]
    BY <2>1 DEF TypeOK
  <2>6. \/ accept'[a] = accept[a]
        \/ /\ accept'[a].pc = "move" /\ accept'[a].task = t /\ accept'[a].from = st[t]
           /\ accept'[a].kind = kind
           /\ st[t] \in {"running", "stopping"}
           /\ \A b \in assigned[t] \ {a}: reports[t][b] # "none"
    BY <2>1 DEF TypeOK
  <2> QED BY <1>2, <2>2, <2>3, <2>4, <2>5, <2>6
<1> QED BY <1>1, <1>2

-----------------------------------------------------------------------------
\* The invariant is inductive.

\* A complete task stays complete: members are chosen once and a report is
\* never taken back.
LEMMA CompleteStays ==
    ASSUME TypeOK, assigned' = assigned,
           \A u \in Tasks, a \in Agents: reports[u][a] # "none" => reports'[u][a] # "none"
    PROVE  \A t \in Tasks: Complete(t) => Complete(t)'
BY DEF Complete, AllReported, TypeOK

\* What the steps leave alone that touch neither the tasks nor the goroutines
\* of the admin.
LEMMA AdminRests ==
    ASSUME StartsInOrder, DecisionsHold, UNCHANGED <<taskVars, handlerVars, accept, job>>
    PROVE  StartsInOrder' /\ DecisionsHold'
BY DEF StartsInOrder, DecisionsHold, Complete, AllReported, taskVars, handlerVars

LEMMA LifeInit == Init => LifeInv
<1> SUFFICES ASSUME Init PROVE LifeInv
  OBVIOUS
<1>1. TypeOK
  <2>1. /\ node \in [Agents -> Nodes] /\ accept \in [Agents -> Accepts]
        /\ job \in [Jobs -> Callbacks]
    BY NodeRecord, AcceptRecord, CallbackRecord DEF Init
  <2> QED BY <2>1 DEF Init, TypeOK, States, StartPcs, StopPcs
<1>2. SlotHeld /\ StartsInOrder /\ DecisionsHold
  BY DEF Init, SlotHeld, StartsInOrder, DecisionsHold, NoAccept, NoJob
<1> QED BY <1>1, <1>2 DEF LifeInv

\* handleStartTask and handleStopTask.
LEMMA HandlerLife ==
    ASSUME LifeInv, NEW t \in Tasks,
           StartTask(t) \/ StopTask(t) \/ HandlerStep(t)
    PROVE  LifeInv'
<1> USE DEF LifeInv
<1>1. CASE StartTask(t)
  <2>1. TypeOK' /\ SlotHeld'
    BY <1>1 DEF StartTask, TypeOK, SlotHeld, States, StartPcs, registryVars, sessionVars,
                jobVars, agentVars
  <2>2. StartsInOrder' /\ DecisionsHold'
    BY <1>1 DEF StartTask, TypeOK, StartsInOrder, DecisionsHold, Complete, AllReported,
                sessionVars, jobVars
  <2> QED BY <2>1, <2>2
<1>2. CASE StartRefused(t)
  <2> USE <1>2 DEF StartRefused
  <2>1. /\ st' \in [Tasks -> States]
        /\ \A u \in Tasks: st'[u] = st[u] \/ (u = t /\ st[u] = "starting" /\ st'[u] = "failed")
        /\ st'[t] = "failed"
    BY CasStep DEF States, StartsInOrder
  <2>2. TypeOK' /\ SlotHeld'
    BY <2>1 DEF TypeOK, SlotHeld, StartPcs, registryVars, sessionVars, jobVars, agentVars
  <2>3. StartsInOrder'
    BY <2>1 DEF TypeOK, StartsInOrder
  <2>4. DecisionsHold'
    BY <2>1 DEF TypeOK, DecisionsHold, Complete, AllReported, sessionVars, jobVars
  <2> QED BY <2>2, <2>3, <2>4
<1>3. CASE Assign(t)
  <2> USE <1>3 DEF Assign
  <2>1. plan' \in [Tasks -> SUBSET Agents] /\ plan'[t] # {} /\ \A u \in Tasks: u # t => plan'[u] = plan[u]
    BY DEF TypeOK
  <2>2. TypeOK' /\ SlotHeld'
    BY <2>1 DEF TypeOK, SlotHeld, StartPcs, taskVars, registryVars, sessionVars, jobVars, agentVars
  <2>3. StartsInOrder'
    BY <2>1 DEF TypeOK, StartsInOrder, taskVars
  <2>4. DecisionsHold'
    BY DEF TypeOK, DecisionsHold, Complete, AllReported, taskVars, sessionVars, jobVars
  <2> QED BY <2>2, <2>3, <2>4
<1>4. CASE SaveAssignments(t)
  <2> USE <1>4 DEF SaveAssignments
  <2>1. TypeOK' /\ SlotHeld'
    BY DEF TypeOK, SlotHeld, StartPcs, registryVars, sessionVars, jobVars, agentVars
  <2>2. StartsInOrder'
    BY DEF TypeOK, StartsInOrder
  <2>3. \A u \in Tasks: assigned[u] # {} => assigned'[u] = assigned[u]
    BY DEF TypeOK, StartsInOrder
  <2>4. \A u \in Tasks: Complete(u) => Complete(u)'
    BY <2>3 DEF Complete, AllReported
  <2>5. DecisionsHold'
    <3>1. \A u \in Tasks: startPc'[u] = "finishStop" => startPc[u] = "finishStop"
      BY DEF TypeOK
    <3>2. \A p \in Jobs: job[p].pc \in {"synthOne", "synthRestart"}
                           => job[p].agent \in assigned'[job[p].task]
      BY <2>3 DEF DecisionsHold
    <3> QED BY <2>4, <3>1, <3>2 DEF DecisionsHold, sessionVars, jobVars
  <2> QED BY <2>1, <2>2, <2>5
<1>5. CASE DispatchStart(t)
  <2> USE <1>5 DEF DispatchStart
  <2>1. cmds' \in [Agents -> Seq(Commands)]
    BY ScheduleType DEF TypeOK
  <2>2. faults' \in Nat
    BY DEF TypeOK, Fault
  <2>3. TypeOK' /\ SlotHeld'
    BY <2>1, <2>2 DEF TypeOK, SlotHeld, StartPcs, taskVars, registryVars, jobVars, agentVars
  <2>4. StartsInOrder'
    BY DEF TypeOK, StartsInOrder, taskVars
  <2>5. DecisionsHold'
    BY DEF TypeOK, DecisionsHold, Complete, AllReported, taskVars, jobVars
  <2> QED BY <2>3, <2>4, <2>5
<1>6. CASE StartRuns(t)
  <2> USE <1>6 DEF StartRuns
  <2>1. /\ st' \in [Tasks -> States]
        /\ \A u \in Tasks: st'[u] = st[u] \/ (u = t /\ st[u] = "starting" /\ st'[u] = "running")
        /\ st[t] = "starting" => st'[t] = "running"
    BY CasStep DEF States
  <2>2. TypeOK' /\ SlotHeld'
    BY <2>1 DEF TypeOK, SlotHeld, StartPcs, registryVars, sessionVars, jobVars, agentVars
  <2>3. StartsInOrder'
    BY <2>1 DEF TypeOK, StartsInOrder
  <2>4. DecisionsHold'
    BY <2>1 DEF TypeOK, DecisionsHold, Complete, AllReported, sessionVars, jobVars
  <2> QED BY <2>2, <2>3, <2>4
<1>7. CASE StartFails(t)
  <2> USE <1>7 DEF StartFails
  <2>1. /\ st' \in [Tasks -> States]
        /\ \A u \in Tasks: st'[u] = st[u] \/ (u = t /\ st[u] = "starting" /\ st'[u] = "failed")
    BY CasStep DEF States
  <2>2. TypeOK' /\ SlotHeld'
    BY <2>1 DEF TypeOK, SlotHeld, StartPcs, registryVars, sessionVars, jobVars, agentVars
  <2>3. StartsInOrder'
    BY <2>1 DEF TypeOK, StartsInOrder
  <2>4. DecisionsHold'
    BY <2>1 DEF TypeOK, DecisionsHold, Complete, AllReported, sessionVars, jobVars
  <2> QED BY <2>2, <2>3, <2>4
<1>8. CASE FinishIfFullyReported(t)
  <2> USE <1>8 DEF FinishIfFullyReported
  <2>1. TypeOK' /\ SlotHeld'
    BY DEF TypeOK, SlotHeld, StartPcs, taskVars, registryVars, sessionVars, jobVars, agentVars
  <2>2. StartsInOrder'
    BY DEF TypeOK, StartsInOrder, taskVars
  <2>3. startPc'[t] = "finishStop" => Complete(t)'
    BY DEF TypeOK, StartsInOrder, Complete, AllReported, taskVars
  <2>4. DecisionsHold'
    BY <2>3 DEF TypeOK, DecisionsHold, Complete, AllReported, taskVars, sessionVars, jobVars
  <2> QED BY <2>1, <2>2, <2>4
<1>9. CASE FinishStops(t)
  <2> USE <1>9 DEF FinishStops
  <2>1. /\ st' \in [Tasks -> States]
        /\ \A u \in Tasks: st'[u] = st[u] \/ (u = t /\ st[u] = "running" /\ st'[u] = "stopped")
    BY CasStep DEF States
  <2>2. TypeOK' /\ SlotHeld'
    BY <2>1 DEF TypeOK, SlotHeld, StartPcs, registryVars, sessionVars, jobVars, agentVars
  <2>3. StartsInOrder'
    BY <2>1 DEF TypeOK, StartsInOrder
  <2>4. DecisionsHold'
    BY <2>1 DEF TypeOK, DecisionsHold, Complete, AllReported, sessionVars, jobVars
  <2> QED BY <2>2, <2>3, <2>4
<1>10. CASE StopTask(t)
  <2> USE <1>10 DEF StopTask
  <2>1. TypeOK' /\ SlotHeld'
    BY DEF TypeOK, SlotHeld, States, StopPcs, registryVars, sessionVars, jobVars, agentVars
  <2>2. StartsInOrder' /\ DecisionsHold'
    BY DEF TypeOK, StartsInOrder, DecisionsHold, Complete, AllReported, sessionVars, jobVars
  <2> QED BY <2>1, <2>2
<1>11. CASE StopSchedules(t)
  <2> USE <1>11 DEF StopSchedules
  <2>1. cmds' \in [Agents -> Seq(Commands)]
    BY ScheduleType DEF TypeOK
  <2>2. faults' \in Nat
    BY DEF TypeOK, Fault
  <2>3. TypeOK' /\ SlotHeld'
    BY <2>1, <2>2 DEF TypeOK, SlotHeld, StopPcs, taskVars, registryVars, jobVars, agentVars
  <2>4. StartsInOrder'
    BY DEF TypeOK, StartsInOrder, taskVars
  <2>5. DecisionsHold'
    BY DEF TypeOK, DecisionsHold, Complete, AllReported, taskVars, jobVars
  <2> QED BY <2>3, <2>4, <2>5
<1>12. CASE StopRollsBack(t)
  <2> USE <1>12 DEF StopRollsBack
  <2>1. /\ st' \in [Tasks -> States]
        /\ \A u \in Tasks: st'[u] = st[u] \/ (u = t /\ st[u] = "stopping" /\ st'[u] = "running")
    BY CasStep DEF States
  <2>2. TypeOK' /\ SlotHeld'
    BY <2>1 DEF TypeOK, SlotHeld, StopPcs, registryVars, sessionVars, jobVars, agentVars
  <2>3. StartsInOrder'
    BY <2>1 DEF TypeOK, StartsInOrder
  <2>4. DecisionsHold'
    BY <2>1 DEF TypeOK, DecisionsHold, Complete, AllReported, sessionVars, jobVars
  <2> QED BY <2>2, <2>3, <2>4
<1>13. CASE SynthesizeOfflineReports(t)
  <2> USE <1>13 DEF SynthesizeOfflineReports
  <2>1. /\ reports' \in [Tasks -> [Agents -> {"none", "real", "synth"}]]
        /\ \A u \in Tasks, a \in Agents: reports[u][a] # "none" => reports'[u][a] # "none"
    BY SynthesizeStep
  <2>2. TypeOK' /\ SlotHeld'
    BY <2>1 DEF TypeOK, SlotHeld, StopPcs, registryVars, sessionVars, jobVars, agentVars
  <2>3. StartsInOrder'
    BY DEF TypeOK, StartsInOrder
  <2>4. \A u \in Tasks: Complete(u) => Complete(u)'
    BY <2>1, CompleteStays
  <2>5. stopPc'[t] = "toStopped" => Complete(t)'
    <3>1. assigned[t] # {}
      BY DEF StartsInOrder
    <3>2. stopPc'[t] = "toStopped" => \A a \in assigned[t]: reports'[t][a] # "none"
      BY DEF TypeOK
    <3> QED BY <3>1, <3>2 DEF Complete, AllReported
  <2>6. DecisionsHold'
    BY <2>4, <2>5 DEF TypeOK, DecisionsHold, sessionVars, jobVars
  <2> QED BY <2>2, <2>3, <2>6
<1>14. CASE StopEnds(t)
  <2> USE <1>14 DEF StopEnds
  <2>1. /\ st' \in [Tasks -> States]
        /\ \A u \in Tasks: st'[u] = st[u] \/ (u = t /\ st[u] = "stopping" /\ st'[u] = "stopped")
    BY CasStep DEF States
  <2>2. TypeOK' /\ SlotHeld'
    BY <2>1 DEF TypeOK, SlotHeld, StopPcs, registryVars, sessionVars, jobVars, agentVars
  <2>3. StartsInOrder'
    BY <2>1 DEF TypeOK, StartsInOrder
  <2>4. DecisionsHold'
    BY <2>1 DEF TypeOK, DecisionsHold, Complete, AllReported, sessionVars, jobVars
  <2> QED BY <2>2, <2>3, <2>4
<1>15. CASE StopTimeout(t)
  <2> USE <1>15 DEF StopTimeout
  <2>1. /\ reports' \in [Tasks -> [Agents -> {"none", "real", "synth"}]]
        /\ \A u \in Tasks, a \in Agents: reports[u][a] # "none" => reports'[u][a] # "none"
        /\ \A a \in Agents: a \in assigned[t] => reports'[t][a] # "none"
    BY SynthesizeStep
  <2>2. TypeOK' /\ SlotHeld'
    BY <2>1 DEF TypeOK, SlotHeld, registryVars, sessionVars, jobVars, agentVars
  <2>3. StartsInOrder'
    BY DEF TypeOK, StartsInOrder
  <2>4. \A u \in Tasks: Complete(u) => Complete(u)'
    BY <2>1, CompleteStays
  <2>5. Complete(t)'
    BY <2>1 DEF TypeOK, StartsInOrder, Complete, AllReported
  <2>6. DecisionsHold'
    BY <2>4, <2>5 DEF TypeOK, DecisionsHold, sessionVars, jobVars
  <2> QED BY <2>2, <2>3, <2>6
<1>16. CASE StopTimeoutEnds(t)
  <2> USE <1>16 DEF StopTimeoutEnds
  <2>1. /\ st' \in [Tasks -> States]
        /\ \A u \in Tasks: st'[u] = st[u] \/ (u = t /\ st[u] = "stopping" /\ st'[u] = "stopped")
    BY CasStep DEF States
  <2>2. TypeOK' /\ SlotHeld'
    BY <2>1 DEF TypeOK, SlotHeld, registryVars, sessionVars, jobVars, agentVars
  <2>3. StartsInOrder'
    BY <2>1 DEF TypeOK, StartsInOrder
  <2>4. DecisionsHold'
    BY <2>1 DEF TypeOK, DecisionsHold, Complete, AllReported, sessionVars, jobVars
  <2> QED BY <2>2, <2>3, <2>4
<1> QED
  BY <1>1, <1>2, <1>3, <1>4, <1>5, <1>6, <1>7, <1>8, <1>9, <1>10, <1>11, <1>12, <1>13,
     <1>14, <1>15, <1>16 DEF HandlerStep

\* The callbacks, the watchdog and autoStopTask.  JobMoves is what most of
\* their steps come to: one goroutine takes another place in its code and what
\* it knows of its task there is true.
LEMMA JobMoves ==
    ASSUME LifeInv, UNCHANGED <<taskVars, handlerVars, accept, conn, orphan, registryVars, agentVars>>,
           cmds' \in [Agents -> Seq(Commands)], faults' \in Nat, lost' \in SUBSET Agents,
           NEW p \in Jobs, job' \in [Jobs -> Callbacks],
           \A q \in Jobs: q # p => job'[q] = job[q],
           job'[p].pc # "idle" => job'[p].task \in Tasks,
           job'[p].pc # "toStopped",
           job'[p].pc \in {"synthOne", "synthRestart"} => job'[p].agent \in assigned[job'[p].task]
    PROVE  LifeInv'
<1> USE DEF LifeInv
<1>1. TypeOK' /\ SlotHeld'
  BY DEF TypeOK, SlotHeld, taskVars, handlerVars, registryVars, agentVars
<1>2. StartsInOrder'
  BY DEF StartsInOrder, taskVars, handlerVars
<1>3. \A t \in Tasks: Complete(t) => Complete(t)'
  BY DEF Complete, AllReported, taskVars
<1>4. /\ \A t \in Tasks:
           (\/ st'[t] = "stopped" \/ startPc'[t] = "finishStop"
            \/ stopPc'[t] = "toStopped" \/ timer'[t] = "toStopped") => Complete(t)'
      /\ \A a \in Agents: accept'[a].pc = "move" =>
           /\ accept'[a].task \in Tasks /\ accept'[a].from \in {"running", "stopping"}
           /\ Complete(accept[a].task)'
  BY <1>3 DEF DecisionsHold, taskVars, handlerVars
<1>5. \A q \in Jobs:
         /\ job'[q].pc # "idle" => job'[q].task \in Tasks
         /\ job'[q].pc = "toStopped" => Complete(job[q].task)'
         /\ job'[q].pc \in {"synthOne", "synthRestart"}
              => job'[q].agent \in assigned'[job'[q].task]
  <2> TAKE q \in Jobs
  <2>1. CASE q = p
    BY <2>1 DEF taskVars
  <2>2. CASE q # p
    <3>1. job'[q] = job[q] /\ assigned' = assigned /\ reports' = reports
      BY <2>2 DEF taskVars
    <3> QED BY <3>1 DEF DecisionsHold, Complete, AllReported
  <2> QED BY <2>1, <2>2
<1>6. DecisionsHold'
  BY <1>4, <1>5 DEF DecisionsHold
<1> QED BY <1>1, <1>2, <1>6

\* A callback or autoStopTask takes a transition of its task and ends or goes
\* on; none of these transitions leads to stopped.
LEMMA JobCas ==
    ASSUME LifeInv, NEW p \in Jobs, NEW from \in States, NEW to \in States,
           <<from, to>> \in {<<"starting", "failed">>, <<"running", "stopping">>,
                             <<"stopping", "failed">>, <<"stopping", "stopped">>},
           to = "stopped" => Complete(job[p].task),
           job[p].task \in Tasks, Cas(job[p].task, from, to),
           EndJob(p) \/ Goto(p, "schedule"),
           UNCHANGED <<assigned, reports, handlerVars, registryVars, sessionVars, lost,
                       agentVars, faults>>
    PROVE  LifeInv'
<1> USE DEF LifeInv
<1> DEFINE t == job[p].task
<1>1. /\ st' \in [Tasks -> States]
      /\ \A u \in Tasks: st'[u] = st[u] \/ (u = t /\ st[u] = from /\ st'[u] = to)
  BY CasStep
<1>2. /\ job' \in [Jobs -> Callbacks]
      /\ \A q \in Jobs: q # p => job'[q] = job[q]
      /\ job'[p] = NoJob \/ (job'[p].pc = "schedule" /\ job'[p].task = t)
  BY EndJobStep, GotoStep DEF JobPcs
<1>3. /\ job'[p].pc \in {"idle", "schedule"}
      /\ job'[p].pc = "schedule" => job'[p].task = t
  BY <1>2 DEF NoJob, TypeOK, Callbacks
<1>4. TypeOK' /\ SlotHeld'
  BY <1>1, <1>2 DEF TypeOK, SlotHeld, handlerVars, registryVars, sessionVars, agentVars
<1>5. StartsInOrder'
  BY <1>1 DEF StartsInOrder, handlerVars
<1>6. \A u \in Tasks: Complete(u) => Complete(u)'
  BY DEF Complete, AllReported
<1>7. /\ \A u \in Tasks:
           (\/ st'[u] = "stopped" \/ startPc'[u] = "finishStop"
            \/ stopPc'[u] = "toStopped" \/ timer'[u] = "toStopped") => Complete(u)'
      /\ \A a \in Agents: accept'[a].pc = "move" =>
           /\ accept'[a].task \in Tasks /\ accept'[a].from \in {"running", "stopping"}
           /\ Complete(accept[a].task)'
  BY <1>1, <1>6 DEF DecisionsHold, handlerVars, sessionVars
<1>8. \A q \in Jobs:
         /\ job'[q].pc # "idle" => job'[q].task \in Tasks
         /\ job'[q].pc = "toStopped" => Complete(job[q].task)'
         /\ job'[q].pc \in {"synthOne", "synthRestart"}
              => job'[q].agent \in assigned'[job'[q].task]
  <2> TAKE q \in Jobs
  <2>1. CASE q = p
    BY <1>3, <2>1
  <2>2. CASE q # p
    <3>1. job'[q] = job[q]
      BY <1>2, <2>2
    <3> QED BY <3>1 DEF DecisionsHold, Complete, AllReported
  <2> QED BY <2>1, <2>2
<1>9. DecisionsHold'
  BY <1>7, <1>8 DEF DecisionsHold
<1> QED BY <1>4, <1>5, <1>9

\* A callback or autoStopTask writes the missing reports of some members.
LEMMA JobSynthesizes ==
    ASSUME LifeInv, NEW p \in Jobs, job[p].task \in Tasks, NEW S, Synthesize(job[p].task, S),
           \/ EndJob(p)
           \/ \E pc \in {"check", "toFailed"}: Goto(p, pc)
           \/ /\ Goto(p, "toStopped") /\ assigned[job[p].task] # {}
              /\ \A a \in assigned[job[p].task]: reports'[job[p].task][a] # "none",
           UNCHANGED <<st, assigned, handlerVars, registryVars, sessionVars, lost,
                       agentVars, faults>>
    PROVE  LifeInv'
<1> USE DEF LifeInv
<1> DEFINE t == job[p].task
<1>1. /\ reports' \in [Tasks -> [Agents -> {"none", "real", "synth"}]]
      /\ \A u \in Tasks, a \in Agents: reports[u][a] # "none" => reports'[u][a] # "none"
  BY SynthesizeStep
<1>2. /\ job' \in [Jobs -> Callbacks]
      /\ \A q \in Jobs: q # p => job'[q] = job[q]
      /\ \/ job'[p] = NoJob
         \/ job'[p].pc \in {"check", "toFailed"} /\ job'[p].task = t
         \/ /\ job'[p].pc = "toStopped" /\ job'[p].task = t
            /\ assigned[t] # {} /\ \A a \in assigned[t]: reports'[t][a] # "none"
  BY EndJobStep, GotoStep DEF JobPcs
<1>3. /\ job'[p].pc \in {"idle", "check", "toFailed", "toStopped"}
      /\ job'[p].pc # "idle" => job'[p].task = t
      /\ job'[p].pc = "toStopped" => Complete(t)'
  BY <1>2 DEF NoJob, TypeOK, Callbacks, Complete, AllReported
<1>4. TypeOK' /\ SlotHeld'
  BY <1>1, <1>2 DEF TypeOK, SlotHeld, handlerVars, registryVars, sessionVars, agentVars
<1>5. StartsInOrder'
  BY DEF StartsInOrder, handlerVars
<1>6. \A u \in Tasks: Complete(u) => Complete(u)'
  BY <1>1, CompleteStays
<1>7. /\ \A u \in Tasks:
           (\/ st'[u] = "stopped" \/ startPc'[u] = "finishStop"
            \/ stopPc'[u] = "toStopped" \/ timer'[u] = "toStopped") => Complete(u)'
      /\ \A a \in Agents: accept'[a].pc = "move" =>
           /\ accept'[a].task \in Tasks /\ accept'[a].from \in {"running", "stopping"}
           /\ Complete(accept[a].task)'
  BY <1>6 DEF DecisionsHold, handlerVars, sessionVars
<1>8. \A q \in Jobs:
         /\ job'[q].pc # "idle" => job'[q].task \in Tasks
         /\ job'[q].pc = "toStopped" => Complete(job[q].task)'
         /\ job'[q].pc \in {"synthOne", "synthRestart"}
              => job'[q].agent \in assigned'[job'[q].task]
  <2> TAKE q \in Jobs
  <2>1. CASE q = p
    BY <1>3, <2>1 DEF Complete, AllReported
  <2>2. CASE q # p
    <3>1. job'[q] = job[q]
      BY <1>2, <2>2
    <3>2. CASE job[q].pc = "toStopped"
      <4>1. job[q].task \in Tasks /\ Complete(job[q].task)
        BY <3>2 DEF DecisionsHold
      <4>2. Complete(job[q].task)'
        BY <1>1, <3>1, <4>1 DEF Complete, AllReported, TypeOK
      <4> QED BY <3>1, <3>2, <4>1, <4>2
    <3>3. CASE job[q].pc # "toStopped"
      BY <3>1, <3>3 DEF DecisionsHold
    <3> QED BY <3>2, <3>3
  <2> QED BY <2>1, <2>2
<1>9. DecisionsHold'
  BY <1>7, <1>8 DEF DecisionsHold
<1> QED BY <1>4, <1>5, <1>9

LEMMA JobLife ==
    ASSUME LifeInv, NEW p \in Jobs, JobStep(p)
    PROVE  LifeInv'
<1> USE DEF LifeInv
<1> DEFINE t == job[p].task
<1>1. /\ job[p] \in Callbacks
      /\ job[p].pc # "idle" => t \in Tasks
  BY DEF TypeOK, DecisionsHold
<1>2. ASSUME NEW pc \in JobPcs, Goto(p, pc)
      PROVE  job'[p].pc = pc /\ job'[p].task = t /\ job'[p].agent = job[p].agent
  BY <1>2, GotoStep
<1>3. ASSUME EndJob(p)
      PROVE  job'[p].pc = "idle"
  BY <1>3, EndJobStep DEF NoJob
<1>4. CASE SynthesizeOne(p)
  BY <1>1, <1>4, JobSynthesizes DEF SynthesizeOne, DecisionsHold
<1>5. CASE JobStops(p)
  BY <1>1, <1>5, JobCas DEF JobStops, DecisionsHold, States
<1>6. CASE OnAgentRestart(p)
  <2> USE <1>6 DEF OnAgentRestart
  <2>1. /\ job' \in [Jobs -> Callbacks]
        /\ \A q \in Jobs: q # p => job'[q] = job[q]
        /\ \/ job'[p].pc = "idle"
           \/ /\ job'[p].pc = "synthRestart" /\ job'[p].task = t
              /\ job'[p].agent = job[p].agent /\ job[p].agent \in assigned[t]
    BY <1>2, <1>3, GotoStep, EndJobStep DEF JobPcs
  <2> QED BY <1>1, <2>1, JobMoves DEF TypeOK, sessionVars
<1>7. CASE SynthesizeRestarted(p)
  BY <1>1, <1>7, JobSynthesizes DEF SynthesizeRestarted
<1>8. CASE CheckAllLost(p)
  <2> USE <1>8 DEF CheckAllLost
  <2> DEFINE todo == {a \in assigned[t]: reports[t][a] = "none"}
  <2>1. /\ job' \in [Jobs -> Callbacks]
        /\ \A q \in Jobs: q # p => job'[q] = job[q]
        /\ \/ job'[p].pc = "idle"
           \/ job'[p].pc = "probe" /\ job'[p].task = t
    <3>1. CASE st[t] \in ActiveStates
      <4> DEFINE r == [[job[p] EXCEPT !.pc = "probe"] EXCEPT !.todo = todo]
      <4>1. job' = [job EXCEPT ![p] = r]
        BY <3>1 DEF TypeOK
      <4>2. todo \in SUBSET Agents
        BY <1>1 DEF TypeOK
      <4>3. [job[p] EXCEPT !.pc = "probe"] \in Callbacks
        BY <1>1, CallbackRecord DEF JobPcs
      <4>4. r \in Callbacks
        BY <4>2, <4>3, CallbackRecord
      <4>5. r.pc = "probe" /\ r.task = t
        BY <1>1, <4>3, CallbackFields
      <4> HIDE DEF r
      <4> QED BY <4>1, <4>4, <4>5 DEF TypeOK
    <3>2. CASE st[t] \notin ActiveStates
      BY <1>3, <3>2, EndJobStep
    <3> QED BY <3>1, <3>2
  <2> HIDE DEF todo
  <2> QED BY <1>1, <2>1, JobMoves DEF TypeOK, sessionVars
<1>9. ASSUME NEW a \in Agents, ProbeNode(p, a)
      PROVE  LifeInv'
  <2> USE <1>9 DEF ProbeNode
  <2>1. /\ job' \in [Jobs -> Callbacks]
        /\ \A q \in Jobs: q # p => job'[q] = job[q]
        /\ \/ job'[p].pc = "idle"
           \/ job'[p].pc = "probe" /\ job'[p].task = t
    <3>1. CASE node[a].task = t
      BY <1>3, <3>1, EndJobStep
    <3>2. CASE node[a].task # t
      <4> DEFINE rest == job[p].todo \ {a}
      <4>1. job' = [job EXCEPT ![p] = [job[p] EXCEPT !.todo = rest]]
        BY <3>2 DEF TypeOK
      <4>2. [job[p] EXCEPT !.todo = rest] \in Callbacks
        BY <1>1, CallbackRecord
      <4>3. [job[p] EXCEPT !.todo = rest].pc = "probe" /\ [job[p] EXCEPT !.todo = rest].task = t
        BY <1>1, CallbackFields
      <4> HIDE DEF rest
      <4> QED BY <4>1, <4>2, <4>3 DEF TypeOK
    <3> QED BY <3>1, <3>2
  <2> QED BY <1>1, <2>1, JobMoves DEF TypeOK, sessionVars
<1>10. CASE AutoStopTask(p)
  <2> USE <1>10 DEF AutoStopTask
  <2>1. EndJob(p) \/ \E pc \in {"failStarting", "toStopping", "schedule"}: Goto(p, pc)
    OBVIOUS
  <2>2. /\ job' \in [Jobs -> Callbacks]
        /\ \A q \in Jobs: q # p => job'[q] = job[q]
        /\ job'[p].pc \in {"idle", "failStarting", "toStopping", "schedule"}
        /\ job'[p].pc # "idle" => job'[p].task = t
    BY <1>2, <1>3, <2>1, GotoStep, EndJobStep DEF JobPcs
  <2> QED BY <1>1, <2>2, JobMoves DEF TypeOK, sessionVars
<1>11. CASE AutoStopFailsStart(p)
  BY <1>1, <1>11, JobCas DEF AutoStopFailsStart, States
<1>12. CASE AutoStopBegins(p)
  BY <1>1, <1>12, JobCas DEF AutoStopBegins, States
<1>13. CASE AutoStopSchedules(p)
  <2> USE <1>13 DEF AutoStopSchedules
  <2>1. cmds' \in [Agents -> Seq(Commands)]
    BY <1>1, ScheduleType DEF TypeOK
  <2>2. faults' \in Nat
    BY DEF TypeOK, Fault
  <2>3. /\ job' \in [Jobs -> Callbacks]
        /\ \A q \in Jobs: q # p => job'[q] = job[q]
        /\ job'[p].pc = "synthAll" /\ job'[p].task = t
    BY <1>2, GotoStep DEF JobPcs
  <2> QED BY <1>1, <2>1, <2>2, <2>3, JobMoves DEF TypeOK
<1>14. CASE AutoStopSynthesizes(p)
  BY <1>1, <1>14, JobSynthesizes DEF AutoStopSynthesizes
<1>15. CASE AutoStopEnds(p)
  BY <1>1, <1>15, JobCas DEF AutoStopEnds, States
<1> QED
  BY <1>4, <1>5, <1>6, <1>7, <1>8, <1>9, <1>10, <1>11, <1>12, <1>13, <1>14, <1>15 DEF JobStep

\* The health checker and the watchdog start a callback.
LEMMA HealthLife ==
    ASSUME LifeInv, HealthStep \/ \E t \in Tasks: DeadlinePasses(t)
    PROVE  LifeInv'
<1> USE DEF LifeInv
<1>1. CASE ScanAndMarkStatus
  <2> USE <1>1 DEF ScanAndMarkStatus
  <2>1. PICK S \in SUBSET Agents:
          /\ lost' = S
          /\ node' = [a \in Agents |-> IF a \in S THEN Gone ELSE node[a]]
          /\ faults' = faults \/ Fault("silent")
    OBVIOUS
  <2>2. node' \in [Agents -> Nodes] /\ faults' \in Nat
    BY <2>1, NodeRecord DEF TypeOK, Fault
  <2>3. TypeOK' /\ SlotHeld'
    BY <2>1, <2>2 DEF TypeOK, SlotHeld, taskVars, handlerVars, sessionVars, agentVars
  <2> QED BY <2>3, AdminRests DEF sessionVars
<1>2. ASSUME NEW a \in Agents, OnAgentOffline(a)
      PROVE  LifeInv'
  <2> USE <1>2 DEF OnAgentOffline
  <2>1. lost' \in SUBSET Agents /\ Health \in Jobs
    BY DEF TypeOK, Jobs
  <2>2. CASE UNCHANGED job
    BY <2>1, <2>2, AdminRests DEF TypeOK, SlotHeld, taskVars, handlerVars, registryVars,
                                  sessionVars, agentVars
  <2>3. ASSUME NEW t \in Tasks, a \in assigned[t],
               job' = [job EXCEPT ![Health] =
                 [pc |-> IF st[t] = "stopping" THEN "synthOne" ELSE "check",
                  task |-> t, agent |-> a, todo |-> {}]]
        PROVE  LifeInv'
    <3> DEFINE pc == IF st[t] = "stopping" THEN "synthOne" ELSE "check"
               j == [pc |-> pc, task |-> t, agent |-> a, todo |-> {}]
    <3>1. j \in Callbacks /\ j.pc \in {"synthOne", "check"} /\ j.task = t /\ j.agent = a
      BY CallbackRecord DEF JobPcs
    <3>2. job' = [job EXCEPT ![Health] = j]
      BY <2>3
    <3> HIDE DEF j
    <3>3. /\ job' \in [Jobs -> Callbacks] /\ job'[Health] = j
          /\ \A q \in Jobs: q # Health => job'[q] = job[q]
      BY <2>1, <3>1, <3>2 DEF TypeOK
    <3> QED BY <2>1, <2>3, <3>1, <3>3, JobMoves DEF TypeOK, sessionVars
  <2> QED BY <2>2, <2>3
<1>3. ASSUME NEW t \in Tasks, DeadlinePasses(t)
      PROVE  LifeInv'
  <2> DEFINE j == [pc |-> "probe", task |-> t, agent |-> NoAgent, todo |-> {}]
  <2>1. j \in Callbacks /\ j.pc = "probe" /\ j.task = t
    BY CallbackRecord DEF JobPcs
  <2>2. job' = [job EXCEPT ![Watchdog] = j] /\ Watchdog \in Jobs
    BY <1>3 DEF DeadlinePasses, Jobs
  <2> HIDE DEF j
  <2>3. /\ job' \in [Jobs -> Callbacks] /\ job'[Watchdog] = j
        /\ \A q \in Jobs: q # Watchdog => job'[q] = job[q]
    BY <2>1, <2>2 DEF TypeOK
  <2> QED BY <1>3, <2>1, <2>2, <2>3, JobMoves DEF DeadlinePasses, TypeOK, sessionVars
<1> QED BY <1>1, <1>2, <1>3 DEF HealthStep

\* The control sessions and the agent processes.
LEMMA SessionLife ==
    ASSUME LifeInv, RejectKept, NEW a \in Agents,
           \/ HandshakeStep(a) \/ Heartbeat(a) \/ CommandStep(a) \/ RunStep(a)
           \/ (\E t \in Tasks: ReceiveReport(a, t))
           \/ Disconnect(a) \/ Crash(a) \/ Boot(a)
    PROVE  LifeInv'
<1> USE DEF LifeInv
<1> DEFINE c == Head(cmds[a])
\* Two facts for the steps below: registering a node, recording a report.
<1>1. run[a] \in Tasks \cup {NoTask} /\ NodeOf(run[a]) \in Nodes /\ NodeOf(NoTask) \in Nodes
  BY NodeRecord DEF TypeOK
<1>2. ASSUME NEW t \in Tasks, NEW kind \in {"real", "synth"}, accept[a].pc = "idle",
             Accept(a, t, kind), UNCHANGED <<st, assigned, handlerVars, job>>
      PROVE  /\ reports' \in [Tasks -> [Agents -> {"none", "real", "synth"}]]
             /\ node' \in [Agents -> Nodes] /\ inst' \in [Agents -> Tasks \cup {NoTask}]
             /\ accept' \in [Agents -> Accepts]
             /\ StartsInOrder' /\ DecisionsHold'
  <2>1. /\ reports' \in [Tasks -> [Agents -> {"none", "real", "synth"}]]
        /\ node' \in [Agents -> Nodes] /\ inst' \in [Agents -> Tasks \cup {NoTask}]
        /\ accept' \in [Agents -> Accepts]
        /\ \A u \in Tasks, b \in Agents: reports[u][b] # "none" => reports'[u][b] # "none"
        /\ \A b \in Agents: b # a => accept'[b] = accept[b]
    BY <1>2, AcceptStep
  <2>2. \/ accept'[a] = accept[a]
        \/ /\ accept'[a].pc = "move" /\ accept'[a].task = t /\ accept'[a].from = st[t]
           /\ st[t] \in {"running", "stopping"} /\ a \in assigned[t]
           /\ \A b \in assigned[t] \ {a}: reports[t][b] # "none"
           /\ reports'[t][a] = kind
    BY <1>2, AcceptStep
  <2>3. StartsInOrder'
    BY <1>2 DEF StartsInOrder, handlerVars
  <2>4. \A u \in Tasks: Complete(u) => Complete(u)'
    BY <1>2, <2>1, CompleteStays
  <2>5. /\ \A u \in Tasks:
             (\/ st'[u] = "stopped" \/ startPc'[u] = "finishStop"
              \/ stopPc'[u] = "toStopped" \/ timer'[u] = "toStopped") => Complete(u)'
        /\ \A p \in Jobs:
             /\ job'[p].pc # "idle" => job'[p].task \in Tasks
             /\ job'[p].pc = "toStopped" => Complete(job[p].task)'
             /\ job'[p].pc \in {"synthOne", "synthRestart"}
                  => job'[p].agent \in assigned'[job'[p].task]
    BY <1>2, <2>4 DEF DecisionsHold, handlerVars
  <2>6. \A b \in Agents: accept'[b].pc = "move" =>
           /\ accept'[b].task \in Tasks /\ accept'[b].from \in {"running", "stopping"}
           /\ Complete(accept[b].task)'
    <3> TAKE b \in Agents
    <3>1. CASE accept'[b] = accept[b]
      <4>1. accept[b].pc = "move" => accept[b].task \in Tasks /\ Complete(accept[b].task)
        BY DEF DecisionsHold
      <4>2. accept[b].pc = "move" => Complete(accept[b].task)'
        BY <1>2, <2>1, <3>1, <4>1 DEF Complete, AllReported, TypeOK
      <4> QED BY <3>1, <4>2 DEF DecisionsHold
    <3>2. CASE accept'[b] # accept[b]
      <4>1. b = a /\ accept'[b].pc = "move" /\ accept'[b].task = t /\ accept'[b].from = st[t]
        BY <2>1, <2>2, <3>2
      <4>2. a \in assigned[t] /\ \A d \in assigned[t]: reports'[t][d] # "none"
        BY <1>2, <2>1, <2>2, <3>2, <4>1 DEF TypeOK
      <4>3. Complete(accept[b].task)'
        BY <1>2, <4>1, <4>2 DEF Complete, AllReported
      <4> QED BY <2>2, <3>2, <4>1, <4>3
    <3> QED BY <3>1, <3>2
  <2>7. DecisionsHold'
    BY <2>5, <2>6 DEF DecisionsHold
  <2> QED BY <2>1, <2>3, <2>7
<1>3. ASSUME NEW kind \in {"start", "stop"}, HeadCommand(a, kind)
      PROVE  cmds[a] # <<>> /\ accept[a].pc = "idle" /\ c \in Commands /\ c.task \in Tasks
  BY <1>3, HeadType DEF HeadCommand
<1>4. CASE Register(a)
  <2> USE <1>4 DEF Register
  <2> DEFINE j == [pc |-> "restarted", task |-> inst[a], agent |-> a, todo |-> {}]
  <2>1. /\ node' \in [Agents -> Nodes] /\ inst' \in [Agents -> Tasks \cup {NoTask}]
        /\ conn' \in [Agents -> {"dead", "down", "hello", "up"}]
        /\ fresh' \in [Agents -> BOOLEAN]
    BY <1>1 DEF TypeOK
  <2>2. inst[a] # NoTask => /\ j \in Callbacks /\ inst[a] \in Tasks
                            /\ j.pc = "restarted" /\ j.task = inst[a]
    BY CallbackRecord DEF TypeOK, JobPcs
  <2>3. job' = job \/ (inst[a] # NoTask /\ job' = [job EXCEPT ![a] = j])
    OBVIOUS
  <2> HIDE DEF j
  <2>4. job' \in [Jobs -> Callbacks]
    <3>1. a \in Jobs /\ job \in [Jobs -> Callbacks]
      BY DEF Jobs, TypeOK
    <3> QED BY <2>2, <2>3, <3>1
  <2>5. TypeOK' /\ SlotHeld'
    BY <2>1, <2>4 DEF TypeOK, SlotHeld, taskVars, handlerVars
  <2>6. \A p \in Jobs: job'[p] = job[p] \/ (job'[p].pc = "restarted" /\ job'[p].task \in Tasks)
    BY <2>2, <2>3 DEF TypeOK
  <2>7. StartsInOrder'
    BY DEF StartsInOrder, taskVars, handlerVars
  <2>8. DecisionsHold'
    <3>1. assigned' = assigned /\ reports' = reports /\ st' = st /\ accept' = accept
      BY DEF taskVars
    <3>2. \A p \in Jobs:
             /\ job'[p].pc # "idle" => job'[p].task \in Tasks
             /\ job'[p].pc = "toStopped" => Complete(job[p].task)'
             /\ job'[p].pc \in {"synthOne", "synthRestart"}
                  => job'[p].agent \in assigned'[job'[p].task]
      <4> TAKE p \in Jobs
      <4>1. CASE job'[p] = job[p]
        BY <3>1, <4>1 DEF DecisionsHold, Complete, AllReported
      <4>2. CASE job'[p].pc = "restarted" /\ job'[p].task \in Tasks
        BY <4>2
      <4> QED BY <2>6, <4>1, <4>2
    <3> QED BY <3>1, <3>2 DEF DecisionsHold, Complete, AllReported, handlerVars
  <2> QED BY <2>5, <2>7, <2>8
<1>5. CASE Welcome(a)
  <2> USE <1>5 DEF Welcome
  <2>1. cmds' \in [Agents -> Seq(Commands)]
    BY ScheduleType, NodeTask DEF TypeOK
  <2>2. TypeOK' /\ SlotHeld'
    BY <2>1 DEF TypeOK, SlotHeld, taskVars, handlerVars, registryVars, jobVars, agentVars
  <2> QED BY <2>2, AdminRests DEF jobVars
<1>6. CASE AcceptMoves(a)
  <2> DEFINE t == accept[a].task
  <2> USE <1>6 DEF AcceptMoves
  <2>1. /\ t \in Tasks /\ accept[a].from \in {"running", "stopping"} /\ Complete(t)
        /\ accept[a].from \in States /\ "stopped" \in States
    BY DEF DecisionsHold, States
  <2>2. /\ st' \in [Tasks -> States]
        /\ \A u \in Tasks: st'[u] = st[u]
                           \/ (u = t /\ st[u] \in {"running", "stopping"} /\ st'[u] = "stopped")
    BY <2>1, CasStep
  <2>3. /\ accept' \in [Agents -> Accepts] /\ accept'[a].pc = "idle"
        /\ \A b \in Agents: b # a => accept'[b] = accept[b]
    BY AcceptRecord DEF TypeOK, NoAccept
  <2>4. cmds' \in [Agents -> Seq(Commands)]
    BY ConfirmType DEF TypeOK, RejectKept
  <2>5. outbox' \in [Agents -> SUBSET Tasks]
    <3>1. outbox' = outbox \/ outbox' = [outbox EXCEPT ![a] = outbox[a] \ {t}]
      BY DEF AckReport
    <3>2. outbox[a] \ {t} \in SUBSET Tasks /\ outbox \in [Agents -> SUBSET Tasks]
      BY DEF TypeOK
    <3> QED BY <3>1, <3>2
  <2>6. /\ conn' \in [Agents -> {"dead", "down", "hello", "up"}]
        /\ orphan' \in [Agents -> BOOLEAN]
    BY DEF CloseSession, TypeOK
  <2>7. TypeOK' /\ SlotHeld'
    BY <2>2, <2>3, <2>4, <2>5, <2>6 DEF TypeOK, SlotHeld, handlerVars, registryVars, jobVars
  <2>8. StartsInOrder'
    BY <2>2 DEF StartsInOrder, handlerVars
  <2>9. \A u \in Tasks: Complete(u) => Complete(u)'
    BY DEF Complete, AllReported
  <2>10. DecisionsHold'
    <3>1. \A u \in Tasks:
             (\/ st'[u] = "stopped" \/ startPc'[u] = "finishStop"
              \/ stopPc'[u] = "toStopped" \/ timer'[u] = "toStopped") => Complete(u)'
      BY <2>1, <2>2, <2>9 DEF DecisionsHold, handlerVars
    <3>2. assigned' = assigned /\ reports' = reports /\ job' = job
      BY DEF jobVars
    <3>3. \A b \in Agents: accept'[b].pc = "move" =>
             /\ accept'[b].task \in Tasks /\ accept'[b].from \in {"running", "stopping"}
             /\ Complete(accept[b].task)'
      <4> TAKE b \in Agents
      <4>1. CASE b = a
        BY <2>3, <4>1
      <4>2. CASE b # a
        <5>1. accept'[b] = accept[b]
          BY <2>3, <4>2
        <5> QED BY <3>2, <5>1 DEF DecisionsHold, Complete, AllReported
      <4> QED BY <4>1, <4>2
    <3> QED BY <3>1, <3>2, <3>3 DEF DecisionsHold, Complete, AllReported
  <2> QED BY <2>7, <2>8, <2>10
<1>7. CASE Heartbeat(a)
  <2> USE <1>7 DEF Heartbeat, NodeHeartbeat
  <2>1. /\ node' \in [Agents -> Nodes] /\ inst' \in [Agents -> Tasks \cup {NoTask}]
        /\ conn' \in [Agents -> {"dead", "down", "hello", "up"}]
        /\ orphan' \in [Agents -> BOOLEAN]
    <3>1. node \in [Agents -> Nodes] /\ inst \in [Agents -> Tasks \cup {NoTask}]
      BY DEF TypeOK
    <3>2. \/ node' = node /\ inst' = inst
          \/ node' = [node EXCEPT ![a] = NodeOf(run[a])] /\ inst' = [inst EXCEPT ![a] = run[a]]
      OBVIOUS
    <3>3. node' \in [Agents -> Nodes] /\ inst' \in [Agents -> Tasks \cup {NoTask}]
      BY <1>1, <3>1, <3>2
    <3>4. conn' \in [Agents -> {"dead", "down", "hello", "up"}] /\ orphan' \in [Agents -> BOOLEAN]
      BY DEF CloseSession, TypeOK
    <3> QED BY <3>3, <3>4
  <2>2. cmds' \in [Agents -> Seq(Commands)]
    BY <1>1, ScheduleType DEF TypeOK
  <2>3. TypeOK' /\ SlotHeld'
    BY <2>1, <2>2 DEF TypeOK, SlotHeld, taskVars, handlerVars, jobVars, agentVars
  <2> QED BY <2>3, AdminRests DEF jobVars
<1>8. CASE DropStart(a)
  <2> USE <1>8 DEF DropStart
  <2>1. cmds' \in [Agents -> Seq(Commands)]
    BY <1>3, ConfirmType
  <2>2. TypeOK' /\ SlotHeld'
    BY <2>1 DEF TypeOK, SlotHeld, taskVars, handlerVars, registryVars, jobVars, agentVars
  <2> QED BY <2>2, AdminRests DEF jobVars
<1>9. ASSUME HeadCommand(a, "start"), AckStart(a, c.task)
      PROVE  /\ cmds' \in [Agents -> Seq(Commands)]
             /\ node' \in [Agents -> Nodes] /\ inst' \in [Agents -> Tasks \cup {NoTask}]
             /\ conn' \in [Agents -> {"dead", "down", "hello", "up"}]
             /\ orphan' \in [Agents -> BOOLEAN]
  <2>1. cmds[a] # <<>> /\ c.task \in Tasks /\ NodeOf(c.task) \in Nodes
    BY <1>3, <1>9, NodeRecord
  <2>2. cmds' \in [Agents -> Seq(Commands)]
    BY <1>9, <2>1, ConfirmType, KeepType DEF AckStart
  <2>3. node' \in [Agents -> Nodes] /\ inst' \in [Agents -> Tasks \cup {NoTask}]
    <3>1. node \in [Agents -> Nodes] /\ inst \in [Agents -> Tasks \cup {NoTask}]
      BY DEF TypeOK
    <3>2. \/ node' = node /\ inst' = inst
          \/ node' = [node EXCEPT ![a] = NodeOf(c.task)] /\ inst' = [inst EXCEPT ![a] = c.task]
      BY <1>9 DEF AckStart
    <3> QED BY <2>1, <3>1, <3>2
  <2>4. /\ conn' \in [Agents -> {"dead", "down", "hello", "up"}]
        /\ orphan' \in [Agents -> BOOLEAN]
    BY <1>9 DEF AckStart, CloseSession, TypeOK
  <2> QED BY <2>2, <2>3, <2>4
<1>10. CASE ExecuteStart(a)
  <2> USE <1>10 DEF ExecuteStart
  <2>1. /\ run' \in [Agents -> Tasks \cup {NoTask}] /\ run'[a] \in Tasks
        /\ phase' \in [Agents -> {"idle", "running", "cancelled", "reporting"}]
    BY <1>3 DEF TypeOK
  <2>2. TypeOK'
    BY <1>9, <2>1 DEF TypeOK, taskVars, handlerVars, jobVars
  <2>3. SlotHeld'
    BY <2>1 DEF TypeOK, SlotHeld
  <2> QED BY <2>2, <2>3, AdminRests DEF jobVars
<1>11. CASE ReplayStart(a)
  <2> USE <1>11 DEF ReplayStart
  <2>1. TypeOK' /\ SlotHeld'
    BY <1>9 DEF TypeOK, SlotHeld, taskVars, handlerVars, jobVars, agentVars
  <2> QED BY <2>1, AdminRests DEF jobVars
<1>12. ASSUME NEW kind \in {"start", "stop"}, HeadCommand(a, kind), Reject(a), faults' \in Nat,
              UNCHANGED <<st, assigned, handlerVars, conn, orphan, jobVars, agentVars>>
       PROVE  LifeInv'
  <2>1. cmds[a] # <<>> /\ accept[a].pc = "idle" /\ c.task \in Tasks
    BY <1>3, <1>12
  <2>2. Accept(a, c.task, "synth")
    BY <1>12 DEF Reject
  <2>3. /\ reports' \in [Tasks -> [Agents -> {"none", "real", "synth"}]]
        /\ node' \in [Agents -> Nodes] /\ inst' \in [Agents -> Tasks \cup {NoTask}]
        /\ accept' \in [Agents -> Accepts]
        /\ StartsInOrder' /\ DecisionsHold'
    BY <1>2, <1>12, <2>1, <2>2 DEF jobVars
  <2>4. cmds' \in [Agents -> Seq(Commands)]
    BY <1>12, <2>1, ConfirmType, KeepType DEF Reject
  <2>5. TypeOK' /\ SlotHeld'
    BY <1>12, <2>3, <2>4 DEF TypeOK, SlotHeld, handlerVars, jobVars, agentVars
  <2> QED BY <2>3, <2>5
<1>13. CASE RejectStart(a)
  <2>1. faults' \in Nat
    BY <1>13 DEF RejectStart, Fault, TypeOK
  <2> QED BY <1>12, <1>13, <2>1 DEF RejectStart
<1>14. CASE RejectStop(a)
  <2>1. faults' \in Nat
    BY <1>14 DEF RejectStop, TypeOK
  <2> QED BY <1>12, <1>14, <2>1 DEF RejectStop
<1>15. CASE ExecuteStop(a)
  <2> USE <1>15 DEF ExecuteStop
  <2>1. cmds' \in [Agents -> Seq(Commands)]
    BY <1>3, ConfirmType
  <2>2. TypeOK' /\ SlotHeld'
    BY <2>1 DEF CancelTask, TypeOK, SlotHeld, taskVars, handlerVars, registryVars, jobVars
  <2> QED BY <2>2, AdminRests DEF jobVars
<1>16. CASE RunStep(a)
  <2>1. TypeOK' /\ SlotHeld'
    <3>1. CASE LeaseExpires(a)
      BY <3>1 DEF LeaseExpires, CancelTask, TypeOK, SlotHeld, taskVars, handlerVars,
                  registryVars, sessionVars, jobVars
    <3>2. CASE RunnerReturns(a)
      <4>1. outbox[a] \cup {run[a]} \in SUBSET Tasks /\ outbox \in [Agents -> SUBSET Tasks]
        BY <3>2 DEF RunnerReturns, TypeOK, SlotHeld
      <4>2. outbox' \in [Agents -> SUBSET Tasks]
        BY <3>2, <4>1 DEF RunnerReturns
      <4> QED BY <3>2, <4>2 DEF RunnerReturns, TypeOK, SlotHeld, taskVars, handlerVars,
                  registryVars, sessionVars, jobVars
    <3>3. CASE FreeSlot(a)
      BY <3>3 DEF FreeSlot, TypeOK, SlotHeld, taskVars, handlerVars, registryVars, sessionVars,
                  jobVars
    <3> QED BY <1>16, <3>1, <3>2, <3>3 DEF RunStep
  <2>2. UNCHANGED <<taskVars, handlerVars, accept, job>>
    BY <1>16 DEF RunStep, LeaseExpires, RunnerReturns, FreeSlot, sessionVars, jobVars
  <2> QED BY <2>1, <2>2, AdminRests
<1>17. ASSUME NEW t \in Tasks, ReceiveReport(a, t)
       PROVE  LifeInv'
  <2> USE <1>17 DEF ReceiveReport
  <2>1. /\ reports' \in [Tasks -> [Agents -> {"none", "real", "synth"}]]
        /\ node' \in [Agents -> Nodes] /\ inst' \in [Agents -> Tasks \cup {NoTask}]
        /\ accept' \in [Agents -> Accepts]
        /\ StartsInOrder' /\ DecisionsHold'
    BY <1>2 DEF jobVars
  <2>2. outbox' \in [Agents -> SUBSET Tasks]
    <3>1. outbox' = outbox \/ outbox' = [outbox EXCEPT ![a] = outbox[a] \ {t}]
      BY DEF AckReport
    <3>2. outbox[a] \ {t} \in SUBSET Tasks /\ outbox \in [Agents -> SUBSET Tasks]
      BY DEF TypeOK
    <3> QED BY <3>1, <3>2
  <2>3. TypeOK' /\ SlotHeld'
    BY <2>1, <2>2 DEF TypeOK, SlotHeld, handlerVars, jobVars
  <2> QED BY <2>1, <2>3
<1>18. CASE Disconnect(a)
  <2> USE <1>18 DEF Disconnect
  <2>1. faults' \in Nat
    BY DEF Fault, TypeOK
  <2>2. TypeOK' /\ SlotHeld'
    BY <2>1 DEF CloseSession, TypeOK, SlotHeld, taskVars, handlerVars, registryVars, jobVars,
                agentVars
  <2> QED BY <2>2, AdminRests DEF jobVars
<1>19. CASE Crash(a)
  <2> USE <1>19 DEF Crash
  <2>1. faults' \in Nat
    BY DEF Fault, TypeOK
  <2>2. cmds' \in [Agents -> Seq(Commands)]
    BY ConfirmType DEF TypeOK
  <2>3. TypeOK' /\ SlotHeld'
    BY <2>1, <2>2 DEF TypeOK, SlotHeld, taskVars, handlerVars, registryVars, jobVars
  <2> QED BY <2>3, AdminRests DEF jobVars
<1>20. CASE Boot(a)
  BY <1>20, AdminRests DEF Boot, TypeOK, SlotHeld, taskVars, handlerVars, registryVars, jobVars,
                           agentVars
<1> QED
  BY <1>4, <1>5, <1>6, <1>7, <1>8, <1>10, <1>11, <1>13, <1>14, <1>15, <1>16, <1>17, <1>18,
     <1>19, <1>20 DEF HandshakeStep, CommandStep
-----------------------------------------------------------------------------
\* A rejected command stays at the head while its report is being settled.

LEMMA ScheduleHead ==
    ASSUME TypeOK, NEW t \in Tasks, NEW S, NEW kind \in {"start", "stop"}, Schedule(kind, t, S)
    PROVE  \A b \in Agents: cmds[b] # <<>> => cmds'[b] # <<>> /\ cmds'[b][1] = cmds[b][1]
<1> DEFINE c == [kind |-> kind, task |-> t, outcome |-> "none"]
           Add(q) == IF q # <<>> /\ q[Len(q)] = c THEN q ELSE Append(q, c)
<1>1. c \in Commands
  BY NewCommand
<1>2. \A q \in Seq(Commands): q # <<>> => Add(q) # <<>> /\ Add(q)[1] = q[1]
  BY <1>1
<1>3. cmds' = [a \in Agents |-> IF a \in S THEN Add(cmds[a]) ELSE cmds[a]]
  BY DEF Schedule
<1> HIDE DEF Add
<1> QED BY <1>2, <1>3 DEF TypeOK

\* The steps that neither settle a report nor confirm a command.
LEMMA HeadsKept ==
    ASSUME TypeOK, RejectKept, accept' = accept,
           \A b \in Agents: conn'[b] = conn[b] \/ conn'[b] \in {"dead", "down"},
           \A b \in Agents: cmds[b] # <<>> => cmds'[b] # <<>> /\ cmds'[b][1] = cmds[b][1]
    PROVE  RejectKept'
BY DEF RejectKept

\* The steps of one session that are taken while no report is being settled.
LEMMA SessionIdle ==
    ASSUME TypeOK, RejectKept, NEW a \in Agents, accept[a].pc = "idle", accept'[a] = accept[a],
           \A b \in Agents: b # a =>
               conn'[b] = conn[b] /\ accept'[b] = accept[b] /\ cmds'[b] = cmds[b]
    PROVE  RejectKept'
BY DEF RejectKept

LEMMA RejectInit == Init => RejectKept
BY DEF Init, RejectKept, NoAccept

LEMMA RejectNext ==
    ASSUME LifeInv, RejectKept, [Next]_vars
    PROVE  RejectKept'
<1> USE DEF LifeInv
<1>1. CASE UNCHANGED vars
  BY <1>1 DEF vars, sessionVars, RejectKept
<1>2. CASE UNCHANGED sessionVars
  BY <1>2, HeadsKept DEF sessionVars
<1>3. ASSUME UNCHANGED <<conn, accept>>, NEW t \in Tasks, NEW S, NEW kind \in {"start", "stop"},
             Schedule(kind, t, S)
      PROVE  RejectKept'
  BY <1>3, ScheduleHead, HeadsKept
<1>4. ASSUME NEW t \in Tasks, StartTask(t) \/ StopTask(t) \/ HandlerStep(t) \/ DeadlinePasses(t)
      PROVE  RejectKept'
  <2>1. CASE UNCHANGED sessionVars
    BY <1>2, <2>1
  <2>2. CASE DispatchStart(t)
    BY <1>2, <1>3, <2>2 DEF DispatchStart, sessionVars
  <2>3. CASE StopSchedules(t)
    BY <1>2, <1>3, <2>3 DEF StopSchedules, sessionVars
  <2>4. UNCHANGED sessionVars \/ DispatchStart(t) \/ StopSchedules(t)
    BY <1>4 DEF HandlerStep, StartTask, StopTask, DeadlinePasses, StartRefused, Assign,
         SaveAssignments, StartRuns, StartFails, FinishIfFullyReported, FinishStops,
         StopRollsBack, SynthesizeOfflineReports, StopEnds, StopTimeout, StopTimeoutEnds
  <2> QED BY <2>1, <2>2, <2>3, <2>4
<1>5. ASSUME NEW p \in Jobs, JobStep(p)
      PROVE  RejectKept'
  <2>1. CASE UNCHANGED sessionVars
    BY <1>2, <2>1
  <2>2. CASE AutoStopSchedules(p)
    <3>1. job[p].task \in Tasks
      BY <2>2 DEF AutoStopSchedules, DecisionsHold
    <3> QED BY <1>2, <1>3, <2>2, <3>1 DEF AutoStopSchedules, sessionVars
  <2>3. UNCHANGED sessionVars \/ AutoStopSchedules(p)
    BY <1>5 DEF JobStep, SynthesizeOne, JobStops, OnAgentRestart, SynthesizeRestarted,
         CheckAllLost, ProbeNode, AutoStopTask, AutoStopFailsStart, AutoStopBegins,
         AutoStopSynthesizes, AutoStopEnds
  <2> QED BY <2>1, <2>2, <2>3
<1>6. CASE HealthStep
  <2>1. UNCHANGED <<cmds, accept>> /\ \A b \in Agents: conn'[b] = conn[b] \/ conn'[b] = "down"
    BY <1>6 DEF HealthStep, ScanAndMarkStatus, OnAgentOffline, sessionVars, TypeOK
  <2> QED BY <2>1, HeadsKept
<1>7. ASSUME NEW a \in Agents, HandshakeStep(a) \/ Heartbeat(a)
      PROVE  RejectKept'
  <2>1. CASE Register(a)
    BY <2>1 DEF Register, RejectKept, TypeOK
  <2>2. CASE Welcome(a)
    <3> USE <2>2 DEF Welcome
    <3>1. \A b \in Agents: cmds[b] # <<>> => cmds'[b] # <<>> /\ cmds'[b][1] = cmds[b][1]
      BY ScheduleHead, NodeTask DEF TypeOK
    <3>2. accept' = accept /\ accept[a].pc = "idle"
      BY DEF RejectKept
    <3> QED BY <3>1, <3>2 DEF RejectKept, TypeOK
  <2>3. CASE AcceptMoves(a)
    <3> USE <2>3 DEF AcceptMoves
    <3>1. accept'[a].pc = "idle" /\ \A b \in Agents: b # a => accept'[b] = accept[b]
      BY DEF TypeOK, NoAccept
    <3>2. \A b \in Agents: b # a => conn'[b] = conn[b] /\ cmds'[b] = cmds[b]
      BY DEF CloseSession, Confirm, TypeOK
    <3> QED BY <3>1, <3>2 DEF RejectKept
  <2>4. CASE Heartbeat(a)
    <3> USE <2>4 DEF Heartbeat
    <3>1. \A b \in Agents: cmds[b] # <<>> => cmds'[b] # <<>> /\ cmds'[b][1] = cmds[b][1]
      BY ScheduleHead DEF TypeOK
    <3>2. \A b \in Agents: conn'[b] = conn[b] \/ conn'[b] = "down"
      BY DEF CloseSession, TypeOK
    <3> QED BY <3>1, <3>2, HeadsKept
  <2> QED BY <1>7, <2>1, <2>2, <2>3, <2>4 DEF HandshakeStep
<1>8. ASSUME NEW a \in Agents, CommandStep(a)
      PROVE  RejectKept'
  <2>1. CASE DropStart(a) \/ ExecuteStart(a) \/ ReplayStart(a) \/ ExecuteStop(a)
    <3>1. /\ accept[a].pc = "idle" /\ accept' = accept
          /\ \A b \in Agents: b # a => conn'[b] = conn[b] /\ cmds'[b] = cmds[b]
      BY <2>1 DEF DropStart, ExecuteStart, ReplayStart, ExecuteStop, AckStart, HeadCommand,
                  Confirm, Keep, CloseSession, TypeOK
    <3> QED BY <3>1, SessionIdle
  <2>2. CASE RejectStart(a) \/ RejectStop(a)
    <3> DEFINE c == Head(cmds[a])
    <3>1. /\ accept[a].pc = "idle" /\ cmds[a] # <<>> /\ conn[a] = "up" /\ UNCHANGED conn
          /\ Accept(a, c.task, "synth")
          /\ IF accept'[a].pc = "idle" THEN Confirm(a) ELSE Keep(a, "rejected")
      BY <2>2 DEF RejectStart, RejectStop, HeadCommand, Reject
    <3>2. \A b \in Agents: b # a => accept'[b] = accept[b] /\ cmds'[b] = cmds[b]
      <4>1. c.task \in Tasks
        BY <3>1, HeadType
      <4>2. \A b \in Agents: b # a => accept'[b] = accept[b]
        BY <3>1, <4>1, AcceptStep
      <4>3. \A b \in Agents: b # a => cmds'[b] = cmds[b]
        BY <3>1 DEF Confirm, Keep, TypeOK
      <4> QED BY <4>2, <4>3
    <3>3. accept'[a].pc # "idle" => cmds'[a] # <<>> /\ cmds'[a][1].outcome = "rejected"
      <4> SUFFICES ASSUME accept'[a].pc # "idle"
                   PROVE  cmds'[a] # <<>> /\ cmds'[a][1].outcome = "rejected"
        OBVIOUS
      <4>1. /\ cmds[a] \in Seq(Commands) /\ 1 \in 1..Len(cmds[a]) /\ cmds[a][1] \in Commands
            /\ cmds' = [cmds EXCEPT ![a] = [cmds[a] EXCEPT
                                              ![1] = [cmds[a][1] EXCEPT !.outcome = "rejected"]]]
        BY <3>1 DEF Keep, TypeOK
      <4>2. [cmds[a][1] EXCEPT !.outcome = "rejected"].outcome = "rejected"
        BY <4>1 DEF Commands
      <4> DEFINE r == [cmds[a][1] EXCEPT !.outcome = "rejected"]
      <4> HIDE DEF r
      <4>3. cmds'[a] = [cmds[a] EXCEPT ![1] = r]
        BY <4>1 DEF r, TypeOK
      <4>4. cmds'[a] # <<>> /\ cmds'[a][1] = r
        BY <4>1, <4>3
      <4> QED BY <4>2, <4>4 DEF r
    <3> QED BY <3>1, <3>2, <3>3 DEF RejectKept
  <2> QED BY <1>8, <2>1, <2>2 DEF CommandStep
<1>9. ASSUME NEW a \in Agents, NEW t \in Tasks, ReceiveReport(a, t)
      PROVE  RejectKept'
  <2> USE <1>9 DEF ReceiveReport
  <2>1. /\ \A b \in Agents: b # a => accept'[b] = accept[b]
        /\ accept'[a] = accept[a] \/ accept'[a].kind = "real"
    BY AcceptStep
  <2> QED BY <2>1 DEF RejectKept
<1>10. ASSUME NEW a \in Agents, RunStep(a) \/ Disconnect(a) \/ Crash(a) \/ Boot(a)
       PROVE  RejectKept'
  <2>1. CASE RunStep(a)
    BY <1>2, <2>1 DEF RunStep, LeaseExpires, RunnerReturns, FreeSlot
  <2>2. CASE Disconnect(a)
    BY <2>2 DEF Disconnect, CloseSession, RejectKept, TypeOK
  <2>3. CASE Crash(a)
    <3>1. /\ accept' = accept /\ conn'[a] = "dead"
          /\ \A b \in Agents: b # a => conn'[b] = conn[b] /\ cmds'[b] = cmds[b]
      BY <2>3 DEF Crash, Confirm, TypeOK
    <3> QED BY <3>1 DEF RejectKept
  <2>4. CASE Boot(a)
    BY <2>4 DEF Boot, RejectKept, TypeOK
  <2> QED BY <1>10, <2>1, <2>2, <2>3, <2>4
<1> QED
  BY <1>1, <1>4, <1>5, <1>6, <1>7, <1>8, <1>9, <1>10 DEF Next

-----------------------------------------------------------------------------
\* The end of a task.

LEMMA LifeNext ==
    ASSUME LifeInv, RejectKept, [Next]_vars
    PROVE  LifeInv'
<1>1. CASE UNCHANGED vars
  BY <1>1 DEF vars, taskVars, handlerVars, registryVars, sessionVars, jobVars, agentVars,
              LifeInv, TypeOK, SlotHeld, StartsInOrder, DecisionsHold, Complete, AllReported
<1>2. CASE Next
  BY <1>2, HandlerLife, JobLife, HealthLife, SessionLife DEF Next, HealthStep
<1> QED BY <1>1, <1>2

\* The invariant holds in every behaviour of the cluster.
LEMMA LifeAlways == Spec => [](LifeInv /\ RejectKept)
<1>1. Init => LifeInv /\ RejectKept
  BY LifeInit, RejectInit
<1>2. LifeInv /\ RejectKept /\ [Next]_vars => (LifeInv /\ RejectKept)'
  BY LifeNext, RejectNext
<1> QED BY <1>1, <1>2, PTL DEF Spec

\* The handlers, callbacks, timers and sessions keep the types of the state,
\* whatever faults happen and however they interleave.
THEOREM LifecycleTypeCorrect == Spec => []TypeOK
<1>1. LifeInv => TypeOK
  BY DEF LifeInv
<1> QED BY <1>1, LifeAlways, PTL

\* A task that is called stopped has members and a report of each of them,
\* for every number of tasks, agents and faults.
THEOREM LifecycleStoppedIsComplete == Spec => []StoppedIsComplete
<1>1. LifeInv => StoppedIsComplete
  BY DEF LifeInv, DecisionsHold, Complete, StoppedIsComplete
<1> QED BY <1>1, LifeAlways, PTL

-----------------------------------------------------------------------------
\* The contract of TaskContract, with the agents that have a report as its
\* results: what each kind of step means to it.

LEMMA ContractRests ==
    ASSUME UNCHANGED taskVars
    PROVE  UNCHANGED Contract!vars
BY DEF taskVars, Contract!vars

\* A transition, taken or refused.
LEMMA ContractMoves ==
    ASSUME TypeOK, NEW t \in Tasks, NEW from \in States, NEW to \in States, Cas(t, from, to),
           UNCHANGED <<assigned, reports>>,
           <<from, to>> \in ValidTransition, to # "starting", to = "stopped" => Complete(t)
    PROVE  [Contract!Next]_(Contract!vars)
<1>1. CASE st[t] = from
  <2>1. st' = [st EXCEPT ![t] = to]
    BY <1>1 DEF Cas
  <2>2. to = "stopped" => assigned[t] # {} /\ assigned[t] \subseteq {a \in Agents: reports[t][a] # "none"}
    BY DEF Complete, AllReported, TypeOK
  <2>3. Contract!Advance(t, to)
    BY <1>1, <2>1, <2>2 DEF Contract!Advance, Contract!ValidTransition, ValidTransition
  <2> QED BY <2>3 DEF Contract!Next, Contract!States, States
<1>2. CASE st[t] # from
  BY <1>2, ContractRests DEF Cas, taskVars
<1> QED BY <1>1, <1>2

\* Reports of members, the ones that are there already included.
LEMMA ContractRecords ==
    ASSUME TypeOK, NEW t \in Tasks, NEW S, S \subseteq assigned[t], UNCHANGED <<st, assigned>>,
           reports' \in [Tasks -> [Agents -> {"none", "real", "synth"}]],
           \A u \in Tasks, a \in Agents:
               reports'[u][a] # "none" <=> reports[u][a] # "none" \/ (u = t /\ a \in S)
    PROVE  [Contract!Next]_(Contract!vars)
<1> DEFINE results == [u \in Tasks |-> {a \in Agents: reports[u][a] # "none"}]
<1>1. S \in SUBSET Agents
  BY DEF TypeOK
<1>2. results' = [results EXCEPT ![t] = results[t] \cup S]
  <2>1. \A u \in Tasks: results'[u] = IF u = t THEN results[u] \cup S ELSE results[u]
    BY <1>1
  <2> QED BY <2>1
<1>3. Contract!Record(t, S)
  BY <1>2 DEF Contract!Record
<1> QED BY <1>1, <1>3 DEF Contract!Next

LEMMA ContractSynthesizes ==
    ASSUME TypeOK, NEW t \in Tasks, NEW S, S \subseteq assigned[t], Synthesize(t, S),
           UNCHANGED <<st, assigned>>
    PROVE  [Contract!Next]_(Contract!vars)
<1>1. /\ reports' \in [Tasks -> [Agents -> {"none", "real", "synth"}]]
      /\ \A u \in Tasks, a \in Agents:
            reports'[u][a] # "none" <=> reports[u][a] # "none" \/ (u = t /\ a \in S)
  BY SynthesizeStep
<1> QED BY <1>1, ContractRecords

LEMMA ContractAccepts ==
    ASSUME TypeOK, NEW a \in Agents, NEW t \in Tasks, NEW kind \in {"real", "synth"},
           accept[a].pc = "idle", Accept(a, t, kind), UNCHANGED <<st, assigned>>
    PROVE  [Contract!Next]_(Contract!vars)
<1>1. CASE a \in assigned[t]
  <2>1. reports' = [reports EXCEPT ![t][a] = kind]
    BY <1>1 DEF Accept
  <2>2. /\ reports' \in [Tasks -> [Agents -> {"none", "real", "synth"}]]
        /\ \A u \in Tasks, b \in Agents:
              reports'[u][b] # "none" <=> reports[u][b] # "none" \/ (u = t /\ b \in {a})
    BY <2>1 DEF TypeOK
  <2>3. {a} \subseteq assigned[t]
    BY <1>1
  <2> QED BY <2>2, <2>3, ContractRecords
<1>2. CASE a \notin assigned[t]
  BY <1>2, ContractRests DEF Accept, taskVars
<1> QED BY <1>1, <1>2

LEMMA ContractStep ==
    ASSUME LifeInv, [Next]_vars
    PROVE  [Contract!Next]_(Contract!vars)
<1> USE DEF LifeInv
<1> USE DEF States, ValidTransition
<1>1. CASE UNCHANGED vars
  BY <1>1, ContractRests DEF vars
<1>2. ASSUME NEW t \in Tasks, StartTask(t) \/ StopTask(t) \/ HandlerStep(t) \/ DeadlinePasses(t)
      PROVE  [Contract!Next]_(Contract!vars)
  <2>1. CASE UNCHANGED taskVars
    BY <2>1, ContractRests
  <2>2. CASE StartTask(t)
    <3>1. Contract!Advance(t, "starting")
      BY <2>2 DEF StartTask, Contract!Advance, TypeOK, Contract!ValidTransition,
                  Contract!ActiveStates, ActiveStates
    <3> QED BY <3>1 DEF Contract!Next, Contract!States
  <2>3. CASE SaveAssignments(t)
    <3>1. Contract!Enlist(t, plan[t]) /\ plan[t] \in SUBSET Agents
      BY <2>3 DEF SaveAssignments, Contract!Enlist, StartsInOrder, TypeOK
    <3> QED BY <3>1 DEF Contract!Next
  <2>4. CASE StopTask(t)
    BY <2>4, ContractMoves DEF StopTask, Cas
  <2>5. CASE StartRefused(t) \/ StartRuns(t) \/ StartFails(t) \/ StopRollsBack(t)
    BY <2>5, ContractMoves DEF StartRefused, StartRuns, StartFails, StopRollsBack
  <2>6. CASE FinishStops(t) \/ StopEnds(t) \/ StopTimeoutEnds(t)
    BY <2>6, ContractMoves DEF FinishStops, StopEnds, StopTimeoutEnds, DecisionsHold
  <2>7. CASE SynthesizeOfflineReports(t) \/ StopTimeout(t)
    BY <2>7, ContractSynthesizes DEF SynthesizeOfflineReports, StopTimeout
  <2> QED BY <1>2, <2>1, <2>2, <2>3, <2>4, <2>5, <2>6, <2>7
          DEF HandlerStep, Assign, DispatchStart, FinishIfFullyReported, StopSchedules,
              DeadlinePasses
<1>3. ASSUME NEW p \in Jobs, JobStep(p)
      PROVE  [Contract!Next]_(Contract!vars)
  <2> DEFINE t == job[p].task
  <2>1. CASE UNCHANGED taskVars
    BY <2>1, ContractRests
  <2>2. job[p].pc # "idle" => t \in Tasks
    BY DEF DecisionsHold
  <2>3. CASE JobStops(p)
    BY <2>2, <2>3, ContractMoves DEF JobStops, DecisionsHold
  <2>4. CASE AutoStopFailsStart(p) \/ AutoStopBegins(p) \/ AutoStopEnds(p)
    BY <2>2, <2>4, ContractMoves DEF AutoStopFailsStart, AutoStopBegins, AutoStopEnds
  <2>5. CASE SynthesizeOne(p) \/ SynthesizeRestarted(p)
    <3>1. job[p].agent \in assigned[t]
      BY <2>5 DEF SynthesizeOne, SynthesizeRestarted, DecisionsHold
    <3> QED BY <2>2, <2>5, <3>1, ContractSynthesizes DEF SynthesizeOne, SynthesizeRestarted
  <2>6. CASE AutoStopSynthesizes(p)
    BY <2>2, <2>6, ContractSynthesizes DEF AutoStopSynthesizes
  <2> QED BY <1>3, <2>1, <2>3, <2>4, <2>5, <2>6
          DEF JobStep, OnAgentRestart, CheckAllLost, ProbeNode, AutoStopTask, AutoStopSchedules
<1>4. CASE HealthStep
  BY <1>4, ContractRests DEF HealthStep, ScanAndMarkStatus, OnAgentOffline
<1>5. ASSUME NEW a \in Agents, AcceptMoves(a)
      PROVE  [Contract!Next]_(Contract!vars)
  <2>1. /\ accept[a].task \in Tasks /\ accept[a].from \in {"running", "stopping"}
        /\ Complete(accept[a].task)
    BY <1>5 DEF AcceptMoves, DecisionsHold
  <2> QED BY <1>5, <2>1, ContractMoves DEF AcceptMoves
<1>6. ASSUME NEW a \in Agents, RejectStart(a) \/ RejectStop(a)
      PROVE  [Contract!Next]_(Contract!vars)
  <2>1. /\ accept[a].pc = "idle" /\ cmds[a] # <<>> /\ UNCHANGED <<st, assigned>>
        /\ Accept(a, Head(cmds[a]).task, "synth")
    BY <1>6 DEF RejectStart, RejectStop, HeadCommand, Reject
  <2> QED BY <2>1, HeadType, ContractAccepts
<1>7. ASSUME NEW a \in Agents, NEW t \in Tasks, ReceiveReport(a, t)
      PROVE  [Contract!Next]_(Contract!vars)
  BY <1>7, ContractAccepts DEF ReceiveReport
<1>8. ASSUME NEW a \in Agents,
             \/ Register(a) \/ Welcome(a) \/ Heartbeat(a) \/ DropStart(a) \/ ExecuteStart(a)
             \/ ReplayStart(a) \/ ExecuteStop(a) \/ RunStep(a) \/ Disconnect(a) \/ Crash(a)
             \/ Boot(a)
      PROVE  [Contract!Next]_(Contract!vars)
  BY <1>8, ContractRests DEF Register, Welcome, Heartbeat, DropStart, ExecuteStart, ReplayStart,
       ExecuteStop, RunStep, LeaseExpires, RunnerReturns, FreeSlot, Disconnect, Crash, Boot
<1> QED
  BY <1>1, <1>2, <1>3, <1>4, <1>5, <1>6, <1>7, <1>8 DEF Next, HandshakeStep, CommandStep

\* All the goroutines of the admin together implement the contract: one active
\* task, the edges of validTransition, members that never change, reports that
\* are never withdrawn, and no task stopped without them.
THEOREM LifecycleKeepsContract == Spec => KeepsContract
<1>1. Init => Contract!Init
  BY DEF Init, Contract!Init
<1>2. LifeInv /\ [Next]_vars => [Contract!Next]_(Contract!vars)
  BY ContractStep
<1> QED BY <1>1, <1>2, LifeAlways, PTL DEF Spec, KeepsContract, Contract!Spec

-----------------------------------------------------------------------------
\* No task stays running when all its agents have reported, as long as the
\* commands of a stop can be created: then a task is never rolled back from
\* stopping to running.

Past(t) == st[t] \in {"stopping", "stopped", "failed"}

\* Whoever acts on a decision to stop a task finds it stopping, or over.
NoWayBack ==
    /\ \A t \in Tasks: /\ stopPc[t] # "rollback"
                       /\ stopPc[t] # "idle" \/ timer[t] # "off" => Past(t)
    /\ \A p \in Jobs: job[p].pc \in {"schedule", "synthAll", "toFailed", "synthOne", "toStopped"}
                        => Past(job[p].task)

\* A callback, or an event of a session, that will take the task out of running.
JobCloses(p, t) ==
    /\ job[p].task = t
    /\ job[p].pc \in {"check", "toStopping"} \/ (job[p].pc = "probe" /\ job[p].todo = {})
AcceptCloses(a, t) == accept[a].pc = "move" /\ accept[a].task = t /\ accept[a].from = "running"

LEMMA ClosingParts ==
    /\ \A t \in Tasks: Closing(t) <=> \/ startPc[t] \in {"finish", "finishStop"}
                                      \/ \E a \in Agents: AcceptCloses(a, t)
                                      \/ \E p \in Jobs: JobCloses(p, t)
    /\ \A t \in Tasks: Closing(t)' <=> \/ startPc'[t] \in {"finish", "finishStop"}
                                       \/ \E a \in Agents: AcceptCloses(a, t)'
                                       \/ \E p \in Jobs: JobCloses(p, t)'
BY DEF Closing, AcceptCloses, JobCloses

\* A step keeps NoZombie if whoever completes a running task closes it, and
\* nobody who is to close a complete one gives up.
LEMMA ZombieStep ==
    ASSUME NoZombie,
           \A t \in Tasks: st'[t] = "running" /\ AllReported(t)' =>
               \/ startPc'[t] \in {"finish", "finishStop"}
               \/ \E a \in Agents: AcceptCloses(a, t)'
               \/ \E p \in Jobs: JobCloses(p, t)'
               \/ /\ st[t] = "running" /\ AllReported(t)
                  /\ startPc[t] \notin {"finish", "finishStop"}
                  /\ \A a \in Agents: AcceptCloses(a, t) => AcceptCloses(a, t)'
                  /\ \A p \in Jobs: JobCloses(p, t) => JobCloses(p, t)'
    PROVE  NoZombie'
<1> SUFFICES ASSUME NEW t \in Tasks, st'[t] = "running", AllReported(t)'
             PROVE  Closing(t)'
  BY DEF NoZombie
<1> QED BY ClosingParts DEF NoZombie

LEMMA ZombieHandler ==
    ASSUME LifeInv, NoWayBack, NoZombie, "schedule" \notin Events, NEW t \in Tasks,
           StartTask(t) \/ StopTask(t) \/ HandlerStep(t)
    PROVE  NoWayBack' /\ NoZombie'
<1> USE DEF LifeInv
<1>1. UNCHANGED <<accept, job>>
  BY DEF StartTask, StopTask, HandlerStep, StartRefused, Assign, SaveAssignments, DispatchStart,
         StartRuns, StartFails, FinishIfFullyReported, FinishStops, StopSchedules, StopRollsBack,
         SynthesizeOfflineReports, StopEnds, StopTimeout, StopTimeoutEnds, sessionVars, jobVars
<1>2. \A a \in Agents, u \in Tasks: AcceptCloses(a, u) => AcceptCloses(a, u)'
  BY <1>1 DEF AcceptCloses
<1>3. \A p \in Jobs, u \in Tasks: JobCloses(p, u) => JobCloses(p, u)'
  BY <1>1 DEF JobCloses
<1>4. ASSUME \A u \in Tasks: Past(u) => Past(u)',
             \A u \in Tasks: /\ stopPc'[u] # "rollback"
                             /\ stopPc'[u] # "idle" \/ timer'[u] # "off" => Past(u)'
      PROVE  NoWayBack'
  BY <1>1, <1>4 DEF NoWayBack, Past, DecisionsHold
<1>5. ASSUME \A u \in Tasks: st'[u] = "running" /\ AllReported(u)' =>
               \/ startPc'[u] \in {"finish", "finishStop"}
               \/ /\ st[u] = "running" /\ AllReported(u)
                  /\ startPc[u] \notin {"finish", "finishStop"}
      PROVE  NoZombie'
  BY <1>2, <1>3, <1>5, ZombieStep
<1>6. CASE StartTask(t)
  <2>1. NoWayBack'
    BY <1>4, <1>6 DEF StartTask, NoWayBack, Past, TypeOK
  <2>2. NoZombie'
    BY <1>5, <1>6 DEF StartTask, AllReported, TypeOK
  <2> QED BY <2>1, <2>2
<1>7. CASE StopTask(t)
  <2>1. NoWayBack'
    BY <1>4, <1>7 DEF StopTask, NoWayBack, Past, TypeOK
  <2>2. NoZombie'
    BY <1>5, <1>7 DEF StopTask, AllReported, TypeOK
  <2> QED BY <2>1, <2>2
<1>8. CASE StartRefused(t)
  <2>1. NoWayBack'
    BY <1>4, <1>8 DEF StartRefused, Cas, NoWayBack, Past, TypeOK
  <2>2. NoZombie'
    BY <1>5, <1>8 DEF StartRefused, Cas, AllReported, TypeOK
  <2> QED BY <2>1, <2>2
<1>9. CASE Assign(t)
  <2>1. NoWayBack'
    BY <1>4, <1>9 DEF Assign, NoWayBack, Past, TypeOK, taskVars
  <2>2. NoZombie'
    BY <1>5, <1>9 DEF Assign, AllReported, TypeOK, taskVars
  <2> QED BY <2>1, <2>2
<1>10. CASE SaveAssignments(t)
  <2>1. NoWayBack'
    BY <1>4, <1>10 DEF SaveAssignments, NoWayBack, Past, TypeOK
  <2>2. st[t] # "running" /\ \A u \in Tasks: u # t => assigned'[u] = assigned[u]
    BY <1>10 DEF SaveAssignments, StartsInOrder, TypeOK
  <2>3. NoZombie'
    BY <1>5, <1>10, <2>2 DEF SaveAssignments, AllReported, TypeOK
  <2> QED BY <2>1, <2>3
<1>11. CASE DispatchStart(t)
  <2>1. NoWayBack'
    BY <1>4, <1>11 DEF DispatchStart, NoWayBack, Past, TypeOK, taskVars
  <2>2. NoZombie'
    BY <1>5, <1>11 DEF DispatchStart, AllReported, TypeOK, taskVars
  <2> QED BY <2>1, <2>2
<1>12. CASE StartRuns(t)
  <2>1. NoWayBack'
    BY <1>4, <1>12 DEF StartRuns, Cas, NoWayBack, Past, TypeOK
  <2>2. NoZombie'
    BY <1>5, <1>12 DEF StartRuns, Cas, AllReported, TypeOK
  <2> QED BY <2>1, <2>2
<1>13. CASE StartFails(t)
  <2>1. NoWayBack'
    BY <1>4, <1>13 DEF StartFails, Cas, NoWayBack, Past, TypeOK
  <2>2. NoZombie'
    BY <1>5, <1>13 DEF StartFails, Cas, AllReported, TypeOK
  <2> QED BY <2>1, <2>2
<1>14. CASE FinishIfFullyReported(t)
  <2>1. NoWayBack'
    BY <1>4, <1>14 DEF FinishIfFullyReported, NoWayBack, Past, TypeOK, taskVars
  <2>2. NoZombie'
    BY <1>5, <1>14 DEF FinishIfFullyReported, AllReported, TypeOK, taskVars
  <2> QED BY <2>1, <2>2
<1>15. CASE FinishStops(t)
  <2>1. NoWayBack'
    BY <1>4, <1>15 DEF FinishStops, Cas, NoWayBack, Past, TypeOK
  <2>2. NoZombie'
    BY <1>5, <1>15 DEF FinishStops, Cas, AllReported, TypeOK
  <2> QED BY <2>1, <2>2
<1>16. CASE StopSchedules(t)
  <2>1. NoWayBack'
    BY <1>4, <1>16 DEF StopSchedules, Fault, NoWayBack, Past, TypeOK, taskVars
  <2>2. NoZombie'
    BY <1>5, <1>16 DEF StopSchedules, AllReported, TypeOK, taskVars
  <2> QED BY <2>1, <2>2
<1>17. CASE StopRollsBack(t)
  BY <1>17 DEF StopRollsBack, NoWayBack
<1>18. CASE SynthesizeOfflineReports(t)
  <2> USE <1>18 DEF SynthesizeOfflineReports
  <2>1. NoWayBack'
    BY <1>4 DEF NoWayBack, Past, TypeOK
  <2>2. st[t] # "running" /\ \A u \in Tasks: u # t => reports'[u] = reports[u]
    BY SynthesizeStep DEF NoWayBack, Past
  <2>3. NoZombie'
    BY <1>5, <2>2 DEF AllReported, TypeOK
  <2> QED BY <2>1, <2>3
<1>19. CASE StopEnds(t)
  <2>1. NoWayBack'
    BY <1>4, <1>19 DEF StopEnds, Cas, NoWayBack, Past, TypeOK
  <2>2. NoZombie'
    BY <1>5, <1>19 DEF StopEnds, Cas, AllReported, TypeOK
  <2> QED BY <2>1, <2>2
<1>20. CASE StopTimeout(t)
  <2> USE <1>20 DEF StopTimeout
  <2>1. NoWayBack'
    BY <1>4 DEF NoWayBack, Past, TypeOK
  <2>2. \A u \in Tasks: u # t => reports'[u] = reports[u]
    BY SynthesizeStep
  <2>3. NoZombie'
    BY <1>5, <2>2 DEF AllReported, TypeOK
  <2> QED BY <2>1, <2>3
<1>21. CASE StopTimeoutEnds(t)
  <2>1. NoWayBack'
    BY <1>4, <1>21 DEF StopTimeoutEnds, Cas, NoWayBack, Past, TypeOK
  <2>2. NoZombie'
    BY <1>5, <1>21 DEF StopTimeoutEnds, Cas, AllReported, TypeOK
  <2> QED BY <2>1, <2>2
<1> QED BY <1>6, <1>7, <1>8, <1>9, <1>10, <1>11, <1>12, <1>13, <1>14, <1>15, <1>16, <1>17,
           <1>18, <1>19, <1>20, <1>21 DEF HandlerStep

\* What a step of one callback owes: p is the only one that moves.
LEMMA ZombieCallback ==
    ASSUME LifeInv, NoWayBack, NoZombie, NEW p \in Jobs,
           UNCHANGED <<assigned, handlerVars, accept>>,
           \A q \in Jobs: q # p => job'[q] = job[q],
           \A u \in Tasks: Past(u) => Past(u)',
           job'[p].pc \in {"schedule", "synthAll", "toFailed", "synthOne", "toStopped"}
             => Past(job[p].task)',
           \A u \in Tasks: st'[u] = "running" =>
             /\ st[u] = "running"
             /\ AllReported(u)' => AllReported(u) \/ JobCloses(p, u)'
             /\ AllReported(u) /\ JobCloses(p, u) => JobCloses(p, u)'
    PROVE  NoWayBack' /\ NoZombie'
<1>1. NoWayBack'
  <2>1. \A u \in Tasks: /\ stopPc'[u] # "rollback"
                        /\ stopPc'[u] # "idle" \/ timer'[u] # "off" => Past(u)'
    BY DEF NoWayBack, handlerVars
  <2>2. ASSUME NEW q \in Jobs, q # p,
               job'[q].pc \in {"schedule", "synthAll", "toFailed", "synthOne", "toStopped"}
        PROVE  Past(job[q].task)'
    <3>1. job'[q] = job[q] /\ job[q].task \in Tasks /\ Past(job[q].task)
      BY <2>2 DEF NoWayBack, LifeInv, DecisionsHold
    <3> QED BY <3>1 DEF Past
  <2> QED BY <2>1, <2>2 DEF NoWayBack
<1>2. \A q \in Jobs, u \in Tasks: q # p => (JobCloses(q, u) => JobCloses(q, u)')
  BY DEF JobCloses
<1>3. \A a \in Agents, u \in Tasks: AcceptCloses(a, u) => AcceptCloses(a, u)'
  BY DEF AcceptCloses
<1>4. startPc' = startPc
  BY DEF handlerVars
<1>5. NoZombie'
  BY <1>2, <1>3, <1>4, ZombieStep
<1> QED BY <1>1, <1>5

LEMMA ZombieJob ==
    ASSUME LifeInv, NoWayBack, NoZombie, NEW p \in Jobs, JobStep(p)
    PROVE  NoWayBack' /\ NoZombie'
<1> USE DEF LifeInv
<1> DEFINE t == job[p].task
<1>1. /\ job[p] \in Callbacks
      /\ job[p].pc # "idle" => t \in Tasks
  BY DEF TypeOK, DecisionsHold
<1>2. UNCHANGED <<assigned, handlerVars, accept>>
  BY DEF JobStep, SynthesizeOne, JobStops, OnAgentRestart, SynthesizeRestarted, CheckAllLost,
         ProbeNode, AutoStopTask, AutoStopFailsStart, AutoStopBegins, AutoStopSchedules,
         AutoStopSynthesizes, AutoStopEnds, sessionVars, taskVars
<1>3. ASSUME NEW pc \in JobPcs, Goto(p, pc)
      PROVE  /\ job'[p].pc = pc /\ job'[p].task = t /\ job'[p].todo = job[p].todo
             /\ \A q \in Jobs: q # p => job'[q] = job[q]
  BY <1>3, GotoStep
<1>4. ASSUME EndJob(p)
      PROVE  job'[p].pc = "idle" /\ \A q \in Jobs: q # p => job'[q] = job[q]
  BY <1>4, EndJobStep DEF NoJob
<1>5. ASSUME NEW to \in {"stopped", "failed", "stopping"},
             NEW from \in {"starting", "running", "stopping"}, t \in Tasks, Cas(t, from, to)
      PROVE  /\ \A u \in Tasks: st'[u] = "running" => st[u] = "running"
             /\ \A u \in Tasks: Past(u) => Past(u)'
             /\ from = "running" => st'[t] # "running"
  BY <1>5 DEF Cas, Past, TypeOK
<1>6. reports' = reports => \A u \in Tasks: AllReported(u)' <=> AllReported(u)
  BY <1>2 DEF AllReported
<1>7. st' = st => \A u \in Tasks: Past(u) => Past(u)'
  BY DEF Past
<1>8. CASE SynthesizeOne(p)
  <2> USE <1>8 DEF SynthesizeOne
  <2>1. Past(t) /\ t \in Tasks /\ \A u \in Tasks: u # t => reports'[u] = reports[u]
    BY <1>1, SynthesizeStep DEF NoWayBack
  <2>2. /\ job'[p].pc \in {"idle", "toStopped"} /\ (job'[p].pc # "idle" => job'[p].task = t)
        /\ \A q \in Jobs: q # p => job'[q] = job[q]
    BY <1>3, <1>4 DEF JobPcs
  <2>3. \A u \in Tasks: st'[u] = "running" => u # t /\ (AllReported(u)' <=> AllReported(u))
    BY <1>2, <2>1 DEF Past, AllReported
  <2>4. ~JobCloses(p, t) /\ \A u \in Tasks: u # t => ~JobCloses(p, u)
    BY DEF JobCloses
  <2>5. job'[p].pc = "toStopped" => Past(job[p].task)'
    BY <2>1, <2>2 DEF Past
  <2> QED BY <1>2, <1>7, <2>2, <2>3, <2>4, <2>5, ZombieCallback
<1>9. CASE JobStops(p)
  BY <1>1, <1>2, <1>4, <1>5, <1>6, <1>9, ZombieCallback DEF JobStops, JobCloses
<1>10. CASE OnAgentRestart(p)
  <2>1. /\ job'[p].pc \in {"idle", "synthRestart"}
        /\ \A q \in Jobs: q # p => job'[q] = job[q]
    BY <1>3, <1>4, <1>10 DEF OnAgentRestart, JobPcs
  <2>2. st' = st /\ reports' = reports /\ \A u \in Tasks: ~JobCloses(p, u)
    BY <1>10 DEF OnAgentRestart, taskVars, JobCloses
  <2> QED BY <1>2, <1>6, <1>7, <2>1, <2>2, ZombieCallback
<1>11. CASE SynthesizeRestarted(p)
  <2> USE <1>11 DEF SynthesizeRestarted
  <2>1. /\ job'[p].pc = "check" /\ job'[p].task = t /\ t \in Tasks
        /\ \A q \in Jobs: q # p => job'[q] = job[q]
    BY <1>1, <1>3 DEF JobPcs
  <2>2. \A u \in Tasks: u # t => reports'[u] = reports[u]
    BY <2>1, SynthesizeStep
  <2>3. \A u \in Tasks: ~JobCloses(p, u)
    BY DEF JobCloses
  <2>4. \A u \in Tasks: AllReported(u)' => AllReported(u) \/ JobCloses(p, u)'
    BY <1>2, <2>1, <2>2 DEF AllReported, JobCloses
  <2> QED BY <1>2, <1>7, <2>1, <2>3, <2>4, ZombieCallback
<1>12. CASE CheckAllLost(p)
  <2> USE <1>12 DEF CheckAllLost
  <2> DEFINE todo == {a \in assigned[t]: reports[t][a] = "none"}
  <2>1. st' = st /\ reports' = reports
    BY DEF taskVars
  <2>2. CASE st[t] \in ActiveStates
    <3> DEFINE r == [[job[p] EXCEPT !.pc = "probe"] EXCEPT !.todo = todo]
    <3>1. job' = [job EXCEPT ![p] = r]
      BY <2>2 DEF TypeOK
    <3>2. [job[p] EXCEPT !.pc = "probe"] \in Callbacks
      BY <1>1, CallbackRecord DEF JobPcs
    <3>3. r.pc = "probe" /\ r.task = t /\ r.todo = todo
      BY <1>1, <3>2, CallbackFields
    <3> HIDE DEF r
    <3>4. /\ job'[p].pc = "probe" /\ job'[p].task = t /\ job'[p].todo = todo
          /\ \A q \in Jobs: q # p => job'[q] = job[q]
      BY <3>1, <3>3 DEF TypeOK
    <3>5. \A u \in Tasks: AllReported(u) /\ JobCloses(p, u) => JobCloses(p, u)'
      BY <3>4 DEF AllReported, JobCloses
    <3> HIDE DEF todo
    <3> QED BY <1>2, <1>6, <1>7, <2>1, <3>4, <3>5, ZombieCallback
  <2>3. CASE st[t] \notin ActiveStates
    <3>1. st[t] # "running" /\ job'[p].pc = "idle" /\ \A q \in Jobs: q # p => job'[q] = job[q]
      BY <1>4, <2>3 DEF ActiveStates
    <3>2. \A u \in Tasks: st[u] = "running" => ~JobCloses(p, u)
      BY <3>1 DEF JobCloses
    <3> QED BY <1>2, <1>6, <1>7, <2>1, <3>1, <3>2, ZombieCallback
  <2> QED BY <2>2, <2>3
<1>13. ASSUME NEW a \in Agents, ProbeNode(p, a)
       PROVE  NoWayBack' /\ NoZombie'
  <2> USE <1>13 DEF ProbeNode
  <2>1. st' = st /\ reports' = reports /\ \A u \in Tasks: ~JobCloses(p, u)
    BY DEF taskVars, JobCloses
  <2>2. /\ job'[p].pc \in {"idle", "probe"}
        /\ \A q \in Jobs: q # p => job'[q] = job[q]
    <3>1. CASE node[a].task = t
      BY <1>4, <3>1
    <3>2. CASE node[a].task # t
      <4> DEFINE rest == job[p].todo \ {a}
      <4>1. job' = [job EXCEPT ![p] = [job[p] EXCEPT !.todo = rest]]
        BY <3>2 DEF TypeOK
      <4>2. [job[p] EXCEPT !.todo = rest].pc = "probe"
        BY <1>1, CallbackFields
      <4> HIDE DEF rest
      <4> QED BY <4>1, <4>2 DEF TypeOK
    <3> QED BY <3>1, <3>2
  <2> QED BY <1>2, <1>6, <1>7, <2>1, <2>2, ZombieCallback
<1>14. CASE AutoStopTask(p)
  <2> USE <1>14 DEF AutoStopTask
  <2>1. st' = st /\ reports' = reports /\ t \in Tasks
    BY <1>1 DEF taskVars
  <2>2. /\ \/ job'[p].pc = "failStarting" /\ st[t] = "starting"
           \/ job'[p].pc = "toStopping" /\ job'[p].task = t
           \/ job'[p].pc = "schedule" /\ st[t] = "stopping" /\ job'[p].task = t
           \/ job'[p].pc = "idle" /\ st[t] # "running"
        /\ \A q \in Jobs: q # p => job'[q] = job[q]
    BY <1>3, <1>4 DEF JobPcs
  <2>3. \A u \in Tasks: st[u] = "running" /\ JobCloses(p, u) => JobCloses(p, u)'
    BY <2>2 DEF JobCloses
  <2>4. job'[p].pc = "schedule" => Past(job[p].task)'
    BY <2>1, <2>2 DEF Past
  <2> QED BY <1>2, <1>6, <1>7, <2>1, <2>2, <2>3, <2>4, ZombieCallback
<1>15. CASE AutoStopFailsStart(p)
  BY <1>1, <1>2, <1>4, <1>5, <1>6, <1>15, ZombieCallback DEF AutoStopFailsStart, JobCloses
<1>16. CASE AutoStopBegins(p)
  <2> USE <1>16 DEF AutoStopBegins
  <2>1. /\ \A u \in Tasks: st'[u] = "running" => st[u] = "running"
        /\ \A u \in Tasks: Past(u) => Past(u)'
        /\ st'[t] # "running" /\ reports' = reports
    BY <1>1, <1>5
  <2>2. /\ \/ job'[p].pc = "schedule" /\ job'[p].task = t /\ st[t] = "running"
           \/ job'[p].pc = "idle"
        /\ \A q \in Jobs: q # p => job'[q] = job[q]
    BY <1>3, <1>4 DEF JobPcs
  <2>3. st[t] = "running" => st'[t] = "stopping"
    BY <1>1 DEF Cas, TypeOK
  <2>4. job'[p].pc = "schedule" => Past(job[p].task)'
    BY <2>2, <2>3 DEF Past
  <2>5. \A u \in Tasks: st'[u] = "running" => ~JobCloses(p, u)
    BY <2>1 DEF JobCloses
  <2> QED BY <1>2, <1>6, <2>1, <2>2, <2>4, <2>5, ZombieCallback
<1>17. CASE AutoStopSchedules(p)
  <2> USE <1>17 DEF AutoStopSchedules
  <2>1. /\ job'[p].pc = "synthAll" /\ job'[p].task = t /\ st' = st /\ reports' = reports
        /\ \A q \in Jobs: q # p => job'[q] = job[q]
    BY <1>3 DEF JobPcs, taskVars
  <2>2. Past(job[p].task)' /\ \A u \in Tasks: ~JobCloses(p, u)
    BY <2>1 DEF NoWayBack, Past, JobCloses
  <2> QED BY <1>2, <1>6, <1>7, <2>1, <2>2, ZombieCallback
<1>18. CASE AutoStopSynthesizes(p)
  <2> USE <1>18 DEF AutoStopSynthesizes
  <2>1. Past(t) /\ t \in Tasks /\ \A u \in Tasks: u # t => reports'[u] = reports[u]
    BY <1>1, SynthesizeStep DEF NoWayBack
  <2>2. /\ job'[p].pc = "toFailed" /\ job'[p].task = t
        /\ \A q \in Jobs: q # p => job'[q] = job[q]
    BY <1>3 DEF JobPcs
  <2>3. \A u \in Tasks: st'[u] = "running" => u # t /\ (AllReported(u)' <=> AllReported(u))
    BY <1>2, <2>1 DEF Past, AllReported
  <2>4. Past(job[p].task)' /\ \A u \in Tasks: ~JobCloses(p, u)
    BY <2>1, <2>2 DEF Past, JobCloses
  <2> QED BY <1>2, <1>7, <2>2, <2>3, <2>4, ZombieCallback
<1>19. CASE AutoStopEnds(p)
  BY <1>1, <1>2, <1>4, <1>5, <1>6, <1>19, ZombieCallback DEF AutoStopEnds, JobCloses
<1> QED
  BY <1>8, <1>9, <1>10, <1>11, <1>12, <1>13, <1>14, <1>15, <1>16, <1>17, <1>18, <1>19 DEF JobStep

\* The steps that start a callback, or do nothing to the tasks: a callback
\* that is idle closes nothing.
LEMMA ZombieRests ==
    ASSUME LifeInv, NoWayBack, NoZombie, UNCHANGED <<taskVars, handlerVars, accept>>,
           \A p \in Jobs: job'[p] = job[p] \/
             /\ job[p].pc = "idle"
             /\ job'[p].pc \in {"schedule", "synthAll", "toFailed", "synthOne", "toStopped"}
                  => Past(job'[p].task)
    PROVE  NoWayBack' /\ NoZombie'
<1>1. NoWayBack'
  BY DEF NoWayBack, Past, taskVars, handlerVars
<1>2. \A p \in Jobs, u \in Tasks: JobCloses(p, u) => JobCloses(p, u)'
  BY DEF JobCloses
<1>3. \A a \in Agents, u \in Tasks: AcceptCloses(a, u) => AcceptCloses(a, u)'
  BY DEF AcceptCloses
<1>4. st' = st /\ startPc' = startPc /\ \A u \in Tasks: AllReported(u)' <=> AllReported(u)
  BY DEF taskVars, handlerVars, AllReported
<1>5. NoZombie'
  BY <1>2, <1>3, <1>4, ZombieStep
<1> QED BY <1>1, <1>5

LEMMA ZombieSession ==
    ASSUME LifeInv, NoWayBack, NoZombie, NEW a \in Agents,
           \/ HandshakeStep(a) \/ Heartbeat(a) \/ CommandStep(a) \/ RunStep(a)
           \/ (\E t \in Tasks: ReceiveReport(a, t))
           \/ Disconnect(a) \/ Crash(a) \/ Boot(a)
    PROVE  NoWayBack' /\ NoZombie'
<1> USE DEF LifeInv
<1>1. CASE Register(a)
  <2> DEFINE j == [pc |-> "restarted", task |-> inst[a], agent |-> a, todo |-> {}]
  <2>1. job[a].pc = "idle" /\ (job' = job \/ job' = [job EXCEPT ![a] = j]) /\ j.pc = "restarted"
    BY <1>1 DEF Register
  <2> HIDE DEF j
  <2>2. \A p \in Jobs: job'[p] = job[p] \/ (job[p].pc = "idle" /\ job'[p].pc = "restarted")
    BY <2>1 DEF TypeOK
  <2> QED BY <1>1, <2>2, ZombieRests DEF Register
<1>2. ASSUME NEW t \in Tasks, NEW kind \in {"real", "synth"}, accept[a].pc = "idle",
             Accept(a, t, kind), UNCHANGED <<st, assigned, handlerVars, job>>
      PROVE  NoWayBack' /\ NoZombie'
  <2>1. NoWayBack'
    BY <1>2 DEF NoWayBack, Past, handlerVars
  <2>2. /\ \A b \in Agents: accept'[b] = accept[b] \/ accept[b].pc = "idle"
        /\ \A u \in Tasks: u # t => \A b \in Agents: reports'[u][b] = reports[u][b]
    BY <1>2, AcceptStep
  <2>3. \A b \in Agents, u \in Tasks: AcceptCloses(b, u) => AcceptCloses(b, u)'
    BY <2>2 DEF AcceptCloses
  <2>4. \A p \in Jobs, u \in Tasks: JobCloses(p, u) => JobCloses(p, u)'
    BY <1>2 DEF JobCloses
  <2>5. startPc' = startPc
    BY <1>2 DEF handlerVars
  <2>6. \A u \in Tasks: u # t => (AllReported(u)' => AllReported(u))
    BY <1>2, <2>2 DEF AllReported, TypeOK
  <2>7. st[t] = "running" /\ AllReported(t)' => AllReported(t) \/ AcceptCloses(a, t)'
    <3>1. CASE a \notin assigned[t]
      BY <1>2, <3>1 DEF Accept, AllReported
    <3>2. CASE a \in assigned[t]
      <4> SUFFICES ASSUME st[t] = "running", AllReported(t)'
                   PROVE  AcceptCloses(a, t)'
        OBVIOUS
      <4>1. \A b \in assigned[t] \ {a}: reports[t][b] # "none"
        BY <1>2, <3>2, AcceptStep DEF AllReported, TypeOK
      <4>2. accept' = [accept EXCEPT ![a] = [pc |-> "move", task |-> t, kind |-> kind,
                                             from |-> st[t]]]
        BY <1>2, <3>2, <4>1 DEF Accept
      <4> QED BY <4>2 DEF AcceptCloses, TypeOK
    <3> QED BY <3>1, <3>2
  <2>8. NoZombie'
    BY <1>2, <2>3, <2>4, <2>5, <2>6, <2>7, ZombieStep
  <2> QED BY <2>1, <2>8
<1>3. CASE AcceptMoves(a)
  <2> DEFINE t == accept[a].task
  <2> USE <1>3 DEF AcceptMoves
  <2>1. /\ t \in Tasks /\ accept[a].from \in {"running", "stopping"}
        /\ accept[a].from \in States /\ "stopped" \in States
    BY DEF DecisionsHold, States
  <2>2. /\ st[t] = accept[a].from => st'[t] = "stopped"
        /\ \A u \in Tasks: st'[u] = st[u]
                           \/ (u = t /\ st[u] \in {"running", "stopping"} /\ st'[u] = "stopped")
    BY <2>1, CasStep
  <2>3. \A b \in Agents: b # a => accept'[b] = accept[b]
    BY DEF TypeOK
  <2>4. startPc' = startPc /\ job' = job /\ \A u \in Tasks: AllReported(u)' <=> AllReported(u)
    BY DEF handlerVars, jobVars, AllReported
  <2>5. NoWayBack'
    BY <2>2, <2>4 DEF NoWayBack, Past, handlerVars, DecisionsHold
  <2>6. \A u \in Tasks, b \in Agents: st'[u] = "running" /\ AcceptCloses(b, u) => AcceptCloses(b, u)'
    BY <2>2, <2>3 DEF AcceptCloses
  <2>7. \A p \in Jobs, u \in Tasks: JobCloses(p, u) => JobCloses(p, u)'
    BY <2>4 DEF JobCloses
  <2>8. NoZombie'
    BY <2>2, <2>4, <2>6, <2>7, ZombieStep
  <2> QED BY <2>5, <2>8
<1>4. CASE RejectStart(a) \/ RejectStop(a)
  <2>1. /\ accept[a].pc = "idle" /\ cmds[a] # <<>>
        /\ UNCHANGED <<st, assigned, handlerVars, job>>
        /\ Accept(a, Head(cmds[a]).task, "synth")
    BY <1>4 DEF RejectStart, RejectStop, HeadCommand, Reject, jobVars
  <2> QED BY <1>2, <2>1, HeadType
<1>5. ASSUME NEW t \in Tasks, ReceiveReport(a, t)
      PROVE  NoWayBack' /\ NoZombie'
  BY <1>2, <1>5 DEF ReceiveReport, jobVars
<1>6. CASE \/ Welcome(a) \/ Heartbeat(a) \/ DropStart(a) \/ ExecuteStart(a) \/ ReplayStart(a)
           \/ ExecuteStop(a) \/ RunStep(a) \/ Disconnect(a) \/ Crash(a) \/ Boot(a)
  <2>1. UNCHANGED <<taskVars, handlerVars, accept, job>>
    BY <1>6 DEF Welcome, Heartbeat, DropStart, ExecuteStart, ReplayStart, ExecuteStop, RunStep,
         LeaseExpires, RunnerReturns, FreeSlot, Disconnect, Crash, Boot, sessionVars, jobVars
  <2> QED BY <2>1, ZombieRests
<1> QED BY <1>1, <1>3, <1>4, <1>5, <1>6 DEF HandshakeStep, CommandStep

LEMMA ZombieNext ==
    ASSUME LifeInv, NoWayBack, NoZombie, "schedule" \notin Events, [Next]_vars
    PROVE  NoWayBack' /\ NoZombie'
<1>1. CASE UNCHANGED vars
  BY <1>1, ZombieRests DEF vars, sessionVars, jobVars
<1>2. CASE ScanAndMarkStatus
  BY <1>2, ZombieRests DEF ScanAndMarkStatus, sessionVars
<1>3. ASSUME NEW a \in Agents, OnAgentOffline(a)
      PROVE  NoWayBack' /\ NoZombie'
  <2> USE <1>3 DEF OnAgentOffline
  <2>1. CASE UNCHANGED job
    BY <2>1, ZombieRests DEF sessionVars
  <2>2. ASSUME NEW t \in Tasks,
               job' = [job EXCEPT ![Health] =
                 [pc |-> IF st[t] = "stopping" THEN "synthOne" ELSE "check",
                  task |-> t, agent |-> a, todo |-> {}]]
        PROVE  NoWayBack' /\ NoZombie'
    <3> DEFINE j == [pc |-> IF st[t] = "stopping" THEN "synthOne" ELSE "check",
                     task |-> t, agent |-> a, todo |-> {}]
    <3>1. j.pc = "check" \/ (j.pc = "synthOne" /\ Past(j.task))
      BY DEF Past
    <3>2. job' = [job EXCEPT ![Health] = j]
      BY <2>2
    <3> HIDE DEF j
    <3>3. \A p \in Jobs: job'[p] = job[p] \/ (p = Health /\ job'[p] = j)
      BY <3>2 DEF LifeInv, TypeOK
    <3> QED BY <3>1, <3>3, ZombieRests DEF sessionVars
  <2> QED BY <2>1, <2>2
<1>4. ASSUME NEW t \in Tasks, DeadlinePasses(t)
      PROVE  NoWayBack' /\ NoZombie'
  <2> DEFINE j == [pc |-> "probe", task |-> t, agent |-> NoAgent, todo |-> {}]
  <2>1. job' = [job EXCEPT ![Watchdog] = j] /\ job[Watchdog].pc = "idle" /\ j.pc = "probe"
    BY <1>4 DEF DeadlinePasses
  <2> HIDE DEF j
  <2>2. \A p \in Jobs: job'[p] = job[p] \/ (p = Watchdog /\ job'[p] = j)
    BY <2>1 DEF LifeInv, TypeOK
  <2> QED BY <1>4, <2>1, <2>2, ZombieRests DEF DeadlinePasses, sessionVars
<1>5. CASE Next
  BY <1>2, <1>3, <1>4, <1>5, ZombieHandler, ZombieJob, ZombieSession DEF Next, HealthStep
<1> QED BY <1>1, <1>5

\* A running task all of whose agents have reported is about to be stopped, so
\* the single active slot of the cluster is never lost.  Creating the commands
\* of a stop must not fail: the roll-back of handleStopTask can leave a task
\* running whose last closer has found it stopping and gone away.
THEOREM LifecycleNoZombie ==
    ASSUME "schedule" \notin Events
    PROVE  Spec => []NoZombie
<1>1. Init => NoWayBack /\ NoZombie
  BY DEF Init, NoWayBack, NoZombie, NoJob
<1>2. LifeInv /\ NoWayBack /\ NoZombie /\ [Next]_vars => (NoWayBack /\ NoZombie)'
  BY ZombieNext
<1> QED BY <1>1, <1>2, LifeAlways, PTL DEF Spec

-----------------------------------------------------------------------------
\* A real report is kept while its task is active.

\* StartTask refuses a second task.
OneActive == \A t, u \in Tasks: st[t] \in ActiveStates /\ st[u] \in ActiveStates => t = u

\* Before handleStartTask has sent the commands of a task, nothing of it is
\* anywhere: no command, no running agent, no node, no report, no stop.
Sent(t) == startPc[t] \notin {"idle", "assign", "save", "dispatch"}
SentOnly ==
    /\ \A a \in Agents:
         /\ \A i \in DOMAIN cmds[a]: Sent(cmds[a][i].task)
         /\ run[a] # NoTask => Sent(run[a])
         /\ node[a].task # NoTask => Sent(node[a].task)
         /\ \A t \in outbox[a]: Sent(t)
         /\ \A t \in Tasks: reports[t][a] = "real" => Sent(t)
    /\ \A t \in Tasks: stopPc[t] # "idle" => Sent(t)
    /\ \A p \in Jobs: job[p].pc = "schedule" => Sent(job[p].task)

\* Only the first command of a session has an outcome, and the start of a task
\* is the first command of that task.
StartComesFirst ==
    \A a \in Agents: \A i, j \in DOMAIN cmds[a]: i < j =>
        /\ cmds[a][j].outcome = "none"
        /\ cmds[a][j].kind = "start" => cmds[a][i].task # cmds[a][j].task

\* An agent that has run the active task runs no other one, has rejected none
\* of its commands and will not start it again.
Ran(a, t) == run[a] = t \/ t \in outbox[a] \/ reports[t][a] = "real"
RanOk(a, t) ==
    Ran(a, t) =>
        /\ run[a] \in {t, NoTask}
        /\ \A i \in DOMAIN cmds[a]: cmds[a][i].task = t =>
             /\ cmds[a][i].outcome # "rejected"
             /\ cmds[a][i].kind = "start" => cmds[a][i].outcome = "applied"
RanOnce == \A a \in Agents, t \in Tasks: st[t] \in ActiveStates => RanOk(a, t)

\* What the operations on a queue of commands do to its elements.
LEMMA CommandIn ==
    ASSUME TypeOK, NEW a \in Agents, NEW i \in DOMAIN cmds[a]
    PROVE  /\ cmds[a][i] \in Commands /\ cmds[a][i].task \in Tasks
           /\ i \in 1..Len(cmds[a]) /\ Len(cmds[a]) \in Nat
<1>1. cmds[a] \in Seq(Commands)
  BY DEF TypeOK
<1>2. /\ cmds[a][i] \in Commands /\ i \in 1..Len(cmds[a]) /\ Len(cmds[a]) \in Nat
  BY <1>1
<1> QED BY <1>2, CommandRecord

LEMMA ScheduleQueue ==
    ASSUME TypeOK, NEW t \in Tasks, NEW S, NEW kind \in {"start", "stop"}, Schedule(kind, t, S)
    PROVE  \A b \in Agents: \A i \in DOMAIN cmds'[b]:
             \/ i \in DOMAIN cmds[b] /\ cmds'[b][i] = cmds[b][i]
             \/ /\ i = Len(cmds[b]) + 1
                /\ cmds'[b][i].kind = kind /\ cmds'[b][i].task = t /\ cmds'[b][i].outcome = "none"
<1> DEFINE c == [kind |-> kind, task |-> t, outcome |-> "none"]
           Add(q) == IF q # <<>> /\ q[Len(q)] = c THEN q ELSE Append(q, c)
<1>1. c \in Commands /\ c.kind = kind /\ c.task = t /\ c.outcome = "none"
  BY NewCommand
<1>2. cmds' = [a \in Agents |-> IF a \in S THEN Add(cmds[a]) ELSE cmds[a]]
  BY DEF Schedule
<1> HIDE DEF c
<1>3. \A q \in Seq(Commands): \A i \in DOMAIN Add(q):
         \/ i \in DOMAIN q /\ Add(q)[i] = q[i]
         \/ i = Len(q) + 1 /\ Add(q)[i] = c
  BY <1>1
<1> HIDE DEF Add
<1>4. SUFFICES ASSUME NEW b \in Agents, NEW i \in DOMAIN cmds'[b]
               PROVE  \/ i \in DOMAIN cmds[b] /\ cmds'[b][i] = cmds[b][i]
                      \/ i = Len(cmds[b]) + 1 /\ cmds'[b][i] = c
  BY <1>1
<1>5. cmds[b] \in Seq(Commands) /\ cmds'[b] = IF b \in S THEN Add(cmds[b]) ELSE cmds[b]
  BY <1>2 DEF TypeOK
<1> QED BY <1>3, <1>4, <1>5

LEMMA ConfirmQueue ==
    ASSUME TypeOK, NEW a \in Agents, cmds[a] # <<>>, Confirm(a)
    PROVE  /\ \A b \in Agents: b # a => cmds'[b] = cmds[b]
           /\ \A i \in DOMAIN cmds'[a]: /\ i \in Nat /\ i + 1 \in DOMAIN cmds[a]
                                        /\ cmds'[a][i] = cmds[a][i + 1]
<1>1. cmds[a] \in Seq(Commands) /\ cmds'[a] = Tail(cmds[a])
  BY DEF TypeOK, Confirm
<1>2. \A i \in DOMAIN Tail(cmds[a]): /\ i \in Nat /\ i + 1 \in DOMAIN cmds[a]
                                     /\ Tail(cmds[a])[i] = cmds[a][i + 1]
  BY <1>1
<1> QED BY <1>1, <1>2 DEF TypeOK, Confirm

LEMMA KeepQueue ==
    ASSUME TypeOK, NEW a \in Agents, cmds[a] # <<>>,
           NEW outcome \in {"applied", "rejected"}, Keep(a, outcome)
    PROVE  /\ \A b \in Agents: b # a => cmds'[b] = cmds[b]
           /\ DOMAIN cmds'[a] = DOMAIN cmds[a] /\ 1 \in DOMAIN cmds[a]
           /\ \A i \in DOMAIN cmds[a]: i # 1 => cmds'[a][i] = cmds[a][i]
           /\ cmds'[a][1].kind = cmds[a][1].kind /\ cmds'[a][1].task = cmds[a][1].task
           /\ cmds'[a][1].outcome = outcome
<1> DEFINE r == [cmds[a][1] EXCEPT !.outcome = outcome]
<1>1. cmds[a] \in Seq(Commands) /\ 1 \in DOMAIN cmds[a] /\ cmds[a][1] \in Commands
  BY DEF TypeOK
<1>2. r.kind = cmds[a][1].kind /\ r.task = cmds[a][1].task /\ r.outcome = outcome
  BY <1>1 DEF Commands
<1>3. cmds' = [cmds EXCEPT ![a] = [cmds[a] EXCEPT ![1] = r]]
  BY <1>1 DEF Keep, TypeOK
<1> HIDE DEF r
<1>4. /\ \A b \in Agents: b # a => cmds'[b] = cmds[b]
      /\ cmds'[a] = [cmds[a] EXCEPT ![1] = r]
  BY <1>3 DEF TypeOK
<1> QED BY <1>1, <1>2, <1>4

\* A task becomes active only out of pending, and only when no other one is.
LEMMA ActiveBegins ==
    ASSUME LifeInv, [Next]_vars, NEW t \in Tasks, st'[t] \in ActiveStates
    PROVE  /\ st[t] \in ActiveStates \cup {"pending"}
           /\ st[t] \notin ActiveStates =>
                /\ \A u \in Tasks: st[u] \notin ActiveStates
                /\ \A u \in Tasks: u # t => st'[u] = st[u]
<1>1. st \in [Tasks -> States]
  BY DEF LifeInv, TypeOK
<1>2. CASE UNCHANGED Contract!vars
  BY <1>2 DEF Contract!vars
<1>3. CASE Contract!Next
  <2>1. PICK u \in Tasks: \/ \E S \in SUBSET Agents: Contract!Enlist(u, S) \/ Contract!Record(u, S)
                          \/ \E to \in Contract!States: Contract!Advance(u, to)
    BY <1>3 DEF Contract!Next
  <2>2. CASE \E S \in SUBSET Agents: Contract!Enlist(u, S) \/ Contract!Record(u, S)
    BY <2>2 DEF Contract!Enlist, Contract!Record
  <2>3. ASSUME NEW to \in Contract!States, Contract!Advance(u, to)
        PROVE  /\ st[t] \in ActiveStates \cup {"pending"}
               /\ st[t] \notin ActiveStates =>
                    /\ \A v \in Tasks: st[v] \notin ActiveStates
                    /\ \A v \in Tasks: v # t => st'[v] = st[v]
    BY <1>1, <2>3 DEF Contract!Advance, Contract!ValidTransition, Contract!ActiveStates,
                      ActiveStates
  <2> QED BY <2>1, <2>2, <2>3
<1> QED BY <1>2, <1>3, ContractStep

LEMMA OneActiveNext ==
    ASSUME LifeInv, OneActive, [Next]_vars
    PROVE  OneActive'
BY ActiveBegins DEF OneActive

-----------------------------------------------------------------------------
\* Nothing of a task exists before its commands are sent.

LEMMA SentStays ==
    ASSUME LifeInv, [Next]_vars, NEW t \in Tasks, Sent(t)
    PROVE  Sent(t)'
<1> USE DEF LifeInv
<1>1. CASE UNCHANGED startPc
  BY <1>1 DEF Sent
<1>2. ASSUME NEW u \in Tasks, StartTask(u) \/ StopTask(u) \/ HandlerStep(u) \/ DeadlinePasses(u)
      PROVE  Sent(t)'
  <2>1. CASE StartTask(u)
    BY <2>1 DEF StartTask, Sent, StartsInOrder, TypeOK
  <2>2. CASE StopTask(u) \/ DeadlinePasses(u)
    BY <1>1, <2>2 DEF StopTask, DeadlinePasses, handlerVars
  <2>3. CASE HandlerStep(u)
    BY <2>3 DEF HandlerStep, StartRefused, Assign, SaveAssignments, DispatchStart, StartRuns,
         StartFails, FinishIfFullyReported, FinishStops, StopSchedules, StopRollsBack,
         SynthesizeOfflineReports, StopEnds, StopTimeout, StopTimeoutEnds, Sent, TypeOK
  <2> QED BY <1>2, <2>1, <2>2, <2>3
<1>3. CASE HealthStep \/ \E p \in Jobs: JobStep(p)
  BY <1>1, <1>3 DEF HealthStep, ScanAndMarkStatus, OnAgentOffline, JobStep, SynthesizeOne,
       JobStops, OnAgentRestart, SynthesizeRestarted, CheckAllLost, ProbeNode, AutoStopTask,
       AutoStopFailsStart, AutoStopBegins, AutoStopSchedules, AutoStopSynthesizes, AutoStopEnds,
       handlerVars
<1>4. ASSUME NEW a \in Agents,
             \/ HandshakeStep(a) \/ Heartbeat(a) \/ CommandStep(a) \/ RunStep(a)
             \/ (\E u \in Tasks: ReceiveReport(a, u))
             \/ Disconnect(a) \/ Crash(a) \/ Boot(a)
      PROVE  Sent(t)'
  BY <1>1, <1>4 DEF HandshakeStep, Register, Welcome, AcceptMoves, Heartbeat, CommandStep,
       DropStart, ExecuteStart, ReplayStart, RejectStart, ExecuteStop, RejectStop, RunStep,
       LeaseExpires, RunnerReturns, FreeSlot, ReceiveReport, Disconnect, Crash, Boot, handlerVars
<1>5. CASE UNCHANGED vars
  BY <1>1, <1>5 DEF vars, handlerVars
<1> QED BY <1>2, <1>3, <1>4, <1>5 DEF Next

\* A step that makes nothing of a task that is not sent.
LEMMA SentStep ==
    ASSUME LifeInv, SentOnly, [Next]_vars,
           \A a \in Agents: \A i \in DOMAIN cmds'[a]:
             \/ \E j \in DOMAIN cmds[a]: cmds'[a][i].task = cmds[a][j].task
             \/ cmds'[a][i].task \in Tasks /\ Sent(cmds[a][i].task)',
           \A a \in Agents: run'[a] \in {run[a], NoTask} \/ Sent(run[a])',
           \A a \in Agents: node'[a].task \in {node[a].task, NoTask} \/ Sent(node[a].task)',
           \A a \in Agents: \A t \in outbox'[a]: t \in outbox[a] \/ Sent(t)',
           \A a \in Agents, t \in Tasks: reports'[t][a] = "real" => reports[t][a] = "real" \/ Sent(t)',
           \A t \in Tasks: stopPc'[t] # "idle" => stopPc[t] # "idle" \/ Sent(t)',
           \A p \in Jobs: job'[p].pc = "schedule" => job'[p] = job[p] \/ Sent(job[p].task)'
    PROVE  SentOnly'
<1>1. \A t \in Tasks: Sent(t) => Sent(t)'
  BY SentStays
<1>2. \A a \in Agents: \A i \in DOMAIN cmds'[a]: Sent(cmds[a][i].task)'
  <2> SUFFICES ASSUME NEW a \in Agents, NEW i \in DOMAIN cmds'[a],
                      NEW j \in DOMAIN cmds[a], cmds'[a][i].task = cmds[a][j].task
               PROVE  Sent(cmds[a][i].task)'
    OBVIOUS
  <2>1. cmds[a][j].task \in Tasks /\ Sent(cmds[a][j].task)
    BY CommandIn DEF SentOnly, LifeInv
  <2> QED BY <1>1, <2>1 DEF Sent
<1>3. ASSUME NEW a \in Agents
      PROVE  /\ run'[a] # NoTask => Sent(run[a])'
             /\ node'[a].task # NoTask => Sent(node[a].task)'
             /\ \A t \in outbox'[a]: Sent(t)'
             /\ \A t \in Tasks: reports'[t][a] = "real" => Sent(t)'
  <2>1. /\ run[a] \in Tasks \cup {NoTask} /\ node[a].task \in Tasks \cup {NoTask}
        /\ outbox[a] \subseteq Tasks
    BY <1>3, NodeTask DEF LifeInv, TypeOK
  <2>2. run'[a] # NoTask => Sent(run[a])'
    BY <1>1, <1>3, <2>1 DEF SentOnly, Sent
  <2>3. node'[a].task # NoTask => Sent(node[a].task)'
    BY <1>1, <1>3, <2>1 DEF SentOnly, Sent
  <2> QED BY <1>1, <1>3, <2>1, <2>2, <2>3 DEF SentOnly
<1>4. \A t \in Tasks: stopPc'[t] # "idle" => Sent(t)'
  BY <1>1 DEF SentOnly
<1>5. \A p \in Jobs: job'[p].pc = "schedule" => Sent(job[p].task)'
  <2> SUFFICES ASSUME NEW p \in Jobs, job'[p].pc = "schedule", job'[p] = job[p]
               PROVE  Sent(job[p].task)'
    OBVIOUS
  <2>1. job[p].task \in Tasks /\ Sent(job[p].task)
    BY DEF SentOnly, LifeInv, DecisionsHold
  <2> QED BY <1>1, <2>1 DEF Sent
<1> QED BY <1>2, <1>3, <1>4, <1>5 DEF SentOnly

\* The steps that create nothing at all.
LEMMA SentRests ==
    ASSUME LifeInv, SentOnly, [Next]_vars, UNCHANGED <<cmds, run, outbox, stopPc>>,
           \A a \in Agents: node'[a].task \in {node[a].task, NoTask},
           \A a \in Agents, t \in Tasks: reports'[t][a] = "real" => reports[t][a] = "real",
           \A p \in Jobs: job'[p].pc = "schedule" => job'[p] = job[p]
    PROVE  SentOnly'
BY SentStep

LEMMA SentHandler ==
    ASSUME LifeInv, SentOnly, [Next]_vars, NEW t \in Tasks,
           StartTask(t) \/ StopTask(t) \/ HandlerStep(t) \/ DeadlinePasses(t)
    PROVE  SentOnly'
<1> USE DEF LifeInv
<1>1. CASE UNCHANGED <<cmds, run, outbox, stopPc, node, reports, job>>
  BY <1>1, SentRests
<1>2. CASE StopTask(t)
  <2>1. Sent(t)' /\ \A u \in Tasks: u # t => stopPc'[u] = stopPc[u]
    BY <1>2 DEF StopTask, Sent, StartsInOrder, TypeOK
  <2> QED BY <1>2, <2>1, SentStep DEF StopTask, registryVars, sessionVars, jobVars, agentVars
<1>3. CASE DispatchStart(t)
  <2> USE <1>3 DEF DispatchStart
  <2>1. Sent(t)'
    BY DEF Sent, TypeOK
  <2>2. \A a \in Agents: \A i \in DOMAIN cmds'[a]:
             \/ \E j \in DOMAIN cmds[a]: cmds'[a][i].task = cmds[a][j].task
             \/ cmds'[a][i].task = t
    BY ScheduleQueue
  <2>3. \A a \in Agents: \A i \in DOMAIN cmds'[a]:
             \/ \E j \in DOMAIN cmds[a]: cmds'[a][i].task = cmds[a][j].task
             \/ cmds'[a][i].task \in Tasks /\ Sent(cmds[a][i].task)'
    BY <2>1, <2>2 DEF Sent
  <2> QED BY <2>3, SentStep DEF taskVars, registryVars, jobVars, agentVars
<1>4. CASE StopSchedules(t)
  <2> USE <1>4 DEF StopSchedules
  <2>1. Sent(t) /\ Sent(t)'
    BY DEF SentOnly, Sent
  <2>2. \A a \in Agents: \A i \in DOMAIN cmds'[a]:
             \/ \E j \in DOMAIN cmds[a]: cmds'[a][i].task = cmds[a][j].task
             \/ cmds'[a][i].task = t
    BY ScheduleQueue
  <2>3. \A a \in Agents: \A i \in DOMAIN cmds'[a]:
             \/ \E j \in DOMAIN cmds[a]: cmds'[a][i].task = cmds[a][j].task
             \/ cmds'[a][i].task \in Tasks /\ Sent(cmds[a][i].task)'
    BY <2>1, <2>2 DEF Sent
  <2>4. \A u \in Tasks: stopPc'[u] # "idle" => stopPc[u] # "idle"
    BY DEF TypeOK
  <2> QED BY <2>3, <2>4, SentStep DEF taskVars, registryVars, jobVars, agentVars
<1>5. CASE StopRollsBack(t) \/ StopEnds(t)
  <2>1. \A u \in Tasks: stopPc'[u] # "idle" => stopPc[u] # "idle"
    BY <1>5 DEF StopRollsBack, StopEnds, TypeOK
  <2> QED BY <1>5, <2>1, SentStep DEF StopRollsBack, StopEnds, registryVars, sessionVars, jobVars,
                                      agentVars
<1>6. CASE SynthesizeOfflineReports(t) \/ StopTimeout(t)
  <2>1. \A u \in Tasks: stopPc'[u] # "idle" => stopPc[u] # "idle"
    BY <1>6 DEF SynthesizeOfflineReports, StopTimeout, TypeOK
  <2>2. \A a \in Agents, u \in Tasks: reports'[u][a] = "real" => reports[u][a] = "real"
    BY <1>6, SynthesizeStep DEF SynthesizeOfflineReports, StopTimeout, TypeOK
  <2> QED BY <1>6, <2>1, <2>2, SentStep DEF SynthesizeOfflineReports, StopTimeout, registryVars,
                                      sessionVars, jobVars, agentVars
<1>7. CASE DeadlinePasses(t)
  <2> DEFINE j == [pc |-> "probe", task |-> t, agent |-> NoAgent, todo |-> {}]
  <2>1. job' = [job EXCEPT ![Watchdog] = j] /\ j.pc = "probe"
    BY <1>7 DEF DeadlinePasses
  <2> HIDE DEF j
  <2>2. \A p \in Jobs: job'[p].pc = "schedule" => job'[p] = job[p]
    BY <2>1 DEF TypeOK
  <2> QED BY <1>7, <2>2, SentRests DEF DeadlinePasses, taskVars, handlerVars, registryVars,
                                       sessionVars, agentVars
<1> QED BY <1>1, <1>2, <1>3, <1>4, <1>5, <1>6, <1>7
        DEF HandlerStep, StartTask, StartRefused, Assign, SaveAssignments, StartRuns, StartFails,
            FinishIfFullyReported, FinishStops, StopTimeoutEnds, taskVars, handlerVars,
            registryVars, sessionVars, jobVars, agentVars

LEMMA SentJob ==
    ASSUME LifeInv, SentOnly, [Next]_vars, NEW p \in Jobs, JobStep(p)
    PROVE  SentOnly'
<1> USE DEF LifeInv
<1> DEFINE t == job[p].task
<1>1. job[p] \in Callbacks /\ (job[p].pc # "idle" => t \in Tasks)
  BY DEF TypeOK, DecisionsHold
<1>2. /\ UNCHANGED <<run, outbox, stopPc, node>>
      /\ cmds' = cmds \/ (AutoStopSchedules(p) /\ Schedule("stop", t, assigned[t]))
  BY DEF JobStep, SynthesizeOne, JobStops, OnAgentRestart, SynthesizeRestarted, CheckAllLost,
         ProbeNode, AutoStopTask, AutoStopFailsStart, AutoStopBegins, AutoStopSchedules,
         AutoStopSynthesizes, AutoStopEnds, handlerVars, registryVars, sessionVars, agentVars
<1>3. \A a \in Agents, u \in Tasks: reports'[u][a] = "real" => reports[u][a] = "real"
  <2>1. \/ reports' = reports
        \/ job[p].pc # "idle" /\ \E S: Synthesize(t, S)
    BY DEF JobStep, SynthesizeOne, JobStops, OnAgentRestart, SynthesizeRestarted, CheckAllLost,
         ProbeNode, AutoStopTask, AutoStopFailsStart, AutoStopBegins, AutoStopSchedules,
         AutoStopSynthesizes, AutoStopEnds, taskVars
  <2> QED BY <1>1, <2>1, SynthesizeStep DEF TypeOK
<1>4. ASSUME NEW pc \in JobPcs, Goto(p, pc)
      PROVE  /\ job'[p].pc = pc /\ job'[p].task = t
             /\ \A q \in Jobs: q # p => job'[q] = job[q]
  BY <1>4, GotoStep
<1>5. ASSUME EndJob(p)
      PROVE  job'[p].pc = "idle" /\ \A q \in Jobs: q # p => job'[q] = job[q]
  BY <1>5, EndJobStep DEF NoJob
<1>6. ASSUME CheckAllLost(p) \/ \E a \in Agents: ProbeNode(p, a)
      PROVE  job'[p].pc # "schedule" /\ \A q \in Jobs: q # p => job'[q] = job[q]
  <2>1. CASE EndJob(p)
    BY <1>5, <2>1
  <2>2. ASSUME NEW S, job' = [job EXCEPT ![p].pc = "probe", ![p].todo = S]
        PROVE  job'[p].pc # "schedule" /\ \A q \in Jobs: q # p => job'[q] = job[q]
    <3> DEFINE r == [[job[p] EXCEPT !.pc = "probe"] EXCEPT !.todo = S]
    <3>1. job' = [job EXCEPT ![p] = r]
      BY <2>2 DEF TypeOK
    <3>2. [job[p] EXCEPT !.pc = "probe"] \in Callbacks
      BY <1>1, CallbackRecord DEF JobPcs
    <3>3. r.pc = "probe"
      BY <1>1, <3>2, CallbackFields
    <3> HIDE DEF r
    <3> QED BY <3>1, <3>3 DEF TypeOK
  <2>3. ASSUME job[p].pc = "probe", NEW S, job' = [job EXCEPT ![p].todo = S]
        PROVE  job'[p].pc # "schedule" /\ \A q \in Jobs: q # p => job'[q] = job[q]
    <3> DEFINE r == [job[p] EXCEPT !.todo = S]
    <3>1. job' = [job EXCEPT ![p] = r] /\ r.pc = "probe"
      BY <1>1, <2>3, CallbackFields DEF TypeOK
    <3> HIDE DEF r
    <3> QED BY <3>1 DEF TypeOK
  <2>4. CASE CheckAllLost(p)
    BY <2>1, <2>2, <2>4 DEF CheckAllLost
  <2>5. ASSUME NEW a \in Agents, ProbeNode(p, a)
        PROVE  job'[p].pc # "schedule" /\ \A q \in Jobs: q # p => job'[q] = job[q]
    <3>1. EndJob(p) \/ job' = [job EXCEPT ![p].todo = job[p].todo \ {a}]
      BY <2>5 DEF ProbeNode, TypeOK
    <3> QED BY <2>1, <2>3, <2>5, <3>1 DEF ProbeNode
  <2> QED BY <1>6, <2>4, <2>5
<1>7. \A q \in Jobs: job'[q].pc = "schedule" => job'[q] = job[q] \/ Sent(job[q].task)'
  <2>1. \A q \in Jobs: q # p => job'[q] = job[q]
    <3>1. CASE EndJob(p) \/ \E pc \in JobPcs: Goto(p, pc)
      BY <1>4, <1>5, <3>1
    <3>2. CASE CheckAllLost(p) \/ \E a \in Agents: ProbeNode(p, a)
      BY <1>6, <3>2
    <3>3. \/ EndJob(p) \/ CheckAllLost(p) \/ \E pc \in JobPcs: Goto(p, pc)
          \/ \E a \in Agents: ProbeNode(p, a)
      BY DEF JobStep, SynthesizeOne, JobStops, OnAgentRestart, SynthesizeRestarted,
             AutoStopTask, AutoStopFailsStart, AutoStopBegins, AutoStopSchedules,
             AutoStopSynthesizes, AutoStopEnds, JobPcs
    <3> QED BY <3>1, <3>2, <3>3
  <2>2. job'[p].pc = "schedule" => Sent(job[p].task)'
    <3> SUFFICES ASSUME job'[p].pc = "schedule" PROVE Sent(job[p].task)'
      OBVIOUS
    <3>1. CASE AutoStopTask(p)
      <4>1. job'[p].task = t /\ t \in Tasks /\ st[t] = "stopping" /\ startPc' = startPc
        BY <1>1, <1>4, <1>5, <3>1 DEF AutoStopTask, JobPcs, handlerVars
      <4> QED BY <4>1 DEF StartsInOrder, Sent
    <3>2. CASE AutoStopBegins(p)
      <4>1. job'[p].task = t /\ t \in Tasks /\ st[t] = "running" /\ startPc' = startPc
        BY <1>1, <1>4, <1>5, <3>2 DEF AutoStopBegins, JobPcs, handlerVars
      <4> QED BY <4>1 DEF StartsInOrder, Sent
    <3>3. CASE CheckAllLost(p) \/ \E a \in Agents: ProbeNode(p, a)
      BY <1>6, <3>3
    <3>4. CASE \/ SynthesizeOne(p) \/ JobStops(p) \/ OnAgentRestart(p) \/ SynthesizeRestarted(p)
               \/ AutoStopFailsStart(p) \/ AutoStopSchedules(p) \/ AutoStopSynthesizes(p)
               \/ AutoStopEnds(p)
      BY <1>4, <1>5, <3>4 DEF SynthesizeOne, JobStops, OnAgentRestart, SynthesizeRestarted,
           AutoStopFailsStart, AutoStopSchedules, AutoStopSynthesizes, AutoStopEnds, JobPcs
    <3> QED BY <3>1, <3>2, <3>3, <3>4 DEF JobStep
  <2> QED BY <2>1, <2>2
<1>8. \A a \in Agents: \A i \in DOMAIN cmds'[a]:
          \/ \E j \in DOMAIN cmds[a]: cmds'[a][i].task = cmds[a][j].task
          \/ cmds'[a][i].task \in Tasks /\ Sent(cmds[a][i].task)'
  <2>1. CASE cmds' = cmds
    BY <2>1
  <2>2. CASE AutoStopSchedules(p) /\ Schedule("stop", t, assigned[t])
    <3>1. t \in Tasks /\ Sent(t) /\ startPc' = startPc
      BY <1>1, <2>2 DEF AutoStopSchedules, SentOnly, handlerVars
    <3>2. \A a \in Agents: \A i \in DOMAIN cmds'[a]:
             \/ \E j \in DOMAIN cmds[a]: cmds'[a][i].task = cmds[a][j].task
             \/ cmds'[a][i].task = t
      BY <2>2, <3>1, ScheduleQueue
    <3> QED BY <3>1, <3>2 DEF Sent
  <2> QED BY <1>2, <2>1, <2>2
<1> QED BY <1>2, <1>3, <1>7, <1>8, SentStep

LEMMA AckReportStep ==
    ASSUME TypeOK, NEW a \in Agents, NEW t, UNCHANGED outbox \/ AckReport(a, t)
    PROVE  \A b \in Agents: outbox'[b] \subseteq outbox[b]
<1>1. outbox' = outbox \/ outbox' = [outbox EXCEPT ![a] = outbox[a] \ {t}]
  BY DEF AckReport
<1>2. \A b \in Agents: outbox'[b] = outbox[b] \/ outbox'[b] = outbox[b] \ {t}
  BY <1>1 DEF TypeOK
<1> QED BY <1>2

LEMMA SentSession ==
    ASSUME LifeInv, RejectKept, SentOnly, [Next]_vars, NEW a \in Agents,
           \/ HandshakeStep(a) \/ Heartbeat(a) \/ CommandStep(a) \/ RunStep(a)
           \/ (\E t \in Tasks: ReceiveReport(a, t))
           \/ Disconnect(a) \/ Crash(a) \/ Boot(a)
    PROVE  SentOnly'
<1> USE DEF LifeInv
<1>1. UNCHANGED <<startPc, stopPc>>
  BY DEF HandshakeStep, Register, Welcome, AcceptMoves, Heartbeat, CommandStep, DropStart,
         ExecuteStart, ReplayStart, RejectStart, ExecuteStop, RejectStop, RunStep, LeaseExpires,
         RunnerReturns, FreeSlot, ReceiveReport, Disconnect, Crash, Boot, handlerVars
<1>2. \A t \in Tasks: Sent(t)' <=> Sent(t)
  BY <1>1 DEF Sent
<1>3. \A p \in Jobs: job'[p].pc = "schedule" => job'[p] = job[p]
  <2>1. CASE Register(a)
    <3> DEFINE j == [pc |-> "restarted", task |-> inst[a], agent |-> a, todo |-> {}]
    <3>1. (job' = job \/ job' = [job EXCEPT ![a] = j]) /\ j.pc = "restarted"
      BY <2>1 DEF Register
    <3> HIDE DEF j
    <3> QED BY <3>1 DEF TypeOK
  <2>2. Register(a) \/ UNCHANGED job
    BY DEF HandshakeStep, Welcome, AcceptMoves, Heartbeat, CommandStep, DropStart,
         ExecuteStart, ReplayStart, RejectStart, ExecuteStop, RejectStop, RunStep, LeaseExpires,
         RunnerReturns, FreeSlot, ReceiveReport, Disconnect, Crash, Boot, jobVars
  <2> QED BY <2>1, <2>2
\* Commands are confirmed, get an outcome, or stop what the agent runs.
<1>4. ASSUME \/ cmds' = cmds
             \/ cmds[a] # <<>> /\ Confirm(a)
             \/ cmds[a] # <<>> /\ \E o \in {"applied", "rejected"}: Keep(a, o)
             \/ \E t \in Tasks: Sent(t) /\ \E S: Schedule("stop", t, S)
      PROVE  \A b \in Agents: \A i \in DOMAIN cmds'[b]:
               \/ \E j \in DOMAIN cmds[b]: cmds'[b][i].task = cmds[b][j].task
               \/ cmds'[b][i].task \in Tasks /\ Sent(cmds[b][i].task)'
  <2>1. CASE cmds' = cmds
    BY <2>1
  <2>2. CASE cmds[a] # <<>> /\ Confirm(a)
    BY <2>2, ConfirmQueue
  <2>3. CASE cmds[a] # <<>> /\ \E o \in {"applied", "rejected"}: Keep(a, o)
    BY <2>3, KeepQueue
  <2>4. ASSUME NEW t \in Tasks, Sent(t), NEW S, Schedule("stop", t, S)
        PROVE  \A b \in Agents: \A i \in DOMAIN cmds'[b]:
                 \/ \E j \in DOMAIN cmds[b]: cmds'[b][i].task = cmds[b][j].task
                 \/ cmds'[b][i].task \in Tasks /\ Sent(cmds[b][i].task)'
    <3>1. \A b \in Agents: \A i \in DOMAIN cmds'[b]:
             \/ \E j \in DOMAIN cmds[b]: cmds'[b][i].task = cmds[b][j].task
             \/ cmds'[b][i].task = t
      BY <2>4, ScheduleQueue
    <3> QED BY <1>2, <2>4, <3>1 DEF Sent
  <2> QED BY <1>4, <2>1, <2>2, <2>3, <2>4
\* The node is deleted, free, or shows a task that was sent.
<1>5. ASSUME NEW t \in Tasks \cup {NoTask}, t # NoTask => Sent(t),
             node' = node \/ node' = [node EXCEPT ![a] = NodeOf(t)]
      PROVE  \A b \in Agents: node'[b].task \in {node[b].task, NoTask} \/ Sent(node[b].task)'
  <2>1. NodeOf(t).task = t
    BY DEF NodeOf
  <2>2. \A b \in Agents: node'[b] = node[b] \/ node'[b] = NodeOf(t)
    BY <1>5 DEF TypeOK
  <2> QED BY <1>1, <1>5, <2>1, <2>2 DEF Sent
<1>6. run[a] \in Tasks \cup {NoTask} /\ (run[a] # NoTask => Sent(run[a]))
  BY DEF TypeOK, SentOnly
<1>7. cmds[a] # <<>> => Head(cmds[a]).task \in Tasks /\ Sent(Head(cmds[a]).task)
  <2>1. cmds[a] # <<>> => 1 \in DOMAIN cmds[a]
    BY DEF TypeOK
  <2> QED BY <2>1, HeadType DEF SentOnly
<1>8. CASE Register(a)
  <2> USE <1>8 DEF Register
  <2>1. \A b \in Agents: node'[b].task \in {node[b].task, NoTask} \/ Sent(node[b].task)'
    BY <1>5, <1>6
  <2> QED BY <1>3, <2>1, SentStep DEF taskVars, handlerVars
<1>9. CASE Welcome(a)
  <2> USE <1>9 DEF Welcome
  <2>1. cmds' = cmds \/ \E t \in Tasks: Sent(t) /\ \E S: Schedule("stop", t, S)
    <3>1. node[a].task \in Tasks \cup {NoTask} /\ (node[a].task # NoTask => Sent(node[a].task))
      BY NodeTask DEF TypeOK, SentOnly
    <3> QED BY <3>1
  <2> QED BY <1>1, <1>3, <1>4, <2>1, SentStep DEF taskVars, registryVars, agentVars
<1>10. CASE AcceptMoves(a)
  <2> USE <1>10 DEF AcceptMoves
  <2>1. cmds' = cmds \/ (cmds[a] # <<>> /\ Confirm(a))
    BY DEF RejectKept
  <2>2. \A b \in Agents: \A t \in outbox'[b]: t \in outbox[b]
    BY AckReportStep
  <2> QED BY <1>1, <1>3, <1>4, <2>1, <2>2, SentStep DEF registryVars
<1>11. CASE Heartbeat(a)
  <2> USE <1>11 DEF Heartbeat
  <2>1. cmds' = cmds \/ \E t \in Tasks: Sent(t) /\ \E S: Schedule("stop", t, S)
    BY <1>6
  <2>2. \A b \in Agents: node'[b].task \in {node[b].task, NoTask} \/ Sent(node[b].task)'
    BY <1>5, <1>6 DEF NodeHeartbeat
  <2> QED BY <1>1, <1>3, <1>4, <2>1, <2>2, SentStep DEF taskVars, agentVars
<1>12. CASE DropStart(a) \/ ExecuteStop(a)
  <2>1. /\ cmds[a] # <<>> /\ Confirm(a)
        /\ UNCHANGED <<run, outbox, reports, node>>
    BY <1>12 DEF DropStart, ExecuteStop, HeadCommand, taskVars, registryVars, agentVars
  <2> QED BY <1>1, <1>3, <1>4, <2>1, SentStep
<1>13. CASE ExecuteStart(a) \/ ReplayStart(a)
  <2> DEFINE t == Head(cmds[a]).task
  <2>1. /\ cmds[a] # <<>> /\ AckStart(a, t)
        /\ UNCHANGED <<outbox, reports>>
        /\ run' = run \/ run' = [run EXCEPT ![a] = t]
    BY <1>13 DEF ExecuteStart, ReplayStart, HeadCommand, taskVars, agentVars
  <2>2. t \in Tasks /\ Sent(t)
    BY <1>7, <2>1
  <2>3. (cmds[a] # <<>> /\ Confirm(a)) \/ (cmds[a] # <<>> /\ Keep(a, "applied"))
    BY <2>1 DEF AckStart
  <2>4. \A b \in Agents: node'[b].task \in {node[b].task, NoTask} \/ Sent(node[b].task)'
    BY <1>5, <2>1, <2>2 DEF AckStart
  <2>5. \A b \in Agents: run'[b] \in {run[b], NoTask} \/ Sent(run[b])'
    <3>1. \A b \in Agents: run'[b] = run[b] \/ run'[b] = t
      BY <2>1 DEF TypeOK
    <3> QED BY <1>1, <2>2, <3>1 DEF Sent
  <2> QED BY <1>1, <1>3, <1>4, <2>1, <2>3, <2>4, <2>5, SentStep
<1>14. CASE RejectStart(a) \/ RejectStop(a)
  <2>1. /\ cmds[a] # <<>> /\ accept[a].pc = "idle" /\ UNCHANGED <<run, outbox>>
        /\ Accept(a, Head(cmds[a]).task, "synth")
        /\ Confirm(a) \/ Keep(a, "rejected")
    BY <1>14 DEF RejectStart, RejectStop, HeadCommand, Reject, agentVars
  <2>2. \A b \in Agents, u \in Tasks: reports'[u][b] = "real" => reports[u][b] = "real"
    BY <1>7, <2>1, AcceptStep
  <2>3. node' = node \/ node' = [node EXCEPT ![a] = NodeOf(NoTask)]
    BY <2>1 DEF Accept, CompleteTask
  <2>4. \A b \in Agents: node'[b].task \in {node[b].task, NoTask} \/ Sent(node[b].task)'
    BY <1>5, <2>3
  <2> QED BY <1>1, <1>3, <1>4, <2>1, <2>2, <2>4, SentStep
<1>15. CASE RunStep(a)
  <2>1. /\ UNCHANGED <<cmds, node, reports>>
        /\ \A b \in Agents: run'[b] \in {run[b], NoTask}
        /\ \A b \in Agents: \A t \in outbox'[b]: t \in outbox[b] \/ (t = run[a] /\ run[a] # NoTask)
    <3>1. CASE LeaseExpires(a)
      BY <3>1 DEF LeaseExpires, taskVars, registryVars, sessionVars
    <3>2. CASE RunnerReturns(a)
      <4>1. outbox' = [outbox EXCEPT ![a] = outbox[a] \cup {run[a]}] /\ run[a] # NoTask
        BY <3>2 DEF RunnerReturns, SlotHeld, TypeOK
      <4>2. \A b \in Agents: outbox'[b] = outbox[b] \/ outbox'[b] = outbox[b] \cup {run[a]}
        BY <4>1 DEF TypeOK
      <4> QED BY <3>2, <4>1, <4>2 DEF RunnerReturns, taskVars, registryVars, sessionVars
    <3>3. CASE FreeSlot(a)
      BY <3>3 DEF FreeSlot, TypeOK, taskVars, registryVars, sessionVars
    <3> QED BY <1>15, <3>1, <3>2, <3>3 DEF RunStep
  <2>2. \A b \in Agents: \A t \in outbox'[b]: t \in outbox[b] \/ Sent(t)'
    BY <1>2, <1>6, <2>1
  <2> QED BY <1>1, <1>3, <2>1, <2>2, SentStep
<1>16. ASSUME NEW t \in Tasks, ReceiveReport(a, t)
       PROVE  SentOnly'
  <2> USE <1>16 DEF ReceiveReport
  <2>1. Sent(t) /\ Sent(t)'
    BY <1>2 DEF SentOnly
  <2>2. \A b \in Agents, u \in Tasks: reports'[u][b] = "real" => reports[u][b] = "real" \/ Sent(u)'
    BY <2>1, AcceptStep
  <2>3. node' = node \/ node' = [node EXCEPT ![a] = NodeOf(NoTask)]
    BY DEF Accept, CompleteTask
  <2>4. \A b \in Agents: node'[b].task \in {node[b].task, NoTask} \/ Sent(node[b].task)'
    BY <1>5, <2>3
  <2>5. \A b \in Agents: \A u \in outbox'[b]: u \in outbox[b]
    BY AckReportStep
  <2> QED BY <1>1, <1>3, <2>2, <2>4, <2>5, SentStep
<1>17. CASE Disconnect(a) \/ Boot(a)
  BY <1>1, <1>3, <1>17, SentStep DEF Disconnect, Boot, taskVars, registryVars, agentVars
<1>18. CASE Crash(a)
  <2> USE <1>18 DEF Crash
  <2>1. cmds' = cmds \/ (cmds[a] # <<>> /\ Confirm(a))
    OBVIOUS
  <2>2. /\ \A b \in Agents: run'[b] \in {run[b], NoTask}
        /\ \A b \in Agents: \A t \in outbox'[b]: t \in outbox[b]
    BY DEF TypeOK
  <2> QED BY <1>1, <1>3, <1>4, <2>1, <2>2, SentStep DEF taskVars, registryVars
<1> QED BY <1>8, <1>9, <1>10, <1>11, <1>12, <1>13, <1>14, <1>15, <1>16, <1>17, <1>18
        DEF HandshakeStep, CommandStep

LEMMA SentNext ==
    ASSUME LifeInv, RejectKept, SentOnly, [Next]_vars
    PROVE  SentOnly'
<1>1. CASE UNCHANGED vars
  BY <1>1, SentRests DEF vars, taskVars, handlerVars, registryVars, sessionVars, jobVars, agentVars
<1>2. CASE ScanAndMarkStatus
  <2>1. \A a \in Agents: node'[a].task \in {node[a].task, NoTask}
    BY <1>2 DEF ScanAndMarkStatus, Gone
  <2> QED BY <1>2, <2>1, SentRests DEF ScanAndMarkStatus, taskVars, handlerVars, sessionVars, agentVars
<1>3. ASSUME NEW a \in Agents, OnAgentOffline(a)
      PROVE  SentOnly'
  <2>1. \A p \in Jobs: job'[p].pc = "schedule" => job'[p] = job[p]
    <3>1. CASE UNCHANGED job
      BY <3>1
    <3>2. ASSUME NEW t \in Tasks,
                 job' = [job EXCEPT ![Health] =
                   [pc |-> IF st[t] = "stopping" THEN "synthOne" ELSE "check",
                    task |-> t, agent |-> a, todo |-> {}]]
          PROVE  \A p \in Jobs: job'[p].pc = "schedule" => job'[p] = job[p]
      <4> DEFINE j == [pc |-> IF st[t] = "stopping" THEN "synthOne" ELSE "check",
                       task |-> t, agent |-> a, todo |-> {}]
      <4>1. job' = [job EXCEPT ![Health] = j] /\ j.pc # "schedule"
        BY <3>2
      <4> HIDE DEF j
      <4> QED BY <4>1 DEF LifeInv, TypeOK
    <3> QED BY <1>3, <3>1, <3>2 DEF OnAgentOffline
  <2> QED BY <1>3, <2>1, SentRests DEF OnAgentOffline, taskVars, handlerVars, registryVars,
                                       sessionVars, agentVars
<1>4. CASE Next
  BY <1>2, <1>3, <1>4, SentHandler, SentJob, SentSession DEF Next, HealthStep
<1> QED BY <1>1, <1>4

-----------------------------------------------------------------------------
\* Starts come first, and what an agent has run it does not run again.

\* All that happens to the queues of commands.
LEMMA CommandsMove ==
    ASSUME LifeInv, RejectKept, [Next]_vars
    PROVE  \/ cmds' = cmds
           \/ \E t \in Tasks: ~Sent(t) /\ \E S: Schedule("start", t, S)
           \/ \E t \in Tasks: \E S: Schedule("stop", t, S)
           \/ \E a \in Agents:
                /\ cmds[a] # <<>>
                /\ \/ Confirm(a) \/ Keep(a, "applied")
                   \/ Keep(a, "rejected") /\ (RejectStart(a) \/ RejectStop(a))
<1> USE DEF LifeInv
<1> DEFINE Goal == \/ cmds' = cmds
                   \/ \E t \in Tasks: ~Sent(t) /\ \E S: Schedule("start", t, S)
                   \/ \E t \in Tasks: \E S: Schedule("stop", t, S)
                   \/ \E a \in Agents:
                        /\ cmds[a] # <<>>
                        /\ \/ Confirm(a) \/ Keep(a, "applied")
                           \/ Keep(a, "rejected") /\ (RejectStart(a) \/ RejectStop(a))
<1>1. CASE UNCHANGED vars \/ HealthStep
  BY <1>1 DEF vars, sessionVars, HealthStep, ScanAndMarkStatus, OnAgentOffline
<1>2. ASSUME NEW t \in Tasks, StartTask(t) \/ StopTask(t) \/ HandlerStep(t) \/ DeadlinePasses(t)
      PROVE  Goal
  BY <1>2 DEF HandlerStep, StartTask, StopTask, DeadlinePasses, StartRefused, Assign,
       SaveAssignments, DispatchStart, StartRuns, StartFails, FinishIfFullyReported, FinishStops,
       StopSchedules, StopRollsBack, SynthesizeOfflineReports, StopEnds, StopTimeout,
       StopTimeoutEnds, sessionVars, Sent
<1>3. ASSUME NEW p \in Jobs, JobStep(p)
      PROVE  Goal
  <2>1. job[p].pc # "idle" => job[p].task \in Tasks
    BY DEF DecisionsHold
  <2>2. cmds' = cmds \/ (job[p].pc # "idle" /\ Schedule("stop", job[p].task, assigned[job[p].task]))
    BY <1>3 DEF JobStep, SynthesizeOne, JobStops, OnAgentRestart, SynthesizeRestarted,
         CheckAllLost, ProbeNode, AutoStopTask, AutoStopFailsStart, AutoStopBegins,
         AutoStopSchedules, AutoStopSynthesizes, AutoStopEnds, sessionVars
  <2> QED BY <2>1, <2>2
<1>4. ASSUME NEW a \in Agents, HandshakeStep(a) \/ Heartbeat(a)
      PROVE  Goal
  <2>1. run[a] \in Tasks \cup {NoTask} /\ node[a].task \in Tasks \cup {NoTask}
    BY NodeTask DEF TypeOK
  <2> QED BY <1>4, <2>1 DEF HandshakeStep, Register, Welcome, AcceptMoves, Heartbeat, RejectKept
<1>5. ASSUME NEW a \in Agents, CommandStep(a)
      PROVE  Goal
  BY <1>5 DEF CommandStep, DropStart, ExecuteStart, ReplayStart, RejectStart, ExecuteStop,
       RejectStop, HeadCommand, AckStart, Reject
<1>6. ASSUME NEW a \in Agents,
             \/ RunStep(a) \/ (\E t \in Tasks: ReceiveReport(a, t))
             \/ Disconnect(a) \/ Crash(a) \/ Boot(a)
      PROVE  Goal
  BY <1>6 DEF RunStep, LeaseExpires, RunnerReturns, FreeSlot, ReceiveReport, Disconnect, Crash,
       Boot, sessionVars
<1> QED BY <1>1, <1>2, <1>3, <1>4, <1>5, <1>6 DEF Next

LEMMA FirstNext ==
    ASSUME LifeInv, RejectKept, SentOnly, StartComesFirst, [Next]_vars
    PROVE  StartComesFirst'
<1> USE DEF LifeInv
<1>1. CASE cmds' = cmds
  BY <1>1 DEF StartComesFirst
<1>2. ASSUME NEW kind \in {"start", "stop"}, NEW t \in Tasks, NEW S, Schedule(kind, t, S),
             kind = "start" => ~Sent(t)
      PROVE  StartComesFirst'
  <2> SUFFICES ASSUME NEW a \in Agents, NEW i \in DOMAIN cmds'[a], NEW j \in DOMAIN cmds'[a], i < j
               PROVE  /\ cmds'[a][j].outcome = "none"
                      /\ cmds'[a][j].kind = "start" => cmds'[a][i].task # cmds'[a][j].task
    BY DEF StartComesFirst
  <2>1. /\ \/ i \in DOMAIN cmds[a] /\ cmds'[a][i] = cmds[a][i]
           \/ i = Len(cmds[a]) + 1
        /\ \/ j \in DOMAIN cmds[a] /\ cmds'[a][j] = cmds[a][j]
           \/ /\ j = Len(cmds[a]) + 1 /\ cmds'[a][j].kind = kind
              /\ cmds'[a][j].task = t /\ cmds'[a][j].outcome = "none"
    BY <1>2, ScheduleQueue
  <2>2. \A k \in DOMAIN cmds[a]: k \in 1..Len(cmds[a]) /\ Len(cmds[a]) \in Nat
    BY CommandIn
  <2>3. i \in DOMAIN cmds[a] /\ cmds'[a][i] = cmds[a][i]
    <3>1. cmds[a] \in Seq(Commands) /\ cmds'[a] \in Seq(Commands)
      BY <1>2, ScheduleType DEF TypeOK
    <3> QED BY <2>1, <2>2, <3>1
  <2>4. Sent(cmds[a][i].task)
    BY <2>3 DEF SentOnly
  <2> QED BY <1>2, <2>1, <2>3, <2>4 DEF StartComesFirst
<1>3. ASSUME NEW b \in Agents, cmds[b] # <<>>, Confirm(b)
      PROVE  StartComesFirst'
  <2> SUFFICES ASSUME NEW a \in Agents, NEW i \in DOMAIN cmds'[a], NEW j \in DOMAIN cmds'[a], i < j
               PROVE  /\ cmds'[a][j].outcome = "none"
                      /\ cmds'[a][j].kind = "start" => cmds'[a][i].task # cmds'[a][j].task
    BY DEF StartComesFirst
  <2>1. CASE a = b
    BY <1>3, <2>1, ConfirmQueue DEF StartComesFirst
  <2>2. CASE a # b
    BY <1>3, <2>2, ConfirmQueue DEF StartComesFirst
  <2> QED BY <2>1, <2>2
<1>4. ASSUME NEW b \in Agents, cmds[b] # <<>>, NEW o \in {"applied", "rejected"}, Keep(b, o)
      PROVE  StartComesFirst'
  <2> SUFFICES ASSUME NEW a \in Agents, NEW i \in DOMAIN cmds'[a], NEW j \in DOMAIN cmds'[a], i < j
               PROVE  /\ cmds'[a][j].outcome = "none"
                      /\ cmds'[a][j].kind = "start" => cmds'[a][i].task # cmds'[a][j].task
    BY DEF StartComesFirst
  <2>1. CASE a = b
    <3>1. i \in DOMAIN cmds[a] /\ j \in DOMAIN cmds[a]
      BY <1>4, <2>1, KeepQueue
    <3>2. j # 1
      BY <3>1, CommandIn
    <3>3. cmds'[a][j] = cmds[a][j] /\ cmds'[a][i].task = cmds[a][i].task
      BY <1>4, <2>1, <3>1, <3>2, KeepQueue
    <3> QED BY <3>1, <3>3 DEF StartComesFirst
  <2>2. CASE a # b
    BY <1>4, <2>2, KeepQueue DEF StartComesFirst
  <2> QED BY <2>1, <2>2
<1> QED BY <1>1, <1>2, <1>3, <1>4, CommandsMove

\* What a step owes to one agent and one task.
LEMMA RanStep ==
    ASSUME LifeInv, SentOnly, RanOnce, [Next]_vars, NEW b \in Agents, NEW t \in Tasks,
           st'[t] \in ActiveStates,
           Ran(b, t)' =>
             /\ Ran(b, t) /\ run'[b] \in {run[b], NoTask}
             /\ \A i \in DOMAIN cmds'[b]: cmds'[b][i].task = t =>
                  \/ \E j \in DOMAIN cmds[b]: cmds'[b][i] = cmds[b][j]
                  \/ cmds'[b][i].kind = "stop" /\ cmds'[b][i].outcome = "none"
                  \/ cmds'[b][i].outcome = "applied"
    PROVE  RanOk(b, t)'
<1> SUFFICES ASSUME Ran(b, t)' PROVE RanOk(b, t)'
  BY DEF RanOk
<1>1. Sent(t)
  BY DEF SentOnly, Ran
<1>2. st[t] \in ActiveStates
  BY <1>1, ActiveBegins DEF LifeInv, StartsInOrder, Sent
<1>3. RanOk(b, t)
  BY <1>2 DEF RanOnce
<1> QED BY <1>3 DEF RanOk

\* Only the execution of a start makes an agent run a task.
LEMMA RanBefore ==
    ASSUME LifeInv, [Next]_vars, \A a \in Agents: ~ExecuteStart(a), NEW b \in Agents,
           NEW t \in Tasks, Ran(b, t)'
    PROVE  Ran(b, t) /\ run'[b] \in {run[b], NoTask}
<1> USE DEF LifeInv
<1>1. CASE UNCHANGED <<run, outbox, reports>>
  BY <1>1 DEF Ran
<1>2. ASSUME UNCHANGED <<run, outbox>>,
             reports'[t][b] = "real" => reports[t][b] = "real" \/ t \in outbox[b]
      PROVE  Ran(b, t) /\ run'[b] \in {run[b], NoTask}
  BY <1>2 DEF Ran
<1>3. ASSUME NEW u \in Tasks, StartTask(u) \/ StopTask(u) \/ HandlerStep(u) \/ DeadlinePasses(u)
      PROVE  Ran(b, t) /\ run'[b] \in {run[b], NoTask}
  <2>1. /\ UNCHANGED <<run, outbox>>
        /\ reports' = reports \/ \E S: Synthesize(u, S)
    BY <1>3 DEF HandlerStep, StartTask, StopTask, DeadlinePasses, StartRefused, Assign,
       SaveAssignments, DispatchStart, StartRuns, StartFails, FinishIfFullyReported, FinishStops,
       StopSchedules, StopRollsBack, SynthesizeOfflineReports, StopEnds, StopTimeout,
       StopTimeoutEnds, agentVars, taskVars
  <2>2. reports'[t][b] = "real" => reports[t][b] = "real"
    BY <2>1, SynthesizeStep DEF TypeOK
  <2> QED BY <1>2, <2>1, <2>2
<1>4. ASSUME NEW p \in Jobs, JobStep(p)
      PROVE  Ran(b, t) /\ run'[b] \in {run[b], NoTask}
  <2>1. job[p].pc # "idle" => job[p].task \in Tasks
    BY DEF DecisionsHold
  <2>2. /\ UNCHANGED <<run, outbox>>
        /\ reports' = reports \/ (job[p].pc # "idle" /\ \E S: Synthesize(job[p].task, S))
    BY <1>4 DEF JobStep, SynthesizeOne, JobStops, OnAgentRestart, SynthesizeRestarted,
         CheckAllLost, ProbeNode, AutoStopTask, AutoStopFailsStart, AutoStopBegins,
         AutoStopSchedules, AutoStopSynthesizes, AutoStopEnds, agentVars, taskVars
  <2>3. reports'[t][b] = "real" => reports[t][b] = "real"
    BY <2>1, <2>2, SynthesizeStep DEF TypeOK
  <2> QED BY <1>2, <2>2, <2>3
<1>5. CASE HealthStep \/ UNCHANGED vars
  BY <1>1, <1>5 DEF HealthStep, ScanAndMarkStatus, OnAgentOffline, vars, agentVars, taskVars
<1>6. ASSUME NEW a \in Agents, AcceptMoves(a)
      PROVE  Ran(b, t) /\ run'[b] \in {run[b], NoTask}
  <2>1. outbox'[b] \subseteq outbox[b] /\ UNCHANGED <<run, reports>>
    BY <1>6, AckReportStep DEF AcceptMoves
  <2> QED BY <2>1 DEF Ran
<1>7. ASSUME NEW a \in Agents, RejectStart(a) \/ RejectStop(a)
      PROVE  Ran(b, t) /\ run'[b] \in {run[b], NoTask}
  <2>1. /\ cmds[a] # <<>> /\ accept[a].pc = "idle" /\ UNCHANGED <<run, outbox>>
        /\ Accept(a, Head(cmds[a]).task, "synth")
    BY <1>7 DEF RejectStart, RejectStop, HeadCommand, Reject, agentVars
  <2>2. reports'[t][b] = "real" => reports[t][b] = "real"
    BY <2>1, HeadType, AcceptStep
  <2> QED BY <1>2, <2>1, <2>2
<1>8. ASSUME NEW a \in Agents, NEW u \in Tasks, ReceiveReport(a, u)
      PROVE  Ran(b, t) /\ run'[b] \in {run[b], NoTask}
  <2> USE <1>8 DEF ReceiveReport
  <2>1. outbox'[b] \subseteq outbox[b] /\ UNCHANGED run
    BY AckReportStep
  <2>2. reports'[t][b] = "real" => reports[t][b] = "real" \/ t \in outbox[b]
    BY AcceptStep
  <2> QED BY <2>1, <2>2 DEF Ran
<1>9. ASSUME NEW a \in Agents, RunStep(a)
      PROVE  Ran(b, t) /\ run'[b] \in {run[b], NoTask}
  <2>1. CASE LeaseExpires(a)
    BY <1>1, <2>1 DEF LeaseExpires, taskVars
  <2>2. CASE RunnerReturns(a)
    <3>1. outbox' = [outbox EXCEPT ![a] = outbox[a] \cup {run[a]}] /\ UNCHANGED <<run, reports>>
      BY <2>2 DEF RunnerReturns, TypeOK, taskVars
    <3>2. \A u \in outbox'[b]: u \in outbox[b] \/ u = run[b]
      BY <3>1 DEF TypeOK
    <3> QED BY <3>1, <3>2 DEF Ran
  <2>3. CASE FreeSlot(a)
    BY <2>3 DEF FreeSlot, Ran, TypeOK, taskVars
  <2> QED BY <1>9, <2>1, <2>2, <2>3 DEF RunStep
<1>10. ASSUME NEW a \in Agents, Crash(a)
       PROVE  Ran(b, t) /\ run'[b] \in {run[b], NoTask}
  BY <1>10 DEF Crash, Ran, TypeOK, taskVars
<1>11. ASSUME NEW a \in Agents,
              \/ Register(a) \/ Welcome(a) \/ Heartbeat(a) \/ DropStart(a) \/ ReplayStart(a)
              \/ ExecuteStop(a) \/ Disconnect(a) \/ Boot(a)
       PROVE  Ran(b, t) /\ run'[b] \in {run[b], NoTask}
  BY <1>1, <1>11 DEF Register, Welcome, Heartbeat, DropStart, ReplayStart, ExecuteStop, Disconnect,
       Boot, agentVars, taskVars
<1> QED BY <1>3, <1>4, <1>5, <1>6, <1>7, <1>8, <1>9, <1>10, <1>11
        DEF Next, HandshakeStep, CommandStep

\* A command is not rejected by the agent that has run its task.
LEMMA NotRejected ==
    ASSUME LifeInv, RanOnce, NEW a \in Agents, RejectStart(a) \/ RejectStop(a),
           st[Head(cmds[a]).task] \in ActiveStates
    PROVE  ~Ran(a, Head(cmds[a]).task)
<1> DEFINE t == Head(cmds[a]).task
<1>1. cmds[a] # <<>> /\ 1 \in DOMAIN cmds[a] /\ Head(cmds[a]) = cmds[a][1] /\ t \in Tasks
  BY HeadType DEF RejectStart, RejectStop, HeadCommand, LifeInv, TypeOK
<1>2. ASSUME Ran(a, t)
      PROVE  /\ run[a] \in {t, NoTask} /\ Head(cmds[a]).outcome # "rejected"
             /\ Head(cmds[a]).kind = "start" => Head(cmds[a]).outcome = "applied"
  BY <1>1, <1>2 DEF RanOnce, RanOk
<1> QED BY <1>2 DEF RejectStart, RejectStop, HeadCommand

LEMMA RanNext ==
    ASSUME LifeInv, RejectKept, OneActive, SentOnly, StartComesFirst, RanOnce, [Next]_vars
    PROVE  RanOnce'
<1> USE DEF LifeInv
<1> SUFFICES ASSUME NEW b \in Agents, NEW t \in Tasks, st'[t] \in ActiveStates
             PROVE  RanOk(b, t)'
  BY DEF RanOnce
<1>1. ASSUME NEW a \in Agents, ExecuteStart(a)
      PROVE  RanOk(b, t)'
  <2> USE <1>1 DEF ExecuteStart
  <2> DEFINE u == Head(cmds[a]).task
  <2>1. /\ cmds[a] # <<>> /\ 1 \in DOMAIN cmds[a] /\ Head(cmds[a]) = cmds[a][1] /\ u \in Tasks
        /\ st' = st /\ UNCHANGED <<outbox, reports>> /\ st[u] \in ActiveStates
        /\ Confirm(a) \/ Keep(a, "applied")
    BY HeadType DEF HeadCommand, AckStart, OwnsActiveTask, TypeOK, taskVars
  <2>2. t = u
    BY <2>1 DEF OneActive
  <2>3. CASE b # a
    <3>1. run'[b] = run[b] /\ cmds'[b] = cmds[b]
      BY <2>1, <2>3, ConfirmQueue, KeepQueue DEF TypeOK
    <3>2. RanOk(b, t)
      BY <2>1 DEF RanOnce
    <3> QED BY <2>1, <3>1, <3>2 DEF RanOk, Ran
  <2>4. CASE b = a
    <3>1. run'[a] = t
      BY <2>2 DEF TypeOK
    <3>2. ASSUME NEW i \in DOMAIN cmds'[a], cmds'[a][i].task = t
          PROVE  /\ cmds'[a][i].outcome # "rejected"
                 /\ cmds'[a][i].kind = "start" => cmds'[a][i].outcome = "applied"
      <4>1. CASE Confirm(a)
        <5>1. i \in Nat /\ i + 1 \in DOMAIN cmds[a] /\ cmds'[a][i] = cmds[a][i + 1]
          BY <2>1, <3>2, <4>1, ConfirmQueue
        <5>2. 1 < i + 1
          BY <2>1, <3>2, <4>1, <5>1, CommandIn, ConfirmType
        <5> QED BY <2>1, <2>2, <3>2, <5>1, <5>2 DEF StartComesFirst
      <4>2. CASE Keep(a, "applied")
        <5>1. i \in DOMAIN cmds[a]
          BY <2>1, <3>2, <4>2, KeepQueue
        <5>2. CASE i = 1
          BY <2>1, <4>2, <5>2, KeepQueue
        <5>3. CASE i # 1
          <6>1. cmds'[a][i] = cmds[a][i] /\ 1 < i
            BY <2>1, <4>2, <5>1, <5>3, KeepQueue, CommandIn
          <6> QED BY <2>1, <2>2, <3>2, <5>1, <6>1 DEF StartComesFirst
        <5> QED BY <5>2, <5>3
      <4> QED BY <2>1, <4>1, <4>2
    <3> QED BY <2>4, <3>1, <3>2 DEF RanOk
  <2> QED BY <2>3, <2>4
<1>2. CASE \A a \in Agents: ~ExecuteStart(a)
  <2> SUFFICES ASSUME Ran(b, t)' PROVE RanOk(b, t)'
    BY DEF RanOk
  <2>1. Ran(b, t) /\ run'[b] \in {run[b], NoTask}
    BY <1>2, RanBefore
  <2>2. Sent(t)
    BY <2>1 DEF SentOnly, Ran
  <2>3. \A i \in DOMAIN cmds'[b]: cmds'[b][i].task = t =>
           \/ \E j \in DOMAIN cmds[b]: cmds'[b][i] = cmds[b][j]
           \/ cmds'[b][i].kind = "stop" /\ cmds'[b][i].outcome = "none"
           \/ cmds'[b][i].outcome = "applied"
    <3>1. CASE cmds' = cmds
      BY <3>1
    <3>2. ASSUME NEW u \in Tasks, NEW kind \in {"start", "stop"}, NEW S, Schedule(kind, u, S),
                 kind = "start" => ~Sent(u)
          PROVE  \A i \in DOMAIN cmds'[b]: cmds'[b][i].task = t =>
                   \/ \E j \in DOMAIN cmds[b]: cmds'[b][i] = cmds[b][j]
                   \/ cmds'[b][i].kind = "stop" /\ cmds'[b][i].outcome = "none"
      BY <2>2, <3>2, ScheduleQueue
    <3>3. ASSUME NEW a \in Agents, cmds[a] # <<>>, Confirm(a)
          PROVE  \A i \in DOMAIN cmds'[b]: \E j \in DOMAIN cmds[b]: cmds'[b][i] = cmds[b][j]
      BY <3>3, ConfirmQueue
    <3>4. ASSUME NEW a \in Agents, cmds[a] # <<>>, Keep(a, "applied")
          PROVE  \A i \in DOMAIN cmds'[b]: \/ \E j \in DOMAIN cmds[b]: cmds'[b][i] = cmds[b][j]
                                           \/ cmds'[b][i].outcome = "applied"
      BY <3>4, KeepQueue
    <3>5. ASSUME NEW a \in Agents, cmds[a] # <<>>, Keep(a, "rejected"),
                 RejectStart(a) \/ RejectStop(a)
          PROVE  \A i \in DOMAIN cmds'[b]: cmds'[b][i].task = t =>
                   \E j \in DOMAIN cmds[b]: cmds'[b][i] = cmds[b][j]
      <4>1. st' = st /\ Head(cmds[a]) = cmds[a][1]
        BY <3>5, HeadType DEF RejectStart, RejectStop
      <4>2. a = b => cmds[a][1].task # t
        BY <2>1, <3>5, <4>1, NotRejected
      <4> QED BY <3>5, <4>2, KeepQueue
    <3> QED BY <3>1, <3>2, <3>3, <3>4, <3>5, CommandsMove
  <2> QED BY <2>1, <2>3, RanStep
<1> QED BY <1>1, <1>2

ReportInv == OneActive /\ SentOnly /\ StartComesFirst /\ RanOnce

LEMMA ReportInit == Init => ReportInv
<1> SUFFICES ASSUME Init PROVE ReportInv
  OBVIOUS
<1>1. \A a \in Agents: /\ cmds[a] = <<>> /\ run[a] = NoTask /\ outbox[a] = {} /\ node[a].task = NoTask
                       /\ \A t \in Tasks: reports[t][a] = "none"
  BY DEF Init, NodeOf
<1>2. /\ \A t \in Tasks: stopPc[t] = "idle" /\ st[t] = "pending"
      /\ \A p \in Jobs: job[p].pc = "idle"
  BY DEF Init, NoJob
<1> QED BY <1>1, <1>2 DEF ReportInv, OneActive, SentOnly, StartComesFirst, RanOnce, RanOk, Ran,
                          ActiveStates

LEMMA ReportNext ==
    ASSUME LifeInv, RejectKept, ReportInv, [Next]_vars
    PROVE  ReportInv'
BY OneActiveNext, SentNext, FirstNext, RanNext DEF ReportInv

LEMMA ReportKeptStep ==
    ASSUME LifeInv, RanOnce, [Next]_vars, NEW t \in Tasks, NEW a \in Agents,
           reports[t][a] = "real", st[t] \in ActiveStates
    PROVE  reports'[t][a] = "real"
<1> USE DEF LifeInv
<1>1. ASSUME NEW u \in Tasks, StartTask(u) \/ StopTask(u) \/ HandlerStep(u) \/ DeadlinePasses(u)
      PROVE  reports'[t][a] = "real"
  <2>1. reports' = reports \/ \E S: Synthesize(u, S)
    BY <1>1 DEF HandlerStep, StartTask, StopTask, DeadlinePasses, StartRefused, Assign,
       SaveAssignments, DispatchStart, StartRuns, StartFails, FinishIfFullyReported, FinishStops,
       StopSchedules, StopRollsBack, SynthesizeOfflineReports, StopEnds, StopTimeout,
       StopTimeoutEnds, taskVars
  <2> QED BY <2>1, SynthesizeStep
<1>2. ASSUME NEW p \in Jobs, JobStep(p)
      PROVE  reports'[t][a] = "real"
  <2>1. job[p].pc # "idle" => job[p].task \in Tasks
    BY DEF DecisionsHold
  <2>2. reports' = reports \/ (job[p].pc # "idle" /\ \E S: Synthesize(job[p].task, S))
    BY <1>2 DEF JobStep, SynthesizeOne, JobStops, OnAgentRestart, SynthesizeRestarted,
         CheckAllLost, ProbeNode, AutoStopTask, AutoStopFailsStart, AutoStopBegins,
         AutoStopSchedules, AutoStopSynthesizes, AutoStopEnds, taskVars
  <2> QED BY <2>1, <2>2, SynthesizeStep
<1>3. ASSUME NEW b \in Agents, RejectStart(b) \/ RejectStop(b)
      PROVE  reports'[t][a] = "real"
  <2> DEFINE u == Head(cmds[b]).task
  <2>1. /\ cmds[b] # <<>> /\ accept[b].pc = "idle" /\ Accept(b, u, "synth")
    BY <1>3 DEF RejectStart, RejectStop, HeadCommand, Reject
  <2>2. u = t => b # a
    BY <1>3, NotRejected DEF Ran
  <2> QED BY <2>1, <2>2, HeadType, AcceptStep
<1>4. ASSUME NEW b \in Agents, NEW u \in Tasks, ReceiveReport(b, u)
      PROVE  reports'[t][a] = "real"
  BY <1>4, AcceptStep DEF ReceiveReport
<1>5. CASE HealthStep \/ UNCHANGED vars
  BY <1>5 DEF HealthStep, ScanAndMarkStatus, OnAgentOffline, vars, taskVars
<1>6. ASSUME NEW b \in Agents,
             \/ Register(b) \/ Welcome(b) \/ AcceptMoves(b) \/ Heartbeat(b) \/ DropStart(b)
             \/ ExecuteStart(b) \/ ReplayStart(b) \/ ExecuteStop(b) \/ RunStep(b)
             \/ Disconnect(b) \/ Crash(b) \/ Boot(b)
      PROVE  reports'[t][a] = "real"
  BY <1>6 DEF Register, Welcome, AcceptMoves, Heartbeat, DropStart, ExecuteStart, ReplayStart,
       ExecuteStop, RunStep, LeaseExpires, RunnerReturns, FreeSlot, Disconnect, Crash, Boot,
       taskVars
<1> QED BY <1>1, <1>2, <1>3, <1>4, <1>5, <1>6 DEF Next, HandshakeStep, CommandStep

\* While a task is active, the report an agent has sent itself is never
\* replaced by a synthetic one: not by the offline callback, the restart
\* callback, the stop timeout or autoStopTask, and not by the rejection of a
\* command, because the agent that reported has no command left to reject.
THEOREM LifecycleRealReportKept == Spec => RealReportKept
<1>1. Init => ReportInv
  BY ReportInit
<1>2. LifeInv /\ RejectKept /\ ReportInv /\ [Next]_vars => ReportInv'
  BY ReportNext
<1>3. LifeInv /\ ReportInv /\ [Next]_vars =>
        [\A t \in Tasks: \A a \in Agents:
          (reports[t][a] = "real" /\ st[t] \in ActiveStates) => reports'[t][a] = "real"]_vars
  BY ReportKeptStep DEF ReportInv
<1> QED BY <1>1, <1>2, <1>3, LifeAlways, PTL DEF Spec, RealReportKept
=============================================================================
