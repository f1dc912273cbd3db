--------------------------- MODULE CommandDelivery ---------------------------
(***************************************************************************)
(* The control commands between the admin and one agent: the admin's       *)
(* command log (admin/command/memory.go, bus.go), the session that         *)
(* delivers it (admin/grpcapi/session.go, control_service.go), and the     *)
(* agent's executor, outcome outbox and task slot                          *)
(* (agent/command/executor.go, outbox.go, agent/app.go), over connections  *)
(* that break and are replaced.                                            *)
(*                                                                         *)
(* One agent is enough: commands of different agents share only the        *)
(* numbering and the capacity of the log.  A command is named by its       *)
(* position in the log, which is also its Sequence.                        *)
(***************************************************************************)
EXTENDS Naturals, Sequences, FiniteSets, SequencesExt

CONSTANTS
    Tasks,           \* tasks the commands are about
    NoTask,          \* the task of a Shutdown command
    Window,          \* CommandDispatchWindow
    StoreCapacity,   \* capacity of the MemoryStore
    OutboxCapacity,  \* capacity of the OutcomeOutbox
    ControlCapacity, \* sessionQueueCapacity
    Events,          \* which environment events happen
    MaxCommands,     \* bound: commands ever created
    MaxDrops,        \* bound: broken connections
    MaxRestarts      \* bound: restarts of the admin

EventKinds == {"end", "transient", "refuse"}

ASSUME DeliveryConstants ==
    /\ NoTask \notin Tasks
    /\ {Window, StoreCapacity, OutboxCapacity, ControlCapacity} \subseteq Nat \ {0}
    /\ Events \subseteq EventKinds
    /\ {MaxCommands, MaxDrops, MaxRestarts} \subseteq Nat

VARIABLES
    log,       \* MemoryStore.commands in Sequence order, the evicted ones kept as "gone"
    terminal,  \* MemoryStore.terminalCommands
    ended,     \* tasks for which OwnsActiveTask is false
    session,   \* the admin's current Session, or NoSession
    acks,      \* command ACKs on the stream
    queue,     \* Executor.queue
    checked,   \* the Start that has passed FindAndReplay and not entered beginStart
    starting,  \* Executor.inflight: the Start goroutines, or NoStart
    deferred,  \* Executor.deferred: the copies put off, or NoRequest
    slot,      \* Agent.currentTask: the Start command that reserved it, or None
    running,   \* the executeTask goroutine of the slot is alive
    outbox,    \* OutcomeOutbox.order, from the back (oldest) to the front
    notify,    \* the token of OutcomeOutbox.notify
    shutdown,  \* Agent.shutdownID, or None
    alive,     \* the agent process has not exited
    effects,   \* history: how often a command took effect in this process
    drops,     \* history: broken connections
    restarts   \* history: restarts of the admin

adminVars == <<log, terminal, ended>>
linkVars == <<session, acks>>
execVars == <<queue, checked, starting, deferred>>
slotVars == <<slot, running>>
outVars == <<outbox, notify>>
hostVars == <<shutdown, alive>>
bounds == <<drops, restarts>>
vars == <<adminVars, linkVars, execVars, slotVars, outVars, hostVars, effects, bounds>>

\* The members of S among 1..n, in order: what a loop over n places collects.
Ascending(S, n) ==
    LET upto[k \in 0..n] ==
          IF k = 0 THEN <<>>
          ELSE IF k \in S THEN Append(upto[k - 1], k) ELSE upto[k - 1]
    IN  upto[n]

None == 0
Ids == 1..MaxCommands
Created == 1..Len(log)
Kinds == {"start", "stop", "shutdown"}
Statuses == {"applied", "duplicate", "rejected"}

\* The records: a command of the log, a session, an ACK, a retained outcome.
Commands == [kind: Kinds, task: Tasks \cup {NoTask},
             state: {"pending", "acked", "rejected", "gone"}]
Sessions == [up: BOOLEAN, lastSent: Ids \cup {0}, inflight: SUBSET Ids,
             wake: BOOLEAN, batch: Seq(Ids), control: Seq(Ids)]
Acks == [id: Ids, status: Statuses]
Outcomes == [id: Ids, status: Statuses, pending: BOOLEAN]

\* A delivered copy of a command; live is FALSE once its connection is gone
\* (request.ctx is done).
Request == [id: Ids, live: BOOLEAN]
NoRequest == [id |-> None, live |-> FALSE]

\* A Start goroutine: at "prepare" it fetches the bundle, at "launched" it has
\* submitted executeTask.  cause is context.Cause of the task's context.
Starts == [at: {"no", "prepare", "launched"}, live: BOOLEAN,
           cause: {"none", "stop", "session", "ended"}]
NoStart == [at |-> "no", live |-> FALSE, cause |-> "none"]

NoSession == [up |-> FALSE, lastSent |-> 0, inflight |-> {}, wake |-> FALSE,
              batch |-> <<>>, control |-> <<>>]

Init ==
    /\ log = <<>> /\ terminal = <<>> /\ ended = {}
    /\ session = NoSession /\ acks = <<>>
    /\ queue = <<>> /\ checked = NoRequest
    /\ starting = [i \in Ids |-> NoStart]
    /\ deferred = [i \in Ids |-> NoRequest]
    /\ slot = None /\ running = FALSE
    /\ outbox = <<>> /\ notify = FALSE
    /\ shutdown = None /\ alive = TRUE
    /\ effects = [i \in Ids |-> 0]
    /\ drops = 0 /\ restarts = 0

-----------------------------------------------------------------------------
(* The command log. *)

Stored == {i \in Created: log[i].state # "gone"}
Pending == {i \in Created: log[i].state = "pending"}

\* What the callers of the Dispatcher ask for: a task is started once, when the
\* task before it has ended, and stopped only after its start was scheduled.
Started == {log[i].task: i \in {j \in Created: log[j].kind = "start"}}
Plausible(kind, t) ==
    \/ kind = "start" /\ t \in Tasks \ Started /\ Started \subseteq ended
    \/ kind = "stop" /\ t \in Started
    \/ kind = "shutdown" /\ t = NoTask

\* Bus.CreateBatch: makeRoomLocked drops the oldest terminal commands, and
\* refuses the batch when there are too few of them; the written command wakes
\* the current session.  A session attached between the write and the wake
\* wakes itself, so the two are one step.
CreateBatch(kind, t) ==
    /\ Len(log) < MaxCommands
    /\ Plausible(kind, t)
    /\ LET full == Cardinality(Stored) >= StoreCapacity
           kept == IF full THEN [log EXCEPT ![Head(terminal)].state = "gone"] ELSE log
       IN  /\ full => terminal # <<>>
           /\ log' = Append(kept, [kind |-> kind, task |-> t, state |-> "pending"])
           /\ terminal' = IF full THEN Tail(terminal) ELSE terminal
    /\ session' = [session EXCEPT !.wake = session.up]
    /\ UNCHANGED <<ended, acks, execVars, slotVars, outVars, hostVars, effects, bounds>>

\* MemoryStore.Acknowledge: only a pending command changes.
Acknowledge(i, state) ==
    IF log[i].state = "pending"
      THEN /\ log' = [log EXCEPT ![i].state = state]
           /\ terminal' = Append(terminal, i)
      ELSE UNCHANGED <<log, terminal>>

\* The agent's report of a task is accepted, or the task ends without it: from
\* now on OwnsActiveTask is false for it.
TaskEnds(t) ==
    /\ "end" \in Events
    /\ t \in Started \ ended
    /\ ended' = ended \cup {t}
    /\ UNCHANGED <<log, terminal, linkVars, execVars, slotVars, outVars, hostVars,
                   effects, bounds>>

-----------------------------------------------------------------------------
(* Connections. *)

\* The end of a connection, whatever ended it: what is on the stream is lost
\* (an admin event in flight is one not yet taken from the session's queues),
\* and the contexts of the requests it delivered are done.  runConnection does
\* not wait for its SendLoop, which is taken to return before the next
\* handshake is over, so that it takes no token meant for its successor.
Kill(request) == [request EXCEPT !.live = FALSE]
Disconnected ==
    /\ session' = NoSession
    /\ acks' = <<>>
    /\ queue' = [k \in DOMAIN queue |-> Kill(queue[k])]
    /\ checked' = Kill(checked)
    /\ starting' = [i \in Ids |-> Kill(starting[i])]
    /\ deferred' = [i \in Ids |-> Kill(deferred[i])]

\* A wrong Connect: the send loop of the new session is not woken.
ConnectNoReplay ==
    /\ alive
    /\ ~session.up
    /\ session' = [NoSession EXCEPT !.up = TRUE]
    /\ notify' = TRUE
    /\ UNCHANGED <<adminVars, acks, execVars, slotVars, outbox, hostVars, effects, bounds>>

\* Attach, Welcome and Replay on one side, runConnection on the other: a fresh
\* cursor and window, the send loops of both sides woken.
Connect ==
    /\ alive
    /\ ~session.up
    /\ session' = [NoSession EXCEPT !.up = TRUE, !.wake = TRUE]
    /\ notify' = TRUE
    /\ UNCHANGED <<adminVars, acks, execVars, slotVars, outbox, hostVars,
                   effects, bounds>>

Drop ==
    /\ session.up
    /\ drops < MaxDrops
    /\ drops' = drops + 1
    /\ Disconnected
    /\ UNCHANGED <<adminVars, slotVars, outVars, hostVars, effects, restarts>>

\* The admin process crashes and starts again: its command log was in memory,
\* and NewRepository fails the tasks that were active.
AdminRestart ==
    /\ restarts < MaxRestarts
    /\ restarts' = restarts + 1
    /\ log' = [i \in Created |-> [log[i] EXCEPT !.state = "gone"]]
    /\ terminal' = <<>>
    /\ ended' = Tasks
    /\ Disconnected
    /\ UNCHANGED <<slotVars, outVars, hostVars, effects, drops>>

-----------------------------------------------------------------------------
(* The admin's sendLoop and recvLoop. *)

\* MemoryStore.Pending for this session's cursor, at most capacity commands.
NextBatch(capacity) ==
    LET after == Ascending({i \in Pending: i > session.lastSent}, Len(log))
    IN  SubSeq(after, 1, IF Len(after) < capacity THEN Len(after) ELSE capacity)

\* Bus.PendingBatch: the cursor and the window move for the whole batch before
\* anything is sent.
PendingBatch ==
    /\ session.wake
    /\ session.batch = <<>>
    /\ LET batch == NextBatch(Window - Cardinality(session.inflight))
       IN  session' = [session EXCEPT !.wake = FALSE,
                                      !.batch = batch,
                                      !.lastSent = IF batch = <<>> THEN @ ELSE Last(batch),
                                      !.inflight = @ \cup Range(batch)]
    /\ UNCHANGED <<adminVars, acks, execVars, slotVars, outVars, hostVars,
                   effects, bounds>>

\* sendLoop, one command of the batch: a Start that is no longer wanted is
\* rejected here, everything else is sent and put into the agent's queue by its
\* ReceiveLoop.
SendCommand ==
    /\ session.batch # <<>>
    /\ LET i == Head(session.batch)
           stale == log[i].kind = "start" /\ log[i].task \in ended
       IN  IF stale
             THEN /\ Acknowledge(i, "rejected")
                  /\ session' = [session EXCEPT !.batch = Tail(@), !.inflight = @ \ {i},
                                                !.wake = TRUE]
                  /\ UNCHANGED queue
             ELSE /\ alive
                  /\ session' = [session EXCEPT !.batch = Tail(@)]
                  /\ queue' = Append(queue, [id |-> i, live |-> TRUE])
                  /\ UNCHANGED <<log, terminal>>
    /\ UNCHANGED <<ended, acks, checked, starting, deferred, slotVars, outVars, hostVars,
                   effects, bounds>>

\* A wrong HandleAck: a repeated ACK is taken for an unknown one.
HandleAckOnce ==
    /\ acks # <<>>
    /\ LET ack == Head(acks)
       IN  IF log[ack.id].state = "pending"
             THEN /\ Acknowledge(ack.id, IF ack.status = "rejected" THEN "rejected" ELSE "acked")
                  /\ session' = [session EXCEPT !.inflight = @ \ {ack.id}, !.wake = TRUE,
                                                !.control = Append(@, ack.id)]
                  /\ acks' = Tail(acks)
                  /\ UNCHANGED <<ended, execVars>>
             ELSE Disconnected /\ UNCHANGED adminVars
    /\ UNCHANGED <<slotVars, outVars, hostVars, effects, bounds>>

\* handleEvent, a CommandAck.  One for a command the log does not hold ends the
\* session with InvalidArgument.  Any other settles its command, frees its
\* place in the window and wakes the send loop; a rejected Start or Stop is a
\* failed report of its task; then the receipt is queued, or the session ended
\* when the queue is full.
HandleAck ==
    /\ acks # <<>>
    /\ LET ack == Head(acks)
           known == log[ack.id].state # "gone"
           rejected == ack.status = "rejected"
       IN  /\ IF known
                THEN /\ Acknowledge(ack.id, IF rejected THEN "rejected" ELSE "acked")
                     /\ ended' = IF rejected THEN ended \cup {log[ack.id].task} ELSE ended
                ELSE UNCHANGED adminVars
           /\ IF known /\ Len(session.control) < ControlCapacity
                THEN /\ session' = [session EXCEPT !.inflight = @ \ {ack.id},
                                                   !.wake = TRUE,
                                                   !.control = Append(@, ack.id)]
                     /\ acks' = Tail(acks)
                     /\ UNCHANGED execVars
                ELSE Disconnected
    /\ UNCHANGED <<slotVars, outVars, hostVars, effects, bounds>>

-----------------------------------------------------------------------------
(* The agent: outbox. *)

\* A wrong lookup: an outcome is forgotten as soon as its receipt is here.
RecordedUnconfirmed(i) == \E k \in DOMAIN outbox: outbox[k].id = i /\ outbox[k].pending
Recorded(i) == \E k \in DOMAIN outbox: outbox[k].id = i
Position(i) == CHOOSE k \in DOMAIN outbox: outbox[k].id = i
Without(i) == RemoveAt(outbox, Position(i))
Outcome(i) == outbox[Position(i)]
Confirmed == {k \in DOMAIN outbox: ~outbox[k].pending}

\* FindAndReplay of a recorded outcome, and Record when one exists already: the
\* first outcome stays, and is to be sent again.
Replay(i) ==
    /\ outbox' = Append(Without(i), [Outcome(i) EXCEPT !.pending = TRUE])
    /\ notify' = TRUE

\* Record: a full outbox evicts its oldest confirmed outcome; when every
\* outcome waits for its receipt, CancelControlPlane ends the agent.
Record(i, status) ==
    LET room == Len(outbox) < OutboxCapacity
        new == [id |-> i, status |-> status, pending |-> TRUE]
        oldest == CHOOSE k \in Confirmed: \A l \in Confirmed: k <= l
    IN  \/ /\ Recorded(i)
           /\ Replay(i)
           /\ UNCHANGED alive
        \/ /\ ~Recorded(i)
           /\ room \/ Confirmed # {}
           /\ outbox' = Append(IF room THEN outbox ELSE RemoveAt(outbox, oldest), new)
           /\ notify' = TRUE
           /\ UNCHANGED alive
        \/ /\ ~Recorded(i)
           /\ ~room
           /\ Confirmed = {}
           /\ alive' = FALSE
           /\ UNCHANGED outVars

\* Snapshot: every unconfirmed outcome, oldest first.
Snapshot ==
    LET waiting == Ascending({k \in DOMAIN outbox: outbox[k].pending}, Len(outbox))
    IN  [k \in DOMAIN waiting |->
           [id |-> outbox[waiting[k]].id, status |-> outbox[waiting[k]].status]]

\* SendLoop: the token is taken and the snapshot is sent.
SendOutcomes ==
    /\ alive
    /\ session.up
    /\ notify
    /\ notify' = FALSE
    /\ acks' = acks \o Snapshot
    /\ UNCHANGED <<adminVars, session, execVars, slotVars, outbox, hostVars,
                   effects, bounds>>

\* A wrong receipt: any one of them completes the Shutdown that is prepared.
SendReceiptUnmatched ==
    /\ alive
    /\ session.batch = <<>>
    /\ session.control # <<>>
    /\ LET i == Head(session.control)
       IN  outbox' = IF Recorded(i)
                       THEN Append(Without(i), [Outcome(i) EXCEPT !.pending = FALSE])
                       ELSE outbox
    /\ alive' = (shutdown = None)
    /\ shutdown' = None
    /\ session' = [session EXCEPT !.control = Tail(@)]
    /\ UNCHANGED <<adminVars, acks, execVars, slotVars, notify, effects, bounds>>

\* A receipt goes from the session's control queue to the agent's ReceiveLoop:
\* Confirm, and confirmShutdown when it is the receipt of the Shutdown that is
\* prepared.
SendReceipt ==
    /\ alive
    /\ session.batch = <<>>
    /\ session.control # <<>>
    /\ LET i == Head(session.control)
           ends == Recorded(i) /\ shutdown = i
       IN  /\ outbox' = IF Recorded(i)
                          THEN Append(Without(i), [Outcome(i) EXCEPT !.pending = FALSE])
                          ELSE outbox
           /\ alive' = ~ends
           /\ shutdown' = IF ends THEN None ELSE shutdown
    /\ session' = [session EXCEPT !.control = Tail(@)]
    /\ UNCHANGED <<adminVars, acks, execVars, slotVars, notify, effects, bounds>>

\* Once the process has exited its connection is gone as well.
Exit ==
    /\ ~alive
    /\ session.up
    /\ Disconnected
    /\ UNCHANGED <<adminVars, slotVars, outVars, hostVars, effects, bounds>>

-----------------------------------------------------------------------------
(* The agent: executor and task slot. *)

TaskOf(i) == log[i].task

Took(i) == effects' = [effects EXCEPT ![i] = @ + 1]

\* execute, a command whose outcome is known: replay it.
ExecuteKnown ==
    /\ alive /\ checked = NoRequest /\ queue # <<>>
    /\ Recorded(Head(queue).id)
    /\ Replay(Head(queue).id)
    /\ queue' = Tail(queue)
    /\ UNCHANGED <<adminVars, linkVars, checked, starting, deferred, slotVars, hostVars,
                   effects, bounds>>

\* execute, a Start: FindAndReplay found nothing.
ExecuteStart ==
    /\ alive /\ checked = NoRequest /\ queue # <<>>
    /\ ~Recorded(Head(queue).id)
    /\ log[Head(queue).id].kind = "start"
    /\ checked' = Head(queue)
    /\ queue' = Tail(queue)
    /\ UNCHANGED <<adminVars, linkVars, starting, deferred, slotVars, outVars, hostVars,
                   effects, bounds>>

\* cancelTask: the first cause of a task's context stays.
Cancel(i) ==
    starting' = [starting EXCEPT ![i].cause = IF starting[i].at # "no" /\ @ = "none"
                                                THEN "stop" ELSE @]

\* execute, a Stop: the current task is cancelled if it is the one meant,
\* another one is left alone and the Stop rejected, none is no error.
ExecuteStop ==
    /\ alive /\ checked = NoRequest /\ queue # <<>>
    /\ LET i == Head(queue).id
       IN  /\ ~Recorded(i)
           /\ log[i].kind = "stop"
           /\ \/ /\ slot # None /\ TaskOf(slot) # TaskOf(i)
                 /\ Record(i, "rejected")
                 /\ UNCHANGED <<starting, effects>>
              \/ /\ slot # None /\ TaskOf(slot) = TaskOf(i)
                 /\ Cancel(slot)
                 /\ Record(i, "applied")
                 /\ Took(i)
              \/ /\ slot = None
                 /\ Record(i, "applied")
                 /\ Took(i)
                 /\ UNCHANGED starting
    /\ queue' = Tail(queue)
    /\ UNCHANGED <<adminVars, linkVars, checked, deferred, slotVars, shutdown, bounds>>

\* execute and finish, a Shutdown: prepared, and left for its receipt.
ExecuteShutdown ==
    /\ alive /\ checked = NoRequest /\ queue # <<>>
    /\ LET i == Head(queue).id
       IN  /\ ~Recorded(i)
           /\ log[i].kind = "shutdown"
           /\ shutdown' = i
           /\ Record(i, "applied")
           /\ Took(i)
    /\ queue' = Tail(queue)
    /\ UNCHANGED <<adminVars, linkVars, checked, starting, deferred, slotVars, bounds>>

\* beginStart, a second copy of a Start that is being prepared is put off.
BeginDeferred ==
    /\ alive /\ checked # NoRequest
    /\ starting[checked.id].at # "no"
    /\ deferred' = [deferred EXCEPT ![checked.id] = checked]
    /\ checked' = NoRequest
    /\ UNCHANGED <<adminVars, linkVars, queue, starting, slotVars, outVars, hostVars,
                   effects, bounds>>

\* beginStart, the agent has a task: the same one makes the command a
\* duplicate, another one rejects it.
BeginBusy ==
    /\ alive /\ checked # NoRequest
    /\ starting[checked.id].at = "no"
    /\ slot # None
    /\ Record(checked.id, IF TaskOf(slot) = TaskOf(checked.id) THEN "duplicate" ELSE "rejected")
    /\ deferred' = [deferred EXCEPT ![checked.id] = NoRequest]
    /\ checked' = NoRequest
    /\ UNCHANGED <<adminVars, linkVars, queue, starting, slotVars, shutdown, effects, bounds>>

\* beginStart, ReserveTask and the goroutine that prepares the task.
BeginReserves ==
    /\ alive /\ checked # NoRequest
    /\ starting[checked.id].at = "no"
    /\ slot = None
    /\ slot' = checked.id
    /\ starting' = [starting EXCEPT ![checked.id] =
                       [at |-> "prepare", live |-> checked.live, cause |-> "none"]]
    /\ checked' = NoRequest
    /\ UNCHANGED <<adminVars, linkVars, queue, deferred, running, outVars, hostVars,
                   effects, bounds>>

\* The AfterFunc of a request whose connection is gone cancels the task.
SessionInterrupts(i) ==
    /\ alive
    /\ starting[i].at = "prepare"
    /\ ~starting[i].live
    /\ starting[i].cause = "none"
    /\ starting' = [starting EXCEPT ![i].cause = "session"]
    /\ UNCHANGED <<adminVars, linkVars, queue, checked, deferred, slotVars, outVars, hostVars,
                   effects, bounds>>

\* The bundle is there, the AfterFunc has been called off and nothing has
\* cancelled the task: LaunchReservedTask.
Launch(i) ==
    /\ alive
    /\ starting[i].at = "prepare"
    /\ starting[i].live
    /\ starting[i].cause = "none"
    /\ starting' = [starting EXCEPT ![i].at = "launched"]
    /\ running' = TRUE
    /\ Took(i)
    /\ UNCHANGED <<adminVars, linkVars, queue, checked, deferred, slot, outVars,
                   hostVars, bounds>>

\* ReleaseReservedTask: the slot is free, and if executeTask already runs the
\* task it goes on without one.
Release(i) ==
    IF slot = i THEN slot' = None /\ running' = FALSE ELSE UNCHANGED slotVars

\* completeStart with an outcome: record it and forget the copies put off.
CompleteWith(i, status) ==
    /\ Record(i, status)
    /\ starting' = [starting EXCEPT ![i] = NoStart]
    /\ deferred' = [deferred EXCEPT ![i] = NoRequest]
    /\ UNCHANGED queue

\* completeStart without one: the copy put off, if any, is queued again, unless
\* its connection is gone too and the select takes that branch.
CompleteSilently(i) ==
    /\ starting' = [starting EXCEPT ![i] = NoStart]
    /\ deferred' = [deferred EXCEPT ![i] = NoRequest]
    /\ \/ /\ deferred[i] # NoRequest
          /\ queue' = Append(queue, deferred[i])
       \/ /\ ~deferred[i].live
          /\ UNCHANGED queue
    /\ UNCHANGED <<outVars, alive>>

\* A wrong end of a cancelled Start: it is reported as applied.
PrepareCancelledApplied(i) ==
    /\ alive
    /\ starting[i].at = "prepare"
    /\ starting[i].cause # "none"
    /\ Release(i)
    /\ CompleteWith(i, "applied")
    /\ UNCHANGED <<adminVars, linkVars, checked, shutdown, effects, bounds>>

\* The goroutine of a Start that was cancelled before the launch.
PrepareCancelled(i) ==
    /\ alive
    /\ starting[i].at = "prepare"
    /\ starting[i].cause # "none"
    /\ Release(i)
    /\ IF starting[i].cause = "session" THEN CompleteSilently(i) ELSE CompleteWith(i, "rejected")
    /\ UNCHANGED <<adminVars, linkVars, checked, shutdown, effects, bounds>>

\* The bundle or the assignment is bad, or the pool takes no goroutine.
PrepareRefused(i) ==
    /\ "refuse" \in Events
    /\ alive
    /\ starting[i].at = "prepare" /\ starting[i].live /\ starting[i].cause = "none"
    /\ Release(i)
    /\ CompleteWith(i, "rejected")
    /\ UNCHANGED <<adminVars, linkVars, checked, shutdown, effects, bounds>>

\* The download fails with a transient error while the connection lives on.
PrepareFails(i) ==
    /\ "transient" \in Events
    /\ alive
    /\ starting[i].at = "prepare" /\ starting[i].live /\ starting[i].cause = "none"
    /\ Release(i)
    /\ CompleteSilently(i)
    /\ UNCHANGED <<adminVars, linkVars, checked, shutdown, effects, bounds>>

\* After the launch the goroutine looks at the cause once more: a Stop since
\* then rejects the Start, the end of the run (context.Canceled) drops it.
LaunchChecked(i) ==
    /\ alive
    /\ starting[i].at = "launched"
    /\ \/ /\ starting[i].cause = "none"
          /\ CompleteWith(i, "applied")
          /\ UNCHANGED slotVars
       \/ /\ starting[i].cause = "stop"
          /\ Release(i)
          /\ CompleteWith(i, "rejected")
       \/ /\ starting[i].cause = "ended"
          /\ Release(i)
          /\ CompleteSilently(i)
    /\ UNCHANGED <<adminVars, linkVars, checked, shutdown, effects, bounds>>

\* executeTask returns: the slot is freed and the task's context cancelled.
RunEnds ==
    /\ alive
    /\ running
    /\ running' = FALSE
    /\ slot' = None
    /\ starting' = [starting EXCEPT ![slot].cause =
                       IF starting[slot].at # "no" /\ @ = "none" THEN "ended" ELSE @]
    /\ UNCHANGED <<adminVars, linkVars, queue, checked, deferred, outVars, hostVars,
                   effects, bounds>>

-----------------------------------------------------------------------------
SendStep == PendingBatch \/ SendCommand \/ SendReceipt
ExecuteStep ==
    \/ ExecuteKnown \/ ExecuteStart \/ ExecuteStop \/ ExecuteShutdown
    \/ BeginDeferred \/ BeginBusy \/ BeginReserves
StarterStep(i) ==
    \/ SessionInterrupts(i) \/ Launch(i) \/ PrepareCancelled(i) \/ PrepareRefused(i)
    \/ PrepareFails(i) \/ LaunchChecked(i)

Next ==
    \/ \E kind \in Kinds, t \in Tasks \cup {NoTask}: CreateBatch(kind, t)
    \/ \E t \in Tasks: TaskEnds(t)
    \/ Connect \/ Drop \/ Exit
    \/ SendStep \/ HandleAck \/ SendOutcomes
    \/ ExecuteStep
    \/ \E i \in Ids: StarterStep(i)
    \/ RunEnds

\* Every goroutine of the two processes is scheduled, the supervisor reconnects
\* for ever (reconnectMaxRetries is -1) and a connection that does not break
\* delivers.
Fairness ==
    /\ WF_vars(Connect) /\ WF_vars(Exit)
    /\ WF_vars(SendStep) /\ WF_vars(HandleAck) /\ WF_vars(SendOutcomes)
    /\ WF_vars(ExecuteStep)
    /\ \A i \in Ids: WF_vars(StarterStep(i))

Spec == Init /\ [][Next]_vars /\ Fairness

\* The same with an admin that may lose its memory.
RestartSpec == Init /\ [][Next \/ AdminRestart]_vars /\ Fairness

-----------------------------------------------------------------------------
\* The types of the state; a session that is down keeps nothing of the old one,
\* and no run is alive without the slot that cancels it.
TypeOK ==
    /\ log \in Seq(Commands)
    /\ terminal \in Seq(Ids)
    /\ ended \subseteq Tasks
    /\ session \in Sessions
    /\ ~session.up => session = NoSession
    /\ acks \in Seq(Acks)
    /\ queue \in Seq(Request)
    /\ checked \in Request \cup {NoRequest}
    /\ starting \in [Ids -> Starts]
    /\ deferred \in [Ids -> Request \cup {NoRequest}]
    /\ slot \in Ids \cup {None}
    /\ running \in BOOLEAN
    /\ running => slot # None
    /\ outbox \in Seq(Outcomes)
    /\ notify \in BOOLEAN
    /\ shutdown \in Ids \cup {None}
    /\ alive \in BOOLEAN
    /\ effects \in [Ids -> Nat]
    /\ drops \in 0..MaxDrops
    /\ restarts \in 0..MaxRestarts

\* The log says what the agent did: a command it lists as acked took effect, a
\* Start launched its task, however often the command and its ACK were sent.
AckedTookEffect ==
    \A i \in Created: log[i].state = "acked" => effects[i] >= 1

\* Log and outbox never disagree about a command: the agent keeps the first
\* outcome ("the exact outcome (including rejection)"), whatever a later copy
\* would have produced, and that is the one the log holds.  Only a Start of a
\* task that has ended may be rejected by the admin itself.
VerdictMatches ==
    \A i \in Created: Recorded(i) /\ log[i].state \in {"acked", "rejected"} =>
        \/ (log[i].state = "rejected") = (Outcome(i).status = "rejected")
        \/ log[i].kind = "start" /\ log[i].task \in ended

\* Log, outbox and agent tell the same story of every command.
OutcomesAgree == TypeOK /\ AckedTookEffect /\ VerdictMatches

\* A Stop or a Shutdown takes effect once, however many copies are delivered.
OnceOnly ==
    \A i \in Created: log[i].kind # "start" => effects[i] <= 1

\* The agent exits for a Shutdown only when the log holds its ACK: "Agent must
\* not perform process-ending side effects before this receipt arrives".  Only a
\* command with an ACK can have been evicted since.
ShutdownAfterAck ==
    [][shutdown # None /\ shutdown' = None => log[shutdown].state \in {"acked", "gone"}]_vars

\* Stops and shutdowns are acknowledged at last, through broken connections,
\* lost wake-ups and full windows: "CommandAck is delivered at least once".
StopsSettle ==
    \A i \in Ids: (i \in Pending /\ log[i].kind # "start") ~> (i \notin Pending \/ ~alive)

\* Once connections no longer break, one of them stays.
SessionHolds == <>[](session.up \/ ~alive)

\* Commands are executed serially: when a Stop of a task has been applied, the
\* Start before it launches nothing any more.
StopWins ==
    [][\A i, j \in Created:
         (/\ log[i].kind = "start" /\ log[j].kind = "stop" /\ log[i].task = log[j].task
          /\ Recorded(j) /\ Outcome(j).status = "applied")
         => effects'[i] = effects[i]]_vars

=============================================================================
