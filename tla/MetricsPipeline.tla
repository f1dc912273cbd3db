-------------------------- MODULE MetricsPipeline --------------------------
(***************************************************************************)
(* The way of a measurement from a robot to the history: the collector of  *)
(* an agent (monitor), its reporter and its one-slot stream                *)
(* (agent/metrics), the metrics service and the ingestor of the admin      *)
(* (admin/grpcapi, admin/metrics), the window store and the sampler that   *)
(* appends batches of windows to the MySQL history.                        *)
(*                                                                         *)
(* One agent starts a task, after an earlier one whose counters and whose  *)
(* last frame may still be there.  A measurement is the identity of one    *)
(* recorded action: a counter is the set of the measurements it has        *)
(* counted, so that one counted twice or never shows.                      *)
(* What the counters themselves hold and how snapshots are validated and   *)
(* merged is the module MetricsView.                                       *)
(***************************************************************************)
EXTENDS Integers, Sequences, FiniteSets, SequencesExt

CONSTANTS
    Recorders,     \* goroutines of robots that record
    MaxRecords,    \* bound: measurements of the task
    MaxTicks,      \* bound: ticks of the reporter
    MaxEvents,     \* bound: stage resets, system frames, broken streams, failed
                   \* history writes, an admin without history and a frame
                   \* left by the earlier task, together
    SlotCapacity,  \* metricsSlotCapacity, the size of both tables
    ApdexT,        \* the Apdex threshold of the task
    ApdexBefore    \* the one of the task before it

ASSUME PipelineAssumption ==
    /\ {SlotCapacity, ApdexT, ApdexBefore} \subseteq Nat \ {0}
    /\ {MaxRecords, MaxTicks, MaxEvents} \subseteq Nat

VARIABLES
    collector,   \* MetricsCollector: epoch, cumulative and window counters
    recorder,    \* what each recorder has counted but not yet windowed
    phase,       \* executeTask of the current task
    reporter,    \* StressReporter: nextSequence, its ticker and Stop
    latest,      \* LatestMetrics: the two slots, their drops, notify
    sender,      \* SendLoop: generation and what it took from the slots
    wire,        \* envelopes sent on the stream and not yet received
    ingestor,    \* Ingestor: slots, ready queue, errors
    worker,      \* the ingest worker: its key, envelope and place in Accept
    store,       \* WindowStore
    sampler,     \* sampleOnce of the loop and of the final flush
    terminal,    \* admin state of the task and place in onTaskTerminal
    rows,        \* task_timeseries
    history,     \* whether the admin has a history store
    events,      \* stage resets, system frames and faults so far
    ghost        \* windows taken and measurements that left with a Reset

agentVars == <<collector, recorder, phase, reporter>>
streamVars == <<latest, sender, wire>>
adminVars == <<ingestor, worker, store>>
historyVars == <<sampler, terminal, rows, history>>
vars == <<agentVars, streamVars, adminVars, historyVars, events, ghost>>

Earlier == 0      \* the earlier task, and what it measured
Task == 1
None == [none |-> TRUE]
Kinds == {"stress", "system"}
\* A window: its task, sequence, collection epoch, own and cumulative counts,
\* and whether it was measured with the task's own Apdex threshold.
Window(t, s, c) == [task |-> t, seq |-> s, epoch |-> c.epoch,
                    own |-> c.window, cum |-> c.cum, apdex |-> c.apdex]
\* One of the events the model bounds.
Happens == events < MaxEvents /\ events' = events + 1
Spent == Cardinality(collector.seen)

\* A started reporter: the first sequence is 1.
NewStressReporter ==
    [next |-> 1, ticks |-> 0, running |-> TRUE, stopped |-> FALSE,
     tick |-> None, stop |-> None]

\* The last frame of the earlier task.
EarlierFrame == [task |-> Earlier, seq |-> 1, epoch |-> 1, own |-> {Earlier},
         cum |-> {Earlier}, apdex |-> ApdexBefore]

\* What the window store holds of a task it does not know (any more).
Released == [state |-> None, pending |-> {}, inFlight |-> {}, terminal |-> FALSE]

\* The slots of the agent's stream; what the earlier task left in them.
LatestMetrics(left) ==
    [stress |-> left, system |-> None, stressTask |-> Earlier,
     stressDrops |-> 0, systemDrops |-> 0, notify |-> left # None]

NewIngestor == [slots |-> <<>>, ready |-> <<>>, errors |-> {}, ended |-> {}]

\* The loop of a task and its last flush, which may overlap.
NewSampler == [loop |-> [at |-> "off", batch |-> {}],
               final |-> [at |-> "off", batch |-> {}]]

Init ==
    /\ collector = [epoch |-> 1, cum |-> {Earlier}, window |-> {},
                    apdex |-> ApdexBefore, seen |-> {}]
    /\ recorder = [r \in Recorders |-> {}]
    /\ phase = "reset"
    /\ reporter = NewStressReporter
    /\ \E left \in {None, [window |-> EarlierFrame, dropped |-> 0]} :
         latest = LatestMetrics(left)
    /\ sender = [generation |-> 1, up |-> TRUE, at |-> "wait",
                 current |-> 1, stress |-> None, system |-> None]
    /\ wire = <<>>
    /\ ingestor = NewIngestor
    /\ worker = [at |-> "idle"]
    /\ store = Released
    /\ sampler = NewSampler
    /\ terminal = "created"
    /\ rows = {}
    /\ history \in BOOLEAN
    /\ events = (IF history THEN 0 ELSE 1) + (IF latest.stress = None THEN 0 ELSE 1)
    /\ events <= MaxEvents
    /\ ghost = [taken |-> {}, reset |-> {}, accepted |-> {}, left |-> FALSE,
                released |-> FALSE, alarm |-> {}]
-----------------------------------------------------------------------------
(***************************************************************************)
(* The collector.  A recording holds transitionMu for reading from its     *)
(* cumulative half to its window half; switching the window or resetting   *)
(* takes the lock for writing.                                             *)
(***************************************************************************)
NoRecorder == \A r \in Recorders : recorder[r] = {}

\* RecordAction, RecordPendingCanceled, AddBandwidth: the cumulative half.
RecordAction(r) ==
    /\ phase = "run" /\ recorder[r] = {} /\ Spent < MaxRecords
    /\ LET id == Spent + 1
       IN /\ collector' = [collector EXCEPT !.cum = @ \cup {id},
                                            !.seen = @ \cup {id}]
          /\ recorder' = [recorder EXCEPT ![r] = {id}]
    /\ UNCHANGED <<events, phase, reporter, streamVars, adminVars, historyVars, ghost>>

\* The same recording forwarded to the current window collector.
RecordWindow(r) ==
    /\ recorder[r] # {}
    /\ collector' = [collector EXCEPT !.window = @ \cup recorder[r]]
    /\ recorder' = [recorder EXCEPT ![r] = {}]
    /\ UNCHANGED <<events, phase, reporter, streamVars, adminVars, historyVars, ghost>>

\* Reset: a new epoch, empty counters and an empty window.
Reset(c) == [c EXCEPT !.epoch = @ + 1, !.cum = {}, !.window = {}]

\* Mutant: a switch of the window that forgets to store the new one.
MutantTakeReportSnapshot(c) == c

\* TakeReportSnapshot: a fresh window, and the old one with the cumulative
\* counters of the same instant.
TakeReportSnapshot(c) == [c EXCEPT !.window = {}]
-----------------------------------------------------------------------------
(***************************************************************************)
(* executeTask: the reporter is started, then Runner.Run resets the        *)
(* collector and sets the task's Apdex threshold; the ticker may report    *)
(* before that.  Robots run, stages may reset, the end flushes.            *)
(***************************************************************************)
\* Runner.Run, step 7: Reset, and SetApdexT, which both the collector and the
\* window take over.  A window taken between the two has the old threshold
\* and is refused like one taken before them.
RunReset ==
    /\ phase = "reset" /\ NoRecorder
    /\ collector' = [Reset(collector) EXCEPT !.seen = {}, !.apdex = ApdexT]
    /\ phase' = "run"
    /\ UNCHANGED <<events, recorder, reporter, streamVars, adminVars, historyVars, ghost>>

\* OnStageReset, when the robots of the stage are gone: a snapshot for the
\* stage's report, then Reset.  What the window held is in that report and in
\* no window.
StageReset ==
    /\ phase = "run" /\ NoRecorder /\ Happens
    /\ collector' = Reset(collector)
    /\ ghost' = [ghost EXCEPT !.reset = @ \cup collector.window]
    /\ UNCHANGED <<recorder, phase, reporter, streamVars, adminVars, historyVars>>

\* runner.Run returned; the robots are gone.  Stop closes stopCh.
StopReporter ==
    /\ phase = "run" /\ NoRecorder
    /\ phase' = "flush"
    /\ reporter' = [reporter EXCEPT !.stopped = TRUE]
    /\ UNCHANGED <<events, collector, recorder, streamVars, adminVars, historyVars, ghost>>

\* reportOnce under reportMu, by the ticker or by Stop.
Taken == Window(Task, reporter.next, collector)
TakeWindow(who) ==
    /\ NoRecorder
    /\ collector' = TakeReportSnapshot(collector)
    /\ reporter' = [reporter EXCEPT !.next = @ + 1, ![who] = Taken,
                        !.ticks = IF who = "tick" THEN @ + 1 ELSE @]
    /\ ghost' = [ghost EXCEPT !.taken = @ \cup {Taken}]

\* The ticker's select may still choose a tick after stopCh was closed.
Tick ==
    /\ reporter.running /\ reporter.tick = None /\ reporter.ticks < MaxTicks
    /\ TakeWindow("tick")
    /\ UNCHANGED <<events, recorder, phase, streamVars, adminVars, historyVars>>

StopFlush ==
    /\ phase = "flush"
    /\ TakeWindow("stop")
    /\ phase' = "flushed"
    /\ UNCHANGED <<events, recorder, streamVars, adminVars, historyVars>>

ReporterExit ==
    /\ reporter.running /\ reporter.stopped /\ reporter.tick = None
    /\ reporter' = [reporter EXCEPT !.running = FALSE]
    /\ UNCHANGED <<events, collector, recorder, phase, streamVars, adminVars, historyVars, ghost>>

-----------------------------------------------------------------------------

(***************************************************************************)
(* LatestMetrics: one slot per kind.  reportOnce offers outside reportMu.  *)
(***************************************************************************)
\* A task's first offer forgets the frame and the drops of the task before it.
OfferStress(l, w) ==
    LET same == l.stressTask = w.task
        drops == IF ~same THEN 0
                 ELSE l.stressDrops + (IF l.stress = None THEN 0 ELSE 1)
    IN [l EXCEPT !.stressTask = w.task, !.stressDrops = drops,
                 !.stress = [window |-> w, dropped |-> drops], !.notify = TRUE]

Offer(who) ==
    /\ reporter[who] # None
    /\ latest' = OfferStress(latest, reporter[who])
    /\ reporter' = [reporter EXCEPT ![who] = None]
    /\ UNCHANGED <<events, collector, recorder, phase, sender, wire, adminVars, historyVars, ghost>>

\* OfferSystem, by the system reporter's ticker.
OfferSystem ==
    /\ Happens
    /\ LET drops == latest.systemDrops + (IF latest.system = None THEN 0 ELSE 1)
       IN latest' = [latest EXCEPT !.systemDrops = drops,
                         !.system = [dropped |-> drops],
                         !.notify = TRUE]
    /\ UNCHANGED <<agentVars, sender, wire, adminVars, historyVars, ghost>>

\* Mutant: a restore that puts the frames back and does not wake the next loop.
MutantRestore(l, stress, system) ==
    LET s == IF stress # None /\ l.stress = None THEN stress ELSE l.stress
        y == IF system # None /\ l.system = None THEN system ELSE l.system
    IN [l EXCEPT !.stress = s, !.system = y]

\* restore: put back what was not sent, unless a newer frame has come.
Restore(l, stress, system) ==
    LET sDrop == stress # None /\ l.stress # None
                 /\ l.stress.window.task = stress.window.task
        yDrop == system # None /\ l.system # None
        s == IF stress # None /\ l.stress = None THEN stress
             ELSE IF sDrop THEN [l.stress EXCEPT !.dropped = l.stressDrops + 1]
             ELSE l.stress
        y == IF system # None /\ l.system = None THEN system
             ELSE IF yDrop THEN [l.system EXCEPT !.dropped = l.systemDrops + 1]
             ELSE l.system
    IN [l EXCEPT !.stress = s, !.system = y,
                 !.stressDrops = IF sDrop THEN @ + 1 ELSE @,
                 !.systemDrops = IF yDrop THEN @ + 1 ELSE @,
                 !.notify = (l.notify \/ s # None \/ y # None)]
-----------------------------------------------------------------------------
(***************************************************************************)
(* SendLoop on the stream of one control session.                          *)
(***************************************************************************)
\* Where the loop goes with what it holds.
Step(stress, system) == CASE stress # None -> "stress"
                          [] stress = None /\ system # None -> "system"
                          [] OTHER -> "wait"
Take ==
    /\ sender.at = "wait" /\ sender.up /\ latest.notify
    /\ sender' = [sender EXCEPT !.at = Step(latest.stress, latest.system),
                                !.stress = latest.stress, !.system = latest.system]
    /\ latest' = [latest EXCEPT !.stress = None, !.system = None, !.notify = FALSE]
    /\ UNCHANGED <<events, agentVars, wire, adminVars, historyVars, ghost>>

Envelope(k, payload) == [generation |-> sender.generation, kind |-> k,
                         payload |-> payload]
Send(k) ==
    /\ sender.at = k /\ sender.up
    /\ wire' = Append(wire, Envelope(k, sender[k]))
    /\ sender' = [sender EXCEPT ![k] = None,
          !.at = IF k = "stress" THEN Step(None, sender.system) ELSE "wait"]
    /\ UNCHANGED <<events, agentVars, latest, adminVars, historyVars, ghost>>

\* Send fails on a broken stream: restore and leave the loop.
SendFails ==
    /\ ~sender.up /\ sender.at \in Kinds
    /\ latest' = Restore(latest, sender.stress, sender.system)
    /\ sender' = [sender EXCEPT !.at = "ended", !.stress = None, !.system = None]
    /\ UNCHANGED <<events, agentVars, wire, adminVars, historyVars, ghost>>

\* The session's context ended while the loop waited.
SendLoopCanceled ==
    /\ ~sender.up /\ sender.at = "wait"
    /\ sender' = [sender EXCEPT !.at = "ended"]
    /\ UNCHANGED <<events, agentVars, latest, wire, adminVars, historyVars, ghost>>

\* The stream breaks; what was sent and not received is gone.
BreakStream ==
    /\ sender.up /\ Happens
    /\ sender' = [sender EXCEPT !.up = FALSE]
    /\ wire' = <<>>
    /\ UNCHANGED <<agentVars, latest, adminVars, historyVars, ghost>>
-----------------------------------------------------------------------------
(***************************************************************************)
(* Sessions and the metrics service of the admin.                          *)
(***************************************************************************)
\* A worker inside WithCurrent holds the agent's gate, which Attach takes.
GateFree == worker.at = "idle"

\* The agent's next session: Attach gives the next generation.
Reconnect ==
    /\ sender.at = "ended" /\ GateFree
    /\ sender' = [sender EXCEPT !.generation = @ + 1, !.current = sender.generation + 1,
                                !.up = TRUE, !.at = "wait"]
    /\ ingestor' = [ingestor EXCEPT !.ended = @ \cup ({sender.current} \ {0})]
    /\ UNCHANGED <<events, agentVars, latest, wire, worker, store, historyVars, ghost>>

\* The slots and errors of a generation whose session ended; a slot that is
\* queued is left to the worker.
DropGeneration(i, g) ==
    LET kept == {k \in DOMAIN i.slots : k[1] # g \/ i.slots[k].queued}
    IN [i EXCEPT !.slots = [k \in kept |-> i.slots[k]],
                 !.errors = {e \in @ : e[1] # g}, !.ended = @ \ {g}]

\* The handler of a session that ended: Detach, if it is still the current
\* one, and DropGeneration.
EndGeneration(g) ==
    /\ g \in ingestor.ended \/ (~sender.up /\ g = sender.current)
    /\ sender' = [sender EXCEPT !.current = IF @ = g THEN 0 ELSE @]
    /\ ingestor' = DropGeneration(ingestor, g)
    /\ UNCHANGED <<events, agentVars, latest, wire, worker, store, historyVars, ghost>>

\* Ingestor.Offer: the slot takes the newest envelope and is queued once.
\* The refusals (a full table, a full queue) end the stream.
SlotOf(i, k) == IF k \in DOMAIN i.slots THEN i.slots[k]
                ELSE [env |-> None, queued |-> FALSE]
WithSlot(i, k, s) ==
    [i EXCEPT !.slots = [x \in DOMAIN @ \cup {k} |-> IF x = k THEN s ELSE @[x]]]
TableFull(i, k) == k \notin DOMAIN i.slots /\ Cardinality(DOMAIN i.slots) >= SlotCapacity
QueueFull(i, k) == ~SlotOf(i, k).queued /\ Len(i.ready) >= SlotCapacity
Refused(i, k) == TableFull(i, k) \/ QueueFull(i, k)
Ingested(i, k, env) ==
    CASE TableFull(i, k) -> i
      [] ~TableFull(i, k) /\ QueueFull(i, k) -> WithSlot(i, k, [env |-> env, queued |-> FALSE])
      [] ~TableFull(i, k) /\ ~QueueFull(i, k) ->
             LET j == WithSlot(i, k, [env |-> env, queued |-> TRUE])
             IN IF SlotOf(i, k).queued THEN j ELSE [j EXCEPT !.ready = Append(@, k)]

\* Report, one envelope: the session must be current; an error of an earlier
\* envelope ends the stream, and this envelope with it.
Receive ==
    /\ wire # <<>> /\ sender.up
    /\ LET env == Head(wire)
           k == <<env.generation, env.kind>>
           failed == {e \in ingestor.errors : e[1] = env.generation}
           stale == sender.current # env.generation
           ends == stale \/ failed # {} \/ Refused(ingestor, k)
       IN /\ ingestor' = IF stale THEN ingestor
                         ELSE IF failed # {} THEN [ingestor EXCEPT !.errors = @ \ failed]
                         ELSE Ingested(ingestor, k, env)
          /\ wire' = IF ends THEN <<>> ELSE Tail(wire)
          /\ sender' = [sender EXCEPT !.up = ~ends]
    /\ UNCHANGED <<events, agentVars, latest, worker, store, historyVars, ghost>>
-----------------------------------------------------------------------------
(***************************************************************************)
(* The ingest worker: processKey around AcceptanceService.Accept.          *)
(***************************************************************************)
\* Mutant: a worker that leaves a newer envelope to the next Offer.
MutantFinished(i, k, err) ==
    IF SlotOf(i, k).env # None THEN i
    ELSE [i EXCEPT !.slots = [x \in DOMAIN @ \ {k} |-> @[x]]]

\* The rest of processKey: an error waits for the stream's next envelope; a
\* newer envelope keeps the key queued.
Finished(i, k, err) ==
    LET j == IF err THEN [i EXCEPT !.errors = @ \cup {k}] ELSE i
    IN IF SlotOf(j, k).env # None
       THEN [j EXCEPT !.ready = Append(@, k)]
       ELSE [j EXCEPT !.slots = [x \in DOMAIN @ \ {k} |-> @[x]]]

\* runWorker takes a key; WithCurrent and Accept's checks of the node's and of
\* the active task decide whether the frame counts.
Counts(k, env) ==
    /\ k[1] = sender.current /\ k[2] = "stress"
    /\ env.payload.window.task = Task /\ terminal = "active"
Dequeue ==
    /\ worker.at = "idle" /\ ingestor.ready # <<>>
    /\ LET k == Head(ingestor.ready)
           i == [ingestor EXCEPT !.ready = Tail(@)]
           env == i.slots[k].env
           j == WithSlot(i, k, [i.slots[k] EXCEPT !.env = None])
       IN IF k \notin DOMAIN i.slots
          THEN ingestor' = i /\ UNCHANGED worker
          ELSE IF Counts(k, env)
          THEN ingestor' = j /\ worker' = [at |-> "commit", key |-> k, env |-> env]
          ELSE ingestor' = Finished(j, k, FALSE) /\ UNCHANGED worker
    /\ UNCHANGED <<events, agentVars, streamVars, store, historyVars, ghost>>

\* AcceptWithDrops under the shard's lock: what becomes of a window.
Verdict(prev, w, dropped) ==
    CASE w.apdex # ApdexT -> "mismatch"
      [] w.apdex = ApdexT /\ prev = None -> "accept"
      [] w.apdex = ApdexT /\ prev # None ->
             IF w.seq <= prev.seq THEN "duplicate"
             ELSE IF \/ dropped < prev.dropped
                     \/ w.epoch < prev.epoch
                     \/ w.epoch = prev.epoch /\ ~(prev.cum \subseteq w.cum)
             THEN "regress" ELSE "accept"

Commit ==
    /\ worker.at = "commit"
    /\ LET slot == worker.env.payload
           w == slot.window
           v == Verdict(store.state, w, slot.dropped)
       IN /\ store' = IF v # "accept" THEN store
                      ELSE [store EXCEPT !.state =
                              [seq |-> w.seq, dropped |-> slot.dropped,
                               epoch |-> w.epoch, cum |-> w.cum]]
          /\ ghost' = CASE v = "accept" -> [ghost EXCEPT !.accepted = @ \cup {w}]
                        [] v = "regress" -> [ghost EXCEPT !.alarm = @ \cup {w}]
                        [] OTHER -> ghost
          /\ worker' = IF v = "accept" THEN [worker EXCEPT !.at = "append"]
                       ELSE [at |-> "idle"]
          /\ ingestor' = IF v = "accept" THEN ingestor
                         ELSE Finished(ingestor, worker.key, v \in {"mismatch", "regress"})
    /\ UNCHANGED <<events, agentVars, streamVars, historyVars>>

\* ... and then, under the store's own lock, the pending history.
AppendPending ==
    /\ worker.at = "append"
    /\ LET w == worker.env.payload.window
           over == sampler.final.at = "done" \/ ghost.released
       IN /\ store' = [store EXCEPT !.pending = @ \cup {w}]
          /\ ghost' = [ghost EXCEPT !.left = @ \/ over]
    /\ worker' = [at |-> "idle"]
    /\ ingestor' = Finished(ingestor, worker.key, FALSE)
    /\ UNCHANGED <<events, agentVars, streamVars, historyVars>>

-----------------------------------------------------------------------------
(***************************************************************************)
(* WindowStore: batches of windows for the history.                        *)
(***************************************************************************)
\* cleanupTerminalTaskLocked: a terminal task with nothing left is dropped.
CleanupTerminal(st) ==
    IF st.terminal /\ st.pending = {} /\ st.inFlight = {} THEN Released ELSE st

\* PeekHistory: the batch in flight, unchanged, or all that is pending.
PeekHistory(st) ==
    IF st.inFlight # {} THEN st
    ELSE [st EXCEPT !.inFlight = st.pending, !.pending = {}]

Seqs(batch) == {w.seq : w \in batch}
\* metricHistoryBatchToken: the range of the sequences of the batch.
Token(batch) == <<Min(Seqs(batch)), Max(Seqs(batch))>>

\* AckHistory: only the batch the token names is confirmed.
Acked(st, batch) == st.inFlight # {} /\ Token(st.inFlight) = Token(batch)
AckHistory(st, batch) ==
    IF Acked(st, batch) THEN CleanupTerminal([st EXCEPT !.inFlight = {}]) ELSE st

\* AppendTimeseries: the token is a unique key, so a batch is one row.
AppendTimeseries(rs, batch) ==
    IF \E r \in rs : r.token = Token(batch) THEN rs
    ELSE rs \cup {[token |-> Token(batch), seqs |-> Seqs(batch)]}
-----------------------------------------------------------------------------
(***************************************************************************)
(* Sampler: sampleOnce of the loop, and of Stop with its background retry. *)
(***************************************************************************)
\* handleStartTask starts the sampler; the agent's Start is acknowledged.
StartSampler ==
    /\ terminal = "created"
    /\ terminal' = "active"
    /\ sampler' = IF history THEN [sampler EXCEPT !.loop.at = "run"] ELSE sampler
    /\ UNCHANGED <<events, agentVars, streamVars, adminVars, rows, history, ghost>>

Peek(who) ==
    /\ sampler[who].at = "run"
    /\ store.pending \cup store.inFlight # {}
    /\ store' = PeekHistory(store)
    /\ sampler' = [sampler EXCEPT ![who] =
                     [at |-> "append", batch |-> PeekHistory(store).inFlight]]
    /\ UNCHANGED <<events, agentVars, streamVars, ingestor, worker, terminal, rows, history, ghost>>

\* Stop returns after its own attempt, whatever became of it.
Attempted(who) ==
    terminal' = IF who = "final" /\ terminal = "flush"
                THEN "archive" ELSE terminal

\* sampleOnce found nothing to save; the final flush is complete.
PeekNothing ==
    /\ sampler.final.at = "run"
    /\ store.pending \cup store.inFlight = {}
    /\ sampler' = [sampler EXCEPT !.final.at = "done"]
    /\ Attempted("final")
    /\ UNCHANGED <<events, agentVars, streamVars, adminVars, rows, history, ghost>>

Save(who) ==
    /\ sampler[who].at = "append"
    /\ rows' = AppendTimeseries(rows, sampler[who].batch)
    /\ sampler' = [sampler EXCEPT ![who].at = "ack"]
    /\ UNCHANGED <<events, agentVars, streamVars, adminVars, terminal, history, ghost>>

\* What an attempt that failed leaves: the loop waits for its next tick, the
\* final flush goes on in the background (retryFinalFlush).
Retry(who) ==
    sampler' = [sampler EXCEPT ![who] = [at |-> "run", batch |-> {}]]

\* The write fails, with or without its row.
SaveFails(who) ==
    /\ sampler[who].at = "append" /\ Happens
    /\ \/ UNCHANGED rows
       \/ rows' = AppendTimeseries(rows, sampler[who].batch)
    /\ Retry(who)
    /\ Attempted(who)
    /\ UNCHANGED <<agentVars, streamVars, adminVars, history, ghost>>

Confirm(who) ==
    /\ sampler[who].at = "ack"
    /\ LET batch == sampler[who].batch
           acked == Acked(store, batch)
           after == AckHistory(store, batch)
       IN /\ store' = after
          /\ ghost' = [ghost EXCEPT
                !.released = @ \/ (store.terminal /\ after = Released),
                !.left = @ \/ (who = "final" /\ acked /\ store.pending # {})]
          /\ sampler' = [sampler EXCEPT ![who] =
                [at |-> IF who = "final" /\ acked THEN "done" ELSE "run", batch |-> {}]]
    /\ Attempted(who)
    /\ UNCHANGED <<events, agentVars, streamVars, ingestor, worker, rows, history>>

\* The loop sees its context canceled.
LoopExit ==
    /\ sampler.loop.at = "run" /\ terminal # "active"
    /\ sampler' = [sampler EXCEPT !.loop.at = "ended"]
    /\ UNCHANGED <<events, agentVars, streamVars, adminVars, terminal, rows, history, ghost>>
-----------------------------------------------------------------------------
(***************************************************************************)
(* onTaskTerminal: stop the sampler, flush, archive, release the windows.  *)
(***************************************************************************)
\* The task ends: its agent reported, or was given up.
TaskEnds ==
    /\ terminal = "active"
    /\ terminal' = "stop"
    /\ UNCHANGED <<events, agentVars, streamVars, adminVars, sampler, rows, history, ghost>>

\* Sampler.Stop waits for the loop, five seconds at most, then flushes.
FinalFlush ==
    /\ history /\ terminal = "stop"
    /\ terminal' = "flush"
    /\ sampler' = [sampler EXCEPT !.final.at = "run"]
    /\ UNCHANGED <<events, agentVars, streamVars, adminVars, rows, history, ghost>>

\* The archive goroutine ends with MarkTaskTerminal, whatever Archive said.
MarkTaskTerminal ==
    /\ terminal = "archive"
    /\ LET after == CleanupTerminal([store EXCEPT !.terminal = TRUE])
       IN /\ store' = after
          /\ ghost' = IF after = Released
                      THEN [ghost EXCEPT !.released = TRUE] ELSE ghost
    /\ terminal' = "marked"
    /\ UNCHANGED <<events, agentVars, streamVars, ingestor, worker, sampler, rows, history>>

\* Without a history the windows are dropped at once.
DropTask ==
    /\ ~history /\ terminal = "stop"
    /\ store' = Released
    /\ ghost' = [ghost EXCEPT !.released = TRUE]
    /\ terminal' = "dropped"
    /\ UNCHANGED <<events, agentVars, streamVars, ingestor, worker, sampler, rows, history>>
-----------------------------------------------------------------------------
Both == {"loop", "final"}

\* What robots, tickers, users and faults do.
Environment ==
    \/ \E r \in Recorders : RecordAction(r)
    \/ RunReset \/ StageReset \/ StopReporter \/ Tick \/ OfferSystem
    \/ BreakStream \/ StartSampler \/ TaskEnds
    \/ \E who \in Both : SaveFails(who)

\* What goroutines do that were started or woken.
Goroutines ==
    \/ \E r \in Recorders : RecordWindow(r)
    \/ StopFlush \/ ReporterExit \/ Offer("tick") \/ Offer("stop")
    \/ Take \/ Send("stress") \/ Send("system") \/ SendFails \/ SendLoopCanceled
    \/ Reconnect \/ \E g \in ingestor.ended \cup {sender.current} : EndGeneration(g)
    \/ Receive \/ Dequeue \/ Commit \/ AppendPending
    \/ PeekNothing \/ LoopExit \/ FinalFlush \/ MarkTaskTerminal \/ DropTask
    \/ \E who \in Both : Peek(who) \/ Save(who) \/ Confirm(who)

Next == Environment \/ Goroutines

Spec == Init /\ [][Next]_vars

\* The Go scheduler runs some goroutine as long as one can run.  Each has a
\* bounded number of steps between two events of the environment, so this
\* weak demand already lets every one of them finish.
FairSpec == Spec /\ WF_vars(Goroutines)
-----------------------------------------------------------------------------
(***************************************************************************)
(* Properties.                                                             *)
(***************************************************************************)
Measurements == 0 .. MaxRecords
Frames == [window : ghost.taken \cup {EarlierFrame}, dropped : Nat]

\* Type correctness of the state, with what the slots and the workers hold.
TypeOK ==
    /\ collector.cum \cup collector.window \subseteq Measurements
    /\ \A w \in ghost.taken : w.own \cup w.cum \subseteq Measurements
    /\ latest.stress \in Frames \cup {None} /\ sender.stress \in Frames \cup {None}
    /\ \A i \in 1 .. Len(wire) : wire[i].kind = "stress" => wire[i].payload \in Frames
    /\ sender.current \in {0, sender.generation}
    /\ worker.at \in {"idle", "commit", "append"}
    /\ store.pending \cup store.inFlight \subseteq ghost.taken

\* No measurement is in two windows, none is lost between two of them, and
\* the cumulative counters of a report are the sum of the windows of its epoch
\* up to its own (transitionMu in RecordAction, TakeReportSnapshot and Reset).
RecordedOnce ==
    /\ \A v, w \in ghost.taken : v # w => v.own \cap w.own = {}
    /\ phase # "reset" =>
         collector.seen = (UNION {w.own : w \in ghost.taken})
                          \cup ghost.reset \cup collector.window
                          \cup (UNION {recorder[r] : r \in Recorders})
    /\ \A w \in ghost.taken : w.epoch > 1 =>
         w.cum = UNION {v.own : v \in {v \in ghost.taken :
                                          v.epoch = w.epoch /\ v.seq <= w.seq}}

\* However frames are overwritten, restored, reordered by Stop and its ticker
\* or sent again on a new stream, the store never reads a window that is new
\* to it as a counter, a drop count or an epoch that went back.
NoFalseAlarm == ghost.alarm = {}

\* No frame is stranded in the ingestor: a slot that holds one is in the ready
\* queue exactly once or with the worker, so the queue cannot outgrow the
\* table and the refusal of a full queue is never taken.
InReady(k) == Cardinality({i \in DOMAIN ingestor.ready : ingestor.ready[i] = k})
SlotsAreServed ==
    /\ Len(ingestor.ready) <= SlotCapacity
    /\ \A k \in DOMAIN ingestor.slots :
         InReady(k) + (IF worker.at # "idle" /\ worker.key = k THEN 1 ELSE 0) = 1

\* Every accepted window is in exactly one place on its way to the history:
\* pending, in flight or in a row, and in flight as well as in its row only
\* until the Ack; rows never share a window.  A window that the worker appends
\* after the task was dropped is the exception the store does not exclude.
RowSeqs == UNION {r.seqs : r \in rows}
AcceptedOnce ==
    LET moving == IF worker.at = "append" THEN {worker.env.payload.window.seq} ELSE {}
    IN /\ \A r, q \in rows : r # q => r.seqs \cap q.seqs = {}
       /\ Seqs(store.pending) \cap (Seqs(store.inFlight) \cup RowSeqs) = {}
       /\ history => Seqs(ghost.accepted) =
             Seqs(store.pending) \cup Seqs(store.inFlight) \cup RowSeqs \cup moving
       /\ ghost.released /\ ~ghost.left => store.pending \cup store.inFlight = {}

\* Once the breaks are over, what was offered last leaves the agent and the
\* ingestor: neither slot, wire nor table keeps a frame for ever.
StreamDrains ==
    <>[](/\ latest.stress = None /\ latest.system = None /\ wire = <<>>
         /\ DOMAIN ingestor.slots = {})

\* The windows of a task that reached its end are released, whatever writes
\* failed on the way, unless a window was left behind: appended after the
\* final flush, or pending behind the batch that the flush found in flight.
ReleasedInTheEnd == terminal = "stop" ~> (ghost.released \/ ghost.left)

\* A measurement counts once: in one window, in one accepted window, in one
\* row of the history; and nothing that happens to the frames on the way looks
\* like a loss to the store.
MeasuredOnce == TypeOK /\ RecordedOnce /\ NoFalseAlarm /\ AcceptedOnce

\* What is on its way arrives, and nothing of a task is kept for ever.
DeliveryEnds == StreamDrains /\ ReleasedInTheEnd
=============================================================================
