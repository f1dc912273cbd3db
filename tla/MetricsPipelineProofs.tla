------------------------ MODULE MetricsPipelineProofs ------------------------
(***************************************************************************)
(* Proofs about MetricsPipeline for every number of recorders, ticks,      *)
(* measurements and faults and every capacity of the ingestor's tables.    *)
(*                                                                         *)
(* The properties speak of the two ends of the way of a measurement: the   *)
(* windows that were taken, and the store and the rows.  What makes them   *)
(* inductive is what lies between them:                                    *)
(*   - Apart and Cumulated: each measurement is in one window, in one      *)
(*     stage's report, in the current window or with its recorder, and the *)
(*     cumulative counters are the sum of the windows of their epoch;      *)
(*   - HeldOnce: a window that was taken is at one place of its way        *)
(*     (reporter, slot of the agent, loop, wire, slot of the admin,        *)
(*     worker), or was accepted, or was lost;                              *)
(*   - DropsInOrder: the drop counts that frames carry never fall from the *)
(*     store back to the agent, also when an unsent frame is restored;     *)
(*   - Queued: a slot is in the ready queue once or with the worker;       *)
(*   - StateIsAccepted: what the store compares a frame with is a window   *)
(*     that it accepted, so that a newer one cannot read as a loss;        *)
(*   - SavedOnce: an accepted window is pending, in flight or in a row,    *)
(*     and a batch that is saved again finds its own row and no other.     *)
(***************************************************************************)
EXTENDS MetricsPipeline, FiniteSetTheorems, SequenceTheorems, WellFoundedInduction, TLAPS

-----------------------------------------------------------------------------
(* The inductive invariant.                                                 *)

\* What a window, a frame and an envelope are.
WindowType == [task : {Earlier, Task}, seq : Nat, epoch : Nat,
               own : SUBSET Measurements, cum : SUBSET Measurements, apdex : Nat]
FrameType == [window : WindowType, dropped : Nat]
SystemType == [dropped : Nat]
EnvelopeType ==
    [generation : Nat, kind : {"stress"}, payload : FrameType]
    \cup [generation : Nat, kind : {"system"}, payload : SystemType]

\* The types of the state of the agent ...
CollectorType == [epoch : Nat, cum : SUBSET Measurements, window : SUBSET Measurements,
                  apdex : Nat, seen : SUBSET Measurements]
ReporterType == [next : Nat, ticks : Nat, running : BOOLEAN, stopped : BOOLEAN,
                 tick : WindowType \cup {None}, stop : WindowType \cup {None}]
LatestType == [stress : FrameType \cup {None}, system : SystemType \cup {None},
               stressTask : {Earlier, Task}, stressDrops : Nat, systemDrops : Nat,
               notify : BOOLEAN]
SenderType == [generation : Nat, up : BOOLEAN, at : {"wait", "stress", "system", "ended"},
               current : Nat, stress : FrameType \cup {None}, system : SystemType \cup {None}]
AgentTypes ==
    /\ collector \in CollectorType
    /\ recorder \in [Recorders -> SUBSET Measurements]
    /\ phase \in {"reset", "run", "flush", "flushed"}
    /\ reporter \in ReporterType
    /\ latest \in LatestType
    /\ sender \in SenderType
    /\ wire \in Seq(EnvelopeType)

\* ... and of the admin.
Keys == Nat \X Kinds
SlotType == [env : EnvelopeType \cup {None}, queued : BOOLEAN]
IngestorTyped(i) ==
    /\ i = [slots |-> i.slots, ready |-> i.ready, errors |-> i.errors, ended |-> i.ended]
    /\ DOMAIN i.slots \subseteq Keys /\ i.slots \in [DOMAIN i.slots -> SlotType]
    /\ i.ready \in Seq(Keys) /\ i.errors \subseteq Keys /\ i.ended \subseteq Nat
WorkerType == [at : {"idle"}] \cup [at : {"commit", "append"}, key : Keys, env : EnvelopeType]
StoreType == [state : [seq : Nat, dropped : Nat, epoch : Nat, cum : SUBSET Measurements] \cup {None},
              pending : SUBSET WindowType, inFlight : SUBSET WindowType, terminal : BOOLEAN]
SamplerType == [Both -> [at : {"off", "run", "append", "ack", "done", "ended"},
                         batch : SUBSET WindowType]]
GhostType == [taken : SUBSET WindowType, reset : SUBSET Measurements,
              accepted : SUBSET WindowType, left : BOOLEAN, released : BOOLEAN,
              alarm : SUBSET WindowType]
AdminTypes ==
    /\ IngestorTyped(ingestor)
    /\ worker \in WorkerType
    /\ store \in StoreType
    /\ sampler \in SamplerType
    /\ \A r \in rows : r.seqs \subseteq Nat /\ r = [token |-> r.token, seqs |-> r.seqs]
    /\ history \in BOOLEAN
    /\ ghost \in GhostType

TypeInv == AgentTypes /\ AdminTypes

-----------------------------------------------------------------------------
(* The collector.                                                           *)

\* The measurements that are counted in the cumulative counters and not yet in
\* the current window.
InRecorders(rec) == UNION {rec[r] : r \in Recorders}
Unwindowed == InRecorders(recorder)
\* What the windows of T own, all of them and those of an epoch up to a number.
OwnedBy(T) == UNION {w.own : w \in T}
EpochOf(T, e, n) == {v \in T : v.epoch = e /\ v.seq <= n}
Owned == OwnedBy(ghost.taken)
EpochOwned(e, n) == OwnedBy(EpochOf(ghost.taken, e, n))

\* Measurements are numbered as they are made.
Numbered == collector.seen = 1 .. Cardinality(collector.seen) /\ IsFiniteSet(collector.seen)

\* Every measurement is in one place: a report's window, a stage's report, the
\* current window or a recorder.
Apart ==
    /\ \A v, w \in ghost.taken : v # w => v.own \cap w.own = {}
    /\ \A r, q \in Recorders : r # q => recorder[r] \cap recorder[q] = {}
    /\ Owned \cap (ghost.reset \cup collector.window \cup Unwindowed) = {}
    /\ ghost.reset \cap (collector.window \cup Unwindowed) = {}
    /\ collector.window \cap Unwindowed = {}

\* Windows are numbered and their epochs follow the numbers.
TakenInOrder ==
    /\ reporter.next >= 1 /\ collector.epoch >= 1
    /\ \A w \in ghost.taken :
         w.task = Task /\ 1 <= w.seq /\ w.seq < reporter.next /\ 1 <= w.epoch /\ w.epoch <= collector.epoch
    /\ \A v, w \in ghost.taken : v.seq = w.seq => v = w
    /\ \A v, w \in ghost.taken : v.seq <= w.seq => v.epoch <= w.epoch

\* The cumulative counters are the sum of the windows of the epoch.
Cumulated ==
    /\ phase = "reset" =>
         /\ collector.epoch = 1 /\ collector.cum = {Earlier} /\ collector.window = {}
         /\ collector.seen = {} /\ ghost.reset = {} /\ Unwindowed = {} /\ Owned = {}
    /\ phase # "reset" =>
         /\ collector.epoch > 1
         /\ collector.seen = Owned \cup ghost.reset \cup collector.window \cup Unwindowed
         /\ collector.cum = EpochOwned(collector.epoch, reporter.next)
                            \cup collector.window \cup Unwindowed
    /\ \A w \in ghost.taken : w.cum = IF w.epoch = 1 THEN {Earlier} ELSE EpochOwned(w.epoch, w.seq)

CountInv == Numbered /\ Apart /\ TakenInOrder /\ Cumulated

-----------------------------------------------------------------------------
(* The stream.                                                              *)

\* What the loop holds at each of its places; a broken stream carries nothing.
SenderHolds ==
    /\ sender.stress # None => sender.at = "stress"
    /\ sender.at = "stress" => sender.stress # None
    /\ sender.system # None => sender.at \in Kinds
    /\ sender.at = "system" => sender.system # None
    /\ sender.at = "ended" => ~ sender.up
    /\ ~ sender.up => wire = <<>>

\* Envelopes and slots are of the current generation or of one before it.
Generations ==
    /\ sender.generation >= 1
    /\ sender.current \in {0, sender.generation}
    /\ \A i \in DOMAIN wire : wire[i].generation = sender.generation
    /\ \A k \in DOMAIN ingestor.slots :
         /\ 1 <= k[1] /\ k[1] <= sender.generation
         /\ ingestor.slots[k].env # None =>
              ingestor.slots[k].env.generation = k[1] /\ ingestor.slots[k].env.kind = k[2]
    /\ worker.at # "idle" => /\ worker.key = <<sender.generation, "stress">>
                             /\ worker.env.kind = "stress"
                             /\ worker.env.payload.window.task = Task

StreamInv == SenderHolds /\ Generations

-----------------------------------------------------------------------------
(* The ingestor.                                                            *)

\* A slot is in the ready queue once or with the worker; one that is queued
\* holds an envelope.
Distinct(q) == \A i, j \in DOMAIN q : q[i] = q[j] => i = j
Among(k, q) == \E i \in DOMAIN q : q[i] = k
Working(k) == worker.at # "idle" /\ worker.key = k
Queued ==
    /\ Distinct(ingestor.ready)
    /\ \A k \in DOMAIN ingestor.slots :
         /\ ingestor.slots[k].queued
         /\ Among(k, ingestor.ready) <=> ~ Working(k)
    /\ \A i \in DOMAIN ingestor.ready :
         /\ ingestor.ready[i] \in DOMAIN ingestor.slots
         /\ ingestor.slots[ingestor.ready[i]].env # None
    /\ worker.at # "idle" => worker.key \in DOMAIN ingestor.slots
    /\ IsFiniteSet(DOMAIN ingestor.slots)
    /\ Cardinality(DOMAIN ingestor.slots) <= SlotCapacity

-----------------------------------------------------------------------------
(* The places of a window on its way from the reporter to the store.        *)

Places == ({"tick", "stop", "latest", "sender", "worker"} \X {0}) \cup ({"wire", "slot"} \X Nat)
FrameWindow(f) == IF f = None THEN None ELSE f.window
EnvelopeWindow(e) == IF e = None THEN None ELSE IF e.kind = "stress" THEN e.payload.window ELSE None
SlotWindow(k) == IF k \in DOMAIN ingestor.slots THEN EnvelopeWindow(ingestor.slots[k].env) ELSE None
WireWindow(i) == IF i \in DOMAIN wire THEN EnvelopeWindow(wire[i]) ELSE None
WorkerWindow == IF worker.at = "commit" THEN worker.env.payload.window ELSE None
Held(p) ==
    CASE p[1] = "tick"   -> reporter.tick
      [] p[1] = "stop"   -> reporter.stop
      [] p[1] = "latest" -> FrameWindow(latest.stress)
      [] p[1] = "sender" -> FrameWindow(sender.stress)
      [] p[1] = "wire"   -> WireWindow(p[2])
      [] p[1] = "slot"   -> SlotWindow(<<p[2], "stress">>)
      [] p[1] = "worker" -> WorkerWindow

\* A window that was taken is on its way once, or accepted, or lost.
HeldOnce ==
    /\ \A p \in Places : Held(p) # None => Held(p) \in ghost.taken \cup {EarlierFrame}
    /\ \A p, q \in Places :
         Held(p) # None /\ Held(p) = Held(q) /\ Held(p).task = Task => p = q
    /\ \A p \in Places : Held(p) \notin ghost.accepted
    /\ ghost.accepted \subseteq ghost.taken
    /\ worker.at = "append" => worker.env.payload.window \in ghost.accepted

-----------------------------------------------------------------------------
(* Drop counts.                                                             *)

\* The drop counts that frames of the task carry, at each part of the way.
FrameDrops(f) == IF f = None THEN {} ELSE IF f.window.task = Task THEN {f.dropped} ELSE {}
EnvelopeDrops(e) == IF e = None THEN {} ELSE IF e.kind = "stress" THEN FrameDrops(e.payload) ELSE {}
Current == <<sender.generation, "stress">>
StoreDrops == IF store.state = None THEN {} ELSE {store.state.dropped}
WorkerDrops == IF worker.at = "commit" THEN {worker.env.payload.dropped} ELSE {}
SlotDrops == IF Current \in DOMAIN ingestor.slots THEN EnvelopeDrops(ingestor.slots[Current].env) ELSE {}
WireDrops == [i \in Nat |-> IF i \in DOMAIN wire THEN EnvelopeDrops(wire[i]) ELSE {}]
SenderDrops == FrameDrops(sender.stress)
LatestDrops == FrameDrops(latest.stress)

\* No count of B is below one of A.
Before(A, B) == \A a \in A, b \in B : a <= b
\* The counts along the way, next to the store first (R are those on the wire):
\* they never fall, and the agent's own count (top) is none of an earlier task.
InLine(S, W, I, R, N, L, ours, top) ==
    /\ Before(S, W) /\ Before(S, I) /\ Before(S, N) /\ Before(S, L)
    /\ Before(W, I) /\ Before(W, N) /\ Before(W, L)
    /\ Before(I, N) /\ Before(I, L) /\ Before(N, L)
    /\ \A i \in Nat : /\ Before(S, R[i]) /\ Before(W, R[i]) /\ Before(I, R[i])
                      /\ Before(R[i], N) /\ Before(R[i], L)
    /\ \A i, j \in Nat : i < j => Before(R[i], R[j])
    /\ \A d : d \in S \/ d \in W \/ d \in I \/ d \in N \/ d \in L \/ (\E i \in Nat : d \in R[i]) =>
            ours /\ d \in Nat /\ d <= top

DropsInOrder ==
    /\ InLine(StoreDrops, WorkerDrops, SlotDrops, WireDrops, SenderDrops, LatestDrops,
              latest.stressTask = Task, latest.stressDrops)
    /\ reporter.tick # None => reporter.tick.task = Task
    /\ reporter.stop # None => reporter.stop.task = Task

\* The store's state of the task is that of a window it has accepted.
StateIsAccepted ==
    store.state # None =>
       \E w \in ghost.accepted : /\ w.seq = store.state.seq
                                 /\ w.epoch = store.state.epoch /\ w.cum = store.state.cum

-----------------------------------------------------------------------------
(* The history.                                                             *)

Moving == IF worker.at = "append" THEN {worker.env.payload.window.seq} ELSE {}
HasRow(rs, batch) == \E r \in rs : r.token = Token(batch)

\* The batch of a save is the one in flight, or has its row already.
Sampling(who) ==
    /\ sampler[who].at \in {"append", "ack"} =>
          history /\ sampler[who].batch # {} /\ sampler[who].batch \subseteq ghost.accepted
    /\ sampler[who].at = "append" =>
          sampler[who].batch = store.inFlight \/ HasRow(rows, sampler[who].batch)
    /\ sampler[who].at = "ack" => HasRow(rows, sampler[who].batch)
    /\ sampler[who].at = "run" => history

\* The numbers of the windows on their way to the history, and in it.
Booked ==
    /\ store.pending \cup store.inFlight \subseteq ghost.accepted
    /\ RowSeqs \cup Moving \subseteq Seqs(ghost.accepted)
    /\ Moving \cap (Seqs(store.pending) \cup Seqs(store.inFlight) \cup RowSeqs) = {}
    /\ AcceptedOnce

\* A row is named after its windows; the batch in flight has its row or none
\* of its windows is in one.
RowsNamed ==
    /\ \A r \in rows : r.seqs # {} /\ r.token = <<Min(r.seqs), Max(r.seqs)>>
    /\ store.inFlight # {} =>
          \/ Seqs(store.inFlight) \cap RowSeqs = {}
          \/ \E r \in rows : r.token = Token(store.inFlight) /\ r.seqs = Seqs(store.inFlight)

SavedOnce == Booked /\ RowsNamed /\ \A who \in Both : Sampling(who)

PipelineInv ==
    /\ TypeInv /\ CountInv /\ StreamInv /\ Queued /\ HeldOnce /\ DropsInOrder
    /\ StateIsAccepted /\ SavedOnce /\ NoFalseAlarm
-----------------------------------------------------------------------------
(* Types.                                                                   *)

\* What is not there is no window, no frame and no envelope.
LEMMA NoneIsNothing ==
    /\ None \notin WindowType /\ None \notin FrameType
    /\ None \notin SystemType /\ None \notin EnvelopeType
<1>1. \A w \in WindowType : w # None  BY DEF WindowType, None
<1>2. \A f \in FrameType : f # None  BY DEF FrameType, None
<1>3. \A f \in SystemType : f # None  BY DEF SystemType, None
<1>4. \A e \in EnvelopeType : e # None  BY DEF EnvelopeType, None
<1> QED  BY <1>1, <1>2, <1>3, <1>4

\* The parts of a window.
LEMMA WindowFields ==
    ASSUME NEW w \in WindowType
    PROVE  /\ w.task \in {Earlier, Task} /\ w.seq \in Nat /\ w.epoch \in Nat
           /\ w.own \subseteq Measurements /\ w.cum \subseteq Measurements /\ w.apdex \in Nat
BY DEF WindowType

\* The frame of the earlier task and the windows of this one are windows.
LEMMA WindowsTyped ==
    ASSUME PipelineAssumption, AgentTypes
    PROVE  EarlierFrame \in WindowType /\ Taken \in WindowType
<1>1. 0 \in Measurements  BY DEF PipelineAssumption, Measurements
<1>2. EarlierFrame \in WindowType  BY <1>1 DEF PipelineAssumption, EarlierFrame, WindowType, Earlier
<1>3. Taken \in WindowType  BY DEF AgentTypes, CollectorType, ReporterType, Taken, Window, WindowType, Task
<1> QED  BY <1>2, <1>3

\* One element more or less in a sequence.
LEMMA AppendStays ==
    ASSUME NEW S, NEW s \in Seq(S), NEW e \in S
    PROVE  /\ Append(s, e) \in Seq(S) /\ Len(Append(s, e)) = Len(s) + 1
           /\ \A i \in 1..Len(s) : Append(s, e)[i] = s[i]
           /\ Append(s, e)[Len(s) + 1] = e
BY AppendProperties

\* One element less at the front of a sequence.
LEMMA TailStays ==
    ASSUME NEW S, NEW s \in Seq(S), s # <<>>
    PROVE  /\ Tail(s) \in Seq(S) /\ Head(s) \in S /\ Head(s) = s[1] /\ 1 \in 1..Len(s)
           /\ Len(Tail(s)) = Len(s) - 1
           /\ \A i \in 1..Len(Tail(s)) : Tail(s)[i] = s[i + 1]
BY HeadTailProperties, EmptySeq

\* Offering and restoring keep the types of the slots.
LEMMA OfferTyped ==
    ASSUME NEW l \in LatestType, NEW w \in WindowType
    PROVE  OfferStress(l, w) \in LatestType
<1> DEFINE drops == IF l.stressTask # w.task THEN 0
                    ELSE l.stressDrops + (IF l.stress = None THEN 0 ELSE 1)
<1>1. drops \in Nat  BY DEF LatestType
<1>2. [window |-> w, dropped |-> drops] \in FrameType  BY <1>1 DEF FrameType
<1>3. OfferStress(l, w) = [l EXCEPT !.stressTask = w.task, !.stressDrops = drops,
                 !.stress = [window |-> w, dropped |-> drops], !.notify = TRUE]
  BY DEF OfferStress
<1> HIDE DEF drops
<1> QED  BY <1>1, <1>2, <1>3, WindowFields DEF LatestType

\* What is put back into the slots is a frame, with a count of drops.
LEMMA RestoreTyped ==
    ASSUME NEW l \in LatestType, NEW f \in FrameType \cup {None}, NEW y \in SystemType \cup {None}
    PROVE  Restore(l, f, y) \in LatestType
<1> DEFINE sDrop == f # None /\ l.stress # None /\ l.stress.window.task = f.window.task
           yDrop == y # None /\ l.system # None
           s == IF f # None /\ l.stress = None THEN f
                ELSE IF sDrop THEN [l.stress EXCEPT !.dropped = l.stressDrops + 1] ELSE l.stress
           z == IF y # None /\ l.system = None THEN y
                ELSE IF yDrop THEN [l.system EXCEPT !.dropped = l.systemDrops + 1] ELSE l.system
<1>1. s \in FrameType \cup {None}  BY DEF LatestType, FrameType
<1>2. z \in SystemType \cup {None}  BY DEF LatestType, SystemType
<1>3. Restore(l, f, y) =
        [l EXCEPT !.stress = s, !.system = z,
                 !.stressDrops = IF sDrop THEN @ + 1 ELSE @,
                 !.systemDrops = IF yDrop THEN @ + 1 ELSE @,
                 !.notify = (l.notify \/ s # None \/ z # None)]
  BY DEF Restore
<1> DEFINE sd == IF sDrop THEN l.stressDrops + 1 ELSE l.stressDrops
           yd == IF yDrop THEN l.systemDrops + 1 ELSE l.systemDrops
           n == l.notify \/ s # None \/ z # None
<1>4. sd \in Nat /\ yd \in Nat /\ n \in BOOLEAN  BY DEF LatestType
<1>5. Restore(l, f, y) = [stress |-> s, system |-> z, stressTask |-> l.stressTask,
                         stressDrops |-> sd, systemDrops |-> yd, notify |-> n]
  <2> HIDE DEF s, z, sDrop, yDrop
  <2> QED  BY <1>3 DEF LatestType
<1> HIDE DEF s, z, sd, yd, n
<1>6. l.stressTask \in {Earlier, Task}  BY DEF LatestType
<1> QED  BY <1>1, <1>2, <1>4, <1>5, <1>6 DEF LatestType

\* Measurements are numbers up to the bound.
LEMMA NextMeasurement ==
    ASSUME PipelineAssumption, TypeInv, Numbered, Spent < MaxRecords
    PROVE  Spent \in Nat /\ Spent + 1 \in Measurements /\ Spent + 1 # Earlier
           /\ Spent + 1 \notin collector.seen
<1>1. Spent \in Nat  BY FS_CardinalityType DEF Numbered, Spent
<1> QED  BY <1>1 DEF Numbered, Spent, PipelineAssumption, Measurements, Earlier

\* A collector from its parts.
LEMMA CollectorMade ==
    ASSUME NEW e \in Nat, NEW c \in SUBSET Measurements, NEW w \in SUBSET Measurements,
           NEW a \in Nat, NEW s \in SUBSET Measurements
    PROVE  [epoch |-> e, cum |-> c, window |-> w, apdex |-> a, seen |-> s] \in CollectorType
BY DEF CollectorType

\* The types of the agent's state are kept.
LEMMA AgentTypesStep ==
    ASSUME PipelineAssumption, TypeInv, Numbered, SenderHolds, [Next]_vars
    PROVE  AgentTypes'
<1> USE DEF TypeInv
<1> Taken \in WindowType  BY WindowsTyped
<1> /\ collector \in CollectorType /\ recorder \in [Recorders -> SUBSET Measurements]
    /\ phase \in {"reset", "run", "flush", "flushed"} /\ reporter \in ReporterType
    /\ latest \in LatestType /\ sender \in SenderType /\ wire \in Seq(EnvelopeType)
  BY DEF AgentTypes
<1> SUFFICES /\ collector' \in CollectorType /\ recorder' \in [Recorders -> SUBSET Measurements]
             /\ phase' \in {"reset", "run", "flush", "flushed"} /\ reporter' \in ReporterType
             /\ latest' \in LatestType /\ sender' \in SenderType /\ wire' \in Seq(EnvelopeType)
  BY DEF AgentTypes
<1>0. CASE UNCHANGED <<agentVars, streamVars>>
  BY <1>0 DEF agentVars, streamVars
<1>1. ASSUME NEW r \in Recorders, RecordAction(r) \/ RecordWindow(r)
      PROVE  collector' \in CollectorType /\ recorder' \in [Recorders -> SUBSET Measurements]
             /\ UNCHANGED <<phase, reporter, latest, sender, wire>>
  <2>1. CASE RecordAction(r)
    BY <2>1, NextMeasurement DEF RecordAction, CollectorType, streamVars
  <2>2. CASE RecordWindow(r)
    BY <2>2 DEF RecordWindow, CollectorType, streamVars
  <2> QED  BY <1>1, <2>1, <2>2
<1>2. CASE RunReset \/ StageReset
  <2>1. ApdexT \in Nat  BY DEF PipelineAssumption
  <2>2. collector.epoch + 1 \in Nat /\ {} \in SUBSET Measurements  BY DEF CollectorType
  <2>3. ASSUME RunReset PROVE collector' \in CollectorType
    <3>1. collector' = [epoch |-> collector.epoch + 1, cum |-> {}, window |-> {}, apdex |-> ApdexT, seen |-> {}]
      BY <2>3 DEF RunReset, Reset, CollectorType
    <3> QED  BY <2>1, <2>2, <3>1, CollectorMade
  <2>4. ASSUME StageReset PROVE collector' \in CollectorType
    <3>1. collector' = [epoch |-> collector.epoch + 1, cum |-> {}, window |-> {},
                        apdex |-> collector.apdex, seen |-> collector.seen]
      BY <2>4 DEF StageReset, Reset, CollectorType
    <3>2. collector.apdex \in Nat /\ collector.seen \in SUBSET Measurements  BY DEF CollectorType
    <3> QED  BY <2>2, <3>1, <3>2, CollectorMade
  <2>5. collector' \in CollectorType  BY <1>2, <2>3, <2>4
  <2> QED  BY <1>2, <2>5 DEF RunReset, StageReset, streamVars
<1>3. CASE StopReporter \/ ReporterExit
  BY <1>3 DEF StopReporter, ReporterExit, ReporterType, streamVars
<1>4. CASE Tick \/ StopFlush
  <2>1. collector' \in CollectorType
    BY <1>4 DEF Tick, StopFlush, TakeWindow, TakeReportSnapshot, CollectorType
  <2>0. reporter.next + 1 \in Nat /\ reporter.ticks + 1 \in Nat /\ Taken \in WindowType \cup {None}
    BY DEF ReporterType
  <2>2. CASE Tick
    <3>1. reporter' = [next |-> reporter.next + 1, ticks |-> reporter.ticks + 1, running |-> reporter.running,
                       stopped |-> reporter.stopped, tick |-> Taken, stop |-> reporter.stop]
      BY <2>2 DEF Tick, TakeWindow, ReporterType
    <3>2. reporter' \in ReporterType  BY <2>0, <3>1 DEF ReporterType
    <3> QED  BY <2>1, <2>2, <3>2 DEF Tick, streamVars
  <2>3. CASE StopFlush
    <3>1. reporter' = [next |-> reporter.next + 1, ticks |-> reporter.ticks, running |-> reporter.running,
                       stopped |-> reporter.stopped, tick |-> reporter.tick, stop |-> Taken]
      BY <2>3 DEF StopFlush, TakeWindow, ReporterType
    <3>2. reporter' \in ReporterType  BY <2>0, <3>1 DEF ReporterType
    <3> QED  BY <2>1, <2>3, <3>2 DEF StopFlush, streamVars
  <2> QED  BY <1>4, <2>2, <2>3
<1>6. CASE Offer("tick") \/ Offer("stop")
  <2>0. PICK who \in {"tick", "stop"} : Offer(who)  BY <1>6
  <2>1. reporter[who] \in WindowType  BY <2>0 DEF Offer, ReporterType
  <2>2. latest' \in LatestType  BY <2>0, <2>1, OfferTyped DEF Offer
  <2>3. reporter' \in ReporterType  BY <2>0 DEF Offer, ReporterType
  <2> QED  BY <2>0, <2>2, <2>3 DEF Offer
<1>8. CASE OfferSystem
  <2> DEFINE drops == latest.systemDrops + (IF latest.system = None THEN 0 ELSE 1)
  <2>1. drops \in Nat  BY DEF LatestType
  <2>2. [dropped |-> drops] \in SystemType  BY <2>1 DEF SystemType
  <2>3. latest' = [latest EXCEPT !.systemDrops = drops, !.system = [dropped |-> drops], !.notify = TRUE]
    BY <1>8 DEF OfferSystem
  <2> HIDE DEF drops
  <2>4. latest' \in LatestType  BY <2>1, <2>2, <2>3 DEF LatestType
  <2> QED  BY <1>8, <2>4 DEF OfferSystem, agentVars
<1>9. CASE Take
  <2>1. Step(latest.stress, latest.system) \in {"wait", "stress", "system"}  BY DEF Step
  <2>2. sender' \in SenderType  BY <1>9, <2>1 DEF Take, SenderType, LatestType
  <2>3. latest' \in LatestType  BY <1>9 DEF Take, LatestType
  <2> QED  BY <1>9, <2>2, <2>3 DEF Take, agentVars
<1>10. CASE Send("stress") \/ Send("system")
  <2>0. PICK k \in Kinds : Send(k)  BY <1>10 DEF Kinds
  <2>1. sender[k] # None  BY <2>0 DEF Send, SenderHolds, Kinds
  <2>2. Envelope(k, sender[k]) \in EnvelopeType  BY <2>1 DEF Envelope, EnvelopeType, SenderType, Kinds
  <2>3. Step(None, sender.system) \in {"wait", "stress", "system"}  BY DEF Step
  <2>4. sender' \in SenderType  BY <2>0, <2>3 DEF Send, SenderType, Kinds
  <2>5. wire' = Append(wire, Envelope(k, sender[k]))  BY <2>0 DEF Send
  <2>6. wire' \in Seq(EnvelopeType)  BY <2>2, <2>5, AppendStays
  <2> QED  BY <2>0, <2>4, <2>6 DEF Send, agentVars
<1>12. CASE SendFails
  <2>1. latest' \in LatestType  BY <1>12, RestoreTyped DEF SendFails, SenderType
  <2>2. sender' \in SenderType  BY <1>12 DEF SendFails, SenderType
  <2> QED  BY <1>12, <2>1, <2>2 DEF SendFails, agentVars
<1>13. CASE SendLoopCanceled \/ BreakStream
  <2>1. sender' \in SenderType  BY <1>13 DEF SendLoopCanceled, BreakStream, SenderType
  <2>2. wire' \in {wire, <<>>}  BY <1>13 DEF SendLoopCanceled, BreakStream
  <2>3. wire' \in Seq(EnvelopeType)  BY <2>2, EmptySeq
  <2> QED  BY <1>13, <2>1, <2>3 DEF SendLoopCanceled, BreakStream, agentVars
<1>14. CASE Reconnect
  <2>1. sender' = [sender EXCEPT !.generation = sender.generation + 1, !.up = TRUE, !.at = "wait",
                                 !.current = sender.generation + 1]
    BY <1>14 DEF Reconnect, SenderType
  <2>2. sender.generation + 1 \in Nat  BY DEF SenderType
  <2>3. sender' \in SenderType  BY <2>1, <2>2 DEF SenderType
  <2> QED  BY <1>14, <2>3 DEF Reconnect, agentVars
<1>15. ASSUME NEW g, EndGeneration(g)
       PROVE  sender' \in SenderType /\ UNCHANGED <<agentVars, latest, wire>>
  BY <1>15 DEF EndGeneration, SenderType
<1>16. CASE Receive
  <2>1. sender' \in SenderType  BY <1>16 DEF Receive, SenderType
  <2>2. wire' \in {<<>>, Tail(wire)} /\ wire # <<>>  BY <1>16 DEF Receive
  <2>3. wire' \in Seq(EnvelopeType)  BY <2>2, TailStays, EmptySeq
  <2> QED  BY <1>16, <2>1, <2>3 DEF Receive, agentVars
<1>17. CASE Dequeue \/ Commit \/ AppendPending
  BY <1>17, <1>0 DEF Dequeue, Commit, AppendPending
<1>18. CASE StartSampler \/ TaskEnds \/ PeekNothing \/ LoopExit \/ FinalFlush \/ MarkTaskTerminal \/ DropTask
  BY <1>18, <1>0 DEF StartSampler, TaskEnds, PeekNothing, LoopExit, FinalFlush, MarkTaskTerminal, DropTask
<1>19. ASSUME NEW who \in Both, Peek(who) \/ Save(who) \/ SaveFails(who) \/ Confirm(who)
       PROVE  UNCHANGED <<agentVars, streamVars>>
  BY <1>19 DEF Peek, Save, SaveFails, Confirm
<1>20. CASE UNCHANGED vars
  BY <1>20, <1>0 DEF vars
<1> QED
  BY <1>0, <1>1, <1>2, <1>3, <1>4, <1>6, <1>8, <1>9, <1>10, <1>12, <1>13, <1>14,
     <1>15, <1>16, <1>17, <1>18, <1>19, <1>20 DEF Next, Environment, Goroutines, agentVars
-----------------------------------------------------------------------------
\* What the operations of the ingestor return.
WithSlots(i, slots) == [slots |-> slots, ready |-> i.ready, errors |-> i.errors, ended |-> i.ended]
Changed(slots, k, s) == [x \in DOMAIN slots \cup {k} |-> IF x = k THEN s ELSE slots[x]]
Removed(slots, k) == [x \in DOMAIN slots \ {k} |-> slots[x]]

\* A slot that is set.
LEMMA WithSlotEffect ==
    ASSUME NEW i, IngestorTyped(i), NEW k \in Keys, NEW s \in SlotType
    PROVE  /\ WithSlot(i, k, s) = WithSlots(i, Changed(i.slots, k, s))
           /\ IngestorTyped(WithSlot(i, k, s))
<1>1. WithSlot(i, k, s) = WithSlots(i, Changed(i.slots, k, s))
  BY DEF WithSlot, WithSlots, Changed, IngestorTyped
<1>2. Changed(i.slots, k, s) \in [DOMAIN i.slots \cup {k} -> SlotType]
  BY DEF Changed, IngestorTyped
<1>3. DOMAIN Changed(i.slots, k, s) = DOMAIN i.slots \cup {k}  BY DEF Changed
<1> HIDE DEF Changed
<1> QED  BY <1>1, <1>2, <1>3 DEF WithSlots, IngestorTyped

\* A key that the worker is through with is queued again or forgotten.
LEMMA FinishedEffect ==
    ASSUME NEW i, IngestorTyped(i), NEW k \in DOMAIN i.slots, NEW err \in BOOLEAN
    PROVE  /\ i.slots[k].env # None =>
                 /\ Finished(i, k, err).slots = i.slots
                 /\ Finished(i, k, err).ready = Append(i.ready, k)
           /\ i.slots[k].env = None =>
                 /\ Finished(i, k, err).slots = Removed(i.slots, k)
                 /\ Finished(i, k, err).ready = i.ready
           /\ IngestorTyped(Finished(i, k, err))
<1> DEFINE errs == IF err THEN i.errors \cup {k} ELSE i.errors
           j == IF err THEN [i EXCEPT !.errors = @ \cup {k}] ELSE i
<1>0. k \in Keys /\ errs \subseteq Keys  BY DEF IngestorTyped
<1>1. j = [slots |-> i.slots, ready |-> i.ready, errors |-> errs, ended |-> i.ended]
  BY DEF IngestorTyped
<1>2. Finished(i, k, err) = IF SlotOf(j, k).env # None
       THEN [j EXCEPT !.ready = Append(@, k)]
       ELSE [j EXCEPT !.slots = [x \in DOMAIN @ \ {k} |-> @[x]]]
  BY DEF Finished
<1> HIDE DEF j, errs
<1>3. SlotOf(j, k) = i.slots[k]  BY <1>1 DEF SlotOf
<1>4. i.slots[k].env # None =>
         Finished(i, k, err) = [slots |-> i.slots, ready |-> Append(i.ready, k),
                                errors |-> errs, ended |-> i.ended]
  BY <1>1, <1>2, <1>3
<1>5. i.slots[k].env = None =>
         Finished(i, k, err) = [slots |-> Removed(i.slots, k), ready |-> i.ready,
                                errors |-> errs, ended |-> i.ended]
  BY <1>1, <1>2, <1>3 DEF Removed
<1>6. Append(i.ready, k) \in Seq(Keys)  BY <1>0, AppendStays DEF IngestorTyped
<1>7. /\ Removed(i.slots, k) \in [DOMAIN Removed(i.slots, k) -> SlotType]
      /\ DOMAIN Removed(i.slots, k) \subseteq Keys
  BY DEF Removed, IngestorTyped
<1>8. IngestorTyped(Finished(i, k, err))
  <2>1. CASE i.slots[k].env # None  BY <2>1, <1>0, <1>4, <1>6 DEF IngestorTyped
  <2>2. CASE i.slots[k].env = None  BY <2>2, <1>0, <1>5, <1>7 DEF IngestorTyped
  <2> QED  BY <2>1, <2>2
<1> QED  BY <1>4, <1>5, <1>8

\* What Offer makes of the table and the queue in each of its cases.
LEMMA IngestedEffect ==
    ASSUME NEW i, IngestorTyped(i), NEW k \in Keys, NEW e \in EnvelopeType
    PROVE  /\ TableFull(i, k) => Ingested(i, k, e) = i
           /\ ~ TableFull(i, k) /\ QueueFull(i, k) =>
                 Ingested(i, k, e) = WithSlots(i, Changed(i.slots, k, [env |-> e, queued |-> FALSE]))
           /\ ~ TableFull(i, k) /\ ~ QueueFull(i, k) =>
                 Ingested(i, k, e) =
                    [slots |-> Changed(i.slots, k, [env |-> e, queued |-> TRUE]),
                     ready |-> IF SlotOf(i, k).queued THEN i.ready ELSE Append(i.ready, k),
                     errors |-> i.errors, ended |-> i.ended]
           /\ IngestorTyped(Ingested(i, k, e))
<1> DEFINE s(q) == [env |-> e, queued |-> q]
           j == WithSlot(i, k, s(TRUE))
<1>1. s(TRUE) \in SlotType /\ s(FALSE) \in SlotType  BY DEF SlotType
<1>2. TableFull(i, k) => Ingested(i, k, e) = i  BY DEF Ingested
<1>3. ~ TableFull(i, k) /\ QueueFull(i, k) => Ingested(i, k, e) = WithSlot(i, k, s(FALSE))
  BY DEF Ingested
<1>4. ~ TableFull(i, k) /\ ~ QueueFull(i, k) =>
        Ingested(i, k, e) = IF SlotOf(i, k).queued THEN j ELSE [j EXCEPT !.ready = Append(@, k)]
  BY DEF Ingested
<1>5. j = WithSlots(i, Changed(i.slots, k, s(TRUE))) /\ IngestorTyped(j)
  BY <1>1, WithSlotEffect
<1>6. WithSlot(i, k, s(FALSE)) = WithSlots(i, Changed(i.slots, k, s(FALSE)))
      /\ IngestorTyped(WithSlot(i, k, s(FALSE)))
  BY <1>1, WithSlotEffect
<1>7. Append(i.ready, k) \in Seq(Keys)  BY AppendStays DEF IngestorTyped
<1> HIDE DEF j, s
<1>8. IngestorTyped([j EXCEPT !.ready = Append(@, k)])
  <2> DEFINE sl == Changed(i.slots, k, s(TRUE))
  <2>1. j = [slots |-> sl, ready |-> i.ready, errors |-> i.errors, ended |-> i.ended]
    BY <1>5 DEF WithSlots
  <2> HIDE DEF sl
  <2>2. [j EXCEPT !.ready = Append(@, k)]
          = [slots |-> sl, ready |-> Append(i.ready, k), errors |-> i.errors, ended |-> i.ended]
    BY <2>1
  <2> QED  BY <1>5, <1>7, <2>1, <2>2 DEF IngestorTyped
<1>9. IngestorTyped(Ingested(i, k, e))
  BY <1>2, <1>3, <1>4, <1>5, <1>6, <1>8
<1>10. ~ TableFull(i, k) /\ ~ QueueFull(i, k) =>
          Ingested(i, k, e) =
             [slots |-> Changed(i.slots, k, s(TRUE)),
              ready |-> IF SlotOf(i, k).queued THEN i.ready ELSE Append(i.ready, k),
              errors |-> i.errors, ended |-> i.ended]
  BY <1>4, <1>5 DEF WithSlots
<1> QED  BY <1>2, <1>3, <1>6, <1>9, <1>10 DEF s

\* Where every slot is queued, dropping a generation drops no slot.
LEMMA DropEffect ==
    ASSUME NEW i, IngestorTyped(i), NEW g
    PROVE  /\ IngestorTyped(DropGeneration(i, g))
           /\ DropGeneration(i, g).ready = i.ready
           /\ (\A k \in DOMAIN i.slots : i.slots[k].queued) => DropGeneration(i, g).slots = i.slots
<1> DEFINE kept == {k \in DOMAIN i.slots : k[1] # g \/ i.slots[k].queued}
           sl == [k \in kept |-> i.slots[k]]
           er == {e \in i.errors : e[1] # g}
           en == i.ended \ {g}
<1>1. DropGeneration(i, g) = [slots |-> sl, ready |-> i.ready, errors |-> er, ended |-> en]
  <2>1. DropGeneration(i, g) = [i EXCEPT !.slots = sl, !.errors = er, !.ended = en]
    BY DEF DropGeneration
  <2> HIDE DEF sl, er, en
  <2> QED  BY <2>1 DEF IngestorTyped
<1>2. DOMAIN sl \subseteq Keys /\ sl \in [DOMAIN sl -> SlotType] /\ er \subseteq Keys /\ en \subseteq Nat
  BY DEF IngestorTyped
<1>3. (\A k \in DOMAIN i.slots : i.slots[k].queued) => sl = i.slots
  BY DEF IngestorTyped
<1> HIDE DEF sl, er, en
<1> QED  BY <1>1, <1>2, <1>3 DEF IngestorTyped
-----------------------------------------------------------------------------
\* The queue has no more elements than the table.
LEMMA ReadyBound ==
    ASSUME TypeInv, Queued
    PROVE  /\ Len(ingestor.ready) \in Nat
           /\ Cardinality(DOMAIN ingestor.slots) \in Nat
           /\ Len(ingestor.ready) <= Cardinality(DOMAIN ingestor.slots)
<1>1. ingestor.ready \in Seq(Keys)  BY DEF TypeInv, AdminTypes, IngestorTyped
<1>2. ingestor.ready \in [1..Len(ingestor.ready) -> DOMAIN ingestor.slots]
  BY <1>1 DEF Queued
<1>3. ingestor.ready \in Injection(1..Len(ingestor.ready), DOMAIN ingestor.slots)
  BY <1>1, <1>2 DEF Queued, Distinct, Injection, IsInjective
<1>4. Len(ingestor.ready) \in Nat  BY <1>1
<1>5. Cardinality(1..Len(ingestor.ready)) <= Cardinality(DOMAIN ingestor.slots)
  BY <1>3, FS_Injection DEF Queued
<1>6. Cardinality(1..Len(ingestor.ready)) = Len(ingestor.ready)
  BY <1>4, FS_Interval
<1> QED  BY <1>4, <1>5, <1>6, FS_CardinalityType DEF Queued

\* So a new key always finds a place in the queue.
LEMMA QueueHasRoom ==
    ASSUME PipelineAssumption, TypeInv, Queued, NEW k, ~ TableFull(ingestor, k)
    PROVE  /\ ~ QueueFull(ingestor, k)
           /\ SlotOf(ingestor, k).queued <=> k \in DOMAIN ingestor.slots
           /\ k \notin DOMAIN ingestor.slots => Cardinality(DOMAIN ingestor.slots) < SlotCapacity
<1>1. CASE k \in DOMAIN ingestor.slots
  BY <1>1 DEF QueueFull, SlotOf, Queued
<1>2. CASE k \notin DOMAIN ingestor.slots
  BY <1>2, ReadyBound DEF QueueFull, TableFull, SlotOf, PipelineAssumption
<1> QED  BY <1>1, <1>2

\* The first of the queue has its slot and its envelope.
LEMMA HeadOfQueue ==
    ASSUME TypeInv, Queued, ingestor.ready # <<>>
    PROVE  /\ Head(ingestor.ready) = ingestor.ready[1] /\ 1 \in DOMAIN ingestor.ready
           /\ Head(ingestor.ready) \in DOMAIN ingestor.slots
           /\ Head(ingestor.ready) \in Keys
           /\ ingestor.slots[Head(ingestor.ready)] \in SlotType
           /\ ingestor.slots[Head(ingestor.ready)].env \in EnvelopeType
<1>1. ingestor.ready \in Seq(Keys)  BY DEF TypeInv, AdminTypes, IngestorTyped
<1>2. Head(ingestor.ready) = ingestor.ready[1] /\ 1 \in DOMAIN ingestor.ready
  BY <1>1, TailStays
<1>3. Head(ingestor.ready) \in DOMAIN ingestor.slots /\ Head(ingestor.ready) \in Keys
  BY <1>1, <1>2, TailStays DEF Queued
<1>4. ingestor.slots[Head(ingestor.ready)] \in SlotType
  BY <1>3 DEF TypeInv, AdminTypes, IngestorTyped
<1>5. ingestor.slots[Head(ingestor.ready)].env # None  BY <1>2 DEF Queued
<1> QED  BY <1>2, <1>3, <1>4, <1>5 DEF SlotType

\* Another queue.
LEMMA ReadySet ==
    ASSUME NEW i, IngestorTyped(i), NEW q
    PROVE  [i EXCEPT !.ready = q] = [slots |-> i.slots, ready |-> q, errors |-> i.errors, ended |-> i.ended]
BY DEF IngestorTyped

\* The worker takes the first key; a frame that does not count frees its slot.
LEMMA DequeueEffect ==
    ASSUME TypeInv, Queued, Dequeue
    PROVE  LET k == Head(ingestor.ready)
               env == ingestor.slots[k].env
               i == ingestor
           IN  /\ worker.at = "idle"
               /\ IngestorTyped(ingestor')
               /\ \/ /\ Counts(k, env)
                     /\ worker' = [at |-> "commit", key |-> k, env |-> env]
                     /\ ingestor'.slots = Changed(i.slots, k, [i.slots[k] EXCEPT !.env = None])
                  \/ /\ UNCHANGED worker
                     /\ ingestor'.slots = Removed(i.slots, k)
               /\ ingestor'.ready = Tail(i.ready)
<1> DEFINE k == Head(ingestor.ready)
           i == [ingestor EXCEPT !.ready = Tail(ingestor.ready)]
           s == [i.slots[k] EXCEPT !.env = None]
           j == WithSlot(i, k, s)
<1>0. ingestor.ready # <<>> /\ worker.at = "idle"  BY DEF Dequeue
<1>1. k \in DOMAIN ingestor.slots /\ k \in Keys /\ ingestor.slots[k] \in SlotType
  BY <1>0, HeadOfQueue
<1>2. IngestorTyped(ingestor)  BY DEF TypeInv, AdminTypes
<1>3. Tail(ingestor.ready) \in Seq(Keys)  BY <1>0, <1>2, TailStays DEF IngestorTyped
<1>4. i = [slots |-> ingestor.slots, ready |-> Tail(ingestor.ready),
           errors |-> ingestor.errors, ended |-> ingestor.ended]
  BY <1>2, ReadySet
<1>5. IngestorTyped(i)  BY <1>2, <1>3, <1>4 DEF IngestorTyped
<1>6. s \in SlotType /\ s = [ingestor.slots[k] EXCEPT !.env = None] /\ s.env = None
  BY <1>1, <1>4 DEF SlotType
<1>7. \/ Counts(k, ingestor.slots[k].env) /\ ingestor' = j
         /\ worker' = [at |-> "commit", key |-> k, env |-> ingestor.slots[k].env]
      \/ ingestor' = Finished(j, k, FALSE) /\ UNCHANGED worker
  <2>1. k \in DOMAIN i.slots /\ i.slots[k].env = ingestor.slots[k].env  BY <1>1, <1>4
  <2> QED  BY <2>1 DEF Dequeue
<1> HIDE DEF k, i, s
<1>8. j = WithSlots(i, Changed(i.slots, k, s)) /\ IngestorTyped(j)
  BY <1>1, <1>5, <1>6, WithSlotEffect
<1>9. /\ j.slots = Changed(ingestor.slots, k, s) /\ k \in DOMAIN j.slots /\ j.slots[k] = s
      /\ j = [slots |-> Changed(ingestor.slots, k, s), ready |-> Tail(ingestor.ready),
              errors |-> ingestor.errors, ended |-> ingestor.ended]
  BY <1>1, <1>4, <1>8 DEF WithSlots, Changed
<1> HIDE DEF j
<1>10. /\ Finished(j, k, FALSE).slots = Removed(j.slots, k)
       /\ Finished(j, k, FALSE).ready = j.ready
       /\ IngestorTyped(Finished(j, k, FALSE))
  <2>1. j.slots[k].env = None  BY <1>6, <1>9
  <2> QED  BY <1>8, <1>9, <2>1, FinishedEffect
<1>11. Removed(j.slots, k) = Removed(ingestor.slots, k)
  BY <1>1, <1>9 DEF Removed, Changed
<1>12. j.ready = Tail(ingestor.ready)  BY <1>9
<1> HIDE DEF Changed, Removed
<1>13. CASE /\ Counts(k, ingestor.slots[k].env) /\ ingestor' = j
            /\ worker' = [at |-> "commit", key |-> k, env |-> ingestor.slots[k].env]
  BY <1>0, <1>6, <1>8, <1>9, <1>12, <1>13 DEF k
<1>14. CASE ingestor' = Finished(j, k, FALSE) /\ UNCHANGED worker
  BY <1>0, <1>10, <1>11, <1>12, <1>14 DEF k
<1> QED  BY <1>7, <1>13, <1>14

\* What becomes of the ingestor when the worker is through with its envelope.
LEMMA FinishedHere ==
    ASSUME TypeInv, Queued, NEW k \in DOMAIN ingestor.slots, NEW err \in BOOLEAN,
           ingestor' = Finished(ingestor, k, err)
    PROVE  /\ IngestorTyped(ingestor')
           /\ \/ /\ ingestor.slots[k].env # None
                 /\ ingestor'.slots = ingestor.slots /\ ingestor'.ready = Append(ingestor.ready, k)
              \/ /\ ingestor.slots[k].env = None
                 /\ ingestor'.slots = Removed(ingestor.slots, k) /\ ingestor'.ready = ingestor.ready
BY FinishedEffect DEF TypeInv, AdminTypes

\* What the stream delivers goes into its slot or is refused.
LEMMA ReceiveEffect ==
    ASSUME PipelineAssumption, TypeInv, Queued, Receive
    PROVE  LET e == Head(wire)
               k == <<e.generation, e.kind>>
               i == ingestor
           IN  /\ e \in EnvelopeType /\ k \in Keys /\ wire # <<>> /\ wire[1] = e /\ 1 \in DOMAIN wire
               /\ IngestorTyped(ingestor')
               /\ \/ /\ ingestor'.slots = i.slots /\ ingestor'.ready = i.ready
                     /\ wire' = <<>> /\ sender' = [sender EXCEPT !.up = FALSE]
                  \/ /\ wire' = Tail(wire) /\ UNCHANGED sender
                     /\ ingestor'.slots = Changed(i.slots, k, [env |-> e, queued |-> TRUE])
                     /\ k \in DOMAIN i.slots => ingestor'.ready = i.ready
                     /\ k \notin DOMAIN i.slots =>
                           /\ ingestor'.ready = Append(i.ready, k)
                           /\ Cardinality(DOMAIN i.slots) < SlotCapacity
<1> DEFINE e == Head(wire)
           k == <<e.generation, e.kind>>
           i == ingestor
           failed == {x \in i.errors : x[1] = e.generation}
           stale == sender.current # e.generation
           ends == stale \/ failed # {} \/ Refused(i, k)
<1>1. wire \in Seq(EnvelopeType) /\ wire # <<>>  BY DEF Receive, TypeInv, AgentTypes
<1>2. e \in EnvelopeType /\ wire[1] = e /\ 1 \in DOMAIN wire  BY <1>1, TailStays
<1>3. k \in Keys  BY <1>2 DEF EnvelopeType, Keys, Kinds
<1>4. IngestorTyped(i)  BY DEF TypeInv, AdminTypes
<1>5. /\ ingestor' = IF stale THEN i ELSE IF failed # {} THEN [i EXCEPT !.errors = @ \ failed]
                     ELSE Ingested(i, k, e)
      /\ wire' = IF ends THEN <<>> ELSE Tail(wire)
      /\ sender' = [sender EXCEPT !.up = ~ ends]
      /\ sender.up
  BY DEF Receive
<1> HIDE DEF e, k, failed, stale
<1>6. ASSUME stale \/ failed # {}
      PROVE  ingestor'.slots = i.slots /\ ingestor'.ready = i.ready /\ IngestorTyped(ingestor')
  BY <1>4, <1>5, <1>6 DEF IngestorTyped
<1>7. ASSUME ~ stale, failed = {}
      PROVE  /\ IngestorTyped(ingestor')
             /\ TableFull(i, k) => ingestor' = i
             /\ ~ TableFull(i, k) =>
                   /\ ~ Refused(i, k)
                   /\ ingestor'.slots = Changed(i.slots, k, [env |-> e, queued |-> TRUE])
                   /\ k \in DOMAIN i.slots => ingestor'.ready = i.ready
                   /\ k \notin DOMAIN i.slots =>
                         /\ ingestor'.ready = Append(i.ready, k)
                         /\ Cardinality(DOMAIN i.slots) < SlotCapacity
  <2>1. ingestor' = Ingested(i, k, e)  BY <1>5, <1>7
  <2>2. CASE TableFull(i, k)  BY <1>2, <1>3, <1>4, <2>1, <2>2, IngestedEffect
  <2>3. CASE ~ TableFull(i, k)
    <3>1. ~ QueueFull(i, k) /\ (SlotOf(i, k).queued <=> k \in DOMAIN i.slots)
          /\ (k \notin DOMAIN i.slots => Cardinality(DOMAIN i.slots) < SlotCapacity)
      BY <2>3, QueueHasRoom
    <3>2. /\ IngestorTyped(ingestor')
          /\ ingestor' = [slots |-> Changed(i.slots, k, [env |-> e, queued |-> TRUE]),
                     ready |-> IF SlotOf(i, k).queued THEN i.ready ELSE Append(i.ready, k),
                     errors |-> i.errors, ended |-> i.ended]
      BY <1>2, <1>3, <1>4, <2>1, <2>3, <3>1, IngestedEffect
    <3> QED  BY <2>3, <3>1, <3>2 DEF Refused
  <2> QED  BY <2>2, <2>3
<1>8. sender.up = TRUE => [sender EXCEPT !.up = TRUE] = sender
  BY DEF TypeInv, AgentTypes, SenderType
<1>9. sender.up \in BOOLEAN  BY DEF TypeInv, AgentTypes, SenderType
<1>10. CASE ends
  <2>1. wire' = <<>> /\ sender' = [sender EXCEPT !.up = FALSE]  BY <1>5, <1>10
  <2>2. ingestor'.slots = i.slots /\ ingestor'.ready = i.ready /\ IngestorTyped(ingestor')
    <3>1. CASE stale \/ failed # {}  BY <3>1, <1>6
    <3>2. CASE ~ (stale \/ failed # {})
      <4>1. TableFull(i, k)  BY <1>7, <1>10, <3>2
      <4> QED  BY <1>7, <3>2, <4>1
    <3> QED  BY <3>1, <3>2
  <2> QED  BY <1>1, <1>2, <1>3, <2>1, <2>2 DEF e, k
<1>11. CASE ~ ends
  <2>1. wire' = Tail(wire) /\ sender' = [sender EXCEPT !.up = TRUE]  BY <1>5, <1>11
  <2>2. UNCHANGED sender  BY <1>5, <1>8, <1>9, <2>1
  <2>3. ~ TableFull(i, k)  BY <1>11 DEF Refused
  <2> QED  BY <1>1, <1>2, <1>3, <1>7, <1>11, <2>1, <2>2, <2>3 DEF e, k
<1> QED  BY <1>10, <1>11
-----------------------------------------------------------------------------
\* The worker's envelope is a frame of the task, for the slot it took it from.
LEMMA WorkerTyped ==
    ASSUME TypeInv, Generations, worker.at # "idle"
    PROVE  /\ worker \in [at : {"commit", "append"}, key : Keys, env : EnvelopeType]
           /\ worker.at \in {"commit", "append"}
           /\ worker.env.payload \in FrameType
           /\ worker.env.payload.window \in WindowType
           /\ worker.env.payload.window.task = Task
           /\ worker.env.payload.dropped \in Nat
<1>1. worker \in [at : {"commit", "append"}, key : Keys, env : EnvelopeType]
  BY DEF TypeInv, AdminTypes, WorkerType
<1>2. worker.env \in EnvelopeType /\ worker.env.kind = "stress"  BY <1>1 DEF Generations
<1>3. worker.env.payload \in FrameType  BY <1>2 DEF EnvelopeType
<1> QED  BY <1>1, <1>3 DEF FrameType, Generations

\* Commit either accepts the window or is through with it.
Accepts ==
    LET f == worker.env.payload
    IN  /\ store' = [store EXCEPT !.state = [seq |-> f.window.seq, dropped |-> f.dropped,
                                             epoch |-> f.window.epoch, cum |-> f.window.cum]]
        /\ ghost' = [ghost EXCEPT !.accepted = @ \cup {f.window}]
        /\ worker' = [worker EXCEPT !.at = "append"]
        /\ UNCHANGED ingestor
Refuses(err) ==
    /\ UNCHANGED store
    /\ worker' = [at |-> "idle"]
    /\ ingestor' = Finished(ingestor, worker.key, err)

\* What the commit does, by its verdict.
LEMMA CommitEffect ==
    ASSUME Commit
    PROVE  LET f == worker.env.payload
               v == Verdict(store.state, f.window, f.dropped)
           IN  /\ worker.at = "commit"
               /\ v \in {"mismatch", "accept", "duplicate", "regress"}
               /\ v = "accept" => Accepts
               /\ v \in {"mismatch", "duplicate"} =>
                     UNCHANGED ghost /\ \E err \in BOOLEAN : Refuses(err)
               /\ v = "regress" =>
                     /\ ghost' = [ghost EXCEPT !.alarm = @ \cup {f.window}]
                     /\ \E err \in BOOLEAN : Refuses(err)
<1> DEFINE f == worker.env.payload
           v == Verdict(store.state, f.window, f.dropped)
<1>1. v \in {"mismatch", "accept", "duplicate", "regress"}  BY DEF Verdict
<1>2. /\ worker.at = "commit"
      /\ store' = IF v # "accept" THEN store
                      ELSE [store EXCEPT !.state =
                              [seq |-> f.window.seq, dropped |-> f.dropped,
                               epoch |-> f.window.epoch, cum |-> f.window.cum]]
      /\ ghost' = CASE v = "accept" -> [ghost EXCEPT !.accepted = @ \cup {f.window}]
                    [] v = "regress" -> [ghost EXCEPT !.alarm = @ \cup {f.window}]
                    [] OTHER -> ghost
      /\ worker' = IF v = "accept" THEN [worker EXCEPT !.at = "append"] ELSE [at |-> "idle"]
      /\ ingestor' = IF v = "accept" THEN ingestor
                     ELSE Finished(ingestor, worker.key, v \in {"mismatch", "regress"})
  BY DEF Commit
<1> HIDE DEF v
<1>3. CASE v = "accept"  BY <1>1, <1>2, <1>3 DEF Accepts, v
<1>4. CASE v \in {"mismatch", "duplicate", "regress"}
  <2>0. v # "accept" /\ (v \in {"mismatch", "regress"}) \in BOOLEAN  BY <1>4
  <2>1. \E err \in BOOLEAN : ingestor' = Finished(ingestor, worker.key, err)  BY <1>2, <2>0
  <2>2. \E err \in BOOLEAN : Refuses(err)  BY <1>2, <2>0, <2>1 DEF Refuses
  <2>3. v \in {"mismatch", "duplicate"} => UNCHANGED ghost  BY <1>2
  <2>4. v = "regress" => ghost' = [ghost EXCEPT !.alarm = @ \cup {f.window}]  BY <1>2
  <2> QED  BY <1>1, <1>2, <1>4, <2>2, <2>3, <2>4 DEF v
<1> QED  BY <1>1, <1>3, <1>4

\* The types of the admin's state are kept.
LEMMA AdminTypesStep ==
    ASSUME PipelineAssumption, TypeInv, Generations, Queued, [Next]_vars
    PROVE  AdminTypes'
<1> AgentTypes  BY DEF TypeInv
<1> /\ IngestorTyped(ingestor) /\ worker \in WorkerType /\ store \in StoreType
    /\ sampler \in SamplerType /\ history \in BOOLEAN /\ ghost \in GhostType
    /\ \A r \in rows : r.seqs \subseteq Nat /\ r = [token |-> r.token, seqs |-> r.seqs]
  BY DEF TypeInv, AdminTypes
<1> SUFFICES /\ IngestorTyped(ingestor') /\ worker' \in WorkerType /\ store' \in StoreType
             /\ sampler' \in SamplerType /\ history' \in BOOLEAN /\ ghost' \in GhostType
             /\ \A r \in rows' : r.seqs \subseteq Nat /\ r = [token |-> r.token, seqs |-> r.seqs]
  BY DEF AdminTypes
<1>0. CASE UNCHANGED <<ingestor, worker, store, sampler, rows, history, ghost>>
  BY <1>0
<1>1. ASSUME NEW r \in Recorders, RecordAction(r) \/ RecordWindow(r)
      PROVE  UNCHANGED <<ingestor, worker, store, sampler, rows, history, ghost>>
  BY <1>1 DEF RecordAction, RecordWindow, adminVars, historyVars
<1>2. CASE RunReset \/ StopReporter \/ ReporterExit \/ Offer("tick") \/ Offer("stop") \/ OfferSystem
           \/ Take \/ Send("stress") \/ Send("system") \/ SendFails \/ SendLoopCanceled \/ BreakStream
  BY <1>2, <1>0 DEF RunReset, StopReporter, ReporterExit, Offer, OfferSystem, Take, Send, SendFails,
     SendLoopCanceled, BreakStream, adminVars, historyVars
<1>3. CASE StageReset
  <2>1. ghost' \in GhostType
    BY <1>3 DEF StageReset, GhostType, AgentTypes, CollectorType
  <2> QED  BY <1>3, <2>1 DEF StageReset, adminVars, historyVars
<1>4. CASE Tick \/ StopFlush
  <2>1. ghost' \in GhostType
    BY <1>4, WindowsTyped DEF Tick, StopFlush, TakeWindow, GhostType
  <2> QED  BY <1>4, <2>1 DEF Tick, StopFlush, adminVars, historyVars
<1>5. CASE Reconnect
  <2> DEFINE en == ingestor.ended \cup ({sender.current} \ {0})
  <2>1. sender.current \in Nat  BY DEF AgentTypes, SenderType
  <2>2. en \subseteq Nat  BY <2>1 DEF IngestorTyped
  <2>3. ingestor' = [ingestor EXCEPT !.ended = en]  BY <1>5 DEF Reconnect
  <2> HIDE DEF en
  <2>4. IngestorTyped(ingestor')  BY <2>2, <2>3 DEF IngestorTyped
  <2> QED  BY <1>5, <2>4 DEF Reconnect, historyVars
<1>6. ASSUME NEW g, EndGeneration(g)
      PROVE  IngestorTyped(ingestor') /\ UNCHANGED <<worker, store, sampler, rows, history, ghost>>
  BY <1>6, DropEffect DEF EndGeneration, historyVars
<1>7. CASE Receive
  BY <1>7, ReceiveEffect DEF Receive, historyVars
<1>8. CASE Dequeue
  <2>1. ingestor.ready # <<>>  BY <1>8 DEF Dequeue
  <2>2. IngestorTyped(ingestor') /\ worker' \in WorkerType
    BY <1>8, <2>1, DequeueEffect, HeadOfQueue DEF WorkerType
  <2> QED  BY <1>8, <2>2 DEF Dequeue, historyVars
<1>9. CASE Commit
  <2>1. worker.at = "commit" /\ worker.at # "idle"  BY <1>9, CommitEffect
  <2>2. worker.key \in DOMAIN ingestor.slots  BY <2>1 DEF Queued
  <2>3. worker.env.payload \in FrameType /\ worker.env.payload.window \in WindowType
        /\ worker.env.payload.dropped \in Nat
        /\ worker \in [at : {"commit", "append"}, key : Keys, env : EnvelopeType]
    BY <2>1, WorkerTyped
  <2>4. ASSUME NEW err \in BOOLEAN, Refuses(err)
        PROVE  IngestorTyped(ingestor') /\ worker' \in WorkerType /\ store' \in StoreType
    BY <2>2, <2>4, FinishedHere DEF Refuses, WorkerType
  <2>5. ASSUME Accepts
        PROVE  IngestorTyped(ingestor') /\ worker' \in WorkerType /\ store' \in StoreType
               /\ ghost' \in GhostType
    <3> DEFINE f == worker.env.payload
               st == [seq |-> f.window.seq, dropped |-> f.dropped, epoch |-> f.window.epoch, cum |-> f.window.cum]
    <3>1. st \in [seq : Nat, dropped : Nat, epoch : Nat, cum : SUBSET Measurements]
      BY <2>3, WindowFields
    <3>2. store' = [store EXCEPT !.state = st]  BY <2>5 DEF Accepts
    <3> HIDE DEF st
    <3>3. store' \in StoreType  BY <3>1, <3>2 DEF StoreType
    <3>4. worker' \in WorkerType  BY <2>3, <2>5 DEF Accepts, WorkerType
    <3>5. ghost' \in GhostType  BY <2>3, <2>5 DEF Accepts, GhostType
    <3> QED  BY <2>5, <3>3, <3>4, <3>5 DEF Accepts
  <2>6. ASSUME ghost' = [ghost EXCEPT !.alarm = @ \cup {worker.env.payload.window}]
        PROVE  ghost' \in GhostType
    BY <2>3, <2>6 DEF GhostType
  <2>7. UNCHANGED <<sampler, rows, history>>  BY <1>9 DEF Commit, historyVars
  <2> QED  BY <1>9, <2>4, <2>5, <2>6, <2>7, CommitEffect
<1>10. CASE AppendPending
  <2>1. worker.at # "idle"  BY <1>10 DEF AppendPending
  <2>2. worker.env.payload.window \in WindowType /\ worker.key \in DOMAIN ingestor.slots
    BY <2>1, WorkerTyped DEF Queued
  <2>3. IngestorTyped(ingestor')  BY <1>10, <2>2, FinishedHere DEF AppendPending
  <2>4. store' \in StoreType  BY <1>10, <2>2 DEF AppendPending, StoreType
  <2>5. \E l \in BOOLEAN : ghost' = [ghost EXCEPT !.left = l]
    BY <1>10 DEF AppendPending, GhostType
  <2>6. ghost' \in GhostType  BY <2>5 DEF GhostType
  <2> QED  BY <1>10, <2>3, <2>4, <2>6 DEF AppendPending, WorkerType, historyVars
<1>11. ASSUME NEW who \in Both, Peek(who)
       PROVE  store' \in StoreType /\ sampler' \in SamplerType
              /\ UNCHANGED <<ingestor, worker, rows, history, ghost>>
  <2>1. PeekHistory(store) \in StoreType  BY DEF PeekHistory, StoreType
  <2>2. PeekHistory(store).inFlight \subseteq WindowType  BY <2>1 DEF StoreType
  <2> QED  BY <1>11, <2>1, <2>2 DEF Peek, SamplerType
<1>12. ASSUME NEW who \in Both, Save(who) \/ SaveFails(who)
       PROVE  /\ sampler' \in SamplerType
              /\ \A r \in rows' : r.seqs \subseteq Nat /\ r = [token |-> r.token, seqs |-> r.seqs]
              /\ UNCHANGED <<ingestor, worker, store, history, ghost>>
  <2> DEFINE batch == sampler[who].batch
  <2>1. batch \subseteq WindowType  BY DEF SamplerType
  <2>2. Seqs(batch) \subseteq Nat  BY <2>1, WindowFields DEF Seqs
  <2>3. \A r \in AppendTimeseries(rows, batch) : r.seqs \subseteq Nat /\ r = [token |-> r.token, seqs |-> r.seqs]
    BY <2>2 DEF AppendTimeseries
  <2>4. rows' \in {rows, AppendTimeseries(rows, batch)}
    BY <1>12 DEF Save, SaveFails
  <2>5. sampler' \in SamplerType
    BY <1>12, <2>1 DEF Save, SaveFails, Retry, SamplerType
  <2> QED  BY <1>12, <2>3, <2>4, <2>5 DEF Save, SaveFails, adminVars
<1>13. ASSUME NEW who \in Both, Confirm(who)
       PROVE  /\ sampler' \in SamplerType /\ store' \in StoreType /\ ghost' \in GhostType
              /\ UNCHANGED <<ingestor, worker, rows, history>>
  <2>1. Released \in StoreType  BY DEF Released, StoreType
  <2>2. [store EXCEPT !.inFlight = {}] \in StoreType  BY DEF StoreType
  <2>3. store' \in StoreType
    BY <1>13, <2>1, <2>2 DEF Confirm, AckHistory, CleanupTerminal
  <2>4. \E l, m \in BOOLEAN : ghost' = [ghost EXCEPT !.released = m, !.left = l]
    <3> DEFINE batch == sampler[who].batch
               m == ghost.released \/ (store.terminal /\ AckHistory(store, batch) = Released)
               l == ghost.left \/ (who = "final" /\ Acked(store, batch) /\ store.pending # {})
    <3>1. ghost' = [ghost EXCEPT !.released = m, !.left = l]  BY <1>13 DEF Confirm
    <3>2. m \in BOOLEAN /\ l \in BOOLEAN  BY DEF GhostType, StoreType
    <3> QED  BY <3>1, <3>2
  <2>5. ghost' \in GhostType  BY <2>4 DEF GhostType
  <2>6. \E a \in {"done", "run"} : sampler' = [sampler EXCEPT ![who] = [at |-> a, batch |-> {}]]
    BY <1>13 DEF Confirm
  <2>7. sampler' \in SamplerType  BY <2>6 DEF SamplerType
  <2> QED  BY <1>13, <2>3, <2>5, <2>7 DEF Confirm
<1>14. CASE StartSampler \/ TaskEnds \/ PeekNothing \/ LoopExit \/ FinalFlush
  <2>1. sampler' \in SamplerType
    BY <1>14 DEF StartSampler, TaskEnds, PeekNothing, LoopExit, FinalFlush, SamplerType, Both
  <2> QED  BY <1>14, <2>1 DEF StartSampler, TaskEnds, PeekNothing, LoopExit, FinalFlush, adminVars
<1>15. CASE MarkTaskTerminal \/ DropTask
  <2>1. Released \in StoreType  BY DEF Released, StoreType
  <2>2. [store EXCEPT !.terminal = TRUE] \in StoreType  BY DEF StoreType
  <2>3. store' \in StoreType
    BY <1>15, <2>1, <2>2 DEF MarkTaskTerminal, DropTask, CleanupTerminal
  <2>4. ghost' = ghost \/ ghost' = [ghost EXCEPT !.released = TRUE]
    BY <1>15 DEF MarkTaskTerminal, DropTask
  <2>5. ghost' \in GhostType  BY <2>4 DEF GhostType
  <2> QED  BY <1>15, <2>3, <2>5 DEF MarkTaskTerminal, DropTask
<1>16. CASE UNCHANGED vars
  BY <1>16, <1>0 DEF vars, adminVars, historyVars
<1> QED
  BY <1>0, <1>1, <1>2, <1>3, <1>4, <1>5, <1>6, <1>7, <1>8, <1>9, <1>10, <1>11, <1>12, <1>13, <1>14,
     <1>15, <1>16 DEF Next, Environment, Goroutines
-----------------------------------------------------------------------------
(* No frame is stranded.                                                    *)

\* The queue with one key more and without its first key.
LEMMA QueueAppend ==
    ASSUME NEW S, NEW q \in Seq(S), Distinct(q), NEW k \in S, ~ Among(k, q)
    PROVE  /\ Distinct(Append(q, k))
           /\ \A x : Among(x, Append(q, k)) <=> Among(x, q) \/ x = k
<1> DEFINE r == Append(q, k)
<1>1. /\ Len(q) \in Nat /\ DOMAIN q = 1..Len(q) /\ DOMAIN r = 1..(Len(q) + 1)
      /\ \A i \in 1..Len(q) : r[i] = q[i]
      /\ r[Len(q) + 1] = k
  BY AppendStays, LenProperties
<1> HIDE DEF r
<1>2. \A i \in 1..Len(q) : q[i] # k  BY <1>1 DEF Among
<1>3. Distinct(r)  BY <1>1, <1>2 DEF Distinct
<1>4. \A x : Among(x, r) <=> Among(x, q) \/ x = k
  <2> SUFFICES ASSUME NEW x PROVE Among(x, r) <=> Among(x, q) \/ x = k
    OBVIOUS
  <2>1. ASSUME Among(x, r) PROVE Among(x, q) \/ x = k
    <3>1. PICK i \in 1..(Len(q) + 1) : r[i] = x  BY <1>1, <2>1 DEF Among
    <3>2. CASE i = Len(q) + 1  BY <1>1, <3>1, <3>2
    <3>3. CASE i \in 1..Len(q)  BY <1>1, <3>1, <3>3 DEF Among
    <3> QED  BY <1>1, <3>1, <3>2, <3>3
  <2>2. ASSUME Among(x, q) PROVE Among(x, r)
    <3>1. PICK i \in 1..Len(q) : q[i] = x  BY <1>1, <2>2 DEF Among
    <3> QED  BY <1>1, <3>1 DEF Among
  <2>3. Among(k, r)
    <3>1. Len(q) + 1 \in DOMAIN r  BY <1>1
    <3> QED  BY <1>1, <3>1 DEF Among
  <2> QED  BY <2>1, <2>2, <2>3
<1> QED  BY <1>3, <1>4 DEF r

\* A queue without its head.
LEMMA QueueTail ==
    ASSUME NEW S, NEW q \in Seq(S), q # <<>>, Distinct(q)
    PROVE  /\ Distinct(Tail(q))
           /\ Among(Head(q), q) /\ Head(q) = q[1]
           /\ \A x : Among(x, Tail(q)) <=> Among(x, q) /\ x # Head(q)
<1> DEFINE r == Tail(q)
<1>1. /\ Len(q) \in Nat /\ Len(q) >= 1 /\ DOMAIN q = 1..Len(q) /\ DOMAIN r = 1..(Len(q) - 1)
      /\ \A i \in 1..(Len(q) - 1) : r[i] = q[i + 1]
      /\ Head(q) = q[1]
  BY TailStays, LenProperties
<1> HIDE DEF r
<1>2. Distinct(r)  BY <1>1 DEF Distinct
<1>3. Among(Head(q), q)
  <2>1. 1 \in DOMAIN q  BY <1>1
  <2> QED  BY <1>1, <2>1 DEF Among
<1>4. ASSUME NEW x PROVE Among(x, r) <=> Among(x, q) /\ x # Head(q)
  <2>1. ASSUME Among(x, r) PROVE Among(x, q) /\ x # Head(q)
    <3>1. PICK i \in 1..(Len(q) - 1) : r[i] = x  BY <1>1, <2>1 DEF Among
    <3>2. i + 1 \in DOMAIN q /\ i + 1 # 1 /\ 1 \in DOMAIN q /\ q[i + 1] = x  BY <1>1, <3>1
    <3>3. q[i + 1] # q[1]  BY <3>2 DEF Distinct
    <3> QED  BY <1>1, <3>2, <3>3 DEF Among
  <2>2. ASSUME Among(x, q), x # Head(q) PROVE Among(x, r)
    <3>1. PICK i \in 1..Len(q) : q[i] = x  BY <1>1, <2>2 DEF Among
    <3>2. i # 1  BY <1>1, <2>2, <3>1
    <3>3. i - 1 \in 1..(Len(q) - 1) /\ r[i - 1] = q[i]
      <4>1. i - 1 \in 1..(Len(q) - 1)  BY <1>1, <3>1, <3>2
      <4>2. r[i - 1] = q[(i - 1) + 1]  BY <1>1, <4>1
      <4> QED  BY <3>1, <4>1, <4>2
    <3> QED  BY <1>1, <3>1, <3>3 DEF Among
  <2> QED  BY <2>1, <2>2
<1> QED  BY <1>1, <1>2, <1>3, <1>4 DEF r

\* What a queue without a key holds besides.
LEMMA AmongPlace ==
    ASSUME NEW q, NEW i \in DOMAIN q
    PROVE  Among(q[i], q)
BY DEF Among

\* A table with a key less, and with a key more where there was room.
LEMMA TableLess ==
    ASSUME PipelineAssumption, NEW S, IsFiniteSet(S), Cardinality(S) <= SlotCapacity, NEW k \in S
    PROVE  IsFiniteSet(S \ {k}) /\ Cardinality(S \ {k}) <= SlotCapacity
<1>1. SlotCapacity \in Nat  BY DEF PipelineAssumption
<1>2. Cardinality(S) \in Nat  BY FS_CardinalityType
<1>3. IsFiniteSet(S \ {k}) /\ Cardinality(S \ {k}) = Cardinality(S) - 1  BY FS_RemoveElement
<1> QED  BY <1>1, <1>2, <1>3

\* A table with a key more, where there was room.
LEMMA TableMore ==
    ASSUME PipelineAssumption, NEW S, IsFiniteSet(S), Cardinality(S) < SlotCapacity, NEW k, k \notin S
    PROVE  IsFiniteSet(S \cup {k}) /\ Cardinality(S \cup {k}) <= SlotCapacity
<1>1. SlotCapacity \in Nat  BY DEF PipelineAssumption
<1>2. Cardinality(S) \in Nat  BY FS_CardinalityType
<1>3. IsFiniteSet(S \cup {k}) /\ Cardinality(S \cup {k}) = Cardinality(S) + 1  BY FS_AddElement
<1> QED  BY <1>1, <1>2, <1>3

\* Only these steps touch the slots, the queue and the worker (a generation
\* that is dropped has only queued slots).
LEMMA IngestSteps ==
    ASSUME TypeInv, Queued, [Next]_vars
    PROVE  \/ UNCHANGED <<ingestor.slots, ingestor.ready, worker>>
           \/ Receive \/ Dequeue \/ Commit \/ AppendPending
<1> DEFINE Quiet == UNCHANGED <<ingestor.slots, ingestor.ready, worker>>
<1>0. IngestorTyped(ingestor)  BY DEF TypeInv, AdminTypes
<1>1. ASSUME NEW r \in Recorders, RecordAction(r) \/ RecordWindow(r) PROVE Quiet
  BY <1>1 DEF RecordAction, RecordWindow, adminVars
<1>2. CASE \/ RunReset \/ StageReset \/ StopReporter \/ Tick \/ OfferSystem \/ BreakStream
           \/ StartSampler \/ TaskEnds \/ StopFlush \/ ReporterExit \/ Offer("tick") \/ Offer("stop")
           \/ Take \/ Send("stress") \/ Send("system") \/ SendFails \/ SendLoopCanceled
           \/ PeekNothing \/ LoopExit \/ FinalFlush \/ MarkTaskTerminal \/ DropTask
  BY <1>2 DEF RunReset, StageReset, StopReporter, Tick, OfferSystem, BreakStream, StartSampler,
     TaskEnds, StopFlush, ReporterExit, Offer, Take, Send, SendFails, SendLoopCanceled,
     PeekNothing, LoopExit, FinalFlush, MarkTaskTerminal, DropTask, adminVars
<1>3. ASSUME NEW who \in Both, Peek(who) \/ Save(who) \/ SaveFails(who) \/ Confirm(who) PROVE Quiet
  BY <1>3 DEF Peek, Save, SaveFails, Confirm, adminVars
<1>4. CASE Reconnect
  <2>1. ingestor'.slots = ingestor.slots /\ ingestor'.ready = ingestor.ready
    BY <1>0, <1>4 DEF Reconnect, IngestorTyped
  <2> QED  BY <1>4, <2>1 DEF Reconnect
<1>5. ASSUME NEW g, EndGeneration(g) PROVE Quiet
  BY <1>0, <1>5, DropEffect DEF EndGeneration, Queued
<1>6. CASE UNCHANGED vars
  BY <1>6 DEF vars, adminVars
<1> QED
  BY <1>1, <1>2, <1>3, <1>4, <1>5, <1>6 DEF Next, Environment, Goroutines

\* When the worker is through with its key, the key is queued again with a newer
\* envelope or gone with its slot.
LEMMA FinishedQueued ==
    ASSUME PipelineAssumption, TypeInv, Queued, worker.at # "idle", worker'.at = "idle", NEW err \in BOOLEAN,
           ingestor' = Finished(ingestor, worker.key, err)
    PROVE  Queued'
<1> DEFINE k == worker.key
<1>1. k \in DOMAIN ingestor.slots /\ ~ Among(k, ingestor.ready) /\ k \in Keys /\ Distinct(ingestor.ready)
  BY DEF Queued, Working, TypeInv, AdminTypes, IngestorTyped
<1>2. ingestor.ready \in Seq(Keys)  BY DEF TypeInv, AdminTypes, IngestorTyped
<1>3. CASE ingestor'.slots = ingestor.slots /\ ingestor'.ready = Append(ingestor.ready, k)
           /\ ingestor.slots[k].env # None
  <2>1. Distinct(ingestor'.ready) /\ \A x : Among(x, ingestor'.ready) <=> Among(x, ingestor.ready) \/ x = k
    BY <1>1, <1>2, <1>3, QueueAppend
  <2>2. ASSUME NEW i \in DOMAIN ingestor'.ready
        PROVE  /\ ingestor'.ready[i] \in DOMAIN ingestor'.slots
               /\ ingestor'.slots[ingestor'.ready[i]].env # None
    <3>1. Among(ingestor'.ready[i], ingestor.ready) \/ ingestor'.ready[i] = k
      BY <2>1, AmongPlace
    <3> QED  BY <1>1, <1>3, <3>1 DEF Among, Queued
  <2> QED  BY <1>3, <2>1, <2>2 DEF Queued, Working
<1>4. CASE ingestor'.slots = Removed(ingestor.slots, k) /\ ingestor'.ready = ingestor.ready
  <2>1. DOMAIN ingestor'.slots = DOMAIN ingestor.slots \ {k}
        /\ \A x \in DOMAIN ingestor'.slots : ingestor'.slots[x] = ingestor.slots[x]
    BY <1>4 DEF Removed
  <2>2. IsFiniteSet(DOMAIN ingestor'.slots) /\ Cardinality(DOMAIN ingestor'.slots) <= SlotCapacity
    BY <1>1, <2>1, TableLess DEF Queued
  <2>3. \A i \in DOMAIN ingestor.ready : ingestor.ready[i] # k  BY <1>1 DEF Among
  <2> QED  BY <1>1, <1>4, <2>1, <2>2, <2>3 DEF Queued, Working
<1> QED  BY <1>1, <1>3, <1>4, FinishedHere

\* No step strands a slot or queues it twice.
LEMMA QueuedStep ==
    ASSUME PipelineAssumption, TypeInv, Queued, Generations, [Next]_vars
    PROVE  Queued'
<1> DEFINE i == ingestor
<1>0. i.ready \in Seq(Keys) /\ Distinct(i.ready)  BY DEF TypeInv, AdminTypes, IngestorTyped, Queued
<1>1. CASE UNCHANGED <<ingestor.slots, ingestor.ready, worker>>
  BY <1>1 DEF Queued, Working
<1>2. CASE Receive
  <2> DEFINE e == Head(wire)
             k == <<e.generation, e.kind>>
  <2>0. UNCHANGED worker /\ k \in Keys  BY <1>2, ReceiveEffect DEF Receive
  <2>1. CASE ingestor'.slots = i.slots /\ ingestor'.ready = i.ready
    BY <2>0, <2>1, <1>1
  <2>2. CASE /\ ingestor'.slots = Changed(i.slots, k, [env |-> e, queued |-> TRUE])
             /\ k \in DOMAIN i.slots => ingestor'.ready = i.ready
             /\ k \notin DOMAIN i.slots =>
                   /\ ingestor'.ready = Append(i.ready, k)
                   /\ Cardinality(DOMAIN i.slots) < SlotCapacity
    <3>0. e # None  BY <1>2, ReceiveEffect, NoneIsNothing
    <3> HIDE DEF e, k
    <3>1. /\ DOMAIN ingestor'.slots = DOMAIN i.slots \cup {k}
          /\ ingestor'.slots[k] = [env |-> e, queued |-> TRUE]
          /\ \A x \in DOMAIN i.slots \ {k} : ingestor'.slots[x] = i.slots[x]
      BY <2>2 DEF Changed
    <3>2. CASE k \in DOMAIN i.slots
      <4>1. DOMAIN ingestor'.slots = DOMAIN i.slots  BY <3>1, <3>2
      <4>2. ingestor'.ready = i.ready  BY <2>2, <3>2
      <4>3. ASSUME NEW x \in DOMAIN i.slots
            PROVE  /\ ingestor'.slots[x].queued
                   /\ i.slots[x].env # None => ingestor'.slots[x].env # None
        BY <3>0, <3>1, <4>3 DEF Queued
      <4> HIDE DEF i
      <4>4. Distinct(ingestor.ready) /\ \A x \in DOMAIN ingestor.slots : Among(x, ingestor.ready) <=> ~ Working(x)
        BY DEF Queued
      <4>5. \A x : Working(x)' <=> Working(x)  BY <2>0 DEF Working
      <4> QED  BY <2>0, <4>1, <4>2, <4>3, <4>4, <4>5 DEF Queued, i
    <3>3. CASE k \notin DOMAIN i.slots
      <4>1. ~ Among(k, i.ready) /\ ~ Working(k)  BY <3>3 DEF Among, Queued, Working
      <4>2. Distinct(ingestor'.ready) /\ \A x : Among(x, ingestor'.ready) <=> Among(x, i.ready) \/ x = k
        <5>1. ingestor'.ready = Append(i.ready, k)  BY <2>2, <3>3
        <5> HIDE DEF i
        <5> QED  BY <1>0, <2>0, <4>1, <5>1, QueueAppend
      <4>3. IsFiniteSet(DOMAIN ingestor'.slots) /\ Cardinality(DOMAIN ingestor'.slots) <= SlotCapacity
        BY <2>2, <3>1, <3>3, TableMore DEF Queued
      <4>4. ASSUME NEW j \in DOMAIN ingestor'.ready
            PROVE  /\ ingestor'.ready[j] \in DOMAIN ingestor'.slots
                   /\ ingestor'.slots[ingestor'.ready[j]].env # None
        <5>1. Among(ingestor'.ready[j], i.ready) \/ ingestor'.ready[j] = k  BY <4>2, AmongPlace
        <5>2. CASE ingestor'.ready[j] = k  BY <3>0, <3>1, <5>2
        <5>3. CASE Among(ingestor'.ready[j], i.ready)
          BY <3>1, <3>3, <5>3 DEF Among, Queued
        <5> QED  BY <5>1, <5>2, <5>3
      <4>5. \A x \in DOMAIN ingestor'.slots : ingestor'.slots[x].queued /\
               (Among(x, ingestor'.ready) <=> ~ Working(x)')
        BY <2>0, <3>1, <3>3, <4>1, <4>2 DEF Queued, Working
      <4>6. worker'.at # "idle" => worker'.key \in DOMAIN ingestor'.slots
        BY <2>0, <3>1 DEF Queued
      <4> QED  BY <4>2, <4>3, <4>4, <4>5, <4>6 DEF Queued
    <3> QED  BY <3>2, <3>3
  <2> QED  BY <1>2, <2>1, <2>2, ReceiveEffect
<1>3. CASE Dequeue
  <2> DEFINE k == Head(i.ready)
  <2>0. i.ready # <<>>  BY <1>3 DEF Dequeue
  <2>1. k \in DOMAIN i.slots  BY <2>0, HeadOfQueue
  <2>2. worker.at = "idle" /\ ingestor'.ready = Tail(i.ready)  BY <1>3, DequeueEffect
  <2>3. /\ Distinct(ingestor'.ready)
        /\ \A x : Among(x, ingestor'.ready) <=> Among(x, i.ready) /\ x # k
    BY <1>0, <2>0, <2>2, QueueTail
  <2> HIDE DEF k
  <2>4. CASE /\ worker' = [at |-> "commit", key |-> k, env |-> i.slots[k].env]
             /\ ingestor'.slots = Changed(i.slots, k, [i.slots[k] EXCEPT !.env = None])
    <3>1. /\ DOMAIN ingestor'.slots = DOMAIN i.slots
          /\ ingestor'.slots[k].queued = i.slots[k].queued
          /\ \A x \in DOMAIN i.slots \ {k} : ingestor'.slots[x] = i.slots[x]
      <4>1. i.slots[k] \in SlotType  BY <2>1 DEF TypeInv, AdminTypes, IngestorTyped
      <4>2. [i.slots[k] EXCEPT !.env = None].queued = i.slots[k].queued  BY <4>1 DEF SlotType
      <4> QED  BY <2>1, <2>4, <4>2 DEF Changed
    <3>2. ASSUME NEW j \in DOMAIN ingestor'.ready
          PROVE  /\ ingestor'.ready[j] \in DOMAIN ingestor'.slots
                 /\ ingestor'.slots[ingestor'.ready[j]].env # None
      <4>1. Among(ingestor'.ready[j], i.ready) /\ ingestor'.ready[j] # k  BY <2>3, AmongPlace
      <4> QED  BY <3>1, <4>1 DEF Among, Queued
    <3>3. \A x \in DOMAIN ingestor'.slots : ingestor'.slots[x].queued /\
             (Among(x, ingestor'.ready) <=> ~ Working(x)')
      BY <2>2, <2>3, <2>4, <3>1 DEF Queued, Working
    <3> QED  BY <2>1, <2>3, <2>4, <3>1, <3>2, <3>3 DEF Queued
  <2>5. CASE UNCHANGED worker /\ ingestor'.slots = Removed(i.slots, k)
    <3>1. /\ DOMAIN ingestor'.slots = DOMAIN i.slots \ {k}
          /\ \A x \in DOMAIN ingestor'.slots : ingestor'.slots[x] = i.slots[x]
      BY <2>5 DEF Removed
    <3>2. IsFiniteSet(DOMAIN ingestor'.slots) /\ Cardinality(DOMAIN ingestor'.slots) <= SlotCapacity
      BY <2>1, <3>1, TableLess DEF Queued
    <3>3. ASSUME NEW j \in DOMAIN ingestor'.ready
          PROVE  /\ ingestor'.ready[j] \in DOMAIN ingestor'.slots
                 /\ ingestor'.slots[ingestor'.ready[j]].env # None
      <4>1. Among(ingestor'.ready[j], i.ready) /\ ingestor'.ready[j] # k  BY <2>3, AmongPlace
      <4> QED  BY <3>1, <4>1 DEF Among, Queued
    <3>4. \A x \in DOMAIN ingestor'.slots : ingestor'.slots[x].queued /\
             (Among(x, ingestor'.ready) <=> ~ Working(x)')
      BY <2>2, <2>3, <2>5, <3>1 DEF Queued, Working
    <3> QED  BY <2>2, <2>3, <2>5, <3>2, <3>3, <3>4 DEF Queued
  <2> QED  BY <1>3, <2>4, <2>5, DequeueEffect DEF k
<1>4. CASE Commit
  <2>1. worker.at = "commit"  BY <1>4, CommitEffect
  <2>2. CASE Accepts
    <3>1. worker'.at = "append" /\ worker'.key = worker.key
      BY <2>1, <2>2, WorkerTyped DEF Accepts
    <3> QED  BY <2>1, <2>2, <3>1 DEF Accepts, Queued, Working
  <2>3. ASSUME NEW err \in BOOLEAN, Refuses(err) PROVE Queued'
    BY <2>1, <2>3, FinishedQueued DEF Refuses
  <2> QED  BY <1>4, <2>2, <2>3, CommitEffect
<1>5. CASE AppendPending
  BY <1>5, FinishedQueued DEF AppendPending
<1> QED  BY <1>1, <1>2, <1>3, <1>4, <1>5, IngestSteps
-----------------------------------------------------------------------------
(* The stream.                                                              *)

\* Only these steps touch the sender and the wire.
LEMMA SenderSteps ==
    ASSUME [Next]_vars
    PROVE  \/ UNCHANGED <<sender, wire>>
           \/ Take \/ Send("stress") \/ Send("system") \/ SendFails \/ SendLoopCanceled \/ BreakStream
           \/ Reconnect \/ (\E g : EndGeneration(g)) \/ Receive
<1> DEFINE Quiet == UNCHANGED <<sender, wire>>
<1>1. ASSUME NEW r \in Recorders, RecordAction(r) \/ RecordWindow(r) PROVE Quiet
  BY <1>1 DEF RecordAction, RecordWindow, streamVars
<1>2. CASE \/ RunReset \/ StageReset \/ StopReporter \/ Tick \/ OfferSystem
           \/ StartSampler \/ TaskEnds \/ StopFlush \/ ReporterExit \/ Offer("tick") \/ Offer("stop")
           \/ PeekNothing \/ LoopExit \/ FinalFlush \/ MarkTaskTerminal \/ DropTask
           \/ Dequeue \/ Commit \/ AppendPending
  BY <1>2 DEF RunReset, StageReset, StopReporter, Tick, OfferSystem, StartSampler,
     TaskEnds, StopFlush, ReporterExit, Offer, PeekNothing, LoopExit, FinalFlush,
     MarkTaskTerminal, DropTask, Dequeue, Commit, AppendPending, streamVars
<1>3. ASSUME NEW who \in Both, Peek(who) \/ Save(who) \/ SaveFails(who) \/ Confirm(who) PROVE Quiet
  BY <1>3 DEF Peek, Save, SaveFails, Confirm, streamVars
<1>4. CASE UNCHANGED vars
  BY <1>4 DEF vars, streamVars
<1> QED
  BY <1>1, <1>2, <1>3, <1>4 DEF Next, Environment, Goroutines

\* The loop holds what it is about to send, at every step.
LEMMA SenderHoldsStep ==
    ASSUME TypeInv, SenderHolds, [Next]_vars
    PROVE  SenderHolds'
<1> sender \in SenderType /\ latest \in LatestType  BY DEF TypeInv, AgentTypes
<1>1. CASE UNCHANGED <<sender, wire>>  BY <1>1 DEF SenderHolds
<1>2. CASE Take
  BY <1>2 DEF Take, Step, SenderHolds, SenderType, Kinds
<1>3. CASE Send("stress")
  BY <1>3 DEF Send, Step, SenderHolds, SenderType, Kinds
<1>4. CASE Send("system")
  BY <1>4 DEF Send, Step, SenderHolds, SenderType, Kinds
<1>5. CASE SendFails
  BY <1>5 DEF SendFails, SenderHolds, SenderType, Kinds
<1>6. CASE SendLoopCanceled \/ BreakStream
  BY <1>6 DEF SendLoopCanceled, BreakStream, SenderHolds, SenderType, Kinds
<1>7. CASE Reconnect
  BY <1>7 DEF Reconnect, SenderHolds, SenderType, Kinds
<1>8. ASSUME NEW g, EndGeneration(g) PROVE SenderHolds'
  BY <1>8 DEF EndGeneration, SenderHolds, SenderType, Kinds
<1>9. CASE Receive
  BY <1>9 DEF Receive, SenderHolds, SenderType, Kinds
<1> QED  BY <1>1, <1>2, <1>3, <1>4, <1>5, <1>6, <1>7, <1>8, <1>9, SenderSteps

\* The parts of Generations.
CurrentIsLast == sender.generation >= 1 /\ sender.current \in {0, sender.generation}
WireIsCurrent == \A i \in DOMAIN wire : wire[i].generation = sender.generation
SlotsMatch ==
    \A k \in DOMAIN ingestor.slots :
         /\ 1 <= k[1] /\ k[1] <= sender.generation
         /\ ingestor.slots[k].env # None =>
              ingestor.slots[k].env.generation = k[1] /\ ingestor.slots[k].env.kind = k[2]
WorkerMatches ==
    worker.at # "idle" => /\ worker.key = <<sender.generation, "stress">>
                          /\ worker.env.kind = "stress"
                          /\ worker.env.payload.window.task = Task

\* The parts of Generations, for steps that touch one of them.
LEMMA GenerationParts == Generations <=> CurrentIsLast /\ WireIsCurrent /\ SlotsMatch /\ WorkerMatches
BY DEF Generations, CurrentIsLast, WireIsCurrent, SlotsMatch, WorkerMatches

\* The generation changes only when nothing of the last one is on the wire and
\* the worker is idle.
LEMMA WireStep ==
    ASSUME TypeInv, SenderHolds, Generations, [Next]_vars
    PROVE  /\ CurrentIsLast' /\ WireIsCurrent'
           /\ sender'.generation # sender.generation =>
                 worker.at = "idle" /\ sender'.generation = sender.generation + 1
<1> sender \in SenderType /\ wire \in Seq(EnvelopeType)  BY DEF TypeInv, AgentTypes
<1> CurrentIsLast /\ WireIsCurrent  BY GenerationParts
<1> USE DEF SenderType
<1>1. CASE UNCHANGED <<sender, wire>>  BY <1>1 DEF CurrentIsLast, WireIsCurrent
<1>2. CASE Take \/ SendFails \/ SendLoopCanceled
  BY <1>2 DEF Take, SendFails, SendLoopCanceled, CurrentIsLast, WireIsCurrent
<1>3. CASE Send("stress") \/ Send("system")
  <2>0. PICK k \in Kinds : Send(k)  BY <1>3 DEF Kinds
  <2>1. Envelope(k, sender[k]).generation = sender.generation  BY DEF Envelope
  <2>2. wire' = Append(wire, Envelope(k, sender[k]))  BY <2>0 DEF Send
  <2>3. sender'.generation = sender.generation /\ sender'.current = sender.current
    BY <2>0 DEF Send, Kinds
  <2>4. DOMAIN wire' = 1..(Len(wire) + 1) /\ Len(wire) \in Nat /\ DOMAIN wire = 1..Len(wire)
        /\ (\A i \in 1..Len(wire) : wire'[i] = wire[i]) /\ wire'[Len(wire) + 1] = Envelope(k, sender[k])
    BY <2>2
  <2>5. ASSUME NEW i \in DOMAIN wire' PROVE wire'[i].generation = sender.generation
    <3>1. CASE i = Len(wire) + 1  BY <2>1, <2>4, <3>1
    <3>2. CASE i \in 1..Len(wire)  BY <2>4, <3>2 DEF WireIsCurrent
    <3> QED  BY <2>4, <3>1, <3>2
  <2> QED  BY <2>3, <2>5 DEF CurrentIsLast, WireIsCurrent
<1>4. CASE BreakStream
  BY <1>4 DEF BreakStream, CurrentIsLast, WireIsCurrent
<1>5. CASE Reconnect
  <2>1. wire = <<>> /\ wire' = wire  BY <1>5 DEF Reconnect, SenderHolds
  <2>2. sender'.generation = sender.generation + 1 /\ sender'.current = sender.generation + 1
    BY <1>5 DEF Reconnect
  <2> QED  BY <1>5, <2>1, <2>2 DEF CurrentIsLast, WireIsCurrent, Reconnect, GateFree
<1>6. ASSUME NEW g, EndGeneration(g)
      PROVE  CurrentIsLast' /\ WireIsCurrent' /\ sender'.generation = sender.generation
  BY <1>6 DEF EndGeneration, CurrentIsLast, WireIsCurrent
<1>7. CASE Receive
  <2>1. sender'.generation = sender.generation /\ sender'.current = sender.current
    BY <1>7 DEF Receive
  <2>2. wire' = <<>> \/ (wire' = Tail(wire) /\ wire # <<>>)  BY <1>7 DEF Receive
  <2>3. CASE wire' = <<>>  BY <2>1, <2>3 DEF CurrentIsLast, WireIsCurrent
  <2>4. CASE wire' = Tail(wire) /\ wire # <<>>
    <3>1. DOMAIN wire' = 1..(Len(wire) - 1) /\ DOMAIN wire = 1..Len(wire) /\ Len(wire) \in Nat
          /\ \A i \in 1..(Len(wire) - 1) : wire'[i] = wire[i + 1]
      BY <2>4, TailStays
    <3>2. ASSUME NEW i \in DOMAIN wire' PROVE wire'[i].generation = sender.generation
      <4>1. i + 1 \in DOMAIN wire  BY <3>1
      <4> QED  BY <3>1, <4>1 DEF WireIsCurrent
    <3> QED  BY <2>1, <3>2 DEF CurrentIsLast, WireIsCurrent
  <2> QED  BY <2>2, <2>3, <2>4
<1> QED  BY <1>1, <1>2, <1>3, <1>4, <1>5, <1>6, <1>7, SenderSteps

\* Envelopes and slots stay with the generation that sent them.
LEMMA GenerationsStep ==
    ASSUME PipelineAssumption, TypeInv, SenderHolds, Generations, Queued, [Next]_vars
    PROVE  Generations'
<1> DEFINE i == ingestor
<1> SUFFICES SlotsMatch' /\ WorkerMatches'  BY WireStep, GenerationParts, PTL
<1>0. sender \in SenderType /\ CurrentIsLast /\ WireIsCurrent /\ SlotsMatch /\ WorkerMatches
      /\ DOMAIN i.slots \subseteq Keys
  BY GenerationParts DEF TypeInv, AgentTypes, AdminTypes, IngestorTyped
<1> USE DEF SenderType
<1>1. CASE UNCHANGED <<ingestor.slots, worker>>
  <2>1. sender'.generation \in Nat /\ sender.generation <= sender'.generation
        /\ (worker.at # "idle" => sender'.generation = sender.generation)
    BY <1>0, WireStep
  <2>2. \A k \in DOMAIN i.slots : k[1] \in Nat  BY <1>0 DEF Keys
  <2> QED  BY <1>0, <1>1, <2>1, <2>2 DEF SlotsMatch, WorkerMatches
<1>2. CASE Receive
  <2>0. UNCHANGED worker /\ sender'.generation = sender.generation
    BY <1>2 DEF Receive
  <2>1. WorkerMatches'  BY <1>0, <2>0 DEF WorkerMatches
  <2>2. CASE ingestor'.slots = i.slots  BY <1>0, <2>0, <2>1, <2>2 DEF SlotsMatch
  <2>3. CASE ingestor'.slots = Changed(i.slots, <<Head(wire).generation, Head(wire).kind>>,
                                       [env |-> Head(wire), queued |-> TRUE])
    <3>1. Head(wire).generation = sender.generation
      BY <1>0, <1>2, ReceiveEffect DEF WireIsCurrent
    <3>2. SlotsMatch'  BY <1>0, <2>0, <2>3, <3>1 DEF SlotsMatch, Changed, CurrentIsLast
    <3> QED  BY <2>1, <3>2
  <2> QED  BY <1>2, <2>2, <2>3, ReceiveEffect
<1>3. CASE Dequeue
  <2> DEFINE k == Head(i.ready)
  <2>0. i.ready # <<>> /\ UNCHANGED sender  BY <1>3 DEF Dequeue, streamVars
  <2>1. k \in DOMAIN i.slots /\ i.slots[k].env \in EnvelopeType /\ k \in Keys
        /\ worker.at = "idle" /\ i.slots[k] \in SlotType
    BY <1>3, <2>0, HeadOfQueue, DequeueEffect
  <2>2. i.slots[k].env # None  BY <2>1, NoneIsNothing
  <2> HIDE DEF k
  <2>3. CASE /\ Counts(k, i.slots[k].env)
             /\ worker' = [at |-> "commit", key |-> k, env |-> i.slots[k].env]
             /\ ingestor'.slots = Changed(i.slots, k, [i.slots[k] EXCEPT !.env = None])
    <3>1. k[1] = sender.generation /\ k[2] = "stress"
      BY <1>0, <2>1, <2>3 DEF Counts, SlotsMatch, CurrentIsLast
    <3>2. k = <<sender.generation, "stress">>  BY <2>1, <3>1 DEF Keys
    <3>3. WorkerMatches'  BY <1>0, <2>0, <2>1, <2>2, <2>3, <3>1, <3>2 DEF WorkerMatches, SlotsMatch, Counts
    <3>4. [i.slots[k] EXCEPT !.env = None].env = None  BY <2>1 DEF SlotType
    <3>5. SlotsMatch'  BY <1>0, <2>0, <2>1, <2>3, <3>4 DEF SlotsMatch, Changed
    <3> QED  BY <3>3, <3>5
  <2>4. CASE UNCHANGED worker /\ ingestor'.slots = Removed(i.slots, k)
    BY <1>0, <2>0, <2>4 DEF SlotsMatch, WorkerMatches, Removed
  <2> QED  BY <1>3, <2>3, <2>4, DequeueEffect DEF k
<1>4. ASSUME worker.at # "idle", worker'.at = "idle", NEW err \in BOOLEAN,
             ingestor' = Finished(ingestor, worker.key, err), UNCHANGED sender
      PROVE  SlotsMatch' /\ WorkerMatches'
  <2>1. ingestor'.slots = i.slots \/ ingestor'.slots = Removed(i.slots, worker.key)
    BY <1>4, FinishedHere DEF Queued
  <2> QED  BY <1>0, <1>4, <2>1 DEF SlotsMatch, WorkerMatches, Removed
<1>5. CASE Commit
  <2>0. worker.at = "commit" /\ UNCHANGED sender  BY <1>5, CommitEffect DEF Commit, streamVars
  <2>1. CASE Accepts
    <3>1. worker'.key = worker.key /\ worker'.env = worker.env /\ worker'.at = "append"
      BY <2>0, <2>1, WorkerTyped DEF Accepts
    <3> QED  BY <1>0, <2>0, <2>1, <3>1 DEF Accepts, SlotsMatch, WorkerMatches
  <2>2. ASSUME NEW err \in BOOLEAN, Refuses(err) PROVE SlotsMatch' /\ WorkerMatches'
    BY <1>4, <2>0, <2>2 DEF Refuses
  <2> QED  BY <1>5, <2>1, <2>2, CommitEffect
<1>6. CASE AppendPending
  BY <1>4, <1>6 DEF AppendPending, streamVars
<1> QED  BY <1>1, <1>2, <1>3, <1>5, <1>6, IngestSteps
-----------------------------------------------------------------------------
(* The collector.                                                           *)

\* Only these steps touch the counters and the numbers of the windows.
LEMMA CountSteps ==
    ASSUME TypeInv, [Next]_vars
    PROVE  \/ /\ UNCHANGED <<collector, recorder, reporter.next, ghost.taken, ghost.reset>>
              /\ phase = "reset" <=> phase' = "reset"
           \/ \E r \in Recorders : RecordAction(r) \/ RecordWindow(r)
           \/ RunReset \/ StageReset \/ Tick \/ StopFlush
<1> DEFINE Quiet == /\ UNCHANGED <<collector, recorder, reporter.next, ghost.taken, ghost.reset>>
                    /\ phase = "reset" <=> phase' = "reset"
<1> reporter \in ReporterType /\ ghost \in GhostType  BY DEF TypeInv, AgentTypes, AdminTypes
<1>1. CASE \/ OfferSystem \/ BreakStream \/ StartSampler \/ TaskEnds
           \/ Take \/ Send("stress") \/ Send("system") \/ SendFails \/ SendLoopCanceled
           \/ Receive \/ Dequeue \/ Reconnect
           \/ PeekNothing \/ LoopExit \/ FinalFlush
  BY <1>1 DEF OfferSystem, BreakStream, StartSampler, TaskEnds, Take, Send, SendFails,
     SendLoopCanceled, Receive, Dequeue, Reconnect, PeekNothing, LoopExit, FinalFlush, agentVars
<1>2. CASE StopReporter \/ ReporterExit \/ Offer("tick") \/ Offer("stop")
  BY <1>2 DEF StopReporter, ReporterExit, Offer, ReporterType
<1>3. CASE Commit
  <2>1. \/ UNCHANGED ghost
        \/ \E a : ghost' = [ghost EXCEPT !.accepted = a]
        \/ \E a : ghost' = [ghost EXCEPT !.alarm = a]
    BY <1>3, CommitEffect DEF Accepts
  <2>2. ghost'.taken = ghost.taken /\ ghost'.reset = ghost.reset  BY <2>1 DEF GhostType
  <2> QED  BY <1>3, <2>2 DEF Commit, agentVars
<1>4. CASE AppendPending \/ MarkTaskTerminal \/ DropTask
  <2>1. ghost'.taken = ghost.taken /\ ghost'.reset = ghost.reset
    BY <1>4 DEF AppendPending, MarkTaskTerminal, DropTask, GhostType
  <2> QED  BY <1>4, <2>1 DEF AppendPending, MarkTaskTerminal, DropTask, agentVars
<1>5. ASSUME NEW who \in Both, Peek(who) \/ Save(who) \/ SaveFails(who) PROVE Quiet
  BY <1>5 DEF Peek, Save, SaveFails, agentVars
<1>6. ASSUME NEW who \in Both, Confirm(who) PROVE Quiet
  <2>1. ghost'.taken = ghost.taken /\ ghost'.reset = ghost.reset
    BY <1>6 DEF Confirm, GhostType
  <2> QED  BY <1>6, <2>1 DEF Confirm, agentVars
<1>7. ASSUME NEW g, EndGeneration(g) PROVE Quiet
  BY <1>7 DEF EndGeneration, agentVars
<1>8. CASE UNCHANGED vars
  BY <1>8 DEF vars, agentVars
<1> QED
  BY <1>1, <1>2, <1>3, <1>4, <1>5, <1>6, <1>7, <1>8 DEF Next, Environment, Goroutines

\* One window more.
LEMMA OwnedMore ==
    ASSUME NEW T, NEW w
    PROVE  /\ OwnedBy(T \cup {w}) = OwnedBy(T) \cup w.own
           /\ \A e, n : ~ (w.epoch = e /\ w.seq <= n) => EpochOf(T \cup {w}, e, n) = EpochOf(T, e, n)
<1>1. \A S : OwnedBy(S \cup {w}) = OwnedBy(S) \cup w.own  BY DEF OwnedBy
<1>3. \A e, n : ~ (w.epoch = e /\ w.seq <= n) => EpochOf(T \cup {w}, e, n) = EpochOf(T, e, n)
  BY DEF EpochOf
<1> QED  BY <1>1, <1>3

\* What the windows of an epoch own with one more of them.
LEMMA OwnedUpTo ==
    ASSUME NEW T, NEW w, NEW e, NEW n, w.epoch = e, w.seq <= n
    PROVE  OwnedBy(EpochOf(T \cup {w}, e, n)) = OwnedBy(EpochOf(T, e, n)) \cup w.own
<1>1. EpochOf(T \cup {w}, e, n) = EpochOf(T, e, n) \cup {w}  BY DEF EpochOf
<1>2. OwnedBy(EpochOf(T, e, n) \cup {w}) = OwnedBy(EpochOf(T, e, n)) \cup w.own  BY OwnedMore
<1> QED  BY <1>1, <1>2

\* A window owns its part of the whole.
LEMMA OwnedPart ==
    ASSUME NEW T, NEW w \in T
    PROVE  w.own \subseteq OwnedBy(T)
BY DEF OwnedBy

\* What the recorders hold when one of them changes, and when none holds any.
LEMMA RecorderChange ==
    ASSUME NEW r \in Recorders, NEW s,
           NEW rec, rec = [q \in Recorders |-> rec[q]], \A p, q \in Recorders : p # q => rec[p] \cap rec[q] = {}
    PROVE  InRecorders([rec EXCEPT ![r] = s]) = (InRecorders(rec) \ rec[r]) \cup s
<1> DEFINE new == [rec EXCEPT ![r] = s]
<1>1. \A q \in Recorders : new[q] = IF q = r THEN s ELSE rec[q]  OBVIOUS
<1> HIDE DEF new
<1>2. \A x : x \in InRecorders(new) <=> \E q \in Recorders : x \in new[q]  BY DEF InRecorders
<1>3. \A x : x \in InRecorders(rec) <=> \E q \in Recorders : x \in rec[q]  BY DEF InRecorders
<1>4. \A x : x \in InRecorders(new) <=> x \in (InRecorders(rec) \ rec[r]) \cup s
  BY <1>1, <1>2, <1>3
<1> QED  BY <1>4 DEF new

\* A recorder holds a part of what the recorders hold.
LEMMA RecorderPart ==
    ASSUME NEW rec, NEW r \in Recorders
    PROVE  rec[r] \subseteq InRecorders(rec)
BY DEF InRecorders

\* When no recorder is at work all is in the window.
LEMMA NoRecorderHolds == NoRecorder => Unwindowed = {}
BY DEF NoRecorder, Unwindowed, InRecorders

\* A measurement that was not seen is in none of the sets of those that were.
LEMMA SeenIsAll ==
    ASSUME CountInv
    PROVE  /\ Owned \subseteq collector.seen /\ ghost.reset \subseteq collector.seen
           /\ collector.window \subseteq collector.seen /\ Unwindowed \subseteq collector.seen
BY DEF CountInv, Cumulated

\* A new measurement is in the cumulative counters and with its recorder.
LEMMA RecordActionCounts ==
    ASSUME PipelineAssumption, TypeInv, CountInv, NEW r \in Recorders, RecordAction(r)
    PROVE  CountInv'
<1> DEFINE id == Spent + 1
<1>0. /\ collector \in CollectorType /\ recorder \in [Recorders -> SUBSET Measurements]
      /\ ghost \in GhostType /\ reporter \in ReporterType
  BY DEF TypeInv, AgentTypes, AdminTypes
<1>1. Spent \in Nat /\ id \notin collector.seen
  BY NextMeasurement DEF RecordAction, CountInv
<1>2. /\ collector' = [collector EXCEPT !.cum = @ \cup {id}, !.seen = @ \cup {id}]
      /\ recorder' = [recorder EXCEPT ![r] = {id}]
      /\ phase = "run" /\ phase' = "run" /\ recorder[r] = {}
      /\ UNCHANGED <<reporter, ghost>>
  BY DEF RecordAction
<1>3. /\ collector'.cum = collector.cum \cup {id} /\ collector'.seen = collector.seen \cup {id}
      /\ collector'.window = collector.window /\ collector'.epoch = collector.epoch
  BY <1>0, <1>2 DEF CollectorType
<1>4. Numbered /\ Apart /\ TakenInOrder /\ Cumulated  BY DEF CountInv
<1>5. Numbered'
  <2>1. collector.seen = 1..Spent /\ IsFiniteSet(collector.seen) /\ Cardinality(collector.seen) = Spent
    BY <1>4 DEF Numbered, Spent
  <2> HIDE DEF id
  <2>2. IsFiniteSet(collector'.seen) /\ Cardinality(collector'.seen) = Cardinality(collector.seen) + 1
    <3> DEFINE S == collector.seen
    <3>1. IsFiniteSet(S \cup {id}) /\ Cardinality(S \cup {id}) = Cardinality(S) + 1
      <4>1. IsFiniteSet(S) /\ id \notin S  BY <1>1, <2>1
      <4> HIDE DEF S
      <4> QED  BY <4>1, FS_AddElement
    <3> QED  BY <1>3, <3>1
  <2>3. collector'.seen = 1..(Spent + 1)  BY <1>1, <1>3, <2>1 DEF id
  <2> QED  BY <2>1, <2>2, <2>3 DEF Numbered
<1> HIDE DEF id
<1>6. Unwindowed' = Unwindowed \cup {id}
  <2>1. recorder = [q \in Recorders |-> recorder[q]]
        /\ \A p, q \in Recorders : p # q => recorder[p] \cap recorder[q] = {}
    BY <1>0, <1>4 DEF Apart
  <2>2. InRecorders(recorder') = (InRecorders(recorder) \ recorder[r]) \cup {id}
    BY <1>2, <2>1, RecorderChange
  <2> QED  BY <1>2, <2>2 DEF Unwindowed
<1>7. Owned' = Owned /\ \A e, n : EpochOwned(e, n)' = EpochOwned(e, n)  BY <1>2 DEF Owned, EpochOwned
<1>8. id \notin Owned /\ id \notin ghost.reset /\ id \notin collector.window /\ id \notin Unwindowed
  BY <1>1, SeenIsAll
<1>9. Apart'
  <2>1. \A p, q \in Recorders : p # q => recorder'[p] \cap recorder'[q] = {}
    <3>1. \A q \in Recorders : id \notin recorder[q]  BY <1>8, RecorderPart DEF Unwindowed
    <3>2. \A q \in Recorders : recorder'[q] = IF q = r THEN {id} ELSE recorder[q]  BY <1>0, <1>2
    <3> QED  BY <1>4, <3>1, <3>2 DEF Apart
  <2> QED  BY <1>2, <1>3, <1>4, <1>6, <1>7, <1>8, <2>1 DEF Apart
<1>10. TakenInOrder'  BY <1>2, <1>3, <1>4 DEF TakenInOrder
<1>11. Cumulated'
  <2>1. collector'.cum = EpochOwned(collector.epoch, reporter.next) \cup collector.window \cup Unwindowed'
        /\ collector'.seen = Owned \cup ghost.reset \cup collector.window \cup Unwindowed'
        /\ collector.epoch > 1
    BY <1>2, <1>3, <1>4, <1>6 DEF Cumulated
  <2>2. \A w \in ghost.taken : w.cum = IF w.epoch = 1 THEN {Earlier} ELSE EpochOwned(w.epoch, w.seq)
    BY <1>4 DEF Cumulated
  <2>3. Owned' = OwnedBy(ghost.taken) /\ Owned = OwnedBy(ghost.taken)  BY <1>2 DEF Owned
  <2> QED  BY <1>2, <1>3, <2>1, <2>2, <2>3 DEF Cumulated, EpochOwned
<1> QED  BY <1>5, <1>9, <1>10, <1>11 DEF CountInv

\* A recorder hands its measurement to the window.
LEMMA RecordWindowCounts ==
    ASSUME TypeInv, CountInv, NEW r \in Recorders, RecordWindow(r)
    PROVE  CountInv'
<1>0. /\ collector \in CollectorType /\ recorder \in [Recorders -> SUBSET Measurements]
      /\ ghost \in GhostType /\ reporter \in ReporterType
  BY DEF TypeInv, AgentTypes, AdminTypes
<1>2. /\ collector' = [collector EXCEPT !.window = @ \cup recorder[r]]
      /\ recorder' = [recorder EXCEPT ![r] = {}]
      /\ recorder[r] # {}
      /\ UNCHANGED <<phase, reporter, ghost>>
  BY DEF RecordWindow
<1>3. /\ collector'.cum = collector.cum /\ collector'.seen = collector.seen
      /\ collector'.window = collector.window \cup recorder[r] /\ collector'.epoch = collector.epoch
  BY <1>0, <1>2 DEF CollectorType
<1>4. Numbered /\ Apart /\ TakenInOrder /\ Cumulated  BY DEF CountInv
<1>5. Numbered'  BY <1>3, <1>4 DEF Numbered
<1>6. Unwindowed' = Unwindowed \ recorder[r] /\ recorder[r] \subseteq Unwindowed
  <2>1. recorder = [q \in Recorders |-> recorder[q]]
        /\ \A p, q \in Recorders : p # q => recorder[p] \cap recorder[q] = {}
    BY <1>0, <1>4 DEF Apart
  <2>2. InRecorders(recorder') = (InRecorders(recorder) \ recorder[r]) \cup {}
    BY <1>2, <2>1, RecorderChange
  <2> QED  BY <1>2, <2>2, RecorderPart DEF Unwindowed
<1>7. phase # "reset"  BY <1>2, <1>4, <1>6 DEF Cumulated
<1>8. Owned' = Owned  BY <1>2 DEF Owned
<1>9. Apart'
  <2>1. \A p, q \in Recorders : p # q => recorder'[p] \cap recorder'[q] = {}
    <3>1. \A q \in Recorders : recorder'[q] = IF q = r THEN {} ELSE recorder[q]  BY <1>0, <1>2
    <3> QED  BY <1>4, <3>1 DEF Apart
  <2> QED  BY <1>2, <1>3, <1>4, <1>6, <1>8, <2>1 DEF Apart
<1>10. TakenInOrder'  BY <1>2, <1>3, <1>4 DEF TakenInOrder
<1>11. Cumulated'
  <2>1. collector.window \cup Unwindowed = collector'.window \cup Unwindowed'  BY <1>3, <1>6
  <2>2. \A A, B, C, D, E : A \cup B = C \cup D => E \cup A \cup B = E \cup C \cup D  OBVIOUS
  <2>3. collector'.cum = EpochOwned(collector.epoch, reporter.next) \cup collector'.window \cup Unwindowed'
        /\ collector'.seen = Owned \cup ghost.reset \cup collector'.window \cup Unwindowed'
        /\ collector.epoch > 1
    BY <1>2, <1>3, <1>4, <1>7, <2>1, <2>2 DEF Cumulated
  <2>4. \A w \in ghost.taken : w.cum = IF w.epoch = 1 THEN {Earlier} ELSE EpochOwned(w.epoch, w.seq)
    BY <1>4 DEF Cumulated
  <2> QED  BY <1>2, <1>3, <1>7, <1>8, <2>3, <2>4 DEF Cumulated, EpochOwned
<1> QED  BY <1>5, <1>9, <1>10, <1>11 DEF CountInv

\* No window of an epoch that has not begun.
LEMMA NewEpoch ==
    ASSUME TypeInv, CountInv, NEW n
    PROVE  EpochOwned(collector.epoch + 1, n) = {}
<1>1. collector.epoch \in Nat /\ \A w \in ghost.taken : w.epoch \in Nat /\ w.epoch <= collector.epoch
  BY WindowFields DEF TypeInv, AgentTypes, CollectorType, AdminTypes, GhostType, CountInv, TakenInOrder
<1>2. EpochOf(ghost.taken, collector.epoch + 1, n) = {}  BY <1>1 DEF EpochOf
<1> QED  BY <1>2 DEF EpochOwned, OwnedBy

\* The task's Reset begins its first epoch.
LEMMA RunResetCounts ==
    ASSUME PipelineAssumption, TypeInv, CountInv, RunReset
    PROVE  CountInv'
<1>0. collector \in CollectorType /\ reporter \in ReporterType /\ ghost \in GhostType
  BY DEF TypeInv, AgentTypes, AdminTypes
<1>1. /\ phase = "reset" /\ phase' = "run" /\ UNCHANGED <<recorder, reporter, ghost>>
      /\ collector' = [epoch |-> collector.epoch + 1, cum |-> {}, window |-> {}, apdex |-> ApdexT, seen |-> {}]
  BY <1>0 DEF RunReset, Reset, CollectorType
<1>2. Numbered /\ Apart /\ TakenInOrder /\ Cumulated  BY DEF CountInv
<1>3. ghost.reset = {} /\ Unwindowed = {} /\ Owned = {} /\ collector.epoch = 1 /\ collector.window = {}
  BY <1>1, <1>2 DEF Cumulated
<1>4. Unwindowed' = {} /\ Owned' = {}  BY <1>1, <1>3 DEF Unwindowed, Owned
<1>5. Numbered'
  <2>1. IsFiniteSet({}) /\ Cardinality({}) = 0  BY FS_EmptySet
  <2> QED  BY <1>1, <2>1 DEF Numbered
<1>6. Apart'  BY <1>1, <1>2, <1>3, <1>4 DEF Apart
<1>7. TakenInOrder'
  <2>1. \A w \in ghost.taken : w.epoch \in Nat  BY <1>0, WindowFields DEF GhostType
  <2> QED  BY <1>0, <1>1, <1>2, <2>1 DEF TakenInOrder, CollectorType
<1>8. Cumulated'
  <2>1. EpochOwned(collector.epoch + 1, reporter.next) = {}  BY NewEpoch
  <2>2. \A w \in ghost.taken : w.cum = IF w.epoch = 1 THEN {Earlier} ELSE EpochOwned(w.epoch, w.seq)
    BY <1>2 DEF Cumulated
  <2> QED  BY <1>1, <1>3, <1>4, <2>1, <2>2 DEF Cumulated, EpochOwned
<1> QED  BY <1>5, <1>6, <1>7, <1>8 DEF CountInv

\* A stage's Reset begins another epoch; its window is in the stage's report.
LEMMA StageResetCounts ==
    ASSUME TypeInv, CountInv, StageReset
    PROVE  CountInv'
<1>0. collector \in CollectorType /\ reporter \in ReporterType /\ ghost \in GhostType
  BY DEF TypeInv, AgentTypes, AdminTypes
<1>1. /\ phase = "run" /\ phase' = "run" /\ UNCHANGED <<recorder, reporter>> /\ NoRecorder
      /\ collector' = [epoch |-> collector.epoch + 1, cum |-> {}, window |-> {},
                       apdex |-> collector.apdex, seen |-> collector.seen]
      /\ ghost'.reset = ghost.reset \cup collector.window /\ ghost'.taken = ghost.taken
  BY <1>0 DEF StageReset, Reset, CollectorType, GhostType
<1>2. Numbered /\ Apart /\ TakenInOrder /\ Cumulated  BY DEF CountInv
<1>3. Unwindowed = {} /\ Unwindowed' = {} /\ Owned' = Owned
  BY <1>1, NoRecorderHolds DEF Unwindowed, Owned
<1>4. Numbered'  BY <1>1, <1>2 DEF Numbered
<1>5. Apart'  BY <1>1, <1>2, <1>3 DEF Apart
<1>6. TakenInOrder'
  <2>1. \A w \in ghost.taken : w.epoch \in Nat  BY <1>0, WindowFields DEF GhostType
  <2> QED  BY <1>0, <1>1, <1>2, <2>1 DEF TakenInOrder, CollectorType
<1>7. Cumulated'
  <2>1. EpochOwned(collector.epoch + 1, reporter.next) = {}  BY NewEpoch
  <2>2. \A w \in ghost.taken : w.cum = IF w.epoch = 1 THEN {Earlier} ELSE EpochOwned(w.epoch, w.seq)
    BY <1>2 DEF Cumulated
  <2>3. collector.seen = Owned \cup ghost.reset \cup collector.window \cup Unwindowed /\ collector.epoch > 1
    BY <1>1, <1>2 DEF Cumulated
  <2>4. collector.epoch + 1 > 1  BY <1>0, <2>3 DEF CollectorType
  <2>5. collector'.epoch = collector.epoch + 1 /\ collector'.cum = {} /\ collector'.window = {}
        /\ collector'.seen = collector.seen
    BY <1>1
  <2> QED  BY <1>1, <1>3, <2>1, <2>2, <2>3, <2>4, <2>5 DEF Cumulated, EpochOwned
<1> QED  BY <1>4, <1>5, <1>6, <1>7 DEF CountInv

\* A report: the window that is taken owns what the collector's window held.
LEMMA TakeWindowEffect ==
    ASSUME PipelineAssumption, TypeInv, Tick \/ StopFlush
    PROVE  /\ NoRecorder /\ UNCHANGED <<recorder, latest, sender, wire, ingestor, worker, store, events>>
           /\ phase = "reset" <=> phase' = "reset"
           /\ collector' = [collector EXCEPT !.window = {}]
           /\ reporter'.next = reporter.next + 1
           /\ ghost' = [ghost EXCEPT !.taken = @ \cup {Taken}]
           /\ Taken \in WindowType /\ Taken.task = Task /\ Taken.seq = reporter.next
           /\ Taken.epoch = collector.epoch /\ Taken.own = collector.window /\ Taken.cum = collector.cum
<1>1. reporter \in ReporterType  BY DEF TypeInv, AgentTypes
<1>2. reporter'.next = reporter.next + 1  BY <1>1 DEF Tick, StopFlush, TakeWindow, ReporterType
<1>3. Taken \in WindowType  BY WindowsTyped DEF TypeInv
<1>4. /\ Taken.task = Task /\ Taken.seq = reporter.next
      /\ Taken.epoch = collector.epoch /\ Taken.own = collector.window /\ Taken.cum = collector.cum
  BY DEF Taken, Window
<1> QED  BY <1>2, <1>3, <1>4 DEF Tick, StopFlush, TakeWindow, TakeReportSnapshot, streamVars, adminVars

\* A window that is taken owns what the collector had in its own.
LEMMA TakeWindowCounts ==
    ASSUME PipelineAssumption, TypeInv, CountInv, Tick \/ StopFlush
    PROVE  CountInv'
<1> DEFINE w == Taken
           T == ghost.taken
<1>0. collector \in CollectorType /\ reporter \in ReporterType /\ ghost \in GhostType
      /\ \A v \in T : v.seq \in Nat /\ v.epoch \in Nat
  BY WindowFields DEF TypeInv, AgentTypes, AdminTypes, GhostType
<1>1. /\ UNCHANGED recorder /\ NoRecorder /\ reporter'.next = reporter.next + 1
      /\ collector'.cum = collector.cum /\ collector'.seen = collector.seen
      /\ collector'.window = {} /\ collector'.epoch = collector.epoch
      /\ ghost'.reset = ghost.reset /\ ghost'.taken = T \cup {w}
      /\ phase = "reset" <=> phase' = "reset"
  BY <1>0, TakeWindowEffect DEF CollectorType, GhostType
<1>2. w.task = Task /\ w.seq = reporter.next /\ w.epoch = collector.epoch /\ w.own = collector.window
      /\ w.cum = collector.cum
  BY TakeWindowEffect
<1>3. Numbered /\ Apart /\ TakenInOrder /\ Cumulated  BY DEF CountInv
<1>4. Unwindowed = {} /\ Unwindowed' = {}  BY <1>1, NoRecorderHolds DEF Unwindowed
<1> HIDE DEF w, T
<1>5. Owned' = Owned \cup collector.window
  <2>1. OwnedBy(T \cup {w}) = OwnedBy(T) \cup w.own  BY OwnedMore
  <2> QED  BY <1>1, <1>2, <2>1 DEF Owned, T
<1>6. Numbered'  BY <1>1, <1>3 DEF Numbered
<1>7. Apart'
  <2>1. \A v \in T : v.own \subseteq Owned  BY OwnedPart DEF T, Owned
  <2>2. \A v, u \in T \cup {w} : v # u => v.own \cap u.own = {}
    BY <1>2, <1>3, <2>1 DEF Apart, T
  <2> QED  BY <1>1, <1>3, <1>4, <1>5, <2>2 DEF Apart
<1>8. TakenInOrder'
  <2>1. /\ reporter.next \in Nat /\ collector.epoch \in Nat /\ reporter.next >= 1 /\ collector.epoch >= 1
        /\ \A v \in T : v.task = Task /\ 1 <= v.seq /\ v.seq < reporter.next
                        /\ 1 <= v.epoch /\ v.epoch <= collector.epoch
        /\ \A v, u \in T : v.seq = u.seq => v = u
        /\ \A v, u \in T : v.seq <= u.seq => v.epoch <= u.epoch
    BY <1>0, <1>3 DEF TakenInOrder, T, CollectorType, ReporterType
  <2>2. \A v, u \in T \cup {w} : v.seq = u.seq => v = u  BY <1>0, <1>2, <2>1
  <2>3. \A v, u \in T \cup {w} : v.seq <= u.seq => v.epoch <= u.epoch  BY <1>0, <1>2, <2>1
  <2> QED  BY <1>0, <1>1, <1>2, <2>1, <2>2, <2>3 DEF TakenInOrder
<1>9. Cumulated'
  <2>0. /\ reporter.next \in Nat /\ \A v \in T : v.seq \in Nat /\ v.seq < reporter.next
        /\ \A v \in T : v.cum = IF v.epoch = 1 THEN {Earlier} ELSE OwnedBy(EpochOf(T, v.epoch, v.seq))
    BY <1>0, <1>3 DEF ReporterType, TakenInOrder, T, Cumulated, EpochOwned
  <2>1. \A v \in T : EpochOf(T \cup {w}, v.epoch, v.seq) = EpochOf(T, v.epoch, v.seq)
    <3>1. \A v \in T : ~ (w.seq <= v.seq)  BY <1>2, <2>0
    <3>2. \A e, n : ~ (w.epoch = e /\ w.seq <= n) => EpochOf(T \cup {w}, e, n) = EpochOf(T, e, n)
      BY OwnedMore
    <3> QED  BY <3>1, <3>2
  <2>2. \A n \in {reporter.next, reporter.next + 1} :
           OwnedBy(EpochOf(T \cup {w}, collector.epoch, n))
             = OwnedBy(EpochOf(T, collector.epoch, reporter.next)) \cup collector.window
    <3>1. EpochOf(T, collector.epoch, reporter.next + 1) = EpochOf(T, collector.epoch, reporter.next)
      BY <2>0 DEF EpochOf
    <3>2. reporter.next <= reporter.next /\ reporter.next <= reporter.next + 1  BY <2>0
    <3>3. ASSUME NEW n \in {reporter.next, reporter.next + 1}
          PROVE  OwnedBy(EpochOf(T \cup {w}, collector.epoch, n))
                   = OwnedBy(EpochOf(T, collector.epoch, n)) \cup collector.window
      <4>1. w.epoch = collector.epoch /\ w.seq <= n  BY <1>2, <3>2
      <4>2. OwnedBy(EpochOf(T \cup {w}, collector.epoch, n)) = OwnedBy(EpochOf(T, collector.epoch, n)) \cup w.own
        BY <4>1, OwnedUpTo
      <4> QED  BY <1>2, <4>2
    <3> QED  BY <3>1, <3>3
  <2>3. CASE phase = "reset"
    <3>1. collector.epoch = 1 /\ collector.cum = {Earlier} /\ collector.window = {}
          /\ collector.seen = {} /\ ghost.reset = {} /\ Owned = {}
      BY <1>3, <2>3 DEF Cumulated
    <3>2. Owned' = {}  BY <1>5, <3>1
    <3>3. \A v \in T \cup {w} : v.cum = IF v.epoch = 1 THEN {Earlier} ELSE OwnedBy(EpochOf(T \cup {w}, v.epoch, v.seq))
      BY <1>2, <2>0, <2>1, <3>1
    <3> QED  BY <1>1, <1>4, <2>3, <3>1, <3>2, <3>3 DEF Cumulated, EpochOwned
  <2>4. CASE phase # "reset"
    <3>1. collector.epoch > 1
          /\ collector.seen = Owned \cup ghost.reset \cup collector.window \cup Unwindowed
          /\ collector.cum = OwnedBy(EpochOf(T, collector.epoch, reporter.next)) \cup collector.window \cup Unwindowed
      BY <1>3, <2>4 DEF Cumulated, EpochOwned, T
    <3>2. collector.seen = Owned' \cup ghost.reset \cup {} \cup Unwindowed'  BY <1>4, <1>5, <3>1
    <3>3. collector.cum = OwnedBy(EpochOf(T \cup {w}, collector.epoch, reporter.next))
          /\ collector.cum = OwnedBy(EpochOf(T \cup {w}, collector.epoch, reporter.next + 1))
      BY <1>4, <2>2, <3>1
    <3>4. collector.epoch # 1  BY <1>0, <3>1 DEF CollectorType
    <3>5. \A v \in T \cup {w} : v.cum = IF v.epoch = 1 THEN {Earlier} ELSE OwnedBy(EpochOf(T \cup {w}, v.epoch, v.seq))
      BY <1>2, <2>0, <2>1, <3>3, <3>4
    <3>6. collector'.cum = EpochOwned(collector.epoch, reporter.next)' \cup {} \cup {}
      BY <1>1, <3>3 DEF EpochOwned
    <3> QED  BY <1>1, <1>4, <2>4, <3>1, <3>2, <3>3, <3>5 DEF Cumulated, EpochOwned
  <2> QED  BY <2>3, <2>4
<1> QED  BY <1>6, <1>7, <1>8, <1>9 DEF CountInv

\* However recordings, reports and resets interleave, nothing is counted twice.
LEMMA CountStep ==
    ASSUME PipelineAssumption, TypeInv, CountInv, [Next]_vars
    PROVE  CountInv'
<1>1. CASE /\ UNCHANGED <<collector, recorder, reporter.next, ghost.taken, ghost.reset>>
           /\ phase = "reset" <=> phase' = "reset"
  <2>1. Numbered' /\ Apart' /\ TakenInOrder'
    BY <1>1 DEF CountInv, Numbered, Apart, TakenInOrder, Owned, Unwindowed
  <2>2. Cumulated'
    BY <1>1 DEF CountInv, Cumulated, EpochOwned, Owned, Unwindowed
  <2> QED  BY <2>1, <2>2 DEF CountInv
<1>2. ASSUME NEW r \in Recorders, RecordAction(r) \/ RecordWindow(r) PROVE CountInv'
  BY <1>2, RecordActionCounts, RecordWindowCounts
<1> QED
  BY <1>1, <1>2, RunResetCounts, StageResetCounts, TakeWindowCounts, CountSteps

\* The windows and the counters of the run's property.
LEMMA CountedOnce ==
    ASSUME TypeInv, CountInv
    PROVE  RecordedOnce
<1>1. \A v, w \in ghost.taken : v # w => v.own \cap w.own = {}  BY DEF CountInv, Apart
<1>2. phase # "reset" =>
         collector.seen = (UNION {w.own : w \in ghost.taken})
                          \cup ghost.reset \cup collector.window
                          \cup (UNION {recorder[r] : r \in Recorders})
  <2> DEFINE A == UNION {w.own : w \in ghost.taken}
             B == UNION {recorder[r] : r \in Recorders}
  <2>1. Owned = A  BY DEF Owned, OwnedBy
  <2>2. Unwindowed = B  BY DEF Unwindowed, InRecorders
  <2>3. phase # "reset" => collector.seen = Owned \cup ghost.reset \cup collector.window \cup Unwindowed
    BY DEF CountInv, Cumulated
  <2>4. phase # "reset" => collector.seen = A \cup ghost.reset \cup collector.window \cup B
    <3> HIDE DEF A, B
    <3> QED  BY <2>1, <2>2, <2>3
  <2> QED  BY <2>4
<1>3. \A w \in ghost.taken : w.epoch > 1 =>
         w.cum = UNION {v.own : v \in {v \in ghost.taken : v.epoch = w.epoch /\ v.seq <= w.seq}}
  <2>1. \A w \in ghost.taken : w.epoch \in Nat
    BY WindowFields DEF TypeInv, AdminTypes, GhostType
  <2>2. \A e, n : EpochOwned(e, n) = UNION {v.own : v \in {v \in ghost.taken : v.epoch = e /\ v.seq <= n}}
    BY DEF EpochOwned, OwnedBy, EpochOf
  <2>3. \A w \in ghost.taken : w.epoch > 1 => w.cum = EpochOwned(w.epoch, w.seq)
    BY <2>1 DEF CountInv, Cumulated
  <2> QED  BY <2>2, <2>3
<1> QED  BY <1>1, <1>2, <1>3 DEF RecordedOnce
-----------------------------------------------------------------------------
(* A window is in one place.                                                *)

Holding == [p \in Places |-> Held(p)]
\* What is held in H is held once, was taken (T) and was not accepted (A).
Once(H, T, A) ==
    /\ \A p \in Places : H[p] # None => H[p] \in T \cup {EarlierFrame}
    /\ \A p, q \in Places : H[p] # None /\ H[p] = H[q] /\ H[p].task = Task => p = q
    /\ \A p \in Places : H[p] \notin A

\* Everything that is held afterwards was held before, at another place for
\* every place.
LEMMA Moved ==
    ASSUME NEW H, NEW G, NEW T, NEW A, NEW m, Once(H, T, A),
           \A p \in Places : G[p] # None => m[p] \in Places /\ G[p] = H[m[p]],
           \A p, q \in Places : G[p] # None /\ G[q] # None /\ m[p] = m[q] => p = q,
           None \notin A
    PROVE  Once(G, T, A)
<1>1. ASSUME NEW p \in Places, G[p] # None PROVE G[p] \in T \cup {EarlierFrame}
  BY <1>1 DEF Once
<1>2. ASSUME NEW p \in Places, NEW q \in Places, G[p] # None, G[p] = G[q], G[p].task = Task
      PROVE  p = q
  <2>1. m[p] \in Places /\ m[q] \in Places /\ H[m[p]] = G[p] /\ H[m[q]] = G[q]  BY <1>2
  <2>2. m[p] = m[q]  BY <1>2, <2>1 DEF Once
  <2> QED  BY <1>2, <2>2
<1>3. ASSUME NEW p \in Places PROVE G[p] \notin A
  BY <1>3 DEF Once
<1> QED  BY <1>1, <1>2, <1>3 DEF Once

\* Everything stays where it is or is lost.
LEMMA Stayed ==
    ASSUME NEW H, NEW G, NEW T, NEW A, Once(H, T, A),
           \A p \in Places : G[p] \in {None, H[p]}, None \notin A
    PROVE  Once(G, T, A)
<1> DEFINE m == [p \in Places |-> p]
<1>1. \A p \in Places : m[p] = p  OBVIOUS
<1> HIDE DEF m
<1>2. \A p \in Places : G[p] # None => m[p] \in Places /\ G[p] = H[m[p]]  BY <1>1
<1>3. \A p, q \in Places : G[p] # None /\ G[q] # None /\ m[p] = m[q] => p = q  BY <1>1
<1> QED  BY <1>2, <1>3, Moved

\* What was at b is at a afterwards.
LEMMA OneMoved ==
    ASSUME NEW H, NEW G, NEW T, NEW A, Once(H, T, A), NEW a \in Places, NEW b \in Places,
           \A p \in Places : p # a => G[p] \in {None, H[p]}, G[a] \in {None, H[b]},
           a # b => G[b] = None, None \notin A
    PROVE  Once(G, T, A)
<1> DEFINE m == [p \in Places |-> IF p = a THEN b ELSE p]
<1>1. \A p \in Places : m[p] = IF p = a THEN b ELSE p  OBVIOUS
<1> HIDE DEF m
<1>2. \A p \in Places : G[p] # None => m[p] \in Places /\ G[p] = H[m[p]]  BY <1>1
<1>3. \A p, q \in Places : G[p] # None /\ G[q] # None /\ m[p] = m[q] => p = q  BY <1>1
<1> QED  BY <1>2, <1>3, Moved

\* A window that was never taken before comes to a place.
LEMMA OneTaken ==
    ASSUME NEW H, NEW G, NEW T, NEW A, Once(H, T, A), NEW a \in Places, NEW w,
           \A p \in Places : p # a => G[p] \in {None, H[p]}, G[a] = w,
           w # None, w \notin T, w # EarlierFrame, A \subseteq T, None \notin A
    PROVE  Once(G, T \cup {w}, A)
<1>1. \A p \in Places : p # a => G[p] # w  BY DEF Once
<1>2. \A p, q \in Places : G[p] # None /\ G[p] = G[q] /\ G[p].task = Task => p = q
  <2> SUFFICES ASSUME NEW p \in Places, NEW q \in Places, G[p] # None, G[p] = G[q], G[p].task = Task
               PROVE  p = q
    OBVIOUS
  <2>1. CASE p = a \/ q = a  BY <1>1, <2>1
  <2>2. CASE p # a /\ q # a  BY <2>2 DEF Once
  <2> QED  BY <2>1, <2>2
<1> QED  BY <1>2 DEF Once

\* A window that is accepted is held no more.
LEMMA OneAccepted ==
    ASSUME NEW H, NEW G, NEW T, NEW A, Once(H, T, A), NEW a \in Places,
           \A p \in Places : p # a => G[p] \in {None, H[p]}, G[a] = None,
           H[a] # None, H[a].task = Task, None \notin A
    PROVE  Once(G, T, A \cup {H[a]})
<1>1. ASSUME NEW p \in Places PROVE G[p] \notin A \cup {H[a]}
  <2>1. CASE p = a  BY <2>1
  <2>2. CASE p # a /\ G[p] = None  BY <2>2
  <2>3. CASE p # a /\ G[p] = H[p] /\ G[p] # None  BY <2>3 DEF Once
  <2> QED  BY <2>1, <2>2, <2>3
<1>2. Once(G, T, A)  BY Stayed
<1> QED  BY <1>1, <1>2 DEF Once

\* The places, and what they hold now and next.
LEMMA PlaceCases ==
    /\ \A p \in Places : \/ p \in {"tick", "stop", "latest", "sender", "worker"} \X {0}
                         \/ \E i \in Nat : p = <<"wire", i>>
                         \/ \E g \in Nat : p = <<"slot", g>>
    /\ {<<"tick", 0>>, <<"stop", 0>>, <<"latest", 0>>, <<"sender", 0>>, <<"worker", 0>>} \subseteq Places
    /\ \A i \in Nat : <<"wire", i>> \in Places /\ <<"slot", i>> \in Places
BY DEF Places

\* What each place holds.
LEMMA HeldNow ==
    /\ Held(<<"tick", 0>>) = reporter.tick /\ Held(<<"stop", 0>>) = reporter.stop
    /\ Held(<<"latest", 0>>) = FrameWindow(latest.stress)
    /\ Held(<<"sender", 0>>) = FrameWindow(sender.stress)
    /\ Held(<<"worker", 0>>) = WorkerWindow
    /\ \A i : Held(<<"wire", i>>) = WireWindow(i)
    /\ \A g : Held(<<"slot", g>>) = SlotWindow(<<g, "stress">>)
BY DEF Held

\* What each place holds after a step.
LEMMA HeldNext ==
    /\ Held(<<"tick", 0>>)' = reporter'.tick /\ Held(<<"stop", 0>>)' = reporter'.stop
    /\ Held(<<"latest", 0>>)' = FrameWindow(latest'.stress)
    /\ Held(<<"sender", 0>>)' = FrameWindow(sender'.stress)
    /\ Held(<<"worker", 0>>)' = WorkerWindow'
    /\ \A i : Held(<<"wire", i>>)' = WireWindow(i)'
    /\ \A g : Held(<<"slot", g>>)' = SlotWindow(<<g, "stress">>)'
BY DEF Held, FrameWindow

\* Two states whose places hold the same but for one kind of place.
LEMMA HoldingNow ==
    /\ \A p \in Places : Holding[p] = Held(p)
    /\ \A p \in Places : Holding'[p] = Held(p)'
BY DEF Holding

\* The invariant of the places, through the function Holding.
LEMMA HeldOnceParts ==
    HeldOnce <=> /\ Once(Holding, ghost.taken, ghost.accepted)
                 /\ ghost.accepted \subseteq ghost.taken
                 /\ worker.at = "append" => worker.env.payload.window \in ghost.accepted
BY DEF HeldOnce, Once, Holding

\* A place keeps what it holds when its part of the state stays as it is.
LEMMA Unmoved ==
    ASSUME NEW p \in Places
    PROVE  /\ p[1] \in {"tick", "stop", "latest", "sender", "wire", "slot", "worker"}
           /\ p[1] \notin {"wire", "slot"} => p = <<p[1], 0>>
           /\ p[1] \in {"wire", "slot"} => p[2] \in Nat /\ p = <<p[1], p[2]>>
           /\ p[1] \in {"tick", "stop"} /\ UNCHANGED <<reporter.tick, reporter.stop>> => Holding'[p] = Holding[p]
           /\ p[1] = "latest" /\ UNCHANGED latest.stress => Holding'[p] = Holding[p]
           /\ p[1] = "sender" /\ UNCHANGED sender.stress => Holding'[p] = Holding[p]
           /\ p[1] = "wire" /\ UNCHANGED wire => Holding'[p] = Holding[p]
           /\ p[1] = "wire" /\ wire' = <<>> => Holding'[p] = None
           /\ p[1] = "slot" /\ UNCHANGED ingestor.slots => Holding'[p] = Holding[p]
           /\ p[1] = "worker" /\ UNCHANGED worker => Holding'[p] = Holding[p]
<1>0. Holding[p] = Held(p) /\ Holding'[p] = Held(p)'  BY HoldingNow
<1>1. CASE p \in {"tick", "stop", "latest", "sender", "worker"} \X {0}
  <2>1. p \in {<<"tick", 0>>, <<"stop", 0>>, <<"latest", 0>>, <<"sender", 0>>, <<"worker", 0>>}
    BY <1>1
  <2> QED  BY <1>0, <2>1, HeldNow, HeldNext DEF FrameWindow, WorkerWindow
<1>2. CASE \E i \in Nat : p = <<"wire", i>>
  <2>1. PICK i \in Nat : p = <<"wire", i>>  BY <1>2
  <2>2. Holding[p] = WireWindow(i) /\ Holding'[p] = WireWindow(i)'  BY <1>0, <2>1, HeldNow, HeldNext
  <2>3. UNCHANGED wire => WireWindow(i)' = WireWindow(i)  BY DEF WireWindow, EnvelopeWindow
  <2>4. wire' = <<>> => WireWindow(i)' = None  BY DEF WireWindow
  <2> QED  BY <2>1, <2>2, <2>3, <2>4
<1>3. CASE \E g \in Nat : p = <<"slot", g>>
  <2>1. PICK g \in Nat : p = <<"slot", g>>  BY <1>3
  <2>2. Holding[p] = SlotWindow(<<g, "stress">>) /\ Holding'[p] = SlotWindow(<<g, "stress">>)'
    BY <1>0, <2>1, HeldNow, HeldNext
  <2>3. UNCHANGED ingestor.slots => SlotWindow(<<g, "stress">>)' = SlotWindow(<<g, "stress">>)
    BY DEF SlotWindow, EnvelopeWindow
  <2> QED  BY <2>1, <2>2, <2>3
<1> QED  BY <1>1, <1>2, <1>3, PlaceCases

\* Only these steps move a frame.
LEMMA PlaceSteps ==
    ASSUME TypeInv, Queued, [Next]_vars
    PROVE  \/ /\ UNCHANGED <<reporter.tick, reporter.stop, latest.stress, sender.stress, wire,
                             ingestor.slots, worker, ghost.taken, ghost.accepted>>
              /\ UNCHANGED <<latest.stressTask, latest.stressDrops>>
              /\ UNCHANGED sender.generation \/ Reconnect
              /\ store'.state \in {store.state, None}
           \/ Tick \/ StopFlush \/ Offer("tick") \/ Offer("stop") \/ Take \/ Send("stress") \/ Send("system")
           \/ SendFails \/ BreakStream \/ Receive \/ Dequeue \/ Commit \/ AppendPending
<1> DEFINE Quiet == /\ UNCHANGED <<reporter.tick, reporter.stop, latest.stress, sender.stress, wire,
                                   ingestor.slots, worker, ghost.taken, ghost.accepted>>
                    /\ UNCHANGED <<latest.stressTask, latest.stressDrops>>
                    /\ UNCHANGED sender.generation \/ Reconnect
                    /\ store'.state \in {store.state, None}
<1> /\ reporter \in ReporterType /\ ghost \in GhostType /\ latest \in LatestType /\ sender \in SenderType
    /\ IngestorTyped(ingestor) /\ store \in StoreType
  BY DEF TypeInv, AgentTypes, AdminTypes
<1>1. ASSUME NEW r \in Recorders, RecordAction(r) \/ RecordWindow(r) PROVE Quiet
  BY <1>1 DEF RecordAction, RecordWindow, adminVars, streamVars
<1>2. CASE RunReset \/ StartSampler \/ TaskEnds \/ PeekNothing \/ LoopExit \/ FinalFlush
  BY <1>2 DEF RunReset, StartSampler, TaskEnds, PeekNothing, LoopExit, FinalFlush,
     agentVars, adminVars, streamVars
<1>3. CASE StopReporter \/ ReporterExit
  BY <1>3 DEF StopReporter, ReporterExit, ReporterType, adminVars, streamVars
<1>4. CASE StageReset \/ MarkTaskTerminal \/ DropTask
  <2>1. ghost'.taken = ghost.taken /\ ghost'.accepted = ghost.accepted
    BY <1>4 DEF StageReset, MarkTaskTerminal, DropTask, GhostType
  <2>2. store'.state \in {store.state, None}
    BY <1>4 DEF StageReset, MarkTaskTerminal, DropTask, CleanupTerminal, Released, StoreType, adminVars
  <2> QED  BY <1>4, <2>1, <2>2 DEF StageReset, MarkTaskTerminal, DropTask, agentVars, adminVars, streamVars
<1>5. CASE OfferSystem
  <2>1. latest'.stress = latest.stress /\ latest'.stressTask = latest.stressTask
        /\ latest'.stressDrops = latest.stressDrops
    BY <1>5 DEF OfferSystem, LatestType
  <2> QED  BY <1>5, <2>1 DEF OfferSystem, agentVars, adminVars
<1>6. CASE SendLoopCanceled
  BY <1>6 DEF SendLoopCanceled, SenderType, agentVars, adminVars
<1>7. CASE Reconnect
  <2>1. ingestor'.slots = ingestor.slots  BY <1>7 DEF Reconnect, IngestorTyped
  <2>2. sender'.stress = sender.stress  BY <1>7 DEF Reconnect, SenderType
  <2> QED  BY <1>7, <2>1, <2>2 DEF Reconnect, agentVars
<1>8. ASSUME NEW g, EndGeneration(g) PROVE Quiet
  <2>1. ingestor'.slots = ingestor.slots  BY <1>8, DropEffect DEF EndGeneration, Queued
  <2>2. sender'.stress = sender.stress /\ sender'.generation = sender.generation
    BY <1>8 DEF EndGeneration, SenderType
  <2> QED  BY <1>8, <2>1, <2>2 DEF EndGeneration, agentVars
<1>9. ASSUME NEW who \in Both, Peek(who) \/ Save(who) \/ SaveFails(who) PROVE Quiet
  <2>1. store'.state = store.state
    BY <1>9 DEF Peek, Save, SaveFails, PeekHistory, StoreType, adminVars
  <2> QED  BY <1>9, <2>1 DEF Peek, Save, SaveFails, agentVars, streamVars, adminVars
<1>10. ASSUME NEW who \in Both, Confirm(who) PROVE Quiet
  <2>1. ghost'.taken = ghost.taken /\ ghost'.accepted = ghost.accepted
    BY <1>10 DEF Confirm, GhostType
  <2>2. store'.state \in {store.state, None}
    BY <1>10 DEF Confirm, AckHistory, CleanupTerminal, Released, StoreType
  <2> QED  BY <1>10, <2>1, <2>2 DEF Confirm, agentVars, streamVars
<1>11. CASE UNCHANGED vars
  BY <1>11 DEF vars, agentVars, streamVars, adminVars
<1> QED
  BY <1>1, <1>2, <1>3, <1>4, <1>5, <1>6, <1>7, <1>8, <1>9, <1>10, <1>11 DEF Next, Environment, Goroutines

\* The places of one kind each, and what they hold now and next.
LEMMA OnePlace ==
    /\ \A k \in {"tick", "stop", "latest", "sender", "worker"} : <<k, 0>> \in Places
    /\ \A k \in {"wire", "slot"}, i \in Nat : <<k, i>> \in Places
    /\ Holding[<<"tick", 0>>] = reporter.tick /\ Holding[<<"stop", 0>>] = reporter.stop
    /\ Holding[<<"latest", 0>>] = FrameWindow(latest.stress)
    /\ Holding[<<"sender", 0>>] = FrameWindow(sender.stress)
    /\ Holding[<<"worker", 0>>] = WorkerWindow
    /\ \A i \in Nat : Holding[<<"wire", i>>] = WireWindow(i)
    /\ \A g \in Nat : Holding[<<"slot", g>>] = SlotWindow(<<g, "stress">>)
    /\ Holding'[<<"tick", 0>>] = reporter'.tick /\ Holding'[<<"stop", 0>>] = reporter'.stop
    /\ Holding'[<<"latest", 0>>] = FrameWindow(latest'.stress)
    /\ Holding'[<<"sender", 0>>] = FrameWindow(sender'.stress)
    /\ Holding'[<<"worker", 0>>] = WorkerWindow'
    /\ \A i \in Nat : Holding'[<<"wire", i>>] = WireWindow(i)'
    /\ \A g \in Nat : Holding'[<<"slot", g>>] = SlotWindow(<<g, "stress">>)'
<1>1. \A k \in {"tick", "stop", "latest", "sender", "worker"} : <<k, 0>> \in Places  BY PlaceCases
<1>2. \A k \in {"wire", "slot"}, i \in Nat : <<k, i>> \in Places  BY PlaceCases
<1> QED  BY <1>1, <1>2, HoldingNow, HeldNow, HeldNext

\* What is held is no accepted window, and nothing is none of them.
LEMMA NotAccepted ==
    ASSUME TypeInv, HeldOnce
    PROVE  /\ None \notin ghost.accepted /\ None \notin ghost.taken
           /\ ghost.accepted \subseteq ghost.taken
           /\ Once(Holding, ghost.taken, ghost.accepted)
BY HeldOnceParts, NoneIsNothing DEF TypeInv, AdminTypes, GhostType

\* The frame that is in the slot when sent frames come back, and its drops.
LEMMA RestoreEffect ==
    ASSUME NEW l \in LatestType, NEW f \in FrameType \cup {None}, NEW y
    PROVE  LET r == Restore(l, f, y)
               drop == f # None /\ l.stress # None /\ l.stress.window.task = f.window.task
           IN  /\ FrameWindow(r.stress) \in {FrameWindow(f), FrameWindow(l.stress)}
               /\ r.stressTask = l.stressTask
               /\ r.stressDrops = l.stressDrops + (IF drop THEN 1 ELSE 0)
               /\ l.stress = None => r.stress = f
               /\ l.stress # None /\ ~ drop => r.stress = l.stress
               /\ drop => r.stress = [window |-> l.stress.window, dropped |-> l.stressDrops + 1]
<1> DEFINE drop == f # None /\ l.stress # None /\ l.stress.window.task = f.window.task
           s == IF f # None /\ l.stress = None THEN f
                ELSE IF drop THEN [l.stress EXCEPT !.dropped = l.stressDrops + 1] ELSE l.stress
           r == Restore(l, f, y)
<1>1. r.stress = s  BY DEF Restore, LatestType
<1>2. r.stressTask = l.stressTask /\ r.stressDrops = l.stressDrops + (IF drop THEN 1 ELSE 0)
  BY DEF Restore, LatestType
<1>3. drop => s = [window |-> l.stress.window, dropped |-> l.stressDrops + 1]
  BY DEF LatestType, FrameType
<1>4. [window |-> l.stress.window, dropped |-> l.stressDrops + 1] # None  BY DEF None
<1>5. FrameWindow(s) \in {FrameWindow(f), FrameWindow(l.stress)}
  BY <1>3, <1>4 DEF FrameWindow
<1> HIDE DEF r
<1>6. l.stress = None => s = f  OBVIOUS
<1>7. l.stress # None /\ ~ drop => s = l.stress  OBVIOUS
<1> HIDE DEF s
<1> QED  BY <1>1, <1>2, <1>3, <1>5, <1>6, <1>7 DEF r

\* A window that is taken is new, and with its reporter.
LEMMA TakeWindowHeld ==
    ASSUME PipelineAssumption, TypeInv, CountInv, HeldOnce, Tick \/ StopFlush
    PROVE  Once(Holding', ghost'.taken, ghost'.accepted)
<1>0. reporter \in ReporterType /\ ghost \in GhostType
      /\ \A v \in ghost.taken : v.seq \in Nat
  BY WindowFields DEF TypeInv, AgentTypes, AdminTypes, GhostType
<1>1. UNCHANGED <<latest, sender, wire, ingestor, worker>>
      /\ ghost'.taken = ghost.taken \cup {Taken} /\ ghost'.accepted = ghost.accepted
      /\ Taken.task = Task /\ Taken.seq = reporter.next /\ Taken \in WindowType
  BY <1>0, TakeWindowEffect DEF GhostType
<1>2. \A v \in ghost.taken : v.seq # reporter.next
  BY <1>0 DEF CountInv, TakenInOrder, ReporterType
<1>3. Taken \notin ghost.taken  BY <1>1, <1>2
<1>4. Taken # EarlierFrame /\ Taken # None
  BY <1>1, NoneIsNothing DEF EarlierFrame, Earlier, Task
<1>5. ASSUME NEW who \in {"tick", "stop"}, reporter' = [reporter EXCEPT !.next = @ + 1, ![who] = Taken,
                        !.ticks = IF who = "tick" THEN @ + 1 ELSE @]
      PROVE  Once(Holding', ghost'.taken, ghost'.accepted)
  <2> DEFINE a == <<who, 0>>
  <2>1. reporter'[who] = Taken /\ \A k \in {"tick", "stop"} : k # who => reporter'[k] = reporter[k]
    BY <1>0, <1>5 DEF ReporterType
  <2>2. a \in Places /\ Holding'[a] = Taken
    BY <2>1, OnePlace
  <2>3. ASSUME NEW p \in Places, p # a PROVE Holding'[p] \in {None, Holding[p]}
    <3>1. CASE p[1] \in {"tick", "stop"}
      BY <2>1, <2>3, <3>1, Unmoved, OnePlace
    <3>2. CASE p[1] \notin {"tick", "stop"}
      <4>1. UNCHANGED <<latest.stress, sender.stress, wire, ingestor.slots, worker>>  BY <1>1
      <4> QED  BY <3>2, <4>1, Unmoved
    <3> QED  BY <3>1, <3>2
  <2> HIDE DEF a
  <2>4. Once(Holding, ghost.taken, ghost.accepted) /\ ghost.accepted \subseteq ghost.taken
        /\ None \notin ghost.accepted
    BY NotAccepted
  <2>5. Once(Holding', ghost.taken \cup {Taken}, ghost.accepted)
    BY <1>3, <1>4, <2>2, <2>3, <2>4, OneTaken
  <2> QED  BY <1>1, <2>5
<1> QED  BY <1>5 DEF Tick, StopFlush, TakeWindow

\* A window goes from its reporter into the slot, where it replaces another.
LEMMA OfferHeld ==
    ASSUME TypeInv, HeldOnce, NEW who \in {"tick", "stop"}, Offer(who)
    PROVE  Once(Holding', ghost.taken, ghost.accepted)
<1> DEFINE a == <<"latest", 0>>
           b == <<who, 0>>
<1>0. reporter \in ReporterType /\ latest \in LatestType  BY DEF TypeInv, AgentTypes
<1>1. UNCHANGED <<sender, wire, ingestor, worker>>
      /\ reporter' = [reporter EXCEPT ![who] = None] /\ latest' = OfferStress(latest, reporter[who])
      /\ reporter[who] # None
  BY DEF Offer, adminVars
<1>2. reporter'[who] = None /\ \A k \in {"tick", "stop"} : k # who => reporter'[k] = reporter[k]
  BY <1>0, <1>1 DEF ReporterType
<1>3. latest'.stress # None /\ latest'.stress.window = reporter[who]
  <2>1. \E n : latest'.stress = [window |-> reporter[who], dropped |-> n]
    BY <1>0, <1>1 DEF OfferStress, LatestType
  <2> QED  BY <2>1 DEF None
<1>4. a \in Places /\ b \in Places /\ a # b /\ Holding'[a] = Holding[b] /\ Holding'[b] = None
  BY <1>2, <1>3, OnePlace DEF FrameWindow
<1>5. ASSUME NEW p \in Places, p # a PROVE Holding'[p] \in {None, Holding[p]}
  <2>1. CASE p[1] \in {"tick", "stop"}
    BY <1>2, <2>1, Unmoved, OnePlace
  <2>2. CASE p[1] \notin {"tick", "stop"}
    <3>1. UNCHANGED <<sender.stress, wire, ingestor.slots, worker>>  BY <1>1
    <3> QED  BY <1>5, <2>2, <3>1, Unmoved
  <2> QED  BY <2>1, <2>2
<1> HIDE DEF a, b
<1> QED  BY <1>4, <1>5, NotAccepted, OneMoved

\* The loop takes the slot over.
LEMMA TakeHeld ==
    ASSUME TypeInv, HeldOnce, Take
    PROVE  Once(Holding', ghost.taken, ghost.accepted)
<1> DEFINE a == <<"sender", 0>>
           b == <<"latest", 0>>
<1>0. sender \in SenderType /\ latest \in LatestType  BY DEF TypeInv, AgentTypes
<1>1. UNCHANGED <<reporter, wire, ingestor, worker>>
      /\ sender'.stress = latest.stress /\ latest'.stress = None
  BY <1>0 DEF Take, agentVars, adminVars, SenderType, LatestType
<1>2. a \in Places /\ b \in Places /\ a # b /\ Holding'[a] = Holding[b] /\ Holding'[b] = None
  BY <1>1, OnePlace DEF FrameWindow
<1>3. ASSUME NEW p \in Places, p # a PROVE Holding'[p] \in {None, Holding[p]}
  <2>1. UNCHANGED <<reporter.tick, reporter.stop, wire, ingestor.slots, worker>>  BY <1>1
  <2> QED  BY <1>2, <1>3, <2>1, Unmoved
<1> HIDE DEF a, b
<1> QED  BY <1>2, <1>3, NotAccepted, OneMoved

\* A frame goes from the loop to the end of the wire.
LEMMA SendHeld ==
    ASSUME TypeInv, SenderHolds, HeldOnce, NEW k \in Kinds, Send(k)
    PROVE  Once(Holding', ghost.taken, ghost.accepted)
<1> DEFINE a == <<"wire", Len(wire) + 1>>
           b == <<"sender", 0>>
           e == Envelope(k, sender[k])
<1>0. sender \in SenderType /\ wire \in Seq(EnvelopeType)  BY DEF TypeInv, AgentTypes
<1>1. UNCHANGED <<reporter, latest, ingestor, worker>> /\ wire' = Append(wire, e)
  BY DEF Send, agentVars, adminVars
<1>2. /\ DOMAIN wire' = 1..(Len(wire) + 1) /\ Len(wire) \in Nat /\ DOMAIN wire = 1..Len(wire)
      /\ \A i \in 1..Len(wire) : wire'[i] = wire[i]
      /\ wire'[Len(wire) + 1] = e
  BY <1>0, <1>1
<1>3. a \in Places /\ b \in Places /\ a # b  BY <1>2, OnePlace
<1>4. ASSUME NEW i \in Nat, i # Len(wire) + 1 PROVE WireWindow(i)' = WireWindow(i)
  <2>1. i \in DOMAIN wire' <=> i \in DOMAIN wire  BY <1>2, <1>4
  <2>2. i \in DOMAIN wire => wire'[i] = wire[i]  BY <1>2
  <2> QED  BY <2>1, <2>2 DEF WireWindow
<1>5. ASSUME NEW p \in Places, p # a, p[1] # "sender" PROVE Holding'[p] = Holding[p]
  <2>1. UNCHANGED <<reporter.tick, reporter.stop, latest.stress, ingestor.slots, worker>>  BY <1>1
  <2>2. CASE p[1] = "wire"
    <3>1. p[2] \in Nat /\ p = <<"wire", p[2]>>  BY <2>2, Unmoved
    <3>2. p[2] # Len(wire) + 1  BY <1>5, <3>1
    <3>3. Holding'[p] = WireWindow(p[2])' /\ Holding[p] = WireWindow(p[2])  BY <3>1, OnePlace
    <3> QED  BY <1>4, <3>1, <3>2, <3>3
  <2>3. CASE p[1] # "wire"  BY <1>5, <2>1, <2>3, Unmoved
  <2> QED  BY <2>2, <2>3
<1>6. Holding'[a] = EnvelopeWindow(e)
  <2>1. PICK n \in Nat : n = Len(wire) + 1  BY <1>2
  <2>2. n \in DOMAIN wire' /\ wire'[n] = e  BY <1>2, <2>1
  <2>3. Holding'[a] = WireWindow(n)'  BY <2>1, OnePlace
  <2> QED  BY <2>2, <2>3 DEF WireWindow, EnvelopeWindow
<1>7. CASE k = "stress"
  <2>1. sender.stress # None  BY <1>7 DEF Send, SenderHolds
  <2>2. EnvelopeWindow(e) = sender.stress.window
    BY <1>7, <2>1 DEF EnvelopeWindow, Envelope, None
  <2>3. sender'.stress = None  BY <1>0, <1>7 DEF Send, SenderType
  <2>4. Holding'[b] = None /\ Holding[b] = sender.stress.window  BY <2>1, <2>3, OnePlace DEF FrameWindow
  <2>5. Holding'[a] = Holding[b]  BY <1>6, <2>2, <2>4
  <2>6. ASSUME NEW p \in Places, p # a PROVE Holding'[p] \in {None, Holding[p]}
    <3>1. p[1] = "sender" => p = b  BY Unmoved
    <3> QED  BY <1>5, <2>4, <2>6, <3>1
  <2> HIDE DEF a, b
  <2> QED  BY <1>3, <2>4, <2>5, <2>6, NotAccepted, OneMoved
<1>8. CASE k = "system"
  <2>1. EnvelopeWindow(e) = None  BY <1>8 DEF EnvelopeWindow, Envelope, None
  <2>2. sender'.stress = sender.stress  BY <1>0, <1>8 DEF Send, SenderType
  <2>3. ASSUME NEW p \in Places PROVE Holding'[p] \in {None, Holding[p]}
    <3>1. CASE p = a  BY <1>6, <2>1, <3>1
    <3>2. CASE p[1] = "sender"  BY <2>2, <3>2, Unmoved
    <3> QED  BY <1>5, <3>1, <3>2
  <2> QED  BY <2>3, NotAccepted, Stayed
<1> QED  BY <1>7, <1>8 DEF Kinds

\* What is restored keeps its window; the newer frame stays.
LEMMA SendFailsHeld ==
    ASSUME TypeInv, HeldOnce, SendFails
    PROVE  Once(Holding', ghost.taken, ghost.accepted)
<1> DEFINE a == <<"latest", 0>>
           b == <<"sender", 0>>
<1>0. sender \in SenderType /\ latest \in LatestType  BY DEF TypeInv, AgentTypes
<1>1. UNCHANGED <<reporter, wire, ingestor, worker>>
      /\ sender'.stress = None /\ latest' = Restore(latest, sender.stress, sender.system)
  BY <1>0 DEF SendFails, agentVars, adminVars, SenderType
<1>2. FrameWindow(latest'.stress) \in {FrameWindow(sender.stress), FrameWindow(latest.stress)}
  <2>1. sender.stress \in FrameType \cup {None}  BY <1>0 DEF SenderType
  <2> DEFINE r == Restore(latest, sender.stress, sender.system)
  <2>2. FrameWindow(r.stress) \in {FrameWindow(sender.stress), FrameWindow(latest.stress)}
    BY <1>0, <2>1, RestoreEffect
  <2> QED  BY <1>1, <2>2
<1>3. a \in Places /\ b \in Places /\ a # b /\ Holding'[b] = None
      /\ Holding'[a] \in {Holding[a], Holding[b]}
  BY <1>1, <1>2, OnePlace DEF FrameWindow
<1>4. ASSUME NEW p \in Places, p # a PROVE Holding'[p] \in {None, Holding[p]}
  <2>1. UNCHANGED <<reporter.tick, reporter.stop, wire, ingestor.slots, worker>>  BY <1>1
  <2> QED  BY <1>3, <1>4, <2>1, Unmoved
<1> HIDE DEF a, b
<1>5. CASE Holding'[a] = Holding[b]  BY <1>3, <1>4, <1>5, NotAccepted, OneMoved
<1>6. CASE Holding'[a] = Holding[a]
  <2>1. \A p \in Places : Holding'[p] \in {None, Holding[p]}  BY <1>4, <1>6
  <2> QED  BY <2>1, NotAccepted, Stayed
<1> QED  BY <1>3, <1>5, <1>6

\* What is on a wire that breaks is lost.
LEMMA BreakStreamHeld ==
    ASSUME TypeInv, HeldOnce, BreakStream
    PROVE  Once(Holding', ghost.taken, ghost.accepted)
<1>0. sender \in SenderType  BY DEF TypeInv, AgentTypes
<1>1. UNCHANGED <<reporter, latest, ingestor, worker>> /\ sender'.stress = sender.stress /\ wire' = <<>>
  BY <1>0 DEF BreakStream, agentVars, adminVars, SenderType
<1>2. ASSUME NEW p \in Places PROVE Holding'[p] \in {None, Holding[p]}
  BY <1>1, Unmoved
<1> QED  BY <1>2, NotAccepted, Stayed

\* An envelope goes from the wire into its slot, or the wire is cut.
LEMMA ReceiveHeld ==
    ASSUME PipelineAssumption, TypeInv, Queued, HeldOnce, Receive
    PROVE  Once(Holding', ghost.taken, ghost.accepted)
<1> DEFINE e == Head(wire)
           k == <<e.generation, e.kind>>
<1>0. sender \in SenderType /\ wire \in Seq(EnvelopeType)  BY DEF TypeInv, AgentTypes
<1>1. UNCHANGED <<reporter, latest, worker>> /\ wire # <<>>  BY DEF Receive, agentVars
<1>2. CASE ingestor'.slots = ingestor.slots /\ wire' = <<>> /\ sender' = [sender EXCEPT !.up = FALSE]
  <2>1. sender'.stress = sender.stress  BY <1>0, <1>2 DEF SenderType
  <2>2. ASSUME NEW p \in Places PROVE Holding'[p] \in {None, Holding[p]}
    BY <1>1, <1>2, <2>1, Unmoved
  <2> QED  BY <2>2, NotAccepted, Stayed
<1>3. CASE /\ wire' = Tail(wire) /\ UNCHANGED sender
           /\ ingestor'.slots = Changed(ingestor.slots, k, [env |-> e, queued |-> TRUE])
  <2>0. PICK gen \in Nat, kind \in {"stress", "system"} : gen = e.generation /\ kind = e.kind
    BY ReceiveEffect DEF EnvelopeType
  <2> DEFINE a == <<"slot", gen>>
             m == [p \in Places |-> IF kind = "stress" /\ p = a THEN <<"wire", 1>>
                                    ELSE IF p[1] = "wire" THEN <<"wire", p[2] + 1>> ELSE p]
  <2>1. e \in EnvelopeType /\ wire[1] = e /\ 1 \in DOMAIN wire /\ e.generation \in Nat
        /\ (e.kind \in {"stress", "system"}) /\ e # None
    <3>1. e \in EnvelopeType /\ wire[1] = e /\ 1 \in DOMAIN wire  BY ReceiveEffect
    <3>2. e # None  BY <3>1, NoneIsNothing
    <3> QED  BY <3>1, <3>2 DEF EnvelopeType
  <2>2. DOMAIN wire' = 1..(Len(wire) - 1) /\ Len(wire) \in Nat /\ DOMAIN wire = 1..Len(wire)
        /\ \A i \in 1..(Len(wire) - 1) : wire'[i] = wire[i + 1]
    BY <1>0, <1>1, <1>3, TailStays
  <2>3. ASSUME NEW i \in Nat PROVE i # 0 => WireWindow(i)' = WireWindow(i + 1)
    <3>1. i # 0 => (i \in DOMAIN wire' <=> i + 1 \in DOMAIN wire)  BY <2>2
    <3>2. i \in DOMAIN wire' => wire'[i] = wire[i + 1]  BY <2>2
    <3> QED  BY <3>1, <3>2 DEF WireWindow
  <2>4. WireWindow(0)' = None  BY <2>2 DEF WireWindow
  <2>5. WireWindow(1) = EnvelopeWindow(e)  BY <2>1 DEF WireWindow
  <2>6. /\ kind = "stress" => SlotWindow(<<gen, "stress">>)' = EnvelopeWindow(e)
        /\ \A g \in Nat : ~ (kind = "stress" /\ g = gen) =>
              SlotWindow(<<g, "stress">>)' = SlotWindow(<<g, "stress">>)
    <3> HIDE DEF e
    <3>1. DOMAIN ingestor'.slots = DOMAIN ingestor.slots \cup {k} /\ ingestor'.slots[k].env = e
          /\ \A x \in DOMAIN ingestor.slots \ {k} : ingestor'.slots[x] = ingestor.slots[x]
      BY <1>3 DEF Changed
    <3>2. k = <<gen, kind>>  BY <2>0 DEF e
    <3> HIDE DEF k
    <3> QED  BY <3>1, <3>2 DEF SlotWindow, EnvelopeWindow
  <2>7. ASSUME NEW p \in Places
        PROVE  m[p] = IF kind = "stress" /\ p = a THEN <<"wire", 1>>
                      ELSE IF p[1] = "wire" THEN <<"wire", p[2] + 1>> ELSE p
    OBVIOUS
  <2>11. a[1] = "slot" /\ a = <<"slot", gen>>  OBVIOUS
  <2> HIDE DEF e, m, a
  <2>8. ASSUME NEW p \in Places, Holding'[p] # None
        PROVE  m[p] \in Places /\ Holding'[p] = Holding[m[p]] /\ (p[1] = "wire" => p[2] # 0)
    <3>1. CASE p[1] = "wire"
      <4>1. p[2] \in Nat /\ p = <<"wire", p[2]>> /\ p[2] + 1 \in Nat  BY <3>1, Unmoved
      <4>2. m[p] = <<"wire", p[2] + 1>>  BY <2>7, <2>11, <3>1
      <4>3. Holding'[p] = WireWindow(p[2])' /\ Holding[m[p]] = WireWindow(p[2] + 1) /\ m[p] \in Places
        BY <4>1, <4>2, OnePlace
      <4>4. p[2] # 0  BY <2>4, <2>8, <4>3
      <4> QED  BY <2>3, <4>1, <4>3, <4>4
    <3>2. CASE kind = "stress" /\ p = a
      <4>1. m[p] = <<"wire", 1>> /\ <<"wire", 1>> \in Places /\ Holding[<<"wire", 1>>] = WireWindow(1)
        BY <2>7, <3>2, OnePlace
      <4>2. Holding'[p] = SlotWindow(<<gen, "stress">>)'  BY <2>11, <3>2, OnePlace
      <4> QED  BY <2>5, <2>6, <2>11, <3>2, <4>1, <4>2
    <3>3. CASE p[1] = "slot" /\ ~ (kind = "stress" /\ p = a)
      <4>1. p[2] \in Nat /\ p = <<"slot", p[2]>>  BY <3>3, Unmoved
      <4>2. Holding'[p] = SlotWindow(<<p[2], "stress">>)' /\ Holding[p] = SlotWindow(<<p[2], "stress">>)
        BY <4>1, OnePlace
      <4>3. ~ (kind = "stress" /\ p[2] = gen)  BY <2>11, <3>3, <4>1
      <4>4. m[p] = p  BY <2>7, <3>3
      <4> QED  BY <2>6, <3>3, <4>1, <4>2, <4>3, <4>4
    <3>4. CASE p[1] \notin {"wire", "slot"}
      <4>1. m[p] = p  BY <2>7, <2>11, <3>4
      <4>2. Holding'[p] = Holding[p]  BY <1>1, <1>3, <3>4, Unmoved
      <4> QED  BY <3>4, <4>1, <4>2
    <3> QED  BY <3>1, <3>2, <3>3, <3>4
  <2>9. ASSUME NEW p \in Places, NEW q \in Places, Holding'[p] # None, Holding'[q] # None, m[p] = m[q]
        PROVE  p = q
    <3>1. p[1] = "wire" => p[2] \in Nat /\ p[2] # 0 /\ p = <<"wire", p[2]>>  BY <2>8, <2>9, Unmoved
    <3>2. q[1] = "wire" => q[2] \in Nat /\ q[2] # 0 /\ q = <<"wire", q[2]>>  BY <2>8, <2>9, Unmoved
    <3>3. CASE p[1] = "wire" /\ q[1] = "wire"
      <4>1. m[p] = <<"wire", p[2] + 1>> /\ m[q] = <<"wire", q[2] + 1>>  BY <2>7, <2>11, <3>3
      <4>2. <<"wire", p[2] + 1>> = <<"wire", q[2] + 1>>  BY <2>9, <4>1
      <4>3. p[2] + 1 = q[2] + 1  BY <4>2
      <4> QED  BY <3>1, <3>2, <3>3, <4>3
    <3>4. CASE p[1] = "wire" /\ q[1] # "wire"
      <4>1. m[p] = <<"wire", p[2] + 1>> /\ (m[q] = <<"wire", 1>> \/ m[q] = q)  BY <2>7, <2>11, <3>4
      <4>2. p[2] + 1 # 1  BY <3>1, <3>4
      <4>3. m[q] # <<"wire", 1>>  BY <2>9, <4>1, <4>2
      <4> QED  BY <2>9, <3>4, <4>1, <4>3
    <3>5. CASE p[1] # "wire" /\ q[1] = "wire"
      <4>1. m[q] = <<"wire", q[2] + 1>> /\ (m[p] = <<"wire", 1>> \/ m[p] = p)  BY <2>7, <2>11, <3>5
      <4>2. q[2] + 1 # 1  BY <3>2, <3>5
      <4>3. m[p] # <<"wire", 1>>  BY <2>9, <4>1, <4>2
      <4> QED  BY <2>9, <3>5, <4>1, <4>3
    <3>6. CASE p[1] # "wire" /\ q[1] # "wire"
      BY <2>7, <2>9, <3>6
    <3> QED  BY <3>3, <3>4, <3>5, <3>6
  <2>10. None \notin ghost.accepted /\ Once(Holding, ghost.taken, ghost.accepted)  BY NotAccepted
  <2> QED  BY <2>8, <2>9, <2>10, Moved
<1> QED  BY <1>2, <1>3, ReceiveEffect

\* A slot that is emptied or removed holds nothing; the others stay.
LEMMA SlotLost ==
    ASSUME NEW k, NEW g \in Nat,
           \/ ingestor'.slots = ingestor.slots
           \/ ingestor'.slots = Removed(ingestor.slots, k)
           \/ /\ k \in DOMAIN ingestor.slots /\ ingestor.slots[k] \in SlotType
              /\ ingestor'.slots = Changed(ingestor.slots, k, [ingestor.slots[k] EXCEPT !.env = None])
    PROVE  /\ SlotWindow(<<g, "stress">>)' \in {None, SlotWindow(<<g, "stress">>)}
           /\ ingestor'.slots # ingestor.slots /\ k = <<g, "stress">> => SlotWindow(<<g, "stress">>)' = None
<1> DEFINE x == <<g, "stress">>
           s == ingestor.slots
           t == ingestor'.slots
<1>1. CASE t = s  BY <1>1 DEF SlotWindow, EnvelopeWindow
<1>2. CASE t = Removed(s, k)
  <2>1. DOMAIN t = DOMAIN s \ {k} /\ \A y \in DOMAIN t : t[y] = s[y]  BY <1>2 DEF Removed
  <2> HIDE DEF x
  <2>2. x \in DOMAIN t => x # k /\ x \in DOMAIN s /\ t[x] = s[x]  BY <2>1
  <2> QED  BY <2>2 DEF SlotWindow, x
<1>3. CASE /\ k \in DOMAIN s /\ s[k] \in SlotType /\ t = Changed(s, k, [s[k] EXCEPT !.env = None])
  <2>1. DOMAIN t = DOMAIN s /\ t[k] = [s[k] EXCEPT !.env = None] /\ \A y \in DOMAIN s \ {k} : t[y] = s[y]
    BY <1>3 DEF Changed
  <2>2. t[k].env = None  BY <1>3, <2>1 DEF SlotType
  <2> HIDE DEF x
  <2>3. x \in DOMAIN t <=> x \in DOMAIN s  BY <2>1
  <2>4. CASE x = k
    <3>1. EnvelopeWindow(t[x].env) = None  BY <2>2, <2>4 DEF EnvelopeWindow
    <3>2. SlotWindow(x)' = IF x \in DOMAIN t THEN EnvelopeWindow(t[x].env) ELSE None
      BY DEF SlotWindow, EnvelopeWindow, x
    <3> QED  BY <3>1, <3>2 DEF x
  <2>5. CASE x # k  BY <2>1, <2>3, <2>5 DEF SlotWindow, x
  <2> QED  BY <2>4, <2>5
<1> QED  BY <1>1, <1>2, <1>3

\* The worker takes a frame that counts out of its slot; another is dropped.
LEMMA DequeueHeld ==
    ASSUME TypeInv, Queued, Generations, HeldOnce, Dequeue
    PROVE  /\ Once(Holding', ghost.taken, ghost.accepted)
           /\ worker'.at # "append"
<1> DEFINE k == Head(ingestor.ready)
           env == ingestor.slots[k].env
<1>0. ingestor.ready # <<>> /\ UNCHANGED <<reporter, latest, sender, wire>>
  BY DEF Dequeue, agentVars, streamVars
<1>1. k \in DOMAIN ingestor.slots /\ env \in EnvelopeType /\ k \in Keys /\ ingestor.slots[k] \in SlotType
      /\ worker.at = "idle"
  BY <1>0, HeadOfQueue, DequeueEffect
<1>2. env # None /\ env.kind = k[2]
  BY <1>1, NoneIsNothing DEF Generations
<1> HIDE DEF k
<1>3. CASE UNCHANGED worker /\ ingestor'.slots = Removed(ingestor.slots, k)
  <2>1. ASSUME NEW p \in Places PROVE Holding'[p] \in {None, Holding[p]}
    <3>1. CASE p[1] = "slot"
      <4>1. p[2] \in Nat /\ p = <<"slot", p[2]>>  BY <3>1, Unmoved
      <4> QED  BY <1>3, <4>1, OnePlace, SlotLost
    <3>2. CASE p[1] # "slot"  BY <1>0, <1>3, <3>2, Unmoved
    <3> QED  BY <3>1, <3>2
  <2> QED  BY <1>1, <1>3, <2>1, NotAccepted, Stayed
<1>4. CASE /\ Counts(k, env) /\ worker' = [at |-> "commit", key |-> k, env |-> env]
           /\ ingestor'.slots = Changed(ingestor.slots, k, [ingestor.slots[k] EXCEPT !.env = None])
  <2>0. PICK g \in Nat : k = <<g, "stress">>
    BY <1>1, <1>4 DEF Counts, Keys
  <2> DEFINE a == <<"worker", 0>>
             b == <<"slot", g>>
  <2>1. env.kind = "stress"  BY <1>2, <2>0
  <2>2. Holding'[a] = env.payload.window
    <3>1. Holding'[a] = WorkerWindow'  BY OnePlace
    <3>2. worker'.at = "commit" /\ worker'.env = env  BY <1>4
    <3> HIDE DEF env
    <3> QED  BY <3>1, <3>2 DEF WorkerWindow
  <2>3. Holding[b] = env.payload.window
    <3>1. Holding[b] = SlotWindow(k)  BY <2>0, OnePlace
    <3> QED  BY <1>1, <1>2, <2>1, <3>1 DEF SlotWindow, EnvelopeWindow
  <2>4. ingestor'.slots # ingestor.slots
    <3>1. ingestor'.slots[k] = [ingestor.slots[k] EXCEPT !.env = None]  BY <1>1, <1>4 DEF Changed
    <3>2. ingestor'.slots[k].env = None  BY <1>1, <3>1 DEF SlotType
    <3> QED  BY <1>2, <3>2
  <2>5. Holding'[b] = None
    BY <1>1, <1>4, <2>0, <2>4, OnePlace, SlotLost
  <2>6. ASSUME NEW p \in Places, p # a PROVE Holding'[p] \in {None, Holding[p]}
    <3>1. CASE p[1] = "slot"
      <4>1. p[2] \in Nat /\ p = <<"slot", p[2]>>  BY <3>1, Unmoved
      <4> QED  BY <1>1, <1>4, <4>1, OnePlace, SlotLost
    <3>2. CASE p[1] = "worker"  BY <2>6, <3>2, Unmoved
    <3>3. CASE p[1] \notin {"slot", "worker"}  BY <1>0, <3>3, Unmoved
    <3> QED  BY <3>1, <3>2, <3>3
  <2>7. a \in Places /\ b \in Places /\ a # b  BY OnePlace
  <2>8. Once(Holding', ghost.taken, ghost.accepted)
    <3> HIDE DEF a, b
    <3> QED  BY <2>2, <2>3, <2>5, <2>6, <2>7, NotAccepted, OneMoved
  <2> QED  BY <1>4, <2>8
<1> QED  BY <1>3, <1>4, DequeueEffect DEF k

\* The worker gives its frame up.
LEMMA FinishedHeld ==
    ASSUME TypeInv, Queued, HeldOnce, worker.at # "idle", worker'.at = "idle", NEW err \in BOOLEAN,
           ingestor' = Finished(ingestor, worker.key, err), UNCHANGED <<reporter, latest, sender, wire>>
    PROVE  Once(Holding', ghost.taken, ghost.accepted)
<1>1. ingestor'.slots = ingestor.slots \/ ingestor'.slots = Removed(ingestor.slots, worker.key)
  BY FinishedHere DEF Queued
<1>2. ASSUME NEW p \in Places PROVE Holding'[p] \in {None, Holding[p]}
  <2>1. CASE p[1] = "slot"
    <3>1. p[2] \in Nat /\ p = <<"slot", p[2]>>  BY <2>1, Unmoved
    <3> QED  BY <1>1, <3>1, OnePlace, SlotLost
  <2>2. CASE p[1] = "worker"
    <3>1. p = <<"worker", 0>>  BY <2>2, Unmoved
    <3>2. Holding'[p] = WorkerWindow'  BY <3>1, OnePlace
    <3> QED  BY <3>2 DEF WorkerWindow
  <2>3. CASE p[1] \notin {"slot", "worker"}  BY <2>3, Unmoved
  <2> QED  BY <2>1, <2>2, <2>3
<1> QED  BY <1>2, NotAccepted, Stayed

\* The worker's window is accepted, or given up.
LEMMA CommitHeld ==
    ASSUME TypeInv, Queued, Generations, HeldOnce, Commit
    PROVE  HeldOnce'
<1> DEFINE w == worker.env.payload.window
           a == <<"worker", 0>>
<1>0. worker.at = "commit" /\ UNCHANGED <<reporter, latest, sender, wire>> /\ ghost \in GhostType
  BY DEF Commit, agentVars, streamVars, TypeInv, AdminTypes
<1>1. w \in WindowType /\ w # None /\ w.task = Task /\ Holding[a] = w /\ a \in Places
  BY <1>0, WorkerTyped, NoneIsNothing, OnePlace DEF WorkerWindow
<1>2. CASE Accepts
  <2>1. worker'.at = "append" /\ worker'.env = worker.env
    BY <1>0, <1>2, WorkerTyped DEF Accepts
  <2>2. UNCHANGED ingestor /\ ghost'.taken = ghost.taken /\ ghost'.accepted = ghost.accepted \cup {w}
    BY <1>0, <1>2 DEF Accepts, GhostType
  <2>3. Holding'[a] = None
    <3>1. Holding'[a] = WorkerWindow'  BY OnePlace
    <3> QED  BY <2>1, <3>1 DEF WorkerWindow
  <2>4. ASSUME NEW p \in Places, p # a PROVE Holding'[p] \in {None, Holding[p]}
    <3>1. CASE p[1] = "worker"  BY <2>4, <3>1, Unmoved
    <3>2. CASE p[1] # "worker"  BY <1>0, <2>2, <3>2, Unmoved
    <3> QED  BY <3>1, <3>2
  <2>5. Once(Holding', ghost.taken, ghost.accepted \cup {Holding[a]})
    <3> HIDE DEF a, w
    <3> QED  BY <1>1, <2>3, <2>4, NotAccepted, OneAccepted
  <2>6. w \in ghost.taken
    <3>1. w \in ghost.taken \cup {EarlierFrame}
      <4> HIDE DEF a, w
      <4> QED  BY <1>1, NotAccepted DEF Once
    <3>2. w # EarlierFrame  BY <1>1 DEF EarlierFrame, Earlier, Task
    <3> QED  BY <3>1, <3>2
  <2>7. ghost'.accepted \subseteq ghost'.taken  BY <2>2, <2>6, NotAccepted
  <2>8. Once(Holding', ghost'.taken, ghost'.accepted)  BY <1>1, <2>2, <2>5
  <2>9. worker'.env.payload.window \in ghost'.accepted  BY <2>1, <2>2
  <2> QED  BY <2>7, <2>8, <2>9 DEF HeldOnce, Once, Holding
<1>3. ASSUME NEW err \in BOOLEAN, Refuses(err),
             ghost'.taken = ghost.taken, ghost'.accepted = ghost.accepted
      PROVE  HeldOnce'
  <2>1. worker'.at = "idle" /\ ingestor' = Finished(ingestor, worker.key, err)  BY <1>3 DEF Refuses
  <2>2. Once(Holding', ghost.taken, ghost.accepted)  BY <1>0, <2>1, FinishedHeld
  <2>3. Once(Holding', ghost'.taken, ghost'.accepted) /\ ghost'.accepted \subseteq ghost'.taken
    BY <1>3, <2>2, NotAccepted
  <2> QED  BY <2>1, <2>3 DEF HeldOnce, Once, Holding
<1>4. ASSUME ghost' = [ghost EXCEPT !.alarm = @ \cup {w}] \/ UNCHANGED ghost
      PROVE  ghost'.taken = ghost.taken /\ ghost'.accepted = ghost.accepted
  BY <1>0, <1>4 DEF GhostType
<1> QED  BY <1>2, <1>3, <1>4, CommitEffect

\* The accepted window leaves the worker.
LEMMA AppendPendingHeld ==
    ASSUME TypeInv, Queued, HeldOnce, AppendPending
    PROVE  HeldOnce'
<1>0. ghost'.taken = ghost.taken /\ ghost'.accepted = ghost.accepted
  BY DEF AppendPending, GhostType, TypeInv, AdminTypes
<1>1. worker'.at = "idle" /\ worker.at # "idle" /\ ingestor' = Finished(ingestor, worker.key, FALSE)
      /\ UNCHANGED <<reporter, latest, sender, wire>>
  BY DEF AppendPending, agentVars, streamVars
<1>2. Once(Holding', ghost.taken, ghost.accepted)  BY <1>1, FinishedHeld
<1>3. Once(Holding', ghost'.taken, ghost'.accepted) /\ ghost'.accepted \subseteq ghost'.taken
  BY <1>0, <1>2, NotAccepted
<1> QED  BY <1>1, <1>3 DEF HeldOnce, Once, Holding

\* Wherever frames go and whatever is lost, a window is in one place.
LEMMA HeldOnceStep ==
    ASSUME PipelineAssumption, TypeInv, CountInv, SenderHolds, Generations, Queued, HeldOnce, [Next]_vars
    PROVE  HeldOnce'
<1> DEFINE Goal == /\ Once(Holding', ghost'.taken, ghost'.accepted) /\ ghost'.accepted \subseteq ghost'.taken
                   /\ worker'.at = "append" => worker'.env.payload.window \in ghost'.accepted
<1>0. ASSUME Goal PROVE HeldOnce'  BY <1>0 DEF HeldOnce, Once, Holding
<1>1. ASSUME Once(Holding', ghost.taken, ghost.accepted), UNCHANGED <<ghost.taken, ghost.accepted>>,
             worker'.at # "append" \/ UNCHANGED worker
      PROVE  Goal
  <2>1. worker.at = "append" => worker.env.payload.window \in ghost.accepted  BY DEF HeldOnce
  <2>2. worker'.at = "append" => worker'.env.payload.window \in ghost'.accepted  BY <1>1, <2>1
  <2>3. ghost'.accepted \subseteq ghost'.taken  BY <1>1, NotAccepted
  <2> QED  BY <1>1, <2>2, <2>3
<1>2. CASE UNCHANGED <<reporter.tick, reporter.stop, latest.stress, sender.stress, wire,
                       ingestor.slots, worker, ghost.taken, ghost.accepted>>
  <2>1. \A p \in Places : Holding'[p] \in {None, Holding[p]}  BY <1>2, Unmoved
  <2>2. Once(Holding', ghost.taken, ghost.accepted)  BY <2>1, NotAccepted, Stayed
  <2> QED  BY <1>0, <1>1, <1>2, <2>2
<1>3. CASE Tick \/ StopFlush
  <2>1. Once(Holding', ghost'.taken, ghost'.accepted)  BY <1>3, TakeWindowHeld
  <2>2. UNCHANGED worker /\ ghost'.accepted = ghost.accepted /\ ghost.taken \subseteq ghost'.taken
    BY <1>3, TakeWindowEffect DEF TypeInv, AdminTypes, GhostType
  <2>3. worker'.at = "append" => worker'.env.payload.window \in ghost'.accepted
    BY <2>2 DEF HeldOnce
  <2>4. ghost'.accepted \subseteq ghost'.taken  BY <2>2, NotAccepted
  <2> QED  BY <1>0, <2>1, <2>3, <2>4
<1>4. CASE Offer("tick") \/ Offer("stop")
  <2>0. PICK who \in {"tick", "stop"} : Offer(who)  BY <1>4
  <2>1. Once(Holding', ghost.taken, ghost.accepted)  BY <2>0, OfferHeld
  <2> QED  BY <1>0, <1>1, <2>0, <2>1 DEF Offer, adminVars
<1>5. CASE Take
  BY <1>0, <1>1, <1>5, TakeHeld DEF Take, adminVars
<1>6. CASE Send("stress") \/ Send("system")
  <2>0. PICK k \in Kinds : Send(k)  BY <1>6 DEF Kinds
  <2>1. Once(Holding', ghost.taken, ghost.accepted)  BY <2>0, SendHeld
  <2> QED  BY <1>0, <1>1, <2>0, <2>1 DEF Send, adminVars
<1>7. CASE SendFails
  BY <1>0, <1>1, <1>7, SendFailsHeld DEF SendFails, adminVars
<1>8. CASE BreakStream
  BY <1>0, <1>1, <1>8, BreakStreamHeld DEF BreakStream, adminVars
<1>9. CASE Receive
  BY <1>0, <1>1, <1>9, ReceiveHeld DEF Receive
<1>10. CASE Dequeue
  BY <1>0, <1>1, <1>10, DequeueHeld DEF Dequeue
<1> QED
  BY <1>2, <1>3, <1>4, <1>5, <1>6, <1>7, <1>8, <1>9, <1>10, CommitHeld, AppendPendingHeld, PlaceSteps
-----------------------------------------------------------------------------
(* Drop counts.                                                             *)

\* Counts that go, and counts that come to another place of the line.
LEMMA LineLoses ==
    ASSUME NEW S, NEW W, NEW I, NEW R, NEW N, NEW L, NEW o, NEW t, InLine(S, W, I, R, N, L, o, t),
           NEW S1 \in SUBSET S, NEW W1 \in SUBSET W, NEW I1 \in SUBSET I,
           NEW R1, \A i \in Nat : R1[i] \subseteq R[i], NEW N1 \in SUBSET N, NEW L1 \in SUBSET L
    PROVE  InLine(S1, W1, I1, R1, N1, L1, o, t)
BY DEF InLine, Before

\* The worker's frame is accepted.
LEMMA LineToStore ==
    ASSUME NEW S, NEW W, NEW I, NEW R, NEW N, NEW L, NEW o, NEW t, InLine(S, W, I, R, N, L, o, t)
    PROVE  InLine(W, {}, I, R, N, L, o, t)
BY DEF InLine, Before

\* The slot's frame is taken by the worker.
LEMMA LineToWorker ==
    ASSUME NEW S, NEW W, NEW I, NEW R, NEW N, NEW L, NEW o, NEW t, InLine(S, W, I, R, N, L, o, t)
    PROVE  InLine(S, I, {}, R, N, L, o, t)
BY DEF InLine, Before

\* The first of the wire comes to the slot, or is of the other kind.
LEMMA LineToSlot ==
    ASSUME NEW S, NEW W, NEW I, NEW R, NEW N, NEW L, NEW o, NEW t, InLine(S, W, I, R, N, L, o, t),
           NEW R1, R1[0] = {}, \A i \in Nat : i # 0 => R1[i] = R[i + 1]
    PROVE  InLine(S, W, R[1], R1, N, L, o, t) /\ InLine(S, W, I, R1, N, L, o, t)
<1> DEFINE m(i) == i + 1
<1>1. \A i \in Nat : m(i) \in Nat /\ (R1[i] = {} \/ R1[i] = R[m(i)])  OBVIOUS
<1>2. \A i \in Nat : R1[i] # {} => 1 < m(i)  OBVIOUS
<1>3. \A i, j \in Nat : i < j => m(i) < m(j)  OBVIOUS
<1> HIDE DEF m
<1>4. InLine(S, W, I, R1, N, L, o, t)
  <2>1. \A i \in Nat : /\ Before(S, R1[i]) /\ Before(W, R1[i]) /\ Before(I, R1[i])
                       /\ Before(R1[i], N) /\ Before(R1[i], L)
    BY <1>1 DEF InLine, Before
  <2>2. \A i, j \in Nat : i < j => Before(R1[i], R1[j])
    BY <1>1, <1>3 DEF InLine, Before
  <2>3. \A d : (\E i \in Nat : d \in R1[i]) => (\E i \in Nat : d \in R[i])
    BY <1>1
  <2> QED  BY <2>1, <2>2, <2>3 DEF InLine
<1>5. InLine(S, W, R[1], R1, N, L, o, t)
  <2>1. \A i \in Nat : Before(R[1], R1[i])
    <3> SUFFICES ASSUME NEW i \in Nat, R1[i] # {} PROVE Before(R[1], R1[i])
      BY DEF Before
    <3>1. 1 < m(i) /\ m(i) \in Nat /\ R1[i] = R[m(i)]  BY <1>1, <1>2
    <3> QED  BY <3>1 DEF InLine
  <2>2. Before(S, R[1]) /\ Before(W, R[1]) /\ Before(R[1], N) /\ Before(R[1], L)
    BY DEF InLine
  <2>3. \A d : d \in R[1] => \E i \in Nat : d \in R[i]  OBVIOUS
  <2> QED  BY <1>4, <2>1, <2>2, <2>3 DEF InLine
<1> QED  BY <1>4, <1>5

\* The loop's frame goes to the end of the wire.
LEMMA LineToWire ==
    ASSUME NEW S, NEW W, NEW I, NEW R, NEW N, NEW L, NEW o, NEW t, InLine(S, W, I, R, N, L, o, t),
           NEW n \in Nat, NEW R1, R1[n] = N, \A i \in Nat : i # n => R1[i] = R[i],
           \A i \in Nat : n <= i => R[i] = {}
    PROVE  InLine(S, W, I, R1, {}, L, o, t)
<1>1. \A i \in Nat : /\ Before(S, R1[i]) /\ Before(W, R1[i]) /\ Before(I, R1[i]) /\ Before(R1[i], L)
                     /\ Before(R1[i], {})
  BY DEF InLine, Before
<1>2. ASSUME NEW i \in Nat, NEW j \in Nat, i < j PROVE Before(R1[i], R1[j])
  <2>1. CASE j = n  BY <1>2, <2>1 DEF InLine
  <2>2. CASE i = n
    <3>1. R1[j] = {}  BY <1>2, <2>2
    <3> QED  BY <3>1 DEF Before
  <2>3. CASE i # n /\ j # n  BY <1>2, <2>3 DEF InLine
  <2> QED  BY <2>1, <2>2, <2>3
<1>3. \A d : (\E i \in Nat : d \in R1[i]) => d \in N \/ \E i \in Nat : d \in R[i]  OBVIOUS
<1>4. Before(S, {}) /\ Before(W, {}) /\ Before(I, {}) /\ Before({}, L)  BY DEF Before
<1> QED  BY <1>1, <1>2, <1>3, <1>4 DEF InLine

\* The loop takes the latest frame, and gives one back.
LEMMA LineToSender ==
    ASSUME NEW S, NEW W, NEW I, NEW R, NEW N, NEW L, NEW o, NEW t, InLine(S, W, I, R, N, L, o, t)
    PROVE  InLine(S, W, I, R, L, {}, o, t) /\ InLine(S, W, I, R, {}, N, o, t)
BY DEF InLine, Before

\* The agent counts one drop more or none, and offers a frame with its count;
\* or its count of another task begins, with nothing of this task on the way.
LEMMA LineOffers ==
    ASSUME NEW S, NEW W, NEW I, NEW R, NEW N, NEW L, NEW o, NEW t \in Nat, InLine(S, W, I, R, N, L, o, t),
           NEW d \in Nat, o => t <= d
    PROVE  InLine(S, W, I, R, N, {d}, TRUE, d) /\ InLine(S, W, I, R, {}, {d}, TRUE, d)
<1>1. \A a : a \in S \/ a \in W \/ a \in I \/ a \in N \/ (\E i \in Nat : a \in R[i]) => a \in Nat /\ a <= d
  BY DEF InLine
<1>2. Before(S, {d}) /\ Before(W, {d}) /\ Before(I, {d}) /\ Before(N, {d}) /\ Before({}, {d})
  BY <1>1 DEF Before
<1>3. \A i \in Nat : Before(R[i], {d})  BY <1>1 DEF Before
<1>4. Before(S, {}) /\ Before(W, {}) /\ Before(I, {}) /\ \A i \in Nat : Before(R[i], {})  BY DEF Before
<1> QED  BY <1>1, <1>2, <1>3, <1>4 DEF InLine

\* The agent's count alone goes on.
LEMMA LineCounts ==
    ASSUME NEW S, NEW W, NEW I, NEW R, NEW N, NEW L, NEW o, NEW t \in Nat, InLine(S, W, I, R, N, L, o, t),
           NEW d \in Nat, t <= d
    PROVE  InLine(S, W, I, R, N, L, o, d)
<1>1. \A a : a \in S \/ a \in W \/ a \in I \/ a \in N \/ a \in L \/ (\E i \in Nat : a \in R[i]) =>
         o /\ a \in Nat /\ a <= d
  BY DEF InLine
<1> QED  BY <1>1 DEF InLine

\* The line as it is and as it will be.
Line == InLine(StoreDrops, WorkerDrops, SlotDrops, WireDrops, SenderDrops, LatestDrops,
               latest.stressTask = Task, latest.stressDrops)

\* A part of the line keeps its counts when its part of the state stays.
LEMMA LineStays ==
    /\ UNCHANGED latest.stress => LatestDrops' = LatestDrops
    /\ UNCHANGED sender.stress => SenderDrops' = SenderDrops
    /\ UNCHANGED wire => WireDrops' = WireDrops
    /\ UNCHANGED <<ingestor.slots, sender.generation>> => SlotDrops' = SlotDrops
    /\ UNCHANGED worker => WorkerDrops' = WorkerDrops
    /\ UNCHANGED store.state => StoreDrops' = StoreDrops
    /\ store'.state = None => StoreDrops' = {}
    /\ \A i \in Nat : WireDrops[i] = IF i \in DOMAIN wire THEN EnvelopeDrops(wire[i]) ELSE {}
    /\ \A i \in Nat : WireDrops'[i] = IF i \in DOMAIN wire' THEN EnvelopeDrops(wire'[i]) ELSE {}
    /\ LatestDrops' = FrameDrops(latest'.stress) /\ SenderDrops' = FrameDrops(sender'.stress)
<1>1. LatestDrops' = FrameDrops(latest'.stress) /\ SenderDrops' = FrameDrops(sender'.stress)
  BY DEF LatestDrops, SenderDrops, FrameDrops
<1>2. /\ \A i \in Nat : WireDrops[i] = IF i \in DOMAIN wire THEN EnvelopeDrops(wire[i]) ELSE {}
      /\ \A i \in Nat : WireDrops'[i] = IF i \in DOMAIN wire' THEN EnvelopeDrops(wire'[i]) ELSE {}
  BY DEF WireDrops, EnvelopeDrops, FrameDrops
<1>3. UNCHANGED wire => WireDrops' = WireDrops  BY DEF WireDrops, EnvelopeDrops, FrameDrops
<1>4. UNCHANGED <<ingestor.slots, sender.generation>> => SlotDrops' = SlotDrops
  BY DEF SlotDrops, Current, EnvelopeDrops, FrameDrops
<1> QED
  BY <1>1, <1>2, <1>3, <1>4 DEF LatestDrops, SenderDrops, WorkerDrops, StoreDrops

\* What a slot that is emptied or removed holds of the line.
LEMMA SlotLoses ==
    ASSUME UNCHANGED sender.generation, NEW k,
           \/ ingestor'.slots = ingestor.slots
           \/ ingestor'.slots = Removed(ingestor.slots, k)
    PROVE  SlotDrops' \subseteq SlotDrops
<1>1. CASE ingestor'.slots = ingestor.slots  BY <1>1, LineStays
<1>2. CASE ingestor'.slots = Removed(ingestor.slots, k)
  <2> DEFINE s == ingestor.slots
             t == ingestor'.slots
             c == Current
  <2>1. DOMAIN t = DOMAIN s \ {k} /\ \A y \in DOMAIN t : t[y] = s[y]  BY <1>2 DEF Removed
  <2>2. SlotDrops' = IF c \in DOMAIN t THEN EnvelopeDrops(t[c].env) ELSE {}
    BY DEF SlotDrops, Current, EnvelopeDrops, FrameDrops
  <2>3. SlotDrops = IF c \in DOMAIN s THEN EnvelopeDrops(s[c].env) ELSE {}
    BY DEF SlotDrops
  <2> HIDE DEF c
  <2>4. CASE c \in DOMAIN t  BY <2>1, <2>2, <2>3, <2>4
  <2>5. CASE c \notin DOMAIN t  BY <2>2, <2>5
  <2> QED  BY <2>4, <2>5
<1> QED  BY <1>1, <1>2

\* A slot that gets an envelope.
LEMMA SlotGets ==
    ASSUME UNCHANGED sender.generation, NEW k, NEW e,
           ingestor'.slots = Changed(ingestor.slots, k, [env |-> e, queued |-> TRUE])
    PROVE  /\ k = Current => SlotDrops' = EnvelopeDrops(e)
           /\ k # Current => SlotDrops' = SlotDrops
<1> DEFINE s == ingestor.slots
           t == ingestor'.slots
           c == Current
<1>1. DOMAIN t = DOMAIN s \cup {k} /\ t[k].env = e /\ \A y \in DOMAIN s \ {k} : t[y] = s[y]
  BY DEF Changed
<1>2. SlotDrops' = IF c \in DOMAIN t THEN EnvelopeDrops(t[c].env) ELSE {}
  BY DEF SlotDrops, Current, EnvelopeDrops, FrameDrops
<1>3. SlotDrops = IF c \in DOMAIN s THEN EnvelopeDrops(s[c].env) ELSE {}
  BY DEF SlotDrops
<1> HIDE DEF c
<1>4. CASE k = c  BY <1>1, <1>2, <1>4 DEF c
<1>5. CASE k # c
  <2>1. c \in DOMAIN t <=> c \in DOMAIN s  BY <1>1, <1>5
  <2>2. c \in DOMAIN s => t[c] = s[c]  BY <1>1, <1>5
  <2> QED  BY <1>2, <1>3, <1>5, <2>1, <2>2 DEF c
<1> QED  BY <1>4, <1>5 DEF c

\* The line in the next state.
LEMMA LineNext ==
    Line' <=> InLine(StoreDrops', WorkerDrops', SlotDrops', WireDrops', SenderDrops', LatestDrops',
                     latest'.stressTask = Task, latest'.stressDrops)
BY DEF Line, InLine, Before

\* A frame that is offered carries the agent's own count.
LEMMA OfferLine ==
    ASSUME TypeInv, DropsInOrder, NEW who \in {"tick", "stop"}, Offer(who)
    PROVE  DropsInOrder'
<1> DEFINE w == reporter[who]
           same == latest.stressTask = w.task
           drops == IF ~ same THEN 0 ELSE latest.stressDrops + (IF latest.stress = None THEN 0 ELSE 1)
<1>0. reporter \in ReporterType /\ latest \in LatestType  BY DEF TypeInv, AgentTypes
<1>1. /\ w # None /\ w \in WindowType
      /\ latest' = OfferStress(latest, w) /\ reporter' = [reporter EXCEPT ![who] = None]
      /\ UNCHANGED <<sender, wire, ingestor, worker, store>>
  BY <1>0 DEF Offer, adminVars, ReporterType
<1>2. w.task = Task  BY <1>1 DEF DropsInOrder
<1>3. /\ latest'.stressTask = Task /\ latest'.stressDrops = drops
      /\ latest'.stress = [window |-> w, dropped |-> drops]
  BY <1>0, <1>1, <1>2 DEF OfferStress, LatestType
<1>4. drops \in Nat /\ latest.stressDrops \in Nat /\ (latest.stressTask = Task => latest.stressDrops <= drops)
  BY <1>0, <1>2 DEF LatestType
<1>5. LatestDrops' = {drops}
  <2>1. latest'.stress # None  BY <1>3 DEF None
  <2>2. latest'.stress.window = w /\ latest'.stress.dropped = drops  BY <1>3
  <2> HIDE DEF w, drops
  <2> QED  BY <1>2, <2>1, <2>2, LineStays DEF FrameDrops
<1>6. /\ SenderDrops' = SenderDrops /\ WireDrops' = WireDrops /\ SlotDrops' = SlotDrops
      /\ WorkerDrops' = WorkerDrops /\ StoreDrops' = StoreDrops
  BY <1>1, LineStays
<1>7. Line  BY DEF DropsInOrder, Line
<1> HIDE DEF drops, w
<1>8. InLine(StoreDrops, WorkerDrops, SlotDrops, WireDrops, SenderDrops, {drops}, TRUE, drops)
  BY <1>4, <1>7, LineOffers DEF Line
<1>9. InLine(StoreDrops', WorkerDrops', SlotDrops', WireDrops', SenderDrops', LatestDrops', TRUE, latest'.stressDrops)
  BY <1>3, <1>5, <1>6, <1>8
<1>10. (latest'.stressTask = Task) = TRUE  BY <1>3
<1>11. Line'  BY <1>9, <1>10, LineNext
<1>12. \A k \in {"tick", "stop"} : reporter'[k] = None \/ reporter'[k] = reporter[k]
  BY <1>0, <1>1 DEF ReporterType
<1> QED  BY <1>11, <1>12 DEF DropsInOrder, Line

\* The reporter's part of DropsInOrder, and the line's.
LEMMA LineOnly ==
    ASSUME DropsInOrder, UNCHANGED <<reporter.tick, reporter.stop>>, Line'
    PROVE  DropsInOrder'
BY DEF DropsInOrder, Line

\* The loop takes the latest count.
LEMMA TakeLine ==
    ASSUME TypeInv, Line, Take
    PROVE  Line'
<1>0. sender \in SenderType /\ latest \in LatestType  BY DEF TypeInv, AgentTypes
<1>1. /\ UNCHANGED <<reporter, wire, ingestor, worker, store>>
      /\ sender'.stress = latest.stress /\ latest'.stress = None /\ sender'.generation = sender.generation
      /\ latest'.stressTask = latest.stressTask /\ latest'.stressDrops = latest.stressDrops
  BY <1>0 DEF Take, agentVars, adminVars, SenderType, LatestType
<1>2. SenderDrops' = LatestDrops /\ LatestDrops' = {}
  BY <1>1, LineStays DEF LatestDrops, FrameDrops
<1>3. /\ WireDrops' = WireDrops /\ SlotDrops' = SlotDrops
      /\ WorkerDrops' = WorkerDrops /\ StoreDrops' = StoreDrops
  BY <1>1, LineStays
<1>4. InLine(StoreDrops, WorkerDrops, SlotDrops, WireDrops, LatestDrops, {},
             latest.stressTask = Task, latest.stressDrops)
  BY LineToSender DEF Line
<1> QED  BY <1>1, <1>2, <1>3, <1>4, LineNext

\* The loop's count goes to the end of the wire.
LEMMA SendLine ==
    ASSUME TypeInv, SenderHolds, Line, NEW k \in Kinds, Send(k)
    PROVE  Line'
<1> DEFINE e == Envelope(k, sender[k])
<1>0. sender \in SenderType /\ wire \in Seq(EnvelopeType)  BY DEF TypeInv, AgentTypes
<1>1. /\ UNCHANGED <<reporter, latest, ingestor, worker, store>> /\ wire' = Append(wire, e)
      /\ sender'.generation = sender.generation
  BY <1>0 DEF Send, agentVars, adminVars, SenderType, Kinds
<1>2. PICK n \in Nat : n = Len(wire) + 1  BY <1>0
<1>3. /\ DOMAIN wire' = 1..n /\ DOMAIN wire = 1..(n - 1)
      /\ \A i \in 1..(n - 1) : wire'[i] = wire[i]
      /\ wire'[n] = e
  BY <1>0, <1>1, <1>2
<1>4. e # None /\ e.kind = k /\ e.payload = sender[k]  BY DEF Envelope, None
<1> HIDE DEF e
<1>5. WireDrops'[n] = EnvelopeDrops(e)
  <2>1. n \in DOMAIN wire'  BY <1>2, <1>3
  <2> QED  BY <1>3, <2>1, LineStays
<1>6. ASSUME NEW i \in Nat, i # n PROVE WireDrops'[i] = WireDrops[i]
  <2>1. i \in DOMAIN wire' <=> i \in DOMAIN wire  BY <1>3, <1>6
  <2>2. i \in DOMAIN wire => wire'[i] = wire[i]  BY <1>3
  <2> QED  BY <2>1, <2>2, LineStays
<1>7. \A i \in Nat : n <= i => WireDrops[i] = {}
  <2>1. \A i \in Nat : n <= i => i \notin DOMAIN wire  BY <1>3
  <2> QED  BY <2>1, LineStays
<1>8. /\ LatestDrops' = LatestDrops /\ SlotDrops' = SlotDrops
      /\ WorkerDrops' = WorkerDrops /\ StoreDrops' = StoreDrops
  BY <1>1, LineStays
<1>9. WireDrops'[n] = SenderDrops /\ SenderDrops' = {}
  <2>1. CASE k = "stress"
    <3>1. EnvelopeDrops(e) = FrameDrops(sender.stress)  BY <1>4, <2>1 DEF EnvelopeDrops
    <3>2. sender'.stress = None  BY <1>0, <2>1 DEF Send, SenderType
    <3>3. SenderDrops' = {}  BY <3>2, LineStays DEF FrameDrops
    <3> QED  BY <1>5, <3>1, <3>3 DEF SenderDrops
  <2>2. CASE k = "system"
    <3>1. EnvelopeDrops(e) = {}  BY <1>4, <2>2 DEF EnvelopeDrops
    <3>2. sender'.stress = sender.stress /\ sender.at = "system"  BY <1>0, <2>2 DEF Send, SenderType
    <3>3. sender.stress = None  BY <3>2 DEF SenderHolds
    <3>4. SenderDrops' = {} /\ SenderDrops = {}  BY <3>2, <3>3, LineStays DEF SenderDrops, FrameDrops
    <3> QED  BY <1>5, <3>1, <3>4
  <2> QED  BY <2>1, <2>2 DEF Kinds
<1>10. InLine(StoreDrops, WorkerDrops, SlotDrops, WireDrops', {}, LatestDrops,
              latest.stressTask = Task, latest.stressDrops)
  BY <1>6, <1>7, <1>9, LineToWire DEF Line
<1> QED  BY <1>1, <1>8, <1>9, <1>10, LineNext

\* A count that is restored is still behind those already sent.
LEMMA SendFailsLine ==
    ASSUME TypeInv, Line, SendFails
    PROVE  Line'
<1> DEFINE f == sender.stress
           r == Restore(latest, f, sender.system)
           drop == f # None /\ latest.stress # None /\ latest.stress.window.task = f.window.task
<1>0. sender \in SenderType /\ latest \in LatestType /\ f \in FrameType \cup {None}
  BY DEF TypeInv, AgentTypes, SenderType
<1>1. /\ UNCHANGED <<reporter, wire, ingestor, worker, store>>
      /\ sender'.stress = None /\ latest' = r /\ sender'.generation = sender.generation
  BY <1>0 DEF SendFails, agentVars, adminVars, SenderType
<1>2. /\ r.stressTask = latest.stressTask
      /\ r.stressDrops = latest.stressDrops + (IF drop THEN 1 ELSE 0)
      /\ latest.stress = None => r.stress = f
      /\ latest.stress # None /\ ~ drop => r.stress = latest.stress
      /\ drop => r.stress = [window |-> latest.stress.window, dropped |-> latest.stressDrops + 1]
  BY <1>0, RestoreEffect
<1> HIDE DEF f, r
<1>3. /\ SenderDrops' = {} /\ WireDrops' = WireDrops /\ SlotDrops' = SlotDrops
      /\ WorkerDrops' = WorkerDrops /\ StoreDrops' = StoreDrops
  BY <1>1, LineStays DEF FrameDrops
<1>4. latest.stressDrops \in Nat  BY <1>0 DEF LatestType
<1>5. CASE latest.stress = None
  <2>1. LatestDrops' = SenderDrops  BY <1>1, <1>2, <1>5, LineStays DEF SenderDrops, f
  <2>2. latest'.stressDrops = latest.stressDrops /\ latest'.stressTask = latest.stressTask
    BY <1>1, <1>2, <1>4, <1>5
  <2>3. InLine(StoreDrops, WorkerDrops, SlotDrops, WireDrops, {}, SenderDrops,
               latest.stressTask = Task, latest.stressDrops)
    BY LineToSender DEF Line
  <2> QED  BY <1>3, <2>1, <2>2, <2>3, LineNext
<1>6. CASE latest.stress # None /\ ~ drop
  <2>1. LatestDrops' = LatestDrops  BY <1>1, <1>2, <1>6, LineStays DEF LatestDrops
  <2>2. latest'.stressDrops = latest.stressDrops /\ latest'.stressTask = latest.stressTask
    BY <1>1, <1>2, <1>4, <1>6
  <2>3. {} \in SUBSET SenderDrops /\ \A i \in Nat : WireDrops[i] \subseteq WireDrops[i]  OBVIOUS
  <2>4. InLine(StoreDrops, WorkerDrops, SlotDrops, WireDrops, {}, LatestDrops,
               latest.stressTask = Task, latest.stressDrops)
    BY <2>3, LineLoses DEF Line
  <2> QED  BY <1>3, <2>1, <2>2, <2>4, LineNext
<1>7. CASE drop
  <2> DEFINE d == latest.stressDrops + 1
  <2>1. latest'.stressDrops = d /\ latest'.stressTask = latest.stressTask /\ d \in Nat /\ latest.stressDrops <= d
    BY <1>1, <1>2, <1>4, <1>7
  <2>2. latest'.stress # None /\ latest'.stress.window = latest.stress.window /\ latest'.stress.dropped = d
    BY <1>1, <1>2, <1>7 DEF None
  <2> HIDE DEF d
  <2>3. CASE latest.stress.window.task = Task
    <3>1. LatestDrops' = {d}  BY <2>2, <2>3, LineStays DEF FrameDrops
    <3>2. latest.stress.dropped \in LatestDrops  BY <1>7, <2>3 DEF LatestDrops, FrameDrops
    <3>3. latest.stressTask = Task  BY <3>2 DEF Line, InLine
    <3>4. InLine(StoreDrops, WorkerDrops, SlotDrops, WireDrops, {}, {d}, TRUE, d)
      BY <1>4, <2>1, LineOffers DEF Line
    <3>5. (latest'.stressTask = Task) = TRUE  BY <2>1, <3>3
    <3> QED  BY <1>3, <2>1, <3>1, <3>4, <3>5, LineNext
  <2>4. CASE latest.stress.window.task # Task
    <3>1. LatestDrops' = {} /\ LatestDrops = {}
      BY <1>7, <2>2, <2>4, LineStays DEF FrameDrops, LatestDrops
    <3>2. {} \in SUBSET SenderDrops /\ \A i \in Nat : WireDrops[i] \subseteq WireDrops[i]  OBVIOUS
    <3>3. InLine(StoreDrops, WorkerDrops, SlotDrops, WireDrops, {}, LatestDrops,
                 latest.stressTask = Task, latest.stressDrops)
      BY <3>2, LineLoses DEF Line
    <3>4. InLine(StoreDrops, WorkerDrops, SlotDrops, WireDrops, {}, LatestDrops, latest.stressTask = Task, d)
      BY <1>4, <2>1, <3>3, LineCounts
    <3> QED  BY <1>3, <2>1, <3>1, <3>4, LineNext
  <2> QED  BY <2>3, <2>4
<1> QED  BY <1>5, <1>6, <1>7

\* Counts are lost with the wire.
LEMMA BreakStreamLine ==
    ASSUME TypeInv, Line, BreakStream
    PROVE  Line'
<1>0. sender \in SenderType  BY DEF TypeInv, AgentTypes
<1>1. /\ UNCHANGED <<reporter, latest, ingestor, worker, store>> /\ wire' = <<>>
      /\ sender'.stress = sender.stress /\ sender'.generation = sender.generation
  BY <1>0 DEF BreakStream, agentVars, adminVars, SenderType
<1>2. /\ LatestDrops' = LatestDrops /\ SenderDrops' = SenderDrops /\ SlotDrops' = SlotDrops
      /\ WorkerDrops' = WorkerDrops /\ StoreDrops' = StoreDrops
  BY <1>1, LineStays
<1>3. \A i \in Nat : WireDrops'[i] \subseteq WireDrops[i]
  BY <1>1, LineStays
<1>4. InLine(StoreDrops, WorkerDrops, SlotDrops, WireDrops', SenderDrops, LatestDrops,
             latest.stressTask = Task, latest.stressDrops)
  BY <1>3, LineLoses DEF Line
<1> QED  BY <1>1, <1>2, <1>4, LineNext

\* The wire's first count goes into the slot.
LEMMA ReceiveLine ==
    ASSUME PipelineAssumption, TypeInv, Queued, WireIsCurrent, Line, Receive
    PROVE  Line'
<1> DEFINE e == Head(wire)
           k == <<e.generation, e.kind>>
<1>0. sender \in SenderType /\ wire \in Seq(EnvelopeType)  BY DEF TypeInv, AgentTypes
<1>1. UNCHANGED <<reporter, latest, worker, store>> /\ wire # <<>>  BY DEF Receive, agentVars
<1>2. /\ LatestDrops' = LatestDrops /\ WorkerDrops' = WorkerDrops /\ StoreDrops' = StoreDrops
  BY <1>1, LineStays
<1>3. CASE ingestor'.slots = ingestor.slots /\ wire' = <<>> /\ sender' = [sender EXCEPT !.up = FALSE]
  <2>1. sender'.stress = sender.stress /\ sender'.generation = sender.generation  BY <1>0, <1>3 DEF SenderType
  <2>2. SenderDrops' = SenderDrops /\ SlotDrops' = SlotDrops  BY <1>3, <2>1, LineStays
  <2>3. \A i \in Nat : WireDrops'[i] \subseteq WireDrops[i]  BY <1>3, LineStays
  <2>4. InLine(StoreDrops, WorkerDrops, SlotDrops, WireDrops', SenderDrops, LatestDrops,
               latest.stressTask = Task, latest.stressDrops)
    BY <2>3, LineLoses DEF Line
  <2> QED  BY <1>1, <1>2, <2>2, <2>4, LineNext
<1>4. CASE /\ wire' = Tail(wire) /\ UNCHANGED sender
           /\ ingestor'.slots = Changed(ingestor.slots, k, [env |-> e, queued |-> TRUE])
  <2>1. SenderDrops' = SenderDrops  BY <1>4, LineStays
  <2>2. e \in EnvelopeType /\ wire[1] = e /\ 1 \in DOMAIN wire /\ e.generation = sender.generation
    BY ReceiveEffect DEF WireIsCurrent
  <2>3. DOMAIN wire' = 1..(Len(wire) - 1) /\ Len(wire) \in Nat /\ DOMAIN wire = 1..Len(wire)
        /\ \A i \in 1..(Len(wire) - 1) : wire'[i] = wire[i + 1]
    BY <1>0, <1>1, <1>4, TailStays
  <2>4. WireDrops'[0] = {}
    <3>1. 0 \notin DOMAIN wire'  BY <2>3
    <3> QED  BY <3>1, LineStays
  <2>5. ASSUME NEW i \in Nat, i # 0 PROVE WireDrops'[i] = WireDrops[i + 1]
    <3>1. i \in DOMAIN wire' <=> i + 1 \in DOMAIN wire  BY <2>3, <2>5
    <3>2. i \in DOMAIN wire' => wire'[i] = wire[i + 1]  BY <2>3
    <3>3. WireDrops[i + 1] = IF i + 1 \in DOMAIN wire THEN EnvelopeDrops(wire[i + 1]) ELSE {}
      <4>1. i + 1 \in Nat  OBVIOUS
      <4> QED  BY <4>1, LineStays
    <3> QED  BY <3>1, <3>2, <3>3, LineStays
  <2>6. WireDrops[1] = EnvelopeDrops(e)  BY <2>2, LineStays
  <2>7. SlotDrops' = EnvelopeDrops(e) \/ SlotDrops' = SlotDrops
    <3> HIDE DEF e, k
    <3> QED  BY <1>4, SlotGets
  <2>8. InLine(StoreDrops, WorkerDrops, WireDrops[1], WireDrops', SenderDrops, LatestDrops,
               latest.stressTask = Task, latest.stressDrops)
        /\ InLine(StoreDrops, WorkerDrops, SlotDrops, WireDrops', SenderDrops, LatestDrops,
               latest.stressTask = Task, latest.stressDrops)
    BY <2>4, <2>5, LineToSlot DEF Line
  <2> QED  BY <1>1, <1>2, <2>1, <2>6, <2>7, <2>8, LineNext
<1> QED  BY <1>3, <1>4, ReceiveEffect

\* The next generation has no slot yet.
LEMMA ReconnectLine ==
    ASSUME TypeInv, SlotsMatch, Line, Reconnect
    PROVE  Line'
<1>0. sender \in SenderType /\ IngestorTyped(ingestor)  BY DEF TypeInv, AgentTypes, AdminTypes
<1>1. /\ UNCHANGED <<reporter, latest, wire, worker, store>> /\ ingestor'.slots = ingestor.slots
      /\ sender'.stress = sender.stress /\ sender'.generation = sender.generation + 1
  BY <1>0 DEF Reconnect, agentVars, IngestorTyped, SenderType
<1>2. /\ LatestDrops' = LatestDrops /\ SenderDrops' = SenderDrops /\ WireDrops' = WireDrops
      /\ WorkerDrops' = WorkerDrops /\ StoreDrops' = StoreDrops
  BY <1>1, LineStays
<1>3. <<sender.generation + 1, "stress">> \notin DOMAIN ingestor.slots
  BY <1>0 DEF SlotsMatch, SenderType
<1>4. SlotDrops' = {}  BY <1>1, <1>3 DEF SlotDrops, Current
<1>5. {} \in SUBSET SlotDrops /\ \A i \in Nat : WireDrops[i] \subseteq WireDrops[i]  OBVIOUS
<1>6. InLine(StoreDrops, WorkerDrops, {}, WireDrops, SenderDrops, LatestDrops,
             latest.stressTask = Task, latest.stressDrops)
  BY <1>5, LineLoses DEF Line
<1> QED  BY <1>1, <1>2, <1>4, <1>6, LineNext

\* The slot's count goes to the worker.
LEMMA DequeueLine ==
    ASSUME TypeInv, Queued, Generations, Line, Dequeue
    PROVE  Line'
<1> DEFINE k == Head(ingestor.ready)
           env == ingestor.slots[k].env
<1>0. ingestor.ready # <<>> /\ UNCHANGED <<reporter, latest, sender, wire, store>>
  BY DEF Dequeue, agentVars, streamVars
<1>1. k \in DOMAIN ingestor.slots /\ env \in EnvelopeType /\ k \in Keys /\ ingestor.slots[k] \in SlotType
      /\ worker.at = "idle"
  BY <1>0, HeadOfQueue, DequeueEffect
<1>2. env # None /\ env.kind = k[2] /\ k[1] \in Nat /\ k[1] >= 1
  BY <1>1, NoneIsNothing DEF Generations, Keys
<1>3. /\ LatestDrops' = LatestDrops /\ SenderDrops' = SenderDrops /\ WireDrops' = WireDrops
      /\ StoreDrops' = StoreDrops
  BY <1>0, LineStays
<1>4. \A i \in Nat : WireDrops[i] \subseteq WireDrops[i]  OBVIOUS
<1> HIDE DEF k
<1>5. CASE UNCHANGED worker /\ ingestor'.slots = Removed(ingestor.slots, k)
  <2>1. WorkerDrops' = WorkerDrops /\ SlotDrops' \subseteq SlotDrops
    BY <1>0, <1>5, LineStays, SlotLoses
  <2>2. InLine(StoreDrops, WorkerDrops, SlotDrops', WireDrops, SenderDrops, LatestDrops,
               latest.stressTask = Task, latest.stressDrops)
    BY <1>4, <2>1, LineLoses DEF Line
  <2> QED  BY <1>0, <1>3, <2>1, <2>2, LineNext
<1>6. CASE /\ Counts(k, env) /\ worker' = [at |-> "commit", key |-> k, env |-> env]
           /\ ingestor'.slots = Changed(ingestor.slots, k, [ingestor.slots[k] EXCEPT !.env = None])
  <2>1. k[1] = sender.generation /\ k[2] = "stress" /\ env.payload.window.task = Task
    BY <1>2, <1>6 DEF Counts, Generations
  <2>2. k = Current  BY <1>1, <2>1 DEF Keys, Current
  <2>3. env.kind = "stress" /\ env.payload \in FrameType /\ env.payload # None
    <3>1. env.kind = "stress"  BY <1>2, <2>1
    <3>2. env.payload \in FrameType  BY <1>1, <3>1 DEF EnvelopeType
    <3> QED  BY <3>1, <3>2, NoneIsNothing
  <2>4. WorkerDrops' = {env.payload.dropped}  BY <1>6 DEF WorkerDrops
  <2>5. SlotDrops = {env.payload.dropped}
    BY <1>1, <1>2, <2>1, <2>2, <2>3 DEF SlotDrops, EnvelopeDrops, FrameDrops
  <2>6. SlotDrops' = {}
    <3>1. ingestor'.slots[k] = [ingestor.slots[k] EXCEPT !.env = None]  BY <1>1, <1>6 DEF Changed
    <3>2. ingestor'.slots[k].env = None  BY <1>1, <3>1 DEF SlotType
    <3>3. UNCHANGED Current  BY <1>0 DEF Current
    <3>4. SlotDrops' = IF Current \in DOMAIN ingestor'.slots
                       THEN EnvelopeDrops(ingestor'.slots[Current].env) ELSE {}
      BY <1>0 DEF SlotDrops, Current, EnvelopeDrops, FrameDrops
    <3> QED  BY <2>2, <3>2, <3>4 DEF EnvelopeDrops
  <2>7. InLine(StoreDrops, SlotDrops, {}, WireDrops, SenderDrops, LatestDrops,
               latest.stressTask = Task, latest.stressDrops)
    BY LineToWorker DEF Line
  <2> QED  BY <1>0, <1>3, <2>4, <2>5, <2>6, <2>7, LineNext
<1> QED  BY <1>5, <1>6, DequeueEffect DEF k

\* The worker is through with its frame.
LEMMA FinishedLine ==
    ASSUME TypeInv, Queued, Line, worker.at # "idle", worker'.at = "idle", NEW err \in BOOLEAN,
           ingestor' = Finished(ingestor, worker.key, err), UNCHANGED <<latest, sender, wire>>,
           StoreDrops' = StoreDrops
    PROVE  Line'
<1>1. ingestor'.slots = ingestor.slots \/ ingestor'.slots = Removed(ingestor.slots, worker.key)
  BY FinishedHere DEF Queued
<1>2. /\ LatestDrops' = LatestDrops /\ SenderDrops' = SenderDrops /\ WireDrops' = WireDrops
  BY LineStays
<1>3. WorkerDrops' = {} /\ SlotDrops' \subseteq SlotDrops
  BY <1>1, SlotLoses DEF WorkerDrops
<1>4. \A i \in Nat : WireDrops[i] \subseteq WireDrops[i]  OBVIOUS
<1>5. {} \in SUBSET WorkerDrops  OBVIOUS
<1>6. InLine(StoreDrops, {}, SlotDrops', WireDrops, SenderDrops, LatestDrops,
             latest.stressTask = Task, latest.stressDrops)
  BY <1>3, <1>4, <1>5, LineLoses DEF Line
<1> QED  BY <1>2, <1>3, <1>6, LineNext

\* The worker's count becomes the store's.
LEMMA CommitLine ==
    ASSUME TypeInv, Queued, Generations, Line, Commit
    PROVE  Line'
<1>0. worker.at = "commit" /\ UNCHANGED <<latest, sender, wire>> /\ store \in StoreType
  BY DEF Commit, streamVars, TypeInv, AdminTypes
<1>1. CASE Accepts
  <2>1. worker'.at = "append"  BY <1>0, <1>1, WorkerTyped DEF Accepts
  <2>2. store'.state # None /\ store'.state.dropped = worker.env.payload.dropped
    BY <1>0, <1>1 DEF Accepts, StoreType, None
  <2>3. StoreDrops' = WorkerDrops /\ WorkerDrops' = {}
    BY <1>0, <2>1, <2>2 DEF StoreDrops, WorkerDrops
  <2>4. /\ LatestDrops' = LatestDrops /\ SenderDrops' = SenderDrops /\ WireDrops' = WireDrops
        /\ SlotDrops' = SlotDrops
    BY <1>0, <1>1, LineStays DEF Accepts
  <2>5. InLine(WorkerDrops, {}, SlotDrops, WireDrops, SenderDrops, LatestDrops,
               latest.stressTask = Task, latest.stressDrops)
    BY LineToStore DEF Line
  <2> QED  BY <1>0, <2>3, <2>4, <2>5, LineNext
<1>2. ASSUME NEW err \in BOOLEAN, Refuses(err) PROVE Line'
  <2>1. worker'.at = "idle" /\ ingestor' = Finished(ingestor, worker.key, err) /\ UNCHANGED store
    BY <1>2 DEF Refuses
  <2>2. StoreDrops' = StoreDrops  BY <2>1, LineStays
  <2> QED  BY <1>0, <2>1, <2>2, FinishedLine
<1> QED  BY <1>1, <1>2, CommitEffect

\* The store keeps the task's count.
LEMMA AppendPendingLine ==
    ASSUME TypeInv, Queued, Line, AppendPending
    PROVE  Line'
<1>1. worker'.at = "idle" /\ worker.at # "idle" /\ ingestor' = Finished(ingestor, worker.key, FALSE)
      /\ UNCHANGED <<latest, sender, wire>> /\ store'.state = store.state
  BY DEF AppendPending, streamVars, TypeInv, AdminTypes, StoreType
<1>2. StoreDrops' = StoreDrops  BY <1>1, LineStays
<1> QED  BY <1>1, <1>2, FinishedLine

\* However frames are overwritten, restored, sent again and dropped, the counts
\* they carry never fall along the way.
LEMMA DropsStep ==
    ASSUME PipelineAssumption, TypeInv, SenderHolds, Generations, Queued, DropsInOrder, [Next]_vars
    PROVE  DropsInOrder'
<1>0. Line /\ WireIsCurrent /\ SlotsMatch  BY GenerationParts DEF DropsInOrder, Line
<1>1. CASE /\ UNCHANGED <<reporter.tick, reporter.stop, latest.stress, sender.stress, wire,
                          ingestor.slots, worker, ghost.taken, ghost.accepted>>
           /\ UNCHANGED <<latest.stressTask, latest.stressDrops>>
           /\ UNCHANGED sender.generation \/ Reconnect
           /\ store'.state \in {store.state, None}
  <2>1. CASE Reconnect  BY <1>0, <1>1, <2>1, ReconnectLine, LineOnly
  <2>2. CASE UNCHANGED sender.generation
    <3>1. /\ LatestDrops' = LatestDrops /\ SenderDrops' = SenderDrops /\ WireDrops' = WireDrops
          /\ SlotDrops' = SlotDrops /\ WorkerDrops' = WorkerDrops
      BY <1>1, <2>2, LineStays
    <3>2. StoreDrops' \subseteq StoreDrops  BY <1>1, LineStays
    <3>3. \A i \in Nat : WireDrops[i] \subseteq WireDrops[i]  OBVIOUS
    <3>4. InLine(StoreDrops', WorkerDrops, SlotDrops, WireDrops, SenderDrops, LatestDrops,
                 latest.stressTask = Task, latest.stressDrops)
      BY <1>0, <3>2, <3>3, LineLoses DEF Line
    <3>5. Line'  BY <1>1, <3>1, <3>4, LineNext
    <3> QED  BY <1>1, <3>5, LineOnly
  <2> QED  BY <1>1, <2>1, <2>2
<1>2. CASE Tick \/ StopFlush
  <2>1. UNCHANGED <<latest, sender, wire, ingestor, worker, store>> /\ Taken.task = Task /\ Taken # None
    BY <1>2, TakeWindowEffect, NoneIsNothing
  <2>2. /\ LatestDrops' = LatestDrops /\ SenderDrops' = SenderDrops /\ WireDrops' = WireDrops
        /\ SlotDrops' = SlotDrops /\ WorkerDrops' = WorkerDrops /\ StoreDrops' = StoreDrops
    BY <2>1, LineStays
  <2>3. Line'  BY <1>0, <2>1, <2>2, LineNext DEF Line
  <2>4. \A k \in {"tick", "stop"} : reporter'[k] = reporter[k] \/ reporter'[k] = Taken
    BY <1>2 DEF Tick, StopFlush, TakeWindow, TypeInv, AgentTypes, ReporterType
  <2> QED  BY <2>1, <2>3, <2>4 DEF DropsInOrder, Line
<1>3. CASE Offer("tick") \/ Offer("stop")  BY <1>3, OfferLine
<1>4. ASSUME UNCHANGED reporter, Line' PROVE DropsInOrder'  BY <1>4, LineOnly
<1>5. CASE Take  BY <1>0, <1>4, <1>5, TakeLine DEF Take, agentVars
<1>6. CASE Send("stress") \/ Send("system")
  <2>0. PICK k \in Kinds : Send(k)  BY <1>6 DEF Kinds
  <2>1. Line'  BY <1>0, <2>0, SendLine
  <2> QED  BY <1>4, <2>0, <2>1 DEF Send, agentVars
<1>7. CASE SendFails  BY <1>0, <1>4, <1>7, SendFailsLine DEF SendFails, agentVars
<1>8. CASE BreakStream  BY <1>0, <1>4, <1>8, BreakStreamLine DEF BreakStream, agentVars
<1>9. CASE Receive  BY <1>0, <1>4, <1>9, ReceiveLine DEF Receive, agentVars
<1>10. CASE Dequeue  BY <1>0, <1>4, <1>10, DequeueLine DEF Dequeue, agentVars
<1>11. CASE Commit  BY <1>0, <1>4, <1>11, CommitLine DEF Commit, agentVars
<1>12. CASE AppendPending  BY <1>0, <1>4, <1>12, AppendPendingLine DEF AppendPending, agentVars
<1> QED
  BY <1>1, <1>2, <1>3, <1>5, <1>6, <1>7, <1>8, <1>9, <1>10, <1>11, <1>12, PlaceSteps
-----------------------------------------------------------------------------
(* The store and what it has accepted.                                      *)

\* Only the worker's commit accepts, refuses or replaces the store's state; a
\* task that is dropped has none.
LEMMA AcceptSteps ==
    ASSUME TypeInv, [Next]_vars
    PROVE  \/ Commit
           \/ /\ UNCHANGED <<ghost.accepted, ghost.alarm>>
              /\ store'.state \in {store.state, None}
<1> DEFINE Quiet == UNCHANGED <<ghost.accepted, ghost.alarm>> /\ store'.state \in {store.state, None}
<1> ghost \in GhostType /\ store \in StoreType
  BY DEF TypeInv, AdminTypes
<1>1. ASSUME NEW r \in Recorders, RecordAction(r) \/ RecordWindow(r) PROVE Quiet
  BY <1>1 DEF RecordAction, RecordWindow, adminVars
<1>2. CASE \/ RunReset \/ StopReporter \/ ReporterExit \/ StartSampler \/ TaskEnds \/ PeekNothing
           \/ LoopExit \/ FinalFlush \/ OfferSystem \/ Offer("tick") \/ Offer("stop") \/ Take
           \/ Send("stress") \/ Send("system") \/ SendFails \/ SendLoopCanceled \/ BreakStream
           \/ Reconnect \/ Receive \/ Dequeue
  BY <1>2 DEF RunReset, StopReporter, ReporterExit, StartSampler, TaskEnds, PeekNothing, LoopExit,
     FinalFlush, OfferSystem, Offer, Take, Send, SendFails, SendLoopCanceled, BreakStream, Reconnect,
     Receive, Dequeue, adminVars
<1>3. CASE StageReset \/ Tick \/ StopFlush
  BY <1>3 DEF StageReset, Tick, StopFlush, TakeWindow, GhostType, adminVars
<1>4. CASE MarkTaskTerminal \/ DropTask
  BY <1>4 DEF MarkTaskTerminal, DropTask, CleanupTerminal, Released, StoreType, GhostType
<1>5. ASSUME NEW g, EndGeneration(g) PROVE Quiet
  BY <1>5 DEF EndGeneration
<1>6. CASE AppendPending
  BY <1>6 DEF AppendPending, StoreType, GhostType
<1>7. ASSUME NEW who \in Both, Peek(who) \/ Save(who) \/ SaveFails(who) PROVE Quiet
  BY <1>7 DEF Peek, Save, SaveFails, PeekHistory, StoreType, adminVars
<1>8. ASSUME NEW who \in Both, Confirm(who) PROVE Quiet
  <2>1. ghost'.accepted = ghost.accepted /\ ghost'.alarm = ghost.alarm
    BY <1>8 DEF Confirm, GhostType
  <2>2. store'.state \in {store.state, None}
    BY <1>8 DEF Confirm, AckHistory, CleanupTerminal, Released, StoreType
  <2> QED  BY <2>1, <2>2
<1>9. CASE UNCHANGED vars
  BY <1>9 DEF vars, adminVars
<1> QED
  BY <1>1, <1>2, <1>3, <1>4, <1>5, <1>6, <1>7, <1>8, <1>9 DEF Next, Environment, Goroutines

\* The windows of an epoch up to a number are among those up to a later one.
LEMMA EpochGrows ==
    ASSUME TypeInv, NEW e, NEW m \in Nat, NEW n \in Nat, m <= n
    PROVE  EpochOwned(e, m) \subseteq EpochOwned(e, n)
<1>1. \A v \in ghost.taken : v.seq \in Nat
  BY DEF TypeInv, AdminTypes, GhostType, WindowType
<1>2. EpochOf(ghost.taken, e, m) \subseteq EpochOf(ghost.taken, e, n)
  BY <1>1 DEF EpochOf
<1> QED  BY <1>2 DEF EpochOwned, OwnedBy

\* Of two windows of a task the one with the greater number has neither an
\* earlier epoch nor, in the same epoch, a counter that fell.
LEMMA CountersRise ==
    ASSUME TypeInv, CountInv, NEW u \in ghost.taken, NEW w \in ghost.taken, u.seq < w.seq
    PROVE  /\ u.epoch <= w.epoch
           /\ u.epoch = w.epoch => u.cum \subseteq w.cum
<1>1. u \in WindowType /\ w \in WindowType  BY DEF TypeInv, AdminTypes, GhostType
<1>2. /\ u.seq \in Nat /\ w.seq \in Nat /\ u.epoch \in Nat /\ w.epoch \in Nat  BY <1>1, WindowFields
<1>3. u.epoch <= w.epoch  BY <1>2 DEF CountInv, TakenInOrder
<1>4. /\ u.cum = IF u.epoch = 1 THEN {Earlier} ELSE EpochOwned(u.epoch, u.seq)
      /\ w.cum = IF w.epoch = 1 THEN {Earlier} ELSE EpochOwned(w.epoch, w.seq)
  BY DEF CountInv, Cumulated
<1>5. EpochOwned(u.epoch, u.seq) \subseteq EpochOwned(u.epoch, w.seq)  BY <1>2, EpochGrows
<1>6. u.epoch = w.epoch => u.cum \subseteq w.cum
  BY <1>4, <1>5
<1> QED  BY <1>3, <1>6

\* The window the worker is about to commit was taken by the reporter.
LEMMA WorkerTaken ==
    ASSUME TypeInv, Generations, HeldOnce, worker.at = "commit"
    PROVE  worker.env.payload.window \in ghost.taken
<1> DEFINE w == worker.env.payload.window
           a == <<"worker", 0>>
<1>1. w \in WindowType /\ w # None /\ w.task = Task  BY WorkerTyped, NoneIsNothing
<1>2. Holding[a] = w /\ a \in Places  BY OnePlace DEF WorkerWindow
<1>3. w \in ghost.taken \cup {EarlierFrame}
  <2> HIDE DEF a, w
  <2> QED  BY <1>1, <1>2, NotAccepted DEF Once
<1>4. w # EarlierFrame  BY <1>1 DEF EarlierFrame, Earlier, Task
<1> QED  BY <1>3, <1>4

\* A window that is new to the store is no regression.
LEMMA NeverRegresses ==
    ASSUME TypeInv, CountInv, Generations, HeldOnce, DropsInOrder, StateIsAccepted, worker.at = "commit"
    PROVE  Verdict(store.state, worker.env.payload.window, worker.env.payload.dropped) # "regress"
<1> DEFINE f == worker.env.payload
           w == f.window
           prev == store.state
<1>1. w \in ghost.taken  BY WorkerTaken
<1>2. w \in WindowType /\ f.dropped \in Nat  BY WorkerTyped
<1>3. CASE prev = None  BY <1>3 DEF Verdict
<1>4. CASE prev # None
  <2>1. PICK u \in ghost.accepted : u.seq = prev.seq /\ u.epoch = prev.epoch /\ u.cum = prev.cum
    BY <1>4 DEF StateIsAccepted
  <2>2. u \in ghost.taken  BY DEF HeldOnce
  <2>3. prev \in [seq : Nat, dropped : Nat, epoch : Nat, cum : SUBSET Measurements]
    BY <1>4 DEF TypeInv, AdminTypes, StoreType
  <2>4. ~ (f.dropped < prev.dropped)
    <3>1. prev.dropped \in StoreDrops /\ f.dropped \in WorkerDrops  BY <1>4 DEF StoreDrops, WorkerDrops
    <3>2. Before(StoreDrops, WorkerDrops)  BY DEF DropsInOrder, InLine
    <3>3. prev.dropped <= f.dropped  BY <3>1, <3>2 DEF Before
    <3>4. prev.dropped \in Nat  BY <2>3
    <3> QED  BY <1>2, <3>3, <3>4
  <2>5. ~ (w.seq <= prev.seq) => /\ ~ (w.epoch < prev.epoch)
                                 /\ w.epoch = prev.epoch => prev.cum \subseteq w.cum
    <3>0. w.seq \in Nat /\ w.epoch \in Nat /\ prev.seq \in Nat /\ prev.epoch \in Nat
      BY <1>2, <2>3, WindowFields
    <3> HIDE DEF w, prev
    <3>1. SUFFICES ASSUME ~ (w.seq <= prev.seq)
                   PROVE  ~ (w.epoch < prev.epoch) /\ (w.epoch = prev.epoch => prev.cum \subseteq w.cum)
      OBVIOUS
    <3>2. u.seq < w.seq  BY <2>1, <3>0, <3>1
    <3>3. u.epoch <= w.epoch /\ (u.epoch = w.epoch => u.cum \subseteq w.cum)
      BY <1>1, <2>2, <3>2, CountersRise
    <3> QED  BY <2>1, <3>0, <3>3
  <2> HIDE DEF f, w, prev
  <2>6. Verdict(prev, w, f.dropped) # "regress"
    BY <1>4, <2>4, <2>5 DEF Verdict
  <2> QED  BY <2>6 DEF f, w, prev
<1> QED  BY <1>3, <1>4

\* The store holds the counters of a window it accepted, and has no alarm.
LEMMA AcceptStep ==
    ASSUME TypeInv, CountInv, Generations, HeldOnce, DropsInOrder, StateIsAccepted, NoFalseAlarm, [Next]_vars
    PROVE  StateIsAccepted' /\ NoFalseAlarm'
<1> ghost \in GhostType /\ store \in StoreType  BY DEF TypeInv, AdminTypes
<1>1. ASSUME UNCHANGED <<ghost.accepted, ghost.alarm>>, store'.state \in {store.state, None}
      PROVE  StateIsAccepted' /\ NoFalseAlarm'
  BY <1>1 DEF StateIsAccepted, NoFalseAlarm
<1>2. CASE Commit
  <2> DEFINE f == worker.env.payload
             v == Verdict(store.state, f.window, f.dropped)
  <2>0. worker.at = "commit"  BY <1>2, CommitEffect
  <2>2. v # "regress"  BY <2>0, NeverRegresses
  <2>3. CASE v = "accept"
    <3>1. Accepts  BY <1>2, <2>3, CommitEffect
    <3>2. ghost'.accepted = ghost.accepted \cup {f.window} /\ ghost'.alarm = ghost.alarm
      BY <3>1 DEF Accepts, GhostType
    <3>3. store'.state = [seq |-> f.window.seq, dropped |-> f.dropped,
                          epoch |-> f.window.epoch, cum |-> f.window.cum]
      BY <3>1 DEF Accepts, StoreType
    <3>4. f.window \in ghost'.accepted  BY <3>2
    <3>5. /\ f.window.seq = store'.state.seq /\ f.window.epoch = store'.state.epoch
          /\ f.window.cum = store'.state.cum
      BY <3>3
    <3>6. StateIsAccepted'  BY <3>4, <3>5 DEF StateIsAccepted
    <3> QED  BY <3>2, <3>6 DEF NoFalseAlarm
  <2>4. CASE v \in {"mismatch", "duplicate"}
    <3>1. UNCHANGED ghost /\ \E err \in BOOLEAN : Refuses(err)  BY <1>2, <2>4, CommitEffect
    <3>2. UNCHANGED store  BY <3>1 DEF Refuses
    <3> QED  BY <1>1, <3>1, <3>2
  <2>5. v \in {"mismatch", "accept", "duplicate", "regress"}  BY <1>2, CommitEffect
  <2> HIDE DEF v
  <2> QED  BY <2>2, <2>3, <2>4, <2>5
<1> QED  BY <1>1, <1>2, AcceptSteps
-----------------------------------------------------------------------------
(* The history.                                                             *)

\* A set of numbers that is not empty has its least number.
LEMMA MinIsIn ==
    ASSUME NEW S \in SUBSET Nat, S # {}
    PROVE  Min(S) \in S
<1> DEFINE R == OpToRel(<, Nat)
<1>1. IsWellFoundedOn(R, Nat)  BY NatLessThanWellFounded
<1>2. PICK x \in S : \A y \in S : ~ (<<y, x>> \in R)
  <2> HIDE DEF R
  <2> QED  BY <1>1, WFMin
<1>3. \A y \in S : ~ (y < x)  BY <1>2 DEF OpToRel
<1>4. \A y \in S : x =< y  BY <1>3
<1> QED  BY <1>4 DEF Min

\* The sequence numbers of a batch.
LEMMA SeqsOfUnion ==
    ASSUME NEW B, NEW C, NEW w
    PROVE  /\ Seqs(B \cup C) = Seqs(B) \cup Seqs(C)
           /\ Seqs({w}) = {w.seq} /\ Seqs({}) = {}
           /\ B \subseteq C => Seqs(B) \subseteq Seqs(C)
           /\ B # {} => Seqs(B) # {}
BY DEF Seqs

\* The sequence numbers of a batch with a window more.
LEMMA SeqsMore ==
    ASSUME NEW B, NEW w
    PROVE  Seqs(B \cup {w}) = Seqs(B) \cup {w.seq}
BY DEF Seqs

\* Two rows, or a row and a batch, of the same name have a window in common.
LEMMA SameToken ==
    ASSUME NEW S \in SUBSET Nat, NEW T \in SUBSET Nat, S # {}, T # {}, <<Min(S), Max(S)>> = <<Min(T), Max(T)>>
    PROVE  S \cap T # {}
<1>1. Min(S) \in S /\ Min(T) \in T  BY MinIsIn
<1>2. Min(S) = Min(T)  OBVIOUS
<1> QED  BY <1>1, <1>2

\* The batch in flight, once its name has a row, is that row.
LEMMA FlightHasRow ==
    ASSUME TypeInv, Booked, RowsNamed, store.inFlight # {}, HasRow(rows, store.inFlight)
    PROVE  Seqs(store.inFlight) \subseteq RowSeqs
<1> DEFINE F == Seqs(store.inFlight)
<1>1. F \subseteq Nat /\ F # {}
  BY WindowFields DEF TypeInv, AdminTypes, StoreType, Seqs
<1>2. PICK r \in rows : r.token = Token(store.inFlight)  BY DEF HasRow
<1>3. r.seqs # {} /\ r.token = <<Min(r.seqs), Max(r.seqs)>>  BY DEF RowsNamed
<1>4. r.seqs \subseteq Nat  BY DEF TypeInv, AdminTypes
<1>5. F \cap r.seqs # {}
  <2>1. <<Min(F), Max(F)>> = <<Min(r.seqs), Max(r.seqs)>>  BY <1>2, <1>3 DEF Token
  <2> HIDE DEF F
  <2> QED  BY <1>1, <1>3, <1>4, <2>1, SameToken
<1>6. \A q \in rows : q.seqs \subseteq RowSeqs  BY DEF RowSeqs
<1>7. F \cap RowSeqs # {}  BY <1>5, <1>6
<1>8. PICK q \in rows : q.seqs = F  BY <1>7 DEF RowsNamed
<1> QED  BY <1>6, <1>8

\* What a save finds is kept by what others do.
LEMMA SamplingKept ==
    ASSUME NEW who, Sampling(who), sampler'[who] = sampler[who], UNCHANGED history,
           ghost.accepted \subseteq ghost'.accepted, rows \subseteq rows',
           \/ store'.inFlight = store.inFlight
           \/ sampler[who].at # "append"
           \/ HasRow(rows', sampler[who].batch)
    PROVE  Sampling(who)'
<1> DEFINE b == sampler[who].batch
<1>1. HasRow(rows, b) => HasRow(rows', b)  BY DEF HasRow
<1> QED  BY <1>1 DEF Sampling

\* Only these steps touch what is saved.
SavedQuiet ==
    UNCHANGED <<store.pending, store.inFlight, rows, history, sampler, ghost.accepted, ghost.released, ghost.left>>

\* Any other step leaves it as it is.
LEMMA SavedSteps ==
    ASSUME TypeInv, Queued, [Next]_vars
    PROVE  \/ SavedQuiet /\ Moving' = Moving
           \/ StartSampler \/ PeekNothing \/ LoopExit \/ FinalFlush
           \/ Commit \/ AppendPending \/ MarkTaskTerminal \/ DropTask
           \/ \E who \in Both : Peek(who) \/ Save(who) \/ SaveFails(who) \/ Confirm(who)
<1> DEFINE Quiet == SavedQuiet /\ Moving' = Moving
<1> ghost \in GhostType /\ store \in StoreType
  BY DEF TypeInv, AdminTypes
<1>1. ASSUME NEW r \in Recorders, RecordAction(r) \/ RecordWindow(r) PROVE Quiet
  BY <1>1 DEF RecordAction, RecordWindow, adminVars, historyVars, SavedQuiet, Moving
<1>2. CASE \/ RunReset \/ StopReporter \/ ReporterExit \/ TaskEnds
           \/ OfferSystem \/ Offer("tick") \/ Offer("stop") \/ Take
           \/ Send("stress") \/ Send("system") \/ SendFails \/ SendLoopCanceled \/ BreakStream
           \/ Reconnect \/ Receive
  BY <1>2 DEF RunReset, StopReporter, ReporterExit, TaskEnds,
     OfferSystem, Offer, Take, Send, SendFails, SendLoopCanceled, BreakStream, Reconnect,
     Receive, adminVars, historyVars, SavedQuiet, Moving
<1>3. CASE StageReset \/ Tick \/ StopFlush
  <2>1. /\ ghost'.accepted = ghost.accepted /\ ghost'.released = ghost.released /\ ghost'.left = ghost.left
    BY <1>3 DEF StageReset, Tick, StopFlush, TakeWindow, GhostType
  <2> QED  BY <1>3, <2>1 DEF StageReset, Tick, StopFlush, adminVars, historyVars, SavedQuiet, Moving
<1>4. ASSUME NEW g, EndGeneration(g) PROVE Quiet
  BY <1>4 DEF EndGeneration, historyVars, SavedQuiet, Moving
<1>5. CASE Dequeue
  <2>1. worker.at = "idle" /\ (UNCHANGED worker \/ worker'.at = "commit")  BY <1>5, DequeueEffect
  <2>2. Moving = {} /\ Moving' = {}  BY <2>1 DEF Moving
  <2> QED  BY <1>5, <2>2 DEF Dequeue, historyVars, SavedQuiet
<1>6. CASE UNCHANGED vars
  BY <1>6 DEF vars, adminVars, historyVars, SavedQuiet, Moving
<1> QED
  BY <1>1, <1>2, <1>3, <1>4, <1>5, <1>6 DEF Next, Environment, Goroutines

\* What of the books is of the windows alone.
LEMMA BookParts ==
    ASSUME Booked
    PROVE  LET P == Seqs(store.pending)
               F == Seqs(store.inFlight)
               A == Seqs(ghost.accepted)
           IN  /\ P \subseteq A /\ F \subseteq A /\ RowSeqs \subseteq A /\ Moving \subseteq A
               /\ Moving \cap P = {} /\ Moving \cap F = {} /\ Moving \cap RowSeqs = {}
               /\ P \cap F = {} /\ P \cap RowSeqs = {}
               /\ history => A = P \cup F \cup RowSeqs \cup Moving
               /\ \A r, q \in rows : r # q => r.seqs \cap q.seqs = {}
               /\ ghost.released /\ ~ ghost.left => store.pending = {} /\ store.inFlight = {}
<1>1. Seqs(store.pending) \subseteq Seqs(ghost.accepted) /\ Seqs(store.inFlight) \subseteq Seqs(ghost.accepted)
  BY DEF Booked, Seqs
<1>2. history => Seqs(ghost.accepted) = Seqs(store.pending) \cup Seqs(store.inFlight) \cup RowSeqs \cup Moving
  BY DEF Booked, AcceptedOnce, Moving
<1> HIDE DEF Moving
<1> QED  BY <1>1, <1>2 DEF Booked, AcceptedOnce

\* The same of the next state.
LEMMA BooksNext ==
    ASSUME LET P == Seqs(store'.pending)
               F == Seqs(store'.inFlight)
               A == Seqs(ghost'.accepted)
           IN  /\ store'.pending \cup store'.inFlight \subseteq ghost'.accepted
               /\ RowSeqs' \subseteq A /\ Moving' \subseteq A
               /\ Moving' \cap P = {} /\ Moving' \cap F = {} /\ Moving' \cap RowSeqs' = {}
               /\ P \cap F = {} /\ P \cap RowSeqs' = {}
               /\ history' => A = P \cup F \cup RowSeqs' \cup Moving'
               /\ \A r, q \in rows' : r # q => r.seqs \cap q.seqs = {}
               /\ ghost'.released /\ ~ ghost'.left => store'.pending = {} /\ store'.inFlight = {}
    PROVE  Booked'
<1>0. /\ Seqs(store.pending)' = Seqs(store'.pending) /\ Seqs(store.inFlight)' = Seqs(store'.inFlight)
      /\ Seqs(ghost.accepted)' = Seqs(ghost'.accepted)
  BY DEF Seqs
<1>1. AcceptedOnce'
  <2>1. history' => Seqs(ghost.accepted)' =
             Seqs(store.pending)' \cup Seqs(store.inFlight)' \cup RowSeqs'
             \cup (IF worker'.at = "append" THEN {worker'.env.payload.window.seq} ELSE {})
    BY <1>0 DEF Moving
  <2>2. Seqs(store.pending)' \cap (Seqs(store.inFlight)' \cup RowSeqs') = {}  BY <1>0
  <2> QED  BY <2>1, <2>2 DEF AcceptedOnce
<1>2. /\ RowSeqs' \cup Moving' \subseteq Seqs(ghost.accepted)'
      /\ Moving' \cap (Seqs(store.pending)' \cup Seqs(store.inFlight)' \cup RowSeqs') = {}
  BY <1>0
<1> QED  BY <1>1, <1>2 DEF Booked

\* What nobody touches stays saved.
LEMMA QuietSaves ==
    ASSUME SavedOnce, SavedQuiet, Moving' = Moving
    PROVE  SavedOnce'
<1>1. Booked' /\ RowsNamed'
  BY DEF SavedQuiet, SavedOnce, Booked, AcceptedOnce, RowsNamed, RowSeqs, Moving, Seqs, Token
<1>2. \A x \in Both : Sampling(x)'
  BY SamplingKept DEF SavedQuiet, SavedOnce
<1> QED  BY <1>1, <1>2 DEF SavedOnce

\* Sampling goes on or ends; nothing is saved.
LEMMA SamplerSaves ==
    ASSUME TypeInv, SavedOnce, StartSampler \/ PeekNothing \/ LoopExit \/ FinalFlush
    PROVE  SavedOnce'
<1>0. sampler \in SamplerType  BY DEF TypeInv, AdminTypes
<1>1. UNCHANGED <<store, rows, history, ghost>> /\ Moving' = Moving
  BY DEF StartSampler, PeekNothing, LoopExit, FinalFlush, adminVars, Moving
<1>2. Booked' /\ RowsNamed'
  BY <1>1 DEF SavedOnce, Booked, AcceptedOnce, RowsNamed, RowSeqs, Moving, Seqs, Token
<1>3. ASSUME NEW who \in Both, sampler'[who] = sampler[who] PROVE Sampling(who)'
  BY <1>1, <1>3, SamplingKept DEF SavedOnce
<1>4. ASSUME NEW who \in Both, sampler'[who].at \in {"done", "ended"} \/ (sampler'[who].at = "run" /\ history)
      PROVE  Sampling(who)'
  BY <1>1, <1>4 DEF Sampling
<1>5. ASSUME NEW who \in Both
      PROVE  \/ sampler'[who] = sampler[who]
             \/ sampler'[who].at \in {"done", "ended"} \/ (sampler'[who].at = "run" /\ history)
  BY <1>0 DEF StartSampler, PeekNothing, LoopExit, FinalFlush, SamplerType, Both
<1> QED  BY <1>2, <1>3, <1>4, <1>5 DEF SavedOnce

\* A batch is put in flight, or the one in flight is taken again.
LEMMA PeekSaves ==
    ASSUME TypeInv, SavedOnce, NEW who \in Both, Peek(who)
    PROVE  SavedOnce'
<1> DEFINE batch == PeekHistory(store).inFlight
<1>0. sampler \in SamplerType /\ store \in StoreType  BY DEF TypeInv, AdminTypes
<1>1. /\ UNCHANGED <<rows, history, ghost>> /\ Moving' = Moving /\ RowSeqs' = RowSeqs
      /\ sampler[who].at = "run" /\ store.pending \cup store.inFlight # {}
      /\ store' = PeekHistory(store)
      /\ sampler' = [sampler EXCEPT ![who] = [at |-> "append", batch |-> batch]]
  BY DEF Peek, Moving, RowSeqs
<1>2. \/ store' = store /\ store.inFlight # {}
      \/ store'.pending = {} /\ store'.inFlight = store.pending /\ store.inFlight = {}
  BY <1>0, <1>1 DEF PeekHistory, StoreType
<1>3. batch = store'.inFlight /\ batch # {} /\ batch \subseteq ghost.accepted
  <2>1. batch = store'.inFlight  BY <1>1
  <2> HIDE DEF batch
  <2> QED  BY <1>1, <1>2, <2>1 DEF SavedOnce, Booked
<1>4. Booked'
  <2>0. /\ Seqs(store'.pending) = Seqs(store.pending) /\ Seqs(store'.inFlight) = Seqs(store.inFlight)
        \/ /\ Seqs(store'.pending) = {} /\ Seqs(store'.inFlight) = Seqs(store.pending) /\ Seqs(store.inFlight) = {}
    BY <1>2, SeqsOfUnion
  <2>1. store'.pending \cup store'.inFlight \subseteq ghost'.accepted
    BY <1>1, <1>2 DEF SavedOnce, Booked
  <2>2. ghost'.released /\ ~ ghost'.left => store'.pending = {} /\ store'.inFlight = {}
    BY <1>1, BookParts DEF SavedOnce
  <2> QED  BY <1>1, <2>0, <2>1, <2>2, BookParts, BooksNext DEF SavedOnce
<1>5. RowsNamed'
  <2>1. CASE store' = store
    BY <1>1, <2>1 DEF SavedOnce, RowsNamed, Seqs, Token
  <2>2. CASE store'.inFlight = store.pending
    <3>1. Seqs(store'.inFlight) \cap RowSeqs' = {}  BY <1>1, <2>2, BookParts DEF SavedOnce
    <3>2. Seqs(store.inFlight)' = Seqs(store'.inFlight)  BY DEF Seqs
    <3>3. \A r \in rows' : r.seqs # {} /\ r.token = <<Min(r.seqs), Max(r.seqs)>>
      BY <1>1 DEF SavedOnce, RowsNamed
    <3> QED  BY <3>1, <3>2, <3>3 DEF RowsNamed
  <2> QED  BY <1>2, <2>1, <2>2
<1>6. Sampling(who)'
  <2>1. sampler'[who] = [at |-> "append", batch |-> batch] /\ history
    BY <1>0, <1>1 DEF SamplerType, SavedOnce, Sampling
  <2>2. sampler'[who].at = "append" /\ sampler'[who].batch = store'.inFlight
        /\ sampler'[who].batch # {} /\ sampler'[who].batch \subseteq ghost'.accepted /\ history'
    BY <1>1, <1>3, <2>1
  <2> QED  BY <2>2 DEF Sampling
<1>7. ASSUME NEW x \in Both \ {who} PROVE Sampling(x)'
  <2>1. sampler'[x] = sampler[x] /\ Sampling(x)  BY <1>0, <1>1, <1>7 DEF SamplerType, SavedOnce
  <2>2. \/ store'.inFlight = store.inFlight \/ sampler[x].at # "append"
        \/ HasRow(rows', sampler[x].batch)
    BY <1>1, <1>2, <2>1 DEF Sampling
  <2> QED  BY <1>1, <2>1, <2>2, SamplingKept
<1> QED  BY <1>4, <1>5, <1>6, <1>7 DEF SavedOnce

\* The rows after a save: as they were, or one more that is apart from them.
LEMMA AppendEffect ==
    ASSUME TypeInv, Booked, RowsNamed, NEW batch, batch # {}, batch \subseteq WindowType,
           batch = store.inFlight \/ HasRow(rows, batch),
           rows' \in {rows, AppendTimeseries(rows, batch)}
    PROVE  /\ rows \subseteq rows'
           /\ rows' = AppendTimeseries(rows, batch) => HasRow(rows', batch)
           /\ \/ rows' = rows
              \/ LET r == [token |-> Token(batch), seqs |-> Seqs(batch)]
                 IN  /\ rows' = rows \cup {r} /\ batch = store.inFlight
                     /\ RowSeqs' = RowSeqs \cup Seqs(batch) /\ Seqs(batch) \cap RowSeqs = {}
<1> DEFINE r == [token |-> Token(batch), seqs |-> Seqs(batch)]
<1>1. CASE rows' = rows
  <2>1. rows' = AppendTimeseries(rows, batch) => HasRow(rows', batch)
    <3>1. CASE HasRow(rows, batch)  BY <1>1, <3>1
    <3>2. CASE ~ HasRow(rows, batch)
      <4>1. AppendTimeseries(rows, batch) = rows \cup {r}  BY <3>2 DEF AppendTimeseries, HasRow
      <4>2. r.token = Token(batch)  OBVIOUS
      <4> HIDE DEF r
      <4> QED  BY <4>1, <4>2 DEF HasRow
    <3> QED  BY <3>1, <3>2
  <2> QED  BY <1>1, <2>1
<1>2. CASE rows' # rows
  <2>1. rows' = AppendTimeseries(rows, batch)  BY <1>2
  <2>2. ~ HasRow(rows, batch)  BY <1>2, <2>1 DEF AppendTimeseries, HasRow
  <2>3. rows' = rows \cup {r}  BY <2>1, <2>2 DEF AppendTimeseries, HasRow
  <2>4. batch = store.inFlight  BY <2>2
  <2>5. Seqs(batch) \cap RowSeqs = {}  BY <2>2, <2>4 DEF RowsNamed, HasRow
  <2>6. r.token = Token(batch) /\ r.seqs = Seqs(batch)  OBVIOUS
  <2> HIDE DEF r
  <2>7. HasRow(rows', batch)  BY <2>3, <2>6 DEF HasRow
  <2>8. RowSeqs' = RowSeqs \cup Seqs(batch)  BY <2>3, <2>6 DEF RowSeqs
  <2> QED  BY <2>3, <2>4, <2>5, <2>7, <2>8 DEF r
<1> QED  BY <1>1, <1>2

\* A batch is written, as a row of its own, or was written already; or the
\* write failed, with or without its row.
LEMMA SaveSaves ==
    ASSUME TypeInv, SavedOnce, NEW who \in Both, Save(who) \/ SaveFails(who)
    PROVE  SavedOnce'
<1> DEFINE batch == sampler[who].batch
<1>0. sampler \in SamplerType /\ store \in StoreType  BY DEF TypeInv, AdminTypes
<1>1. /\ UNCHANGED <<store, history, ghost>> /\ Moving' = Moving
      /\ sampler[who].at = "append"
      /\ rows' \in {rows, AppendTimeseries(rows, batch)}
  BY DEF Save, SaveFails, Moving, adminVars
<1>2. /\ history /\ batch # {} /\ batch \subseteq ghost.accepted
      /\ batch = store.inFlight \/ HasRow(rows, batch)
  BY <1>1 DEF SavedOnce, Sampling
<1>3. batch \subseteq WindowType  BY <1>0 DEF SamplerType
<1>4. /\ rows \subseteq rows'
      /\ rows' = AppendTimeseries(rows, batch) => HasRow(rows', batch)
      /\ \/ rows' = rows
         \/ LET r == [token |-> Token(batch), seqs |-> Seqs(batch)]
            IN  /\ rows' = rows \cup {r} /\ batch = store.inFlight
                /\ RowSeqs' = RowSeqs \cup Seqs(batch) /\ Seqs(batch) \cap RowSeqs = {}
  <2> HIDE DEF batch
  <2> QED  BY <1>1, <1>2, <1>3, AppendEffect DEF SavedOnce
<1>5. Booked' /\ RowsNamed'
  <2>1. CASE rows' = rows
    BY <1>1, <2>1 DEF SavedOnce, Booked, AcceptedOnce, RowsNamed, RowSeqs, Moving, Seqs, Token
  <2>2. CASE rows' # rows
    <3> DEFINE r == [token |-> Token(batch), seqs |-> Seqs(batch)]
               F == Seqs(store.inFlight)
    <3>1. /\ rows' = rows \cup {r} /\ batch = store.inFlight
          /\ RowSeqs' = RowSeqs \cup F /\ F \cap RowSeqs = {}
      BY <1>4, <2>2
    <3>2. r.token = Token(store.inFlight) /\ r.seqs = F /\ r.token = <<Min(r.seqs), Max(r.seqs)>> /\ F # {}
      BY <1>2, <3>1, SeqsOfUnion DEF Token
    <3> HIDE DEF r, batch
    <3>3. \A q \in rows : q.seqs \subseteq RowSeqs  BY DEF RowSeqs
    <3>4. \A p, q \in rows' : p # q => p.seqs \cap q.seqs = {}
      BY <3>1, <3>2, <3>3, BookParts DEF SavedOnce
    <3>5. /\ Seqs(store'.inFlight) = F /\ Seqs(store'.pending) = Seqs(store.pending)
          /\ Seqs(ghost'.accepted) = Seqs(ghost.accepted)
      BY <1>1
    <3>6. store'.pending \cup store'.inFlight \subseteq ghost'.accepted
      BY <1>1 DEF SavedOnce, Booked
    <3> HIDE DEF F
    <3>7. /\ RowSeqs' \subseteq Seqs(ghost.accepted) /\ Moving \cap RowSeqs' = {}
          /\ Seqs(store.pending) \cap RowSeqs' = {}
          /\ history' => Seqs(ghost.accepted) = Seqs(store.pending) \cup F \cup RowSeqs' \cup Moving
      BY <1>1, <3>1, BookParts DEF SavedOnce, F
    <3>8. Booked'
      BY <1>1, <3>4, <3>5, <3>6, <3>7, BookParts, BooksNext DEF SavedOnce, F
    <3>9. RowsNamed'
      <4>1. \A q \in rows' : q.seqs # {} /\ q.token = <<Min(q.seqs), Max(q.seqs)>>
        BY <3>1, <3>2 DEF SavedOnce, RowsNamed
      <4>2. Token(store.inFlight)' = Token(store.inFlight) /\ Seqs(store.inFlight)' = F
        BY <1>1 DEF Token, Seqs, F
      <4>3. \E q \in rows' : q.token = Token(store.inFlight) /\ q.seqs = F
        BY <3>1, <3>2
      <4> QED  BY <4>1, <4>2, <4>3 DEF RowsNamed
    <3> QED  BY <3>8, <3>9
  <2> QED  BY <2>1, <2>2
<1>6. Sampling(who)'
  <2>1. CASE Save(who)
    <3>1. sampler'[who].at = "ack" /\ sampler'[who].batch = batch /\ rows' = AppendTimeseries(rows, batch)
      BY <1>0, <2>1 DEF Save, SamplerType
    <3>2. HasRow(rows', batch)  BY <1>4, <3>1
    <3> HIDE DEF batch
    <3> QED  BY <1>1, <1>2, <3>1, <3>2 DEF Sampling
  <2>2. CASE SaveFails(who)
    <3>1. sampler'[who].at = "run" /\ history'
      BY <1>0, <1>1, <1>2, <2>2 DEF SaveFails, Retry, SamplerType
    <3> QED  BY <3>1 DEF Sampling
  <2> QED  BY <2>1, <2>2
<1>7. ASSUME NEW x \in Both \ {who} PROVE Sampling(x)'
  <2>1. sampler'[x] = sampler[x] /\ Sampling(x)
    BY <1>0, <1>7 DEF Save, SaveFails, Retry, SamplerType, SavedOnce
  <2> QED  BY <1>1, <1>4, <2>1, SamplingKept
<1> QED  BY <1>5, <1>6, <1>7 DEF SavedOnce

\* A task whose windows are all saved is dropped; another is left as it is.
LEMMA CleanupEffect ==
    ASSUME NEW st \in StoreType
    PROVE  /\ CleanupTerminal(st).pending = st.pending /\ CleanupTerminal(st).inFlight = st.inFlight
           /\ CleanupTerminal(st) = Released => st.pending = {} /\ st.inFlight = {}
BY DEF CleanupTerminal, Released, StoreType

\* The batch in flight is confirmed, which has its row; another batch is not.
LEMMA ConfirmSaves ==
    ASSUME TypeInv, SavedOnce, NEW who \in Both, Confirm(who)
    PROVE  SavedOnce'
<1> DEFINE batch == sampler[who].batch
           acked == Acked(store, batch)
<1>0. sampler \in SamplerType /\ store \in StoreType /\ ghost \in GhostType  BY DEF TypeInv, AdminTypes
<1>1. /\ UNCHANGED <<rows, history, worker>> /\ Moving' = Moving /\ RowSeqs' = RowSeqs
      /\ sampler[who].at = "ack" /\ store' = AckHistory(store, batch)
      /\ sampler' = [sampler EXCEPT ![who] =
                [at |-> IF who = "final" /\ acked THEN "done" ELSE "run", batch |-> {}]]
  BY DEF Confirm, Moving, RowSeqs
<1>2. /\ ghost'.accepted = ghost.accepted
      /\ ghost'.left = (ghost.left \/ (who = "final" /\ acked /\ store.pending # {}))
      /\ ghost'.released = (ghost.released \/ (store.terminal /\ store' = Released))
  BY <1>0 DEF Confirm, GhostType
<1>3. history /\ HasRow(rows, batch)  BY <1>1 DEF SavedOnce, Sampling
<1>4. /\ ~ acked => store' = store
      /\ acked => store'.pending = store.pending /\ store'.inFlight = {} /\ store.inFlight # {}
                  /\ Token(store.inFlight) = Token(batch)
  <2>1. [store EXCEPT !.inFlight = {}] \in StoreType
        /\ [store EXCEPT !.inFlight = {}].pending = store.pending
        /\ [store EXCEPT !.inFlight = {}].inFlight = {}
    BY <1>0 DEF StoreType
  <2> QED  BY <1>1, <2>1, CleanupEffect DEF AckHistory, Acked
<1>5. store' = Released => store'.pending = {} /\ store'.inFlight = {}
  BY DEF Released
<1> HIDE DEF acked
<1>6. acked => HasRow(rows, store.inFlight) /\ Seqs(store.inFlight) \subseteq RowSeqs
  <2>1. acked => HasRow(rows, store.inFlight)  BY <1>3, <1>4 DEF HasRow
  <2> QED  BY <1>4, <2>1, FlightHasRow DEF SavedOnce
<1>7. ghost'.released /\ ~ ghost'.left => store'.pending = {} /\ store'.inFlight = {}
  BY <1>2, <1>4, <1>5, BookParts DEF SavedOnce
<1>8. Booked' /\ RowsNamed'
  <2>1. store'.pending \cup store'.inFlight \subseteq ghost'.accepted
    BY <1>2, <1>4 DEF SavedOnce, Booked
  <2>2. /\ Seqs(store'.pending) = Seqs(store.pending) /\ Seqs(ghost'.accepted) = Seqs(ghost.accepted)
        /\ \/ Seqs(store'.inFlight) = Seqs(store.inFlight)
           \/ Seqs(store'.inFlight) = {} /\ Seqs(store.inFlight) \subseteq RowSeqs
    <3>1. store'.pending = store.pending /\ ghost'.accepted = ghost.accepted  BY <1>2, <1>4
    <3>2. CASE acked
      <4>1. store'.inFlight = {} /\ Seqs(store.inFlight) \subseteq RowSeqs  BY <1>4, <1>6, <3>2
      <4>2. Seqs(store'.inFlight) = {}  BY <4>1 DEF Seqs
      <4> QED  BY <3>1, <4>1, <4>2
    <3>3. CASE ~ acked
      <4>1. store'.inFlight = store.inFlight  BY <1>4, <3>3
      <4> QED  BY <3>1, <4>1
    <3> QED  BY <3>2, <3>3
  <2>3. Booked'
    BY <1>1, <1>7, <2>1, <2>2, BookParts, BooksNext DEF SavedOnce
  <2>4. RowsNamed'
    <3>1. CASE acked  BY <1>1, <1>4, <3>1 DEF SavedOnce, RowsNamed
    <3>2. CASE ~ acked  BY <1>1, <1>4, <3>2 DEF SavedOnce, RowsNamed, RowSeqs, Seqs, Token
    <3> QED  BY <3>1, <3>2
  <2> QED  BY <2>3, <2>4
<1>9. Sampling(who)'
  <2>1. sampler'[who].at \in {"done", "run"}  BY <1>0, <1>1 DEF SamplerType
  <2> QED  BY <1>1, <1>3, <2>1 DEF Sampling
<1>10. ASSUME NEW x \in Both \ {who} PROVE Sampling(x)'
  <2>1. sampler'[x] = sampler[x] /\ Sampling(x)  BY <1>0, <1>1, <1>10 DEF SamplerType, SavedOnce
  <2>2. \/ store'.inFlight = store.inFlight \/ sampler[x].at # "append"
        \/ HasRow(rows', sampler[x].batch)
    BY <1>1, <1>4, <1>6, <2>1 DEF Sampling
  <2> QED  BY <1>1, <1>2, <2>1, <2>2, SamplingKept
<1> QED  BY <1>8, <1>9, <1>10 DEF SavedOnce

\* An accepted window is on its way to the history.
LEMMA CommitSaves ==
    ASSUME TypeInv, CountInv, Generations, HeldOnce, DropsInOrder, StateIsAccepted, SavedOnce, Commit
    PROVE  SavedOnce'
<1> DEFINE f == worker.env.payload
           w == f.window
           v == Verdict(store.state, w, f.dropped)
<1>0. ghost \in GhostType /\ store \in StoreType  BY DEF TypeInv, AdminTypes
<1>1. worker.at = "commit" /\ UNCHANGED <<sampler, rows, history>>
  BY DEF Commit, historyVars
<1>2. Moving = {} /\ RowSeqs' = RowSeqs  BY <1>1 DEF Moving, RowSeqs
<1>3. v # "regress"  BY <1>1, NeverRegresses
<1>4. v \in {"mismatch", "accept", "duplicate", "regress"}  BY CommitEffect
<1>5. CASE v = "accept"
  <2>1. Accepts  BY <1>5, CommitEffect
  <2>2. /\ store'.pending = store.pending /\ store'.inFlight = store.inFlight
        /\ ghost'.accepted = ghost.accepted \cup {w}
        /\ ghost'.released = ghost.released /\ ghost'.left = ghost.left
    BY <1>0, <2>1 DEF Accepts, StoreType, GhostType
  <2>3. Moving' = {w.seq}
    <3>1. worker'.at = "append" /\ worker'.env = worker.env  BY <1>1, <2>1, WorkerTyped DEF Accepts
    <3> QED  BY <3>1 DEF Moving
  <2>4. w.seq \notin Seqs(ghost.accepted)
    <3>1. w \in ghost.taken  BY <1>1, WorkerTaken
    <3>2. w \notin ghost.accepted
      <4> DEFINE a == <<"worker", 0>>
      <4>1. Holding[a] = w /\ a \in Places  BY <1>1, OnePlace DEF WorkerWindow
      <4> HIDE DEF a, w
      <4> QED  BY <4>1, NotAccepted DEF Once
    <3>3. ghost.accepted \subseteq ghost.taken  BY DEF HeldOnce
    <3>4. \A u \in ghost.taken : u.seq = w.seq => u = w  BY <3>1 DEF CountInv, TakenInOrder
    <3> QED  BY <3>2, <3>3, <3>4 DEF Seqs
  <2>5. Seqs(ghost'.accepted) = Seqs(ghost.accepted) \cup {w.seq}
    <3> HIDE DEF w
    <3> QED  BY <2>2, SeqsMore
  <2>6. Booked'
    <3>1. store'.pending \cup store'.inFlight \subseteq ghost'.accepted
      BY <2>2 DEF SavedOnce, Booked
    <3>2. Seqs(store'.pending) = Seqs(store.pending) /\ Seqs(store'.inFlight) = Seqs(store.inFlight)
      BY <2>2
    <3> HIDE DEF w
    <3>3. \A r, q \in rows' : r # q => r.seqs \cap q.seqs = {}  BY <1>1, BookParts DEF SavedOnce
    <3>4. ghost'.released /\ ~ ghost'.left => store'.pending = {} /\ store'.inFlight = {}
      BY <2>2, BookParts DEF SavedOnce
    <3> QED  BY <1>1, <1>2, <2>3, <2>4, <2>5, <3>1, <3>2, <3>3, <3>4, BookParts, BooksNext DEF SavedOnce
  <2>7. RowsNamed'
    BY <1>1, <2>2 DEF SavedOnce, RowsNamed, RowSeqs, Seqs, Token
  <2>8. \A x \in Both : Sampling(x)'
    BY <1>1, <2>2, SamplingKept DEF SavedOnce
  <2> QED  BY <2>6, <2>7, <2>8 DEF SavedOnce
<1>6. CASE v \in {"mismatch", "duplicate"}
  <2>1. UNCHANGED ghost /\ \E err \in BOOLEAN : Refuses(err)  BY <1>6, CommitEffect
  <2>2. UNCHANGED store /\ worker'.at = "idle"  BY <2>1 DEF Refuses
  <2>3. Moving' = Moving  BY <1>2, <2>2 DEF Moving
  <2> QED  BY <1>1, <2>1, <2>2, <2>3, QuietSaves DEF SavedQuiet
<1> HIDE DEF v
<1> QED  BY <1>3, <1>4, <1>5, <1>6

\* The accepted window is pending, whether or not the task still has windows.
LEMMA AppendPendingSaves ==
    ASSUME TypeInv, HeldOnce, SavedOnce, AppendPending
    PROVE  SavedOnce'
<1> DEFINE w == worker.env.payload.window
           over == sampler.final.at = "done" \/ ghost.released
<1>0. ghost \in GhostType /\ store \in StoreType  BY DEF TypeInv, AdminTypes
<1>1. worker.at = "append" /\ worker'.at = "idle" /\ UNCHANGED <<sampler, rows, history>> /\ RowSeqs' = RowSeqs
  BY DEF AppendPending, historyVars, RowSeqs
<1>2. /\ store'.pending = store.pending \cup {w} /\ store'.inFlight = store.inFlight
      /\ ghost'.accepted = ghost.accepted /\ ghost'.released = ghost.released
      /\ ghost'.left = (ghost.left \/ over)
  BY <1>0 DEF AppendPending, StoreType, GhostType
<1>3. Moving = {w.seq} /\ Moving' = {}  BY <1>1 DEF Moving
<1>4. w \in ghost.accepted  BY <1>1 DEF HeldOnce
<1>5. Seqs(store'.pending) = Seqs(store.pending) \cup {w.seq} /\ Seqs(store'.inFlight) = Seqs(store.inFlight)
  <2> HIDE DEF w
  <2> QED  BY <1>2, SeqsMore
<1> HIDE DEF w
<1>6. Booked'
  <2>1. store'.pending \cup store'.inFlight \subseteq ghost'.accepted
    BY <1>2, <1>4 DEF SavedOnce, Booked
  <2>2. ~ (ghost'.released /\ ~ ghost'.left)  BY <1>2
  <2>3. \A r, q \in rows' : r # q => r.seqs \cap q.seqs = {}  BY <1>1, BookParts DEF SavedOnce
  <2>4. Seqs(ghost'.accepted) = Seqs(ghost.accepted)  BY <1>2
  <2> QED  BY <1>1, <1>3, <1>5, <2>1, <2>2, <2>3, <2>4, BookParts, BooksNext DEF SavedOnce
<1>7. RowsNamed'
  BY <1>1, <1>2 DEF SavedOnce, RowsNamed, RowSeqs, Seqs, Token
<1>8. \A x \in Both : Sampling(x)'
  BY <1>1, <1>2, SamplingKept DEF SavedOnce
<1> QED  BY <1>6, <1>7, <1>8 DEF SavedOnce

\* The task is over, its windows saved, or there is no history for them.
LEMMA TerminalSaves ==
    ASSUME TypeInv, SavedOnce, MarkTaskTerminal \/ DropTask
    PROVE  SavedOnce'
<1>0. ghost \in GhostType /\ store \in StoreType  BY DEF TypeInv, AdminTypes
<1>1. UNCHANGED <<sampler, rows, history>> /\ Moving' = Moving /\ RowSeqs' = RowSeqs
  BY DEF MarkTaskTerminal, DropTask, Moving, RowSeqs
<1>2. ghost'.accepted = ghost.accepted /\ ghost'.left = ghost.left
  BY <1>0 DEF MarkTaskTerminal, DropTask, GhostType
<1>3. \/ /\ store'.pending = store.pending /\ store'.inFlight = store.inFlight
         /\ ghost'.released = ghost.released \/ (store'.pending = {} /\ store'.inFlight = {})
      \/ ~ history /\ store'.pending = {} /\ store'.inFlight = {}
  <2>1. CASE MarkTaskTerminal
    <3> DEFINE st == [store EXCEPT !.terminal = TRUE]
    <3>1. st \in StoreType /\ st.pending = store.pending /\ st.inFlight = store.inFlight
      BY <1>0 DEF StoreType
    <3>2. /\ store' = CleanupTerminal(st)
          /\ ghost' = IF CleanupTerminal(st) = Released THEN [ghost EXCEPT !.released = TRUE] ELSE ghost
      BY <2>1 DEF MarkTaskTerminal
    <3> HIDE DEF st
    <3>3. store'.pending = store.pending /\ store'.inFlight = store.inFlight
          /\ (store' = Released => store'.pending = {} /\ store'.inFlight = {})
      BY <3>1, <3>2, CleanupEffect
    <3> QED  BY <3>2, <3>3
  <2>2. CASE DropTask
    BY <2>2 DEF DropTask, Released
  <2> QED  BY <2>1, <2>2
<1>4. Booked'
  <2>1. store'.pending \cup store'.inFlight \subseteq ghost'.accepted
    BY <1>2, <1>3 DEF SavedOnce, Booked
  <2>2. ghost'.released /\ ~ ghost'.left => store'.pending = {} /\ store'.inFlight = {}
    BY <1>2, <1>3, BookParts DEF SavedOnce
  <2>3. Seqs(ghost'.accepted) = Seqs(ghost.accepted)  BY <1>2
  <2>4. \/ Seqs(store'.pending) = Seqs(store.pending) /\ Seqs(store'.inFlight) = Seqs(store.inFlight)
        \/ ~ history /\ Seqs(store'.pending) = {} /\ Seqs(store'.inFlight) = {}
    BY <1>3, SeqsOfUnion
  <2> QED  BY <1>1, <2>1, <2>2, <2>3, <2>4, BookParts, BooksNext DEF SavedOnce
<1>5. RowsNamed'
  <2>1. CASE store'.inFlight = store.inFlight
    BY <1>1, <2>1 DEF SavedOnce, RowsNamed, RowSeqs, Seqs, Token
  <2>2. CASE store'.inFlight = {}
    BY <1>1, <2>2 DEF SavedOnce, RowsNamed
  <2> QED  BY <1>3, <2>1, <2>2
<1>6. ASSUME NEW x \in Both PROVE Sampling(x)'
  <2>1. ~ history => sampler[x].at # "append"  BY DEF SavedOnce, Sampling
  <2> QED  BY <1>1, <1>2, <1>3, <2>1, SamplingKept DEF SavedOnce
<1> QED  BY <1>4, <1>5, <1>6 DEF SavedOnce

\* Whatever is saved, and however often, a window is in one place.
LEMMA SavedStep ==
    ASSUME TypeInv, CountInv, Generations, Queued, HeldOnce, DropsInOrder, StateIsAccepted, SavedOnce, [Next]_vars
    PROVE  SavedOnce'
<1>1. CASE StartSampler \/ PeekNothing \/ LoopExit \/ FinalFlush  BY <1>1, SamplerSaves
<1>2. CASE MarkTaskTerminal \/ DropTask  BY <1>2, TerminalSaves
<1>3. ASSUME NEW who \in Both, Peek(who) \/ Save(who) \/ SaveFails(who) \/ Confirm(who) PROVE SavedOnce'
  BY <1>3, PeekSaves, SaveSaves, ConfirmSaves
<1> QED  BY <1>1, <1>2, <1>3, SavedSteps, QuietSaves, CommitSaves, AppendPendingSaves
-----------------------------------------------------------------------------
(* The initial states.                                                      *)

\* The initial state has the types of the pipeline.
LEMMA InitTypes ==
    ASSUME PipelineAssumption, Init
    PROVE  TypeInv
<1>1. 0 \in Measurements /\ ApdexBefore \in Nat /\ ApdexT \in Nat
  BY DEF PipelineAssumption, Measurements
<1>2. EarlierFrame \in WindowType  BY <1>1 DEF EarlierFrame, WindowType, Earlier
<1>3. collector \in CollectorType  BY <1>1, CollectorMade DEF Init, Earlier
<1>4. latest \in LatestType
  <2>1. PICK left \in {None, [window |-> EarlierFrame, dropped |-> 0]} : latest = LatestMetrics(left)
    BY DEF Init
  <2>2. left \in FrameType \cup {None} /\ (left # None) \in BOOLEAN  BY <1>2, <2>1 DEF FrameType
  <2> QED  BY <2>1, <2>2 DEF LatestMetrics, LatestType
<1>5. /\ recorder \in [Recorders -> SUBSET Measurements] /\ phase \in {"reset", "run", "flush", "flushed"}
      /\ reporter \in ReporterType /\ sender \in SenderType
  BY DEF Init, NewStressReporter, ReporterType, SenderType
<1>6. wire \in Seq(EnvelopeType)  BY EmptySeq DEF Init
<1>7. IngestorTyped(ingestor)
  <2>1. ingestor = [slots |-> <<>>, ready |-> <<>>, errors |-> {}, ended |-> {}]  BY DEF Init, NewIngestor
  <2>2. ingestor.slots = <<>> /\ ingestor.ready = <<>> /\ ingestor.errors = {} /\ ingestor.ended = {}
    BY <2>1
  <2>3. DOMAIN <<>> = {} /\ <<>> \in [{} -> SlotType] /\ <<>> \in Seq(Keys)  BY EmptySeq
  <2> QED  BY <2>1, <2>2, <2>3 DEF IngestorTyped
<1>8. worker \in WorkerType /\ store \in StoreType /\ history \in BOOLEAN
  BY DEF Init, WorkerType, StoreType, Released
<1>9. sampler \in SamplerType
  BY DEF Init, NewSampler, SamplerType, Both
<1>10. ghost \in GhostType /\ rows = {}
  BY DEF Init, GhostType
<1> QED
  BY <1>3, <1>4, <1>5, <1>6, <1>7, <1>8, <1>9, <1>10 DEF TypeInv, AgentTypes, AdminTypes

\* Nothing has been measured yet.
LEMMA InitCounts ==
    ASSUME PipelineAssumption, Init
    PROVE  CountInv
<1>1. /\ collector.epoch = 1 /\ collector.cum = {Earlier} /\ collector.window = {} /\ collector.seen = {}
      /\ ghost.taken = {} /\ ghost.reset = {} /\ phase = "reset" /\ reporter.next = 1
      /\ \A r \in Recorders : recorder[r] = {}
  BY DEF Init, NewStressReporter
<1>2. Unwindowed = {} /\ Owned = {}
  BY <1>1 DEF Unwindowed, InRecorders, Owned, OwnedBy
<1>3. Numbered
  <2>1. IsFiniteSet({}) /\ Cardinality({}) = 0  BY FS_EmptySet
  <2>2. 1..0 = {}  OBVIOUS
  <2> QED  BY <1>1, <2>1, <2>2 DEF Numbered
<1>4. Apart  BY <1>1, <1>2 DEF Apart
<1>5. TakenInOrder  BY <1>1 DEF TakenInOrder
<1>6. Cumulated  BY <1>1, <1>2 DEF Cumulated
<1> QED  BY <1>3, <1>4, <1>5, <1>6 DEF CountInv

\* No frame of the task is on its way, and at most the earlier task's last one.
LEMMA InitFlow ==
    ASSUME PipelineAssumption, Init
    PROVE  StreamInv /\ Queued /\ HeldOnce /\ DropsInOrder
<1>1. /\ wire = <<>> /\ DOMAIN ingestor.slots = {} /\ ingestor.ready = <<>> /\ worker.at = "idle"
      /\ sender.stress = None /\ sender.system = None /\ sender.at = "wait" /\ sender.up = TRUE
      /\ sender.generation = 1 /\ sender.current = 1 /\ reporter.tick = None /\ reporter.stop = None
      /\ ghost.taken = {} /\ ghost.accepted = {} /\ store.state = None
      /\ latest.stress \in {None, [window |-> EarlierFrame, dropped |-> 0]}
  BY DEF Init, NewIngestor, NewStressReporter, Released, LatestMetrics
<1>2. DOMAIN wire = {} /\ DOMAIN ingestor.ready = {}  BY <1>1
<1>3. StreamInv  BY <1>1, <1>2 DEF StreamInv, SenderHolds, Generations, Kinds
<1>4. Queued
  <2>1. IsFiniteSet({}) /\ Cardinality({}) = 0 /\ SlotCapacity \in Nat  BY FS_EmptySet DEF PipelineAssumption
  <2> QED  BY <1>1, <1>2, <2>1 DEF Queued, Distinct
<1>5. FrameWindow(latest.stress) \in {None, EarlierFrame}
  BY <1>1 DEF FrameWindow
<1>6. HeldOnce
  <2>1. ASSUME NEW p \in Places PROVE Holding[p] \in {None, EarlierFrame} /\ Holding[p] = Held(p)
    <3>1. /\ WireWindow(p[2]) = None /\ SlotWindow(<<p[2], "stress">>) = None /\ WorkerWindow = None
          /\ FrameWindow(sender.stress) = None
      BY <1>1, <1>2 DEF WireWindow, SlotWindow, WorkerWindow, FrameWindow
    <3>2. p[1] \in {"tick", "stop", "latest", "sender", "wire", "slot", "worker"}  BY Unmoved
    <3>3. Held(p) \in {None, EarlierFrame}  BY <1>1, <1>5, <3>1, <3>2 DEF Held
    <3> QED  BY <3>3 DEF Holding
  <2>2. EarlierFrame.task # Task  BY DEF EarlierFrame, Earlier, Task
  <2>3. \A p \in Places : Holding[p] # None => Holding[p].task # Task  BY <2>1, <2>2
  <2>4. Once(Holding, {}, {})  BY <2>1, <2>3 DEF Once
  <2> QED  BY <1>1, <2>4, HeldOnceParts
<1>7. DropsInOrder
  <2>1. FrameDrops(latest.stress) = {} /\ FrameDrops(sender.stress) = {}
    BY <1>1 DEF FrameDrops, EarlierFrame, Earlier, Task
  <2>2. /\ StoreDrops = {} /\ WorkerDrops = {} /\ SlotDrops = {} /\ SenderDrops = {} /\ LatestDrops = {}
        /\ \A i \in Nat : WireDrops[i] = {}
    BY <1>1, <1>2, <2>1 DEF StoreDrops, WorkerDrops, SlotDrops, SenderDrops, LatestDrops, WireDrops
  <2>3. InLine({}, {}, {}, WireDrops, {}, {}, latest.stressTask = Task, latest.stressDrops)
    BY <2>2 DEF InLine, Before
  <2> QED  BY <1>1, <2>2, <2>3 DEF DropsInOrder
<1> QED  BY <1>3, <1>4, <1>6, <1>7

\* Nothing is accepted, and no sampler runs.
LEMMA InitHistory ==
    ASSUME Init
    PROVE  StateIsAccepted /\ SavedOnce /\ NoFalseAlarm
<1>1. /\ store.state = None /\ store.pending = {} /\ store.inFlight = {} /\ rows = {} /\ worker.at = "idle"
      /\ ghost.accepted = {} /\ ghost.alarm = {} /\ \A who \in Both : sampler[who].at = "off"
  BY DEF Init, Released, NewSampler, Both
<1>2. Seqs({}) = {} /\ RowSeqs = {} /\ Moving = {}  BY <1>1 DEF Seqs, RowSeqs, Moving
<1>3. AcceptedOnce
  <2>1. (IF worker.at = "append" THEN {worker.env.payload.window.seq} ELSE {}) = {}  BY <1>1
  <2>2. /\ Seqs(store.pending) = {} /\ Seqs(store.inFlight) = {} /\ Seqs(ghost.accepted) = {}  BY <1>1, <1>2
  <2> QED  BY <1>1, <1>2, <2>1, <2>2 DEF AcceptedOnce
<1>4. Booked  BY <1>1, <1>2, <1>3 DEF Booked
<1>5. RowsNamed  BY <1>1 DEF RowsNamed
<1>6. \A who \in Both : Sampling(who)  BY <1>1 DEF Sampling
<1> QED  BY <1>1, <1>4, <1>5, <1>6 DEF StateIsAccepted, SavedOnce, NoFalseAlarm

-----------------------------------------------------------------------------
(* What the invariant says.                                                 *)

\* A slot that is in the ready queue is in it at one place.
LEMMA ReadyOnce ==
    ASSUME Queued, NEW k
    PROVE  /\ Among(k, ingestor.ready) => InReady(k) = 1
           /\ ~ Among(k, ingestor.ready) => InReady(k) = 0
<1> DEFINE at == {i \in DOMAIN ingestor.ready : ingestor.ready[i] = k}
<1>1. CASE Among(k, ingestor.ready)
  <2>1. PICK i \in DOMAIN ingestor.ready : ingestor.ready[i] = k  BY <1>1 DEF Among
  <2>2. at = {i}  BY <2>1 DEF Queued, Distinct
  <2>3. Cardinality({i}) = 1  BY FS_Singleton
  <2> QED  BY <1>1, <2>2, <2>3 DEF InReady
<1>2. CASE ~ Among(k, ingestor.ready)
  <2>1. at = {}  BY <1>2 DEF Among
  <2> QED  BY <1>2, <2>1, FS_EmptySet DEF InReady
<1> QED  BY <1>1, <1>2

\* Every slot that holds an envelope is served.
LEMMA Served ==
    ASSUME PipelineAssumption, TypeInv, Queued
    PROVE  SlotsAreServed
<1>1. Len(ingestor.ready) <= SlotCapacity
  <2>1. SlotCapacity \in Nat  BY DEF PipelineAssumption
  <2> QED  BY <2>1, ReadyBound DEF Queued
<1>2. ASSUME NEW k \in DOMAIN ingestor.slots
      PROVE  InReady(k) + (IF worker.at # "idle" /\ worker.key = k THEN 1 ELSE 0) = 1
  <2>1. Among(k, ingestor.ready) <=> ~ Working(k)  BY DEF Queued
  <2>2. CASE Working(k)
    <3>1. InReady(k) = 0  BY <2>1, <2>2, ReadyOnce
    <3> QED  BY <2>2, <3>1 DEF Working
  <2>3. CASE ~ Working(k)
    <3>1. InReady(k) = 1  BY <2>1, <2>3, ReadyOnce
    <3> QED  BY <2>3, <3>1 DEF Working
  <2> QED  BY <2>2, <2>3
<1> QED  BY <1>1, <1>2 DEF SlotsAreServed

\* A frame whose window was taken, or is the earlier task's, is a frame.
LEMMA FrameHeld ==
    ASSUME NEW f \in FrameType, f.window \in ghost.taken \cup {EarlierFrame}
    PROVE  f \in Frames
BY DEF FrameType, Frames

\* The frames on their way are of windows that were taken.
LEMMA TypesHold ==
    ASSUME PipelineAssumption, TypeInv, Generations, HeldOnce, SavedOnce
    PROVE  TypeOK
<1>0. /\ collector \in CollectorType /\ latest \in LatestType /\ sender \in SenderType
      /\ wire \in Seq(EnvelopeType) /\ worker \in WorkerType /\ ghost \in GhostType
  BY DEF TypeInv, AgentTypes, AdminTypes
<1>1. \A p \in Places : Holding[p] # None => Holding[p] \in ghost.taken \cup {EarlierFrame}
  BY NotAccepted DEF Once
<1>2. ASSUME NEW f \in FrameType \cup {None}, NEW p \in Places, Holding[p] = FrameWindow(f)
      PROVE  f \in Frames \cup {None}
  <2>1. CASE f # None
    <3>1. f \in FrameType /\ f.window \in WindowType /\ Holding[p] = f.window
      BY <1>2, <2>1 DEF FrameType, FrameWindow
    <3>2. f.window \in ghost.taken \cup {EarlierFrame}  BY <1>1, <3>1, NoneIsNothing
    <3> QED  BY <3>1, <3>2, FrameHeld
  <2> QED  BY <2>1
<1>3. latest.stress \in Frames \cup {None}
  <2>1. latest.stress \in FrameType \cup {None}  BY <1>0 DEF LatestType
  <2> QED  BY <1>2, <2>1, OnePlace
<1>4. sender.stress \in Frames \cup {None}
  <2>1. sender.stress \in FrameType \cup {None}  BY <1>0 DEF SenderType
  <2> QED  BY <1>2, <2>1, OnePlace
<1>5. ASSUME NEW i \in 1 .. Len(wire), wire[i].kind = "stress"
      PROVE  wire[i].payload \in Frames
  <2> DEFINE e == wire[i]
             f == e.payload
  <2>1. i \in Nat /\ i \in DOMAIN wire /\ e \in EnvelopeType /\ e # None
    <3>1. i \in Nat /\ i \in DOMAIN wire /\ e \in EnvelopeType  BY <1>0
    <3> QED  BY <3>1, NoneIsNothing
  <2>2. f \in FrameType /\ f # None
    <3>1. f \in FrameType  BY <1>5, <2>1 DEF EnvelopeType
    <3> QED  BY <3>1, NoneIsNothing
  <2>3. WireWindow(i) = f.window  BY <1>5, <2>1 DEF WireWindow, EnvelopeWindow
  <2>4. Holding[<<"wire", i>>] = f.window /\ <<"wire", i>> \in Places  BY <2>1, <2>3, OnePlace
  <2> HIDE DEF f
  <2>5. f.window \in WindowType  BY <2>2 DEF FrameType
  <2>6. f.window \in ghost.taken \cup {EarlierFrame}  BY <1>1, <2>4, <2>5, NoneIsNothing
  <2> QED  BY <2>2, <2>6, FrameHeld DEF f
<1>6. store.pending \cup store.inFlight \subseteq ghost.taken
  BY DEF SavedOnce, Booked, HeldOnce
<1>7. collector.cum \cup collector.window \subseteq Measurements  BY <1>0 DEF CollectorType
<1>8. \A w \in ghost.taken : w.own \cup w.cum \subseteq Measurements  BY <1>0, WindowFields DEF GhostType
<1>9. sender.current \in {0, sender.generation}  BY DEF Generations
<1>10. worker.at \in {"idle", "commit", "append"}  BY <1>0 DEF WorkerType
<1> QED  BY <1>3, <1>4, <1>5, <1>6, <1>7, <1>8, <1>9, <1>10 DEF TypeOK

\* Each measurement is counted once, from the robot to the row.
LEMMA Measured ==
    ASSUME PipelineAssumption, PipelineInv
    PROVE  MeasuredOnce
<1>1. TypeOK  BY TypesHold DEF PipelineInv, StreamInv
<1>2. RecordedOnce  BY CountedOnce DEF PipelineInv
<1> QED  BY <1>1, <1>2 DEF PipelineInv, MeasuredOnce, SavedOnce, Booked

-----------------------------------------------------------------------------
(* The theorems.                                                            *)

\* The invariant is inductive: the collector's counts add up, each window is
\* in one place of its way, drop counts never fall along it, and what the
\* store accepts is booked once (executeTask, LatestMetrics, SendLoop,
\* Ingestor, AcceptWithDrops, PeekHistory, AckHistory).
THEOREM PipelineInductive == Spec => []PipelineInv
<1> USE PipelineAssumption
<1>1. Init => PipelineInv
  <2> SUFFICES ASSUME Init PROVE PipelineInv
    OBVIOUS
  <2> QED  BY InitTypes, InitCounts, InitFlow, InitHistory DEF PipelineInv
<1>2. PipelineInv /\ [Next]_vars => PipelineInv'
  <2> SUFFICES ASSUME PipelineInv, [Next]_vars PROVE PipelineInv'
    OBVIOUS
  <2>0. /\ TypeInv /\ CountInv /\ Numbered /\ SenderHolds /\ Generations /\ Queued /\ HeldOnce
        /\ DropsInOrder /\ StateIsAccepted /\ SavedOnce /\ NoFalseAlarm
    BY DEF PipelineInv, StreamInv, CountInv
  <2>1. TypeInv'  BY <2>0, AgentTypesStep, AdminTypesStep DEF TypeInv
  <2>2. CountInv'  BY <2>0, CountStep
  <2>3. StreamInv'  BY <2>0, SenderHoldsStep, GenerationsStep DEF StreamInv
  <2>4. Queued'  BY <2>0, QueuedStep
  <2>5. HeldOnce'  BY <2>0, HeldOnceStep
  <2>6. DropsInOrder'  BY <2>0, DropsStep
  <2>7. StateIsAccepted' /\ NoFalseAlarm'  BY <2>0, AcceptStep
  <2>8. SavedOnce'  BY <2>0, SavedStep
  <2> QED  BY <2>1, <2>2, <2>3, <2>4, <2>5, <2>6, <2>7, <2>8 DEF PipelineInv
<1> QED  BY <1>1, <1>2, PTL DEF Spec

\* No frame is stranded in the ingestor: a slot that holds one is in the ready
\* queue once or with the worker, and the queue never outgrows the table
\* (Ingestor.Offer, processKey).
THEOREM PipelineSlotsAreServed == Spec => []SlotsAreServed
<1> USE PipelineAssumption
<1>1. PipelineInv => SlotsAreServed  BY Served DEF PipelineInv
<1> QED  BY <1>1, PipelineInductive, PTL

\* A measurement counts once: in one window, in one accepted window, in one
\* row of the history; the cumulative counters are the sum of the windows, and
\* the store never takes a reordered, restored or resent frame for a loss.
THEOREM PipelineMeasuredOnce == Spec => []MeasuredOnce
<1> USE PipelineAssumption
<1>1. PipelineInv => MeasuredOnce  BY Measured
<1> QED  BY <1>1, PipelineInductive, PTL
=============================================================================
