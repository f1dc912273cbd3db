---------------------------- MODULE MetricsView ----------------------------
(***************************************************************************)
(* What the numbers are: how the collector of an agent counts an action    *)
(* (monitor/collector.go), what a report holds (monitor/snapshot.go,       *)
(* monitor/histogram.go), how the admin validates it                       *)
(* (admin/metrics/window_store.go) and what it makes of the reports of     *)
(* several agents: the panel of a running task (admin/metrics/             *)
(* aggregator.go) and the point of its trend (admin/metrics/sampler.go).   *)
(*                                                                         *)
(* A report arrives in the step that makes it: the queues and the stream   *)
(* between the two are the module MetricsPipeline, and so is Reset.        *)
(* Averages are exact fractions; the sketch of a distribution is the       *)
(* number of its samples at each duration.  Bytes of the connections,      *)
(* which are treated as the samples are, and texts of errors are left out. *)
(***************************************************************************)
EXTENDS Integers, Sequences, FiniteSets, SequencesExt, FiniteSetsExt, Functions

CONSTANTS
    Agents,
    Samples,      \* measurements of one action: what recordAction is given
    Durations,    \* the durations they hold, none below zero
    Codes,        \* error codes
    Hooks,        \* the hooks of robots and connections that are called
    Stages,       \* timed parts of an action beside "client" and "timeout"
    ApdexT,       \* the Apdex threshold
    Every,        \* the interval of the reporter, in seconds
    Step,         \* seconds from one instant of the model to the next
    MaxSamples, MaxHooks, MaxTime, MaxChanges   \* bounds

VARIABLES
    collector,   \* MetricsCollector of each agent
    node,        \* the registry's view of the agent
    store,       \* WindowStore.stateShards: the last report of each agent
    pending,     \* WindowStore.pendingHistory
    rejected,    \* whether a report has been refused
    now,
    changes,     \* hooks, registry changes, panels and points so far
    ghost        \* the measurements behind each collector and each report

vars == <<collector, node, store, pending, rejected, now, changes, ghost>>

-----------------------------------------------------------------------------
(* Distributions: LatencyHistogram and HistogramSnapshot.                  *)

Nil == -1
Infinity == 1000000
Quantiles == {50, 90, 95, 99}
NoSketch == [d \in Durations |-> 0]
newLatencyHistogram == [count |-> 0, sum |-> 0, min |-> Infinity, max |-> 0, sketch |-> NoSketch]
EmptySnapshot == [count |-> 0, sum |-> 0, min |-> Nil, max |-> Nil, sketch |-> NoSketch,
                  p |-> [q \in Quantiles |-> Nil]]

\* LatencyHistogram.Record, for a duration that is not negative.
Record(h, d) ==
    [count |-> h.count + 1, sum |-> h.sum + d, min |-> Min({h.min, d}), max |-> Max({h.max, d}),
     sketch |-> [h.sketch EXCEPT ![d] = @ + 1]]

\* DDSketch: its number of samples, and the samples of the given ranks.
SketchCount(sketch) == MapThenSumSet(LAMBDA d: sketch[d], Durations)
GetValuesAtQuantiles(sketch) ==
    LET below == [d \in Durations |-> MapThenSumSet(LAMBDA e: sketch[e], {e \in Durations: e <= d})]
        count == SketchCount(sketch)
    IN  [q \in Quantiles |-> Min({d \in Durations: 100 * below[d] > q * (count - 1)})]

\* histogramSnapshotFromSketch
HistogramSnapshot(h) ==
    IF h.count = 0 THEN EmptySnapshot
    ELSE LET values == GetValuesAtQuantiles(h.sketch)
         IN  [count |-> h.count, sum |-> h.sum, min |-> h.min, max |-> h.max, sketch |-> h.sketch,
              p |-> [q \in Quantiles |-> Max({h.min, Min({h.max, values[q]})})]]

\* MergeHistograms accepts a snapshot that is empty or whose sketch holds its
\* samples; an error of it is an error of the caller.
Mergeable(h) ==
    h.count # 0 => /\ Nil \notin {h.min, h.max} \union {h.p[q]: q \in Quantiles}
                   /\ SketchCount(h.sketch) = h.count

MergeHistograms(hs) ==
    LET Add(m, h) == [count |-> m.count + h.count, sum |-> m.sum + h.sum,
                      min |-> Min({m.min, h.min}), max |-> Max({m.max, h.max}),
                      sketch |-> [d \in Durations |-> m.sketch[d] + h.sketch[d]]]
    IN  HistogramSnapshot(FoldLeft(Add, newLatencyHistogram, SelectSeq(hs, LAMBDA h: h.count > 0)))

-----------------------------------------------------------------------------
(* The collector: actionMetrics and recordAction.                          *)

Results == {"success", "failure", "timeout", "canceled"}
Completed == Results \ {"canceled"}
Counters == Results \union {"executing", "rtt", "rttFailed", "satisfied", "tolerating",
                            "wait", "ready", "listenTimeout", "wall", "send", "recv", "bytes"}
Costs == Stages \union {"client", "timeout"}
Gauges == {"started", "running", "stopped", "errored",
           "established", "active", "closed", "failed", "dropped", "stage"}
Names == {s.name: s \in Samples}

NoCounts == [c \in Counters |-> 0]
NoCosts == [p \in Costs |-> 0]
newActionMetrics ==
    [n |-> NoCounts, cost |-> NoCosts, ns |-> NoCosts,
     rtt |-> newLatencyHistogram, wait |-> newLatencyHistogram, wall |-> newLatencyHistogram,
     errors |-> [e \in Codes |-> 0]]
NoActions == [names |-> <<>>, actions |-> [x \in Names |-> newActionMetrics],
              total |-> 0, invalid |-> 0]
NewCollector == [cum |-> NoActions, win |-> NoActions, gauge |-> [g \in Gauges |-> 0],
                 sequence |-> 0, since |-> 0]

SumSeq(s) == FoldLeft(LAMBDA x, y: x + y, 0, s)
AddCounts(f, g) == [x \in DOMAIN f |-> f[x] + g[x]]
Bool01(b) == IF b THEN 1 ELSE 0

\* Which samples are timed: all but the cancellations booked for actions that
\* never ran.
Timed(s) == s.result # "canceled" \/ s.wall > 0
wireRTTSum(s) == SumSeq(SelectSeq(s.rtts, LAMBDA d: d > 0))
Responses(s) == SelectSeq(s.rtts, LAMBDA d: d >= 0)
Waits(s) == SelectSeq(s.waits, LAMBDA d: d > 0)

\* What a sample adds to the counters.
Counted(s, track) ==
    LET rtts == Responses(s)
        Within(lo, hi) == Len(SelectSeq(rtts, LAMBDA d: lo <= d /\ d < hi))
    IN  [c \in Counters |->
            CASE c \in Results -> Bool01(s.result = c)
              [] c = "executing" -> -Bool01(track)
              [] c = "rtt" -> Len(rtts)
              [] c = "rttFailed" -> s.failed
              [] c = "satisfied" -> Within(0, ApdexT)
              [] c = "tolerating" -> Within(ApdexT, 4 * ApdexT)
              [] c = "wait" -> Len(Waits(s))
              [] c = "ready" -> s.ready
              [] c = "listenTimeout" -> s.listenTimeouts
              [] c = "wall" -> Bool01(Timed(s))
              [] c = "send" -> s.send
              [] c = "recv" -> s.recv
              [] c = "bytes" -> 1]

\* The cost of a part, Nil when it was not observed.
CostOf(s, part) ==
    CASE part = "timeout" -> IF s.result = "timeout" THEN s.wall ELSE Nil
      [] part = "client" -> IF Timed(s) THEN Max({s.wall - wireRTTSum(s), 0}) ELSE Nil
      [] OTHER -> IF Timed(s) /\ part \in DOMAIN s.costs THEN s.costs[part] ELSE Nil

\* recordAction on one actionMetrics.
Recorded(am, s, track) ==
    LET inc == Counted(s, track)
    IN  [n |-> [c \in Counters |-> am.n[c] + inc[c]],
         cost |-> [p \in Costs |-> am.cost[p] + Bool01(CostOf(s, p) # Nil)],
         ns |-> [p \in Costs |-> am.ns[p] + Max({CostOf(s, p), 0})],
         rtt |-> FoldLeft(Record, am.rtt, Responses(s)),
         wait |-> FoldLeft(Record, am.wait, Waits(s)),
         wall |-> IF Timed(s) THEN Record(am.wall, s.wall) ELSE am.wall,
         errors |-> [e \in Codes |-> am.errors[e] + Bool01(s.code = e)]]

\* getOrCreateAction
Touched(acts, x) ==
    [acts EXCEPT !.names = IF Contains(@, x) THEN @ ELSE Append(@, x)]

\* recordAction on a collector; a pending cancellation only counts as one.
RecordSample(acts, s, track) ==
    LET t == Touched(acts, s.name)
    IN  IF s.pending
        THEN [t EXCEPT !.actions[s.name].n["canceled"] = @ + 1]
        ELSE [t EXCEPT !.actions[s.name] = Recorded(@, s, track),
                       !.total = @ + Bool01(s.result # "canceled"),
                       !.invalid = @ + Len(s.rtts) - Len(Responses(s))]

-----------------------------------------------------------------------------
(* Snapshots.  Derived values are fractions <<numerator, denominator>>.    *)

Zero == <<0, 1>>
Ratio(num, den) == IF den = 0 THEN Zero ELSE <<num, den>>
Plus(a, b) == <<a[1] * b[2] + b[1] * a[2], a[2] * b[2]>>
Equal(a, b) == a[1] * b[2] = b[1] * a[2]
SampleCount(n) == n["success"] + n["failure"] + n["timeout"]
ListenTotal(n) == n["wait"] + n["ready"] + n["listenTimeout"]

classifyActionKind(roundTrips, listenEvents, sendBytes) ==
    CASE roundTrips > 0 -> "networked"
      [] roundTrips <= 0 /\ listenEvents > 0 -> "listen"
      [] roundTrips <= 0 /\ listenEvents <= 0 /\ sendBytes > 0 -> "send"
      [] OTHER -> "local"

\* The values a snapshot derives from the raw counts of an action.
Derived(n, cost, ns) ==
    LET rtts == n["rtt"] + n["rttFailed"]
    IN  [successRate |-> Ratio(n["success"], SampleCount(n)),
         apdexSamples |-> rtts,
         apdex |-> Ratio(2 * n["satisfied"] + n["tolerating"], 2 * rtts),
         listenTimeoutRate |-> Ratio(n["listenTimeout"], ListenTotal(n)),
         avgSend |-> Ratio(n["send"], n["bytes"]),
         avgRecv |-> Ratio(n["recv"], n["bytes"]),
         avg |-> [p \in Costs |-> Ratio(ns[p], cost[p])],
         kind |-> classifyActionKind(rtts, ListenTotal(n), n["send"])]

ActionSnapshot(x, am, seconds) ==
    [name |-> x, n |-> am.n, cost |-> am.cost, ns |-> am.ns,
     rtt |-> HistogramSnapshot(am.rtt), wait |-> HistogramSnapshot(am.wait),
     wall |-> HistogramSnapshot(am.wall), errors |-> am.errors,
     derived |-> Derived(am.n, am.cost, am.ns),
     qps |-> Ratio(SampleCount(am.n), seconds), periodQps |-> Zero]

\* The distribution of a field over the actions that have one.
Merged(actions, F(_)) == MergeHistograms([i \in DOMAIN actions |-> F(actions[i])])
Total(actions, F(_)) == SumSeq([i \in DOMAIN actions |-> F(actions[i])])
\* The sums of a field that holds several counts.
Totals(actions, F(_), zero) == FoldLeft(AddCounts, zero, [i \in DOMAIN actions |-> F(actions[i])])

buildSnapshotSummary(actions) ==
    LET n == Totals(actions, LAMBDA a: a.n, NoCounts)
        cost == Totals(actions, LAMBDA a: a.cost, NoCosts)
        ns == Totals(actions, LAMBDA a: a.ns, NoCosts)
        apdexSamples == Total(actions, LAMBDA a: a.derived.apdexSamples)
    IN  [n |-> [c \in Results \union {"executing"} |-> n[c]],
         samples |-> SampleCount(n),
         successRate |-> Ratio(n["success"], SampleCount(n)),
         apdexSamples |-> apdexSamples,
         apdex |-> Ratio(2 * n["satisfied"] + n["tolerating"], 2 * apdexSamples),
         rtt |-> Merged(actions, LAMBDA a: a.rtt), wait |-> Merged(actions, LAMBDA a: a.wait),
         wall |-> Merged(actions, LAMBDA a: a.wall),
         cost |-> cost, avg |-> [p \in Stages \union {"client"} |-> Ratio(ns[p], cost[p])],
         qps |-> FoldLeft(Plus, Zero, [i \in DOMAIN actions |-> actions[i].qps])]

\* snapshotUnlocked
\* The summary comes last, from the rows.
Summed(snap) == [snap EXCEPT !.summary = buildSnapshotSummary(snap.actions)]
RowsAt(acts, seconds) ==
    [i \in DOMAIN acts.names |->
        ActionSnapshot(acts.names[i], acts.actions[acts.names[i]], seconds)]
Snapshot(acts, gauge, seconds) ==
    Summed([total |-> acts.total, invalid |-> acts.invalid, apdexT |-> ApdexT, uptime |-> seconds,
            gauge |-> gauge, actions |-> RowsAt(acts, seconds), summary |-> <<>>])

\* TakeReportSnapshot: the interval gets the executing gauge of the cumulative
\* counters, its total included.
ReportWindow(c, rows, duration) ==
    Summed([sequence |-> c.sequence + 1, from |-> c.since, to |-> now, duration |-> duration,
            every |-> Every, invalid |-> c.win.invalid, summary |-> <<>>,
            actions |-> [i \in DOMAIN rows |->
                [rows[i] EXCEPT !.periodQps = rows[i].qps,
                                !.n["executing"] = c.cum.actions[rows[i].name].n["executing"]]]])
SameBoundary(snap, w) ==
    [snapshot |-> snap,
     window |-> [w EXCEPT !.summary.qps = Ratio(w.summary.samples, w.duration),
                          !.summary.n["executing"] = snap.summary.n["executing"]]]
TakeReportSnapshot(c) ==
    SameBoundary(Snapshot(c.cum, c.gauge, now),
                 ReportWindow(c, RowsAt(c.win, now - c.since), now - c.since))

\* Mutant: the scores of the agents are merged without the requests that got no answer.
MutantMergedAction(x, rows, seconds) ==
    LET n == [Totals(rows, LAMBDA a: a.n, NoCounts) EXCEPT !["rttFailed"] = 0]
        cost == Totals(rows, LAMBDA a: a.cost, NoCosts)
        ns == Totals(rows, LAMBDA a: a.ns, NoCosts)
    IN  [name |-> x, n |-> n, cost |-> cost, ns |-> ns,
         rtt |-> Merged(rows, LAMBDA a: a.rtt), wait |-> Merged(rows, LAMBDA a: a.wait),
         wall |-> Merged(rows, LAMBDA a: a.wall),
         errors |-> Totals(rows, LAMBDA a: a.errors, [e \in Codes |-> 0]),
         derived |-> Derived(n, cost, ns),
         qps |-> Ratio(SampleCount(n), seconds), periodQps |-> Zero]

\* MergeSnapshots, the rows of one action.
MergedAction(x, rows, seconds) ==
    LET n == Totals(rows, LAMBDA a: a.n, NoCounts)
        cost == Totals(rows, LAMBDA a: a.cost, NoCosts)
        ns == Totals(rows, LAMBDA a: a.ns, NoCosts)
    IN  [name |-> x, n |-> n, cost |-> cost, ns |-> ns,
         rtt |-> Merged(rows, LAMBDA a: a.rtt), wait |-> Merged(rows, LAMBDA a: a.wait),
         wall |-> Merged(rows, LAMBDA a: a.wall),
         errors |-> Totals(rows, LAMBDA a: a.errors, [e \in Codes |-> 0]),
         derived |-> Derived(n, cost, ns),
         qps |-> Ratio(SampleCount(n), seconds), periodQps |-> Zero]

\* The names of the rows, in the order of their first appearance.
Order(rows) ==
    FoldLeft(LAMBDA seen, a: IF Contains(seen, a.name) THEN seen ELSE Append(seen, a.name), <<>>, rows)

\* The slowest agent is the stage of all, agents without a stage aside.
MergedStage(snaps) ==
    LET stages == {snaps[i].gauge["stage"]: i \in DOMAIN snaps} \ {0}
    IN  IF stages = {} THEN 0 ELSE Min(stages)

NoSnapshot == Snapshot(NoActions, [g \in Gauges |-> 0], 0)

MergedRows(all, order, seconds) ==
    [i \in DOMAIN order |->
        MergedAction(order[i], SelectSeq(all, LAMBDA a: a.name = order[i]), seconds)]
MergedSnapshot(snaps, all, seconds) ==
    [total |-> Total(snaps, LAMBDA s: s.total), invalid |-> Total(snaps, LAMBDA s: s.invalid),
     apdexT |-> snaps[1].apdexT, uptime |-> seconds,
     gauge |-> [Totals(snaps, LAMBDA s: s.gauge, [g \in Gauges |-> 0])
                   EXCEPT !["stage"] = MergedStage(snaps)],
     actions |-> MergedRows(all, Order(all), seconds), summary |-> <<>>]
MergeSnapshots(snaps) ==
    CASE Len(snaps) = 0 -> NoSnapshot
      [] Len(snaps) = 1 -> Summed(snaps[1])
      [] OTHER -> Summed(MergedSnapshot(snaps, FlattenSeq([i \in DOMAIN snaps |-> snaps[i].actions]),
                                        Max({snaps[i].uptime: i \in DOMAIN snaps})))

-----------------------------------------------------------------------------
(* The wire: controlplane/monitor.go copies a snapshot field by field into *)
(* messages of its own shape, and back.                                    *)

toProtoHistogram(h) ==
    [Count |-> h.count, SumNanos |-> h.sum, MinMillis |-> h.min, MaxMillis |-> h.max,
     PMillis |-> h.p, Sketch |-> h.sketch]
fromProtoHistogram(w) ==
    [count |-> w.Count, sum |-> w.SumNanos, min |-> w.MinMillis, max |-> w.MaxMillis,
     p |-> w.PMillis, sketch |-> w.Sketch]

toProtoAction(a) ==
    [Name |-> a.name, Counts |-> a.n, CostCounts |-> a.cost, CostSums |-> a.ns,
     Rtt |-> toProtoHistogram(a.rtt), ListenWait |-> toProtoHistogram(a.wait),
     TotalDuration |-> toProtoHistogram(a.wall), Errors |-> a.errors, Derived |-> a.derived,
     AverageQps |-> a.qps, PeriodQps |-> a.periodQps]
fromProtoAction(w) ==
    [name |-> w.Name, n |-> w.Counts, cost |-> w.CostCounts, ns |-> w.CostSums,
     rtt |-> fromProtoHistogram(w.Rtt), wait |-> fromProtoHistogram(w.ListenWait),
     wall |-> fromProtoHistogram(w.TotalDuration), errors |-> w.Errors, derived |-> w.Derived,
     qps |-> w.AverageQps, periodQps |-> w.PeriodQps]

WireActions(rows) == [i \in DOMAIN rows |-> fromProtoAction(toProtoAction(rows[i]))]

toProtoSummary(u) ==
    [Counts |-> u.n, SampleCount |-> u.samples, SuccessRate |-> u.successRate,
     RttApdexSampleCount |-> u.apdexSamples, RttApdex |-> u.apdex,
     Rtt |-> toProtoHistogram(u.rtt), ListenWait |-> toProtoHistogram(u.wait),
     TotalDuration |-> toProtoHistogram(u.wall), CostCounts |-> u.cost, Averages |-> u.avg,
     AverageQps |-> u.qps]
fromProtoSummary(w) ==
    [n |-> w.Counts, samples |-> w.SampleCount, successRate |-> w.SuccessRate,
     apdexSamples |-> w.RttApdexSampleCount, apdex |-> w.RttApdex,
     rtt |-> fromProtoHistogram(w.Rtt), wait |-> fromProtoHistogram(w.ListenWait),
     wall |-> fromProtoHistogram(w.TotalDuration), cost |-> w.CostCounts, avg |-> w.Averages,
     qps |-> w.AverageQps]

\* ToProtoCollectorSnapshot and FromProtoCollectorSnapshot: the report of the
\* agent as the admin reads it.
Received(report) ==
    [snapshot |-> [report.snapshot EXCEPT !.actions = WireActions(@),
                                          !.summary = fromProtoSummary(toProtoSummary(@))],
     window |-> [report.window EXCEPT !.actions = WireActions(@),
                                      !.summary = fromProtoSummary(toProtoSummary(@))]]

-----------------------------------------------------------------------------
(* Validation: window_store.go recomputes what a report derives.           *)

validHistogram(h) ==
    IF h.count = 0
    THEN h.sum = 0 /\ h.sketch = NoSketch /\ {h.min, h.max} \union {h.p[q]: q \in Quantiles} = {Nil}
    ELSE /\ h.sum >= 0 /\ h.min >= 0 /\ \A q \in Quantiles: h.p[q] >= 0
         /\ h.min <= h.p[50] /\ h.p[50] <= h.p[90] /\ h.p[90] <= h.p[95]
         /\ h.p[95] <= h.p[99] /\ h.p[99] <= h.max
         /\ h.min * h.count <= h.sum /\ h.sum <= h.max * h.count
         /\ Mergeable(h)

ExpectedKind(a) ==
    IF a.derived.apdexSamples > 0 THEN "networked"
    ELSE IF ListenTotal(a.n) > 0 THEN "listen"
    ELSE IF a.n["send"] > 0 THEN "send" ELSE "local"

validActionDerivedValues(a) ==
    /\ Equal(a.derived.successRate, Ratio(a.n["success"], SampleCount(a.n)))
    /\ Equal(a.derived.avgSend, Ratio(a.n["send"], a.n["bytes"]))
    /\ Equal(a.derived.avgRecv, Ratio(a.n["recv"], a.n["bytes"]))
    /\ Equal(a.derived.apdex, Ratio(2 * a.n["satisfied"] + a.n["tolerating"], 2 * a.derived.apdexSamples))
    /\ Equal(a.derived.listenTimeoutRate, Ratio(a.n["listenTimeout"], ListenTotal(a.n)))
    /\ \A p \in Costs: (a.cost[p] = 0 => a.ns[p] = 0) /\ Equal(a.derived.avg[p], Ratio(a.ns[p], a.cost[p]))
    /\ a.derived.kind = ExpectedKind(a)

validateMetricActions(rows) ==
    /\ IsInjective([i \in DOMAIN rows |-> rows[i].name])
    /\ \A i \in DOMAIN rows:
         LET a == rows[i]
         IN  /\ \A c \in Counters: a.n[c] >= 0
             /\ \A p \in Costs: a.cost[p] >= 0 /\ a.ns[p] >= 0
             /\ a.rtt.count = a.n["rtt"] /\ a.wait.count = a.n["wait"] /\ a.wall.count = a.n["wall"]
             /\ a.derived.apdexSamples = a.n["rtt"] + a.n["rttFailed"]
             /\ a.n["satisfied"] + a.n["tolerating"] <= a.n["rtt"]
             /\ validActionDerivedValues(a)
             /\ validHistogram(a.rtt) /\ validHistogram(a.wait) /\ validHistogram(a.wall)

validateMetricReport(report) ==
    LET s == report.snapshot
        w == report.window
    IN  /\ w.from < w.to /\ w.duration = w.to - w.from
        /\ w.every = Every /\ s.apdexT = ApdexT
        /\ s.total >= 0 /\ s.invalid >= 0 /\ w.invalid >= 0
        /\ \A g \in Gauges \ {"stage"}: s.gauge[g] >= 0
        /\ validateMetricActions(s.actions)
        /\ validateMetricActions(w.actions)
        /\ Total(s.actions, LAMBDA a: SampleCount(a.n)) = s.total
        /\ Total(w.actions, LAMBDA a: SampleCount(a.n)) = w.summary.samples

\* Counts of a collection only grow, and no action of it disappears.
validateCumulativeMonotonic(previous, current) ==
    /\ current.total >= previous.total /\ current.invalid >= previous.invalid
    /\ \A i \in DOMAIN previous.actions: \E j \in DOMAIN current.actions:
         LET old == previous.actions[i]
             cur == current.actions[j]
         IN  /\ cur.name = old.name
             /\ \A c \in Results \union {"send", "recv"}: cur.n[c] >= old.n[c]
             /\ cur.rtt.count >= old.rtt.count /\ cur.wait.count >= old.wait.count
             /\ cur.wall.count >= old.wall.count
             /\ \A p \in Costs: cur.ns[p] >= old.ns[p]

-----------------------------------------------------------------------------
(* The panel: AggregateStress.                                             *)

FreshFor(every) == Max({3 * every, 15})
Assigned == {a \in Agents: node[a] # "released"}
Reporting == Assigned \intersect DOMAIN store
Fresh == {a \in Reporting: node[a] # "offline" /\ now - store[a].at <= FreshFor(store[a].every)}
StatesOf(S) == [i \in 1..Cardinality(S) |-> store[SetToSeq(S)[i]]]
SumOver(S, F(_)) == MapThenSumSet(F, S)
RowsOf(rows, x) == SelectSeq(rows, LAMBDA a: a.name = x)

\* What the fresh agents say of an action now.
ExecutingOf(S, x) ==
    SumOver(S, LAMBDA a: Total(RowsOf(store[a].cumulative.actions, x), LAMBDA r: r.n["executing"]))
RateOf(S, x) ==
    LET fresh == StatesOf(S)
    IN  FoldLeft(Plus, Zero, [i \in DOMAIN fresh |->
            Ratio(Total(RowsOf(fresh[i].window.actions, x), LAMBDA r: SampleCount(r.n)),
                  fresh[i].window.duration)])

\* A window as a snapshot of its own.
AsSnapshot(w) ==
    [total |-> 0, invalid |-> w.invalid, apdexT |-> ApdexT, uptime |-> w.duration,
     gauge |-> [g \in Gauges |-> 0], actions |-> w.actions, summary |-> w.summary]

NoWindow == [from |-> 0, to |-> 0, actions |-> <<>>, summary |-> buildSnapshotSummary(<<>>), invalid |-> 0]

\* Of agents that are all silent nothing is executing.
Now(r, S) == [r EXCEPT !.periodQps = RateOf(S, r.name), !.n["executing"] = ExecutingOf(S, r.name)]
AllExecuting(S) == SumOver(Names, LAMBDA x: ExecutingOf(S, x))
FreshRows(rows, S) ==
    [i \in DOMAIN rows |-> [Now(rows[i], S) EXCEPT !.qps = RateOf(S, rows[i].name)]]
FreshWindow(merged, S) ==
    [from |-> Min({store[a].window.from: a \in S}), to |-> Max({store[a].window.to: a \in S}),
     actions |-> FreshRows(merged.actions, S), invalid |-> merged.invalid,
     summary |-> [merged.summary EXCEPT
         !.n["executing"] = AllExecuting(S),
         !.qps = FoldLeft(Plus, Zero, [i \in DOMAIN merged.actions |-> RateOf(S, merged.actions[i].name)])]]
attachFreshWindow(cumulative, S) ==
    [snapshot |->
        [cumulative EXCEPT
            !.actions = [i \in DOMAIN @ |-> Now(@[i], S)],
            !.summary.n["executing"] = AllExecuting(S),
            !.gauge = IF S = {} THEN @
                      ELSE [@ EXCEPT !["running"] = SumOver(S, LAMBDA a: store[a].cumulative.gauge["running"]),
                                     !["active"] = SumOver(S, LAMBDA a: store[a].cumulative.gauge["active"])]],
     window |->
        IF S = {} THEN NoWindow
        ELSE FreshWindow(MergeSnapshots([i \in DOMAIN StatesOf(S) |-> AsSnapshot(StatesOf(S)[i].window)]), S)]

Panel ==
    attachFreshWindow(MergeSnapshots([i \in DOMAIN StatesOf(Reporting) |-> StatesOf(Reporting)[i].cumulative]),
                      Fresh)

-----------------------------------------------------------------------------
(* The point of the trend: aggregateHistoryBatch, buildHistoryTrendPoint.  *)

BatchAgents(batch) == {batch[i].agent: i \in DOMAIN batch}
OfAgent(batch, a) == SelectSeq(batch, LAMBDA item: item.agent = a)

\* The window of an agent with the highest sequence, the last of several.
LatestOf(batch, a) ==
    LET mine == OfAgent(batch, a)
        Newer(best, item) == IF item.window.sequence >= best.window.sequence THEN item ELSE best
    IN  FoldLeft(Newer, Head(mine), mine)

BatchRate(batch, a) ==
    Ratio(Total(OfAgent(batch, a), LAMBDA item: item.window.summary.samples),
          Total(OfAgent(batch, a), LAMBDA item: item.window.duration))
Attributed(merged, batch, order) ==
    [merged EXCEPT
        !.gauge = [g \in Gauges |->
            @[g] + IF g \in {"running", "active", "closed", "dropped"}
                   THEN SumOver(BatchAgents(batch), LAMBDA a: LatestOf(batch, a).gauge[g]) ELSE 0],
        !.summary.qps = FoldLeft(Plus, Zero, [i \in DOMAIN order |-> BatchRate(batch, order[i])]),
        !.total = merged.summary.samples]
aggregateHistoryBatch(batch) ==
    Attributed(MergeSnapshots([i \in DOMAIN batch |-> AsSnapshot(batch[i].window)]),
               batch, SetToSeq(BatchAgents(batch)))

\* A value of the point is Nil when nothing was sampled.
OrNil(sampled, value) == IF sampled THEN <<value>> ELSE <<>>

buildHistoryTrendPoint(stress, u, batch) ==
    [from |-> Min({batch[i].window.from: i \in DOMAIN batch}),
     to |-> Max({batch[i].window.to: i \in DOMAIN batch}),
     samples |-> u.samples, qps |-> u.qps,
     running |-> stress.gauge["running"], errored |-> stress.gauge["errored"],
     active |-> stress.gauge["active"], closed |-> stress.gauge["closed"],
     dropped |-> stress.gauge["dropped"],
     reporting |-> Cardinality(BatchAgents(batch)),
     apdex |-> OrNil(u.apdexSamples > 0, u.apdex),
     rtt |-> OrNil(u.rtt.count > 0, <<u.rtt.sum, u.rtt.count, u.rtt.p>>),
     waitP99 |-> OrNil(u.wait.count > 0, u.wait.p[99]),
     wall |-> OrNil(u.wall.count > 0, <<u.wall.sum, u.wall.count, u.wall.p>>),
     avg |-> [p \in DOMAIN u.avg |-> OrNil(u.cost[p] > 0, u.avg[p])]]

-----------------------------------------------------------------------------
(* The system.                                                             *)

Init ==
    /\ collector = [a \in Agents |-> NewCollector]
    /\ node = [a \in Agents |-> "busy"]
    /\ store = <<>>
    /\ pending = <<>>
    /\ rejected = FALSE
    /\ now = 0
    /\ changes = 0
    /\ ghost = [log |-> [a \in Agents |-> <<>>], sent |-> [a \in Agents |-> <<>>],
                batch |-> <<>>]

adminVars == <<node, store, pending, rejected>>
\* The bound on what is recorded: nothing at the last instant, which is for
\* the reports of what came before.
Recordings == SumOver(Agents, LAMBDA a: Len(ghost.log[a]))
ExecutingAt(a) == SumOver(Names, LAMBDA x: collector[a].cum.actions[x].n["executing"])

\* Neither a callback nor an action that never ran has been started.
Tracked(s) == ~s.callback /\ ~s.pending

\* RecordActionStart counts in the cumulative counters alone.
RecordActionStart(a, x) ==
    /\ now < MaxTime /\ Recordings + SumOver(Agents, ExecutingAt) < MaxSamples
    /\ collector' = [collector EXCEPT ![a].cum = [Touched(@, x) EXCEPT !.actions[x].n["executing"] = @ + 1]]
    /\ UNCHANGED <<adminVars, now, changes, ghost>>

\* RecordAction, RecordCallback and RecordPendingCanceled: the cumulative
\* counters, then the interval.
RecordAction(a, s) ==
    LET track == Tracked(s)
    IN  /\ now < MaxTime
        /\ IF track THEN collector[a].cum.actions[s.name].n["executing"] > 0
                    ELSE Recordings + SumOver(Agents, ExecutingAt) < MaxSamples
        /\ collector' = [collector EXCEPT ![a].cum = RecordSample(@, s, track),
                                          ![a].win = RecordSample(@, s, FALSE)]
        /\ ghost' = [ghost EXCEPT !.log[a] = Append(@, s)]
        /\ UNCHANGED <<adminVars, now, changes>>

\* The hooks of robots and connections; one that leaves has come.
HookDelta(h) ==
    CASE h = "RobotRunning" -> [started |-> 1, running |-> 1]
      [] h = "RobotStopped" -> [running |-> -1, stopped |-> 1]
      [] h = "RobotErrored" -> [running |-> -1, errored |-> 1]
      [] h = "ConnEstablished" -> [established |-> 1, active |-> 1]
      [] h = "ConnClosed" -> [active |-> -1, closed |-> 1]
      [] h = "ConnFailed" -> [failed |-> 1]
      [] h = "ConnDropped" -> [dropped |-> 1]
      [] h = "SetRampUpStage" -> [stage |-> 1]
After(gauge, h) ==
    [g \in Gauges |-> gauge[g] + (IF g \in DOMAIN HookDelta(h) THEN HookDelta(h)[g] ELSE 0)]

Hook(a, h) ==
    /\ now < MaxTime /\ changes < MaxHooks
    /\ After(collector[a].gauge, h)["running"] >= 0 /\ After(collector[a].gauge, h)["active"] >= 0
    /\ changes' = changes + 1
    /\ collector' = [collector EXCEPT ![a].gauge = After(@, h)]
    /\ UNCHANGED <<adminVars, now, ghost>>

\* A tick of the reporter, the wire and AcceptWithDrops.
Acceptable(a, report) ==
    /\ validateMetricReport(report)
    /\ a \in DOMAIN store => validateCumulativeMonotonic(store[a].cumulative, report.snapshot)
AcceptWithDrops(a, report) ==
    IF Acceptable(a, report)
    THEN /\ store' = (a :> [cumulative |-> report.snapshot, window |-> report.window,
                            at |-> now, every |-> Every]) @@ store
         /\ pending' = Append(pending, [agent |-> a, gauge |-> report.snapshot.gauge,
                                        window |-> report.window])
         /\ ghost' = [ghost EXCEPT !.sent[a] = ghost.log[a],
                                   !.batch = Append(@, SubSeq(ghost.log[a], Len(ghost.sent[a]) + 1,
                                                              Len(ghost.log[a])))]
         /\ UNCHANGED rejected
    ELSE rejected' = TRUE /\ UNCHANGED <<store, pending, ghost>>
Report(a) ==
    /\ now > collector[a].since
    /\ collector' = [collector EXCEPT ![a].win = NoActions, ![a].sequence = @ + 1, ![a].since = now]
    /\ AcceptWithDrops(a, Received(TakeReportSnapshot(collector[a])))
    /\ UNCHANGED <<node, now, changes>>

\* AggregateStress answers Panel.  What it merges of a single agent is not a
\* copy: the rates and the executing gauges are written into the store.
Aliased(item) == Fresh = {item.agent} /\ store[item.agent].window.sequence = item.window.sequence
WriteBack(view) ==
    /\ store' = [a \in DOMAIN store |->
                    [store[a] EXCEPT
                        !.cumulative.actions = IF Reporting = {a} THEN view.snapshot.actions ELSE @,
                        !.window.actions = IF Fresh = {a} THEN view.window.actions ELSE @]]
    /\ pending' = [i \in DOMAIN pending |->
                     IF Aliased(pending[i])
                     THEN [pending[i] EXCEPT !.window.actions = view.window.actions] ELSE pending[i]]
AggregateStress ==
    /\ changes < MaxChanges
    /\ changes' = changes + 1
    /\ WriteBack(Panel)
    /\ UNCHANGED <<collector, node, rejected, now, ghost>>

\* sampleOnce appends buildHistoryTrendPoint(pending) to the history.
SampleHistory ==
    /\ pending # <<>> /\ changes < MaxChanges
    /\ changes' = changes + 1
    /\ pending' = <<>>
    /\ ghost' = [ghost EXCEPT !.batch = <<>>]
    /\ UNCHANGED <<collector, node, store, rejected, now>>

\* The registry: an agent is lost and found, or has ended its task.
Registry(a, status) ==
    /\ changes < MaxChanges /\ node[a] # "released" /\ node[a] # status
    /\ changes' = changes + 1
    /\ node' = [node EXCEPT ![a] = status]
    /\ UNCHANGED <<collector, store, pending, rejected, now, ghost>>

Tick ==
    /\ now < MaxTime
    /\ now' = now + Step
    /\ UNCHANGED <<collector, adminVars, changes, ghost>>

Next ==
    \/ \E a \in Agents, x \in {s.name: s \in {t \in Samples: Tracked(t)}}: RecordActionStart(a, x)
    \/ \E a \in Agents, s \in Samples: RecordAction(a, s)
    \/ \E a \in Agents, h \in Hooks: Hook(a, h)
    \/ \E a \in Agents: Report(a)
    \/ AggregateStress
    \/ SampleHistory
    \/ \E a \in Agents, status \in {"busy", "offline", "released"}: Registry(a, status)
    \/ Tick

Spec == Init /\ [][Next]_vars

-----------------------------------------------------------------------------
(* Properties.                                                             *)

\* One collector that has seen all the samples of some logs.
Pooled(logs) == FoldLeft(LAMBDA acts, s: RecordSample(acts, s, FALSE), NoActions, FlattenSeq(logs))
LogsOf(S) == [i \in 1..Cardinality(S) |-> ghost.sent[SetToSeq(S)[i]]]
SameRow(r, am) ==
    /\ \A c \in Counters \ {"executing"}: r.n[c] = am.n[c]
    /\ r.cost = am.cost /\ r.ns = am.ns /\ r.errors = am.errors
    /\ r.rtt = HistogramSnapshot(am.rtt) /\ r.wait = HistogramSnapshot(am.wait)
    /\ r.wall = HistogramSnapshot(am.wall) /\ r.derived = Derived(am.n, am.cost, am.ns)
SameSummary(u, acts) ==
    LET v == Snapshot(acts, [g \in Gauges |-> 0], 1).summary
    IN  \A f \in DOMAIN v \ {"n", "qps", "avg"}: u[f] = v[f]

\* The admin refuses no report that the collector of an agent makes, whatever
\* it has counted: what it recomputes of a report is what the agent computed,
\* and all the counts it needs for that cross the wire (window_store.go
\* validateMetricReport against monitor/snapshot.go and controlplane/monitor.go).
ReportsAreAccepted == ~rejected

ShowsPooled(p, one) ==
    /\ \A i \in DOMAIN p.actions: SameRow(p.actions[i], one.actions[p.actions[i].name])
    /\ ToSet(one.names) \subseteq {p.actions[i].name: i \in DOMAIN p.actions}
    /\ p.total = one.total /\ p.invalid = one.invalid
    /\ SameSummary(p.summary, one)

LastWindow(a) == pending[Max({i \in DOMAIN pending: pending[i].agent = a})]
PointIsPooled(stress, one) ==
    /\ SameSummary(stress.summary, one)
    /\ stress.total = one.total
    /\ \A g \in {"running", "active"}:
         buildHistoryTrendPoint(stress, stress.summary, pending)[g] =
            SumOver(BatchAgents(pending), LAMBDA a: LastWindow(a).gauge[g])

\* However the samples are spread over agents, actions and reports, the panel
\* shows the counts, distributions and scores of one collector that has seen
\* them all (monitor.MergeSnapshots, aggregator.go AggregateStress).
PanelIsPooled == ShowsPooled(Panel.snapshot, Pooled(LogsOf(Reporting)))

\* So does the point of the trend for the windows it stands for, and the robots
\* it shows are those of the last window of each agent (sampler.go
\* aggregateHistoryBatch).
TrendIsPooled ==
    pending # <<>> => PointIsPooled(aggregateHistoryBatch(pending), Pooled(ghost.batch))

\* What the user sees of a run is what its agents have measured: no report is
\* refused, and panel and trend show the pooled measurements.
ViewsArePooled == ReportsAreAccepted /\ PanelIsPooled /\ TrendIsPooled
=============================================================================
