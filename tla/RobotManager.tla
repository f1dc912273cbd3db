---------------------------- MODULE RobotManager ----------------------------
(***************************************************************************)
(* robot.Manager and the part of agent/task.Runner that drives it: the      *)
(* staged creation of robots, the reset between stages, the counters that   *)
(* decide when a run is over, and the clean-up of every robot, which the    *)
(* robot's own goroutine and a closing pass may both attempt.               *)
(*                                                                          *)
(* Each access to an atomic (active, generation, creationDone) and each     *)
(* critical section of m.mu is a step.  A robot is named by its ordinal in  *)
(* the run.  Waits (hold, pacing, the flush pause) end at any time.  Of a   *)
(* CleanupStatus the model keeps whether it is known or still the zero      *)
(* value, not whether the clean-up succeeded or timed out.                  *)
(***************************************************************************)
EXTENDS Integers, Sequences, FiniteSets

CONSTANTS Runs  \* the runs an assignment can ask for, each a record of the
                \* ramp-up stages (StartAll is a single one), whether a run time
                \* is configured (standalone mode), and what may happen to it:
                \* some of "cancel", "newRobot", "pool", "timeout"

ASSUME RunsAssumption ==
    \A run \in Runs :
        /\ run.stages # <<>>
        /\ \A i \in DOMAIN run.stages : run.stages[i].count \in Nat
        /\ run.timed \in BOOLEAN

VARIABLES run,          \* the run in progress
          pc,           \* where the runner's goroutine is
          stage,        \* index of the stage in progress
          made, created,\* robots tried, and started, in this batch
          offset,       \* robots tried in earlier stages
          err,          \* what StartWithRampUp returns
          cancelled,    \* the task's context
          active, generation, creationDone, doneCh,
          robots,       \* m.robots
          summary,      \* m.cleanupSummary, the result recorded for each robot
          rpc, gen,     \* each robot's goroutine, and the generation it is of
          once, result, \* who runs a robot's clean-up, and how it ended
          shown,        \* r.cleanupResult
          own,          \* the result the robot's goroutine passes to onRobotDone
          snap, prior,  \* what each StopAll or resetBots took under m.mu
          got,          \* the results that came back to it
          timer,        \* the goroutine of startDurationTimer
          reports,      \* stages for which OnStageReset was called
          forced,       \* a closing pass gave up waiting
          overtaken     \* history: a stale count or a stale zero was acted upon

batch == <<stage, made, created, offset, err>>
counters == <<active, generation, creationDone, doneCh>>
members == <<robots, summary>>
threads == <<rpc, gen>>
cleanups == <<once, result, shown, own>>
closing == <<snap, prior, got, forced>>
vars == <<run, pc, batch, cancelled, counters, members, threads, cleanups,
          closing, timer, reports, overtaken>>

plan == run.stages
Closers == {"main", "timer"}

Sum(p) == LET upto[i \in 0..Len(p)] == IF i = 0 THEN 0 ELSE upto[i - 1] + p[i].count
          IN upto[Len(p)]

(* The ordinals of the robots, enough for the longest plan. *)
Bots == 1..(CHOOSE n \in {Sum(q.stages) : q \in Runs} :
                \A q \in Runs : Sum(q.stages) <= n)

Init ==
    /\ run \in Runs
    /\ pc = "stage"
    /\ stage = 1 /\ made = 0 /\ created = 0 /\ offset = 0 /\ err = "none"
    /\ cancelled = FALSE
    /\ active = 0 /\ generation = 0 /\ creationDone = FALSE /\ doneCh = FALSE
    /\ robots = {}
    /\ summary = <<>>
    /\ rpc = [r \in Bots |-> "unborn"]
    /\ gen = [r \in Bots |-> 0]
    /\ once = [r \in Bots |-> "free"]
    /\ result = [r \in Bots |-> "none"]
    /\ shown = [r \in Bots |-> "none"]
    /\ own = [r \in Bots |-> "none"]
    /\ snap = [c \in Closers |-> {}]
    /\ prior = [c \in Closers |-> <<>>]
    /\ got = [c \in Closers |-> <<>>]
    /\ timer = "off"
    /\ reports = <<>>
    /\ forced = FALSE
    /\ overtaken = FALSE

(* f with r mapped to v. *)
Put(f, r, v) == [x \in DOMAIN f \cup {r} |-> IF x = r THEN v ELSE f[x]]
-----------------------------------------------------------------------------
(* StartWithRampUp *)

(* Return from the creation with error e; the deferred finishCreation runs. *)
Return(e) == pc' = "finish" /\ err' = e

EnterStage ==
    /\ pc = "stage"
    /\ \/ cancelled /\ Return("canceled")
       \/ ~cancelled /\ plan[stage].reset /\ robots # {} /\ pc' = "reset" /\ UNCHANGED err
       \/ ~cancelled /\ ~(plan[stage].reset /\ robots # {}) /\ pc' = "batch" /\ UNCHANGED err
    /\ UNCHANGED <<run, stage, made, created, offset, cancelled, counters, members,
                   threads, cleanups, closing, timer, reports, overtaken>>

(* startBatch, one iteration: NewRobot may fail and is skipped, and the     *)
(* worker pool may refuse Start, which undoes the registration.  There are  *)
(* enough Bots for the longest plan, so the bound on NextRobot never binds. *)
NextRobot == offset + made + 1

NewRobotFails ==
    /\ pc = "batch" /\ made < plan[stage].count /\ ~cancelled
    /\ "newRobot" \in run.faults
    /\ made' = made + 1
    /\ UNCHANGED <<run, pc, stage, created, offset, err, cancelled, counters, members,
                   threads, cleanups, closing, timer, reports, overtaken>>

AddAndStartRobot ==
    /\ pc = "batch" /\ made < plan[stage].count /\ ~cancelled
    /\ NextRobot \in Bots
    /\ robots' = robots \cup {NextRobot}
    /\ active' = active + 1
    /\ rpc' = [rpc EXCEPT ![NextRobot] = "running"]
    /\ gen' = [gen EXCEPT ![NextRobot] = generation]
    /\ made' = made + 1
    /\ created' = created + 1
    /\ overtaken' = (overtaken \/ \E r \in Bots : rpc[r] = "zero")
    /\ UNCHANGED <<run, pc, stage, offset, err, cancelled, generation, creationDone,
                   doneCh, summary, cleanups, closing, timer, reports>>

StartRejected ==
    /\ pc = "batch" /\ made < plan[stage].count /\ ~cancelled
    /\ "pool" \in run.faults
    /\ summary' = Put(summary, NextRobot, "known")
    /\ Return("failed")
    /\ UNCHANGED <<run, stage, made, created, offset, cancelled, counters, robots,
                   threads, cleanups, closing, timer, reports, overtaken>>

BatchCancelled ==
    /\ pc = "batch" /\ made < plan[stage].count /\ cancelled
    /\ Return("canceled")
    /\ UNCHANGED <<run, stage, made, created, offset, cancelled, counters, members,
                   threads, cleanups, closing, timer, reports, overtaken>>

(* A batch that started nothing is an error; the last stage does not hold. *)
BatchEnds ==
    /\ pc = "batch" /\ made = plan[stage].count
    /\ IF created = 0 /\ plan[stage].count > 0
       THEN Return("failed") /\ UNCHANGED <<stage, made, created, offset>>
       ELSE /\ offset' = offset + made
            /\ made' = 0 /\ created' = 0
            /\ pc' = IF stage = Len(plan) THEN "timer" ELSE "hold"
            /\ UNCHANGED <<stage, err>>
    /\ UNCHANGED <<run, cancelled, counters, members, threads, cleanups, closing,
                   timer, reports, overtaken>>

Hold ==
    /\ pc = "hold"
    /\ \/ cancelled /\ Return("canceled") /\ UNCHANGED stage
       \/ pc' = "stage" /\ stage' = stage + 1 /\ UNCHANGED err
    /\ UNCHANGED <<run, made, created, offset, cancelled, counters, members, threads,
                   cleanups, closing, timer, reports, overtaken>>
-----------------------------------------------------------------------------
(* resetBots *)

BumpGeneration ==
    /\ pc = "reset"
    /\ generation' = generation + 1
    /\ pc' = "detach"
    /\ UNCHANGED <<run, batch, cancelled, active, creationDone, doneCh, members, threads,
                   cleanups, closing, timer, reports, overtaken>>

(* Under m.mu: the robots are detached as a whole and handed to the closing *)
(* pass.                                                                    *)
DetachRobots ==
    /\ pc = "detach"
    /\ snap' = [snap EXCEPT !["main"] = robots]
    /\ got' = [got EXCEPT !["main"] = <<>>]
    /\ robots' = {}
    /\ pc' = "drain"
    /\ UNCHANGED <<run, batch, cancelled, counters, summary, threads, cleanups, prior,
                   forced, timer, reports, overtaken>>

(* The results the closing pass still waits for. *)
Awaited(c) == snap[c] \ DOMAIN got[c]

\* Mutant: the reset does not wait for the closing pass.
ZeroActiveAtOnce ==
    /\ pc = "drain"
    /\ active' = 0
    /\ overtaken' = (overtaken \/ \E r \in Bots : rpc[r] = "counted")
    /\ pc' = "pause"
    /\ UNCHANGED <<run, batch, cancelled, generation, creationDone, doneCh, members,
                   threads, cleanups, closing, timer, reports>>

ZeroActive ==
    /\ pc = "drain" /\ Awaited("main") = {}
    /\ active' = 0
    /\ overtaken' = (overtaken \/ \E r \in Bots : rpc[r] = "counted")
    /\ pc' = "pause"
    /\ UNCHANGED <<run, batch, cancelled, generation, creationDone, doneCh, members,
                   threads, cleanups, closing, timer, reports>>

(* One second for the last counters to settle, then OnStageReset. *)
PauseAndReport ==
    /\ pc = "pause"
    /\ \/ cancelled /\ Return("canceled") /\ UNCHANGED reports
       \/ pc' = "batch" /\ reports' = Append(reports, stage) /\ UNCHANGED err
    /\ UNCHANGED <<run, stage, made, created, offset, cancelled, counters, members,
                   threads, cleanups, closing, timer, overtaken>>
-----------------------------------------------------------------------------
(* The end of the creation, and Runner.Run *)

StartDurationTimer ==
    /\ pc = "timer"
    /\ \/ run.timed /\ timer' = "armed" /\ Return("none")
       \/ run.timed /\ "pool" \in run.faults /\ Return("failed") /\ UNCHANGED timer
       \/ ~run.timed /\ Return("none") /\ UNCHANGED timer
    /\ UNCHANGED <<run, stage, made, created, offset, cancelled, counters, members,
                   threads, cleanups, closing, reports, overtaken>>

(* finishCreation stores creationDone, then loads active. *)
FinishCreation ==
    /\ pc = "finish"
    /\ creationDone' = TRUE
    /\ pc' = "check"
    /\ UNCHANGED <<run, batch, cancelled, active, generation, doneCh, members, threads,
                   cleanups, closing, timer, reports, overtaken>>

\* Mutant: the end of the creation leaves doneCh to the robots.
CheckDrainedNot ==
    /\ pc = "check"
    /\ pc' = IF err = "none" THEN "wait" ELSE "stop"
    /\ UNCHANGED <<run, batch, cancelled, counters, members, threads, cleanups,
                   closing, timer, reports, overtaken>>

CheckDrained ==
    /\ pc = "check"
    /\ doneCh' = (doneCh \/ active = 0)
    /\ pc' = IF err = "none" THEN "wait" ELSE "stop"
    /\ UNCHANGED <<run, batch, cancelled, active, generation, creationDone, members,
                   threads, cleanups, closing, timer, reports, overtaken>>

\* Mutant: the runner waits for the robots only.
RunWaitsForRobots ==
    /\ pc = "wait" /\ doneCh
    /\ pc' = "stop"
    /\ UNCHANGED <<run, batch, cancelled, counters, members, threads, cleanups, closing,
                   timer, reports, overtaken>>

RunWaits ==
    /\ pc = "wait" /\ (cancelled \/ doneCh)
    /\ pc' = "stop"
    /\ UNCHANGED <<run, batch, cancelled, counters, members, threads, cleanups, closing,
                   timer, reports, overtaken>>

Cancel ==
    /\ "cancel" \in run.faults /\ ~cancelled /\ pc # "returned"
    /\ cancelled' = TRUE
    /\ UNCHANGED <<run, pc, batch, counters, members, threads, cleanups, closing, timer,
                   reports, overtaken>>

TimerFires ==
    /\ timer = "armed"
    /\ timer' = IF doneCh THEN "off" ELSE "stop"
    /\ UNCHANGED <<run, pc, batch, cancelled, counters, members, threads, cleanups,
                   closing, reports, overtaken>>
-----------------------------------------------------------------------------
(* StopAll, by the runner and by the duration timer *)

At(c) == IF c = "main" THEN pc ELSE timer

GoTo(c, next) ==
    IF c = "main" THEN pc' = next /\ UNCHANGED timer ELSE timer' = next /\ UNCHANGED pc

(* Under m.mu: the robots and the summary of those that already left. *)
StopAllSnapshot(c) ==
    /\ At(c) = "stop"
    /\ snap' = [snap EXCEPT ![c] = robots]
    /\ prior' = [prior EXCEPT ![c] = summary]
    /\ got' = [got EXCEPT ![c] = <<>>]
    /\ GoTo(c, "closing")
    /\ UNCHANGED <<run, batch, cancelled, counters, members, threads, cleanups, forced,
                   reports, overtaken>>

StopAllReturns(c) ==
    /\ At(c) = "closing" /\ Awaited(c) = {}
    /\ doneCh' = TRUE
    /\ GoTo(c, "returned")
    /\ UNCHANGED <<run, batch, cancelled, active, generation, creationDone, members,
                   threads, cleanups, closing, reports, overtaken>>

(* closeRobotsConcurrent gives up after closeRobotsTimeout and counts the   *)
(* missing robots as timed out.                                             *)
Closing(c) == At(c) \in {"drain", "closing"}

CloseTimesOut(c) ==
    /\ Closing(c) /\ Awaited(c) # {} /\ "timeout" \in run.faults
    /\ got' = [got EXCEPT ![c] = [r \in snap[c] |-> IF r \in DOMAIN @ THEN @[r] ELSE "known"]]
    /\ forced' = TRUE
    /\ UNCHANGED <<run, pc, batch, cancelled, counters, members, threads, cleanups, snap,
                   prior, timer, reports, overtaken>>
-----------------------------------------------------------------------------
(* Robot: the executor, cleanup and onRobotDone *)

ExecutorEnds(r) ==
    /\ rpc[r] = "running"
    /\ rpc' = [rpc EXCEPT ![r] = "ended"]
    /\ UNCHANGED <<run, pc, batch, cancelled, counters, members, gen, cleanups, closing,
                   timer, reports, overtaken>>

(* Who may be calling cleanup on r. *)
Callers(r) ==
    (IF rpc[r] = "ended" THEN {"self"} ELSE {})
        \cup {c \in Closers : Closing(c) /\ r \in Awaited(c)}

(* cleanupOnce: the first caller runs the body. *)
CleanupBegins(r) ==
    /\ once[r] = "free"
    /\ \E a \in Callers(r) : once' = [once EXCEPT ![r] = a]
    /\ UNCHANGED <<run, pc, batch, cancelled, counters, members, threads, result, shown,
                   own, closing, timer, reports, overtaken>>

(* The body waits for the executor, unless it is the robot's own goroutine, *)
(* and for the connections; it gives up after robotCloseTimeout.            *)
CleanupEnds(r) ==
    /\ once[r] # "free" /\ result[r] = "none"
    /\ rpc[r] = "running" => "timeout" \in run.faults
    /\ result' = [result EXCEPT ![r] = "known"]
    /\ UNCHANGED <<run, pc, batch, cancelled, counters, members, threads, once, shown, own,
                   closing, timer, reports, overtaken>>

(* Caller a gets value v from cleanup. *)
Receives(a, r, v) ==
    IF a = "self"
    THEN /\ rpc' = [rpc EXCEPT ![r] = "cleaned"]
         /\ own' = [own EXCEPT ![r] = v]
         /\ UNCHANGED got
    ELSE /\ got' = IF r \in Awaited(a) THEN [got EXCEPT ![a] = Put(@, r, v)] ELSE got
         /\ UNCHANGED <<rpc, own>>

(* After Once.Do the first caller stores its result under cleanupMu ... *)
CleanupPublishes(r) ==
    /\ result[r] # "none" /\ shown[r] = "none"
    /\ shown' = [shown EXCEPT ![r] = result[r]]
    /\ Receives(once[r], r, result[r])
    /\ UNCHANGED <<run, pc, batch, cancelled, counters, members, gen, once, result, snap,
                   prior, forced, timer, reports, overtaken>>

(* ... and any other caller, released by the end of the body, reads what is *)
(* stored by then: possibly still nothing.                                  *)
CleanupReads(r) ==
    /\ result[r] # "none"
    /\ \E a \in Callers(r) \ {once[r]} : Receives(a, r, shown[r])
    /\ UNCHANGED <<run, pc, batch, cancelled, counters, members, gen, once, result, shown,
                   snap, prior, forced, timer, reports, overtaken>>

\* Mutant: the result is recorded but the robot stays listed.
LeaveRobotsListed(r) ==
    /\ rpc[r] = "cleaned"
    /\ summary' = Put(summary, r, own[r])
    /\ rpc' = [rpc EXCEPT ![r] = "left"]
    /\ UNCHANGED <<run, pc, batch, cancelled, counters, robots, gen, cleanups, closing,
                   timer, reports, overtaken>>

(* onRobotDone: removal and record under m.mu, then the generation, ... *)
LeaveRobots(r) ==
    /\ rpc[r] = "cleaned"
    /\ robots' = robots \ {r}
    /\ summary' = Put(summary, r, own[r])
    /\ rpc' = [rpc EXCEPT ![r] = "left"]
    /\ UNCHANGED <<run, pc, batch, cancelled, counters, gen, cleanups, closing, timer,
                   reports, overtaken>>

LoadGeneration(r) ==
    /\ rpc[r] = "left"
    /\ rpc' = [rpc EXCEPT ![r] = IF gen[r] = generation THEN "counted" ELSE "gone"]
    /\ UNCHANGED <<run, pc, batch, cancelled, counters, members, gen, cleanups, closing,
                   timer, reports, overtaken>>

(* ... the decrement of active, ... *)
Decrement(r) ==
    /\ rpc[r] = "counted"
    /\ active' = active - 1
    /\ rpc' = [rpc EXCEPT ![r] = IF active = 1 THEN "zero" ELSE "gone"]
    /\ UNCHANGED <<run, pc, batch, cancelled, generation, creationDone, doneCh, members,
                   gen, cleanups, closing, timer, reports, overtaken>>

\* Mutant: the count alone decides.
LoadCreationDoneNot(r) ==
    /\ rpc[r] = "zero"
    /\ doneCh' = TRUE
    /\ rpc' = [rpc EXCEPT ![r] = "gone"]
    /\ UNCHANGED <<run, pc, batch, cancelled, active, generation, creationDone, members,
                   gen, cleanups, closing, timer, reports, overtaken>>

(* ... and, if it left zero, the load of creationDone. *)
LoadCreationDone(r) ==
    /\ rpc[r] = "zero"
    /\ doneCh' = (doneCh \/ creationDone)
    /\ rpc' = [rpc EXCEPT ![r] = "gone"]
    /\ UNCHANGED <<run, pc, batch, cancelled, active, generation, creationDone, members,
                   gen, cleanups, closing, timer, reports, overtaken>>
-----------------------------------------------------------------------------
RunnerStep ==
    \/ EnterStage \/ NewRobotFails \/ AddAndStartRobot \/ StartRejected
    \/ BatchCancelled \/ BatchEnds \/ Hold
    \/ BumpGeneration \/ DetachRobots \/ ZeroActive \/ PauseAndReport
    \/ StartDurationTimer \/ FinishCreation \/ CheckDrained \/ RunWaits

CloserStep == \E c \in Closers : StopAllSnapshot(c) \/ StopAllReturns(c)

RobotStep(r) ==
    \/ CleanupBegins(r) \/ CleanupEnds(r) \/ CleanupPublishes(r) \/ CleanupReads(r)
    \/ LeaveRobots(r) \/ LoadGeneration(r) \/ Decrement(r) \/ LoadCreationDone(r)

Next ==
    \/ RunnerStep \/ CloserStep \/ Cancel \/ TimerFires
    \/ \E c \in Closers : CloseTimesOut(c)
    \/ \E r \in Bots : ExecutorEnds(r) \/ RobotStep(r)

(* Every goroutine goes on, and a clean-up ends, by its timeout if not      *)
(* before.  Nothing is assumed of a robot's executor: it may hang.          *)
Spec ==
    /\ Init /\ [][Next]_vars
    /\ WF_vars(RunnerStep)
    /\ WF_vars(CloserStep)
    /\ WF_vars(\E r \in Bots : RobotStep(r))
-----------------------------------------------------------------------------
(* Properties *)

(* The types of the state; only a started robot is listed, and a closing    *)
(* pass gets results only of the robots it took.                            *)
TypeOK ==
    /\ pc \in {"stage", "batch", "hold", "reset", "detach", "drain", "pause", "timer",
               "finish", "check", "wait", "stop", "closing", "returned"}
    /\ timer \in {"off", "armed", "stop", "closing", "returned"}
    /\ stage \in DOMAIN plan
    /\ robots \subseteq {r \in Bots : rpc[r] # "unborn"}
    /\ active \in Int /\ generation \in 0..Len(plan)
    /\ {creationDone, doneCh, cancelled, forced, overtaken} \subseteq BOOLEAN
    /\ rpc \in [Bots -> {"unborn", "running", "ended", "cleaned", "left", "counted",
                         "zero", "gone"}]
    /\ once \in [Bots -> {"free", "self"} \cup Closers]
    /\ result \in [Bots -> {"none", "known"}]
    /\ \A c \in Closers : DOMAIN got[c] \subseteq snap[c]

(* A robot that the manager must still wait for. *)
Alive(r) == rpc[r] \in {"running", "ended", "cleaned"} /\ gen[r] = generation

StopAllEnded == "returned" \in {pc, timer}

(* What the counters are for: doneCh is closed, other than by StopAll, only *)
(* once the creation is over and every robot of the current generation has  *)
(* left.                                                                    *)
DoneMeansDrained ==
    doneCh /\ ~StopAllEnded => creationDone /\ \A r \in Bots : ~Alive(r)

(* The same, outside the two windows in which a robot acts on a number that *)
(* is no longer true: between its generation check and its decrement while  *)
(* a reset sets active to 0, and between its decrement to 0 and its look at *)
(* creationDone while another robot is started.                             *)
DrainedUnlessOvertaken == ~overtaken => DoneMeansDrained

(* No completion is missed: when the creation's own check is over and every *)
(* robot's callback has ended, doneCh is closed.                            *)
CompletionIsNoticed ==
    /\ pc \in {"wait", "stop", "closing", "returned"}
    /\ \A r \in Bots : rpc[r] \in {"unborn", "gone"}
    /\ ~overtaken
    => doneCh

(* StopAll accounts for each robot once: what it takes under the lock, the  *)
(* robots still listed and the results of those that left, does not overlap *)
(* and contains every robot of the current generation that was started.     *)
EachRobotOnce ==
    \A c \in Closers :
        At(c) = "closing" =>
            /\ snap[c] \cap DOMAIN prior[c] = {}
            /\ \A r \in Bots : rpc[r] # "unborn" /\ gen[r] = generation =>
                 r \in snap[c] \cup DOMAIN prior[c]

(* The metrics of a segment are reported by OnStageReset only when no robot *)
(* of it can still produce any: each has been cleaned up, unless the        *)
(* closing pass was cut short.                                              *)
SegmentIsClosed ==
    [][reports' # reports =>
        \A r \in Bots : rpc[r] # "unborn" => result[r] # "none" \/ forced]_vars

(* A stop ends: however the run's robots hang, the runner returns. *)
StopReturns == cancelled ~> pc = "returned"
=============================================================================
