------------------------- MODULE RobotManagerProofs -------------------------
(***************************************************************************)
(* Proofs about RobotManager for every plan of stages, every set of faults *)
(* and every number of robots.                                             *)
(*                                                                         *)
(* EachRobotOnce speaks of what StopAll took under m.mu.  It is made       *)
(* inductive by saying the same of m.robots and the summary themselves     *)
(* (ListedOrRecorded), and by two facts about order: robots are numbered   *)
(* as they are made, so that a new one is in neither set (Numbered), and   *)
(* no StopAll of the timer runs while robots are created or a stage is     *)
(* reset (TimerAfterCreation).  Between the new generation of resetBots    *)
(* and the detachment of m.robots, no robot is of the current generation.  *)
(*                                                                         *)
(* SegmentIsClosed needs Cleaned: a robot that resetBots took off m.robots *)
(* is in the closing pass's set until a result for it came back, and the   *)
(* robot's own goroutine leaves "ended" only with a result.                *)
(*                                                                         *)
(* The two properties of the counters need CountInv: active is the number  *)
(* of robots that are still to decrement it.  The count is not true while  *)
(* resetBots is between the new generation and the zero, and no longer     *)
(* certain once a robot was overtaken; both are hypotheses of Counted.     *)
(***************************************************************************)
EXTENDS RobotManager, FiniteSetTheorems, TLAPS

Creating == {"stage", "batch", "hold", "reset", "detach", "drain", "pause", "timer"}

\* The types the proof needs.
ManagerTypes ==
    /\ offset \in Nat /\ made \in Nat /\ generation \in Nat
    /\ DOMAIN rpc = Bots /\ DOMAIN once = Bots
    /\ gen \in [Bots -> Nat]
    /\ DOMAIN snap = Closers /\ DOMAIN prior = Closers

\* A robot is listed, recorded or alive only if its turn in the creation came.
Numbered ==
    /\ robots \subseteq 1..(offset + made)
    /\ pc \in Creating => DOMAIN summary \subseteq 1..(offset + made)
    /\ \A r \in Bots : rpc[r] # "unborn" => r \in 1..(offset + made)

\* No robot is of a later generation, and resetBots detaches old ones only.
Generations ==
    /\ \A r \in Bots : gen[r] <= generation
    /\ pc = "detach" => \A r \in Bots : rpc[r] # "unborn" => gen[r] < generation

\* A robot whose own goroutine runs its clean-up was started.
SelfStarted == \A r \in Bots : once[r] = "self" => rpc[r] # "unborn"

TimerAfterCreation == timer # "off" => pc \notin Creating

\* Under m.mu a started robot of this generation is either listed or recorded.
ListedOrRecorded ==
    /\ robots \cap DOMAIN summary = {}
    /\ \A r \in Bots : rpc[r] # "unborn" /\ gen[r] = generation =>
          r \in robots \cup DOMAIN summary

ManagerInv ==
    /\ ManagerTypes /\ Numbered /\ Generations /\ SelfStarted
    /\ TimerAfterCreation /\ ListedOrRecorded /\ EachRobotOnce

\* A longer creation numbers more robots.
LEMMA IntervalGrows ==
    ASSUME NEW m \in Nat, NEW n \in Nat, n >= m
    PROVE  1..m \subseteq 1..n
OBVIOUS

\* Counting on stays within the naturals.
LEMMA SumIsNat ==
    ASSUME NEW m \in Nat, NEW n \in Nat
    PROVE  m + n \in Nat
OBVIOUS

\* The invariant holds before the first stage.
LEMMA InitInv == Init => ManagerInv
BY DEF Init, ManagerInv, ManagerTypes, Numbered, Generations, SelfStarted,
       TimerAfterCreation, ListedOrRecorded, EachRobotOnce, At, Closers, Creating

\* A step that leaves the two sets, the generations and what StopAll took
\* alone keeps the invariant, if it starts no robot and moves no goroutine
\* back into the creation.
LEMMA FrameInv ==
    ASSUME ManagerInv,
           UNCHANGED <<generation, gen, robots, summary, snap, prior>>,
           offset' \in Nat, made' \in Nat, offset' + made' >= offset + made,
           DOMAIN rpc' = Bots, DOMAIN once' = Bots,
           \A r \in Bots : rpc'[r] # "unborn" => rpc[r] # "unborn",
           \A r \in Bots : once'[r] = "self" => rpc'[r] # "unborn",
           pc' \in Creating => pc \in Creating,
           timer' # "off" => pc' \notin Creating,
           pc' # "detach" \/ pc = "detach",
           pc' = "closing" => pc = "closing",
           timer' = "closing" => timer = "closing"
    PROVE  ManagerInv'
<1> USE DEF ManagerInv
<1>0. ManagerTypes
  OBVIOUS
<1>1. ManagerTypes'
  BY DEF ManagerTypes
<1>2. Numbered'
  <2>1. offset + made \in Nat /\ offset' + made' \in Nat
    BY <1>0, <1>1, SumIsNat DEF ManagerTypes
  <2>2. 1..(offset + made) \subseteq 1..(offset' + made')
    BY <2>1, IntervalGrows
  <2> QED BY <2>2, Zenon DEF Numbered
<1>3. Generations' /\ SelfStarted' /\ TimerAfterCreation' /\ ListedOrRecorded'
  BY DEF ManagerTypes, Generations, SelfStarted, TimerAfterCreation, ListedOrRecorded
<1>4. EachRobotOnce'
  BY DEF EachRobotOnce, At
<1> QED BY <1>1, <1>2, <1>3, <1>4

\* Every step keeps the invariant.
LEMMA NextInv == ManagerInv /\ [Next]_vars => ManagerInv'
<1> SUFFICES ASSUME ManagerInv, [Next]_vars
             PROVE  ManagerInv'
  OBVIOUS
<1>1. ASSUME EnterStage
      PROVE  ManagerInv'
  BY <1>1, FrameInv DEF EnterStage, Return, ManagerInv, ManagerTypes, SelfStarted,
     TimerAfterCreation, Creating, batch, counters, members, threads, cleanups, closing
<1>2. ASSUME NewRobotFails
      PROVE  ManagerInv'
  BY <1>2, FrameInv DEF NewRobotFails, ManagerInv, ManagerTypes, SelfStarted,
     TimerAfterCreation, Creating, batch, counters, members, threads, cleanups, closing
<1>3. ASSUME BatchCancelled
      PROVE  ManagerInv'
  BY <1>3, FrameInv DEF BatchCancelled, Return, ManagerInv, ManagerTypes, SelfStarted,
     TimerAfterCreation, Creating, batch, counters, members, threads, cleanups, closing
<1>4. ASSUME BatchEnds
      PROVE  ManagerInv'
  BY <1>4, FrameInv DEF BatchEnds, Return, ManagerInv, ManagerTypes, SelfStarted,
     TimerAfterCreation, Creating, batch, counters, members, threads, cleanups, closing
<1>5. ASSUME Hold
      PROVE  ManagerInv'
  BY <1>5, FrameInv DEF Hold, Return, ManagerInv, ManagerTypes, SelfStarted,
     TimerAfterCreation, Creating, batch, counters, members, threads, cleanups, closing
<1>6. ASSUME ZeroActive
      PROVE  ManagerInv'
  BY <1>6, FrameInv DEF ZeroActive, ManagerInv, ManagerTypes, SelfStarted,
     TimerAfterCreation, Creating, batch, counters, members, threads, cleanups, closing
<1>7. ASSUME PauseAndReport
      PROVE  ManagerInv'
  BY <1>7, FrameInv DEF PauseAndReport, Return, ManagerInv, ManagerTypes, SelfStarted,
     TimerAfterCreation, Creating, batch, counters, members, threads, cleanups, closing
<1>8. ASSUME StartDurationTimer
      PROVE  ManagerInv'
  BY <1>8, FrameInv DEF StartDurationTimer, Return, ManagerInv, ManagerTypes, SelfStarted,
     TimerAfterCreation, Creating, batch, counters, members, threads, cleanups, closing
<1>9. ASSUME FinishCreation
      PROVE  ManagerInv'
  BY <1>9, FrameInv DEF FinishCreation, ManagerInv, ManagerTypes, SelfStarted,
     TimerAfterCreation, Creating, batch, counters, members, threads, cleanups, closing
<1>10. ASSUME CheckDrained
      PROVE  ManagerInv'
  BY <1>10, FrameInv DEF CheckDrained, ManagerInv, ManagerTypes, SelfStarted,
     TimerAfterCreation, Creating, batch, counters, members, threads, cleanups, closing
<1>11. ASSUME RunWaits
      PROVE  ManagerInv'
  BY <1>11, FrameInv DEF RunWaits, ManagerInv, ManagerTypes, SelfStarted,
     TimerAfterCreation, Creating, batch, counters, members, threads, cleanups, closing
<1>12. ASSUME Cancel
      PROVE  ManagerInv'
  BY <1>12, FrameInv DEF Cancel, ManagerInv, ManagerTypes, SelfStarted,
     TimerAfterCreation, Creating, batch, counters, members, threads, cleanups, closing
<1>13. ASSUME TimerFires
      PROVE  ManagerInv'
  BY <1>13, FrameInv DEF TimerFires, ManagerInv, ManagerTypes, SelfStarted,
     TimerAfterCreation, Creating, batch, counters, members, threads, cleanups, closing
<1>14. ASSUME NEW c \in Closers, StopAllReturns(c)
      PROVE  ManagerInv'
  BY <1>14, FrameInv DEF StopAllReturns, At, GoTo, Closers, ManagerInv,
     ManagerTypes, SelfStarted,
     TimerAfterCreation, Creating, batch, counters, members, threads, cleanups, closing
<1>15. ASSUME NEW c \in Closers, CloseTimesOut(c)
      PROVE  ManagerInv'
  BY <1>15, FrameInv DEF CloseTimesOut, ManagerInv, ManagerTypes, SelfStarted,
     TimerAfterCreation, Creating, batch, counters, members, threads, cleanups, closing
<1>16. ASSUME NEW r \in Bots, ExecutorEnds(r)
      PROVE  ManagerInv'
  BY <1>16, FrameInv DEF ExecutorEnds, ManagerInv, ManagerTypes, SelfStarted,
     TimerAfterCreation, Creating, batch, counters, members, threads, cleanups, closing
<1>17. ASSUME NEW r \in Bots, CleanupEnds(r)
      PROVE  ManagerInv'
  BY <1>17, FrameInv DEF CleanupEnds, ManagerInv, ManagerTypes, SelfStarted,
     TimerAfterCreation, Creating, batch, counters, members, threads, cleanups, closing
<1>18. ASSUME NEW r \in Bots, LoadGeneration(r)
      PROVE  ManagerInv'
  BY <1>18, FrameInv DEF LoadGeneration, ManagerInv, ManagerTypes, SelfStarted,
     TimerAfterCreation, Creating, batch, counters, members, threads, cleanups, closing
<1>19. ASSUME NEW r \in Bots, Decrement(r)
      PROVE  ManagerInv'
  BY <1>19, FrameInv DEF Decrement, ManagerInv, ManagerTypes, SelfStarted,
     TimerAfterCreation, Creating, batch, counters, members, threads, cleanups, closing
<1>20. ASSUME NEW r \in Bots, LoadCreationDone(r)
      PROVE  ManagerInv'
  BY <1>20, FrameInv DEF LoadCreationDone, ManagerInv, ManagerTypes, SelfStarted,
     TimerAfterCreation, Creating, batch, counters, members, threads, cleanups, closing
<1>21. ASSUME NEW r \in Bots, CleanupBegins(r)
      PROVE  ManagerInv'
  BY <1>21, FrameInv DEF CleanupBegins, Callers, Closers, ManagerInv,
     ManagerTypes, SelfStarted,
     TimerAfterCreation, Creating, batch, counters, members, threads, cleanups, closing
<1>22. ASSUME NEW r \in Bots, CleanupPublishes(r)
      PROVE  ManagerInv'
  BY <1>22, FrameInv DEF CleanupPublishes, Receives, ManagerInv, ManagerTypes, SelfStarted,
     TimerAfterCreation, Creating, batch, counters, members, threads, cleanups, closing
<1>23. ASSUME NEW r \in Bots, CleanupReads(r)
      PROVE  ManagerInv'
  BY <1>23, FrameInv DEF CleanupReads, Receives, Callers, Closers, ManagerInv,
     ManagerTypes, SelfStarted,
     TimerAfterCreation, Creating, batch, counters, members, threads, cleanups, closing
<1>24. ASSUME AddAndStartRobot
      PROVE  ManagerInv'
  <2> USE DEF AddAndStartRobot, ManagerInv
  <2>1. /\ offset + made \in Nat /\ offset' = offset /\ made' = made + 1
        /\ NextRobot \in 1..(offset' + made')
        /\ NextRobot \notin 1..(offset + made)
        /\ 1..(offset + made) \subseteq 1..(offset' + made')
    BY <1>24 DEF ManagerTypes, NextRobot
  <2>2. ManagerTypes'
    <3>1. made' \in Nat
      BY <2>1, SumIsNat DEF ManagerTypes
    <3>2. gen' \in [Bots -> Nat] /\ DOMAIN rpc' = Bots
      BY <1>24 DEF ManagerTypes
    <3> QED BY <1>24, <3>1, <3>2 DEF ManagerTypes, cleanups, closing
  <2>3. Generations'
    BY <1>24 DEF ManagerTypes, Generations
  <2>4. SelfStarted'
    BY <1>24 DEF ManagerTypes, SelfStarted, cleanups
  <2>5. Numbered'
    BY <1>24, <2>1 DEF ManagerTypes, Numbered, Creating
  <2>6. timer' = "off" /\ pc' = "batch"
    BY <1>24 DEF TimerAfterCreation, Creating
  <2>7. ListedOrRecorded'
    BY <1>24, <2>1 DEF ManagerTypes, Numbered, Creating, ListedOrRecorded
  <2>8. TimerAfterCreation' /\ EachRobotOnce'
    BY <2>6 DEF TimerAfterCreation, EachRobotOnce, At
  <2> QED BY <2>2, <2>3, <2>4, <2>5, <2>7, <2>8
<1>25. ASSUME StartRejected
      PROVE  ManagerInv'
  <2> USE DEF StartRejected, Return, ManagerInv
  <2>1. /\ NextRobot \notin 1..(offset + made)
        /\ DOMAIN summary' = DOMAIN summary \cup {NextRobot}
    BY <1>25 DEF ManagerTypes, NextRobot, Put
  <2>2. ManagerTypes' /\ Generations' /\ SelfStarted' /\ Numbered'
    BY <1>25 DEF ManagerTypes, Generations, SelfStarted, Numbered, Creating,
                 cleanups, closing, counters, threads
  <2>3. ListedOrRecorded'
    BY <1>25, <2>1 DEF Numbered, ListedOrRecorded, counters, threads
  <2>4. TimerAfterCreation' /\ EachRobotOnce'
    BY <1>25 DEF TimerAfterCreation, Creating, EachRobotOnce, At
  <2> QED BY <2>2, <2>3, <2>4
<1>26. ASSUME BumpGeneration
      PROVE  ManagerInv'
  <2> USE DEF BumpGeneration, ManagerInv
  <2>1. timer' = "off" /\ pc' = "detach"
    BY <1>26 DEF TimerAfterCreation, Creating
  <2>2. ManagerTypes' /\ SelfStarted'
    BY <1>26 DEF ManagerTypes, SelfStarted, batch, threads, cleanups, closing
  <2>3. \A r \in Bots : gen'[r] < generation'
    BY <1>26 DEF ManagerTypes, Generations, threads
  <2>4. Generations' /\ ListedOrRecorded'
    BY <1>26, <2>2, <2>3 DEF ManagerTypes, Generations, ListedOrRecorded, members
  <2>5. Numbered'
    BY <1>26 DEF Numbered, Creating, batch, members, threads
  <2>6. TimerAfterCreation' /\ EachRobotOnce'
    BY <2>1 DEF TimerAfterCreation, EachRobotOnce, At
  <2> QED BY <2>2, <2>4, <2>5, <2>6
<1>27. ASSUME DetachRobots
      PROVE  ManagerInv'
  <2> USE DEF DetachRobots, ManagerInv
  <2>1. timer' = "off" /\ pc' = "drain"
    BY <1>27 DEF TimerAfterCreation, Creating
  <2>2. ManagerTypes' /\ SelfStarted'
    BY <1>27 DEF ManagerTypes, SelfStarted, batch, counters, threads, cleanups
  <2>3. Generations' /\ ListedOrRecorded'
    BY <1>27 DEF ManagerTypes, Generations, ListedOrRecorded, counters, threads
  <2>4. Numbered'
    BY <1>27 DEF Numbered, Creating, batch, threads
  <2>5. TimerAfterCreation' /\ EachRobotOnce'
    BY <2>1 DEF TimerAfterCreation, EachRobotOnce, At
  <2> QED BY <2>2, <2>3, <2>4, <2>5
<1>28. ASSUME NEW c \in Closers, StopAllSnapshot(c)
      PROVE  ManagerInv'
  <2> USE DEF StopAllSnapshot, ManagerInv
  <2>1. ManagerTypes' /\ Generations' /\ SelfStarted' /\ ListedOrRecorded'
    BY <1>28 DEF ManagerTypes, Generations, SelfStarted, ListedOrRecorded, GoTo, At,
                 batch, counters, members, threads, cleanups
  <2>2. Numbered'
    BY <1>28 DEF Numbered, Creating, GoTo, At, batch, members, threads
  <2>3. TimerAfterCreation'
    BY <1>28 DEF TimerAfterCreation, Creating, GoTo, At
  <2>4. ASSUME NEW d \in Closers, At(d)' = "closing"
        PROVE  /\ snap'[d] \cap DOMAIN prior'[d] = {}
               /\ \A r \in Bots : rpc'[r] # "unborn" /\ gen'[r] = generation' =>
                    r \in snap'[d] \cup DOMAIN prior'[d]
    <3>1. CASE d = c
      BY <1>28, <3>1 DEF ManagerTypes, ListedOrRecorded, threads, counters
    <3>2. CASE d # c
      <4>1. At(d) = "closing" /\ snap'[d] = snap[d] /\ prior'[d] = prior[d]
        BY <1>28, <2>4, <3>2 DEF ManagerTypes, At, GoTo, Closers
      <4> QED BY <1>28, <4>1 DEF EachRobotOnce, threads, counters
    <3> QED BY <3>1, <3>2
  <2>5. EachRobotOnce'
    BY <2>4 DEF EachRobotOnce
  <2> QED BY <2>1, <2>2, <2>3, <2>5
<1>29. ASSUME NEW r \in Bots, LeaveRobots(r)
      PROVE  ManagerInv'
  <2> USE DEF LeaveRobots, ManagerInv
  <2>1. /\ DOMAIN summary' = DOMAIN summary \cup {r}
        /\ \A q \in Bots : rpc'[q] # "unborn" => rpc[q] # "unborn"
        /\ rpc[r] # "unborn" /\ rpc'[r] # "unborn"
    BY <1>29 DEF ManagerTypes, Put
  <2>2. ManagerTypes' /\ Generations' /\ SelfStarted'
    BY <1>29, <2>1 DEF ManagerTypes, Generations, SelfStarted, batch, counters,
                       cleanups, closing
  <2>3. Numbered'
    BY <1>29, <2>1 DEF Numbered, batch
  <2>4. ListedOrRecorded'
    BY <1>29, <2>1 DEF ListedOrRecorded, counters
  <2>5. TimerAfterCreation' /\ EachRobotOnce'
    BY <1>29, <2>1 DEF TimerAfterCreation, EachRobotOnce, At, counters, closing
  <2> QED BY <2>2, <2>3, <2>4, <2>5
<1>30. CASE UNCHANGED vars
  BY <1>30, FrameInv DEF vars, ManagerInv, ManagerTypes, SelfStarted,
     TimerAfterCreation, Creating, batch, counters, members, threads, cleanups, closing
<1> QED
  BY <1>1, <1>2, <1>3, <1>4, <1>5, <1>6, <1>7, <1>8, <1>9, <1>10, <1>11, <1>12, <1>13,
     <1>14, <1>15, <1>16, <1>17, <1>18, <1>19, <1>20, <1>21, <1>22, <1>23, <1>24, <1>25,
     <1>26, <1>27, <1>28, <1>29, <1>30
  DEF Next, RunnerStep, CloserStep, RobotStep

\* StopAll accounts for each robot once, whatever the plan, the faults and the
\* interleaving of the robots' own callbacks (onRobotDone) with the two passes.
THEOREM ManagerEachRobotOnce == Spec => []EachRobotOnce
<1>1. ManagerInv => EachRobotOnce
  BY DEF ManagerInv
<1> QED BY InitInv, NextInv, <1>1, PTL DEF Spec

-----------------------------------------------------------------------------
\* What the counters are for.  The robots that active stands for: each is to
\* decrement it, and no other one is.
Counting ==
    {r \in Bots : /\ rpc[r] \in {"running", "ended", "cleaned", "left", "counted"}
                  /\ gen[r] = generation}

Detaching == pc \in {"detach", "drain"}

\* Where the runner is tells whether the creation is over.
CreationOver == creationDone <=> pc \notin Creating \cup {"finish"}

\* Unless a robot has been overtaken: active counts, but for the time resetBots
\* needs from the new generation to the zero; a robot that has decremented it
\* to zero was the last one; doneCh is closed only after the last one; and once
\* the creation has looked at active, the last one closes doneCh.
Counted ==
    /\ ~Detaching => /\ active = Cardinality(Counting)
                     /\ \A r \in Bots : rpc[r] = "counted" => gen[r] = generation
    /\ Detaching \/ (\E r \in Bots : rpc[r] = "zero") => Counting = {}
    /\ doneCh /\ ~StopAllEnded => creationDone /\ Counting = {}
    /\ pc \in {"wait", "stop", "closing", "returned"} /\ Counting = {}
         => doneCh \/ \E r \in Bots : rpc[r] = "zero"

CountInv == CreationOver /\ (~overtaken => Counted)

\* The clean-ups: what resetBots waits for.
Cleaned ==
    /\ DOMAIN result = Bots /\ DOMAIN shown = Bots /\ DOMAIN got = Closers
    /\ \A c \in Closers : \A r \in DOMAIN got[c] \cap Bots : result[r] # "none" \/ forced
    /\ \A r \in Bots : rpc[r] \notin {"unborn", "running", "ended"} => result[r] # "none"
    /\ pc \in {"drain", "pause"} => robots = {}
    /\ \A r \in Bots : rpc[r] # "unborn" =>
         \/ result[r] # "none" \/ forced \/ r \in robots
         \/ pc = "drain" /\ r \in snap["main"]
    /\ \A r \in Bots : once[r] = "self" /\ shown[r] = "none" => rpc[r] = "ended"

\* Every step keeps Cleaned.
LEMMA CleanedNext ==
    ASSUME ManagerInv, Cleaned, [Next]_vars
    PROVE  Cleaned'
<1>0. /\ DOMAIN rpc = Bots /\ DOMAIN once = Bots /\ DOMAIN snap = Closers
      /\ "main" \in Closers /\ "self" \notin Closers /\ "free" \notin Closers
      /\ \A r \in Bots : once[r] = "self" => rpc[r] # "unborn"
  BY DEF ManagerInv, ManagerTypes, SelfStarted, Closers
<1>1. ASSUME UNCHANGED <<result, got, forced, once, shown, threads, robots>>,
             UNCHANGED snap \/ (pc # "drain" /\ snap' = [snap EXCEPT !["timer"] = robots]),
             pc' \in {"drain", "pause"} => pc' = pc,
             pc = "drain" => pc' = "drain"
      PROVE  Cleaned'
  <2>1. pc = "drain" => snap'["main"] = snap["main"]
    BY <1>0, <1>1
  <2> QED BY <1>1, <2>1 DEF Cleaned, threads
<1>2. CASE UNCHANGED vars
  BY <1>1, <1>2 DEF vars, cleanups, closing, members
<1>3. CASE \/ EnterStage \/ NewRobotFails \/ StartRejected \/ BatchCancelled \/ BatchEnds
           \/ Hold \/ PauseAndReport \/ StartDurationTimer \/ FinishCreation \/ CheckDrained
           \/ RunWaits \/ Cancel \/ TimerFires \/ BumpGeneration
  BY <1>1, <1>3 DEF EnterStage, NewRobotFails, StartRejected, BatchCancelled, BatchEnds,
       Hold, PauseAndReport, StartDurationTimer, FinishCreation, CheckDrained, RunWaits,
       Cancel, TimerFires, BumpGeneration, Return, cleanups, closing, members
<1>4. ASSUME NEW c \in Closers, StopAllReturns(c)
      PROVE  Cleaned'
  BY <1>1, <1>4 DEF StopAllReturns, GoTo, At, cleanups, closing, members
<1>5. ASSUME NEW c \in Closers, StopAllSnapshot(c)
      PROVE  Cleaned'
  <2>1. /\ UNCHANGED <<result, forced, once, shown, rpc, robots>>
        /\ got' = [got EXCEPT ![c] = <<>>]
        /\ snap' = [snap EXCEPT ![c] = robots]
        /\ pc' \in {"drain", "pause"} => pc' = pc
        /\ pc = "drain" => pc' = "drain" /\ c # "main"
    BY <1>5 DEF StopAllSnapshot, GoTo, At, cleanups, members, threads
  <2>2. /\ DOMAIN got' = Closers
        /\ \A d \in Closers : DOMAIN got'[d] \subseteq DOMAIN got[d]
    BY <2>1 DEF Cleaned
  <2>3. pc = "drain" => snap'["main"] = snap["main"]
    BY <1>0, <2>1
  <2> QED BY <2>1, <2>2, <2>3 DEF Cleaned
<1>6. ASSUME NEW c \in Closers, CloseTimesOut(c)
      PROVE  Cleaned'
  <2>1. forced' = TRUE /\ UNCHANGED <<pc, result, once, shown, rpc, robots>>
    BY <1>6 DEF CloseTimesOut, cleanups, members, threads
  <2>2. DOMAIN got' = Closers
    BY <1>6 DEF CloseTimesOut, Cleaned
  <2> QED BY <2>1, <2>2 DEF Cleaned
<1>7. CASE AddAndStartRobot
  <2>1. NextRobot \in Bots /\ rpc[NextRobot] = "unborn"
    BY <1>7 DEF AddAndStartRobot, ManagerInv, ManagerTypes, Numbered, NextRobot
  <2>2. /\ UNCHANGED <<pc, result, got, forced, once, shown, snap>>
        /\ pc = "batch" /\ robots' = robots \cup {NextRobot}
        /\ rpc' = [rpc EXCEPT ![NextRobot] = "running"]
    BY <1>7 DEF AddAndStartRobot, cleanups, closing
  <2> QED BY <1>0, <2>1, <2>2 DEF Cleaned
<1>8. CASE DetachRobots
  <2>1. /\ UNCHANGED <<result, forced, once, shown, rpc>>
        /\ pc = "detach" /\ pc' = "drain" /\ robots' = {}
        /\ snap' = [snap EXCEPT !["main"] = robots]
        /\ got' = [got EXCEPT !["main"] = <<>>]
    BY <1>8 DEF DetachRobots, cleanups, threads
  <2>2. /\ DOMAIN got' = Closers
        /\ \A d \in Closers : DOMAIN got'[d] \subseteq DOMAIN got[d]
        /\ snap'["main"] = robots
    BY <1>0, <2>1 DEF Cleaned
  <2> QED BY <2>1, <2>2 DEF Cleaned
<1>9. CASE ZeroActive
  <2>1. /\ UNCHANGED <<result, got, forced, once, shown, rpc, robots, snap>>
        /\ pc = "drain" /\ pc' = "pause" /\ snap["main"] \subseteq DOMAIN got["main"]
    BY <1>9 DEF ZeroActive, Awaited, cleanups, closing, members, threads
  <2> QED BY <1>0, <2>1 DEF Cleaned
<1>10. ASSUME NEW r \in Bots, CleanupBegins(r)
       PROVE  Cleaned'
  <2>1. /\ UNCHANGED <<pc, result, got, forced, shown, rpc, robots, snap>>
        /\ \E a \in Callers(r) : once' = [once EXCEPT ![r] = a]
    BY <1>10 DEF CleanupBegins, closing, members, threads
  <2> QED BY <1>0, <2>1 DEF Cleaned, Callers
<1>11. ASSUME NEW r \in Bots, CleanupEnds(r)
       PROVE  Cleaned'
  <2>1. /\ UNCHANGED <<pc, once, got, forced, shown, rpc, robots, snap>>
        /\ result' = [result EXCEPT ![r] = "known"]
    BY <1>11 DEF CleanupEnds, closing, members, threads
  <2> QED BY <2>1 DEF Cleaned
<1>12. ASSUME NEW r \in Bots, ExecutorEnds(r)
       PROVE  Cleaned'
  <2>1. /\ UNCHANGED <<pc, once, got, forced, shown, result, robots, snap>>
        /\ rpc[r] = "running" /\ rpc' = [rpc EXCEPT ![r] = "ended"]
    BY <1>12 DEF ExecutorEnds, closing, members, cleanups
  <2> QED BY <1>0, <2>1 DEF Cleaned
<1>13. ASSUME NEW r \in Bots, \/ LoadGeneration(r) \/ Decrement(r) \/ LoadCreationDone(r)
                              \/ LeaveRobots(r)
       PROVE  Cleaned'
  <2>1. /\ UNCHANGED <<pc, once, got, forced, shown, result, snap>>
        /\ rpc[r] \notin {"unborn", "running", "ended"}
        /\ \A q \in Bots \ {r} : rpc'[q] = rpc[q]
        /\ rpc'[r] \notin {"unborn", "running", "ended"}
        /\ robots' \subseteq robots /\ robots \ {r} \subseteq robots'
    BY <1>0, <1>13 DEF LoadGeneration, Decrement, LoadCreationDone, LeaveRobots, cleanups,
                       closing, members
  <2> QED BY <1>0, <2>1 DEF Cleaned
<1>14. ASSUME NEW r \in Bots, CleanupPublishes(r) \/ CleanupReads(r)
       PROVE  Cleaned'
  <2>1. /\ UNCHANGED <<pc, once, forced, result, snap, robots>>
        /\ result[r] # "none"
        /\ DOMAIN shown' = DOMAIN shown
        /\ \A q \in Bots : shown'[q] = "none" => shown[q] = "none"
    BY <1>14 DEF CleanupPublishes, CleanupReads, members, Cleaned
  <2>2. /\ rpc'[r] = "ended" \/ ~(once[r] = "self" /\ shown'[r] = "none")
        /\ \A q \in Bots \ {r} : rpc'[q] = rpc[q]
        /\ rpc'[r] = "unborn" => rpc[r] = "unborn"
        /\ \A q \in Bots : rpc'[q] \notin {"unborn", "running", "ended"} => q = r \/ rpc'[q] = rpc[q]
    BY <1>0, <1>14 DEF CleanupPublishes, CleanupReads, Receives, Callers, Cleaned
  <2>3. /\ DOMAIN got' = Closers
        /\ \A d \in Closers : DOMAIN got'[d] \subseteq DOMAIN got[d] \cup {r}
    BY <1>14 DEF CleanupPublishes, CleanupReads, Receives, Cleaned, Put
  <2> QED BY <1>0, <2>1, <2>2, <2>3 DEF Cleaned
<1> QED
  BY <1>2, <1>3, <1>4, <1>5, <1>6, <1>7, <1>8, <1>9, <1>10, <1>11, <1>12, <1>13, <1>14
  DEF Next, RunnerStep, CloserStep, RobotStep

\* The clean-ups of a run that has not begun.
LEMMA CleanedInit == Init => Cleaned
BY DEF Init, Cleaned, Closers

\* OnStageReset is called only when every robot of the stage has been cleaned
\* up, or resetBots' closing pass was cut short by its timeout.
THEOREM ManagerSegmentIsClosed == Spec => SegmentIsClosed
<1>1. ASSUME Cleaned, [Next]_vars
      PROVE  [reports' # reports =>
                \A r \in Bots : rpc[r] # "unborn" => result[r] # "none" \/ forced]_vars
  <2>1. ASSUME reports' # reports
        PROVE  PauseAndReport
    BY <1>1, <2>1 DEF Next, RunnerStep, CloserStep, RobotStep, vars, EnterStage,
       NewRobotFails, AddAndStartRobot, StartRejected, BatchCancelled, BatchEnds, Hold,
       BumpGeneration, DetachRobots, ZeroActive, StartDurationTimer, FinishCreation,
       CheckDrained, RunWaits, StopAllSnapshot, StopAllReturns, Cancel, TimerFires,
       CloseTimesOut, ExecutorEnds, CleanupBegins, CleanupEnds, CleanupPublishes,
       CleanupReads, LeaveRobots, LoadGeneration, Decrement, LoadCreationDone
  <2> QED BY <1>1, <2>1 DEF PauseAndReport, Cleaned
<1> QED BY InitInv, NextInv, CleanedInit, CleanedNext, <1>1, PTL DEF Spec, SegmentIsClosed

\* The robots that count are among those that were made, so there are finitely
\* many of them.
LEMMA CountingFinite ==
    ASSUME ManagerInv
    PROVE  IsFiniteSet(Counting)
<1>1. offset + made \in Nat
  BY SumIsNat DEF ManagerInv, ManagerTypes
<1>2. Counting \in SUBSET (1..(offset + made))
  BY DEF Counting, ManagerInv, Numbered
<1>3. IsFiniteSet(1..(offset + made))
  BY <1>1, FS_Interval
<1> QED BY <1>2, <1>3, FS_Subset

\* A step that moves no robot in or out of the count.
LEMMA CountFrame ==
    ASSUME CountInv, UNCHANGED <<active, generation, gen, creationDone, doneCh, overtaken>>,
           Counting' = Counting,
           \A r \in Bots : rpc'[r] = "counted" => rpc[r] = "counted",
           \A r \in Bots : rpc'[r] = "zero" <=> rpc[r] = "zero",
           Detaching' <=> Detaching,
           pc' \in Creating \cup {"finish"} <=> pc \in Creating \cup {"finish"},
           pc' \in {"wait", "stop", "closing", "returned"}
             => pc \in {"wait", "stop", "closing", "returned"},
           StopAllEnded => StopAllEnded'
    PROVE  CountInv'
<1>1. CreationOver'
  BY DEF CountInv, CreationOver
<1>2. ASSUME ~overtaken'
      PROVE  Counted'
  <2>1. Counted
    BY <1>2 DEF CountInv
  <2>2. /\ ~Detaching' => /\ active' = Cardinality(Counting')
                          /\ \A r \in Bots : rpc'[r] = "counted" => gen'[r] = generation'
        /\ Detaching' \/ (\E r \in Bots : rpc'[r] = "zero") => Counting' = {}
        /\ doneCh' /\ ~StopAllEnded' => creationDone' /\ Counting' = {}
        /\ pc' \in {"wait", "stop", "closing", "returned"} /\ Counting' = {}
             => doneCh' \/ \E r \in Bots : rpc'[r] = "zero"
    BY <2>1 DEF Counted
  <2> QED BY <2>2 DEF Counted
<1> QED BY <1>1, <1>2 DEF CountInv

\* The steps that leave the robots' own goroutines alone.
LEMMA CountStays ==
    ASSUME CountInv, UNCHANGED <<counters, threads, overtaken>>,
           Detaching' <=> Detaching,
           pc' \in Creating \cup {"finish"} <=> pc \in Creating \cup {"finish"},
           pc' \in {"wait", "stop", "closing", "returned"}
             => pc \in {"wait", "stop", "closing", "returned"},
           StopAllEnded => StopAllEnded'
    PROVE  CountInv'
<1>1. Counting' = Counting
  BY DEF Counting, counters, threads
<1> QED BY <1>1, CountFrame DEF counters, threads

\* Every step keeps the count.
LEMMA CountNext ==
    ASSUME ManagerInv, Cleaned, CountInv, [Next]_vars
    PROVE  CountInv'
<1> USE DEF Detaching, StopAllEnded, Creating
<1>1. CASE UNCHANGED vars
  BY <1>1, CountStays DEF vars
<1>2. CASE \/ EnterStage \/ NewRobotFails \/ StartRejected \/ BatchCancelled \/ BatchEnds \/ Hold
           \/ PauseAndReport \/ StartDurationTimer \/ Cancel
  BY <1>2, CountStays DEF EnterStage, NewRobotFails, StartRejected, BatchCancelled, BatchEnds, Hold,
       PauseAndReport, StartDurationTimer, Cancel, Return, ManagerInv, TimerAfterCreation
<1>3. CASE DetachRobots \/ RunWaits \/ TimerFires
  BY <1>3, CountStays DEF DetachRobots, RunWaits, TimerFires
<1>4. ASSUME NEW c \in Closers, StopAllSnapshot(c) \/ CloseTimesOut(c)
      PROVE  CountInv'
  BY <1>4, CountStays DEF StopAllSnapshot, CloseTimesOut, At, GoTo, Closers
<1>5. ASSUME NEW r \in Bots, CleanupBegins(r) \/ CleanupEnds(r)
      PROVE  CountInv'
  BY <1>5, CountStays DEF CleanupBegins, CleanupEnds
<1>6. ASSUME NEW r \in Bots, ExecutorEnds(r) \/ LeaveRobots(r)
      PROVE  CountInv'
  <2>1. \A q \in Bots : \/ rpc'[q] = rpc[q]
                        \/ /\ rpc[q] \in {"running", "cleaned"} /\ rpc'[q] \in {"ended", "left"}
    BY <1>6 DEF ExecutorEnds, LeaveRobots, ManagerInv, ManagerTypes
  <2>2. /\ UNCHANGED <<pc, timer, active, generation, gen, creationDone, doneCh, overtaken>>
    BY <1>6 DEF ExecutorEnds, LeaveRobots, counters
  <2>3. Counting' = Counting
    BY <2>1, <2>2 DEF Counting
  <2> QED BY <2>1, <2>2, <2>3, CountFrame
<1>7. ASSUME NEW r \in Bots, CleanupPublishes(r) \/ CleanupReads(r)
      PROVE  CountInv'
  <2>1. /\ UNCHANGED <<pc, timer, active, generation, gen, creationDone, doneCh, overtaken>>
    BY <1>7 DEF CleanupPublishes, CleanupReads, counters
  <2>2. CASE UNCHANGED rpc
    BY <2>1, <2>2, CountStays DEF counters, threads
  <2>3. CASE rpc[r] = "ended" /\ rpc' = [rpc EXCEPT ![r] = "cleaned"]
    <3>1. \A q \in Bots : rpc'[q] = rpc[q] \/ (rpc[q] = "ended" /\ rpc'[q] = "cleaned")
      BY <2>3 DEF ManagerInv, ManagerTypes
    <3>2. Counting' = Counting
      BY <2>1, <3>1 DEF Counting
    <3> QED BY <2>1, <3>1, <3>2, CountFrame
  <2> QED BY <1>7, <2>2, <2>3 DEF CleanupPublishes, CleanupReads, Receives, Callers, Closers,
                                  Cleaned
<1>8. CASE AddAndStartRobot
  <2>1. /\ NextRobot \in Bots /\ rpc[NextRobot] = "unborn"
    BY <1>8 DEF AddAndStartRobot, ManagerInv, ManagerTypes, Numbered, NextRobot
  <2>2. /\ UNCHANGED <<pc, timer, generation, creationDone, doneCh>>
        /\ pc = "batch" /\ active' = active + 1
        /\ rpc' = [rpc EXCEPT ![NextRobot] = "running"]
        /\ gen' = [gen EXCEPT ![NextRobot] = generation]
        /\ ~overtaken' => ~overtaken /\ \A r \in Bots : rpc[r] # "zero"
    BY <1>8 DEF AddAndStartRobot
  <2>3. /\ Counting' = Counting \cup {NextRobot} /\ NextRobot \notin Counting
    BY <2>1, <2>2 DEF Counting, ManagerInv, ManagerTypes
  <2>4. Cardinality(Counting') = Cardinality(Counting) + 1
    BY <2>3, CountingFinite, FS_AddElement
  <2>5. \A r \in Bots : rpc'[r] = "counted" => rpc[r] = "counted" /\ gen'[r] = gen[r]
    BY <2>1, <2>2 DEF ManagerInv, ManagerTypes
  <2>6. CreationOver' /\ ~creationDone
    BY <2>2 DEF CountInv, CreationOver
  <2>7. ASSUME ~overtaken'
        PROVE  Counted'
    <3>1. Counted /\ \A r \in Bots : rpc'[r] # "zero"
      BY <2>1, <2>2, <2>7 DEF CountInv, ManagerInv, ManagerTypes
    <3>2. active' = Cardinality(Counting')
      BY <2>2, <2>4, <3>1 DEF Counted
    <3>3. ~(doneCh' /\ ~StopAllEnded')
      BY <2>2, <2>6, <3>1 DEF Counted
    <3> QED BY <2>2, <2>5, <3>1, <3>2, <3>3 DEF Counted
  <2> QED BY <2>6, <2>7 DEF CountInv
<1>9. CASE BumpGeneration
  <2>1. /\ pc = "reset" /\ pc' = "detach" /\ generation' = generation + 1
        /\ UNCHANGED <<timer, rpc, gen, creationDone, doneCh, overtaken>>
    BY <1>9 DEF BumpGeneration, threads
  <2>2. Counting' = {}
    BY <2>1 DEF Counting, ManagerInv, ManagerTypes, Generations
  <2>3. CreationOver' /\ ~creationDone
    BY <2>1 DEF CountInv, CreationOver
  <2> QED BY <2>1, <2>2, <2>3 DEF CountInv, Counted
<1>10. CASE ZeroActive
  <2>1. /\ pc = "drain" /\ pc' = "pause" /\ active' = 0
        /\ UNCHANGED <<timer, generation, rpc, gen, creationDone, doneCh>>
        /\ ~overtaken' => ~overtaken /\ \A r \in Bots : rpc[r] # "counted"
    BY <1>10 DEF ZeroActive, threads
  <2>2. CreationOver'
    BY <2>1 DEF CountInv, CreationOver
  <2>3. ASSUME ~overtaken'
        PROVE  Counted'
    <3>1. Counted /\ Counting = {} /\ Counting' = {}
      BY <2>1, <2>3 DEF CountInv, Counted, Counting
    <3>2. active' = Cardinality(Counting')
      BY <2>1, <3>1, FS_EmptySet
    <3> QED BY <2>1, <2>3, <3>1, <3>2 DEF Counted
  <2> QED BY <2>2, <2>3 DEF CountInv
<1>11. CASE FinishCreation
  <2>1. /\ pc = "finish" /\ pc' = "check" /\ creationDone' = TRUE
        /\ UNCHANGED <<timer, active, generation, rpc, gen, doneCh, overtaken>>
    BY <1>11 DEF FinishCreation, threads
  <2>2. Counting' = Counting
    BY <2>1 DEF Counting
  <2> QED BY <2>1, <2>2 DEF CountInv, CreationOver, Counted
<1>12. CASE CheckDrained
  <2>1. /\ pc = "check" /\ pc' \in {"wait", "stop"} /\ doneCh' = (doneCh \/ active = 0)
        /\ UNCHANGED <<timer, active, generation, rpc, gen, creationDone, overtaken>>
    BY <1>12 DEF CheckDrained, threads
  <2>2. Counting' = Counting
    BY <2>1 DEF Counting
  <2>3. CreationOver' /\ creationDone'
    BY <2>1 DEF CountInv, CreationOver
  <2>4. Cardinality(Counting) = 0 <=> Counting = {}
    BY CountingFinite, FS_EmptySet
  <2>5. ASSUME ~overtaken'
        PROVE  Counted'
    <3>1. Counted /\ (active = 0 <=> Counting = {})
      BY <2>1, <2>4, <2>5 DEF CountInv, Counted
    <3> QED BY <2>1, <2>2, <2>3, <3>1 DEF Counted
  <2> QED BY <2>3, <2>5 DEF CountInv
<1>13. ASSUME NEW c \in Closers, StopAllReturns(c)
       PROVE  CountInv'
  <2>1. /\ doneCh' = TRUE /\ StopAllEnded'
        /\ pc' = pc \/ (pc = "closing" /\ pc' = "returned")
        /\ UNCHANGED <<active, generation, rpc, gen, creationDone, overtaken>>
    BY <1>13 DEF StopAllReturns, GoTo, At, Closers, threads
  <2>2. Counting' = Counting
    BY <2>1 DEF Counting
  <2> QED BY <2>1, <2>2 DEF CountInv, CreationOver, Counted
<1>14. ASSUME NEW r \in Bots, LoadGeneration(r)
       PROVE  CountInv'
  <2>1. /\ UNCHANGED <<pc, timer, active, generation, gen, creationDone, doneCh, overtaken>>
        /\ rpc[r] = "left"
        /\ rpc' = [rpc EXCEPT ![r] = IF gen[r] = generation THEN "counted" ELSE "gone"]
    BY <1>14 DEF LoadGeneration, counters
  <2>2. /\ \A q \in Bots : \/ rpc'[q] = rpc[q]
                           \/ rpc[q] = "left" /\ rpc'[q] = "counted" /\ gen[q] = generation
                           \/ rpc[q] = "left" /\ rpc'[q] = "gone" /\ gen[q] # generation
    BY <2>1 DEF ManagerInv, ManagerTypes
  <2>3. Counting' = Counting
    BY <2>1, <2>2 DEF Counting
  <2>4. \A q \in Bots : rpc'[q] = "zero" <=> rpc[q] = "zero"
    BY <2>2
  <2> QED BY <2>1, <2>2, <2>3, <2>4 DEF CountInv, CreationOver, Counted
<1>15. ASSUME NEW r \in Bots, Decrement(r)
       PROVE  CountInv'
  <2>1. /\ UNCHANGED <<pc, timer, generation, gen, creationDone, doneCh, overtaken>>
        /\ rpc[r] = "counted" /\ active' = active - 1
        /\ rpc' = [rpc EXCEPT ![r] = IF active = 1 THEN "zero" ELSE "gone"]
    BY <1>15 DEF Decrement
  <2>2. /\ \A q \in Bots \ {r} : rpc'[q] = rpc[q]
        /\ rpc'[r] = IF active = 1 THEN "zero" ELSE "gone"
    BY <2>1 DEF ManagerInv, ManagerTypes
  <2>3. Counting' = Counting \ {r}
    BY <2>1, <2>2 DEF Counting
  <2>4. CreationOver'
    BY <2>1 DEF CountInv, CreationOver
  <2>5. CASE overtaken
    BY <2>1, <2>4, <2>5 DEF CountInv
  <2>6. CASE ~overtaken /\ Detaching
    <3>1. Counted /\ Counting' = {}
      BY <2>3, <2>6 DEF CountInv, Counted
    <3> QED BY <2>1, <2>4, <2>6, <3>1 DEF CountInv, Counted
  <2>7. CASE ~overtaken /\ ~Detaching
    <3>1. Counted
      BY <2>7 DEF CountInv
    <3>2. r \in Counting /\ active = Cardinality(Counting)
      BY <2>1, <2>7, <3>1 DEF Counted, Counting
    <3>3. /\ Cardinality(Counting') = Cardinality(Counting) - 1
          /\ IsFiniteSet(Counting') /\ Cardinality(Counting) \in Nat
      BY <2>3, <3>2, CountingFinite, FS_RemoveElement, FS_CardinalityType
    <3>4. active = 1 <=> Counting' = {}
      BY <3>2, <3>3, FS_EmptySet
    <3>5. \A q \in Bots : rpc[q] # "zero"
      BY <3>1, <3>2 DEF Counted
    <3>6. ~(doneCh /\ ~StopAllEnded)
      BY <3>1, <3>2 DEF Counted
    <3>7. /\ active' = Cardinality(Counting')
          /\ \A q \in Bots : rpc'[q] = "counted" => gen'[q] = generation'
      BY <2>1, <2>2, <2>7, <3>1, <3>2, <3>3 DEF Counted
    <3>8. (\E q \in Bots : rpc'[q] = "zero") <=> Counting' = {}
      BY <2>2, <3>4, <3>5
    <3> QED BY <2>1, <2>4, <2>7, <3>6, <3>7, <3>8 DEF CountInv, Counted
  <2> QED BY <2>5, <2>6, <2>7
<1>16. ASSUME NEW r \in Bots, LoadCreationDone(r)
       PROVE  CountInv'
  <2>1. /\ UNCHANGED <<pc, timer, active, generation, gen, creationDone, overtaken>>
        /\ rpc[r] = "zero" /\ doneCh' = (doneCh \/ creationDone)
        /\ rpc' = [rpc EXCEPT ![r] = "gone"]
    BY <1>16 DEF LoadCreationDone
  <2>2. \A q \in Bots : rpc'[q] = rpc[q] \/ (rpc[q] = "zero" /\ rpc'[q] = "gone")
    BY <2>1 DEF ManagerInv, ManagerTypes
  <2>3. Counting' = Counting
    BY <2>1, <2>2 DEF Counting
  <2>4. CreationOver' /\ (pc \in {"wait", "stop", "closing", "returned"} => creationDone)
    BY <2>1 DEF CountInv, CreationOver
  <2>5. ASSUME ~overtaken'
        PROVE  Counted'
    <3>1. Counted /\ Counting = {}
      BY <2>1, <2>5 DEF CountInv, Counted
    <3> QED BY <2>1, <2>2, <2>3, <2>4, <3>1 DEF Counted
  <2> QED BY <2>4, <2>5 DEF CountInv
<1> QED
  BY <1>1, <1>2, <1>3, <1>4, <1>5, <1>6, <1>7, <1>8, <1>9, <1>10, <1>11, <1>12, <1>13,
     <1>14, <1>15, <1>16
  DEF Next, RunnerStep, CloserStep, RobotStep

\* Before the first robot, active is right.
LEMMA CountInit == Init => CountInv
<1> SUFFICES ASSUME Init
             PROVE  CountInv
  OBVIOUS
<1>1. Counting = {} /\ active = Cardinality(Counting)
  BY FS_EmptySet DEF Init, Counting
<1> QED BY <1>1 DEF Init, CountInv, CreationOver, Counted, Detaching, StopAllEnded, Creating

\* The runner's view of the counters: doneCh, closed by the counters, means that
\* the creation is over and that every robot of the generation has left, unless
\* a reset or a start has overtaken a robot's callback.
THEOREM ManagerDrainedUnlessOvertaken == Spec => []DrainedUnlessOvertaken
<1>1. CountInv => DrainedUnlessOvertaken
  <2>1. \A r \in Bots : Alive(r) => r \in Counting
    BY DEF Alive, Counting
  <2> QED BY <2>1 DEF CountInv, Counted, DrainedUnlessOvertaken, DoneMeansDrained
<1> QED BY InitInv, NextInv, CleanedInit, CleanedNext, CountInit, CountNext, <1>1, PTL DEF Spec

\* No completion is missed: whichever of finishCreation and the last robot's
\* callback looks last closes doneCh.
THEOREM ManagerCompletionIsNoticed == Spec => []CompletionIsNoticed
<1>1. CountInv => CompletionIsNoticed
  BY DEF CountInv, Counted, Counting, CompletionIsNoticed
<1> QED BY InitInv, NextInv, CleanedInit, CleanedNext, CountInit, CountNext, <1>1, PTL DEF Spec
=============================================================================
