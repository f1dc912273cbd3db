------------------------ MODULE TaskRepositoryProofs ------------------------
(***************************************************************************)
(* Proofs about TaskRepository for every set of tasks, every choice of     *)
(* failing writes and every number of restarts.                            *)
(*                                                                         *)
(* ActiveIDExact is not inductive: BeginTransition makes a task active     *)
(* without looking at activeID.  What saves it is startMu: a Begin call    *)
(* that has passed its check is the only one, and while it is on its way   *)
(* activeID stays empty, because every other edge into an active state     *)
(* leaves from an active state.  BeginHoldsSlot says so.                   *)
(*                                                                         *)
(* The clean-up queue is safe only while the task files are written: a     *)
(* task whose last write failed is read back as pending after a crash and  *)
(* may run again with its namespace on the queue.  The second half of the  *)
(* module therefore assumes that task saves succeed; the writes of the     *)
(* queue itself may fail and the process may crash anywhere.               *)
(***************************************************************************)
EXTENDS TaskRepository, TLAPS

\* Between the check and the transition of Begin no task is active and no
\* other Begin is under way.
BeginHoldsSlot ==
    /\ \A s, t \in begin: s = t
    /\ begin # {} => activeID = NoTask

RepoInv == TypeOK /\ ActiveIDExact /\ BeginHoldsSlot

\* The edges of validTransition, seen from the side of the active states:
\* only pending -> starting enters them from outside.
LEMMA ActiveEdges ==
    ASSUME NEW from \in States, NEW to \in States,
           <<from, to>> \in ValidTransition,
           <<from, to>> # <<"pending", "starting">>,
           to \in ActiveStates
    PROVE  from \in ActiveStates
BY DEF ValidTransition, ActiveStates, States

USE NoTaskAssumption, SharedAssumption, FaultsAssumption, RestartsAssumption

LEMMA InitInv == Init => RepoInv
BY DEF Init, RepoInv, TypeOK, ActiveIDExact, BeginHoldsSlot, States, ActiveStates,
       Absent, Deleted

\* What one call of Transition does to the invariant, wherever it is called
\* from: the caller has to know that no other task is active.
LEMMA TransitionInv ==
    ASSUME TypeOK, ActiveIDExact,
           NEW t \in Tasks, NEW from \in States, NEW to \in States,
           Transition(t, from, to),
           to \in ActiveStates => activeID \in {NoTask, t}
    PROVE  /\ tasks' \in [Tasks -> States \cup {Absent, Deleted}]
           /\ disk' \in [Tasks -> States \cup {Absent, Deleted}]
           /\ activeID' \in Tasks \cup {NoTask}
           /\ callbacks' \in SUBSET Tasks
           /\ ActiveIDExact'
<1>1. /\ tasks' \in [Tasks -> States \cup {Absent, Deleted}]
      /\ activeID' \in Tasks \cup {NoTask}
      /\ callbacks' \in SUBSET Tasks
  BY DEF Transition, TypeOK
<1>2. disk' \in [Tasks -> States \cup {Absent, Deleted}]
  BY DEF Transition, Save, TypeOK
<1>3. ActiveIDExact'
  <2>1. CASE to \in ActiveStates
    BY <2>1 DEF Transition, TypeOK, ActiveIDExact
  <2>2. CASE to \notin ActiveStates
    BY <2>2 DEF Transition, TypeOK, ActiveIDExact
  <2> QED BY <2>1, <2>2
<1> QED BY <1>1, <1>2, <1>3

LEMMA NextInv == RepoInv /\ [Next]_vars => RepoInv'
<1> SUFFICES ASSUME RepoInv, [Next]_vars
             PROVE  RepoInv'
  OBVIOUS
<1> USE DEF RepoInv
<1>1. ASSUME NEW t \in Tasks, Create(t)
      PROVE  RepoInv'
  <2>1. TypeOK'
    BY <1>1 DEF Create, Save, TypeOK, queueVars, States, Absent, Deleted
  <2>2. ActiveIDExact' /\ BeginHoldsSlot'
    BY <1>1 DEF Create, TypeOK, ActiveIDExact, BeginHoldsSlot, queueVars,
                ActiveStates, Absent, Deleted
  <2> QED BY <2>1, <2>2
<1>2. ASSUME NEW t \in Tasks, Delete(t)
      PROVE  RepoInv'
  <2>1. TypeOK'
    BY <1>2 DEF Delete, Save, TypeOK, queueVars, States, Absent, Deleted
  <2>2. ActiveIDExact' /\ BeginHoldsSlot'
    BY <1>2 DEF Delete, TypeOK, ActiveIDExact, BeginHoldsSlot, queueVars,
                ActiveStates, Absent, Deleted
  <2> QED BY <2>1, <2>2
<1>3. ASSUME NEW t \in Tasks, BeginCheck(t)
      PROVE  RepoInv'
  <2>1. activeID = NoTask
    BY <1>3 DEF BeginCheck, TypeOK, ActiveIDExact, ActiveStates, States
  <2> QED
    BY <1>3, <2>1 DEF BeginCheck, TypeOK, ActiveIDExact, BeginHoldsSlot, queueVars
<1>4. ASSUME NEW t \in Tasks, BeginTransition(t)
      PROVE  RepoInv'
  <2>1. activeID = NoTask /\ begin' = {}
    BY <1>4 DEF BeginTransition, BeginHoldsSlot
  <2>2. CASE Transition(t, "pending", "starting")
    <3>1. "pending" \in States /\ "starting" \in States
      BY DEF States
    <3>2. /\ tasks' \in [Tasks -> States \cup {Absent, Deleted}]
          /\ disk' \in [Tasks -> States \cup {Absent, Deleted}]
          /\ activeID' \in Tasks \cup {NoTask}
          /\ callbacks' \in SUBSET Tasks
          /\ ActiveIDExact'
      BY <2>1, <2>2, <3>1, TransitionInv
    <3> QED
      BY <1>4, <2>1, <3>2 DEF BeginTransition, TypeOK, BeginHoldsSlot, queueVars
  <2>3. CASE tasks[t] # "pending" /\ UNCHANGED <<tasks, activeID, disk, callbacks>>
    BY <1>4, <2>1, <2>3 DEF BeginTransition, TypeOK, ActiveIDExact, BeginHoldsSlot, queueVars
  <2> QED
    BY <1>4, <2>2, <2>3 DEF BeginTransition
<1>5. ASSUME NEW t \in Tasks, Move(t)
      PROVE  RepoInv'
  <2>1. PICK from \in States, to \in States:
              /\ <<from, to>> # <<"pending", "starting">>
              /\ Transition(t, from, to)
    BY <1>5 DEF Move
  <2>2. tasks[t] = from /\ <<from, to>> \in ValidTransition
    BY <2>1 DEF Transition
  <2>3. to \in ActiveStates => activeID = t
    BY <2>1, <2>2, ActiveEdges DEF ActiveIDExact
  <2>4. /\ tasks' \in [Tasks -> States \cup {Absent, Deleted}]
        /\ disk' \in [Tasks -> States \cup {Absent, Deleted}]
        /\ activeID' \in Tasks \cup {NoTask}
        /\ callbacks' \in SUBSET Tasks
        /\ ActiveIDExact'
    BY <2>1, <2>3, TransitionInv
  <2>5. begin # {} => activeID' = NoTask
    BY <2>1, <2>3, NoTaskAssumption DEF Transition, BeginHoldsSlot
  <2> QED
    BY <1>5, <2>4, <2>5 DEF Move, TypeOK, BeginHoldsSlot, queueVars
<1>6. ASSUME NEW t \in Tasks, WriteKeys(t)
      PROVE  RepoInv'
  BY <1>6 DEF WriteKeys, TypeOK, ActiveIDExact, BeginHoldsSlot, repoVars
<1>7. ASSUME NEW t \in Tasks, OnTerminal(t)
      PROVE  RepoInv'
  <2>1. TypeOK'
    BY <1>7 DEF OnTerminal, Persist, TypeOK
  <2>2. ActiveIDExact' /\ BeginHoldsSlot'
    BY <1>7 DEF OnTerminal, ActiveIDExact, BeginHoldsSlot
  <2> QED BY <2>1, <2>2
<1>8. ASSUME NEW t \in Tasks, AttemptFails(t) \/ AttemptCleanup(t)
      PROVE  RepoInv'
  BY <1>8 DEF AttemptFails, AttemptCleanup, TypeOK, ActiveIDExact, BeginHoldsSlot, repoVars
<1>9. ASSUME NEW t \in Tasks, AttemptRemove(t)
      PROVE  RepoInv'
  BY <1>9 DEF AttemptRemove, Persist, TypeOK, ActiveIDExact, BeginHoldsSlot, repoVars
<1>10. CASE Tick
  BY <1>10 DEF Tick, TypeOK, ActiveIDExact, BeginHoldsSlot, repoVars
<1>11. CASE Restart
  <2>1. \A t \in Tasks: tasks'[t] \in (States \cup {Absent, Deleted}) \ ActiveStates
    BY <1>11 DEF Restart, Recover, TypeOK, States, ActiveStates, Absent, Deleted
  <2>2. TypeOK'
    <3>1. restarts' \in 0..MaxRestarts
      BY <1>11, RestartsAssumption DEF Restart, TypeOK
    <3>2. tasks' \in [Tasks -> States \cup {Absent, Deleted}]
      BY <1>11, <2>1 DEF Restart
    <3> QED BY <1>11, <3>1, <3>2 DEF Restart, TypeOK
  <2>3. ActiveIDExact' /\ BeginHoldsSlot'
    BY <1>11, <2>1 DEF Restart, ActiveIDExact, BeginHoldsSlot
  <2> QED BY <2>2, <2>3
<1>12. CASE UNCHANGED vars
  BY <1>12 DEF vars, repoVars, queueVars, TypeOK, ActiveIDExact, BeginHoldsSlot
<1> QED
  BY <1>1, <1>2, <1>3, <1>4, <1>5, <1>6, <1>7, <1>8, <1>9, <1>10, <1>11, <1>12 DEF Next

\* Type correctness of the repository and the cleanup queue.
THEOREM RepositoryTypeCorrect == Spec => []TypeOK
<1>1. RepoInv => TypeOK
  BY DEF RepoInv
<1> QED BY InitInv, NextInv, <1>1, PTL DEF Spec

\* activeID names exactly the active task in every reachable state, for any
\* number of tasks, concurrent Begin calls, failing writes and restarts: the
\* single-active-task constraint and the absence of a stale activeID.
THEOREM RepositoryActiveIDExact == Spec => []ActiveIDExact
<1>1. RepoInv => ActiveIDExact
  BY DEF RepoInv
<1> QED BY InitInv, NextInv, <1>1, PTL DEF Spec

-----------------------------------------------------------------------------
\* The clean-up queue, when the task files are written.

\* A state that a task never leaves for a live one.
Ended == TerminalStates \cup {Deleted}

\* The file of a task holds its state, except that a task failed by a restart
\* keeps the active state it was read with.
DiskAgrees ==
    \A t \in Tasks: \/ disk[t] = tasks[t]
                    \/ disk[t] \in ActiveStates /\ tasks[t] = "failed"

\* Every run the clean-up knows, in memory or on disk, has ended.
QueueHoldsEnded ==
    \A t \in callbacks \cup pending \cup queueFile \cup attempts \cup removing \cup queued:
        tasks[t] \in Ended

\* A run that was ever written to the queue file and still has keys is on the
\* list in memory and in the file that the next process reads.
ListedTwice == \A t \in queued: t \in keys => t \in pending /\ t \in queueFile

\* The run that an attempt is about to take off the list has no keys left.
RemovedIsClean == \A t \in removing: t \notin keys

QueueInv == DiskAgrees /\ QueueHoldsEnded /\ ListedTwice /\ RemovedIsClean

LEMMA QueueInitInv == Init => QueueInv
BY DEF Init, QueueInv, DiskAgrees, QueueHoldsEnded, ListedTwice, RemovedIsClean

\* validTransition has no edge out of a terminal state, and every edge leads
\* to an active or to a terminal one.
LEMMA TerminalIsFinal ==
    ASSUME NEW from \in States, NEW to \in States, <<from, to>> \in ValidTransition
    PROVE  from \notin Ended /\ (to \notin ActiveStates => to \in Ended)
BY DEF ValidTransition, ActiveStates, TerminalStates, Ended, States, Deleted

\* A call of Transition whose write succeeds keeps the file and the queue in
\* step with the task.
LEMMA TransitionQueueInv ==
    ASSUME "taskSave" \notin Faults, RepoInv, QueueInv, UNCHANGED queueVars,
           NEW t \in Tasks, NEW from \in States, NEW to \in States,
           Transition(t, from, to)
    PROVE  QueueInv'
<1>1. /\ tasks[t] = from /\ from \notin Ended
      /\ to \notin ActiveStates => to \in Ended
  BY TerminalIsFinal DEF Transition
<1>2. /\ tasks' = [tasks EXCEPT ![t] = to]
      /\ disk' = [disk EXCEPT ![t] = to]
  BY DEF Transition, Save, SaveOutcomes
<1>3. DiskAgrees'
  BY <1>2 DEF RepoInv, TypeOK, QueueInv, DiskAgrees
<1>4. /\ callbacks' \subseteq callbacks \cup {t}
      /\ t \in callbacks' => to \in Ended
  <2>1. t \notin callbacks
    BY <1>1 DEF QueueInv, QueueHoldsEnded
  <2> QED BY <1>1, <2>1 DEF Transition
<1>5. QueueHoldsEnded'
  <2> SUFFICES ASSUME NEW u \in callbacks' \cup pending \cup queueFile \cup attempts
                                \cup removing \cup queued
               PROVE  tasks'[u] \in Ended
    BY DEF QueueHoldsEnded, queueVars
  <2>1. CASE u = t
    <3>1. t \in callbacks'
      BY <1>1, <2>1 DEF QueueInv, QueueHoldsEnded
    <3> QED BY <1>2, <1>4, <2>1, <3>1 DEF RepoInv, TypeOK
  <2>2. CASE u # t
    <3>1. tasks[u] \in Ended
      BY <1>4, <2>2 DEF QueueInv, QueueHoldsEnded
    <3>2. u \in Tasks
      BY <1>4, <2>2 DEF RepoInv, TypeOK
    <3> QED BY <1>2, <2>2, <3>1, <3>2 DEF RepoInv, TypeOK
  <2> QED BY <2>1, <2>2
<1>6. ListedTwice' /\ RemovedIsClean'
  BY DEF QueueInv, ListedTwice, RemovedIsClean, queueVars
<1> QED BY <1>3, <1>5, <1>6 DEF QueueInv

LEMMA QueueNextInv ==
    ASSUME "taskSave" \notin Faults, RepoInv, QueueInv, [Next]_vars
    PROVE  QueueInv'
<1> USE DEF QueueInv
<1>1. ASSUME NEW t \in Tasks, Create(t)
      PROVE  QueueInv'
  <2>1. tasks[t] \notin Ended
    BY <1>1 DEF Create, Ended, TerminalStates, Absent, Deleted
  <2>2. /\ tasks' = [tasks EXCEPT ![t] = "pending"]
        /\ disk' = [disk EXCEPT ![t] = "pending"]
    BY <1>1 DEF Create, Save, SaveOutcomes
  <2>3. DiskAgrees'
    BY <2>2 DEF RepoInv, TypeOK, DiskAgrees
  <2>4. QueueHoldsEnded'
    BY <1>1, <2>1, <2>2 DEF Create, RepoInv, TypeOK, QueueHoldsEnded, queueVars
  <2> QED BY <1>1, <2>3, <2>4 DEF Create, ListedTwice, RemovedIsClean, queueVars
<1>2. ASSUME NEW t \in Tasks, Delete(t)
      PROVE  QueueInv'
  <2>1. /\ tasks' = [tasks EXCEPT ![t] = Deleted]
        /\ disk' = [disk EXCEPT ![t] = Deleted]
    BY <1>2 DEF Delete, Save, SaveOutcomes
  <2>2. DiskAgrees'
    BY <2>1 DEF RepoInv, TypeOK, DiskAgrees
  <2>3. QueueHoldsEnded'
    BY <1>2, <2>1 DEF Delete, RepoInv, TypeOK, QueueHoldsEnded, queueVars, Ended
  <2> QED BY <1>2, <2>2, <2>3 DEF Delete, ListedTwice, RemovedIsClean, queueVars
<1>3. ASSUME NEW t \in Tasks, BeginCheck(t)
      PROVE  QueueInv'
  BY <1>3 DEF BeginCheck, DiskAgrees, QueueHoldsEnded, ListedTwice, RemovedIsClean, queueVars
<1>4. ASSUME NEW t \in Tasks, BeginTransition(t)
      PROVE  QueueInv'
  <2>1. CASE Transition(t, "pending", "starting")
    <3>1. "pending" \in States /\ "starting" \in States
      BY DEF States
    <3> QED BY <1>4, <2>1, <3>1, TransitionQueueInv DEF BeginTransition
  <2>2. CASE UNCHANGED <<tasks, activeID, disk, callbacks>>
    BY <1>4, <2>2 DEF BeginTransition, DiskAgrees, QueueHoldsEnded, ListedTwice,
                      RemovedIsClean, queueVars
  <2> QED BY <1>4, <2>1, <2>2 DEF BeginTransition
<1>5. ASSUME NEW t \in Tasks, Move(t)
      PROVE  QueueInv'
  BY <1>5, TransitionQueueInv DEF Move
<1>6. ASSUME NEW t \in Tasks, WriteKeys(t)
      PROVE  QueueInv'
  <2>1. t \notin queued /\ t \notin removing
    BY <1>6 DEF WriteKeys, QueueHoldsEnded, Ended, TerminalStates, Deleted
  <2> QED
    BY <1>6, <2>1 DEF WriteKeys, DiskAgrees, QueueHoldsEnded, ListedTwice, RemovedIsClean,
                      repoVars
<1>7. ASSUME NEW t \in Tasks, OnTerminal(t)
      PROVE  QueueInv'
  <2>1. /\ pending \subseteq pending' /\ pending' \subseteq pending \cup {t}
        /\ attempts' \subseteq attempts \cup {t}
        /\ callbacks' \subseteq callbacks
    BY <1>7 DEF OnTerminal
  <2>2. \/ queueFile' = queueFile /\ queued' = queued
        \/ queueFile' = pending' /\ queued' = queued \cup pending'
    BY <1>7 DEF OnTerminal, Persist
  <2>3. UNCHANGED <<tasks, disk, removing, keys>>
    BY <1>7 DEF OnTerminal
  <2>4. QueueHoldsEnded'
    BY <1>7, <2>1, <2>2, <2>3 DEF OnTerminal, QueueHoldsEnded
  <2>5. ListedTwice'
    BY <2>1, <2>2, <2>3 DEF ListedTwice
  <2> QED BY <2>3, <2>4, <2>5 DEF DiskAgrees, RemovedIsClean
<1>8. ASSUME NEW t \in Tasks, AttemptFails(t) \/ AttemptCleanup(t)
      PROVE  QueueInv'
  BY <1>8 DEF AttemptFails, AttemptCleanup, DiskAgrees, QueueHoldsEnded, ListedTwice,
              RemovedIsClean, repoVars
<1>9. ASSUME NEW t \in Tasks, AttemptRemove(t)
      PROVE  QueueInv'
  <2>1. /\ pending \ {t} \subseteq pending' /\ pending' \subseteq pending
        /\ removing' \subseteq removing
        /\ t \notin keys
    BY <1>9 DEF AttemptRemove, RemovedIsClean
  <2>2. \/ queueFile' = queueFile /\ queued' = queued
        \/ queueFile' = pending' /\ queued' = queued \cup pending'
    BY <1>9 DEF AttemptRemove, Persist
  <2>3. UNCHANGED <<tasks, disk, callbacks, attempts, keys>>
    BY <1>9 DEF AttemptRemove, repoVars
  <2>4. QueueHoldsEnded'
    BY <2>1, <2>2, <2>3 DEF QueueHoldsEnded
  <2>5. ListedTwice' /\ RemovedIsClean'
    BY <2>1, <2>2, <2>3 DEF ListedTwice, RemovedIsClean
  <2> QED BY <2>3, <2>4, <2>5 DEF DiskAgrees
<1>10. CASE Tick
  BY <1>10 DEF Tick, DiskAgrees, QueueHoldsEnded, ListedTwice, RemovedIsClean, repoVars
<1>11. CASE Restart
  <2>1. \A t \in Tasks: tasks'[t] = Recover(disk[t])
    BY <1>11 DEF Restart
  <2>2. DiskAgrees'
    BY <1>11, <2>1 DEF Restart, Recover, DiskAgrees
  <2>3. \A t \in Tasks: tasks[t] \in Ended => tasks'[t] \in Ended
    BY <2>1 DEF DiskAgrees, Recover, Ended, TerminalStates, ActiveStates, Deleted
  <2>4. QueueHoldsEnded'
    BY <1>11, <2>3 DEF Restart, QueueHoldsEnded, RepoInv, TypeOK
  <2>5. ListedTwice' /\ RemovedIsClean'
    BY <1>11 DEF Restart, ListedTwice, RemovedIsClean
  <2> QED BY <2>2, <2>4, <2>5
<1>12. CASE UNCHANGED vars
  BY <1>12 DEF vars, repoVars, queueVars, DiskAgrees, QueueHoldsEnded, ListedTwice,
               RemovedIsClean
<1> QED
  BY <1>1, <1>2, <1>3, <1>4, <1>5, <1>6, <1>7, <1>8, <1>9, <1>10, <1>11, <1>12 DEF Next

\* A run on the queue file stays listed until its keys are deleted, through
\* failing queue writes and crashes at any point of Enqueue, attempt and
\* remove, provided the task files are written.
THEOREM RepositoryQueuedUntilClean ==
    ASSUME "taskSave" \notin Faults
    PROVE  Spec => []QueuedUntilClean
<1>1. QueueInv => QueuedUntilClean
  BY DEF QueueInv, ListedTwice, QueuedUntilClean
<1>2. RepoInv /\ QueueInv /\ [Next]_vars => QueueInv'
  BY QueueNextInv
<1> QED BY InitInv, NextInv, QueueInitInv, <1>1, <1>2, PTL DEF Spec

\* The clean-up deletes keys of ended runs only, provided the task files are
\* written: a replayed or repeated attempt never hits a task that runs.
THEOREM RepositoryCleanupSparesLiveRuns ==
    ASSUME "taskSave" \notin Faults
    PROVE  Spec => CleanupSparesLiveRuns
<1> DEFINE Spares == \A t \in Tasks: t \in keys \ keys' => tasks[t] \notin ActiveStates
<1>1. ASSUME QueueInv, [Next]_vars
      PROVE  Spares
  <2>1. \A t \in attempts: tasks[t] \notin ActiveStates
    BY <1>1 DEF QueueInv, QueueHoldsEnded, Ended, TerminalStates, ActiveStates, Deleted
  <2> SUFFICES ASSUME NEW u \in keys, u \notin keys'
               PROVE  u \in attempts
    BY <2>1
  <2>2. CASE \E t \in Tasks: AttemptCleanup(t)
    BY <2>2 DEF AttemptCleanup
  <2>3. CASE ~\E t \in Tasks: AttemptCleanup(t)
    BY <1>1, <2>3 DEF Next, vars, repoVars, queueVars, Create, Delete, BeginCheck,
         BeginTransition, Move, WriteKeys, OnTerminal, AttemptFails, AttemptRemove, Tick,
         Restart
  <2> QED BY <2>2, <2>3
<1>2. RepoInv /\ QueueInv /\ [Next]_vars => QueueInv'
  BY QueueNextInv
<1>3. QueueInv /\ [Next]_vars => [Spares]_vars
  BY <1>1
<1> QED BY InitInv, NextInv, QueueInitInv, <1>2, <1>3, PTL DEF Spec, CleanupSparesLiveRuns

=============================================================================
