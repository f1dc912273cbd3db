--------------------------- MODULE TaskRepository ---------------------------
(***************************************************************************)
(* The admin's task repository (admin/task/store.go) with the files it     *)
(* persists (admin/task/persist.go), the terminal callback of              *)
(* admin/app.go and the queue of shared-state namespaces still to be       *)
(* deleted from Redis (admin/task/shared_cleanup.go), under crashes,       *)
(* restarts and failing writes.                                            *)
(*                                                                         *)
(* Every method of the repository holds mu for its whole body, so it is    *)
(* one action.  Begin alone releases mu between its conflict check and its *)
(* transition and relies on startMu, so it is two.                         *)
(***************************************************************************)
EXTENDS TaskStates, Naturals

CONSTANTS
    Tasks,        \* task identifiers
    NoTask,       \* the empty string of activeID
    SharedTasks,  \* tasks whose scripts use the shared state (task.SharedUsed)
    Faults,       \* which writes may fail: a subset of {"taskSave", "queueSave"}
    MaxRestarts   \* bound: how often the admin process crashes and restarts

ASSUME NoTaskAssumption == NoTask \notin Tasks
ASSUME SharedAssumption == SharedTasks \subseteq Tasks
ASSUME FaultsAssumption == Faults \subseteq {"taskSave", "queueSave"}
ASSUME RestartsAssumption == MaxRestarts \in Nat

VARIABLES
    tasks,      \* Repository.tasks: the state of every task, or Absent
    activeID,   \* Repository.activeID
    begin,      \* the Begin calls holding startMu between check and transition
    disk,       \* data/tasks/*.json: the last state written for every task
    callbacks,  \* tasks whose onTerminal goroutine has not run yet
    pending,    \* SharedCleanup.pending, in memory
    queueFile,  \* data/shared-cleanup-pending.json
    attempts,   \* runs an attempt goroutine is about to clean
    removing,   \* attempts that deleted the keys and have not called remove
    keys,       \* tasks whose Redis namespace holds keys
    queued,     \* history: runs that SharedCleanup ever persisted
    restarts    \* history: restarts so far

repoVars == <<tasks, activeID, begin, disk, callbacks>>
queueVars == <<pending, queueFile, attempts, removing, keys, queued>>
vars == <<repoVars, queueVars, restarts>>

-----------------------------------------------------------------------------
\* Save may fail where the faults allow it; the caller keeps the change it
\* has already made in memory either way.
SaveOutcomes == IF "taskSave" \in Faults THEN BOOLEAN ELSE {TRUE}
PersistOutcomes == IF "queueSave" \in Faults THEN BOOLEAN ELSE {TRUE}

\* saveTaskFile: a temporary file and a rename, so the file holds the old or
\* the new state and nothing between.
Save(t, state) ==
    \E ok \in SaveOutcomes: disk' = IF ok THEN [disk EXCEPT ![t] = state] ELSE disk

Init ==
    /\ tasks = [t \in Tasks |-> Absent]
    /\ activeID = NoTask
    /\ begin = {}
    /\ disk = [t \in Tasks |-> Absent]
    /\ callbacks = {}
    /\ pending = {}
    /\ queueFile = {}
    /\ attempts = {}
    /\ removing = {}
    /\ keys = {}
    /\ queued = {}
    /\ restarts = 0

\* Create: a new task, written to disk; an existing one is refused.
Create(t) ==
    /\ tasks[t] = Absent
    /\ tasks' = [tasks EXCEPT ![t] = "pending"]
    /\ Save(t, "pending")
    /\ UNCHANGED <<activeID, begin, callbacks, queueVars, restarts>>

\* Delete: refused for an active task; Remove may leave the file behind.  The
\* identifier is never drawn again (generateID).
Delete(t) ==
    /\ tasks[t] \in States \ ActiveStates
    /\ tasks' = [tasks EXCEPT ![t] = Deleted]
    /\ Save(t, Deleted)
    /\ UNCHANGED <<activeID, begin, callbacks, queueVars, restarts>>

\* A wrong Transition, which the checks must tell from the real one: the
\* callback starts as soon as the task leaves running.
TransitionEarlyCallback(t, from, to) ==
    /\ tasks[t] = from
    /\ <<from, to>> \in ValidTransition
    /\ tasks' = [tasks EXCEPT ![t] = to]
    /\ Save(t, to)
    /\ activeID' = CASE to \in ActiveStates -> t
                      [] activeID = t -> NoTask
                      [] OTHER -> activeID
    /\ callbacks' = IF to \in TerminalStates \cup {"stopping"}
                      THEN callbacks \cup {t} ELSE callbacks

\* The body of Transition: compare and set the state, write the file, and in
\* the same critical section record or clear activeID and start onTerminal.
Transition(t, from, to) ==
    /\ tasks[t] = from
    /\ <<from, to>> \in ValidTransition
    /\ tasks' = [tasks EXCEPT ![t] = to]
    /\ Save(t, to)
    /\ IF to \in ActiveStates
         THEN activeID' = t /\ UNCHANGED callbacks
         ELSE /\ activeID' = IF activeID = t THEN NoTask ELSE activeID
              /\ callbacks' = callbacks \cup {t}

\* A wrong Begin: the conflict check without startMu, so that two calls may
\* both find the slot free.
BeginCheckUnlocked(t) ==
    /\ ~(activeID # NoTask /\ tasks[activeID] \in States)
    /\ begin' = begin \cup {t}
    /\ UNCHANGED <<tasks, activeID, disk, callbacks, queueVars, restarts>>

\* Begin, up to RUnlock: under startMu, no task is registered as active.
BeginCheck(t) ==
    /\ begin = {}
    /\ ~(activeID # NoTask /\ tasks[activeID] \in States)
    /\ begin' = {t}
    /\ UNCHANGED <<tasks, activeID, disk, callbacks, queueVars, restarts>>

\* Begin, the call of Transition(pending, starting) and the unlock of startMu.
BeginTransition(t) ==
    /\ t \in begin
    /\ begin' = begin \ {t}
    /\ \/ Transition(t, "pending", "starting")
       \/ tasks[t] # "pending" /\ UNCHANGED <<tasks, activeID, disk, callbacks>>
    /\ UNCHANGED <<queueVars, restarts>>

\* Any other call of Transition: Begin is the only way to take the edge
\* pending -> starting.
Move(t) ==
    /\ \E from, to \in States:
         /\ <<from, to>> # <<"pending", "starting">>
         /\ Transition(t, from, to)
    /\ UNCHANGED <<begin, queueVars, restarts>>

-----------------------------------------------------------------------------
\* Scripts of a running task write keys into the namespace of its run.
WriteKeys(t) ==
    /\ t \in SharedTasks
    /\ tasks[t] \in {"running", "stopping"}
    /\ keys' = keys \cup {t}
    /\ UNCHANGED <<repoVars, pending, queueFile, attempts, removing, queued, restarts>>

\* persistLocked: rewrite the whole list; a failed write is only logged.
Persist(ids) ==
    \E ok \in PersistOutcomes:
        /\ queueFile' = IF ok THEN ids ELSE queueFile
        /\ queued' = IF ok THEN queued \cup ids ELSE queued

\* onTaskTerminal -> cleanupSharedState -> Enqueue: add the run to the list
\* and start a first attempt.
OnTerminal(t) ==
    /\ t \in callbacks
    /\ callbacks' = callbacks \ {t}
    /\ IF t \in SharedTasks
         THEN attempts' = attempts \cup {t}
         ELSE UNCHANGED attempts
    /\ IF t \in SharedTasks \ pending
         THEN pending' = pending \cup {t} /\ Persist(pending')
         ELSE UNCHANGED <<pending, queueFile, queued>>
    /\ UNCHANGED <<tasks, activeID, begin, disk, removing, keys, restarts>>

\* A wrong ticker: it fires and tries nothing.
TickIdle ==
    /\ attempts' = attempts
    /\ UNCHANGED <<repoVars, pending, queueFile, removing, keys, queued, restarts>>

\* The ticker of Start: an attempt for every run listed at that moment.
Tick ==
    /\ attempts' = attempts \cup pending
    /\ UNCHANGED <<repoVars, pending, queueFile, removing, keys, queued, restarts>>

\* A wrong attempt: a run whose cleanup fails is given up.
AttemptFailsForgets(t) ==
    /\ t \in attempts
    /\ attempts' = attempts \ {t}
    /\ pending' = pending \ {t}
    /\ Persist(pending')
    /\ UNCHANGED <<repoVars, removing, keys, restarts>>

\* attempt, up to store.Cleanup: Redis cannot be reached, the run stays listed.
AttemptFails(t) ==
    /\ t \in attempts
    /\ attempts' = attempts \ {t}
    /\ UNCHANGED <<repoVars, pending, queueFile, removing, keys, queued, restarts>>

\* attempt, up to store.Cleanup: every key of the run is deleted.  attempt
\* does not look whether the run is still listed.
AttemptCleanup(t) ==
    /\ t \in attempts
    /\ attempts' = attempts \ {t}
    /\ keys' = keys \ {t}
    /\ removing' = removing \cup {t}
    /\ UNCHANGED <<repoVars, pending, queueFile, queued, restarts>>

\* attempt, the call of remove.
AttemptRemove(t) ==
    /\ t \in removing
    /\ removing' = removing \ {t}
    /\ IF t \in pending
         THEN pending' = pending \ {t} /\ Persist(pending')
         ELSE UNCHANGED <<pending, queueFile, queued>>
    /\ UNCHANGED <<repoVars, attempts, keys, restarts>>

-----------------------------------------------------------------------------
\* NewRepository: an active task read from disk is failed in memory; the
\* file is not written back.
Recover(state) == IF state \in ActiveStates THEN "failed" ELSE state

\* A crash and the next start: memory is rebuilt from the files.  SetOnTerminal
\* replays the callback of the recovered tasks while s.sharedCleanup is still
\* nil, so cleanupSharedState queues none of them; then NewSharedCleanup loads
\* its list and Start tries every run on it.
Restart ==
    /\ restarts < MaxRestarts
    /\ restarts' = restarts + 1
    /\ tasks' = [t \in Tasks |-> Recover(disk[t])]
    /\ activeID' = NoTask
    /\ begin' = {}
    /\ callbacks' = {}
    /\ pending' = queueFile
    /\ attempts' = queueFile
    /\ removing' = {}
    /\ UNCHANGED <<disk, queueFile, keys, queued>>

Next ==
    \/ \E t \in Tasks:
         \/ Create(t) \/ Delete(t)
         \/ BeginCheck(t) \/ BeginTransition(t) \/ Move(t)
         \/ WriteKeys(t) \/ OnTerminal(t)
         \/ AttemptFails(t) \/ AttemptCleanup(t) \/ AttemptRemove(t)
    \/ Tick
    \/ Restart

\* The worker pool runs every submitted callback, the ticker never stops, and
\* Redis answers again and again.
Fairness ==
    /\ WF_vars(Tick)
    /\ \A t \in Tasks: /\ WF_vars(OnTerminal(t))
                       /\ SF_vars(AttemptCleanup(t))
                       /\ WF_vars(AttemptRemove(t))

Spec == Init /\ [][Next]_vars /\ Fairness

-----------------------------------------------------------------------------
\* The types of the state; only runs that use the shared state are ever queued
\* for clean-up.
TypeOK ==
    /\ tasks \in [Tasks -> States \cup {Absent, Deleted}]
    /\ activeID \in Tasks \cup {NoTask}
    /\ disk \in [Tasks -> States \cup {Absent, Deleted}]
    /\ begin \in SUBSET Tasks
    /\ callbacks \in SUBSET Tasks
    /\ pending \in SUBSET SharedTasks
    /\ queueFile \in SUBSET SharedTasks
    /\ attempts \in SUBSET SharedTasks
    /\ removing \in SUBSET SharedTasks
    /\ keys \in SUBSET SharedTasks
    /\ queued \in SUBSET SharedTasks
    /\ restarts \in 0..MaxRestarts

\* activeID names exactly the active task: no task is active while activeID is
\* empty or names another one, and activeID never points at a task that has
\* ended (the permanent start conflict that the comment in Transition
\* describes).
ActiveIDExact == \A t \in Tasks: tasks[t] \in ActiveStates <=> activeID = t

\* A run that SharedCleanup has written to its file stays on its list, through
\* crashes at any point of an attempt, until its keys are really deleted.
QueuedUntilClean == \A t \in queued: t \in keys => t \in pending

\* Cleanup deletes the keys of a run only after the run has ended: "the task
\* has reached a terminal state, deleting every key of the run is safe".
CleanupSparesLiveRuns ==
    [][\A t \in Tasks: t \in keys \ keys' => tasks[t] \notin ActiveStates]_vars

\* Every run on the list is eventually cleaned and taken off it.
QueueDrains == \A t \in Tasks: t \in pending ~> t \notin pending
=============================================================================
