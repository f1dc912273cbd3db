-------------------------- MODULE MCTaskRepository --------------------------
\* TLC instance of TaskRepository: two tasks, one of which uses shared state,
\* so that the other one only competes for the active slot.
EXTENDS TaskRepository

CONSTANTS t1, t2

MCTasks == {t1, t2}
MCSharedTasks == {t1}
=============================================================================
