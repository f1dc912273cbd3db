--------------------------- MODULE MCTaskLifecycle ---------------------------
\* TLC instance of TaskLifecycle.
EXTENDS TaskLifecycle, TLC

CONSTANTS t1, t2, a1, a2

OneTask == {t1}
TwoTasks == {t1, t2}
OneAgent == {a1}
TwoAgents == {a1, a2}
AgentSymmetry == Permutations(TwoAgents)
=============================================================================
