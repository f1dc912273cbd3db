------------------------- MODULE MCCommandDelivery -------------------------
\* TLC instance of CommandDelivery.
EXTENDS CommandDelivery

CONSTANTS t1, t2

OneTask == {t1}
TwoTasks == {t1, t2}
=============================================================================
