--------------------------- MODULE MCDistribution ---------------------------
\* The nodes and configurations Distribution is checked with: up to three nodes, of which one may be busy
\* or have no capacity, and up to three stages.
EXTENDS Integers, Sequences

Node(i, m) == [idle |-> i, max |-> m]
SomeNodes == {Node(TRUE, 0), Node(TRUE, 1), Node(TRUE, 2), Node(TRUE, 5), Node(FALSE, 2)}
UpToThreeNodes == UNION {[1..n -> SomeNodes] : n \in 1..3}

Stage(n, c, r) == [count |-> n, concurrency |-> c, reset |-> r]
SomeStages == {Stage(n, c, r) : n \in 0..3, c \in {0, 3}, r \in BOOLEAN}
Uniform(s) == \A i, j \in DOMAIN s : s[i].concurrency = s[j].concurrency
UpToThreeStages == {s \in UNION {[1..n -> SomeStages] : n \in 0..3} : Uniform(s)}

\* A start number only shifts the accounts, and a debug run is split only if no
\* agent can take it: the number that is clamped and debug mode come with one
\* stage at most.
SomeConfigs ==
    {c \in {[bots |-> b, start |-> n, debug |-> d, concurrency |-> k, stages |-> s] :
               b \in {0, 1, 3, 6}, n \in {-1, 7}, d \in BOOLEAN, k \in {0, 2, 7},
               s \in UpToThreeStages} :
        c.start = -1 \/ c.debug => Len(c.stages) <= 1}
=============================================================================
