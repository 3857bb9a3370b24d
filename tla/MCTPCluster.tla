---------------------------- MODULE MCTPCluster -----------------------------
\* Constants for TLC's instances of TPCluster.
EXTENDS TPCluster

CONSTANTS c1, c2

AllCalls == {c1, c2}
SecondOnly == {c2}

\* c1 awaits every rank; c2, an async rollout, awaits the leader only.
LeaderForSecond == [c \in Calls |-> IF c = c2 THEN {0} ELSE Ranks]
=============================================================================
