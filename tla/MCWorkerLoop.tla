---------------------------- MODULE MCWorkerLoop ----------------------------
\* Constants for TLC's instances of WorkerLoop.
EXTENDS WorkerLoop

CONSTANTS g1, g2

Rollout(size, cancel, rows) ==
  [op |-> "rollout", cancel |-> cancel, size |-> size, rows |-> rows]
TrainCommand == [op |-> "train", cancel |-> FALSE, size |-> 0,
                 rows |-> [g \in Groups |-> 0]]

One == {g1}
Two == {g1, g2}

\* One replica of two ranks: a short and a long payload (the long one cannot
\* join a batch of the short one), a request without rows, and a train.
TeamMenu ==
  {Rollout(1, FALSE, [g \in Groups |-> 1]), Rollout(2, FALSE, [g \in Groups |-> 2]),
   Rollout(1, FALSE, [g \in Groups |-> 0]), TrainCommand}

\* Two replicas: rollouts spread over both or only one of them, and a train.
ReplicaMenu ==
  {Rollout(1, FALSE, [g \in Groups |-> 1]),
   Rollout(1, FALSE, [g \in Groups |-> IF g = g1 THEN 1 ELSE 0]), TrainCommand}

\* Two replicas: ordinary rollouts, a cancellable one of two rows that nothing
\* joins on the first replica (the second only takes it and answers), a train.
CancelMenu ==
  {Rollout(1, FALSE, [g \in Groups |-> 1]),
   Rollout(1, TRUE, [g \in Groups |-> IF g = g1 THEN 2 ELSE 0]), TrainCommand}
=============================================================================
