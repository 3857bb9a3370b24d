\* One or two drivers and a request of the agent proxy, colocated and with a
\* rollout engine of its own, with and without LoRA and keep_rollout_state.
CONSTANTS
  Drivers = {d1, d2}
  Chats = {c1}
  Nobody = Nobody
  CacheSizes = {1, 2}
  MaxSessions = 2
  MaxRollouts = 2
  MaxScores = 1
  MaxSteps = 2
SYMMETRY DriverSymmetry
SPECIFICATION Spec
INVARIANTS
  TypeOK
  OnPolicy
  RunsInSession
  GraphsCurrent
  TrainReadyHonest
