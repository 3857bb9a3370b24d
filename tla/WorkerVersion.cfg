\* Violated: the replicas of one rollout may report different adapter versions.
CONSTANTS
  g1 = g1
  g2 = g2
  Groups <- Two
  TPSize = 1
  Menu <- ReplicaMenu
  MaxCommands = 3
  MaxFailures = 0
SPECIFICATION Spec
INVARIANTS
  OneVersion
