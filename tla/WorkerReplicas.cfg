\* Two replicas that drain their queues at their own pace and meet in trains,
\* with a cancellable rollout among the ordinary ones.
CONSTANTS
  g1 = g1
  g2 = g2
  Groups <- Two
  TPSize = 1
  Menu <- CancelMenu
  MaxCommands = 3
  MaxFailures = 0
SPECIFICATION Spec
INVARIANTS
  Accounted
  CollectivesMatch
  AnsweredRowsDone
PROPERTIES
  AllAnswered
