\* Two tensor-parallel ranks: joins, deferrals and header broadcasts, and a rank
\* that raises at any point of its loop.
CONSTANTS
  g1 = g1
  g2 = g2
  Groups <- One
  TPSize = 2
  Menu <- TeamMenu
  MaxCommands = 3
  MaxFailures = 1
SPECIFICATION Spec
INVARIANTS
  TypeOK
  OneAnswer
  StartedInOrder
  CollectivesMatch
  FailureReported
PROPERTIES
  AllAnswered
