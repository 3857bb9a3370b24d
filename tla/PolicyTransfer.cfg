\* Up to two rows of two ranks on each side, the rollout devices the same as the
\* training ones, overlapping or separate; two tensors of one or two chunks.
CONSTANTS
  NumTensors = 2
  MaxTP = 2
  MaxDP = 2
  MaxChunks = 2
  MaxOffset = 2
SPECIFICATION Spec
INVARIANTS
  Matched
  Delivered
PROPERTIES
  Completes
