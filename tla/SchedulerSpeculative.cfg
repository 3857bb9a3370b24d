\* Speculative decoding, two drafts per step: the blocks of a step must cover
\* the verified tokens and the draft chain that follows the accepted ones.  A
\* prompt of 4 passes the length test but leaves no room for the last drafts.
CONSTANTS
  MaxRows = 3
  Blocks = {b1, b2, b3, b4}
  Slots = {s1, s2}
  NoSlot = NoSlot
  BlockSize = 4
  PromptLens = {1, 2, 4}
  MaxNew = 3
  MaxCacheLen = 8
  MaxPrefill = 3
  SpecK = 2
  HostMetadata = FALSE
  Cancellable = FALSE
SYMMETRY PoolSymmetry
SPECIFICATION Spec
INVARIANTS
  KVIntact
  NeverExhausted
