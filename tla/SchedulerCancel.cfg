\* A cancellable batch (which is never refilled) in a pool smaller than the
\* engine allocates: flags raised at any moment, before a row is admitted, while
\* it decodes, in the step that ends it; admission that starves half way; a
\* prompt too long for the cache.
CONSTANTS
  MaxRows = 3
  Blocks = {b1, b2, b3}
  Slots = {s1, s2}
  NoSlot = NoSlot
  BlockSize = 2
  PromptLens = {1, 3, 4}
  MaxNew = 3
  MaxCacheLen = 6
  MaxPrefill = 6
  SpecK = 0
  HostMetadata = TRUE
  Cancellable = TRUE
SYMMETRY PoolSymmetry
SPECIFICATION Spec
INVARIANTS
  KVIntact
  DrainedClean
