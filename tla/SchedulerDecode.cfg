\* Ordinary decode with the host mirror and the engine's own pool: up to three
\* prompts for two slots, prompts that need two prefill calls, and responses
\* that cross a block boundary.  Checked also against the service the loop
\* promises, progress included; no symmetry, which is not sound for liveness.
CONSTANTS
  MaxRows = 3
  Blocks = {b1, b2, b3, b4}
  Slots = {s1, s2}
  NoSlot = NoSlot
  BlockSize = 3
  PromptLens = {3}
  MaxNew = 3
  MaxCacheLen = 6
  MaxPrefill = 2
  SpecK = 0
  HostMetadata = TRUE
  Cancellable = FALSE
SPECIFICATION FairSpec
INVARIANTS
  TypeOK
  BlockOwnership
  SlotOwnership
  MirrorExact
  RoomForNextToken
  NeverExhausted
  DrainedClean
PROPERTIES
  ImplementsService
  KeepsPromise
