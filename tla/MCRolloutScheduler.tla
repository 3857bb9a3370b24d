------------------------- MODULE MCRolloutScheduler -------------------------
\* Constants for TLC's instances of RolloutScheduler.
EXTENDS RolloutScheduler, TLC

\* Blocks and slots are interchangeable.
PoolSymmetry == Permutations(Blocks) \cup Permutations(Slots)
=============================================================================
