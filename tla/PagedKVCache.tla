---------------------------- MODULE PagedKVCache ----------------------------
(***************************************************************************)
(* The memory side of one rollout batch: the pool of paged KV blocks, the  *)
(* per-row block tables, the recurrent-state slots and the contents of the *)
(* device cache.  It models the bookkeeping of InferenceBatchState         *)
(* (engine/data/rollout_state.py) and the cells the attention kernels      *)
(* write through a block table.                                            *)
(*                                                                         *)
(* The code keeps its free blocks in a list and pops the head; which free  *)
(* block a row is given never matters, so the pool is a set here and a row *)
(* may be given any free block.                                            *)
(***************************************************************************)
EXTENDS Integers, Sequences, FiniteSets, Functions

CONSTANTS
  MaxRows,     \* bound on the prompts one batch ever receives
  Blocks,      \* the paged KV blocks of the pool
  Slots,       \* the recurrent-state slots; max_running_seqs = Cardinality(Slots)
  NoSlot,      \* "this row holds no slot"
  BlockSize    \* tokens per block

ASSUME PoolAssumption ==
  /\ MaxRows \in Nat \ {0}
  /\ BlockSize \in Nat \ {0}
  /\ IsFiniteSet(Blocks) /\ Blocks # {}
  /\ IsFiniteSet(Slots) /\ Slots # {}
  /\ NoSlot \notin Slots

VARIABLES
  free,        \* _free_blocks
  table,       \* _seq_to_blocks: the blocks of each row, in position order
  freeSlots,   \* _free_recurrent_slots
  slot,        \* _seq_to_recurrent_slot; its keys are those of _seq_to_blocks
  kv           \* device cache: what each <<block, offset>> cell holds

kvVars == <<free, table, freeSlots, slot, kv>>

Rows == 1 .. MaxRows
Cells == Blocks \X (0 .. BlockSize - 1)

\* A cell holds the key and value of one row's token at one position, or
\* something no row may read: never written, or a draft that was rejected.
Junk == <<0, 0>>

CeilDiv(a, b) == (a + b - 1) \div b
SmallerOf(a, b) == IF a <= b THEN a ELSE b
LargerOf(a, b) == IF a >= b THEN a ELSE b

Holds(r) == slot[r] # NoSlot
Holders == {r \in Rows : Holds(r)}

-----------------------------------------------------------------------------
\* Block tables.  A table handed to a kernel is padded to its full width with
\* its last block, so a position past the allocated ones lands in that block.
PaddedAt(tbl, i) == tbl[IF i < Len(tbl) THEN i + 1 ELSE Len(tbl)]
CellOf(tbl, p) == <<PaddedAt(tbl, p \div BlockSize), p % BlockSize>>

\* need[r] more blocks for every row r: one distinct free block for each.
Wanted(need) == UNION {{r} \X (1 .. need[r]) : r \in Rows}
Fits(need) == Cardinality(Wanted(need)) <= Cardinality(free)
\* Mutant of Grow: the blocks handed out stay in the free list.
GrowKeepsFree(need) ==
  \E new \in Injection(Wanted(need), free) :
    /\ free' = free
    /\ table' = [r \in Rows |-> table[r] \o [i \in 1 .. need[r] |-> new[<<r, i>>]]]

Grow(need) ==
  \E new \in Injection(Wanted(need), free) :
    /\ free' = free \ Range(new)
    /\ table' = [r \in Rows |-> table[r] \o [i \in 1 .. need[r] |-> new[<<r, i>>]]]

\* Mutant of Missing: a row that has blocks is taken to have enough.
MissingOnce(r, n) == IF table[r] # <<>> THEN 0 ELSE CeilDiv(n, BlockSize)

\* Blocks row r lacks to cover every position below n.
Missing(r, n) == LargerOf(0, CeilDiv(n, BlockSize) - Len(table[r]))

\* Some position among first .. first + span - 1 starts a block.
StartsBlock(first, span) == \E p \in first .. first + span - 1 : p % BlockSize = 0

\* Mutant of DecodeNeed: one block more than the last position needs.
DecodeNeedGreedy(r, first, span) ==
  LargerOf(0, (first + span - 1) \div BlockSize + 2 - Len(table[r]))

\* The blocks ensure_decode_blocks adds when it is asked for positions
\* first .. first + span - 1 of row r one after the other: a position that
\* does not start a block is passed over, one that does extends the table up
\* to its block, and the last such position lies in the block of the last one.
DecodeNeed(r, first, span) ==
  IF ~StartsBlock(first, span) THEN 0
  ELSE LargerOf(0, (first + span - 1) \div BlockSize + 1 - Len(table[r]))

\* Mutants of Release: the blocks, or the slots, are not put back.
ReleaseLeaksBlocks(rows) ==
  /\ free' = free
  /\ table' = [r \in Rows |-> IF r \in rows THEN <<>> ELSE table[r]]
  /\ freeSlots' = freeSlots \cup {slot[r] : r \in rows}
  /\ slot' = [r \in Rows |-> IF r \in rows THEN NoSlot ELSE slot[r]]
ReleaseLeaksSlots(rows) ==
  /\ free' = free \cup UNION {Range(table[r]) : r \in rows}
  /\ table' = [r \in Rows |-> IF r \in rows THEN <<>> ELSE table[r]]
  /\ freeSlots' = freeSlots
  /\ slot' = [r \in Rows |-> IF r \in rows THEN NoSlot ELSE slot[r]]

\* Rows give back their blocks and their slots.
Release(rows) ==
  /\ free' = free \cup UNION {Range(table[r]) : r \in rows}
  /\ table' = [r \in Rows |-> IF r \in rows THEN <<>> ELSE table[r]]
  /\ freeSlots' = freeSlots \cup {slot[r] : r \in rows}
  /\ slot' = [r \in Rows |-> IF r \in rows THEN NoSlot ELSE slot[r]]

\* The cache after a kernel writes; writes is a set of <<cell, entry>>.
Written(writes) ==
  [c \in Cells |-> IF \E w \in writes : w[1] = c
                   THEN (CHOOSE w \in writes : w[1] = c)[2]
                   ELSE kv[c]]

PoolInit ==
  /\ free = Blocks
  /\ table = [r \in Rows |-> <<>>]
  /\ freeSlots = Slots
  /\ slot = [r \in Rows |-> NoSlot]
  /\ kv = [c \in Cells |-> Junk]

-----------------------------------------------------------------------------
PoolTypeOK ==
  /\ free \subseteq Blocks
  /\ table \in [Rows -> Seq(Blocks)]
  /\ freeSlots \subseteq Slots
  /\ slot \in [Rows -> Slots \cup {NoSlot}]
  /\ kv \in [Cells -> (0 .. MaxRows) \X Nat]

\* Every block is free or sits at exactly one place of exactly one table: no
\* block serves two rows, none is handed out twice, none leaks.  This is what
\* popping, appending and extending the block lists must keep together.
BlockOwnership ==
  /\ \A r \in Rows : \A i \in DOMAIN table[r] :
       /\ table[r][i] \notin free
       /\ \A q \in Rows : \A j \in DOMAIN table[q] :
            table[r][i] = table[q][j] => r = q /\ i = j
  /\ \A b \in Blocks : b \in free \/ \E r \in Rows : b \in Range(table[r])

\* The same for recurrent slots, and only a row that holds a slot holds blocks.
SlotOwnership ==
  /\ \A r \in Rows : Holds(r) => slot[r] \notin freeSlots
  /\ \A r, q \in Rows : Holds(r) /\ slot[r] = slot[q] => r = q
  /\ \A s \in Slots : s \in freeSlots \/ \E r \in Rows : slot[r] = s
  /\ \A r \in Rows : ~Holds(r) => table[r] = <<>>
=============================================================================
