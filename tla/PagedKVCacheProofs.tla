------------------------- MODULE PagedKVCacheProofs -------------------------
(***************************************************************************)
(* Lemmas about the operations of the block pool: what growing tables and  *)
(* releasing rows do to the tables, and that both keep the ownership of    *)
(* blocks and slots.  They hold for every pool, whoever calls them.        *)
(***************************************************************************)
EXTENDS PagedKVCache, TLAPS, SequenceTheorems, FiniteSetTheorems

\* The entries a step adds to the tables differ from each other.
NewEntriesDiffer ==
  \A r, q \in Rows : \A i \in Len(table[r]) + 1 .. Len(table'[r]) :
    \A j \in Len(table[q]) + 1 .. Len(table'[q]) :
      table'[r][i] = table'[q][j] => r = q /\ i = j

\* What Grow does: tables only get longer, by the blocks asked for, which come
\* out of the free set and are all different.
LEMMA GrowExtends ==
  ASSUME NEW need \in [Rows -> Nat], PoolTypeOK, Grow(need)
  PROVE  /\ free' \subseteq free
         /\ table' \in [Rows -> Seq(Blocks)]
         /\ \A r \in Rows : Len(table'[r]) = Len(table[r]) + need[r]
         /\ \A r \in Rows : \A i \in 1 .. Len(table[r]) :
              table'[r][i] = table[r][i]
         /\ \A r \in Rows : \A i \in Len(table[r]) + 1 .. Len(table'[r]) :
              table'[r][i] \in free \ free'
         /\ \A b \in free : b \in free' \/ \E r \in Rows :
              \E i \in Len(table[r]) + 1 .. Len(table'[r]) : b = table'[r][i]
         /\ NewEntriesDiffer
<1>1. PICK new \in Injection(Wanted(need), free) :
        /\ free' = free \ Range(new)
        /\ table' = [r \in Rows |-> table[r] \o [i \in 1 .. need[r] |-> new[<<r, i>>]]]
  BY DEF Grow
<1>2. /\ new \in [Wanted(need) -> free]
      /\ \A a, b \in Wanted(need) : new[a] = new[b] => a = b
  BY DEF Injection, IsInjective
<1>3. \A r \in Rows : \A i \in 1 .. need[r] : <<r, i>> \in Wanted(need)
  BY DEF Wanted
<1>4. \A w \in Wanted(need) : \E r \in Rows : \E i \in 1 .. need[r] : w = <<r, i>>
  BY DEF Wanted
<1>5. \A r \in Rows : table[r] \in Seq(Blocks) /\ need[r] \in Nat
  BY DEF PoolTypeOK
<1>6. ASSUME NEW r \in Rows
      PROVE  [i \in 1 .. need[r] |-> new[<<r, i>>]] \in Seq(Blocks)
  <2> DEFINE n == need[r]
             more == [i \in 1 .. n |-> new[<<r, i>>]]
  <2>1. more \in [1 .. n -> Blocks]
    BY <1>2, <1>3 DEF PoolTypeOK
  <2>2. n \in Nat
    BY <1>5
  <2> HIDE DEF n, more
  <2>3. more \in Seq(Blocks)
    BY <2>1, <2>2, SeqDef
  <2> QED BY <2>3 DEF more, n
<1>7. ASSUME NEW r \in Rows
      PROVE  Len([i \in 1 .. need[r] |-> new[<<r, i>>]]) = need[r]
  BY <1>5, <1>6, LenProperties
<1>8. ASSUME NEW r \in Rows
      PROVE  /\ table'[r] \in Seq(Blocks)
             /\ Len(table'[r]) = Len(table[r]) + need[r]
             /\ \A i \in 1 .. Len(table[r]) : table'[r][i] = table[r][i]
             /\ \A i \in Len(table[r]) + 1 .. Len(table'[r]) :
                  /\ i - Len(table[r]) \in 1 .. need[r]
                  /\ table'[r][i] = new[<<r, i - Len(table[r])>>]
             /\ Len(table[r]) \in Nat
  <2> DEFINE more == [i \in 1 .. need[r] |-> new[<<r, i>>]]
  <2>1. table'[r] = table[r] \o more
    BY <1>1
  <2>2. /\ table'[r] \in Seq(Blocks)
        /\ Len(table'[r]) = Len(table[r]) + Len(more)
        /\ \A i \in 1 .. Len(table[r]) + Len(more) : table'[r][i] =
             IF i <= Len(table[r]) THEN table[r][i] ELSE more[i - Len(table[r])]
    <3>1. more \in Seq(Blocks) /\ table[r] \in Seq(Blocks)
      BY <1>5, <1>6
    <3> HIDE DEF more
    <3> QED BY <2>1, <3>1, ConcatProperties
  <2>3. Len(more) = need[r] /\ Len(table[r]) \in Nat
    BY <1>5, <1>7, LenProperties
  <2>4. \A i \in 1 .. need[r] : more[i] = new[<<r, i>>]
    OBVIOUS
  <2> HIDE DEF more
  <2>5. ASSUME NEW i \in 1 .. Len(table[r])
        PROVE  table'[r][i] = table[r][i]
    <3>1. i <= Len(table[r]) /\ i \in 1 .. Len(table[r]) + Len(more)
      BY <2>3, <1>5
    <3> QED BY <3>1, <2>2
  <2>6. ASSUME NEW i \in Len(table[r]) + 1 .. Len(table'[r])
        PROVE  /\ i - Len(table[r]) \in 1 .. need[r]
               /\ table'[r][i] = new[<<r, i - Len(table[r])>>]
    <3>1. /\ i - Len(table[r]) \in 1 .. need[r] /\ ~(i <= Len(table[r]))
          /\ i \in 1 .. Len(table[r]) + Len(more)
      BY <2>2, <2>3, <1>5
    <3> QED BY <3>1, <2>2, <2>4
  <2> QED BY <2>2, <2>3, <2>5, <2>6
<1>9. table' \in [Rows -> Seq(Blocks)]
  BY <1>1, <1>8
<1>10. \A r \in Rows : \A i \in 1 .. need[r] :
         /\ Len(table[r]) + i \in Len(table[r]) + 1 .. Len(table'[r])
         /\ table'[r][Len(table[r]) + i] = new[<<r, i>>]
  <2> SUFFICES ASSUME NEW r \in Rows, NEW i \in 1 .. need[r]
               PROVE  /\ Len(table[r]) + i \in Len(table[r]) + 1 .. Len(table'[r])
                      /\ table'[r][Len(table[r]) + i] = new[<<r, i>>]
    OBVIOUS
  <2>1. /\ Len(table[r]) \in Nat /\ need[r] \in Nat
        /\ Len(table'[r]) = Len(table[r]) + need[r]
    BY <1>5, <1>8
  <2>2. /\ Len(table[r]) + i \in Len(table[r]) + 1 .. Len(table'[r])
        /\ (Len(table[r]) + i) - Len(table[r]) = i
    BY <2>1
  <2>3. table'[r][Len(table[r]) + i] = new[<<r, (Len(table[r]) + i) - Len(table[r])>>]
    BY <2>2, <1>8
  <2> QED BY <2>2, <2>3
<1>11. \A r \in Rows : \A i \in Len(table[r]) + 1 .. Len(table'[r]) :
         table'[r][i] \in free \ free'
  <2> SUFFICES ASSUME NEW r \in Rows, NEW i \in Len(table[r]) + 1 .. Len(table'[r])
               PROVE  table'[r][i] \in free \ free'
    OBVIOUS
  <2>1. <<r, i - Len(table[r])>> \in Wanted(need)
    BY <1>3, <1>8
  <2>2. table'[r][i] \in Range(new) /\ table'[r][i] \in free
    BY <2>1, <1>2, <1>8 DEF Range
  <2> QED BY <2>2, <1>1
<1>12. \A b \in free : b \in free' \/ \E r \in Rows :
         \E i \in Len(table[r]) + 1 .. Len(table'[r]) : b = table'[r][i]
  <2> SUFFICES ASSUME NEW b \in free, b \notin free'
               PROVE  \E r \in Rows : \E i \in Len(table[r]) + 1 .. Len(table'[r]) :
                        b = table'[r][i]
    OBVIOUS
  <2>1. PICK w \in Wanted(need) : b = new[w]
    BY <1>1, <1>2 DEF Range
  <2> QED BY <2>1, <1>4, <1>10
<1>13. ASSUME NEW r \in Rows, NEW q \in Rows,
              NEW i \in Len(table[r]) + 1 .. Len(table'[r]),
              NEW j \in Len(table[q]) + 1 .. Len(table'[q]),
              table'[r][i] = table'[q][j]
       PROVE  r = q /\ i = j
  <2>1. new[<<r, i - Len(table[r])>>] = new[<<q, j - Len(table[q])>>]
    BY <1>8, <1>13
  <2>2. <<r, i - Len(table[r])>> = <<q, j - Len(table[q])>>
    BY <2>1, <1>2, <1>3, <1>8
  <2> QED BY <2>2, <1>8
<1>14. NewEntriesDiffer
  BY <1>13 DEF NewEntriesDiffer
<1> QED
  BY <1>1, <1>8, <1>9, <1>11, <1>12, <1>14

\* A row that asks for nothing keeps its table.
LEMMA GrowLeavesAlone ==
  ASSUME NEW need \in [Rows -> Nat], PoolTypeOK, Grow(need),
         NEW r \in Rows, need[r] = 0
  PROVE  table'[r] = table[r]
<1>1. /\ table'[r] \in Seq(Blocks) /\ table[r] \in Seq(Blocks)
      /\ Len(table'[r]) = Len(table[r]) + need[r]
      /\ \A i \in 1 .. Len(table[r]) : table'[r][i] = table[r][i]
  BY GrowExtends DEF PoolTypeOK
<1>2. Len(table[r]) \in Nat /\ Len(table'[r]) = Len(table[r])
  BY <1>1, LenProperties
<1> QED
  BY <1>1, <1>2, SeqEqual

-----------------------------------------------------------------------------
\* Growing tables keeps every block in one place: a new entry comes from the
\* free set, where no table's entry is, and the new entries differ.
LEMMA GrowKeepsBlockOwnership ==
  ASSUME NEW need \in [Rows -> Nat], PoolTypeOK, BlockOwnership, Grow(need)
  PROVE  BlockOwnership'
<1>1. /\ free' \subseteq free
      /\ table' \in [Rows -> Seq(Blocks)]
      /\ \A r \in Rows : Len(table'[r]) = Len(table[r]) + need[r]
      /\ \A r \in Rows : \A i \in 1 .. Len(table[r]) :
           table'[r][i] = table[r][i]
      /\ \A r \in Rows : \A i \in Len(table[r]) + 1 .. Len(table'[r]) :
           table'[r][i] \in free \ free'
      /\ \A b \in free : b \in free' \/ \E r \in Rows :
           \E i \in Len(table[r]) + 1 .. Len(table'[r]) : b = table'[r][i]
      /\ NewEntriesDiffer
  BY GrowExtends
<1>2. \A r \in Rows : /\ DOMAIN table[r] = 1 .. Len(table[r]) /\ Len(table[r]) \in Nat
                      /\ DOMAIN table'[r] = 1 .. Len(table'[r]) /\ Len(table'[r]) \in Nat
  BY <1>1, LenProperties DEF PoolTypeOK
\* A position of a grown table is an old one, with its old entry, or a new one.
<1>3. \A r \in Rows : \A i \in DOMAIN table'[r] :
        \/ i \in DOMAIN table[r] /\ table'[r][i] = table[r][i]
        \/ i \in Len(table[r]) + 1 .. Len(table'[r])
  <2> SUFFICES ASSUME NEW r \in Rows, NEW i \in DOMAIN table'[r]
               PROVE  \/ i \in DOMAIN table[r] /\ table'[r][i] = table[r][i]
                      \/ i \in Len(table[r]) + 1 .. Len(table'[r])
    OBVIOUS
  <2>1. i \in 1 .. Len(table[r]) \/ i \in Len(table[r]) + 1 .. Len(table'[r])
    BY <1>2
  <2> QED BY <2>1, <1>1, <1>2
<1>4. \A r \in Rows : \A i \in DOMAIN table[r] :
        i \in DOMAIN table'[r] /\ table'[r][i] = table[r][i]
  <2> SUFFICES ASSUME NEW r \in Rows, NEW i \in DOMAIN table[r]
               PROVE  i \in DOMAIN table'[r] /\ table'[r][i] = table[r][i]
    OBVIOUS
  <2>1. i \in 1 .. Len(table[r])
    BY <1>2
  <2>2. Len(table'[r]) >= Len(table[r])
    BY <1>1, <1>2
  <2> QED BY <2>1, <2>2, <1>1, <1>2
<1>5. ASSUME NEW r \in Rows, NEW i \in DOMAIN table'[r]
      PROVE  table'[r][i] \notin free'
  <2>1. CASE i \in DOMAIN table[r] /\ table'[r][i] = table[r][i]
    BY <2>1, <1>1 DEF BlockOwnership
  <2>2. CASE i \in Len(table[r]) + 1 .. Len(table'[r])
    BY <2>2, <1>1
  <2> QED BY <1>3, <2>1, <2>2
<1>6. ASSUME NEW r \in Rows, NEW i \in DOMAIN table'[r],
             NEW q \in Rows, NEW j \in DOMAIN table'[q],
             table'[r][i] = table'[q][j]
      PROVE  r = q /\ i = j
  <2>1. CASE i \in DOMAIN table[r] /\ table'[r][i] = table[r][i]
    <3>1. table[r][i] \notin free
      BY <2>1 DEF BlockOwnership
    <3>2. j \notin Len(table[q]) + 1 .. Len(table'[q])
      BY <3>1, <2>1, <1>1, <1>6
    <3>3. j \in DOMAIN table[q] /\ table'[q][j] = table[q][j]
      BY <3>2, <1>3
    <3> QED BY <3>3, <2>1, <1>6 DEF BlockOwnership
  <2>2. CASE i \in Len(table[r]) + 1 .. Len(table'[r])
    <3>1. table'[q][j] \in free
      BY <2>2, <1>1, <1>6
    <3>2. ~(j \in DOMAIN table[q] /\ table'[q][j] = table[q][j])
      BY <3>1 DEF BlockOwnership
    <3>3. j \in Len(table[q]) + 1 .. Len(table'[q])
      BY <3>2, <1>3
    <3>4. NewEntriesDiffer
      BY <1>1
    <3> QED BY ONLY <3>4, <3>3, <2>2, <1>6 DEF NewEntriesDiffer
  <2> QED BY <1>3, <2>1, <2>2
<1>7. ASSUME NEW b \in Blocks
      PROVE  b \in free' \/ \E r \in Rows : b \in Range(table'[r])
  <2>1. CASE b \in free
    <3>1. CASE b \in free'
      BY <3>1
    <3>2. CASE b \notin free'
      <4>1. PICK r \in Rows :
              \E i \in Len(table[r]) + 1 .. Len(table'[r]) : b = table'[r][i]
        BY <3>2, <2>1, <1>1
      <4>2. PICK i \in Len(table[r]) + 1 .. Len(table'[r]) : b = table'[r][i]
        BY <4>1
      <4>3. i \in DOMAIN table'[r]
        BY <1>2
      <4> QED BY <4>2, <4>3 DEF Range
    <3> QED BY <3>1, <3>2
  <2>2. CASE b \notin free
    <3>1. PICK r \in Rows : b \in Range(table[r])
      BY <2>2 DEF BlockOwnership
    <3>2. PICK i \in DOMAIN table[r] : b = table[r][i]
      BY <3>1 DEF Range
    <3> QED BY <3>2, <1>4 DEF Range
  <2> QED BY <2>1, <2>2
<1> QED
  BY <1>5, <1>6, <1>7 DEF BlockOwnership

\* Rows that hold their slots give everything back at once.
LEMMA ReleaseKeepsOwnership ==
  ASSUME PoolTypeOK, NoSlot \notin Slots, BlockOwnership, SlotOwnership,
         NEW rows \in SUBSET Holders, Release(rows)
  PROVE  /\ free' \subseteq Blocks
         /\ table' \in [Rows -> Seq(Blocks)]
         /\ freeSlots' \subseteq Slots
         /\ slot' \in [Rows -> Slots \cup {NoSlot}]
         /\ BlockOwnership'
         /\ SlotOwnership'
<1>1. rows \subseteq Rows /\ \A r \in rows : slot[r] \in Slots
  BY DEF Holders, Holds, PoolTypeOK
<1>2. free' = free \cup UNION {Range(table[r]) : r \in rows}
  BY DEF Release
<1>3. \A r \in Rows : /\ r \in rows => table'[r] = <<>>
                      /\ r \notin rows => table'[r] = table[r]
  BY DEF Release
<1>4. freeSlots' = freeSlots \cup {slot[r] : r \in rows}
  BY DEF Release
<1>5. \A r \in Rows : /\ r \in rows => slot'[r] = NoSlot
                      /\ r \notin rows => slot'[r] = slot[r]
  BY DEF Release
<1>6. DOMAIN <<>> = {}
  OBVIOUS
<1>7. table' \in [Rows -> Seq(Blocks)]
  BY EmptySeq DEF Release, PoolTypeOK
<1>8. slot' \in [Rows -> Slots \cup {NoSlot}]
  BY DEF Release, PoolTypeOK
<1>9. freeSlots' \subseteq Slots
  BY <1>1, <1>4 DEF PoolTypeOK
<1>10. \A r \in Rows : \A i \in DOMAIN table[r] : table[r][i] \in Blocks
  BY LenProperties DEF PoolTypeOK
<1>11. free' \subseteq Blocks
  BY <1>1, <1>2, <1>10 DEF PoolTypeOK, Range
<1>12. BlockOwnership'
  <2>1. ASSUME NEW r \in Rows, NEW i \in DOMAIN table'[r]
        PROVE  /\ r \notin rows /\ i \in DOMAIN table[r]
               /\ table'[r][i] = table[r][i] /\ table[r][i] \notin free'
    <3>1. r \notin rows /\ i \in DOMAIN table[r] /\ table'[r][i] = table[r][i]
      BY <2>1, <1>3, <1>6
    <3>2. \A q \in rows : table[r][i] \notin Range(table[q])
      BY <3>1, <1>1 DEF BlockOwnership, Range
    <3>3. table[r][i] \notin free
      BY <3>1 DEF BlockOwnership
    <3> QED BY <3>1, <3>2, <3>3, <1>2
  <2>2. ASSUME NEW b \in Blocks
        PROVE  b \in free' \/ \E r \in Rows : b \in Range(table'[r])
    <3>1. CASE b \in free
      BY <3>1, <1>2
    <3>2. CASE \E r \in Rows : b \in Range(table[r])
      <4>1. PICK r \in Rows : b \in Range(table[r])
        BY <3>2
      <4>2. CASE r \in rows
        BY <4>1, <4>2, <1>2
      <4>3. CASE r \notin rows
        BY <4>1, <4>3, <1>3
      <4> QED BY <4>2, <4>3
    <3> QED BY <3>1, <3>2 DEF BlockOwnership
  <2>3. ASSUME NEW r \in Rows, NEW i \in DOMAIN table'[r],
               NEW q \in Rows, NEW j \in DOMAIN table'[q],
               table'[r][i] = table'[q][j]
        PROVE  r = q /\ i = j
    <3>1. table[r][i] = table[q][j] /\ i \in DOMAIN table[r] /\ j \in DOMAIN table[q]
      BY <2>1, <2>3
    <3> QED BY <3>1 DEF BlockOwnership
  <2> QED BY <2>1, <2>2, <2>3 DEF BlockOwnership
<1>13. SlotOwnership'
  <2>1. ASSUME NEW r \in Rows, slot'[r] # NoSlot
        PROVE  r \notin rows /\ slot'[r] = slot[r] /\ slot[r] \notin freeSlots'
    <3>1. r \notin rows /\ slot'[r] = slot[r]
      BY <2>1, <1>5
    <3>2. \A q \in rows : slot[q] # slot[r]
      BY <3>1, <2>1, <1>1 DEF SlotOwnership, Holds
    <3> QED BY <3>1, <3>2, <2>1, <1>4 DEF SlotOwnership, Holds
  <2>2. \A r, q \in Rows : slot'[r] # NoSlot /\ slot'[r] = slot'[q] => r = q
    BY <2>1 DEF SlotOwnership, Holds
  <2>3. \A s \in Slots : s \in freeSlots' \/ \E r \in Rows : slot'[r] = s
    BY <1>4, <1>5 DEF SlotOwnership
  <2>4. \A r \in Rows : slot'[r] = NoSlot => table'[r] = <<>>
    BY <1>3, <1>5 DEF SlotOwnership, Holds
  <2> QED BY <2>1, <2>2, <2>3, <2>4 DEF SlotOwnership, Holds
<1> QED
  BY <1>7, <1>8, <1>9, <1>11, <1>12, <1>13

\* Rows that already hold a slot may be given blocks.
LEMMA GrowKeepsOwnership ==
  ASSUME PoolTypeOK, BlockOwnership, SlotOwnership,
         NEW need \in [Rows -> Nat], \A r \in Rows : need[r] # 0 => Holds(r),
         Grow(need), UNCHANGED <<slot, freeSlots>>
  PROVE  /\ free' \subseteq Blocks
         /\ table' \in [Rows -> Seq(Blocks)]
         /\ freeSlots' \subseteq Slots
         /\ slot' \in [Rows -> Slots \cup {NoSlot}]
         /\ BlockOwnership'
         /\ SlotOwnership'
         /\ \A r \in Rows : need[r] = 0 => table'[r] = table[r]
<1>1. free' \subseteq free /\ table' \in [Rows -> Seq(Blocks)]
  BY GrowExtends
<1>2. \A r \in Rows : need[r] = 0 => table'[r] = table[r]
  BY GrowLeavesAlone
<1>3. BlockOwnership'
  BY GrowKeepsBlockOwnership
<1>4. SlotOwnership'
  BY <1>2 DEF SlotOwnership, Holds
<1> QED
  BY <1>1, <1>2, <1>3, <1>4 DEF PoolTypeOK

-----------------------------------------------------------------------------
\* A kernel's writes keep the cache well typed.
LEMMA WrittenType ==
  ASSUME PoolTypeOK, NEW writes, \A w \in writes : w[2] \in (0 .. MaxRows) \X Nat
  PROVE  Written(writes) \in [Cells -> (0 .. MaxRows) \X Nat]
<1>1. ASSUME NEW c \in Cells, \E w \in writes : w[1] = c
      PROVE  (CHOOSE w \in writes : w[1] = c)[2] \in (0 .. MaxRows) \X Nat
  BY <1>1
<1>2. \A c \in Cells : kv[c] \in (0 .. MaxRows) \X Nat
  BY DEF PoolTypeOK
<1> QED
  BY <1>1, <1>2 DEF Written

-----------------------------------------------------------------------------
\* Positions and blocks.

\* A table of len blocks reaches up to position n.
Reaches(tbl, n) == n <= Len(tbl) * BlockSize

\* No two entries of the tables are the same block.
EntriesDiffer(tables) ==
  \A r, q \in Rows : \A i \in DOMAIN tables[r] : \A j \in DOMAIN tables[q] :
    tables[r][i] = tables[q][j] => r = q /\ i = j

\* Writes made, row by row, to positions the tables reach and not before
\* position first of their row; entry says what is written at a position.
WrittenFrom(tables, first, entry, writes) ==
  first \in [Rows -> Nat] /\ \A w \in writes : \E r \in Rows, p \in Nat :
    /\ first[r] <= p /\ Reaches(tables[r], p + 1)
    /\ w = <<CellOf(tables[r], p), entry[<<r, p>>]>>

\* What SMT has to be told of integer division.
LEMMA DivMod ==
  ASSUME NEW a \in Int, NEW b \in Nat \ {0}
  PROVE  /\ a \div b \in Int /\ a % b \in 0 .. b - 1
         /\ a = ((a \div b) * b) + (a % b)
OBVIOUS

\* More blocks hold no fewer positions.
LEMMA BlocksMonotone ==
  ASSUME NEW m \in Int, NEW n \in Int, NEW b \in Nat, m <= n
  PROVE  m * b <= n * b
OBVIOUS

\* Where a block starts, from a position in it.
LEMMA BlockStart ==
  ASSUME NEW m \in Int, NEW b \in Nat \ {0}
  PROVE  (m * b) % b = 0
OBVIOUS

\* A position a table reaches lies in one of its own blocks.
LEMMA CellInTable ==
  ASSUME NEW tbl \in Seq(Blocks), NEW p \in Nat, Reaches(tbl, p + 1)
  PROVE  /\ p \div BlockSize \in Nat /\ (p \div BlockSize) + 1 \in DOMAIN tbl
         /\ CellOf(tbl, p) = <<tbl[(p \div BlockSize) + 1], p % BlockSize>>
         /\ CellOf(tbl, p) \in Cells
<1> DEFINE d == p \div BlockSize
           m == p % BlockSize
<1>1. BlockSize \in Nat \ {0} /\ Len(tbl) \in Nat /\ DOMAIN tbl = 1 .. Len(tbl)
  BY PoolAssumption, LenProperties
<1>2. d \in Int /\ m \in 0 .. BlockSize - 1 /\ p = (d * BlockSize) + m
  BY <1>1, DivMod
<1>3. p < Len(tbl) * BlockSize
  BY <1>1 DEF Reaches
<1> HIDE DEF d, m
<1>4. d >= 0
  <2>1. d <= -1 => d * BlockSize <= (-1) * BlockSize
    BY <1>1, <1>2, BlocksMonotone
  <2>2. (-1) * BlockSize = -BlockSize
    BY <1>1
  <2> QED BY <1>1, <1>2, <2>1, <2>2
<1>5. d < Len(tbl)
  <2>1. Len(tbl) <= d => Len(tbl) * BlockSize <= d * BlockSize
    BY <1>1, <1>2, BlocksMonotone
  <2>2. d * BlockSize \in Int /\ Len(tbl) * BlockSize \in Int
    BY <1>1, <1>2
  <2> QED BY <1>1, <1>2, <1>3, <2>1, <2>2
<1>6. d \in Nat /\ d + 1 \in 1 .. Len(tbl)
  BY <1>1, <1>2, <1>4, <1>5
<1>7. PaddedAt(tbl, d) = tbl[d + 1] /\ tbl[d + 1] \in Blocks
  BY <1>1, <1>5, <1>6, ElementOfSeq DEF PaddedAt
<1> QED
  BY <1>1, <1>2, <1>6, <1>7 DEF d, m, CellOf, Cells

\* Different positions of rows that own their blocks are different cells.
LEMMA CellsDiffer ==
  ASSUME NEW tables \in [Rows -> Seq(Blocks)], EntriesDiffer(tables),
         NEW r \in Rows, NEW q \in Rows, NEW p \in Nat, NEW s \in Nat,
         Reaches(tables[r], p + 1), Reaches(tables[q], s + 1),
         CellOf(tables[r], p) = CellOf(tables[q], s)
  PROVE  r = q /\ p = s
<1>1. /\ (p \div BlockSize) + 1 \in DOMAIN tables[r]
      /\ CellOf(tables[r], p) = <<tables[r][(p \div BlockSize) + 1], p % BlockSize>>
      /\ p \div BlockSize \in Nat
  BY CellInTable
<1>2. /\ (s \div BlockSize) + 1 \in DOMAIN tables[q]
      /\ CellOf(tables[q], s) = <<tables[q][(s \div BlockSize) + 1], s % BlockSize>>
      /\ s \div BlockSize \in Nat
  BY CellInTable
<1>3. /\ tables[r][(p \div BlockSize) + 1] = tables[q][(s \div BlockSize) + 1]
      /\ p % BlockSize = s % BlockSize
  <2>1. <<tables[r][(p \div BlockSize) + 1], p % BlockSize>>
          = <<tables[q][(s \div BlockSize) + 1], s % BlockSize>>
    BY <1>1, <1>2, Zenon
  <2> QED BY <2>1, Zenon
<1>4. r = q /\ (p \div BlockSize) + 1 = (s \div BlockSize) + 1
  BY <1>1, <1>2, <1>3 DEF EntriesDiffer
<1>5. p \div BlockSize = s \div BlockSize
  BY <1>1, <1>2, <1>4
<1>6. /\ p = ((p \div BlockSize) * BlockSize) + (p % BlockSize)
      /\ s = ((s \div BlockSize) * BlockSize) + (s % BlockSize)
  <2>1. BlockSize \in Nat \ {0}
    BY PoolAssumption
  <2> QED BY <2>1
<1> QED
  BY <1>3, <1>4, <1>5, <1>6, Zenon

\* A cell nobody writes keeps its entry, one that is written has what was
\* written, when all writes to it agree.
LEMMA WrittenFacts ==
  ASSUME NEW writes, NEW c \in Cells
  PROVE  /\ (\A w \in writes : w[1] # c) => Written(writes)[c] = kv[c]
         /\ \A e \in writes :
              e[1] = c /\ (\A w \in writes : w[1] = c => w[2] = e[2])
                => Written(writes)[c] = e[2]
<1>1. Written(writes)[c] = IF \E w \in writes : w[1] = c
                           THEN (CHOOSE w \in writes : w[1] = c)[2] ELSE kv[c]
  BY DEF Written
<1>2. (\E w \in writes : w[1] = c) =>
        (CHOOSE w \in writes : w[1] = c) \in {w \in writes : w[1] = c}
  OBVIOUS
<1> QED
  BY <1>1, <1>2

\* Such writes meet a cell only at its own position.
LEMMA WrittenOnce ==
  ASSUME NEW tables \in [Rows -> Seq(Blocks)], EntriesDiffer(tables),
         NEW first, NEW entry, NEW writes,
         WrittenFrom(tables, first, entry, writes),
         NEW q \in Rows, NEW s \in Nat, Reaches(tables[q], s + 1),
         NEW w \in writes, w[1] = CellOf(tables[q], s)
  PROVE  first[q] <= s /\ w[2] = entry[<<q, s>>]
<1>1. PICK r \in Rows, p \in Nat :
        /\ first[r] <= p /\ Reaches(tables[r], p + 1)
        /\ w = <<CellOf(tables[r], p), entry[<<r, p>>]>>
  BY DEF WrittenFrom
<1>2. r = q /\ p = s
  BY <1>1, CellsDiffer
<1> QED
  BY <1>1, <1>2

\* What was cached before position first is still there.
LEMMA WritesLeave ==
  ASSUME NEW tables \in [Rows -> Seq(Blocks)], EntriesDiffer(tables),
         NEW first, NEW entry, NEW writes,
         WrittenFrom(tables, first, entry, writes),
         NEW q \in Rows, NEW s \in Nat, Reaches(tables[q], s + 1),
         s < first[q]
  PROVE  Written(writes)[CellOf(tables[q], s)] = kv[CellOf(tables[q], s)]
<1> DEFINE c == CellOf(tables[q], s)
<1>1. c \in Cells
  BY CellInTable
<1>2. \A w \in writes : w[1] = c => first[q] <= s
  BY WrittenOnce
<1>3. first[q] \in Int /\ s \in Int
  BY DEF WrittenFrom
<1> HIDE DEF c
<1>4. \A w \in writes : w[1] # c
  BY <1>2, <1>3
<1> QED
  BY <1>1, <1>4, WrittenFacts DEF c

\* What is written is found where it was written.
LEMMA WritesLand ==
  ASSUME NEW tables \in [Rows -> Seq(Blocks)], EntriesDiffer(tables),
         NEW first, NEW entry, NEW writes,
         WrittenFrom(tables, first, entry, writes),
         NEW q \in Rows, NEW s \in Nat, Reaches(tables[q], s + 1),
         NEW e, <<CellOf(tables[q], s), e>> \in writes
  PROVE  Written(writes)[CellOf(tables[q], s)] = e
<1> DEFINE c == CellOf(tables[q], s)
           w == <<c, e>>
<1>1. c \in Cells
  BY CellInTable
<1>2. ASSUME NEW v \in writes, v[1] = CellOf(tables[q], s)
      PROVE  v[2] = entry[<<q, s>>]
  <2>1. first[q] <= s /\ v[2] = entry[<<q, s>>]
    BY <1>2, WrittenOnce
  <2> QED BY <2>1
<1>3. w \in writes /\ w[1] = c /\ w[2] = e
  OBVIOUS
<1>4. \A v \in writes : v[1] = c => v[2] = entry[<<q, s>>]
  BY <1>2
<1> HIDE DEF c, w
<1>5. Written(writes)[c] = e
  <2>1. \A v \in writes : v[1] = c => v[2] = w[2]
    BY <1>3, <1>4
  <2> QED BY <2>1, <1>1, <1>3, WrittenFacts
<1> QED
  BY <1>5 DEF c

\* A table that grows at its end keeps the cells of the positions it reached.
LEMMA CellStays ==
  ASSUME NEW old \in Seq(Blocks), NEW new \in Seq(Blocks), Len(old) <= Len(new),
         \A i \in 1 .. Len(old) : new[i] = old[i],
         NEW p \in Nat, Reaches(old, p + 1)
  PROVE  Reaches(new, p + 1) /\ CellOf(new, p) = CellOf(old, p)
<1>1. Len(old) \in Nat /\ Len(new) \in Nat /\ BlockSize \in Nat
  BY LenProperties, PoolAssumption
<1>2. Len(old) * BlockSize <= Len(new) * BlockSize
  BY <1>1, BlocksMonotone
<1>3. Reaches(new, p + 1)
  BY <1>1, <1>2 DEF Reaches
<1> QED
  BY <1>3, CellInTable, LenProperties

\* What Missing asks for reaches position n.
LEMMA MissingReaches ==
  ASSUME NEW n \in Nat, NEW len \in Nat,
         len >= CeilDiv(n, BlockSize)
  PROVE  n <= len * BlockSize
<1>1. BlockSize \in Nat \ {0}
  BY PoolAssumption
<1> DEFINE a == n + BlockSize - 1
           d == a \div BlockSize
           m == a % BlockSize
<1>2. a \in Int /\ d <= len /\ a = n + BlockSize - 1
  BY <1>1 DEF CeilDiv
<1> HIDE DEF a
<1>3. d \in Int /\ m \in 0 .. BlockSize - 1 /\ a = (d * BlockSize) + m
  BY <1>1, <1>2
<1> HIDE DEF d, m
<1>4. d * BlockSize <= len * BlockSize
  BY <1>1, <1>2, <1>3, BlocksMonotone
<1>5. d * BlockSize \in Int /\ len * BlockSize \in Int
  BY <1>1, <1>3
<1> QED
  BY <1>1, <1>2, <1>3, <1>4, <1>5

\* A row that reaches position first is given blocks up to first + span,
\* though ensure_decode_blocks only looks at positions that start a block.
LEMMA DecodeNeedReaches ==
  ASSUME NEW r \in Rows, table[r] \in Seq(Blocks),
         NEW first \in Nat \ {0}, NEW span \in Nat \ {0}, Reaches(table[r], first),
         NEW len \in Nat, len = Len(table[r]) + DecodeNeed(r, first, span)
  PROVE  first + span <= len * BlockSize
<1>1. BlockSize \in Nat \ {0} /\ Len(table[r]) \in Nat
  BY PoolAssumption, LenProperties
<1> DEFINE last == first + span - 1
           L == Len(table[r])
<1>2. last \in Nat /\ L \in Nat /\ first <= L * BlockSize /\ L * BlockSize \in Nat
  BY <1>1 DEF Reaches
<1>3. CASE StartsBlock(first, span)
  <2> DEFINE d == last \div BlockSize
             m == last % BlockSize
  <2>1. len >= d + 1 /\ d \in Int
    BY <1>1, <1>3 DEF DecodeNeed, LargerOf
  <2> HIDE DEF last
  <2>2. m \in 0 .. BlockSize - 1 /\ last = (d * BlockSize) + m
    BY <1>1, <1>2
  <2> HIDE DEF d, m
  <2>3. (d + 1) * BlockSize <= len * BlockSize
    BY <1>1, <2>1, BlocksMonotone
  <2>4. (d + 1) * BlockSize = (d * BlockSize) + BlockSize
    BY <1>1, <2>1
  <2>5. d * BlockSize \in Int /\ len * BlockSize \in Int
    BY <1>1, <2>1
  <2>6. last < len * BlockSize
    BY <1>1, <2>2, <2>3, <2>4, <2>5
  <2> QED BY <1>2, <2>5, <2>6 DEF last
<1>4. CASE ~StartsBlock(first, span)
  <2>1. len = L
    BY <1>2, <1>4 DEF DecodeNeed
  <2>2. (L * BlockSize) % BlockSize = 0
    <3>1. L \in Int
      BY <1>2
    <3> HIDE DEF L
    <3> QED BY <1>1, <3>1, BlockStart
  <2>3. ~(L * BlockSize \in first .. last)
    BY <1>4, <2>2 DEF StartsBlock
  <2> HIDE DEF L
  <2>4. last < L * BlockSize
    BY <1>2, <2>3
  <2> QED BY <1>2, <2>1, <2>4
<1> QED
  BY <1>3, <1>4

\* A pool with room for width blocks per slot has room for what rows ask for
\* that hold slots and end up with width blocks at most: entries of tables,
\* old and new, are places of a grid of slots and block indices.
LEMMA BoundedFits ==
  ASSUME PoolTypeOK, BlockOwnership, NEW need \in [Rows -> Nat], NEW width \in Nat,
         NEW holders \in SUBSET Rows, Cardinality(holders) <= Cardinality(Slots),
         Cardinality(Blocks) = Cardinality(Slots) * width,
         \A r \in Rows : Len(table[r]) + need[r] <= width,
         \A r \in Rows \ holders : Len(table[r]) + need[r] = 0
  PROVE  Fits(need)
<1> DEFINE grid == holders \X (1 .. width)
           old  == {x \in grid : x[2] <= Len(table[x[1]])}
           new  == {x \in grid : Len(table[x[1]]) < x[2]
                                 /\ x[2] <= Len(table[x[1]]) + need[x[1]]}
           busy == Blocks \ free
           wanted == Wanted(need)
<1>1. /\ IsFiniteSet(Blocks) /\ IsFiniteSet(Slots) /\ free \subseteq Blocks
      /\ table \in [Rows -> Seq(Blocks)]
      /\ \A r \in Rows : Len(table[r]) \in Nat /\ DOMAIN table[r] = 1 .. Len(table[r])
  BY PoolAssumption, LenProperties DEF PoolTypeOK
<1>2. IsFiniteSet(holders)
  <2>1. IsFiniteSet(Rows)
    BY FS_Interval, PoolAssumption DEF Rows
  <2> QED BY <2>1, FS_Subset
<1>3. IsFiniteSet(grid) /\ Cardinality(grid) = Cardinality(holders) * width
  <2>1. IsFiniteSet(1 .. width) /\ Cardinality(1 .. width) = width
    BY FS_Interval
  <2> QED BY <1>2, <2>1, FS_Product
<1>4. /\ IsFiniteSet(old) /\ IsFiniteSet(new)
      /\ Cardinality(old) + Cardinality(new) <= Cardinality(grid)
  <2>1. old \in SUBSET grid /\ new \in SUBSET grid /\ (old \cup new) \in SUBSET grid
    OBVIOUS
  <2>2. old \cap new = {}
    BY <1>1
  <2> HIDE DEF old, new, grid
  <2>3. IsFiniteSet(old) /\ IsFiniteSet(new) /\ Cardinality(old \cup new) <= Cardinality(grid)
    BY <1>3, <2>1, FS_Subset
  <2>4. Cardinality(old \cup new) = Cardinality(old) + Cardinality(new) - Cardinality(old \cap new)
    BY <2>3, FS_Union
  <2>5. Cardinality(old \cap new) = 0
    BY <2>2, FS_EmptySet
  <2>6. Cardinality(old) \in Nat /\ Cardinality(new) \in Nat
    BY <2>3, FS_CardinalityType
  <2> QED BY <2>3, <2>4, <2>5, <2>6
<1>5. Cardinality(busy) <= Cardinality(old)
  <2> DEFINE f == [x \in old |-> table[x[1]][x[2]]]
  <2>1. \A x \in old : f[x] \in busy
    <3> SUFFICES ASSUME NEW x \in old PROVE table[x[1]][x[2]] \in busy
      OBVIOUS
    <3>1. x[1] \in Rows /\ x[2] \in DOMAIN table[x[1]]
      BY <1>1
    <3>2. table[x[1]][x[2]] \in Blocks
      BY <3>1, <1>1, ElementOfSeq
    <3> QED BY <3>1, <3>2 DEF BlockOwnership
  <2>2. \A b \in busy : \E x \in old : f[x] = b
    <3> SUFFICES ASSUME NEW b \in busy PROVE \E x \in old : table[x[1]][x[2]] = b
      OBVIOUS
    <3>1. PICK r \in Rows : b \in Range(table[r])
      BY DEF BlockOwnership
    <3>2. PICK i \in DOMAIN table[r] : table[r][i] = b
      BY <3>1 DEF Range
    <3>3. r \in holders /\ i \in 1 .. width /\ i <= Len(table[r])
      BY <1>1, <3>2
    <3>4. <<r, i>> \in old
      BY <3>3
    <3> QED BY <3>2, <3>4
  <2>3. f \in Surjection(old, busy)
    BY <2>1, <2>2 DEF Surjection
  <2> HIDE DEF f, old, busy
  <2> QED BY <2>3, <1>4, FS_Surjection
<1>6. IsFiniteSet(wanted) /\ Cardinality(wanted) <= Cardinality(new)
  <2> DEFINE f == [x \in new |-> <<x[1], x[2] - Len(table[x[1]])>>]
  <2>1. \A x \in new : f[x] \in wanted
    <3> SUFFICES ASSUME NEW x \in new
                 PROVE  <<x[1], x[2] - Len(table[x[1]])>> \in wanted
      OBVIOUS
    <3>1. x[1] \in Rows /\ x[2] - Len(table[x[1]]) \in 1 .. need[x[1]]
      BY <1>1
    <3> QED BY <3>1 DEF Wanted
  <2>2. \A w \in wanted : \E x \in new : f[x] = w
    <3> SUFFICES ASSUME NEW w \in wanted
                 PROVE  \E x \in new : <<x[1], x[2] - Len(table[x[1]])>> = w
      OBVIOUS
    <3>1. PICK r \in Rows : w \in {r} \X (1 .. need[r])
      BY DEF Wanted
    <3>2. PICK i \in 1 .. need[r] : w = <<r, i>>
      BY <3>1
    <3> DEFINE j == Len(table[r]) + i
    <3>3. /\ r \in holders /\ j \in 1 .. width /\ Len(table[r]) < j
          /\ j <= Len(table[r]) + need[r] /\ j - Len(table[r]) = i
      BY <1>1, <3>2
    <3> HIDE DEF j
    <3>4. <<r, j>> \in new
      BY <3>3
    <3> QED BY <3>2, <3>3, <3>4
  <2>3. f \in Surjection(new, wanted)
    BY <2>1, <2>2 DEF Surjection
  <2> HIDE DEF f, new, wanted
  <2> QED BY <2>3, <1>4, FS_Surjection
<1>7. Cardinality(busy) = Cardinality(Blocks) - Cardinality(free)
  <2>1. IsFiniteSet(Blocks) /\ Blocks \cap free = free
    BY <1>1
  <2>2. Cardinality(Blocks \ free) = Cardinality(Blocks) - Cardinality(Blocks \cap free)
    BY <2>1, FS_Difference
  <2> QED BY <2>1, <2>2
<1>8. Cardinality(grid) <= Cardinality(Blocks)
  <2>1. Cardinality(holders) \in Nat /\ Cardinality(Slots) \in Nat
    BY <1>1, <1>2, FS_CardinalityType
  <2>2. Cardinality(holders) * width <= Cardinality(Slots) * width
    BY <2>1, BlocksMonotone
  <2> QED BY <1>3, <2>2
<1>9. /\ Cardinality(busy) \in Int /\ Cardinality(old) \in Int /\ Cardinality(new) \in Int
      /\ Cardinality(grid) \in Int /\ Cardinality(Blocks) \in Int /\ Cardinality(free) \in Int
      /\ Cardinality(wanted) \in Int
  <2>1. IsFiniteSet(free) /\ IsFiniteSet(busy)
    BY <1>1, FS_Subset
  <2> HIDE DEF wanted, busy, old, new, grid
  <2> QED BY <1>1, <1>3, <1>4, <1>6, <2>1, FS_CardinalityType
<1> HIDE DEF grid, old, new, busy, wanted
<1>10. Cardinality(wanted) <= Cardinality(free)
  BY <1>4, <1>5, <1>6, <1>7, <1>8, <1>9
<1> QED
  BY <1>10 DEF wanted, Fits
=============================================================================
