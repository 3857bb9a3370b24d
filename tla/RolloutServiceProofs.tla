------------------------ MODULE RolloutServiceProofs ------------------------
(***************************************************************************)
(* What the rollout loop promises its caller, for any number of prompts,   *)
(* blocks, slots and for any configuration of the loop: an emptied batch   *)
(* leaves a whole pool behind and every row answered (EndInv); the cache   *)
(* cells of a row hold that row's tokens, whoever was admitted, grown,     *)
(* retired or cancelled around it (MemInv); with the pool the engine sizes *)
(* and prompts that fit it, no allocation fails (PoolInv); and every step  *)
(* of the loop is a step of RolloutService or leaves its state alone.      *)
(***************************************************************************)
EXTENDS RolloutSchedulerProofs

-----------------------------------------------------------------------------
\* How rows end, and where tokens are: a row that left the batch was reported
\* or is cancelled, and a row has no token before its prompt is complete.
EndInv ==
  /\ pc = "done" => active = {} /\ pending > Len(prompts)
  /\ \A r \in Rows : r < pending /\ r \notin active \cup fresh =>
       reported[r] # "none" \/ r \in cancelFlag
  /\ \A r \in Rows : r >= pending => rlen[r] = 0
  /\ pc \in {"pack", "forward"} => \A r \in fresh : rlen[r] = 0

\* A step that leaves rows, tokens and reports alone, and does not end the loop.
LEMMA EndFrame ==
  ASSUME EndInv, UNCHANGED <<pending, active, fresh, rlen, reported>>,
         cancelFlag \subseteq cancelFlag', pc' # "done",
         pc' \in {"pack", "forward"} => pc \in {"pack", "forward"} \/ fresh = {}
  PROVE  EndInv'
BY DEF EndInv

\* A row packed for the first time has no token.
LEMMA EndPackChunk == ASSUME IInv, EndInv, PackChunk PROVE EndInv'
<1>1. /\ pending \in Rows /\ pending \in Nat /\ pc = "pack" /\ pc' \in {"pack", "forward"}
      /\ UNCHANGED <<active, rlen, reported, cancelFlag>>
  <2>1. Packable /\ pc = "pack" /\ TypeOK
    BY DEF PackChunk, IInv
  <2> QED BY <2>1, PackNeedType, PromptFacts DEF PackChunk
<1>2. \/ fresh' = fresh \cup {pending} /\ pending' = pending + 1
      \/ UNCHANGED <<fresh, pending>>
  BY DEF PackChunk
<1>3. \A r \in Rows : r < pending + 1 => r < pending \/ r = pending
  BY <1>1 DEF Rows
<1>4. \A r \in Rows : r >= pending + 1 => r >= pending
  BY <1>1 DEF Rows
<1>5. \A r \in Rows : r >= pending => rlen[r] = 0
  BY DEF EndInv
<1>6. \A r \in fresh' : rlen[r] = 0
  <2>1. rlen[pending] = 0
    BY <1>1, <1>5
  <2> QED BY <2>1, <1>1, <1>2 DEF EndInv
<1>7. CASE fresh' = fresh \cup {pending} /\ pending' = pending + 1
  <2>1. \A r \in Rows : r < pending' /\ r \notin active' \cup fresh' =>
          reported'[r] # "none" \/ r \in cancelFlag'
    BY <1>1, <1>3, <1>7 DEF EndInv
  <2>2. \A r \in Rows : r >= pending' => rlen'[r] = 0
    BY <1>1, <1>4, <1>5, <1>7
  <2> QED BY <1>1, <1>6, <2>1, <2>2 DEF EndInv
<1>8. CASE UNCHANGED <<fresh, pending>>
  <2>1. cancelFlag \subseteq cancelFlag' /\ pc' # "done"
    BY <1>1
  <2> QED BY <2>1, <1>1, <1>8, EndFrame
<1> QED
  BY <1>2, <1>7, <1>8

\* The completed prompts get one token; those that leave are reported.
LEMMA EndFirstTokens == ASSUME IInv, EndInv, FirstTokens PROVE EndInv'
<1>1. PICK stopped \in SUBSET fresh :
        LET full == {r \in fresh : MaxNew <= 1}
            gone == stopped \cup full
        IN /\ reported' = Reported(Reported(reported, stopped, "stop"), full, "length")
           /\ rlen' = [r \in Rows |-> IF r \in fresh THEN 1 ELSE rlen[r]]
           /\ active' = active \cup (fresh \ gone)
           /\ fresh' = fresh \ gone
           /\ pc' = IF SpecK > 0 /\ fresh # gone THEN "draft" ELSE "sweep"
  BY DEF FirstTokens
<1> DEFINE full == {r \in fresh : MaxNew <= 1}
           gone == stopped \cup full
<1>2. /\ reported' = Reported(Reported(reported, stopped, "stop"), full, "length")
      /\ rlen' = [r \in Rows |-> IF r \in fresh THEN 1 ELSE rlen[r]]
      /\ active' = active \cup (fresh \ gone) /\ fresh' = fresh \ gone
      /\ pc' \in {"draft", "sweep"} /\ UNCHANGED <<pending, cancelFlag>>
  BY <1>1 DEF FirstTokens
<1>3. \A r \in fresh : r \in Rows /\ r < pending
  BY LoopFacts
<1>4. \A r \in gone : reported'[r] # "none"
  BY <1>2, <1>3 DEF Reported
<1>5. \A r \in Rows : reported[r] # "none" => reported'[r] # "none"
  BY <1>2 DEF Reported
<1> HIDE DEF full, gone
<1>6. \A r \in Rows : r < pending /\ r \notin active' \cup fresh' =>
        reported'[r] # "none" \/ r \in cancelFlag
  BY <1>2, <1>4, <1>5 DEF EndInv
<1>7. \A r \in Rows : r >= pending => rlen'[r] = 0
  <2>1. \A r \in Rows : r >= pending => r \notin fresh
    <3>1. pending \in Nat /\ \A r \in Rows : r \in Nat
      BY PromptFacts DEF IInv, Rows
    <3> QED BY <3>1, <1>3
  <2> QED BY <2>1, <1>2 DEF EndInv
<1> QED
  BY <1>2, <1>6, <1>7 DEF EndInv

\* Cancelled rows are reported, and the loop ends only with nothing left.
LEMMA EndCancelSweep == ASSUME IInv, EndInv, CancelSweep PROVE EndInv'
<1> DEFINE cancelled == active \cap cancelFlag
<1>1. /\ active' = active \ cancelled /\ fresh' = {} /\ fresh \subseteq active
      /\ rlen' = [r \in Rows |-> IF r \in cancelled THEN 1 ELSE rlen[r]]
      /\ reported' = Reported(reported, cancelled, "cancelled")
      /\ UNCHANGED <<prompts, pending, cancelFlag>>
      /\ pc' = AfterSweep(active \ cancelled)
  BY DEF CancelSweep, Compact, IInv, PhaseInv
<1>2. /\ pc' \in {"ensure", "top", "done"}
      /\ pc' = "done" => active \ cancelled = {} /\ pending \notin Arrived
  BY <1>1 DEF AfterSweep
<1>3. /\ pending \in Nat /\ pending > 0 /\ Len(prompts) \in Nat
      /\ Arrived = 1 .. Len(prompts) /\ \A r \in Rows : r \in Nat
  BY PromptFacts DEF IInv, Rows
<1>4. \A r \in active : r \in Rows /\ r < pending
  BY LoopFacts
<1> HIDE DEF cancelled
<1>5. pc' = "done" => active' = {} /\ pending' > Len(prompts')
  BY <1>1, <1>2, <1>3
<1>6. \A r \in Rows : r < pending' /\ r \notin active' \cup fresh' =>
        reported'[r] # "none" \/ r \in cancelFlag'
  BY <1>1 DEF EndInv, Reported
<1>7. \A r \in Rows : r >= pending' => rlen'[r] = 0
  <2>1. \A r \in Rows : r >= pending => r \notin active
    BY <1>3, <1>4
  <2>2. cancelled \subseteq active
    BY DEF cancelled
  <2> QED BY <2>1, <2>2, <1>1 DEF EndInv
<1> QED
  BY <1>2, <1>5, <1>6, <1>7 DEF EndInv

\* The rows a decode step drops are reported, or cancelled.
LEMMA EndDecodeStep == ASSUME IInv, EndInv, DecodeStep PROVE EndInv'
<1>1. PICK leave \in SUBSET active :
        /\ active' = active \ leave
        /\ \A r \in Rows \ active : rlen'[r] = rlen[r]
        /\ \A r \in leave : reported'[r] # "none" \/ r \in cancelFlag
        /\ \A r \in Rows : reported[r] # "none" => reported'[r] # "none"
  BY DecodeStepStep DEF DecodeEffect
<1>2. pc' = "top" /\ UNCHANGED <<pending, fresh, cancelFlag>>
  BY DEF DecodeStep
<1>3. \A r \in Rows : r >= pending => r \notin active
  <2>1. /\ pending \in Nat /\ \A r \in Rows : r \in Nat
        /\ \A r \in active : r < pending
    BY LoopFacts, PromptFacts DEF IInv, Rows
  <2> QED BY <2>1
<1>4. \A r \in Rows : r >= pending => rlen'[r] = 0
  BY <1>1, <1>3 DEF EndInv
<1>5. \A r \in Rows : r < pending /\ r \notin active' \cup fresh =>
        reported'[r] # "none" \/ r \in cancelFlag
  BY <1>1 DEF EndInv
<1> QED
  BY <1>2, <1>4, <1>5 DEF EndInv

\* Every step keeps EndInv: one case per action.
LEMMA EndNext == ASSUME IInv, EndInv, [Next]_vars PROVE EndInv'
<1>1. CASE \E r \in Rows : Cancel(r)
  <2>1. /\ UNCHANGED <<pc, pending, active, fresh, rlen, reported>>
        /\ cancelFlag \subseteq cancelFlag' /\ pc # "done"
    BY <1>1 DEF Cancel, loopVars
  <2> QED BY <2>1, EndFrame
<1>2. CASE Refill
  <2>1. fresh = {}
    BY <1>2 DEF Refill, IInv, PhaseInv
  <2>2. /\ UNCHANGED <<pending, active, fresh, rlen, reported, cancelFlag>>
        /\ pc' = "pack"
    BY <1>2, <2>1 DEF Refill
  <2>3. cancelFlag \subseteq cancelFlag' /\ pc' # "done"
    BY <2>2
  <2> QED BY <2>1, <2>2, <2>3, EndFrame
<1>3. CASE PackStarved \/ PackDone \/ PackFails \/ ForwardPartial
  <2>1. /\ UNCHANGED <<pending, active, fresh, rlen, reported, cancelFlag>>
        /\ pc \in {"pack", "forward"} /\ pc' # "done"
    BY <1>3 DEF PackStarved, PackDone, PackFails, ForwardPartial, loopVars
  <2>2. cancelFlag \subseteq cancelFlag'
    BY <2>1
  <2> QED BY <2>1, <2>2, EndFrame
<1>4. CASE EnsureBlocks \/ PrepareMetadata \/ EnsureFails
  <2>1. /\ UNCHANGED <<pending, active, fresh, rlen, reported, cancelFlag>>
        /\ pc' \in {"decode", "failed"}
    BY <1>4 DEF EnsureBlocks, PrepareMetadata, EnsureFails, loopVars
  <2>2. cancelFlag \subseteq cancelFlag' /\ pc' # "done" /\ pc' \notin {"pack", "forward"}
    BY <2>1
  <2> QED BY <2>1, <2>2, EndFrame
<1>5. CASE AdmittedRowDrafts
  <2>1. /\ UNCHANGED <<pending, active, rlen, reported, cancelFlag>>
        /\ fresh \subseteq active /\ pc' \in {"sweep", "failed"}
    BY <1>5 DEF AdmittedRowDrafts, IInv, PhaseInv
  <2> QED BY <2>1 DEF EndInv
<1>6. CASE UNCHANGED vars
  BY <1>6 DEF EndInv, vars, loopVars
<1> QED
  BY <1>1, <1>2, <1>3, <1>4, <1>5, <1>6, EndPackChunk, EndFirstTokens, EndCancelSweep,
     EndDecodeStep DEF Next, LoopStep, Terminated

\* Before the first row arrives nothing has ended.
LEMMA EndInit == ASSUME Init PROVE EndInv
<1>1. \A r \in Rows : ~(r < 1)
  BY PoolAssumption DEF Rows
<1> QED
  BY <1>1 DEF Init, EndInv

\* Rows end reported or cancelled, whatever the order of steps and cancellations.
THEOREM EndInvHolds == Spec => []EndInv
<1>1. Init => EndInv
  BY EndInit
<1>2. IInv /\ EndInv /\ [Next]_vars => EndInv'
  BY EndNext
<1> QED
  BY <1>1, <1>2, IInvHolds, PTL DEF Spec

\* A loop that ends has answered or cancelled every row, and its pool is whole:
\* _free_rollout_rows and the cancel sweep give back what admission took.
THEOREM DrainedHolds == Spec => []DrainedClean
<1>1. IInv /\ EndInv => DrainedClean
  <2> SUFFICES ASSUME IInv, EndInv, pc = "done"
               PROVE  /\ free = Blocks /\ freeSlots = Slots
                      /\ \A r \in Arrived : reported[r] # "none" \/ r \in cancelFlag
    BY DEF DrainedClean
  <2>1. /\ active = {} /\ fresh = {} /\ pending > Len(prompts) /\ pending \in Nat
        /\ Arrived = 1 .. Len(prompts) /\ Arrived \subseteq Rows /\ Len(prompts) \in Nat
        /\ PoolTypeOK /\ BlockOwnership /\ SlotOwnership
    BY PromptFacts DEF EndInv, IInv, PhaseInv, TypeOK
  <2>2. \A r \in Rows : ~Holds(r)
    <3>1. \A r \in Rows : Holds(r) => r <= Len(prompts) /\ r = pending
      BY <2>1 DEF IInv, PhaseInv
    <3> QED BY <3>1, <2>1
  <2>3. \A r \in Rows : Range(table[r]) = {}
    BY <2>1, <2>2, EmptySeq DEF SlotOwnership, Range
  <2>4. free = Blocks
    BY <2>1, <2>3 DEF BlockOwnership, PoolTypeOK
  <2>5. freeSlots = Slots
    <3>1. \A s \in Slots : \A r \in Rows : slot[r] # s
      BY <2>2, PoolAssumption DEF Holds
    <3>2. freeSlots \subseteq Slots /\ \A s \in Slots : s \in freeSlots
      BY <2>1, <3>1 DEF SlotOwnership, PoolTypeOK
    <3> QED BY <3>2
  <2>6. \A r \in Arrived : r \in Rows /\ r < pending
    <3> DEFINE n == Len(prompts)
    <3>1. n \in Nat /\ pending \in Nat /\ pending > n /\ Arrived = 1 .. n
      BY <2>1
    <3> HIDE DEF n
    <3> QED BY <3>1, <2>1
  <2>7. \A r \in Arrived : reported[r] # "none" \/ r \in cancelFlag
    BY <2>1, <2>6 DEF EndInv
  <2> QED BY <2>4, <2>5, <2>7
<1> QED
  BY <1>1, IInvHolds, EndInvHolds, PTL

-----------------------------------------------------------------------------
\* Every row's table reaches the tokens the cache holds for it.
Cached == [r \in Rows |-> CachedLen(r)]
CachedType == Cached \in [Rows -> Nat]
CachedReached == \A r \in Holders : Reaches(table[r], Cached[r])

\* KVIntact, said of that function.
CachedIntact ==
  \A r \in Holders : \A p \in 0 .. Cached[r] - 1 : kv[CellOf(table[r], p)] = <<r, p>>

\* At a decode step the tables reach every position the step writes.
SpanReached == pc = "decode" => \A r \in active : Reaches(table[r], clen[r] + StepSpan)

\* Only the pending row has a cursor, and then it holds its resources.
CursorInv == \A r \in Rows : cursor[r] # 0 => r = pending /\ Holds(r)

\* The mirror's countdown to the next block boundary is never late: the rows it
\* knows have room for as many tokens as it says.
BoundaryInv ==
  HostMetadata =>
    /\ meta.untilBlock >= 0 /\ (pc = "decode" => meta.untilBlock > 0)
    /\ ~meta.dirty => \A r \in active \cap meta.rows :
                        Reaches(table[r], clen[r] + meta.untilBlock)

MemInv == CachedReached /\ CachedIntact /\ SpanReached /\ CursorInv /\ BoundaryInv

\* A table that was only appended to.
Extended(old, new) ==
  Len(old) <= Len(new) /\ \A i \in 1 .. Len(old) : new[i] = old[i]

\* The owned blocks of a pool are pairwise different entries.
LEMMA OwnedDiffer == ASSUME BlockOwnership PROVE EntriesDiffer(table)
BY DEF BlockOwnership, EntriesDiffer

\* Nothing written leaves the cache as it is.
LEMMA NothingWritten == ASSUME PoolTypeOK PROVE Written({}) = kv
BY DEF Written, PoolTypeOK

\* Reaching is kept by growing, and by asking for less.
LEMMA ReachesMore ==
  ASSUME NEW old \in Seq(Blocks), NEW new \in Seq(Blocks), Len(old) <= Len(new),
         NEW n \in Int, NEW m \in Int, m <= n, Reaches(old, n)
  PROVE  Reaches(new, m)
<1>1. Len(old) \in Nat /\ Len(new) \in Nat /\ BlockSize \in Nat
  BY LenProperties, PoolAssumption
<1>2. Len(old) * BlockSize <= Len(new) * BlockSize
  BY <1>1, BlocksMonotone
<1>3. Len(old) * BlockSize \in Int /\ Len(new) * BlockSize \in Int
  BY <1>1
<1> QED
  BY <1>2, <1>3 DEF Reaches

\* A step writes through tables mid and then lets rows go.  The rows that stay
\* find every cached position: those from before lie below what the step
\* writes, the others were written by it.
LEMMA CacheStep ==
  ASSUME PoolTypeOK, CachedType, CachedType', CachedReached, CachedIntact,
         NEW mid \in [Rows -> Seq(Blocks)], EntriesDiffer(mid),
         NEW entry, NEW writes, kv' = Written(writes),
         WrittenFrom(mid, Cached, entry, writes),
         \A r \in Holders' :
           /\ table'[r] = mid[r]
           /\ Reaches(mid[r], Cached'[r])
           /\ \A p \in 0 .. Cached'[r] - 1 :
                \/ /\ r \in Holders /\ Extended(table[r], mid[r])
                   /\ p < Cached[r]
                \/ <<CellOf(mid[r], p), <<r, p>>>> \in writes
  PROVE  CachedReached' /\ CachedIntact'
<1>1. ASSUME NEW r \in Holders'
      PROVE  Reaches(table'[r], Cached'[r])
  BY <1>1
<1>2. ASSUME NEW r \in Holders', NEW p \in 0 .. Cached'[r] - 1
      PROVE  kv'[CellOf(table'[r], p)] = <<r, p>>
  <2>1. r \in Rows /\ p \in Nat /\ table'[r] = mid[r] /\ mid[r] \in Seq(Blocks)
    BY <1>2 DEF Holders, CachedType
  <2>2. Reaches(mid[r], p + 1)
    <3>1. Reaches(mid[r], Cached'[r]) /\ Cached'[r] \in Int
      BY <1>2, <2>1 DEF CachedType
    <3>2. p + 1 \in Int /\ p + 1 <= Cached'[r] /\ Len(mid[r]) <= Len(mid[r])
      BY <1>2, <2>1, <3>1, LenProperties
    <3> QED BY <2>1, <3>1, <3>2, ReachesMore
  <2>3. CASE /\ r \in Holders /\ Extended(table[r], mid[r])
             /\ p < Cached[r]
    <3>1. table[r] \in Seq(Blocks) /\ Len(table[r]) <= Len(table[r])
      BY <2>1, LenProperties DEF PoolTypeOK
    <3>2. Reaches(table[r], Cached[r])
      BY <2>3 DEF CachedReached
    <3>3. Reaches(table[r], p + 1)
      <4>1. Cached[r] \in Int /\ p + 1 \in Int /\ p + 1 <= Cached[r]
        BY <2>1, <2>3 DEF CachedType
      <4> QED BY <4>1, <3>1, <3>2, ReachesMore
    <3>4. CellOf(mid[r], p) = CellOf(table[r], p)
      BY <2>1, <2>3, <3>1, <3>3, CellStays DEF Extended
    <3>5. kv[CellOf(table[r], p)] = <<r, p>>
      <4>1. p \in 0 .. Cached[r] - 1
        BY <2>1, <2>3 DEF CachedType
      <4> QED BY <4>1, <2>3 DEF CachedIntact
    <3>6. Written(writes)[CellOf(mid[r], p)] = kv[CellOf(mid[r], p)]
      BY <2>1, <2>2, <2>3, WritesLeave
    <3> QED BY <2>1, <3>4, <3>5, <3>6
  <2>4. CASE <<CellOf(mid[r], p), <<r, p>>>> \in writes
    BY <2>1, <2>2, <2>4, WritesLand
  <2> QED BY <1>2, <2>3, <2>4
<1> QED
  BY <1>1, <1>2 DEF CachedReached, CachedIntact

\* A table that grew reaches what was cached before.
LEMMA StillReached ==
  ASSUME PoolTypeOK, CachedType, CachedReached,
         NEW r \in Holders, NEW tbl \in Seq(Blocks), Extended(table[r], tbl)
  PROVE  Reaches(tbl, Cached[r])
<1>1. r \in Rows /\ table[r] \in Seq(Blocks) /\ Reaches(table[r], Cached[r])
  BY DEF Holders, PoolTypeOK, CachedReached
<1>2. Cached[r] \in Int /\ Cached[r] <= Cached[r]
  BY <1>1 DEF CachedType
<1> QED
  BY <1>1, <1>2, ReachesMore DEF Extended

\* A table reaches its start.
LEMMA ReachesNothing == ASSUME NEW tbl \in Seq(Blocks) PROVE Reaches(tbl, 0)
<1>1. Len(tbl) * BlockSize \in Nat
  BY LenProperties, PoolAssumption
<1> QED
  BY <1>1 DEF Reaches

\* A step that writes nothing: the rows that stay keep their cached positions,
\* and a row that enters has none yet.
LEMMA CacheFrame ==
  ASSUME PoolTypeOK, CachedType, CachedType',
         CachedReached, CachedIntact, kv' = kv,
         table' \in [Rows -> Seq(Blocks)], BlockOwnership',
         \A r \in Holders' :
           \/ Cached'[r] = 0
           \/ r \in Holders /\ Extended(table[r], table'[r]) /\ Cached'[r] = Cached[r]
  PROVE  CachedReached' /\ CachedIntact'
<1>1. EntriesDiffer(table') /\ kv' = Written({}) /\ WrittenFrom(table', Cached, {}, {})
  BY NothingWritten DEF CachedType, BlockOwnership, EntriesDiffer, WrittenFrom
<1>2. ASSUME NEW r \in Holders'
      PROVE  /\ Reaches(table'[r], Cached'[r])
             /\ \A p \in 0 .. Cached'[r] - 1 :
                  /\ r \in Holders /\ Extended(table[r], table'[r])
                  /\ p < Cached[r]
  <2>1. r \in Rows /\ table'[r] \in Seq(Blocks)
    BY DEF Holders
  <2>2. CASE Cached'[r] = 0
    BY <2>1, <2>2, ReachesNothing
  <2>3. CASE r \in Holders /\ Extended(table[r], table'[r]) /\ Cached'[r] = Cached[r]
    <3>1. Reaches(table'[r], Cached[r])
      BY <2>1, <2>3, StillReached
    <3>2. \A p \in 0 .. Cached[r] - 1 : p < Cached[r]
      BY <2>1 DEF CachedType
    <3> QED BY <2>3, <3>1, <3>2
  <2> QED BY <1>2, <2>2, <2>3
<1> QED
  BY <1>1, <1>2, CacheStep

\* What the cache holds for a row is a number of tokens.
LEMMA CachedTyped == ASSUME IInv PROVE CachedType
<1>1. ASSUME NEW r \in Rows PROVE CachedLen(r) \in Nat
  <2>1. clen[r] \in Nat /\ cursor[r] \in Nat /\ (r \in fresh => prompts[r] \in Nat)
    BY LoopFacts DEF IInv, TypeOK
  <2> QED BY <2>1 DEF CachedLen
<1> QED
  BY <1>1 DEF CachedType, Cached

\* A table is an extension of itself, and Grow extends every table.
LEMMA SameExtended == ASSUME NEW tbl \in Seq(Blocks) PROVE Extended(tbl, tbl)
BY LenProperties DEF Extended

\* Grow extends every table.
LEMMA GrownExtended ==
  ASSUME PoolTypeOK, NEW need \in [Rows -> Nat], Grow(need), NEW r \in Rows
  PROVE  Extended(table[r], table'[r])
<1>1. /\ Len(table'[r]) = Len(table[r]) + need[r]
      /\ \A i \in 1 .. Len(table[r]) : table'[r][i] = table[r][i]
  BY GrowExtends
<1>2. Len(table[r]) \in Nat /\ need[r] \in Nat
  BY LenProperties DEF PoolTypeOK
<1> QED
  BY <1>1, <1>2 DEF Extended

\* What the proofs of the single steps use of IInv, before and after.
CacheFacts ==
  /\ PoolTypeOK /\ BlockOwnership /\ CachedType
  /\ table \in [Rows -> Seq(Blocks)]
  /\ \A r \in active \cup fresh : r \in Rows /\ r \in Holders /\ r # pending
  /\ \A r \in Holders : r \in Rows /\ (r \in active \cup fresh \/ r = pending)
  /\ \A r \in active : Cached[r] = clen[r] /\ clen[r] \in Nat /\ clen[r] > 0
  /\ \A r \in fresh \ active : Cached[r] = prompts[r]
  /\ \A r \in Rows \ (active \cup fresh) : Cached[r] = cursor[r]

\* What the inductive invariant says of the cache, this step and the next.
LEMMA CacheFactsHold == IInv => CacheFacts
<1> SUFFICES ASSUME IInv PROVE CacheFacts
  OBVIOUS
<1>1. PoolTypeOK /\ BlockOwnership /\ CachedType /\ table \in [Rows -> Seq(Blocks)]
  BY CachedTyped DEF IInv, TypeOK, PoolTypeOK
<1>2. \A r \in active \cup fresh : r \in Rows /\ r \in Holders /\ r # pending
  <2>1. pending \in Nat
    BY PromptFacts DEF IInv
  <2> QED BY <2>1, LoopFacts
<1>3. \A r \in Holders : r \in Rows /\ (r \in active \cup fresh \/ r = pending)
  BY DEF IInv, PhaseInv, Holders
<1>5. ASSUME NEW r \in active PROVE Cached[r] = clen[r] /\ clen[r] \in Nat /\ clen[r] > 0
  <2>1. r \in Rows /\ prompts[r] \in Nat /\ prompts[r] > 0
    BY LoopFacts
  <2>2. rlen[r] \in Nat /\ 1 <= rlen[r] /\ clen[r] = prompts[r] + rlen[r] - 1
    BY <2>1 DEF IInv, LengthInv, TypeOK
  <2>3. clen[r] \in Nat /\ clen[r] > 0
    BY <2>1, <2>2
  <2> QED BY <2>1, <2>3 DEF Cached, CachedLen
<1>6. /\ \A r \in fresh \ active : Cached[r] = prompts[r]
      /\ \A r \in Rows \ (active \cup fresh) : Cached[r] = cursor[r]
  BY <1>2 DEF Cached, CachedLen
<1> QED
  BY <1>1, <1>2, <1>3, <1>5, <1>6 DEF CacheFacts

\* The same of the state a step leads to.
LEMMA CacheFactsNext == IInv' => CacheFacts'
BY CacheFactsHold, PTL

\* Room for a mirror's countdown is kept by rows whose tables grow.
LEMMA BoundaryFrame ==
  ASSUME IInv, CacheFacts, BoundaryInv, meta' = meta,
         active' \cap meta.rows \subseteq active,
         table' \in [Rows -> Seq(Blocks)],
         \A r \in active' \cap meta.rows :
           Extended(table[r], table'[r]) /\ clen'[r] = clen[r],
         pc' = "decode" => pc = "decode"
  PROVE  BoundaryInv'
<1> SUFFICES ASSUME HostMetadata PROVE BoundaryInv'
  BY DEF BoundaryInv
<1>1. /\ meta.untilBlock \in Int /\ meta.untilBlock >= 0
      /\ pc = "decode" => meta.untilBlock > 0
  BY DEF BoundaryInv, IInv, TypeOK
<1>2. ASSUME ~meta.dirty, NEW r \in active' \cap meta.rows
      PROVE  Reaches(table'[r], clen'[r] + meta.untilBlock)
  <2>1. /\ r \in active /\ r \in Rows /\ clen[r] \in Nat
        /\ table[r] \in Seq(Blocks) /\ table'[r] \in Seq(Blocks)
    BY <1>2 DEF CacheFacts
  <2>2. Reaches(table[r], clen[r] + meta.untilBlock)
    BY <1>2, <2>1 DEF BoundaryInv
  <2>3. clen[r] + meta.untilBlock \in Int /\ clen[r] + meta.untilBlock <= clen[r] + meta.untilBlock
    BY <1>1, <2>1
  <2>4. Len(table[r]) <= Len(table'[r]) /\ clen'[r] = clen[r]
    BY <1>2 DEF Extended
  <2>5. Reaches(table'[r], clen[r] + meta.untilBlock)
    BY <2>1, <2>2, <2>3, <2>4, ReachesMore
  <2> QED BY <2>4, <2>5
<1> QED
  BY <1>1, <1>2 DEF BoundaryInv

\* Steps that leave rows, tables, lengths and the cache alone.
LEMMA MemStill ==
  ASSUME IInv, MemInv, IInv',
         UNCHANGED <<table, slot, kv, active, fresh, clen, cursor, pending, meta>>,
         \A r \in fresh : prompts'[r] = prompts[r], pc' = "decode" => pc = "decode"
  PROVE  MemInv'
<1>1. CacheFacts /\ CacheFacts'
  BY CacheFactsHold, CacheFactsNext
<1>2. \A r \in Rows : Cached'[r] = Cached[r]
  BY DEF Cached, CachedLen
<1>3. Holders' = Holders /\ \A r \in Holders : r \in Rows
  BY DEF Holders, Holds
<1>4. \A r \in Rows : Extended(table[r], table'[r]) /\ table[r] \in Seq(Blocks)
  BY <1>1, SameExtended DEF CacheFacts
<1>5. CachedReached' /\ CachedIntact'
  BY <1>1, <1>2, <1>3, <1>4, CacheFrame DEF CacheFacts, MemInv
<1>6. BoundaryInv'
  <2>1. \A r \in active : r \in Rows
    BY <1>1 DEF CacheFacts
  <2>2. table' \in [Rows -> Seq(Blocks)]
    BY <1>1 DEF CacheFacts
  <2> QED BY <2>1, <2>2, <1>1, <1>4, BoundaryFrame DEF MemInv
<1>7. SpanReached' /\ CursorInv'
  BY DEF MemInv, SpanReached, CursorInv, Holds
<1> QED
  BY <1>5, <1>6, <1>7 DEF MemInv

\* Rows leave the batch; the others keep tables and lengths.
LEMMA MemRelease ==
  ASSUME IInv, MemInv, IInv', NEW gone \in SUBSET (active \cup fresh), Release(gone),
         UNCHANGED <<kv, cursor, pending>>, pc' # "decode",
         active' \cup fresh' = (active \cup fresh) \ gone,
         \A r \in Rows : r \notin gone => Cached'[r] = Cached[r],
         BoundaryInv'
  PROVE  MemInv'
<1>1. CacheFacts /\ CacheFacts'
  BY CacheFactsHold, CacheFactsNext
<1>2. \A r \in Rows : /\ r \in gone => slot'[r] = NoSlot
                      /\ r \notin gone => slot'[r] = slot[r] /\ table'[r] = table[r]
  BY DEF Release
<1>3. \A r \in Holders' : r \in Holders /\ r \in Rows /\ r \notin gone
  BY <1>2 DEF Holders, Holds
<1>4. \A r \in Holders' : /\ r \in Holders /\ Extended(table[r], table'[r])
                          /\ Cached'[r] = Cached[r]
  BY <1>1, <1>2, <1>3, SameExtended DEF CacheFacts
<1>5. CachedReached' /\ CachedIntact'
  BY <1>1, <1>4, CacheFrame DEF CacheFacts, MemInv
<1>6. CursorInv'
  <2>1. pending \notin gone
    BY <1>1 DEF CacheFacts
  <2> QED BY <1>2, <2>1 DEF MemInv, CursorInv, Holds
<1>7. SpanReached'
  BY DEF SpanReached
<1> QED
  BY <1>5, <1>6, <1>7 DEF MemInv

\* A starved row gets the blocks that are left and writes nothing.
LEMMA MemPackStarved == ASSUME IInv, MemInv, IInv', PackStarved PROVE MemInv'
<1> DEFINE rest == [r \in Rows |-> IF r = pending THEN Cardinality(free) ELSE 0]
<1>0. /\ CacheFacts /\ CacheFacts' /\ BlockOwnership /\ SlotOwnership /\ TypeOK
      /\ pc = "pack" /\ pc' = "forward" /\ Packable /\ Grow(rest) /\ TakeSlot(pending)
      /\ UNCHANGED <<kv, loopVars, meta>>
  BY CacheFactsHold, CacheFactsNext DEF PackStarved, IInv
<1>1. pending \in Rows
  BY <1>0, PackNeedType
<1>2. rest \in [Rows -> Nat] /\ \A r \in Rows \ {pending} : rest[r] = 0
  BY <1>0, FS_Subset, FS_CardinalityType, PoolAssumption DEF CacheFacts, PoolTypeOK
<1> HIDE DEF rest
<1>3. /\ \A r \in Rows \ {pending} : slot'[r] = slot[r]
      /\ \A r \in Rows : Extended(table[r], table'[r])
      /\ slot'[pending] # NoSlot
  BY <1>0, <1>1, <1>2, AdmitKeepsOwnership, GrownExtended DEF CacheFacts
<1>4. \A r \in Rows : Cached'[r] = Cached[r]
  BY <1>0 DEF Cached, CachedLen, loopVars
<1>5. ASSUME NEW r \in Holders'
      PROVE  \/ Cached'[r] = 0
             \/ r \in Holders /\ Extended(table[r], table'[r]) /\ Cached'[r] = Cached[r]
  <2>1. r \in Rows /\ slot'[r] # NoSlot
    BY <1>5 DEF Holders, Holds
  <2>2. CASE r \in Holders
    BY <2>1, <2>2, <1>3, <1>4
  <2>3. CASE r \notin Holders
    <3>1. r = pending /\ ~Holds(r)
      BY <2>1, <2>3, <1>3 DEF Holders, Holds
    <3>2. cursor[r] = 0 /\ r \notin active \cup fresh
      BY <3>1, <2>1, <2>3, <1>0 DEF MemInv, CursorInv, CacheFacts
    <3> QED BY <3>2, <2>1, <1>0, <1>4 DEF CacheFacts
  <2> QED BY <2>2, <2>3
<1>6. CachedReached' /\ CachedIntact'
  BY <1>0, <1>5, CacheFrame DEF CacheFacts, MemInv
<1>7. BoundaryInv'
  <2>1. \A r \in active : r \in Rows
    BY <1>0 DEF CacheFacts
  <2>2. /\ active' = active /\ clen' = clen /\ meta' = meta /\ pc' # "decode"
        /\ table' \in [Rows -> Seq(Blocks)]
    BY <1>0 DEF loopVars, CacheFacts
  <2> QED BY <2>1, <2>2, <1>0, <1>3, BoundaryFrame DEF MemInv
<1>8. SpanReached' /\ CursorInv'
  BY <1>0, <1>3 DEF MemInv, SpanReached, CursorInv, Holds, loopVars
<1> QED
  BY <1>6, <1>7, <1>8 DEF MemInv

\* A packed chunk writes the next positions of the pending row, into blocks the
\* row has just been given where it lacked them.
LEMMA MemPackChunk == ASSUME IInv, MemInv, IInv', PackChunk PROVE MemInv'
<1> DEFINE upto == cursor[pending] + Chunk
           writes == {<<CellOf(table'[pending], p), <<pending, p>>>> :
                        p \in cursor[pending] .. cursor[pending] + Chunk - 1}
           entry == [x \in Rows \X Nat |-> x]
<1>0. /\ CacheFacts /\ CacheFacts' /\ BlockOwnership /\ SlotOwnership /\ TypeOK
      /\ pc = "pack" /\ pc' # "decode" /\ Packable /\ Grow(PackNeed) /\ TakeSlot(pending)
      /\ kv' = Written(writes)
      /\ UNCHANGED <<prompts, active, clen, meta>>
  BY CacheFactsHold, CacheFactsNext DEF PackChunk, IInv
<1>1. /\ pending \in Rows /\ cursor[pending] \in Nat /\ Chunk \in Nat /\ Chunk > 0
      /\ upto <= prompts[pending] /\ prompts[pending] \in Nat
      /\ PackNeed \in [Rows -> Nat] /\ \A r \in Rows \ {pending} : PackNeed[r] = 0
  BY <1>0, PackNeedType
<1>2. /\ \A r \in Rows \ {pending} : slot'[r] = slot[r]
      /\ \A r \in Rows : Extended(table[r], table'[r])
      /\ slot'[pending] # NoSlot
      /\ Len(table'[pending]) = Len(table[pending]) + PackNeed[pending]
  BY <1>0, <1>1, AdmitKeepsOwnership, GrownExtended, GrowExtends DEF CacheFacts
<1>3. upto \in Nat /\ Reaches(table'[pending], upto)
  <2>1. upto \in Nat
    BY <1>1
  <2>2. PackNeed[pending] = Missing(pending, upto)
    BY <1>1 DEF PackNeed
  <2> HIDE DEF upto
  <2>3. CeilDiv(upto, BlockSize) \in Int
    BY <2>1, PoolAssumption DEF CeilDiv
  <2>4. Len(table[pending]) \in Nat /\ Len(table'[pending]) \in Nat
    BY <1>0, <1>1, LenProperties DEF CacheFacts
  <2>5. Len(table'[pending]) >= CeilDiv(upto, BlockSize)
    BY <2>2, <2>3, <2>4, <1>2 DEF Missing, LargerOf
  <2> QED BY <2>1, <2>4, <2>5, MissingReaches DEF Reaches
<1>4. /\ pending \notin active \cup fresh /\ Cached[pending] = cursor[pending]
      /\ Cached'[pending] = upto /\ upto - 1 \in Int
      /\ \A r \in Rows \ {pending} : Cached'[r] = Cached[r]
  <2>1. pending \notin active \cup fresh /\ Cached[pending] = cursor[pending]
    BY <1>0, <1>1 DEF CacheFacts
  <2>2. CASE /\ upto = prompts[pending] /\ fresh' = fresh \cup {pending}
             /\ cursor' = [cursor EXCEPT ![pending] = 0]
    BY <2>1, <2>2, <1>0, <1>1 DEF Cached, CachedLen
  <2>3. CASE /\ cursor' = [cursor EXCEPT ![pending] = @ + Chunk]
             /\ UNCHANGED <<fresh, pending>>
    <3>1. cursor'[pending] = upto /\ \A r \in Rows \ {pending} : cursor'[r] = cursor[r]
      BY <2>3, <1>0, <1>1 DEF TypeOK
    <3> HIDE DEF upto
    <3> QED BY <3>1, <2>1, <2>3, <1>0, <1>1 DEF Cached, CachedLen
  <2>4. upto - 1 \in Int
    BY <1>3
  <2> QED BY <2>1, <2>2, <2>3, <2>4 DEF PackChunk
<1>5. WrittenFrom(table', Cached, entry, writes)
  <2>1. ASSUME NEW p \in cursor[pending] .. cursor[pending] + Chunk - 1
        PROVE  /\ p \in Nat /\ Cached[pending] <= p /\ Reaches(table'[pending], p + 1)
               /\ entry[<<pending, p>>] = <<pending, p>>
    <3>1. p \in Nat /\ Cached[pending] <= p /\ p + 1 <= upto /\ p + 1 \in Int /\ upto \in Int
      BY <2>1, <1>1, <1>4
    <3>2. table'[pending] \in Seq(Blocks) /\ Len(table'[pending]) <= Len(table'[pending])
      BY <1>0, <1>1, LenProperties DEF CacheFacts
    <3> HIDE DEF upto
    <3>3. Reaches(table'[pending], p + 1)
      BY <1>3, <3>1, <3>2, ReachesMore
    <3> QED BY <3>1, <3>3, <1>1
  <2>2. Cached \in [Rows -> Nat]
    BY <1>0 DEF CacheFacts, CachedType
  <2> HIDE DEF entry
  <2> QED BY <2>1, <2>2, <1>1 DEF WrittenFrom
<1>6. ASSUME NEW r \in Holders'
      PROVE  /\ table'[r] = table'[r]
             /\ Reaches(table'[r], Cached'[r])
             /\ \A p \in 0 .. Cached'[r] - 1 :
                  \/ r \in Holders /\ Extended(table[r], table'[r]) /\ p < Cached[r]
                  \/ <<CellOf(table'[r], p), <<r, p>>>> \in writes
  <2>1. r \in Rows /\ slot'[r] # NoSlot
    BY <1>6 DEF Holders, Holds
  <2>2. CASE r = pending
    <3>1. SUFFICES ASSUME NEW p \in 0 .. upto - 1
                   PROVE  \/ r \in Holders /\ p < Cached[r]
                          \/ p \in cursor[pending] .. cursor[pending] + Chunk - 1
      BY <2>1, <2>2, <1>2, <1>3, <1>4
    <3>2. CASE p >= cursor[pending]
      BY <3>2, <1>1
    <3>3. CASE p < cursor[pending]
      <4>1. cursor[pending] # 0
        BY <3>3, <1>1
      <4> QED BY <4>1, <3>3, <2>2, <1>1, <1>4 DEF MemInv, CursorInv, Holders
    <3> QED BY <3>2, <3>3, <1>1
  <2>3. CASE r # pending
    <3>1. r \in Holders /\ Cached'[r] = Cached[r] /\ Extended(table[r], table'[r])
      BY <2>1, <2>3, <1>2, <1>4 DEF Holders, Holds
    <3>2. table'[r] \in Seq(Blocks) /\ Cached[r] \in Nat
      BY <2>1, <1>0 DEF CacheFacts, CachedType
    <3>3. Reaches(table'[r], Cached[r])
      BY <1>0, <3>1, <3>2, StillReached DEF CacheFacts, MemInv
    <3> QED BY <3>1, <3>2, <3>3
  <2> QED BY <2>2, <2>3
<1>7. CachedReached' /\ CachedIntact'
  <2> HIDE DEF writes, entry
  <2>1. EntriesDiffer(table')
    BY <1>0 DEF CacheFacts, BlockOwnership, EntriesDiffer
  <2> QED BY <2>1, <1>0, <1>5, <1>6, CacheStep DEF CacheFacts, MemInv
<1>8. BoundaryInv'
  <2>1. \A r \in active : r \in Rows
    BY <1>0 DEF CacheFacts
  <2>2. table' \in [Rows -> Seq(Blocks)]
    BY <1>0 DEF CacheFacts
  <2> QED BY <2>1, <2>2, <1>0, <1>2, BoundaryFrame DEF MemInv
<1>9. SpanReached'
  BY <1>0 DEF SpanReached
<1>10. CursorInv'
  <2>1. \A r \in Rows \ {pending} : cursor[r] = 0
    BY DEF MemInv, CursorInv
  <2>2. \/ cursor' = [cursor EXCEPT ![pending] = 0]
        \/ pending' = pending /\ cursor' = [cursor EXCEPT ![pending] = @ + Chunk]
    BY DEF PackChunk
  <2>3. \A r \in Rows \ {pending} : cursor'[r] = 0
    BY <2>1, <2>2, <1>0, <1>1 DEF TypeOK
  <2>4. cursor'[pending] = 0 \/ pending' = pending
    BY <2>2, <1>0, <1>1 DEF TypeOK
  <2> QED BY <2>3, <2>4, <1>2 DEF CursorInv, Holds
<1> QED
  BY <1>7, <1>8, <1>9, <1>10 DEF MemInv

\* The mirror's countdown after sync_rows: what it was, or a distance to the end
\* of an allocated block, to be computed again before the step.
LEMMA SyncedBoundary ==
  ASSUME IInv, HostMetadata
  PROVE  \/ Synced(meta, active) = meta /\ meta.rows = active
         \/ Synced(meta, active).dirty /\ Synced(meta, active).untilBlock >= 0
<1> DEFINE len == [r \in Rows |-> IF r \notin active THEN 0
                                  ELSE IF r \in meta.rows THEN meta.len[r]
                                  ELSE prompts[r]]
           ub == IF active = {} THEN 0 ELSE
              LeastOf({(CeilDiv(len[r], BlockSize) * BlockSize) - len[r] : r \in active})
<1>1. CASE meta.rows = active
  BY <1>1 DEF Synced
<1>2. CASE meta.rows # active
  <2>1. Synced(meta, active).dirty /\ Synced(meta, active).untilBlock = ub
    BY <1>2 DEF Synced
  <2>2. active \subseteq Rows /\ \A r \in active : prompts[r] \in Nat
    BY LoopFacts
  <2>3. len \in [Rows -> Nat]
    BY <2>2 DEF IInv, TypeOK
  <2> HIDE DEF len
  <2>4. CASE active # {}
    <3> DEFINE f == [r \in active |-> (CeilDiv(len[r], BlockSize) * BlockSize) - len[r]]
    <3>1. f \in [active -> Int]
      BY <2>2, <2>3, PoolAssumption DEF CeilDiv
    <3>2. ASSUME NEW r \in active PROVE f[r] >= 0
      <4>1. len[r] \in Nat /\ BlockSize \in Nat \ {0}
        BY <2>2, <2>3, PoolAssumption
      <4>2. CeilDiv(len[r], BlockSize) \in Nat
        <5> DEFINE n == len[r]
        <5>1. n \in Nat
          BY <4>1
        <5> HIDE DEF n
        <5>2. (n + BlockSize - 1) \div BlockSize \in Nat
          BY <4>1, <5>1
        <5> QED BY <5>2 DEF CeilDiv, n
      <4>3. CeilDiv(len[r], BlockSize) >= CeilDiv(len[r], BlockSize)
        BY <4>2
      <4>4. len[r] <= CeilDiv(len[r], BlockSize) * BlockSize
        BY <4>1, <4>2, <4>3, MissingReaches
      <4>5. CeilDiv(len[r], BlockSize) * BlockSize \in Int
        BY <4>1, <4>2
      <4> QED BY <4>1, <4>4, <4>5
    <3>3. {f[r] : r \in active} =
              {(CeilDiv(len[r], BlockSize) * BlockSize) - len[r] : r \in active}
      OBVIOUS
    <3>4. \E r \in active : LeastOf({f[q] : q \in active}) = f[r]
      <4> HIDE DEF f
      <4> QED BY <3>1, <2>2, <2>4, LeastOfImage
    <3> HIDE DEF f
    <3>5. ub = LeastOf({f[r] : r \in active})
      BY <3>3, <2>4
    <3> QED BY <3>2, <3>4, <3>5, <2>1
  <2>5. CASE active = {}
    BY <2>1, <2>5
  <2> QED BY <2>4, <2>5
<1> QED
  BY <1>1, <1>2

\* A prompt that completed is at its length already when its first token comes.
LEMMA MemFirstTokens == ASSUME IInv, MemInv, IInv', FirstTokens PROVE MemInv'
<1>0. /\ CacheFacts /\ active \cap fresh = {} /\ pc = "forward" /\ TypeOK /\ MetaInv
      /\ UNCHANGED <<prompts, pending, cursor, meta, kv>>
  BY CacheFactsHold DEF FirstTokens, IInv, PhaseInv
<1>1. PICK stopped \in SUBSET fresh :
        LET full == {r \in fresh : MaxNew <= 1}
            gone == stopped \cup full
        IN /\ clen' = [r \in Rows |-> IF r \in fresh \ gone THEN prompts[r] ELSE clen[r]]
           /\ active' = active \cup (fresh \ gone)
           /\ fresh' = fresh \ gone
           /\ Release(gone)
           /\ pc' = IF SpecK > 0 /\ fresh # gone THEN "draft" ELSE "sweep"
  BY DEF FirstTokens
<1> DEFINE gone == stopped \cup {r \in fresh : MaxNew <= 1}
<1>2. /\ clen' = [r \in Rows |-> IF r \in fresh \ gone THEN prompts[r] ELSE clen[r]]
      /\ active' = active \cup (fresh \ gone) /\ fresh' = fresh \ gone
      /\ Release(gone) /\ pc' # "decode" /\ gone \subseteq fresh
  BY <1>1
<1> HIDE DEF gone
<1>3. \A r \in Rows : r \notin gone => Cached'[r] = Cached[r]
  BY <1>0, <1>2 DEF Cached, CachedLen
<1>4. active' \cup fresh' = (active \cup fresh) \ gone /\ gone \in SUBSET (active \cup fresh)
  BY <1>0, <1>2
<1>5. BoundaryInv'
  <2>1. CASE HostMetadata
    <3>1. active' \cap meta.rows \subseteq active
      BY <2>1, <1>0, <1>2 DEF MetaInv
    <3>2. \A r \in active : r \in Rows /\ r \notin gone
      BY <1>0, <1>2 DEF CacheFacts
    <3>3. table' \in [Rows -> Seq(Blocks)]
      BY DEF IInv, TypeOK, PoolTypeOK
    <3>4. \A r \in active : Extended(table[r], table'[r]) /\ clen'[r] = clen[r]
      BY <3>2, <1>0, <1>2, SameExtended DEF Release, CacheFacts
    <3> QED BY <3>1, <3>3, <3>4, <1>0, <1>2, BoundaryFrame DEF MemInv
  <2>2. CASE ~HostMetadata
    BY <2>2 DEF BoundaryInv
  <2> QED BY <2>1, <2>2
<1> QED
  BY <1>0, <1>2, <1>3, <1>4, <1>5, MemRelease

\* Cancelled rows leave; the mirror is told which rows there were.
LEMMA MemCancelSweep == ASSUME IInv, MemInv, IInv', CancelSweep PROVE MemInv'
<1> DEFINE gone == active \cap cancelFlag
<1>0. /\ CacheFacts /\ fresh \subseteq active
      /\ UNCHANGED <<prompts, pending, cursor, kv>> /\ fresh' = {}
      /\ active' = active \ gone /\ Release(gone)
      /\ clen' = [r \in Rows |-> IF r \in gone THEN 0 ELSE clen[r]]
      /\ meta' = Synced(meta, active) /\ pc' # "decode"
  BY CacheFactsHold DEF CancelSweep, Compact, AfterSweep, IInv, PhaseInv
<1>1. gone \subseteq active
  OBVIOUS
<1> HIDE DEF gone
<1>2. \A r \in Rows : r \notin gone => Cached'[r] = Cached[r]
  BY <1>0, <1>1 DEF Cached, CachedLen
<1>3. active' \cup fresh' = (active \cup fresh) \ gone /\ gone \in SUBSET (active \cup fresh)
  BY <1>0, <1>1
<1>4. BoundaryInv'
  <2>1. CASE HostMetadata /\ meta' = meta
    <3>1. active' \cap meta.rows \subseteq active
      BY <1>0
    <3>2. \A r \in active' : r \in Rows /\ r \notin gone
      BY <1>0, <1>1 DEF CacheFacts
    <3>3. table' \in [Rows -> Seq(Blocks)]
      BY DEF IInv, TypeOK, PoolTypeOK
    <3>4. \A r \in active' : Extended(table[r], table'[r]) /\ clen'[r] = clen[r]
      BY <3>2, <1>0, SameExtended DEF Release, CacheFacts
    <3> QED BY <2>1, <3>1, <3>3, <3>4, <1>0, BoundaryFrame DEF MemInv
  <2>2. CASE HostMetadata /\ meta'.dirty /\ meta'.untilBlock >= 0
    BY <2>2, <1>0 DEF BoundaryInv
  <2>3. CASE ~HostMetadata
    BY <2>3 DEF BoundaryInv
  <2> QED BY <2>1, <2>2, <2>3, <1>0, SyncedBoundary
<1> QED
  BY <1>0, <1>2, <1>3, <1>4, MemRelease

\* Drafts go to positions after the cached ones, in blocks just made sure of.
LEMMA MemDrafts == ASSUME IInv, MemInv, IInv', AdmittedRowDrafts PROVE MemInv'
<1> DEFINE writes == UNION {
             {<<CellOf(table'[r], p), Junk>> : p \in clen[r] .. clen[r] + SpecK - 2} :
               r \in fresh}
           entry == [x \in Rows \X Nat |-> Junk]
<1>0. /\ CacheFacts /\ CacheFacts' /\ fresh \subseteq active /\ SpecK \in Nat /\ SpecK > 0
      /\ ~HostMetadata /\ pc = "draft" /\ TypeOK
      /\ UNCHANGED <<prompts, pending, cursor, active, clen, meta>>
  BY CacheFactsHold, CacheFactsNext, SchedulerAssumption
     DEF AdmittedRowDrafts, IInv, PhaseInv
<1>1. CASE pc' = "failed" /\ UNCHANGED <<kvVars, fresh>>
  BY <1>0, <1>1, MemStill DEF kvVars
<1>2. CASE /\ Grow(DraftNeed) /\ kv' = Written(writes) /\ fresh' = {} /\ pc' = "sweep"
           /\ UNCHANGED <<slot, freeSlots>>
  <2>1. DraftSpan \in Nat \ {0} /\ SpecK - 1 <= DraftSpan
    BY <1>0 DEF DraftSpan, LargerOf
  <2>2. DraftNeed \in [Rows -> Nat]
    BY <1>0, <2>1, DecodeNeedType DEF DraftNeed, TypeOK
  <2>3. \A r \in Rows : /\ Extended(table[r], table'[r])
                        /\ Len(table'[r]) = Len(table[r]) + DraftNeed[r]
    BY <1>0, <1>2, <2>2, GrownExtended, GrowExtends DEF CacheFacts
  <2>4. \A r \in Rows : Cached'[r] = Cached[r]
    BY <1>0, <1>2 DEF Cached, CachedLen
  <2>5. Holders' = Holders /\ \A r \in Holders : r \in Rows
    BY <1>2 DEF Holders, Holds
  <2>6. ASSUME NEW r \in fresh, NEW p \in clen[r] .. clen[r] + SpecK - 2
        PROVE  /\ r \in Rows /\ p \in Nat /\ Cached[r] <= p /\ Reaches(table'[r], p + 1)
               /\ entry[<<r, p>>] = Junk
    <3>1. /\ r \in Rows /\ r \in Holders /\ clen[r] \in Nat \ {0} /\ Cached[r] = clen[r]
          /\ table[r] \in Seq(Blocks) /\ table'[r] \in Seq(Blocks)
      BY <1>0 DEF CacheFacts
    <3>2. Reaches(table[r], clen[r])
      BY <3>1 DEF MemInv, CachedReached
    <3>3. Len(table'[r]) = Len(table[r]) + DecodeNeed(r, clen[r], DraftSpan)
      BY <2>3, <3>1 DEF DraftNeed
    <3>4. Len(table'[r]) \in Nat /\ Len(table'[r]) <= Len(table'[r])
      BY <3>1, LenProperties
    <3>5. Reaches(table'[r], clen[r] + DraftSpan)
      BY <2>1, <3>1, <3>2, <3>3, <3>4, DecodeNeedReaches DEF Reaches
    <3>6. /\ p \in Nat /\ Cached[r] <= p /\ p + 1 \in Int /\ clen[r] + DraftSpan \in Int
          /\ p + 1 <= clen[r] + DraftSpan
      BY <1>0, <2>1, <2>6, <3>1
    <3>7. Reaches(table'[r], p + 1)
      BY <3>1, <3>4, <3>5, <3>6, ReachesMore
    <3> QED BY <3>1, <3>6, <3>7
  <2>7. WrittenFrom(table', Cached, entry, writes)
    <3>1. Cached \in [Rows -> Nat]
      BY <1>0 DEF CacheFacts, CachedType
    <3>2. ASSUME NEW w \in writes
          PROVE  \E r \in Rows, p \in Nat :
                   /\ Cached[r] <= p /\ Reaches(table'[r], p + 1)
                   /\ w = <<CellOf(table'[r], p), entry[<<r, p>>]>>
      <4>1. PICK r \in fresh : \E p \in clen[r] .. clen[r] + SpecK - 2 :
              w = <<CellOf(table'[r], p), Junk>>
        OBVIOUS
      <4> HIDE DEF entry
      <4> QED BY <4>1, <2>6
    <3> HIDE DEF entry, writes
    <3> QED BY <3>1, <3>2 DEF WrittenFrom
  <2> HIDE DEF writes, entry
  <2>8. ASSUME NEW r \in Holders'
        PROVE  /\ table'[r] = table'[r]
               /\ Reaches(table'[r], Cached'[r])
               /\ \A p \in 0 .. Cached'[r] - 1 :
                    \/ r \in Holders /\ Extended(table[r], table'[r]) /\ p < Cached[r]
                    \/ <<CellOf(table'[r], p), <<r, p>>>> \in writes
    <3>1. r \in Rows /\ r \in Holders /\ table'[r] \in Seq(Blocks) /\ Cached[r] \in Nat
      BY <1>0, <2>5 DEF CacheFacts, CachedType
    <3>2. Reaches(table'[r], Cached[r])
      BY <1>0, <2>3, <3>1, StillReached DEF CacheFacts, MemInv
    <3> QED BY <2>3, <2>4, <3>1, <3>2
  <2>9. CachedReached' /\ CachedIntact'
    <3>1. EntriesDiffer(table')
      BY <1>0 DEF CacheFacts, BlockOwnership, EntriesDiffer
    <3> QED BY <3>1, <1>0, <1>2, <2>7, <2>8, CacheStep DEF CacheFacts, MemInv
  <2>10. BoundaryInv' /\ SpanReached' /\ CursorInv'
    BY <1>0, <1>2 DEF MemInv, BoundaryInv, SpanReached, CursorInv, Holds
  <2> QED BY <2>9, <2>10 DEF MemInv
<1> QED
  BY <1>1, <1>2 DEF AdmittedRowDrafts

\* Blocks are made sure of for every position the next step writes, though
\* only positions that start a block are looked at.
LEMMA EnsureReaches ==
  ASSUME IInv, CacheFacts, CachedReached, NEW len \in [Rows -> Nat],
         \A r \in active : len[r] = clen[r], Grow(EnsureNeed(len))
  PROVE  /\ \A r \in Rows : Extended(table[r], table'[r])
         /\ table' \in [Rows -> Seq(Blocks)]
         /\ \A r \in active : Reaches(table'[r], clen[r] + StepSpan)
<1>1. StepSpan \in Nat \ {0}
  BY SchedulerAssumption DEF StepSpan
<1>2. EnsureNeed(len) \in [Rows -> Nat]
  BY EnsureNeedType
<1>3. /\ \A r \in Rows : /\ Extended(table[r], table'[r])
                         /\ Len(table'[r]) = Len(table[r]) + EnsureNeed(len)[r]
      /\ table' \in [Rows -> Seq(Blocks)]
  BY <1>2, GrownExtended, GrowExtends DEF CacheFacts
<1>4. ASSUME NEW r \in active
      PROVE  Reaches(table'[r], clen[r] + StepSpan)
  <2>1. /\ r \in Rows /\ r \in Holders /\ clen[r] \in Nat \ {0} /\ Cached[r] = clen[r]
        /\ table[r] \in Seq(Blocks) /\ table'[r] \in Seq(Blocks)
    BY <1>3 DEF CacheFacts
  <2>2. Reaches(table[r], clen[r])
    BY <2>1 DEF CachedReached
  <2>3. Len(table'[r]) = Len(table[r]) + DecodeNeed(r, clen[r], StepSpan)
    BY <1>3, <2>1 DEF EnsureNeed
  <2>4. Len(table'[r]) \in Nat
    BY <2>1, LenProperties
  <2> QED BY <1>1, <2>1, <2>2, <2>3, <2>4, DecodeNeedReaches DEF Reaches
<1> QED
  BY <1>3, <1>4

\* Growth before a step leaves every cached position where it is.
LEMMA MemGrown ==
  ASSUME IInv, MemInv, IInv', UNCHANGED <<kv, slot, loopVars>>,
         \A r \in Rows : Extended(table[r], table'[r])
  PROVE  CachedReached' /\ CachedIntact' /\ CursorInv'
<1>1. CacheFacts /\ CacheFacts'
  BY CacheFactsHold, CacheFactsNext
<1>2. \A r \in Rows : Cached'[r] = Cached[r]
  BY DEF Cached, CachedLen, loopVars
<1>3. Holders' = Holders /\ \A r \in Holders : r \in Rows
  BY DEF Holders, Holds
<1>4. CachedReached' /\ CachedIntact'
  BY <1>1, <1>2, <1>3, CacheFrame DEF CacheFacts, MemInv
<1> QED
  BY <1>4 DEF MemInv, CursorInv, Holds, loopVars

\* EnsureBlocks grows every active row's table over the positions of the step.
LEMMA MemEnsureBlocks == ASSUME IInv, MemInv, IInv', EnsureBlocks PROVE MemInv'
<1>1. /\ CacheFacts /\ clen \in [Rows -> Nat] /\ Grow(EnsureNeed(clen)) /\ ~HostMetadata
      /\ UNCHANGED <<kv, slot, loopVars>>
  BY CacheFactsHold DEF EnsureBlocks, IInv, TypeOK
<1>2. /\ \A r \in Rows : Extended(table[r], table'[r])
      /\ \A r \in active : Reaches(table'[r], clen[r] + StepSpan)
  BY <1>1, EnsureReaches DEF MemInv
<1>3. CachedReached' /\ CachedIntact' /\ CursorInv'
  BY <1>1, <1>2, MemGrown
<1>4. SpanReached' /\ BoundaryInv'
  BY <1>1, <1>2 DEF SpanReached, BoundaryInv, loopVars
<1> QED
  BY <1>3, <1>4 DEF MemInv

\* A table that reaches one position more reaches the end of that block.
LEMMA ReachesBlockEnd ==
  ASSUME NEW tbl \in Seq(Blocks), NEW n \in Nat, Reaches(tbl, n + 1)
  PROVE  Reaches(tbl, n + (BlockSize - (n % BlockSize)))
<1>1. BlockSize \in Nat \ {0} /\ Len(tbl) \in Nat /\ DOMAIN tbl = 1 .. Len(tbl)
  BY PoolAssumption, LenProperties
<1> DEFINE d == n \div BlockSize
           m == n % BlockSize
<1>2. d \in Int /\ m \in 0 .. BlockSize - 1 /\ n = (d * BlockSize) + m
  BY <1>1, DivMod
<1>3. d + 1 \in 1 .. Len(tbl)
  BY <1>1, CellInTable
<1> HIDE DEF d
<1>4. (d + 1) * BlockSize <= Len(tbl) * BlockSize
  <2>1. d + 1 \in Int /\ d + 1 <= Len(tbl)
    BY <1>1, <1>2, <1>3
  <2> QED BY <2>1, <1>1, BlocksMonotone
<1>5. (d + 1) * BlockSize = (d * BlockSize) + BlockSize
  BY <1>1, <1>2
<1>6. n + (BlockSize - m) = (d * BlockSize) + BlockSize
  <2> HIDE DEF m
  <2>1. d * BlockSize \in Int
    BY <1>1, <1>2
  <2> QED BY <2>1, <1>1, <1>2
<1> QED
  BY <1>4, <1>5, <1>6 DEF Reaches, m

\* The host mirror either makes sure of blocks and counts down to the next
\* boundary from there, or its countdown says there is room for this step.
LEMMA MemPrepareMetadata == ASSUME IInv, MemInv, IInv', PrepareMetadata PROVE MemInv'
<1> DEFINE m == Synced(meta, active)
           boundary == LeastOf({BlockSize - (m.len[r] % BlockSize) : r \in m.rows})
<1>0. /\ CacheFacts /\ CacheFacts' /\ HostMetadata /\ active # {} /\ active \subseteq Rows
      /\ UNCHANGED <<kv, slot, loopVars>> /\ StepSpan = 1
  BY CacheFactsHold, CacheFactsNext, SchedulerAssumption, LoopFacts
     DEF PrepareMetadata, IInv, PhaseInv, StepSpan
<1>1. /\ m \in MetaTypes /\ m.rows = active /\ \A r \in active : m.len[r] = clen[r]
  BY <1>0, SyncedFacts
<1>2. CASE /\ Grow(EnsureNeed(m.len))
           /\ meta' = [m EXCEPT !.dirty = FALSE, !.untilBlock = boundary]
  <2>1. m.len \in [Rows -> Nat]
    BY <1>1 DEF MetaTypes
  <2>2. /\ \A r \in Rows : Extended(table[r], table'[r])
        /\ \A r \in active : Reaches(table'[r], clen[r] + 1)
        /\ table' \in [Rows -> Seq(Blocks)]
    <3> HIDE DEF m
    <3> QED BY <1>0, <1>1, <1>2, <2>1, EnsureReaches DEF MemInv
  <2>3. CachedReached' /\ CachedIntact' /\ CursorInv'
    BY <1>0, <2>2, MemGrown
  <2>4. /\ boundary \in Int /\ boundary > 0
        /\ \A r \in active : boundary <= BlockSize - (clen[r] % BlockSize)
    <3> DEFINE f == [r \in active |-> BlockSize - (clen[r] % BlockSize)]
    <3>1. f \in [active -> Int] /\ \A r \in active : f[r] > 0
      <4>1. BlockSize \in Nat \ {0} /\ \A r \in active : clen[r] \in Nat
        BY <1>0, PoolAssumption DEF CacheFacts
      <4>2. \A r \in active : clen[r] % BlockSize \in 0 .. BlockSize - 1
        BY <4>1
      <4> QED BY <4>1, <4>2
    <3>2. {f[r] : r \in active} = {BlockSize - (m.len[r] % BlockSize) : r \in m.rows}
      BY <1>1
    <3>3. \A r \in active : f[r] = BlockSize - (clen[r] % BlockSize)
      OBVIOUS
    <3> HIDE DEF f, m
    <3>4. /\ boundary = LeastOf({f[r] : r \in active})
          /\ boundary \in Int /\ \A r \in active : boundary <= f[r]
          /\ \E r \in active : boundary = f[r]
      BY <3>1, <3>2, <1>0, LeastOfImage
    <3> HIDE DEF boundary
    <3> QED BY <3>1, <3>3, <3>4
  <2>5. meta'.untilBlock = boundary
    BY <1>1, <1>2 DEF MetaTypes
  <2> HIDE DEF m, boundary
  <2>6. ASSUME NEW r \in active
        PROVE  Reaches(table'[r], clen[r] + boundary)
    <3>1. table'[r] \in Seq(Blocks) /\ clen[r] \in Nat /\ Reaches(table'[r], clen[r] + 1)
      BY <2>2, <1>0 DEF CacheFacts
    <3>2. Reaches(table'[r], clen[r] + (BlockSize - (clen[r] % BlockSize)))
      BY <3>1, ReachesBlockEnd
    <3> DEFINE end == clen[r] % BlockSize
    <3>3. end \in Int /\ boundary <= BlockSize - end /\ BlockSize \in Int
      BY <2>4, <3>1, PoolAssumption
    <3>4. Len(table'[r]) <= Len(table'[r])
      BY <3>1, LenProperties
    <3>5. Reaches(table'[r], clen[r] + (BlockSize - end))
      BY <3>2
    <3> HIDE DEF end
    <3>6. /\ clen[r] + boundary \in Int /\ clen[r] + (BlockSize - end) \in Int
          /\ clen[r] + boundary <= clen[r] + (BlockSize - end)
      BY <2>4, <3>1, <3>3
    <3> QED BY <3>1, <3>4, <3>5, <3>6, ReachesMore
  <2>7. BoundaryInv'
    BY <1>0, <2>4, <2>5, <2>6 DEF BoundaryInv, loopVars
  <2>8. SpanReached'
    BY <1>0, <2>2 DEF SpanReached, loopVars
  <2> QED BY <2>3, <2>7, <2>8 DEF MemInv
<1>3. CASE ~m.dirty /\ m.untilBlock # 0 /\ meta' = m /\ UNCHANGED <<free, table>>
  <2>1. m = meta /\ meta' = meta /\ meta.rows = active /\ ~meta.dirty
    BY <1>0, <1>1, <1>3, SyncedBoundary
  <2> HIDE DEF m
  <2>2. meta.untilBlock \in Int /\ meta.untilBlock > 0
    BY <1>0, <1>3, <2>1 DEF MemInv, BoundaryInv, IInv, TypeOK
  <2>3. \A r \in Rows : Extended(table[r], table'[r])
    BY <1>0, <1>3, SameExtended DEF CacheFacts
  <2>4. CachedReached' /\ CachedIntact' /\ CursorInv'
    BY <1>0, <2>3, MemGrown
  <2>5. \A r \in active : Reaches(table[r], clen[r] + meta.untilBlock)
    BY <1>0, <2>1 DEF MemInv, BoundaryInv
  <2>6. ASSUME NEW r \in active PROVE Reaches(table[r], clen[r] + 1)
    <3>1. table[r] \in Seq(Blocks) /\ clen[r] \in Nat
      BY <1>0 DEF CacheFacts
    <3>2. /\ clen[r] + meta.untilBlock \in Int /\ clen[r] + 1 \in Int
          /\ clen[r] + 1 <= clen[r] + meta.untilBlock /\ Len(table[r]) <= Len(table[r])
      BY <2>2, <3>1, LenProperties
    <3> QED BY <2>5, <3>1, <3>2, ReachesMore
  <2>7. BoundaryInv'
    BY <1>0, <1>3, <2>1, <2>2, <2>5 DEF BoundaryInv, loopVars
  <2>8. SpanReached'
    BY <1>0, <1>3, <2>6 DEF SpanReached, loopVars
  <2> QED BY <2>4, <2>7, <2>8 DEF MemInv
<1> QED
  BY <1>2, <1>3 DEF PrepareMetadata

\* A decode step writes the tokens it is fed and its drafts behind everything
\* that is cached, through tables that reach that far; the accepted ones are
\* what the rows that stay have cached from now on.
LEMMA MemDecodeStep == ASSUME IInv, MemInv, IInv', DecodeStep PROVE MemInv'
<1>0. /\ CacheFacts /\ CacheFacts' /\ pc = "decode" /\ pc' = "top" /\ SpecK \in Nat
      /\ fresh = {} /\ fresh' = {} /\ MetaInv
      /\ UNCHANGED <<prompts, pending, cursor>>
  BY CacheFactsHold, CacheFactsNext, SchedulerAssumption DEF DecodeStep, IInv, PhaseInv
<1>1. PICK out \in [active -> Outcomes], leave \in SUBSET active :
        /\ kv' = Written(StepWrites(out))
        /\ Release(leave) /\ active' = active \ leave
        /\ \A r \in active \ leave : clen'[r] = clen[r] + out[r][1] + 1
        /\ HostMetadata => /\ meta'.rows = active /\ meta'.dirty = meta.dirty
                           /\ meta'.untilBlock = meta.untilBlock - 1
  BY DecodeStepStep DEF DecodeEffect
<1> DEFINE acc(r) == out[r][1]
           entry == [x \in Rows \X Nat |->
                       IF x[2] <= clen[x[1]] + acc(x[1]) THEN x ELSE Junk]
           writes == StepWrites(out)
<1>2. ASSUME NEW r \in active
      PROVE  /\ r \in Rows /\ r \in Holders /\ clen[r] \in Nat /\ Cached[r] = clen[r]
             /\ acc(r) \in 0 .. SpecK /\ KernelTable(r) = table[r]
             /\ table[r] \in Seq(Blocks)
             /\ LastWrite(r, out[r]) \in Int
             /\ LastWrite(r, out[r]) + 1 <= clen[r] + StepSpan
             /\ clen[r] + acc(r) <= LastWrite(r, out[r])
             /\ StepSpan \in Nat
  <2>1. /\ r \in Rows /\ r \in Holders /\ clen[r] \in Nat
        /\ Cached[r] = clen[r] /\ table[r] \in Seq(Blocks)
    BY <1>0 DEF CacheFacts
  <2>2. out[r] \in (0 .. SpecK) \X (0 .. SpecK + 1)
    BY DEF Outcomes
  <2>3. acc(r) \in 0 .. SpecK
    BY <2>2
  <2>4. KernelTable(r) = table[r]
    BY <1>0 DEF KernelTable, MetaInv
  <2> DEFINE a == acc(r)
  <2>5. /\ LastWrite(r, out[r]) = clen[r] + LargerOf(SpecK, a + SpecK - 1)
        /\ a \in 0 .. SpecK
    BY <2>3 DEF LastWrite
  <2> HIDE DEF a
  <2>6. /\ LargerOf(SpecK, a + SpecK - 1) \in Nat /\ a <= LargerOf(SpecK, a + SpecK - 1)
        /\ LargerOf(SpecK, a + SpecK - 1) + 1 <= StepSpan /\ StepSpan \in Nat
    BY <1>0, <2>5 DEF LargerOf, StepSpan
  <2>7. /\ LastWrite(r, out[r]) \in Int /\ LastWrite(r, out[r]) + 1 <= clen[r] + StepSpan
        /\ clen[r] + a <= LastWrite(r, out[r])
    BY <2>1, <2>5, <2>6
  <2> QED BY <2>1, <2>3, <2>4, <2>6, <2>7 DEF a
<1>3. ASSUME NEW w \in writes
      PROVE  \E r \in Rows, p \in Nat :
               /\ Cached[r] <= p /\ Reaches(table[r], p + 1)
               /\ w = <<CellOf(table[r], p), entry[<<r, p>>]>>
  <2>1. PICK r \in active : \E p \in clen[r] .. LastWrite(r, out[r]) :
          w = <<CellOf(KernelTable(r), p),
                IF p <= clen[r] + acc(r) THEN <<r, p>> ELSE Junk>>
    BY DEF StepWrites
  <2>2. PICK p \in clen[r] .. LastWrite(r, out[r]) :
          w = <<CellOf(KernelTable(r), p),
                IF p <= clen[r] + acc(r) THEN <<r, p>> ELSE Junk>>
    BY <2>1
  <2>3. r \in Rows /\ p \in Nat /\ Cached[r] <= p /\ table[r] \in Seq(Blocks)
    BY <1>2, <2>2
  <2>4. entry[<<r, p>>] = IF p <= clen[r] + acc(r) THEN <<r, p>> ELSE Junk
    BY <2>3
  <2>5. /\ p + 1 \in Int /\ clen[r] + StepSpan \in Int /\ p + 1 <= clen[r] + StepSpan
        /\ Len(table[r]) <= Len(table[r])
    BY <1>2, <2>2, <2>3, LenProperties
  <2>6. Reaches(table[r], clen[r] + StepSpan)
    BY <1>0 DEF MemInv, SpanReached
  <2>7. Reaches(table[r], p + 1)
    BY <2>3, <2>5, <2>6, ReachesMore
  <2>8. w = <<CellOf(table[r], p), entry[<<r, p>>]>>
    <3> HIDE DEF entry, acc
    <3> QED BY <1>2, <2>2, <2>4
  <2> HIDE DEF entry
  <2> QED BY <2>3, <2>7, <2>8
<1>4. WrittenFrom(table, Cached, entry, writes)
  <2>1. Cached \in [Rows -> Nat]
    BY <1>0 DEF CacheFacts, CachedType
  <2> HIDE DEF entry, writes
  <2> QED BY <1>3, <2>1 DEF WrittenFrom
<1>5. ASSUME NEW r \in active \ leave, NEW p \in clen[r] .. clen[r] + acc(r)
      PROVE  <<CellOf(table[r], p), <<r, p>>>> \in writes
  <2>1. p \in clen[r] .. LastWrite(r, out[r])
    <3> DEFINE last == LastWrite(r, out[r])
               a == acc(r)
    <3>1. clen[r] + a <= last /\ last \in Int /\ clen[r] \in Nat /\ a \in Int /\ p \in clen[r] .. clen[r] + a
      BY <1>2, <1>5
    <3> HIDE DEF last, a
    <3>2. p \in clen[r] .. last
      BY <3>1
    <3> QED BY <3>2 DEF last
  <2>2. p <= clen[r] + acc(r)
    <3> DEFINE a == acc(r)
    <3>1. clen[r] \in Nat /\ a \in Int /\ p \in clen[r] .. clen[r] + a
      BY <1>2, <1>5
    <3> HIDE DEF a
    <3>2. p <= clen[r] + a
      BY <3>1
    <3> QED BY <3>2 DEF a
  <2>3. <<CellOf(KernelTable(r), p), <<r, p>>>> \in
          {<<CellOf(KernelTable(r), q),
             IF q <= clen[r] + out[r][1] THEN <<r, q>> ELSE Junk>> :
              q \in clen[r] .. LastWrite(r, out[r])}
    BY <2>1, <2>2
  <2>4. KernelTable(r) = table[r]
    BY <1>2
  <2> QED BY <2>3, <2>4 DEF StepWrites
<1>6. \A r \in Rows : /\ r \in leave => slot'[r] = NoSlot
                      /\ r \notin leave => slot'[r] = slot[r] /\ table'[r] = table[r]
  BY <1>1 DEF Release
<1>7. ASSUME NEW r \in Holders'
      PROVE  /\ table'[r] = table[r]
             /\ Reaches(table[r], Cached'[r])
             /\ \A p \in 0 .. Cached'[r] - 1 :
                  \/ r \in Holders /\ Extended(table[r], table[r]) /\ p < Cached[r]
                  \/ <<CellOf(table[r], p), <<r, p>>>> \in writes
  <2>1. r \in Rows /\ r \notin leave /\ r \in Holders /\ table'[r] = table[r]
    BY <1>6, <1>7 DEF Holders, Holds
  <2>2. table[r] \in Seq(Blocks) /\ Extended(table[r], table[r]) /\ Len(table[r]) <= Len(table[r])
    BY <2>1, <1>0, SameExtended, LenProperties DEF CacheFacts
  <2>3. CASE r \in active
    <3> DEFINE a == acc(r)
    <3>1. Cached'[r] = clen'[r] /\ clen'[r] = clen[r] + a + 1
      BY <1>0, <1>1, <2>1, <2>3 DEF CacheFacts
    <3>2. clen[r] \in Nat /\ a \in 0 .. SpecK /\ StepSpan \in Nat /\ Cached[r] = clen[r]
      BY <1>2, <2>3
    <3> HIDE DEF a
    <3>3. clen[r] + a + 1 <= clen[r] + StepSpan
      BY <1>0, <3>2 DEF StepSpan
    <3>4. Reaches(table[r], clen[r] + StepSpan)
      BY <1>0, <2>3 DEF MemInv, SpanReached
    <3>5. Reaches(table[r], Cached'[r])
      <4>1. clen[r] + a + 1 \in Int /\ clen[r] + StepSpan \in Int
        BY <3>2
      <4> QED BY <4>1, <2>2, <3>1, <3>3, <3>4, ReachesMore
    <3>6. ASSUME NEW p \in 0 .. Cached'[r] - 1
          PROVE  p < Cached[r] \/ p \in clen[r] .. clen[r] + a
      BY <3>1, <3>2
    <3> HIDE DEF writes
    <3> QED BY <1>5, <2>1, <2>2, <2>3, <3>5, <3>6 DEF a
  <2>4. CASE r \notin active
    <3>1. Cached'[r] = Cached[r] /\ Cached[r] \in Nat
      BY <1>0, <1>1, <2>1, <2>4 DEF Cached, CachedLen, CacheFacts, CachedType
    <3>2. Reaches(table[r], Cached[r])
      BY <2>1 DEF MemInv, CachedReached
    <3> HIDE DEF writes
    <3> QED BY <2>1, <2>2, <3>1, <3>2
  <2> QED BY <2>3, <2>4
<1>8. CachedReached' /\ CachedIntact'
  <2>1. EntriesDiffer(table) /\ table \in [Rows -> Seq(Blocks)] /\ kv' = Written(writes)
    BY <1>0, <1>1, OwnedDiffer DEF CacheFacts
  <2> HIDE DEF writes, entry
  <2> QED BY <2>1, <1>0, <1>4, <1>7, CacheStep DEF CacheFacts, MemInv
<1>9. CursorInv'
  <2>1. pending \notin leave
    BY <1>0 DEF CacheFacts
  <2> QED BY <1>0, <1>6, <2>1 DEF MemInv, CursorInv, Holds
<1>10. BoundaryInv'
  <2> SUFFICES ASSUME HostMetadata PROVE BoundaryInv'
    BY DEF BoundaryInv
  <2>1. /\ meta'.rows = active /\ meta'.dirty = meta.dirty
        /\ meta'.untilBlock = meta.untilBlock - 1 /\ meta.rows = active
        /\ meta.untilBlock \in Int /\ meta.untilBlock > 0 /\ SpecK = 0
    BY <1>0, <1>1, SchedulerAssumption DEF MetaInv, MemInv, BoundaryInv, IInv, TypeOK
  <2>2. ASSUME ~meta.dirty, NEW r \in active \ leave
        PROVE  Reaches(table'[r], clen'[r] + meta'.untilBlock)
    <3>1. /\ clen[r] \in Nat /\ acc(r) = 0 /\ clen'[r] = clen[r] + acc(r) + 1
          /\ table'[r] = table[r]
      BY <1>1, <1>2, <1>6, <2>1
    <3>2. Reaches(table[r], clen[r] + meta.untilBlock)
      BY <2>1, <2>2 DEF MemInv, BoundaryInv
    <3>3. clen'[r] + meta'.untilBlock = clen[r] + meta.untilBlock
      BY <2>1, <3>1
    <3> QED BY <3>1, <3>2, <3>3
  <2> QED BY <1>0, <1>1, <2>1, <2>2 DEF BoundaryInv
<1>11. SpanReached'
  BY <1>0 DEF SpanReached
<1> QED
  BY <1>8, <1>9, <1>10, <1>11 DEF MemInv

\* Every step keeps the cache invariant.
LEMMA MemNext == ASSUME IInv, MemInv, [Next]_vars PROVE MemInv'
<1>0. IInv'
  BY NextIInv
<1>1. CASE \E r \in Rows : Cancel(r)
  <2>1. /\ UNCHANGED <<table, slot, kv, active, fresh, clen, cursor, pending, meta>>
        /\ prompts' = prompts /\ pc' = pc
    BY <1>1 DEF Cancel, loopVars, kvVars
  <2> QED BY <2>1, <1>0, MemStill
<1>2. CASE Refill
  <2>1. fresh = {}
    BY <1>2 DEF Refill, IInv, PhaseInv
  <2>2. /\ UNCHANGED <<table, slot, kv, active, fresh, clen, cursor, pending, meta>>
        /\ pc' = "pack"
    BY <1>2, <2>1 DEF Refill, kvVars
  <2> QED BY <2>1, <2>2, <1>0, MemStill
<1>3. CASE PackDone \/ PackFails \/ ForwardPartial \/ EnsureFails \/ UNCHANGED vars
  <2>1. /\ UNCHANGED <<table, slot, kv, active, fresh, clen, cursor, pending, meta>>
        /\ prompts' = prompts /\ (pc' = "decode" => pc = "decode")
    BY <1>3 DEF PackDone, PackFails, ForwardPartial, EnsureFails, vars, loopVars, kvVars
  <2> QED BY <2>1, <1>0, MemStill
<1> QED
  BY <1>0, <1>1, <1>2, <1>3, MemPackChunk, MemPackStarved, MemFirstTokens, MemDrafts,
     MemCancelSweep, MemEnsureBlocks, MemPrepareMetadata, MemDecodeStep
     DEF Next, LoopStep, Terminated

\* An empty batch has nothing cached.
LEMMA MemInit == ASSUME Init PROVE MemInv
<1>1. Holders = {} /\ active = {} /\ \A r \in Rows : cursor[r] = 0
  BY DEF Init, PoolInit, Holders, Holds
<1>2. pc = "top" /\ meta.untilBlock = 0
  BY DEF Init, NoMeta
<1> QED
  BY <1>1, <1>2 DEF MemInv, CachedReached, CachedIntact, SpanReached, CursorInv, BoundaryInv

\* Tables reach what the cache holds, and the cache holds it where they say.
THEOREM MemInvHolds == Spec => []MemInv
<1>1. Init => MemInv
  BY MemInit
<1>2. IInv /\ MemInv /\ [Next]_vars => MemInv'
  BY MemNext
<1> QED
  BY <1>1, <1>2, IInvHolds, PTL DEF Spec

THEOREM IntactHolds == Spec => []KVIntact
<1>1. MemInv => KVIntact
  BY DEF MemInv, CachedIntact, KVIntact, Cached, Holders
<1> QED
  BY <1>1, MemInvHolds, PTL

-----------------------------------------------------------------------------
\* The pool the engine sizes, and prompts that leave room in their rows.
Fitting == EnginePool /\ \A r \in Arrived : FitsCache(r)

\* Then no row outgrows its share of the pool, and nothing fails.
PoolInv ==
  Fitting => pc # "failed" /\ \A r \in Rows : Len(table[r]) <= MaxBlocksPerSeq

\* The blocks of n positions are no more than those of more positions.
LEMMA CeilDivMonotone ==
  ASSUME NEW n \in Nat, NEW m \in Nat, n <= m
  PROVE  /\ CeilDiv(n, BlockSize) \in Nat /\ CeilDiv(m, BlockSize) \in Nat
         /\ CeilDiv(n, BlockSize) <= CeilDiv(m, BlockSize)
<1>1. BlockSize \in Nat \ {0}
  BY PoolAssumption
<1> DEFINE a == n + BlockSize - 1
           b == m + BlockSize - 1
           d == a \div BlockSize
           e == b \div BlockSize
<1>2. a \in Nat /\ b \in Nat /\ a <= b
  BY <1>1
<1> HIDE DEF a, b
<1>3. /\ d \in Nat /\ a % BlockSize \in 0 .. BlockSize - 1
      /\ a = (d * BlockSize) + (a % BlockSize)
      /\ e \in Nat /\ b % BlockSize \in 0 .. BlockSize - 1
      /\ b = (e * BlockSize) + (b % BlockSize)
  BY <1>1, <1>2
<1> DEFINE p == a % BlockSize
           q == b % BlockSize
<1> HIDE DEF d, e
<1>4. /\ p \in Int /\ p >= 0 /\ a = (d * BlockSize) + p
      /\ q \in Int /\ q < BlockSize /\ b = (e * BlockSize) + q
  BY <1>1, <1>3
<1> HIDE DEF p, q
<1>5. d <= e
  <2> SUFFICES ASSUME e + 1 <= d PROVE FALSE
    BY <1>3
  <2>1. (e + 1) * BlockSize <= d * BlockSize
    BY <1>1, <1>3, BlocksMonotone
  <2>2. (e + 1) * BlockSize = (e * BlockSize) + BlockSize
    BY <1>1, <1>3
  <2>3. e * BlockSize \in Int /\ d * BlockSize \in Int
    BY <1>1, <1>3
  <2> QED BY <1>1, <1>2, <1>4, <2>1, <2>2, <2>3
<1> QED
  BY <1>3, <1>5 DEF CeilDiv, a, b, d, e

\* The block of a position below m is one of those.
LEMMA BlockWithin ==
  ASSUME NEW x \in Nat, NEW m \in Nat, x < m
  PROVE  (x \div BlockSize) + 1 \in Nat /\ (x \div BlockSize) + 1 <= CeilDiv(m, BlockSize)
<1>1. BlockSize \in Nat \ {0}
  BY PoolAssumption
<1> DEFINE c == CeilDiv(m, BlockSize)
           d == x \div BlockSize
           p == x % BlockSize
<1>2. c \in Nat /\ c >= c
  BY CeilDivMonotone
<1>3. m <= c * BlockSize
  BY <1>2, MissingReaches
<1>4. d \in Nat /\ p \in 0 .. BlockSize - 1 /\ x = (d * BlockSize) + p
  BY <1>1
<1> HIDE DEF c, d, p
<1>5. d + 1 <= c
  <2> SUFFICES ASSUME c <= d PROVE FALSE
    BY <1>2, <1>4
  <2>1. c * BlockSize <= d * BlockSize
    BY <1>1, <1>2, <1>4, BlocksMonotone
  <2>2. c * BlockSize \in Int /\ d * BlockSize \in Int
    BY <1>1, <1>2, <1>4
  <2> QED BY <1>1, <1>3, <1>4, <2>1, <2>2
<1> QED
  BY <1>4, <1>5 DEF c, d

\* A row that asks for blocks of positions inside the cache length ends within
\* its share.
LEMMA DecodeNeedWithin ==
  ASSUME NEW r \in Rows, NEW first \in Nat, NEW span \in Nat \ {0}, Len(table[r]) \in Nat,
         Len(table[r]) <= MaxBlocksPerSeq, first + span <= MaxCacheLen
  PROVE  Len(table[r]) + DecodeNeed(r, first, span) <= MaxBlocksPerSeq
<1>1. MaxCacheLen \in Nat /\ MaxBlocksPerSeq \in Nat
  BY SchedulerAssumption, CeilDivMonotone DEF MaxBlocksPerSeq
<1> DEFINE x == first + span - 1
           d == x \div BlockSize
<1>2. x \in Nat /\ x < MaxCacheLen
  BY <1>1
<1>3. d + 1 \in Nat /\ d + 1 <= MaxBlocksPerSeq /\ d \in Int
  <2> HIDE DEF x
  <2>1. d + 1 \in Nat /\ d + 1 <= MaxBlocksPerSeq
    BY <1>1, <1>2, BlockWithin DEF MaxBlocksPerSeq
  <2>2. d \in Int
    BY <1>2, PoolAssumption
  <2> QED BY <2>1, <2>2
<1>4. \/ DecodeNeed(r, first, span) = 0
      \/ DecodeNeed(r, first, span) = LargerOf(0, d + 1 - Len(table[r]))
  BY Zenon DEF DecodeNeed
<1> DEFINE len == Len(table[r])
<1> HIDE DEF d, len
<1>5. /\ len \in Nat /\ len <= MaxBlocksPerSeq
      /\ \/ DecodeNeed(r, first, span) = 0
         \/ DecodeNeed(r, first, span) = LargerOf(0, d + 1 - len)
  BY <1>4 DEF len
<1>6. /\ LargerOf(0, d + 1 - len) \in Int
      /\ len + LargerOf(0, d + 1 - len) <= MaxBlocksPerSeq
  BY <1>1, <1>3, <1>5 DEF LargerOf
<1>7. len + DecodeNeed(r, first, span) <= MaxBlocksPerSeq
  BY <1>1, <1>5, <1>6
<1> QED
  BY <1>7 DEF len

\* No more rows hold slots than there are slots.
LEMMA HoldersFit ==
  ASSUME IInv
  PROVE  /\ Holders \in SUBSET Rows /\ IsFiniteSet(Holders)
         /\ Cardinality(Holders) \in Nat /\ Cardinality(Slots) \in Nat
         /\ Cardinality(Holders) <= Cardinality(Slots)
         /\ \A r \in Rows \ Holders : table[r] = <<>>
<1> DEFINE f == [r \in Holders |-> slot[r]]
<1>1. IsFiniteSet(Slots) /\ PoolTypeOK /\ SlotOwnership
  BY PoolAssumption DEF IInv, TypeOK
<1>2. f \in Injection(Holders, Slots)
  <2>1. \A r \in Holders : f[r] \in Slots
    BY <1>1 DEF Holders, Holds, PoolTypeOK
  <2>2. \A r, q \in Holders : f[r] = f[q] => r = q
    BY <1>1 DEF Holders, SlotOwnership
  <2>3. f \in [Holders -> Slots]
    BY <2>1
  <2> HIDE DEF f
  <2> QED BY <2>2, <2>3 DEF Injection, IsInjective
<1> HIDE DEF f
<1>3. IsFiniteSet(Holders) /\ Cardinality(Holders) <= Cardinality(Slots)
  BY <1>1, <1>2, FS_Injection
<1>4. Cardinality(Holders) \in Nat /\ Cardinality(Slots) \in Nat
  BY <1>1, <1>3, FS_CardinalityType
<1>5. Holders \in SUBSET Rows /\ \A r \in Rows \ Holders : table[r] = <<>>
  BY <1>1 DEF Holders, SlotOwnership
<1> QED
  BY <1>3, <1>4, <1>5

\* Every row is within its share of the pool.
Within == \A r \in Rows : Len(table[r]) <= MaxBlocksPerSeq

\* A share of the pool is a number of blocks.
LEMMA WidthType == MaxBlocksPerSeq \in Nat
<1>1. MaxCacheLen \in Nat /\ MaxCacheLen <= MaxCacheLen
  BY SchedulerAssumption
<1> QED
  BY <1>1, CeilDivMonotone DEF MaxBlocksPerSeq

\* Requests that keep every row within its share can be met, and do.
LEMMA WithinFits ==
  ASSUME IInv, EnginePool, NEW need \in [Rows -> Nat],
         NEW holders \in SUBSET Rows, Holders \subseteq holders,
         Cardinality(holders) <= Cardinality(Slots),
         \A r \in Rows : Len(table[r]) + need[r] <= MaxBlocksPerSeq,
         \A r \in Rows \ holders : need[r] = 0
  PROVE  /\ Fits(need)
         /\ Grow(need) => Within'
<1>1. PoolTypeOK /\ BlockOwnership /\ MaxBlocksPerSeq \in Nat
  BY WidthType DEF IInv, TypeOK
<1>2. \A r \in Rows \ holders : Len(table[r]) + need[r] = 0
  <2>1. \A r \in Rows \ holders : table[r] = <<>> /\ need[r] = 0
    BY HoldersFit
  <2> QED BY <2>1, EmptySeq
<1>3. Fits(need)
  BY <1>1, <1>2, BoundedFits DEF EnginePool
<1>4. Grow(need) => Within'
  BY <1>1, GrowExtends DEF Within
<1> QED
  BY <1>3, <1>4

\* The pending row can be given the blocks of its next chunk.
LEMMA PackFits ==
  ASSUME IInv, Fitting, Within, pc = "pack", HasNext, used < MaxPrefill
  PROVE  /\ ~TooLong /\ Fits(PackNeed) /\ (Grow(PackNeed) => Within')
<1>1. TypeOK /\ pending \in Arrived /\ MayEnter(pending) /\ FitsCache(pending)
  BY DEF IInv, HasNext, Fitting
<1>2. /\ prompts[pending] \in Nat /\ pending \in Rows /\ pending \in Nat
  BY <1>1, PromptFacts
<1>3. /\ prompts[pending] + MaxNew <= MaxCacheLen /\ prompts[pending] <= MaxCacheLen
      /\ MaxCacheLen \in Nat /\ MaxNew \in Nat
  BY <1>1, <1>2, SchedulerAssumption DEF FitsCache
<1>4. Packable
  BY <1>2, <1>3 DEF Packable, TooLong
<1> DEFINE upto == cursor[pending] + Chunk
           W == MaxBlocksPerSeq
<1>5. /\ upto \in Nat /\ upto <= prompts[pending]
      /\ PackNeed \in [Rows -> Nat] /\ \A r \in Rows \ {pending} : PackNeed[r] = 0
      /\ PackNeed[pending] = Missing(pending, upto)
  BY <1>2, <1>4, PackNeedType DEF PackNeed
<1> HIDE DEF upto
<1>6. CeilDiv(upto, BlockSize) \in Nat /\ CeilDiv(upto, BlockSize) <= W /\ W \in Nat
  <2>1. upto <= MaxCacheLen
    BY <1>2, <1>3, <1>5
  <2> QED BY <2>1, <1>3, <1>5, CeilDivMonotone DEF MaxBlocksPerSeq
<1>7. \A r \in Rows : Len(table[r]) \in Nat
  BY LenProperties DEF IInv, TypeOK, PoolTypeOK
<1>8. \A r \in Rows : Len(table[r]) + PackNeed[r] <= W
  <2>1. Len(table[pending]) + PackNeed[pending] <= W
    BY <1>2, <1>5, <1>6, <1>7 DEF Missing, LargerOf, Within
  <2>2. \A r \in Rows \ {pending} : Len(table[r]) + PackNeed[r] <= W
    BY <1>5, <1>7 DEF Within
  <2> QED BY <2>1, <2>2
<1> DEFINE holders == Holders \cup {pending}
<1>9. /\ holders \in SUBSET Rows /\ Holders \subseteq holders
      /\ Cardinality(holders) <= Cardinality(Slots)
  <2>1. holders \in SUBSET Rows /\ Holders \subseteq holders
    BY <1>2, HoldersFit
  <2>2. CASE Holds(pending)
    <3>1. holders = Holders
      BY <2>2, <1>2 DEF Holders
    <3> QED BY <2>1, <3>1, HoldersFit
  <2>3. CASE ~Holds(pending)
    <3>1. Cardinality(Holders) < Cardinality(Slots) /\ pending \notin Holders
      BY <2>3, <1>1 DEF MayEnter, Holders
    <3>2. Cardinality(holders) = Cardinality(Holders) + 1
      BY <3>1, HoldersFit, FS_AddElement
    <3> QED BY <2>1, <3>1, <3>2, HoldersFit
  <2> QED BY <2>2, <2>3
<1> HIDE DEF holders
<1>10. Fits(PackNeed) /\ (Grow(PackNeed) => Within')
  <2>1. EnginePool /\ \A r \in Rows \ holders : PackNeed[r] = 0
    BY <1>5 DEF Fitting, holders
  <2> QED BY <2>1, <1>5, <1>8, <1>9, WithinFits
<1> QED
  BY <1>2, <1>3, <1>10 DEF TooLong

\* Active rows can be given the blocks of a span of draft or decode positions.
LEMMA SpanFits ==
  ASSUME IInv, Fitting, Within, NEW rows \in SUBSET active,
         NEW span \in Nat \ {0}, span <= 2 * SpecK + 2, NEW need \in [Rows -> Nat],
         \A r \in Rows : need[r] = IF r \in rows THEN DecodeNeed(r, clen[r], span) ELSE 0
  PROVE  Fits(need) /\ (Grow(need) => Within')
<1>1. /\ active \subseteq Rows /\ active \subseteq Holders
      /\ \A r \in active : r \in Arrived /\ prompts[r] \in Nat
  BY LoopFacts, PromptFacts DEF IInv, Rows
<1>2. \A r \in Rows : Len(table[r]) \in Nat
  BY LenProperties DEF IInv, TypeOK, PoolTypeOK
<1>3. ASSUME NEW r \in Rows PROVE Len(table[r]) + need[r] <= MaxBlocksPerSeq
  <2>1. CASE r \in rows
    <3>1. /\ rlen[r] \in Nat /\ 1 <= rlen[r] /\ rlen[r] < MaxNew
          /\ clen[r] = prompts[r] + rlen[r] - 1 /\ prompts[r] \in Nat
          /\ MaxNew \in Nat /\ SpecK \in Nat /\ MaxCacheLen \in Nat
          /\ prompts[r] + MaxNew + 2 * SpecK <= MaxCacheLen
      BY <2>1, <1>1, SchedulerAssumption DEF IInv, TypeOK, LengthInv, Fitting, FitsCache
    <3>2. clen[r] \in Nat /\ clen[r] + span <= MaxCacheLen
      BY <3>1
    <3> QED BY <2>1, <1>2, <3>2, DecodeNeedWithin DEF Within
  <2>2. CASE r \notin rows
    BY <2>2, <1>2 DEF Within
  <2> QED BY <2>1, <2>2
<1>4. EnginePool /\ \A r \in Rows \ Holders : need[r] = 0
  BY <1>1 DEF Fitting
<1> QED
  BY <1>3, <1>4, HoldersFit, WithinFits

\* The span a decode step makes sure of is one of these.
LEMMA EnsureFits ==
  ASSUME IInv, Fitting, Within, NEW len \in [Rows -> Nat], \A r \in active : len[r] = clen[r]
  PROVE  Fits(EnsureNeed(len)) /\ (Grow(EnsureNeed(len)) => Within')
<1>1. StepSpan \in Nat \ {0} /\ StepSpan <= 2 * SpecK + 2
  BY SchedulerAssumption DEF StepSpan
<1>2. EnsureNeed(len) \in [Rows -> Nat]
  BY EnsureNeedType
<1>3. \A r \in Rows :
        EnsureNeed(len)[r] = IF r \in active THEN DecodeNeed(r, clen[r], StepSpan) ELSE 0
  BY DEF EnsureNeed
<1> QED
  BY <1>1, <1>2, <1>3, SpanFits

\* Prompts are only ever added.
LEMMA FittingKept == ASSUME IInv, [Next]_vars, Fitting' PROVE Fitting
<1>1. CASE Refill
  <2>1. PICK n \in 0 .. IF Cancellable THEN 0 ELSE MaxRows - Len(prompts) :
          \E more \in [1 .. n -> PromptLens] : prompts' = prompts \o more
    BY <1>1 DEF Refill
  <2>2. PICK more \in [1 .. n -> PromptLens] : prompts' = prompts \o more
    BY <2>1
  <2>3. n \in Nat
    <3>1. Len(prompts) \in Nat /\ MaxRows \in Nat
      BY PromptFacts DEF IInv
    <3> QED BY <3>1, <2>1
  <2>4. prompts \in Seq(PromptLens) /\ more \in Seq(PromptLens)
    BY <2>3, SeqDef DEF IInv, TypeOK
  <2>5. \A r \in Arrived : r \in DOMAIN prompts' /\ prompts'[r] = prompts[r]
    BY <2>2, <2>4, ConcatProperties, LenProperties DEF Arrived
  <2> QED BY <2>5 DEF Fitting, FitsCache, Arrived
<1>2. CASE prompts' = prompts
  BY <1>2 DEF Fitting, FitsCache, Arrived
<1>3. Refill \/ prompts' = prompts
  BY DEF Next, LoopStep, Cancel, PackChunk, PackStarved, PackDone, PackFails, ForwardPartial,
     FirstTokens, AdmittedRowDrafts, CancelSweep, EnsureBlocks, PrepareMetadata, EnsureFails,
     DecodeStep, Terminated, vars, loopVars
<1> QED
  BY <1>1, <1>2, <1>3

\* A step that leaves every row its blocks, or takes them all, keeps the bound.
LEMMA PoolFrameWithin ==
  ASSUME IInv, Within, \A r \in Rows : table'[r] = table[r] \/ table'[r] = <<>>
  PROVE  Within'
<1>1. MaxBlocksPerSeq \in Nat /\ Len(<<>>) = 0
  BY WidthType, EmptySeq
<1> QED
  BY <1>1 DEF Within

\* Packing never fails, never starves, and keeps the bound.
LEMMA PoolPack ==
  ASSUME IInv, Fitting, Within, PackChunk \/ PackStarved \/ PackFails
  PROVE  Within' /\ pc' # "failed"
<1>0. /\ MaxPrefill \in Nat \ {0} /\ used \in Nat
  BY SchedulerAssumption DEF IInv, TypeOK
<1>1. CASE PackChunk
  <2>1. /\ pc = "pack" /\ HasNext /\ used < MaxPrefill /\ Grow(PackNeed)
        /\ pc' \in {"pack", "forward"}
    BY <1>1 DEF PackChunk, Packable
  <2>2. Grow(PackNeed) => Within'
    BY <2>1, PackFits
  <2> QED BY <2>1, <2>2
<1>2. CASE PackStarved
  <2>1. pc = "pack" /\ HasNext /\ used < MaxPrefill /\ ~Fits(PackNeed)
    BY <1>2 DEF PackStarved, Packable
  <2>2. Fits(PackNeed)
    BY <2>1, PackFits
  <2> QED BY <2>1, <2>2
<1>3. CASE PackFails
  <2>1. pc = "pack" /\ HasNext /\ (TooLong \/ (used = 0 /\ ~Fits(PackNeed)))
    BY <1>3 DEF PackFails
  <2>2. ~TooLong
    <3>1. TypeOK /\ pending \in Arrived /\ FitsCache(pending)
      BY <2>1 DEF IInv, HasNext, Fitting
    <3>2. /\ prompts[pending] \in Nat /\ MaxNew \in Nat /\ SpecK \in Nat /\ MaxCacheLen \in Nat
          /\ prompts[pending] + MaxNew + 2 * SpecK <= MaxCacheLen
      BY <3>1, PromptFacts, SchedulerAssumption DEF FitsCache
    <3> QED BY <3>2 DEF TooLong
  <2>3. used < MaxPrefill /\ ~Fits(PackNeed)
    BY <1>0, <2>1, <2>2
  <2>4. Fits(PackNeed)
    BY <2>1, <2>3, PackFits
  <2> QED BY <2>3, <2>4
<1> QED
  BY <1>1, <1>2, <1>3

\* Neither does the drafting for new rows.
LEMMA PoolDrafts ==
  ASSUME IInv, Fitting, Within, AdmittedRowDrafts
  PROVE  Within' /\ pc' # "failed"
<1>1. SpecK \in Nat
  BY SchedulerAssumption
<1>2. DraftSpan \in Nat \ {0} /\ DraftSpan <= 2 * SpecK + 2
  BY <1>1 DEF DraftSpan, LargerOf
<1>3. pc = "draft" /\ fresh \in SUBSET active /\ TypeOK
  BY DEF AdmittedRowDrafts, IInv, PhaseInv
<1>4. DraftNeed \in [Rows -> Nat]
  <2>1. \A r \in Rows : DecodeNeed(r, clen[r], DraftSpan) \in Nat
    BY <1>2, <1>3, DecodeNeedType DEF TypeOK
  <2> QED BY <2>1 DEF DraftNeed
<1>5. \A r \in Rows : DraftNeed[r] = IF r \in fresh THEN DecodeNeed(r, clen[r], DraftSpan) ELSE 0
  BY DEF DraftNeed
<1>6. Fits(DraftNeed) /\ (Grow(DraftNeed) => Within')
  BY <1>2, <1>3, <1>4, <1>5, SpanFits
<1> QED
  BY <1>6 DEF AdmittedRowDrafts

\* Nor the growth before a decode step.
LEMMA PoolEnsure ==
  ASSUME IInv, Fitting, Within, EnsureBlocks \/ PrepareMetadata \/ EnsureFails
  PROVE  Within' /\ pc' # "failed"
<1> DEFINE m == Synced(meta, active)
<1>1. clen \in [Rows -> Nat] /\ active \subseteq Rows
  BY DEF IInv, TypeOK
<1>2. Fits(EnsureNeed(clen)) /\ (Grow(EnsureNeed(clen)) => Within')
  BY <1>1, EnsureFits
<1>3. HostMetadata => Fits(EnsureNeed(m.len)) /\ (Grow(EnsureNeed(m.len)) => Within')
  <2> SUFFICES ASSUME HostMetadata
               PROVE  Fits(EnsureNeed(m.len)) /\ (Grow(EnsureNeed(m.len)) => Within')
    OBVIOUS
  <2>1. m.len \in [Rows -> Nat] /\ \A r \in active : m.len[r] = clen[r]
    BY SyncedFacts DEF MetaTypes
  <2> HIDE DEF m
  <2> QED BY <2>1, EnsureFits
<1>4. CASE EnsureBlocks
  BY <1>2, <1>4 DEF EnsureBlocks
<1>5. CASE PrepareMetadata
  <2>1. (Grow(EnsureNeed(m.len)) \/ table' = table) /\ HostMetadata /\ pc' = "decode"
    BY <1>5 DEF PrepareMetadata
  <2> HIDE DEF m
  <2> QED BY <1>3, <2>1 DEF Within
<1>6. CASE EnsureFails
  <2>1. IF HostMetadata THEN ~Fits(EnsureNeed(m.len)) ELSE ~Fits(EnsureNeed(clen))
    BY <1>6 DEF EnsureFails
  <2> HIDE DEF m
  <2> QED BY <1>2, <1>3, <2>1
<1> QED
  BY <1>4, <1>5, <1>6

\* Every step keeps the bound, and none fails.
LEMMA PoolNext == ASSUME IInv, PoolInv, [Next]_vars PROVE PoolInv'
<1> SUFFICES ASSUME Fitting' PROVE Within' /\ pc' # "failed"
  BY DEF PoolInv, Within
<1>1. Fitting
  BY FittingKept
<1>2. Within /\ pc # "failed"
  BY <1>1 DEF PoolInv, Within
<1>3. CASE \/ \E r \in Rows : Cancel(r)
           \/ Refill \/ PackDone \/ ForwardPartial \/ UNCHANGED vars
  <2>1. table' = table /\ pc' # "failed"
    BY <1>2, <1>3 DEF Cancel, Refill, PackDone, ForwardPartial, vars, kvVars
  <2> QED BY <2>1, <1>2, PoolFrameWithin
<1>4. CASE FirstTokens \/ CancelSweep
  <2>1. pc' # "failed"
    BY <1>4 DEF FirstTokens, CancelSweep, AfterSweep
  <2>2. \E rows : Release(rows)
    BY <1>4 DEF FirstTokens, CancelSweep, Compact
  <2>3. \A r \in Rows : table'[r] = table[r] \/ table'[r] = <<>>
    BY <2>2 DEF Release
  <2> QED BY <2>1, <2>3, <1>2, PoolFrameWithin
<1>5. CASE DecodeStep
  <2>1. pc' # "failed"
    BY <1>5 DEF DecodeStep
  <2>2. \E rows : Release(rows)
    BY <1>5, DecodeStepStep DEF DecodeEffect
  <2>3. \A r \in Rows : table'[r] = table[r] \/ table'[r] = <<>>
    BY <2>2 DEF Release
  <2> QED BY <2>1, <2>3, <1>2, PoolFrameWithin
<1> QED
  BY <1>1, <1>2, <1>3, <1>4, <1>5, PoolPack, PoolDrafts, PoolEnsure DEF Next, LoopStep, Terminated

\* An empty batch holds no block.
LEMMA PoolInit0 == ASSUME Init PROVE PoolInv
<1>1. \A r \in Rows : Len(table[r]) = 0
  BY EmptySeq DEF Init, PoolInit
<1>2. MaxBlocksPerSeq \in Nat /\ pc = "top"
  BY WidthType DEF Init
<1> QED
  BY <1>1, <1>2 DEF PoolInv

\* With the pool the engine sizes, and prompts that leave room in their rows, the batch
\* never fails.
THEOREM ExhaustionNever == Spec => []NeverExhausted
<1>1. Init => PoolInv
  BY PoolInit0
<1>2. IInv /\ PoolInv /\ [Next]_vars => PoolInv'
  BY PoolNext
<1>3. PoolInv => NeverExhausted
  BY DEF PoolInv, Fitting, NeverExhausted
<1> QED
  BY <1>1, <1>2, <1>3, IInvHolds, PTL DEF Spec

\* The abstract phase of every row, as the instance of the service has it.
Phase == [r \in Rows |-> IF Holds(r) THEN "served"
                         ELSE IF Left(r) THEN "answered" ELSE "queued"]

\* The empty batch is an empty service.
LEMMA ServiceInit == ASSUME Init PROVE Service!Init
<1>1. PICK n \in 1 .. MaxRows : prompts \in [1 .. n -> PromptLens]
  BY DEF Init
<1>2. Len(prompts) \in Rows
  <2>1. n \in Nat
    BY PoolAssumption
  <2>2. Len(prompts) = n
    BY <1>1, <2>1
  <2> QED BY <2>2 DEF Rows
<1>3. \A r \in Rows : ~Holds(r) /\ ~Left(r)
  BY PoolAssumption DEF Init, PoolInit, Holds, Left, Rows
<1>4. rlen = [r \in Rows |-> 0]
  BY DEF Init
<1> QED
  BY <1>2, <1>3, <1>4 DEF Service!Init

\* A step that leaves prompts, slots and tokens alone is invisible.
LEMMA ServiceStill ==
  ASSUME UNCHANGED <<prompts, slot, pending, rlen>>
  PROVE  UNCHANGED Service!vars
BY DEF Service!vars, Holds, Left

\* New prompts arrive.
LEMMA ServiceRefill ==
  ASSUME IInv, Refill
  PROVE  Service!Next \/ UNCHANGED Service!vars
<1>1. PICK n \in 0 .. IF Cancellable THEN 0 ELSE MaxRows - Len(prompts) :
        \E more \in [1 .. n -> PromptLens] : prompts' = prompts \o more
  BY DEF Refill
<1>2. PICK more \in [1 .. n -> PromptLens] : prompts' = prompts \o more
  BY <1>1
<1>3. n \in Nat /\ Len(prompts) + n <= MaxRows /\ Len(prompts) \in Nat /\ MaxRows \in Nat
  BY PromptFacts, SchedulerAssumption DEF IInv
<1>4. Len(prompts') = Len(prompts) + n
  <2>1. more \in Seq(PromptLens) /\ Len(more) = n
    BY <1>3, SeqDef, LenProperties
  <2>2. prompts \in Seq(PromptLens)
    BY DEF IInv, TypeOK
  <2> QED BY <2>1, <2>2, <1>2, ConcatProperties
<1>5. UNCHANGED <<slot, pending, rlen>>
  BY DEF Refill, kvVars
<1>6. UNCHANGED Phase
  BY <1>5 DEF Phase, Holds, Left
<1>7. CASE n = 0
  BY <1>3, <1>4, <1>5, <1>6, <1>7 DEF Service!vars, Phase
<1>8. CASE n > 0
  <2>1. Len(prompts') \in Rows /\ Len(prompts') > Len(prompts)
    BY <1>3, <1>4, <1>8 DEF Rows
  <2> QED BY <2>1, <1>5, <1>6 DEF Service!Next, Service!Arrive, Phase
<1> QED
  BY <1>3, <1>7, <1>8

\* The rows that are served are those that hold slots.
LEMMA ServedHolders == {r \in Rows : Phase[r] = "served"} = Holders
BY DEF Phase, Holders

\* The pending row is taken in by its first chunk, and stays in by the others.
LEMMA ServicePack ==
  ASSUME IInv, PackChunk \/ PackStarved
  PROVE  Service!Next \/ UNCHANGED Service!vars
<1>0. TypeOK /\ pc = "pack" /\ Packable /\ TakeSlot(pending) /\ UNCHANGED <<prompts, rlen>>
  BY DEF IInv, PackChunk, PackStarved, loopVars
<1>1. /\ pending \in Rows /\ pending \in 1 .. Len(prompts) /\ MayEnter(pending)
      /\ pending \in Nat /\ \A r \in Rows : r \in Nat
  BY <1>0, PackNeedType, PromptFacts DEF Packable, HasNext, Rows
<1>2. pending' = pending \/ pending' = pending + 1
  BY DEF PackChunk, PackStarved, loopVars
<1>3. \A r \in Rows \ {pending} : r < pending' <=> r < pending
  BY <1>1, <1>2
<1>4. slot \in [Rows -> Slots \cup {NoSlot}]
  BY <1>0 DEF TypeOK, PoolTypeOK
<1>5. /\ \A r \in Rows \ {pending} : slot'[r] = slot[r]
      /\ slot'[pending] # NoSlot
  <2>1. CASE Holds(pending)
    BY <2>1, <1>0 DEF TakeSlot, Holds
  <2>2. CASE ~Holds(pending)
    <3>1. PICK s \in freeSlots : slot' = [slot EXCEPT ![pending] = s]
      BY <2>2, <1>0 DEF TakeSlot
    <3>2. s # NoSlot
      BY <1>0, PoolAssumption DEF TypeOK, PoolTypeOK
    <3> QED BY <3>1, <3>2, <1>1, <1>4
  <2> QED BY <2>1, <2>2
<1>6. Phase' = [Phase EXCEPT ![pending] = "served"]
  <2>1. \A r \in Rows \ {pending} : Phase'[r] = Phase[r]
    BY <1>3, <1>5 DEF Phase, Holds, Left
  <2>2. Phase'[pending] = "served"
    BY <1>1, <1>5 DEF Phase, Holds
  <2> QED BY <2>1, <2>2, <1>1 DEF Phase
<1>7. CASE Holds(pending)
  <2>1. Phase[pending] = "served"
    BY <1>1, <1>7 DEF Phase
  <2>2. UNCHANGED Phase
    BY <2>1, <1>6 DEF Phase
  <2> QED BY <2>2, <1>0 DEF Service!vars, Phase
<1>8. CASE ~Holds(pending)
  <2>1. Phase[pending] = "queued"
    BY <1>1, <1>8 DEF Phase, Left
  <2>2. \A q \in Rows : q < pending => Phase[q] # "queued"
    BY DEF Phase, Left
  <2>3. Cardinality({r \in Rows : Phase[r] = "served"}) < Cardinality(Slots)
    BY <1>1, <1>8, ServedHolders DEF MayEnter
  <2>4. pending <= Len(prompts)
    BY <1>1
  <2>5. Len(prompts') = Len(prompts) /\ rlen' = rlen
    BY <1>0
  <2>6. Service!In("served") = {r \in Rows : Phase[r] = "served"}
    BY DEF Service!In, Phase
  <2>7. Service!Cardinality(Service!In("served")) < Cardinality(Slots)
    <3>1. Service!Cardinality(Service!In("served")) = Cardinality(Service!In("served"))
      BY DEF Service!Cardinality, Cardinality
    <3> QED BY <3>1, <2>3, <2>6
  <2>8. Service!Serve(pending)
    BY <2>1, <2>2, <2>4, <2>5, <2>7, <1>6 DEF Service!Serve, Phase
  <2> QED BY <2>8, <1>1 DEF Service!Next, Service!Work
<1> QED
  BY <1>7, <1>8

\* Rows that give back their slots are answered.
LEMMA Answered ==
  ASSUME IInv, NEW rows \in SUBSET (active \cup fresh), Release(rows), pending' = pending
  PROVE  Phase' = [r \in Rows |-> IF r \in rows THEN "answered" ELSE Phase[r]]
<1>1. /\ \A r \in Rows \ rows : slot'[r] = slot[r]
      /\ \A r \in rows : slot'[r] = NoSlot
  BY RetireKeepsOwnership
<1>2. \A r \in rows : r < pending
  BY LoopFacts
<1> QED
  BY <1>1, <1>2 DEF Phase, Holds, Left

\* Served rows get tokens and some of them are answered: a step of the service.
LEMMA ServiceAdvance ==
  ASSUME IInv, NEW rows \in SUBSET (active \cup fresh), rows # {}, NEW ended \in SUBSET rows,
         Release(ended), UNCHANGED <<prompts, pending>>,
         rlen' \in [Rows -> 0 .. MaxNew],
         \A r \in rows : rlen'[r] \in 1 .. MaxNew,
         \A r \in rows \ ended : rlen'[r] >= rlen[r],
         \A r \in Rows \ rows : rlen'[r] = rlen[r]
  PROVE  Service!Next
<1> DEFINE new == [r \in rows |-> rlen'[r]]
<1>1. rows \in SUBSET Rows /\ \A r \in rows : Phase[r] = "served"
  BY LoopFacts DEF Phase, Holders
<1>2. rows \subseteq {r \in Rows : Phase[r] = "served"}
  BY <1>1
<1>3. new \in [rows -> 1 .. MaxNew] /\ \A r \in rows \ ended : new[r] >= rlen[r]
  OBVIOUS
<1>4. rlen' = [r \in Rows |-> IF r \in rows THEN new[r] ELSE rlen[r]]
  BY <1>1
<1>5. ended \in SUBSET (active \cup fresh)
  OBVIOUS
<1> HIDE DEF new
<1>6. Phase' = [r \in Rows |-> IF r \in ended THEN "answered" ELSE Phase[r]]
  BY <1>5, Answered
<1>7. Service!Advance(rows, ended)
  BY <1>2, <1>3, <1>4, <1>6 DEF Service!Advance, Service!In, Phase
<1> QED
  BY <1>1, <1>7 DEF Service!Next, Service!Work

\* The first tokens of completed prompts.
LEMMA ServiceFirstTokens ==
  ASSUME IInv, IInv', EndInv, FirstTokens PROVE Service!Next
<1>1. PICK stopped \in SUBSET fresh :
        LET full == {r \in fresh : MaxNew <= 1}
            gone == stopped \cup full
        IN /\ rlen' = [r \in Rows |-> IF r \in fresh THEN 1 ELSE rlen[r]]
           /\ Release(gone)
  BY DEF FirstTokens
<1> DEFINE gone == stopped \cup {r \in fresh : MaxNew <= 1}
<1>2. /\ gone \in SUBSET fresh /\ Release(gone) /\ fresh \in SUBSET (active \cup fresh)
      /\ rlen' = [r \in Rows |-> IF r \in fresh THEN 1 ELSE rlen[r]]
      /\ fresh # {} /\ pc = "forward" /\ UNCHANGED <<prompts, pending>>
  BY <1>1 DEF FirstTokens
<1> HIDE DEF gone
<1>3. fresh \subseteq Rows /\ rlen' \in [Rows -> 0 .. MaxNew]
  BY LoopFacts DEF IInv, TypeOK
<1>4. /\ \A r \in fresh : rlen'[r] \in 1 .. MaxNew
      /\ \A r \in fresh \ gone : rlen'[r] >= rlen[r]
      /\ \A r \in Rows \ fresh : rlen'[r] = rlen[r]
  <2>1. \A r \in fresh : rlen[r] = 0 /\ rlen'[r] = 1
    BY <1>2, <1>3 DEF EndInv
  <2> QED BY <2>1, <1>2, SchedulerAssumption
<1> QED
  BY <1>2, <1>3, <1>4, ServiceAdvance

\* Cancelled rows are cut back and answered.
LEMMA ServiceCancelSweep ==
  ASSUME IInv, IInv', CancelSweep
  PROVE  Service!Next \/ UNCHANGED Service!vars
<1> DEFINE cancelled == active \cap cancelFlag
<1>1. /\ Release(cancelled) /\ cancelled \in SUBSET (active \cup fresh)
      /\ rlen' = [r \in Rows |-> IF r \in cancelled THEN 1 ELSE rlen[r]]
      /\ UNCHANGED <<prompts, pending>> /\ cancelled \subseteq active
  BY DEF CancelSweep, Compact
<1> HIDE DEF cancelled
<1>2. /\ rlen \in [Rows -> 0 .. MaxNew] /\ rlen' \in [Rows -> 0 .. MaxNew] /\ active \subseteq Rows
      /\ slot \in [Rows -> Slots \cup {NoSlot}]
  BY DEF IInv, TypeOK, PoolTypeOK
<1>3. CASE cancelled = {}
  <2>1. rlen' = rlen
    BY <1>1, <1>2, <1>3
  <2>2. slot' = slot
    BY <1>1, <1>2, <1>3 DEF Release
  <2> QED BY <2>1, <2>2, <1>1, ServiceStill
<1>4. CASE cancelled # {}
  <2>1. /\ cancelled \in SUBSET cancelled
        /\ \A r \in cancelled : rlen'[r] \in 1 .. MaxNew
        /\ \A r \in cancelled \ cancelled : rlen'[r] >= rlen[r]
        /\ \A r \in Rows \ cancelled : rlen'[r] = rlen[r]
    BY <1>1, <1>2, SchedulerAssumption
  <2> QED BY <2>1, <1>1, <1>2, <1>4, ServiceAdvance
<1> QED
  BY <1>3, <1>4

\* A decode step gives every active row at least a token.
LEMMA ServiceDecodeStep == ASSUME IInv, IInv', DecodeStep PROVE Service!Next
<1>1. PICK out \in [active -> Outcomes], leave \in SUBSET active :
        /\ Release(leave)
        /\ \A r \in active : rlen'[r] \in 1 .. MaxNew
        /\ \A r \in active \ leave : rlen'[r] = rlen[r] + out[r][1] + 1
        /\ \A r \in Rows \ active : rlen'[r] = rlen[r]
  BY DecodeStepStep DEF DecodeEffect
<1>2. /\ active # {} /\ active \in SUBSET (active \cup fresh) /\ active \subseteq Rows
      /\ UNCHANGED <<prompts, pending>>
      /\ rlen \in [Rows -> 0 .. MaxNew] /\ rlen' \in [Rows -> 0 .. MaxNew]
  BY DEF DecodeStep, IInv, PhaseInv, TypeOK
<1>3. ASSUME NEW r \in active \ leave PROVE rlen'[r] >= rlen[r]
  <2>1. out[r] \in (0 .. SpecK) \X (0 .. SpecK + 1)
    BY DEF Outcomes
  <2>2. out[r][1] \in Nat /\ rlen[r] \in Nat
    BY <2>1, <1>2, SchedulerAssumption
  <2> QED BY <2>2, <1>1
<1> QED
  BY <1>1, <1>2, <1>3, ServiceAdvance

\* Every step of the loop is a step of the service or invisible to it.
LEMMA ServiceNext ==
  ASSUME IInv, EndInv, [Next]_vars
  PROVE  Service!Next \/ UNCHANGED Service!vars
<1>0. IInv'
  BY NextIInv
<1>1. CASE \/ \E r \in Rows : Cancel(r)
           \/ PackDone \/ PackFails \/ ForwardPartial \/ AdmittedRowDrafts
           \/ EnsureBlocks \/ PrepareMetadata \/ EnsureFails \/ UNCHANGED vars
  <2>1. UNCHANGED <<prompts, slot, pending, rlen>>
    BY <1>1 DEF Cancel, PackDone, PackFails, ForwardPartial, AdmittedRowDrafts, EnsureBlocks,
       PrepareMetadata, EnsureFails, vars, loopVars, kvVars
  <2> QED BY <2>1, ServiceStill
<1> QED
  BY <1>0, <1>1, ServiceRefill, ServicePack, ServiceFirstTokens, ServiceCancelSweep,
     ServiceDecodeStep DEF Next, LoopStep, Terminated

\* The loop implements the service.
THEOREM ServiceImplemented == Spec => ImplementsService
<1>1. Init => Service!Init
  BY ServiceInit
<1>2. IInv /\ EndInv /\ [Next]_vars => [Service!Next]_(Service!vars)
  BY ServiceNext
<1> QED
  BY <1>1, <1>2, IInvHolds, EndInvHolds, PTL DEF Spec, ImplementsService, Service!Spec
=============================================================================
