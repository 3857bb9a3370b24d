----------------------- MODULE RolloutSchedulerProofs -----------------------
(***************************************************************************)
(* The rollout loop keeps its types, the ownership of blocks and slots,    *)
(* room in every response buffer and an exact host mirror, for any number  *)
(* of prompts, blocks, slots and for any configuration of the loop.        *)
(*                                                                         *)
(* None of these is inductive.  That a row is retired in the step that     *)
(* fills its response depends, with the host mirror, on the mirror's       *)
(* lengths, these on which rows the mirror was last told about, and that   *)
(* on where the loop is; that releasing rows returns real slots depends on *)
(* every active row holding one.  IInv states all of it.                   *)
(***************************************************************************)
EXTENDS RolloutScheduler, PagedKVCacheProofs, FiniteSetTheorems,
        WellFoundedInduction

-----------------------------------------------------------------------------
\* Which rows hold resources, and where the completed prompts of the payload
\* are, at each place of the loop.
PhaseInv ==
  /\ \A r \in active \cup fresh : r < pending /\ Holds(r)
  /\ \A r \in Rows : Holds(r) =>
       r <= Len(prompts) /\ (r \in active \cup fresh \/ r = pending)
  /\ pc \in {"pack", "forward"} => active \cap fresh = {}
  /\ pc \in {"draft", "sweep"} => fresh \subseteq active
  /\ pc \in {"top", "ensure", "decode", "done"} => fresh = {}
  /\ pc = "pack" /\ used = 0 => fresh = {}
  /\ pc \in {"ensure", "decode"} => active # {}
  /\ pc = "draft" => SpecK > 0
  /\ \A r \in Rows : cursor[r] # 0 => r <= Len(prompts) /\ cursor[r] < prompts[r]

\* An active row has committed every response token but the last to the cache,
\* and has room for the next.
LengthInv ==
  \A r \in active : /\ 1 <= rlen[r] /\ rlen[r] < MaxNew
                    /\ clen[r] = prompts[r] + rlen[r] - 1
                    /\ r \in fresh => rlen[r] = 1

\* The mirror knows every active row except those of the last payload, and
\* what it knows of an active row is true.
MetaInv ==
  HostMetadata =>
    /\ \A r \in meta.rows : r < pending /\ r \notin fresh
    /\ active \subseteq meta.rows \cup fresh
    /\ \A r \in active \cap meta.rows : /\ meta.len[r] = clen[r]
                                        /\ meta.untilFull <= MaxNew - rlen[r]
                                        /\ ~meta.dirty => devTable[r] = table[r]
    /\ pc = "decode" => meta.rows = active /\ ~meta.dirty

IInv ==
  /\ TypeOK /\ BlockOwnership /\ SlotOwnership
  /\ PhaseInv /\ LengthInv /\ MetaInv

-----------------------------------------------------------------------------
\* Helpers of the loop.

\* A finite set of integers has a least element: of the sets of members below
\* a member, ordered by inclusion, one is minimal.
LEMMA LeastOfFinite ==
  ASSUME NEW S \in SUBSET Int, IsFiniteSet(S), S # {}
  PROVE  LeastOf(S) \in S /\ \A y \in S : LeastOf(S) <= y
<1> DEFINE Below(x) == {y \in S : y < x}
           T == {Below(x) : x \in S}
<1> S \subseteq Int
  OBVIOUS
<1>1. T \subseteq FiniteSubsetsOf(S) /\ T # {}
  <2>1. ASSUME NEW x \in S
        PROVE  Below(x) \in FiniteSubsetsOf(S)
    <3>1. Below(x) \in SUBSET S
      OBVIOUS
    <3>2. IsFiniteSet(Below(x))
      BY <3>1, FS_Subset
    <3> QED BY <3>1, <3>2 DEF FiniteSubsetsOf
  <2> QED BY <2>1
<1>2. PICK B \in T : \A C \in T : ~(<<C, B>> \in StrictSubsetOrdering(S))
  BY <1>1, FS_StrictSubsetOrderingWellFounded, WFMin
<1>3. PICK x \in S : B = Below(x)
  OBVIOUS
<1>4. ASSUME NEW y \in S, y < x
      PROVE  FALSE
  <2>1. Below(y) \subseteq Below(x) /\ y \in Below(x) /\ y \notin Below(y)
    <3>1. \A z \in S : z < y => z < x
      BY <1>4
    <3>2. ~(y < y)
      OBVIOUS
    <3> QED BY <3>1, <3>2, <1>4
  <2>2. Below(y) \in SUBSET S /\ Below(x) \in SUBSET S /\ Below(y) # Below(x)
    BY <2>1
  <2>3. <<Below(y), Below(x)>> \in StrictSubsetOrdering(S)
    BY <2>1, <2>2 DEF StrictSubsetOrdering
  <2> QED BY <2>3, <1>2, <1>3
<1>5. \A y \in S : x <= y
  BY <1>4
<1> QED
  BY <1>5 DEF LeastOf

\* A growth request for decode is a number of blocks.
LEMMA DecodeNeedType ==
  ASSUME TypeOK, NEW r \in Rows, NEW first \in Nat, NEW span \in Nat
  PROVE  DecodeNeed(r, first, span) \in Nat
<1>1. Len(table[r]) \in Nat
  BY LenProperties DEF TypeOK, PoolTypeOK
<1>2. (first + span - 1) \div BlockSize \in Int
  BY PoolAssumption
<1> QED
  BY <1>1, <1>2 DEF DecodeNeed, LargerOf

\* So is what a prefill chunk lacks.
LEMMA MissingType ==
  ASSUME TypeOK, NEW r \in Rows, NEW n \in Int
  PROVE  Missing(r, n) \in Nat
<1>1. Len(table[r]) \in Nat
  BY LenProperties DEF TypeOK, PoolTypeOK
<1>2. CeilDiv(n, BlockSize) \in Int
  BY PoolAssumption DEF CeilDiv
<1> QED
  BY <1>1, <1>2 DEF Missing, LargerOf

\* The prompts of the batch, as the other lemmas use them.
LEMMA PromptFacts ==
  ASSUME TypeOK
  PROVE  /\ Len(prompts) \in Nat /\ Len(prompts) <= MaxRows
         /\ Arrived = 1 .. Len(prompts) /\ Arrived \subseteq Rows
         /\ \A r \in Rows : r <= Len(prompts) => prompts[r] \in Nat /\ prompts[r] > 0
         /\ pending \in Nat /\ pending > 0 /\ MaxRows \in Nat
<1>1. /\ Len(prompts) \in Nat /\ prompts \in [1 .. Len(prompts) -> PromptLens]
      /\ DOMAIN prompts = 1 .. Len(prompts)
  BY LenProperties DEF TypeOK
<1>2. PromptLens \subseteq Nat \ {0} /\ MaxRows \in Nat
  BY PoolAssumption, SchedulerAssumption
<1>3. Len(prompts) <= MaxRows /\ pending \in 1 .. Len(prompts) + 1
  BY DEF TypeOK
<1>4. Arrived = 1 .. Len(prompts)
  BY <1>1 DEF Arrived
<1>5. Arrived \subseteq Rows
  BY <1>1, <1>2, <1>3, <1>4 DEF Rows
<1>6. ASSUME NEW r \in Rows, r <= Len(prompts)
      PROVE  prompts[r] \in Nat /\ prompts[r] > 0
  <2>1. r \in 1 .. Len(prompts)
    BY <1>1, <1>2, <1>6 DEF Rows
  <2>2. prompts[r] \in PromptLens
    BY <2>1, <1>1
  <2>3. prompts[r] \in Nat \ {0}
    BY <2>2, <1>2
  <2> QED BY <2>3
<1>7. pending \in Nat /\ pending > 0
  BY <1>1, <1>3
<1> QED
  BY <1>1, <1>2, <1>3, <1>4, <1>5, <1>6, <1>7

\* A row enters the batch, or goes on entering it: it takes a slot if it has
\* none, and blocks; the other rows keep what they hold.
LEMMA AdmitKeepsOwnership ==
  ASSUME TypeOK, BlockOwnership, SlotOwnership, NEW e \in Rows,
         NEW need \in [Rows -> Nat], \A r \in Rows \ {e} : need[r] = 0,
         Grow(need), TakeSlot(e)
  PROVE  /\ free' \subseteq Blocks
         /\ table' \in [Rows -> Seq(Blocks)]
         /\ freeSlots' \subseteq Slots
         /\ slot' \in [Rows -> Slots \cup {NoSlot}]
         /\ BlockOwnership'
         /\ SlotOwnership'
         /\ slot'[e] # NoSlot
         /\ \A r \in Rows \ {e} : slot'[r] = slot[r] /\ table'[r] = table[r]
<1>0. PoolTypeOK
  BY DEF TypeOK
<1>1. free' \subseteq free /\ table' \in [Rows -> Seq(Blocks)]
  BY <1>0, GrowExtends
<1>2. \A r \in Rows \ {e} : table'[r] = table[r]
  BY <1>0, GrowLeavesAlone
<1>3. BlockOwnership'
  BY <1>0, GrowKeepsBlockOwnership
<1>4. CASE Holds(e)
  <2>1. slot' = slot /\ freeSlots' = freeSlots
    BY <1>4 DEF TakeSlot
  <2>2. SlotOwnership'
    BY <2>1, <1>2, <1>4 DEF SlotOwnership, Holds
  <2> QED BY <1>0, <1>1, <1>2, <1>3, <1>4, <2>1, <2>2 DEF PoolTypeOK, Holds
<1>5. CASE ~Holds(e)
  <2>1. PICK s \in freeSlots :
          slot' = [slot EXCEPT ![e] = s] /\ freeSlots' = freeSlots \ {s}
    BY <1>5 DEF TakeSlot
  <2>2. s \in Slots /\ s # NoSlot
    BY <1>0, PoolAssumption DEF PoolTypeOK
  <2>3. /\ slot'[e] = s
        /\ \A r \in Rows \ {e} : slot'[r] = slot[r]
        /\ slot' \in [Rows -> Slots \cup {NoSlot}]
    BY <1>0, <2>1, <2>2 DEF PoolTypeOK
  <2>4. \A r \in Rows : slot'[r] # NoSlot => slot'[r] \notin freeSlots'
    BY <2>1, <2>3 DEF SlotOwnership, Holds
  <2>5. \A r \in Rows \ {e} : slot[r] # NoSlot => slot[r] # s
    BY <2>1 DEF SlotOwnership, Holds
  <2>6. \A r, q \in Rows : slot'[r] # NoSlot /\ slot'[r] = slot'[q] => r = q
    BY <2>2, <2>3, <2>5 DEF SlotOwnership, Holds
  <2>7. \A t \in Slots : t \in freeSlots' \/ \E r \in Rows : slot'[r] = t
    <3> SUFFICES ASSUME NEW t \in Slots, t \notin freeSlots'
                 PROVE  \E r \in Rows : slot'[r] = t
      OBVIOUS
    <3>1. CASE t = s
      BY <3>1, <2>3
    <3>2. CASE t # s
      <4>1. PICK r \in Rows : slot[r] = t
        BY <3>2, <2>1 DEF SlotOwnership
      <4>2. r # e
        BY <4>1, <1>5, PoolAssumption DEF Holds
      <4> QED BY <4>1, <4>2, <2>3
    <3> QED BY <3>1, <3>2
  <2>8. \A r \in Rows : slot'[r] = NoSlot => table'[r] = <<>>
    BY <1>2, <2>2, <2>3 DEF SlotOwnership, Holds
  <2>9. SlotOwnership'
    BY <2>4, <2>6, <2>7, <2>8 DEF SlotOwnership, Holds
  <2> QED BY <1>0, <1>1, <1>2, <1>3, <2>1, <2>2, <2>3, <2>9 DEF PoolTypeOK
<1> QED
  BY <1>4, <1>5

-----------------------------------------------------------------------------
\* What the proofs of the single steps use of IInv.
LEMMA LoopFacts ==
  ASSUME IInv
  PROVE  /\ PoolTypeOK
         /\ active \subseteq Rows /\ fresh \subseteq Rows
         /\ \A r \in active \cup fresh :
              /\ r \in Holders /\ r < pending /\ r <= Len(prompts)
              /\ prompts[r] \in Nat /\ prompts[r] > 0
<1>1. TypeOK /\ PhaseInv
  BY DEF IInv
<1>2. PoolTypeOK /\ active \subseteq Rows /\ fresh \subseteq Rows
  BY <1>1 DEF TypeOK
<1>3. ASSUME NEW r \in active \cup fresh
      PROVE  /\ r \in Holders /\ r < pending /\ r <= Len(prompts)
             /\ prompts[r] \in Nat /\ prompts[r] > 0
  <2>1. r \in Rows /\ r < pending /\ Holds(r)
    BY <1>1, <1>2 DEF PhaseInv
  <2>2. Len(prompts) \in Nat /\ pending \in 1 .. Len(prompts) + 1 /\ MaxRows \in Nat
    BY <1>1, PromptFacts DEF TypeOK
  <2>3. r <= Len(prompts)
    BY <2>1, <2>2 DEF Rows
  <2> QED BY <2>1, <2>3, <1>1, PromptFacts DEF Holders
<1> QED
  BY <1>2, <1>3

\* A step that leaves the pool alone keeps its types and its ownership.
LEMMA PoolFrame ==
  ASSUME IInv, UNCHANGED <<free, table, freeSlots, slot>>
  PROVE  /\ free' \subseteq Blocks /\ table' \in [Rows -> Seq(Blocks)]
         /\ freeSlots' \subseteq Slots /\ slot' \in [Rows -> Slots \cup {NoSlot}]
         /\ BlockOwnership' /\ SlotOwnership'
         /\ \A r \in Rows : Holds(r)' = Holds(r)
<1>1. PoolTypeOK /\ BlockOwnership /\ SlotOwnership
  BY DEF IInv, TypeOK
<1>2. BlockOwnership'
  BY <1>1 DEF BlockOwnership
<1>3. SlotOwnership'
  BY <1>1 DEF SlotOwnership, Holds
<1> QED
  BY <1>1, <1>2, <1>3 DEF PoolTypeOK, Holds

\* A step that moves pc only, between places that ask for the same, or ends
\* the loop.
LEMMA MovesOn ==
  ASSUME IInv, UNCHANGED <<loopVars, reported, meta, devTable, kvVars>>,
         pc' \in Places, cancelFlag' \in SUBSET Rows,
         \/ pc' = pc \/ pc' = "failed"
         \/ pc = "pack" /\ pc' = "forward"
         \/ pc = "pack" /\ fresh = {} /\ pc' = "sweep"
  PROVE  IInv'
<1>1. TypeOK'
  BY DEF IInv, TypeOK, PoolTypeOK, loopVars, kvVars
<1>2. BlockOwnership' /\ SlotOwnership'
  BY PoolFrame DEF kvVars
<1>3. PhaseInv'
  BY DEF IInv, PhaseInv, loopVars, kvVars, Holds
<1>4. LengthInv'
  BY DEF IInv, LengthInv, loopVars
<1>5. MetaInv'
  BY DEF IInv, MetaInv, loopVars, kvVars
<1> QED
  BY <1>1, <1>2, <1>3, <1>4, <1>5 DEF IInv

\* A cancel flag may be raised anywhere: the loop has not looked at it yet.
LEMMA CancelStep == ASSUME IInv, NEW r \in Rows, Cancel(r) PROVE IInv'
<1>1. pc' = pc /\ pc' \in Places /\ cancelFlag' \in SUBSET Rows
  BY DEF IInv, TypeOK, Cancel
<1> QED
  BY <1>1, MovesOn DEF Cancel

\* A payload that is closed keeps every row where it is; one that is
\* empty leaves no prompt completed and unadmitted.
LEMMA PackDoneStep == ASSUME IInv, PackDone PROVE IInv'
<1>1. /\ pc = "pack" /\ cancelFlag' \in SUBSET Rows
      /\ pc' = IF used = 0 THEN "sweep" ELSE "forward"
  BY DEF IInv, TypeOK, PackDone
<1>2. used = 0 => fresh = {}
  BY <1>1 DEF IInv, PhaseInv
<1>3. /\ pc' \in Places
      /\ \/ pc = "pack" /\ pc' = "forward"
         \/ pc = "pack" /\ fresh = {} /\ pc' = "sweep"
  BY <1>1, <1>2 DEF Places
<1> QED
  BY <1>1, <1>3, MovesOn DEF PackDone

\* The raising paths change nothing but the place.
LEMMA FailingStep == ASSUME IInv, PackFails \/ EnsureFails PROVE IInv'
<1>1. pc' = "failed" /\ pc' \in Places /\ cancelFlag' \in SUBSET Rows
  BY DEF IInv, TypeOK, PackFails, EnsureFails, Places
<1> QED
  BY <1>1, MovesOn DEF PackFails, EnsureFails

\* A payload that completes no prompt adds no row to the active set.
LEMMA ForwardPartialStep == ASSUME IInv, ForwardPartial PROVE IInv'
<1>1. TypeOK'
  BY DEF ForwardPartial, IInv, TypeOK, PoolTypeOK, kvVars, Places
<1>2. BlockOwnership' /\ SlotOwnership'
  BY PoolFrame DEF ForwardPartial, kvVars
<1>3. PhaseInv'
  BY DEF ForwardPartial, IInv, PhaseInv, kvVars, Holds
<1>4. LengthInv'
  BY DEF ForwardPartial, IInv, LengthInv
<1>5. MetaInv'
  BY DEF ForwardPartial, IInv, MetaInv, kvVars
<1> QED
  BY <1>1, <1>2, <1>3, <1>4, <1>5 DEF IInv

\* New prompts go behind those that are there.
LEMMA RefillStep == ASSUME IInv, Refill PROVE IInv'
<1>0. TypeOK /\ PhaseInv /\ LengthInv /\ MetaInv /\ pc = "top" /\ pc' = "pack"
  BY DEF IInv, Refill
<1>1. PICK n \in 0 .. IF Cancellable THEN 0 ELSE MaxRows - Len(prompts) :
        \E more \in [1 .. n -> PromptLens] : prompts' = prompts \o more
  BY DEF Refill
<1>2. PICK more \in [1 .. n -> PromptLens] : prompts' = prompts \o more
  BY <1>1
<1>3. n \in Nat /\ Len(prompts) + n <= MaxRows /\ Len(prompts) \in Nat
  BY <1>0, PromptFacts, SchedulerAssumption
<1>4. more \in Seq(PromptLens) /\ Len(more) = n
  <2>1. more \in Seq(PromptLens)
    BY <1>3, SeqDef
  <2> QED BY <2>1, <1>3, LenProperties
<1>5. /\ prompts' \in Seq(PromptLens) /\ Len(prompts') = Len(prompts) + n
      /\ \A r \in 1 .. Len(prompts) : prompts'[r] = prompts[r]
  <2>1. prompts \in Seq(PromptLens)
    BY <1>0 DEF TypeOK
  <2>2. \A r \in 1 .. Len(prompts) : r \in 1 .. Len(prompts) + Len(more) /\ r <= Len(prompts)
    BY <1>3, <1>4
  <2> QED BY <2>1, <2>2, <1>2, <1>4, ConcatProperties
<1>6. TypeOK'
  BY <1>0, <1>3, <1>5 DEF Refill, TypeOK, PoolTypeOK, kvVars, Places
<1>7. BlockOwnership' /\ SlotOwnership'
  BY PoolFrame DEF Refill, kvVars
<1>8. \A r \in Rows : r <= Len(prompts) => r <= Len(prompts') /\ prompts'[r] = prompts[r]
  BY <1>3, <1>5, PoolAssumption DEF Rows
<1>9. \A r \in active : r \in Rows /\ r <= Len(prompts)
  BY LoopFacts
<1>10. PhaseInv'
  BY <1>0, <1>8 DEF Refill, PhaseInv, kvVars, Holds
<1>11. LengthInv'
  BY <1>0, <1>8, <1>9 DEF Refill, LengthInv
<1>12. MetaInv'
  BY <1>0 DEF Refill, MetaInv, PhaseInv, kvVars
<1> QED
  BY <1>6, <1>7, <1>10, <1>11, <1>12 DEF IInv

-----------------------------------------------------------------------------
\* Packing: the pending row takes a slot and blocks, nobody else moves.
LEMMA PackNeedType ==
  ASSUME IInv, pc = "pack", Packable
  PROVE  /\ pending \in Rows /\ pending \in 1 .. Len(prompts)
         /\ cursor[pending] \in Nat /\ Chunk \in Nat /\ Chunk > 0
         /\ cursor[pending] + Chunk <= prompts[pending] /\ prompts[pending] \in Nat
         /\ PackNeed \in [Rows -> Nat] /\ \A r \in Rows \ {pending} : PackNeed[r] = 0
<1>1. TypeOK /\ PhaseInv
  BY DEF IInv
<1>2. pending \in Rows /\ pending \in 1 .. Len(prompts)
  BY <1>1, PromptFacts DEF Packable, HasNext
<1>3. prompts[pending] \in Nat /\ prompts[pending] > 0
  BY <1>1, <1>2, PromptFacts
<1>4. cursor[pending] \in Nat /\ cursor[pending] < prompts[pending]
  BY <1>1, <1>2, <1>3 DEF TypeOK, PhaseInv
<1>5. MaxPrefill - used \in Nat /\ MaxPrefill - used > 0
  BY <1>1, SchedulerAssumption DEF TypeOK, Packable
<1>6. Chunk \in Nat /\ Chunk > 0 /\ cursor[pending] + Chunk <= prompts[pending]
  BY <1>3, <1>4, <1>5 DEF Chunk, SmallerOf
<1>7. Missing(pending, cursor[pending] + Chunk) \in Nat
  <2>1. cursor[pending] + Chunk \in Int
    BY <1>4, <1>6
  <2> QED BY <2>1, <1>1, <1>2, MissingType
<1>8. PackNeed \in [Rows -> Nat] /\ \A r \in Rows \ {pending} : PackNeed[r] = 0
  BY <1>7 DEF PackNeed
<1> QED
  BY <1>2, <1>3, <1>4, <1>6, <1>8

\* A starved row keeps its slot and takes every block that is left.
LEMMA PackStarvedStep == ASSUME IInv, PackStarved PROVE IInv'
<1> DEFINE rest == [r \in Rows |-> IF r = pending THEN Cardinality(free) ELSE 0]
<1>0. /\ TypeOK /\ BlockOwnership /\ SlotOwnership /\ PhaseInv /\ LengthInv /\ MetaInv
      /\ pc = "pack" /\ pc' = "forward" /\ Packable /\ Grow(rest) /\ TakeSlot(pending)
      /\ UNCHANGED <<kv, loopVars, reported, cancelFlag, meta, devTable>>
  BY DEF IInv, PackStarved
<1>1. pending \in Rows /\ pending \in 1 .. Len(prompts)
  BY <1>0, PackNeedType
<1>2. Cardinality(free) \in Nat
  BY <1>0, FS_Subset, FS_CardinalityType, PoolAssumption DEF TypeOK, PoolTypeOK
<1>3. rest \in [Rows -> Nat] /\ \A r \in Rows \ {pending} : rest[r] = 0
  BY <1>2
<1> HIDE DEF rest
<1>4. /\ free' \subseteq Blocks /\ table' \in [Rows -> Seq(Blocks)]
      /\ freeSlots' \subseteq Slots /\ slot' \in [Rows -> Slots \cup {NoSlot}]
      /\ BlockOwnership' /\ SlotOwnership' /\ slot'[pending] # NoSlot
      /\ \A r \in Rows \ {pending} : slot'[r] = slot[r] /\ table'[r] = table[r]
  BY <1>0, <1>1, <1>3, AdmitKeepsOwnership
<1>5. \A r \in active \cup fresh : r \in Rows \ {pending}
  BY LoopFacts, <1>0, PromptFacts
<1>6. TypeOK'
  BY <1>0, <1>4 DEF TypeOK, PoolTypeOK, loopVars, Places
<1>7. PhaseInv'
  <2>1. \A r \in active \cup fresh : r < pending /\ slot'[r] # NoSlot
    BY <1>0, <1>4, <1>5 DEF PhaseInv, Holds
  <2>2. pending <= Len(prompts)
    BY <1>0, <1>1, PromptFacts
  <2>3. \A r \in Rows : slot'[r] # NoSlot =>
          r <= Len(prompts) /\ (r \in active \cup fresh \/ r = pending)
    BY <2>2, <1>0, <1>4 DEF PhaseInv, Holds
  <2> QED BY <2>1, <2>3, <1>0 DEF PhaseInv, loopVars, Holds
<1>8. LengthInv'
  BY <1>0 DEF LengthInv, loopVars
<1>9. MetaInv'
  BY <1>0, <1>4, <1>5 DEF MetaInv, loopVars
<1> QED
  BY <1>4, <1>6, <1>7, <1>8, <1>9 DEF IInv

\* A packed chunk: the pending row enters or grows, and either stays
\* pending with a cursor inside its prompt or becomes fresh.
LEMMA PackChunkStep == ASSUME IInv, PackChunk PROVE IInv'
<1>0. /\ TypeOK /\ BlockOwnership /\ SlotOwnership /\ PhaseInv /\ LengthInv /\ MetaInv
      /\ pc = "pack" /\ Packable /\ Grow(PackNeed) /\ TakeSlot(pending)
      /\ used' = used + Chunk
      /\ UNCHANGED <<prompts, active, clen, rlen, reported, cancelFlag, meta, devTable>>
  BY DEF IInv, PackChunk
<1>1. /\ pending \in Rows /\ pending \in 1 .. Len(prompts)
      /\ cursor[pending] \in Nat /\ Chunk \in Nat /\ Chunk > 0
      /\ cursor[pending] + Chunk <= prompts[pending] /\ prompts[pending] \in Nat
      /\ PackNeed \in [Rows -> Nat] /\ \A r \in Rows \ {pending} : PackNeed[r] = 0
  BY <1>0, PackNeedType
<1>2. \/ /\ fresh' = fresh \cup {pending} /\ cursor' = [cursor EXCEPT ![pending] = 0]
         /\ pending' = pending + 1 /\ pc' = "pack"
      \/ /\ cursor' = [cursor EXCEPT ![pending] = @ + Chunk]
         /\ cursor[pending] + Chunk # prompts[pending]
         /\ pc' = "forward" /\ UNCHANGED <<fresh, pending>>
  BY DEF PackChunk
<1>4. /\ free' \subseteq Blocks /\ table' \in [Rows -> Seq(Blocks)]
      /\ freeSlots' \subseteq Slots /\ slot' \in [Rows -> Slots \cup {NoSlot}]
      /\ BlockOwnership' /\ SlotOwnership' /\ slot'[pending] # NoSlot
      /\ \A r \in Rows \ {pending} : slot'[r] = slot[r] /\ table'[r] = table[r]
  BY <1>0, <1>1, AdmitKeepsOwnership
<1>5. /\ \A r \in active \cup fresh : r \in Rows \ {pending}
      /\ \A r \in active \cup fresh : r < pending + 1
      /\ pending \in Nat /\ used \in Nat /\ used' > 0 /\ used' \in Nat
      /\ pending < pending + 1 /\ Len(prompts) \in Nat
      /\ pending + 1 \in 1 .. Len(prompts) + 1
  <2>1. \A r \in active \cup fresh : r < pending /\ r \in Rows
    BY LoopFacts
  <2>2. /\ pending \in Nat /\ used \in Nat /\ Len(prompts) \in Nat
        /\ \A r \in Rows : r \in Nat
    BY <1>0, PromptFacts DEF Rows, TypeOK
  <2>3. /\ used' > 0 /\ used' \in Nat /\ pending < pending + 1
        /\ pending + 1 \in 1 .. Len(prompts) + 1
    BY <2>2, <1>0, <1>1
  <2>4. \A r \in Rows : r < pending => r # pending /\ r < pending + 1
    BY <2>2
  <2> QED BY <2>1, <2>2, <2>3, <2>4
<1>6. kv' \in [Cells -> (0 .. MaxRows) \X Nat]
  <2> DEFINE writes == {<<CellOf(table'[pending], p), <<pending, p>>>> :
                          p \in cursor[pending] .. cursor[pending] + Chunk - 1}
  <2>1. \A w \in writes : w[2] \in (0 .. MaxRows) \X Nat
    BY <1>1, PoolAssumption DEF Rows
  <2>2. kv' = Written(writes)
    BY DEF PackChunk
  <2> HIDE DEF writes
  <2> QED BY <2>1, <2>2, <1>0, WrittenType DEF TypeOK
<1>7. cursor' \in [Rows -> Nat]
  <2>1. cursor[pending] + Chunk \in Nat /\ cursor \in [Rows -> Nat]
    BY <1>0, <1>1 DEF TypeOK
  <2> QED BY <2>1, <1>2
<1>8. \A r \in Rows : cursor'[r] # 0 => r <= Len(prompts) /\ cursor'[r] < prompts[r]
  <2> SUFFICES ASSUME NEW r \in Rows, cursor'[r] # 0
               PROVE  r <= Len(prompts) /\ cursor'[r] < prompts[r]
    OBVIOUS
  <2>1. cursor \in [Rows -> Nat]
    BY <1>0 DEF TypeOK
  <2>2. CASE r # pending
    <3>1. cursor'[r] = cursor[r]
      BY <2>1, <2>2, <1>2
    <3> QED BY <3>1, <1>0 DEF PhaseInv
  <2>3. CASE r = pending
    <3>1. /\ cursor'[r] = cursor[pending] + Chunk
          /\ cursor[pending] + Chunk # prompts[pending]
      BY <2>1, <2>3, <1>2
    <3> QED BY <3>1, <2>3, <1>1
  <2> QED BY <2>2, <2>3
<1>9. fresh' \subseteq Rows /\ pending' \in 1 .. Len(prompts) + 1 /\ pc' \in Places
  BY <1>0, <1>1, <1>2, <1>5 DEF TypeOK, Places
<1>10. TypeOK'
  BY <1>0, <1>4, <1>5, <1>6, <1>7, <1>9 DEF TypeOK, PoolTypeOK
<1>11. PhaseInv'
  <2>1. \A r \in active' \cup fresh' : r < pending' /\ slot'[r] # NoSlot
    BY <1>0, <1>2, <1>4, <1>5 DEF PhaseInv, Holds
  <2>2. \A r \in Rows : slot'[r] # NoSlot =>
          r <= Len(prompts) /\ (r \in active' \cup fresh' \/ r = pending')
    BY <1>0, <1>1, <1>2, <1>4 DEF PhaseInv, Holds
  <2>3. active' \cap fresh' = {}
    BY <1>0, <1>2, <1>5 DEF PhaseInv
  <2> QED BY <2>1, <2>2, <2>3, <1>0, <1>2, <1>5, <1>8 DEF PhaseInv, Holds
<1>12. LengthInv'
  BY <1>0, <1>2, <1>5 DEF LengthInv
<1>13. MetaInv'
  <2> SUFFICES ASSUME HostMetadata
               PROVE  MetaInv'
    BY DEF MetaInv
  <2>1. \A r \in meta.rows : r \in Rows /\ r < pending /\ r \notin fresh
    BY <1>0 DEF MetaInv, TypeOK
  <2>2. \A r \in meta.rows : r < pending' /\ r \notin fresh'
    BY <2>1, <1>2, <1>5 DEF Rows
  <2> QED BY <2>2, <1>0, <1>2, <1>4, <1>5 DEF MetaInv
<1> QED
  BY <1>4, <1>10, <1>11, <1>12, <1>13 DEF IInv

-----------------------------------------------------------------------------
\* Rows of the active set, or about to enter it, give their resources back.
LEMMA RetireKeepsOwnership ==
  ASSUME IInv, NEW rows \in SUBSET (active \cup fresh), Release(rows)
  PROVE  /\ free' \subseteq Blocks /\ table' \in [Rows -> Seq(Blocks)]
         /\ freeSlots' \subseteq Slots /\ slot' \in [Rows -> Slots \cup {NoSlot}]
         /\ BlockOwnership' /\ SlotOwnership'
         /\ \A r \in Rows \ rows : slot'[r] = slot[r] /\ table'[r] = table[r]
         /\ \A r \in rows : slot'[r] = NoSlot
<1>1. rows \in SUBSET Holders /\ rows \subseteq Rows
  BY LoopFacts
<1>2. PoolTypeOK /\ BlockOwnership /\ SlotOwnership /\ NoSlot \notin Slots
  BY PoolAssumption DEF IInv, TypeOK
<1>3. /\ \A r \in Rows \ rows : slot'[r] = slot[r] /\ table'[r] = table[r]
      /\ \A r \in rows : slot'[r] = NoSlot
  BY <1>1 DEF Release
<1> QED
  BY <1>1, <1>2, <1>3, ReleaseKeepsOwnership

\* A completed prompt's first token comes from the prefill forward.
LEMMA FirstTokensStep == ASSUME IInv, FirstTokens PROVE IInv'
<1> DEFINE full == {r \in fresh : MaxNew <= 1}
           Gone(stopped) == stopped \cup full
<1>0. /\ TypeOK /\ PhaseInv /\ LengthInv /\ MetaInv /\ pc = "forward"
      /\ UNCHANGED <<prompts, pending, cursor, used, cancelFlag, meta, devTable, kv>>
  BY DEF IInv, FirstTokens
<1>1. PICK stopped \in SUBSET fresh :
        /\ reported' = Reported(Reported(reported, stopped, "stop"), full, "length")
        /\ rlen' = [r \in Rows |-> IF r \in fresh THEN 1 ELSE rlen[r]]
        /\ clen' = [r \in Rows |-> IF r \in fresh \ Gone(stopped) THEN prompts[r]
                                   ELSE clen[r]]
        /\ active' = active \cup (fresh \ Gone(stopped))
        /\ fresh' = fresh \ Gone(stopped)
        /\ Release(Gone(stopped))
        /\ pc' = IF SpecK > 0 /\ fresh # Gone(stopped) THEN "draft" ELSE "sweep"
  BY DEF FirstTokens
<1> DEFINE gone == Gone(stopped)
<1>2. /\ gone \in SUBSET (active \cup fresh)
      /\ \A r \in fresh \ gone : ~(MaxNew <= 1)
  OBVIOUS
<1>3. /\ reported' = Reported(Reported(reported, stopped, "stop"), full, "length")
      /\ rlen' = [r \in Rows |-> IF r \in fresh THEN 1 ELSE rlen[r]]
      /\ clen' = [r \in Rows |-> IF r \in fresh \ gone THEN prompts[r] ELSE clen[r]]
      /\ active' = active \cup (fresh \ gone) /\ fresh' = fresh \ gone
      /\ Release(gone)
      /\ pc' \in {"draft", "sweep"} /\ (pc' = "draft" => SpecK > 0)
  BY <1>1
<1>4. gone \subseteq fresh
  OBVIOUS
<1> HIDE DEF full, Gone, gone
<1>5. /\ free' \subseteq Blocks /\ table' \in [Rows -> Seq(Blocks)]
      /\ freeSlots' \subseteq Slots /\ slot' \in [Rows -> Slots \cup {NoSlot}]
      /\ BlockOwnership' /\ SlotOwnership'
      /\ \A r \in Rows \ gone : slot'[r] = slot[r] /\ table'[r] = table[r]
      /\ \A r \in gone : slot'[r] = NoSlot
  BY <1>2, <1>3, RetireKeepsOwnership
<1>6. /\ active \subseteq Rows /\ fresh \subseteq Rows /\ active \cap fresh = {}
      /\ \A r \in active \cup fresh : prompts[r] \in Nat
  BY <1>0, LoopFacts DEF PhaseInv
<1>7. rlen' \in [Rows -> 0 .. MaxNew]
  <2>1. 1 \in 0 .. MaxNew
    BY SchedulerAssumption
  <2> QED BY <2>1, <1>0, <1>3 DEF TypeOK
<1>8. clen' \in [Rows -> Nat] /\ reported' \in [Rows -> Reasons]
  BY <1>0, <1>3, <1>6 DEF TypeOK, Reported, Reasons
<1>9. TypeOK'
  BY <1>0, <1>3, <1>5, <1>6, <1>7, <1>8 DEF TypeOK, PoolTypeOK, Places
<1>10. PhaseInv'
  <2>1. \A r \in active' \cup fresh' : r < pending /\ slot'[r] # NoSlot
    BY <1>0, <1>3, <1>4, <1>5, <1>6 DEF PhaseInv, Holds
  <2>2. \A r \in Rows : slot'[r] # NoSlot =>
          r <= Len(prompts) /\ (r \in active' \cup fresh' \/ r = pending)
    BY <1>0, <1>3, <1>5 DEF PhaseInv, Holds
  <2> QED BY <2>1, <2>2, <1>0, <1>3 DEF PhaseInv, Holds
<1>11. LengthInv'
  <2> SUFFICES ASSUME NEW r \in active'
               PROVE  /\ 1 <= rlen'[r] /\ rlen'[r] < MaxNew
                      /\ clen'[r] = prompts[r] + rlen'[r] - 1
                      /\ r \in fresh' => rlen'[r] = 1
    BY <1>0 DEF LengthInv
  <2>1. CASE r \in active
    <3>1. r \notin fresh /\ r \in Rows
      BY <2>1, <1>6
    <3> QED BY <2>1, <3>1, <1>0, <1>3 DEF LengthInv
  <2>2. CASE r \in fresh \ gone
    <3>1. rlen'[r] = 1 /\ clen'[r] = prompts[r] /\ prompts[r] \in Nat
      BY <2>2, <1>3, <1>6
    <3>2. 1 < MaxNew
      BY <2>2, <1>2, SchedulerAssumption
    <3> QED BY <3>1, <3>2
  <2> QED BY <2>1, <2>2, <1>3
<1>12. MetaInv'
  <2> SUFFICES ASSUME HostMetadata PROVE MetaInv'
    BY DEF MetaInv
  <2>1. \A r \in active' \cap meta.rows :
          /\ r \in active /\ r \in Rows \ gone /\ rlen'[r] = rlen[r] /\ clen'[r] = clen[r]
    BY <1>0, <1>3, <1>4, <1>6 DEF MetaInv
  <2>2. \A r \in meta.rows : r < pending /\ r \notin fresh'
    BY <1>0, <1>3 DEF MetaInv
  <2>3. active' \subseteq meta.rows \cup fresh'
    BY <1>0, <1>3, <1>6 DEF MetaInv
  <2>4. \A r \in active' \cap meta.rows :
          /\ meta.len[r] = clen'[r]
          /\ meta.untilFull <= MaxNew - rlen'[r]
          /\ ~meta.dirty => devTable[r] = table'[r]
    BY <2>1, <1>0, <1>5 DEF MetaInv
  <2> QED BY <2>2, <2>3, <2>4, <1>0, <1>3 DEF MetaInv
<1> QED
  BY <1>5, <1>9, <1>10, <1>11, <1>12 DEF IInv

\* The rows of the last payload get blocks for their drafts.
LEMMA AdmittedRowDraftsStep == ASSUME IInv, AdmittedRowDrafts PROVE IInv'
<1>0. /\ TypeOK /\ BlockOwnership /\ SlotOwnership /\ PhaseInv /\ LengthInv
      /\ pc = "draft" /\ ~HostMetadata
      /\ UNCHANGED <<prompts, pending, cursor, used, active, clen, rlen, reported,
                     cancelFlag, meta, devTable>>
  BY SchedulerAssumption DEF IInv, PhaseInv, AdmittedRowDrafts
<1>1. CASE ~Fits(DraftNeed) /\ pc' = "failed" /\ UNCHANGED <<kvVars, fresh>>
  <2>1. pc' \in Places /\ cancelFlag' \in SUBSET Rows
    BY <1>0, <1>1 DEF TypeOK, Places
  <2> QED BY <2>1, <1>0, <1>1, MovesOn DEF loopVars
<1>2. CASE /\ Grow(DraftNeed)
           /\ kv' = Written(UNION {
                {<<CellOf(table'[r], p), Junk>> : p \in clen[r] .. clen[r] + SpecK - 2} :
                  r \in fresh})
           /\ fresh' = {} /\ pc' = "sweep"
           /\ UNCHANGED <<slot, freeSlots>>
  <2>1. DraftNeed \in [Rows -> Nat] /\ \A r \in Rows : DraftNeed[r] # 0 => Holds(r)
    <3>1. DraftSpan \in Nat
      BY SchedulerAssumption DEF DraftSpan, LargerOf
    <3>2. \A r \in Rows : DecodeNeed(r, clen[r], DraftSpan) \in Nat
      BY <3>1, <1>0, DecodeNeedType DEF TypeOK
    <3> QED BY <3>2, <1>0 DEF DraftNeed, PhaseInv
  <2>2. /\ free' \subseteq Blocks /\ table' \in [Rows -> Seq(Blocks)]
        /\ freeSlots' \subseteq Slots /\ slot' \in [Rows -> Slots \cup {NoSlot}]
        /\ BlockOwnership' /\ SlotOwnership'
    BY <2>1, <1>0, <1>2, GrowKeepsOwnership DEF TypeOK
  <2>3. kv' \in [Cells -> (0 .. MaxRows) \X Nat]
    <3> DEFINE writes == UNION {
          {<<CellOf(table'[r], p), Junk>> : p \in clen[r] .. clen[r] + SpecK - 2} :
            r \in fresh}
    <3>1. \A w \in writes : w[2] \in (0 .. MaxRows) \X Nat
      BY PoolAssumption DEF Junk
    <3>2. kv' = Written(writes)
      BY <1>2
    <3> HIDE DEF writes
    <3> QED BY <3>1, <3>2, <1>0, WrittenType DEF TypeOK
  <2>4. TypeOK'
    BY <1>0, <1>2, <2>2, <2>3 DEF TypeOK, PoolTypeOK, Places
  <2>5. PhaseInv'
    BY <1>0, <1>2 DEF PhaseInv, Holds
  <2>6. LengthInv'
    BY <1>0, <1>2 DEF LengthInv
  <2>7. MetaInv'
    BY <1>0 DEF MetaInv
  <2> QED BY <2>2, <2>4, <2>5, <2>6, <2>7 DEF IInv
<1> QED
  BY <1>1, <1>2 DEF AdmittedRowDrafts

-----------------------------------------------------------------------------
\* The least of what the members of a set of rows have.
LEMMA LeastOfImage ==
  ASSUME NEW rows \in SUBSET Rows, rows # {}, NEW f \in [rows -> Int]
  PROVE  /\ LeastOf({f[r] : r \in rows}) \in Int
         /\ \A r \in rows : LeastOf({f[q] : q \in rows}) <= f[r]
         /\ \E r \in rows : LeastOf({f[q] : q \in rows}) = f[r]
<1> DEFINE S == {f[r] : r \in rows}
<1>1. IsFiniteSet(rows)
  <2>1. IsFiniteSet(1 .. MaxRows)
    BY FS_Interval, PoolAssumption
  <2> QED BY <2>1, FS_Subset DEF Rows
<1>2. IsFiniteSet(S)
  <2>1. f \in Surjection(rows, S)
    BY DEF Surjection
  <2> QED BY <2>1, <1>1, FS_Surjection
<1>3. S \in SUBSET Int /\ S # {}
  OBVIOUS
<1>4. LeastOf(S) \in S /\ \A y \in S : LeastOf(S) <= y
  <2> HIDE DEF S
  <2> QED BY <1>2, <1>3, LeastOfFinite
<1> QED
  BY <1>3, <1>4

MetaTypes == [rows : SUBSET Rows, len : [Rows -> Nat], untilBlock : Int,
              untilFull : Int, dirty : BOOLEAN]

\* Wherever it is called, sync_rows makes the mirror true of every active row.
LEMMA SyncedFacts ==
  ASSUME IInv, HostMetadata
  PROVE  /\ Synced(meta, active) \in MetaTypes
         /\ Synced(meta, active).rows = active
         /\ \A r \in active :
              /\ Synced(meta, active).len[r] = clen[r]
              /\ Synced(meta, active).untilFull <= MaxNew - rlen[r]
              /\ ~Synced(meta, active).dirty => devTable[r] = table[r]
<1> DEFINE len == [r \in Rows |-> IF r \notin active THEN 0
                                  ELSE IF r \in meta.rows THEN meta.len[r]
                                  ELSE prompts[r]]
           ub == IF active = {} THEN 0 ELSE
              LeastOf({(CeilDiv(len[r], BlockSize) * BlockSize) - len[r] : r \in active})
           uf == IF active = {} THEN 0 ELSE
              LeastOf({MaxNew - (len[r] - prompts[r] + 1) : r \in active})
<1>0. TypeOK /\ LengthInv /\ MetaInv /\ meta \in MetaTypes
  BY DEF IInv, TypeOK, MetaTypes
<1>1. CASE meta.rows = active
  <2>1. Synced(meta, active) = meta
    BY <1>1 DEF Synced
  <2> QED BY <2>1, <1>0, <1>1 DEF MetaInv
<1>2. CASE meta.rows # active
  <2>1. Synced(meta, active) = [rows |-> active, len |-> len, untilBlock |-> ub,
                                untilFull |-> uf, dirty |-> TRUE]
    BY <1>2 DEF Synced
  <2>2. active \subseteq Rows /\ \A r \in active : prompts[r] \in Nat
    BY LoopFacts
  <2>3. len \in [Rows -> Nat]
    BY <1>0, <2>2 DEF MetaTypes
  <2>4. ASSUME NEW r \in active
        PROVE  len[r] = clen[r] /\ len[r] - prompts[r] + 1 = rlen[r]
    <3>1. clen[r] = prompts[r] + rlen[r] - 1 /\ rlen[r] \in Int /\ prompts[r] \in Int
      BY <1>0, <2>2 DEF TypeOK, LengthInv
    <3>2. CASE r \in meta.rows
      BY <3>1, <3>2, <1>0, <2>2 DEF MetaInv
    <3>3. CASE r \notin meta.rows
      <4>1. rlen[r] = 1
        BY <3>3, <1>0 DEF MetaInv, LengthInv
      <4> QED BY <4>1, <3>1, <3>3, <2>2
    <3> QED BY <3>2, <3>3
  <2> HIDE DEF len
  <2>5. ub \in Int
    <3>1. CASE active # {}
      <4> DEFINE f == [r \in active |-> (CeilDiv(len[r], BlockSize) * BlockSize) - len[r]]
      <4>1. f \in [active -> Int]
        BY <2>2, <2>3, PoolAssumption DEF CeilDiv
      <4>2. LeastOf({f[r] : r \in active}) \in Int
        <5> HIDE DEF f
        <5> QED BY <4>1, <2>2, <3>1, LeastOfImage
      <4>3. {f[r] : r \in active} =
              {(CeilDiv(len[r], BlockSize) * BlockSize) - len[r] : r \in active}
        OBVIOUS
      <4> QED BY <4>2, <4>3, <3>1
    <3> QED BY <3>1
  <2>6. uf \in Int /\ \A r \in active : uf <= MaxNew - rlen[r]
    <3>1. CASE active # {}
      <4> DEFINE f == [r \in active |-> MaxNew - (len[r] - prompts[r] + 1)]
      <4>1. f \in [active -> Int]
        BY <2>2, <2>3, SchedulerAssumption
      <4>2. /\ LeastOf({f[r] : r \in active}) \in Int
            /\ \A r \in active : LeastOf({f[q] : q \in active}) <= f[r]
        <5> HIDE DEF f
        <5> QED BY <4>1, <2>2, <3>1, LeastOfImage
      <4>3. {f[r] : r \in active} = {MaxNew - (len[r] - prompts[r] + 1) : r \in active}
        OBVIOUS
      <4>4. \A r \in active : f[r] = MaxNew - rlen[r]
        BY <2>4
      <4>5. uf = LeastOf({f[r] : r \in active})
        BY <4>3, <3>1
      <4> HIDE DEF f, uf
      <4> QED BY <4>2, <4>4, <4>5
    <3>2. CASE active = {}
      BY <3>2
    <3> QED BY <3>1, <3>2
  <2> HIDE DEF ub, uf
  <2> QED BY <2>1, <2>2, <2>3, <2>4, <2>5, <2>6 DEF MetaTypes
<1> QED
  BY <1>1, <1>2

\* A synchronised mirror is well typed whether or not it is in use.
LEMMA SyncedType ==
  ASSUME IInv
  PROVE  Synced(meta, active) \in MetaTypes
<1>1. CASE HostMetadata
  BY <1>1, SyncedFacts
<1>2. CASE ~HostMetadata
  BY <1>2 DEF Synced, IInv, TypeOK, MetaTypes
<1> QED
  BY <1>1, <1>2, SchedulerAssumption

-----------------------------------------------------------------------------
\* Cancelled rows leave before the step; the mirror has just been told of them.
LEMMA CancelSweepStep == ASSUME IInv, CancelSweep PROVE IInv'
<1> DEFINE cancelled == active \cap cancelFlag
           rest == active \ cancelled
<1>0. /\ TypeOK /\ PhaseInv /\ LengthInv /\ MetaInv /\ pc = "sweep"
      /\ UNCHANGED <<prompts, pending, cursor, used, cancelFlag, devTable, kv>>
      /\ fresh' = {} /\ fresh \subseteq active
  BY DEF IInv, CancelSweep, PhaseInv
<1>1. /\ active' = rest
      /\ clen' = [r \in Rows |-> IF r \in cancelled THEN 0 ELSE clen[r]]
      /\ Release(cancelled)
      /\ rlen' = [r \in Rows |-> IF r \in cancelled THEN 1 ELSE rlen[r]]
      /\ reported' = Reported(reported, cancelled, "cancelled")
      /\ meta' = Synced(meta, active)
      /\ pc' = IF rest # {} THEN "ensure" ELSE IF pending \in Arrived THEN "top" ELSE "done"
  BY DEF CancelSweep, Compact, AfterSweep
<1>2. /\ cancelled \in SUBSET (active \cup fresh)
      /\ rest \subseteq active /\ rest \cap cancelled = {} /\ active = rest \cup cancelled
  OBVIOUS
<1> HIDE DEF cancelled, rest
<1>3. /\ free' \subseteq Blocks /\ table' \in [Rows -> Seq(Blocks)]
      /\ freeSlots' \subseteq Slots /\ slot' \in [Rows -> Slots \cup {NoSlot}]
      /\ BlockOwnership' /\ SlotOwnership'
      /\ \A r \in Rows \ cancelled : slot'[r] = slot[r] /\ table'[r] = table[r]
      /\ \A r \in cancelled : slot'[r] = NoSlot
  BY <1>1, <1>2, RetireKeepsOwnership
<1>4. rest \subseteq Rows /\ \A r \in rest : r \in Rows \ cancelled
  BY <1>0, <1>2 DEF TypeOK
<1>5. TypeOK'
  <2>1. rlen' \in [Rows -> 0 .. MaxNew]
    <3>1. 1 \in 0 .. MaxNew
      BY SchedulerAssumption
    <3> QED BY <3>1, <1>0, <1>1 DEF TypeOK
  <2>2. clen' \in [Rows -> Nat] /\ reported' \in [Rows -> Reasons] /\ pc' \in Places
    BY <1>0, <1>1 DEF TypeOK, Reported, Reasons, Places
  <2>3. meta' \in MetaTypes
    BY <1>1, SyncedType
  <2> QED BY <2>1, <2>2, <2>3, <1>0, <1>1, <1>3, <1>4 DEF TypeOK, PoolTypeOK, MetaTypes
<1>6. PhaseInv'
  <2>1. \A r \in active' : r < pending /\ slot'[r] # NoSlot
    BY <1>0, <1>1, <1>2, <1>3, <1>4 DEF PhaseInv, Holds
  <2>2. \A r \in Rows : slot'[r] # NoSlot =>
          r <= Len(prompts) /\ (r \in active' \/ r = pending)
    BY <1>0, <1>1, <1>2, <1>3 DEF PhaseInv, Holds
  <2> QED BY <2>1, <2>2, <1>0, <1>1 DEF PhaseInv, Holds
<1>7. LengthInv'
  BY <1>0, <1>1, <1>2, <1>4 DEF LengthInv
<1>8. MetaInv'
  <2> SUFFICES ASSUME HostMetadata PROVE MetaInv'
    BY DEF MetaInv
  <2>1. /\ meta'.rows = active
        /\ \A r \in active : /\ meta'.len[r] = clen[r]
                             /\ meta'.untilFull <= MaxNew - rlen[r]
                             /\ ~meta'.dirty => devTable[r] = table[r]
    BY <1>1, SyncedFacts
  <2>2. \A r \in active : r < pending
    BY LoopFacts
  <2>3. \A r \in rest : clen'[r] = clen[r] /\ rlen'[r] = rlen[r] /\ table'[r] = table[r]
    BY <1>1, <1>3, <1>4
  <2>4. pc' # "decode"
    BY <1>1
  <2> QED BY <2>1, <2>2, <2>3, <2>4, <1>0, <1>1, <1>2 DEF MetaInv
<1> QED
  BY <1>3, <1>5, <1>6, <1>7, <1>8 DEF IInv

\* Only rows that hold a slot ask for decode blocks.
LEMMA EnsureNeedType ==
  ASSUME IInv, NEW len \in [Rows -> Nat]
  PROVE  /\ EnsureNeed(len) \in [Rows -> Nat]
         /\ \A r \in Rows : EnsureNeed(len)[r] # 0 => Holds(r)
<1>1. StepSpan \in Nat
  BY SchedulerAssumption DEF StepSpan
<1>2. \A r \in Rows : DecodeNeed(r, len[r], StepSpan) \in Nat
  BY <1>1, DecodeNeedType DEF IInv
<1> QED
  BY <1>2 DEF EnsureNeed, IInv, PhaseInv

\* Without the mirror, growth is all that happens before a step.
LEMMA EnsureBlocksStep == ASSUME IInv, EnsureBlocks PROVE IInv'
<1>0. /\ TypeOK /\ BlockOwnership /\ SlotOwnership /\ PhaseInv /\ LengthInv
      /\ ~HostMetadata /\ pc = "ensure" /\ pc' = "decode" /\ Grow(EnsureNeed(clen))
      /\ UNCHANGED <<loopVars, reported, cancelFlag, meta, devTable, slot, freeSlots, kv>>
  BY DEF IInv, EnsureBlocks
<1>1. /\ EnsureNeed(clen) \in [Rows -> Nat]
      /\ \A r \in Rows : EnsureNeed(clen)[r] # 0 => Holds(r)
  BY <1>0, EnsureNeedType DEF TypeOK
<1>2. /\ free' \subseteq Blocks /\ table' \in [Rows -> Seq(Blocks)]
      /\ freeSlots' \subseteq Slots /\ slot' \in [Rows -> Slots \cup {NoSlot}]
      /\ BlockOwnership' /\ SlotOwnership'
  BY <1>0, <1>1, GrowKeepsOwnership DEF TypeOK
<1>3. TypeOK'
  BY <1>0, <1>2 DEF TypeOK, PoolTypeOK, loopVars, Places
<1>4. PhaseInv' /\ LengthInv'
  BY <1>0 DEF PhaseInv, LengthInv, loopVars, Holds
<1>5. MetaInv'
  BY <1>0 DEF MetaInv
<1> QED
  BY <1>2, <1>3, <1>4, <1>5 DEF IInv

\* The mirror is brought up to date, and the device tables when they must be.
LEMMA PrepareMetadataStep == ASSUME IInv, PrepareMetadata PROVE IInv'
<1> DEFINE m == Synced(meta, active)
<1>0. /\ TypeOK /\ BlockOwnership /\ SlotOwnership /\ PhaseInv /\ LengthInv
      /\ HostMetadata /\ pc = "ensure" /\ pc' = "decode" /\ fresh = {} /\ active # {}
      /\ UNCHANGED <<loopVars, reported, cancelFlag, slot, freeSlots, kv>>
  BY DEF IInv, PrepareMetadata, PhaseInv
<1>1. /\ m \in MetaTypes /\ m.rows = active
      /\ \A r \in active : /\ m.len[r] = clen[r]
                           /\ m.untilFull <= MaxNew - rlen[r]
                           /\ ~m.dirty => devTable[r] = table[r]
  BY <1>0, SyncedFacts
<1>2. \/ /\ Grow(EnsureNeed(m.len))
         /\ devTable' = [r \in Rows |-> IF r \in active THEN table'[r] ELSE <<>>]
         /\ meta' = [m EXCEPT !.dirty = FALSE, !.untilBlock =
              LeastOf({BlockSize - (m.len[r] % BlockSize) : r \in m.rows})]
      \/ ~m.dirty /\ meta' = m /\ UNCHANGED <<free, table, devTable>>
  BY DEF PrepareMetadata
<1> HIDE DEF m
<1>3. active \subseteq Rows /\ \A r \in active : r < pending
  BY LoopFacts
<1>4. LeastOf({BlockSize - (m.len[r] % BlockSize) : r \in m.rows}) \in Int
  <2> DEFINE f == [r \in active |-> BlockSize - (m.len[r] % BlockSize)]
  <2>1. f \in [active -> Int]
    BY <1>1, <1>3, PoolAssumption DEF MetaTypes
  <2>2. LeastOf({f[r] : r \in active}) \in Int
    <3> HIDE DEF f
    <3> QED BY <2>1, <1>0, <1>3, LeastOfImage
  <2>3. {f[r] : r \in active} = {BlockSize - (m.len[r] % BlockSize) : r \in m.rows}
    BY <1>1
  <2> QED BY <2>2, <2>3
<1>5. /\ meta' \in MetaTypes /\ meta'.rows = active /\ ~meta'.dirty
      /\ \A r \in active : /\ meta'.len[r] = clen[r]
                           /\ meta'.untilFull <= MaxNew - rlen[r]
  BY <1>1, <1>2, <1>4 DEF MetaTypes
<1>6. /\ free' \subseteq Blocks /\ table' \in [Rows -> Seq(Blocks)]
      /\ freeSlots' \subseteq Slots /\ slot' \in [Rows -> Slots \cup {NoSlot}]
      /\ BlockOwnership' /\ SlotOwnership'
  <2>1. CASE Grow(EnsureNeed(m.len))
    <3>1. /\ EnsureNeed(m.len) \in [Rows -> Nat]
          /\ \A r \in Rows : EnsureNeed(m.len)[r] # 0 => Holds(r)
      BY <1>1, EnsureNeedType DEF MetaTypes
    <3> QED BY <3>1, <2>1, <1>0, GrowKeepsOwnership DEF TypeOK
  <2>2. CASE UNCHANGED <<free, table>>
    BY <2>2, <1>0, PoolFrame
  <2> QED BY <2>1, <2>2, <1>2
<1>7. devTable' \in [Rows -> Seq(Blocks)] /\ \A r \in active : devTable'[r] = table'[r]
  <2>1. CASE devTable' = [r \in Rows |-> IF r \in active THEN table'[r] ELSE <<>>]
    BY <2>1, <1>3, <1>6, EmptySeq
  <2>2. CASE ~m.dirty /\ UNCHANGED <<table, devTable>>
    BY <2>2, <1>0, <1>1 DEF TypeOK
  <2> QED BY <2>1, <2>2, <1>2
<1>8. TypeOK'
  BY <1>0, <1>5, <1>6, <1>7 DEF TypeOK, PoolTypeOK, MetaTypes, loopVars, Places
<1>9. PhaseInv' /\ LengthInv'
  BY <1>0 DEF PhaseInv, LengthInv, loopVars, Holds
<1>10. MetaInv'
  BY <1>0, <1>3, <1>5, <1>7 DEF MetaInv, loopVars
<1> QED
  BY <1>6, <1>8, <1>9, <1>10 DEF IInv

-----------------------------------------------------------------------------
\* One row's share of a step fills at most the room it has, and a row that
\* neither stops nor fills up commits every token it was given.
LEMMA RowStep ==
  ASSUME IInv, NEW r \in active, NEW o \in Outcomes
  PROVE  /\ o[1] \in Nat /\ NewTokens(r, o) \in Nat
         /\ 1 <= NewTokens(r, o) /\ rlen[r] + NewTokens(r, o) <= MaxNew
         /\ ~Stops(r, o) /\ rlen[r] + NewTokens(r, o) < MaxNew =>
              NewTokens(r, o) = o[1] + 1
         /\ HostMetadata => NewTokens(r, o) = 1
<1>1. rlen[r] \in Nat /\ rlen[r] < MaxNew /\ MaxNew \in Nat
  BY SchedulerAssumption, LoopFacts DEF IInv, TypeOK, LengthInv
<1>2. o[1] \in 0 .. SpecK /\ o[2] \in 0 .. SpecK + 1 /\ o[2] <= o[1] + 1 /\ SpecK \in Nat
  BY SchedulerAssumption DEF Outcomes
<1>3. CASE SpecK = 0
  BY <1>1, <1>2, <1>3 DEF NewTokens
<1>4. CASE SpecK # 0
  <2>1. ~HostMetadata /\ SpecK > 0
    BY <1>2, <1>4, SchedulerAssumption
  <2> QED BY <2>1, <1>1, <1>2, <1>4 DEF NewTokens, Stops, SmallerOf
<1> QED
  BY <1>3, <1>4

\* The rows the mirror retires are exactly those that have no room left.
LEMMA MirrorFullFacts ==
  ASSUME IInv, HostMetadata, pc = "decode", NEW m \in MetaTypes, m.rows = active,
         \A r \in active : m.len[r] = meta.len[r] + 1,
         m.untilFull = meta.untilFull - 1
  PROVE  /\ MirrorFull(m) \subseteq active
         /\ \A r \in active \ MirrorFull(m) : rlen[r] + 1 < MaxNew
<1>1. MetaInv /\ LengthInv /\ TypeOK
  BY DEF IInv
<1>2. ASSUME NEW r \in active, r \notin MirrorFull(m)
      PROVE  rlen[r] + 1 < MaxNew
  <2>1. /\ r \in Rows /\ prompts[r] \in Int /\ rlen[r] \in Int /\ MaxNew \in Int
        /\ meta.untilFull \in Int
    BY <1>1, LoopFacts, SchedulerAssumption DEF TypeOK
  <2>2. /\ meta.len[r] = clen[r] /\ clen[r] = prompts[r] + rlen[r] - 1
        /\ meta.untilFull <= MaxNew - rlen[r]
    BY <1>1 DEF MetaInv, LengthInv
  <2>3. m.len[r] - prompts[r] + 1 = rlen[r] + 1
    BY <2>1, <2>2
  <2>4. CASE m.untilFull > 0
    BY <2>1, <2>2, <2>4
  <2>5. CASE ~(m.untilFull > 0)
    <3>1. ~(m.len[r] - prompts[r] + 1 >= MaxNew)
      BY <2>5, <1>2 DEF MirrorFull
    <3> QED BY <3>1, <2>1, <2>3
  <2> QED BY <2>4, <2>5
<1> QED
  BY <1>2 DEF MirrorFull

\* What a decode step does, row by row: some rows leave, each of them with a
\* report or a raised flag; the others commit what they were given.
DecodeEffect ==
  \E out \in [active -> Outcomes], leave \in SUBSET active :
    /\ kv' = Written(StepWrites(out))
    /\ Release(leave) /\ active' = active \ leave
    /\ \A r \in active : rlen'[r] \in 1 .. MaxNew
    /\ \A r \in active \ leave : /\ rlen'[r] = rlen[r] + out[r][1] + 1
                                 /\ clen'[r] = clen[r] + out[r][1] + 1
    /\ \A r \in Rows \ active : rlen'[r] = rlen[r]
    /\ \A r \in leave : reported'[r] # "none" \/ r \in cancelFlag
    /\ \A r \in Rows : reported[r] # "none" => reported'[r] # "none"
    /\ HostMetadata => /\ meta'.rows = active /\ meta'.dirty = meta.dirty
                       /\ meta'.untilBlock = meta.untilBlock - 1

\* One decode step: lengths advance, rows at the cap or at a stop token
\* retire with their blocks and slots, and the mirror follows.
LEMMA DecodeStepStep == ASSUME IInv, DecodeStep PROVE IInv' /\ DecodeEffect
<1> DEFINE len(out)     == [r \in Rows |-> IF r \in active
                              THEN rlen[r] + NewTokens(r, out[r]) ELSE rlen[r]]
           m            == IF ~HostMetadata THEN meta
                           ELSE [meta EXCEPT !.len = [r \in Rows |->
                                   IF r \in meta.rows THEN @[r] + 1 ELSE @[r]],
                                   !.untilBlock = @ - 1, !.untilFull = @ - 1]
           stopped(out) == {r \in active : Stops(r, out[r])}
           full(out)    == IF HostMetadata THEN MirrorFull(m) ELSE FullLength(len(out))
           late         == active \cap cancelFlag
           gone(out)    == stopped(out) \cup full(out) \cup late
<1>0. /\ TypeOK /\ PhaseInv /\ LengthInv /\ MetaInv /\ pc = "decode" /\ pc' = "top"
      /\ fresh = {} /\ fresh' = {}
      /\ UNCHANGED <<prompts, pending, cursor, used, cancelFlag, devTable>>
  BY DEF IInv, DecodeStep, PhaseInv
<1>1. PICK out \in [active -> Outcomes] :
        /\ kv' = Written(StepWrites(out))
        /\ meta' = m
        /\ rlen' = [r \in Rows |-> IF r \in late
                      THEN SmallerOf(len(out)[r], MaxNew - 1) + 1 ELSE len(out)[r]]
        /\ reported' = Reported(Reported(reported, stopped(out), "stop"), full(out), "length")
        /\ active' = active \ gone(out)
        /\ clen' = [r \in Rows |-> IF r \in gone(out) THEN 0
                      ELSE IF r \in active THEN clen[r] + out[r][1] + 1 ELSE clen[r]]
        /\ Release(gone(out))
  BY DEF DecodeStep
<1> DEFINE lens == len(out)  fulls == full(out)  leave == gone(out)
<1>2. active \subseteq Rows /\ \A r \in active : r < pending /\ prompts[r] \in Nat
  BY LoopFacts
<1>3. \A r \in active : out[r] \in Outcomes
  OBVIOUS
<1>4. lens \in [Rows -> 0 .. MaxNew]
  <2>1. \A r \in active : rlen[r] + NewTokens(r, out[r]) \in 0 .. MaxNew
    BY <1>0, <1>2, <1>3, RowStep, SchedulerAssumption DEF TypeOK
  <2>2. \A r \in Rows : rlen[r] \in 0 .. MaxNew
    BY <1>0 DEF TypeOK
  <2> QED BY <2>1, <2>2
<1>5. /\ m \in MetaTypes
      /\ HostMetadata => /\ m.rows = active
                         /\ \A r \in active : m.len[r] = meta.len[r] + 1
                         /\ m.untilFull = meta.untilFull - 1
                         /\ m.untilBlock = meta.untilBlock - 1
                         /\ m.dirty = meta.dirty
  <2>1. meta \in MetaTypes /\ (HostMetadata => meta.rows = active)
    BY <1>0 DEF TypeOK, MetaTypes, MetaInv
  <2>2. CASE HostMetadata
    <3> DEFINE one == [r \in Rows |-> IF r \in meta.rows THEN meta.len[r] + 1
                                      ELSE meta.len[r]]
    <3>1. m = [meta EXCEPT !.len = one, !.untilBlock = meta.untilBlock - 1,
                           !.untilFull = meta.untilFull - 1]
      BY <2>2
    <3>2. one \in [Rows -> Nat]
      BY <2>1 DEF MetaTypes
    <3>3. \A r \in active : one[r] = meta.len[r] + 1
      BY <2>1, <2>2, <1>2
    <3> HIDE DEF one, m
    <3>4. /\ m.rows = meta.rows /\ m.len = one /\ m.dirty = meta.dirty
          /\ m.untilFull = meta.untilFull - 1 /\ m.untilBlock = meta.untilBlock - 1
      BY <2>1, <3>1 DEF MetaTypes
    <3>5. m \in MetaTypes
      <4>1. meta.untilBlock - 1 \in Int /\ meta.untilFull - 1 \in Int
        BY <2>1 DEF MetaTypes
      <4>2. m = [rows |-> meta.rows, len |-> one, untilBlock |-> meta.untilBlock - 1,
                 untilFull |-> meta.untilFull - 1, dirty |-> meta.dirty]
        BY <2>1, <3>1 DEF MetaTypes
      <4> QED BY <2>1, <3>2, <4>1, <4>2 DEF MetaTypes
    <3> QED BY <2>1, <2>2, <3>3, <3>4, <3>5
  <2>3. CASE ~HostMetadata
    BY <2>1, <2>3
  <2> QED BY <2>2, <2>3
<1>6. fulls \subseteq active
  <2>1. CASE HostMetadata
    <3> HIDE DEF m
    <3> QED BY <2>1, <1>0, <1>5, MirrorFullFacts
  <2>2. CASE ~HostMetadata
    BY <2>2 DEF FullLength
  <2> QED BY <2>1, <2>2
<1>7. leave \subseteq active
  <2> HIDE DEF fulls, full
  <2> QED BY <1>6 DEF fulls
<1>8. ASSUME NEW r \in active \ leave
      PROVE  /\ lens[r] < MaxNew /\ lens[r] = rlen[r] + NewTokens(r, out[r])
             /\ NewTokens(r, out[r]) = out[r][1] + 1
             /\ r \notin late
  <2>1. ~Stops(r, out[r]) /\ r \notin fulls /\ r \notin late
    OBVIOUS
  <2>2. lens[r] = rlen[r] + NewTokens(r, out[r]) /\ r \in active
    BY <1>2
  <2>3. lens[r] < MaxNew
    <3>1. CASE HostMetadata
      <4>1. rlen[r] + 1 < MaxNew
        <5>1. r \notin MirrorFull(m)
          BY <2>1, <3>1
        <5> HIDE DEF m
        <5> QED BY <5>1, <2>2, <3>1, <1>0, <1>5, MirrorFullFacts
      <4>2. NewTokens(r, out[r]) = 1
        BY <2>2, <3>1, <1>3, RowStep
      <4> QED BY <4>1, <4>2, <2>2
    <3>2. CASE ~HostMetadata
      <4>1. ~(lens[r] >= MaxNew)
        BY <2>1, <2>2, <3>2 DEF FullLength
      <4>2. lens[r] \in 0 .. MaxNew /\ MaxNew \in Nat
        <5> HIDE DEF lens
        <5> QED BY <1>2, <1>4, <2>2, SchedulerAssumption
      <4> QED BY <4>1, <4>2
    <3> QED BY <3>1, <3>2
  <2>4. NewTokens(r, out[r]) = out[r][1] + 1
    BY <2>1, <2>2, <2>3, <1>3, RowStep
  <2> QED BY <2>1, <2>2, <2>3, <2>4
<1>9. /\ kv' = Written(StepWrites(out)) /\ meta' = m
      /\ rlen' = [r \in Rows |-> IF r \in late
                    THEN SmallerOf(lens[r], MaxNew - 1) + 1 ELSE lens[r]]
      /\ reported' = Reported(Reported(reported, stopped(out), "stop"), fulls, "length")
      /\ active' = active \ leave
      /\ clen' = [r \in Rows |-> IF r \in leave THEN 0
                    ELSE IF r \in active THEN clen[r] + out[r][1] + 1 ELSE clen[r]]
      /\ Release(leave)
  BY <1>1
<1>9a. /\ \A r \in leave : reported'[r] # "none" \/ r \in cancelFlag
       /\ \A r \in Rows : reported[r] # "none" => reported'[r] # "none"
  <2>1. reported' = Reported(Reported(reported, stopped(out), "stop"), fulls, "length")
    BY <1>9
  <2>2. \A r \in leave : r \in Rows /\ (r \in stopped(out) \/ r \in fulls \/ r \in cancelFlag)
    BY <1>2, <1>7
  <2> HIDE DEF stopped, fulls, leave
  <2> QED BY <2>1, <2>2 DEF Reported
<1> HIDE DEF len, m, stopped, full, gone, lens, fulls, leave, late
<1>10. leave \in SUBSET (active \cup fresh)
  BY <1>7
<1>11. /\ free' \subseteq Blocks /\ table' \in [Rows -> Seq(Blocks)]
       /\ freeSlots' \subseteq Slots /\ slot' \in [Rows -> Slots \cup {NoSlot}]
       /\ BlockOwnership' /\ SlotOwnership'
       /\ \A r \in Rows \ leave : slot'[r] = slot[r] /\ table'[r] = table[r]
       /\ \A r \in leave : slot'[r] = NoSlot
  BY <1>9, <1>10, RetireKeepsOwnership
<1>12. TypeOK'
  <2>1. kv' \in [Cells -> (0 .. MaxRows) \X Nat]
    <3>1. \A r \in active : \A p \in clen[r] .. LastWrite(r, out[r]) :
            (IF p <= clen[r] + out[r][1] THEN <<r, p>> ELSE Junk) \in (0 .. MaxRows) \X Nat
      <4>1. \A r \in active : clen[r] \in Nat /\ r \in 0 .. MaxRows
        BY <1>0, <1>2, PoolAssumption DEF TypeOK, Rows
      <4> QED BY <4>1, PoolAssumption DEF Junk
    <3>2. ASSUME NEW w \in StepWrites(out)
          PROVE  w[2] \in (0 .. MaxRows) \X Nat
      <4>1. PICK r \in active :
              w \in {<<CellOf(KernelTable(r), p),
                       IF p <= clen[r] + out[r][1] THEN <<r, p>> ELSE Junk>> :
                        p \in clen[r] .. LastWrite(r, out[r])}
        BY DEF StepWrites
      <4>2. PICK p \in clen[r] .. LastWrite(r, out[r]) :
              w = <<CellOf(KernelTable(r), p),
                    IF p <= clen[r] + out[r][1] THEN <<r, p>> ELSE Junk>>
        BY <4>1
      <4>3. w[2] = IF p <= clen[r] + out[r][1] THEN <<r, p>> ELSE Junk
        BY <4>2
      <4> QED BY <4>3, <3>1
    <3> QED BY <3>2, <1>0, <1>9, WrittenType DEF TypeOK
  <2>2. rlen' \in [Rows -> 0 .. MaxNew]
    <3>1. \A r \in Rows : lens[r] \in 0 .. MaxNew
      BY <1>4
    <3>2. \A r \in Rows : SmallerOf(lens[r], MaxNew - 1) + 1 \in 0 .. MaxNew
      BY <3>1, SchedulerAssumption DEF SmallerOf
    <3> QED BY <3>1, <3>2, <1>9
  <2>3. clen' \in [Rows -> Nat]
    <3>1. \A r \in active : clen[r] + out[r][1] + 1 \in Nat
      BY <1>0, <1>2, <1>3, RowStep DEF TypeOK
    <3> QED BY <3>1, <1>0, <1>9 DEF TypeOK
  <2>4. reported' \in [Rows -> Reasons] /\ active' \subseteq Rows /\ pc' \in Places
    BY <1>0, <1>2, <1>9 DEF TypeOK, Reported, Reasons, Places
  <2> QED BY <2>1, <2>2, <2>3, <2>4, <1>0, <1>5, <1>9, <1>11
          DEF TypeOK, PoolTypeOK, MetaTypes
<1>13. PhaseInv'
  <2>1. \A r \in active' : r < pending /\ slot'[r] # NoSlot
    BY <1>0, <1>2, <1>9, <1>11 DEF PhaseInv, Holds
  <2>2. \A r \in Rows : slot'[r] # NoSlot =>
          r <= Len(prompts) /\ (r \in active' \/ r = pending)
    BY <1>0, <1>9, <1>11 DEF PhaseInv, Holds
  <2> QED BY <2>1, <2>2, <1>0 DEF PhaseInv, Holds
<1>14. ASSUME NEW r \in active'
       PROVE  /\ r \in active \ leave /\ r \in Rows \ leave
              /\ rlen'[r] = rlen[r] + out[r][1] + 1 /\ rlen'[r] < MaxNew
              /\ clen'[r] = clen[r] + out[r][1] + 1
  <2>1. r \in active \ leave /\ r \in Rows \ leave
    BY <1>2, <1>9
  <2>2. /\ rlen'[r] = lens[r] /\ rlen[r] \in Nat /\ out[r][1] \in Nat
        /\ clen'[r] = clen[r] + out[r][1] + 1
    BY <2>1, <1>0, <1>3, <1>8, <1>9, RowStep DEF TypeOK
  <2> QED BY <2>1, <2>2, <1>8
<1>15. LengthInv'
  <2> SUFFICES ASSUME NEW r \in active'
               PROVE  /\ 1 <= rlen'[r] /\ rlen'[r] < MaxNew
                      /\ clen'[r] = prompts[r] + rlen'[r] - 1
    BY <1>0 DEF LengthInv
  <2>1. /\ clen[r] = prompts[r] + rlen[r] - 1 /\ 1 <= rlen[r]
        /\ rlen[r] \in Nat /\ prompts[r] \in Nat /\ out[r][1] \in Nat
    BY <1>0, <1>2, <1>3, <1>14, RowStep DEF LengthInv, TypeOK
  <2> QED BY <2>1, <1>14
<1>16. MetaInv'
  <2> SUFFICES ASSUME HostMetadata PROVE MetaInv'
    BY DEF MetaInv
  <2>1. /\ meta'.rows = active /\ meta'.dirty = meta.dirty /\ ~meta.dirty
        /\ meta'.untilFull = meta.untilFull - 1 /\ meta.untilFull \in Int
    BY <1>0, <1>5, <1>9 DEF MetaInv, TypeOK
  <2>2. ASSUME NEW r \in active'
        PROVE  /\ meta'.len[r] = clen'[r] /\ meta'.untilFull <= MaxNew - rlen'[r]
               /\ devTable[r] = table'[r]
    <3>1. /\ meta.len[r] = clen[r] /\ meta.untilFull <= MaxNew - rlen[r]
          /\ devTable[r] = table[r] /\ meta'.len[r] = meta.len[r] + 1
      BY <1>0, <1>5, <1>9, <1>14 DEF MetaInv
    <3>2. out[r][1] = 0
      BY <1>3, <1>14, SchedulerAssumption DEF Outcomes
    <3>3. /\ rlen'[r] = rlen[r] + 1 /\ clen'[r] = clen[r] + 1
          /\ rlen[r] \in Int /\ clen[r] \in Int /\ MaxNew \in Int
      BY <3>2, <1>0, <1>14, SchedulerAssumption DEF TypeOK
    <3>4. table'[r] = table[r]
      BY <1>11, <1>14
    <3> QED BY <3>1, <3>3, <3>4, <2>1
  <2>3. active' \subseteq active
    BY <1>14
  <2> QED BY <2>1, <2>2, <2>3, <1>0, <1>2 DEF MetaInv
<1>17. \A r \in active : rlen'[r] \in 1 .. MaxNew
  <2> SUFFICES ASSUME NEW r \in active PROVE rlen'[r] \in 1 .. MaxNew
    OBVIOUS
  <2>1. lens[r] \in 1 .. MaxNew
    <3>1. lens[r] = rlen[r] + NewTokens(r, out[r]) /\ rlen[r] \in Nat
      BY <1>0, <1>2 DEF lens, len, TypeOK
    <3>2. 1 <= NewTokens(r, out[r]) /\ NewTokens(r, out[r]) \in Nat
      BY <1>3, RowStep
    <3>3. lens[r] \in 0 .. MaxNew
      BY <1>2, <1>4
    <3> QED BY <3>1, <3>2, <3>3, SchedulerAssumption
  <2>2. SmallerOf(lens[r], MaxNew - 1) + 1 \in 1 .. MaxNew
    BY <2>1, SchedulerAssumption DEF SmallerOf
  <2>3. r \in Rows
    BY <1>2
  <2> QED BY <2>1, <2>2, <2>3, <1>9
<1>18. \A r \in Rows \ active : rlen'[r] = rlen[r]
  <2>1. \A r \in Rows \ active : lens[r] = rlen[r] /\ r \notin late
    BY DEF lens, len, late
  <2> QED BY <2>1, <1>9
<1>19. DecodeEffect
  <2>1. \A r \in active \ leave : /\ rlen'[r] = rlen[r] + out[r][1] + 1
                                  /\ clen'[r] = clen[r] + out[r][1] + 1
    BY <1>9, <1>14
  <2>2. HostMetadata => /\ meta'.rows = active /\ meta'.dirty = meta.dirty
                        /\ meta'.untilBlock = meta.untilBlock - 1
    BY <1>5, <1>9
  <2>3. leave \in SUBSET active /\ out \in [active -> Outcomes]
    BY <1>7
  <2> QED BY <2>1, <2>2, <2>3, <1>9, <1>9a, <1>17, <1>18 DEF DecodeEffect
<1> QED
  BY <1>11, <1>12, <1>13, <1>15, <1>16, <1>19 DEF IInv

-----------------------------------------------------------------------------
\* The induction.
LEMMA InitIInv == ASSUME Init PROVE IInv
<1> USE PoolAssumption, SchedulerAssumption
<1>1. PICK n \in 1 .. MaxRows : prompts \in [1 .. n -> PromptLens]
  BY DEF Init
<1>2. prompts \in Seq(PromptLens) /\ Len(prompts) = n
  <2>1. prompts \in Seq(PromptLens)
    BY <1>1, SeqDef
  <2> QED BY <2>1, <1>1, LenProperties
<1>3. PoolTypeOK
  BY EmptySeq DEF Init, PoolInit, PoolTypeOK, Junk, Cells
<1>4. TypeOK
  <2>1. /\ pc \in Places /\ reported \in [Rows -> Reasons] /\ rlen \in [Rows -> 0 .. MaxNew]
        /\ devTable \in [Rows -> Seq(Blocks)] /\ pending \in 1 .. Len(prompts) + 1
    BY <1>1, <1>2, EmptySeq DEF Init, Places, Reasons
  <2> QED BY <2>1, <1>1, <1>2, <1>3 DEF Init, TypeOK, NoMeta
<1>5. BlockOwnership /\ SlotOwnership
  BY DEF Init, PoolInit, BlockOwnership, SlotOwnership, Holds
<1>6. PhaseInv /\ LengthInv /\ MetaInv
  BY DEF Init, PoolInit, PhaseInv, LengthInv, MetaInv, NoMeta, Holds
<1> QED
  BY <1>4, <1>5, <1>6 DEF IInv

\* Every step of the loop keeps the invariant, by its action.
LEMMA NextIInv == ASSUME IInv, [Next]_vars PROVE IInv'
<1>1. CASE LoopStep
  BY <1>1, RefillStep, PackChunkStep, PackStarvedStep, PackDoneStep, FailingStep,
     ForwardPartialStep, FirstTokensStep, AdmittedRowDraftsStep, CancelSweepStep,
     EnsureBlocksStep, PrepareMetadataStep, DecodeStepStep DEF LoopStep
<1>2. CASE \E r \in Rows : Cancel(r)
  BY <1>2, CancelStep
<1>3. CASE UNCHANGED vars
  <2>1. /\ UNCHANGED <<loopVars, reported, meta, devTable, kvVars>>
        /\ pc' = pc /\ pc' \in Places /\ cancelFlag' \in SUBSET Rows
    BY <1>3 DEF vars, IInv, TypeOK
  <2> QED BY <2>1, MovesOn
<1> QED
  BY <1>1, <1>2, <1>3 DEF Next, Terminated

\* The inductive invariant of the rollout loop
\* (_generate_rollout_tokens_no_sync) holds always.
THEOREM IInvHolds == Spec => []IInv
<1>1. Init => IInv
  BY InitIInv
<1>2. IInv /\ [Next]_vars => IInv'
  BY NextIInv
<1> QED
  BY <1>1, <1>2, PTL DEF Spec

\* Every variable keeps its type: in particular no response buffer of MaxNew
\* tokens is ever overrun, whatever is drafted and accepted.
THEOREM TypesHold == Spec => []TypeOK
<1>1. IInv => TypeOK
  BY DEF IInv
<1> QED
  BY <1>1, IInvHolds, PTL

\* No block serves two rows, is handed out twice or leaks, in any run of the
\* loop, the failing ones included (_free_rollout_rows, build_prefill_payload,
\* ensure_decode_blocks).
THEOREM BlocksOwned == Spec => []BlockOwnership
<1>1. IInv => BlockOwnership
  BY DEF IInv
<1> QED
  BY <1>1, IInvHolds, PTL

\* The same for recurrent slots.
THEOREM SlotsOwned == Spec => []SlotOwnership
<1>1. IInv => SlotOwnership
  BY DEF IInv
<1> QED
  BY <1>1, IInvHolds, PTL

\* An active row always has room for the next token: full_length and the
\* mirror's full_length_mask retire a row in the very step that fills it.
THEOREM RoomHolds == Spec => []RoomForNextToken
<1>1. IInv => RoomForNextToken
  BY DEF IInv, LengthInv, RoomForNextToken
<1> QED
  BY <1>1, IInvHolds, PTL

\* At every decode step the host mirror agrees with the device.
THEOREM MirrorHolds == Spec => []MirrorExact
<1>1. IInv => MirrorExact
  BY DEF IInv, MetaInv, MirrorExact
<1> QED
  BY <1>1, IInvHolds, PTL
=============================================================================
