-------------------------- MODULE RolloutScheduler --------------------------
(***************************************************************************)
(* One rank's rollout loop: InferenceManager._generate_rollout_tokens_-    *)
(* no_sync (engine/inference.py) driving InferenceBatchState               *)
(* (engine/data/rollout_state.py) and, for one-token decode, the host      *)
(* mirror DecodeMetadata (engine/runtime/decode_metadata.py).              *)
(*                                                                         *)
(* Rows are admitted in arrival order under a sequence, a block and a      *)
(* prefill-token budget, prefilled in chunks, decoded one token (or up to  *)
(* SpecK + 1 speculative tokens) per step, and retired on a stop token, at *)
(* the response cap, or on cancellation.  The loop is one thread, so pc    *)
(* names the place it is at; only the coordinator's cancel flags (shared   *)
(* memory) change between its steps.  A token is abstracted to whether it  *)
(* is a stop token, a prompt to its length.                                *)
(***************************************************************************)
EXTENDS PagedKVCache

CONSTANTS
  PromptLens,    \* lengths a prompt may have
  MaxNew,        \* max_new_tokens
  MaxCacheLen,   \* max_cache_len of the state (2 * SpecK longer than the payload's)
  MaxPrefill,    \* max_prefill_tokens: the token budget of one prefill call
  SpecK,         \* runtime.speculative_draft_tokens
  HostMetadata,  \* DecodeMetadata is in use (ordinary decode on cpu or cuda)
  Cancellable    \* the payload carries cancel flags, and so is never refilled

ASSUME SchedulerAssumption ==
  /\ PromptLens \subseteq Nat \ {0} /\ PromptLens # {}
  /\ MaxNew \in Nat \ {0} /\ MaxCacheLen \in Nat
  /\ MaxPrefill \in Nat \ {0} /\ SpecK \in Nat
  /\ HostMetadata \in BOOLEAN /\ Cancellable \in BOOLEAN
  /\ HostMetadata => SpecK = 0

VARIABLES
  pc,          \* where the loop is
  prompts,     \* the prompt lengths, in arrival order; a row id is an index
  pending,     \* _pending_seq_id: the first row not fully prefilled
  cursor,      \* _prefill_cursor_by_seq
  used,        \* tokens packed into the prefill payload being built
  fresh,       \* _last_active_ids: rows whose prompt that payload completes
  active,      \* active_rows
  clen,        \* cache_seqlens of the active rows
  rlen,        \* response_lens
  reported,    \* the last reason finished_callback was given for a row
  cancelFlag,  \* cancel_flags
  meta,        \* DecodeMetadata: rows, lengths, until_block, until_full, dirty
  devTable     \* DecodeMetadata.tables: the block tables on the device

loopVars == <<prompts, pending, cursor, used, fresh, active, clen, rlen>>
vars == <<pc, loopVars, reported, cancelFlag, meta, devTable, kvVars>>

Reasons == {"none", "stop", "length", "cancelled"}
Places == {"top", "pack", "forward", "draft", "sweep", "ensure", "decode",
           "done", "failed"}

Arrived == DOMAIN prompts
NoMeta == [rows |-> {}, len |-> [r \in Rows |-> 0],
           untilBlock |-> 0, untilFull |-> 0, dirty |-> FALSE]

LeastOf(S) == CHOOSE x \in S : \A y \in S : x <= y

\* finished_callback for rows with one reason.
Reported(rep, rows, why) == [r \in Rows |-> IF r \in rows THEN why ELSE rep[r]]

\* The engine sizes the pool for the worst case (engine/api.py): as many
\* blocks as max_running_seqs rows of max_cache_len tokens can take.
MaxBlocksPerSeq == CeilDiv(MaxCacheLen, BlockSize)
EnginePool == Cardinality(Blocks) = Cardinality(Slots) * MaxBlocksPerSeq

-----------------------------------------------------------------------------
Init ==
  /\ PoolInit
  /\ pc = "top"
  /\ prompts \in UNION {[1 .. n -> PromptLens] : n \in 1 .. MaxRows}
  /\ pending = 1
  /\ cursor = [r \in Rows |-> 0]
  /\ used = 0 /\ fresh = {} /\ active = {}
  /\ clen = [r \in Rows |-> 0]
  /\ rlen = [r \in Rows |-> 0]
  /\ reported = [r \in Rows |-> "none"]
  /\ cancelFlag = {}
  /\ meta = NoMeta
  /\ devTable = [r \in Rows |-> <<>>]

\* The coordinator cancels a prompt of the batch, at any time.
Cancel(r) ==
  /\ Cancellable /\ r \in Arrived \ cancelFlag
  /\ pc \notin {"done", "failed"}
  /\ cancelFlag' = cancelFlag \cup {r}
  /\ UNCHANGED <<pc, loopVars, reported, meta, devTable, kvVars>>

\* refill_callback at the top of an iteration: compatible queued requests
\* append their prompts.  A cancellable payload is compatible with nothing.
Refill ==
  /\ pc = "top"
  /\ \E n \in 0 .. IF Cancellable THEN 0 ELSE MaxRows - Len(prompts) :
       \E more \in [1 .. n -> PromptLens] : prompts' = prompts \o more
  /\ pc' = "pack" /\ used' = 0 /\ fresh' = {}
  /\ UNCHANGED <<pending, cursor, active, clen, rlen, reported, cancelFlag,
                 meta, devTable, kvVars>>

-----------------------------------------------------------------------------
\* build_prefill_payload.  used = 0 exactly while nothing is packed yet.
Chunk == SmallerOf(prompts[pending] - cursor[pending], MaxPrefill - used)
MayEnter(r) ==
  \/ Holds(r)
  \/ Cardinality(Holders) < Cardinality(Slots) /\ (used = 0 => free # {})
HasNext == pending \in Arrived /\ MayEnter(pending)
TooLong == prompts[pending] + MaxNew > MaxCacheLen
Packable == HasNext /\ ~TooLong /\ used < MaxPrefill
PackNeed == [r \in Rows |-> IF r = pending
                            THEN Missing(r, cursor[r] + Chunk) ELSE 0]

\* Mutant of TakeSlot: the slot stays in the free list.
TakeSlotKeepsFree(r) ==
  IF Holds(r) THEN UNCHANGED <<slot, freeSlots>>
  ELSE \E s \in freeSlots : /\ slot' = [slot EXCEPT ![r] = s]
                            /\ freeSlots' = freeSlots

\* A row entering the batch takes a recurrent slot.
TakeSlot(r) ==
  IF Holds(r) THEN UNCHANGED <<slot, freeSlots>>
  ELSE \E s \in freeSlots : /\ slot' = [slot EXCEPT ![r] = s]
                            /\ freeSlots' = freeSlots \ {s}

\* One turn of the packing loop: the next chunk of the pending row.
PackChunk ==
  /\ pc = "pack" /\ Packable /\ Fits(PackNeed)
  /\ Grow(PackNeed) /\ TakeSlot(pending)
  /\ kv' = Written({<<CellOf(table'[pending], p), <<pending, p>>>> :
                      p \in cursor[pending] .. cursor[pending] + Chunk - 1})
  /\ used' = used + Chunk
  /\ IF cursor[pending] + Chunk = prompts[pending]
     THEN /\ fresh' = fresh \cup {pending}
          /\ cursor' = [cursor EXCEPT ![pending] = 0]
          /\ pending' = pending + 1
          /\ pc' = "pack"
     ELSE /\ cursor' = [cursor EXCEPT ![pending] = @ + Chunk]
          /\ pc' = "forward"
          /\ UNCHANGED <<fresh, pending>>
  /\ UNCHANGED <<prompts, active, clen, rlen, reported, cancelFlag, meta,
                 devTable>>

\* The free blocks run out while a row is being packed.  The row keeps its
\* slot and the blocks it got; what was packed before it is run.
PackStarved ==
  /\ pc = "pack" /\ used > 0 /\ Packable /\ ~Fits(PackNeed)
  /\ Grow([r \in Rows |-> IF r = pending THEN Cardinality(free) ELSE 0])
  /\ TakeSlot(pending)
  /\ pc' = "forward"
  /\ UNCHANGED <<kv, loopVars, reported, cancelFlag, meta, devTable>>

\* Nothing (more) can be packed: run what there is, or return None.
PackDone ==
  /\ pc = "pack"
  /\ HasNext => ~TooLong /\ used >= MaxPrefill
  /\ pc' = IF used = 0 THEN "sweep" ELSE "forward"
  /\ UNCHANGED <<loopVars, reported, cancelFlag, meta, devTable, kvVars>>

\* ValueError (the prompt cannot fit) and RuntimeError (no block for the
\* first chunk): the exception ends the worker, and the batch with it.
PackFails ==
  /\ pc = "pack" /\ HasNext
  /\ TooLong \/ (used = 0 /\ ~Fits(PackNeed))
  /\ pc' = "failed"
  /\ UNCHANGED <<loopVars, reported, cancelFlag, meta, devTable, kvVars>>

-----------------------------------------------------------------------------
\* _admit_pending_rollout_rows after the packing.  A payload that completes
\* no prompt is run for its KV writes only; with no active row to decode in
\* between, the next payload is built at once.
ForwardPartial ==
  /\ pc = "forward" /\ fresh = {}
  /\ pc' = IF active = {} THEN "pack" ELSE "sweep"
  /\ used' = 0
  /\ UNCHANGED <<prompts, pending, cursor, fresh, active, clen, rlen, reported,
                 cancelFlag, meta, devTable, kvVars>>

\* Otherwise every completed prompt gets its first token from the prefill
\* forward, and a row that is finished by it never becomes active.
FirstTokens ==
  /\ pc = "forward" /\ fresh # {}
  /\ \E stopped \in SUBSET fresh :
       LET full == {r \in fresh : MaxNew <= 1}
           gone == stopped \cup full
       IN  /\ reported' = Reported(Reported(reported, stopped, "stop"),
                                   full, "length")
           /\ rlen' = [r \in Rows |-> IF r \in fresh THEN 1 ELSE rlen[r]]
           /\ clen' = [r \in Rows |-> IF r \in fresh \ gone THEN prompts[r]
                                      ELSE clen[r]]
           /\ active' = active \cup (fresh \ gone)
           /\ fresh' = fresh \ gone
           /\ Release(gone)
           /\ pc' = IF SpecK > 0 /\ fresh # gone THEN "draft" ELSE "sweep"
  /\ UNCHANGED <<prompts, pending, cursor, used, cancelFlag, meta, devTable, kv>>

\* Speculative decoding drafts for the rows that just became active.
DraftSpan == LargerOf(SpecK - 1, 1)
DraftNeed == [r \in Rows |-> IF r \in fresh
                             THEN DecodeNeed(r, clen[r], DraftSpan) ELSE 0]
AdmittedRowDrafts ==
  /\ pc = "draft"
  /\ \/ /\ Fits(DraftNeed) /\ Grow(DraftNeed)
        /\ kv' = Written(UNION {
             {<<CellOf(table'[r], p), Junk>> : p \in clen[r] .. clen[r] + SpecK - 2} :
               r \in fresh})
        /\ fresh' = {} /\ pc' = "sweep"
        /\ UNCHANGED <<slot, freeSlots>>
     \/ /\ ~Fits(DraftNeed) /\ pc' = "failed"
        /\ UNCHANGED <<kvVars, fresh>>
  /\ UNCHANGED <<prompts, pending, cursor, used, active, clen, rlen, reported,
                 cancelFlag, meta, devTable>>

-----------------------------------------------------------------------------
\* Mutant of Synced: a change of membership does not mark the tables stale.
SyncedClean(m, rows) ==
  IF ~HostMetadata \/ m.rows = rows THEN m
  ELSE LET len == [r \in Rows |-> IF r \notin rows THEN 0
                                  ELSE IF r \in m.rows THEN m.len[r]
                                  ELSE prompts[r]]
       IN  [m EXCEPT !.rows = rows, !.len = len, !.untilFull =
              IF rows = {} THEN 0
              ELSE LeastOf({MaxNew - (len[r] - prompts[r] + 1) : r \in rows})]

\* DecodeMetadata.sync_rows: only a change of membership is looked at; a row
\* it knows keeps its length, a new one starts at its prompt.
Synced(m, rows) ==
  IF ~HostMetadata \/ m.rows = rows THEN m
  ELSE LET len == [r \in Rows |-> IF r \notin rows THEN 0
                                  ELSE IF r \in m.rows THEN m.len[r]
                                  ELSE prompts[r]]
       IN  [rows |-> rows, len |-> len,
            untilBlock |-> IF rows = {} THEN 0 ELSE
              LeastOf({(CeilDiv(len[r], BlockSize) * BlockSize) - len[r] : r \in rows}),
            untilFull |-> IF rows = {} THEN 0 ELSE
              LeastOf({MaxNew - (len[r] - prompts[r] + 1) : r \in rows}),
            dirty |-> TRUE]

\* Rows leave the active set: their tensors are compacted away.
Compact(rows) ==
  /\ active' = active \ rows
  /\ clen' = [r \in Rows |-> IF r \in rows THEN 0 ELSE clen[r]]
  /\ Release(rows)

\* Mutant of AfterSweep: the loop ends although prompts wait.
AfterSweepForgets(rest) == IF rest # {} THEN "ensure" ELSE "done"

\* With no row left to decode the loop ends, or starts over while prompts wait.
AfterSweep(rest) ==
  IF rest # {} THEN "ensure" ELSE IF pending \in Arrived THEN "top" ELSE "done"

\* Rows cancelled before the step keep one token, the cancel marker.
CancelSweep ==
  /\ pc = "sweep"
  /\ LET cancelled == active \cap cancelFlag
         rest == active \ cancelled
     IN  /\ Compact(cancelled)
         /\ rlen' = [r \in Rows |-> IF r \in cancelled THEN 1 ELSE rlen[r]]
         /\ reported' = Reported(reported, cancelled, "cancelled")
         /\ meta' = Synced(meta, active)
         /\ pc' = AfterSweep(rest)
  /\ fresh' = {}
  /\ UNCHANGED <<prompts, pending, cursor, used, cancelFlag, devTable, kv>>

\* Blocks for the positions the next step writes.  With the host mirror the
\* tables are rebuilt only when membership changed or a row reached a block
\* boundary; otherwise they are rebuilt before every step.
StepSpanShort == IF SpecK > 0 THEN SpecK ELSE 1   \* mutant: the verified drafts only
StepSpan == IF SpecK > 0 THEN 2 * SpecK ELSE 1
EnsureNeed(len) == [r \in Rows |-> IF r \in active
                                   THEN DecodeNeed(r, len[r], StepSpan) ELSE 0]

EnsureBlocks ==
  /\ pc = "ensure" /\ ~HostMetadata
  /\ Fits(EnsureNeed(clen)) /\ Grow(EnsureNeed(clen))
  /\ pc' = "decode"
  /\ UNCHANGED <<loopVars, reported, cancelFlag, meta, devTable, slot, freeSlots, kv>>

PrepareMetadata ==
  /\ pc = "ensure" /\ HostMetadata
  /\ LET m == Synced(meta, active)
     IN  \/ /\ m.dirty \/ m.untilBlock = 0
            /\ Fits(EnsureNeed(m.len)) /\ Grow(EnsureNeed(m.len))
            /\ devTable' = [r \in Rows |-> IF r \in active THEN table'[r] ELSE <<>>]
            /\ meta' = [m EXCEPT !.dirty = FALSE, !.untilBlock =
                 LeastOf({BlockSize - (m.len[r] % BlockSize) : r \in m.rows})]
         \/ /\ ~m.dirty /\ m.untilBlock # 0
            /\ meta' = m
            /\ UNCHANGED <<free, table, devTable>>
  /\ pc' = "decode"
  /\ UNCHANGED <<loopVars, reported, cancelFlag, slot, freeSlots, kv>>

EnsureFails ==
  /\ pc = "ensure"
  /\ IF HostMetadata
     THEN LET m == Synced(meta, active)
          IN  (m.dirty \/ m.untilBlock = 0) /\ ~Fits(EnsureNeed(m.len))
     ELSE ~Fits(EnsureNeed(clen))
  /\ pc' = "failed"
  /\ UNCHANGED <<loopVars, reported, cancelFlag, meta, devTable, kvVars>>

-----------------------------------------------------------------------------
\* A row's share of one step: the drafts accepted, and which of the new
\* tokens is the first stop token (0: none).
Outcomes == {o \in (0 .. SpecK) \X (0 .. SpecK + 1) : o[2] <= o[1] + 1}

\* Response tokens written.  A speculative step is cut at the stop token and
\* at the response cap; an ordinary step writes its one token.
NewTokens(r, o) ==
  IF SpecK = 0 THEN 1
  ELSE SmallerOf(MaxNew - rlen[r], IF o[2] > 0 THEN o[2] ELSE o[1] + 1)
Stops(r, o) == o[2] > 0 /\ (SpecK > 0 => o[2] <= MaxNew - rlen[r])
FullLength(len) == {r \in active : len[r] >= MaxNew}

\* The tables the kernels are given, and the last position they write: the
\* fed tokens, and the draft chain that starts after the accepted ones.
KernelTable(r) == IF HostMetadata THEN devTable[r] ELSE table[r]
LastWrite(r, o) == clen[r] + LargerOf(SpecK, o[1] + SpecK - 1)
StepWrites(out) ==
  UNION {{<<CellOf(KernelTable(r), p),
            IF p <= clen[r] + out[r][1] THEN <<r, p>> ELSE Junk>> :
             p \in clen[r] .. LastWrite(r, out[r])} : r \in active}

\* Mutant of MirrorFull: the first token is counted by nobody.
MirrorFullLate(m) == {r \in m.rows : m.len[r] - prompts[r] >= MaxNew}

\* DecodeMetadata.full_length_mask after finish_step advanced the mirror.
MirrorFull(m) ==
  IF m.untilFull > 0 THEN {}
  ELSE {r \in m.rows : m.len[r] - prompts[r] + 1 >= MaxNew}

DecodeStep ==
  /\ pc = "decode"
  /\ \E out \in [active -> Outcomes] :
       LET len     == [r \in Rows |-> IF r \in active
                         THEN rlen[r] + NewTokens(r, out[r]) ELSE rlen[r]]
           m       == IF ~HostMetadata THEN meta
                      ELSE [meta EXCEPT !.len = [r \in Rows |->
                              IF r \in meta.rows THEN @[r] + 1 ELSE @[r]],
                              !.untilBlock = @ - 1, !.untilFull = @ - 1]
           stopped == {r \in active : Stops(r, out[r])}
           full    == IF HostMetadata THEN MirrorFull(m)
                      ELSE FullLength(len)
           late    == active \cap cancelFlag
           gone    == stopped \cup full \cup late
       IN  /\ kv' = Written(StepWrites(out))
           /\ meta' = m
           /\ rlen' = [r \in Rows |-> IF r \in late
                         THEN SmallerOf(len[r], MaxNew - 1) + 1 ELSE len[r]]
           /\ reported' = Reported(Reported(reported, stopped, "stop"), full, "length")
           /\ active' = active \ gone
           /\ clen' = [r \in Rows |-> IF r \in gone THEN 0
                         ELSE IF r \in active THEN clen[r] + out[r][1] + 1 ELSE clen[r]]
           /\ Release(gone)
  /\ pc' = "top"
  /\ UNCHANGED <<prompts, pending, cursor, used, fresh, cancelFlag, devTable>>

Terminated == pc \in {"done", "failed"} /\ UNCHANGED vars

LoopStep ==
  \/ Refill \/ PackChunk \/ PackStarved \/ PackDone \/ PackFails
  \/ ForwardPartial \/ FirstTokens \/ AdmittedRowDrafts \/ CancelSweep
  \/ EnsureBlocks \/ PrepareMetadata \/ EnsureFails \/ DecodeStep

Next == LoopStep \/ (\E r \in Rows : Cancel(r)) \/ Terminated

\* The loop is one thread that nothing blocks, so it always goes on.
Spec == Init /\ [][Next]_vars
FairSpec == Spec /\ WF_vars(LoopStep)

-----------------------------------------------------------------------------
\* A row that went through the batch and gave its resources back.
Left(r) == r < pending /\ ~Holds(r)

\* Tokens of row r the cache must hold: its prefilled chunks, then every
\* committed token.
CachedLen(r) ==
  IF r \in active THEN clen[r] ELSE IF r \in fresh THEN prompts[r] ELSE cursor[r]

TypeOK ==
  /\ PoolTypeOK
  /\ pc \in Places
  /\ prompts \in Seq(PromptLens) /\ Len(prompts) <= MaxRows
  /\ pending \in 1 .. Len(prompts) + 1
  /\ cursor \in [Rows -> Nat]
  /\ used \in Nat
  /\ fresh \subseteq Rows /\ active \subseteq Rows
  /\ clen \in [Rows -> Nat]
  /\ rlen \in [Rows -> 0 .. MaxNew]
  /\ reported \in [Rows -> Reasons]
  /\ cancelFlag \subseteq Rows
  /\ meta \in [rows : SUBSET Rows, len : [Rows -> Nat], untilBlock : Int,
               untilFull : Int, dirty : BOOLEAN]
  /\ devTable \in [Rows -> Seq(Blocks)]

\* What attention reads for a live row is what that row wrote: the cell its
\* table names for each cached position holds that row's token at that
\* position.  It breaks when two rows share a block, when a step writes past
\* the blocks a row owns (the padding then points into its own last block),
\* or when the device works from a table that is out of date.
KVIntact ==
  \A r \in Holders : \A p \in 0 .. CachedLen(r) - 1 :
    kv[CellOf(table[r], p)] = <<r, p>>

\* The host mirror tells the truth at every step that relies on it: the rows
\* and lengths it advances on its own are those of the device, the tables it
\* did not copy again are current, and its countdown to the response cap
\* never says "not yet" for a row that has arrived.
MirrorExact ==
  HostMetadata /\ pc = "decode" =>
    /\ meta.rows = active
    /\ \A r \in active : /\ meta.len[r] = clen[r]
                         /\ devTable[r] = table[r]
                         /\ meta.untilFull <= MaxNew - rlen[r]

\* A row that is still active has room in its response buffer for the next
\* token, so the row was retired in the very step that filled it.
RoomForNextToken == \A r \in active : rlen[r] < MaxNew

\* With the pool the engine allocates, neither admission nor decode ever runs
\* out of blocks, and no prompt makes the loop raise, as long as every prompt
\* leaves room for its response and for the drafts of the last step.
FitsCache(r) == prompts[r] + MaxNew + 2 * SpecK <= MaxCacheLen
NeverExhausted == EnginePool /\ (\A r \in Arrived : FitsCache(r)) => pc # "failed"

\* When the loop ends every row was answered or cancelled, and every block
\* and slot is back in the pool.
DrainedClean ==
  pc = "done" =>
    /\ free = Blocks /\ freeSlots = Slots
    /\ \A r \in Arrived : reported[r] # "none" \/ r \in cancelFlag

\* The loop implements the service its caller relies on: first come first
\* served admission, bounded concurrency, responses that only grow until they
\* are answered, answers that stay.  A row is served from the moment it holds
\* a slot until it gives it back.
Service == INSTANCE RolloutService WITH
  Rows <- Rows,
  Capacity <- Cardinality(Slots),
  arrived <- Len(prompts),
  phase <- [r \in Rows |-> IF Holds(r) THEN "served"
                           ELSE IF Left(r) THEN "answered" ELSE "queued"],
  tokens <- rlen

ImplementsService == Service!Spec
KeepsPromise == Service!Promise
=============================================================================
