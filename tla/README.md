# AReno in TLA+

AReno trains language models by reinforcement learning: an engine of worker
processes generates responses (*rollouts*) with paged-KV continuous batching,
trains on them, and hands the new weights back to the generating side; a
dashboard submits such runs as jobs to a cloud provider and follows them.  This
directory models the part of it that is a protocol rather than arithmetic: who
holds which block, which rank runs which command when, which weights a rollout
reads, which rank waits for which collective, which thread follows which job.
Tensors, tokens and texts are abstracted to what the properties tell apart.

Every definition is translated from the code under `src/`; `PROJECT.json` maps
each one to its lines.  `tlc -config X.cfg MCmodule` checks a run, `tlapm` the
proofs of `PagedKVCacheProofs`, `RolloutSchedulerProofs`, `RolloutServiceProofs`,
`PolicySessionsProofs`, `PolicyTransferProofs`, `FlowJobsProofs`, `TPClusterProofs`
and `WorkerLoopProofs`.

## 1. The system

    train loop, agent proxy's requests         api/trainer.py, api/agentic.py  -> PolicySessions
          | sessions, rollouts, scores, steps
    CudaBackend          (api/backend/cuda)    versions, session flag, sync    -> PolicySessions
          | one ArenoEngine, or one that trains and one that rolls out
    ArenoEngine          (engine/api.py)       splits rows over DP, sizes the KV pool, merges
          | call / call_async / submit
    TPCluster            (engine/protocol.py)  one queue per rank, one result pump     -> TPCluster
          | Command on every rank's queue          ^ WorkerResult on one result queue
    _worker_entry        (engine/protocol.py)  main loop of a rank                     -> WorkerLoop
    ArenoWorker          (engine/worker.py)    joins compatible rollouts while running -> WorkerLoop
          |                                    what a command leaves on the device     -> WorkerMemory
          | finished_callback, refill_callback
    InferenceManager     (engine/inference.py) the rollout loop                        -> RolloutScheduler
    InferenceBatchState  (engine/data/rollout_state.py)  blocks, slots, admission      -> PagedKVCache
    DecodeMetadata       (engine/runtime/decode_metadata.py) host mirror of decode     -> RolloutScheduler
    transfer_policy_weights (engine/policy_sync.py)  training ranks to rollout ranks   -> PolicyTransfer

    Controller           (dashboard/flow/controller.py)  threads per job, sqlite store -> FlowJobs
          | Modal sandboxes

| component | state it keeps | operations | what is hard | what makes it correct |
|---|---|---|---|---|
| rollout scheduler, paged KV cache | free blocks, block tables, slots, cursors, active rows, lengths, host mirror | refill, admit a chunk, first tokens, draft, sweep, grow, decode, retire | a row can be anywhere between half-prefilled and cancelled; the mirror acts on predictions; the pool is finite | a block has one owner; attention reads what its row wrote; rows retire in time; nothing leaks; nobody starves |
| worker loop | deferred commands, running batch, answered requests, adapter version | take a command, poll and join, forward, answer, train, fail | each rank reads its own queue at its own pace, yet forwards and trains are collectives | ranks agree on the work; every command is answered once and in order; failures reach every caller |
| a rank's memory | actor and expert tiles on device, inference weights, cache, decode graphs, ready flags | begin/end session, rollout, train, score, plan, publish, receive | what is kept between commands depends on flags that other commands reset | what is reused is current; nothing captured outlives its storage |
| cluster protocol | table of pending calls, request ids, queues, pump | submit, await, give up, pump, scan for dead workers, close | callers, pump and processes interleave; results of given-up calls arrive late; workers die | one command order; no lost wake-up; every call ends |
| policy versions and sessions (trainer, CUDA backend) | session depth, active flag, train and rollout version, sync lock | begin/end session, sync, train, roll out, score | awaits between test and set; two engines with queues of their own; agents' requests between the driver's calls | rollouts use and report the policy they were asked of; none outside a session |
| policy transfer | partitions, owners, relays, buffers | reduce, relay, row and column broadcast | every rank walks its own subset of one list of collectives and computes the owners for itself | no rank waits for a collective nobody joins; every rollout rank gets every chunk |
| flow controller | job records, watch set, threads, provider connection | submit, start, watch, stop, connect, reattach | a record is read in one transaction and written in another; the provider fails; the dashboard dies and the sandbox does not | one watcher; no sandbox runs behind a finished record; a stop takes effect |
| engine API | DP cursor | split, merge | rows of one call on several replicas | rows come back in input order and from one version |
| agentic proxy | handler threads, event loop, routing sidecar | chat request, enter/exit session | threads wait for the loop, the loop waits for threads | requests end before the session does |
| serving CLI | request future, active tasks | run, watch for disconnect, shut down | three parties resolve one future | one outcome per request; shutdown drains |
| MLX scheduler | as the CUDA one, one device | the same | the same, without TP | the same |

The remaining components (kernels, models, optimizers, checkpoints, reward and
loss arithmetic, text conversion, agents' drivers) have no protocol state; they
are listed in `PROJECT.json` with the reason they are left out.  The hazards the
properties are for are there too, each at its line.

## 2. Modules

**PagedKVCache** is the memory of one batch: `free`, `table`, `freeSlots`,
`slot` (the code's `_free_blocks`, `_seq_to_blocks`, `_free_recurrent_slots`,
`_seq_to_recurrent_slot`) and `kv`, the device cache.  A cell holds
`<<row, position>>`, or `Junk` (never written, or a rejected draft).  A table
given to a kernel is padded with its last block, as `_pad_blocks` does, so a
write past the blocks a row owns lands on a live token and `KVIntact` sees it.
Which free block is popped is left open.

**RolloutScheduler** is the loop `_generate_rollout_tokens_no_sync`.  `pc` says
where the thread is: `top` (refill callback), `pack` (one turn of the packing
loop per step), `forward` (prefill and first tokens), `draft`, `sweep`
(cancelled rows), `ensure` (blocks, mirror), `decode` (step, retirement).  A
step of the loop is several actions because the caller's cancel flags change
between them.  A prompt is its length; the tokens are which of them stops.
`SpecK > 0` is speculative decoding: any number of drafts may be accepted.
`HostMetadata` is `DecodeMetadata`.  Chunks of different rows in one payload are
packed one action at a time.

**RolloutService** is what a batch promises, without blocks, chunks or steps:
arrival order, bounded concurrency, responses that only grow until answered (a
cancelled one is cut back), and an answer for everyone.  `RolloutScheduler`
implements it by the mapping at its end.

**WorkerLoop** is `_worker_entry` and `run_continuous_rollout_payload` on every
rank.  The queues are one `log` (`TPCluster!OneOrder` is the licence for that)
and `taken[r]` is how far rank r has read it.  A leader's poll and its header
broadcast are one action; a sibling follows headers as they come.  A forward is
a joint step of the ranks of a replica, a train of all ranks.  Rows are not
scheduled here: the row's life is RolloutScheduler's, and why a row ended is not
kept.  The log is chosen at the start; a leader may find its queue empty though
commands remain, which is what a late submission or a slow feeder thread looks
like.

**WorkerMemory** is what one rank keeps on its device between commands, as
operators on a record: `onDevice` (the actor), `tiles` (the expert weights it
trains), `infer` (the fused weights inference reads: nothing, the base model, or
the policy as of some step), `spec` and `cache` (the size the cache was
allocated for and the cache the model holds), `graphs` (none, valid, or
`dangling` once the storage they were captured on is gone), and the flags
`trainReady`, `session`, `inferReady` of `ArenoWorker` and `InferenceManager`.
One operator per command, composed of one per helper (`ActorOnloaded`,
`CacheReady`, `InferReady`, ...), in the order the code calls them.

**PolicySessions** is a trainer above one or two engines.  A task of the event
loop (a driver of the train loop, or a chat request of the agent proxy) is at a
place of its call; between places other tasks run, except while a score or a
train blocks the loop.  `_sync_policy_if_needed` runs in its own thread under
`lock`.  `queue[e]` holds an engine's commands in order and one rank executes
them with WorkerMemory's operators.  `mode` chooses, at the start, a rollout
engine of its own or none, `keep_rollout_state`, LoRA, and who drives.

**PolicyTransfer** is `transfer_policy_weights` on every rank.  `shape` is any
pair of partitions, device placement, tensor sizes and layouts; a rank's
`program` is the list of collectives its walk over the plan makes (owners by
size, source and bridge of each relay, reduce, relay, row, column); a collective
takes place when its members have come to it, whatever chunk each is at.  A
buffer holds how often it has each piece of a chunk, so a piece published twice,
or by nobody, shows.

**FlowJobs** is one Modal job: the thread that starts it, the threads that
reattach, a stop request in its three steps (read, mark, terminate), a
connection in two (list the records, deal with each), the sandbox at the
provider, which outlives the dashboard, crashes, and provider calls that fail.
Every store transaction is an action of its own.

Composition.  TPCluster gives WorkerLoop and PolicySessions their one command
order per engine (`OneOrder`).  WorkerLoop gives RolloutScheduler its refills
(`Refill` there is a join here) and its cancel flags; RolloutScheduler gives
WorkerLoop `outcome`, the rows a step ends, and an iteration with no row left
leaves the loop.  PolicySessions instantiates WorkerMemory for both engines; a
whole run of RolloutScheduler is its `AfterRollout`, and a whole run of
PolicyTransfer its joint step `ExecuteTransfer`.  RolloutScheduler implements
RolloutService.

## 3. Runs

Every bound is a CONSTANT of the cfg.

| run | bounds | shows |
|---|---|---|
| scheduler_decode | up to 3 prompts of 3 tokens, 2 slots, 4 blocks of 3, cap 3, 2 prefill tokens per call, mirror on, no symmetry | ownership, mirror, room and retirement with prompts split over two prefill calls, refills at any iteration and rows crossing a block boundary while others are admitted; the engine's pool size suffices; refinement of RolloutService and its progress |
| scheduler_speculative | 2 drafts, blocks of 4, cap 3, prompts of 1, 2 and 4 | the blocks of a step cover every write, whatever is accepted; the pool suffices for prompts that leave room for the drafts (a prompt of 4 passes the code's length test and does not, so the raising paths are there too) |
| scheduler_cancel | 3 prompts, flags at any moment, 3 blocks of 2 for 2 slots, a prompt too long for the cache | cancelled rows leave contents and pool intact and are all accounted for at the end, also when the pool starves admission in mid-prompt |
| worker_team | 1 replica of 2 ranks, 3 commands of 4 kinds, 1 rank raising anywhere | joins, deferrals and headers: one answer per command, in order, matching collectives; errors for joined requests; nothing waits forever |
| worker_replicas | 2 replicas of 1 rank, 3 commands, cancellable rollouts among them | independent queues meeting in trains; sweep and late cancellation against the answers; nothing waits forever |
| cluster_calls | 2 ranks, 2 calls (one sync, one async awaiting the leader only), give-ups, closing loops, raising workers, close() | one order, no result lost, an exact table |
| cluster_ends | the same without closing loops and close(), the async caller may give up, one killed worker | every call ends, but for one that waits only for live ranks after another is gone |
| policy_sessions | 2 drivers, 1 chat, caches of 1 and 2, 2 sessions, 2 rollouts, 1 score, 2 steps, all modes | rollouts on the policy they were asked of, inside their session; graphs and ready flags that tell the truth |
| policy_transfer | 2 tensors of 1 or 2 chunks, up to 2x2 ranks on each side, rollout on the same, overlapping or other devices | collectives meet at one chunk; chunks arrive whole and all of them; the transfer ends |
| flow_jobs | 1 connection and one per crash, 2 crashes, 1 provider fault, 2 stops | one watcher; finished jobs are over; running sandboxes are followed; a stop ends its sandbox |

Three prompts on two slots is the least at which a prompt waits, is admitted
next to a decoding row and outlives it; two prefill tokens against a prompt of
three is the least that splits a prompt; blocks of three against three put the
boundary at the end of the prompt and in the response, and blocks of two and
four against other lengths put it inside the prompt.  Two ranks are the least
with a sibling; commands enough for a batch, one that joins it, and one that
cannot.  Two calls are the least in which one call's result or failure meets the
other's.  Two sessions with a step between are the least in which a stale cache,
graph or flag can be reused; two steps let the version and the weights differ by
more than one; a chat besides a driver puts a rollout behind the session's end.
Two tensors of unequal size are the least at which the owners' order differs
from the walk's, 2x2 ranks the least with all four kinds of group.  Two crashes
and a connection give a job three generations of threads.

Runs that TLC must find violated state what the code's own comments and
assertions say and the code does not do; `findings` quotes them:

- `worker_version`: a rollout submitted after a train may join a running batch on
  one replica and wait behind the train on the other, so the merge of its rows
  raises "different adapter versions" (`engine/worker.py:409`).
- `flow_reconnect`: connecting again while a start has not saved its sandbox yet
  records the job as failed because the "local service stopped", which it did
  not; the start goes on (`dashboard/flow/controller.py:53`).

### Disagreements without a run

They follow from the models, by the change of a bound or of a property, and no
run states them.

- *Stale inference weights in a session.*  `_can_reuse_rollout_session_infer_weights`
  says that the actor's inference weights are unchanged within the session
  (`engine/worker.py:545`).  A score inside the session replaces or drops them and
  does not reset the flag.
  No trainer of the repository scores inside a session, and PolicySessions
  scores only between the session and the step.
- *Two drivers.*  `begin_rollout_session` reads the depth, awaits, and then
  raises it (`api/trainer.py:149`).  With two drivers that begin at once, one
  may end and train while the other rolls out; `OnPolicy`, `RunsInSession` and
  the graph part of `GraphsCurrent` fail.  No trainer has two, hence `Alone` in
  these properties; the second driver stays in the run for the others.
- *close() leaves calls waiting* (`engine/protocol.py:584`): it stops the
  pump while calls are in flight, and nobody wakes their callers.
- *A reported result lost to a death* (`engine/protocol.py:509`): a worker that
  reports and exits between the pump's poll and its look at the exit code has
  its call failed, though the code fails calls of workers that died "without
  returning a result".
- *A closed loop stops the pump* (`engine/protocol.py:543`): a result applied
  after its caller's event loop closed raises out of the pump thread, and every
  other call waits.  `CallEnds` is checked with loops that stay open.
- *A leader left behind* (`engine/api.py:485`): an async rollout awaits the leaders
  only.  When another rank dies without reporting an error for it, the leader
  hangs in a collective and is not dead, so `_fail_dead_pending_calls`, which
  means to "fail pending calls when a worker dies without returning a result"
  (`engine/protocol.py:548`), does not fail the call, and `call_async` is given no
  timeout there.  Without `Stranded`, TLC finds `CallEnds` violated.
- *Flags read per rank* (`engine/inference.py:544`): with `TPSize = 2` in
  `WorkerReplicas.cfg`, `CollectivesMatch` is violated: the tensor-parallel ranks
  may bring different rows to one forward.
- *A row reported twice* (`engine/worker.py:366`): a stop token sampled in the
  last allowed position is reported as `stop` and then as `length`, and a request
  answered later keeps the second (WorkerLoop keeps no finish reasons).
- *A sandbox nobody knows* (`dashboard/flow/controller.py:132`): a crash between
  its creation and the saving of its id leaves it to its own time limit.
- *Stop after the end* (`dashboard/flow/controller.py:289`): a stop that read the
  record before it became final overwrites it with `stopping`, which lasts until
  the next connection.

## 4. Fairness

RolloutScheduler: weak fairness of the loop's own step: it is one thread with
nothing to wait for.  Decode ends because every step adds a token and the cap is
finite; no fairness of stop tokens or cancellation is assumed.

WorkerLoop: weak fairness of each rank's step and of a train all ranks have
entered.  A forward that ends no row is a stutter of the model's data, so "a row
decodes at most max_new_tokens tokens" becomes strong fairness of forwards that
end some row.  Failures and cancellations are never assumed.

TPCluster: weak fairness of each caller, of the feeders and of the pump, and of the
exit of a rank that has raised.  A worker is sure to answer its commands only
while every rank is up: they meet in collectives, on whose waits this code sets no
bound (a watchdog of the communication library is not counted on).  Once one has
raised or died the others may still answer or hang for good; `CallEnds` then
claims that a call ends if a rank it waits for is gone, if a rank reported an
error for it, or if its answers do come.  What is left is `Stranded`.  Timeouts, kills, loop closing and close() are never assumed.

PolicyTransfer: weak fairness of the next step: a collective that all its members
have entered takes place.

FlowJobs: weak fairness of each thread's step, of the stop request's steps and of
a connection under way, in each case of the outcomes that spend no provider
fault; and of one connection after a crash, which the dashboard makes by itself
with the credentials it saved.  Nobody is assumed to submit, stop or connect
again, nor any sandbox to end by itself.  `StopEnds` is claimed of behaviours in
which no provider call fails.

PolicySessions claims safety only and has no fairness.

## 5. Proofs

TLAPS proves, for every value of the constants that satisfies the modules'
assumptions:

| module | theorem | property |
|---|---|---|
| RolloutSchedulerProofs | TypesHold | `TypeOK` |
| | BlocksOwned | `BlockOwnership` |
| | SlotsOwned | `SlotOwnership` |
| | RoomHolds | `RoomForNextToken` |
| | MirrorHolds | `MirrorExact` |
| RolloutServiceProofs | IntactHolds | `KVIntact` |
| | ExhaustionNever | `NeverExhausted` |
| | DrainedHolds | `DrainedClean` |
| | ServiceImplemented | `ImplementsService` |
| PolicySessionsProofs | TypesHold | `TypeOK` |
| | SyncExclusiveHolds | one task at a time transfers the weights |
| | TrainReadyHonestHolds | `TrainReadyHonest`, for any number of drivers |
| | GraphsCurrentHolds | `GraphsCurrent` |
| | OnPolicyHolds | `OnPolicy` |
| | RunsInSessionHolds | `RunsInSession` |
| PolicyTransferProofs | MatchedHolds | `Matched` |
| | DeliveredHolds | `Delivered` |
| FlowJobsProofs | TypesHold | `TypeOK` |
| | OneWatcherHolds | `OneWatcher` |
| | FinishedHolds | `FinishedIsOver`, without early connections |
| | AttendedHolds | `Attended`, without early connections |
| | FailedMeansStoppedHolds | `FailedMeansStopped`, without early connections |
| TPClusterProofs | TypesHold | `TypeOK` |
| | OneOrderHolds | `OneOrder` |
| | TableExactHolds | `TableExact` |
| | NothingLostHolds | `NothingLost` |
| WorkerLoopProofs | TypesHold | `TypeOK` |
| | OneAnswerHolds | `OneAnswer` |
| | AccountedHolds | `Accounted` |
| | StartedInOrderHolds | `StartedInOrder` |
| | AnsweredRowsHold | `AnsweredRowsDone` |
| | FailureReportedHolds | `FailureReported` |
| | TrainsHold | the half of `CollectivesMatch` about trains |
| | CollectivesHold | `CollectivesMatch`, with one rank per replica or no cancel flags |

**Scheduler** (from `PoolAssumption` and `SchedulerAssumption`).  None of the five
is inductive.  That an active row has room for a token depends, with the mirror,
on the mirror's countdown, which is right only if the mirror's lengths are
(`MetaInv`) and every active row has committed all its tokens but the last
(`LengthInv`); which rows the mirror knows depends on where the loop is; that
releasing rows returns real slots depends on active and freshly prefilled rows
holding one (`PhaseInv`).  `IInv` is the conjunction.  `PagedKVCacheProofs` has
the two facts about the pool: `Grow` and `Release` keep ownership for any request
of rows that hold slots.  Each action has a lemma that it keeps `IInv`;
`NextIInv` collects them.

**What a batch delivers** (same assumptions, on top of `IInv`).  `KVIntact` needs
to know that a write never falls into the padding of a table: `MemInv` says that
every table reaches the tokens the cache holds for its row (`CachedReached`), that
a decode step's tables reach every position it writes (`SpanReached`), that a
prompt in progress has only written what it has blocks for (`CursorInv`), and
that, where the mirror decides, a row has blocks for the whole countdown
(`BoundaryInv`); the rest is ownership and the fact that positions and cells of
one row correspond one to one (the arithmetic of `\div` and `%`, in `PagedKVCacheProofs`).  `NeverExhausted` has the premise its definition has: the
pool the engine sizes (`EnginePool`) and prompts that leave room for the cap, the
drafts and the lookahead (`FitsCache`).  `PoolInv` then bounds every table by
`MaxBlocksPerSeq`, and `BoundedFits` turns the bound into an injection from table
entries, old and new, into slots times block indices.  `DrainedClean` needs `EndInv`:
a row that left the batch was reported or is cancelled.  The refinement rests on
`EndInv` as well: `Init` maps to the service's `Init`; `Refill` is its `Arrive`; a
packing step that gives a row its slot, also one that then starves for blocks, is
`Serve`; first tokens, the sweep of cancelled rows and a decode step are `Advance`
(some rows grow, some leave answered); every other step leaves the service's state
alone.

**Sessions** (from `TasksAssumption` and `BoundsAssumption`).
The proofs begin with a lemma per memory operator: its type, a cache of the size
it was allocated for and an honest ready flag (`MemOK`); no dangling graph, nor one
about to dangle (`GraphsOK`); and what it leaves alone (`Same`).  `MemOK` of both
ranks is inductive by itself, whatever the tasks do.  The rest holds of a
lone driver d, by `LoneInv(d)`: the driver's place fixes the depth, the flag and
where the agents' requests can be (`PhaseInv`); the place says which command may
be last on which queue, and that only rollouts precede it (`QueueInv`), without
which an agent's rollout could arrive behind the end of its session; the rollout
rank's session flag is the place and the queue together, and in a session its
inference weights are current (`RankInv`); the versions agree only when the
weights do, and they agree throughout a session (`VersionInv`), which is what
makes current weights the *latest* ones; labels count like weights under LoRA
(`LabelInv`); and every output so far was right (`OutputInv`).  With any number of
drivers, `CountInv` says that the depth counts the drivers that are inside a
session, which is why it never goes below zero (`TypeOK`), and that the holder of
the lock is the one task that is at a place of the synchronisation
(`SyncExclusive`).

**Flow jobs** (from `FlowAssumption`).  `IInv` is `TypeOK`, `BirthInv` (threads are
born once, so a reattaching thread is not one that runs already), `OneWatcher`,
`PlaceInv` (what a thread's place says of the record and the sandbox: a thread
that has not saved a sandbox has none recorded, one past its poll has seen it
end) and, without early connections, `LinkInv` (what a connection has read stays
true enough to act on), `FinishedIsOver` and `Attended`.  `LinkInv` is where the
early connection breaks the argument, and `FailedMeansStoppedHolds` says that it
is the only way to the violation `flow_reconnect` shows.

**Cluster** (from `ClusterAssumption`).  `OneOrder` needs `SendInv`: the caller that
holds the send lock has put its command on some of the queues, which are equal
otherwise, until the queues are closed and nobody puts any more.  `NothingLost`
needs to know where an answer can be and what it says: `ResultInv` follows a result
from its rank's outbox through the shared queue into the pump's hand, always
naming its own rank and a command that rank has handled.  That a call which returns
has all its answers is `WaitInv`: a rank no longer waited for has answered, unless
the call was never made, and a call in the table waits for some rank; `TableExact`
is needed because callers, the pump and a closing loop all remove entries.
`OneOrder` is what lets PolicySessions keep one command log per engine, and
WorkerLoop one order of commands for all ranks.

**Worker loop** (from `WorkerAssumption`).  The invariant is one rank's, `RankInv(r)`:
a step of a rank leaves every other's alone, and only the forward and the train
are steps of several.  `Homes` is `Accounted` as sets: the commands read are
partitioned into reported, pending, deferred and training.  It gives `OneAnswer`,
since only pending commands are answered, and it says that a command that joins is
new, which `BatchInv` needs: the rows of a batch are rows of its requests, finished
or open, and no open row belongs to an answered request.  `OrderInv` puts the
deferred commands after the started ones, both increasing, so that a sibling which
defers what it reads before the leader's choice keeps the order.  `PlaceInv` says
where a rank has a batch and that the batch holds the command the main loop
started last, without which a failure could leave that command unreported
(`FailureReported`).

`CollectivesMatch` relates ranks, so it has invariants of its own.  For trains,
`TrainsInv`: any two live ranks have been through the same trains.  A poll can
make a rank begin a train later than another, but it begins commands in order and
never joins a train, so of two ranks at different trains one would have been
passed by the other; this needs no hypothesis.  For forwards, `TeamInv`: a live
sibling is related to its leader (where the leader was, if it raised) in one of
four ways.  Both are in one batch, and the sibling has still to follow the headers
under way (`SameBatch`); the leader has left the batch and begun other commands,
which the sibling finds on its own queue (`Behind`: the headers are those of the
old batch, then those of the new one); the sibling has left it first (`Ahead`); or
both are at a train (`Meeting`).  The command a rank begins is the least it has
not dealt with, which makes the two begin the same ones without a word about them.
A view keeps what the relation looks at (`View`): the commands dealt with, how far
the queue was read, the batch, and the rows that go on, so that a rank which has
finished a forward and one which has not look alike.  Every step is first shown to
be one of seven effects on views (`StepEffects`), then every effect to keep the
relation.  `WorkInv` adds that requests join a batch in order, which turns equal
sets of requests into equal lists.  The hypothesis that no rollout carries cancel
flags, or that a replica has one rank, cannot be dropped: see *Flags read per rank* in
section 3.

**Transfer** (from `TransferAssumption`).  A rank's program is computed, not
stepped: chunks flattened within tensors, tensors flattened within the plan, with
owners dealt out in an order of sizes.  What it contains is an induction over data,
and the library's induction theorems cannot be used; the proofs induct over sets
instead (`UpTo`: a set of numbers below N that has 0 and every successor is all of
them; it follows from the well-foundedness of finite sets).  It gives
`FlattenOrdered` (ordered lists, each after the ones before it, flatten to an
ordered list of all their members), `OwnersFacts` (every tensor is owned by a row)
and, with them, `WalkFacts`: a rank's program is the set of tasks whose groups it
belongs to (`Duties`), in one order (`Order`) that is the same for all ranks.
`Matched` is not inductive; that any two members of a group have done the same of
its tasks (`Agree`) is, and the order makes the next of them the same.  For
`Delivered`, a rank that matters holds the chunk it was last busy with (`Filled`):
each piece is read by one rank of a row (`ReduceWhole`), and whoever passes a chunk
on has had a task for it just before (`Preceding`).  `Kept` is what has been
written by then, and `EveryChunk` that a rollout rank has a task for every chunk,
whatever the shape.  `BySize` is the order as a choice, and `Owners` a recursive
function, because the prover reads neither the sorting operator nor the fold of
the community modules.

Only model-checked: progress (`KeepsPromise`, `AllAnswered`, `CallEnds`,
`Completes`, `StopEnds`), since liveness and ENABLED are out of the prover's reach.

## 6. Abstractions a reader should know

- Prompts have at least one token.
- Sampling, log-probabilities, routing capture, multimodal slices and the
  LongRoPE re-prefill are left out.  A batch starts with an all-free pool, which
  the code rebuilds each time; the reuse of its tensors is in WorkerMemory.
- Clocks are left out: a poll interval or a join timeout is "after any time".
- Results that one callback of WorkerLoop puts on the result queue are in some
  order (the code: that of the requests); the coordinator looks each up by its id.
- A worker in TPCluster that raised reports at most one result for a command;
  WorkerLoop shows that a failing rank can report its main command again.
- TPCluster starts with started workers; start-up, rendezvous and partitioned
  start-up are not modelled.
- The pump checks the calls of its list in any order (the code: in the order
  they were submitted).
- In PolicySessions one rank stands for each engine; a rank that gets no rows is
  a rollout of size 0.  Backend calls that raise are not modelled, so neither is
  the recovery from a session whose end failed.
- Weights are the number of optimizer steps in them: two trainings never give the
  same weights.
- In PolicyTransfer a tensor's size is its number of chunks, and its layout says
  which rank reads which piece.
- FlowJobs has one job, since jobs share only the connection; logs, metrics,
  uploads and image builds are not kept apart from the steps they happen in.

## 7. Not modelled

- The agentic proxy's HTTP threads.  What its requests do to the trainer is in
  PolicySessions; its shutdown can block only with more open requests than it
  has threads (2048).
- The serving CLI's connection handling; splitting and merging of rows, which is
  a pure function of one call; the MLX scheduler, which is the CUDA one with one
  device and neither ranks nor mirror.
- Start-up and rendezvous of clusters, the vote before a decode graph is
  captured, worker memory of other roles than the actor.
- Everything numerical or presentational: layers, models and kernels, optimizers
  and losses, checkpoints and their formats, rewards, tokenizers and templates,
  agents' drivers, command lines and the dashboard's pages.  This is most of the
  repository's lines: it keeps no state that steps of several actors could get
  wrong, and its properties are equations over floating-point tensors, which
  neither prover nor model checker reaches.
