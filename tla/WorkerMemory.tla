---------------------------- MODULE WorkerMemory ----------------------------
\* What one worker rank keeps on its device, and how each command changes it:
\* the actor, the expert tiles it trains, the fused weights inference reads,
\* the KV cache, and the decode graphs captured over both.  Operators on a
\* record; PolicySessions runs one record per engine.
EXTENDS Naturals

\* What the inference weights hold: nothing, the base model without adapters,
\* or the policy as of a number of optimizer steps.
NoInfer == [kind |-> "none", version |-> 0]
BaseOnly == [kind |-> "base", version |-> 0]
Policy(v) == [kind |-> "policy", version |-> v]

\* weights counts optimizer steps in the parameters, label is the version the
\* rank reports.  spec is the size the cache was allocated for, 0 for none;
\* cache is what the model holds.  A graph is dangling once the storage it was
\* captured on is gone.
Memory ==
  [onDevice : BOOLEAN, tiles : BOOLEAN, weights : Nat, label : Nat,
   infer : [kind : {"none", "base", "policy"}, version : Nat],
   spec : Nat, cache : Nat, graphs : {"none", "valid", "dangling"},
   trainReady : BOOLEAN, session : BOOLEAN, inferReady : BOOLEAN]

LoadedMemory ==
  [onDevice |-> TRUE, tiles |-> TRUE, weights |-> 0, label |-> 0,
   infer |-> NoInfer, spec |-> 0, cache |-> 0, graphs |-> "none",
   trainReady |-> FALSE, session |-> FALSE, inferReady |-> FALSE]
-----------------------------------------------------------------------------
\* The storage graphs were captured on is freed.
Freed(graphs) == IF graphs = "valid" THEN "dangling" ELSE graphs

ReleaseGraphs(m) == [m EXCEPT !.graphs = "none"]
ClearInfer(m) == [m EXCEPT !.infer = NoInfer, !.graphs = Freed(@)]
ClearCaches(m) == [m EXCEPT !.cache = 0, !.graphs = Freed(@)]
OnloadTiles(m) == [m EXCEPT !.tiles = TRUE]
OffloadTiles(m) == [m EXCEPT !.tiles = FALSE]

\* Fuse the tiles into inference weights: in place when there are some, in new
\* storage otherwise.  Tiles on the host give nothing inference can read.
Prepared(m, content) ==
  [m EXCEPT !.infer = IF m.tiles THEN content ELSE NoInfer,
            !.graphs = IF m.tiles /\ m.infer # NoInfer THEN @ ELSE Freed(@)]

\* Derived rollout state, given up in one go.
WithoutRollout(m) ==
  [ClearCaches(ClearInfer(ReleaseGraphs(m))) EXCEPT !.spec = 0]

ActorOnloaded(m) ==
  IF m.onDevice THEN m ELSE [m EXCEPT !.onDevice = TRUE, !.tiles = TRUE]

\* Mutant: the graphs outlive the actor's eviction.
ActorOffloadedKeepsGraphs(m) ==
  IF ~m.onDevice THEN m
  ELSE [OffloadTiles(ClearCaches(ClearInfer(m)))
          EXCEPT !.spec = 0, !.trainReady = FALSE, !.onDevice = FALSE]

ActorOffloaded(m) ==
  IF ~m.onDevice THEN m
  ELSE [OffloadTiles(WithoutRollout(m))
          EXCEPT !.trainReady = FALSE, !.onDevice = FALSE]

PreparedForTrain(m) == [OnloadTiles(ActorOnloaded(m)) EXCEPT !.trainReady = TRUE]

\* Mutant: the tiles leave, the flag stays.
PreparedForInferenceReady(m, content) ==
  OffloadTiles(Prepared(OnloadTiles(ActorOnloaded(m)), content))

PreparedForInference(m, content) ==
  [OffloadTiles(Prepared(OnloadTiles(ActorOnloaded(m)), content))
     EXCEPT !.trainReady = FALSE]

PreparedForReceive(m) == OnloadTiles(WithoutRollout(ActorOnloaded(m)))

DroppedRollout(m) == [WithoutRollout(m) EXCEPT !.trainReady = FALSE]
-----------------------------------------------------------------------------
SessionBegun(m) ==
  [ActorOnloaded(m) EXCEPT !.session = TRUE, !.inferReady = FALSE]

SessionEnded(m, keep, trains) ==
  LET dropped == IF keep THEN m ELSE DroppedRollout(m)
      ready == IF trains THEN PreparedForTrain(dropped) ELSE dropped
  IN [ready EXCEPT !.session = FALSE, !.inferReady = FALSE]

\* A rollout reuses a cache that is large enough, and within a session the
\* inference weights of the rollout before.
ReusesInfer(m) == m.session /\ m.inferReady

CacheReady(m, size) ==
  IF m.spec # 0 /\ size <= m.spec THEN m
  ELSE [ReleaseGraphs(m) EXCEPT !.spec = size, !.cache = size,
                                !.trainReady = FALSE]

\* Mutant: weights that are there are taken for current.
InferReadyCached(m) ==
  IF m.infer # NoInfer THEN m
  ELSE [OffloadTiles(Prepared(OnloadTiles(m), Policy(m.weights)))
          EXCEPT !.trainReady = FALSE, !.inferReady = @ \/ m.session]

InferReady(m) ==
  IF ReusesInfer(m) THEN m
  ELSE [OffloadTiles(Prepared(OnloadTiles(m), Policy(m.weights)))
          EXCEPT !.trainReady = FALSE, !.inferReady = @ \/ m.session]

GraphsReady(m) == [m EXCEPT !.graphs = IF @ = "none" THEN "valid" ELSE @]

RolloutReady(m, size) ==
  GraphsReady(InferReady(CacheReady(ActorOnloaded(m), size)))

\* A rank without rows leaves its memory alone, but for the teardown.
AfterRollout(m, size, keep) ==
  LET ran == IF size = 0 THEN m ELSE RolloutReady(m, size)
  IN IF keep \/ m.session THEN ran ELSE DroppedRollout(ran)

TrainReady(m) == IF m.trainReady THEN m ELSE PreparedForTrain(m)

\* n optimizer steps, on parameters that stay where they are.
Trained(m, n) ==
  [TrainReady(m) EXCEPT !.weights = @ + n, !.label = @ + n]

\* A scoring or role command: of the actor, of its base model through the
\* adapters' off switch, or of another model, which takes the actor's place.
Scored(m, kind) ==
  CASE kind = "actor" -> PreparedForInference(m, Policy(m.weights))
    [] kind = "base" -> PreparedForInference(m, BaseOnly)
    [] kind = "role" -> ActorOffloaded(m)
    [] kind = "save" -> ActorOnloaded(m)

Planned(m, trains) ==
  IF trains THEN OnloadTiles(ActorOnloaded(m)) ELSE PreparedForReceive(m)

Published(m) == OnloadTiles(ActorOnloaded(m))

\* The weights of the publisher under the version the backend announced.
Received(m, weights, version) ==
  LET filled == [PreparedForReceive(m) EXCEPT !.weights = weights]
  IN [OffloadTiles(Prepared(filled, Policy(weights)))
        EXCEPT !.trainReady = FALSE, !.label = version]
=============================================================================
