------------------------ MODULE PolicySessionsProofs ------------------------
(***************************************************************************)
(* Whatever tasks run, a rank's ready flag is true of its actor and its    *)
(* cache is the one it was allocated for.  When one task drives the        *)
(* trainer, every rollout is generated inside its session by the policy as *)
(* it was when it was asked for, and no graph outlives its storage.        *)
(*                                                                         *)
(* That rests on where the driver is: its place says which commands can be *)
(* on a queue (QueueInv), whether the rollout rank is in a session         *)
(* (RankInv), and when the two engines hold the same weights (VersionInv). *)
(***************************************************************************)
EXTENDS PolicySessions, FiniteSetTheorems, SequenceTheorems, TLAPS

-----------------------------------------------------------------------------
\* What every command leaves of a rank's memory: its type, a cache of the size it
\* was allocated for, a ready flag that is true of the actor, and graphs over
\* storage that is there.

MemOK(m) ==
  /\ m \in Memory /\ m.spec = m.cache
  /\ m.trainReady => m.onDevice /\ m.tiles

\* No dangling graph, and none about to dangle when inference weights are
\* made anew.
GraphsOK(m) ==
  /\ m.graphs # "dangling"
  /\ m.graphs = "valid" => m.infer # NoInfer

\* Weights, version and session are as they were.
Same(m, n) ==
  /\ n.weights = m.weights /\ n.label = m.label
  /\ n.session = m.session /\ n.inferReady = m.inferReady

Good(m, n) == MemOK(n) /\ Same(m, n) /\ (GraphsOK(m) => GraphsOK(n))

Contents == [kind : {"none", "base", "policy"}, version : Nat]

LEMMA ContentTypes ==
  /\ NoInfer \in Contents /\ BaseOnly \in Contents /\ BaseOnly # NoInfer
  /\ \A v \in Nat : Policy(v) \in Contents /\ Policy(v) # NoInfer
BY DEF Contents, NoInfer, BaseOnly, Policy

LEMMA LoadedOK == MemOK(LoadedMemory) /\ GraphsOK(LoadedMemory)
BY DEF MemOK, GraphsOK, LoadedMemory, Memory, NoInfer

-----------------------------------------------------------------------------
LEMMA WithoutRolloutIs ==
  ASSUME NEW m \in Memory
  PROVE  WithoutRollout(m) =
           [m EXCEPT !.graphs = "none", !.infer = NoInfer, !.cache = 0, !.spec = 0]
BY DEF WithoutRollout, ClearCaches, ClearInfer, ReleaseGraphs, Freed, Memory

LEMMA WithoutRolloutGood ==
  ASSUME NEW m, MemOK(m)
  PROVE  Good(m, WithoutRollout(m))
<1> DEFINE w == WithoutRollout(m)
<1>1. w = [m EXCEPT !.graphs = "none", !.infer = NoInfer, !.cache = 0, !.spec = 0]
  BY WithoutRolloutIs DEF MemOK
<1> HIDE DEF w
<1>2. MemOK(w)
  BY <1>1, ContentTypes DEF MemOK, Memory, Contents
<1>3. Same(m, w)
  BY <1>1 DEF Same, MemOK, Memory
<1>4. GraphsOK(w)
  BY <1>1 DEF GraphsOK, MemOK, Memory
<1> QED BY <1>2, <1>3, <1>4 DEF Good, w

LEMMA ActorOnloadedGood ==
  ASSUME NEW m, MemOK(m)
  PROVE  Good(m, ActorOnloaded(m)) /\ ActorOnloaded(m).onDevice
BY DEF ActorOnloaded, Good, MemOK, Same, GraphsOK, Memory

LEMMA ActorOffloadedGood ==
  ASSUME NEW m, MemOK(m)
  PROVE  Good(m, ActorOffloaded(m))
<1> DEFINE w == WithoutRollout(m)
<1>1. Good(m, w)
  BY WithoutRolloutGood
<1>2. CASE m.onDevice
  <2>1. ActorOffloaded(m) = [w EXCEPT !.tiles = FALSE, !.trainReady = FALSE, !.onDevice = FALSE]
    BY <1>1, <1>2 DEF ActorOffloaded, OffloadTiles, Good, MemOK, Memory
  <2> HIDE DEF w
  <2> QED BY <1>1, <2>1 DEF Good, MemOK, Same, GraphsOK, Memory
<1>3. CASE ~m.onDevice
  BY <1>3 DEF ActorOffloaded, Good, MemOK, Same
<1> QED BY <1>2, <1>3

\* Fusing weights while the tiles are there, and giving up the tiles.
LEMMA FusedGood ==
  ASSUME NEW m, MemOK(m), NEW content \in Contents, content # NoInfer
  PROVE  LET n == [OffloadTiles(Prepared(OnloadTiles(m), content))
                     EXCEPT !.trainReady = FALSE]
         IN Good(m, n) /\ n.infer = content
<1> DEFINE n == [OffloadTiles(Prepared(OnloadTiles(m), content)) EXCEPT !.trainReady = FALSE]
<1>1. n = [m EXCEPT !.infer = content, !.tiles = FALSE, !.trainReady = FALSE,
                    !.graphs = IF m.infer # NoInfer THEN @ ELSE Freed(@)]
  BY DEF OffloadTiles, Prepared, OnloadTiles, MemOK, Memory
<1> HIDE DEF n
<1>2. MemOK(n)
  BY <1>1 DEF MemOK, Memory, Contents, Freed
<1>3. Same(m, n) /\ n.infer = content
  BY <1>1 DEF Same, MemOK, Memory
<1>4. ASSUME GraphsOK(m) PROVE GraphsOK(n)
  BY <1>1, <1>4 DEF GraphsOK, Freed, MemOK, Memory
<1> QED BY <1>2, <1>3, <1>4 DEF Good, n

LEMMA GoodTwice ==
  ASSUME NEW l, NEW m, NEW n, Good(l, m), Good(m, n)
  PROVE  Good(l, n)
BY DEF Good, Same

LEMMA PreparedForInferenceGood ==
  ASSUME NEW m, MemOK(m), NEW content \in Contents, content # NoInfer
  PROVE  Good(m, PreparedForInference(m, content))
BY ActorOnloadedGood, FusedGood, GoodTwice DEF PreparedForInference, Good

LEMMA OnloadTilesGood ==
  ASSUME NEW m, MemOK(m)
  PROVE  Good(m, OnloadTiles(m)) /\ OnloadTiles(m).tiles
BY DEF OnloadTiles, Good, MemOK, Same, GraphsOK, Memory

LEMMA PublishedGood ==
  ASSUME NEW m, MemOK(m)
  PROVE  Good(m, Published(m))
BY ActorOnloadedGood, OnloadTilesGood, GoodTwice DEF Published, Good

LEMMA PreparedForTrainGood ==
  ASSUME NEW m, MemOK(m)
  PROVE  Good(m, PreparedForTrain(m))
<1> DEFINE o == OnloadTiles(ActorOnloaded(m))
<1>1. Good(m, o)
  BY PublishedGood DEF Published
<1>2. o.tiles /\ o.onDevice
  BY ActorOnloadedGood DEF OnloadTiles, Good, MemOK, Memory
<1>3. PreparedForTrain(m) = [o EXCEPT !.trainReady = TRUE]
  BY DEF PreparedForTrain
<1> HIDE DEF o
<1> QED BY <1>1, <1>2, <1>3 DEF Good, MemOK, Same, GraphsOK, Memory

LEMMA PreparedForReceiveGood ==
  ASSUME NEW m, MemOK(m)
  PROVE  Good(m, PreparedForReceive(m))
BY ActorOnloadedGood, WithoutRolloutGood, OnloadTilesGood, GoodTwice
DEF PreparedForReceive, Good

LEMMA DroppedRolloutGood ==
  ASSUME NEW m, MemOK(m)
  PROVE  Good(m, DroppedRollout(m))
<1> DEFINE w == WithoutRollout(m)
<1>1. Good(m, w)
  BY WithoutRolloutGood
<1>2. DroppedRollout(m) = [w EXCEPT !.trainReady = FALSE]
  BY DEF DroppedRollout
<1> HIDE DEF w
<1> QED BY <1>1, <1>2 DEF Good, MemOK, Same, GraphsOK, Memory

-----------------------------------------------------------------------------
LEMMA SessionBegunGood ==
  ASSUME NEW m, MemOK(m)
  PROVE  LET n == SessionBegun(m)
         IN /\ MemOK(n) /\ (GraphsOK(m) => GraphsOK(n))
            /\ n.weights = m.weights /\ n.label = m.label
            /\ n.session /\ ~n.inferReady
<1> DEFINE o == ActorOnloaded(m)
<1>1. Good(m, o)
  BY ActorOnloadedGood
<1>2. SessionBegun(m) = [o EXCEPT !.session = TRUE, !.inferReady = FALSE]
  BY DEF SessionBegun
<1> HIDE DEF o
<1> QED BY <1>1, <1>2 DEF Good, MemOK, Same, GraphsOK, Memory

LEMMA SessionEndedGood ==
  ASSUME NEW m, MemOK(m), NEW keep, NEW trains
  PROVE  LET n == SessionEnded(m, keep, trains)
         IN /\ MemOK(n) /\ (GraphsOK(m) => GraphsOK(n))
            /\ n.weights = m.weights /\ n.label = m.label
            /\ ~n.session /\ ~n.inferReady
<1> DEFINE dropped == IF keep THEN m ELSE DroppedRollout(m)
           ready == IF trains THEN PreparedForTrain(dropped) ELSE dropped
<1>1. Good(m, dropped)
  BY DroppedRolloutGood DEF Good, Same
<1>2. Good(dropped, ready)
  BY <1>1, PreparedForTrainGood DEF Good, Same
<1>3. Good(m, ready)
  BY <1>1, <1>2, GoodTwice
<1>4. SessionEnded(m, keep, trains) = [ready EXCEPT !.session = FALSE, !.inferReady = FALSE]
  BY DEF SessionEnded
<1> HIDE DEF ready
<1> QED BY <1>3, <1>4 DEF Good, MemOK, Same, GraphsOK, Memory

LEMMA CacheReadyGood ==
  ASSUME NEW m, MemOK(m), NEW size \in Nat
  PROVE  Good(m, CacheReady(m, size)) /\ CacheReady(m, size).infer = m.infer
BY DEF CacheReady, ReleaseGraphs, Good, MemOK, Same, GraphsOK, Memory

\* Weights that a session's rollout would reuse are the actor's.
Current(m) == ReusesInfer(m) => m.infer = Policy(m.weights)

\* What a rollout leaves, and what it reads when reused weights are current.
Rolled(m, n) ==
  /\ MemOK(n) /\ n.weights = m.weights /\ n.label = m.label
  /\ n.session = m.session
  /\ Current(m) => Current(n) /\ (GraphsOK(m) => GraphsOK(n))

LEMMA InferReadyGood ==
  ASSUME NEW m, MemOK(m)
  PROVE  LET n == InferReady(m)
         IN Rolled(m, n) /\ (Current(m) => n.infer = Policy(m.weights))
<1> DEFINE f == [OffloadTiles(Prepared(OnloadTiles(m), Policy(m.weights)))
                   EXCEPT !.trainReady = FALSE]
<1>1. CASE ReusesInfer(m)
  BY <1>1 DEF InferReady, Rolled, Current
<1>2. CASE ~ReusesInfer(m)
  <2>1. m.weights \in Nat
    BY DEF MemOK, Memory
  <2>2. Good(m, f) /\ f.infer = Policy(m.weights)
    BY <2>1, FusedGood, ContentTypes
  <2>3. InferReady(m) = [f EXCEPT !.inferReady = @ \/ m.session]
    BY <1>2 DEF InferReady, OffloadTiles, Prepared, OnloadTiles, MemOK, Memory
  <2> HIDE DEF f
  <2> QED BY <2>2, <2>3 DEF Good, MemOK, Same, GraphsOK, Memory, Rolled, Current
<1> QED BY <1>1, <1>2

LEMMA RolloutReadyGood ==
  ASSUME NEW m, MemOK(m), NEW size \in Nat
  PROVE  LET n == RolloutReady(m, size)
         IN Rolled(m, n) /\ (Current(m) => n.infer = Policy(m.weights))
<1> DEFINE c == CacheReady(ActorOnloaded(m), size)
           i == InferReady(c)
           n == RolloutReady(m, size)
<1>1. Good(m, c) /\ c.infer = m.infer
  <2>1. Good(m, ActorOnloaded(m)) /\ ActorOnloaded(m).infer = m.infer
    BY ActorOnloadedGood DEF ActorOnloaded, MemOK, Memory
  <2> QED BY <2>1, CacheReadyGood, GoodTwice DEF Good
<1>2. Current(m) => Current(c)
  BY <1>1 DEF Current, ReusesInfer, Good, Same
<1>3. Rolled(c, i) /\ (Current(c) => i.infer = Policy(c.weights))
  BY <1>1, InferReadyGood DEF Good
<1>4. n = [i EXCEPT !.graphs = IF @ = "none" THEN "valid" ELSE @]
  BY DEF RolloutReady, GraphsReady
<1>5. Current(m) => i.infer # NoInfer
  BY <1>1, <1>2, <1>3, ContentTypes DEF Good, MemOK, Memory
<1> HIDE DEF i, c, n
<1>6. MemOK(n)
  BY <1>3, <1>4 DEF MemOK, Memory, Rolled
<1>7. Current(m) /\ GraphsOK(m) => GraphsOK(n)
  BY <1>1, <1>2, <1>3, <1>4, <1>5 DEF Good, GraphsOK, MemOK, Memory, Rolled
<1>8. /\ n.weights = m.weights /\ n.label = m.label /\ n.session = m.session
      /\ Current(m) => n.infer = Policy(m.weights)
  BY <1>1, <1>2, <1>3, <1>4 DEF Good, Same, MemOK, Memory, Rolled
<1> QED BY <1>6, <1>7, <1>8 DEF n, Rolled, Current

LEMMA AfterRolloutGood ==
  ASSUME NEW m, MemOK(m), NEW size \in Nat, NEW keep \in BOOLEAN
  PROVE  Rolled(m, AfterRollout(m, size, keep))
<1> DEFINE ran == IF size = 0 THEN m ELSE RolloutReady(m, size)
<1>1. Rolled(m, ran)
  BY RolloutReadyGood DEF Rolled
<1>2. CASE keep \/ m.session
  BY <1>1, <1>2 DEF AfterRollout
<1>3. CASE ~(keep \/ m.session)
  <2>1. AfterRollout(m, size, keep) = DroppedRollout(ran)
    BY <1>3 DEF AfterRollout
  <2>2. Good(ran, DroppedRollout(ran))
    BY <1>1, DroppedRolloutGood DEF Rolled
  <2> QED BY <1>1, <1>3, <2>1, <2>2 DEF Rolled, Good, Same, Current, ReusesInfer
<1> QED BY <1>2, <1>3

LEMMA TrainedGood ==
  ASSUME NEW m, MemOK(m), NEW n \in Nat
  PROVE  LET t == Trained(m, n)
         IN /\ MemOK(t) /\ (GraphsOK(m) => GraphsOK(t))
            /\ t.weights = m.weights + n /\ t.label = m.label + n
            /\ t.session = m.session /\ t.inferReady = m.inferReady
<1> DEFINE r == TrainReady(m)
<1>1. Good(m, r)
  BY PreparedForTrainGood DEF TrainReady, Good, Same
<1>2. Trained(m, n) = [r EXCEPT !.weights = @ + n, !.label = @ + n]
  BY DEF Trained
<1> DEFINE t == Trained(m, n)
<1> HIDE DEF r, t
<1>3. t = [r EXCEPT !.weights = @ + n, !.label = @ + n]
  BY <1>2 DEF t
<1>4. MemOK(t)
  <2>1. r \in Memory /\ r.spec = r.cache /\ (r.trainReady => r.onDevice /\ r.tiles)
    BY <1>1 DEF Good, MemOK
  <2>2. r.weights + n \in Nat /\ r.label + n \in Nat
    BY <2>1 DEF Memory
  <2>3. t \in Memory
    BY <1>3, <2>1, <2>2 DEF Memory
  <2> QED BY <1>3, <2>1, <2>3 DEF MemOK, Memory
<1>5. GraphsOK(m) => GraphsOK(t)
  BY <1>1, <1>3 DEF Good, GraphsOK, MemOK, Memory
<1>6. /\ t.weights = m.weights + n /\ t.label = m.label + n
      /\ t.session = m.session /\ t.inferReady = m.inferReady
  BY <1>1, <1>3 DEF Good, Same, MemOK, Memory
<1> QED BY <1>4, <1>5, <1>6 DEF t

LEMMA ScoredGood ==
  ASSUME NEW m, MemOK(m), NEW kind \in {"actor", "base", "role", "save"}
  PROVE  Good(m, Scored(m, kind))
<1>1. m.weights \in Nat
  BY DEF MemOK, Memory
<1> QED BY <1>1, PreparedForInferenceGood, ActorOffloadedGood, ActorOnloadedGood,
           ContentTypes
        DEF Scored

LEMMA PlannedGood ==
  ASSUME NEW m, MemOK(m), NEW trains
  PROVE  Good(m, Planned(m, trains))
BY PublishedGood, PreparedForReceiveGood DEF Planned, Published

LEMMA ReceivedGood ==
  ASSUME NEW m, MemOK(m), NEW w \in Nat, NEW v \in Nat, NEW n, n = Received(m, w, v)
  PROVE  /\ MemOK(n) /\ (GraphsOK(m) => GraphsOK(n))
         /\ n.weights = w /\ n.label = v
         /\ n.session = m.session /\ n.inferReady = m.inferReady
<1> DEFINE p == PreparedForReceive(m)
           f == [p EXCEPT !.weights = w]
           u == [OffloadTiles(Prepared(OnloadTiles(f), Policy(w)))
                   EXCEPT !.trainReady = FALSE]
<1>1. Good(m, p) /\ p.tiles
  BY PreparedForReceiveGood, ActorOnloadedGood, WithoutRolloutGood, OnloadTilesGood
  DEF PreparedForReceive, Good
<1>2. MemOK(f) /\ (GraphsOK(m) => GraphsOK(f)) /\ f.label = m.label /\ f.tiles
      /\ f.weights = w /\ f.session = m.session /\ f.inferReady = m.inferReady
  <2> HIDE DEF p
  <2> QED BY <1>1 DEF Good, MemOK, Same, GraphsOK, Memory
<1>3. OnloadTiles(f) = f
  BY <1>2 DEF OnloadTiles, MemOK, Memory
<1>4. Received(m, w, v) = [u EXCEPT !.label = v]
  BY <1>2, <1>3 DEF Received, OffloadTiles, Prepared, MemOK, Memory
<1>5. Good(f, u)
  BY <1>2, FusedGood, ContentTypes
<1> HIDE DEF u, f
<1> QED BY <1>2, <1>4, <1>5 DEF Good, MemOK, Same, GraphsOK, Memory

-----------------------------------------------------------------------------
Places ==
  {"idle", "syncing", "synced", "locked", "planTrain", "planRollout", "transfer",
   "opening", "open", "rolling", "ending", "closed", "scoring", "training"}
Ops ==
  {"plan", "publish", "receive", "begin", "end", "rollout", "train",
   "actor", "base", "role", "save"}
Commands == [by : Tasks, op : Ops, arg : Nat, asked : Nat]

TypeInv ==
  /\ mode \in Modes
  /\ mem \in [Engines -> Memory] /\ queue \in [Engines -> Seq(Commands)]
  /\ task \in [Tasks -> Places] /\ goal \in [Tasks -> {"session", "rollout"}]
  /\ chosen \in [Tasks -> Nat] /\ trainVersion \in Nat /\ rolloutVersion \in Nat

MemInv == \A e \in Engines : MemOK(mem[e])

-----------------------------------------------------------------------------
LEMMA InitTypes == Init => TypeInv /\ MemInv
<1> SUFFICES ASSUME Init PROVE TypeInv /\ MemInv
  OBVIOUS
<1>1. MemInv
  BY LoadedOK DEF Init, MemInv
<1>2. mem \in [Engines -> Memory]
  BY LoadedOK DEF Init, MemOK
<1>3. queue \in [Engines -> Seq(Commands)]
  BY DEF Init
<1> QED BY <1>1, <1>2, <1>3 DEF Init, TypeInv, Places

LEMMA SubmitTypes ==
  ASSUME NEW e \in Engines, NEW c \in Commands,
         queue \in [Engines -> Seq(Commands)], Submit(e, c)
  PROVE  queue' \in [Engines -> Seq(Commands)]
BY DEF Submit

LEMMA CommandTypes ==
  ASSUME NEW t \in Tasks, NEW op \in Ops, NEW arg \in Nat, NEW asked \in Nat
  PROVE  Command(t, op, arg, asked) \in Commands
BY DEF Command, Commands

LEMMA MemNext ==
  ASSUME TypeInv, MemInv, [Next]_vars
  PROVE  MemInv'
<1> USE DEF MemInv
<1>1. ASSUME NEW d \in Drivers, BeginSession(d) PROVE MemInv'
  BY <1>1 DEF BeginSession, Goto, WorkersUnchanged, BackendUnchanged, SyncUnchanged
<1>2. ASSUME NEW d \in Drivers, OpenSession(d) PROVE MemInv'
  BY <1>2 DEF OpenSession, Goto, Submit, Command, WorkersUnchanged, BackendUnchanged, SyncUnchanged
<1>3. ASSUME NEW d \in Drivers, Opened(d) PROVE MemInv'
  BY <1>3 DEF Opened, Goto, WorkersUnchanged, BackendUnchanged, SyncUnchanged
<1>4. ASSUME NEW d \in Drivers, CloseSession(d) PROVE MemInv'
  BY <1>4 DEF CloseSession, Goto, Submit, Command, WorkersUnchanged, BackendUnchanged, SyncUnchanged
<1>5. ASSUME NEW d \in Drivers, Ended(d) PROVE MemInv'
  BY <1>5 DEF Ended, Goto, WorkersUnchanged, BackendUnchanged, SyncUnchanged
<1>6. ASSUME NEW d \in Drivers, NEW kind \in ScoreKinds, Score(d, kind) PROVE MemInv'
  BY <1>6 DEF Score, Goto, Submit, Command, ScoreKinds, WorkersUnchanged, BackendUnchanged, SyncUnchanged
<1>7. ASSUME NEW d \in Drivers, ScoreReturned(d) PROVE MemInv'
  BY <1>7 DEF ScoreReturned, Goto, WorkersUnchanged, BackendUnchanged, SyncUnchanged
<1>8. ASSUME NEW d \in Drivers, NEW n \in {1, 2}, Train(d, n) PROVE MemInv'
  BY <1>8 DEF Train, Goto, Submit, Command, WorkersUnchanged, BackendUnchanged, SyncUnchanged
<1>9. ASSUME NEW d \in Drivers, TrainReturned(d) PROVE MemInv'
  BY <1>9 DEF TrainReturned, Goto, WorkersUnchanged, BackendUnchanged, SyncUnchanged
<1>10. ASSUME NEW d \in Drivers, SkipTrain(d) PROVE MemInv'
  BY <1>10 DEF SkipTrain, Goto, WorkersUnchanged, BackendUnchanged, SyncUnchanged
<1>11. ASSUME NEW t \in Tasks, SyncSkip(t) PROVE MemInv'
  BY <1>11 DEF SyncSkip, Goto, WorkersUnchanged, BackendUnchanged, SyncUnchanged
<1>12. ASSUME NEW t \in Tasks, SyncLock(t) PROVE MemInv'
  BY <1>12 DEF SyncLock, Goto, WorkersUnchanged, BackendUnchanged, SyncUnchanged
<1>13. ASSUME NEW t \in Tasks, SyncRecheck(t) PROVE MemInv'
  BY <1>13 DEF SyncRecheck, Goto, Submit, Command, WorkersUnchanged, BackendUnchanged, SyncUnchanged
<1>14. ASSUME NEW t \in Tasks, SyncPlan(t) PROVE MemInv'
  BY <1>14 DEF SyncPlan, Goto, Submit, Command, WorkersUnchanged, BackendUnchanged, SyncUnchanged
<1>15. ASSUME NEW t \in Tasks, SyncTransfer(t) PROVE MemInv'
  BY <1>15 DEF SyncTransfer, Goto, Command, WorkersUnchanged, BackendUnchanged, SyncUnchanged
<1>16. ASSUME NEW t \in Tasks, SyncFinish(t) PROVE MemInv'
  BY <1>16 DEF SyncFinish, Goto, WorkersUnchanged, BackendUnchanged, SyncUnchanged
<1>17. ASSUME NEW t \in Tasks, RolledOut(t) PROVE MemInv'
  BY <1>17 DEF RolledOut, Goto, WorkersUnchanged, BackendUnchanged, SyncUnchanged
<1>18. ASSUME NEW t \in Tasks, NEW size \in CacheSizes \cup {0}, Rollout(t, size) PROVE MemInv'
  BY <1>18 DEF Rollout, Goto, Submit, RolloutCommand, WorkersUnchanged, BackendUnchanged, SyncUnchanged, Command
<1>19. ASSUME NEW t \in Tasks, NEW size \in CacheSizes \cup {0}, SyncedRollout(t, size) PROVE MemInv'
  BY <1>19 DEF SyncedRollout, Goto, Submit, RolloutCommand, WorkersUnchanged, BackendUnchanged, SyncUnchanged, Command
<1>20. ASSUME NEW e \in Engines, Execute(e) PROVE MemInv'
  <2> DEFINE c == Head(queue[e])
  <2>1. c \in Commands /\ c.op \notin {"publish", "receive"} /\ mem'[e] = Effect(e, c)
        /\ \A f \in Engines \ {e} : mem'[f] = mem[f]
    BY <1>20 DEF Execute, TypeInv
  <2>2. MemOK(mem[e]) /\ c.arg \in Nat /\ mode.keep \in BOOLEAN
    BY <2>1 DEF Commands, TypeInv, Modes
  <2> HIDE DEF c
  <2>3. MemOK(Effect(e, c))
    <3>1. CASE c.op = "begin"
      BY <2>2, <3>1, SessionBegunGood DEF Effect
    <3>2. CASE c.op = "end"
      BY <2>2, <3>2, SessionEndedGood DEF Effect
    <3>3. CASE c.op = "rollout"
      BY <2>2, <3>3, AfterRolloutGood DEF Effect, Rolled
    <3>4. CASE c.op = "train"
      BY <2>2, <3>4, TrainedGood DEF Effect
    <3>5. CASE c.op = "plan"
      BY <2>2, <3>5, PlannedGood DEF Effect, Good
    <3>6. CASE c.op \in {"actor", "base", "role", "save"}
      BY <2>2, <3>6, ScoredGood DEF Effect, Good
    <3> QED BY <2>1, <3>1, <3>2, <3>3, <3>4, <3>5, <3>6 DEF Commands, Ops
  <2> QED BY <2>1, <2>3
<1>21. CASE ExecuteTransfer
  <2> DEFINE v == Head(queue["rollout"]).arg
  <2>1. v \in Nat /\ mem["train"].weights \in Nat
    <3>1. queue["rollout"] \in Seq(Commands) /\ queue["rollout"] # <<>>
      BY <1>21 DEF ExecuteTransfer, TypeInv, Engines
    <3>2. Head(queue["rollout"]) \in Commands
      BY <3>1
    <3> QED BY <3>2 DEF TypeInv, Commands, Engines, Memory
  <2> HIDE DEF v
  <2>2. mem'["train"] = Published(mem["train"])
        /\ mem'["rollout"] = Received(mem["rollout"], mem["train"].weights, v)
    BY <1>21 DEF ExecuteTransfer, v
  <2>3. MemOK(mem["train"]) /\ MemOK(mem["rollout"])
    BY DEF Engines
  <2>4. MemOK(mem'["train"]) /\ MemOK(mem'["rollout"])
    <3>1. MemOK(Published(mem["train"]))
      BY <2>3, PublishedGood DEF Good
    <3> DEFINE m == mem["rollout"]
               w == mem["train"].weights
               n == mem'["rollout"]
    <3>2. MemOK(m) /\ w \in Nat /\ n = Received(m, w, v)
      BY <2>1, <2>2, <2>3
    <3> HIDE DEF m, w, n
    <3>3. MemOK(n)
      BY <2>1, <3>2, ReceivedGood
    <3> QED BY <2>2, <3>1, <3>3 DEF n
  <2> QED BY <2>4 DEF Engines
<1>22. CASE UNCHANGED vars
  BY <1>22 DEF vars
<1> QED
  BY <1>1, <1>2, <1>3, <1>4, <1>5, <1>6, <1>7, <1>8, <1>9, <1>10, <1>11, <1>12, <1>13, <1>14, <1>15, <1>16, <1>17, <1>18, <1>19, <1>20, <1>21, <1>22
  DEF Next, DriverStep, TaskStep, Finished

LEMMA TypesNext ==
  ASSUME TypeInv, MemInv, MemInv', [Next]_vars
  PROVE  TypeInv'
<1> USE DEF TypeInv, Places
<1>1. ASSUME NEW d \in Drivers, BeginSession(d) PROVE TypeInv'
  BY <1>1 DEF BeginSession, Goto, WorkersUnchanged, BackendUnchanged, SyncUnchanged
<1>2. ASSUME NEW d \in Drivers, OpenSession(d) PROVE TypeInv'
  <2>1. Command(d, "begin", 0, 0) \in Commands
    BY CommandTypes DEF Ops, Tasks
  <2>2. queue' \in [Engines -> Seq(Commands)]
    BY <1>2, <2>1, SubmitTypes DEF OpenSession, Engines, RolloutEngine
  <2> QED BY <1>2, <2>2 DEF OpenSession, Goto, WorkersUnchanged, BackendUnchanged, SyncUnchanged
<1>3. ASSUME NEW d \in Drivers, Opened(d) PROVE TypeInv'
  BY <1>3 DEF Opened, Goto, WorkersUnchanged, BackendUnchanged, SyncUnchanged
<1>4. ASSUME NEW d \in Drivers, CloseSession(d) PROVE TypeInv'
  <2>1. Command(d, "end", 0, 0) \in Commands
    BY CommandTypes DEF Ops, Tasks
  <2>2. queue' \in [Engines -> Seq(Commands)]
    BY <1>4, <2>1, SubmitTypes DEF CloseSession, Engines, RolloutEngine
  <2> QED BY <1>4, <2>2 DEF CloseSession, Goto, WorkersUnchanged, BackendUnchanged, SyncUnchanged
<1>5. ASSUME NEW d \in Drivers, Ended(d) PROVE TypeInv'
  BY <1>5 DEF Ended, Goto, WorkersUnchanged, BackendUnchanged, SyncUnchanged
<1>6. ASSUME NEW d \in Drivers, NEW kind \in ScoreKinds, Score(d, kind) PROVE TypeInv'
  <2>1. Command(d, kind, 0, 0) \in Commands
    BY CommandTypes DEF Ops, Tasks, ScoreKinds
  <2>2. queue' \in [Engines -> Seq(Commands)]
    BY <1>6, <2>1, SubmitTypes DEF Score, Engines, RolloutEngine
  <2> QED BY <1>6, <2>2 DEF Score, Goto, WorkersUnchanged, BackendUnchanged, SyncUnchanged
<1>7. ASSUME NEW d \in Drivers, ScoreReturned(d) PROVE TypeInv'
  BY <1>7 DEF ScoreReturned, Goto, WorkersUnchanged, BackendUnchanged, SyncUnchanged
<1>8. ASSUME NEW d \in Drivers, NEW n \in {1, 2}, Train(d, n) PROVE TypeInv'
  <2>1. Command(d, "train", n, 0) \in Commands
    BY CommandTypes DEF Ops, Tasks
  <2>2. queue' \in [Engines -> Seq(Commands)]
    BY <1>8, <2>1, SubmitTypes DEF Train, Engines, RolloutEngine
  <2> QED BY <1>8, <2>2 DEF Train, Goto, WorkersUnchanged, BackendUnchanged, SyncUnchanged
<1>9. ASSUME NEW d \in Drivers, TrainReturned(d) PROVE TypeInv'
  <2>1. mem["train"].label \in Nat
    BY DEF Engines, Memory
  <2>2. trainVersion' \in Nat
    BY <1>9, <2>1 DEF TrainReturned
  <2> QED BY <1>9, <2>2 DEF TrainReturned, Goto, WorkersUnchanged, SyncUnchanged
<1>10. ASSUME NEW d \in Drivers, SkipTrain(d) PROVE TypeInv'
  BY <1>10 DEF SkipTrain, Goto, WorkersUnchanged, BackendUnchanged, SyncUnchanged
<1>11. ASSUME NEW t \in Tasks, SyncSkip(t) PROVE TypeInv'
  BY <1>11 DEF SyncSkip, Goto, WorkersUnchanged, BackendUnchanged, SyncUnchanged
<1>12. ASSUME NEW t \in Tasks, SyncLock(t) PROVE TypeInv'
  BY <1>12 DEF SyncLock, Goto, WorkersUnchanged, BackendUnchanged, SyncUnchanged
<1>13. ASSUME NEW t \in Tasks, SyncRecheck(t) PROVE TypeInv'
  <2>1. Command(t, "plan", 0, 0) \in Commands
    BY CommandTypes DEF Ops, Tasks
  <2>2. queue' \in [Engines -> Seq(Commands)]
    BY <1>13, <2>1, SubmitTypes DEF SyncRecheck, Engines, RolloutEngine
  <2> QED BY <1>13, <2>2 DEF SyncRecheck, Goto, WorkersUnchanged, BackendUnchanged, SyncUnchanged
<1>14. ASSUME NEW t \in Tasks, SyncPlan(t) PROVE TypeInv'
  <2>1. Command(t, "plan", 0, 0) \in Commands
    BY CommandTypes DEF Ops, Tasks
  <2>2. queue' \in [Engines -> Seq(Commands)]
    BY <1>14, <2>1, SubmitTypes DEF SyncPlan, Engines, RolloutEngine
  <2> QED BY <1>14, <2>2 DEF SyncPlan, Goto, WorkersUnchanged, BackendUnchanged, SyncUnchanged
<1>15. ASSUME NEW t \in Tasks, SyncTransfer(t) PROVE TypeInv'
  <2>1. Command(t, "publish", trainVersion, 0) \in Commands
        /\ Command(t, "receive", trainVersion, 0) \in Commands
    BY CommandTypes DEF Ops
  <2>2. Append(queue["train"], Command(t, "publish", trainVersion, 0)) \in Seq(Commands)
        /\ Append(queue["rollout"], Command(t, "receive", trainVersion, 0)) \in Seq(Commands)
    BY <2>1 DEF Engines
  <2> DEFINE a == Append(queue["train"], Command(t, "publish", trainVersion, 0))
             b == Append(queue["rollout"], Command(t, "receive", trainVersion, 0))
  <2>3. a \in Seq(Commands) /\ b \in Seq(Commands) /\ queue' = [train |-> a, rollout |-> b]
    BY <1>15, <2>2 DEF SyncTransfer
  <2> HIDE DEF a, b
  <2>4. queue' \in [Engines -> Seq(Commands)]
    BY <2>3 DEF Engines
  <2> QED BY <1>15, <2>4 DEF SyncTransfer, Goto, WorkersUnchanged, BackendUnchanged
<1>16. ASSUME NEW t \in Tasks, SyncFinish(t) PROVE TypeInv'
  BY <1>16 DEF SyncFinish, Goto, WorkersUnchanged, BackendUnchanged, SyncUnchanged
<1>17. ASSUME NEW t \in Tasks, RolledOut(t) PROVE TypeInv'
  BY <1>17 DEF RolledOut, Goto, WorkersUnchanged, BackendUnchanged, SyncUnchanged
<1>18. ASSUME NEW t \in Tasks, NEW size \in CacheSizes \cup {0}, Rollout(t, size) PROVE TypeInv'
  <2>a. size \in Nat
    BY BoundsAssumption
  <2>b. mem["train"].weights \in Nat
    BY DEF Engines, Memory
  <2>1. size \in Nat /\ mem["train"].weights \in Nat
    BY <2>a, <2>b
  <2>2. RolloutCommand(t, size) \in Commands
    BY <2>1, CommandTypes DEF RolloutCommand, Ops
  <2>3. queue' \in [Engines -> Seq(Commands)]
    BY <1>18, <2>2, SubmitTypes DEF Rollout, Engines, RolloutEngine
  <2> QED BY <1>18, <2>3 DEF Rollout, Goto, WorkersUnchanged, BackendUnchanged, SyncUnchanged
<1>19. ASSUME NEW t \in Tasks, NEW size \in CacheSizes \cup {0}, SyncedRollout(t, size) PROVE TypeInv'
  <2>a. size \in Nat
    BY BoundsAssumption
  <2>b. mem["train"].weights \in Nat
    BY DEF Engines, Memory
  <2>1. size \in Nat /\ mem["train"].weights \in Nat
    BY <2>a, <2>b
  <2>2. RolloutCommand(t, size) \in Commands
    BY <2>1, CommandTypes DEF RolloutCommand, Ops
  <2>3. queue' \in [Engines -> Seq(Commands)]
    BY <1>19, <2>2, SubmitTypes DEF SyncedRollout, Engines, RolloutEngine
  <2> QED BY <1>19, <2>3 DEF SyncedRollout, Goto, WorkersUnchanged, BackendUnchanged, SyncUnchanged
<1>20. ASSUME NEW e \in Engines, Execute(e) PROVE TypeInv'
  <2>1. queue' \in [Engines -> Seq(Commands)]
    BY <1>20 DEF Execute
  <2>2. mem' \in [Engines -> Memory]
    BY <1>20 DEF Execute, MemInv, MemOK
  <2> QED BY <1>20, <2>1, <2>2 DEF Execute, BackendUnchanged, SyncUnchanged
<1>21. CASE ExecuteTransfer
  <2>1. queue' \in [Engines -> Seq(Commands)]
    BY <1>21 DEF ExecuteTransfer, Engines
  <2>2. mem' \in [Engines -> Memory]
    BY <1>21 DEF ExecuteTransfer, MemInv, MemOK, Engines
  <2> QED BY <1>21, <2>1, <2>2 DEF ExecuteTransfer, BackendUnchanged, SyncUnchanged
<1>22. CASE UNCHANGED vars
  BY <1>22 DEF vars
<1> QED
  BY <1>1, <1>2, <1>3, <1>4, <1>5, <1>6, <1>7, <1>8, <1>9, <1>10, <1>11, <1>12, <1>13, <1>14, <1>15, <1>16, <1>17, <1>18, <1>19, <1>20, <1>21, <1>22
  DEF Next, DriverStep, TaskStep, Finished

-----------------------------------------------------------------------------
\* From here on: the driver d is the only one.

InSession == {"open", "rolling"}

\* Agents' requests are idle or rolling out; the depth and the flag follow the
\* driver.
PhaseInv(d) ==
  /\ \A t \in Tasks \ {d} : task[t] = "idle" \/ (t \in Chats /\ task[t] = "rolling")
  /\ \A t \in Tasks : goal[t] = "session"
  /\ depth = IF task[d] \in InSession THEN 1 ELSE 0
  /\ active <=> task[d] \in InSession \cup {"ending"}
  /\ task[d] \in {"locked", "planTrain", "planRollout", "transfer"} => mode.separate

\* The command the driver waits for at each place.
Awaits(place, e, op) ==
  \/ place = "planTrain" /\ e = "train" /\ op = "plan"
  \/ place = "planRollout" /\ e = "rollout" /\ op = "plan"
  \/ place = "transfer" /\ e = "train" /\ op = "publish"
  \/ place = "transfer" /\ e = "rollout" /\ op = "receive"
  \/ place = "opening" /\ e = RolloutEngine /\ op = "begin"
  \/ place = "ending" /\ e = RolloutEngine /\ op = "end"
  \/ place = "scoring" /\ e = "train" /\ op \in {"actor", "base", "role", "save"}
  \/ place = "training" /\ e = "train" /\ op = "train"

\* A queue holds rollouts of the session, and last what the driver waits for.
QueuedOK(d, e, i) ==
  \/ /\ queue[e][i].op = "rollout" /\ e = RolloutEngine
     /\ queue[e][i].asked = mem["train"].weights
     /\ task[d] \in InSession \/ (task[d] = "ending" /\ i # Len(queue[e]))
  \/ /\ Awaits(task[d], e, queue[e][i].op)
     /\ queue[e][i].by = d /\ i = Len(queue[e])
     /\ queue[e][i].op = "train" => queue[e][i].arg > 0
     /\ queue[e][i].op = "receive" => queue[e][i].arg = trainVersion

QueueInv(d) == \A e \in Engines : \A i \in DOMAIN queue[e] : QueuedOK(d, e, i)

\* The rollout rank is in a session from the begin command to the end command,
\* and there its weights are current.
RankInv(d) ==
  /\ \A e \in Engines : GraphsOK(mem[e])
  /\ Current(mem[RolloutEngine])
  /\ mem[RolloutEngine].session <=>
       \/ task[d] \in InSession
       \/ task[d] = "opening" /\ queue[RolloutEngine] = <<>>
       \/ task[d] = "ending" /\ queue[RolloutEngine] # <<>>

\* When both engines hold the same weights, and what the versions count.
SameWeights == mem["rollout"].weights = mem["train"].weights

VersionInv(d) ==
  mode.separate =>
    /\ rolloutVersion <= trainVersion
    /\ trainVersion = rolloutVersion /\ task[d] # "training" => SameWeights
    /\ task[d] \in {"synced", "opening", "ending"} \cup InSession => SameWeights
    /\ task[d] = "transfer" =>
         chosen[d] = trainVersion /\ (queue["rollout"] = <<>> => SameWeights)

LabelInv(d) ==
  mode.lora =>
    /\ \A e \in Engines : mem[e].label = mem[e].weights
    /\ mode.separate =>
         IF task[d] = "training" /\ queue["train"] = <<>>
         THEN mem["train"].label > trainVersion ELSE mem["train"].label = trainVersion

OutputInv ==
  \A o \in outputs : /\ o.used = Policy(o.asked) /\ o.inSession
                     /\ mode.lora => o.label = o.asked

LoneInv(d) ==
  /\ PhaseInv(d) /\ QueueInv(d) /\ RankInv(d) /\ VersionInv(d) /\ LabelInv(d)
  /\ OutputInv


LEMMA InitLone ==
  ASSUME NEW d \in Drivers, Init, MemInv
  PROVE  LoneInv(d)
<1>1. /\ task = [t \in Tasks |-> "idle"] /\ goal = [t \in Tasks |-> "session"]
      /\ depth = 0 /\ active = FALSE /\ d \in Tasks /\ outputs = {}
      /\ rolloutVersion = 0 /\ trainVersion = 0
  BY DEF Init, Tasks
<1>2. \A e \in Engines : queue[e] = <<>> /\ mem[e] = LoadedMemory
  BY DEF Init
<1>3. /\ GraphsOK(LoadedMemory) /\ LoadedMemory.weights = 0 /\ LoadedMemory.label = 0
      /\ LoadedMemory.session = FALSE
  BY LoadedOK DEF LoadedMemory
<1>4. RolloutEngine \in Engines /\ "train" \in Engines /\ "rollout" \in Engines
  BY DEF RolloutEngine, Engines
<1>5. PhaseInv(d)
  BY <1>1 DEF PhaseInv, InSession
<1>6. QueueInv(d)
  BY <1>2 DEF QueueInv, QueuedOK
<1>7. RankInv(d)
  BY <1>1, <1>2, <1>3, <1>4 DEF RankInv, Current, ReusesInfer, InSession
<1>8. VersionInv(d) /\ LabelInv(d)
  BY <1>1, <1>2, <1>3, <1>4 DEF VersionInv, LabelInv, SameWeights, InSession
<1>9. OutputInv
  BY <1>1 DEF OutputInv
<1> QED BY <1>5, <1>6, <1>7, <1>8, <1>9 DEF LoneInv

\* Between sessions nothing is queued but what the driver waits for.
LEMMA EmptyQueues ==
  ASSUME NEW d \in Drivers, TypeInv, QueueInv(d), task[d] \notin InSession,
         \/ Done(d)
         \/ task[d] \in {"idle", "closed", "syncing", "synced", "locked"}
  PROVE  \A e \in Engines : queue[e] = <<>>
<1> SUFFICES ASSUME NEW e \in Engines, queue[e] # <<>> PROVE FALSE
  OBVIOUS
<1>1. queue[e] \in Seq(Commands)
  BY DEF TypeInv
<1>2. Len(queue[e]) \in DOMAIN queue[e]
  BY <1>1
<1>3. Awaits(task[d], e, queue[e][Len(queue[e])].op) /\ queue[e][Len(queue[e])].by = d
  BY <1>2 DEF QueueInv, QueuedOK
<1>4. ~Done(d)
  BY <1>2, <1>3 DEF Done
<1> QED BY <1>3, <1>4 DEF Awaits

\* With one driver, no other task begins, synchronises or finds the flag down.
Asks(t, size) ==
  /\ MayRollout(t) /\ Goto(t, "rolling")
  /\ Submit(RolloutEngine, RolloutCommand(t, size))
  /\ BackendUnchanged /\ WorkersUnchanged /\ UNCHANGED <<goal, lock, chosen, depth>>

LoneStep(d) ==
  \/ BeginSession(d) \/ OpenSession(d) \/ Opened(d) \/ CloseSession(d) \/ Ended(d)
  \/ \E kind \in ScoreKinds : Score(d, kind)
  \/ ScoreReturned(d) \/ TrainReturned(d) \/ SkipTrain(d)
  \/ \E n \in {1, 2} : Train(d, n)
  \/ SyncSkip(d) \/ SyncLock(d) \/ SyncRecheck(d) \/ SyncPlan(d)
  \/ SyncTransfer(d) \/ SyncFinish(d)
  \/ \E t \in Chats \cup {d} : RolledOut(t)
  \/ \E t \in Chats \cup {d} : \E size \in CacheSizes \cup {0} : Asks(t, size)
  \/ \E e \in Engines : Execute(e)
  \/ ExecuteTransfer
  \/ UNCHANGED vars

LEMMA LoneSteps ==
  ASSUME NEW d \in Drivers, mode.drivers = {d}, TypeInv, PhaseInv(d), [Next]_vars
  PROVE  LoneStep(d)
<1>1. ASSUME NEW x \in Drivers, DriverStep(x)
      PROVE  LoneStep(d)
  <2>1. CASE x = d
    BY <1>1, <2>1 DEF DriverStep, LoneStep
  <2>2. CASE x # d
    <3>1. task[x] = "idle"
      BY <2>2, TasksAssumption DEF PhaseInv, Tasks
    <3> QED BY <1>1, <2>2, <3>1
            DEF DriverStep, BeginSession, OpenSession, Opened, CloseSession, Ended,
                Score, ScoreReturned, TrainReturned, SkipTrain, Train
  <2> QED BY <2>1, <2>2
<1>2. ASSUME NEW t \in Tasks, TaskStep(t)
      PROVE  LoneStep(d)
  <2>1. ASSUME NEW size \in CacheSizes \cup {0}, Rollout(t, size)
        PROVE  LoneStep(d)
    <3>1. depth > 0 /\ active
      BY <2>1 DEF Rollout, MayRollout, PhaseInv
    <3>2. t \in Chats \cup {d}
      BY <2>1 DEF Rollout, MayRollout, PhaseInv, Tasks
    <3>3. Asks(t, size)
      BY <2>1, <3>1 DEF Rollout, Asks
    <3> QED BY <3>2, <3>3 DEF LoneStep
  <2>2. ~(\E size \in CacheSizes \cup {0} : SyncedRollout(t, size))
    BY DEF SyncedRollout, PhaseInv
  <2>3. CASE t = d
    BY <1>2, <2>1, <2>2, <2>3 DEF TaskStep, LoneStep
  <2>4. CASE t # d
    <3>1. task[t] = "idle" \/ (t \in Chats /\ task[t] = "rolling")
      BY <2>4 DEF PhaseInv
    <3>2. CASE RolledOut(t)
      BY <3>1, <3>2 DEF RolledOut, LoneStep
    <3> QED BY <1>2, <2>1, <2>2, <3>1, <3>2
            DEF TaskStep, SyncSkip, SyncLock, SyncRecheck, SyncPlan, SyncTransfer, SyncFinish
  <2> QED BY <2>3, <2>4
<1> QED BY <1>1, <1>2 DEF Next, LoneStep, Finished

LEMMA PhaseNext ==
  ASSUME NEW d \in Drivers, TypeInv, PhaseInv(d), LoneStep(d)
  PROVE  PhaseInv(d)'
<1> task \in [Tasks -> Places] /\ d \in Tasks /\ Chats \subseteq Tasks
  BY DEF TypeInv, Tasks
<1> goal \in [Tasks -> {"session", "rollout"}] /\ d \notin Chats
  BY TasksAssumption DEF TypeInv
<1> USE DEF PhaseInv, InSession
<1>1. CASE BeginSession(d)
  BY <1>1 DEF BeginSession, Goto, WorkersUnchanged, BackendUnchanged, SyncUnchanged
<1>2. CASE OpenSession(d)
  BY <1>2 DEF OpenSession, Goto, Submit, Command, WorkersUnchanged, BackendUnchanged, SyncUnchanged
<1>3. CASE Opened(d)
  BY <1>3 DEF Opened, Goto, WorkersUnchanged, BackendUnchanged, SyncUnchanged
<1>4. CASE CloseSession(d)
  BY <1>4 DEF CloseSession, Goto, Submit, Command, WorkersUnchanged, BackendUnchanged, SyncUnchanged
<1>5. CASE Ended(d)
  BY <1>5 DEF Ended, Goto, WorkersUnchanged, BackendUnchanged, SyncUnchanged
<1>6. ASSUME NEW kind \in ScoreKinds, Score(d, kind) PROVE PhaseInv(d)'
  BY <1>6 DEF Score, Goto, Submit, Command, ScoreKinds, WorkersUnchanged, BackendUnchanged, SyncUnchanged
<1>7. CASE ScoreReturned(d)
  BY <1>7 DEF ScoreReturned, Goto, WorkersUnchanged, BackendUnchanged, SyncUnchanged
<1>8. ASSUME NEW n \in {1, 2}, Train(d, n) PROVE PhaseInv(d)'
  BY <1>8 DEF Train, Goto, Submit, Command, WorkersUnchanged, BackendUnchanged, SyncUnchanged
<1>9. CASE TrainReturned(d)
  BY <1>9 DEF TrainReturned, Goto, WorkersUnchanged, BackendUnchanged, SyncUnchanged
<1>10. CASE SkipTrain(d)
  BY <1>10 DEF SkipTrain, Goto, WorkersUnchanged, BackendUnchanged, SyncUnchanged
<1>11. CASE SyncSkip(d)
  BY <1>11 DEF SyncSkip, Goto, WorkersUnchanged, BackendUnchanged, SyncUnchanged
<1>12. CASE SyncLock(d)
  BY <1>12 DEF SyncLock, InStep, Goto, WorkersUnchanged, BackendUnchanged, SyncUnchanged
<1>13. CASE SyncRecheck(d)
  BY <1>13 DEF SyncRecheck, Goto, Submit, Command, WorkersUnchanged, BackendUnchanged, SyncUnchanged
<1>14. CASE SyncPlan(d)
  BY <1>14 DEF SyncPlan, Goto, Submit, Command, WorkersUnchanged, BackendUnchanged, SyncUnchanged
<1>15. CASE SyncTransfer(d)
  BY <1>15 DEF SyncTransfer, Goto, Command, WorkersUnchanged, BackendUnchanged, SyncUnchanged
<1>16. CASE SyncFinish(d)
  BY <1>16 DEF SyncFinish, Goto, WorkersUnchanged, BackendUnchanged, SyncUnchanged
<1>17. ASSUME NEW t \in Chats \cup {d}, RolledOut(t) PROVE PhaseInv(d)'
  BY <1>17, TasksAssumption
  DEF RolledOut, Goto, WorkersUnchanged, BackendUnchanged, SyncUnchanged
<1>18. ASSUME NEW t \in Chats \cup {d}, NEW size \in CacheSizes \cup {0}, Asks(t, size) PROVE PhaseInv(d)'
  BY <1>18 DEF Asks, MayRollout, Goto, Submit, WorkersUnchanged, BackendUnchanged
<1>19. ASSUME NEW e \in Engines, Execute(e) PROVE PhaseInv(d)'
  BY <1>19 DEF Execute, BackendUnchanged, SyncUnchanged
<1>20. CASE ExecuteTransfer
  BY <1>20 DEF ExecuteTransfer, BackendUnchanged, SyncUnchanged
<1>21. CASE UNCHANGED vars
  BY <1>21 DEF vars
<1> QED
  BY <1>1, <1>2, <1>3, <1>4, <1>5, <1>6, <1>7, <1>8, <1>9, <1>10, <1>11, <1>12, <1>13, <1>14, <1>15, <1>16, <1>17, <1>18, <1>19, <1>20, <1>21
  DEF LoneStep

-----------------------------------------------------------------------------
\* What a rank has done when it has executed a command.
RanRollout(d, e) ==
  /\ Head(queue[e]).op = "rollout" /\ e = RolloutEngine
  /\ Head(queue[e]).asked = mem["train"].weights
  /\ task[d] \in InSession \/ (task[d] = "ending" /\ queue'[e] # <<>>)
  /\ Rolled(mem[e], mem'[e])

Answered(d, e) == Head(queue[e]).op # "rollout" /\ queue[e] # <<>> /\ queue'[e] = <<>>

KeptWeights(e) == mem'[e].weights = mem[e].weights /\ mem'[e].label = mem[e].label
KeptGraphs(e) == GraphsOK(mem[e]) => GraphsOK(mem'[e])

BeganRank(d, e) ==
  /\ Answered(d, e) /\ task[d] = "opening" /\ e = RolloutEngine
  /\ KeptWeights(e) /\ KeptGraphs(e) /\ mem'[e].session = TRUE /\ mem'[e].inferReady = FALSE
EndedRank(d, e) ==
  /\ Answered(d, e) /\ task[d] = "ending" /\ e = RolloutEngine
  /\ KeptWeights(e) /\ KeptGraphs(e) /\ mem'[e].session = FALSE
TrainedRank(d, e) ==
  /\ Answered(d, e) /\ task[d] = "training" /\ e = "train" /\ KeptGraphs(e)
  /\ \E n \in Nat \ {0} : /\ mem'[e].weights = mem[e].weights + n
                          /\ mem'[e].label = mem[e].label + n
  /\ mem'[e].session = mem[e].session
TouchedRank(d, e) ==
  /\ Answered(d, e) /\ task[d] \in {"planTrain", "planRollout", "scoring"}
  /\ KeptWeights(e) /\ KeptGraphs(e) /\ mem'[e].session = mem[e].session

LEMMA TailEmpty ==
  ASSUME NEW s \in Seq(Commands), s # <<>>
  PROVE  Tail(s) = <<>> <=> Len(s) = 1
<1>1. Tail(s) \in Seq(Commands) /\ Len(Tail(s)) = Len(s) - 1
  OBVIOUS
<1>2. Len(Tail(s)) = 0 <=> Tail(s) = <<>>
  BY <1>1, EmptySeq
<1> QED BY <1>1, <1>2

LEMMA Executed ==
  ASSUME NEW d \in Drivers, NEW e \in Engines, TypeInv, MemInv, QueueInv(d), Execute(e)
  PROVE  /\ \A f \in Engines \ {e} : mem'[f] = mem[f] /\ queue'[f] = queue[f]
         /\ queue[e] # <<>> /\ queue'[e] = Tail(queue[e])
         /\ UNCHANGED <<mode, task, goal, chosen, trainVersion, rolloutVersion>>
         /\ \/ RanRollout(d, e) \/ BeganRank(d, e) \/ EndedRank(d, e)
            \/ TrainedRank(d, e) \/ TouchedRank(d, e)
<1> DEFINE c == Head(queue[e])
<1>1. /\ queue[e] \in Seq(Commands) /\ queue[e] # <<>> /\ c \in Commands
      /\ c = queue[e][1] /\ 1 \in DOMAIN queue[e]
      /\ c.op \notin {"publish", "receive"} /\ queue'[e] = Tail(queue[e])
      /\ mem'[e] = Effect(e, c)
  BY DEF Execute, TypeInv
<1>2. /\ \A f \in Engines \ {e} : mem'[f] = mem[f] /\ queue'[f] = queue[f]
      /\ UNCHANGED <<mode, task, goal, chosen, trainVersion, rolloutVersion>>
  BY DEF Execute, TypeInv, BackendUnchanged, SyncUnchanged
<1>3. MemOK(mem[e]) /\ c.arg \in Nat /\ mode.keep \in BOOLEAN
  BY <1>1 DEF Commands, TypeInv, MemInv, Modes
<1>4. Len(queue[e]) = 1 => queue'[e] = <<>>
  BY <1>1, TailEmpty
<1>5. Len(queue[e]) # 1 => queue'[e] # <<>>
  BY <1>1, TailEmpty
<1>6. \/ /\ c.op = "rollout" /\ e = RolloutEngine
         /\ c.asked = mem["train"].weights
         /\ task[d] \in InSession \/ (task[d] = "ending" /\ queue'[e] # <<>>)
      \/ /\ Awaits(task[d], e, c.op) /\ queue'[e] = <<>>
         /\ c.op = "train" => c.arg > 0
  BY <1>1, <1>4, <1>5 DEF QueueInv, QueuedOK
<1> HIDE DEF c
<1>7. ASSUME Awaits(task[d], e, c.op), queue'[e] = <<>>, c.op = "train" => c.arg > 0
      PROVE  BeganRank(d, e) \/ EndedRank(d, e) \/ TrainedRank(d, e) \/ TouchedRank(d, e)
  <2>1. Answered(d, e)
    BY <1>1, <1>7 DEF Answered, Awaits, c
  <2>2. CASE c.op = "begin"
    BY <1>1, <1>3, <1>7, <2>1, <2>2, SessionBegunGood
    DEF Effect, BeganRank, Awaits, KeptWeights, KeptGraphs
  <2>3. CASE c.op = "end"
    BY <1>1, <1>3, <1>7, <2>1, <2>3, SessionEndedGood
    DEF Effect, EndedRank, Awaits, KeptWeights, KeptGraphs
  <2>4. CASE c.op = "train"
    <3>1. mem'[e] = Trained(mem[e], c.arg) /\ c.arg \in Nat \ {0}
      BY <1>1, <1>3, <1>7, <2>4 DEF Effect
    <3>2. /\ KeptGraphs(e) /\ mem'[e].session = mem[e].session
          /\ mem'[e].weights = mem[e].weights + c.arg
          /\ mem'[e].label = mem[e].label + c.arg
      BY <1>3, <3>1, TrainedGood DEF KeptGraphs
    <3> QED BY <1>7, <2>1, <2>4, <3>1, <3>2 DEF TrainedRank, Awaits
  <2>5. CASE c.op = "plan"
    BY <1>1, <1>3, <1>7, <2>1, <2>5, PlannedGood
    DEF Effect, TouchedRank, Awaits, KeptWeights, KeptGraphs, Good, Same
  <2>6. CASE c.op \in {"actor", "base", "role", "save"}
    BY <1>1, <1>3, <1>7, <2>1, <2>6, ScoredGood
    DEF Effect, TouchedRank, Awaits, KeptWeights, KeptGraphs, Good, Same
  <2> QED BY <1>1, <1>7, <2>2, <2>3, <2>4, <2>5, <2>6 DEF Awaits
<1>8. ASSUME c.op = "rollout" PROVE Rolled(mem[e], mem'[e])
  BY <1>1, <1>3, <1>8, AfterRolloutGood DEF Effect
<1>9. \/ RanRollout(d, e) \/ BeganRank(d, e) \/ EndedRank(d, e)
      \/ TrainedRank(d, e) \/ TouchedRank(d, e)
  BY <1>6, <1>7, <1>8 DEF RanRollout, c
<1> QED BY <1>1, <1>2, <1>9

\* The transfer runs when each engine has its half of it, and nothing else.
LEMMA Transferred ==
  ASSUME NEW d \in Drivers, TypeInv, MemInv, QueueInv(d), ExecuteTransfer
  PROVE  /\ task[d] = "transfer" /\ \A e \in Engines : queue'[e] = <<>> /\ KeptGraphs(e)
         /\ KeptWeights("train") /\ mem'["train"].session = mem["train"].session
         /\ mem'["rollout"].weights = mem["train"].weights
         /\ mem'["rollout"].label = trainVersion
         /\ mem'["rollout"].session = mem["rollout"].session
         /\ UNCHANGED <<mode, task, goal, chosen, trainVersion, rolloutVersion, outputs>>
<1> DEFINE p == Head(queue["train"])
           r == Head(queue["rollout"])
<1>1. /\ queue["train"] \in Seq(Commands) /\ queue["train"] # <<>> /\ p = queue["train"][1]
      /\ 1 \in DOMAIN queue["train"] /\ p.op = "publish"
      /\ queue'["train"] = Tail(queue["train"])
  BY DEF ExecuteTransfer, TypeInv, Engines
<1>2. /\ queue["rollout"] \in Seq(Commands) /\ queue["rollout"] # <<>>
      /\ r = queue["rollout"][1] /\ r \in Commands
      /\ 1 \in DOMAIN queue["rollout"] /\ r.op = "receive"
      /\ queue'["rollout"] = Tail(queue["rollout"])
  BY DEF ExecuteTransfer, TypeInv, Engines
<1>3. /\ mem'["train"] = Published(mem["train"])
      /\ mem'["rollout"] = Received(mem["rollout"], mem["train"].weights, r.arg)
      /\ UNCHANGED <<mode, task, goal, chosen, trainVersion, rolloutVersion, outputs>>
  BY DEF ExecuteTransfer, BackendUnchanged, SyncUnchanged
<1> HIDE DEF p, r
<1>4. Awaits(task[d], "train", "publish") /\ Len(queue["train"]) = 1
  BY <1>1 DEF QueueInv, QueuedOK, Engines
<1>5. Len(queue["rollout"]) = 1 /\ r.arg = trainVersion
  BY <1>2 DEF QueueInv, QueuedOK, Engines
<1>6. queue'["train"] = <<>> /\ queue'["rollout"] = <<>>
  BY <1>1, <1>2, <1>4, <1>5, TailEmpty
<1>7. MemOK(mem["train"]) /\ MemOK(mem["rollout"]) /\ mem["train"].weights \in Nat
      /\ r.arg \in Nat
  BY <1>2 DEF MemInv, MemOK, Memory, Engines, Commands
<1>8. Good(mem["train"], mem'["train"])
  BY <1>3, <1>7, PublishedGood
<1>9. /\ GraphsOK(mem["rollout"]) => GraphsOK(mem'["rollout"])
      /\ mem'["rollout"].weights = mem["train"].weights
      /\ mem'["rollout"].label = r.arg /\ mem'["rollout"].session = mem["rollout"].session
  <2> DEFINE m == mem["rollout"]
             w == mem["train"].weights
             v == r.arg
             n == mem'["rollout"]
  <2>1. MemOK(m) /\ w \in Nat /\ v \in Nat /\ n = Received(m, w, v)
    BY <1>3, <1>7
  <2> HIDE DEF m, w, v, n
  <2>2. GraphsOK(m) => GraphsOK(n)
    BY <2>1, ReceivedGood
  <2>3. n.weights = w /\ n.label = v
    BY <2>1, ReceivedGood
  <2>4. n.session = m.session
    BY <2>1, ReceivedGood
  <2> QED BY <2>2, <2>3, <2>4 DEF m, w, v, n
<1>10. task[d] = "transfer"
  BY <1>4 DEF Awaits
<1> QED BY <1>3, <1>5, <1>6, <1>8, <1>9, <1>10 DEF Good, Same, KeptGraphs, KeptWeights, Engines

-----------------------------------------------------------------------------
LEMMA MoreCommands ==
  ASSUME NEW e \in Engines, NEW c \in Commands, queue \in [Engines -> Seq(Commands)],
         Submit(e, c)
  PROVE  /\ \A f \in Engines \ {e} : queue'[f] = queue[f]
         /\ DOMAIN queue'[e] = DOMAIN queue[e] \cup {Len(queue'[e])}
         /\ queue'[e][Len(queue'[e])] = c /\ queue'[e] # <<>>
         /\ \A i \in DOMAIN queue[e] : queue'[e][i] = queue[e][i] /\ i # Len(queue'[e])
         /\ queue[e] = <<>> => Len(queue'[e]) = 1 /\ DOMAIN queue'[e] = {1}
<1>1. queue'[e] = Append(queue[e], c) /\ queue[e] \in Seq(Commands)
  BY DEF Submit
<1>2. Len(queue'[e]) = Len(queue[e]) + 1 /\ Len(queue[e]) \in Nat
      /\ DOMAIN queue[e] = 1..Len(queue[e]) /\ DOMAIN queue'[e] = 1..(Len(queue[e]) + 1)
  BY <1>1
<1>3. queue[e] = <<>> => Len(queue[e]) = 0
  OBVIOUS
<1>4. queue'[e] # <<>> /\ queue'[e][Len(queue[e]) + 1] = c
      /\ \A i \in DOMAIN queue[e] : queue'[e][i] = queue[e][i]
  BY <1>1
<1>5. \A f \in Engines \ {e} : queue'[f] = queue[f]
  BY DEF Submit
<1> QED BY <1>2, <1>3, <1>4, <1>5

\* A queue keeps its promise when the driver's place and the actor's weights do.
LEMMA QueueKept ==
  ASSUME NEW d \in Drivers, QueueInv(d), UNCHANGED <<mode, mem, queue, trainVersion>>,
         \/ task'[d] = task[d]
         \/ task[d] \in InSession /\ task'[d] \in InSession
         \/ \A e \in Engines : queue[e] = <<>>
  PROVE  QueueInv(d)'
<1>1. CASE \A e \in Engines : queue[e] = <<>>
  BY <1>1 DEF QueueInv, QueuedOK
<1>2. CASE task'[d] = task[d]
  BY <1>2 DEF QueueInv, QueuedOK, Awaits, InSession, RolloutEngine
<1>3. CASE task[d] \in InSession /\ task'[d] \in InSession
  BY <1>3 DEF QueueInv, QueuedOK, Awaits, InSession, RolloutEngine
<1> QED BY <1>1, <1>2, <1>3

LEMMA QueueAsked ==
  ASSUME NEW d \in Drivers, TypeInv, \A e \in Engines : queue[e] = <<>>,
         NEW e \in Engines, NEW c \in Commands, Submit(e, c),
         Awaits(task[d], e, c.op)', c.by = d,
         c.op = "train" => c.arg > 0, c.op \notin {"receive", "rollout"}
  PROVE  QueueInv(d)'
<1>1. queue \in [Engines -> Seq(Commands)]
  BY DEF TypeInv
<1>2. /\ \A f \in Engines \ {e} : queue'[f] = <<>>
      /\ DOMAIN queue'[e] = {1} /\ queue'[e][1] = c /\ Len(queue'[e]) = 1
  BY <1>1, MoreCommands
<1>3. ASSUME NEW f \in Engines, NEW i \in DOMAIN queue'[f] PROVE QueuedOK(d, f, i)'
  <2>1. f = e /\ i = 1
    BY <1>2, <1>3
  <2>2. queue'[f][i] = c /\ i = Len(queue'[f])
    BY <1>2, <2>1
  <2> QED BY <2>1, <2>2 DEF QueuedOK
<1> QED BY <1>3 DEF QueueInv

LEMMA QueueNext ==
  ASSUME NEW d \in Drivers, TypeInv, MemInv, PhaseInv(d), QueueInv(d), LoneStep(d)
  PROVE  QueueInv(d)'
<1> task \in [Tasks -> Places] /\ d \in Tasks /\ Chats \subseteq Tasks
  BY DEF TypeInv, Tasks
<1>1. CASE BeginSession(d)
  <2>1. \A e \in Engines : queue[e] = <<>>
    BY <1>1, EmptyQueues DEF BeginSession, InSession
  <2>2. UNCHANGED <<mode, mem, queue>> /\ (UNCHANGED trainVersion \/ \A e \in Engines : queue[e] = <<>>)
    BY <1>1, <2>1 DEF BeginSession, WorkersUnchanged
  <2> QED BY <2>1, <2>2 DEF QueueInv, QueuedOK
<1>2. CASE OpenSession(d)
  <2> DEFINE c == Command(d, "begin", 0, 0)
  <2> PICK e \in Engines : e = RolloutEngine
    BY DEF Engines, RolloutEngine
  <2>1. \A f \in Engines : queue[f] = <<>>
    BY <1>2, EmptyQueues DEF OpenSession, InSession
  <2>2. c \in Commands /\ e \in Engines
    BY CommandTypes DEF Ops, Engines, RolloutEngine
  <2>3. Submit(e, c) /\ UNCHANGED mode /\ task'[d] = "opening"
    BY <1>2 DEF OpenSession, Goto, WorkersUnchanged
  <2>4. /\ Awaits(task[d], e, c.op)' /\ c.by = d /\ (c.op = "train" => c.arg > 0)
        /\ c.op \notin {"receive", "rollout"}
    BY <2>3 DEF Awaits, Command, RolloutEngine
  <2> HIDE DEF c
  <2> QED BY <2>1, <2>2, <2>3, <2>4, QueueAsked
<1>3. CASE Opened(d)
  <2>1. \A e \in Engines : queue[e] = <<>>
    BY <1>3, EmptyQueues DEF Opened, InSession
  <2>2. UNCHANGED <<mode, mem, queue>> /\ (UNCHANGED trainVersion \/ \A e \in Engines : queue[e] = <<>>)
    BY <1>3, <2>1 DEF Opened, WorkersUnchanged
  <2> QED BY <2>1, <2>2 DEF QueueInv, QueuedOK
<1>4. CASE CloseSession(d)
  <2> DEFINE c == Command(d, "end", 0, 0)
             e == RolloutEngine
  <2>1. c \in Commands /\ e \in Engines /\ c.op = "end" /\ c.by = d
    BY CommandTypes DEF Ops, Engines, RolloutEngine, Command
  <2>2. /\ Submit(e, c) /\ UNCHANGED <<mode, mem, trainVersion>>
        /\ task[d] = "open" /\ task'[d] = "ending" /\ e' = e
    BY <1>4 DEF CloseSession, Goto, WorkersUnchanged, BackendUnchanged, PhaseInv, InSession,
              RolloutEngine
  <2>3. Awaits("ending", e, "end")
    BY DEF Awaits
  <2>4. Awaits("ending", e, "end")'
    BY <2>2, <2>3 DEF Awaits
  <2> HIDE DEF c
  <2>5. \A f \in Engines : \A i \in DOMAIN queue[f] :
          /\ queue[f][i].op = "rollout" /\ f = e
          /\ queue[f][i].asked = mem["train"].weights
    BY <2>2 DEF QueueInv, QueuedOK, Awaits
  <2> HIDE DEF e
  <2>6. /\ \A f \in Engines \ {e} : queue'[f] = queue[f]
        /\ DOMAIN queue'[e] = DOMAIN queue[e] \cup {Len(queue'[e])}
        /\ queue'[e][Len(queue'[e])] = c
        /\ \A i \in DOMAIN queue[e] : queue'[e][i] = queue[e][i] /\ i # Len(queue'[e])
    BY <2>1, <2>2, MoreCommands DEF TypeInv
  <2>7. ASSUME NEW f \in Engines, NEW i \in DOMAIN queue'[f]
        PROVE  \/ /\ queue'[f][i].op = "rollout" /\ f = e
                  /\ queue'[f][i].asked = mem["train"].weights /\ i # Len(queue'[f])
               \/ f = e /\ queue'[f][i] = c /\ i = Len(queue'[f])
    BY <2>5, <2>6, <2>7
  <2> QED BY <2>1, <2>2, <2>4, <2>7 DEF QueueInv, QueuedOK, e
<1>5. CASE Ended(d)
  <2>1. \A e \in Engines : queue[e] = <<>>
    BY <1>5, EmptyQueues DEF Ended, InSession
  <2>2. UNCHANGED <<mode, mem, queue>> /\ (UNCHANGED trainVersion \/ \A e \in Engines : queue[e] = <<>>)
    BY <1>5, <2>1 DEF Ended, WorkersUnchanged
  <2> QED BY <2>1, <2>2 DEF QueueInv, QueuedOK
<1>6. ASSUME NEW kind \in ScoreKinds, Score(d, kind) PROVE QueueInv(d)'
  <2> DEFINE c == Command(d, kind, 0, 0)
  <2> PICK e \in Engines : e = "train"
    BY DEF Engines, RolloutEngine
  <2>1. \A f \in Engines : queue[f] = <<>>
    BY <1>6, EmptyQueues DEF Score, InSession
  <2>2. c \in Commands /\ e \in Engines
    BY CommandTypes DEF Ops, Engines, RolloutEngine, ScoreKinds
  <2>3. Submit(e, c) /\ UNCHANGED mode /\ task'[d] = "scoring"
    BY <1>6 DEF Score, Goto, WorkersUnchanged
  <2>4. /\ Awaits(task[d], e, c.op)' /\ c.by = d /\ (c.op = "train" => c.arg > 0)
        /\ c.op \notin {"receive", "rollout"}
    BY <2>3 DEF Awaits, Command, RolloutEngine, ScoreKinds
  <2> HIDE DEF c
  <2> QED BY <2>1, <2>2, <2>3, <2>4, QueueAsked
<1>7. CASE ScoreReturned(d)
  <2>1. \A e \in Engines : queue[e] = <<>>
    BY <1>7, EmptyQueues DEF ScoreReturned, InSession
  <2>2. UNCHANGED <<mode, mem, queue>> /\ (UNCHANGED trainVersion \/ \A e \in Engines : queue[e] = <<>>)
    BY <1>7, <2>1 DEF ScoreReturned, WorkersUnchanged
  <2> QED BY <2>1, <2>2 DEF QueueInv, QueuedOK
<1>8. ASSUME NEW n \in {1, 2}, Train(d, n) PROVE QueueInv(d)'
  <2> DEFINE c == Command(d, "train", n, 0)
  <2> PICK e \in Engines : e = "train"
    BY DEF Engines, RolloutEngine
  <2>1. \A f \in Engines : queue[f] = <<>>
    BY <1>8, EmptyQueues DEF Train, InSession
  <2>2. c \in Commands /\ e \in Engines
    BY CommandTypes DEF Ops, Engines, RolloutEngine
  <2>3. Submit(e, c) /\ UNCHANGED mode /\ task'[d] = "training"
    BY <1>8 DEF Train, Goto, WorkersUnchanged
  <2>4. /\ Awaits(task[d], e, c.op)' /\ c.by = d /\ (c.op = "train" => c.arg > 0)
        /\ c.op \notin {"receive", "rollout"}
    BY <2>3 DEF Awaits, Command, RolloutEngine
  <2> HIDE DEF c
  <2> QED BY <2>1, <2>2, <2>3, <2>4, QueueAsked
<1>9. CASE TrainReturned(d)
  <2>1. \A e \in Engines : queue[e] = <<>>
    BY <1>9, EmptyQueues DEF TrainReturned, InSession
  <2>2. UNCHANGED <<mode, mem, queue>> /\ (UNCHANGED trainVersion \/ \A e \in Engines : queue[e] = <<>>)
    BY <1>9, <2>1 DEF TrainReturned, WorkersUnchanged
  <2> QED BY <2>1, <2>2 DEF QueueInv, QueuedOK
<1>10. CASE SkipTrain(d)
  <2>1. \A e \in Engines : queue[e] = <<>>
    BY <1>10, EmptyQueues DEF SkipTrain, InSession
  <2>2. UNCHANGED <<mode, mem, queue>> /\ (UNCHANGED trainVersion \/ \A e \in Engines : queue[e] = <<>>)
    BY <1>10, <2>1 DEF SkipTrain, WorkersUnchanged
  <2> QED BY <2>1, <2>2 DEF QueueInv, QueuedOK
<1>11. CASE SyncSkip(d)
  <2>1. \A e \in Engines : queue[e] = <<>>
    BY <1>11, EmptyQueues DEF SyncSkip, InSession
  <2>2. UNCHANGED <<mode, mem, queue>> /\ (UNCHANGED trainVersion \/ \A e \in Engines : queue[e] = <<>>)
    BY <1>11, <2>1 DEF SyncSkip, WorkersUnchanged
  <2> QED BY <2>1, <2>2 DEF QueueInv, QueuedOK
<1>12. CASE SyncLock(d)
  <2>1. \A e \in Engines : queue[e] = <<>>
    BY <1>12, EmptyQueues DEF SyncLock, InSession
  <2>2. UNCHANGED <<mode, mem, queue>> /\ (UNCHANGED trainVersion \/ \A e \in Engines : queue[e] = <<>>)
    BY <1>12, <2>1 DEF SyncLock, WorkersUnchanged
  <2> QED BY <2>1, <2>2 DEF QueueInv, QueuedOK
<1>13. CASE SyncRecheck(d)
  <2>1. \A f \in Engines : queue[f] = <<>>
    BY <1>13, EmptyQueues DEF SyncRecheck, InSession
  <2>2. UNCHANGED mode
    BY <1>13 DEF SyncRecheck, WorkersUnchanged
  <2>3. CASE InStep
    BY <1>13, <2>1, <2>3 DEF SyncRecheck, QueueInv, QueuedOK
  <2>4. CASE ~InStep
    <3> DEFINE c == Command(d, "plan", 0, 0)
    <3>1. c \in Commands /\ "train" \in Engines
      BY CommandTypes DEF Ops, Engines
    <3>2. Submit("train", c) /\ task'[d] = "planTrain"
      BY <1>13, <2>4 DEF SyncRecheck, Goto
    <3>3. /\ Awaits(task[d], "train", c.op)' /\ c.by = d /\ (c.op = "train" => c.arg > 0)
          /\ c.op \notin {"receive", "rollout"}
      BY <3>2 DEF Awaits, Command
    <3> HIDE DEF c
    <3> QED BY <2>1, <3>1, <3>2, <3>3, QueueAsked
  <2> QED BY <2>3, <2>4
<1>14. CASE SyncPlan(d)
  <2> DEFINE c == Command(d, "plan", 0, 0)
  <2> PICK e \in Engines : e = "rollout"
    BY DEF Engines, RolloutEngine
  <2>1. \A f \in Engines : queue[f] = <<>>
    BY <1>14, EmptyQueues DEF SyncPlan, InSession
  <2>2. c \in Commands /\ e \in Engines
    BY CommandTypes DEF Ops, Engines, RolloutEngine
  <2>3. Submit(e, c) /\ UNCHANGED mode /\ task'[d] = "planRollout"
    BY <1>14 DEF SyncPlan, Goto, WorkersUnchanged
  <2>4. /\ Awaits(task[d], e, c.op)' /\ c.by = d /\ (c.op = "train" => c.arg > 0)
        /\ c.op \notin {"receive", "rollout"}
    BY <2>3 DEF Awaits, Command, RolloutEngine
  <2> HIDE DEF c
  <2> QED BY <2>1, <2>2, <2>3, <2>4, QueueAsked
<1>15. CASE SyncTransfer(d)
  <2> DEFINE p == Command(d, "publish", trainVersion, 0)
             r == Command(d, "receive", trainVersion, 0)
  <2>1. \A f \in Engines : queue[f] = <<>>
    BY <1>15, EmptyQueues DEF SyncTransfer, InSession
  <2>2. /\ queue'["train"] = Append(<<>>, p) /\ queue'["rollout"] = Append(<<>>, r)
        /\ task'[d] = "transfer" /\ UNCHANGED <<mode, trainVersion>>
    BY <1>15, <2>1 DEF SyncTransfer, Goto, WorkersUnchanged, BackendUnchanged, Engines
  <2>3. /\ p.op = "publish" /\ p.by = d
        /\ r.op = "receive" /\ r.by = d /\ r.arg = trainVersion
    BY DEF Command
  <2> HIDE DEF p, r
  <2>4. /\ DOMAIN queue'["train"] = {1} /\ queue'["train"][1] = p /\ Len(queue'["train"]) = 1
        /\ DOMAIN queue'["rollout"] = {1} /\ queue'["rollout"][1] = r /\ Len(queue'["rollout"]) = 1
    BY <2>2
  <2>5. ASSUME NEW i \in DOMAIN queue'["train"] PROVE QueuedOK(d, "train", i)'
    BY <2>2, <2>3, <2>4, <2>5 DEF QueuedOK, Awaits
  <2>6. ASSUME NEW i \in DOMAIN queue'["rollout"] PROVE QueuedOK(d, "rollout", i)'
    BY <2>2, <2>3, <2>4, <2>6 DEF QueuedOK, Awaits
  <2> QED BY <2>5, <2>6 DEF QueueInv, Engines
<1>16. CASE SyncFinish(d)
  <2>1. \A e \in Engines : queue[e] = <<>>
    BY <1>16, EmptyQueues DEF SyncFinish, InSession
  <2>2. UNCHANGED <<mode, mem, queue>> /\ (UNCHANGED trainVersion \/ \A e \in Engines : queue[e] = <<>>)
    BY <1>16, <2>1 DEF SyncFinish, WorkersUnchanged
  <2> QED BY <2>1, <2>2 DEF QueueInv, QueuedOK
<1>17. ASSUME NEW t \in Chats \cup {d}, RolledOut(t) PROVE QueueInv(d)'
  <2>1. UNCHANGED <<mode, mem, queue, trainVersion>>
    BY <1>17 DEF RolledOut, WorkersUnchanged, BackendUnchanged
  <2>2. task'[d] = task[d] \/ (task[d] \in InSession /\ task'[d] \in InSession)
    BY <1>17 DEF RolledOut, Goto, InSession
  <2> QED BY <2>1, <2>2, QueueKept
<1>18. ASSUME NEW t \in Chats \cup {d}, NEW size \in CacheSizes \cup {0}, Asks(t, size) PROVE QueueInv(d)'
  <2> DEFINE c == RolloutCommand(t, size)
             e == RolloutEngine
  <2>a. size \in Nat
    BY BoundsAssumption
  <2>b. mem["train"].weights \in Nat
    BY DEF TypeInv, Engines, Memory
  <2>1. size \in Nat /\ t \in Tasks /\ mem["train"].weights \in Nat
    BY <2>a, <2>b DEF Tasks
  <2>2. c \in Commands /\ e \in Engines /\ c.op = "rollout" /\ c.asked = mem["train"].weights
    BY <2>1, CommandTypes DEF Ops, Engines, RolloutEngine, Command, RolloutCommand
  <2>3. Submit(e, c) /\ UNCHANGED <<mode, mem, trainVersion>> /\ e' = e
    BY <1>18 DEF Asks, WorkersUnchanged, BackendUnchanged, RolloutEngine
  <2>4. task[d] \in InSession /\ task'[d] \in InSession
    BY <1>18 DEF Asks, MayRollout, PhaseInv, Goto, InSession
  <2> HIDE DEF c
  <2>5. \A f \in Engines : \A i \in DOMAIN queue[f] :
          /\ queue[f][i].op = "rollout" /\ f = e
          /\ queue[f][i].asked = mem["train"].weights
    BY <2>4 DEF QueueInv, QueuedOK, Awaits, InSession
  <2> HIDE DEF e
  <2>6. /\ \A f \in Engines \ {e} : queue'[f] = queue[f]
        /\ DOMAIN queue'[e] = DOMAIN queue[e] \cup {Len(queue'[e])}
        /\ queue'[e][Len(queue'[e])] = c
        /\ \A i \in DOMAIN queue[e] : queue'[e][i] = queue[e][i]
    BY <2>2, <2>3, MoreCommands DEF TypeInv
  <2>7. ASSUME NEW f \in Engines, NEW i \in DOMAIN queue'[f]
        PROVE  /\ queue'[f][i].op = "rollout" /\ f = e
               /\ queue'[f][i].asked = mem["train"].weights
    BY <2>2, <2>5, <2>6, <2>7
  <2> QED BY <2>3, <2>4, <2>7 DEF QueueInv, QueuedOK, e
<1>19. ASSUME NEW e \in Engines, Execute(e) PROVE QueueInv(d)'
  <2>1. /\ \A f \in Engines \ {e} : mem'[f] = mem[f] /\ queue'[f] = queue[f]
        /\ queue[e] # <<>> /\ queue'[e] = Tail(queue[e])
        /\ UNCHANGED <<mode, task, trainVersion>>
        /\ \/ RanRollout(d, e) \/ BeganRank(d, e) \/ EndedRank(d, e)
           \/ TrainedRank(d, e) \/ TouchedRank(d, e)
    BY <1>19, Executed
  <2>2. queue[e] \in Seq(Commands)
    BY DEF TypeInv
  <2>3. CASE RanRollout(d, e)
    <3>1. mem'["train"].weights = mem["train"].weights
      BY <2>1, <2>3 DEF RanRollout, Rolled, Engines
    <3>2. ASSUME NEW i \in DOMAIN queue'[e]
          PROVE  /\ i + 1 \in DOMAIN queue[e] /\ queue'[e][i] = queue[e][i + 1]
                 /\ (i = Len(queue'[e]) <=> i + 1 = Len(queue[e]))
      BY <2>1, <2>2, <3>2
    <3>3. ASSUME NEW f \in Engines \ {e}, NEW i \in DOMAIN queue'[f]
          PROVE  i \in DOMAIN queue[f] /\ queue'[f][i] = queue[f][i]
                 /\ Len(queue'[f]) = Len(queue[f])
      BY <2>1, <3>3
    <3>4. \A f, op : Awaits(task[d], f, op)' <=> Awaits(task[d], f, op)
      BY <2>1 DEF Awaits, RolloutEngine
    <3>5. RolloutEngine' = RolloutEngine
      BY <2>1 DEF RolloutEngine
    <3>6. ASSUME NEW f \in Engines, NEW i \in DOMAIN queue'[f] PROVE QueuedOK(d, f, i)'
      <4>1. CASE f = e
        <5>1. QueuedOK(d, e, i + 1)
          BY <3>2, <3>6, <4>1 DEF QueueInv
        <5> QED BY <2>1, <3>1, <3>2, <3>4, <3>5, <3>6, <4>1, <5>1 DEF QueuedOK
      <4>2. CASE f # e
        <5>1. QueuedOK(d, f, i)
          BY <3>3, <3>6, <4>2 DEF QueueInv
        <5> QED BY <2>1, <3>1, <3>3, <3>4, <3>5, <3>6, <4>2, <5>1 DEF QueuedOK
      <4> QED BY <4>1, <4>2
    <3> QED BY <3>6 DEF QueueInv
  <2>4. CASE Answered(d, e)
    <3>1. queue'[e] = <<>>
      BY <2>4 DEF Answered
    <3>2. task[d] \notin InSession /\ (task[d] = "ending" => e = RolloutEngine)
      BY <2>1, <2>4 DEF BeganRank, EndedRank, TrainedRank, TouchedRank, RanRollout, Answered,
                        InSession
    <3>3. ASSUME NEW f \in Engines, NEW i \in DOMAIN queue'[f] PROVE QueuedOK(d, f, i)'
      <4>1. f # e /\ i \in DOMAIN queue[f] /\ queue'[f] = queue[f]
        BY <2>1, <3>1, <3>3
      <4>2. QueuedOK(d, f, i)
        BY <4>1 DEF QueueInv
      <4> QED BY <2>1, <3>2, <4>1, <4>2 DEF QueuedOK, Awaits, RolloutEngine
    <3> QED BY <3>3 DEF QueueInv
  <2> QED BY <2>1, <2>3, <2>4 DEF BeganRank, EndedRank, TrainedRank, TouchedRank
<1>20. CASE ExecuteTransfer
  <2>1. \A e \in Engines : queue'[e] = <<>>
    BY <1>20, Transferred
  <2> QED BY <2>1 DEF QueueInv
<1>21. CASE UNCHANGED vars
  BY <1>21, QueueKept DEF vars
<1> QED
  BY <1>1, <1>2, <1>3, <1>4, <1>5, <1>6, <1>7, <1>8, <1>9, <1>10, <1>11, <1>12, <1>13, <1>14, <1>15, <1>16, <1>17, <1>18, <1>19, <1>20, <1>21
  DEF LoneStep

-----------------------------------------------------------------------------
\* The rank's part holds when its memory is left alone and the driver stays on
\* its side of the session.
Midway(d) ==
  \/ task[d] \in InSession
  \/ task[d] = "opening" /\ queue[RolloutEngine] = <<>>
  \/ task[d] = "ending" /\ queue[RolloutEngine] # <<>>

LEMMA RankKept ==
  ASSUME NEW d \in Drivers, RankInv(d), UNCHANGED <<mode, mem>>,
         Midway(d) <=> Midway(d)'
  PROVE  RankInv(d)'
<1>1. RolloutEngine' = RolloutEngine
  BY DEF RolloutEngine
<1>2. mem[RolloutEngine].session <=> Midway(d)
  BY DEF RankInv, Midway
<1>3. mem'[RolloutEngine].session <=> Midway(d)'
  BY <1>1, <1>2
<1> QED BY <1>1, <1>3 DEF RankInv, Midway

LEMMA RankNext ==
  ASSUME NEW d \in Drivers, TypeInv, MemInv, PhaseInv(d), QueueInv(d), RankInv(d), LoneStep(d)
  PROVE  RankInv(d)'
<1> task \in [Tasks -> Places] /\ d \in Tasks /\ Chats \subseteq Tasks
  BY DEF TypeInv, Tasks
<1>1. CASE BeginSession(d)
  <2>1. task[d] = "idle" /\ task'[d] = "syncing" /\ UNCHANGED <<mode, mem>>
    BY <1>1 DEF BeginSession, Goto, WorkersUnchanged, PhaseInv, InSession
  <2> QED BY <2>1, RankKept DEF Midway, InSession
<1>2. CASE OpenSession(d)
  <2>1. task[d] = "synced" /\ task'[d] = "opening" /\ UNCHANGED <<mode, mem>>
    BY <1>2 DEF OpenSession, Goto, WorkersUnchanged
  <2>2. queue'[RolloutEngine] # <<>> /\ RolloutEngine' = RolloutEngine
    <3> DEFINE c == Command(d, "begin", 0, 0)
    <3>1. c \in Commands /\ Submit(RolloutEngine, c) /\ RolloutEngine \in Engines
      BY <1>2, CommandTypes DEF OpenSession, Ops, Engines, RolloutEngine, PhaseInv, InSession
    <3> HIDE DEF c
    <3>2. queue'[RolloutEngine] # <<>>
      BY <3>1, MoreCommands DEF TypeInv
    <3> QED BY <2>1, <3>2 DEF RolloutEngine
  <2> QED BY <2>1, <2>2, RankKept DEF Midway, InSession
<1>3. CASE Opened(d)
  <2>1. task[d] = "opening" /\ task'[d] = "open" /\ UNCHANGED <<mode, mem>>
    BY <1>3 DEF Opened, Goto, WorkersUnchanged
  <2>2. queue[RolloutEngine] = <<>> /\ queue' = queue /\ RolloutEngine' = RolloutEngine
    BY <1>3, EmptyQueues DEF Opened, InSession, WorkersUnchanged, RolloutEngine, Engines
  <2> QED BY <2>1, <2>2, RankKept DEF Midway, InSession
<1>4. CASE CloseSession(d)
  <2>1. task[d] = "open" /\ task'[d] = "ending" /\ UNCHANGED <<mode, mem>>
    BY <1>4 DEF CloseSession, PhaseInv, InSession, Goto, WorkersUnchanged
  <2>2. queue'[RolloutEngine] # <<>> /\ RolloutEngine' = RolloutEngine
    <3> DEFINE c == Command(d, "end", 0, 0)
    <3>1. c \in Commands /\ Submit(RolloutEngine, c) /\ RolloutEngine \in Engines
      BY <1>4, CommandTypes DEF CloseSession, Ops, Engines, RolloutEngine, PhaseInv, InSession
    <3> HIDE DEF c
    <3>2. queue'[RolloutEngine] # <<>>
      BY <3>1, MoreCommands DEF TypeInv
    <3> QED BY <2>1, <3>2 DEF RolloutEngine
  <2> QED BY <2>1, <2>2, RankKept DEF Midway, InSession
<1>5. CASE Ended(d)
  <2>1. task[d] = "ending" /\ task'[d] = "closed" /\ UNCHANGED <<mode, mem>>
    BY <1>5 DEF Ended, Goto, WorkersUnchanged
  <2>2. queue[RolloutEngine] = <<>> /\ queue' = queue /\ RolloutEngine' = RolloutEngine
    BY <1>5, EmptyQueues DEF Ended, InSession, WorkersUnchanged, RolloutEngine, Engines
  <2> QED BY <2>1, <2>2, RankKept DEF Midway, InSession
<1>6. ASSUME NEW kind \in ScoreKinds, Score(d, kind) PROVE RankInv(d)'
  <2>1. task[d] = "closed" /\ task'[d] \in {"scoring"} /\ UNCHANGED <<mode, mem>>
    BY <1>6 DEF Score, Goto, WorkersUnchanged
  <2> QED BY <2>1, RankKept DEF Midway, InSession
<1>7. CASE ScoreReturned(d)
  <2>1. task[d] = "scoring" /\ task'[d] \in {"closed"} /\ UNCHANGED <<mode, mem>>
    BY <1>7 DEF ScoreReturned, Goto, WorkersUnchanged
  <2> QED BY <2>1, RankKept DEF Midway, InSession
<1>8. ASSUME NEW n \in {1, 2}, Train(d, n) PROVE RankInv(d)'
  <2>1. task[d] = "closed" /\ task'[d] \in {"training"} /\ UNCHANGED <<mode, mem>>
    BY <1>8 DEF Train, Goto, WorkersUnchanged
  <2> QED BY <2>1, RankKept DEF Midway, InSession
<1>9. CASE TrainReturned(d)
  <2>1. task[d] = "training" /\ task'[d] \in {"idle"} /\ UNCHANGED <<mode, mem>>
    BY <1>9 DEF TrainReturned, Goto, WorkersUnchanged
  <2> QED BY <2>1, RankKept DEF Midway, InSession
<1>10. CASE SkipTrain(d)
  <2>1. task[d] = "closed" /\ task'[d] \in {"idle"} /\ UNCHANGED <<mode, mem>>
    BY <1>10 DEF SkipTrain, Goto, WorkersUnchanged
  <2> QED BY <2>1, RankKept DEF Midway, InSession
<1>11. CASE SyncSkip(d)
  <2>1. task[d] = "syncing" /\ task'[d] \in {"synced"} /\ UNCHANGED <<mode, mem>>
    BY <1>11 DEF SyncSkip, Goto, WorkersUnchanged
  <2> QED BY <2>1, RankKept DEF Midway, InSession
<1>12. CASE SyncLock(d)
  <2>1. task[d] = "syncing" /\ task'[d] \in {"locked"} /\ UNCHANGED <<mode, mem>>
    BY <1>12 DEF SyncLock, Goto, WorkersUnchanged
  <2> QED BY <2>1, RankKept DEF Midway, InSession
<1>13. CASE SyncRecheck(d)
  <2>1. task[d] = "locked" /\ task'[d] \in {"synced", "planTrain"} /\ UNCHANGED <<mode, mem>>
    BY <1>13 DEF SyncRecheck, Goto, WorkersUnchanged
  <2> QED BY <2>1, RankKept DEF Midway, InSession
<1>14. CASE SyncPlan(d)
  <2>1. task[d] = "planTrain" /\ task'[d] \in {"planRollout"} /\ UNCHANGED <<mode, mem>>
    BY <1>14 DEF SyncPlan, Goto, WorkersUnchanged
  <2> QED BY <2>1, RankKept DEF Midway, InSession
<1>15. CASE SyncTransfer(d)
  <2>1. task[d] = "planRollout" /\ task'[d] \in {"transfer"} /\ UNCHANGED <<mode, mem>>
    BY <1>15 DEF SyncTransfer, Goto, WorkersUnchanged
  <2> QED BY <2>1, RankKept DEF Midway, InSession
<1>16. CASE SyncFinish(d)
  <2>1. task[d] = "transfer" /\ task'[d] \in {"synced"} /\ UNCHANGED <<mode, mem>>
    BY <1>16 DEF SyncFinish, Goto, WorkersUnchanged
  <2> QED BY <2>1, RankKept DEF Midway, InSession
<1>17. ASSUME NEW t \in Chats \cup {d}, RolledOut(t) PROVE RankInv(d)'
  <2>1. UNCHANGED <<mode, mem, queue>>
    BY <1>17 DEF RolledOut, WorkersUnchanged
  <2>2. task'[d] = task[d] \/ (task[d] \in InSession /\ task'[d] \in InSession)
    BY <1>17 DEF RolledOut, Goto, InSession
  <2> QED BY <2>1, <2>2, RankKept DEF Midway, RolloutEngine, InSession
<1>18. ASSUME NEW t \in Chats \cup {d}, NEW size \in CacheSizes \cup {0}, Asks(t, size) PROVE RankInv(d)'
  <2>1. UNCHANGED <<mode, mem>>
    BY <1>18 DEF Asks, WorkersUnchanged
  <2>2. task[d] \in InSession /\ task'[d] \in InSession
    BY <1>18 DEF Asks, MayRollout, PhaseInv, Goto, InSession
  <2> QED BY <2>1, <2>2, RankKept DEF Midway
<1>19. ASSUME NEW e \in Engines, Execute(e) PROVE RankInv(d)'
  <2>1. /\ \A f \in Engines \ {e} : mem'[f] = mem[f] /\ queue'[f] = queue[f]
        /\ queue[e] # <<>>
        /\ UNCHANGED <<mode, task>>
        /\ \/ RanRollout(d, e) \/ BeganRank(d, e) \/ EndedRank(d, e)
           \/ TrainedRank(d, e) \/ TouchedRank(d, e)
    BY <1>19, Executed
  <2>2. /\ RolloutEngine' = RolloutEngine /\ RolloutEngine \in Engines
        /\ \A f \in Engines : GraphsOK(mem[f]) /\ Current(mem[RolloutEngine])
    BY <2>1 DEF RankInv, RolloutEngine, Engines
  <2>3. GraphsOK(mem'[e])
    BY <2>1, <2>2 DEF RanRollout, BeganRank, EndedRank, TrainedRank, TouchedRank, KeptGraphs, Rolled
  <2>4. \A f \in Engines : GraphsOK(mem'[f])
    BY <2>1, <2>2, <2>3
  <2>5. CASE RanRollout(d, e)
    <3>1. Current(mem'[RolloutEngine]) /\ mem'[RolloutEngine].session = mem[RolloutEngine].session
      BY <2>2, <2>5 DEF RanRollout, Rolled
    <3> QED BY <2>1, <2>2, <2>4, <2>5, <3>1 DEF RanRollout, RankInv, InSession
  <2>6. CASE BeganRank(d, e)
    BY <2>1, <2>2, <2>4, <2>6 DEF BeganRank, Answered, RankInv, InSession, Current, ReusesInfer
  <2>7. CASE EndedRank(d, e)
    BY <2>1, <2>2, <2>4, <2>7 DEF EndedRank, Answered, RankInv, InSession, Current, ReusesInfer
  <2>8. CASE TrainedRank(d, e) \/ TouchedRank(d, e)
    <3>1. task[d] \notin InSession \cup {"opening", "ending"}
      BY <2>8 DEF TrainedRank, TouchedRank, InSession
    <3>2. ~mem[RolloutEngine].session
      BY <3>1 DEF RankInv, InSession
    <3>3. ~mem'[RolloutEngine].session
      BY <2>1, <2>2, <2>8, <3>2 DEF TrainedRank, TouchedRank
    <3> QED BY <2>1, <2>2, <2>4, <3>1, <3>3 DEF RankInv, InSession, Current, ReusesInfer
  <2> QED BY <2>1, <2>5, <2>6, <2>7, <2>8
<1>20. CASE ExecuteTransfer
  <2>1. /\ task[d] = "transfer" /\ task' = task /\ UNCHANGED mode
        /\ \A e \in Engines : KeptGraphs(e)
        /\ \A e \in Engines : mem'[e].session = mem[e].session
    BY <1>20, Transferred DEF Engines
  <2>2. RolloutEngine' = RolloutEngine /\ RolloutEngine \in Engines
    BY <2>1 DEF RolloutEngine, Engines
  <2>3. ~mem[RolloutEngine].session
    BY <2>1 DEF RankInv, InSession
  <2> QED BY <2>1, <2>2, <2>3 DEF RankInv, KeptGraphs, InSession, Current, ReusesInfer
<1>21. CASE UNCHANGED vars
  <2>1. UNCHANGED <<mode, mem, task, queue>>
    BY <1>21 DEF vars
  <2> QED BY <2>1, RankKept DEF Midway, RolloutEngine
<1> QED
  BY <1>1, <1>2, <1>3, <1>4, <1>5, <1>6, <1>7, <1>8, <1>9, <1>10, <1>11, <1>12, <1>13, <1>14, <1>15, <1>16, <1>17, <1>18, <1>19, <1>20, <1>21
  DEF LoneStep

-----------------------------------------------------------------------------
LEMMA VersionNext ==
  ASSUME NEW d \in Drivers, TypeInv, MemInv, PhaseInv(d), QueueInv(d), RankInv(d), VersionInv(d), LabelInv(d), LoneStep(d)
  PROVE  VersionInv(d)'
<1> task \in [Tasks -> Places] /\ d \in Tasks /\ Chats \subseteq Tasks
  BY DEF TypeInv, Tasks
<1>1. CASE BeginSession(d)
  <2>1. /\ task[d] = "idle" /\ task'[d] \in {"syncing"}
        /\ UNCHANGED <<mode, mem, trainVersion, rolloutVersion, chosen>>
    BY <1>1 DEF BeginSession, Goto, WorkersUnchanged, BackendUnchanged, SyncUnchanged, PhaseInv, InSession
  <2> QED BY <2>1 DEF VersionInv, SameWeights, InSession
<1>2. CASE OpenSession(d)
  <2>1. /\ task[d] = "synced" /\ task'[d] \in {"opening"}
        /\ UNCHANGED <<mode, mem, trainVersion, rolloutVersion, chosen>>
    BY <1>2 DEF OpenSession, Goto, WorkersUnchanged, BackendUnchanged, SyncUnchanged
  <2> QED BY <2>1 DEF VersionInv, SameWeights, InSession
<1>3. CASE Opened(d)
  <2>1. /\ task[d] = "opening" /\ task'[d] \in {"open"}
        /\ UNCHANGED <<mode, mem, trainVersion, rolloutVersion, chosen>>
    BY <1>3 DEF Opened, Goto, WorkersUnchanged, BackendUnchanged, SyncUnchanged
  <2> QED BY <2>1 DEF VersionInv, SameWeights, InSession
<1>4. CASE CloseSession(d)
  <2>1. /\ task[d] = "open" /\ task'[d] \in {"ending"}
        /\ UNCHANGED <<mode, mem, trainVersion, rolloutVersion, chosen>>
    BY <1>4 DEF CloseSession, Goto, WorkersUnchanged, BackendUnchanged, SyncUnchanged, PhaseInv, InSession
  <2> QED BY <2>1 DEF VersionInv, SameWeights, InSession
<1>5. CASE Ended(d)
  <2>1. /\ task[d] = "ending" /\ task'[d] \in {"closed"}
        /\ UNCHANGED <<mode, mem, trainVersion, rolloutVersion, chosen>>
    BY <1>5 DEF Ended, Goto, WorkersUnchanged, BackendUnchanged, SyncUnchanged
  <2> QED BY <2>1 DEF VersionInv, SameWeights, InSession
<1>6. ASSUME NEW kind \in ScoreKinds, Score(d, kind) PROVE VersionInv(d)'
  <2>1. /\ task[d] = "closed" /\ task'[d] \in {"scoring"}
        /\ UNCHANGED <<mode, mem, trainVersion, rolloutVersion, chosen>>
    BY <1>6 DEF Score, Goto, WorkersUnchanged, BackendUnchanged, SyncUnchanged
  <2> QED BY <2>1 DEF VersionInv, SameWeights, InSession
<1>7. CASE ScoreReturned(d)
  <2>1. /\ task[d] = "scoring" /\ task'[d] \in {"closed"}
        /\ UNCHANGED <<mode, mem, trainVersion, rolloutVersion, chosen>>
    BY <1>7 DEF ScoreReturned, Goto, WorkersUnchanged, BackendUnchanged, SyncUnchanged
  <2> QED BY <2>1 DEF VersionInv, SameWeights, InSession
<1>8. ASSUME NEW n \in {1, 2}, Train(d, n) PROVE VersionInv(d)'
  <2>1. /\ task[d] = "closed" /\ task'[d] \in {"training"}
        /\ UNCHANGED <<mode, mem, trainVersion, rolloutVersion, chosen>>
    BY <1>8 DEF Train, Goto, WorkersUnchanged, BackendUnchanged, SyncUnchanged
  <2> QED BY <2>1 DEF VersionInv, SameWeights, InSession
<1>9. CASE TrainReturned(d)
  <2>1. /\ task[d] = "training" /\ task'[d] \in {"idle"}
        /\ UNCHANGED <<mode, mem, rolloutVersion>>
        /\ trainVersion' = IF ~mode.separate THEN trainVersion
                           ELSE IF mode.lora THEN mem["train"].label ELSE trainVersion + 1
    BY <1>9 DEF TrainReturned, Goto, WorkersUnchanged, BackendUnchanged
  <2>2. queue["train"] = <<>>
    BY <1>9, EmptyQueues DEF TrainReturned, InSession, Engines
  <2>3. trainVersion \in Nat /\ rolloutVersion \in Nat /\ mem["train"].label \in Nat
    BY DEF TypeInv, Engines, Memory
  <2>4. ASSUME mode.separate PROVE trainVersion' > trainVersion /\ rolloutVersion <= trainVersion
    <3>1. CASE mode.lora
      BY <2>1, <2>2, <2>3, <2>4, <3>1 DEF VersionInv, LabelInv
    <3>2. CASE ~mode.lora
      BY <2>1, <2>3, <2>4, <3>2 DEF VersionInv
    <3> QED BY <3>1, <3>2
  <2>5. trainVersion' \in Nat
    BY <2>1, <2>3
  <2>6. ASSUME mode.separate PROVE trainVersion' # rolloutVersion /\ rolloutVersion <= trainVersion'
    BY <2>3, <2>4, <2>5, <2>6
  <2> QED BY <2>1, <2>6 DEF VersionInv, SameWeights, InSession
<1>10. CASE SkipTrain(d)
  <2>1. /\ task[d] = "closed" /\ task'[d] \in {"idle"}
        /\ UNCHANGED <<mode, mem, trainVersion, rolloutVersion, chosen>>
    BY <1>10 DEF SkipTrain, Goto, WorkersUnchanged, BackendUnchanged, SyncUnchanged
  <2> QED BY <2>1 DEF VersionInv, SameWeights, InSession
<1>11. CASE SyncSkip(d)
  <2>1. /\ task[d] = "syncing" /\ task'[d] \in {"synced"}
        /\ UNCHANGED <<mode, mem, trainVersion, rolloutVersion>>
        /\ (mode.separate => trainVersion = rolloutVersion)
    BY <1>11 DEF SyncSkip, Goto, WorkersUnchanged, BackendUnchanged, InStep
  <2> QED BY <2>1 DEF VersionInv, SameWeights, InSession
<1>12. CASE SyncLock(d)
  <2>1. /\ task[d] = "syncing" /\ task'[d] \in {"locked"}
        /\ UNCHANGED <<mode, mem, trainVersion, rolloutVersion, chosen>>
    BY <1>12 DEF SyncLock, Goto, WorkersUnchanged, BackendUnchanged, SyncUnchanged
  <2> QED BY <2>1 DEF VersionInv, SameWeights, InSession
<1>13. CASE SyncRecheck(d)
  <2>1. /\ task[d] = "locked" /\ task'[d] \in {"synced", "planTrain"}
        /\ UNCHANGED <<mode, mem, trainVersion, rolloutVersion>>
        /\ (task'[d] = "synced" /\ mode.separate => trainVersion = rolloutVersion)
    BY <1>13 DEF SyncRecheck, Goto, WorkersUnchanged, BackendUnchanged, InStep
  <2> QED BY <2>1 DEF VersionInv, SameWeights, InSession
<1>14. CASE SyncPlan(d)
  <2>1. /\ task[d] = "planTrain" /\ task'[d] \in {"planRollout"}
        /\ UNCHANGED <<mode, mem, trainVersion, rolloutVersion, chosen>>
    BY <1>14 DEF SyncPlan, Goto, WorkersUnchanged, BackendUnchanged, SyncUnchanged
  <2> QED BY <2>1 DEF VersionInv, SameWeights, InSession
<1>15. CASE SyncTransfer(d)
  <2>c. chosen' = [chosen EXCEPT ![d] = trainVersion] /\ chosen \in [Tasks -> Nat]
    BY <1>15 DEF SyncTransfer, TypeInv
  <2>1. /\ task[d] = "planRollout" /\ task'[d] \in {"transfer"}
        /\ UNCHANGED <<mode, mem, trainVersion, rolloutVersion>>
        /\ chosen'[d] = trainVersion
    BY <1>15, <2>c DEF SyncTransfer, Goto, WorkersUnchanged, BackendUnchanged
  <2>2. queue'["rollout"] = Append(queue["rollout"], Command(d, "receive", trainVersion, 0))
    BY <1>15 DEF SyncTransfer
  <2>3. queue'["rollout"] # <<>>
    <3> DEFINE c == Command(d, "receive", trainVersion, 0)
    <3>1. c \in Commands /\ queue["rollout"] \in Seq(Commands)
      BY CommandTypes DEF TypeInv, Ops, Engines
    <3> HIDE DEF c
    <3> QED BY <2>2, <3>1, AppendProperties DEF c
  <2> QED BY <2>1, <2>3 DEF VersionInv, SameWeights, InSession
<1>16. CASE SyncFinish(d)
  <2>1. /\ task[d] = "transfer" /\ task'[d] \in {"synced"}
        /\ UNCHANGED <<mode, mem, trainVersion, chosen>>
        /\ rolloutVersion' = chosen[d]
    BY <1>16 DEF SyncFinish, Goto, WorkersUnchanged, BackendUnchanged
  <2>2. queue["rollout"] = <<>>
    BY <1>16, EmptyQueues DEF SyncFinish, InSession, Engines
  <2>3. trainVersion \in Nat
    BY DEF TypeInv
  <2> QED BY <2>1, <2>2, <2>3 DEF VersionInv, SameWeights, InSession
<1>17. ASSUME NEW t \in Chats \cup {d}, RolledOut(t) PROVE VersionInv(d)'
  <2>1. UNCHANGED <<mode, mem, queue, trainVersion, rolloutVersion, chosen>>
    BY <1>17 DEF RolledOut, WorkersUnchanged, BackendUnchanged, SyncUnchanged
  <2>2. task'[d] = task[d] \/ (task[d] \in InSession /\ task'[d] \in InSession)
    BY <1>17 DEF RolledOut, Goto, InSession
  <2> QED BY <2>1, <2>2 DEF VersionInv, SameWeights, InSession
<1>18. ASSUME NEW t \in Chats \cup {d}, NEW size \in CacheSizes \cup {0}, Asks(t, size) PROVE VersionInv(d)'
  <2>1. UNCHANGED <<mode, mem, trainVersion, rolloutVersion, chosen>>
    BY <1>18 DEF Asks, WorkersUnchanged, BackendUnchanged
  <2>2. task[d] \in InSession /\ task'[d] \in InSession
    BY <1>18 DEF Asks, MayRollout, PhaseInv, Goto, InSession
  <2> QED BY <2>1, <2>2 DEF VersionInv, SameWeights, InSession
<1>19. ASSUME NEW e \in Engines, Execute(e) PROVE VersionInv(d)'
  <2>1. /\ \A f \in Engines \ {e} : mem'[f] = mem[f] /\ queue'[f] = queue[f]
        /\ queue[e] # <<>>
        /\ UNCHANGED <<mode, task, chosen, trainVersion, rolloutVersion>>
        /\ \/ RanRollout(d, e) \/ BeganRank(d, e) \/ EndedRank(d, e)
           \/ TrainedRank(d, e) \/ TouchedRank(d, e)
    BY <1>19, Executed
  <2>2. task[d] # "transfer"
    BY <2>1 DEF RanRollout, BeganRank, EndedRank, TrainedRank, TouchedRank, InSession
  <2>3. CASE KeptWeights(e)
    <3>1. \A f \in Engines : mem'[f].weights = mem[f].weights
      BY <2>1, <2>3 DEF KeptWeights
    <3>2. SameWeights' <=> SameWeights
      BY <3>1 DEF SameWeights, Engines
    <3> QED BY <2>1, <2>2, <3>2 DEF VersionInv
  <2>4. CASE TrainedRank(d, e)
    BY <2>1, <2>4 DEF TrainedRank, VersionInv, InSession
  <2> QED BY <2>1, <2>3, <2>4
          DEF RanRollout, BeganRank, EndedRank, TouchedRank, KeptWeights, Rolled
<1>20. CASE ExecuteTransfer
  <2>1. /\ task[d] = "transfer" /\ KeptWeights("train")
        /\ mem'["rollout"].weights = mem["train"].weights
        /\ UNCHANGED <<mode, task, chosen, trainVersion, rolloutVersion>>
    BY <1>20, Transferred
  <2> QED BY <2>1 DEF VersionInv, SameWeights, KeptWeights, InSession
<1>21. CASE UNCHANGED vars
  BY <1>21 DEF vars, VersionInv, SameWeights
<1> QED
  BY <1>1, <1>2, <1>3, <1>4, <1>5, <1>6, <1>7, <1>8, <1>9, <1>10, <1>11, <1>12, <1>13, <1>14, <1>15, <1>16, <1>17, <1>18, <1>19, <1>20, <1>21
  DEF LoneStep

LEMMA LabelNext ==
  ASSUME NEW d \in Drivers, TypeInv, MemInv, PhaseInv(d), QueueInv(d), RankInv(d), VersionInv(d), LabelInv(d), LoneStep(d)
  PROVE  LabelInv(d)'
<1> task \in [Tasks -> Places] /\ d \in Tasks /\ Chats \subseteq Tasks
  BY DEF TypeInv, Tasks
<1>1. CASE BeginSession(d)
  <2>1. /\ task[d] = "idle" /\ task'[d] \in {"syncing"}
        /\ UNCHANGED <<mode, mem, trainVersion>>
    BY <1>1 DEF BeginSession, Goto, WorkersUnchanged, BackendUnchanged, PhaseInv, InSession
  <2> QED BY <2>1 DEF LabelInv
<1>2. CASE OpenSession(d)
  <2>1. /\ task[d] = "synced" /\ task'[d] \in {"opening"}
        /\ UNCHANGED <<mode, mem, trainVersion>>
    BY <1>2 DEF OpenSession, Goto, WorkersUnchanged, BackendUnchanged
  <2> QED BY <2>1 DEF LabelInv
<1>3. CASE Opened(d)
  <2>1. /\ task[d] = "opening" /\ task'[d] \in {"open"}
        /\ UNCHANGED <<mode, mem, trainVersion>>
    BY <1>3 DEF Opened, Goto, WorkersUnchanged, BackendUnchanged
  <2> QED BY <2>1 DEF LabelInv
<1>4. CASE CloseSession(d)
  <2>1. /\ task[d] = "open" /\ task'[d] \in {"ending"}
        /\ UNCHANGED <<mode, mem, trainVersion>>
    BY <1>4 DEF CloseSession, Goto, WorkersUnchanged, BackendUnchanged, PhaseInv, InSession
  <2> QED BY <2>1 DEF LabelInv
<1>5. CASE Ended(d)
  <2>1. /\ task[d] = "ending" /\ task'[d] \in {"closed"}
        /\ UNCHANGED <<mode, mem, trainVersion>>
    BY <1>5 DEF Ended, Goto, WorkersUnchanged, BackendUnchanged
  <2> QED BY <2>1 DEF LabelInv
<1>6. ASSUME NEW kind \in ScoreKinds, Score(d, kind) PROVE LabelInv(d)'
  <2>1. /\ task[d] = "closed" /\ task'[d] \in {"scoring"}
        /\ UNCHANGED <<mode, mem, trainVersion>>
    BY <1>6 DEF Score, Goto, WorkersUnchanged, BackendUnchanged
  <2> QED BY <2>1 DEF LabelInv
<1>7. CASE ScoreReturned(d)
  <2>1. /\ task[d] = "scoring" /\ task'[d] \in {"closed"}
        /\ UNCHANGED <<mode, mem, trainVersion>>
    BY <1>7 DEF ScoreReturned, Goto, WorkersUnchanged, BackendUnchanged
  <2> QED BY <2>1 DEF LabelInv
<1>8. ASSUME NEW n \in {1, 2}, Train(d, n) PROVE LabelInv(d)'
  <2>1. /\ task[d] = "closed" /\ task'[d] \in {"training"}
        /\ UNCHANGED <<mode, mem, trainVersion>>
    BY <1>8 DEF Train, Goto, WorkersUnchanged, BackendUnchanged
  <2>2. queue'["train"] # <<>>
    <3> DEFINE c == Command(d, "train", n, 0)
    <3>1. c \in Commands /\ Submit("train", c) /\ "train" \in Engines
      BY <1>8, CommandTypes DEF Train, Ops, Engines
    <3> HIDE DEF c
    <3> QED BY <3>1, MoreCommands DEF TypeInv
  <2> QED BY <2>1, <2>2 DEF LabelInv
<1>9. CASE TrainReturned(d)
  <2>1. /\ task[d] = "training" /\ task'[d] \in {"idle"}
        /\ UNCHANGED <<mode, mem>>
        /\ (mode.separate /\ mode.lora => trainVersion' = mem["train"].label)
    BY <1>9 DEF TrainReturned, Goto, WorkersUnchanged, BackendUnchanged
  <2> QED BY <2>1 DEF LabelInv
<1>10. CASE SkipTrain(d)
  <2>1. /\ task[d] = "closed" /\ task'[d] \in {"idle"}
        /\ UNCHANGED <<mode, mem, trainVersion>>
    BY <1>10 DEF SkipTrain, Goto, WorkersUnchanged, BackendUnchanged
  <2> QED BY <2>1 DEF LabelInv
<1>11. CASE SyncSkip(d)
  <2>1. /\ task[d] = "syncing" /\ task'[d] \in {"synced"}
        /\ UNCHANGED <<mode, mem, trainVersion>>
    BY <1>11 DEF SyncSkip, Goto, WorkersUnchanged, BackendUnchanged
  <2> QED BY <2>1 DEF LabelInv
<1>12. CASE SyncLock(d)
  <2>1. /\ task[d] = "syncing" /\ task'[d] \in {"locked"}
        /\ UNCHANGED <<mode, mem, trainVersion>>
    BY <1>12 DEF SyncLock, Goto, WorkersUnchanged, BackendUnchanged
  <2> QED BY <2>1 DEF LabelInv
<1>13. CASE SyncRecheck(d)
  <2>1. /\ task[d] = "locked" /\ task'[d] \in {"synced", "planTrain"}
        /\ UNCHANGED <<mode, mem, trainVersion>>
    BY <1>13 DEF SyncRecheck, Goto, WorkersUnchanged, BackendUnchanged
  <2> QED BY <2>1 DEF LabelInv
<1>14. CASE SyncPlan(d)
  <2>1. /\ task[d] = "planTrain" /\ task'[d] \in {"planRollout"}
        /\ UNCHANGED <<mode, mem, trainVersion>>
    BY <1>14 DEF SyncPlan, Goto, WorkersUnchanged, BackendUnchanged
  <2> QED BY <2>1 DEF LabelInv
<1>15. CASE SyncTransfer(d)
  <2>1. /\ task[d] = "planRollout" /\ task'[d] \in {"transfer"}
        /\ UNCHANGED <<mode, mem, trainVersion>>
    BY <1>15 DEF SyncTransfer, Goto, WorkersUnchanged, BackendUnchanged
  <2> QED BY <2>1 DEF LabelInv
<1>16. CASE SyncFinish(d)
  <2>1. /\ task[d] = "transfer" /\ task'[d] \in {"synced"}
        /\ UNCHANGED <<mode, mem, trainVersion>>
    BY <1>16 DEF SyncFinish, Goto, WorkersUnchanged, BackendUnchanged
  <2> QED BY <2>1 DEF LabelInv
<1>17. ASSUME NEW t \in Chats \cup {d}, RolledOut(t) PROVE LabelInv(d)'
  <2>1. UNCHANGED <<mode, mem, queue, trainVersion>>
    BY <1>17 DEF RolledOut, WorkersUnchanged, BackendUnchanged
  <2>2. task'[d] = task[d] \/ (task[d] \in InSession /\ task'[d] \in InSession)
    BY <1>17 DEF RolledOut, Goto, InSession
  <2> QED BY <2>1, <2>2 DEF LabelInv, InSession
<1>18. ASSUME NEW t \in Chats \cup {d}, NEW size \in CacheSizes \cup {0}, Asks(t, size) PROVE LabelInv(d)'
  <2>1. UNCHANGED <<mode, mem, trainVersion, rolloutVersion, chosen>>
    BY <1>18 DEF Asks, WorkersUnchanged, BackendUnchanged
  <2>2. task[d] \in InSession /\ task'[d] \in InSession
    BY <1>18 DEF Asks, MayRollout, PhaseInv, Goto, InSession
  <2> QED BY <2>1, <2>2 DEF LabelInv, InSession
<1>19. ASSUME NEW e \in Engines, Execute(e) PROVE LabelInv(d)'
  <2>1. /\ \A f \in Engines \ {e} : mem'[f] = mem[f] /\ queue'[f] = queue[f]
        /\ queue[e] # <<>>
        /\ UNCHANGED <<mode, task, chosen, trainVersion, rolloutVersion>>
        /\ \/ RanRollout(d, e) \/ BeganRank(d, e) \/ EndedRank(d, e)
           \/ TrainedRank(d, e) \/ TouchedRank(d, e)
    BY <1>19, Executed
  <2>2. CASE KeptWeights(e)
    <3>1. \A f \in Engines : mem'[f].weights = mem[f].weights /\ mem'[f].label = mem[f].label
      BY <2>1, <2>2 DEF KeptWeights
    <3>m. mem[e].weights \in Nat
      BY DEF TypeInv, Memory
    <3>2. ~TrainedRank(d, e)
      BY <2>2, <3>m DEF TrainedRank, KeptWeights
    <3>3. task[d] # "training"
      BY <2>1, <3>2 DEF RanRollout, BeganRank, EndedRank, TouchedRank, InSession
    <3> QED BY <2>1, <3>1, <3>3 DEF LabelInv, Engines
  <2>3. CASE TrainedRank(d, e)
    <3>1. PICK n \in Nat \ {0} : mem'[e].weights = mem[e].weights + n
                                /\ mem'[e].label = mem[e].label + n
      BY <2>3 DEF TrainedRank
    <3>2. /\ e = "train" /\ task[d] = "training" /\ queue'["train"] = <<>>
          /\ queue["train"] # <<>>
      BY <2>1, <2>3 DEF TrainedRank, Answered
    <3>3. mem["train"].label \in Nat
      BY DEF TypeInv, Engines, Memory
    <3> QED BY <2>1, <3>1, <3>2, <3>3 DEF LabelInv, Engines
  <2> QED BY <2>1, <2>2, <2>3
          DEF RanRollout, BeganRank, EndedRank, TouchedRank, KeptWeights, Rolled
<1>20. CASE ExecuteTransfer
  <2>1. /\ task[d] = "transfer" /\ KeptWeights("train")
        /\ mem'["rollout"].weights = mem["train"].weights /\ mem'["rollout"].label = trainVersion
        /\ UNCHANGED <<mode, task, trainVersion>>
    BY <1>20, Transferred
  <2>2. mode.separate
    BY <2>1 DEF PhaseInv
  <2> QED BY <2>1, <2>2 DEF LabelInv, KeptWeights, Engines
<1>21. CASE UNCHANGED vars
  BY <1>21 DEF vars, LabelInv
<1> QED
  BY <1>1, <1>2, <1>3, <1>4, <1>5, <1>6, <1>7, <1>8, <1>9, <1>10, <1>11, <1>12, <1>13, <1>14, <1>15, <1>16, <1>17, <1>18, <1>19, <1>20, <1>21
  DEF LoneStep

LEMMA OutputNext ==
  ASSUME NEW d \in Drivers, TypeInv, MemInv, PhaseInv(d), QueueInv(d), RankInv(d), VersionInv(d), LabelInv(d), OutputInv, LoneStep(d)
  PROVE  OutputInv'
<1>1. CASE BeginSession(d)
  BY <1>1 DEF BeginSession, WorkersUnchanged, OutputInv
<1>2. CASE OpenSession(d)
  BY <1>2 DEF OpenSession, WorkersUnchanged, OutputInv
<1>3. CASE Opened(d)
  BY <1>3 DEF Opened, WorkersUnchanged, OutputInv
<1>4. CASE CloseSession(d)
  BY <1>4 DEF CloseSession, WorkersUnchanged, OutputInv
<1>5. CASE Ended(d)
  BY <1>5 DEF Ended, WorkersUnchanged, OutputInv
<1>6. ASSUME NEW kind \in ScoreKinds, Score(d, kind) PROVE OutputInv'
  BY <1>6 DEF Score, WorkersUnchanged, OutputInv
<1>7. CASE ScoreReturned(d)
  BY <1>7 DEF ScoreReturned, WorkersUnchanged, OutputInv
<1>8. ASSUME NEW n \in {1, 2}, Train(d, n) PROVE OutputInv'
  BY <1>8 DEF Train, WorkersUnchanged, OutputInv
<1>9. CASE TrainReturned(d)
  BY <1>9 DEF TrainReturned, WorkersUnchanged, OutputInv
<1>10. CASE SkipTrain(d)
  BY <1>10 DEF SkipTrain, WorkersUnchanged, OutputInv
<1>11. CASE SyncSkip(d)
  BY <1>11 DEF SyncSkip, WorkersUnchanged, OutputInv
<1>12. CASE SyncLock(d)
  BY <1>12 DEF SyncLock, WorkersUnchanged, OutputInv
<1>13. CASE SyncRecheck(d)
  BY <1>13 DEF SyncRecheck, WorkersUnchanged, OutputInv
<1>14. CASE SyncPlan(d)
  BY <1>14 DEF SyncPlan, WorkersUnchanged, OutputInv
<1>15. CASE SyncTransfer(d)
  BY <1>15 DEF SyncTransfer, WorkersUnchanged, OutputInv
<1>16. CASE SyncFinish(d)
  BY <1>16 DEF SyncFinish, WorkersUnchanged, OutputInv
<1>17. ASSUME NEW t \in Chats \cup {d}, RolledOut(t) PROVE OutputInv'
  BY <1>17 DEF RolledOut, WorkersUnchanged, OutputInv
<1>18. ASSUME NEW t \in Chats \cup {d}, NEW size \in CacheSizes \cup {0}, Asks(t, size) PROVE OutputInv'
  BY <1>18 DEF Asks, WorkersUnchanged, OutputInv
<1>19. ASSUME NEW e \in Engines, Execute(e) PROVE OutputInv'
  <2> DEFINE c == Head(queue[e])
             o == Served(e, c)
  <2>1. UNCHANGED mode /\ (outputs' = outputs \/ (c.op = "rollout" /\ outputs' = outputs \cup {o}))
    BY <1>19 DEF Execute
  <2>2. ASSUME c.op = "rollout"
        PROVE  o.used = Policy(o.asked) /\ o.inSession /\ (mode.lora => o.label = o.asked)
    <3>1. RanRollout(d, e)
      BY <1>19, <2>2, Executed DEF BeganRank, EndedRank, TrainedRank, TouchedRank, Answered
    <3>2. /\ e = RolloutEngine /\ c.asked = mem["train"].weights
          /\ task[d] \in InSession \/ (task[d] = "ending" /\ queue[e] # <<>>)
      BY <1>19, <3>1 DEF RanRollout, Execute
    <3>3. Current(mem[e]) /\ mem[e].session
      BY <3>2 DEF RankInv
    <3>4. mem[e].weights = mem["train"].weights /\ (mode.lora => mem[e].label = mem[e].weights)
      BY <3>2 DEF VersionInv, LabelInv, SameWeights, RolloutEngine, InSession
    <3>5. MemOK(mem[e]) /\ c.arg \in Nat
      <4>1. queue[e] \in Seq(Commands) /\ queue[e] # <<>>
        BY <1>19 DEF Execute, TypeInv
      <4>2. c \in Commands
        BY <4>1
      <4> QED BY <4>2 DEF MemInv, Commands
    <3>6. RolloutReady(mem[e], c.arg).infer = Policy(mem[e].weights)
      BY <3>3, <3>5, RolloutReadyGood
    <3> QED BY <3>2, <3>3, <3>4, <3>6 DEF Served
  <2> HIDE DEF o
  <2> QED BY <2>1, <2>2 DEF OutputInv
<1>20. CASE ExecuteTransfer
  BY <1>20 DEF ExecuteTransfer, OutputInv
<1>21. CASE UNCHANGED vars
  BY <1>21 DEF vars, OutputInv
<1> QED
  BY <1>1, <1>2, <1>3, <1>4, <1>5, <1>6, <1>7, <1>8, <1>9, <1>10, <1>11, <1>12, <1>13, <1>14, <1>15, <1>16, <1>17, <1>18, <1>19, <1>20, <1>21
  DEF LoneStep

-----------------------------------------------------------------------------
AloneInv == \A d \in Drivers : mode.drivers = {d} => LoneInv(d)
IInv == TypeInv /\ MemInv /\ AloneInv

LEMMA ModeKept == ASSUME [Next]_vars PROVE UNCHANGED mode
BY DEF Next, DriverStep, TaskStep, Finished, vars, BeginSession, OpenSession, Opened,
       CloseSession, Ended, Score, ScoreReturned, Train, TrainReturned, SkipTrain,
       SyncSkip, SyncLock, SyncRecheck, SyncPlan, SyncTransfer, SyncFinish, RolledOut,
       Rollout, SyncedRollout, Execute, ExecuteTransfer, WorkersUnchanged

\* The invariant the other theorems rest on, in every configuration and for
\* every number of sessions, rollouts and steps.
THEOREM IInvHolds == Spec => []IInv
<1>1. Init => IInv
  BY InitTypes, InitLone DEF IInv, AloneInv
<1>2. IInv /\ [Next]_vars => IInv'
  <2> SUFFICES ASSUME TypeInv, MemInv, AloneInv, [Next]_vars
               PROVE  TypeInv' /\ MemInv' /\ AloneInv'
    BY DEF IInv
  <2>1. MemInv'
    BY MemNext
  <2>2. TypeInv'
    BY <2>1, TypesNext
  <2>3. ASSUME NEW d \in Drivers, mode'.drivers = {d}
        PROVE  LoneInv(d)'
    <3>1. mode.drivers = {d}
      BY <2>3, ModeKept
    <3>2. LoneInv(d)
      BY <3>1 DEF AloneInv
    <3>3. LoneStep(d)
      BY <3>1, <3>2, LoneSteps DEF LoneInv
    <3>4. PhaseInv(d)' /\ QueueInv(d)' /\ RankInv(d)'
      BY <3>2, <3>3, PhaseNext, QueueNext, RankNext DEF LoneInv
    <3>5. VersionInv(d)' /\ LabelInv(d)' /\ OutputInv'
      BY <3>2, <3>3, VersionNext, LabelNext, OutputNext DEF LoneInv
    <3> QED BY <3>4, <3>5 DEF LoneInv
  <2> QED BY <2>1, <2>2, <2>3 DEF AloneInv
<1> QED BY <1>1, <1>2, PTL DEF Spec

\* Some driver is the one, when there is one.
LEMMA TheDriver ==
  ASSUME mode \in Modes, Alone
  PROVE  \E d \in Drivers : mode.drivers = {d}
<1>1. mode.drivers \in SUBSET Drivers /\ mode.drivers \notin {{}}
  BY DEF Modes
<1>2. IsFiniteSet(mode.drivers)
  BY <1>1, TasksAssumption, FS_Subset
<1>3. PICK d \in mode.drivers : TRUE
  BY <1>1
<1>4. mode.drivers = {d}
  BY <1>2, <1>3, FS_Singleton DEF Alone
<1> QED BY <1>1, <1>3, <1>4

\* However many tasks drive the trainer and whatever they do, a rank that says
\* it is ready to train (_train_state_ready, so that _prepare_train_state
\* returns at once) has its actor and its expert tiles on the device.
THEOREM TrainReadyHonestHolds == Spec => []TrainReadyHonest
<1>1. IInv => TrainReadyHonest
  BY DEF IInv, MemInv, MemOK, TrainReadyHonest
<1> QED BY <1>1, IInvHolds, PTL

\* The cache a rollout reuses because it is large enough is there, and with one
\* driver no decode graph outlives the cache or the weights it was captured on.
THEOREM GraphsCurrentHolds == Spec => []GraphsCurrent
<1>1. IInv => GraphsCurrent
  <2> SUFFICES ASSUME IInv PROVE GraphsCurrent
    OBVIOUS
  <2>1. \A e \in Engines : mem[e].spec = mem[e].cache
    BY DEF IInv, MemInv, MemOK
  <2>2. ASSUME Alone, NEW e \in Engines PROVE mem[e].graphs # "dangling"
    <3>1. PICK d \in Drivers : mode.drivers = {d}
      BY <2>2, TheDriver DEF IInv, TypeInv
    <3> QED BY <3>1 DEF IInv, AloneInv, LoneInv, RankInv, GraphsOK
  <2> QED BY <2>1, <2>2 DEF GraphsCurrent
<1> QED BY <1>1, IInvHolds, PTL

\* With one driver every rollout is generated by the policy as it stands when it
\* is asked for, through the session's reuse of inference weights, the versions
\* of two engines and the transfer between them, and labelled with it.
THEOREM OnPolicyHolds == Spec => []OnPolicy
<1>1. IInv => OnPolicy
  <2> SUFFICES ASSUME IInv, Alone, NEW o \in outputs
               PROVE  o.used = Policy(o.asked) /\ (mode.lora => o.label = o.asked)
    BY DEF OnPolicy
  <2>1. PICK d \in Drivers : mode.drivers = {d}
    BY TheDriver DEF IInv, TypeInv
  <2> QED BY <2>1 DEF IInv, AloneInv, LoneInv, OutputInv
<1> QED BY <1>1, IInvHolds, PTL

\* With one driver a rollout reaches the rollout rank after the session's begin
\* command and before its end, an agent's request that races the end included.
THEOREM RunsInSessionHolds == Spec => []RunsInSession
<1>1. IInv => RunsInSession
  <2> SUFFICES ASSUME IInv, Alone, NEW o \in outputs PROVE o.inSession
    BY DEF RunsInSession
  <2>1. PICK d \in Drivers : mode.drivers = {d}
    BY TheDriver DEF IInv, TypeInv
  <2> QED BY <2>1 DEF IInv, AloneInv, LoneInv, OutputInv
<1> QED BY <1>1, IInvHolds, PTL

-----------------------------------------------------------------------------
\* Where a task is when it synchronises, and when it holds the lock to do so.
LockPlaces == {"locked", "planTrain", "planRollout", "transfer"}
SyncPlaces == LockPlaces \cup {"syncing", "synced"}

\* The drivers inside a session: rolling out or between two rollouts, the
\* synchronisation before a rollout included.
Inside ==
  {d \in Drivers : \/ task[d] \in InSession
                   \/ goal[d] = "rollout" /\ task[d] \in SyncPlaces}

\* The depth counts them, and the lock says who synchronises.
CountInv ==
  /\ depth = Cardinality(Inside) /\ active \in BOOLEAN
  /\ lock \in Tasks \cup {Nobody}
  /\ \A t \in Tasks : task[t] \in LockPlaces <=> lock = t

\* A finite number of drivers.
LEMMA InsideFinite == IsFiniteSet(Inside) /\ Cardinality(Inside) \in Nat
<1>1. IsFiniteSet(Inside)
  BY TasksAssumption, FS_Subset DEF Inside
<1> QED
  BY <1>1, FS_CardinalityType

\* A task that moves about without entering or leaving a session or the lock.
LEMMA CountMoves ==
  ASSUME TypeInv, CountInv, NEW t \in Tasks, NEW where \in Places, Goto(t, where),
         NEW why \in {"session", "rollout"}, goal' = [goal EXCEPT ![t] = why],
         UNCHANGED <<depth, lock>>, active' \in BOOLEAN,
         where \in LockPlaces <=> task[t] \in LockPlaces,
         t \in Drivers =>
           (t \in Inside <=> where \in InSession \/ (why = "rollout" /\ where \in SyncPlaces))
  PROVE  CountInv'
<1>1. /\ task' = [task EXCEPT ![t] = where]
      /\ task \in [Tasks -> Places] /\ goal \in [Tasks -> {"session", "rollout"}]
  BY DEF Goto, TypeInv
<1>2. /\ task'[t] = where /\ goal'[t] = why
      /\ \A s \in Tasks \ {t} : task'[s] = task[s] /\ goal'[s] = goal[s]
  BY <1>1
<1>3. Inside' = Inside
  <2>1. ASSUME NEW d \in Drivers PROVE d \in Inside' <=> d \in Inside
    <3>1. CASE d = t
      BY <3>1, <1>2 DEF Inside
    <3>2. CASE d # t
      BY <3>2, <1>2 DEF Inside, Tasks
    <3> QED BY <3>1, <3>2
  <2> QED BY <2>1 DEF Inside
<1>4. \A s \in Tasks : task'[s] \in LockPlaces <=> lock = s
  BY <1>2 DEF CountInv
<1> QED
  BY <1>3, <1>4 DEF CountInv

\* A task that enters or leaves a session.
LEMMA CountEnters ==
  ASSUME TypeInv, CountInv, NEW d \in Drivers, Goto(d, "open"), goal' = goal,
         task[d] \in {"idle", "opening"},
         depth' = depth + 1, lock' = lock, active' \in BOOLEAN
  PROVE  CountInv'
<1>0. d \in Tasks /\ task \in [Tasks -> Places] /\ task' = [task EXCEPT ![d] = "open"]
  BY DEF Goto, TypeInv, Tasks
<1>1. task'[d] = "open" /\ \A s \in Tasks \ {d} : task'[s] = task[s]
  BY <1>0
<1>2. d \notin Inside
  BY DEF Inside, InSession, SyncPlaces, LockPlaces
<1>3. Inside' = Inside \cup {d}
  BY <1>1 DEF Inside, InSession, Tasks
<1>4. Cardinality(Inside') = Cardinality(Inside) + 1
  BY <1>2, <1>3, InsideFinite, FS_AddElement
<1>5. \A s \in Tasks : task'[s] \in LockPlaces <=> lock = s
  BY <1>1 DEF CountInv, LockPlaces
<1> QED
  BY <1>4, <1>5 DEF CountInv

\* A driver that ends its session is no longer counted.
LEMMA CountLeaves ==
  ASSUME TypeInv, CountInv, NEW d \in Drivers, NEW where \in {"ending", "closed"},
         Goto(d, where), goal' = goal, task[d] = "open",
         depth' = depth - 1, lock' = lock, active' \in BOOLEAN
  PROVE  CountInv'
<1>0. d \in Tasks /\ task \in [Tasks -> Places] /\ task' = [task EXCEPT ![d] = where]
  BY DEF Goto, TypeInv, Tasks
<1>1. task'[d] = where /\ \A s \in Tasks \ {d} : task'[s] = task[s]
  BY <1>0
<1>2. d \in Inside
  BY DEF Inside, InSession
<1>3. Inside' = Inside \ {d}
  <2>1. where \notin InSession /\ where \notin SyncPlaces
    BY DEF InSession, SyncPlaces, LockPlaces
  <2> QED BY <2>1, <1>1 DEF Inside, Tasks
<1>4. Cardinality(Inside') = Cardinality(Inside) - 1
  BY <1>2, <1>3, InsideFinite, FS_RemoveElement
<1>5. \A s \in Tasks : task'[s] \in LockPlaces <=> lock = s
  BY <1>1 DEF CountInv, LockPlaces
<1> QED
  BY <1>4, <1>5 DEF CountInv

\* A task that takes the lock, or lets go of it.
LEMMA CountLocks ==
  ASSUME TypeInv, CountInv, NEW t \in Tasks,
         \/ task[t] = "syncing" /\ Goto(t, "locked") /\ lock = Nobody /\ lock' = t
         \/ task[t] \in LockPlaces /\ Goto(t, "synced") /\ lock' = Nobody,
         UNCHANGED <<goal, depth, active>>
  PROVE  CountInv'
<1>0. task \in [Tasks -> Places] /\ Nobody \notin Tasks
  BY TasksAssumption DEF TypeInv, Tasks
<1>1. /\ task'[t] \in {"locked", "synced"} /\ (task'[t] = "locked" <=> lock' = t)
      /\ \A s \in Tasks \ {t} : task'[s] = task[s]
  BY <1>0 DEF Goto
<1>2. Inside' = Inside
  <2>1. task[t] \in SyncPlaces /\ task'[t] \in SyncPlaces
        /\ task[t] \notin InSession /\ task'[t] \notin InSession
    BY <1>0 DEF SyncPlaces, LockPlaces, InSession, Goto
  <2> QED BY <2>1, <1>1 DEF Inside, Tasks
<1>3. \A s \in Tasks : task'[s] \in LockPlaces <=> lock' = s
  <2>1. CASE task[t] = "syncing" /\ Goto(t, "locked") /\ lock = Nobody /\ lock' = t
    <3>1. task'[t] = "locked"
      BY <2>1, <1>0 DEF Goto
    <3> QED BY <2>1, <3>1, <1>0, <1>1 DEF CountInv, LockPlaces
  <2>2. CASE task[t] \in LockPlaces /\ Goto(t, "synced") /\ lock' = Nobody
    <3>1. task'[t] = "synced" /\ lock = t
      BY <2>2, <1>0 DEF Goto, CountInv
    <3> QED BY <2>2, <3>1, <1>0, <1>1 DEF CountInv, LockPlaces
  <2> QED BY <2>1, <2>2
<1>4. lock' \in Tasks \cup {Nobody}
  OBVIOUS
<1> QED
  BY <1>2, <1>3, <1>4 DEF CountInv

\* What a driver's own steps do to the count.
LEMMA CountDriver ==
  ASSUME TypeInv, CountInv, NEW d \in Drivers, DriverStep(d)
  PROVE  CountInv'
<1> USE DEF Places, InSession, SyncPlaces, LockPlaces
<1>0. /\ d \in Tasks /\ goal \in [Tasks -> {"session", "rollout"}]
      /\ goal = [goal EXCEPT ![d] = goal[d]] /\ goal[d] \in {"session", "rollout"}
      /\ active \in BOOLEAN
  BY DEF Tasks, TypeInv, CountInv
<1>1. CASE BeginSession(d)
  <2>1. CASE depth = 0
    <3>1. /\ Goto(d, "syncing") /\ goal' = [goal EXCEPT ![d] = "session"] /\ task[d] = "idle"
          /\ UNCHANGED <<depth, lock, active>>
      BY <1>1, <2>1 DEF BeginSession, BackendUnchanged
    <3>2. d \notin Inside
      BY <3>1 DEF Inside
    <3> QED BY <3>1, <3>2, <1>0, CountMoves
  <2>2. CASE depth # 0
    BY <1>0, <1>1, <2>2, CountEnters DEF BeginSession, BackendUnchanged
  <2> QED BY <2>1, <2>2
<1>2. CASE OpenSession(d)
  <2>1. /\ Goto(d, "opening") /\ task[d] = "synced" /\ goal[d] = "session"
        /\ UNCHANGED <<goal, depth, lock, active>>
    BY <1>2 DEF OpenSession, BackendUnchanged, SyncUnchanged
  <2>2. d \notin Inside
    BY <2>1 DEF Inside
  <2> QED BY <2>1, <2>2, <1>0, CountMoves
<1>3. CASE Opened(d)
  BY <1>3, CountEnters DEF Opened, SyncUnchanged
<1>4. CASE CloseSession(d)
  BY <1>0, <1>4, CountLeaves DEF CloseSession, BackendUnchanged, SyncUnchanged
<1>5. CASE \/ Ended(d) \/ ScoreReturned(d) \/ TrainReturned(d) \/ SkipTrain(d)
           \/ \E kind \in ScoreKinds : Score(d, kind)
           \/ \E n \in {1, 2} : Train(d, n)
  <2>1. /\ \E where \in {"closed", "idle", "scoring", "training"} : Goto(d, where)
        /\ task[d] \in {"ending", "scoring", "training", "closed"}
        /\ UNCHANGED <<goal, depth, lock>> /\ active' \in BOOLEAN
    BY <1>0, <1>5 DEF Ended, ScoreReturned, TrainReturned, SkipTrain, Score, Train,
       BackendUnchanged, SyncUnchanged
  <2>2. d \notin Inside
    BY <2>1 DEF Inside
  <2>3. PICK where \in {"closed", "idle", "scoring", "training"} : Goto(d, where)
    BY <2>1
  <2> QED BY <2>1, <2>2, <2>3, <1>0, CountMoves
<1> QED
  BY <1>1, <1>2, <1>3, <1>4, <1>5 DEF DriverStep

\* What the steps of any task do to it.
LEMMA CountTask ==
  ASSUME TypeInv, CountInv, NEW t \in Tasks, TaskStep(t)
  PROVE  CountInv'
<1> USE DEF Places, InSession, SyncPlaces, LockPlaces
<1>0. /\ goal \in [Tasks -> {"session", "rollout"}]
      /\ goal = [goal EXCEPT ![t] = goal[t]] /\ goal[t] \in {"session", "rollout"}
      /\ active \in BOOLEAN
      /\ t \in Drivers => (t \in Inside <=> \/ task[t] \in InSession
                                            \/ goal[t] = "rollout" /\ task[t] \in SyncPlaces)
  BY DEF TypeInv, CountInv, Inside
<1>1. CASE SyncSkip(t)
  <2>1. /\ Goto(t, "synced") /\ task[t] = "syncing" /\ UNCHANGED <<goal, depth, lock, active>>
    BY <1>1 DEF SyncSkip, BackendUnchanged, SyncUnchanged
  <2> QED BY <2>1, <1>0, CountMoves
<1>2. CASE SyncLock(t)
  BY <1>2, CountLocks DEF SyncLock, BackendUnchanged
<1>3. CASE SyncRecheck(t)
  <2>1. CASE InStep
    <3>1. /\ task[t] \in LockPlaces /\ Goto(t, "synced") /\ lock' = Nobody
          /\ UNCHANGED <<goal, depth, active>>
      BY <1>3, <2>1 DEF SyncRecheck, BackendUnchanged
    <3> QED BY <3>1, CountLocks
  <2>2. CASE ~InStep
    <3>1. /\ task[t] = "locked" /\ Goto(t, "planTrain") /\ UNCHANGED <<goal, depth, lock, active>>
      BY <1>3, <2>2 DEF SyncRecheck, BackendUnchanged
    <3> QED BY <3>1, <1>0, CountMoves
  <2> QED BY <2>1, <2>2
<1>4. CASE SyncPlan(t)
  <2>1. /\ task[t] = "planTrain" /\ Goto(t, "planRollout") /\ UNCHANGED <<goal, depth, lock, active>>
    BY <1>4 DEF SyncPlan, BackendUnchanged, SyncUnchanged
  <2> QED BY <2>1, <1>0, CountMoves
<1>5. CASE SyncTransfer(t)
  <2>1. /\ task[t] = "planRollout" /\ Goto(t, "transfer") /\ UNCHANGED <<goal, depth, lock, active>>
    BY <1>5 DEF SyncTransfer, BackendUnchanged
  <2> QED BY <2>1, <1>0, CountMoves
<1>6. CASE SyncFinish(t)
  <2>1. /\ task[t] \in LockPlaces /\ Goto(t, "synced") /\ lock' = Nobody
        /\ UNCHANGED <<goal, depth, active>>
    BY <1>6 DEF SyncFinish
  <2> QED BY <2>1, CountLocks
<1>7. CASE RolledOut(t)
  <2> DEFINE where == IF t \in Drivers THEN "open" ELSE "idle"
  <2>1. /\ task[t] = "rolling" /\ Goto(t, where) /\ UNCHANGED <<goal, depth, lock, active>>
    BY <1>7 DEF RolledOut, BackendUnchanged, SyncUnchanged
  <2>2. where \in {"open", "idle"} /\ (t \in Drivers => where = "open")
    OBVIOUS
  <2> HIDE DEF where
  <2> QED BY <2>1, <2>2, <1>0, CountMoves
<1>8. ASSUME NEW size \in CacheSizes \cup {0}, Rollout(t, size) PROVE CountInv'
  <2>1. IF t \in Drivers THEN task[t] = "open" ELSE task[t] = "idle"
    BY <1>8 DEF Rollout, MayRollout
  <2>2. CASE active
    <3>1. Goto(t, "rolling") /\ UNCHANGED <<goal, depth, lock, active>>
      BY <1>8, <2>2 DEF Rollout, BackendUnchanged
    <3>2. task[t] \notin LockPlaces /\ (t \in Drivers => t \in Inside)
      BY <2>1, <1>0
    <3> QED BY <3>1, <3>2, <1>0, CountMoves
  <2>3. CASE ~active
    <3>1. /\ Goto(t, "syncing") /\ goal' = [goal EXCEPT ![t] = "rollout"]
          /\ UNCHANGED <<depth, lock, active>>
      BY <1>8, <2>3 DEF Rollout, BackendUnchanged
    <3>2. task[t] \notin LockPlaces /\ (t \in Drivers => t \in Inside)
      BY <2>1, <1>0
    <3> QED BY <3>1, <3>2, <1>0, CountMoves
  <2> QED BY <2>2, <2>3
<1>9. ASSUME NEW size \in CacheSizes \cup {0}, SyncedRollout(t, size) PROVE CountInv'
  <2>1. /\ task[t] = "synced" /\ goal[t] = "rollout" /\ Goto(t, "rolling")
        /\ UNCHANGED <<goal, depth, lock, active>>
    BY <1>9 DEF SyncedRollout, BackendUnchanged, SyncUnchanged
  <2> QED BY <2>1, <1>0, CountMoves
<1> QED
  BY <1>1, <1>2, <1>3, <1>4, <1>5, <1>6, <1>7, <1>8, <1>9 DEF TaskStep

\* Every step keeps the count.
LEMMA CountNext == ASSUME TypeInv, CountInv, [Next]_vars PROVE CountInv'
<1>1. CASE (\E e \in Engines : Execute(e)) \/ ExecuteTransfer \/ UNCHANGED vars
  <2>1. UNCHANGED <<task, goal, depth, lock, active>>
    BY <1>1 DEF Execute, ExecuteTransfer, vars, BackendUnchanged, SyncUnchanged
  <2> QED BY <2>1 DEF CountInv, Inside
<1> QED
  BY <1>1, CountDriver, CountTask DEF Next, Finished

\* No session is open before the first driver starts.
LEMMA CountInit == ASSUME Init PROVE CountInv
<1>1. Inside = {}
  BY DEF Init, Inside, InSession, SyncPlaces, LockPlaces, Tasks
<1>2. Cardinality(Inside) = 0
  BY <1>1, FS_EmptySet
<1>3. \A t \in Tasks : task[t] \notin LockPlaces /\ lock # t
  BY TasksAssumption DEF Init, LockPlaces, Tasks
<1> QED
  BY <1>2, <1>3 DEF Init, CountInv

\* The depth of _rollout_session_depth is never negative: it counts the sessions
\* that are open, and every close is of one of them.
THEOREM TypesHold == Spec => []TypeOK
<1>1. IInv /\ CountInv => TypeOK
  BY InsideFinite DEF IInv, TypeInv, CountInv, TypeOK
<1>2. Init => CountInv
  BY CountInit
<1>3. IInv /\ CountInv /\ [Next]_vars => CountInv'
  BY CountNext DEF IInv
<1> QED
  BY <1>1, <1>2, <1>3, IInvHolds, PTL DEF Spec

\* Two tasks never carry weights to the rollout engine at the same time.
SyncExclusive ==
  \A s, t \in Tasks : task[s] \in LockPlaces /\ task[t] \in LockPlaces => s = t

\* However many tasks drive the trainer, one at a time transfers the weights:
\* nobody plans, commits or reads versions while another holds the lock.
THEOREM SyncExclusiveHolds == Spec => []SyncExclusive
<1>1. CountInv => SyncExclusive
  BY DEF CountInv, SyncExclusive
<1>2. Init => CountInv
  BY CountInit
<1>3. IInv /\ CountInv /\ [Next]_vars => CountInv'
  BY CountNext DEF IInv
<1> QED
  BY <1>1, <1>2, <1>3, IInvHolds, PTL DEF Spec
=============================================================================
