--------------------------- MODULE PolicySessions ---------------------------
\* Rollout sessions, training and weight synchronisation of one trainer: tasks
\* of the trainer's event loop, the backend's sync thread, and the command
\* queues of its engines.  One rank stands for each engine.
EXTENDS WorkerMemory, Sequences, FiniteSets

CONSTANTS Drivers,      \* tasks that run the train loop
          Chats,        \* requests of the agent proxy
          Nobody,
          CacheSizes,   \* sizes a rollout may ask for
          MaxSessions, MaxRollouts, MaxScores, MaxSteps   \* bounds

ASSUME TasksAssumption ==
  /\ IsFiniteSet(Drivers) /\ Drivers \cap Chats = {}
  /\ Nobody \notin Drivers \cup Chats
ASSUME BoundsAssumption ==
  /\ CacheSizes \subseteq Nat \ {0}
  /\ {MaxSessions, MaxRollouts, MaxScores, MaxSteps} \subseteq Nat

Tasks == Drivers \cup Chats
Engines == {"train", "rollout"}

VARIABLES
  mode,      \* separate rollout engine, keep_rollout_state, LoRA, drivers
  mem,       \* device state of each engine's rank
  queue,     \* commands of each engine
  task,      \* where each task is
  goal,      \* what a task synchronises for
  lock,      \* holder of _policy_sync_lock
  chosen,    \* version a synchronisation carries
  depth,     \* Trainer._rollout_session_depth
  active,    \* CudaBackend._rollout_session_active
  trainVersion, rolloutVersion,
  outputs,   \* rollouts served
  used       \* sessions, rollouts and scores so far, for the bounds

vars == <<mode, mem, queue, task, goal, lock, chosen, depth, active,
          trainVersion, rolloutVersion, outputs, used>>

Trains(e) == e = "train"
RolloutEngine == IF mode.separate THEN "rollout" ELSE "train"

Command(t, op, arg, asked) == [by |-> t, op |-> op, arg |-> arg, asked |-> asked]
Submit(e, c) == queue' = [queue EXCEPT ![e] = Append(@, c)]
Done(t) == \A e \in Engines : \A i \in DOMAIN queue[e] : queue[e][i].by # t

\* score_* and train block the event loop until the workers answer.
LoopFree == \A t \in Tasks : task[t] \notin {"scoring", "training"}
-----------------------------------------------------------------------------
\* How the trainer is configured, and how many tasks drive it at once.
Modes == [separate : BOOLEAN, keep : BOOLEAN, lora : BOOLEAN,
          drivers : (SUBSET Drivers) \ {{}}]

Init ==
  /\ mode \in Modes
  /\ mem = [e \in Engines |-> LoadedMemory] /\ queue = [e \in Engines |-> <<>>]
  /\ task = [t \in Tasks |-> "idle"] /\ goal = [t \in Tasks |-> "session"]
  /\ lock = Nobody /\ chosen = [t \in Tasks |-> 0]
  /\ depth = 0 /\ active = FALSE /\ trainVersion = 0 /\ rolloutVersion = 0
  /\ outputs = {} /\ used = [sessions |-> 0, rollouts |-> 0, scores |-> 0]

Goto(t, where) == task' = [task EXCEPT ![t] = where]
BackendUnchanged == UNCHANGED <<active, trainVersion, rolloutVersion>>
SyncUnchanged == UNCHANGED <<goal, lock, chosen>>
WorkersUnchanged == UNCHANGED <<mode, mem, outputs>>

\* Nested sessions only count; the outermost one prepares the backend.
BeginSession(d) ==
  /\ LoopFree /\ d \in mode.drivers /\ task[d] = "idle" /\ used.sessions < MaxSessions
  /\ used' = [used EXCEPT !.sessions = @ + 1]
  /\ IF depth = 0
     THEN /\ Goto(d, "syncing") /\ goal' = [goal EXCEPT ![d] = "session"]
          /\ depth' = depth
     ELSE Goto(d, "open") /\ depth' = depth + 1 /\ goal' = goal
  /\ BackendUnchanged /\ WorkersUnchanged /\ UNCHANGED <<queue, lock, chosen>>

\* _sync_policy_if_needed, in a thread of its own.
InStep == ~mode.separate \/ trainVersion = rolloutVersion

SyncSkip(t) ==
  /\ task[t] = "syncing" /\ InStep /\ Goto(t, "synced")
  /\ BackendUnchanged /\ SyncUnchanged /\ WorkersUnchanged
  /\ UNCHANGED <<queue, depth, used>>

SyncLock(t) ==
  /\ task[t] = "syncing" /\ ~InStep /\ lock = Nobody
  /\ lock' = t /\ Goto(t, "locked")
  /\ BackendUnchanged /\ WorkersUnchanged
  /\ UNCHANGED <<goal, chosen, queue, depth, used>>

SyncRecheck(t) ==
  /\ task[t] = "locked"
  /\ IF InStep
     THEN Goto(t, "synced") /\ lock' = Nobody /\ queue' = queue
     ELSE /\ Goto(t, "planTrain") /\ lock' = lock
          /\ Submit("train", Command(t, "plan", 0, 0))
  /\ BackendUnchanged /\ WorkersUnchanged /\ UNCHANGED <<goal, chosen, depth, used>>

SyncPlan(t) ==
  /\ task[t] = "planTrain" /\ Done(t) /\ Goto(t, "planRollout")
  /\ Submit("rollout", Command(t, "plan", 0, 0))
  /\ BackendUnchanged /\ SyncUnchanged /\ WorkersUnchanged /\ UNCHANGED <<depth, used>>

SyncTransfer(t) ==
  /\ task[t] = "planRollout" /\ Done(t) /\ Goto(t, "transfer")
  /\ chosen' = [chosen EXCEPT ![t] = trainVersion]
  /\ queue' = [train |-> Append(queue["train"], Command(t, "publish", trainVersion, 0)),
               rollout |-> Append(queue["rollout"], Command(t, "receive", trainVersion, 0))]
  /\ BackendUnchanged /\ WorkersUnchanged /\ UNCHANGED <<goal, lock, depth, used>>

SyncFinish(t) ==
  /\ task[t] = "transfer" /\ Done(t) /\ Goto(t, "synced")
  /\ rolloutVersion' = chosen[t] /\ lock' = Nobody
  /\ WorkersUnchanged
  /\ UNCHANGED <<goal, chosen, queue, depth, active, trainVersion, used>>

OpenSession(d) ==
  /\ LoopFree /\ task[d] = "synced" /\ goal[d] = "session" /\ Goto(d, "opening")
  /\ Submit(RolloutEngine, Command(d, "begin", 0, 0))
  /\ BackendUnchanged /\ SyncUnchanged /\ WorkersUnchanged /\ UNCHANGED <<depth, used>>

\* Mutant: the session is not counted.
OpenedUncounted(d) ==
  /\ LoopFree /\ task[d] = "opening" /\ Done(d) /\ Goto(d, "open")
  /\ active' = TRUE /\ depth' = depth
  /\ SyncUnchanged /\ WorkersUnchanged
  /\ UNCHANGED <<queue, trainVersion, rolloutVersion, used>>

Opened(d) ==
  /\ LoopFree /\ task[d] = "opening" /\ Done(d) /\ Goto(d, "open")
  /\ active' = TRUE /\ depth' = depth + 1
  /\ SyncUnchanged /\ WorkersUnchanged
  /\ UNCHANGED <<queue, trainVersion, rolloutVersion, used>>

\* A rollout of the driver or of an agent's request, refused outside sessions;
\* size 0 for a rank that gets no rows.
MayRollout(t) ==
  /\ LoopFree /\ depth > 0 /\ used.rollouts < MaxRollouts
  /\ IF t \in Drivers THEN task[t] = "open" ELSE task[t] = "idle"

RolloutCommand(t, size) == Command(t, "rollout", size, mem["train"].weights)

Rollout(t, size) ==
  /\ MayRollout(t) /\ used' = [used EXCEPT !.rollouts = @ + 1]
  /\ IF active
     THEN /\ Goto(t, "rolling") /\ goal' = goal
          /\ Submit(RolloutEngine, RolloutCommand(t, size))
     ELSE /\ Goto(t, "syncing") /\ goal' = [goal EXCEPT ![t] = "rollout"]
          /\ queue' = queue
  /\ BackendUnchanged /\ WorkersUnchanged /\ UNCHANGED <<lock, chosen, depth>>

SyncedRollout(t, size) ==
  /\ LoopFree /\ task[t] = "synced" /\ goal[t] = "rollout" /\ Goto(t, "rolling")
  /\ Submit(RolloutEngine, RolloutCommand(t, size))
  /\ BackendUnchanged /\ SyncUnchanged /\ WorkersUnchanged /\ UNCHANGED <<depth, used>>

RolledOut(t) ==
  /\ LoopFree /\ task[t] = "rolling" /\ Done(t)
  /\ Goto(t, IF t \in Drivers THEN "open" ELSE "idle")
  /\ BackendUnchanged /\ SyncUnchanged /\ WorkersUnchanged
  /\ UNCHANGED <<queue, depth, used>>

\* Mutant: the depth stays until the workers have answered, and then is lost.
CloseSessionLate(d) ==
  /\ LoopFree /\ task[d] = "open" /\ depth' = depth
  /\ Goto(d, "ending") /\ Submit(RolloutEngine, Command(d, "end", 0, 0))
  /\ BackendUnchanged /\ SyncUnchanged /\ WorkersUnchanged /\ UNCHANGED used

\* The depth falls before the workers are told.
CloseSession(d) ==
  /\ LoopFree /\ task[d] = "open" /\ depth' = depth - 1
  /\ IF depth = 1
     THEN /\ Goto(d, "ending")
          /\ Submit(RolloutEngine, Command(d, "end", 0, 0))
     ELSE Goto(d, "closed") /\ queue' = queue
  /\ BackendUnchanged /\ SyncUnchanged /\ WorkersUnchanged /\ UNCHANGED used

Ended(d) ==
  /\ LoopFree /\ task[d] = "ending" /\ Done(d) /\ Goto(d, "closed")
  /\ active' = FALSE
  /\ SyncUnchanged /\ WorkersUnchanged
  /\ UNCHANGED <<queue, depth, trainVersion, rolloutVersion, used>>

\* Scores, role set-up and checkpoints, between the session and the step.
ScoreKinds == {"actor", "role", "save"} \cup IF mode.lora THEN {"base"} ELSE {}

Score(d, kind) ==
  /\ LoopFree /\ used.scores < MaxScores /\ task[d] = "closed"
  /\ used' = [used EXCEPT !.scores = @ + 1]
  /\ Goto(d, "scoring") /\ Submit("train", Command(d, kind, 0, 0))
  /\ BackendUnchanged /\ SyncUnchanged /\ WorkersUnchanged /\ UNCHANGED depth

ScoreReturned(d) ==
  /\ task[d] = "scoring" /\ Done(d) /\ Goto(d, "closed")
  /\ BackendUnchanged /\ SyncUnchanged /\ WorkersUnchanged
  /\ UNCHANGED <<queue, depth, used>>

TrainRefused == mode.separate /\ active

Train(d, n) ==
  /\ LoopFree /\ task[d] = "closed" /\ ~TrainRefused
  /\ mem["train"].weights + n <= MaxSteps
  /\ Goto(d, "training") /\ Submit("train", Command(d, "train", n, 0))
  /\ BackendUnchanged /\ SyncUnchanged /\ WorkersUnchanged /\ UNCHANGED <<depth, used>>

\* LoRA ranks report their adapter version; otherwise the backend counts.
TrainReturned(d) ==
  /\ task[d] = "training" /\ Done(d) /\ Goto(d, "idle")
  /\ trainVersion' = IF ~mode.separate THEN trainVersion
                     ELSE IF mode.lora THEN mem["train"].label ELSE trainVersion + 1
  /\ SyncUnchanged /\ WorkersUnchanged
  /\ UNCHANGED <<queue, depth, active, rolloutVersion, used>>

\* Validation, a warm-up of the critic, an empty batch: no step.
SkipTrain(d) ==
  /\ LoopFree /\ task[d] = "closed" /\ Goto(d, "idle")
  /\ BackendUnchanged /\ SyncUnchanged /\ WorkersUnchanged
  /\ UNCHANGED <<queue, depth, used>>
-----------------------------------------------------------------------------
\* A rank executes its commands in the order they were put.
Served(e, c) ==
  [asked |-> c.asked, used |-> RolloutReady(mem[e], c.arg).infer,
   label |-> mem[e].label, inSession |-> mem[e].session]

Effect(e, c) ==
  CASE c.op = "begin" -> SessionBegun(mem[e])
    [] c.op = "end" -> SessionEnded(mem[e], mode.keep, Trains(e))
    [] c.op = "rollout" -> AfterRollout(mem[e], c.arg, mode.keep)
    [] c.op = "train" -> Trained(mem[e], c.arg)
    [] c.op = "plan" -> Planned(mem[e], Trains(e))
    [] OTHER -> Scored(mem[e], c.op)

Execute(e) ==
  /\ queue[e] # <<>> /\ Head(queue[e]).op \notin {"publish", "receive"}
  /\ LET c == Head(queue[e])
     IN /\ mem' = [mem EXCEPT ![e] = Effect(e, c)]
        /\ outputs' = IF c.op = "rollout" /\ c.arg # 0
                      THEN outputs \cup {Served(e, c)} ELSE outputs
  /\ queue' = [queue EXCEPT ![e] = Tail(@)]
  /\ BackendUnchanged /\ SyncUnchanged /\ UNCHANGED <<mode, task, depth, used>>

\* The transfer is a collective of both engines.
ExecuteTransfer ==
  /\ queue["train"] # <<>> /\ Head(queue["train"]).op = "publish"
  /\ queue["rollout"] # <<>> /\ Head(queue["rollout"]).op = "receive"
  /\ mem' = [train |-> Published(mem["train"]),
             rollout |-> Received(mem["rollout"], mem["train"].weights,
                                  Head(queue["rollout"]).arg)]
  /\ queue' = [e \in Engines |-> Tail(queue[e])]
  /\ BackendUnchanged /\ SyncUnchanged /\ UNCHANGED <<mode, task, depth, outputs, used>>

\* Everything is done: the only state the system may stop in.
Finished ==
  /\ \A t \in Tasks : task[t] = "idle" /\ \A e \in Engines : queue[e] = <<>>
  /\ UNCHANGED vars

DriverStep(d) ==
  \/ BeginSession(d) \/ OpenSession(d) \/ Opened(d) \/ CloseSession(d) \/ Ended(d)
  \/ \E kind \in ScoreKinds : Score(d, kind)
  \/ ScoreReturned(d) \/ TrainReturned(d) \/ SkipTrain(d)
  \/ \E n \in {1, 2} : Train(d, n)

TaskStep(t) ==
  \/ SyncSkip(t) \/ SyncLock(t) \/ SyncRecheck(t) \/ SyncPlan(t)
  \/ SyncTransfer(t) \/ SyncFinish(t) \/ RolledOut(t)
  \/ \E size \in CacheSizes \cup {0} : Rollout(t, size) \/ SyncedRollout(t, size)

Next ==
  \/ \E d \in Drivers : DriverStep(d)
  \/ \E t \in Tasks : TaskStep(t)
  \/ \E e \in Engines : Execute(e)
  \/ ExecuteTransfer
  \/ Finished

Spec == Init /\ [][Next]_vars
-----------------------------------------------------------------------------
TypeOK ==
  /\ mem \in [Engines -> Memory]
  /\ mode \in Modes /\ lock \in Tasks \cup {Nobody} /\ depth \in Nat /\ active \in BOOLEAN
  /\ trainVersion \in Nat /\ rolloutVersion \in Nat

\* One task drives the trainer, as every trainer of the repository does.
Alone == Cardinality(mode.drivers) = 1

\* Every rollout is generated by the policy as it was when it was asked for,
\* the latest one, and labelled with it.
OnPolicy ==
  Alone => \A o \in outputs :
             o.used = Policy(o.asked) /\ (mode.lora => o.label = o.asked)

\* No rollout reaches a rank before its session begins or after it ends.
RunsInSession == Alone => \A o \in outputs : o.inSession

\* A captured graph never outlives the cache and the weights it reads, and the
\* cache a rollout is about to reuse is there.  (With two drivers one may evict
\* the actor while the other's session goes on.)
GraphsCurrent ==
  \A e \in Engines :
    mem[e].spec = mem[e].cache /\ (Alone => mem[e].graphs # "dangling")

\* Training starts at once only when the actor and its tiles are on the device.
TrainReadyHonest ==
  \A e \in Engines : mem[e].trainReady => mem[e].onDevice /\ mem[e].tiles
=============================================================================
