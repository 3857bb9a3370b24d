----------------------------- MODULE WorkerLoop -----------------------------
(***************************************************************************)
(* The per-rank event loop of a worker process (_worker_entry in           *)
(* engine/protocol.py) and its continuous batching of rollout commands     *)
(* (ArenoWorker.run_continuous_rollout_payload in engine/worker.py).       *)
(*                                                                         *)
(* The coordinator puts every command, in one order, on the queue of every *)
(* rank: the queues are one log, and taken[r] is how far r has read its    *)
(* own.  The log is fixed at the start; a command that is submitted late   *)
(* is one that a rank finds its queue empty of, which it may.              *)
(*                                                                         *)
(* While a rank decodes a rollout its leader (TP rank 0) polls the queue   *)
(* before each model step and tells its siblings what it took; a           *)
(* compatible rollout joins the running batch, anything else is deferred.  *)
(* A replica is TPSize ranks that share every forward; a train command is  *)
(* a collective of all ranks.                                              *)
(*                                                                         *)
(* Rows are not scheduled here (see RolloutScheduler): every open row is   *)
(* in the forward, and a row is named by its request and its index.  Of an *)
(* answer only the request, success and adapter version are kept.          *)
(***************************************************************************)
EXTENDS Naturals, Sequences, FiniteSets, SequencesExt

CONSTANTS
  Groups,       \* DP replicas
  TPSize,       \* ranks of a replica
  Menu,         \* commands the coordinator may submit
  MaxCommands,  \* commands submitted
  MaxFailures   \* bound on ranks that raise

\* A command: its op, whether its rollout payload has cancel flags, the
\* payload's max_cache_len, and the number of prompts each replica gets.
ASSUME WorkerAssumption ==
  /\ Groups # {} /\ IsFiniteSet(Groups)
  /\ TPSize \in Nat \ {0} /\ MaxCommands \in Nat /\ MaxFailures \in Nat
  /\ Menu \subseteq [op : {"rollout", "train"}, cancel : BOOLEAN,
                     size : Nat, rows : [Groups -> Nat]]

Ranks == Groups \X (0 .. TPSize - 1)
GroupOf(r) == r[1]
IsLeader(r) == r[2] = 0
Team(g) == {r \in Ranks : GroupOf(r) = g}

VARIABLES
  log,       \* submitted commands; a request id is an index
  flagged,   \* cancel_flags: <<group, row>> the coordinator cancelled
  taken,     \* commands read from the rank's own queue
  deferred,  \* _deferred_commands
  place,     \* where the rank is
  batch,     \* the running rollout batch
  headers,   \* command headers a sibling has not received; 0 is "none"
  outcome,   \* rows the last forward ended
  version,   \* adapter_registry.version
  started,   \* commands the main loop began, in order
  results,   \* what the rank put on the result queue
  failures

queueVars == <<log, flagged, taken, deferred, headers>>
vars == <<queueVars, place, batch, outcome, version, started, results,
          failures>>

RowsOf(c, g) == {c} \X (1 .. log[c].rows[g])

\* reqs: request_ids; open: rows still generating; finished: the keys of
\* finish_reasons; sent: answered requests.
NoBatch == [reqs |-> <<>>, open |-> {}, finished |-> {}, sent |-> {}]
BatchOf(r, c) == [NoBatch EXCEPT !.reqs = <<c>>, !.open = RowsOf(c, GroupOf(r))]
Unsent(b) == ToSet(b.reqs) \ b.sent

-----------------------------------------------------------------------------
Answer(r, c) == [req |-> c, ok |-> TRUE, version |-> version[r]]
Failure(c) == [req |-> c, ok |-> FALSE, version |-> 0]

\* Mutants of Ready: sent is not consulted; one finished row is enough.
ReadyAgain(b, g) == {c \in ToSet(b.reqs) : RowsOf(c, g) \subseteq b.finished}
ReadyAny(b, g) ==
  {c \in Unsent(b) : RowsOf(c, g) = {} \/ RowsOf(c, g) \cap b.finished # {}}

Ready(b, g) == {c \in Unsent(b) : RowsOf(c, g) \subseteq b.finished}

\* send_empty_requests and send_finished: every request all of whose rows are
\* finished is answered at once.
SendReady(b, g) ==
  [b |-> [b EXCEPT !.sent = @ \cup Ready(b, g)], done |-> Ready(b, g)]

\* finished_callback.
Callback(r, rows) ==
  IF rows = {} THEN [b |-> batch[r], done |-> {}]
  ELSE SendReady([batch[r] EXCEPT !.finished = @ \cup rows], GroupOf(r))

\* The results of one call are put in some order: nothing depends on it.
Put(r, new) == results' = [results EXCEPT ![r] = @ \o SetToSeq(new)]
PutAnswers(r, reqs) == Put(r, {Answer(r, c) : c \in reqs})

Compatible(first, other) ==
  ~first.cancel /\ ~other.cancel /\ first.size >= other.size

-----------------------------------------------------------------------------
Init ==
  /\ log \in [1 .. MaxCommands -> Menu] /\ flagged = {} /\ failures = 0
  /\ taken = [r \in Ranks |-> 0]
  /\ deferred = [r \in Ranks |-> <<>>]
  /\ place = [r \in Ranks |-> "idle"]
  /\ batch = [r \in Ranks |-> NoBatch]
  /\ headers = [r \in Ranks |-> <<>>]
  /\ outcome = [r \in Ranks |-> {}]
  /\ version = [r \in Ranks |-> 0]
  /\ started = [r \in Ranks |-> <<>>]
  /\ results = [r \in Ranks |-> <<>>]

\* The coordinator cancels a row of a rollout that carries cancel flags.  Only
\* the batch the row is decoded in reads its flag, from its first sweep on: a
\* flag raised before the batch starts is the same as one raised right after,
\* and one raised when the row has left is never read.
CancelRow ==
  /\ \E c \in DOMAIN log, g \in Groups :
       \E x \in RowsOf(c, g) :
         /\ log[c].cancel /\ <<g, x>> \notin flagged
         /\ \E r \in Team(g) : x \in batch[r].open
         /\ flagged' = flagged \cup {<<g, x>>}
  /\ UNCHANGED <<log, taken, deferred, headers, place, batch, outcome,
                 version, started, results, failures>>

-----------------------------------------------------------------------------
\* The main loop takes the oldest deferred command, else the queue's next.
Available(r) == deferred[r] # <<>> \/ taken[r] < Len(log)
NextCommand(r) == IF deferred[r] # <<>> THEN Head(deferred[r]) ELSE taken[r] + 1
TakeNext(r) ==
  IF deferred[r] # <<>>
  THEN deferred' = [deferred EXCEPT ![r] = Tail(@)] /\ UNCHANGED taken
  ELSE taken' = [taken EXCEPT ![r] = @ + 1] /\ UNCHANGED deferred

\* A rollout without a prompt for this replica is answered at once.
Start(r) ==
  /\ place[r] = "idle" /\ Available(r)
  /\ TakeNext(r)
  /\ LET c == NextCommand(r)
         b == BatchOf(r, c)
     IN /\ started' = [started EXCEPT ![r] = Append(@, c)]
        /\ \/ /\ log[c].op = "train"
              /\ place' = [place EXCEPT ![r] = "train"]
              /\ UNCHANGED <<batch, results>>
           \/ /\ log[c].op = "rollout" /\ b.open = {}
              /\ PutAnswers(r, SendReady(b, GroupOf(r)).done)
              /\ UNCHANGED <<place, batch>>
           \/ /\ log[c].op = "rollout" /\ b.open # {}
              /\ place' = [place EXCEPT ![r] = "refill"]
              /\ batch' = [batch EXCEPT ![r] = b]
              /\ UNCHANGED results
  /\ UNCHANGED <<log, flagged, headers, outcome, version, failures>>

\* TRAIN: gradients are reduced over every rank; the adapter version advances.
Train ==
  /\ \A r \in Ranks : place[r] = "train"
  /\ version' = [r \in Ranks |-> version[r] + 1]
  /\ results' = [r \in Ranks |-> Append(results[r],
                   [Failure(Last(started[r])) EXCEPT !.ok = TRUE, !.version = version'[r]])]
  /\ place' = [r \in Ranks |-> "idle"]
  /\ UNCHANGED <<queueVars, batch, outcome, started, failures>>

\* Mutants of Refill: the command that cannot join is dropped; it is put at the
\* front of the deferred list.
RefillDrops(r, c, before) ==
  /\ deferred' = [deferred EXCEPT ![r] = before]
  /\ place' = [place EXCEPT ![r] = "sweep"]
  /\ UNCHANGED <<batch, results>>
RefillPutsFirst(r, c, before) ==
  /\ deferred' = [deferred EXCEPT ![r] = <<c>> \o before]
  /\ place' = [place EXCEPT ![r] = "sweep"]
  /\ UNCHANGED <<batch, results>>

\* refill_waiting with command c in hand: a compatible rollout joins the batch
\* and the poll goes on; anything else is deferred and the batch goes on.
\* before is the rank's deferred list after the reads that led to c.
Refill(r, c, before) ==
  IF log[c].op = "rollout" /\ Compatible(log[batch[r].reqs[1]], log[c])
  THEN LET b == [batch[r] EXCEPT !.reqs = Append(@, c),
                                 !.open = @ \cup RowsOf(c, GroupOf(r))]
           s == SendReady(b, GroupOf(r))
       IN /\ batch' = [batch EXCEPT ![r] = s.b]
          /\ PutAnswers(r, s.done)
          /\ deferred' = [deferred EXCEPT ![r] = before]
          /\ UNCHANGED place
  ELSE /\ deferred' = [deferred EXCEPT ![r] = Append(before, c)]
       /\ place' = [place EXCEPT ![r] = "sweep"]
       /\ UNCHANGED <<batch, results>>

Broadcast(r, h) ==
  headers' = [q \in Ranks |-> IF q \in Team(GroupOf(r)) \ {r}
                              THEN Append(headers[q], h) ELSE headers[q]]

\* The leader polls its queue.  It may find it empty though a command was
\* submitted: the queue's feeder may not have delivered it yet.
LeaderRefill(r) ==
  /\ place[r] = "refill" /\ IsLeader(r)
  /\ \/ /\ Broadcast(r, 0)
        /\ place' = [place EXCEPT ![r] = "sweep"]
        /\ UNCHANGED <<taken, deferred, batch, results>>
     \/ /\ taken[r] < Len(log)
        /\ taken' = [taken EXCEPT ![r] = @ + 1]
        /\ Broadcast(r, taken[r] + 1)
        /\ Refill(r, taken[r] + 1, deferred[r])
  /\ UNCHANGED <<log, flagged, outcome, version, started, failures>>

\* Mutant of SiblingRefill: the sibling polls its own queue, as the leader does.
SiblingPolls(r) ==
  /\ place[r] = "refill" /\ ~IsLeader(r) /\ headers[r] # <<>>
  /\ headers' = [headers EXCEPT ![r] = Tail(@)]
  /\ \/ /\ place' = [place EXCEPT ![r] = "sweep"]
        /\ UNCHANGED <<taken, deferred, batch, results>>
     \/ /\ taken[r] < Len(log)
        /\ taken' = [taken EXCEPT ![r] = @ + 1]
        /\ Refill(r, taken[r] + 1, deferred[r])
  /\ UNCHANGED <<log, flagged, outcome, version, started, failures>>

\* A sibling follows the header; what it reads before the named command is
\* deferred.
SiblingRefill(r) ==
  /\ place[r] = "refill" /\ ~IsLeader(r) /\ headers[r] # <<>>
  /\ headers' = [headers EXCEPT ![r] = Tail(@)]
  /\ LET c == Head(headers[r])
     IN \/ /\ c = 0
           /\ place' = [place EXCEPT ![r] = "sweep"]
           /\ UNCHANGED <<taken, deferred, batch, results>>
        \/ /\ c > taken[r]
           /\ taken' = [taken EXCEPT ![r] = c]
           /\ Refill(r, c, deferred[r] \o [i \in 1 .. c - taken[r] - 1 |-> taken[r] + i])
  /\ UNCHANGED <<log, flagged, outcome, version, started, failures>>

-----------------------------------------------------------------------------
Cancelled(r) == {x \in batch[r].open : <<GroupOf(r), x>> \in flagged}

\* Mutant of Sweep: the empty batch is tested for "nothing to step" before it
\* is tested for "nothing left".
SweepSpins(r) ==
  /\ place[r] = "sweep"
  /\ LET hit == Cancelled(r)
         s == Callback(r, hit)
     IN /\ batch' = [batch EXCEPT ![r] = [s.b EXCEPT !.open = @ \ hit]]
        /\ PutAnswers(r, s.done)
        /\ place' = [place EXCEPT ![r] = IF batch[r].open \subseteq hit
                                         THEN "refill" ELSE "step"]
  /\ UNCHANGED <<queueVars, outcome, version, started, failures>>

\* Cancelled rows leave before the model step; an empty batch leaves the loop.
Sweep(r) ==
  /\ place[r] = "sweep"
  /\ LET hit == Cancelled(r)
         s == Callback(r, hit)
     IN /\ batch' = [batch EXCEPT ![r] = [s.b EXCEPT !.open = @ \ hit]]
        /\ PutAnswers(r, s.done)
        /\ place' = [place EXCEPT ![r] = IF batch[r].open \subseteq hit
                                         THEN "drained" ELSE "step"]
  /\ UNCHANGED <<queueVars, outcome, version, started, failures>>

\* One model forward of a replica: a collective, so its ranks must bring the
\* same rows.  Some rows sample a stop token or reach max_new_tokens.
Forward(g) ==
  /\ \A r \in Team(g) : place[r] = "step"
  /\ \A r, q \in Team(g) : batch[r].open = batch[q].open
  /\ \E ended \in SUBSET UNION {batch[r].open : r \in Team(g)} :
       outcome' = [r \in Ranks |-> IF r \in Team(g) THEN ended ELSE outcome[r]]
  /\ place' = [r \in Ranks |-> IF r \in Team(g) THEN "post" ELSE place[r]]
  /\ UNCHANGED <<queueVars, batch, version, started, results, failures>>

\* Mutant of Post: ended rows are reported but stay.
PostKeepsRows(r) ==
  /\ place[r] = "post"
  /\ LET s == Callback(r, outcome[r])
     IN /\ batch' = [batch EXCEPT ![r] = [s.b EXCEPT !.open = @ \ Cancelled(r)]]
        /\ PutAnswers(r, s.done)
  /\ outcome' = [outcome EXCEPT ![r] = {}]
  /\ place' = [place EXCEPT ![r] = "refill"]
  /\ UNCHANGED <<queueVars, version, started, failures>>

\* The ended rows are reported (those that stopped and those at the cap by a
\* call each, which answers the same requests) and leave; rows cancelled
\* meanwhile leave without a report.
Post(r) ==
  /\ place[r] = "post"
  /\ LET s == Callback(r, outcome[r])
     IN /\ batch' = [batch EXCEPT ![r] =
                       [s.b EXCEPT !.open = @ \ (outcome[r] \cup Cancelled(r))]]
        /\ PutAnswers(r, s.done)
  /\ outcome' = [outcome EXCEPT ![r] = {}]
  /\ place' = [place EXCEPT ![r] = "refill"]
  /\ UNCHANGED <<queueVars, version, started, failures>>

\* The loop is over: requests not answered on the way are answered from the
\* final output.
Finish(r) ==
  /\ place[r] = "drained"
  /\ PutAnswers(r, Unsent(batch[r]))
  /\ batch' = [batch EXCEPT ![r] = NoBatch]
  /\ place' = [place EXCEPT ![r] = "idle"]
  /\ UNCHANGED <<queueVars, outcome, version, started, failures>>

\* Mutant of Fail: only the command the main loop runs is reported.
FailOnlyCommand(r) ==
  /\ failures < MaxFailures
  /\ place[r] \notin {"idle", "dead"}
  /\ Put(r, {Failure(Last(started[r]))})
  /\ place' = [place EXCEPT ![r] = "dead"]
  /\ failures' = failures + 1
  /\ UNCHANGED <<queueVars, batch, outcome, version, started>>

\* A command raises.  The rank reports the failure for every request of its
\* batch that is still unanswered, or for its command, and exits.
Fail(r) ==
  /\ failures < MaxFailures
  /\ place[r] \notin {"idle", "dead"}
  /\ LET hurt == IF Unsent(batch[r]) = {} THEN {Last(started[r])}
                 ELSE Unsent(batch[r])
     IN Put(r, {Failure(c) : c \in hurt})
  /\ place' = [place EXCEPT ![r] = "dead"]
  /\ failures' = failures + 1
  /\ UNCHANGED <<queueVars, batch, outcome, version, started>>

\* Every rank waits for a command, or a failure has stopped the cluster.
Quiet ==
  /\ \/ failures > 0
     \/ \A r \in Ranks : place[r] = "idle" /\ ~Available(r)
  /\ UNCHANGED vars

Next ==
  \/ CancelRow \/ Train \/ Quiet
  \/ \E g \in Groups : Forward(g)
  \/ \E r \in Ranks : \/ Start(r) \/ LeaderRefill(r) \/ SiblingRefill(r)
                      \/ Sweep(r) \/ Post(r) \/ Finish(r) \/ Fail(r)

\* Ranks run, and a row decodes at most max_new_tokens tokens: a replica that
\* keeps stepping keeps ending rows.
RankStep(r) == Start(r) \/ LeaderRefill(r) \/ SiblingRefill(r)
               \/ Sweep(r) \/ Post(r) \/ Finish(r)
EndsRow(g) == Forward(g) /\ \E r \in Team(g) : outcome'[r] # {}
Spec ==
  /\ Init /\ [][Next]_vars
  /\ WF_vars(Train)
  /\ \A r \in Ranks : WF_vars(RankStep(r))
  /\ \A g \in Groups : SF_vars(EndsRow(g))

-----------------------------------------------------------------------------
TypeOK ==
  /\ log \in [1 .. MaxCommands -> Menu]
  /\ \A e \in flagged : e[1] \in Groups /\ e[2] \in RowsOf(e[2][1], e[1])
  /\ taken \in [Ranks -> 0 .. Len(log)]
  /\ \A r \in Ranks :
       /\ deferred[r] \in Seq(DOMAIN log) /\ started[r] \in Seq(DOMAIN log)
       /\ headers[r] \in Seq(0 .. Len(log))
       /\ batch[r].reqs \in Seq(DOMAIN log)
       /\ batch[r].open \subseteq UNION {RowsOf(c, GroupOf(r)) : c \in DOMAIN log}
       /\ batch[r].finished \cap batch[r].open = {}
       /\ outcome[r] \subseteq batch[r].open
  /\ place \in [Ranks -> {"idle", "refill", "sweep", "step", "post", "drained", "train", "dead"}]
  /\ version \in [Ranks -> Nat] /\ failures \in 0 .. MaxFailures

OKs(r) == {i \in DOMAIN results[r] : results[r][i].ok}
Reports(r) == {results[r][i].req : i \in DOMAIN results[r]}
Live(r) == place[r] # "dead"

\* A rank answers a request successfully at most once, though three places of
\* the code send answers (send_empty_requests, send_finished and the main loop
\* after run_rollout_command).
OneAnswer ==
  \A r \in Ranks : \A i, j \in OKs(r) :
    results[r][i].req = results[r][j].req => i = j

\* Every command a rank has read is in exactly one place: answered, pending in
\* the batch, deferred, or the train it is in.  None is dropped or run twice
\* by the polls, joins and deferrals.
Accounted ==
  \A r \in Ranks : Live(r) =>
    \A c \in 1 .. taken[r] :
      LET homes == <<c \in Reports(r), c \in Unsent(batch[r]),
                     c \in ToSet(deferred[r]),
                     place[r] = "train" /\ c = Last(started[r])>>
      IN Cardinality({i \in 1 .. 4 : homes[i]}) = 1

\* The main loop starts commands in submission order, whatever it deferred
\* and whatever joined running batches meanwhile.
StartedInOrder ==
  \A r \in Ranks : \A i, j \in DOMAIN started[r] :
    i < j => started[r][i] < started[r][j]

\* Ranks that meet in a collective bring the same work: the ranks of a replica
\* the same batch to a forward, all ranks the same command to a train.
CollectivesMatch ==
  \A r, q \in Ranks :
    /\ GroupOf(r) = GroupOf(q) /\ place[r] = "step" /\ place[q] = "step" =>
         /\ batch[r].reqs = batch[q].reqs /\ batch[r].open = batch[q].open
         /\ taken[r] = taken[q] /\ deferred[r] = deferred[q]
    /\ place[r] = "train" /\ place[q] = "train" => Last(started[r]) = Last(started[q])

\* An answered request of the running batch has no row still generating.
AnsweredRowsDone ==
  \A r \in Ranks : \A i \in OKs(r) :
    RowsOf(results[r][i].req, GroupOf(r)) \cap batch[r].open = {}

\* A rank that raised has reported, for every request it was working on, an
\* answer or the failure.
FailureReported ==
  \A r \in Ranks : place[r] = "dead" =>
    ToSet(batch[r].reqs) \cup {Last(started[r])} \subseteq Reports(r)

\* Unless a rank raises, every rank answers every command it is sent: no poll,
\* deferral or collective leaves a request or another rank waiting forever.
Answered(r, c) == \E i \in OKs(r) : results[r][i].req = c
AllAnswered ==
  <>(failures > 0 \/ \A c \in 1 .. MaxCommands, r \in Ranks : Answered(r, c))

\* What engine/api.py asserts when it merges a rollout: the replicas that
\* answered it report one adapter version.
OneVersion ==
  \A r, q \in Ranks : \A i \in OKs(r), j \in OKs(q) :
    /\ IsLeader(r) /\ IsLeader(q)
    /\ results[r][i].req = results[q][j].req
    => results[r][i].version = results[q][j].version
=============================================================================
