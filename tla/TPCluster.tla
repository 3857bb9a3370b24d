------------------------------ MODULE TPCluster ------------------------------
(***************************************************************************)
(* The coordinator side of a worker cluster (TPCluster in                  *)
(* engine/protocol.py): caller threads and tasks register a call and put   *)
(* its command on every rank's queue; one pump thread reads the shared     *)
(* result queue, demultiplexes results by request id, and looks for dead   *)
(* workers whenever the queue stays empty.                                 *)
(*                                                                         *)
(* A worker is abstracted to what the coordinator sees: it answers the     *)
(* commands it was sent, in any order (WorkerLoop shows why), may raise on *)
(* one, report it and exit, or may be killed.  A result goes through the   *)
(* feeder buffer of the worker's queue before the pump can read it; a      *)
(* worker that exits flushes the buffer first, a killed one does not.      *)
(***************************************************************************)
EXTENDS Naturals, Sequences, FiniteSets, SequencesExt

CONSTANTS
  WorldSize,   \* number of ranks
  Calls,       \* calls the coordinator makes; a call is its request id
  NoCall,
  Awaited,     \* result_ranks of each call; every rank by default
  Async,       \* calls made with call_async
  Impatient,   \* calls whose caller may time out or be cancelled
  LoopsClose,  \* a caller's event loop may close after its call
  Closable,    \* close() may be called
  MaxKills     \* bound on workers killed

Ranks == 0 .. WorldSize - 1

ASSUME ClusterAssumption ==
  /\ WorldSize \in Nat \ {0} /\ IsFiniteSet(Calls) /\ NoCall \notin Calls
  /\ Awaited \in [Calls -> (SUBSET Ranks) \ {{}}]
  /\ Async \subseteq Calls /\ Impatient \subseteq Calls
  /\ LoopsClose \in BOOLEAN /\ Closable \in BOOLEAN /\ MaxKills \in Nat

VARIABLES
  caller,    \* where the caller of a call is
  table,     \* _pending_calls
  waiting,   \* _PendingClusterCall.pending
  outcome,   \* what _finish_pending_call recorded: error, or results
  lock,      \* the call whose caller holds _send_lock
  sent,      \* commands ever put on a rank's queue
  handled,   \* commands the worker has taken from it and answered
  outbox,    \* results in the worker's feeder buffer
  resultQ,   \* result_queue
  worker,    \* the worker process
  pump,      \* where the pump thread is
  hand,      \* the result the pump is applying
  snap,      \* calls of the table the pump has yet to check for dead workers
  loops,     \* calls whose event loop is closed
  closing,   \* progress of close()
  kills

callVars == <<caller, table, waiting, outcome, loops>>
sendVars == <<lock, sent>>
workVars == <<handled, outbox, worker, kills>>
pumpVars == <<pump, hand, snap>>
vars == <<callVars, sendVars, workVars, resultQ, pumpVars, closing>>

Result(r, c, ok) == [rank |-> r, req |-> c, ok |-> ok]
NoResult == Result(0, NoCall, TRUE)
\* exitcode is not None: 0 after an exception was reported, else a signal.
Gone(r) == worker[r] \in {"exited", "killed"}
Done == {"returned", "raised", "gaveUp"}

Init ==
  /\ caller = [c \in Calls |-> "new"]
  /\ table = {}
  /\ waiting = [c \in Calls |-> {}]
  /\ outcome = [c \in Calls |-> "none"]
  /\ loops = {}
  /\ lock = NoCall
  /\ sent = [r \in Ranks |-> <<>>]
  /\ handled = [r \in Ranks |-> {}]
  /\ outbox = [r \in Ranks |-> <<>>]
  /\ worker = [r \in Ranks |-> "up"]
  /\ kills = 0
  /\ resultQ = <<>>
  /\ pump = "top" /\ hand = NoResult /\ snap = {}
  /\ closing = "no"

-----------------------------------------------------------------------------
\* _submit_call.  The call is in the table before any rank can answer it.
Register(c) ==
  /\ caller[c] = "new" /\ closing # "closed"
  /\ table' = table \cup {c}
  /\ waiting' = [waiting EXCEPT ![c] = Awaited[c]]
  /\ caller' = [caller EXCEPT ![c] = "registered"]
  /\ UNCHANGED <<outcome, loops, sendVars, workVars, resultQ, pumpVars, closing>>

\* A closed cluster tries to start again, which raises: its world is already set.
SubmitClosed(c) ==
  /\ caller[c] = "new" /\ closing = "closed"
  /\ caller' = [caller EXCEPT ![c] = "raised"]
  /\ UNCHANGED <<table, waiting, outcome, loops, sendVars, workVars, resultQ,
                 pumpVars, closing>>

\* Mutant of AcquireSend: a caller does not wait for the lock.
AcquireFreely(c) ==
  /\ caller[c] = "registered"
  /\ lock' = c
  /\ caller' = [caller EXCEPT ![c] = "sending"]
  /\ UNCHANGED <<table, waiting, outcome, loops, sent, workVars, resultQ,
                 pumpVars, closing>>

AcquireSend(c) ==
  /\ caller[c] = "registered" /\ lock = NoCall
  /\ lock' = c
  /\ caller' = [caller EXCEPT ![c] = "sending"]
  /\ UNCHANGED <<table, waiting, outcome, loops, sent, workVars, resultQ,
                 pumpVars, closing>>

\* Mutant of SendNext: every put goes to the first queue.
SendToFirst(c) ==
  /\ caller[c] = "sending"
  /\ sent' = [sent EXCEPT ![0] = Append(@, c)]
  /\ IF c \in ToSet(sent[0])
     THEN lock' = NoCall /\ caller' = [caller EXCEPT ![c] = "waiting"]
     ELSE UNCHANGED <<lock, caller>>
  /\ UNCHANGED <<table, waiting, outcome, loops, workVars, resultQ, pumpVars,
                 closing>>

\* Puts the command on the next queue; after the last one the lock is released
\* and the caller waits.
SendNext(c) ==
  /\ caller[c] = "sending" /\ closing # "closed"
  /\ \E r \in Ranks :
       /\ \A q \in Ranks : c \in ToSet(sent[q]) <=> q < r
       /\ sent' = [sent EXCEPT ![r] = Append(@, c)]
       /\ IF r = WorldSize - 1
          THEN /\ lock' = NoCall
               /\ caller' = [caller EXCEPT ![c] = "waiting"]
          ELSE UNCHANGED <<lock, caller>>
  /\ UNCHANGED <<table, waiting, outcome, loops, workVars, resultQ, pumpVars,
                 closing>>

\* close() has closed the queues meanwhile: put raises, the lock is released,
\* and the call stays in the table.
SendClosed(c) ==
  /\ caller[c] = "sending" /\ closing = "closed"
  /\ lock' = NoCall
  /\ caller' = [caller EXCEPT ![c] = "raised"]
  /\ UNCHANGED <<table, waiting, outcome, loops, sent, workVars, resultQ,
                 pumpVars, closing>>

\* The event or the future is set: the caller returns the results or raises.
Wake(c) ==
  /\ caller[c] = "waiting" /\ outcome[c] # "none"
  /\ caller' = [caller EXCEPT ![c] = outcome[c]]
  /\ UNCHANGED <<table, waiting, outcome, loops, sendVars, workVars, resultQ,
                 pumpVars, closing>>

\* Mutant of GiveUp: the call stays in the table.
GiveUpLeaks(c) ==
  /\ caller[c] = "waiting" /\ c \in Impatient
  /\ caller' = [caller EXCEPT ![c] = "gaveUp"]
  /\ UNCHANGED <<table, waiting, outcome, loops, sendVars, workVars, resultQ,
                 pumpVars, closing>>

\* The caller times out, or its task is cancelled: it takes its call out of the
\* table.
GiveUp(c) ==
  /\ caller[c] = "waiting" /\ c \in Impatient
  /\ table' = table \ {c}
  /\ caller' = [caller EXCEPT ![c] = "gaveUp"]
  /\ UNCHANGED <<waiting, outcome, loops, sendVars, workVars, resultQ, pumpVars,
                 closing>>

\* asyncio.run ends and closes the loop the call was made on.
CloseLoop(c) ==
  /\ LoopsClose /\ c \in Async \ loops /\ caller[c] \in Done
  /\ loops' = loops \cup {c}
  /\ UNCHANGED <<caller, table, waiting, outcome, sendVars, workVars, resultQ,
                 pumpVars, closing>>

-----------------------------------------------------------------------------
\* A worker reports on a command it was sent; after an error it only reports
\* further errors, for the other requests of its batch, until it exits.
Handle(r, c) ==
  /\ worker[r] \in {"up", "exiting"} /\ c \in ToSet(sent[r]) \ handled[r]
  /\ handled' = [handled EXCEPT ![r] = @ \cup {c}]
  /\ \E ok \in {worker[r] = "up", FALSE} :
       /\ outbox' = [outbox EXCEPT ![r] = Append(@, Result(r, c, ok))]
       /\ worker' = [worker EXCEPT ![r] = IF ok THEN @ ELSE "exiting"]
  /\ UNCHANGED <<callVars, sendVars, resultQ, pumpVars, closing, kills>>

Flush(r) ==
  /\ ~Gone(r) /\ outbox[r] # <<>>
  /\ resultQ' = Append(resultQ, Head(outbox[r]))
  /\ outbox' = [outbox EXCEPT ![r] = Tail(@)]
  /\ UNCHANGED <<callVars, sendVars, handled, worker, kills, pumpVars, closing>>

Exit(r) ==
  /\ worker[r] = "exiting" /\ outbox[r] = <<>>
  /\ worker' = [worker EXCEPT ![r] = "exited"]
  /\ UNCHANGED <<callVars, sendVars, handled, outbox, kills, resultQ, pumpVars,
                 closing>>

Kill(r) ==
  /\ kills < MaxKills /\ ~Gone(r)
  /\ worker' = [worker EXCEPT ![r] = "killed"]
  /\ outbox' = [outbox EXCEPT ![r] = <<>>]
  /\ kills' = kills + 1
  /\ UNCHANGED <<callVars, sendVars, handled, resultQ, pumpVars, closing>>

-----------------------------------------------------------------------------
\* _finish_pending_call for a set of calls.
Finish(done, why) ==
  /\ table' = table \ done
  /\ outcome' = [c \in Calls |-> IF c \in done THEN why ELSE outcome[c]]

\* Resolving a future on a closed loop raises out of the pump thread.
AfterFinish(done) == IF done \cap Async \cap loops # {} THEN "crashed" ELSE "top"

\* The loop runs until close() stops it.
PumpTop ==
  /\ pump = "top"
  /\ pump' = IF closing = "no" THEN "get" ELSE "stopped"
  /\ UNCHANGED <<callVars, sendVars, workVars, resultQ, hand, snap, closing>>

\* The pump takes a result; one for a call that is not in the table is dropped.
PumpTake ==
  /\ pump = "get" /\ resultQ # <<>>
  /\ resultQ' = Tail(resultQ)
  /\ IF Head(resultQ).req \in table
     THEN pump' = "apply" /\ hand' = Head(resultQ)
     ELSE pump' = "top" /\ UNCHANGED hand
  /\ UNCHANGED <<callVars, sendVars, workVars, snap, closing>>

\* Mutant of PumpApply: the first rank's success completes the call.
ApplyFirst ==
  /\ pump = "apply"
  /\ Finish({hand.req}, IF hand.ok THEN "returned" ELSE "raised")
  /\ pump' = AfterFinish({hand.req})
  /\ hand' = NoResult
  /\ UNCHANGED <<caller, waiting, loops, sendVars, workVars, resultQ, snap,
                 closing>>

\* _apply_result.
PumpApply ==
  /\ pump = "apply"
  /\ LET c == hand.req
         left == waiting[c] \ {hand.rank}
     IN IF ~hand.ok
        THEN /\ Finish({c}, "raised") /\ pump' = AfterFinish({c})
             /\ UNCHANGED waiting
        ELSE /\ waiting' = [waiting EXCEPT ![c] = left]
             /\ IF left = {}
                THEN Finish({c}, "returned") /\ pump' = AfterFinish({c})
                ELSE pump' = "top" /\ UNCHANGED <<table, outcome>>
  /\ hand' = NoResult
  /\ UNCHANGED <<caller, loops, sendVars, workVars, resultQ, snap, closing>>

\* The queue stayed empty for the poll interval: the calls of the table are
\* listed, and checked one after the other.
PumpEmpty ==
  /\ pump = "get" /\ resultQ = <<>>
  /\ pump' = "scan" /\ snap' = table
  /\ UNCHANGED <<callVars, sendVars, workVars, resultQ, hand, closing>>

\* Mutant of Orphan: exitcode is tested for truth instead of for None.
OrphanKilled(c) == \E r \in waiting[c] : worker[r] = "killed"

\* _dead_pending_workers: a rank the call still waits for is gone.
Orphan(c) == \E r \in waiting[c] : Gone(r)

\* _fail_dead_pending_calls, one call of the list (in any order).
PumpScan ==
  /\ pump = "scan"
  /\ \E c \in snap :
       /\ snap' = snap \ {c}
       /\ IF Orphan(c)
          THEN /\ Finish({c}, "raised")
               /\ pump' = IF AfterFinish({c}) = "crashed" THEN "crashed" ELSE pump
          ELSE UNCHANGED <<table, outcome, pump>>
  /\ UNCHANGED <<caller, waiting, loops, sendVars, workVars, resultQ, hand,
                 closing>>

PumpScanned ==
  /\ pump = "scan" /\ snap = {}
  /\ pump' = "top"
  /\ UNCHANGED <<callVars, sendVars, workVars, resultQ, hand, snap, closing>>

-----------------------------------------------------------------------------
\* close(): the pump is told to stop and joined, then the workers are shut down.
BeginClose ==
  /\ Closable /\ closing = "no"
  /\ closing' = "stopping"
  /\ UNCHANGED <<callVars, sendVars, workVars, resultQ, pumpVars>>

EndClose ==
  /\ closing = "stopping" /\ pump \in {"stopped", "crashed"}
  /\ closing' = "closed"
  /\ worker' = [r \in Ranks |-> "killed"]
  /\ outbox' = [r \in Ranks |-> <<>>]
  /\ UNCHANGED <<callVars, sendVars, handled, kills, resultQ, pumpVars>>

\* Nothing is left to do but to poll.
Settled ==
  /\ \A c \in Calls : caller[c] \in Done
  /\ UNCHANGED vars

CallerStep(c) == Register(c) \/ SubmitClosed(c) \/ AcquireSend(c) \/ SendNext(c)
                 \/ SendClosed(c) \/ Wake(c)
WorkerStep(r) == Exit(r) \/ \E c \in Calls : Handle(r, c)
PumpStep == PumpTop \/ PumpTake \/ PumpApply \/ PumpEmpty \/ PumpScan
            \/ PumpScanned

Next ==
  \/ \E c \in Calls : CallerStep(c) \/ GiveUp(c) \/ CloseLoop(c)
  \/ \E r \in Ranks : WorkerStep(r) \/ Flush(r) \/ Kill(r)
  \/ PumpStep \/ BeginClose \/ EndClose \/ Settled

\* A command meets the other ranks in collectives.  While all are up each is sure
\* to answer; once one has raised or died another may answer, or hang for good.
AnswerInTeam(r) ==
  /\ \A q \in Ranks : worker[q] = "up"
  /\ \E c \in Calls : Handle(r, c)

\* Threads and processes run; nobody has to time out, close or be killed, and a
\* rank that has reported its exception exits.
Spec ==
  /\ Init /\ [][Next]_vars
  /\ \A c \in Calls : WF_vars(CallerStep(c))
  /\ \A r \in Ranks : WF_vars(AnswerInTeam(r)) /\ WF_vars(Exit(r)) /\ WF_vars(Flush(r))
  /\ WF_vars(PumpStep) /\ WF_vars(EndClose)

-----------------------------------------------------------------------------
TypeOK ==
  /\ caller \in [Calls -> {"new", "registered", "sending", "waiting"} \cup Done]
  /\ table \subseteq Calls /\ loops \subseteq Async
  /\ waiting \in [Calls -> SUBSET Ranks]
  /\ outcome \in [Calls -> {"none", "returned", "raised"}]
  /\ lock \in Calls \cup {NoCall}
  /\ \A r \in Ranks :
       /\ sent[r] \in Seq(Calls) /\ IsInjective(sent[r])
       /\ handled[r] \subseteq ToSet(sent[r])
       /\ \A i \in DOMAIN outbox[r] : outbox[r][i].req \in handled[r]
  /\ \A i \in DOMAIN resultQ : resultQ[i].req \in handled[resultQ[i].rank]
  /\ worker \in [Ranks -> {"up", "exiting", "exited", "killed"}]
  /\ pump \in {"top", "get", "apply", "scan", "stopped", "crashed"}
  /\ hand # NoResult <=> pump = "apply"
  /\ snap \subseteq Calls
  /\ closing \in {"no", "stopping", "closed"} /\ kills \in 0 .. MaxKills

\* Every rank gets the commands in one order, though callers on different
\* threads submit at once: what WorkerLoop's collectives rely on.
OneOrder ==
  \A r, q \in Ranks : IsPrefix(sent[r], sent[q]) \/ IsPrefix(sent[q], sent[r])

\* Results on their way to the pump, oldest first for each rank.
InTransit(r, c) ==
  \/ \E i \in DOMAIN outbox[r] : outbox[r][i].req = c
  \/ \E i \in DOMAIN resultQ : resultQ[i].rank = r /\ resultQ[i].req = c
  \/ hand.rank = r /\ hand.req = c

\* A call returns results only when every rank it awaits has finished it, and
\* no result is lost on the way: as long as a call is in the table, each rank
\* it still waits for has not finished it, has its result in transit, or died.
NothingLost ==
  \A c \in Calls :
    /\ outcome[c] = "returned" => \A r \in Awaited[c] : c \in handled[r]
    /\ c \in table => \A r \in waiting[c] :
         c \in handled[r] => InTransit(r, c) \/ Gone(r)

\* No lost wake-up and no leak: a call is in the table exactly while its caller
\* may still be woken by the pump, save one whose put found the queues closed.
TableExact ==
  \A c \in Calls :
    c \in table <=>
      /\ outcome[c] = "none"
      /\ \/ caller[c] \in {"registered", "sending", "waiting"}
         \/ caller[c] = "raised" /\ waiting[c] # {}

\* A rank is gone and the call waits for others only: those may hang in a
\* collective with it, and they are not dead, so that the pump never fails the
\* call.  (A rollout awaits the leaders, whose siblings may die.)
Stranded(c) ==
  /\ caller[c] = "waiting" /\ c \in table
  /\ \E r \in Ranks : Gone(r)
  /\ \A r \in waiting[c] : ~Gone(r)

\* Every call ends, whatever workers raise or are killed and whichever callers
\* give up, as long as nobody closes the cluster, except a call left stranded
\* for good.
CallEnds == \A c \in Calls : <>(caller[c] \in Done) \/ <>[]Stranded(c)
=============================================================================
