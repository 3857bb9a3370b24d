------------------------------ MODULE FlowJobs ------------------------------
\* The life of one Modal job in the dashboard (Controller in
\* dashboard/flow/controller.py): the thread that starts it, the threads that
\* reattach to it, stop requests, connections, and crashes of the dashboard,
\* which leave the stored record and the remote sandbox behind.  Jobs share
\* nothing but the connection, so one is enough.
EXTENDS Naturals

CONSTANTS
  EarlyReconnect,   \* users may connect while a start has saved no sandbox_id
  MaxConnects,      \* bound on connections, besides one after each crash
  MaxCrashes, MaxFaults, MaxStops   \* bounds

ASSUME FlowAssumption ==
  /\ EarlyReconnect \in BOOLEAN
  /\ {MaxConnects, MaxCrashes, MaxFaults, MaxStops} \subseteq Nat

\* Thread 0 starts the job, thread n reattaches for the n-th connection.
Starter == 0
Threads == 0 .. MaxConnects + MaxCrashes

VARIABLES
  kind,      \* what the job is
  rec,       \* its record in the store
  box,       \* its sandbox at the provider
  connected, \* Controller.provider is set
  watching,  \* the job is in Controller.watching
  at,        \* where each thread is
  seen,      \* the cancel_requested a thread has read and will act on
  stopper,   \* a stop request: where it is, and the sandbox_id it read
  linker,    \* a connection: the record it read before it decides
  spent      \* connections, crashes, faults and stops so far

vars == <<kind, rec, box, connected, watching, at, seen, stopper, linker, spent>>
remote == <<kind, box, connected>>
callers == <<stopper, linker>>

Terminal == {"succeeded", "failed", "cancelled"}
Absent == [status |-> "none", cancel |-> FALSE, sandbox |-> FALSE,
           ready |-> FALSE, endpoint |-> FALSE]
Idle == [at |-> "idle", sandbox |-> FALSE]
Unlinked == [busy |-> FALSE, status |-> "none", sandbox |-> FALSE]

Init ==
  /\ kind \in {"job", "deployment", "image_build"}
  /\ rec = Absent /\ box = "none" /\ connected = TRUE /\ watching = FALSE
  /\ at = [t \in Threads |-> "unborn"] /\ seen = [t \in Threads |-> FALSE]
  /\ stopper = Idle /\ linker = Unlinked
  /\ spent = [connects |-> 0, crashes |-> 0, faults |-> 0, stops |-> 0]

Goto(t, where) == at' = [at EXCEPT ![t] = where]
Spend(what, bound) == spent[what] < bound /\ spent' = [spent EXCEPT ![what] = @ + 1]

\* A call of the provider fails, and the thread raises.
Fault(t, where) ==
  /\ Spend("faults", MaxFaults) /\ Goto(t, where)
  /\ UNCHANGED <<remote, rec, watching, seen, callers>>

\* terminate() of a sandbox that may have ended already.
Terminated == IF box = "up" THEN "bad" ELSE box

\* The thread writes the status and goes on.
Write(t, status, where) ==
  /\ rec' = [rec EXCEPT !.status = status] /\ Goto(t, where)
  /\ UNCHANGED <<remote, watching, seen, callers, spent>>
-----------------------------------------------------------------------------
Submit ==
  /\ connected /\ rec = Absent
  /\ rec' = [Absent EXCEPT !.status = "queued"] /\ Goto(Starter, "begin")
  /\ UNCHANGED <<remote, watching, seen, callers, spent>>

StartBegin == at[Starter] = "begin" /\ Write(Starter, "starting", "resolve")

\* _phase raises for a cancelled job; so may the registry.
StartResolve ==
  /\ at[Starter] = "resolve"
  /\ \/ /\ Goto(Starter, IF rec.cancel THEN "failing" ELSE "check")
        /\ UNCHANGED <<remote, rec, watching, seen, callers, spent>>
     \/ Fault(Starter, "failing")

StartCheck ==
  /\ at[Starter] = "check"
  /\ IF rec.cancel THEN Write(Starter, "cancelled", "done")
     ELSE Goto(Starter, "create")
          /\ UNCHANGED <<remote, rec, watching, seen, callers, spent>>

\* Upload, build, create; an image build creates no sandbox.
StartCreate ==
  /\ at[Starter] = "create"
  /\ \/ /\ ~rec.cancel
        /\ box' = IF kind = "image_build" THEN box ELSE "up"
        /\ Goto(Starter, IF kind = "image_build" THEN "built" ELSE "created")
        /\ UNCHANGED <<kind, connected, rec, watching, seen, callers, spent>>
     \/ /\ rec.cancel /\ Goto(Starter, "failing")
        /\ UNCHANGED <<remote, rec, watching, seen, callers, spent>>
     \/ Fault(Starter, "failing")

\* cancel_requested is read in one transaction, the status written in another.
ReadCancel(t) ==
  LET next == [built |-> "writeBuilt", created |-> "writeRunning",
               failed |-> "writeFailed", over |-> "writeOver"]
  IN /\ at[t] \in DOMAIN next /\ Goto(t, next[at[t]])
     /\ seen' = [seen EXCEPT ![t] = rec.cancel]
     /\ UNCHANGED <<remote, rec, watching, callers, spent>>

StartBuilt ==
  /\ at[Starter] = "writeBuilt"
  /\ Write(Starter, IF seen[Starter] THEN "cancelled" ELSE "succeeded", "done")

StartSave ==
  /\ at[Starter] = "writeRunning" /\ Goto(Starter, "attached")
  /\ rec' = [rec EXCEPT !.sandbox = TRUE,
                        !.status = IF seen[Starter] THEN "stopping" ELSE "running"]
  /\ UNCHANGED <<remote, watching, seen, callers, spent>>

\* The handler of _start: end the sandbox if there is one, record the failure.
StartFailing ==
  /\ at[Starter] = "failing"
  /\ \/ /\ box' = Terminated /\ Goto(Starter, "failed")
        /\ UNCHANGED <<kind, connected, rec, watching, seen, callers, spent>>
     \/ /\ box # "none" /\ Fault(Starter, "writeUnknown")

StartFailed ==
  /\ at[Starter] = "writeFailed"
  /\ Write(Starter, IF seen[Starter] THEN "cancelled" ELSE "failed", "done")
-----------------------------------------------------------------------------
\* A thread with a sandbox in hand: end it if the job was cancelled, watch it.
Raised(t) == IF t = Starter THEN "failing" ELSE "writeUnknown"

Attach(t) ==
  /\ at[t] = "attached"
  /\ \/ /\ box' = IF rec.cancel THEN Terminated ELSE box
        /\ Goto(t, "enter")
        /\ UNCHANGED <<kind, connected, rec, watching, seen, callers, spent>>
     \/ Fault(t, Raised(t))

\* Mutant: the test and the mark are not one step.
WatchEnterUnlocked(t) ==
  /\ at[t] = "enter" /\ watching' = TRUE /\ Goto(t, "watch")
  /\ UNCHANGED <<remote, rec, seen, callers, spent>>

WatchEnter(t) ==
  /\ at[t] = "enter" /\ watching' = TRUE
  /\ Goto(t, IF watching THEN "done" ELSE "watch")
  /\ UNCHANGED <<remote, rec, seen, callers, spent>>

\* The log of the sandbox says that its server is ready.
ReadReady(t) ==
  /\ at[t] = "watch" /\ kind = "deployment" /\ box = "up" /\ ~rec.ready
  /\ rec' = [rec EXCEPT !.ready = TRUE]
  /\ UNCHANGED <<remote, watching, at, seen, callers, spent>>

\* Mutant: the watcher leaves cancellation to the request.
WatchCancelIgnored(t) == FALSE

WatchCancel(t) ==
  /\ at[t] = "watch" /\ box = "up" /\ rec.cancel
  /\ \/ /\ box' = Terminated
        /\ UNCHANGED <<kind, connected, rec, watching, at, seen, callers, spent>>
     \/ Fault(t, "raise")

WatchTunnel(t) ==
  /\ at[t] = "watch" /\ box = "up"
  /\ ~rec.cancel /\ rec.ready /\ ~rec.endpoint
  /\ \/ /\ Goto(t, "publish")
        /\ UNCHANGED <<remote, rec, watching, seen, callers, spent>>
     \/ Fault(t, "raise")

WatchPublish(t) ==
  /\ at[t] = "publish" /\ Goto(t, "watch")
  /\ rec' = [rec EXCEPT !.endpoint = TRUE, !.status = "ready"]
  /\ UNCHANGED <<remote, watching, seen, callers, spent>>

\* poll() has an exit code, or raises.
WatchOver(t) ==
  /\ at[t] = "watch"
  /\ \/ /\ box # "up" /\ Goto(t, "over")
        /\ UNCHANGED <<remote, rec, watching, seen, callers, spent>>
     \/ Fault(t, "raise")

WatchRecord(t) ==
  /\ at[t] = "writeOver"
  /\ Write(t, IF seen[t] THEN "cancelled" ELSE IF box = "ok" THEN "succeeded"
              ELSE "failed", "leave")

WatchLeave(t) ==
  /\ at[t] \in {"leave", "raise"} /\ watching' = FALSE
  /\ Goto(t, IF at[t] = "leave" THEN "done" ELSE Raised(t))
  /\ UNCHANGED <<remote, rec, seen, callers, spent>>

\* Mutant: a failed reattachment fails the job.
WriteUnknownFailed(t) == at[t] = "writeUnknown" /\ Write(t, "failed", "done")

\* Mutant: a failed reattachment leaves the record as it is.
WriteUnknownSilent(t) == at[t] = "writeUnknown" /\ Write(t, rec.status, "done")

WriteUnknown(t) == at[t] = "writeUnknown" /\ Write(t, "unknown", "done")
-----------------------------------------------------------------------------
\* stop: read the record, mark it, terminate what was read.
StopRead ==
  /\ stopper = Idle /\ connected /\ rec.status \notin Terminal \cup {"none"}
  /\ Spend("stops", MaxStops)
  /\ stopper' = [at |-> "mark", sandbox |-> rec.sandbox]
  /\ UNCHANGED <<remote, rec, watching, at, seen, linker>>

StopMark ==
  /\ stopper.at = "mark"
  /\ rec' = [rec EXCEPT !.cancel = TRUE, !.status = "stopping"]
  /\ stopper' = IF stopper.sandbox THEN [stopper EXCEPT !.at = "terminate"] ELSE Idle
  /\ UNCHANGED <<remote, watching, at, seen, linker, spent>>

StopTerminate ==
  /\ stopper.at = "terminate" /\ stopper' = Idle
  /\ \/ box' = Terminated /\ spent' = spent
     \/ Spend("faults", MaxFaults) /\ box' = box
  /\ UNCHANGED <<kind, connected, rec, watching, at, seen, linker>>

\* A start under way that has not saved the sandbox_id yet.
Starting == at[Starter] \notin {"unborn", "done"} /\ ~rec.sandbox

\* connect, also while connected: the records are read, and then dealt with one
\* by one.
Connect ==
  /\ ~linker.busy /\ rec # Absent /\ (Starting => EarlyReconnect)
  /\ Spend("connects", MaxConnects + spent.crashes) /\ connected' = TRUE
  /\ linker' = [busy |-> TRUE, status |-> rec.status, sandbox |-> rec.sandbox]
  /\ UNCHANGED <<kind, box, rec, watching, at, seen, stopper>>

Connected ==
  /\ linker.busy /\ linker' = Unlinked
  /\ rec' = IF linker.status \in Terminal \/ linker.sandbox THEN rec
            ELSE [rec EXCEPT !.status = "failed"]
  /\ at' = IF linker.status \in Terminal \/ ~linker.sandbox THEN at
           ELSE [at EXCEPT ![spent.connects] = "attached"]
  /\ UNCHANGED <<remote, watching, seen, stopper, spent>>

\* The sandbox ends by itself, or at its time limit.
BoxEnds ==
  /\ box = "up" /\ box' \in {"ok", "bad"}
  /\ UNCHANGED <<kind, connected, rec, watching, at, seen, callers, spent>>

\* The dashboard dies with its threads; store and sandbox stay.
Crash ==
  /\ Spend("crashes", MaxCrashes)
  /\ connected' = FALSE /\ watching' = FALSE
  /\ at' = [t \in Threads |-> IF at[t] = "unborn" THEN "unborn" ELSE "done"]
  /\ seen' = [t \in Threads |-> FALSE]
  /\ stopper' = Idle /\ linker' = Unlinked
  /\ UNCHANGED <<kind, rec, box>>

\* Nothing is left to do.
Quiet ==
  /\ \A t \in Threads : at[t] \in {"unborn", "done"}
  /\ stopper = Idle /\ ~linker.busy
  /\ UNCHANGED vars

StartStep ==
  \/ StartBegin \/ StartResolve \/ StartCheck \/ StartCreate
  \/ StartBuilt \/ StartSave \/ StartFailing \/ StartFailed

WatchStep(t) ==
  \/ Attach(t) \/ WatchEnter(t) \/ WatchCancel(t) \/ WatchTunnel(t)
  \/ WatchPublish(t) \/ WatchOver(t) \/ WatchRecord(t) \/ WatchLeave(t)

ThreadStep(t) ==
  (t = Starter /\ StartStep) \/ ReadCancel(t) \/ WatchStep(t) \/ WriteUnknown(t)

Next ==
  \/ Submit
  \/ \E t \in Threads : ThreadStep(t) \/ ReadReady(t)
  \/ StopRead \/ StopMark \/ StopTerminate
  \/ Connect \/ Connected
  \/ BoxEnds \/ Crash \/ Quiet

Spec == Init /\ [][Next]_vars

\* Threads run, which makes no call of the provider fail; after a start the
\* dashboard connects with the credentials it saved.  Nobody has to submit, stop,
\* or connect again.
Works == spent'.faults = spent.faults

FairSpec ==
  /\ Spec
  /\ \A t \in Threads : WF_vars(ThreadStep(t) /\ Works)
  /\ WF_vars(StopMark) /\ WF_vars(StopTerminate /\ Works)
  /\ WF_vars(~connected /\ Connect) /\ WF_vars(Connected)
-----------------------------------------------------------------------------
Statuses == Terminal \cup
  {"none", "queued", "starting", "running", "ready", "stopping", "unknown"}

Places ==
  {"unborn", "begin", "resolve", "check", "create", "built", "created",
   "failing", "failed", "writeBuilt", "writeRunning", "writeFailed", "attached",
   "enter", "watch", "publish", "over", "writeOver", "leave", "raise",
   "writeUnknown", "done"}

TypeOK ==
  /\ kind \in {"job", "deployment", "image_build"}
  /\ rec \in [status : Statuses, cancel : BOOLEAN, sandbox : BOOLEAN,
              ready : BOOLEAN, endpoint : BOOLEAN]
  /\ box \in {"none", "up", "ok", "bad"}
  /\ connected \in BOOLEAN /\ watching \in BOOLEAN
  /\ at \in [Threads -> Places] /\ seen \in [Threads -> BOOLEAN]
  /\ stopper \in [at : {"idle", "mark", "terminate"}, sandbox : BOOLEAN]
  /\ linker \in [busy : BOOLEAN, status : Statuses, sandbox : BOOLEAN]
  /\ spent \in [connects : 0 .. MaxConnects + MaxCrashes, crashes : 0 .. MaxCrashes,
                faults : 0 .. MaxFaults, stops : 0 .. MaxStops]

Live(t) == at[t] \notin {"unborn", "done"}
Watches(t) == at[t] \in {"watch", "publish", "over", "writeOver", "leave", "raise"}

\* One thread at a time watches the job, whatever starts, reattaches and ends,
\* and the mark says so: a second would publish its end twice, and a mark left
\* behind would keep every later connection from following the sandbox.
OneWatcher ==
  /\ \A t, u \in Threads : Watches(t) /\ Watches(u) => t = u
  /\ watching <=> \E t \in Threads : Watches(t)

\* A job recorded as finished has no sandbox running, and billing, that the
\* record knows of: it is not stopped or reattached to any more.
FinishedIsOver == rec.status \in Terminal /\ rec.sandbox => box # "up"

\* A running sandbox the record knows of is followed by some thread, or the
\* record says that nobody follows it ("unknown", which asks the user to connect
\* again) or that a stop was asked for.
Attended ==
  connected /\ ~linker.busy /\ box = "up" /\ rec.sandbox =>
    \/ \E t \in Threads : Live(t)
    \/ rec.status \in {"unknown", "stopping"}

\* What connect records of a job that has no sandbox_id: "Local service stopped
\* before a sandbox ID was saved".
FailedMeansStopped ==
  [][Connected /\ rec'.status # rec.status => ~Live(Starter) /\ ~rec.sandbox]_vars

\* A stop ends the sandbox, across races with the start, crashes and
\* reconnections, unless calls of the provider fail.
StopEnds ==
  [](spent.faults = 0) =>
    (rec.cancel /\ rec.sandbox ~> box # "up")
=============================================================================
