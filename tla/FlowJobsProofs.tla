--------------------------- MODULE FlowJobsProofs ---------------------------
(***************************************************************************)
(* One watcher per job, no running sandbox behind a finished record, and   *)
(* no running sandbox that nobody follows, for any number of connections,  *)
(* crashes, faults and stop requests.                                      *)
(*                                                                         *)
(* The last two are not inductive: what a thread may write depends on what *)
(* its place says of the sandbox (PlaceInv), and what a connection may     *)
(* write on whether its copy of the record can still be out of date        *)
(* (LinkInv), which is where connecting early goes wrong.                  *)
(***************************************************************************)
EXTENDS FlowJobs, TLAPS

\* Threads are born once, in the order of the connections.
BirthInv ==
  /\ \A t \in Threads : t > spent.connects => at[t] = "unborn"
  /\ linker.busy => spent.connects # Starter /\ at[spent.connects] = "unborn"
  /\ at[Starter] = "unborn" => rec = Absent
  /\ rec.status = "none" => at[Starter] = "unborn"
  /\ stopper # Idle \/ linker.busy => at[Starter] # "unborn"
  /\ spent.connects <= MaxConnects + spent.crashes

BeforeSandbox == {"unborn", "begin", "resolve", "check", "create", "built", "writeBuilt"}
BeforeSave == BeforeSandbox \cup {"created", "writeRunning"}
AfterAttach == {"attached", "enter", "watch", "publish", "raise", "writeUnknown"}
AfterEnd == {"over", "writeOver", "leave"}

\* What the place of a thread says of the record and the sandbox.
PlaceInv ==
  /\ linker.sandbox => rec.sandbox
  /\ rec.sandbox => box # "none"
  /\ at[Starter] \in BeforeSave => ~rec.sandbox
  /\ at[Starter] \in BeforeSandbox => box = "none"
  /\ at[Starter] \in {"created", "writeRunning"} => box # "none"
  /\ at[Starter] \in {"failed", "writeFailed"} => box # "up"
  /\ \A t \in Threads : at[t] \in AfterAttach => box # "none"
  /\ \A t \in Threads : at[t] \in AfterEnd => box \in {"ok", "bad"}
  /\ \A t \in Threads \ {Starter} :
       at[t] \in AfterAttach \cup AfterEnd \cup {"unborn", "done"}

\* What a connection has read stays true enough to act on.
LinkInv ==
  linker.busy =>
    /\ linker.sandbox /\ linker.status \in Terminal => box # "up"
    /\ ~linker.sandbox => at[Starter] = "done" /\ ~rec.sandbox

SandboxInv == ~EarlyReconnect => LinkInv /\ FinishedIsOver /\ Attended

IInv == TypeOK /\ BirthInv /\ OneWatcher /\ PlaceInv /\ SandboxInv

-----------------------------------------------------------------------------
Counts ==
  [connects : 0 .. MaxConnects + MaxCrashes, crashes : 0 .. MaxCrashes,
   faults : 0 .. MaxFaults, stops : 0 .. MaxStops]

USE FlowAssumption DEF Threads, Starter, remote, callers

\* The literals the actions write are of the types they are written to.
LEMMA Literals ==
  /\ {"none", "queued", "starting", "running", "ready", "stopping", "unknown"}
       \cup Terminal \subseteq Statuses
  /\ {"succeeded", "failed", "cancelled"} = Terminal
  /\ {"unborn", "begin", "resolve", "check", "create", "built", "created",
      "failing", "failed", "writeBuilt", "writeRunning", "writeFailed", "attached",
      "enter", "watch", "publish", "over", "writeOver", "leave", "raise",
      "writeUnknown", "done"} \subseteq Places
BY DEF Statuses, Places, Terminal

LEMMA SpendTypes ==
  ASSUME TypeOK
  PROVE  /\ Spend("faults", MaxFaults) => spent' \in Counts
         /\ Spend("stops", MaxStops) => spent' \in Counts
         /\ Spend("crashes", MaxCrashes) => spent' \in Counts
         /\ Spend("connects", MaxConnects + spent.crashes) => spent' \in Counts
<1>1. spent \in Counts
  BY DEF TypeOK, Counts
<1>2. MaxConnects \in Nat /\ MaxCrashes \in Nat /\ MaxFaults \in Nat /\ MaxStops \in Nat
  OBVIOUS
<1>3. Spend("faults", MaxFaults) => spent' \in Counts
  BY <1>1, <1>2 DEF Spend, Counts
<1>4. Spend("stops", MaxStops) => spent' \in Counts
  BY <1>1, <1>2 DEF Spend, Counts
<1>5. Spend("crashes", MaxCrashes) => spent' \in Counts
  BY <1>1, <1>2 DEF Spend, Counts
<1>6. Spend("connects", MaxConnects + spent.crashes) => spent' \in Counts
  BY <1>1, <1>2 DEF Spend, Counts
<1> QED BY <1>3, <1>4, <1>5, <1>6

LEMMA FaultTypes ==
  ASSUME TypeOK, NEW t \in Threads, NEW where \in Places, Fault(t, where)
  PROVE  TypeOK'
<1>1. spent' \in Counts
  BY SpendTypes DEF Fault
<1>2. at' \in [Threads -> Places]
  BY DEF Fault, Goto, TypeOK
<1>3. UNCHANGED <<kind, box, connected, rec, watching, seen, stopper, linker>>
  BY DEF Fault
<1> QED BY <1>1, <1>2, <1>3 DEF TypeOK, Counts

LEMMA WriteTypes ==
  ASSUME TypeOK, NEW t \in Threads, NEW where \in Places, NEW status \in Statuses,
         Write(t, status, where)
  PROVE  TypeOK'
BY DEF Write, Goto, TypeOK

LEMMA InitIInv == Init => IInv
<1> SUFFICES ASSUME Init PROVE IInv
  OBVIOUS
<1> USE DEF Init
<1>1. TypeOK
  <2>1. rec \in [status : Statuses, cancel : BOOLEAN, sandbox : BOOLEAN,
                 ready : BOOLEAN, endpoint : BOOLEAN]
    BY Literals DEF Absent
  <2>2. spent \in Counts
    BY DEF Counts
  <2>3. stopper \in [at : {"idle", "mark", "terminate"}, sandbox : BOOLEAN]
    BY DEF Idle
  <2>4. linker \in [busy : BOOLEAN, status : Statuses, sandbox : BOOLEAN]
    BY Literals DEF Unlinked
  <2> QED BY <2>1, <2>2, <2>3, <2>4, Literals DEF TypeOK, Counts
<1>2. BirthInv
  BY DEF BirthInv, Unlinked, Absent, Idle
<1>3. OneWatcher
  BY DEF OneWatcher, Watches
<1>4. PlaceInv
  BY DEF PlaceInv, BeforeSave, BeforeSandbox, AfterAttach, AfterEnd, Absent, Unlinked
<1>5. SandboxInv
  BY DEF SandboxInv, LinkInv, FinishedIsOver, Attended, Unlinked
<1> QED BY <1>1, <1>2, <1>3, <1>4, <1>5 DEF IInv

LEMMA TypesNext == TypeOK /\ [Next]_vars => TypeOK'
<1> SUFFICES ASSUME TypeOK, [Next]_vars PROVE TypeOK'
  OBVIOUS
<1> USE Literals
<1>1. CASE Submit
  BY <1>1 DEF Submit, Absent, Goto, TypeOK
<1>2. CASE StartBegin
  BY <1>2, WriteTypes DEF StartBegin
<1>3. CASE StartResolve
  <2>1. CASE Fault(Starter, "failing")
    BY <2>1, FaultTypes
  <2> QED BY <1>3, <2>1 DEF StartResolve, Goto, TypeOK
<1>4. CASE StartCheck
  <2>1. CASE rec.cancel
    BY <1>4, <2>1, WriteTypes DEF StartCheck
  <2> QED BY <1>4, <2>1 DEF StartCheck, Goto, TypeOK
<1>5. CASE StartCreate
  <2>1. CASE Fault(Starter, "failing")
    BY <2>1, FaultTypes
  <2>2. CASE rec.cancel /\ Goto(Starter, "failing") /\ UNCHANGED <<remote, rec, watching, seen, callers, spent>>
    BY <2>2 DEF Goto, TypeOK
  <2> QED BY <1>5, <2>1, <2>2 DEF StartCreate, Goto, TypeOK
<1>6. CASE StartBuilt
  BY <1>6, WriteTypes DEF StartBuilt
<1>7. CASE StartSave
  BY <1>7 DEF StartSave, Goto, TypeOK
<1>8. CASE StartFailing
  <2>1. CASE Fault(Starter, "writeUnknown")
    BY <2>1, FaultTypes
  <2> QED BY <1>8, <2>1 DEF StartFailing, Terminated, Goto, TypeOK
<1>9. CASE StartFailed
  BY <1>9, WriteTypes DEF StartFailed
<1>10. ASSUME NEW t \in Threads, ReadCancel(t) PROVE TypeOK'
  BY <1>10 DEF ReadCancel, Goto, TypeOK
<1>11. ASSUME NEW t \in Threads, Attach(t) PROVE TypeOK'
  <2>1. CASE Fault(t, Raised(t))
    BY <2>1, FaultTypes DEF Raised
  <2> QED BY <1>11, <2>1 DEF Attach, Terminated, Goto, TypeOK
<1>12. ASSUME NEW t \in Threads, WatchEnter(t) PROVE TypeOK'
  BY <1>12 DEF WatchEnter, Goto, TypeOK
<1>13. ASSUME NEW t \in Threads, WatchCancel(t) PROVE TypeOK'
  <2>1. CASE Fault(t, "raise")
    BY <2>1, FaultTypes
  <2> QED BY <1>13, <2>1 DEF WatchCancel, Terminated, TypeOK
<1>14. ASSUME NEW t \in Threads, WatchTunnel(t) PROVE TypeOK'
  <2>1. CASE Fault(t, "raise")
    BY <2>1, FaultTypes
  <2> QED BY <1>14, <2>1 DEF WatchTunnel, Goto, TypeOK
<1>15. ASSUME NEW t \in Threads, WatchPublish(t) PROVE TypeOK'
  BY <1>15 DEF WatchPublish, Goto, TypeOK
<1>16. ASSUME NEW t \in Threads, WatchOver(t) PROVE TypeOK'
  <2>1. CASE Fault(t, "raise")
    BY <2>1, FaultTypes
  <2> QED BY <1>16, <2>1 DEF WatchOver, Goto, TypeOK
<1>17. ASSUME NEW t \in Threads, WatchRecord(t) PROVE TypeOK'
  BY <1>17, WriteTypes DEF WatchRecord
<1>18. ASSUME NEW t \in Threads, WatchLeave(t) PROVE TypeOK'
  <2>1. PICK where : where \in Places /\ Goto(t, where)
    <3>1. "done" \in Places /\ "failing" \in Places /\ "writeUnknown" \in Places
      OBVIOUS
    <3>2. CASE at[t] = "leave"
      BY <1>18, <3>1, <3>2 DEF WatchLeave
    <3>3. CASE at[t] # "leave"
      <4>1. Raised(t) \in Places /\ Goto(t, Raised(t))
        BY <1>18, <3>1, <3>3 DEF WatchLeave, Raised
      <4> QED BY <4>1
    <3> QED BY <3>2, <3>3
  <2>2. watching' = FALSE /\ UNCHANGED <<remote, rec, seen, callers, spent>>
    BY <1>18 DEF WatchLeave
  <2>3. at' \in [Threads -> Places]
    BY <2>1 DEF Goto, TypeOK
  <2>4. watching' \in BOOLEAN
    BY <2>2
  <2> QED BY <2>2, <2>3, <2>4 DEF TypeOK
<1>19. ASSUME NEW t \in Threads, WriteUnknown(t) PROVE TypeOK'
  BY <1>19, WriteTypes DEF WriteUnknown
<1>20. ASSUME NEW t \in Threads, ReadReady(t) PROVE TypeOK'
  BY <1>20 DEF ReadReady, TypeOK
<1>21. CASE StopRead
  <2>1. spent' \in Counts
    BY <1>21, SpendTypes DEF StopRead
  <2> QED BY <1>21, <2>1 DEF StopRead, TypeOK, Counts
<1>22. CASE StopMark
  BY <1>22 DEF StopMark, Idle, TypeOK
<1>23. CASE StopTerminate
  <2>1. spent' \in Counts
    BY <1>23, SpendTypes DEF StopTerminate, TypeOK, Counts
  <2> QED BY <1>23, <2>1 DEF StopTerminate, Terminated, Idle, TypeOK, Counts
<1>24. CASE Connect
  <2>1. spent' \in Counts
    BY <1>24, SpendTypes DEF Connect
  <2> QED BY <1>24, <2>1 DEF Connect, TypeOK, Counts
<1>25. CASE Connected
  BY <1>25 DEF Connected, Unlinked, TypeOK
<1>26. CASE BoxEnds
  BY <1>26 DEF BoxEnds, TypeOK
<1>27. CASE Crash
  <2>1. spent' \in Counts
    BY <1>27, SpendTypes DEF Crash
  <2> QED BY <1>27, <2>1 DEF Crash, Idle, Unlinked, TypeOK, Counts
<1>28. CASE UNCHANGED vars
  BY <1>28 DEF vars, TypeOK
<1> QED
  BY <1>1, <1>2, <1>3, <1>4, <1>5, <1>6, <1>7, <1>8, <1>9, <1>10, <1>11, <1>12,
     <1>13, <1>14, <1>15, <1>16, <1>17, <1>18, <1>19, <1>20, <1>21, <1>22, <1>23,
     <1>24, <1>25, <1>26, <1>27, <1>28
  DEF Next, ThreadStep, StartStep, WatchStep, Quiet

LEMMA BirthNext ==
  ASSUME TypeOK, BirthInv, PlaceInv, [Next]_vars
  PROVE  BirthInv'
<1> at \in [Threads -> Places]
  BY DEF TypeOK
<1> rec \in [status : Statuses, cancel : BOOLEAN, sandbox : BOOLEAN,
            ready : BOOLEAN, endpoint : BOOLEAN]
  BY DEF TypeOK
<1> linker \in [busy : BOOLEAN, status : Statuses, sandbox : BOOLEAN]
  BY DEF TypeOK
<1> spent \in Counts
  BY DEF TypeOK, Counts
<1> stopper \in [at : {"idle", "mark", "terminate"}, sandbox : BOOLEAN]
  BY DEF TypeOK
<1> USE DEF BirthInv, Counts
<1>1. CASE Submit
  BY <1>1 DEF Submit, Absent, Goto
<1>2. CASE StartBegin
  BY <1>2 DEF StartBegin, Write, Goto
<1>3. CASE StartResolve
  <2>1. CASE Fault(Starter, "failing")
    BY <1>3, <2>1 DEF Fault, Spend, StartResolve, Goto
  <2>2. CASE Goto(Starter, "failing") /\ UNCHANGED <<remote, rec, watching, seen, callers, spent>>
    BY <1>3, <2>2 DEF StartResolve, Goto
  <2>3. CASE Goto(Starter, "check") /\ UNCHANGED <<remote, rec, watching, seen, callers, spent>>
    BY <1>3, <2>3 DEF StartResolve, Goto
  <2> QED BY <1>3, <2>1, <2>2, <2>3 DEF StartResolve
<1>4. CASE StartCheck
  BY <1>4 DEF StartCheck, Write, Goto
<1>5. CASE StartCreate
  <2>1. CASE Fault(Starter, "failing")
    BY <1>5, <2>1 DEF Fault, Spend, StartCreate, Goto
  <2> QED BY <1>5, <2>1 DEF StartCreate, Goto
<1>6. CASE StartBuilt
  BY <1>6 DEF StartBuilt, Write, Goto
<1>7. CASE StartSave
  BY <1>7 DEF StartSave, Goto
<1>8. CASE StartFailing
  <2>1. CASE Fault(Starter, "writeUnknown")
    BY <1>8, <2>1 DEF Fault, Spend, StartFailing, Terminated, Goto
  <2> QED BY <1>8, <2>1 DEF StartFailing, Terminated, Goto
<1>9. CASE StartFailed
  BY <1>9 DEF StartFailed, Write, Goto
<1>10. ASSUME NEW t \in Threads, ReadCancel(t) PROVE BirthInv'
  BY <1>10 DEF ReadCancel, Goto
<1>11. ASSUME NEW t \in Threads, Attach(t) PROVE BirthInv'
  <2>1. CASE Fault(t, Raised(t))
    <3>1. Raised(t) \in {"failing", "writeUnknown"}
      BY DEF Raised
    <3> QED BY <1>11, <2>1, <3>1 DEF Fault, Spend, Attach, Goto
  <2>2. CASE Goto(t, "enter") /\ UNCHANGED <<kind, connected, rec, watching, seen, callers, spent>>
    BY <1>11, <2>2 DEF Attach, Goto
  <2> QED BY <1>11, <2>1, <2>2 DEF Attach
<1>12. ASSUME NEW t \in Threads, WatchEnter(t) PROVE BirthInv'
  BY <1>12 DEF WatchEnter, Goto
<1>13. ASSUME NEW t \in Threads, WatchCancel(t) PROVE BirthInv'
  <2>1. CASE Fault(t, "raise")
    BY <1>13, <2>1 DEF Fault, Spend, WatchCancel, Terminated, Goto
  <2> QED BY <1>13, <2>1 DEF WatchCancel, Terminated, Goto
<1>14. ASSUME NEW t \in Threads, WatchTunnel(t) PROVE BirthInv'
  <2>1. CASE Fault(t, "raise")
    BY <1>14, <2>1 DEF Fault, Spend, WatchTunnel, Goto
  <2> QED BY <1>14, <2>1 DEF WatchTunnel, Goto
<1>15. ASSUME NEW t \in Threads, WatchPublish(t) PROVE BirthInv'
  BY <1>15 DEF WatchPublish, Goto, PlaceInv, AfterAttach, BeforeSandbox
<1>16. ASSUME NEW t \in Threads, WatchOver(t) PROVE BirthInv'
  <2>1. CASE Fault(t, "raise")
    BY <1>16, <2>1 DEF Fault, Spend, WatchOver, Goto
  <2>2. CASE box # "up" /\ Goto(t, "over") /\ UNCHANGED <<remote, rec, watching, seen, callers, spent>>
    BY <1>16, <2>2 DEF WatchOver, Goto
  <2> QED BY <1>16, <2>1, <2>2 DEF WatchOver
<1>17. ASSUME NEW t \in Threads, WatchRecord(t) PROVE BirthInv'
  BY <1>17 DEF WatchRecord, Write, Goto, PlaceInv, AfterEnd, BeforeSandbox
<1>18. ASSUME NEW t \in Threads, WatchLeave(t) PROVE BirthInv'
  BY <1>18 DEF WatchLeave, Raised, Goto
<1>19. ASSUME NEW t \in Threads, WriteUnknown(t) PROVE BirthInv'
  BY <1>19 DEF WriteUnknown, Write, Goto, PlaceInv, AfterAttach, BeforeSandbox
<1>20. ASSUME NEW t \in Threads, ReadReady(t) PROVE BirthInv'
  BY <1>20 DEF ReadReady, PlaceInv, AfterAttach, BeforeSandbox
<1>21. CASE StopRead
  BY <1>21 DEF StopRead, Spend, Absent
<1>22. CASE StopMark
  BY <1>22 DEF StopMark, Idle
<1>23. CASE StopTerminate
  BY <1>23 DEF StopTerminate, Terminated, Spend, Idle
<1>24. CASE Connect
  BY <1>24 DEF Connect, Spend, Starting
<1>25. CASE Connected
  BY <1>25 DEF Connected, Unlinked
<1>26. CASE BoxEnds
  BY <1>26 DEF BoxEnds
<1>27. CASE Crash
  BY <1>27 DEF Crash, Spend, Idle, Unlinked
<1>28. CASE UNCHANGED vars
  BY <1>28 DEF vars
<1> QED
  BY <1>1, <1>2, <1>3, <1>4, <1>5, <1>6, <1>7, <1>8, <1>9, <1>10, <1>11, <1>12, <1>13, <1>14, <1>15, <1>16, <1>17, <1>18, <1>19, <1>20, <1>21, <1>22, <1>23, <1>24, <1>25, <1>26, <1>27, <1>28
  DEF Next, ThreadStep, StartStep, WatchStep, Quiet

LEMMA WatcherNext ==
  ASSUME TypeOK, BirthInv, OneWatcher, [Next]_vars
  PROVE  OneWatcher'
<1> at \in [Threads -> Places]
  BY DEF TypeOK
<1> spent \in Counts
  BY DEF TypeOK, Counts
<1> USE DEF BirthInv, OneWatcher, Watches
<1>1. CASE Submit
  BY <1>1 DEF Submit, Absent, Goto
<1>2. CASE StartBegin
  BY <1>2 DEF StartBegin, Write, Goto
<1>3. CASE StartResolve
  <2>1. CASE Fault(Starter, "failing")
    BY <1>3, <2>1 DEF Fault, Spend, StartResolve, Goto
  <2>2. CASE Goto(Starter, "failing") /\ UNCHANGED <<remote, rec, watching, seen, callers, spent>>
    BY <1>3, <2>2 DEF StartResolve, Goto
  <2>3. CASE Goto(Starter, "check") /\ UNCHANGED <<remote, rec, watching, seen, callers, spent>>
    BY <1>3, <2>3 DEF StartResolve, Goto
  <2> QED BY <1>3, <2>1, <2>2, <2>3 DEF StartResolve
<1>4. CASE StartCheck
  BY <1>4 DEF StartCheck, Write, Goto
<1>5. CASE StartCreate
  <2>1. CASE Fault(Starter, "failing")
    BY <1>5, <2>1 DEF Fault, Spend, StartCreate, Goto
  <2> QED BY <1>5, <2>1 DEF StartCreate, Goto
<1>6. CASE StartBuilt
  BY <1>6 DEF StartBuilt, Write, Goto
<1>7. CASE StartSave
  BY <1>7 DEF StartSave, Goto
<1>8. CASE StartFailing
  <2>1. CASE Fault(Starter, "writeUnknown")
    BY <1>8, <2>1 DEF Fault, Spend, StartFailing, Terminated, Goto
  <2> QED BY <1>8, <2>1 DEF StartFailing, Terminated, Goto
<1>9. CASE StartFailed
  BY <1>9 DEF StartFailed, Write, Goto
<1>10. ASSUME NEW t \in Threads, ReadCancel(t) PROVE OneWatcher'
  BY <1>10 DEF ReadCancel, Goto
<1>11. ASSUME NEW t \in Threads, Attach(t) PROVE OneWatcher'
  <2>1. CASE Fault(t, Raised(t))
    <3>1. Raised(t) \in {"failing", "writeUnknown"}
      BY DEF Raised
    <3> QED BY <1>11, <2>1, <3>1 DEF Fault, Spend, Attach, Goto
  <2>2. CASE Goto(t, "enter") /\ UNCHANGED <<kind, connected, rec, watching, seen, callers, spent>>
    BY <1>11, <2>2 DEF Attach, Goto
  <2> QED BY <1>11, <2>1, <2>2 DEF Attach
<1>12. ASSUME NEW t \in Threads, WatchEnter(t) PROVE OneWatcher'
  BY <1>12 DEF WatchEnter, Goto
<1>13. ASSUME NEW t \in Threads, WatchCancel(t) PROVE OneWatcher'
  <2>1. CASE Fault(t, "raise")
    BY <1>13, <2>1 DEF Fault, Spend, WatchCancel, Terminated, Goto
  <2> QED BY <1>13, <2>1 DEF WatchCancel, Terminated, Goto
<1>14. ASSUME NEW t \in Threads, WatchTunnel(t) PROVE OneWatcher'
  <2>1. CASE Fault(t, "raise")
    BY <1>14, <2>1 DEF Fault, Spend, WatchTunnel, Goto
  <2> QED BY <1>14, <2>1 DEF WatchTunnel, Goto
<1>15. ASSUME NEW t \in Threads, WatchPublish(t) PROVE OneWatcher'
  BY <1>15 DEF WatchPublish, Goto
<1>16. ASSUME NEW t \in Threads, WatchOver(t) PROVE OneWatcher'
  <2>1. CASE Fault(t, "raise")
    BY <1>16, <2>1 DEF Fault, Spend, WatchOver, Goto
  <2> QED BY <1>16, <2>1 DEF WatchOver, Goto
<1>17. ASSUME NEW t \in Threads, WatchRecord(t) PROVE OneWatcher'
  BY <1>17 DEF WatchRecord, Write, Goto
<1>18. ASSUME NEW t \in Threads, WatchLeave(t) PROVE OneWatcher'
  BY <1>18 DEF WatchLeave, Raised, Goto
<1>19. ASSUME NEW t \in Threads, WriteUnknown(t) PROVE OneWatcher'
  BY <1>19 DEF WriteUnknown, Write, Goto
<1>20. ASSUME NEW t \in Threads, ReadReady(t) PROVE OneWatcher'
  BY <1>20 DEF ReadReady
<1>21. CASE StopRead
  BY <1>21 DEF StopRead, Spend, Idle
<1>22. CASE StopMark
  BY <1>22 DEF StopMark, Idle
<1>23. CASE StopTerminate
  BY <1>23 DEF StopTerminate, Terminated, Spend, Idle
<1>24. CASE Connect
  BY <1>24 DEF Connect, Spend, Starting
<1>25. CASE Connected
  BY <1>25 DEF Connected, Unlinked
<1>26. CASE BoxEnds
  BY <1>26 DEF BoxEnds
<1>27. CASE Crash
  BY <1>27 DEF Crash, Spend, Idle, Unlinked
<1>28. CASE UNCHANGED vars
  BY <1>28 DEF vars
<1> QED
  BY <1>1, <1>2, <1>3, <1>4, <1>5, <1>6, <1>7, <1>8, <1>9, <1>10, <1>11, <1>12, <1>13, <1>14, <1>15, <1>16, <1>17, <1>18, <1>19, <1>20, <1>21, <1>22, <1>23, <1>24, <1>25, <1>26, <1>27, <1>28
  DEF Next, ThreadStep, StartStep, WatchStep, Quiet

LEMMA PlaceNext ==
  ASSUME TypeOK, BirthInv, PlaceInv, [Next]_vars
  PROVE  PlaceInv'
<1> at \in [Threads -> Places]
  BY DEF TypeOK
<1> rec \in [status : Statuses, cancel : BOOLEAN, sandbox : BOOLEAN,
            ready : BOOLEAN, endpoint : BOOLEAN]
  BY DEF TypeOK
<1> linker \in [busy : BOOLEAN, status : Statuses, sandbox : BOOLEAN]
  BY DEF TypeOK
<1> box \in {"none", "up", "ok", "bad"}
  BY DEF TypeOK
<1> spent \in Counts
  BY DEF TypeOK, Counts
<1> USE DEF BirthInv, PlaceInv, BeforeSave, BeforeSandbox, AfterAttach, AfterEnd
<1>1. CASE Submit
  BY <1>1 DEF Submit, Absent, Goto
<1>2. CASE StartBegin
  BY <1>2 DEF StartBegin, Write, Goto
<1>3. CASE StartResolve
  <2>1. CASE Fault(Starter, "failing")
    BY <1>3, <2>1 DEF Fault, Spend, StartResolve, Goto
  <2>2. CASE Goto(Starter, "failing") /\ UNCHANGED <<remote, rec, watching, seen, callers, spent>>
    BY <1>3, <2>2 DEF StartResolve, Goto
  <2>3. CASE Goto(Starter, "check") /\ UNCHANGED <<remote, rec, watching, seen, callers, spent>>
    BY <1>3, <2>3 DEF StartResolve, Goto
  <2> QED BY <1>3, <2>1, <2>2, <2>3 DEF StartResolve
<1>4. CASE StartCheck
  BY <1>4 DEF StartCheck, Write, Goto
<1>5. CASE StartCreate
  <2>1. CASE Fault(Starter, "failing")
    BY <1>5, <2>1 DEF Fault, Spend, StartCreate, Goto
  <2> QED BY <1>5, <2>1 DEF StartCreate, Goto
<1>6. CASE StartBuilt
  BY <1>6 DEF StartBuilt, Write, Goto
<1>7. CASE StartSave
  BY <1>7 DEF StartSave, Goto
<1>8. CASE StartFailing
  <2>1. CASE Fault(Starter, "writeUnknown")
    BY <1>8, <2>1 DEF Fault, Spend, StartFailing, Terminated, Goto
  <2> QED BY <1>8, <2>1 DEF StartFailing, Terminated, Goto
<1>9. CASE StartFailed
  BY <1>9 DEF StartFailed, Write, Goto
<1>10. ASSUME NEW t \in Threads, ReadCancel(t) PROVE PlaceInv'
  BY <1>10 DEF ReadCancel, Goto
<1>11. ASSUME NEW t \in Threads, Attach(t) PROVE PlaceInv'
  <2>1. CASE Fault(t, Raised(t))
    BY <1>11, <2>1 DEF Fault, Spend, Attach, Terminated, Raised, Goto
  <2> QED BY <1>11, <2>1 DEF Attach, Terminated, Raised, Goto
<1>12. ASSUME NEW t \in Threads, WatchEnter(t) PROVE PlaceInv'
  BY <1>12 DEF WatchEnter, Goto
<1>13. ASSUME NEW t \in Threads, WatchCancel(t) PROVE PlaceInv'
  <2>1. CASE Fault(t, "raise")
    BY <1>13, <2>1 DEF Fault, Spend, WatchCancel, Terminated, Goto
  <2> QED BY <1>13, <2>1 DEF WatchCancel, Terminated, Goto
<1>14. ASSUME NEW t \in Threads, WatchTunnel(t) PROVE PlaceInv'
  <2>1. CASE Fault(t, "raise")
    BY <1>14, <2>1 DEF Fault, Spend, WatchTunnel, Goto
  <2> QED BY <1>14, <2>1 DEF WatchTunnel, Goto
<1>15. ASSUME NEW t \in Threads, WatchPublish(t) PROVE PlaceInv'
  BY <1>15 DEF WatchPublish, Goto
<1>16. ASSUME NEW t \in Threads, WatchOver(t) PROVE PlaceInv'
  <2>1. CASE Fault(t, "raise")
    BY <1>16, <2>1 DEF Fault, Spend, WatchOver, Goto
  <2>2. CASE box # "up" /\ Goto(t, "over") /\ UNCHANGED <<remote, rec, watching, seen, callers, spent>>
    BY <1>16, <2>2 DEF WatchOver, Goto
  <2> QED BY <1>16, <2>1, <2>2 DEF WatchOver
<1>17. ASSUME NEW t \in Threads, WatchRecord(t) PROVE PlaceInv'
  BY <1>17 DEF WatchRecord, Write, Goto
<1>18. ASSUME NEW t \in Threads, WatchLeave(t) PROVE PlaceInv'
  BY <1>18 DEF WatchLeave, Raised, Goto
<1>19. ASSUME NEW t \in Threads, WriteUnknown(t) PROVE PlaceInv'
  BY <1>19 DEF WriteUnknown, Write, Goto
<1>20. ASSUME NEW t \in Threads, ReadReady(t) PROVE PlaceInv'
  BY <1>20 DEF ReadReady
<1>21. CASE StopRead
  BY <1>21 DEF StopRead, Spend, Idle
<1>22. CASE StopMark
  BY <1>22 DEF StopMark, Idle
<1>23. CASE StopTerminate
  BY <1>23 DEF StopTerminate, Terminated, Spend, Idle
<1>24. CASE Connect
  BY <1>24 DEF Connect, Spend, Starting
<1>25. CASE Connected
  BY <1>25 DEF Connected, Unlinked
<1>26. CASE BoxEnds
  BY <1>26 DEF BoxEnds
<1>27. CASE Crash
  BY <1>27 DEF Crash, Spend, Idle, Unlinked
<1>28. CASE UNCHANGED vars
  BY <1>28 DEF vars
<1> QED
  BY <1>1, <1>2, <1>3, <1>4, <1>5, <1>6, <1>7, <1>8, <1>9, <1>10, <1>11, <1>12, <1>13, <1>14, <1>15, <1>16, <1>17, <1>18, <1>19, <1>20, <1>21, <1>22, <1>23, <1>24, <1>25, <1>26, <1>27, <1>28
  DEF Next, ThreadStep, StartStep, WatchStep, Quiet

LEMMA LinkNext ==
  ASSUME ~EarlyReconnect, TypeOK, BirthInv, PlaceInv, LinkInv, FinishedIsOver, [Next]_vars
  PROVE  LinkInv'
<1> at \in [Threads -> Places]
  BY DEF TypeOK
<1> rec \in [status : Statuses, cancel : BOOLEAN, sandbox : BOOLEAN,
            ready : BOOLEAN, endpoint : BOOLEAN]
  BY DEF TypeOK
<1> linker \in [busy : BOOLEAN, status : Statuses, sandbox : BOOLEAN]
  BY DEF TypeOK
<1> box \in {"none", "up", "ok", "bad"}
  BY DEF TypeOK
<1> USE DEF BirthInv, PlaceInv, LinkInv, FinishedIsOver, BeforeSave, BeforeSandbox
<1>1. CASE Submit
  BY <1>1 DEF Submit, Absent, Goto
<1>2. CASE StartBegin
  BY <1>2 DEF StartBegin, Write, Goto
<1>3. CASE StartResolve
  <2>1. CASE Fault(Starter, "failing")
    BY <1>3, <2>1 DEF Fault, Spend, StartResolve, Goto
  <2> QED BY <1>3, <2>1 DEF StartResolve, Goto
<1>4. CASE StartCheck
  BY <1>4 DEF StartCheck, Write, Goto
<1>5. CASE StartCreate
  <2>1. CASE Fault(Starter, "failing")
    BY <1>5, <2>1 DEF Fault, Spend, StartCreate, Goto
  <2> QED BY <1>5, <2>1 DEF StartCreate, Goto
<1>6. CASE StartBuilt
  BY <1>6 DEF StartBuilt, Write, Goto
<1>7. CASE StartSave
  BY <1>7 DEF StartSave, Goto
<1>8. CASE StartFailing
  <2>1. CASE Fault(Starter, "writeUnknown")
    BY <1>8, <2>1 DEF Fault, Spend, StartFailing, Terminated, Goto
  <2> QED BY <1>8, <2>1 DEF StartFailing, Terminated, Goto
<1>9. CASE StartFailed
  BY <1>9 DEF StartFailed, Write, Goto
<1>10. ASSUME NEW t \in Threads, ReadCancel(t) PROVE LinkInv'
  BY <1>10 DEF ReadCancel, Goto
<1>11. ASSUME NEW t \in Threads, Attach(t) PROVE LinkInv'
  <2>1. CASE Fault(t, Raised(t))
    BY <1>11, <2>1 DEF Fault, Spend, Attach, Terminated, Raised, Goto
  <2> QED BY <1>11, <2>1 DEF Attach, Terminated, Raised, Goto
<1>12. ASSUME NEW t \in Threads, WatchEnter(t) PROVE LinkInv'
  BY <1>12 DEF WatchEnter, Goto
<1>13. ASSUME NEW t \in Threads, WatchCancel(t) PROVE LinkInv'
  <2>1. CASE Fault(t, "raise")
    BY <1>13, <2>1 DEF Fault, Spend, WatchCancel, Terminated, Goto
  <2> QED BY <1>13, <2>1 DEF WatchCancel, Terminated, Goto
<1>14. ASSUME NEW t \in Threads, WatchTunnel(t) PROVE LinkInv'
  <2>1. CASE Fault(t, "raise")
    BY <1>14, <2>1 DEF Fault, Spend, WatchTunnel, Goto
  <2> QED BY <1>14, <2>1 DEF WatchTunnel, Goto
<1>15. ASSUME NEW t \in Threads, WatchPublish(t) PROVE LinkInv'
  BY <1>15 DEF WatchPublish, Goto
<1>16. ASSUME NEW t \in Threads, WatchOver(t) PROVE LinkInv'
  <2>1. CASE Fault(t, "raise")
    BY <1>16, <2>1 DEF Fault, Spend, WatchOver, Goto
  <2> QED BY <1>16, <2>1 DEF WatchOver, Goto
<1>17. ASSUME NEW t \in Threads, WatchRecord(t) PROVE LinkInv'
  BY <1>17 DEF WatchRecord, Write, Goto
<1>18. ASSUME NEW t \in Threads, WatchLeave(t) PROVE LinkInv'
  BY <1>18 DEF WatchLeave, Raised, Goto
<1>19. ASSUME NEW t \in Threads, WriteUnknown(t) PROVE LinkInv'
  BY <1>19 DEF WriteUnknown, Write, Goto
<1>20. ASSUME NEW t \in Threads, ReadReady(t) PROVE LinkInv'
  BY <1>20 DEF ReadReady
<1>21. CASE StopRead
  BY <1>21 DEF StopRead, Spend, Idle
<1>22. CASE StopMark
  BY <1>22 DEF StopMark, Idle
<1>23. CASE StopTerminate
  BY <1>23 DEF StopTerminate, Terminated, Spend, Idle
<1>24. CASE Connect
  BY <1>24 DEF Connect, Spend, Starting
<1>25. CASE Connected
  BY <1>25 DEF Connected, Unlinked
<1>26. CASE BoxEnds
  BY <1>26 DEF BoxEnds
<1>27. CASE Crash
  BY <1>27 DEF Crash, Spend, Idle, Unlinked
<1>28. CASE UNCHANGED vars
  BY <1>28 DEF vars
<1> QED
  BY <1>1, <1>2, <1>3, <1>4, <1>5, <1>6, <1>7, <1>8, <1>9, <1>10, <1>11, <1>12, <1>13, <1>14, <1>15, <1>16, <1>17, <1>18, <1>19, <1>20, <1>21, <1>22, <1>23, <1>24, <1>25, <1>26, <1>27, <1>28
  DEF Next, ThreadStep, StartStep, WatchStep, Quiet

LEMMA FinishedNext ==
  ASSUME ~EarlyReconnect, TypeOK, PlaceInv, LinkInv, FinishedIsOver, [Next]_vars
  PROVE  FinishedIsOver'
<1> at \in [Threads -> Places]
  BY DEF TypeOK
<1> rec \in [status : Statuses, cancel : BOOLEAN, sandbox : BOOLEAN,
            ready : BOOLEAN, endpoint : BOOLEAN]
  BY DEF TypeOK
<1> linker \in [busy : BOOLEAN, status : Statuses, sandbox : BOOLEAN]
  BY DEF TypeOK
<1> box \in {"none", "up", "ok", "bad"}
  BY DEF TypeOK
<1> USE DEF PlaceInv, LinkInv, FinishedIsOver, BeforeSave, BeforeSandbox, AfterEnd, Terminal
<1>1. CASE Submit
  BY <1>1 DEF Submit, Absent, Goto
<1>2. CASE StartBegin
  BY <1>2 DEF StartBegin, Write, Goto
<1>3. CASE StartResolve
  <2>1. CASE Fault(Starter, "failing")
    BY <1>3, <2>1 DEF Fault, Spend, StartResolve, Goto
  <2> QED BY <1>3, <2>1 DEF StartResolve, Goto
<1>4. CASE StartCheck
  BY <1>4 DEF StartCheck, Write, Goto
<1>5. CASE StartCreate
  <2>1. CASE Fault(Starter, "failing")
    BY <1>5, <2>1 DEF Fault, Spend, StartCreate, Goto
  <2> QED BY <1>5, <2>1 DEF StartCreate, Goto
<1>6. CASE StartBuilt
  BY <1>6 DEF StartBuilt, Write, Goto
<1>7. CASE StartSave
  BY <1>7 DEF StartSave, Goto
<1>8. CASE StartFailing
  <2>1. CASE Fault(Starter, "writeUnknown")
    BY <1>8, <2>1 DEF Fault, Spend, StartFailing, Terminated, Goto
  <2> QED BY <1>8, <2>1 DEF StartFailing, Terminated, Goto
<1>9. CASE StartFailed
  BY <1>9 DEF StartFailed, Write, Goto
<1>10. ASSUME NEW t \in Threads, ReadCancel(t) PROVE FinishedIsOver'
  BY <1>10 DEF ReadCancel, Goto
<1>11. ASSUME NEW t \in Threads, Attach(t) PROVE FinishedIsOver'
  <2>1. CASE Fault(t, Raised(t))
    BY <1>11, <2>1 DEF Fault, Spend, Attach, Terminated, Raised, Goto
  <2> QED BY <1>11, <2>1 DEF Attach, Terminated, Raised, Goto
<1>12. ASSUME NEW t \in Threads, WatchEnter(t) PROVE FinishedIsOver'
  BY <1>12 DEF WatchEnter, Goto
<1>13. ASSUME NEW t \in Threads, WatchCancel(t) PROVE FinishedIsOver'
  <2>1. CASE Fault(t, "raise")
    BY <1>13, <2>1 DEF Fault, Spend, WatchCancel, Terminated, Goto
  <2> QED BY <1>13, <2>1 DEF WatchCancel, Terminated, Goto
<1>14. ASSUME NEW t \in Threads, WatchTunnel(t) PROVE FinishedIsOver'
  <2>1. CASE Fault(t, "raise")
    BY <1>14, <2>1 DEF Fault, Spend, WatchTunnel, Goto
  <2> QED BY <1>14, <2>1 DEF WatchTunnel, Goto
<1>15. ASSUME NEW t \in Threads, WatchPublish(t) PROVE FinishedIsOver'
  BY <1>15 DEF WatchPublish, Goto
<1>16. ASSUME NEW t \in Threads, WatchOver(t) PROVE FinishedIsOver'
  <2>1. CASE Fault(t, "raise")
    BY <1>16, <2>1 DEF Fault, Spend, WatchOver, Goto
  <2> QED BY <1>16, <2>1 DEF WatchOver, Goto
<1>17. ASSUME NEW t \in Threads, WatchRecord(t) PROVE FinishedIsOver'
  BY <1>17 DEF WatchRecord, Write, Goto
<1>18. ASSUME NEW t \in Threads, WatchLeave(t) PROVE FinishedIsOver'
  BY <1>18 DEF WatchLeave, Raised, Goto
<1>19. ASSUME NEW t \in Threads, WriteUnknown(t) PROVE FinishedIsOver'
  BY <1>19 DEF WriteUnknown, Write, Goto
<1>20. ASSUME NEW t \in Threads, ReadReady(t) PROVE FinishedIsOver'
  BY <1>20 DEF ReadReady
<1>21. CASE StopRead
  BY <1>21 DEF StopRead, Spend, Idle
<1>22. CASE StopMark
  BY <1>22 DEF StopMark, Idle
<1>23. CASE StopTerminate
  BY <1>23 DEF StopTerminate, Terminated, Spend, Idle
<1>24. CASE Connect
  BY <1>24 DEF Connect, Spend, Starting
<1>25. CASE Connected
  BY <1>25 DEF Connected, Unlinked
<1>26. CASE BoxEnds
  BY <1>26 DEF BoxEnds
<1>27. CASE Crash
  BY <1>27 DEF Crash, Spend, Idle, Unlinked
<1>28. CASE UNCHANGED vars
  BY <1>28 DEF vars
<1> QED
  BY <1>1, <1>2, <1>3, <1>4, <1>5, <1>6, <1>7, <1>8, <1>9, <1>10, <1>11, <1>12, <1>13, <1>14, <1>15, <1>16, <1>17, <1>18, <1>19, <1>20, <1>21, <1>22, <1>23, <1>24, <1>25, <1>26, <1>27, <1>28
  DEF Next, ThreadStep, StartStep, WatchStep, Quiet

LEMMA AttendedNext ==
  ASSUME ~EarlyReconnect, TypeOK, OneWatcher, PlaceInv, LinkInv, Attended, [Next]_vars
  PROVE  Attended'
<1> at \in [Threads -> Places]
  BY DEF TypeOK
<1> rec \in [status : Statuses, cancel : BOOLEAN, sandbox : BOOLEAN,
            ready : BOOLEAN, endpoint : BOOLEAN]
  BY DEF TypeOK
<1> USE DEF Attended, Live
<1>1. CASE Submit
  BY <1>1 DEF Submit, Absent, Goto
<1>2. CASE StartBegin
  <2>1. at'[Starter] \in {"resolve"}
    BY <1>2 DEF StartBegin, Write, Goto
  <2> QED BY <2>1
<1>3. CASE StartResolve
  <2>1. CASE Fault(Starter, "failing")
    BY <1>3, <2>1 DEF Fault, Spend, StartResolve, Goto
  <2> QED BY <1>3, <2>1 DEF StartResolve, Goto
<1>4. CASE StartCheck
  <2>1. CASE rec.cancel
    BY <1>4, <2>1 DEF StartCheck, Write, PlaceInv, BeforeSandbox
  <2>2. CASE ~rec.cancel
    <3>1. at'[Starter] = "create"
      BY <1>4, <2>2 DEF StartCheck, Goto
    <3> QED BY <3>1
  <2> QED BY <2>1, <2>2
<1>5. CASE StartCreate
  <2>1. at'[Starter] \in {"built", "created", "failing"}
    BY <1>5 DEF StartCreate, Fault, Goto
  <2> QED BY <2>1
<1>6. CASE StartBuilt
  BY <1>6 DEF StartBuilt, Write, PlaceInv, BeforeSandbox
<1>7. CASE StartSave
  BY <1>7 DEF StartSave, Goto
<1>8. CASE StartFailing
  <2>1. CASE Fault(Starter, "writeUnknown")
    BY <1>8, <2>1 DEF Fault, Spend, StartFailing, Terminated, Goto
  <2> QED BY <1>8, <2>1 DEF StartFailing, Terminated, Goto
<1>9. CASE StartFailed
  BY <1>9 DEF StartFailed, Write, PlaceInv
<1>10. ASSUME NEW t \in Threads, ReadCancel(t) PROVE Attended'
  <2>1. at'[t] \in {"writeBuilt", "writeRunning", "writeFailed", "writeOver"}
    BY <1>10 DEF ReadCancel, Goto
  <2> QED BY <2>1
<1>11. ASSUME NEW t \in Threads, Attach(t) PROVE Attended'
  <2>1. CASE Fault(t, Raised(t))
    BY <1>11, <2>1 DEF Fault, Spend, Attach, Terminated, Raised, Goto
  <2> QED BY <1>11, <2>1 DEF Attach, Terminated, Raised, Goto
<1>12. ASSUME NEW t \in Threads, WatchEnter(t) PROVE Attended'
  <2>1. CASE watching
    <3>1. PICK u \in Threads : Watches(u)
      BY <2>1 DEF OneWatcher
    <3>2. at'[u] = at[u] /\ Live(u)
      BY <1>12, <3>1 DEF WatchEnter, Goto, Watches
    <3> QED BY <3>2
  <2>2. CASE ~watching
    <3>1. at'[t] = "watch"
      BY <1>12, <2>2 DEF WatchEnter, Goto
    <3> QED BY <3>1
  <2> QED BY <2>1, <2>2
<1>13. ASSUME NEW t \in Threads, WatchCancel(t) PROVE Attended'
  <2>1. CASE Fault(t, "raise")
    BY <1>13, <2>1 DEF Fault, Spend, WatchCancel, Terminated, Goto
  <2> QED BY <1>13, <2>1 DEF WatchCancel, Terminated, Goto
<1>14. ASSUME NEW t \in Threads, WatchTunnel(t) PROVE Attended'
  <2>1. CASE Fault(t, "raise")
    BY <1>14, <2>1 DEF Fault, Spend, WatchTunnel, Goto
  <2> QED BY <1>14, <2>1 DEF WatchTunnel, Goto
<1>15. ASSUME NEW t \in Threads, WatchPublish(t) PROVE Attended'
  BY <1>15 DEF WatchPublish, Goto
<1>16. ASSUME NEW t \in Threads, WatchOver(t) PROVE Attended'
  <2>1. CASE Fault(t, "raise")
    BY <1>16, <2>1 DEF Fault, Spend, WatchOver, Goto
  <2> QED BY <1>16, <2>1 DEF WatchOver, Goto
<1>17. ASSUME NEW t \in Threads, WatchRecord(t) PROVE Attended'
  BY <1>17 DEF WatchRecord, Write, Goto
<1>18. ASSUME NEW t \in Threads, WatchLeave(t) PROVE Attended'
  <2>1. CASE at[t] = "leave"
    BY <1>18, <2>1 DEF WatchLeave, PlaceInv, AfterEnd
  <2>2. CASE at[t] = "raise"
    <3>1. Raised(t) \in {"failing", "writeUnknown"}
      BY DEF Raised
    <3>2. at'[t] = Raised(t)
      BY <1>18, <2>2 DEF WatchLeave, Goto
    <3> QED BY <3>1, <3>2
  <2> QED BY <1>18, <2>1, <2>2 DEF WatchLeave
<1>19. ASSUME NEW t \in Threads, WriteUnknown(t) PROVE Attended'
  BY <1>19 DEF WriteUnknown, Write, Goto
<1>20. ASSUME NEW t \in Threads, ReadReady(t) PROVE Attended'
  BY <1>20 DEF ReadReady
<1>21. CASE StopRead
  BY <1>21 DEF StopRead, Spend, Idle
<1>22. CASE StopMark
  BY <1>22 DEF StopMark, Idle
<1>23. CASE StopTerminate
  BY <1>23 DEF StopTerminate, Terminated, Spend, Idle
<1>24. CASE Connect
  BY <1>24 DEF Connect, Spend, Starting
<1>25. CASE Connected
  <2>1. CASE linker.status \notin Terminal /\ linker.sandbox
    <3>1. spent.connects \in Threads
      BY DEF TypeOK
    <3>2. at'[spent.connects] = "attached"
      BY <1>25, <2>1, <3>1 DEF Connected
    <3> QED BY <3>1, <3>2
  <2>2. CASE ~linker.sandbox
    BY <1>25, <2>2 DEF Connected, LinkInv
  <2>3. CASE linker.status \in Terminal /\ linker.sandbox
    BY <1>25, <2>3 DEF Connected, LinkInv
  <2> QED BY <2>1, <2>2, <2>3
<1>26. CASE BoxEnds
  BY <1>26 DEF BoxEnds
<1>27. CASE Crash
  BY <1>27 DEF Crash, Spend, Idle, Unlinked
<1>28. CASE UNCHANGED vars
  BY <1>28 DEF vars
<1> QED
  BY <1>1, <1>2, <1>3, <1>4, <1>5, <1>6, <1>7, <1>8, <1>9, <1>10, <1>11, <1>12, <1>13, <1>14, <1>15, <1>16, <1>17, <1>18, <1>19, <1>20, <1>21, <1>22, <1>23, <1>24, <1>25, <1>26, <1>27, <1>28
  DEF Next, ThreadStep, StartStep, WatchStep, Quiet

-----------------------------------------------------------------------------
LEMMA NextIInv == IInv /\ [Next]_vars => IInv'
<1> SUFFICES ASSUME IInv, [Next]_vars PROVE IInv'
  OBVIOUS
<1> USE DEF IInv
<1>1. TypeOK'
  BY TypesNext
<1>2. BirthInv'
  BY BirthNext
<1>3. OneWatcher'
  BY WatcherNext
<1>4. PlaceInv'
  BY PlaceNext
<1>5. SandboxInv'
  BY LinkNext, FinishedNext, AttendedNext DEF SandboxInv
<1> QED BY <1>1, <1>2, <1>3, <1>4, <1>5

\* The invariant the other theorems rest on, for every number of connections,
\* crashes, faults and stops.
THEOREM IInvHolds == Spec => []IInv
BY InitIInv, NextIInv, PTL DEF Spec

\* Every variable keeps its type.
THEOREM TypesHold == Spec => []TypeOK
<1>1. IInv => TypeOK
  BY DEF IInv
<1> QED BY <1>1, IInvHolds, PTL

\* Never two threads that watch the job, and the mark of Controller.watching is
\* set exactly while one does.
THEOREM OneWatcherHolds == Spec => []OneWatcher
<1>1. IInv => OneWatcher
  BY DEF IInv
<1> QED BY <1>1, IInvHolds, PTL

\* Unless somebody connects while a start has saved no sandbox_id, no record
\* says finished while its sandbox runs.
THEOREM FinishedHolds == ASSUME ~EarlyReconnect PROVE Spec => []FinishedIsOver
<1>1. IInv => FinishedIsOver
  BY DEF IInv, SandboxInv
<1> QED BY <1>1, IInvHolds, PTL

\* Under the same condition a running sandbox is never forgotten.
THEOREM AttendedHolds == ASSUME ~EarlyReconnect PROVE Spec => []Attended
<1>1. IInv => Attended
  BY DEF IInv, SandboxInv
<1> QED BY <1>1, IInvHolds, PTL

\* And what connect records is true: a job it calls failed for want of a
\* sandbox_id has no start under way and no sandbox.
THEOREM FailedMeansStoppedHolds ==
  ASSUME ~EarlyReconnect PROVE Spec => FailedMeansStopped
<1>1. ASSUME IInv, Connected, rec'.status # rec.status
      PROVE  ~Live(Starter) /\ ~rec.sandbox
  <2>1. linker.busy /\ ~linker.sandbox
    BY <1>1 DEF Connected
  <2> QED BY <1>1, <2>1 DEF IInv, SandboxInv, LinkInv, Live
<1>2. IInv => [Connected /\ rec'.status # rec.status => ~Live(Starter) /\ ~rec.sandbox]_vars
  BY <1>1
<1> QED BY <1>2, IInvHolds, PTL DEF FailedMeansStopped
=============================================================================
