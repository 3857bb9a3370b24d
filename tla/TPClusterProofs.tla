-------------------------- MODULE TPClusterProofs --------------------------
(***************************************************************************)
(* The coordinator gives every rank one order of commands, keeps exactly   *)
(* the calls in its table that may still be woken, and loses no result,    *)
(* for any number of ranks and calls, whoever gives up, raises, dies or    *)
(* closes the cluster.                                                     *)
(*                                                                         *)
(* One order rests on what the holder of the lock has done so far          *)
(* (SendInv); that a call which returns was answered by every rank it      *)
(* awaited, on what has become of the ranks it does not wait for any more  *)
(* (WaitInv), and that on a result carrying the name of the rank that      *)
(* handled its command all the way to the pump (ResultInv).                *)
(***************************************************************************)
EXTENDS TPCluster, TLAPS, SequenceTheorems

Results == [rank : Ranks, req : Calls, ok : BOOLEAN]
LastRank == WorldSize - 1

CallTypes ==
  /\ caller \in [Calls -> {"new", "registered", "sending", "waiting"} \cup Done]
  /\ table \subseteq Calls /\ loops \subseteq Async
  /\ waiting \in [Calls -> SUBSET Ranks]
  /\ outcome \in [Calls -> {"none", "returned", "raised"}]
  /\ lock \in Calls \cup {NoCall}
  /\ worker \in [Ranks -> {"up", "exiting", "exited", "killed"}]
  /\ pump \in {"top", "get", "apply", "scan", "stopped", "crashed"}
  /\ snap \subseteq Calls
  /\ closing \in {"no", "stopping", "closed"} /\ kills \in 0 .. MaxKills

\* A result names the rank it comes from, and a command that rank has handled.
ResultInv ==
  /\ sent \in [Ranks -> Seq(Calls)] /\ handled \in [Ranks -> SUBSET Calls]
  /\ outbox \in [Ranks -> Seq(Results)] /\ resultQ \in Seq(Results)
  /\ hand \in Results \cup {NoResult} /\ (hand # NoResult <=> pump = "apply")
  /\ \A r \in Ranks :
       /\ IsInjective(sent[r]) /\ handled[r] \subseteq ToSet(sent[r])
       /\ \A i \in DOMAIN outbox[r] :
            outbox[r][i].rank = r /\ outbox[r][i].req \in handled[r]
  /\ \A i \in DOMAIN resultQ : resultQ[i].req \in handled[resultQ[i].rank]
  /\ pump = "apply" => hand.req \in handled[hand.rank]

\* The caller that holds the lock has put its command on some of the queues,
\* which are equal otherwise.
SendInv ==
  /\ \A c \in Calls : lock = c <=> caller[c] = "sending"
  /\ \A c \in Calls : caller[c] \in {"new", "registered"} =>
       \A r \in Ranks : c \notin ToSet(sent[r])
  /\ closing # "closed" =>
       \A r \in Ranks :
         \/ lock \notin ToSet(sent[r]) /\ sent[r] = sent[LastRank]
         \/ lock \notin ToSet(sent[LastRank]) /\ sent[r] = Append(sent[LastRank], lock)

Unsent(c) == \A r \in Ranks : c \notin ToSet(sent[r])

\* A rank a call does not wait for any more has answered it, unless the call was
\* never made; a call of the table waits for some rank.
WaitInv ==
  \A c \in Calls :
    /\ caller[c] = "new" => outcome[c] = "none" /\ waiting[c] = {}
    /\ \/ \A r \in Awaited[c] \ waiting[c] : c \in handled[r]
       \/ waiting[c] = {} /\ Unsent(c) /\ caller[c] \in {"new", "raised"}
    /\ c \in table => waiting[c] # {}

IInv ==
  CallTypes /\ ResultInv /\ SendInv /\ OneOrder /\ WaitInv /\ TableExact /\ NothingLost

-----------------------------------------------------------------------------
USE DEF callVars, sendVars, workVars, pumpVars

LEMMA AppendFacts ==
  ASSUME NEW S, NEW s \in Seq(S), NEW x \in S
  PROVE  /\ Append(s, x) \in Seq(S) /\ Append(s, x) # s
         /\ \A i \in DOMAIN s : i \in DOMAIN Append(s, x) /\ Append(s, x)[i] = s[i]
         /\ \A i \in DOMAIN Append(s, x) : Append(s, x)[i] = x \/ i \in DOMAIN s
         /\ \E i \in DOMAIN Append(s, x) : Append(s, x)[i] = x
         /\ ToSet(Append(s, x)) = ToSet(s) \cup {x}
         /\ IsInjective(s) /\ x \notin ToSet(s) => IsInjective(Append(s, x))
         /\ IsPrefix(s, s) /\ IsPrefix(s, Append(s, x))
<1> DEFINE t == Append(s, x)
<1>1. /\ t \in Seq(S) /\ Len(s) \in Nat /\ Len(t) = Len(s) + 1
      /\ DOMAIN s = 1 .. Len(s) /\ DOMAIN t = 1 .. Len(s) + 1
      /\ t[Len(s) + 1] = x /\ \A i \in 1 .. Len(s) : t[i] = s[i]
  OBVIOUS
<1> HIDE DEF t
<1>2. t # s
  BY <1>1
<1>3. \A i \in DOMAIN s : i \in DOMAIN t /\ t[i] = s[i]
  BY <1>1
<1>4. \A i \in DOMAIN t : i = Len(s) + 1 \/ i \in DOMAIN s
  BY <1>1
<1>5. ToSet(t) = ToSet(s) \cup {x}
  <2>1. \A i \in DOMAIN t : t[i] \in ToSet(s) \cup {x}
    BY <1>1, <1>3, <1>4 DEF ToSet
  <2>2. \A i \in DOMAIN s : s[i] \in ToSet(t)
    BY <1>3 DEF ToSet
  <2>3. x \in ToSet(t)
    BY <1>1 DEF ToSet
  <2> QED BY <2>1, <2>2, <2>3 DEF ToSet
<1>6. IsInjective(s) /\ x \notin ToSet(s) => IsInjective(t)
  <2> SUFFICES ASSUME IsInjective(s), x \notin ToSet(s),
                      NEW i \in DOMAIN t, NEW j \in DOMAIN t, t[i] = t[j]
               PROVE  i = j
    BY DEF IsInjective
  <2>1. \A k \in DOMAIN s : t[k] # x
    BY <1>3 DEF ToSet
  <2> QED BY <1>1, <1>3, <1>4, <2>1 DEF IsInjective
<1>7. IsPrefix(s, s) /\ IsPrefix(s, t)
  <2>1. SubSeq(s, 1, Len(s)) = [i \in 1 .. Len(s) |-> s[i]]
    BY <1>1
  <2>2. SubSeq(t, 1, Len(s)) = [i \in 1 .. Len(s) |-> t[i]]
    BY <1>1
  <2>3. SubSeq(s, 1, Len(s)) = SubSeq(t, 1, Len(s))
    BY <2>1, <2>2, <1>1
  <2>4. Len(s) <= Len(s) /\ Len(s) <= Len(t)
    BY <1>1
  <2> QED BY <2>3, <2>4 DEF IsPrefix
<1>8. \E i \in DOMAIN t : t[i] = x
  <2>1. Len(s) + 1 \in DOMAIN t
    BY <1>1
  <2> QED BY <2>1, <1>1
<1>9. \A i \in DOMAIN t : t[i] = x \/ i \in DOMAIN s
  BY <1>1, <1>4
<1> QED BY <1>1, <1>2, <1>3, <1>5, <1>6, <1>7, <1>8, <1>9 DEF t

LEMMA TailFacts ==
  ASSUME NEW S, NEW s \in Seq(S), s # <<>>
  PROVE  /\ Tail(s) \in Seq(S) /\ 1 \in DOMAIN s /\ Head(s) = s[1] /\ Head(s) \in S
         /\ \A i \in DOMAIN Tail(s) : i + 1 \in DOMAIN s /\ Tail(s)[i] = s[i + 1]
         /\ \A i \in DOMAIN s :
              s[i] = Head(s) \/ \E j \in DOMAIN Tail(s) : Tail(s)[j] = s[i]
<1> DEFINE t == Tail(s)
<1>1. /\ t \in Seq(S) /\ Len(s) \in Nat /\ Len(s) > 0 /\ Len(t) = Len(s) - 1
      /\ DOMAIN s = 1 .. Len(s) /\ DOMAIN t = 1 .. Len(s) - 1
      /\ Head(s) = s[1] /\ \A i \in 1 .. Len(s) - 1 : t[i] = s[i + 1]
  BY HeadTailProperties, EmptySeq
<1> HIDE DEF t
<1>2. \A i \in DOMAIN t : i + 1 \in DOMAIN s /\ t[i] = s[i + 1]
  BY <1>1
<1>3. 1 \in DOMAIN s /\ s[1] \in S
  BY <1>1, ElementOfSeq
<1>4. ASSUME NEW i \in DOMAIN s
      PROVE  s[i] = s[1] \/ \E j \in DOMAIN t : t[j] = s[i]
  <2>1. CASE i = 1
    BY <2>1
  <2>2. CASE i # 1
    <3>1. i - 1 \in DOMAIN t /\ t[i - 1] = s[i]
      BY <1>1, <2>2
    <3> QED BY <3>1
  <2> QED BY <2>1, <2>2
<1> QED BY <1>1, <1>2, <1>3, <1>4 DEF t

LEMMA RankFacts ==
  /\ LastRank \in Ranks /\ NoCall \notin Calls
  /\ \A r \in Ranks : r \in Nat /\ r <= LastRank
BY ClusterAssumption DEF Ranks, LastRank

-----------------------------------------------------------------------------
LEMMA InitIInv == Init => IInv
<1> SUFFICES ASSUME Init PROVE IInv
  OBVIOUS
<1>1. CallTypes
  BY ClusterAssumption DEF Init, CallTypes, Done
<1>2. \A r \in Ranks : sent[r] = <<>> /\ ToSet(sent[r]) = {} /\ DOMAIN outbox[r] = {}
  BY DEF Init, ToSet
<1>3. ResultInv
  <2>1. sent \in [Ranks -> Seq(Calls)] /\ outbox \in [Ranks -> Seq(Results)]
        /\ resultQ \in Seq(Results) /\ DOMAIN resultQ = {}
    BY DEF Init
  <2>2. \A r \in Ranks : IsInjective(sent[r])
    BY DEF Init, IsInjective
  <2> QED BY <1>2, <2>1, <2>2 DEF Init, ResultInv
<1>4. SendInv
  BY <1>2, RankFacts DEF Init, SendInv
<1>5. OneOrder
  BY <1>2 DEF OneOrder, IsPrefix
<1>6. WaitInv /\ TableExact
  BY <1>2 DEF Init, WaitInv, TableExact, Unsent
<1>7. NothingLost
  BY DEF Init, NothingLost
<1> QED BY <1>1, <1>3, <1>4, <1>5, <1>6, <1>7 DEF IInv

LEMMA CallTypesNext ==
  ASSUME CallTypes, ResultInv, [Next]_vars
  PROVE  CallTypes'
<1> USE DEF CallTypes, Done
<1>1. ASSUME NEW c \in Calls, CallerStep(c) \/ GiveUp(c) \/ CloseLoop(c) PROVE CallTypes'
  <2>1. CASE Register(c)
    BY <2>1, ClusterAssumption DEF Register
  <2>2. CASE SubmitClosed(c) \/ AcquireSend(c) \/ SendClosed(c)
    BY <2>2 DEF SubmitClosed, AcquireSend, SendClosed
  <2>3. CASE SendNext(c)
    <3>1. lock' \in Calls \cup {NoCall} /\ caller' \in [Calls -> {"new", "registered", "sending", "waiting"} \cup Done]
      BY <2>3 DEF SendNext
    <3> QED BY <2>3, <3>1 DEF SendNext
  <2>4. CASE Wake(c) \/ GiveUp(c) \/ CloseLoop(c)
    BY <2>4 DEF Wake, GiveUp, CloseLoop
  <2> QED BY <1>1, <2>1, <2>2, <2>3, <2>4 DEF CallerStep
<1>2. ASSUME NEW r \in Ranks, WorkerStep(r) \/ Flush(r) \/ Kill(r) PROVE CallTypes'
  <2>1. CASE Exit(r) \/ Flush(r)
    BY <2>1 DEF Exit, Flush
  <2>2. CASE Kill(r)
    BY <2>2, ClusterAssumption DEF Kill
  <2>3. ASSUME NEW c \in Calls, Handle(r, c) PROVE CallTypes'
    BY <2>3 DEF Handle
  <2> QED BY <1>2, <2>1, <2>2, <2>3 DEF WorkerStep
<1>3. CASE PumpStep
  <2>1. CASE PumpTop \/ PumpTake \/ PumpEmpty \/ PumpScanned
    BY <2>1 DEF PumpTop, PumpTake, PumpEmpty, PumpScanned
  <2>2. CASE PumpApply
    BY <2>2 DEF PumpApply, Finish, AfterFinish
  <2>3. CASE PumpScan
    BY <2>3 DEF PumpScan, Finish, AfterFinish
  <2> QED BY <1>3, <2>1, <2>2, <2>3 DEF PumpStep
<1>4. CASE BeginClose \/ EndClose
  BY <1>4 DEF BeginClose, EndClose
<1>5. CASE UNCHANGED vars
  BY <1>5 DEF vars
<1> QED BY <1>1, <1>2, <1>3, <1>4, <1>5 DEF Next, Settled

LEMMA ResultKept ==
  ASSUME ResultInv, UNCHANGED <<sent, handled, outbox, resultQ, hand>>,
         pump' = "apply" <=> pump = "apply"
  PROVE  ResultInv'
BY DEF ResultInv

\* A command is appended to one queue, which did not have it.
LEMMA SentAppended ==
  ASSUME ResultInv, NEW r \in Ranks, NEW c \in Calls, c \notin ToSet(sent[r]),
         sent' = [sent EXCEPT ![r] = Append(@, c)]
  PROVE  /\ sent' \in [Ranks -> Seq(Calls)] /\ sent'[r] = Append(sent[r], c)
         /\ ToSet(sent'[r]) = ToSet(sent[r]) \cup {c} /\ IsInjective(sent'[r])
         /\ \A q \in Ranks \ {r} : sent'[q] = sent[q]
<1>1. sent[r] \in Seq(Calls) /\ sent \in [Ranks -> Seq(Calls)] /\ IsInjective(sent[r])
  BY DEF ResultInv
<1>2. sent'[r] = Append(sent[r], c) /\ \A q \in Ranks \ {r} : sent'[q] = sent[q]
  BY <1>1
<1>3. /\ Append(sent[r], c) \in Seq(Calls) /\ IsInjective(Append(sent[r], c))
      /\ ToSet(Append(sent[r], c)) = ToSet(sent[r]) \cup {c}
  BY <1>1, AppendFacts
<1>4. sent' \in [Ranks -> Seq(Calls)]
  BY <1>1, <1>3
<1> QED BY <1>2, <1>3, <1>4

LEMMA NoResultFacts == NoResult \notin Results
BY RankFacts DEF NoResult, Result, Results

LEMMA ResultNext ==
  ASSUME CallTypes, ResultInv, [Next]_vars
  PROVE  ResultInv'
<1>1. ASSUME NEW c \in Calls, CallerStep(c) \/ GiveUp(c) \/ CloseLoop(c) PROVE ResultInv'
  <2>1. CASE SendNext(c)
    <3>1. PICK r \in Ranks : /\ \A q \in Ranks : c \in ToSet(sent[q]) <=> q < r
                             /\ sent' = [sent EXCEPT ![r] = Append(@, c)]
      BY <2>1 DEF SendNext
    <3>2. c \notin ToSet(sent[r])
      BY <3>1, RankFacts
    <3>3. /\ sent' \in [Ranks -> Seq(Calls)]
          /\ \A q \in Ranks : IsInjective(sent'[q]) /\ ToSet(sent[q]) \subseteq ToSet(sent'[q])
      <4>1. /\ sent' \in [Ranks -> Seq(Calls)] /\ IsInjective(sent'[r])
            /\ ToSet(sent[r]) \subseteq ToSet(sent'[r])
            /\ \A q \in Ranks \ {r} : sent'[q] = sent[q]
        BY <3>1, <3>2, SentAppended
      <4> QED BY <4>1 DEF ResultInv
    <3>4. UNCHANGED <<handled, outbox, resultQ, hand, pump>>
      BY <2>1 DEF SendNext
    <3> QED BY <3>3, <3>4 DEF ResultInv
  <2>2. CASE ~SendNext(c)
    <3>1. UNCHANGED <<sent, handled, outbox, resultQ, hand, pump>>
      BY <1>1, <2>2 DEF CallerStep, Register, SubmitClosed, AcquireSend, SendClosed,
                        Wake, GiveUp, CloseLoop
    <3> QED BY <3>1, ResultKept
  <2> QED BY <2>1, <2>2
<1>2. ASSUME NEW r \in Ranks, NEW c \in Calls, Handle(r, c) PROVE ResultInv'
  <2>1. PICK ok \in BOOLEAN : outbox' = [outbox EXCEPT ![r] = Append(@, Result(r, c, ok))]
    BY <1>2 DEF Handle
  <2> DEFINE m == Result(r, c, ok)
  <2>2. m \in Results /\ m.rank = r /\ m.req = c
    BY DEF Result, Results
  <2>3. outbox[r] \in Seq(Results) /\ outbox \in [Ranks -> Seq(Results)]
        /\ handled \in [Ranks -> SUBSET Calls]
    BY DEF ResultInv
  <2>4. outbox' = [outbox EXCEPT ![r] = Append(outbox[r], m)]
    BY <2>1
  <2> HIDE DEF m
  <2>5. /\ Append(outbox[r], m) \in Seq(Results)
        /\ \A i \in DOMAIN outbox[r] : Append(outbox[r], m)[i] = outbox[r][i]
        /\ \A i \in DOMAIN Append(outbox[r], m) :
             Append(outbox[r], m)[i] = m \/ i \in DOMAIN outbox[r]
    BY <2>2, <2>3, AppendFacts
  <2>6. outbox' \in [Ranks -> Seq(Results)] /\ outbox'[r] = Append(outbox[r], m)
        /\ \A q \in Ranks \ {r} : outbox'[q] = outbox[q]
    BY <2>3, <2>4, <2>5
  <2>7. /\ handled' = [handled EXCEPT ![r] = handled[r] \cup {c}] /\ c \in ToSet(sent[r])
        /\ UNCHANGED <<sent, resultQ, hand, pump>>
    BY <1>2 DEF Handle
  <2>8. /\ handled' \in [Ranks -> SUBSET Calls] /\ c \in handled'[r]
        /\ \A q \in Ranks : handled[q] \subseteq handled'[q] /\ handled'[q] \subseteq ToSet(sent'[q])
    BY <2>3, <2>7 DEF ResultInv
  <2>9. ASSUME NEW q \in Ranks, NEW i \in DOMAIN outbox'[q]
        PROVE  outbox'[q][i].rank = q /\ outbox'[q][i].req \in handled'[q]
    <3>1. CASE q # r
      BY <3>1, <2>6, <2>8 DEF ResultInv
    <3>2. CASE q = r /\ outbox'[q][i] = m
      BY <3>2, <2>2, <2>8
    <3>3. CASE q = r /\ i \in DOMAIN outbox[r]
      BY <3>3, <2>5, <2>6, <2>8 DEF ResultInv
    <3> QED BY <3>1, <3>2, <3>3, <2>5, <2>6
  <2>10. \A i \in DOMAIN resultQ' : resultQ'[i].req \in handled'[resultQ'[i].rank]
    <3>1. ASSUME NEW i \in DOMAIN resultQ PROVE resultQ[i].rank \in Ranks
      <4>1. resultQ \in Seq(Results) /\ i \in 1 .. Len(resultQ)
        BY LenProperties DEF ResultInv
      <4>2. resultQ[i] \in Results
        BY <4>1, ElementOfSeq
      <4> QED BY <4>2 DEF Results
    <3> QED BY <3>1, <2>7, <2>8 DEF ResultInv
  <2>11. pump' = "apply" => hand'.req \in handled'[hand'.rank]
    <3>1. pump = "apply" => hand.rank \in Ranks
      BY DEF ResultInv, Results
    <3> QED BY <3>1, <2>7, <2>8 DEF ResultInv
  <2> QED BY <2>6, <2>7, <2>8, <2>9, <2>10, <2>11 DEF ResultInv
<1>3. ASSUME NEW r \in Ranks, Flush(r) PROVE ResultInv'
  <2>1. outbox[r] \in Seq(Results) /\ outbox[r] # <<>> /\ outbox \in [Ranks -> Seq(Results)]
        /\ resultQ \in Seq(Results)
    BY <1>3 DEF Flush, ResultInv
  <2> DEFINE m == Head(outbox[r])
  <2>2. /\ m \in Results /\ Tail(outbox[r]) \in Seq(Results)
        /\ m.rank = r /\ m.req \in handled[r]
        /\ \A i \in DOMAIN Tail(outbox[r]) :
             i + 1 \in DOMAIN outbox[r] /\ Tail(outbox[r])[i] = outbox[r][i + 1]
    BY <2>1, TailFacts DEF ResultInv
  <2>3. resultQ' = Append(resultQ, m) /\ outbox' = [outbox EXCEPT ![r] = Tail(outbox[r])]
        /\ UNCHANGED <<sent, handled, hand, pump>>
    BY <1>3 DEF Flush
  <2> HIDE DEF m
  <2>4. outbox' \in [Ranks -> Seq(Results)] /\ outbox'[r] = Tail(outbox[r])
        /\ \A q \in Ranks \ {r} : outbox'[q] = outbox[q]
    BY <2>1, <2>2, <2>3
  <2>5. /\ resultQ' \in Seq(Results)
        /\ \A i \in DOMAIN resultQ : resultQ'[i] = resultQ[i]
        /\ \A i \in DOMAIN resultQ' : resultQ'[i] = m \/ i \in DOMAIN resultQ
    <3>1. resultQ \in Seq(Results) /\ m \in Results
      BY <2>1, <2>2
    <3>2. /\ Append(resultQ, m) \in Seq(Results)
          /\ \A i \in DOMAIN resultQ : Append(resultQ, m)[i] = resultQ[i]
          /\ \A i \in DOMAIN Append(resultQ, m) :
               Append(resultQ, m)[i] = m \/ i \in DOMAIN resultQ
      BY <3>1, AppendFacts
    <3> QED BY <3>2, <2>3
  <2>6. ASSUME NEW i \in DOMAIN resultQ'
        PROVE  resultQ'[i].req \in handled'[resultQ'[i].rank]
    <3>1. CASE resultQ'[i] = m
      BY <3>1, <2>2, <2>3
    <3>2. CASE i \in DOMAIN resultQ
      <4>1. resultQ'[i] = resultQ[i]
        BY <3>2, <2>5
      <4>2. resultQ[i].req \in handled[resultQ[i].rank]
        BY <3>2 DEF ResultInv
      <4> QED BY <4>1, <4>2, <2>3
    <3> QED BY <3>1, <3>2, <2>5
  <2>7. ASSUME NEW q \in Ranks, NEW i \in DOMAIN outbox'[q]
        PROVE  outbox'[q][i].rank = q /\ outbox'[q][i].req \in handled'[q]
    <3>1. CASE q # r
      BY <3>1, <2>3, <2>4 DEF ResultInv
    <3>2. CASE q = r
      <4>1. i + 1 \in DOMAIN outbox[r] /\ outbox'[r][i] = outbox[r][i + 1]
        BY <3>2, <2>2, <2>4
      <4> QED BY <3>2, <4>1, <2>3 DEF ResultInv
    <3> QED BY <3>1, <3>2
  <2> QED BY <2>3, <2>4, <2>5, <2>6, <2>7 DEF ResultInv
<1>4. ASSUME NEW r \in Ranks, Exit(r) PROVE ResultInv'
  BY <1>4, ResultKept DEF Exit
<1>5. ASSUME NEW r \in Ranks, Kill(r) PROVE ResultInv'
  <2>1. outbox' \in [Ranks -> Seq(Results)]
        /\ \A q \in Ranks : outbox'[q] = <<>> \/ outbox'[q] = outbox[q]
    BY <1>5 DEF Kill, ResultInv
  <2>2. UNCHANGED <<sent, handled, resultQ, hand, pump>>
    BY <1>5 DEF Kill
  <2> QED BY <2>1, <2>2 DEF ResultInv
<1>6. CASE EndClose
  <2>1. outbox' \in [Ranks -> Seq(Results)] /\ \A q \in Ranks : outbox'[q] = <<>>
    BY <1>6 DEF EndClose, ResultInv
  <2>2. UNCHANGED <<sent, handled, resultQ, hand, pump>>
    BY <1>6 DEF EndClose
  <2> QED BY <2>1, <2>2 DEF ResultInv
<1>7. CASE PumpTop \/ PumpEmpty \/ PumpScanned \/ PumpScan \/ BeginClose \/ UNCHANGED vars
  <2>1. UNCHANGED <<sent, handled, outbox, resultQ, hand>>
    BY <1>7 DEF PumpTop, PumpEmpty, PumpScanned, PumpScan, BeginClose, vars
  <2>2. pump' = "apply" <=> pump = "apply"
    BY <1>7 DEF PumpTop, PumpEmpty, PumpScanned, PumpScan, AfterFinish, BeginClose, vars
  <2> QED BY <2>1, <2>2, ResultKept
<1>8. CASE PumpTake
  <2>1. resultQ \in Seq(Results) /\ resultQ # <<>>
    BY <1>8 DEF PumpTake, ResultInv
  <2>2. /\ Head(resultQ) \in Results /\ Tail(resultQ) \in Seq(Results)
        /\ Head(resultQ).req \in handled[Head(resultQ).rank]
        /\ \A i \in DOMAIN Tail(resultQ) :
             i + 1 \in DOMAIN resultQ /\ Tail(resultQ)[i] = resultQ[i + 1]
    BY <2>1, TailFacts DEF ResultInv
  <2>3. resultQ' = Tail(resultQ) /\ UNCHANGED <<sent, handled, outbox>>
    BY <1>8 DEF PumpTake
  <2>4. \A i \in DOMAIN resultQ' : resultQ'[i].req \in handled'[resultQ'[i].rank]
    BY <2>2, <2>3 DEF ResultInv
  <2>5. \/ pump' = "apply" /\ hand' = Head(resultQ)
        \/ pump' = "top" /\ hand' = hand /\ hand = NoResult
    BY <1>8 DEF PumpTake, ResultInv
  <2>6. hand' \in Results \cup {NoResult} /\ (hand' # NoResult <=> pump' = "apply")
        /\ (pump' = "apply" => hand'.req \in handled'[hand'.rank])
    BY <2>2, <2>3, <2>5, NoResultFacts
  <2> QED BY <2>2, <2>3, <2>4, <2>6 DEF ResultInv
<1>9. CASE PumpApply
  <2>1. UNCHANGED <<sent, handled, outbox, resultQ>> /\ hand' = NoResult
    BY <1>9 DEF PumpApply
  <2>2. pump' # "apply"
    BY <1>9 DEF PumpApply, AfterFinish
  <2> QED BY <2>1, <2>2 DEF ResultInv
<1> QED BY <1>1, <1>2, <1>3, <1>4, <1>5, <1>6, <1>7, <1>8, <1>9
        DEF Next, WorkerStep, PumpStep, Settled

-----------------------------------------------------------------------------
LEMMA SendKept ==
  ASSUME SendInv, OneOrder, UNCHANGED <<lock, sent>>,
         \A c \in Calls : caller'[c] = "sending" <=> caller[c] = "sending",
         \A c \in Calls : caller'[c] \in {"new", "registered"} =>
                            caller[c] \in {"new", "registered"},
         closing' # "closed" => closing # "closed"
  PROVE  SendInv' /\ OneOrder'
BY DEF SendInv, OneOrder

LEMMA SendStep ==
  ASSUME CallTypes, ResultInv, SendInv, NEW c \in Calls, SendNext(c)
  PROVE  SendInv' /\ OneOrder'
<1>1. PICK r \in Ranks :
        /\ \A q \in Ranks : c \in ToSet(sent[q]) <=> q < r
        /\ sent' = [sent EXCEPT ![r] = Append(@, c)]
        /\ IF r = WorldSize - 1
           THEN lock' = NoCall /\ caller' = [caller EXCEPT ![c] = "waiting"]
           ELSE UNCHANGED <<lock, caller>>
  BY DEF SendNext
<1>2. c \notin ToSet(sent[r])
  BY <1>1, RankFacts
<1>3. /\ sent' \in [Ranks -> Seq(Calls)] /\ sent'[r] = Append(sent[r], c)
      /\ ToSet(sent'[r]) = ToSet(sent[r]) \cup {c}
      /\ \A q \in Ranks \ {r} : sent'[q] = sent[q]
  BY <1>1, <1>2, SentAppended
<1>4. caller[c] = "sending" /\ lock = c /\ closing # "closed" /\ closing' = closing
  BY DEF SendNext, SendInv
<1> DEFINE s == sent[LastRank]
<1>5. s \in Seq(Calls) /\ c \notin ToSet(s)
  BY <1>1, RankFacts DEF ResultInv
<1>6. \A q \in Ranks : IF q < r THEN sent[q] = Append(s, c) ELSE sent[q] = s
  <2> SUFFICES ASSUME NEW q \in Ranks
               PROVE  IF q < r THEN sent[q] = Append(s, c) ELSE sent[q] = s
    OBVIOUS
  <2>1. \/ c \notin ToSet(sent[q]) /\ sent[q] = s
        \/ sent[q] = Append(s, c)
    BY <1>4 DEF SendInv
  <2>2. ToSet(Append(s, c)) = ToSet(s) \cup {c}
    BY <1>5, AppendFacts
  <2> QED BY <2>1, <2>2, <1>1
<1>7. sent'[r] = Append(s, c)
  BY <1>3, <1>6, RankFacts
<1>8. \A d \in Calls : caller'[d] \in {"new", "registered"} =>
        d # c /\ caller[d] \in {"new", "registered"}
  BY <1>1, <1>4 DEF CallTypes
<1>9. \A d \in Calls : caller'[d] \in {"new", "registered"} =>
        \A q \in Ranks : d \notin ToSet(sent'[q])
  BY <1>3, <1>8 DEF SendInv
<1>10. \A d \in Calls : lock' = d <=> caller'[d] = "sending"
  <2>1. CASE r = WorldSize - 1
    BY <2>1, <1>1, <1>4, RankFacts DEF SendInv, CallTypes
  <2>2. CASE r # WorldSize - 1
    BY <2>2, <1>1 DEF SendInv
  <2> QED BY <2>1, <2>2
<1>11. CASE r = LastRank
  <2>1. \A q \in Ranks : sent'[q] = Append(s, c)
    BY <1>3, <1>6, <1>7, <1>11, RankFacts
  <2>2. lock' = NoCall
    BY <1>1, <1>11 DEF LastRank
  <2>3. \A q \in Ranks : NoCall \notin ToSet(sent'[q])
    <3> SUFFICES ASSUME NEW q \in Ranks PROVE NoCall \notin ToSet(sent'[q])
      OBVIOUS
    <3>1. \A i \in DOMAIN sent'[q] : sent'[q][i] \in Calls
      BY <1>3, ElementOfSeq, LenProperties
    <3> QED BY <3>1, RankFacts DEF ToSet
  <2>4. SendInv'
    BY <2>1, <2>2, <2>3, <1>9, <1>10, RankFacts DEF SendInv, LastRank
  <2>5. OneOrder'
    BY <2>1, <1>5, AppendFacts DEF OneOrder, IsPrefix
  <2> QED BY <2>4, <2>5
<1>12. CASE r # LastRank
  <2>1. lock' = c /\ sent'[LastRank] = s
    BY <1>1, <1>3, <1>4, <1>12, RankFacts DEF LastRank
  <2>2. \A q \in Ranks : sent'[q] = Append(s, c) \/ sent'[q] = s
    BY <1>3, <1>6, <1>7
  <2>3. SendInv'
    <3> HIDE DEF s
    <3> QED BY <2>1, <2>2, <1>5, <1>9, <1>10 DEF SendInv, LastRank
  <2>4. OneOrder'
    <3>1. IsPrefix(s, s) /\ IsPrefix(s, Append(s, c))
      BY <1>5, AppendFacts
    <3>2. IsPrefix(Append(s, c), Append(s, c))
      BY <1>5, AppendFacts
    <3> HIDE DEF s
    <3> QED BY <2>2, <3>1, <3>2 DEF OneOrder
  <2> QED BY <2>3, <2>4
<1> QED BY <1>11, <1>12

LEMMA SendNextInv ==
  ASSUME CallTypes, ResultInv, SendInv, OneOrder, [Next]_vars
  PROVE  SendInv' /\ OneOrder'
<1> USE DEF CallTypes, Done
<1>1. ASSUME NEW c \in Calls, AcquireSend(c) PROVE SendInv' /\ OneOrder'
  <2>1. lock = NoCall /\ lock' = c /\ caller[c] = "registered" /\ UNCHANGED <<sent, closing>>
        /\ caller' = [caller EXCEPT ![c] = "sending"]
    BY <1>1 DEF AcquireSend
  <2>2. \A r \in Ranks : c \notin ToSet(sent[r])
    BY <2>1 DEF SendInv
  <2>3. closing # "closed" => \A r \in Ranks : sent[r] = sent[LastRank]
    <3> SUFFICES ASSUME closing # "closed", NEW r \in Ranks PROVE sent[r] = sent[LastRank]
      OBVIOUS
    <3>1. \A q \in Ranks : NoCall \notin ToSet(sent[q])
      <4> SUFFICES ASSUME NEW q \in Ranks PROVE NoCall \notin ToSet(sent[q])
        OBVIOUS
      <4>1. \A i \in DOMAIN sent[q] : sent[q][i] \in Calls
        BY ElementOfSeq, LenProperties DEF ResultInv
      <4> QED BY <4>1, RankFacts DEF ToSet
    <3>2. CASE sent[r] = Append(sent[LastRank], NoCall)
      <4>1. sent[LastRank] \in Seq(Calls \cup {NoCall})
        BY RankFacts, SeqMonotonic DEF ResultInv
      <4>2. NoCall \in ToSet(sent[r])
        BY <3>2, <4>1, AppendFacts
      <4> QED BY <4>2, <3>1
    <3> QED BY <2>1, <3>2 DEF SendInv
  <2>4. OneOrder'
    BY <2>1 DEF OneOrder
  <2>5. \A d \in Calls : lock' = d <=> caller'[d] = "sending"
    BY <2>1, RankFacts DEF SendInv
  <2>6. \A d \in Calls : caller'[d] \in {"new", "registered"} =>
          \A r \in Ranks : d \notin ToSet(sent'[r])
    BY <2>1 DEF SendInv
  <2>7. closing' # "closed" => \A r \in Ranks : lock' \notin ToSet(sent'[r]) /\ sent'[r] = sent'[LastRank]
    BY <2>1, <2>2, <2>3
  <2> QED BY <2>4, <2>5, <2>6, <2>7 DEF SendInv, LastRank
<1>2. ASSUME NEW c \in Calls, SendClosed(c) PROVE SendInv' /\ OneOrder'
  <2>1. /\ caller[c] = "sending" /\ closing = "closed" /\ lock' = NoCall
        /\ UNCHANGED <<sent, closing>> /\ caller' = [caller EXCEPT ![c] = "raised"]
    BY <1>2 DEF SendClosed
  <2>2. \A d \in Calls : lock' = d <=> caller'[d] = "sending"
    BY <2>1, RankFacts DEF SendInv
  <2> QED BY <2>1, <2>2 DEF SendInv, OneOrder
<1>3. ASSUME NEW c \in Calls,
             Register(c) \/ SubmitClosed(c) \/ Wake(c) \/ GiveUp(c) \/ CloseLoop(c)
      PROVE  SendInv' /\ OneOrder'
  <2>1. UNCHANGED <<lock, sent, closing>>
    BY <1>3 DEF Register, SubmitClosed, Wake, GiveUp, CloseLoop
  <2>2. \A d \in Calls : d # c => caller'[d] = caller[d]
    BY <1>3 DEF Register, SubmitClosed, Wake, GiveUp, CloseLoop
  <2>3. \/ caller'[c] = caller[c]
        \/ caller[c] \in {"new", "waiting"} /\ caller'[c] # "sending"
           /\ (caller'[c] \in {"new", "registered"} => caller[c] = "new")
    BY <1>3 DEF Register, SubmitClosed, Wake, GiveUp, CloseLoop
  <2>4. \A d \in Calls : caller'[d] = "sending" <=> caller[d] = "sending"
    BY <2>2, <2>3
  <2>5. \A d \in Calls : caller'[d] \in {"new", "registered"} =>
                            caller[d] \in {"new", "registered"}
    BY <2>2, <2>3
  <2> QED BY <2>1, <2>4, <2>5, SendKept
<1>4. ASSUME NEW r \in Ranks, WorkerStep(r) \/ Flush(r) \/ Kill(r)
      PROVE  SendInv' /\ OneOrder'
  <2>1. UNCHANGED <<lock, sent, closing, caller>>
    BY <1>4 DEF WorkerStep, Exit, Handle, Flush, Kill
  <2> QED BY <2>1, SendKept
<1>5. CASE PumpStep \/ BeginClose \/ EndClose \/ UNCHANGED vars
  <2>1. UNCHANGED <<lock, sent, caller>> /\ (closing' # "closed" => closing # "closed")
    BY <1>5 DEF PumpStep, PumpTop, PumpTake, PumpApply, PumpEmpty, PumpScan, PumpScanned,
                BeginClose, EndClose, vars
  <2> QED BY <2>1, SendKept
<1> QED BY <1>1, <1>2, <1>3, <1>4, <1>5, SendStep DEF Next, CallerStep, Settled

-----------------------------------------------------------------------------
\* Handled commands were sent, and a sent call is not new.
LEMMA HandSent ==
  ASSUME ResultInv, SendInv, pump = "apply"
  PROVE  /\ hand \in Results /\ hand.req \in handled[hand.rank]
         /\ ~Unsent(hand.req) /\ caller[hand.req] # "new"
<1>1. hand \in Results /\ hand.rank \in Ranks /\ hand.req \in Calls
  BY DEF ResultInv, Results
<1>2. hand.req \in handled[hand.rank] /\ hand.req \in ToSet(sent[hand.rank])
  BY <1>1 DEF ResultInv
<1> QED BY <1>1, <1>2 DEF Unsent, SendInv

LEMMA WaitKept ==
  ASSUME WaitInv, UNCHANGED <<waiting, outcome, sent>>, table' \subseteq table,
         \A r \in Ranks : handled[r] \subseteq handled'[r],
         \A c \in Calls : \/ caller'[c] = caller[c]
                          \/ caller[c] \notin {"new", "raised"} /\ caller'[c] # "new"
  PROVE  WaitInv'
BY ClusterAssumption DEF WaitInv, Unsent

LEMMA WaitNext ==
  ASSUME CallTypes, ResultInv, SendInv, WaitInv, [Next]_vars
  PROVE  WaitInv'
<1> USE DEF CallTypes, Done
<1>a. Awaited \in [Calls -> SUBSET Ranks] /\ \A c \in Calls : Awaited[c] # {}
  BY ClusterAssumption
<1>1. ASSUME NEW c \in Calls, Register(c) PROVE WaitInv'
  <2>1. /\ caller' = [caller EXCEPT ![c] = "registered"] /\ table' = table \cup {c}
        /\ waiting' = [waiting EXCEPT ![c] = Awaited[c]] /\ UNCHANGED <<outcome, sent, handled>>
    BY <1>1 DEF Register
  <2> QED BY <2>1, <1>a DEF WaitInv, Unsent
<1>2. ASSUME NEW c \in Calls, SubmitClosed(c) PROVE WaitInv'
  <2>1. /\ caller[c] = "new" /\ caller' = [caller EXCEPT ![c] = "raised"]
        /\ UNCHANGED <<table, waiting, outcome, sent, handled>>
    BY <1>2 DEF SubmitClosed
  <2>2. Unsent(c) /\ waiting[c] = {}
    BY <2>1 DEF SendInv, WaitInv, Unsent
  <2> QED BY <2>1, <2>2 DEF WaitInv, Unsent
<1>3. ASSUME NEW c \in Calls, SendNext(c) PROVE WaitInv'
  <2>1. PICK r \in Ranks :
          /\ \A q \in Ranks : c \in ToSet(sent[q]) <=> q < r
          /\ sent' = [sent EXCEPT ![r] = Append(@, c)]
    BY <1>3 DEF SendNext
  <2>2. c \notin ToSet(sent[r])
    BY <2>1, RankFacts
  <2>3. \A d \in Calls \ {c} : Unsent(d) => Unsent(d)'
    <3>1. ToSet(sent'[r]) = ToSet(sent[r]) \cup {c} /\ \A q \in Ranks \ {r} : sent'[q] = sent[q]
      BY <2>1, <2>2, SentAppended
    <3> QED BY <3>1 DEF Unsent
  <2>4. /\ caller[c] = "sending" /\ caller'[c] \in {"sending", "waiting"}
        /\ \A d \in Calls \ {c} : caller'[d] = caller[d]
        /\ UNCHANGED <<table, waiting, outcome, handled>>
    BY <1>3 DEF SendNext
  <2>5. ASSUME NEW d \in Calls
        PROVE  /\ caller'[d] = "new" => outcome'[d] = "none" /\ waiting'[d] = {}
               /\ \/ \A q \in Awaited[d] \ waiting'[d] : d \in handled'[q]
                  \/ waiting'[d] = {} /\ Unsent(d)' /\ caller'[d] \in {"new", "raised"}
               /\ d \in table' => waiting'[d] # {}
    <3>1. CASE d = c
      BY <3>1, <2>4 DEF WaitInv
    <3>2. CASE d # c
      BY <3>2, <2>3, <2>4 DEF WaitInv
    <3> QED BY <3>1, <3>2
  <2> QED BY <2>5 DEF WaitInv
<1>4. ASSUME NEW c \in Calls,
             AcquireSend(c) \/ SendClosed(c) \/ Wake(c) \/ GiveUp(c) \/ CloseLoop(c)
      PROVE  WaitInv'
  <2>1. UNCHANGED <<waiting, outcome, sent, handled>> /\ table' \subseteq table
    BY <1>4 DEF AcquireSend, SendClosed, Wake, GiveUp, CloseLoop
  <2>2. \A d \in Calls : \/ caller'[d] = caller[d]
                         \/ caller[d] \notin {"new", "raised"} /\ caller'[d] # "new"
    BY <1>4 DEF AcquireSend, SendClosed, Wake, GiveUp, CloseLoop
  <2> QED BY <2>1, <2>2, WaitKept
<1>5. ASSUME NEW r \in Ranks, WorkerStep(r) \/ Flush(r) \/ Kill(r) PROVE WaitInv'
  <2>1. UNCHANGED <<waiting, outcome, sent, table, caller>>
    BY <1>5 DEF WorkerStep, Exit, Handle, Flush, Kill
  <2>2. \A q \in Ranks : handled[q] \subseteq handled'[q]
    <3>1. ASSUME NEW c \in Calls, Handle(r, c) PROVE \A q \in Ranks : handled[q] \subseteq handled'[q]
      BY <3>1 DEF Handle, ResultInv
    <3> QED BY <1>5, <3>1 DEF WorkerStep, Exit, Flush, Kill
  <2> QED BY <2>1, <2>2, WaitKept
<1>6. CASE PumpTop \/ PumpTake \/ PumpEmpty \/ PumpScanned \/ BeginClose \/ EndClose \/ UNCHANGED vars
  <2>1. UNCHANGED <<waiting, outcome, sent, table, caller, handled>>
    BY <1>6 DEF PumpTop, PumpTake, PumpEmpty, PumpScanned, BeginClose, EndClose, vars
  <2>2. table' \subseteq table /\ \A r \in Ranks : handled[r] \subseteq handled'[r]
    BY <2>1
  <2>3. \A d \in Calls : caller'[d] = caller[d]
    BY <2>1
  <2> QED BY <2>1, <2>2, <2>3, WaitKept
<1>7. CASE PumpApply
  <2> DEFINE c == hand.req
             left == waiting[c] \ {hand.rank}
  <2>1. c \in Calls /\ hand.rank \in Ranks /\ c \in handled[hand.rank] /\ ~Unsent(c) /\ caller[c] # "new"
    BY <1>7, HandSent DEF PumpApply, Results
  <2>2. \A r \in Awaited[c] \ left : c \in handled[r]
    BY <2>1 DEF WaitInv
  <2>3. UNCHANGED <<caller, sent, handled>>
    BY <1>7 DEF PumpApply
  <2>4. \A d \in Calls \ {c} : waiting'[d] = waiting[d] /\ outcome'[d] = outcome[d]
                               /\ (d \in table' => d \in table)
    BY <1>7 DEF PumpApply, Finish
  <2>5. waiting'[c] \in {waiting[c], left} /\ (c \in table' => waiting'[c] # {})
    BY <1>7, <2>1 DEF PumpApply, Finish
  <2> HIDE DEF c, left
  <2>6. \A r \in Awaited[c] \ waiting'[c] : c \in handled[r]
    <3>1. CASE waiting'[c] = left
      BY <3>1, <2>2
    <3>2. CASE waiting'[c] = waiting[c]
      BY <3>2, <2>1 DEF WaitInv
    <3> QED BY <3>1, <3>2, <2>5
  <2>7. ASSUME NEW d \in Calls
        PROVE  /\ caller'[d] = "new" => outcome'[d] = "none" /\ waiting'[d] = {}
               /\ \/ \A q \in Awaited[d] \ waiting'[d] : d \in handled'[q]
                  \/ waiting'[d] = {} /\ Unsent(d)' /\ caller'[d] \in {"new", "raised"}
               /\ d \in table' => waiting'[d] # {}
    <3>1. CASE d = c
      BY <3>1, <2>1, <2>3, <2>5, <2>6
    <3>2. CASE d # c
      BY <3>2, <2>3, <2>4 DEF WaitInv, Unsent
    <3> QED BY <3>1, <3>2
  <2> QED BY <2>7 DEF WaitInv
<1>8. CASE PumpScan
  <2>1. UNCHANGED <<waiting, sent, caller, handled>> /\ table' \subseteq table
    BY <1>8 DEF PumpScan, Finish
  <2>2. \A d \in Calls : outcome'[d] = outcome[d] \/ waiting[d] # {}
    BY <1>8 DEF PumpScan, Finish, Orphan
  <2> QED BY <2>1, <2>2 DEF WaitInv, Unsent
<1> QED BY <1>1, <1>2, <1>3, <1>4, <1>5, <1>6, <1>7, <1>8
        DEF Next, CallerStep, PumpStep, Settled

-----------------------------------------------------------------------------
\* c may still be woken.
Open(c) ==
  /\ outcome[c] = "none"
  /\ \/ caller[c] \in {"registered", "sending", "waiting"}
     \/ caller[c] = "raised" /\ waiting[c] # {}

LEMMA TableKept ==
  ASSUME TableExact, UNCHANGED table, \A c \in Calls : Open(c)' <=> Open(c)
  PROVE  TableExact'
BY DEF TableExact, Open

LEMMA TableNext ==
  ASSUME CallTypes, ResultInv, WaitInv, TableExact, [Next]_vars
  PROVE  TableExact'
<1> USE DEF CallTypes, Done
<1>1. ASSUME NEW c \in Calls, Register(c) PROVE TableExact'
  <2>1. /\ caller[c] = "new" /\ caller' = [caller EXCEPT ![c] = "registered"]
        /\ table' = table \cup {c} /\ waiting' = [waiting EXCEPT ![c] = Awaited[c]]
        /\ UNCHANGED outcome
    BY <1>1 DEF Register
  <2>2. outcome[c] = "none"
    BY <2>1 DEF WaitInv
  <2>3. c \in table' /\ Open(c)'
    BY <2>1, <2>2 DEF Open
  <2>4. \A d \in Calls \ {c} : (d \in table' <=> d \in table) /\ (Open(d)' <=> Open(d))
    BY <2>1 DEF Open
  <2> QED BY <2>3, <2>4 DEF TableExact, Open
<1>2. ASSUME NEW c \in Calls,
             SubmitClosed(c) \/ AcquireSend(c) \/ SendNext(c) \/ SendClosed(c) \/ Wake(c) \/ CloseLoop(c)
      PROVE  TableExact'
  <2>1. UNCHANGED <<table, waiting, outcome>> /\ \A d \in Calls \ {c} : caller'[d] = caller[d]
    BY <1>2 DEF SubmitClosed, AcquireSend, SendNext, SendClosed, Wake, CloseLoop
  <2>2. Open(c)' <=> Open(c)
    <3>1. CASE SubmitClosed(c)
      BY <3>1 DEF SubmitClosed, WaitInv, Open
    <3>2. CASE AcquireSend(c)
      BY <3>2 DEF AcquireSend, Open
    <3>3. CASE SendNext(c)
      <4>1. caller[c] = "sending" /\ caller'[c] \in {"sending", "waiting"}
        BY <3>3 DEF SendNext
      <4> QED BY <4>1, <2>1 DEF Open
    <3>4. CASE SendClosed(c)
      <4>1. caller[c] = "sending" /\ caller'[c] = "raised"
        BY <3>4 DEF SendClosed
      <4>2. outcome[c] = "none" => waiting[c] # {}
        BY <4>1 DEF TableExact, WaitInv
      <4> QED BY <4>1, <4>2, <2>1 DEF Open
    <3>5. CASE Wake(c) \/ CloseLoop(c)
      BY <3>5, <2>1 DEF Wake, CloseLoop, Open
    <3> QED BY <1>2, <3>1, <3>2, <3>3, <3>4, <3>5
  <2>3. \A d \in Calls : Open(d)' <=> Open(d)
    BY <2>1, <2>2 DEF Open
  <2> QED BY <2>1, <2>3, TableKept
<1>3. ASSUME NEW c \in Calls, GiveUp(c) PROVE TableExact'
  <2>1. /\ table' = table \ {c} /\ caller' = [caller EXCEPT ![c] = "gaveUp"]
        /\ UNCHANGED <<waiting, outcome>>
    BY <1>3 DEF GiveUp
  <2> QED BY <2>1 DEF TableExact
<1>4. ASSUME NEW r \in Ranks, WorkerStep(r) \/ Flush(r) \/ Kill(r) PROVE TableExact'
  BY <1>4 DEF WorkerStep, Exit, Handle, Flush, Kill, TableExact
<1>5. CASE PumpTop \/ PumpTake \/ PumpEmpty \/ PumpScanned \/ BeginClose \/ EndClose \/ UNCHANGED vars
  <2>1. UNCHANGED <<table, waiting, outcome, caller>>
    BY <1>5 DEF PumpTop, PumpTake, PumpEmpty, PumpScanned, BeginClose, EndClose, vars
  <2> QED BY <2>1 DEF TableExact
<1>6. CASE PumpApply
  <2>1. PICK c \in Calls : c = hand.req
    BY <1>6 DEF PumpApply, ResultInv, Results
  <2> DEFINE left == waiting[c] \ {hand.rank}
  <2>2. UNCHANGED caller /\ \A d \in Calls \ {c} : /\ waiting'[d] = waiting[d]
                                                   /\ outcome'[d] = outcome[d]
                                                   /\ d \in table' <=> d \in table
    BY <1>6, <2>1 DEF PumpApply, Finish
  <2>3. \/ c \notin table' /\ outcome'[c] # "none"
        \/ /\ left # {} /\ waiting'[c] = left /\ outcome'[c] = outcome[c]
           /\ c \in table' <=> c \in table
    BY <1>6, <2>1 DEF PumpApply, Finish
  <2>4. c \in table <=> Open(c)
    BY <2>1 DEF TableExact, Open
  <2>5. left # {} => waiting[c] # {}
    OBVIOUS
  <2> HIDE DEF left
  <2>6. c \in table' <=> Open(c)'
    <3>1. CASE c \notin table' /\ outcome'[c] # "none"
      BY <3>1 DEF Open
    <3>2. CASE /\ left # {} /\ waiting'[c] = left /\ outcome'[c] = outcome[c]
               /\ c \in table' <=> c \in table
      BY <3>2, <2>2, <2>4, <2>5 DEF Open
    <3> QED BY <2>3, <3>1, <3>2
  <2>7. \A d \in Calls \ {c} : d \in table' <=> Open(d)'
    BY <2>2 DEF TableExact, Open
  <2> QED BY <2>6, <2>7 DEF TableExact, Open
<1>7. CASE PumpScan
  <2>1. PICK c \in snap : IF Orphan(c) THEN Finish({c}, "raised") ELSE UNCHANGED <<table, outcome>>
    BY <1>7 DEF PumpScan
  <2>2. UNCHANGED <<caller, waiting>>
    BY <1>7 DEF PumpScan
  <2> QED BY <2>1, <2>2 DEF TableExact, Finish
<1> QED BY <1>1, <1>2, <1>3, <1>4, <1>5, <1>6, <1>7 DEF Next, CallerStep, PumpStep, Settled

-----------------------------------------------------------------------------
\* The part of NothingLost about one rank of one call.
Kept(c, r) == c \in handled[r] => InTransit(r, c) \/ Gone(r)

LEMMA LostIs ==
  NothingLost <=>
    \A c \in Calls :
      /\ outcome[c] = "returned" => \A r \in Awaited[c] : c \in handled[r]
      /\ c \in table => \A r \in waiting[c] : Kept(c, r)
BY DEF NothingLost, Kept

LEMMA LostKept ==
  ASSUME CallTypes, NothingLost, UNCHANGED <<outcome, waiting>>, table' \subseteq table,
         \A r \in Ranks : handled[r] \subseteq handled'[r],
         \A c \in table, r \in Ranks : Kept(c, r) => Kept(c, r)'
  PROVE  NothingLost'
<1>1. \A c \in Calls : waiting[c] \subseteq Ranks /\ Awaited[c] \subseteq Ranks
  BY ClusterAssumption DEF CallTypes
<1> SUFFICES ASSUME NEW c \in Calls
             PROVE  /\ outcome'[c] = "returned" => \A r \in Awaited[c] : c \in handled'[r]
                    /\ c \in table' => \A r \in waiting'[c] : Kept(c, r)'
  BY DEF NothingLost, Kept
<1>2. outcome[c] = "returned" => \A r \in Awaited[c] : c \in handled[r]
  BY DEF NothingLost
<1>3. c \in table => \A r \in waiting[c] : Kept(c, r)
  BY LostIs
<1> QED BY <1>1, <1>2, <1>3

\* What becomes of results on their way.
LEMMA Moved ==
  ASSUME CallTypes, ResultInv, [Next]_vars, ~PumpApply, NEW c \in Calls, NEW r \in Ranks,
         Kept(c, r), c \in table
  PROVE  Kept(c, r)'
<1> USE DEF CallTypes
<1>1. CASE UNCHANGED <<handled, outbox, resultQ, hand, worker>>
  BY <1>1 DEF Kept, InTransit, Gone
<1>2. ASSUME NEW q \in Ranks, NEW d \in Calls, Handle(q, d) PROVE Kept(c, r)'
  <2>1. PICK ok \in BOOLEAN :
          /\ outbox' = [outbox EXCEPT ![q] = Append(@, Result(q, d, ok))]
          /\ worker' = [worker EXCEPT ![q] = IF ok THEN @ ELSE "exiting"]
    BY <1>2 DEF Handle
  <2>2. /\ handled' = [handled EXCEPT ![q] = @ \cup {d}] /\ UNCHANGED <<resultQ, hand>>
        /\ worker[q] \in {"up", "exiting"}
    BY <1>2 DEF Handle
  <2> DEFINE m == Result(q, d, ok)
  <2>3. m \in Results /\ m.req = d /\ outbox[q] \in Seq(Results) /\ outbox \in [Ranks -> Seq(Results)]
        /\ handled \in [Ranks -> SUBSET Calls]
    BY DEF Result, Results, ResultInv
  <2>4. /\ outbox'[q] = Append(outbox[q], m)
        /\ \A p \in Ranks \ {q} : outbox'[p] = outbox[p]
    BY <2>1, <2>3
  <2> HIDE DEF m
  <2>5. /\ \A i \in DOMAIN outbox[q] :
             i \in DOMAIN Append(outbox[q], m) /\ Append(outbox[q], m)[i] = outbox[q][i]
        /\ \E i \in DOMAIN Append(outbox[q], m) : Append(outbox[q], m)[i] = m
    BY <2>3, AppendFacts
  <2>6. CASE InTransit(r, c)
    <3>1. (\E i \in DOMAIN outbox[r] : outbox[r][i].req = c) =>
            \E i \in DOMAIN outbox'[r] : outbox'[r][i].req = c
      BY <2>4, <2>5
    <3> QED BY <2>2, <2>6, <3>1 DEF InTransit, Kept
  <2>7. CASE Gone(r)
    BY <2>1, <2>2, <2>7 DEF Gone, Kept
  <2>8. CASE r = q /\ c = d
    <3>1. \E i \in DOMAIN outbox'[r] : outbox'[r][i].req = c
      BY <2>3, <2>4, <2>5, <2>8
    <3> QED BY <3>1 DEF InTransit, Kept
  <2>9. CASE c \notin handled[r] /\ ~(r = q /\ c = d)
    BY <2>2, <2>3, <2>9 DEF Kept
  <2> QED BY <2>6, <2>7, <2>8, <2>9 DEF Kept
<1>3. ASSUME NEW q \in Ranks, Flush(q) PROVE Kept(c, r)'
  <2>1. /\ resultQ' = Append(resultQ, Head(outbox[q])) /\ outbox' = [outbox EXCEPT ![q] = Tail(@)]
        /\ UNCHANGED <<handled, hand, worker>> /\ outbox[q] # <<>>
    BY <1>3 DEF Flush
  <2> DEFINE m == Head(outbox[q])
  <2>2. /\ m \in Results /\ m.rank = q
        /\ \A i \in DOMAIN outbox[q] : outbox[q][i] = m \/
             \E j \in DOMAIN Tail(outbox[q]) : Tail(outbox[q])[j] = outbox[q][i]
    BY <2>1, TailFacts DEF ResultInv
  <2>3. resultQ' = Append(resultQ, m) /\ outbox'[q] = Tail(outbox[q])
        /\ \A p \in Ranks \ {q} : outbox'[p] = outbox[p]
    BY <2>1 DEF ResultInv
  <2> HIDE DEF m
  <2>4. /\ \A i \in DOMAIN resultQ : i \in DOMAIN resultQ' /\ resultQ'[i] = resultQ[i]
        /\ \E i \in DOMAIN resultQ' : resultQ'[i] = m
    <3>1. resultQ \in Seq(Results)
      BY DEF ResultInv
    <3> QED BY <3>1, <2>2, <2>3, AppendFacts
  <2>5. CASE \E i \in DOMAIN outbox[r] : outbox[r][i].req = c
    <3>1. PICK i \in DOMAIN outbox[r] : outbox[r][i].req = c
      BY <2>5
    <3>2. CASE r # q
      BY <3>1, <3>2, <2>3 DEF Kept, InTransit
    <3>3. CASE r = q /\ outbox[r][i] = m
      BY <3>1, <3>3, <2>2, <2>4 DEF Kept, InTransit
    <3>4. CASE r = q /\ outbox[r][i] # m
      BY <3>1, <3>4, <2>2, <2>3 DEF Kept, InTransit
    <3> QED BY <3>2, <3>3, <3>4
  <2>6. CASE \E i \in DOMAIN resultQ : resultQ[i].rank = r /\ resultQ[i].req = c
    BY <2>4, <2>6 DEF Kept, InTransit
  <2>7. CASE Gone(r) \/ (hand.rank = r /\ hand.req = c) \/ c \notin handled[r]
    BY <2>1, <2>7 DEF Kept, InTransit, Gone
  <2> QED BY <2>5, <2>6, <2>7 DEF Kept, InTransit
<1>4. ASSUME NEW q \in Ranks, Exit(q) PROVE Kept(c, r)'
  BY <1>4 DEF Exit, Kept, InTransit, Gone
<1>5. ASSUME NEW q \in Ranks, Kill(q) PROVE Kept(c, r)'
  <2>1. CASE r = q
    <3>1. Gone(r)'
      BY <1>5, <2>1 DEF Kill, Gone
    <3> QED BY <3>1 DEF Kept
  <2>2. CASE r # q
    <3>1. outbox'[r] = outbox[r] /\ worker'[r] = worker[r] /\ UNCHANGED <<handled, resultQ, hand>>
      BY <1>5, <2>2 DEF Kill, ResultInv
    <3> QED BY <3>1 DEF Kept, InTransit, Gone
  <2> QED BY <2>1, <2>2
<1>6. CASE EndClose
  <2>1. Gone(r)'
    BY <1>6 DEF EndClose, Gone
  <2> QED BY <2>1 DEF Kept
<1>7. CASE PumpTake
  <2>1. /\ resultQ # <<>> /\ resultQ' = Tail(resultQ) /\ UNCHANGED <<handled, outbox, worker>>
        /\ IF Head(resultQ).req \in table THEN hand' = Head(resultQ) ELSE hand' = hand
    BY <1>7 DEF PumpTake
  <2>2. \A i \in DOMAIN resultQ : resultQ[i] = Head(resultQ) \/
          \E j \in DOMAIN Tail(resultQ) : Tail(resultQ)[j] = resultQ[i]
    BY <2>1, TailFacts DEF ResultInv
  <2>3. hand.req # c
    BY <1>7, RankFacts DEF PumpTake, ResultInv, NoResult, Result
  <2>4. CASE \E i \in DOMAIN resultQ : resultQ[i].rank = r /\ resultQ[i].req = c
    <3>1. PICK i \in DOMAIN resultQ : resultQ[i].rank = r /\ resultQ[i].req = c
      BY <2>4
    <3>2. CASE resultQ[i] = Head(resultQ)
      <4>1. hand' = resultQ[i]
        BY <3>1, <3>2, <2>1
      <4> QED BY <4>1, <3>1 DEF Kept, InTransit
    <3>3. CASE resultQ[i] # Head(resultQ)
      <4>1. \E j \in DOMAIN resultQ' : resultQ'[j] = resultQ[i]
        BY <3>3, <2>1, <2>2
      <4> QED BY <4>1, <3>1 DEF Kept, InTransit
    <3> QED BY <3>2, <3>3
  <2>5. CASE Gone(r) \/ c \notin handled[r] \/ \E i \in DOMAIN outbox[r] : outbox[r][i].req = c
    BY <2>1, <2>5 DEF Kept, InTransit, Gone
  <2> QED BY <2>3, <2>4, <2>5 DEF Kept, InTransit
<1>8. ASSUME NEW d \in Calls, CallerStep(d) \/ GiveUp(d) \/ CloseLoop(d) PROVE Kept(c, r)'
  <2>1. UNCHANGED <<handled, outbox, resultQ, hand, worker>>
    BY <1>8 DEF CallerStep, Register, SubmitClosed, AcquireSend, SendNext, SendClosed, Wake,
                GiveUp, CloseLoop
  <2> QED BY <2>1, <1>1
<1>9. CASE PumpTop \/ PumpEmpty \/ PumpScan \/ PumpScanned \/ BeginClose \/ UNCHANGED vars
  <2>1. UNCHANGED <<handled, outbox, resultQ, hand, worker>>
    BY <1>9 DEF PumpTop, PumpEmpty, PumpScan, PumpScanned, BeginClose, vars
  <2> QED BY <2>1, <1>1
<1> QED BY <1>2, <1>3, <1>4, <1>5, <1>6, <1>7, <1>8, <1>9
        DEF Next, WorkerStep, PumpStep, Settled

LEMMA LostNext ==
  ASSUME CallTypes, ResultInv, SendInv, WaitInv, NothingLost, [Next]_vars
  PROVE  NothingLost'
<1> USE DEF CallTypes, Done
<1>a. table \subseteq Calls
  OBVIOUS
<1>1. ASSUME NEW c \in Calls, Register(c) PROVE NothingLost'
  <2>1. /\ caller[c] = "new" /\ table' = table \cup {c}
        /\ waiting' = [waiting EXCEPT ![c] = Awaited[c]]
        /\ UNCHANGED <<outcome, handled, outbox, resultQ, hand, worker>>
    BY <1>1 DEF Register
  <2>2. \A r \in Ranks : c \notin handled[r]
    BY <2>1 DEF SendInv, ResultInv
  <2>3. \A d \in Calls, r \in Ranks : Kept(d, r)' <=> Kept(d, r)
    BY <2>1 DEF Kept, InTransit, Gone
  <2>4. ASSUME NEW d \in Calls
        PROVE  /\ outcome'[d] = "returned" => \A r \in Awaited[d] : d \in handled'[r]
               /\ d \in table' => \A r \in waiting'[d] : Kept(d, r)'
    <3>1. waiting'[d] \subseteq Ranks
      BY <2>1, ClusterAssumption
    <3>2. outcome'[d] = "returned" => \A r \in Awaited[d] : d \in handled'[r]
      BY <2>1 DEF NothingLost
    <3>3. CASE d = c
      BY <2>2, <2>3, <3>1, <3>2, <3>3 DEF Kept
    <3>4. CASE d # c
      BY <2>1, <2>3, <3>1, <3>2, <3>4, LostIs
    <3> QED BY <3>3, <3>4
  <2> QED BY <2>4 DEF NothingLost, Kept
<1>2. ASSUME UNCHANGED <<outcome, waiting>>, table' \subseteq table, ~PumpApply,
             \A r \in Ranks : handled[r] \subseteq handled'[r]
      PROVE  NothingLost'
  <2>1. \A c \in table, r \in Ranks : Kept(c, r) => Kept(c, r)'
    BY <1>a, <1>2, Moved
  <2> QED BY <1>2, <2>1, LostKept
<1>3. ASSUME NEW c \in Calls,
             \/ SubmitClosed(c) \/ AcquireSend(c) \/ SendNext(c) \/ SendClosed(c)
             \/ Wake(c) \/ GiveUp(c) \/ CloseLoop(c)
      PROVE  NothingLost'
  <2>1. UNCHANGED <<outcome, waiting, handled, hand, pump>> /\ table' \subseteq table
    BY <1>3 DEF SubmitClosed, AcquireSend, SendNext, SendClosed, Wake, GiveUp, CloseLoop
  <2>2. ~PumpApply
    BY <2>1 DEF PumpApply, AfterFinish
  <2> QED BY <2>1, <2>2, <1>2
<1>4. ASSUME NEW r \in Ranks, WorkerStep(r) \/ Flush(r) \/ Kill(r) PROVE NothingLost'
  <2>1. UNCHANGED <<outcome, waiting, table, pump>>
    BY <1>4 DEF WorkerStep, Exit, Handle, Flush, Kill
  <2>2. ~PumpApply
    BY <2>1 DEF PumpApply, AfterFinish
  <2>3. \A q \in Ranks : handled[q] \subseteq handled'[q]
    <3>1. ASSUME NEW c \in Calls, Handle(r, c)
          PROVE  \A q \in Ranks : handled[q] \subseteq handled'[q]
      BY <3>1 DEF Handle, ResultInv
    <3> QED BY <1>4, <3>1 DEF WorkerStep, Exit, Flush, Kill
  <2> QED BY <2>1, <2>2, <2>3, <1>2
<1>5. CASE PumpTop \/ PumpTake \/ PumpEmpty \/ PumpScanned \/ BeginClose \/ EndClose
           \/ UNCHANGED vars
  <2>1. UNCHANGED <<outcome, waiting, table, handled>>
    BY <1>5 DEF PumpTop, PumpTake, PumpEmpty, PumpScanned, BeginClose, EndClose, vars
  <2>2. ~PumpApply
    BY <1>5 DEF PumpTop, PumpTake, PumpEmpty, PumpScanned, BeginClose, EndClose, vars,
                PumpApply, AfterFinish
  <2> QED BY <2>1, <2>2, <1>2
<1>6. CASE PumpScan
  <2>1. PICK c \in snap : IF Orphan(c) THEN Finish({c}, "raised") ELSE UNCHANGED <<table, outcome>>
    BY <1>6 DEF PumpScan
  <2>2. UNCHANGED <<waiting, handled, outbox, resultQ, hand, worker>>
    BY <1>6 DEF PumpScan
  <2>3. table' \subseteq table
        /\ \A d \in Calls : outcome'[d] = "returned" => outcome[d] = "returned"
    BY <2>1 DEF Finish
  <2>4. \A d \in Calls, r \in Ranks : Kept(d, r)' <=> Kept(d, r)
    BY <2>2 DEF Kept, InTransit, Gone
  <2> QED BY <2>2, <2>3, <2>4, LostIs DEF NothingLost, Kept
<1>7. CASE PumpApply
  <2>a. /\ hand.req \in Calls /\ hand.rank \in Ranks /\ ~Unsent(hand.req)
        /\ hand.req \in handled[hand.rank]
    BY <1>7, HandSent DEF PumpApply, Results
  <2>1. PICK c \in Calls, k \in Ranks :
          c = hand.req /\ k = hand.rank /\ ~Unsent(c) /\ c \in handled[k]
    BY <2>a
  <2> DEFINE left == waiting[c] \ {k}
  <2>2. UNCHANGED <<handled, outbox, resultQ, worker>>
    BY <1>7 DEF PumpApply
  <2>3. \A d \in Calls \ {c} : /\ waiting'[d] = waiting[d] /\ outcome'[d] = outcome[d]
                               /\ d \in table' => d \in table
    BY <1>7, <2>1 DEF PumpApply, Finish
  <2>4. \A r \in Awaited[c] \ left : c \in handled[r]
    BY <2>1 DEF WaitInv
  <2>5. \/ c \notin table' /\ outcome'[c] = "raised"
        \/ c \notin table' /\ outcome'[c] = "returned" /\ left = {}
        \/ waiting'[c] = left /\ outcome'[c] = outcome[c] /\ (c \in table' => c \in table)
    BY <1>7, <2>1 DEF PumpApply, Finish
  <2>6. \A d \in Calls, r \in Ranks :
          Kept(d, r) /\ ~(d = c /\ r = k) => Kept(d, r)'
    BY <2>1, <2>2 DEF Kept, InTransit, Gone
  <2>7. left \subseteq waiting[c] \ {k} /\ waiting[c] \subseteq Ranks
    BY <2>1
  <2>8. \A d \in Calls : waiting[d] \subseteq Ranks
    OBVIOUS
  <2> HIDE DEF left
  <2>9. /\ outcome'[c] = "returned" => \A r \in Awaited[c] : c \in handled'[r]
        /\ c \in table' => \A r \in waiting'[c] : Kept(c, r)'
    <3>1. outcome'[c] = "returned" => \A r \in Awaited[c] : c \in handled'[r]
      <4>1. CASE left = {}
        BY <4>1, <2>2, <2>4
      <4>2. CASE outcome'[c] = outcome[c]
        BY <4>2, <2>1, <2>2 DEF NothingLost
      <4> QED BY <4>1, <4>2, <2>5
    <3>2. ASSUME c \in table', NEW r \in waiting'[c] PROVE Kept(c, r)'
      <4>1. c \in table /\ r \in left
        BY <3>2, <2>5
      <4>2. r \in waiting[c] /\ r # k /\ r \in Ranks
        BY <4>1, <2>7
      <4>3. Kept(c, r)
        BY <4>1, <4>2, <2>1, LostIs
      <4> QED BY <4>2, <4>3, <2>1, <2>6
    <3> QED BY <3>1, <3>2
  <2>10. ASSUME NEW d \in Calls \ {c}
         PROVE  /\ outcome'[d] = "returned" => \A r \in Awaited[d] : d \in handled'[r]
                /\ d \in table' => \A r \in waiting'[d] : Kept(d, r)'
    BY <2>2, <2>3, <2>6, <2>8, LostIs
  <2>11. \A d \in Calls :
           /\ outcome'[d] = "returned" => \A r \in Awaited[d] : d \in handled'[r]
           /\ d \in table' => \A r \in waiting'[d] : Kept(d, r)'
    BY <2>9, <2>10
  <2> QED BY <2>11 DEF NothingLost, Kept
<1> QED BY <1>1, <1>3, <1>4, <1>5, <1>6, <1>7 DEF Next, CallerStep, PumpStep, Settled

-----------------------------------------------------------------------------
\* The invariant is kept by every step of the callers, the workers, the pump and
\* close().
THEOREM IInvHolds == Spec => []IInv
<1>1. IInv /\ [Next]_vars => IInv'
  BY CallTypesNext, ResultNext, SendNextInv, WaitNext, TableNext, LostNext DEF IInv
<1> QED BY <1>1, InitIInv, PTL DEF Spec

\* Every variable of the coordinator keeps its type, and a result always answers
\* a command its rank was sent.
THEOREM TypesHold == Spec => []TypeOK
<1>1. IInv => TypeOK
  <2> SUFFICES ASSUME IInv PROVE TypeOK
    OBVIOUS
  <2>1. \A i \in DOMAIN resultQ : resultQ[i].req \in handled[resultQ[i].rank]
    BY DEF IInv, ResultInv
  <2> QED BY <2>1 DEF IInv, CallTypes, ResultInv, TypeOK, Done
<1> QED BY <1>1, IInvHolds, PTL

\* Every rank gets the commands in one order.
THEOREM OneOrderHolds == Spec => []OneOrder
<1>1. IInv => OneOrder
  BY DEF IInv
<1> QED BY <1>1, IInvHolds, PTL

\* The table holds exactly the calls whose caller may still be woken.
THEOREM TableExactHolds == Spec => []TableExact
<1>1. IInv => TableExact
  BY DEF IInv
<1> QED BY <1>1, IInvHolds, PTL

\* A call returns only what every rank it awaits has answered, and an answer a
\* call waits for is on its way until its rank is gone.
THEOREM NothingLostHolds == Spec => []NothingLost
<1>1. IInv => NothingLost
  BY DEF IInv
<1> QED BY <1>1, IInvHolds, PTL
=============================================================================
