-------------------------- MODULE WorkerLoopProofs --------------------------
(***************************************************************************)
(* What a rank says of the commands it has read holds for any number of    *)
(* replicas, ranks, commands and rows: each is in one place, begun in      *)
(* order, answered once, and never while a row of it decodes.              *)
(*                                                                         *)
(* Ranks that meet in a collective bring the same work.  For a train this  *)
(* is TrainsInv: all ranks have been through the same trains.  For a       *)
(* forward it is TeamInv, a relation between what a sibling shows and what *)
(* its leader shows: they are in one batch, the leader has left it, or the *)
(* sibling has, or both are at a train; the headers under way account for  *)
(* the difference.  The steps of the two are first proved on views, which  *)
(* are plain records, and then for the ranks.                              *)
(***************************************************************************)
EXTENDS WorkerLoop, FiniteSetTheorems, SequenceTheorems, WellFoundedInduction, TLAPS

Reqs == 1 .. MaxCommands
Rows == Reqs \X Nat
Results == [req : Reqs, ok : BOOLEAN, version : Nat]
Batches == [reqs : Seq(Reqs), open : SUBSET Rows, finished : SUBSET Rows, sent : SUBSET Reqs]
InBatch == {"refill", "sweep", "step", "post", "drained"}

Types ==
  /\ log \in [Reqs -> Menu]
  /\ \A e \in flagged : e[1] \in Groups /\ e[2] \in RowsOf(e[2][1], e[1])
  /\ taken \in [Ranks -> 0 .. MaxCommands]
  /\ deferred \in [Ranks -> Seq(Reqs)] /\ started \in [Ranks -> Seq(Reqs)]
  /\ headers \in [Ranks -> Seq(0 .. MaxCommands)]
  /\ place \in [Ranks -> InBatch \cup {"idle", "train", "dead"}]
  /\ batch \in [Ranks -> Batches] /\ outcome \in [Ranks -> SUBSET Rows]
  /\ version \in [Ranks -> Nat] /\ results \in [Ranks -> Seq(Results)]
  /\ failures \in 0 .. MaxFailures

\* Where a rank is says whether it has a batch, and a batch began with the last
\* command started; rows that ended have not left yet only before Post.
PlaceInv(r) ==
  /\ place[r] \in {"idle", "train"} => batch[r] = NoBatch
  /\ place[r] \in InBatch => Last(started[r]) \in ToSet(batch[r].reqs)
  /\ place[r] # "idle" => started[r] # <<>>
  /\ place[r] = "drained" => batch[r].open = {}
  /\ outcome[r] \subseteq batch[r].open
  /\ outcome[r] # {} => place[r] \in {"post", "dead"}

OKReqs(r) == {results[r][i].req : i \in OKs(r)}

\* A batch's rows are rows of its requests, finished or open, and none of an
\* answered request is open.
BatchInv(r) ==
  /\ \A x \in batch[r].open \cup batch[r].finished :
       x[1] \in ToSet(batch[r].reqs) /\ x \in RowsOf(x[1], GroupOf(r))
  /\ batch[r].open \cap batch[r].finished = {}
  /\ batch[r].sent \subseteq Reports(r)
  /\ \A x \in batch[r].open : x[1] \notin OKReqs(r)

Training(r) == IF place[r] = "train" THEN {Last(started[r])} ELSE {}

\* What a rank has read is reported, pending, deferred or being trained.
Homes(r) ==
  /\ Reports(r) \cup Unsent(batch[r]) \cup ToSet(deferred[r]) \cup Training(r)
       = 1 .. taken[r]
  /\ Reports(r) \cap (Unsent(batch[r]) \cup ToSet(deferred[r]) \cup Training(r)) = {}
  /\ Unsent(batch[r]) \cap (ToSet(deferred[r]) \cup Training(r)) = {}
  /\ ToSet(deferred[r]) \cap Training(r) = {}

Increasing(s) == \A i, j \in DOMAIN s : i < j => s[i] < s[j]

\* Commands are deferred in order, after those that were started.
OrderInv(r) ==
  /\ Increasing(started[r]) /\ Increasing(deferred[r])
  /\ \A i \in DOMAIN deferred[r] : deferred[r][i] <= taken[r]
  /\ \A i \in DOMAIN started[r] :
       /\ started[r][i] <= taken[r]
       /\ \A j \in DOMAIN deferred[r] : started[r][i] < deferred[r][j]

OneAnswerOf(r) ==
  \A i, j \in OKs(r) : results[r][i].req = results[r][j].req => i = j

ReportedInv(r) ==
  place[r] = "dead" => ToSet(batch[r].reqs) \cup {Last(started[r])} \subseteq Reports(r)

RankInv(r) ==
  /\ PlaceInv(r) /\ BatchInv(r) /\ OrderInv(r) /\ OneAnswerOf(r) /\ ReportedInv(r)
  /\ Live(r) => Homes(r)

IInv == Types /\ \A r \in Ranks : RankInv(r)

-----------------------------------------------------------------------------
LEMMA ConcatFacts ==
  ASSUME NEW S, NEW s \in Seq(S), NEW t \in Seq(S)
  PROVE  /\ s \o t \in Seq(S)
         /\ \A i \in DOMAIN s : i \in DOMAIN (s \o t) /\ (s \o t)[i] = s[i]
         /\ \A i \in DOMAIN t : Len(s) + i \in DOMAIN (s \o t) \ DOMAIN s
                                /\ (s \o t)[Len(s) + i] = t[i]
         /\ \A i \in DOMAIN (s \o t) \ DOMAIN s :
              i - Len(s) \in DOMAIN t /\ (s \o t)[i] = t[i - Len(s)]
         /\ \A i \in DOMAIN s, j \in DOMAIN (s \o t) \ DOMAIN s : i < j
<1> DEFINE u == s \o t
<1>1. /\ u \in Seq(S) /\ Len(s) \in Nat /\ Len(t) \in Nat /\ DOMAIN s = 1 .. Len(s)
      /\ DOMAIN t = 1 .. Len(t) /\ DOMAIN u = 1 .. Len(s) + Len(t)
      /\ \A i \in 1 .. Len(s) + Len(t) : u[i] = IF i <= Len(s) THEN s[i] ELSE t[i - Len(s)]
  BY ConcatProperties
<1> HIDE DEF u
<1>2. \A i \in DOMAIN s : i \in DOMAIN u /\ u[i] = s[i]
  BY <1>1
<1>3. \A i \in DOMAIN t : Len(s) + i \in DOMAIN u \ DOMAIN s /\ u[Len(s) + i] = t[i]
  BY <1>1
<1>4. \A i \in DOMAIN u \ DOMAIN s : i - Len(s) \in DOMAIN t /\ u[i] = t[i - Len(s)]
  BY <1>1
<1>5. \A i \in DOMAIN s, j \in DOMAIN u \ DOMAIN s : i < j
  BY <1>1
<1> QED BY <1>1, <1>2, <1>3, <1>4, <1>5 DEF u

LEMMA ConcatSet ==
  ASSUME NEW S, NEW s \in Seq(S), NEW t \in Seq(S)
  PROVE  ToSet(s \o t) = ToSet(s) \cup ToSet(t)
<1>1. \A x \in ToSet(s \o t) : x \in ToSet(s) \cup ToSet(t)
  BY ConcatFacts DEF ToSet
<1>2. \A x \in ToSet(s) : x \in ToSet(s \o t)
  BY ConcatFacts DEF ToSet
<1>3. \A x \in ToSet(t) : x \in ToSet(s \o t)
  <2> SUFFICES ASSUME NEW i \in DOMAIN t PROVE t[i] \in ToSet(s \o t)
    BY DEF ToSet
  <2>1. Len(s) + i \in DOMAIN (s \o t) /\ (s \o t)[Len(s) + i] = t[i]
    BY ConcatFacts
  <2> QED BY <2>1 DEF ToSet
<1> QED BY <1>1, <1>2, <1>3

LEMMA SetToSeqFacts ==
  ASSUME NEW S, IsFiniteSet(S)
  PROVE  /\ SetToSeq(S) \in Seq(S) /\ ToSet(SetToSeq(S)) = S
         /\ \A i, j \in DOMAIN SetToSeq(S) : SetToSeq(S)[i] = SetToSeq(S)[j] => i = j
<1> DEFINE D == 1 .. Cardinality(S)  s == SetToSeq(S)
<1>1. Cardinality(S) \in Nat /\ \E f \in [D -> S] : IsInjective(f)
  BY FS_CardinalityType DEF ExistsBijection, Bijection, Injection, IsInjective
<1>2. s \in [D -> S] /\ IsInjective(s)
  BY <1>1 DEF SetToSeq
<1>3. IsFiniteSet(D) /\ Cardinality(D) = Cardinality(S)
  BY <1>1, FS_Interval
<1>4. s \in Injection(D, S)
  BY <1>2 DEF Injection
<1> HIDE DEF D, s
<1>5. s \in Surjection(D, S)
  BY <1>3, <1>4, FS_Injection
<1>6. ToSet(s) = S
  BY <1>2, <1>5 DEF Surjection, ToSet
<1>7. s \in Seq(S)
  BY <1>1, <1>2 DEF D
<1> QED BY <1>2, <1>6, <1>7 DEF s, IsInjective

\* Results about some commands, one each.
LEMMA ResultsFacts ==
  ASSUME NEW cs \in SUBSET Reqs, NEW o \in BOOLEAN, NEW v \in Nat
  PROVE  LET new == {[req |-> c, ok |-> o, version |-> v] : c \in cs}
         IN  new \subseteq Results /\ IsFiniteSet(new)
<1> DEFINE new == {[req |-> c, ok |-> o, version |-> v] : c \in cs}
           f == [c \in cs |-> [req |-> c, ok |-> o, version |-> v]]
<1>1. IsFiniteSet(cs)
  <2>1. 1 \in Int /\ MaxCommands \in Int
    BY WorkerAssumption
  <2>2. IsFiniteSet(Reqs)
    BY <2>1, FS_Interval DEF Reqs
  <2> QED BY <2>2, FS_Subset
<1>2. f \in Surjection(cs, new)
  BY DEF Surjection
<1>3. IsFiniteSet(new)
  <2> HIDE DEF f, new
  <2> QED BY <1>1, <1>2, FS_Surjection
<1> QED BY <1>3 DEF Results

LEMMA RowsFacts ==
  ASSUME log \in [Reqs -> Menu]
  PROVE  /\ DOMAIN log = Reqs /\ Len(log) = MaxCommands
         /\ \A c \in Reqs, g \in Groups :
              RowsOf(c, g) \subseteq Rows /\ \A x \in RowsOf(c, g) : x[1] = c
<1>1. DOMAIN log = Reqs /\ Len(log) = MaxCommands
  BY WorkerAssumption DEF Reqs
<1>2. ASSUME NEW c \in Reqs, NEW g \in Groups
      PROVE  RowsOf(c, g) \subseteq Rows /\ \A x \in RowsOf(c, g) : x[1] = c
  <2>1. log[c].rows[g] \in Nat
    BY <1>2, WorkerAssumption
  <2> QED BY <2>1 DEF RowsOf, Rows
<1> QED BY <1>1, <1>2

LEMMA ReqsNat == \A c \in Reqs : c \in Nat /\ c > 0
BY WorkerAssumption DEF Reqs

LEMMA RankFacts == \A r \in Ranks : GroupOf(r) \in Groups
BY DEF Ranks, GroupOf

-----------------------------------------------------------------------------
\* What putting results adds to the reports.
LEMMA PutFacts ==
  ASSUME results \in [Ranks -> Seq(Results)], NEW r \in Ranks,
         NEW new \in SUBSET Results, IsFiniteSet(new), Put(r, new)
  PROVE  /\ results' \in [Ranks -> Seq(Results)]
         /\ \A q \in Ranks \ {r} : results'[q] = results[q]
         /\ Reports(r)' = Reports(r) \cup {a.req : a \in new}
         /\ OKReqs(r)' = OKReqs(r) \cup {a.req : a \in {b \in new : b.ok}}
<1> DEFINE s == results[r]  t == SetToSeq(new)
<1>1. t \in Seq(new) /\ ToSet(t) = new
  BY SetToSeqFacts
<1>2. s \in Seq(Results) /\ t \in Seq(Results)
  BY <1>1, SeqMonotonic
<1>3. s \o t \in Seq(Results) /\ ToSet(s \o t) = ToSet(s) \cup new
  <2> HIDE DEF s, t
  <2> QED BY <1>1, <1>2, ConcatFacts, ConcatSet
<1>4. results' = [results EXCEPT ![r] = s \o t]
  BY DEF Put
<1>5. results' \in [Ranks -> Seq(Results)] /\ results'[r] = s \o t
      /\ \A q \in Ranks \ {r} : results'[q] = results[q]
  <2> HIDE DEF s, t
  <2> QED BY <1>3, <1>4
<1>6. Reports(r) = {a.req : a \in ToSet(s)}
  BY DEF Reports, ToSet
<1>7. OKReqs(r) = {a.req : a \in {b \in ToSet(s) : b.ok}}
  BY DEF OKReqs, OKs, ToSet
<1> HIDE DEF t
<1>8. Reports(r)' = {a.req : a \in ToSet(s \o t)}
  BY <1>5 DEF Reports, ToSet
<1>9. OKReqs(r)' = {a.req : a \in {b \in ToSet(s \o t) : b.ok}}
  BY <1>5 DEF OKReqs, OKs, ToSet
<1> HIDE DEF s
<1> QED BY <1>3, <1>5, <1>6, <1>7, <1>8, <1>9

\* New answers to commands not reported yet leave one answer each.
LEMMA PutOne ==
  ASSUME results \in [Ranks -> Seq(Results)], NEW r \in Ranks, OneAnswerOf(r),
         NEW new \in SUBSET Results, IsFiniteSet(new), Put(r, new),
         \A a \in new : a.ok => a.req \notin OKReqs(r),
         \A a, b \in new : a.req = b.req => a = b
  PROVE  OneAnswerOf(r)'
<1> DEFINE s == results[r]  t == SetToSeq(new)
<1>1. t \in Seq(new) /\ ToSet(t) = new /\ \A i, j \in DOMAIN t : t[i] = t[j] => i = j
  BY SetToSeqFacts
<1>2. s \in Seq(Results) /\ t \in Seq(Results)
  BY <1>1, SeqMonotonic
<1>3. results'[r] = s \o t
  BY DEF Put
<1>4. \A i \in DOMAIN s : s[i].ok => s[i].req \in OKReqs(r)
  BY DEF OKReqs, OKs
<1>5. \A i, j \in DOMAIN s : s[i].ok /\ s[j].ok /\ s[i].req = s[j].req => i = j
  BY DEF OneAnswerOf, OKs
<1> HIDE DEF s, t
<1>6. \A i \in DOMAIN t : t[i] \in new
  BY <1>1 DEF ToSet
<1> SUFFICES ASSUME NEW i \in DOMAIN (s \o t), NEW j \in DOMAIN (s \o t),
                    (s \o t)[i].ok, (s \o t)[j].ok, (s \o t)[i].req = (s \o t)[j].req
             PROVE  i = j
  BY <1>3 DEF OneAnswerOf, OKs
<1>7. /\ \A k \in DOMAIN s : (s \o t)[k] = s[k]
      /\ \A k \in DOMAIN (s \o t) \ DOMAIN s :
           k - Len(s) \in DOMAIN t /\ (s \o t)[k] = t[k - Len(s)]
  BY <1>2, ConcatFacts
<1>8. CASE i \in DOMAIN s /\ j \in DOMAIN s
  BY <1>5, <1>7, <1>8
<1>9. CASE i \in DOMAIN s /\ j \notin DOMAIN s
  BY <1>4, <1>6, <1>7, <1>9
<1>10. CASE i \notin DOMAIN s /\ j \in DOMAIN s
  BY <1>4, <1>6, <1>7, <1>10
<1>11. CASE i \notin DOMAIN s /\ j \notin DOMAIN s
  <2>1. i - Len(s) = j - Len(s)
    BY <1>1, <1>6, <1>7, <1>11
  <2>2. i \in Nat /\ j \in Nat /\ Len(s) \in Nat
    <3>1. s \o t \in Seq(Results)
      BY <1>2, ConcatFacts
    <3> QED BY <3>1, <1>2
  <2> QED BY <2>1, <2>2
<1> QED BY <1>8, <1>9, <1>10, <1>11

-----------------------------------------------------------------------------
\* What answering does to a batch and to the requests it still owes.
LEMMA SendReadyFacts ==
  ASSUME NEW g, NEW b \in Batches
  PROVE  LET s == SendReady(b, g)
         IN  /\ s.b \in Batches /\ s.b.reqs = b.reqs /\ s.b.open = b.open
             /\ s.b.finished = b.finished /\ s.b.sent = b.sent \cup s.done
             /\ s.done \subseteq Unsent(b) /\ s.done \subseteq Reqs
             /\ Unsent(s.b) = Unsent(b) \ s.done
             /\ \A c \in s.done : RowsOf(c, g) \subseteq b.finished
<1> DEFINE done == Ready(b, g)
<1>1. b.reqs \in Seq(Reqs)
  BY DEF Batches
<1>2. ToSet(b.reqs) \subseteq Reqs
  BY <1>1, ElementOfSeq DEF ToSet
<1>3. done \subseteq Unsent(b) /\ done \subseteq Reqs
      /\ \A c \in done : RowsOf(c, g) \subseteq b.finished
  BY <1>2 DEF Ready, Unsent
<1> HIDE DEF done
<1> DEFINE n == [b EXCEPT !.sent = @ \cup done]
<1>4. n \in Batches /\ n.reqs = b.reqs /\ n.open = b.open
      /\ n.finished = b.finished /\ n.sent = b.sent \cup done
  BY <1>3 DEF Batches
<1> HIDE DEF n
<1>5. Unsent(n) = Unsent(b) \ done
  BY <1>4 DEF Unsent
<1>6. SendReady(b, g).b = n /\ SendReady(b, g).done = done
  BY DEF SendReady, n, done
<1> QED BY <1>3, <1>4, <1>5, <1>6

LEMMA CallbackFacts ==
  ASSUME batch \in [Ranks -> Batches], NEW r \in Ranks, NEW rows \in SUBSET Rows
  PROVE  LET s == Callback(r, rows)
             b == batch[r]
         IN  /\ s.b \in Batches /\ s.b.reqs = b.reqs /\ s.b.open = b.open
             /\ s.b.finished = b.finished \cup rows /\ s.b.sent = b.sent \cup s.done
             /\ s.done \subseteq Unsent(b) /\ s.done \subseteq Reqs
             /\ Unsent(s.b) = Unsent(b) \ s.done
             /\ \A c \in s.done : RowsOf(c, GroupOf(r)) \subseteq b.finished \cup rows
<1> DEFINE b == batch[r]  m == [b EXCEPT !.finished = @ \cup rows]
<1>1. b \in Batches
  OBVIOUS
<1> HIDE DEF b
<1>2. m \in Batches /\ m.reqs = b.reqs /\ m.open = b.open
      /\ m.finished = b.finished \cup rows /\ m.sent = b.sent
  BY <1>1 DEF Batches
<1>3. Unsent(m) = Unsent(b)
  BY <1>2 DEF Unsent
<1>4. CASE rows = {}
  <2>1. Callback(r, rows).b = b /\ Callback(r, rows).done = {}
    BY <1>4 DEF Callback, b
  <2>2. b.sent \cup {} = b.sent /\ b.finished \cup rows = b.finished
    BY <1>4
  <2>3. Unsent(b) \ {} = Unsent(b)
    OBVIOUS
  <2> QED BY <1>1, <2>1, <2>2, <2>3 DEF b
<1>5. CASE rows # {}
  <2>1. Callback(r, rows) = SendReady(m, GroupOf(r))
    BY <1>5 DEF Callback, b
  <2> HIDE DEF m
  <2> DEFINE s == SendReady(m, GroupOf(r))
  <2>2. /\ s.b \in Batches /\ s.b.reqs = m.reqs /\ s.b.open = m.open
        /\ s.b.finished = m.finished /\ s.b.sent = m.sent \cup s.done
        /\ s.done \subseteq Unsent(m) /\ s.done \subseteq Reqs
        /\ Unsent(s.b) = Unsent(m) \ s.done
        /\ \A c \in s.done : RowsOf(c, GroupOf(r)) \subseteq m.finished
    BY <1>2, SendReadyFacts
  <2> HIDE DEF s
  <2>3. Callback(r, rows) = s
    BY <2>1 DEF s
  <2> QED BY <1>2, <1>3, <2>2, <2>3 DEF b
<1> QED BY <1>4, <1>5

\* Answers to requests of the batch that are not reported yet.
LEMMA AnswerFacts ==
  ASSUME Types, NEW r \in Ranks, OneAnswerOf(r),
         NEW cs \in SUBSET Reqs, cs \cap Reports(r) = {}, PutAnswers(r, cs)
  PROVE  /\ results' \in [Ranks -> Seq(Results)]
         /\ \A q \in Ranks \ {r} : results'[q] = results[q]
         /\ Reports(r)' = Reports(r) \cup cs /\ OKReqs(r)' = OKReqs(r) \cup cs
         /\ OneAnswerOf(r)'
<1> DEFINE new == {Answer(r, c) : c \in cs}
<1>1. version[r] \in Nat
  BY DEF Types
<1>2. new = {[req |-> c, ok |-> TRUE, version |-> version[r]] : c \in cs}
  BY DEF Answer
<1>3. new \in SUBSET Results /\ IsFiniteSet(new)
  BY <1>1, <1>2, ResultsFacts
<1>4. Put(r, new)
  BY DEF PutAnswers
<1> DEFINE f(c) == [req |-> c, ok |-> TRUE, version |-> version[r]]
<1>5. \A c \in cs : f(c) \in new /\ f(c).req = c /\ f(c).ok
  BY <1>2
<1>6. \A a \in new : a.req \in cs /\ a.ok /\ a = f(a.req)
  BY <1>2
<1> HIDE DEF new, f
<1>7. {a.req : a \in new} = cs /\ {a.req : a \in {b \in new : b.ok}} = cs
  BY <1>5, <1>6
<1>8. \A a \in new : a.req \in cs
  BY <1>6
<1>9. \A a, b \in new : a.req = b.req => a = b
  BY <1>6
<1>10. OKReqs(r) \subseteq Reports(r)
  BY DEF OKReqs, OKs, Reports
<1>11. results \in [Ranks -> Seq(Results)]
  BY DEF Types
<1>12. /\ results' \in [Ranks -> Seq(Results)]
       /\ \A q \in Ranks \ {r} : results'[q] = results[q]
       /\ Reports(r)' = Reports(r) \cup cs /\ OKReqs(r)' = OKReqs(r) \cup cs
  BY <1>3, <1>4, <1>7, <1>11, PutFacts
<1>13. OneAnswerOf(r)'
  BY <1>3, <1>4, <1>8, <1>9, <1>10, <1>11, PutOne
<1> QED BY <1>12, <1>13

\* A rank whose part of the state stays as it is keeps its invariant.
LEMMA RankKept ==
  ASSUME NEW r \in Ranks, RankInv(r), log' = log, taken'[r] = taken[r],
         deferred'[r] = deferred[r], place'[r] = place[r], batch'[r] = batch[r],
         outcome'[r] = outcome[r], started'[r] = started[r], results'[r] = results[r]
  PROVE  RankInv(r)'
<1>1. Reports(r)' = Reports(r) /\ OKs(r)' = OKs(r)
  BY DEF Reports, OKs
<1>2. OKReqs(r)' = OKReqs(r) /\ (OneAnswerOf(r) => OneAnswerOf(r)')
  BY <1>1 DEF OKReqs, OneAnswerOf
<1>3. Training(r)' = Training(r) /\ (Live(r)' <=> Live(r))
  BY DEF Training, Live
<1>4. \A c, g : RowsOf(c, g)' = RowsOf(c, g)
  BY DEF RowsOf
<1>5. PlaceInv(r)' /\ ReportedInv(r)'
  BY <1>1 DEF RankInv, PlaceInv, ReportedInv
<1>6. BatchInv(r)'
  BY <1>1, <1>2, <1>4 DEF RankInv, BatchInv
<1>7. OrderInv(r)'
  BY DEF RankInv, OrderInv
<1>8. Live(r)' => Homes(r)'
  BY <1>1, <1>3 DEF RankInv, Homes
<1> QED BY <1>2, <1>5, <1>6, <1>7, <1>8 DEF RankInv

-----------------------------------------------------------------------------
LEMMA AppendFacts ==
  ASSUME NEW S, NEW s \in Seq(S), NEW x \in S
  PROVE  /\ Append(s, x) \in Seq(S) /\ Append(s, x) # <<>>
         /\ ToSet(Append(s, x)) = ToSet(s) \cup {x} /\ Last(Append(s, x)) = x
         /\ \A i \in DOMAIN s : i \in DOMAIN Append(s, x) /\ Append(s, x)[i] = s[i]
         /\ \A i \in DOMAIN Append(s, x) \ DOMAIN s : Append(s, x)[i] = x
         /\ \A i \in DOMAIN Append(s, x), j \in DOMAIN Append(s, x) :
              i < j => i \in DOMAIN s
<1> DEFINE t == Append(s, x)
<1>1. /\ t \in Seq(S) /\ Len(s) \in Nat /\ Len(t) = Len(s) + 1
      /\ DOMAIN s = 1 .. Len(s) /\ DOMAIN t = 1 .. Len(s) + 1
      /\ t[Len(s) + 1] = x /\ \A i \in 1 .. Len(s) : t[i] = s[i]
  OBVIOUS
<1> HIDE DEF t
<1>2. t # <<>> /\ Last(t) = x
  BY <1>1 DEF Last
<1>3. \A i \in DOMAIN s : i \in DOMAIN t /\ t[i] = s[i]
  BY <1>1
<1>4. \A i \in DOMAIN t \ DOMAIN s : t[i] = x
  BY <1>1
<1>5. \A i \in DOMAIN t, j \in DOMAIN t : i < j => i \in DOMAIN s
  BY <1>1
<1>6. ToSet(t) = ToSet(s) \cup {x}
  <2>1. \A i \in DOMAIN t : t[i] \in ToSet(s) \cup {x}
    BY <1>3, <1>4 DEF ToSet
  <2>2. \A i \in DOMAIN s : s[i] \in ToSet(t)
    BY <1>3 DEF ToSet
  <2>3. x \in ToSet(t)
    BY <1>1 DEF ToSet
  <2> QED BY <2>1, <2>2, <2>3 DEF ToSet
<1> QED BY <1>1, <1>2, <1>3, <1>4, <1>5, <1>6 DEF t

LEMMA TailFacts ==
  ASSUME NEW S, NEW s \in Seq(S), s # <<>>
  PROVE  /\ Tail(s) \in Seq(S) /\ Head(s) \in S /\ 1 \in DOMAIN s /\ Head(s) = s[1]
         /\ \A i \in DOMAIN Tail(s) :
              i \in Nat /\ i > 0 /\ i + 1 \in DOMAIN s /\ Tail(s)[i] = s[i + 1]
         /\ ToSet(s) = ToSet(Tail(s)) \cup {Head(s)}
<1> DEFINE t == Tail(s)
<1>1. /\ t \in Seq(S) /\ Len(s) \in Nat /\ Len(s) > 0 /\ Len(t) = Len(s) - 1
      /\ DOMAIN s = 1 .. Len(s) /\ DOMAIN t = 1 .. Len(s) - 1
      /\ Head(s) = s[1] /\ \A i \in 1 .. Len(s) - 1 : t[i] = s[i + 1]
  BY HeadTailProperties, EmptySeq
<1> HIDE DEF t
<1>2. \A i \in DOMAIN t : i \in Nat /\ i > 0 /\ i + 1 \in DOMAIN s /\ t[i] = s[i + 1]
  BY <1>1
<1>3. 1 \in DOMAIN s /\ s[1] \in S
  BY <1>1, ElementOfSeq
<1>4. ASSUME NEW i \in DOMAIN s PROVE s[i] \in ToSet(t) \cup {s[1]}
  <2>1. CASE i = 1
    BY <2>1
  <2>2. CASE i # 1
    <3>1. i - 1 \in DOMAIN t /\ t[i - 1] = s[i]
      BY <1>1, <2>2
    <3> QED BY <3>1 DEF ToSet
  <2> QED BY <2>1, <2>2
<1>5. ToSet(s) = ToSet(t) \cup {s[1]}
  <2>1. \A x \in ToSet(s) : x \in ToSet(t) \cup {s[1]}
    BY <1>4 DEF ToSet
  <2>2. \A x \in ToSet(t) : x \in ToSet(s)
    BY <1>2 DEF ToSet
  <2> QED BY <1>3, <2>1, <2>2 DEF ToSet
<1> QED BY <1>1, <1>2, <1>3, <1>5 DEF t

\* A larger element may be appended to an increasing sequence.
LEMMA IncreasingAppend ==
  ASSUME NEW s \in Seq(Reqs), NEW c \in Reqs, Increasing(s),
         \A i \in DOMAIN s : s[i] < c
  PROVE  Increasing(Append(s, c))
<1> DEFINE t == Append(s, c)
<1>1. /\ \A i \in DOMAIN s : i \in DOMAIN t /\ t[i] = s[i]
      /\ \A i \in DOMAIN t \ DOMAIN s : t[i] = c
      /\ \A i \in DOMAIN t, j \in DOMAIN t : i < j => i \in DOMAIN s
  BY AppendFacts
<1> HIDE DEF t
<1> SUFFICES ASSUME NEW i \in DOMAIN t, NEW j \in DOMAIN t, i < j
             PROVE  t[i] < t[j]
  BY DEF Increasing, t
<1>2. CASE j \in DOMAIN s
  BY <1>1, <1>2 DEF Increasing
<1>3. CASE j \notin DOMAIN s
  BY <1>1, <1>3
<1> QED BY <1>2, <1>3

LEMMA NoBatchFacts == NoBatch \in Batches /\ Unsent(NoBatch) = {}
<1>1. <<>> \in Seq(Reqs) /\ ToSet(<<>>) = {}
  BY DEF ToSet
<1> QED BY <1>1 DEF NoBatch, Batches, Unsent

\* The next command of an idle rank is one it has not reported, later than all
\* it started and earlier than all it still defers.
LEMMA TakeFacts ==
  ASSUME Types, NEW r \in Ranks, RankInv(r), place[r] = "idle", Available(r), TakeNext(r)
  PROVE  LET c == NextCommand(r)
         IN  /\ c \in Reqs /\ c \in 1 .. taken'[r] /\ taken'[r] \in 0 .. MaxCommands
             /\ taken' \in [Ranks -> 0 .. MaxCommands] /\ deferred' \in [Ranks -> Seq(Reqs)]
             /\ \A q \in Ranks \ {r} : taken'[q] = taken[q] /\ deferred'[q] = deferred[q]
             /\ Reports(r) \cup ToSet(deferred'[r]) \cup {c} = 1 .. taken'[r]
             /\ c \notin Reports(r) /\ c \notin ToSet(deferred'[r])
             /\ Reports(r) \cap ToSet(deferred'[r]) = {}
             /\ Increasing(deferred'[r]) /\ taken[r] <= taken'[r]
             /\ \A j \in DOMAIN deferred'[r] : c < deferred'[r][j] /\ deferred'[r][j] <= taken'[r]
             /\ \A i \in DOMAIN started[r] : started[r][i] < c
<1> DEFINE c == NextCommand(r)  d == deferred[r]  n == taken[r]
<1>1. d \in Seq(Reqs) /\ n \in 0 .. MaxCommands /\ deferred \in [Ranks -> Seq(Reqs)]
      /\ taken \in [Ranks -> 0 .. MaxCommands] /\ MaxCommands \in Nat
      /\ Len(log) = MaxCommands /\ started[r] \in Seq(Reqs)
  BY RowsFacts, WorkerAssumption DEF Types
<1>2. Reports(r) \cup ToSet(d) = 1 .. n /\ Reports(r) \cap ToSet(d) = {}
  <2>1. Unsent(batch[r]) = {} /\ Training(r) = {}
    BY NoBatchFacts DEF RankInv, PlaceInv, Training
  <2> QED BY <2>1 DEF RankInv, Homes, Live
<1>3. Increasing(d) /\ \A i \in DOMAIN started[r] : started[r][i] <= n
      /\ \A j \in DOMAIN d : started[r][i] < d[j]
  BY DEF RankInv, OrderInv
<1>4. \A j \in DOMAIN d : d[j] <= n /\ d[j] \in Reqs
  BY <1>1, ElementOfSeq DEF RankInv, OrderInv
<1>5. \A i \in DOMAIN started[r] : started[r][i] \in Reqs
  BY <1>1, ElementOfSeq
<1>6. CASE d # <<>>
  <2>1. c = Head(d) /\ taken' = taken /\ deferred' = [deferred EXCEPT ![r] = Tail(d)]
    BY <1>6 DEF NextCommand, TakeNext
  <2>2. /\ Tail(d) \in Seq(Reqs) /\ c \in Reqs /\ 1 \in DOMAIN d /\ c = d[1]
        /\ \A i \in DOMAIN Tail(d) : i \in Nat /\ i > 0 /\ i + 1 \in DOMAIN d /\ Tail(d)[i] = d[i + 1]
        /\ ToSet(d) = ToSet(Tail(d)) \cup {c}
    BY <1>1, <1>6, <2>1, TailFacts
  <2>3. deferred' \in [Ranks -> Seq(Reqs)] /\ deferred'[r] = Tail(d)
        /\ \A q \in Ranks \ {r} : deferred'[q] = deferred[q]
    BY <1>1, <2>1, <2>2
  <2>4. \A j \in DOMAIN Tail(d) : c < Tail(d)[j] /\ Tail(d)[j] <= n
    BY <1>3, <1>4, <2>2 DEF Increasing
  <2>5. ASSUME NEW i \in DOMAIN Tail(d), NEW j \in DOMAIN Tail(d), i < j
        PROVE  Tail(d)[i] < Tail(d)[j]
    <3>1. i + 1 \in DOMAIN d /\ j + 1 \in DOMAIN d /\ i + 1 < j + 1
      BY <2>2, <2>5
    <3>2. d[i + 1] < d[j + 1]
      BY <1>3, <3>1 DEF Increasing
    <3> QED BY <2>2, <3>2
  <2>6. c \notin ToSet(Tail(d))
    <3>1. \A j \in DOMAIN Tail(d) : Tail(d)[j] # c
      BY <2>2, <2>4 DEF Reqs
    <3> QED BY <3>1 DEF ToSet
  <2>7. c \in ToSet(d) /\ c \in 1 .. n
    BY <1>2, <2>2
  <2>8. \A i \in DOMAIN started[r] : started[r][i] < c
    BY <1>3, <2>2
  <2> HIDE DEF c, d, n
  <2>9. taken'[r] = n /\ \A q \in Ranks \ {r} : taken'[q] = taken[q]
    BY <2>1 DEF n
  <2>10. Reports(r) \cup ToSet(Tail(d)) \cup {c} = 1 .. n /\ c \notin Reports(r)
         /\ Reports(r) \cap ToSet(Tail(d)) = {}
    BY <1>2, <2>2, <2>7
  <2>11. n <= n
    BY <1>1
  <2> QED BY <1>1, <2>1, <2>2, <2>3, <2>4, <2>5, <2>6, <2>7, <2>8, <2>9, <2>10, <2>11 DEF c, n, Increasing
<1>7. CASE d = <<>>
  <2>1. c = n + 1 /\ taken' = [taken EXCEPT ![r] = n + 1] /\ deferred' = deferred
    BY <1>7 DEF NextCommand, TakeNext
  <2>2. n < MaxCommands
    BY <1>1, <1>7 DEF Available
  <2>3. ToSet(d) = {} /\ DOMAIN d = {}
    BY <1>7 DEF ToSet
  <2> HIDE DEF c, d, n
  <2>4. c \in Reqs /\ c \in 1 .. n + 1 /\ n + 1 \in 0 .. MaxCommands /\ n <= n + 1
    BY <1>1, <2>1, <2>2 DEF Reqs
  <2>5. taken' \in [Ranks -> 0 .. MaxCommands] /\ taken'[r] = n + 1
        /\ \A q \in Ranks \ {r} : taken'[q] = taken[q]
    BY <1>1, <2>1, <2>4
  <2>6. Reports(r) \cup {c} = 1 .. n + 1 /\ c \notin Reports(r)
    BY <1>1, <1>2, <2>1, <2>3
  <2>7. \A i \in DOMAIN started[r] : started[r][i] < c
    BY <1>1, <1>3, <1>5, <2>1 DEF Reqs
  <2>8. deferred'[r] = d /\ Increasing(d)
    BY <1>3, <2>1 DEF d
  <2> QED BY <1>1, <2>1, <2>3, <2>4, <2>5, <2>6, <2>7, <2>8 DEF c, n
<1> QED BY <1>6, <1>7

-----------------------------------------------------------------------------
\* A step of one rank leaves the parts of the others alone.
Others(r) ==
  \A q \in Ranks \ {r} :
    /\ taken'[q] = taken[q] /\ deferred'[q] = deferred[q] /\ place'[q] = place[q]
    /\ batch'[q] = batch[q] /\ outcome'[q] = outcome[q]
    /\ started'[q] = started[q] /\ results'[q] = results[q]

LEMMA OthersKept ==
  ASSUME NEW r \in Ranks, \A q \in Ranks : RankInv(q), log' = log, Others(r), RankInv(r)'
  PROVE  \A q \in Ranks : RankInv(q)'
<1> SUFFICES ASSUME NEW q \in Ranks, q # r PROVE RankInv(q)'
  OBVIOUS
<1> QED BY RankKept DEF Others

LEMMA BatchOfFacts ==
  ASSUME Types, NEW r \in Ranks, NEW c \in Reqs
  PROVE  LET b == BatchOf(r, c)
         IN  /\ b \in Batches /\ ToSet(b.reqs) = {c} /\ b.open = RowsOf(c, GroupOf(r))
             /\ b.finished = {} /\ b.sent = {} /\ Unsent(b) = {c}
<1> DEFINE b == BatchOf(r, c)
<1>1. <<c>> \in Seq(Reqs) /\ ToSet(<<c>>) = {c}
  BY DEF ToSet
<1>2. RowsOf(c, GroupOf(r)) \subseteq Rows
  BY RowsFacts, RankFacts DEF Types
<1>3. b = [reqs |-> <<c>>, open |-> RowsOf(c, GroupOf(r)), finished |-> {}, sent |-> {}]
  <2> DEFINE o == RowsOf(c, GroupOf(r))  s == <<c>>
  <2>1. b = [NoBatch EXCEPT !.reqs = s, !.open = o]
    BY DEF BatchOf
  <2> HIDE DEF o, s, b
  <2>2. b = [reqs |-> s, open |-> o, finished |-> {}, sent |-> {}]
    BY <2>1 DEF NoBatch
  <2> QED BY <2>2 DEF o, s
<1>4. b \in Batches
  <2> HIDE DEF b
  <2> QED BY <1>1, <1>2, <1>3 DEF Batches
<1>5. Unsent(b) = {c}
  BY <1>1, <1>3 DEF Unsent
<1> HIDE DEF b
<1>6. b.reqs = <<c>> /\ b.open = RowsOf(c, GroupOf(r)) /\ b.finished = {} /\ b.sent = {}
  BY <1>3
<1> QED BY <1>1, <1>4, <1>5, <1>6 DEF b

LEMMA StartInv ==
  ASSUME Types, NEW r \in Ranks, RankInv(r), Start(r)
  PROVE  Types' /\ Others(r) /\ RankInv(r)'
<1>0. PICK c : c = NextCommand(r)
  OBVIOUS
<1> DEFINE g == GroupOf(r)  b == BatchOf(r, c)
<1>1. /\ place[r] = "idle" /\ Available(r) /\ TakeNext(r)
      /\ started' = [started EXCEPT ![r] = Append(@, c)]
      /\ UNCHANGED <<log, flagged, headers, outcome, version, failures>>
  BY <1>0 DEF Start
<1>2. /\ c \in Reqs /\ c \in 1 .. taken'[r] /\ taken'[r] \in 0 .. MaxCommands
      /\ taken' \in [Ranks -> 0 .. MaxCommands] /\ deferred' \in [Ranks -> Seq(Reqs)]
      /\ \A q \in Ranks \ {r} : taken'[q] = taken[q] /\ deferred'[q] = deferred[q]
      /\ Reports(r) \cup ToSet(deferred'[r]) \cup {c} = 1 .. taken'[r]
      /\ c \notin Reports(r) /\ c \notin ToSet(deferred'[r])
      /\ Reports(r) \cap ToSet(deferred'[r]) = {}
      /\ Increasing(deferred'[r]) /\ taken[r] <= taken'[r]
      /\ \A j \in DOMAIN deferred'[r] : c < deferred'[r][j] /\ deferred'[r][j] <= taken'[r]
      /\ \A i \in DOMAIN started[r] : started[r][i] < c
  BY <1>0, <1>1, TakeFacts
<1>3. \/ /\ log[c].op = "train" /\ place' = [place EXCEPT ![r] = "train"]
         /\ UNCHANGED <<batch, results>>
      \/ /\ b.open = {} /\ PutAnswers(r, SendReady(b, g).done)
         /\ UNCHANGED <<place, batch>>
      \/ /\ b.open # {} /\ place' = [place EXCEPT ![r] = "refill"]
         /\ batch' = [batch EXCEPT ![r] = b] /\ UNCHANGED results
  BY <1>0 DEF Start
<1>4. /\ b \in Batches /\ ToSet(b.reqs) = {c} /\ b.open = RowsOf(c, g)
      /\ b.finished = {} /\ b.sent = {} /\ Unsent(b) = {c}
  BY <1>2, BatchOfFacts
<1> HIDE DEF b
<1>5. /\ started[r] \in Seq(Reqs) /\ started \in [Ranks -> Seq(Reqs)]
      /\ place \in [Ranks -> InBatch \cup {"idle", "train", "dead"}]
      /\ batch \in [Ranks -> Batches]
  BY DEF Types
<1>6. Append(started[r], c) \in Seq(Reqs) /\ Append(started[r], c) # <<>>
      /\ Last(Append(started[r], c)) = c
      /\ ToSet(Append(started[r], c)) = ToSet(started[r]) \cup {c}
      /\ Increasing(Append(started[r], c))
  <2>1. Increasing(started[r])
    BY DEF RankInv, OrderInv
  <2>2. Increasing(Append(started[r], c))
    BY <1>2, <1>5, <2>1, IncreasingAppend
  <2>3. started[r] \in Seq(Reqs) /\ c \in Reqs
    BY <1>2, <1>5
  <2>4. Append(started[r], c) \in Seq(Reqs) /\ Append(started[r], c) # <<>>
        /\ Last(Append(started[r], c)) = c
        /\ ToSet(Append(started[r], c)) = ToSet(started[r]) \cup {c}
    BY <2>3, AppendFacts
  <2> QED BY <2>2, <2>4
<1>7. started' \in [Ranks -> Seq(Reqs)] /\ started'[r] = Append(started[r], c)
      /\ \A q \in Ranks \ {r} : started'[q] = started[q]
  BY <1>1, <1>5, <1>6
<1>8. batch[r] = NoBatch /\ Unsent(batch[r]) = {}
  BY <1>1, NoBatchFacts DEF RankInv, PlaceInv
<1>9. OrderInv(r)'
  <2>1. \A i \in DOMAIN Append(started[r], c) :
          Append(started[r], c)[i] = c \/ \E k \in DOMAIN started[r] : Append(started[r], c)[i] = started[r][k]
    BY <1>2, <1>5, AppendFacts
  <2>2. \A i \in DOMAIN started[r] : started[r][i] \in Nat
    BY <1>5, ElementOfSeq, ReqsNat
  <2>3. \A j \in DOMAIN deferred'[r] : deferred'[r][j] \in Nat
    <3>1. deferred'[r] \in Seq(Reqs)
      BY <1>2
    <3> QED BY <3>1, ElementOfSeq, ReqsNat
  <2>4. \A i \in DOMAIN Append(started[r], c) :
          /\ Append(started[r], c)[i] <= taken'[r]
          /\ \A j \in DOMAIN deferred'[r] : Append(started[r], c)[i] < deferred'[r][j]
    BY <1>2, <2>1, <2>2, <2>3
  <2> QED BY <1>2, <1>6, <1>7, <2>4 DEF OrderInv
<1>10. outcome[r] = {}
  BY <1>1 DEF RankInv, PlaceInv
<1>11. CASE /\ log[c].op = "train" /\ place' = [place EXCEPT ![r] = "train"]
            /\ UNCHANGED <<batch, results>>
  <2>1. place'[r] = "train" /\ \A q \in Ranks \ {r} : place'[q] = place[q]
    BY <1>5, <1>11
  <2>2. Types'
    BY <1>1, <1>2, <1>7, <1>11 DEF Types, RowsOf
  <2>3. Others(r)
    BY <1>1, <1>2, <1>7, <1>11, <2>1 DEF Others
  <2>4. Reports(r)' = Reports(r) /\ OKs(r)' = OKs(r) /\ OneAnswerOf(r)'
    BY <1>11 DEF Reports, OKs, RankInv, OneAnswerOf
  <2>5. PlaceInv(r)' /\ ReportedInv(r)'
    BY <1>1, <1>6, <1>7, <1>8, <1>10, <1>11, <2>1 DEF PlaceInv, InBatch, ReportedInv
  <2>6. BatchInv(r)'
    BY <1>8, <1>11 DEF BatchInv, NoBatch
  <2>7. Homes(r)'
    <3>1. Training(r)' = {c}
      BY <1>6, <1>7, <2>1 DEF Training
    <3>2. Unsent(batch'[r]) = {}
      BY <1>8, <1>11
    <3> QED BY <1>2, <2>4, <3>1, <3>2 DEF Homes
  <2> QED BY <1>9, <2>2, <2>3, <2>4, <2>5, <2>6, <2>7 DEF RankInv
<1>12. CASE /\ b.open = {} /\ PutAnswers(r, SendReady(b, g).done)
            /\ UNCHANGED <<place, batch>>
  <2>1. SendReady(b, g).done = {c}
    BY <1>4, <1>12 DEF SendReady, Ready
  <2>2. PutAnswers(r, {c}) /\ {c} \in SUBSET Reqs /\ {c} \cap Reports(r) = {}
    BY <1>2, <1>12, <2>1
  <2>3. /\ results' \in [Ranks -> Seq(Results)]
        /\ \A q \in Ranks \ {r} : results'[q] = results[q]
        /\ Reports(r)' = Reports(r) \cup {c} /\ OneAnswerOf(r)'
    BY <2>2, AnswerFacts DEF RankInv
  <2>4. Types'
    BY <1>1, <1>2, <1>7, <1>12, <2>3 DEF Types, RowsOf
  <2>5. Others(r)
    BY <1>1, <1>2, <1>7, <1>12, <2>3 DEF Others
  <2>6. PlaceInv(r)' /\ ReportedInv(r)'
    BY <1>1, <1>8, <1>10, <1>12 DEF PlaceInv, InBatch, ReportedInv, NoBatch
  <2>7. BatchInv(r)'
    BY <1>8, <1>12 DEF BatchInv, NoBatch
  <2>8. Homes(r)'
    <3>1. Training(r)' = {}
      BY <1>1, <1>12 DEF Training
    <3>2. Unsent(batch'[r]) = {}
      BY <1>8, <1>12
    <3> QED BY <1>2, <2>3, <3>1, <3>2 DEF Homes
  <2> QED BY <1>9, <2>3, <2>4, <2>5, <2>6, <2>7, <2>8 DEF RankInv
<1>13. CASE /\ b.open # {} /\ place' = [place EXCEPT ![r] = "refill"]
            /\ batch' = [batch EXCEPT ![r] = b] /\ UNCHANGED results
  <2>1. place'[r] = "refill" /\ \A q \in Ranks \ {r} : place'[q] = place[q]
    BY <1>5, <1>13
  <2>2. batch' \in [Ranks -> Batches] /\ batch'[r] = b
        /\ \A q \in Ranks \ {r} : batch'[q] = batch[q]
    BY <1>4, <1>5, <1>13
  <2>3. place' \in [Ranks -> InBatch \cup {"idle", "train", "dead"}]
    BY <1>5, <1>13 DEF InBatch
  <2>4. Types'
    BY <1>1, <1>2, <1>7, <1>13, <2>2, <2>3 DEF Types, RowsOf
  <2>5. Others(r)
    BY <1>1, <1>2, <1>7, <1>13, <2>1, <2>2 DEF Others
  <2>6. Reports(r)' = Reports(r) /\ OKs(r)' = OKs(r) /\ OneAnswerOf(r)'
        /\ OKReqs(r)' = OKReqs(r)
    BY <1>13 DEF Reports, OKs, RankInv, OneAnswerOf, OKReqs
  <2>7. PlaceInv(r)' /\ ReportedInv(r)'
    BY <1>1, <1>4, <1>6, <1>7, <1>10, <2>1, <2>2 DEF PlaceInv, ReportedInv
  <2>8. BatchInv(r)'
    <3>1. \A x \in b.open : x[1] = c
      <4>1. log \in [Reqs -> Menu] /\ g \in Groups
        BY RankFacts DEF Types
      <4> QED BY <1>2, <1>4, <4>1, RowsFacts
    <3>2. RowsOf(c, g)' = RowsOf(c, g)
      BY <1>1 DEF RowsOf
    <3>3. c \notin OKReqs(r)
      BY <1>2 DEF OKReqs, OKs, Reports
    <3>4. /\ \A x \in batch'[r].open \cup batch'[r].finished :
               x[1] \in ToSet(batch'[r].reqs) /\ x \in RowsOf(c, g)' /\ x[1] = c
          /\ batch'[r].open \cap batch'[r].finished = {}
          /\ batch'[r].sent \subseteq Reports(r)'
      BY <1>4, <2>2, <3>1, <3>2
    <3>5. \A x \in batch'[r].open : x[1] \notin OKReqs(r)'
      BY <1>4, <2>2, <2>6, <3>1, <3>3
    <3> QED BY <3>4, <3>5 DEF BatchInv
  <2>9. Homes(r)'
    <3>1. Training(r)' = {}
      BY <2>1 DEF Training
    <3> QED BY <1>2, <1>4, <2>2, <2>6, <3>1 DEF Homes
  <2> QED BY <1>9, <2>4, <2>5, <2>6, <2>7, <2>8, <2>9 DEF RankInv
<1> QED BY <1>3, <1>11, <1>12, <1>13

-----------------------------------------------------------------------------
\* A batch joins command c or defers it; what was read before c is deferred.
LEMMA RefillInv ==
  ASSUME Types, NEW r \in Ranks, RankInv(r), place[r] = "refill",
         NEW c \in Reqs, NEW before \in Seq(Reqs), taken[r] < c,
         taken' = [taken EXCEPT ![r] = c],
         ToSet(before) = ToSet(deferred[r]) \cup taken[r] + 1 .. c - 1,
         Increasing(before), \A i \in DOMAIN before : before[i] < c,
         \A i \in DOMAIN started[r], j \in DOMAIN before : started[r][i] < before[j],
         headers' \in [Ranks -> Seq(0 .. MaxCommands)], Refill(r, c, before),
         UNCHANGED <<log, flagged, outcome, version, started, failures>>
  PROVE  Types' /\ Others(r) /\ RankInv(r)'
<1> DEFINE g == GroupOf(r)  b0 == batch[r]
           b == [b0 EXCEPT !.reqs = Append(@, c), !.open = @ \cup RowsOf(c, g)]
           s == SendReady(b, g)
<1>1. /\ place \in [Ranks -> InBatch \cup {"idle", "train", "dead"}]
      /\ batch \in [Ranks -> Batches] /\ deferred \in [Ranks -> Seq(Reqs)]
      /\ taken \in [Ranks -> 0 .. MaxCommands] /\ started[r] \in Seq(Reqs)
      /\ b0 \in Batches /\ b0.reqs \in Seq(Reqs) /\ MaxCommands \in Nat
  BY WorkerAssumption DEF Types, Batches
<1>2. /\ PlaceInv(r) /\ BatchInv(r) /\ OrderInv(r) /\ OneAnswerOf(r) /\ Homes(r)
      /\ Training(r) = {}
  BY DEF RankInv, Live, Training
<1>3. c \in Nat /\ c \in 0 .. MaxCommands /\ taken[r] \in Nat
  BY <1>1 DEF Reqs
<1>4. /\ taken' \in [Ranks -> 0 .. MaxCommands] /\ taken'[r] = c
      /\ \A q \in Ranks \ {r} : taken'[q] = taken[q]
  BY <1>1, <1>3
<1>5. outcome[r] = {} /\ Last(started[r]) \in ToSet(b0.reqs) /\ started[r] # <<>>
  BY <1>2 DEF PlaceInv, InBatch
<1>6. \A i \in DOMAIN started[r] : started[r][i] \in Nat /\ started[r][i] <= taken[r]
      /\ started[r][i] < c
  <2>1. \A i \in DOMAIN started[r] : started[r][i] \in Nat
    BY <1>1, ElementOfSeq, ReqsNat
  <2> QED BY <1>2, <1>3, <2>1 DEF OrderInv
<1>7. /\ c \notin Reports(r) /\ c \notin ToSet(before) /\ c \notin Unsent(b0)
      /\ Reports(r) \cup Unsent(b0) \cup ToSet(before) \cup {c} = 1 .. c
      /\ Reports(r) \cap (Unsent(b0) \cup ToSet(before)) = {}
      /\ Unsent(b0) \cap ToSet(before) = {}
  <2>1. Reports(r) \cup Unsent(b0) \cup ToSet(deferred[r]) = 1 .. taken[r]
        /\ Reports(r) \cap (Unsent(b0) \cup ToSet(deferred[r])) = {}
        /\ Unsent(b0) \cap ToSet(deferred[r]) = {}
    BY <1>2 DEF Homes
  <2>2. 1 .. c = (1 .. taken[r]) \cup (taken[r] + 1 .. c - 1) \cup {c}
        /\ (1 .. taken[r]) \cap (taken[r] + 1 .. c - 1) = {}
        /\ c \notin 1 .. taken[r] /\ c \notin taken[r] + 1 .. c - 1
    BY <1>3
  <2> QED BY <2>1, <2>2
<1>8. CASE /\ batch' = [batch EXCEPT ![r] = s.b] /\ PutAnswers(r, s.done)
           /\ deferred' = [deferred EXCEPT ![r] = before] /\ UNCHANGED place
  <2>1. RowsOf(c, g) \subseteq Rows /\ \A x \in RowsOf(c, g) : x[1] = c
    <3>1. log \in [Reqs -> Menu] /\ g \in Groups
      BY RankFacts DEF Types
    <3> QED BY <3>1, RowsFacts
  <2>2. Append(b0.reqs, c) \in Seq(Reqs)
        /\ ToSet(Append(b0.reqs, c)) = ToSet(b0.reqs) \cup {c}
    BY <1>1, AppendFacts
  <2>3. /\ b \in Batches /\ ToSet(b.reqs) = ToSet(b0.reqs) \cup {c}
        /\ b.open = b0.open \cup RowsOf(c, g) /\ b.finished = b0.finished /\ b.sent = b0.sent
    <3> DEFINE rs == Append(b0.reqs, c)  os == RowsOf(c, g)
    <3>1. b = [b0 EXCEPT !.reqs = rs, !.open = @ \cup os]
      OBVIOUS
    <3> HIDE DEF rs, os, b, b0
    <3>2. rs \in Seq(Reqs) /\ os \subseteq Rows /\ ToSet(rs) = ToSet(b0.reqs) \cup {c}
      BY <2>1, <2>2 DEF rs, os
    <3>3. b \in Batches /\ b.reqs = rs /\ b.open = b0.open \cup os
          /\ b.finished = b0.finished /\ b.sent = b0.sent
      BY <1>1, <3>1, <3>2 DEF Batches
    <3> QED BY <3>2, <3>3 DEF os
  <2>4. Unsent(b) = Unsent(b0) \cup {c}
    <3>1. c \notin b0.sent
      BY <1>2, <1>7 DEF BatchInv
    <3> QED BY <2>3, <3>1 DEF Unsent
  <2> HIDE DEF b
  <2>5. /\ s.b \in Batches /\ s.b.reqs = b.reqs /\ s.b.open = b.open
        /\ s.b.finished = b.finished /\ s.b.sent = b.sent \cup s.done
        /\ s.done \subseteq Unsent(b) /\ s.done \subseteq Reqs
        /\ Unsent(s.b) = Unsent(b) \ s.done
        /\ \A d \in s.done : RowsOf(d, g) \subseteq b.finished
    BY <2>3, SendReadyFacts
  <2>6. PICK done, n : done = s.done /\ n = s.b
    OBVIOUS
  <2> HIDE DEF s
  <2>7. /\ results' \in [Ranks -> Seq(Results)]
        /\ \A q \in Ranks \ {r} : results'[q] = results[q]
        /\ Reports(r)' = Reports(r) \cup done /\ OKReqs(r)' = OKReqs(r) \cup done
        /\ OneAnswerOf(r)'
    <3>1. done \in SUBSET Reqs /\ done \cap Reports(r) = {} /\ PutAnswers(r, done)
      BY <1>7, <1>8, <2>4, <2>5, <2>6
    <3> QED BY <1>2, <3>1, AnswerFacts
  <2>8. /\ batch' \in [Ranks -> Batches] /\ batch'[r] = n
        /\ \A q \in Ranks \ {r} : batch'[q] = batch[q]
    BY <1>1, <1>8, <2>5, <2>6
  <2>9. /\ deferred' \in [Ranks -> Seq(Reqs)] /\ deferred'[r] = before
        /\ \A q \in Ranks \ {r} : deferred'[q] = deferred[q]
    BY <1>1, <1>8
  <2>10. Types'
    BY <1>4, <1>8, <2>7, <2>8, <2>9 DEF Types, RowsOf
  <2>11. Others(r)
    BY <1>4, <1>8, <2>7, <2>8, <2>9 DEF Others
  <2>12. /\ ToSet(n.reqs) = ToSet(b0.reqs) \cup {c} /\ n.open = b0.open \cup RowsOf(c, g)
         /\ n.finished = b0.finished /\ n.sent = b0.sent \cup done
         /\ Unsent(n) = (Unsent(b0) \cup {c}) \ done /\ done \subseteq Unsent(b0) \cup {c}
         /\ \A d \in done : RowsOf(d, g) \subseteq b0.finished
    BY <2>3, <2>4, <2>5, <2>6
  <2>13. PlaceInv(r)' /\ ReportedInv(r)'
    <3>1. place'[r] = "refill" /\ started'[r] = started[r] /\ outcome'[r] = outcome[r]
      BY <1>8
    <3> QED BY <1>5, <2>8, <2>12, <3>1 DEF PlaceInv, ReportedInv, InBatch
  <2>14. BatchInv(r)'
    <3>1. \A d : RowsOf(d, g)' = RowsOf(d, g)
      BY DEF RowsOf
    <3>2. \A x \in b0.open \cup b0.finished : x[1] \in ToSet(b0.reqs) /\ x \in RowsOf(x[1], g)
      BY <1>2 DEF BatchInv
    <3>3. b0.open \cap b0.finished = {} /\ b0.sent \subseteq Reports(r)
          /\ \A x \in b0.open : x[1] \notin OKReqs(r)
      BY <1>2 DEF BatchInv
    <3>4. \A x \in n.open \cup n.finished : x[1] \in ToSet(n.reqs) /\ x \in RowsOf(x[1], g)
      BY <2>1, <2>12, <3>2
    <3>5. c \notin ToSet(b0.reqs)
      <4>1. ToSet(b0.reqs) \subseteq Unsent(b0) \cup b0.sent
        BY DEF Unsent
      <4> QED BY <1>7, <3>3, <4>1
    <3>6. n.open \cap n.finished = {}
      BY <2>1, <2>12, <3>2, <3>3, <3>5
    <3>7. n.sent \subseteq Reports(r)'
      BY <2>7, <2>12, <3>3
    <3>8. c \notin OKReqs(r)
      BY <1>7 DEF OKReqs, OKs, Reports
    <3>9. \A x \in n.open : x[1] \notin done
      BY <2>12, <3>4, <3>6
    <3>10. \A x \in n.open : x[1] \notin OKReqs(r)'
      BY <2>1, <2>7, <2>12, <3>3, <3>8, <3>9
    <3> QED BY <2>8, <3>1, <3>4, <3>6, <3>7, <3>10 DEF BatchInv
  <2>15. Homes(r)'
    <3>1. Training(r)' = {}
      BY <1>8 DEF Training
    <3> QED BY <1>4, <1>7, <2>7, <2>8, <2>9, <2>12, <3>1 DEF Homes
  <2>16. OrderInv(r)'
    <3>1. started'[r] = started[r]
      OBVIOUS
    <3>2. \A i \in DOMAIN before : before[i] <= c
      <4>1. \A i \in DOMAIN before : before[i] \in Nat
        BY ElementOfSeq, ReqsNat
      <4> QED BY <1>3, <4>1
    <3>3. \A i \in DOMAIN started[r] : started[r][i] <= c
      BY <1>3, <1>6
    <3> QED BY <1>2, <1>4, <2>9, <3>1, <3>2, <3>3 DEF OrderInv
  <2> QED BY <2>7, <2>10, <2>11, <2>13, <2>14, <2>15, <2>16 DEF RankInv
<1>9. CASE /\ deferred' = [deferred EXCEPT ![r] = Append(before, c)]
           /\ place' = [place EXCEPT ![r] = "sweep"] /\ UNCHANGED <<batch, results>>
  <2>1. /\ Append(before, c) \in Seq(Reqs)
        /\ ToSet(Append(before, c)) = ToSet(before) \cup {c}
    BY AppendFacts
  <2>2. Increasing(Append(before, c))
    BY IncreasingAppend
  <2>3. \A j \in DOMAIN Append(before, c) :
          Append(before, c)[j] = c \/ \E k \in DOMAIN before : Append(before, c)[j] = before[k]
    BY AppendFacts
  <2>4. /\ deferred' \in [Ranks -> Seq(Reqs)] /\ deferred'[r] = Append(before, c)
        /\ \A q \in Ranks \ {r} : deferred'[q] = deferred[q]
    BY <1>1, <1>9, <2>1
  <2>5. /\ place' \in [Ranks -> InBatch \cup {"idle", "train", "dead"}] /\ place'[r] = "sweep"
        /\ \A q \in Ranks \ {r} : place'[q] = place[q]
    BY <1>1, <1>9 DEF InBatch
  <2>6. Types'
    BY <1>4, <1>9, <2>4, <2>5 DEF Types, RowsOf
  <2>7. Others(r)
    BY <1>4, <1>9, <2>4, <2>5 DEF Others
  <2>8. Reports(r)' = Reports(r) /\ OKs(r)' = OKs(r) /\ OneAnswerOf(r)'
        /\ OKReqs(r)' = OKReqs(r)
    BY <1>2, <1>9 DEF Reports, OKs, OneAnswerOf, OKReqs
  <2>9. PlaceInv(r)' /\ ReportedInv(r)'
    BY <1>5, <1>9, <2>5 DEF PlaceInv, ReportedInv, InBatch
  <2>10. BatchInv(r)'
    <3>1. \A d : RowsOf(d, g)' = RowsOf(d, g)
      BY DEF RowsOf
    <3> QED BY <1>2, <1>9, <2>8, <3>1 DEF BatchInv
  <2>11. Homes(r)'
    <3>1. Training(r)' = {}
      BY <2>5 DEF Training
    <3>2. Unsent(batch'[r]) = Unsent(b0)
      BY <1>9
    <3> QED BY <1>4, <1>7, <2>1, <2>4, <2>8, <3>1, <3>2 DEF Homes
  <2>12. OrderInv(r)'
    <3>1. \A i \in DOMAIN before : before[i] \in Nat
      BY ElementOfSeq, ReqsNat
    <3>2. \A j \in DOMAIN Append(before, c) : Append(before, c)[j] <= c
      BY <1>3, <2>3, <3>1
    <3>3. \A i \in DOMAIN started[r], j \in DOMAIN Append(before, c) :
            started[r][i] < Append(before, c)[j]
      BY <1>6, <2>3
    <3>4. \A i \in DOMAIN started[r] : started[r][i] <= c
      BY <1>3, <1>6
    <3> QED BY <1>2, <1>4, <2>2, <2>4, <3>2, <3>3, <3>4 DEF OrderInv
  <2> QED BY <2>6, <2>7, <2>8, <2>9, <2>10, <2>11, <2>12 DEF RankInv
<1> QED BY <1>8, <1>9 DEF Refill

-----------------------------------------------------------------------------
\* A poll that takes nothing.
LEMMA NothingTaken ==
  ASSUME Types, NEW r \in Ranks, RankInv(r), place[r] = "refill",
         place' = [place EXCEPT ![r] = "sweep"], headers' \in [Ranks -> Seq(0 .. MaxCommands)],
         UNCHANGED <<log, flagged, taken, deferred, batch, outcome, version, started,
                     results, failures>>
  PROVE  Types' /\ Others(r) /\ RankInv(r)'
<1>1. place \in [Ranks -> InBatch \cup {"idle", "train", "dead"}]
  BY DEF Types
<1>2. /\ place' \in [Ranks -> InBatch \cup {"idle", "train", "dead"}] /\ place'[r] = "sweep"
      /\ \A q \in Ranks \ {r} : place'[q] = place[q]
  BY <1>1 DEF InBatch
<1>3. Types'
  BY <1>2 DEF Types, RowsOf
<1>4. Others(r)
  BY <1>2 DEF Others
<1>5. Reports(r)' = Reports(r) /\ OKs(r)' = OKs(r) /\ OKReqs(r)' = OKReqs(r)
  BY DEF Reports, OKs, OKReqs
<1>6. Training(r)' = {} /\ Training(r) = {}
  BY <1>2 DEF Training
<1>7. \A c, g : RowsOf(c, g)' = RowsOf(c, g)
  BY DEF RowsOf
<1>8. PlaceInv(r)' /\ ReportedInv(r)'
  BY <1>2 DEF RankInv, PlaceInv, ReportedInv, InBatch
<1>9. BatchInv(r)'
  BY <1>5, <1>7 DEF RankInv, BatchInv
<1>10. OrderInv(r)' /\ OneAnswerOf(r)'
  BY <1>5 DEF RankInv, OrderInv, OneAnswerOf
<1>11. Homes(r)'
  BY <1>5, <1>6 DEF RankInv, Homes, Live
<1> QED BY <1>3, <1>4, <1>8, <1>9, <1>10, <1>11 DEF RankInv

LEMMA LeaderInv ==
  ASSUME Types, NEW r \in Ranks, RankInv(r), LeaderRefill(r)
  PROVE  Types' /\ Others(r) /\ RankInv(r)'
<1>1. /\ headers \in [Ranks -> Seq(0 .. MaxCommands)] /\ taken \in [Ranks -> 0 .. MaxCommands]
      /\ MaxCommands \in Nat /\ Len(log) = MaxCommands /\ deferred[r] \in Seq(Reqs)
      /\ started[r] \in Seq(Reqs)
  BY RowsFacts, WorkerAssumption DEF Types
<1>2. ASSUME NEW h \in 0 .. MaxCommands, Broadcast(r, h)
      PROVE  headers' \in [Ranks -> Seq(0 .. MaxCommands)]
  <2>1. \A q \in Ranks : Append(headers[q], h) \in Seq(0 .. MaxCommands)
    BY <1>1, AppendFacts
  <2> QED BY <1>1, <1>2, <2>1 DEF Broadcast
<1>3. CASE /\ Broadcast(r, 0) /\ place' = [place EXCEPT ![r] = "sweep"]
           /\ UNCHANGED <<taken, deferred, batch, results>>
  <2>1. headers' \in [Ranks -> Seq(0 .. MaxCommands)]
    BY <1>1, <1>2, <1>3
  <2> QED BY <1>3, <2>1, NothingTaken DEF LeaderRefill
<1>4. CASE /\ taken[r] < Len(log) /\ taken' = [taken EXCEPT ![r] = @ + 1]
           /\ Broadcast(r, taken[r] + 1) /\ Refill(r, taken[r] + 1, deferred[r])
  <2>1. PICK c : c = taken[r] + 1
    OBVIOUS
  <2>2. c \in Reqs /\ c \in 0 .. MaxCommands /\ taken[r] < c /\ taken[r] \in Nat
        /\ taken[r] + 1 .. c - 1 = {}
    BY <1>1, <1>4, <2>1 DEF Reqs
  <2>3. headers' \in [Ranks -> Seq(0 .. MaxCommands)]
    BY <1>2, <1>4, <2>1, <2>2
  <2>4. /\ Increasing(deferred[r]) /\ \A i \in DOMAIN deferred[r] : deferred[r][i] <= taken[r]
        /\ \A i \in DOMAIN started[r], j \in DOMAIN deferred[r] : started[r][i] < deferred[r][j]
    BY DEF RankInv, OrderInv
  <2>5. \A i \in DOMAIN deferred[r] : deferred[r][i] < c
    <3>1. \A i \in DOMAIN deferred[r] : deferred[r][i] \in Nat
      BY <1>1, ElementOfSeq, ReqsNat
    <3> QED BY <2>1, <2>2, <2>4, <3>1
  <2>6. ToSet(deferred[r]) = ToSet(deferred[r]) \cup taken[r] + 1 .. c - 1
    BY <2>2
  <2>7. /\ place[r] = "refill" /\ taken' = [taken EXCEPT ![r] = c] /\ Refill(r, c, deferred[r])
        /\ UNCHANGED <<log, flagged, outcome, version, started, failures>>
    BY <1>4, <2>1 DEF LeaderRefill
  <2> QED BY <1>1, <2>2, <2>3, <2>4, <2>5, <2>6, <2>7, RefillInv
<1> QED BY <1>3, <1>4 DEF LeaderRefill

LEMMA SiblingInv ==
  ASSUME Types, NEW r \in Ranks, RankInv(r), SiblingRefill(r)
  PROVE  Types' /\ Others(r) /\ RankInv(r)'
<1> DEFINE n == taken[r]  d == deferred[r]
<1>1. /\ headers \in [Ranks -> Seq(0 .. MaxCommands)] /\ taken \in [Ranks -> 0 .. MaxCommands]
      /\ MaxCommands \in Nat /\ d \in Seq(Reqs) /\ started[r] \in Seq(Reqs) /\ n \in Nat
  BY WorkerAssumption DEF Types
<1>2. PICK c : c = Head(headers[r])
  OBVIOUS
<1>3. headers[r] # <<>> /\ headers' = [headers EXCEPT ![r] = Tail(@)] /\ place[r] = "refill"
      /\ UNCHANGED <<log, flagged, outcome, version, started, failures>>
  BY DEF SiblingRefill
<1>4. c \in 0 .. MaxCommands /\ headers' \in [Ranks -> Seq(0 .. MaxCommands)]
  <2>1. headers[r] \in Seq(0 .. MaxCommands)
    BY <1>1
  <2>2. Head(headers[r]) \in 0 .. MaxCommands /\ Tail(headers[r]) \in Seq(0 .. MaxCommands)
    BY <1>3, <2>1, TailFacts
  <2> QED BY <1>1, <1>2, <1>3, <2>2
<1>5. CASE /\ c = 0 /\ place' = [place EXCEPT ![r] = "sweep"]
           /\ UNCHANGED <<taken, deferred, batch, results>>
  BY <1>3, <1>4, <1>5, NothingTaken
<1>6. CASE /\ c > n /\ taken' = [taken EXCEPT ![r] = c]
           /\ Refill(r, c, d \o [i \in 1 .. c - n - 1 |-> n + i])
  <2> DEFINE t == [i \in 1 .. c - n - 1 |-> n + i]  before == d \o t
  <2>1. c \in Reqs /\ n < c /\ c \in Nat /\ c - n - 1 \in Nat
    BY <1>1, <1>4, <1>6 DEF Reqs
  <2>2. t \in Seq(Reqs) /\ DOMAIN t = 1 .. c - n - 1 /\ \A i \in DOMAIN t : t[i] = n + i
    <3>1. \A i \in 1 .. c - n - 1 : n + i \in Reqs
      BY <1>1, <1>4, <2>1 DEF Reqs
    <3>2. t \in [1 .. c - n - 1 -> Reqs]
      BY <3>1
    <3> HIDE DEF t
    <3>3. t \in Seq(Reqs)
      BY <2>1, <3>2
    <3> QED BY <3>2, <3>3 DEF t
  <2>3. /\ Increasing(d) /\ \A i \in DOMAIN d : d[i] <= n
        /\ \A i \in DOMAIN started[r] : started[r][i] <= n
             /\ \A j \in DOMAIN d : started[r][i] < d[j]
    BY DEF RankInv, OrderInv
  <2>4. /\ \A i \in DOMAIN d : d[i] \in Nat
        /\ \A i \in DOMAIN started[r] : started[r][i] \in Nat
    BY <1>1, ElementOfSeq, ReqsNat
  <2> HIDE DEF t
  <2>5. before \in Seq(Reqs) /\ ToSet(before) = ToSet(d) \cup ToSet(t)
    BY <1>1, <2>2, ConcatFacts, ConcatSet
  <2>6. /\ \A i \in DOMAIN d : i \in DOMAIN before /\ before[i] = d[i]
        /\ \A i \in DOMAIN before \ DOMAIN d :
             i - Len(d) \in DOMAIN t /\ before[i] = t[i - Len(d)]
        /\ \A i \in DOMAIN d, j \in DOMAIN before \ DOMAIN d : i < j
    <3>1. d \in Seq(Reqs) /\ t \in Seq(Reqs)
      BY <1>1, <2>2
    <3> HIDE DEF d
    <3> QED BY <3>1, ConcatFacts
  <2>7. ToSet(t) = n + 1 .. c - 1
    <3>1. ToSet(t) \subseteq n + 1 .. c - 1
      BY <1>1, <2>1, <2>2 DEF ToSet
    <3>2. ASSUME NEW x \in n + 1 .. c - 1 PROVE x \in ToSet(t)
      <4>1. x - n \in DOMAIN t /\ t[x - n] = x
        BY <1>1, <2>1, <2>2
      <4> QED BY <4>1 DEF ToSet
    <3> QED BY <3>1, <3>2
  <2> HIDE DEF before
  <2>8. \A i \in DOMAIN before : i \in Nat
    BY <2>5
  <2>9. Len(d) \in Nat
    BY <1>1
  <2>10. ASSUME NEW i \in DOMAIN before \ DOMAIN d
         PROVE  before[i] = n + (i - Len(d)) /\ before[i] > n /\ before[i] < c
    <3>1. PICK k : k = i - Len(d)
      OBVIOUS
    <3>2. k \in DOMAIN t /\ before[i] = t[k]
      BY <2>6, <3>1
    <3>3. k \in 1 .. c - n - 1 /\ before[i] = n + k
      BY <2>2, <3>2
    <3>4. n + k > n /\ n + k < c
      BY <1>1, <2>1, <3>3
    <3> QED BY <3>1, <3>3, <3>4
  <2>11. Increasing(before)
    <3> SUFFICES ASSUME NEW i \in DOMAIN before, NEW j \in DOMAIN before, i < j
                 PROVE  before[i] < before[j]
      BY DEF Increasing
    <3>1. CASE i \in DOMAIN d /\ j \in DOMAIN d
      BY <2>3, <2>6, <3>1 DEF Increasing
    <3>2. CASE i \in DOMAIN d /\ j \notin DOMAIN d
      <4>1. before[i] = d[i] /\ d[i] <= n /\ d[i] \in Nat
        BY <2>3, <2>4, <2>6, <3>2
      <4>2. before[j] \in Nat /\ before[j] > n
        BY <1>1, <2>5, <2>10, <3>2, ElementOfSeq, ReqsNat
      <4> QED BY <1>1, <4>1, <4>2
    <3>3. CASE i \notin DOMAIN d
      <4>1. j \notin DOMAIN d
        BY <2>6, <2>8, <3>3
      <4> QED BY <1>1, <2>8, <2>9, <2>10, <3>3, <4>1
    <3> QED BY <3>1, <3>2, <3>3
  <2>12. \A i \in DOMAIN before : before[i] < c
    <3>1. \A i \in DOMAIN d : d[i] < c
      BY <1>1, <2>1, <2>3, <2>4
    <3> QED BY <2>6, <2>10, <3>1
  <2>13. ASSUME NEW i \in DOMAIN started[r], NEW j \in DOMAIN before
         PROVE  started[r][i] < before[j]
    <3>1. CASE j \in DOMAIN d
      BY <2>3, <2>6, <3>1
    <3>2. CASE j \notin DOMAIN d
      <4>1. before[j] \in Nat /\ before[j] > n
        BY <1>1, <2>5, <2>10, <3>2, ElementOfSeq, ReqsNat
      <4> QED BY <1>1, <2>3, <2>4, <4>1
    <3> QED BY <3>1, <3>2
  <2>14. Refill(r, c, before) /\ taken' = [taken EXCEPT ![r] = c]
    BY <1>6 DEF before, t
  <2> QED BY <1>3, <1>4, <2>1, <2>5, <2>7, <2>11, <2>12, <2>13, <2>14, RefillInv
<1> QED BY <1>2, <1>5, <1>6 DEF SiblingRefill

-----------------------------------------------------------------------------
\* Some rows are reported, and they and maybe others leave the batch.
LEMMA RowsReported ==
  ASSUME Types, NEW r \in Ranks, RankInv(r), place[r] \in InBatch,
         NEW rows \in SUBSET batch[r].open, NEW gone, rows \subseteq gone,
         batch' = [batch EXCEPT ![r] = [Callback(r, rows).b EXCEPT !.open = @ \ gone]],
         PutAnswers(r, Callback(r, rows).done), NEW p \in InBatch,
         place' = [place EXCEPT ![r] = p], p = "drained" => batch[r].open \subseteq gone,
         outcome'[r] = {}, outcome' \in [Ranks -> SUBSET Rows],
         \A q \in Ranks \ {r} : outcome'[q] = outcome[q],
         UNCHANGED <<queueVars, version, started, failures>>
  PROVE  Types' /\ Others(r) /\ RankInv(r)'
<1> USE DEF queueVars
<1> DEFINE g == GroupOf(r)  b0 == batch[r]
<1>1. /\ place \in [Ranks -> InBatch \cup {"idle", "train", "dead"}]
      /\ batch \in [Ranks -> Batches] /\ b0 \in Batches /\ b0.open \subseteq Rows
  BY DEF Types, Batches
<1>2. /\ PlaceInv(r) /\ BatchInv(r) /\ OrderInv(r) /\ OneAnswerOf(r) /\ Homes(r)
      /\ Training(r) = {}
  BY DEF RankInv, Live, Training, InBatch
<1>3. PICK done, m : done = Callback(r, rows).done /\ m = Callback(r, rows).b
  OBVIOUS
<1>4. /\ m \in Batches /\ m.reqs = b0.reqs /\ m.open = b0.open
      /\ m.finished = b0.finished \cup rows /\ m.sent = b0.sent \cup done
      /\ done \subseteq Unsent(b0) /\ done \subseteq Reqs /\ Unsent(m) = Unsent(b0) \ done
      /\ \A c \in done : RowsOf(c, g) \subseteq b0.finished \cup rows
  <2>1. rows \in SUBSET Rows
    BY <1>1
  <2> QED BY <1>1, <1>3, <2>1, CallbackFacts
<1>5. PICK n : n = [m EXCEPT !.open = @ \ gone]
  OBVIOUS
<1>6. /\ n \in Batches /\ n.reqs = b0.reqs /\ n.open = b0.open \ gone
      /\ n.finished = b0.finished \cup rows /\ n.sent = b0.sent \cup done
  BY <1>4, <1>5 DEF Batches
<1>7. Unsent(n) = Unsent(b0) \ done
  BY <1>4, <1>6 DEF Unsent
<1>8. batch' = [batch EXCEPT ![r] = n] /\ PutAnswers(r, done)
  BY <1>3, <1>5
<1>9. /\ batch' \in [Ranks -> Batches] /\ batch'[r] = n
      /\ \A q \in Ranks \ {r} : batch'[q] = batch[q]
  BY <1>1, <1>6, <1>8
<1>10. /\ place' \in [Ranks -> InBatch \cup {"idle", "train", "dead"}] /\ place'[r] = p
       /\ \A q \in Ranks \ {r} : place'[q] = place[q]
  BY <1>1
<1>11. /\ results' \in [Ranks -> Seq(Results)]
       /\ \A q \in Ranks \ {r} : results'[q] = results[q]
       /\ Reports(r)' = Reports(r) \cup done /\ OKReqs(r)' = OKReqs(r) \cup done
       /\ OneAnswerOf(r)'
  <2>1. done \cap Reports(r) = {}
    BY <1>2, <1>4 DEF Homes
  <2> QED BY <1>2, <1>4, <1>8, <2>1, AnswerFacts
<1>12. Types'
  BY <1>9, <1>10, <1>11 DEF Types, RowsOf
<1>13. Others(r)
  BY <1>9, <1>10, <1>11 DEF Others
<1>14. PlaceInv(r)' /\ ReportedInv(r)'
  <2>1. started[r] # <<>> /\ Last(started[r]) \in ToSet(b0.reqs) /\ started' = started
    BY <1>2 DEF PlaceInv, InBatch
  <2>2. p = "drained" => n.open = {}
    BY <1>6
  <2>3. p \notin {"idle", "train", "dead"}
    BY DEF InBatch
  <2> QED BY <1>6, <1>9, <1>10, <2>1, <2>2, <2>3 DEF PlaceInv, ReportedInv
<1>15. BatchInv(r)'
  <2>1. \A c : RowsOf(c, g)' = RowsOf(c, g)
    BY DEF RowsOf
  <2>2. /\ \A x \in b0.open \cup b0.finished : x[1] \in ToSet(b0.reqs) /\ x \in RowsOf(x[1], g)
        /\ b0.open \cap b0.finished = {} /\ b0.sent \subseteq Reports(r)
        /\ \A x \in b0.open : x[1] \notin OKReqs(r)
    BY <1>2 DEF BatchInv
  <2>3. \A x \in n.open \cup n.finished : x[1] \in ToSet(n.reqs) /\ x \in RowsOf(x[1], g)
    BY <1>6, <2>2
  <2>4. n.open \cap n.finished = {} /\ n.sent \subseteq Reports(r)'
    BY <1>6, <1>11, <2>2
  <2>5. \A x \in n.open : x[1] \notin done
    BY <1>4, <1>6, <2>3, <2>4
  <2>6. \A x \in n.open : x[1] \notin OKReqs(r)'
    BY <1>6, <1>11, <2>2, <2>5
  <2>7. \A x \in n.open \cup n.finished :
          x[1] \in ToSet(n.reqs) /\ x \in RowsOf(x[1], g)'
    BY <2>1, <2>3
  <2> QED BY <1>9, <2>4, <2>6, <2>7 DEF BatchInv
<1>16. Homes(r)'
  <2>1. Training(r)' = {}
    BY <1>10 DEF Training, InBatch
  <2>2. /\ Reports(r) \cup Unsent(b0) \cup ToSet(deferred[r]) = 1 .. taken[r]
        /\ Reports(r) \cap (Unsent(b0) \cup ToSet(deferred[r])) = {}
        /\ Unsent(b0) \cap ToSet(deferred[r]) = {}
    BY <1>2 DEF Homes
  <2> QED BY <1>4, <1>7, <1>9, <1>11, <2>1, <2>2 DEF Homes
<1>17. OrderInv(r)'
  BY <1>2 DEF OrderInv
<1> QED BY <1>11, <1>12, <1>13, <1>14, <1>15, <1>16, <1>17 DEF RankInv

LEMMA SweepInv ==
  ASSUME Types, NEW r \in Ranks, RankInv(r), Sweep(r)
  PROVE  Types' /\ Others(r) /\ RankInv(r)'
<1>1. PICK hit : hit = Cancelled(r)
  OBVIOUS
<1>2. PICK p : p = IF batch[r].open \subseteq hit THEN "drained" ELSE "step"
  OBVIOUS
<1>3. /\ place[r] = "sweep" /\ PutAnswers(r, Callback(r, hit).done)
      /\ batch' = [batch EXCEPT ![r] = [Callback(r, hit).b EXCEPT !.open = @ \ hit]]
      /\ place' = [place EXCEPT ![r] = p]
      /\ UNCHANGED <<queueVars, outcome, version, started, failures>>
  BY <1>1, <1>2 DEF Sweep
<1>4. hit \in SUBSET batch[r].open /\ p \in InBatch /\ place[r] \in InBatch
      /\ (p = "drained" => batch[r].open \subseteq hit)
  BY <1>1, <1>2, <1>3 DEF Cancelled, InBatch
<1>5. outcome'[r] = {} /\ outcome' \in [Ranks -> SUBSET Rows]
      /\ \A q \in Ranks \ {r} : outcome'[q] = outcome[q]
  BY <1>3 DEF Types, RankInv, PlaceInv
<1> QED BY <1>3, <1>4, <1>5, RowsReported

LEMMA PostInv ==
  ASSUME Types, NEW r \in Ranks, RankInv(r), Post(r)
  PROVE  Types' /\ Others(r) /\ RankInv(r)'
<1>1. PICK gone, rows : gone = outcome[r] \cup Cancelled(r) /\ rows = outcome[r]
  OBVIOUS
<1>2. /\ place[r] = "post" /\ PutAnswers(r, Callback(r, rows).done)
      /\ batch' = [batch EXCEPT ![r] = [Callback(r, rows).b EXCEPT !.open = @ \ gone]]
      /\ outcome' = [outcome EXCEPT ![r] = {}] /\ place' = [place EXCEPT ![r] = "refill"]
      /\ UNCHANGED <<queueVars, version, started, failures>>
  BY <1>1 DEF Post
<1>3. rows \in SUBSET batch[r].open /\ rows \subseteq gone /\ place[r] \in InBatch
      /\ "refill" \in InBatch
  BY <1>1, <1>2 DEF RankInv, PlaceInv, InBatch
<1>4. outcome'[r] = {} /\ outcome' \in [Ranks -> SUBSET Rows]
      /\ \A q \in Ranks \ {r} : outcome'[q] = outcome[q]
  BY <1>2 DEF Types
<1> QED BY <1>2, <1>3, <1>4, RowsReported

LEMMA FinishInv ==
  ASSUME Types, NEW r \in Ranks, RankInv(r), Finish(r)
  PROVE  Types' /\ Others(r) /\ RankInv(r)'
<1> USE DEF queueVars
<1>1. PICK cs : cs = Unsent(batch[r])
  OBVIOUS
<1>2. /\ place[r] = "drained" /\ PutAnswers(r, cs) /\ batch' = [batch EXCEPT ![r] = NoBatch]
      /\ place' = [place EXCEPT ![r] = "idle"]
      /\ UNCHANGED <<queueVars, outcome, version, started, failures>>
  BY <1>1 DEF Finish
<1>3. /\ PlaceInv(r) /\ OrderInv(r) /\ OneAnswerOf(r) /\ Homes(r) /\ Training(r) = {}
      /\ outcome[r] = {}
  BY <1>2 DEF RankInv, PlaceInv, Live, Training
<1>4. cs \in SUBSET Reqs /\ cs \cap Reports(r) = {}
  <2>1. batch[r].reqs \in Seq(Reqs)
    BY DEF Types, Batches
  <2>2. cs \subseteq Reqs
    BY <1>1, <2>1, ElementOfSeq DEF Unsent, ToSet
  <2> QED BY <1>1, <1>3, <2>2 DEF Homes
<1>5. /\ results' \in [Ranks -> Seq(Results)]
      /\ \A q \in Ranks \ {r} : results'[q] = results[q]
      /\ Reports(r)' = Reports(r) \cup cs /\ OneAnswerOf(r)'
  BY <1>2, <1>3, <1>4, AnswerFacts
<1>6. /\ batch' \in [Ranks -> Batches] /\ batch'[r] = NoBatch
      /\ \A q \in Ranks \ {r} : batch'[q] = batch[q]
  BY <1>2, NoBatchFacts DEF Types
<1>7. /\ place' \in [Ranks -> InBatch \cup {"idle", "train", "dead"}] /\ place'[r] = "idle"
      /\ \A q \in Ranks \ {r} : place'[q] = place[q]
  BY <1>2 DEF Types
<1>8. Types'
  BY <1>2, <1>5, <1>6, <1>7 DEF Types, RowsOf
<1>9. Others(r)
  BY <1>2, <1>5, <1>6, <1>7 DEF Others
<1>10. PlaceInv(r)' /\ ReportedInv(r)'
  BY <1>2, <1>3, <1>6, <1>7 DEF PlaceInv, ReportedInv, InBatch
<1>11. BatchInv(r)'
  BY <1>6 DEF BatchInv, NoBatch
<1>12. Homes(r)'
  <2>1. Training(r)' = {}
    BY <1>7 DEF Training
  <2>2. Unsent(batch'[r]) = {}
    BY <1>6, NoBatchFacts
  <2> QED BY <1>1, <1>2, <1>3, <1>5, <2>1, <2>2 DEF Homes
<1>13. OrderInv(r)'
  BY <1>2, <1>3 DEF OrderInv
<1> QED BY <1>5, <1>8, <1>9, <1>10, <1>11, <1>12, <1>13 DEF RankInv

\* A rank that raises reports what it had under way.
LEMMA FailInv ==
  ASSUME Types, NEW r \in Ranks, RankInv(r), Fail(r)
  PROVE  Types' /\ Others(r) /\ RankInv(r)'
<1> USE DEF queueVars
<1>1. PICK cs : cs = IF Unsent(batch[r]) = {} THEN {Last(started[r])} ELSE Unsent(batch[r])
  OBVIOUS
<1>2. /\ failures < MaxFailures /\ place[r] \notin {"idle", "dead"}
      /\ Put(r, {Failure(c) : c \in cs}) /\ place' = [place EXCEPT ![r] = "dead"]
      /\ failures' = failures + 1
      /\ UNCHANGED <<queueVars, batch, outcome, version, started>>
  BY <1>1 DEF Fail
<1>3. /\ PlaceInv(r) /\ BatchInv(r) /\ OrderInv(r) /\ OneAnswerOf(r) /\ started[r] # <<>>
  BY <1>2 DEF RankInv, PlaceInv
<1>4. cs \subseteq Reqs
  <2>1. batch[r].reqs \in Seq(Reqs) /\ started[r] \in Seq(Reqs)
    BY DEF Types, Batches
  <2>2. Unsent(batch[r]) \subseteq Reqs
    BY <2>1, ElementOfSeq DEF Unsent, ToSet
  <2>3. Len(started[r]) \in 1 .. Len(started[r])
    BY <1>3, <2>1
  <2>4. Last(started[r]) \in Reqs
    BY <2>1, <2>3, ElementOfSeq DEF Last
  <2> QED BY <1>1, <2>2, <2>4
<1> DEFINE new == {Failure(c) : c \in cs}
<1>5. new = {[req |-> c, ok |-> FALSE, version |-> 0] : c \in cs}
  BY DEF Failure
<1>6. new \in SUBSET Results /\ IsFiniteSet(new) /\ Put(r, new)
  BY <1>2, <1>4, <1>5, ResultsFacts
<1> DEFINE f(c) == [req |-> c, ok |-> FALSE, version |-> 0]
<1>7. /\ \A c \in cs : f(c) \in new /\ f(c).req = c
      /\ \A a \in new : ~a.ok /\ a.req \in cs /\ a = f(a.req)
  <2>1. \A c \in cs : f(c) \in new /\ f(c).req = c
    BY <1>5
  <2>2. \A a \in new : ~a.ok /\ a.req \in cs /\ a = f(a.req)
    BY <1>5
  <2> QED BY <2>1, <2>2
<1> HIDE DEF new, f
<1>8. {a.req : a \in new} = cs /\ \A a, b \in new : a.req = b.req => a = b
  BY <1>7
<1>9. {a.req : a \in {b \in new : b.ok}} = {}
  BY <1>7
<1>10. results \in [Ranks -> Seq(Results)]
  BY DEF Types
<1>11. /\ results' \in [Ranks -> Seq(Results)]
       /\ \A q \in Ranks \ {r} : results'[q] = results[q]
       /\ Reports(r)' = Reports(r) \cup cs /\ OKReqs(r)' = OKReqs(r)
  <2>1. OKReqs(r)' = OKReqs(r) \cup {a.req : a \in {b \in new : b.ok}}
    BY <1>6, <1>10, PutFacts
  <2>2. /\ results' \in [Ranks -> Seq(Results)]
        /\ \A q \in Ranks \ {r} : results'[q] = results[q]
        /\ Reports(r)' = Reports(r) \cup {a.req : a \in new}
    BY <1>6, <1>10, PutFacts
  <2> QED BY <1>8, <1>9, <2>1, <2>2
<1>12. OneAnswerOf(r)'
  BY <1>3, <1>6, <1>7, <1>8, <1>10, PutOne
<1>13. /\ place' \in [Ranks -> InBatch \cup {"idle", "train", "dead"}] /\ place'[r] = "dead"
       /\ \A q \in Ranks \ {r} : place'[q] = place[q]
  BY <1>2 DEF Types
<1>14. Types'
  <2>1. failures' \in 0 .. MaxFailures
    BY <1>2, WorkerAssumption DEF Types
  <2> QED BY <1>2, <1>11, <1>13, <2>1 DEF Types, RowsOf
<1>15. Others(r)
  BY <1>2, <1>11, <1>13 DEF Others
<1>16. PlaceInv(r)'
  BY <1>2, <1>3, <1>13 DEF PlaceInv, InBatch
<1>17. BatchInv(r)'
  <2>1. \A c, g : RowsOf(c, g)' = RowsOf(c, g)
    BY <1>2 DEF RowsOf
  <2> QED BY <1>2, <1>3, <1>11, <2>1 DEF BatchInv
<1>18. OrderInv(r)'
  BY <1>2, <1>3 DEF OrderInv
<1>19. ReportedInv(r)'
  <2>1. batch[r].sent \subseteq Reports(r)
    BY <1>3 DEF BatchInv
  <2>2. ToSet(batch[r].reqs) \subseteq Reports(r) \cup cs
    BY <1>1, <2>1 DEF Unsent
  <2>3. Last(started[r]) \in Reports(r) \cup cs
    <3>1. CASE Unsent(batch[r]) = {}
      BY <1>1, <3>1
    <3>2. CASE Unsent(batch[r]) # {}
      <4>1. batch[r] # NoBatch
        BY <3>2, NoBatchFacts
      <4>2. place[r] \in InBatch
        BY <1>2, <1>3, <4>1 DEF PlaceInv, Types
      <4> QED BY <1>3, <2>2, <4>2 DEF PlaceInv
    <3> QED BY <3>1, <3>2
  <2> QED BY <1>2, <1>11, <2>2, <2>3 DEF ReportedInv
<1>20. ~Live(r)'
  BY <1>13 DEF Live
<1> QED BY <1>12, <1>14, <1>15, <1>16, <1>17, <1>18, <1>19, <1>20 DEF RankInv

-----------------------------------------------------------------------------
\* The forward of a replica, and the train that all ranks meet in.
LEMMA ForwardInv ==
  ASSUME IInv, NEW g \in Groups, Forward(g)
  PROVE  IInv'
<1> USE DEF queueVars
<1>1. PICK ended : outcome' = [r \in Ranks |-> IF r \in Team(g) THEN ended ELSE outcome[r]]
                   /\ ended \subseteq UNION {batch[r].open : r \in Team(g)}
  BY DEF Forward
<1>2. /\ \A r \in Team(g) : place[r] = "step"
      /\ \A r, q \in Team(g) : batch[r].open = batch[q].open
      /\ place' = [r \in Ranks |-> IF r \in Team(g) THEN "post" ELSE place[r]]
      /\ UNCHANGED <<queueVars, batch, version, started, results, failures>>
  BY DEF Forward
<1>3. \A r \in Ranks : batch[r].open \subseteq Rows
  BY DEF IInv, Types, Batches
<1>4. \A r \in Team(g) : ended \subseteq batch[r].open
  BY <1>1, <1>2
<1>5. Types'
  <2>1. outcome' \in [Ranks -> SUBSET Rows]
    BY <1>1, <1>3, <1>4 DEF IInv, Types
  <2>2. place' \in [Ranks -> InBatch \cup {"idle", "train", "dead"}]
    BY <1>2 DEF IInv, Types, InBatch
  <2> QED BY <1>2, <2>1, <2>2 DEF IInv, Types, RowsOf
<1>6. ASSUME NEW r \in Ranks PROVE RankInv(r)'
  <2>1. RankInv(r)
    BY DEF IInv
  <2>2. CASE r \notin Team(g)
    <3>1. place'[r] = place[r] /\ outcome'[r] = outcome[r]
      BY <1>1, <1>2, <2>2
    <3> QED BY <1>2, <2>1, <3>1, RankKept
  <2>3. CASE r \in Team(g)
    <3>1. place[r] = "step" /\ place'[r] = "post" /\ outcome'[r] \subseteq batch[r].open
      BY <1>1, <1>2, <1>4, <2>3
    <3>2. Reports(r)' = Reports(r) /\ OKs(r)' = OKs(r) /\ OKReqs(r)' = OKReqs(r)
      BY <1>2 DEF Reports, OKs, OKReqs
    <3>3. Training(r)' = {} /\ Training(r) = {}
      BY <3>1 DEF Training
    <3>4. \A c, h : RowsOf(c, h)' = RowsOf(c, h)
      BY <1>2 DEF RowsOf
    <3>5. PlaceInv(r)' /\ ReportedInv(r)'
      BY <1>2, <2>1, <3>1 DEF RankInv, PlaceInv, ReportedInv, InBatch
    <3>6. BatchInv(r)'
      BY <1>2, <2>1, <3>2, <3>4 DEF RankInv, BatchInv
    <3>7. OrderInv(r)' /\ OneAnswerOf(r)'
      BY <1>2, <2>1, <3>2 DEF RankInv, OrderInv, OneAnswerOf
    <3>8. Homes(r)'
      BY <1>2, <2>1, <3>1, <3>2, <3>3 DEF RankInv, Homes, Live
    <3> QED BY <3>5, <3>6, <3>7, <3>8 DEF RankInv
  <2> QED BY <2>2, <2>3
<1> QED BY <1>5, <1>6 DEF IInv

LEMMA TrainInv ==
  ASSUME IInv, Train
  PROVE  IInv'
<1> USE DEF queueVars
<1>1. /\ \A r \in Ranks : place[r] = "train"
      /\ version' = [r \in Ranks |-> version[r] + 1]
      /\ results' = [r \in Ranks |-> Append(results[r],
                       [Failure(Last(started[r])) EXCEPT !.ok = TRUE, !.version = version'[r]])]
      /\ place' = [r \in Ranks |-> "idle"]
      /\ UNCHANGED <<queueVars, batch, outcome, started, failures>>
  BY DEF Train
<1>2. version' \in [Ranks -> Nat]
  <2>1. \A r \in Ranks : version[r] + 1 \in Nat
    BY DEF IInv, Types
  <2> QED BY <1>1, <2>1
<1>3. ASSUME NEW r \in Ranks
      PROVE  /\ results'[r] \in Seq(Results) /\ RankInv(r)'
  <2>1. PICK c, a : c = Last(started[r])
          /\ a = [Failure(Last(started[r])) EXCEPT !.ok = TRUE, !.version = version'[r]]
    OBVIOUS
  <2>2. /\ RankInv(r) /\ batch[r] = NoBatch /\ started[r] # <<>> /\ outcome[r] = {}
        /\ Training(r) = {c} /\ Live(r) /\ results[r] \in Seq(Results)
        /\ started[r] \in Seq(Reqs)
    BY <1>1, <2>1 DEF IInv, Types, RankInv, PlaceInv, Training, Live
  <2>3. c \in Reqs
    <3>1. Len(started[r]) \in 1 .. Len(started[r])
      BY <2>2
    <3> QED BY <2>1, <2>2, <3>1, ElementOfSeq DEF Last
  <2>4. a = [req |-> c, ok |-> TRUE, version |-> version'[r]] /\ a \in Results
    BY <1>2, <2>1, <2>3 DEF Failure, Results
  <2>5. results'[r] = Append(results[r], a)
    BY <1>1, <2>1
  <2>6. /\ results'[r] \in Seq(Results) /\ ToSet(results'[r]) = ToSet(results[r]) \cup {a}
        /\ \A i \in DOMAIN results[r] : i \in DOMAIN results'[r] /\ results'[r][i] = results[r][i]
        /\ \A i \in DOMAIN results'[r] \ DOMAIN results[r] : results'[r][i] = a
        /\ \A i \in DOMAIN results'[r], j \in DOMAIN results'[r] :
             i < j => i \in DOMAIN results[r]
    <3>1. PICK s : s = results[r]
      OBVIOUS
    <3>2. s \in Seq(Results) /\ a \in Results
      BY <2>2, <2>4, <3>1
    <3>3. /\ Append(s, a) \in Seq(Results) /\ ToSet(Append(s, a)) = ToSet(s) \cup {a}
          /\ \A i \in DOMAIN s : i \in DOMAIN Append(s, a) /\ Append(s, a)[i] = s[i]
          /\ \A i \in DOMAIN Append(s, a) \ DOMAIN s : Append(s, a)[i] = a
          /\ \A i \in DOMAIN Append(s, a), j \in DOMAIN Append(s, a) : i < j => i \in DOMAIN s
      BY <3>2, AppendFacts
    <3> QED BY <2>5, <3>1, <3>3
  <2>7. Reports(r)' = Reports(r) \cup {c}
    <3>1. Reports(r) = {x.req : x \in ToSet(results[r])}
      BY DEF Reports, ToSet
    <3>2. Reports(r)' = {x.req : x \in ToSet(results'[r])}
      BY DEF Reports, ToSet
    <3> QED BY <2>4, <2>6, <3>1, <3>2
  <2>8. Homes(r)' /\ c \notin Reports(r)
    <3>1. Unsent(batch[r]) = {} /\ Unsent(batch'[r]) = {} /\ Training(r)' = {}
      BY <1>1, <2>2, NoBatchFacts DEF Training
    <3>2. Homes(r)
      BY <2>2 DEF RankInv
    <3> QED BY <1>1, <2>2, <2>7, <3>1, <3>2 DEF Homes
  <2>9. OneAnswerOf(r)'
    <3> SUFFICES ASSUME NEW i \in DOMAIN results'[r], NEW j \in DOMAIN results'[r],
                        results'[r][i].ok, results'[r][j].ok,
                        results'[r][i].req = results'[r][j].req
                 PROVE  i = j
      BY DEF OneAnswerOf, OKs
    <3>1. \A k \in DOMAIN results[r] : results[r][k].req # c
      BY <2>8 DEF Reports
    <3>2. CASE i \in DOMAIN results[r] /\ j \in DOMAIN results[r]
      BY <2>2, <2>6, <3>2 DEF RankInv, OneAnswerOf, OKs
    <3>3. CASE ~(i \in DOMAIN results[r] /\ j \in DOMAIN results[r])
      <4>1. i \notin DOMAIN results[r] /\ j \notin DOMAIN results[r]
        BY <2>4, <2>6, <3>1, <3>3
      <4>2. ~(i < j) /\ ~(j < i)
        BY <2>6, <4>1
      <4>3. i \in Nat /\ j \in Nat
        BY <2>6
      <4> QED BY <4>2, <4>3
    <3> QED BY <3>2, <3>3
  <2>10. PlaceInv(r)' /\ ReportedInv(r)' /\ BatchInv(r)'
    <3>1. place'[r] = "idle" /\ batch'[r] = NoBatch /\ outcome'[r] = {}
      BY <1>1, <2>2
    <3>2. PlaceInv(r)' /\ ReportedInv(r)'
      BY <3>1 DEF PlaceInv, ReportedInv, InBatch
    <3>3. BatchInv(r)'
      BY <3>1 DEF BatchInv, NoBatch
    <3> QED BY <3>2, <3>3
  <2>11. OrderInv(r)'
    BY <1>1, <2>2 DEF RankInv, OrderInv
  <2> QED BY <2>6, <2>8, <2>9, <2>10, <2>11 DEF RankInv
<1>4. results' \in [Ranks -> Seq(Results)]
  BY <1>1, <1>3
<1>5. place' \in [Ranks -> InBatch \cup {"idle", "train", "dead"}]
  BY <1>1
<1>6. Types'
  BY <1>1, <1>2, <1>4, <1>5 DEF IInv, Types, RowsOf
<1> QED BY <1>3, <1>6 DEF IInv

LEMMA CancelInv ==
  ASSUME IInv, CancelRow
  PROVE  IInv'
<1>1. PICK c \in DOMAIN log, g \in Groups :
        \E x \in RowsOf(c, g) : flagged' = flagged \cup {<<g, x>>}
  BY DEF CancelRow
<1>2. PICK x \in RowsOf(c, g) : flagged' = flagged \cup {<<g, x>>}
  BY <1>1
<1>3. UNCHANGED <<log, taken, deferred, headers, place, batch, outcome,
                  version, started, results, failures>>
  BY DEF CancelRow
<1>4. x[1] = c
  BY <1>1, RowsFacts DEF IInv, Types
<1>5. \A e \in flagged' : e[1] \in Groups /\ e[2] \in RowsOf(e[2][1], e[1])
  BY <1>2, <1>4 DEF IInv, Types
<1>6. Types'
  BY <1>3, <1>5 DEF IInv, Types, RowsOf
<1>7. \A r \in Ranks : RankInv(r)'
  BY <1>3, RankKept DEF IInv
<1> QED BY <1>6, <1>7 DEF IInv

LEMMA InitIInv == Init => IInv
<1> SUFFICES ASSUME Init PROVE IInv
  OBVIOUS
<1>1. <<>> \in Seq(Reqs) /\ <<>> \in Seq(Results) /\ <<>> \in Seq(0 .. MaxCommands)
  OBVIOUS
<1>2. Types
  BY <1>1, NoBatchFacts, WorkerAssumption DEF Init, Types, Reqs, InBatch
<1>3. ASSUME NEW r \in Ranks PROVE RankInv(r)
  <2>1. /\ place[r] = "idle" /\ batch[r] = NoBatch /\ outcome[r] = {} /\ taken[r] = 0
        /\ started[r] = <<>> /\ deferred[r] = <<>> /\ results[r] = <<>>
    BY DEF Init
  <2>2. Reports(r) = {} /\ OKs(r) = {} /\ Training(r) = {} /\ Unsent(batch[r]) = {}
        /\ ToSet(deferred[r]) = {}
    BY <2>1, NoBatchFacts DEF Reports, OKs, Training, ToSet
  <2>3. PlaceInv(r) /\ ReportedInv(r)
    BY <2>1 DEF PlaceInv, ReportedInv, InBatch
  <2>4. BatchInv(r)
    BY <2>1 DEF BatchInv, NoBatch
  <2>5. OrderInv(r) /\ OneAnswerOf(r)
    BY <2>1, <2>2 DEF OrderInv, OneAnswerOf, Increasing
  <2>6. Homes(r)
    BY <2>1, <2>2 DEF Homes
  <2> QED BY <2>3, <2>4, <2>5, <2>6 DEF RankInv
<1> QED BY <1>2, <1>3 DEF IInv

-----------------------------------------------------------------------------
\* Every step of a rank, a replica, all ranks and the coordinator keeps the
\* inductive invariant.
THEOREM IInvHolds == Spec => []IInv
<1>1. ASSUME IInv, [Next]_vars PROVE IInv'
  <2>1. Types /\ \A r \in Ranks : RankInv(r)
    BY <1>1 DEF IInv
  <2>2. ASSUME NEW r \in Ranks, log' = log, Types' /\ Others(r) /\ RankInv(r)'
        PROVE  IInv'
    BY <2>1, <2>2, OthersKept DEF IInv
  <2>3. CASE CancelRow \/ Train \/ \E g \in Groups : Forward(g)
    BY <1>1, <2>3, CancelInv, TrainInv, ForwardInv
  <2>4. ASSUME NEW r \in Ranks, Start(r) PROVE IInv'
    BY <2>1, <2>2, <2>4, StartInv DEF Start
  <2>5. ASSUME NEW r \in Ranks, LeaderRefill(r) \/ SiblingRefill(r) PROVE IInv'
    BY <2>1, <2>2, <2>5, LeaderInv, SiblingInv DEF LeaderRefill, SiblingRefill
  <2>6. ASSUME NEW r \in Ranks, Sweep(r) \/ Post(r) PROVE IInv'
    BY <2>1, <2>2, <2>6, SweepInv, PostInv DEF Sweep, Post, queueVars
  <2>7. ASSUME NEW r \in Ranks, Finish(r) \/ Fail(r) PROVE IInv'
    BY <2>1, <2>2, <2>7, FinishInv, FailInv DEF Finish, Fail, queueVars
  <2>8. CASE UNCHANGED vars
    <3>1. Types' /\ log' = log
      BY <2>1, <2>8 DEF Types, RowsOf, vars, queueVars
    <3>2. \A r \in Ranks : RankInv(r)'
      BY <2>1, <2>8, RankKept DEF vars, queueVars
    <3> QED BY <3>1, <3>2 DEF IInv
  <2> QED BY <1>1, <2>3, <2>4, <2>5, <2>6, <2>7, <2>8 DEF Next, Quiet
<1> QED BY <1>1, InitIInv, PTL DEF Spec

\* Every variable of the loop keeps its type, rows of a batch included.
THEOREM TypesHold == Spec => []TypeOK
<1>1. ASSUME IInv PROVE TypeOK
  <2>1. DOMAIN log = Reqs /\ Len(log) = MaxCommands /\ Types
    BY <1>1, RowsFacts DEF IInv, Types
  <2>2. ASSUME NEW r \in Ranks
        PROVE  /\ deferred[r] \in Seq(DOMAIN log) /\ started[r] \in Seq(DOMAIN log)
               /\ headers[r] \in Seq(0 .. Len(log)) /\ batch[r].reqs \in Seq(DOMAIN log)
    BY <2>1 DEF Types, Batches
  <2>3. ASSUME NEW r \in Ranks
        PROVE  /\ batch[r].open \subseteq UNION {RowsOf(c, GroupOf(r)) : c \in DOMAIN log}
               /\ batch[r].finished \cap batch[r].open = {}
               /\ outcome[r] \subseteq batch[r].open
    <3>1. PlaceInv(r) /\ BatchInv(r)
      BY <1>1 DEF IInv, RankInv
    <3>2. ToSet(batch[r].reqs) \subseteq DOMAIN log
      BY <2>2, ElementOfSeq DEF ToSet
    <3>3. batch[r].open \subseteq UNION {RowsOf(c, GroupOf(r)) : c \in DOMAIN log}
      BY <3>1, <3>2 DEF BatchInv
    <3> QED BY <3>1, <3>3 DEF PlaceInv, BatchInv
  <2>4. log \in [1 .. MaxCommands -> Menu] /\ taken \in [Ranks -> 0 .. Len(log)]
        /\ place \in [Ranks -> {"idle", "refill", "sweep", "step", "post", "drained", "train", "dead"}]
    BY <2>1 DEF Types, InBatch, Reqs
  <2> QED BY <2>1, <2>2, <2>3, <2>4 DEF TypeOK, Types
<1> QED BY <1>1, IInvHolds, PTL

\* A rank answers a request successfully at most once.
THEOREM OneAnswerHolds == Spec => []OneAnswer
<1>1. IInv => OneAnswer
  BY DEF IInv, RankInv, OneAnswerOf, OneAnswer
<1> QED BY <1>1, IInvHolds, PTL

\* Every command a rank has read is reported, pending, deferred or being
\* trained, and only one of these.
THEOREM AccountedHolds == Spec => []Accounted
<1>1. ASSUME IInv PROVE Accounted
  <2> SUFFICES ASSUME NEW r \in Ranks, Live(r), NEW c \in 1 .. taken[r]
               PROVE  LET homes == <<c \in Reports(r), c \in Unsent(batch[r]),
                                     c \in ToSet(deferred[r]),
                                     place[r] = "train" /\ c = Last(started[r])>>
                      IN  Cardinality({i \in 1 .. 4 : homes[i]}) = 1
    BY DEF Accounted
  <2> DEFINE homes == <<c \in Reports(r), c \in Unsent(batch[r]), c \in ToSet(deferred[r]),
                        place[r] = "train" /\ c = Last(started[r])>>
  <2>1. Homes(r)
    BY <1>1 DEF IInv, RankInv
  <2>2. (place[r] = "train" /\ c = Last(started[r])) <=> c \in Training(r)
    BY DEF Training
  <2> DEFINE a == c \in Reports(r)  b == c \in Unsent(batch[r])
             d == c \in ToSet(deferred[r])  e == place[r] = "train" /\ c = Last(started[r])
  <2>3. a \in BOOLEAN /\ b \in BOOLEAN /\ d \in BOOLEAN /\ e \in BOOLEAN
    OBVIOUS
  <2>4. /\ a \/ b \/ d \/ e
        /\ ~(a /\ b) /\ ~(a /\ d) /\ ~(a /\ e) /\ ~(b /\ d) /\ ~(b /\ e) /\ ~(d /\ e)
    BY <2>1, <2>2 DEF Homes
  <2>5. homes = <<a, b, d, e>>
    OBVIOUS
  <2> HIDE DEF a, b, d, e
  <2> HIDE DEF homes
  <2>6. \E k : {i \in 1 .. 4 : homes[i]} = {k}
    <3>1. {i \in 1 .. 4 : homes[i]} = {i \in {1, 2, 3, 4} : homes[i]}
      OBVIOUS
    <3>2. homes[1] = a /\ homes[2] = b /\ homes[3] = d /\ homes[4] = e
      BY <2>3, <2>5
    <3>3. CASE a
      BY <2>4, <3>1, <3>2, <3>3
    <3>4. CASE b
      BY <2>4, <3>1, <3>2, <3>4
    <3>5. CASE d
      BY <2>4, <3>1, <3>2, <3>5
    <3>6. CASE e
      BY <2>4, <3>1, <3>2, <3>6
    <3> QED BY <2>4, <3>3, <3>4, <3>5, <3>6
  <2>7. Cardinality({i \in 1 .. 4 : homes[i]}) = 1
    BY <2>6, FS_Singleton
  <2> QED BY <2>7 DEF homes
<1> QED BY <1>1, IInvHolds, PTL

\* The main loop starts commands in submission order.
THEOREM StartedInOrderHolds == Spec => []StartedInOrder
<1>1. IInv => StartedInOrder
  BY DEF IInv, RankInv, OrderInv, Increasing, StartedInOrder
<1> QED BY <1>1, IInvHolds, PTL

\* An answered request of the running batch has no row still generating.
THEOREM AnsweredRowsHold == Spec => []AnsweredRowsDone
<1>1. ASSUME IInv PROVE AnsweredRowsDone
  <2> SUFFICES ASSUME NEW r \in Ranks, NEW i \in OKs(r),
                      NEW x \in RowsOf(results[r][i].req, GroupOf(r)) \cap batch[r].open
               PROVE  FALSE
    BY DEF AnsweredRowsDone
  <2>1. x[1] \notin OKReqs(r)
    BY <1>1 DEF IInv, RankInv, BatchInv
  <2>2. results[r] \in Seq(Results) /\ log \in [Reqs -> Menu]
    BY <1>1 DEF IInv, Types
  <2>3. results[r][i].req \in Reqs
    <3>1. results[r][i] \in Results
      BY <2>2, ElementOfSeq DEF OKs
    <3> QED BY <3>1 DEF Results
  <2>4. x[1] = results[r][i].req
    BY <2>2, <2>3, RowsFacts, RankFacts
  <2> QED BY <2>1, <2>4 DEF OKReqs
<1> QED BY <1>1, IInvHolds, PTL

\* A rank that raised has reported every request it was working on.
THEOREM FailureReportedHolds == Spec => []FailureReported
<1>1. IInv => FailureReported
  BY DEF IInv, RankInv, ReportedInv, FailureReported
<1> QED BY <1>1, IInvHolds, PTL

-----------------------------------------------------------------------------
\* What one rank of a replica shows to another.

\* The commands a rank has started or joined: those it read and does not defer.
Gone(r) == (1 .. taken[r]) \ ToSet(deferred[r])
\* The rows that will go on once the ended ones have left.
Net(r) == batch[r].open \ outcome[r]
\* The command a batch began with, and the one the main loop began last.
First(r) == batch[r].reqs[1]
Latest(r) == IF started[r] = <<>> THEN 0 ELSE Last(started[r])

\* The commands that join a batch begun with f; the rows of a replica.
Joiners == [f \in Reqs |-> {c \in Reqs : log[c].op = "rollout" /\ Compatible(log[f], log[c])}]
GroupRows(g) == UNION {RowsOf(c, g) : c \in Reqs}
RowsIn(g, C) == {x \in GroupRows(g) : x[1] \in C}
Rowless(g, c) == log[c].op = "rollout" /\ RowsOf(c, g) = {}

\* m is the largest of n and the members of S.
Top(n, S, m) == n <= m /\ (m = n \/ m \in S) /\ \A x \in S : x <= m

\* Nothing another rank can tell changes but the rank's place.
Steady(r) ==
  /\ Gone(r)' = Gone(r) /\ taken'[r] = taken[r] /\ Latest(r)' = Latest(r)
  /\ batch'[r].reqs = batch[r].reqs /\ Net(r)' = Net(r)

\* Rank r, in a batch, is told of command c, or of none.
Followed(r, c) ==
  LET J == {c} \cap Joiners[First(r)]
  IN  /\ place[r] = "refill" /\ place'[r] = IF J = {} THEN "sweep" ELSE "refill"
      /\ Gone(r)' = Gone(r) \cup J /\ Latest(r)' = Latest(r)
      /\ IF c = 0 THEN taken'[r] = taken[r] ELSE taken[r] < c /\ taken'[r] = c
      /\ batch'[r].reqs = IF J = {} THEN batch[r].reqs ELSE Append(batch[r].reqs, c)
      /\ Net(r)' = Net(r) \cup RowsIn(GroupOf(r), J)

\* Rank r begins command c, the least it has not dealt with.
Entered(r, c) ==
  \/ place'[r] = "idle" /\ Rowless(GroupOf(r), c) /\ Net(r)' = {}
  \/ place'[r] = "train" /\ log[c].op = "train" /\ Net(r)' = {}
  \/ /\ place'[r] = "refill" /\ log[c].op = "rollout" /\ RowsOf(c, GroupOf(r)) # {}
     /\ batch'[r].reqs = <<c>> /\ Net(r)' = RowsOf(c, GroupOf(r))
Began(r, c) ==
  /\ place[r] = "idle" /\ c \in Reqs /\ c \notin Gone(r) /\ 1 .. c - 1 \subseteq Gone(r)
  /\ Gone(r)' = Gone(r) \cup {c} /\ Top(taken[r], {c}, taken'[r])
  /\ Latest(r)' = c /\ Latest(r) < c /\ Entered(r, c)

-----------------------------------------------------------------------------
\* The rows of some commands are the union of the rows of each.
LEMMA RowsInFacts ==
  ASSUME log \in [Reqs -> Menu], NEW g \in Groups
  PROVE  /\ \A c \in Reqs : RowsIn(g, {c}) = RowsOf(c, g)
         /\ \A C, D : RowsIn(g, C \cup D) = RowsIn(g, C) \cup RowsIn(g, D)
         /\ RowsIn(g, {}) = {}
<1>1. ASSUME NEW c \in Reqs PROVE RowsIn(g, {c}) = RowsOf(c, g)
  <2>1. \A d \in Reqs : \A x \in RowsOf(d, g) : x[1] = d
    BY RowsFacts
  <2> QED BY <2>1 DEF RowsIn, GroupRows
<1> QED BY <1>1 DEF RowsIn

\* What the others of a step of rank r show is unchanged.
LEMMA OthersSteady ==
  ASSUME NEW r \in Ranks, Others(r)
  PROVE  \A q \in Ranks \ {r} : Steady(q) /\ place'[q] = place[q]
BY DEF Others, Steady, Gone, Latest, Net

\* The latest command is the last one started, 0 before the first.
LEMMA LatestFacts ==
  ASSUME Types, NEW r \in Ranks
  PROVE  /\ Latest(r) \in 0 .. MaxCommands
         /\ started[r] # <<>> => Latest(r) = Last(started[r])
                                 /\ \E i \in DOMAIN started[r] : Latest(r) = started[r][i]
<1>1. started[r] \in Seq(Reqs) /\ MaxCommands \in Nat
  BY WorkerAssumption DEF Types
<1>2. CASE started[r] = <<>>
  BY <1>1, <1>2 DEF Latest
<1>3. CASE started[r] # <<>>
  <2>1. Len(started[r]) \in DOMAIN started[r]
    BY <1>1, <1>3
  <2> QED BY <1>1, <1>3, <2>1, ElementOfSeq DEF Latest, Last, Reqs
<1> QED BY <1>2, <1>3

\* The main loop begins the least command the rank has not dealt with.
LEMMA BeginEffect ==
  ASSUME Types, NEW r \in Ranks, RankInv(r), Start(r)
  PROVE  Began(r, NextCommand(r))
<1>0. PICK c : c = NextCommand(r)
  OBVIOUS
<1> DEFINE g == GroupOf(r)  b == BatchOf(r, c)
<1>1. /\ place[r] = "idle" /\ Available(r) /\ TakeNext(r)
      /\ started' = [started EXCEPT ![r] = Append(@, c)]
      /\ UNCHANGED <<log, outcome>>
  BY <1>0 DEF Start
<1>2. /\ c \in Reqs /\ c \in 1 .. taken'[r] /\ taken'[r] \in 0 .. MaxCommands
      /\ Reports(r) \cup ToSet(deferred'[r]) \cup {c} = 1 .. taken'[r]
      /\ c \notin Reports(r) /\ c \notin ToSet(deferred'[r])
      /\ Reports(r) \cap ToSet(deferred'[r]) = {}
      /\ taken[r] <= taken'[r]
      /\ \A j \in DOMAIN deferred'[r] : c < deferred'[r][j]
      /\ \A i \in DOMAIN started[r] : started[r][i] < c
  BY <1>0, <1>1, TakeFacts
<1>3. batch[r] = NoBatch /\ outcome[r] = {} /\ Training(r) = {} /\ Homes(r)
  BY <1>1 DEF RankInv, PlaceInv, Training, Live
<1>4. Gone(r) = Reports(r)
  <2>1. Reports(r) \cup ToSet(deferred[r]) = 1 .. taken[r]
        /\ Reports(r) \cap ToSet(deferred[r]) = {}
    BY <1>3, NoBatchFacts DEF Homes
  <2> QED BY <2>1 DEF Gone
<1>5. Gone(r)' = Reports(r) \cup {c}
  BY <1>2 DEF Gone
<1>6. 1 .. c - 1 \subseteq Gone(r)
  <2> SUFFICES ASSUME NEW e \in 1 .. c - 1 PROVE e \in Reports(r)
    BY <1>4
  <2>1. c \in Nat /\ taken'[r] \in Nat
    BY <1>2 DEF Reqs
  <2>2. e \in 1 .. taken'[r] /\ e # c /\ e < c
    BY <1>2, <2>1
  <2>3. deferred'[r] \in Seq(Reqs)
    BY <1>1, TakeFacts
  <2>4. e \notin ToSet(deferred'[r])
    BY <1>2, <2>1, <2>2, <2>3, ElementOfSeq DEF ToSet, Reqs
  <2> QED BY <1>2, <2>2, <2>4
<1>7. Top(taken[r], {c}, taken'[r])
  <2>1. taken \in [Ranks -> 0 .. MaxCommands] /\ c \in Nat
    BY <1>2 DEF Types, Reqs
  <2>2. taken'[r] = taken[r] \/ taken'[r] = c
    BY <1>0, <1>1, <2>1 DEF TakeNext, NextCommand
  <2> QED BY <1>2, <2>1, <2>2 DEF Top
<1>8. Latest(r)' = c /\ Latest(r) < c
  <2>1. started \in [Ranks -> Seq(Reqs)]
    BY DEF Types
  <2>2. Append(started[r], c) # <<>> /\ Last(Append(started[r], c)) = c
    BY <1>2, <2>1, AppendFacts
  <2>3. started'[r] = Append(started[r], c)
    BY <1>1, <2>1
  <2>4. Latest(r)' = c
    BY <2>2, <2>3 DEF Latest
  <2>5. c > 0 /\ c \in Nat
    BY <1>2 DEF Reqs
  <2>6. CASE started[r] = <<>>
    BY <2>4, <2>5, <2>6 DEF Latest
  <2>7. CASE started[r] # <<>>
    BY <1>2, <2>4, <2>7, LatestFacts
  <2> QED BY <2>6, <2>7
<1>9. b.reqs = <<c>> /\ b.open = RowsOf(c, g)
  <2>1. b.open = RowsOf(c, g)
    BY <1>2, BatchOfFacts
  <2>2. b.reqs = <<c>>
    BY DEF BatchOf, NoBatch
  <2> QED BY <2>1, <2>2
<1>10. Entered(r, c)
  <2>1. /\ place \in [Ranks -> InBatch \cup {"idle", "train", "dead"}]
        /\ batch \in [Ranks -> Batches]
    BY DEF Types
  <2>2. \/ /\ log[c].op = "train" /\ place' = [place EXCEPT ![r] = "train"]
           /\ UNCHANGED batch
        \/ log[c].op = "rollout" /\ b.open = {} /\ UNCHANGED <<place, batch>>
        \/ /\ log[c].op = "rollout" /\ b.open # {} /\ place' = [place EXCEPT ![r] = "refill"]
           /\ batch' = [batch EXCEPT ![r] = b]
    BY <1>0 DEF Start
  <2> HIDE DEF b
  <2>a. UNCHANGED batch => Net(r)' = {}
    BY <1>1, <1>3 DEF Net, NoBatch
  <2>3. CASE log[c].op = "train" /\ place' = [place EXCEPT ![r] = "train"] /\ UNCHANGED batch
    BY <2>1, <2>a, <2>3 DEF Entered
  <2>4. CASE log[c].op = "rollout" /\ b.open = {} /\ UNCHANGED <<place, batch>>
    BY <1>1, <1>9, <2>a, <2>4 DEF Entered, Rowless
  <2>5. CASE /\ log[c].op = "rollout" /\ b.open # {} /\ place' = [place EXCEPT ![r] = "refill"]
             /\ batch' = [batch EXCEPT ![r] = b]
    <3>1. place'[r] = "refill" /\ batch'[r] = b /\ outcome'[r] = {}
      BY <1>1, <1>3, <2>1, <2>5
    <3>2. Net(r)' = RowsOf(c, g)
      BY <1>9, <3>1 DEF Net
    <3> QED BY <1>9, <2>5, <3>1, <3>2 DEF Entered
  <2> QED BY <2>2, <2>3, <2>4, <2>5
<1> QED BY <1>0, <1>1, <1>2, <1>4, <1>5, <1>6, <1>7, <1>8, <1>10 DEF Began

\* A rank in a batch has a first request, and it is one of its requests.
LEMMA FirstFacts ==
  ASSUME Types, NEW r \in Ranks, RankInv(r), place[r] \in InBatch
  PROVE  /\ batch[r].reqs \in Seq(Reqs) /\ batch[r].reqs # <<>> /\ First(r) \in Reqs
         /\ First(r) \in ToSet(batch[r].reqs)
<1>1. batch[r].reqs \in Seq(Reqs) /\ Last(started[r]) \in ToSet(batch[r].reqs)
  BY DEF Types, Batches, RankInv, PlaceInv
<1>2. batch[r].reqs # <<>>
  BY <1>1 DEF ToSet
<1>3. 1 \in DOMAIN batch[r].reqs
  BY <1>1, <1>2
<1> QED BY <1>1, <1>2, <1>3, ElementOfSeq DEF First, ToSet

\* A longer list of requests begins with the same one.
LEMMA FirstKept ==
  ASSUME NEW s \in Seq(Reqs), s # <<>>, NEW c \in Reqs
  PROVE  Append(s, c)[1] = s[1]
OBVIOUS

\* A poll or a header that names a command, whoever reads it.
LEMMA RefillEffect ==
  ASSUME Types, NEW r \in Ranks, RankInv(r), place[r] = "refill",
         NEW c \in Reqs, taken[r] < c, taken' = [taken EXCEPT ![r] = c],
         NEW before \in Seq(Reqs),
         ToSet(before) = ToSet(deferred[r]) \cup taken[r] + 1 .. c - 1,
         Refill(r, c, before), UNCHANGED <<log, outcome, started>>
  PROVE  Followed(r, c)
<1> DEFINE g == GroupOf(r)  b0 == batch[r]
           b == [b0 EXCEPT !.reqs = Append(@, c), !.open = @ \cup RowsOf(c, g)]
           s == SendReady(b, g)
<1>1. /\ place \in [Ranks -> InBatch \cup {"idle", "train", "dead"}]
      /\ batch \in [Ranks -> Batches] /\ deferred \in [Ranks -> Seq(Reqs)]
      /\ taken \in [Ranks -> 0 .. MaxCommands] /\ b0 \in Batches /\ log \in [Reqs -> Menu]
      /\ MaxCommands \in Nat
  BY WorkerAssumption DEF Types
<1>2. outcome[r] = {} /\ outcome'[r] = {}
  BY DEF RankInv, PlaceInv
<1>3. b0.reqs \in Seq(Reqs) /\ b0.reqs # <<>> /\ First(r) \in Reqs
  BY FirstFacts DEF InBatch
<1>4. taken'[r] = c /\ taken[r] \in Nat /\ c \in Nat /\ c # 0
  BY <1>1 DEF Reqs
<1>5. Latest(r)' = Latest(r)
  BY DEF Latest
<1>6. \A d \in ToSet(deferred[r]) : d <= taken[r]
  BY DEF RankInv, OrderInv, ToSet
<1>7. 1 .. c = (1 .. taken[r]) \cup (taken[r] + 1 .. c - 1) \cup {c}
      /\ (1 .. taken[r]) \cap (taken[r] + 1 .. c - 1) = {} /\ c \notin 1 .. taken[r]
      /\ c \notin taken[r] + 1 .. c - 1
  BY <1>4
<1>8. c \in Joiners[First(r)] <=>
        log[c].op = "rollout" /\ Compatible(log[batch[r].reqs[1]], log[c])
  BY <1>3 DEF Joiners, First
<1>9. g \in Groups
  BY RankFacts
<1>10. c \notin ToSet(deferred[r])
  BY <1>4, <1>6
<1>11. CASE c \in Joiners[First(r)]
  <2>1. /\ batch' = [batch EXCEPT ![r] = s.b]
        /\ deferred' = [deferred EXCEPT ![r] = before] /\ UNCHANGED place
    BY <1>8, <1>11 DEF Refill
  <2>2. RowsOf(c, g) \subseteq Rows /\ RowsIn(g, {c}) = RowsOf(c, g)
    BY <1>1, <1>9, RowsFacts, RowsInFacts
  <2>3. Append(b0.reqs, c) \in Seq(Reqs)
    BY <1>3, AppendFacts
  <2>4. b \in Batches /\ b.reqs = Append(b0.reqs, c) /\ b.open = b0.open \cup RowsOf(c, g)
    <3> DEFINE rs == Append(b0.reqs, c)  os == RowsOf(c, g)
    <3>1. b = [b0 EXCEPT !.reqs = rs, !.open = @ \cup os]
      OBVIOUS
    <3>2. rs \in Seq(Reqs) /\ os \subseteq Rows
      BY <2>2, <2>3
    <3> HIDE DEF rs, os, b, b0
    <3>3. b \in Batches /\ b.reqs = rs /\ b.open = b0.open \cup os
      BY <1>1, <3>1, <3>2 DEF Batches
    <3> QED BY <3>3 DEF os, rs
  <2> HIDE DEF b
  <2>5. s.b.reqs = b.reqs /\ s.b.open = b.open
    BY <2>4, SendReadyFacts
  <2> HIDE DEF s
  <2>6. batch'[r].reqs = Append(b0.reqs, c) /\ batch'[r].open = b0.open \cup RowsOf(c, g)
    BY <1>1, <2>1, <2>4, <2>5
  <2>7. deferred'[r] = before /\ place'[r] = "refill"
    BY <1>1, <2>1
  <2>8. Gone(r)' = Gone(r) \cup {c}
    BY <1>4, <1>7, <1>10, <2>7 DEF Gone
  <2>9. Net(r)' = Net(r) \cup RowsIn(g, {c})
    BY <1>2, <2>2, <2>6 DEF Net
  <2>10. {c} \cap Joiners[First(r)] = {c} /\ {c} # {}
    BY <1>11
  <2> QED BY <1>4, <1>5, <2>6, <2>7, <2>8, <2>9, <2>10 DEF Followed
<1>12. CASE c \notin Joiners[First(r)]
  <2>1. /\ deferred' = [deferred EXCEPT ![r] = Append(before, c)]
        /\ place' = [place EXCEPT ![r] = "sweep"] /\ UNCHANGED batch
    BY <1>8, <1>12 DEF Refill
  <2>2. ToSet(Append(before, c)) = ToSet(before) \cup {c}
    BY AppendFacts
  <2>3. ToSet(deferred'[r]) = ToSet(before) \cup {c} /\ place'[r] = "sweep"
    BY <1>1, <2>1, <2>2
  <2>4. Gone(r)' = Gone(r)
    BY <1>4, <1>7, <2>3 DEF Gone
  <2>5. {c} \cap Joiners[First(r)] = {}
    BY <1>12
  <2>6. RowsIn(g, {}) = {} /\ Net(r)' = Net(r)
    BY <1>1, <1>9, <2>1, RowsInFacts DEF Net
  <2> QED BY <1>4, <1>5, <2>1, <2>3, <2>4, <2>5, <2>6 DEF Followed
<1> QED BY <1>11, <1>12

\* A poll that finds nothing.
LEMMA NothingEffect ==
  ASSUME Types, NEW r \in Ranks, RankInv(r), place[r] = "refill",
         place' = [place EXCEPT ![r] = "sweep"],
         UNCHANGED <<log, taken, deferred, batch, outcome, started>>
  PROVE  Followed(r, 0)
<1>1. place'[r] = "sweep" /\ log \in [Reqs -> Menu] /\ GroupOf(r) \in Groups
  BY RankFacts DEF Types
<1>2. First(r) \in Reqs
  BY FirstFacts DEF InBatch
<1>3. {0} \cap Joiners[First(r)] = {}
  BY <1>2 DEF Joiners, Reqs
<1>4. RowsIn(GroupOf(r), {}) = {}
  BY <1>1, RowsInFacts
<1>5. Gone(r)' = Gone(r) /\ Latest(r)' = Latest(r) /\ Net(r)' = Net(r)
  BY DEF Gone, Latest, Net
<1> QED BY <1>1, <1>3, <1>4, <1>5 DEF Followed

\* The leader follows its own queue, and says so to its siblings.
LEMMA LeaderEffect ==
  ASSUME Types, NEW r \in Ranks, RankInv(r), LeaderRefill(r)
  PROVE  \E c \in 0 .. MaxCommands :
           /\ Followed(r, c)
           /\ headers' \in [Ranks -> Seq(0 .. MaxCommands)]
           /\ \A q \in Ranks : headers'[q] = IF q \in Team(GroupOf(r)) \ {r}
                                            THEN Append(headers[q], c) ELSE headers[q]
<1>1. /\ headers \in [Ranks -> Seq(0 .. MaxCommands)] /\ taken \in [Ranks -> 0 .. MaxCommands]
      /\ MaxCommands \in Nat /\ Len(log) = MaxCommands /\ deferred[r] \in Seq(Reqs)
  BY RowsFacts, WorkerAssumption DEF Types
<1>2. ASSUME NEW h \in 0 .. MaxCommands, Broadcast(r, h)
      PROVE  /\ headers' \in [Ranks -> Seq(0 .. MaxCommands)]
             /\ \A q \in Ranks : headers'[q] = IF q \in Team(GroupOf(r)) \ {r}
                                              THEN Append(headers[q], h) ELSE headers[q]
  <2>1. \A q \in Ranks : Append(headers[q], h) \in Seq(0 .. MaxCommands)
    BY <1>1, AppendFacts
  <2> QED BY <1>1, <1>2, <2>1 DEF Broadcast
<1>3. CASE /\ Broadcast(r, 0) /\ place' = [place EXCEPT ![r] = "sweep"]
           /\ UNCHANGED <<taken, deferred, batch, results>>
  <2>1. Followed(r, 0)
    BY <1>3, NothingEffect DEF LeaderRefill
  <2>2. 0 \in 0 .. MaxCommands
    BY <1>1
  <2> QED BY <1>2, <1>3, <2>1, <2>2
<1>4. CASE /\ taken[r] < Len(log) /\ taken' = [taken EXCEPT ![r] = @ + 1]
           /\ Broadcast(r, taken[r] + 1) /\ Refill(r, taken[r] + 1, deferred[r])
  <2>1. PICK c : c = taken[r] + 1
    OBVIOUS
  <2>2. c \in Reqs /\ c \in 0 .. MaxCommands /\ taken[r] < c /\ taken[r] + 1 .. c - 1 = {}
    BY <1>1, <1>4, <2>1 DEF Reqs
  <2>3. ToSet(deferred[r]) = ToSet(deferred[r]) \cup taken[r] + 1 .. c - 1
    BY <2>2
  <2>4. /\ place[r] = "refill" /\ taken' = [taken EXCEPT ![r] = c] /\ Refill(r, c, deferred[r])
        /\ UNCHANGED <<log, outcome, started>>
    BY <1>4, <2>1 DEF LeaderRefill
  <2>5. Followed(r, c)
    BY <1>1, <2>2, <2>3, <2>4, RefillEffect
  <2> QED BY <1>2, <1>4, <2>1, <2>2, <2>5
<1> QED BY <1>3, <1>4 DEF LeaderRefill

\* A sibling follows the oldest header.
LEMMA SiblingEffect ==
  ASSUME Types, NEW r \in Ranks, RankInv(r), SiblingRefill(r)
  PROVE  /\ Followed(r, Head(headers[r])) /\ headers[r] # <<>>
         /\ headers'[r] = Tail(headers[r])
         /\ \A q \in Ranks \ {r} : headers'[q] = headers[q]
<1> DEFINE n == taken[r]  d == deferred[r]
<1>1. /\ headers \in [Ranks -> Seq(0 .. MaxCommands)] /\ n \in Nat /\ d \in Seq(Reqs)
      /\ MaxCommands \in Nat
  BY WorkerAssumption DEF Types
<1>2. PICK c : c = Head(headers[r])
  OBVIOUS
<1>3. headers[r] # <<>> /\ headers' = [headers EXCEPT ![r] = Tail(@)] /\ place[r] = "refill"
      /\ UNCHANGED <<log, outcome, started>>
  BY DEF SiblingRefill
<1>4. headers'[r] = Tail(headers[r]) /\ \A q \in Ranks \ {r} : headers'[q] = headers[q]
  BY <1>1, <1>3
<1>5. c \in 0 .. MaxCommands
  BY <1>1, <1>2, <1>3, TailFacts
<1>6. CASE /\ c = 0 /\ place' = [place EXCEPT ![r] = "sweep"]
           /\ UNCHANGED <<taken, deferred, batch, results>>
  BY <1>2, <1>3, <1>4, <1>6, NothingEffect
<1>7. CASE /\ c > n /\ taken' = [taken EXCEPT ![r] = c]
           /\ Refill(r, c, d \o [i \in 1 .. c - n - 1 |-> n + i])
  <2> DEFINE t == [i \in 1 .. c - n - 1 |-> n + i]
  <2>1. c \in Reqs /\ n < c /\ c \in Nat /\ c - n - 1 \in Nat
    BY <1>1, <1>5, <1>7 DEF Reqs
  <2>2. t \in Seq(Reqs)
    <3>1. \A i \in 1 .. c - n - 1 : n + i \in Reqs
      BY <1>1, <1>5, <2>1 DEF Reqs
    <3>2. t \in [1 .. c - n - 1 -> Reqs]
      BY <3>1
    <3> HIDE DEF t
    <3> QED BY <2>1, <3>2
  <2>3. ToSet(t) = n + 1 .. c - 1
    <3>1. ASSUME NEW i \in DOMAIN t PROVE t[i] \in n + 1 .. c - 1
      <4>1. i \in 1 .. c - n - 1 /\ t[i] = n + i
        OBVIOUS
      <4> HIDE DEF n, t
      <4> QED BY <1>1, <2>1, <4>1
    <3>2. ASSUME NEW x \in n + 1 .. c - 1 PROVE x \in ToSet(t)
      <4>1. x - n \in 1 .. c - n - 1 /\ n + (x - n) = x
        <5> HIDE DEF n
        <5> QED BY <1>1, <2>1
      <4>2. x - n \in DOMAIN t /\ t[x - n] = x
        BY <4>1
      <4> HIDE DEF t
      <4> QED BY <4>2 DEF ToSet
    <3> HIDE DEF t
    <3> QED BY <3>1, <3>2 DEF ToSet
  <2> HIDE DEF t
  <2>4. d \o t \in Seq(Reqs) /\ ToSet(d \o t) = ToSet(d) \cup n + 1 .. c - 1
    <3>1. d \in Seq(Reqs)
      BY <1>1
    <3> HIDE DEF d, n
    <3>2. d \o t \in Seq(Reqs)
      BY <2>2, <3>1, ConcatFacts
    <3>3. ToSet(d \o t) = ToSet(d) \cup ToSet(t)
      BY <2>2, <3>1, ConcatSet
    <3> QED BY <2>3, <3>2, <3>3
  <2>5. Refill(r, c, d \o t)
    BY <1>7 DEF t
  <2> HIDE DEF d
  <2>6. Followed(r, c)
    BY <1>3, <1>7, <2>1, <2>4, <2>5, RefillEffect DEF d
  <2> QED BY <1>2, <1>3, <1>4, <2>6
<1> QED BY <1>2, <1>6, <1>7 DEF SiblingRefill

\* No payload of the menu carries cancel flags.
Uncancelled == \A c \in Menu : ~c.cancel

\* Then the coordinator cancels nothing.
LEMMA NothingCancelled ==
  ASSUME Types, Uncancelled
  PROVE  ~CancelRow
<1> SUFFICES ASSUME CancelRow PROVE FALSE
  OBVIOUS
<1>1. PICK c \in DOMAIN log : log[c].cancel
  BY DEF CancelRow
<1> QED BY <1>1, RowsFacts DEF Types, Uncancelled

\* A rank in a batch that is not stepping has no rows that ended.
LEMMA SweepEffect ==
  ASSUME Types, NEW r \in Ranks, RankInv(r), flagged = {}, Sweep(r)
  PROVE  /\ place[r] = "sweep" /\ Steady(r)
         /\ place'[r] = IF Net(r) = {} THEN "drained" ELSE "step"
<1>1. /\ place \in [Ranks -> InBatch \cup {"idle", "train", "dead"}]
      /\ batch \in [Ranks -> Batches] /\ batch[r] \in Batches
  BY DEF Types
<1>2. Cancelled(r) = {}
  BY DEF Cancelled
<1>3. place[r] = "sweep" /\ outcome[r] = {} /\ UNCHANGED <<taken, deferred, outcome, started>>
  BY DEF Sweep, queueVars, RankInv, PlaceInv
<1>4. Net(r) = batch[r].open
  BY <1>3 DEF Net
<1>5. place'[r] = IF Net(r) = {} THEN "drained" ELSE "step"
  BY <1>1, <1>2, <1>4 DEF Sweep
<1>6. Callback(r, {}).b = batch[r]
  BY DEF Callback
<1>7. batch'[r] = [batch[r] EXCEPT !.open = @ \ {}]
  BY <1>1, <1>2, <1>6 DEF Sweep
<1>8. batch'[r].reqs = batch[r].reqs /\ batch'[r].open = batch[r].open
  BY <1>1, <1>7 DEF Batches
<1>9. Gone(r)' = Gone(r) /\ Latest(r)' = Latest(r) /\ Net(r)' = Net(r)
  BY <1>3, <1>8 DEF Gone, Latest, Net
<1> QED BY <1>3, <1>5, <1>8, <1>9 DEF Steady

\* The rows that leave after a forward are the ones that ended in it.
LEMMA PostEffect ==
  ASSUME Types, NEW r \in Ranks, RankInv(r), flagged = {}, Post(r)
  PROVE  place[r] = "post" /\ Steady(r) /\ place'[r] = "refill"
<1>1. /\ place \in [Ranks -> InBatch \cup {"idle", "train", "dead"}]
      /\ batch \in [Ranks -> Batches] /\ batch[r] \in Batches
      /\ outcome \in [Ranks -> SUBSET Rows]
  BY DEF Types
<1>2. Cancelled(r) = {}
  BY DEF Cancelled
<1>3. /\ place[r] = "post" /\ UNCHANGED <<taken, deferred, started>>
      /\ outcome' = [outcome EXCEPT ![r] = {}] /\ outcome[r] \subseteq batch[r].open
  BY DEF Post, queueVars, RankInv, PlaceInv
<1>4. place'[r] = "refill" /\ outcome'[r] = {}
  BY <1>1, <1>3 DEF Post
<1>5. PICK m : m = Callback(r, outcome[r]).b
  OBVIOUS
<1>6. m \in Batches /\ m.reqs = batch[r].reqs /\ m.open = batch[r].open
  <2>1. outcome[r] \in SUBSET Rows
    BY <1>1
  <2> QED BY <1>1, <1>5, <2>1, CallbackFacts
<1>7. batch'[r] = [m EXCEPT !.open = @ \ (outcome[r] \cup {})]
  BY <1>1, <1>2, <1>5 DEF Post
<1>8. batch'[r].reqs = batch[r].reqs /\ batch'[r].open = batch[r].open \ outcome[r]
  BY <1>6, <1>7 DEF Batches
<1>9. Gone(r)' = Gone(r) /\ Latest(r)' = Latest(r) /\ Net(r)' = Net(r)
  BY <1>3, <1>4, <1>8 DEF Gone, Latest, Net
<1> QED BY <1>3, <1>4, <1>8, <1>9 DEF Steady

\* The batch is over: what is left of the rank is what it has dealt with.
Rested(r) ==
  /\ Gone(r)' = Gone(r) /\ taken'[r] = taken[r] /\ Latest(r)' = Latest(r)
  /\ Net(r) = {} /\ Net(r)' = {}

\* Leaving the batch leaves what the rank has dealt with.
LEMMA FinishEffect ==
  ASSUME Types, NEW r \in Ranks, RankInv(r), Finish(r)
  PROVE  place[r] = "drained" /\ place'[r] = "idle" /\ Rested(r)
<1>1. /\ place \in [Ranks -> InBatch \cup {"idle", "train", "dead"}]
      /\ batch \in [Ranks -> Batches]
  BY DEF Types
<1>2. /\ place[r] = "drained" /\ UNCHANGED <<taken, deferred, outcome, started>>
      /\ batch[r].open = {}
  BY DEF Finish, queueVars, RankInv, PlaceInv
<1>3. place'[r] = "idle" /\ batch'[r] = NoBatch
  BY <1>1 DEF Finish
<1> QED BY <1>2, <1>3 DEF Rested, Gone, Latest, Net, NoBatch

\* A rank that raises keeps what it shows.
LEMMA FailEffect ==
  ASSUME Types, NEW r \in Ranks, Fail(r)
  PROVE  Steady(r) /\ place'[r] = "dead"
<1>1. place \in [Ranks -> InBatch \cup {"idle", "train", "dead"}]
  BY DEF Types
<1>2. place'[r] = "dead" /\ UNCHANGED <<taken, deferred, outcome, started, batch>>
  BY <1>1 DEF Fail, queueVars
<1> QED BY <1>2 DEF Steady, Gone, Latest, Net

\* What the ranks of a replica show after a forward, and all after a train.
LEMMA ForwardEffect ==
  ASSUME Types, NEW g \in Groups, Forward(g), \A r \in Ranks : RankInv(r)
  PROVE  /\ \A r \in Team(g) :
              /\ r \in Ranks /\ place[r] = "step" /\ place'[r] = "post"
              /\ Gone(r)' = Gone(r) /\ taken'[r] = taken[r] /\ Latest(r)' = Latest(r)
              /\ batch'[r].reqs = batch[r].reqs
         /\ \A r, q \in Team(g) : Net(r)' = Net(q)'
         /\ \A r \in Ranks \ Team(g) : Steady(r) /\ place'[r] = place[r]
<1>1. PICK ended :
        /\ \A r \in Team(g) : place[r] = "step"
        /\ \A r, q \in Team(g) : batch[r].open = batch[q].open
        /\ outcome' = [r \in Ranks |-> IF r \in Team(g) THEN ended ELSE outcome[r]]
        /\ place' = [r \in Ranks |-> IF r \in Team(g) THEN "post" ELSE place[r]]
        /\ UNCHANGED <<taken, deferred, batch, started>>
  BY DEF Forward, queueVars
<1>2. Team(g) \subseteq Ranks
  BY DEF Team
<1>3. \A r \in Team(g) : Net(r)' = batch[r].open \ ended
  BY <1>1, <1>2 DEF Net
<1>4. \A r \in Ranks \ Team(g) : outcome'[r] = outcome[r] /\ place'[r] = place[r]
  BY <1>1
<1>5. \A r \in Ranks \ Team(g) : Steady(r)
  BY <1>1, <1>4 DEF Steady, Gone, Latest, Net
<1>6. \A r \in Ranks : Gone(r)' = Gone(r) /\ Latest(r)' = Latest(r)
  BY <1>1 DEF Gone, Latest
<1> QED BY <1>1, <1>2, <1>3, <1>4, <1>5, <1>6

\* A train moves the ranks on, and nothing else of them.
LEMMA TrainEffect ==
  ASSUME Types, Train
  PROVE  \A r \in Ranks : Steady(r) /\ place[r] = "train" /\ place'[r] = "idle"
<1>1. UNCHANGED <<taken, deferred, batch, outcome, started>>
  BY DEF Train, queueVars
<1> QED BY <1>1 DEF Train, Steady, Gone, Latest, Net

-----------------------------------------------------------------------------
\* A sibling is its leader some headers ago, or a little ahead of it.  The
\* relation is between what the two ranks show: a is the leader, b the sibling.

Requests(r) == ToSet(batch[r].reqs)
View(r, p) ==
  [group |-> GroupOf(r), place |-> p, gone |-> Gone(r), taken |-> taken[r],
   latest |-> Latest(r), first |-> First(r), reqs |-> Requests(r), net |-> Net(r),
   heads |-> headers[r]]
Typed(a) ==
  /\ a.group \in Groups /\ a.gone \subseteq Reqs /\ a.taken \in Nat /\ a.latest \in Nat
  /\ a.heads \in Seq(0 .. MaxCommands)
  /\ log \in [Reqs -> Menu]

Opened == {"post", "refill"}
Shut == {"sweep", "step", "drained"}

\* The headers h of one poll: joiners are in J, and over says that the poll has
\* ended, which it does with a header that does not join.
Polled(J, h, over) ==
  /\ over => h # <<>>
  /\ \A i \in DOMAIN h : h[i] \in J <=> ~(over /\ i = Len(h))

\* The commands of the headers h that join a batch begun with f.
Joining(f, h) == ToSet(h) \cap Joiners[f]

\* Both are in one batch: the sibling b has yet to follow its headers, or has
\* followed all.
SameBatch(a, b) ==
  /\ a.first = b.first /\ b.first \in Reqs
  /\ a.reqs = b.reqs \cup Joining(b.first, b.heads)
  /\ a.gone = b.gone \cup Joining(b.first, b.heads)
  /\ Top(b.taken, ToSet(b.heads), a.taken)
  /\ a.net = b.net \cup RowsIn(b.group, Joining(b.first, b.heads))
  /\ \/ b.place \in Opened /\ a.place \in Opened \cup Shut
        /\ Polled(Joiners[b.first], b.heads, a.place \in Shut)
     \/ b.place \in Shut /\ a.place \in Shut /\ b.heads = <<>>

\* The batch of b is over once b has followed h.
Ending(b, h) ==
  \/ b.place = "idle" /\ h = <<>>
  \/ b.place \in {"sweep", "drained"} /\ b.net = {} /\ h = <<>>
  \/ /\ b.place \in Opened /\ b.first \in Reqs /\ b.net = {}
     /\ RowsIn(b.group, Joining(b.first, h)) = {} /\ Polled(Joiners[b.first], h, TRUE)

\* a has begun commands; h is the poll of the batch it is in.
InTrain(a) == a.place = "train" /\ a.net = {} /\ log[a.latest].op = "train"
InBegun(a, h) ==
  /\ a.place \in {"refill", "sweep", "step"} /\ a.first = a.latest /\ a.latest \in Reqs
  /\ log[a.latest].op = "rollout" /\ RowsOf(a.latest, a.group) # {}
  /\ Polled(Joiners[a.latest], h, a.place # "refill")
  /\ a.reqs = {a.latest} \cup Joining(a.latest, h)
  /\ a.net = RowsIn(a.group, {a.latest} \cup Joining(a.latest, h))
Begun(a, h) ==
  \/ a.place = "idle" /\ h = <<>> /\ a.net = {}
  \/ InTrain(a) /\ h = <<>>
  \/ InBegun(a, h)

\* The commands D are the ones a has begun beyond the commands G: the next
\* ones, all but the last without rows for the replica.
Gap(a, G, D) ==
  /\ D \subseteq Reqs /\ (a.place # "idle" => a.latest \in D)
  /\ \A d \in D : /\ d \notin G /\ d <= a.latest /\ 1 .. d \subseteq G \cup D
                  /\ a.place = "idle" \/ d # a.latest => Rowless(a.group, d)

\* The leader has left the batch b is in, and begun the commands D.
BehindBy(a, b, h1, h2, D) ==
  /\ b.heads = h1 \o h2 /\ Ending(b, h1) /\ Begun(a, h2)
  /\ Gap(a, b.gone \cup Joining(b.first, h1), D)
  /\ a.gone = b.gone \cup Joining(b.first, h1) \cup D \cup Joining(a.latest, h2)
  /\ Top(b.taken, ToSet(h1) \cup ToSet(h2) \cup D, a.taken)
Behind(a, b) ==
  \E h1, h2 \in Seq(0 .. MaxCommands), D \in SUBSET Reqs : BehindBy(a, b, h1, h2, D)

\* The sibling has left the batch the leader is in, and begun the commands D.
AheadBy(a, b, D) ==
  /\ b.heads = <<>> /\ a.net = {} /\ a.place \in Shut \cup {"idle"}
  /\ Begun(b, <<>>) /\ b.place \in {"idle", "train", "refill"}
  /\ Gap(b, a.gone, D) /\ b.gone = a.gone \cup D /\ Top(a.taken, D, b.taken)
Ahead(a, b) == \E D \in SUBSET Reqs : AheadBy(a, b, D)

\* Both are at one train.
Meeting(a, b) ==
  /\ a.place = "train" /\ b.place = "train" /\ b.heads = <<>> /\ a.net = {} /\ b.net = {}
  /\ a.gone = b.gone /\ a.taken = b.taken

Related(a, b) ==
  /\ a.group = b.group
  /\ SameBatch(a, b) \/ Behind(a, b) \/ Ahead(a, b) \/ Meeting(a, b)

\* What a step does to what a rank shows.
Kept(a, a2) ==
  /\ a2.group = a.group /\ a2.gone = a.gone /\ a2.taken = a.taken /\ a2.latest = a.latest
  /\ a2.first = a.first /\ a2.reqs = a.reqs /\ a2.net = a.net
Follows(a, a2, c) ==
  LET X == {c} \cap Joiners[a.first]
  IN  /\ a.place = "refill" /\ a2.place = IF X = {} THEN "sweep" ELSE "refill"
      /\ a2.group = a.group /\ a2.latest = a.latest /\ a2.first = a.first
      /\ a2.gone = a.gone \cup X /\ a2.reqs = a.reqs \cup X
      /\ a2.net = a.net \cup RowsIn(a.group, X) /\ Top(a.taken, {c}, a2.taken)
Begins(a, a2, c) ==
  /\ a.place = "idle" /\ c \in Reqs /\ c \notin a.gone /\ 1 .. c - 1 \subseteq a.gone
  /\ a2.group = a.group /\ a2.gone = a.gone \cup {c} /\ Top(a.taken, {c}, a2.taken)
  /\ a2.latest = c /\ a.latest < c
  /\ \/ a2.place = "idle" /\ Rowless(a.group, c) /\ a2.net = {}
     \/ a2.place = "train" /\ log[c].op = "train" /\ a2.net = {}
     \/ /\ a2.place = "refill" /\ log[c].op = "rollout" /\ RowsOf(c, a.group) # {}
        /\ a2.first = c /\ a2.reqs = {c} /\ a2.net = RowsOf(c, a.group)

-----------------------------------------------------------------------------
\* A poll that goes on ends with the first header that does not join.
LEMMA PolledAppend ==
  ASSUME NEW J, NEW h \in Seq(0 .. MaxCommands), NEW c \in 0 .. MaxCommands,
         Polled(J, h, FALSE)
  PROVE  Polled(J, Append(h, c), c \notin J)
<1> DEFINE k == Append(h, c)
<1>1. /\ Len(h) \in Nat /\ Len(k) = Len(h) + 1 /\ DOMAIN h = 1 .. Len(h)
      /\ DOMAIN k = 1 .. Len(h) + 1 /\ k[Len(h) + 1] = c /\ k # <<>>
      /\ \A i \in 1 .. Len(h) : k[i] = h[i]
  OBVIOUS
<1> HIDE DEF k
<1>2. ASSUME NEW i \in DOMAIN k PROVE k[i] \in J <=> ~(c \notin J /\ i = Len(k))
  <2>1. CASE i = Len(h) + 1
    BY <1>1, <2>1
  <2>2. CASE i # Len(h) + 1
    <3>1. i \in DOMAIN h /\ k[i] = h[i] /\ i # Len(k)
      BY <1>1, <2>2
    <3> QED BY <3>1 DEF Polled
  <2> QED BY <2>1, <2>2
<1> QED BY <1>1, <1>2 DEF Polled, k

\* What is left of a poll once its first header is followed.
LEMMA PolledTail ==
  ASSUME NEW J, NEW h \in Seq(0 .. MaxCommands), h # <<>>, NEW over \in BOOLEAN,
         Polled(J, h, over)
  PROVE  /\ Head(h) \in J => Polled(J, Tail(h), over)
         /\ Head(h) \notin J => over /\ Tail(h) = <<>>
<1> DEFINE t == Tail(h)
<1>1. /\ Len(h) \in Nat /\ Len(h) > 0 /\ Len(t) = Len(h) - 1 /\ DOMAIN h = 1 .. Len(h)
      /\ DOMAIN t = 1 .. Len(h) - 1 /\ Head(h) = h[1] /\ t \in Seq(0 .. MaxCommands)
      /\ \A i \in 1 .. Len(h) - 1 : t[i] = h[i + 1]
  BY HeadTailProperties, EmptySeq
<1> HIDE DEF t
<1>2. t = <<>> <=> Len(h) = 1
  BY <1>1, EmptySeq
<1>3. h[1] \in J <=> ~(over /\ 1 = Len(h))
  BY <1>1 DEF Polled
<1>4. ASSUME NEW i \in DOMAIN t, Head(h) \in J PROVE t[i] \in J <=> ~(over /\ i = Len(t))
  <2>1. i + 1 \in DOMAIN h /\ t[i] = h[i + 1] /\ (i + 1 = Len(h) <=> i = Len(t))
    BY <1>1
  <2> QED BY <2>1 DEF Polled
<1> QED BY <1>1, <1>2, <1>3, <1>4 DEF Polled, t

\* Largest elements.
LEMMA TopAdd ==
  ASSUME NEW n \in Nat, NEW S \in SUBSET Nat, NEW m \in Nat, NEW T \in SUBSET Nat,
         NEW k \in Nat, Top(n, S, m), Top(m, T, k)
  PROVE  Top(n, S \cup T, k)
<1>1. n <= k /\ \A x \in S \cup T : x <= k
  BY DEF Top
<1>2. k = n \/ k \in S \cup T
  BY DEF Top
<1> QED BY <1>1, <1>2 DEF Top

\* The largest of n, S and T, counted on from the largest of n and T.
LEMMA TopDrop ==
  ASSUME NEW n \in Nat, NEW S \in SUBSET Nat, NEW m \in Nat, NEW T \in SUBSET Nat,
         NEW k \in Nat, Top(n, S \cup T, m), Top(n, T, k)
  PROVE  Top(k, S, m)
<1>1. k <= m /\ \A x \in S : x <= m
  BY DEF Top
<1>2. m = k \/ m \in S
  <2>1. CASE m = n
    BY <1>1, <2>1 DEF Top
  <2>2. CASE m \in T
    BY <1>1, <2>2 DEF Top
  <2>3. CASE m \in S
    BY <2>3
  <2> QED BY <2>1, <2>2, <2>3 DEF Top
<1> QED BY <1>1, <1>2 DEF Top

\* The largest of n and of nothing is n.
LEMMA TopNone ==
  ASSUME NEW n \in Nat, NEW m \in Nat
  PROVE  Top(n, {}, m) <=> m = n
BY DEF Top

\* There is one largest.
LEMMA TopUnique ==
  ASSUME NEW n \in Nat, NEW S \in SUBSET Nat, NEW m \in Nat, NEW k \in Nat,
         Top(n, S, m), Top(n, S, k)
  PROVE  m = k
BY DEF Top

\* A header is a number.
LEMMA HeaderSet ==
  ASSUME NEW h \in Seq(0 .. MaxCommands)
  PROVE  ToSet(h) \subseteq Nat
<1>1. MaxCommands \in Nat
  BY WorkerAssumption
<1> QED BY <1>1, ElementOfSeq DEF ToSet

\* Without headers nothing joins.
LEMMA NothingJoins == \A f : Joining(f, <<>>) = {} /\ ToSet(<<>>) = {}
BY DEF Joining, ToSet

\* A header more at the end joins or does not.
LEMMA JoiningAppend ==
  ASSUME NEW f, NEW h \in Seq(0 .. MaxCommands), NEW c \in 0 .. MaxCommands
  PROVE  /\ Joining(f, Append(h, c)) = Joining(f, h) \cup ({c} \cap Joiners[f])
         /\ ToSet(Append(h, c)) = ToSet(h) \cup {c}
         /\ Append(h, c) \in Seq(0 .. MaxCommands)
<1>0. PICK S : S = 0 .. MaxCommands
  OBVIOUS
<1>1. ToSet(Append(h, c)) = ToSet(h) \cup {c}
  <2>1. h \in Seq(S) /\ c \in S
    BY <1>0
  <2> QED BY <2>1, AppendFacts
<1>2. Append(h, c) \in Seq(0 .. MaxCommands)
  OBVIOUS
<1> QED BY <1>1, <1>2 DEF Joining

\* The first header is followed: it joins or it does not.
LEMMA JoiningTail ==
  ASSUME NEW f, NEW h \in Seq(0 .. MaxCommands), h # <<>>
  PROVE  /\ Joining(f, h) = ({Head(h)} \cap Joiners[f]) \cup Joining(f, Tail(h))
         /\ ToSet(h) = ToSet(Tail(h)) \cup {Head(h)}
         /\ Head(h) \in 0 .. MaxCommands /\ Tail(h) \in Seq(0 .. MaxCommands)
<1>1. ToSet(h) = {Head(h)} \cup ToSet(Tail(h))
  BY TailFacts
<1>2. Head(h) \in 0 .. MaxCommands /\ Tail(h) \in Seq(0 .. MaxCommands)
  BY TailFacts
<1> QED BY <1>1, <1>2 DEF Joining

\* Headers split in two, one more behind or the first one gone.
LEMMA SplitAppend ==
  ASSUME NEW h1 \in Seq(0 .. MaxCommands), NEW h2 \in Seq(0 .. MaxCommands),
         NEW c \in 0 .. MaxCommands
  PROVE  Append(h1 \o h2, c) = h1 \o Append(h2, c)
<1>1. Append(h1 \o h2, c) = (h1 \o h2) \o <<c>>
  BY AppendIsConcat, ConcatProperties
<1>2. Append(h2, c) = h2 \o <<c>>
  BY AppendIsConcat
<1>3. (h1 \o h2) \o <<c>> = h1 \o (h2 \o <<c>>)
  BY ConcatAssociative
<1> QED BY <1>1, <1>2, <1>3

\* Following the first header of a list in two parts shortens the first part.
LEMMA SplitTail ==
  ASSUME NEW S, NEW h1 \in Seq(S), NEW h2 \in Seq(S), h1 # <<>>
  PROVE  Head(h1 \o h2) = Head(h1) /\ Tail(h1 \o h2) = Tail(h1) \o h2
<1> DEFINE u == h1 \o h2  t == Tail(h1)
<1>1. /\ u \in Seq(S) /\ Len(h1) \in Nat /\ Len(h1) > 0 /\ Len(h2) \in Nat
      /\ Len(u) = Len(h1) + Len(h2)
      /\ \A i \in 1 .. Len(u) : u[i] = IF i <= Len(h1) THEN h1[i] ELSE h2[i - Len(h1)]
  BY ConcatProperties, EmptySeq
<1>2. /\ t \in Seq(S) /\ Len(t) = Len(h1) - 1 /\ \A i \in 1 .. Len(t) : t[i] = h1[i + 1]
      /\ Head(h1) = h1[1]
  BY HeadTailProperties
<1>3. u # <<>>
  BY <1>1, EmptySeq
<1>4. /\ Tail(u) \in Seq(S) /\ Len(Tail(u)) = Len(u) - 1 /\ Head(u) = u[1]
      /\ \A i \in 1 .. Len(Tail(u)) : Tail(u)[i] = u[i + 1]
  BY <1>1, <1>3, HeadTailProperties
<1>5. /\ t \o h2 \in Seq(S) /\ Len(t \o h2) = Len(t) + Len(h2)
      /\ \A i \in 1 .. Len(t) + Len(h2) :
           (t \o h2)[i] = IF i <= Len(t) THEN t[i] ELSE h2[i - Len(t)]
  BY <1>2, ConcatProperties
<1> HIDE DEF u, t
<1>6. Head(u) = Head(h1)
  BY <1>1, <1>2, <1>4
<1>7. Len(Tail(u)) = Len(t \o h2)
  BY <1>1, <1>2, <1>4, <1>5
<1>8. ASSUME NEW i \in 1 .. Len(t \o h2) PROVE Tail(u)[i] = (t \o h2)[i]
  BY <1>1, <1>2, <1>4, <1>5
<1>9. Tail(u) = t \o h2
  BY <1>4, <1>5, <1>7, <1>8, SeqEqual
<1> QED BY <1>6, <1>9 DEF u, t

\* An empty part is none.
LEMMA NoSplit ==
  ASSUME NEW S, NEW h \in Seq(S)
  PROVE  h \o <<>> = h /\ <<>> \o h = h
OBVIOUS

\* Rows of commands, put together and taken apart.
LEMMA RowsTogether ==
  ASSUME NEW g, NEW C, NEW D
  PROVE  RowsIn(g, C \cup D) = RowsIn(g, C) \cup RowsIn(g, D)
BY DEF RowsIn

\* No commands have no rows.
LEMMA NoRows == \A g : RowsIn(g, {}) = {}
BY DEF RowsIn

\* The rows of one command.
LEMMA RowsOne ==
  ASSUME log \in [Reqs -> Menu], NEW g \in Groups, NEW c \in Reqs
  PROVE  RowsIn(g, {c}) = RowsOf(c, g)
BY RowsInFacts

\* The leader polls: its siblings have one header more to follow.
LEMMA LeaderFollows ==
  ASSUME NEW a, NEW a2, NEW b, NEW b2, NEW c \in 0 .. MaxCommands,
         Typed(a), Typed(b), Typed(a2), Follows(a, a2, c),
         Kept(b, b2), b2.place = b.place, b2.heads = Append(b.heads, c), Related(a, b)
  PROVE  Related(a2, b2)
<1> DEFINE X == {c} \cap Joiners[a.first]
<1>1. /\ a.place = "refill" /\ a2.place = IF X = {} THEN "sweep" ELSE "refill"
      /\ a2.group = a.group /\ a2.latest = a.latest /\ a2.first = a.first
      /\ a2.gone = a.gone \cup X /\ a2.reqs = a.reqs \cup X
      /\ a2.net = a.net \cup RowsIn(a.group, X) /\ Top(a.taken, {c}, a2.taken)
  BY DEF Follows
<1>2. /\ b2.group = b.group /\ b2.gone = b.gone /\ b2.taken = b.taken
      /\ b2.latest = b.latest /\ b2.first = b.first /\ b2.reqs = b.reqs /\ b2.net = b.net
  BY DEF Kept
<1>3. /\ a.taken \in Nat /\ a2.taken \in Nat /\ b.taken \in Nat /\ {c} \subseteq Nat
      /\ b.heads \in Seq(0 .. MaxCommands) /\ a.group = b.group
      /\ ToSet(b.heads) \subseteq Nat
  BY WorkerAssumption, HeaderSet DEF Typed, Related
<1>4. X = {} <=> c \notin Joiners[a.first]
  OBVIOUS
<1>5. a2.place \in Opened \cup Shut /\ (a2.place \in Shut <=> X = {})
      /\ (a2.place # "refill" <=> X = {}) /\ a2.place \in {"refill", "sweep"}
  BY <1>1 DEF Opened, Shut
<1>6. CASE SameBatch(a, b)
  <2>1. /\ a.first = b.first /\ b.first \in Reqs
        /\ a.reqs = b.reqs \cup Joining(b.first, b.heads)
        /\ a.gone = b.gone \cup Joining(b.first, b.heads)
        /\ Top(b.taken, ToSet(b.heads), a.taken)
        /\ a.net = b.net \cup RowsIn(b.group, Joining(b.first, b.heads))
        /\ b.place \in Opened /\ Polled(Joiners[b.first], b.heads, FALSE)
    <3>1. a.place \notin Shut
      BY <1>1 DEF Shut
    <3>2. b.place \in Opened /\ Polled(Joiners[b.first], b.heads, a.place \in Shut)
      BY <1>6, <3>1 DEF SameBatch
    <3>3. Polled(Joiners[b.first], b.heads, FALSE)
      BY <3>1, <3>2 DEF Polled
    <3> QED BY <1>6, <3>2, <3>3 DEF SameBatch
  <2>2. Joining(b.first, b2.heads) = Joining(b.first, b.heads) \cup X
        /\ ToSet(b2.heads) = ToSet(b.heads) \cup {c}
    BY <1>3, <2>1, JoiningAppend
  <2>3. Polled(Joiners[b.first], b2.heads, c \notin Joiners[b.first])
    <3>1. PICK J, h : J = Joiners[b.first] /\ h = b.heads
      OBVIOUS
    <3>2. Polled(J, Append(h, c), c \notin J)
      BY <1>3, <2>1, <3>1, PolledAppend
    <3> QED BY <3>1, <3>2
  <2>4. Top(b.taken, ToSet(b2.heads), a2.taken)
    BY <1>1, <1>3, <2>1, <2>2, TopAdd
  <2> HIDE DEF X
  <2>5. RowsIn(b.group, Joining(b.first, b2.heads))
          = RowsIn(b.group, Joining(b.first, b.heads)) \cup RowsIn(b.group, X)
    BY <2>2, RowsTogether
  <2>6. a2.net = b2.net \cup RowsIn(b2.group, Joining(b2.first, b2.heads))
    BY <1>1, <1>2, <1>3, <2>1, <2>5
  <2>7. Polled(Joiners[b.first], b2.heads, a2.place \in Shut)
    BY <1>4, <1>5, <2>1, <2>3
  <2>8. SameBatch(a2, b2)
    BY <1>1, <1>2, <1>5, <2>1, <2>2, <2>4, <2>6, <2>7 DEF SameBatch
  <2> QED BY <1>1, <1>2, <1>3, <2>8 DEF Related
<1>7. CASE Behind(a, b)
  <2>1. PICK h1 \in Seq(0 .. MaxCommands), h2 \in Seq(0 .. MaxCommands), D \in SUBSET Reqs :
          BehindBy(a, b, h1, h2, D)
    BY <1>7 DEF Behind
  <2>2. PICK k : k = Append(h2, c)
    OBVIOUS
  <2>3. InBegun(a, h2)
    BY <1>1, <2>1 DEF BehindBy, Begun, InTrain
  <2>4. /\ Joining(a.latest, k) = Joining(a.latest, h2) \cup X
        /\ ToSet(k) = ToSet(h2) \cup {c} /\ k \in Seq(0 .. MaxCommands)
    <3>1. X = {c} \cap Joiners[a.latest]
      BY <2>3 DEF InBegun
    <3>2. PICK f : f = a.latest
      OBVIOUS
    <3>3. /\ Joining(f, k) = Joining(f, h2) \cup ({c} \cap Joiners[f])
          /\ ToSet(k) = ToSet(h2) \cup {c} /\ k \in Seq(0 .. MaxCommands)
      BY <2>2, JoiningAppend
    <3> QED BY <3>1, <3>2, <3>3
  <2>5. Polled(Joiners[a.latest], k, c \notin Joiners[a.latest])
    BY <1>1, <2>2, <2>3, PolledAppend DEF InBegun
  <2>6. b2.heads = h1 \o k
    <3>1. b.heads = h1 \o h2
      BY <2>1 DEF BehindBy
    <3>2. Append(h1 \o h2, c) = h1 \o Append(h2, c)
      BY SplitAppend
    <3> QED BY <2>2, <3>1, <3>2, Zenon
  <2>7. Ending(b2, h1)
    BY <1>2, <2>1 DEF BehindBy, Ending
  <2>8. Top(b.taken, ToSet(h1) \cup ToSet(k) \cup D, a2.taken)
    <3>1. PICK S : S = ToSet(h1) \cup ToSet(h2) \cup D
      OBVIOUS
    <3>2. S \in SUBSET Nat /\ Top(b.taken, S, a.taken)
      BY <2>1, <3>1, HeaderSet, ReqsNat DEF BehindBy
    <3>3. Top(b.taken, S \cup {c}, a2.taken)
      BY <1>1, <1>3, <3>2, TopAdd
    <3>4. S \cup {c} = ToSet(h1) \cup ToSet(k) \cup D
      BY <2>4, <3>1
    <3> QED BY <3>3, <3>4
  <2>9. Gap(a2, b.gone \cup Joining(b.first, h1), D)
    BY <1>1, <1>5, <2>1 DEF BehindBy, Gap
  <2> HIDE DEF X
  <2>10. InBegun(a2, k)
    <3>1. ({a.latest} \cup Joining(a.latest, h2)) \cup X = {a.latest} \cup Joining(a.latest, k)
      BY <2>4
    <3>2. a2.net = RowsIn(a.group, {a.latest} \cup Joining(a.latest, k))
      BY <1>1, <2>3, <3>1, RowsTogether DEF InBegun
    <3>3. a2.reqs = {a.latest} \cup Joining(a.latest, k)
      BY <1>1, <2>3, <3>1 DEF InBegun
    <3>4. Polled(Joiners[a.latest], k, a2.place # "refill")
      BY <1>4, <1>5, <2>3, <2>5 DEF InBegun
    <3> QED BY <1>1, <1>5, <2>3, <3>2, <3>3, <3>4 DEF InBegun
  <2>11. a2.gone = b.gone \cup Joining(b.first, h1) \cup D \cup Joining(a.latest, k)
    BY <1>1, <2>1, <2>4 DEF BehindBy
  <2>12. BehindBy(a2, b2, h1, k, D)
    BY <1>1, <1>2, <2>6, <2>7, <2>8, <2>9, <2>10, <2>11 DEF BehindBy, Begun
  <2> QED BY <1>1, <1>2, <1>3, <2>4, <2>12 DEF Related, Behind
<1>8. ~Ahead(a, b) /\ ~Meeting(a, b)
  BY <1>1 DEF Ahead, AheadBy, Meeting, Shut
<1> QED BY <1>6, <1>7, <1>8 DEF Related

\* A sibling follows its next header.
LEMMA SiblingFollows ==
  ASSUME NEW a, NEW b, NEW b2, NEW c, Typed(a), Typed(b), Typed(b2),
         b.heads # <<>>, c = Head(b.heads), Follows(b, b2, c),
         b2.heads = Tail(b.heads), Related(a, b)
  PROVE  Related(a, b2)
<1> DEFINE X == {c} \cap Joiners[b.first]
<1>1. /\ b.place = "refill" /\ b2.place = IF X = {} THEN "sweep" ELSE "refill"
      /\ b2.group = b.group /\ b2.latest = b.latest /\ b2.first = b.first
      /\ b2.gone = b.gone \cup X /\ b2.reqs = b.reqs \cup X
      /\ b2.net = b.net \cup RowsIn(b.group, X) /\ Top(b.taken, {c}, b2.taken)
  BY DEF Follows
<1>2. /\ a.taken \in Nat /\ b2.taken \in Nat /\ b.taken \in Nat
      /\ b.heads \in Seq(0 .. MaxCommands) /\ a.group = b.group
  BY DEF Typed, Related
<1>3. X = {} <=> c \notin Joiners[b.first]
  OBVIOUS
<1>4. /\ X = {} => b2.place = "sweep" /\ b2.place \in Shut
      /\ X # {} => b2.place = "refill" /\ b2.place \in Opened
  BY <1>1 DEF Opened, Shut
<1>5. b.place \in Opened /\ b.place \notin Shut
  BY <1>1 DEF Opened, Shut
<1>6. CASE SameBatch(a, b)
  <2>1. /\ a.first = b.first /\ b.first \in Reqs
        /\ a.reqs = b.reqs \cup Joining(b.first, b.heads)
        /\ a.gone = b.gone \cup Joining(b.first, b.heads)
        /\ Top(b.taken, ToSet(b.heads), a.taken)
        /\ a.net = b.net \cup RowsIn(b.group, Joining(b.first, b.heads))
        /\ a.place \in Opened \cup Shut /\ Polled(Joiners[b.first], b.heads, a.place \in Shut)
    BY <1>5, <1>6 DEF SameBatch
  <2>2. /\ Joining(b.first, b.heads) = X \cup Joining(b.first, b2.heads)
        /\ ToSet(b.heads) = ToSet(b2.heads) \cup {c}
        /\ c \in Nat /\ b2.heads \in Seq(0 .. MaxCommands)
    <3>1. PICK f, h : f = b.first /\ h = b.heads
      OBVIOUS
    <3>2. /\ Joining(f, h) = ({Head(h)} \cap Joiners[f]) \cup Joining(f, Tail(h))
          /\ ToSet(h) = ToSet(Tail(h)) \cup {Head(h)}
          /\ Head(h) \in 0 .. MaxCommands /\ Tail(h) \in Seq(0 .. MaxCommands)
      BY <1>2, <3>1, JoiningTail
    <3> QED BY <3>1, <3>2, WorkerAssumption
  <2>3. /\ c \in Joiners[b.first] => Polled(Joiners[b.first], b2.heads, a.place \in Shut)
        /\ c \notin Joiners[b.first] => a.place \in Shut /\ b2.heads = <<>>
    <3>1. PICK o \in BOOLEAN : o = (a.place \in Shut)
      <4>1. (a.place \in Shut) \in BOOLEAN
        OBVIOUS
      <4> QED BY <4>1, Zenon
    <3>2. Polled(Joiners[b.first], b.heads, o)
      BY <2>1, <3>1
    <3> QED BY <1>2, <3>1, <3>2, PolledTail
  <2>4. Top(b2.taken, ToSet(b2.heads), a.taken)
    <3>1. ToSet(b2.heads) \in SUBSET Nat /\ {c} \in SUBSET Nat
      BY <2>2, HeaderSet
    <3>2. Top(b.taken, ToSet(b2.heads) \cup {c}, a.taken)
      BY <2>1, <2>2
    <3> QED BY <1>1, <1>2, <3>1, <3>2, TopDrop
  <2> HIDE DEF X
  <2>5. RowsIn(b.group, Joining(b.first, b.heads))
          = RowsIn(b.group, X) \cup RowsIn(b.group, Joining(b.first, b2.heads))
    BY <2>2, RowsTogether
  <2>6. a.net = b2.net \cup RowsIn(b2.group, Joining(b2.first, b2.heads))
    BY <1>1, <2>1, <2>5
  <2>7. /\ a.reqs = b2.reqs \cup Joining(b2.first, b2.heads)
        /\ a.gone = b2.gone \cup Joining(b2.first, b2.heads)
    BY <1>1, <2>1, <2>2
  <2>8. SameBatch(a, b2)
    BY <1>1, <1>3, <1>4, <2>1, <2>3, <2>4, <2>6, <2>7 DEF SameBatch
  <2> QED BY <1>1, <1>2, <2>8 DEF Related
<1>7. CASE Behind(a, b)
  <2>1. PICK h1 \in Seq(0 .. MaxCommands), h2 \in Seq(0 .. MaxCommands), D \in SUBSET Reqs :
          BehindBy(a, b, h1, h2, D)
    BY <1>7 DEF Behind
  <2>2. /\ b.heads = h1 \o h2 /\ b.first \in Reqs /\ b.net = {}
        /\ RowsIn(b.group, Joining(b.first, h1)) = {} /\ Polled(Joiners[b.first], h1, TRUE)
    BY <1>1, <2>1 DEF BehindBy, Ending
  <2>3. h1 # <<>>
    BY <2>2 DEF Polled
  <2>4. PICK k : k = Tail(h1)
    OBVIOUS
  <2>5. c = Head(h1) /\ b2.heads = k \o h2
    BY <2>2, <2>3, <2>4, SplitTail
  <2>6. /\ Joining(b.first, h1) = X \cup Joining(b.first, k)
        /\ ToSet(h1) = ToSet(k) \cup {c} /\ c \in Nat /\ k \in Seq(0 .. MaxCommands)
    BY <2>3, <2>4, <2>5, WorkerAssumption, JoiningTail
  <2>7. /\ c \in Joiners[b.first] => Polled(Joiners[b.first], k, TRUE)
        /\ c \notin Joiners[b.first] => k = <<>>
    BY <2>2, <2>3, <2>4, <2>5, PolledTail
  <2>8. Top(b2.taken, ToSet(k) \cup ToSet(h2) \cup D, a.taken)
    <3>1. PICK S : S = ToSet(k) \cup ToSet(h2) \cup D
      OBVIOUS
    <3>2. S \in SUBSET Nat /\ {c} \in SUBSET Nat
      BY <2>6, <3>1, HeaderSet, ReqsNat
    <3>3. ToSet(h1) \cup ToSet(h2) \cup D = S \cup {c}
      BY <2>6, <3>1
    <3>4. Top(b.taken, S \cup {c}, a.taken)
      BY <2>1, <3>3 DEF BehindBy
    <3> QED BY <1>1, <1>2, <3>1, <3>2, <3>4, TopDrop
  <2> HIDE DEF X
  <2>9. RowsIn(b.group, X) = {} /\ RowsIn(b.group, Joining(b.first, k)) = {}
    <3>1. RowsIn(b.group, Joining(b.first, h1))
            = RowsIn(b.group, X) \cup RowsIn(b.group, Joining(b.first, k))
      BY <2>6, RowsTogether
    <3> QED BY <2>2, <3>1
  <2>10. Ending(b2, k)
    <3>1. b2.net = {}
      BY <1>1, <2>2, <2>9
    <3> QED BY <1>1, <1>3, <1>4, <2>2, <2>7, <2>9, <3>1 DEF Ending
  <2>11. b2.gone \cup Joining(b2.first, k) = b.gone \cup Joining(b.first, h1)
    BY <1>1, <2>6
  <2>12. BehindBy(a, b2, k, h2, D)
    BY <2>1, <2>5, <2>8, <2>10, <2>11 DEF BehindBy
  <2> QED BY <1>1, <1>2, <2>6, <2>12 DEF Related, Behind
<1>8. ~Ahead(a, b) /\ ~Meeting(a, b)
  BY DEF Ahead, AheadBy, Meeting
<1> QED BY <1>6, <1>7, <1>8 DEF Related

\* A rank that has just begun command c.
LEMMA BeginsBegun ==
  ASSUME NEW a, NEW a2, NEW c, Typed(a), Begins(a, a2, c)
  PROVE  Begun(a2, <<>>) /\ a2.place \in {"idle", "train", "refill"}
<1>1. c \in Reqs /\ a2.latest = c /\ a2.group = a.group
  BY DEF Begins
<1>2. ASSUME a2.place = "refill", log[c].op = "rollout", RowsOf(c, a.group) # {},
             a2.first = c, a2.reqs = {c}, a2.net = RowsOf(c, a.group)
      PROVE  InBegun(a2, <<>>)
  <2>1. Joining(c, <<>>) = {} /\ {c} \cup {} = {c}
    BY NothingJoins
  <2>2. RowsIn(a.group, {c}) = RowsOf(c, a.group)
    BY <1>1, RowsOne DEF Typed
  <2>3. Polled(Joiners[c], <<>>, a2.place # "refill")
    BY <1>2 DEF Polled
  <2> QED BY <1>1, <1>2, <2>1, <2>2, <2>3 DEF InBegun
<1> QED BY <1>1, <1>2 DEF Begins, Begun, InTrain

\* The gap of a rank that begins the next command grows by it.
LEMMA GapGrows ==
  ASSUME NEW a, NEW a2, NEW c, NEW G, NEW D, Typed(a), Begins(a, a2, c), Gap(a, G, D),
         G \cup D = a.gone
  PROVE  Gap(a2, G, D \cup {c})
<1>1. /\ a.place = "idle" /\ c \in Reqs /\ c \notin a.gone /\ 1 .. c - 1 \subseteq a.gone
      /\ a2.group = a.group /\ a2.latest = c /\ a.latest < c
      /\ a2.place = "idle" => Rowless(a.group, c)
  BY DEF Begins
<1>2. c \in Nat /\ c > 0 /\ a.latest \in Nat
  BY <1>1, ReqsNat DEF Typed
<1>3. D \cup {c} \in SUBSET Reqs /\ D \subseteq Reqs
  BY <1>1 DEF Gap
<1>4. ASSUME NEW d \in D \cup {c}
      PROVE  /\ d \notin G /\ d <= a2.latest /\ 1 .. d \subseteq G \cup (D \cup {c})
             /\ a2.place = "idle" \/ d # a2.latest => Rowless(a2.group, d)
  <2>1. CASE d = c
    <3>1. ASSUME NEW e \in 1 .. c PROVE e \in G \cup (D \cup {c})
      <4>1. e = c \/ e \in 1 .. c - 1
        BY <1>2
      <4> QED BY <1>1, <4>1
    <3>2. d \notin G /\ d <= a2.latest
      BY <1>1, <1>2, <2>1
    <3>3. 1 .. d \subseteq G \cup (D \cup {c})
      BY <2>1, <3>1
    <3>4. a2.place = "idle" \/ d # a2.latest => Rowless(a2.group, d)
      BY <1>1, <2>1
    <3> QED BY <3>2, <3>3, <3>4
  <2>2. CASE d \in D
    <3>1. d \notin G /\ d <= a.latest /\ 1 .. d \subseteq G \cup D /\ Rowless(a.group, d)
      BY <1>1, <2>2 DEF Gap
    <3>2. d \in Nat /\ d <= c
      BY <1>1, <1>2, <1>3, <2>2, <3>1, ReqsNat
    <3> QED BY <1>1, <3>1, <3>2
  <2> QED BY <2>1, <2>2
<1> QED BY <1>1, <1>3, <1>4 DEF Gap

\* b begins a command that a began before: the first of those a is ahead by.
LEMMA GapFirst ==
  ASSUME NEW a, NEW b, NEW b2, NEW c, NEW D, Typed(a), Typed(b), a.group = b.group,
         Begins(b, b2, c), Gap(a, b.gone, D), D # {}
  PROVE  c \in D /\ \A d \in D : c <= d
<1>1. c \in Reqs /\ c \notin b.gone /\ 1 .. c - 1 \subseteq b.gone
  BY DEF Begins
<1>2. c \in Nat /\ c > 0
  BY <1>1, ReqsNat
<1>3. ASSUME NEW d \in D PROVE c <= d /\ d \in Nat
  <2>1. d \in Reqs /\ d \notin b.gone
    BY DEF Gap
  <2>2. d \in Nat /\ d > 0
    BY <2>1, ReqsNat
  <2>3. d \notin 1 .. c - 1
    BY <1>1, <2>1
  <2> QED BY <1>2, <2>2, <2>3
<1>4. PICK d \in D : TRUE
  OBVIOUS
<1>5. c \in 1 .. d
  BY <1>2, <1>3, <1>4
<1>6. c \in b.gone \cup D
  BY <1>4, <1>5 DEF Gap
<1> QED BY <1>1, <1>3, <1>6

\* ... if it has no rows for the replica, the gap shrinks by it,
LEMMA GapShrinks ==
  ASSUME NEW a, NEW b, NEW b2, NEW c, NEW D, NEW h, Typed(a), Typed(b), a.group = b.group,
         Begins(b, b2, c), Gap(a, b.gone, D), c \in D, Begun(a, h), b2.place = "idle"
  PROVE  Gap(a, b.gone \cup {c}, D \ {c})
<1>1. /\ c \in Reqs /\ Rowless(b.group, c)
  BY DEF Begins
<1>2. a.place # "idle" => a.latest # c
  BY <1>1 DEF Begun, InTrain, InBegun, Rowless
<1>3. \A d \in D : 1 .. d \subseteq (b.gone \cup {c}) \cup (D \ {c})
  BY DEF Gap
<1>4. \A d \in D \ {c} : d \notin b.gone \cup {c}
  BY DEF Gap
<1>5. D \ {c} \subseteq Reqs
  BY DEF Gap
<1> QED BY <1>2, <1>3, <1>4, <1>5 DEF Gap

\* ... else it is the last of the gap.
LEMMA GapLast ==
  ASSUME NEW a, NEW b, NEW b2, NEW c, NEW D, Typed(a), Typed(b), a.group = b.group,
         Begins(b, b2, c), Gap(a, b.gone, D), c \in D, \A d \in D : c <= d,
         b2.place # "idle"
  PROVE  a.place # "idle" /\ a.latest = c /\ D = {c}
<1>1. c \in Reqs /\ ~Rowless(b.group, c)
  BY DEF Begins, Rowless
<1>2. a.place # "idle" /\ c = a.latest
  BY <1>1 DEF Gap
<1>3. ASSUME NEW d \in D PROVE d = c
  <2>1. d <= c /\ c <= d /\ d \in Reqs
    BY <1>2 DEF Gap
  <2>2. d \in Nat /\ c \in Nat
    BY <1>1, <2>1, ReqsNat
  <2> QED BY <2>1, <2>2
<1> QED BY <1>2, <1>3

\* The leader begins a command.
LEMMA LeaderBegins ==
  ASSUME NEW a, NEW a2, NEW b, NEW b2, NEW c, Typed(a), Typed(a2), Typed(b),
         Begins(a, a2, c), b2 = b, Related(a, b)
  PROVE  Related(a2, b2)
<1>1. /\ a.place = "idle" /\ c \in Reqs /\ c \notin a.gone /\ a2.group = a.group
      /\ a2.gone = a.gone \cup {c} /\ Top(a.taken, {c}, a2.taken) /\ a2.latest = c
  BY DEF Begins
<1>2. /\ a.taken \in Nat /\ a2.taken \in Nat /\ b.taken \in Nat /\ a.group = b.group
      /\ b.heads \in Seq(0 .. MaxCommands) /\ {c} \in SUBSET Nat
  BY <1>1, ReqsNat DEF Typed, Related
<1>3. Begun(a2, <<>>) /\ a2.place \in {"idle", "train", "refill"}
  BY BeginsBegun
<1>4. <<>> \in Seq(0 .. MaxCommands)
  BY EmptySeq
<1>5. CASE Behind(a, b)
  <2>1. PICK h1 \in Seq(0 .. MaxCommands), h2 \in Seq(0 .. MaxCommands), D \in SUBSET Reqs :
          BehindBy(a, b, h1, h2, D)
    BY <1>5 DEF Behind
  <2>2. h2 = <<>>
    BY <1>1, <2>1 DEF BehindBy, Begun, InTrain, InBegun
  <2>3. Joining(a.latest, h2) = {} /\ Joining(c, h2) = {} /\ ToSet(h2) = {}
    BY <2>2, NothingJoins
  <2>4. PICK G : G = b.gone \cup Joining(b.first, h1)
    OBVIOUS
  <2>5. G \cup D = a.gone /\ Gap(a, G, D)
    BY <2>1, <2>3, <2>4 DEF BehindBy
  <2>6. Gap(a2, G, D \cup {c})
    BY <2>5, GapGrows
  <2>7. Top(b.taken, ToSet(h1) \cup ToSet(h2) \cup (D \cup {c}), a2.taken)
    <3>1. PICK S : S = ToSet(h1) \cup ToSet(h2) \cup D
      OBVIOUS
    <3>2. S \in SUBSET Nat /\ Top(b.taken, S, a.taken)
      BY <2>1, <3>1, HeaderSet, ReqsNat DEF BehindBy
    <3>3. Top(b.taken, S \cup {c}, a2.taken)
      BY <1>1, <1>2, <3>2, TopAdd
    <3>4. S \cup {c} = ToSet(h1) \cup ToSet(h2) \cup (D \cup {c})
      BY <3>1
    <3> QED BY <3>3, <3>4
  <2>8. a2.gone = G \cup (D \cup {c}) \cup Joining(a2.latest, h2)
    BY <1>1, <2>3, <2>5
  <2>9. Begun(a2, h2)
    BY <1>3, <2>2
  <2>10. BehindBy(a2, b, h1, h2, D \cup {c})
    BY <2>1, <2>4, <2>6, <2>7, <2>8, <2>9 DEF BehindBy
  <2>11. D \cup {c} \in SUBSET Reqs
    BY <1>1
  <2> QED BY <1>1, <1>2, <2>10, <2>11 DEF Related, Behind
<1>6. CASE Ahead(a, b)
  <2>1. PICK D \in SUBSET Reqs : AheadBy(a, b, D)
    BY <1>6 DEF Ahead
  <2>2. /\ b.heads = <<>> /\ a.net = {} /\ Begun(b, <<>>)
        /\ b.place \in {"idle", "train", "refill"} /\ Gap(b, a.gone, D)
        /\ b.gone = a.gone \cup D /\ Top(a.taken, D, b.taken)
    BY <2>1 DEF AheadBy
  <2>3. Joining(b.first, <<>>) = {} /\ Joining(c, <<>>) = {} /\ ToSet(<<>>) = {}
    BY NothingJoins
  <2>4. CASE D = {}
    <3>1. b.place = "idle" /\ b.gone = a.gone /\ b.taken = a.taken
      BY <1>2, <2>2, <2>4, TopNone DEF Gap
    <3>2. Gap(a, a.gone, {})
      BY <1>1 DEF Gap
    <3>3. Gap(a2, a.gone, {c})
      <4>1. a.gone \cup {} = a.gone /\ {} \cup {c} = {c}
        OBVIOUS
      <4>2. Gap(a2, a.gone, {} \cup {c})
        BY <3>2, <4>1, GapGrows
      <4> QED BY <4>1, <4>2
    <3>4. <<>> \o <<>> = <<>>
      BY <1>4, NoSplit
    <3>5. Ending(b, <<>>)
      BY <3>1 DEF Ending
    <3>6. b.gone \cup Joining(b.first, <<>>) = a.gone
      BY <2>3, <3>1
    <3>7. a2.gone = b.gone \cup Joining(b.first, <<>>) \cup {c} \cup Joining(a2.latest, <<>>)
      BY <1>1, <2>3, <3>1
    <3>8. Top(b.taken, ToSet(<<>>) \cup ToSet(<<>>) \cup {c}, a2.taken)
      BY <1>1, <2>3, <3>1
    <3>9. BehindBy(a2, b, <<>>, <<>>, {c})
      BY <1>3, <2>2, <3>3, <3>4, <3>5, <3>6, <3>7, <3>8 DEF BehindBy
    <3>10. {c} \in SUBSET Reqs
      BY <1>1
    <3> QED BY <1>1, <1>2, <1>4, <3>9, <3>10 DEF Related, Behind
  <2>5. CASE D # {}
    <3>1. c \in D /\ \A d \in D : c <= d
      BY <1>2, <2>2, <2>5, GapFirst
    <3>2. CASE a2.place = "idle"
      <4>1. Gap(b, a.gone \cup {c}, D \ {c})
        BY <1>2, <2>2, <3>1, <3>2, GapShrinks
      <4>2. Top(a2.taken, D \ {c}, b.taken)
        <5>1. (D \ {c}) \cup {c} = D /\ D \ {c} \in SUBSET Nat
          BY <3>1, ReqsNat
        <5> QED BY <1>1, <1>2, <2>2, <5>1, TopDrop
      <4>3. b.gone = a2.gone \cup (D \ {c})
        BY <1>1, <2>2, <3>1
      <4>4. a2.net = {}
        BY <3>2 DEF Begins
      <4>5. AheadBy(a2, b, D \ {c})
        BY <1>1, <2>2, <3>2, <4>1, <4>2, <4>3, <4>4 DEF AheadBy
      <4> QED BY <1>1, <1>2, <4>5 DEF Related, Ahead
    <3>3. CASE a2.place # "idle"
      <4>1. b.place # "idle" /\ b.latest = c /\ D = {c}
        BY <1>2, <2>2, <3>1, <3>3, GapLast
      <4>2. b.gone = a2.gone /\ b.taken = a2.taken
        BY <1>1, <1>2, <2>2, <4>1, TopUnique
      <4>3. CASE a2.place = "train"
        <5>1. log[c].op = "train" /\ a2.net = {}
          BY <4>3 DEF Begins
        <5>2. b.place = "train" /\ b.net = {}
          BY <2>2, <4>1, <5>1 DEF Begun, InTrain, InBegun
        <5>3. Meeting(a2, b)
          BY <2>2, <4>2, <4>3, <5>1, <5>2 DEF Meeting
        <5> QED BY <1>1, <1>2, <5>3 DEF Related
      <4>4. CASE a2.place = "refill"
        <5>1. log[c].op = "rollout" /\ a2.first = c /\ a2.reqs = {c}
              /\ a2.net = RowsOf(c, a.group)
          BY <4>4 DEF Begins
        <5>2. InBegun(b, <<>>)
          BY <2>2, <4>1, <5>1 DEF Begun, InTrain
        <5>3. b.place \in Opened /\ a2.place \in Opened /\ a2.place \notin Shut
          BY <2>2, <4>1, <4>4, <5>2 DEF Opened, Shut, InBegun, Begun, InTrain
        <5>4. RowsIn(a.group, {c}) = RowsOf(c, a.group) /\ RowsIn(a.group, {}) = {}
          BY <1>1, RowsOne, NoRows DEF Typed
        <5>5. b.first = c /\ b.reqs = {c} /\ b.net = RowsOf(c, a.group)
          <6>1. {c} \cup Joining(c, <<>>) = {c}
            BY <2>3
          <6>2. b.latest = c /\ b.group = a.group
            BY <1>2, <4>1
          <6>3. b.net = RowsIn(a.group, {c})
            BY <5>2, <6>1, <6>2 DEF InBegun
          <6>4. b.reqs = {c}
            BY <5>2, <6>1, <6>2 DEF InBegun
          <6>5. b.first = c
            BY <5>2, <6>2 DEF InBegun
          <6> QED BY <5>4, <6>3, <6>4, <6>5
        <5>6. Top(b.taken, ToSet(<<>>), a2.taken)
          BY <1>2, <2>3, <4>2 DEF Top
        <5>7. Polled(Joiners[c], <<>>, a2.place \in Shut)
          BY <5>3 DEF Polled
        <5>8. SameBatch(a2, b)
          BY <1>1, <1>2, <2>2, <2>3, <4>2, <5>1, <5>3, <5>4, <5>5, <5>6, <5>7 DEF SameBatch
        <5> QED BY <1>1, <1>2, <5>8 DEF Related
      <4> QED BY <1>3, <3>3, <4>3, <4>4
    <3> QED BY <3>2, <3>3
  <2> QED BY <2>4, <2>5
<1>7. ~SameBatch(a, b) /\ ~Meeting(a, b)
  BY <1>1 DEF SameBatch, Meeting, Opened, Shut
<1> QED BY <1>5, <1>6, <1>7 DEF Related

\* A sibling begins a command.
LEMMA SiblingBegins ==
  ASSUME NEW a, NEW b, NEW b2, NEW c, Typed(a), Typed(b), Typed(b2),
         Begins(b, b2, c), b2.heads = b.heads, Related(a, b)
  PROVE  Related(a, b2)
<1>1. /\ b.place = "idle" /\ c \in Reqs /\ c \notin b.gone /\ b2.group = b.group
      /\ b2.gone = b.gone \cup {c} /\ Top(b.taken, {c}, b2.taken) /\ b2.latest = c
  BY DEF Begins
<1>2. /\ a.taken \in Nat /\ b2.taken \in Nat /\ b.taken \in Nat /\ a.group = b.group
      /\ b.heads \in Seq(0 .. MaxCommands) /\ {c} \in SUBSET Nat
  BY <1>1, ReqsNat DEF Typed, Related
<1>3. Begun(b2, <<>>) /\ b2.place \in {"idle", "train", "refill"}
  BY BeginsBegun
<1>4. <<>> \in Seq(0 .. MaxCommands)
  BY EmptySeq
<1>5. CASE Behind(a, b)
  <2>1. PICK h1 \in Seq(0 .. MaxCommands), h2 \in Seq(0 .. MaxCommands), D \in SUBSET Reqs :
          BehindBy(a, b, h1, h2, D)
    BY <1>5 DEF Behind
  <2>2. h1 = <<>>
    BY <1>1, <2>1 DEF BehindBy, Ending, Opened
  <2>3. /\ Joining(b.first, <<>>) = {} /\ Joining(b2.first, <<>>) = {} /\ ToSet(<<>>) = {}
        /\ <<>> \o h2 = h2
    BY NothingJoins, NoSplit
  <2>4. b.gone \cup Joining(b.first, h1) = b.gone
    BY <2>2, <2>3
  <2>5. /\ b.heads = h2 /\ Begun(a, h2) /\ Gap(a, b.gone, D)
        /\ a.gone = b.gone \cup D \cup Joining(a.latest, h2)
    BY <2>1, <2>2, <2>3, <2>4 DEF BehindBy
  <2>6. Top(b.taken, ToSet(h2) \cup D, a.taken)
    <3>1. ToSet(h1) \cup ToSet(h2) \cup D = ToSet(h2) \cup D
      BY <2>2, <2>3
    <3> QED BY <2>1, <3>1 DEF BehindBy
  <2>7. CASE D = {}
    <3>1. a.place = "idle"
      BY <2>5, <2>7 DEF Gap
    <3>2. h2 = <<>> /\ a.net = {}
      BY <2>5, <3>1 DEF Begun, InTrain, InBegun
    <3>3. Joining(a.latest, h2) = {} /\ ToSet(h2) = {}
      BY <3>2, NothingJoins
    <3>4. a.gone = b.gone
      BY <2>5, <2>7, <3>3
    <3>5. a.taken = b.taken
      BY <1>2, <2>6, <2>7, <3>3, TopNone
    <3>6. Gap(b, b.gone, {})
      BY <1>1 DEF Gap
    <3>7. Gap(b2, a.gone, {c})
      <4>1. b.gone \cup {} = b.gone /\ {} \cup {c} = {c}
        OBVIOUS
      <4>2. Gap(b2, b.gone, {} \cup {c})
        BY <3>6, <4>1, GapGrows
      <4> QED BY <3>4, <4>1, <4>2
    <3>8. Top(a.taken, {c}, b2.taken)
      BY <1>1, <3>5
    <3>9. AheadBy(a, b2, {c})
      BY <1>1, <1>3, <2>5, <3>1, <3>2, <3>4, <3>7, <3>8 DEF AheadBy
    <3>10. {c} \in SUBSET Reqs
      BY <1>1
    <3> QED BY <1>1, <1>2, <3>9, <3>10 DEF Related, Ahead
  <2>8. CASE D # {}
    <3>1. c \in D /\ \A d \in D : c <= d
      BY <1>2, <2>5, <2>8, GapFirst
    <3>2. Top(b2.taken, ToSet(h2) \cup (D \ {c}), a.taken)
      <4>1. PICK S : S = ToSet(h2) \cup (D \ {c})
        OBVIOUS
      <4>2. S \in SUBSET Nat
        BY <4>1, HeaderSet, ReqsNat
      <4>3. ToSet(h2) \cup D = S \cup {c}
        BY <3>1, <4>1
      <4>4. Top(b.taken, S \cup {c}, a.taken)
        BY <2>6, <4>3
      <4> QED BY <1>1, <1>2, <4>1, <4>2, <4>4, TopDrop
    <3>3. CASE b2.place = "idle"
      <4>1. Gap(a, b.gone \cup {c}, D \ {c})
        BY <1>2, <2>5, <3>1, <3>3, GapShrinks
      <4>2. b2.gone \cup Joining(b2.first, <<>>) = b.gone \cup {c}
        BY <1>1, <2>3
      <4>3. a.gone = (b.gone \cup {c}) \cup (D \ {c}) \cup Joining(a.latest, h2)
        BY <2>5, <3>1
      <4>4. Ending(b2, <<>>)
        BY <3>3 DEF Ending
      <4>5. ToSet(<<>>) \cup ToSet(h2) \cup (D \ {c}) = ToSet(h2) \cup (D \ {c})
        BY <2>3
      <4>6. Top(b2.taken, ToSet(<<>>) \cup ToSet(h2) \cup (D \ {c}), a.taken)
        BY <3>2, <4>5
      <4>7. BehindBy(a, b2, <<>>, h2, D \ {c})
        BY <2>3, <2>5, <4>1, <4>2, <4>3, <4>4, <4>6 DEF BehindBy
      <4>8. D \ {c} \in SUBSET Reqs
        OBVIOUS
      <4> QED BY <1>1, <1>2, <1>4, <4>7, <4>8 DEF Related, Behind
    <3>4. CASE b2.place # "idle"
      <4>1. a.place # "idle" /\ a.latest = c /\ D = {c}
        BY <1>2, <2>5, <3>1, <3>4, GapLast
      <4>2. a.gone = b2.gone \cup Joining(c, h2)
        BY <1>1, <2>5, <4>1
      <4>3. Top(b2.taken, ToSet(h2), a.taken)
        <5>1. ToSet(h2) \cup (D \ {c}) = ToSet(h2)
          BY <4>1
        <5> QED BY <3>2, <5>1
      <4>4. CASE b2.place = "train"
        <5>1. log[c].op = "train" /\ b2.net = {}
          BY <4>4 DEF Begins
        <5>2. a.place = "train" /\ a.net = {} /\ h2 = <<>>
          BY <2>5, <4>1, <5>1 DEF Begun, InTrain, InBegun
        <5>3. Joining(c, h2) = {} /\ ToSet(h2) = {}
          BY <5>2, NothingJoins
        <5>4. a.taken = b2.taken /\ a.gone = b2.gone
          BY <1>2, <4>2, <4>3, <5>3, TopNone
        <5>5. Meeting(a, b2)
          BY <2>5, <4>4, <5>1, <5>2, <5>4 DEF Meeting
        <5> QED BY <1>1, <1>2, <5>5 DEF Related
      <4>5. CASE b2.place = "refill"
        <5>1. log[c].op = "rollout" /\ b2.first = c /\ b2.reqs = {c}
              /\ b2.net = RowsOf(c, b.group)
          BY <4>5 DEF Begins
        <5>2. InBegun(a, h2)
          BY <2>5, <4>1, <5>1 DEF Begun, InTrain
        <5>3. b2.place \in Opened /\ a.place \in Opened \cup Shut
              /\ (a.place \in Shut <=> a.place # "refill")
          BY <4>5, <5>2 DEF Opened, Shut, InBegun
        <5>4. RowsIn(b.group, {c}) = RowsOf(c, b.group)
          BY <1>1, RowsOne DEF Typed
        <5>5. RowsIn(b.group, {c} \cup Joining(c, h2))
                = RowsIn(b.group, {c}) \cup RowsIn(b.group, Joining(c, h2))
          BY RowsTogether
        <5>6. a.net = b2.net \cup RowsIn(b2.group, Joining(c, h2))
          BY <1>1, <1>2, <4>1, <5>1, <5>2, <5>4, <5>5 DEF InBegun
        <5>7. a.first = c /\ a.reqs = b2.reqs \cup Joining(c, h2)
          BY <4>1, <5>1, <5>2 DEF InBegun
        <5>8. Polled(Joiners[c], h2, a.place # "refill")
          BY <4>1, <5>2 DEF InBegun
        <5>9. Polled(Joiners[c], h2, a.place \in Shut)
          BY <5>3, <5>8
        <5>10. SameBatch(a, b2)
          BY <1>1, <1>2, <2>5, <4>2, <4>3, <5>1, <5>3, <5>6, <5>7, <5>9 DEF SameBatch
        <5> QED BY <1>1, <1>2, <5>10 DEF Related
      <4> QED BY <1>3, <3>4, <4>4, <4>5
    <3> QED BY <3>3, <3>4
  <2> QED BY <2>7, <2>8
<1>6. CASE Ahead(a, b)
  <2>1. PICK D \in SUBSET Reqs : AheadBy(a, b, D)
    BY <1>6 DEF Ahead
  <2>2. /\ b.heads = <<>> /\ a.net = {} /\ a.place \in Shut \cup {"idle"}
        /\ Gap(b, a.gone, D) /\ b.gone = a.gone \cup D /\ Top(a.taken, D, b.taken)
    BY <2>1 DEF AheadBy
  <2>3. Gap(b2, a.gone, D \cup {c})
    BY <2>2, GapGrows
  <2>4. Top(a.taken, D \cup {c}, b2.taken)
    <3>1. D \in SUBSET Nat
      BY ReqsNat
    <3> QED BY <1>1, <1>2, <2>2, <3>1, TopAdd
  <2>5. b2.gone = a.gone \cup (D \cup {c})
    BY <1>1, <2>2
  <2>6. AheadBy(a, b2, D \cup {c})
    BY <1>3, <2>2, <2>3, <2>4, <2>5 DEF AheadBy
  <2>7. D \cup {c} \in SUBSET Reqs
    BY <1>1
  <2> QED BY <1>1, <1>2, <2>6, <2>7 DEF Related, Ahead
<1>7. ~SameBatch(a, b) /\ ~Meeting(a, b)
  BY <1>1 DEF SameBatch, Meeting, Opened, Shut
<1> QED BY <1>5, <1>6, <1>7 DEF Related

\* A step that changes the leader's place only: a sweep, or a batch goes on.
Turns(a, a2) ==
  /\ Kept(a, a2)
  /\ \/ a.place = "sweep" /\ a2.place = IF a.net = {} THEN "drained" ELSE "step"
     \/ a.place = "post" /\ a2.place = "refill"

\* The leader sweeps its rows, or lets those that ended go.
LEMMA LeaderTurns ==
  ASSUME NEW a, NEW a2, NEW b, Typed(a), Typed(b), Turns(a, a2), Related(a, b)
  PROVE  Related(a2, b)
<1>1. /\ a2.group = a.group /\ a2.gone = a.gone /\ a2.taken = a.taken
      /\ a2.latest = a.latest /\ a2.first = a.first /\ a2.reqs = a.reqs /\ a2.net = a.net
  BY DEF Turns, Kept
<1>2. /\ a.place \in {"sweep", "post"} /\ (a.place = "sweep" => a2.place \in {"drained", "step"})
      /\ (a.place = "post" => a2.place = "refill")
      /\ (a.place = "sweep" /\ a.net # {} => a2.place = "step")
  BY DEF Turns
<1>3. /\ a.group = b.group
      /\ SameBatch(a, b) \/ Behind(a, b) \/ Ahead(a, b) \/ Meeting(a, b)
  BY DEF Related
<1>4. CASE SameBatch(a, b)
  <2>1. a2.place \in Opened \cup Shut /\ (a2.place \in Shut <=> a.place \in Shut)
    BY <1>2 DEF Opened, Shut
  <2>2. SameBatch(a2, b)
    <3>1. CASE a.place \in Shut
      <4>1. Polled(Joiners[b.first], b.heads, a.place \in Shut)
              <=> Polled(Joiners[b.first], b.heads, a2.place \in Shut)
        BY <2>1, <3>1 DEF Polled
      <4> QED BY <1>1, <1>4, <2>1, <3>1, <4>1 DEF SameBatch
    <3>2. CASE a.place \notin Shut
      <4>1. Polled(Joiners[b.first], b.heads, a.place \in Shut)
              <=> Polled(Joiners[b.first], b.heads, a2.place \in Shut)
        BY <2>1, <3>2 DEF Polled
      <4> QED BY <1>1, <1>4, <2>1, <3>2, <4>1 DEF SameBatch
    <3> QED BY <3>1, <3>2
  <2> QED BY <1>1, <1>3, <2>2 DEF Related
<1>5. CASE Behind(a, b)
  <2>1. PICK h1 \in Seq(0 .. MaxCommands), h2 \in Seq(0 .. MaxCommands), D \in SUBSET Reqs :
          BehindBy(a, b, h1, h2, D)
    BY <1>5 DEF Behind
  <2>2. InBegun(a, h2) /\ a.place = "sweep"
    BY <1>2, <2>1 DEF BehindBy, Begun, InTrain, InBegun
  <2>3. a.net # {}
    <3>1. RowsIn(a.group, {a.latest}) # {}
      BY <2>2, RowsOne DEF InBegun, Typed
    <3>2. a.net = RowsIn(a.group, {a.latest}) \cup RowsIn(a.group, Joining(a.latest, h2))
      BY <2>2, RowsTogether DEF InBegun
    <3> QED BY <3>1, <3>2
  <2>4. a2.place = "step"
    BY <1>2, <2>2, <2>3
  <2>5. Polled(Joiners[a.latest], h2, a2.place # "refill")
    <3>1. Polled(Joiners[a.latest], h2, a.place # "refill")
      BY <2>2 DEF InBegun
    <3> QED BY <2>2, <2>4, <3>1 DEF Polled
  <2>6. InBegun(a2, h2)
    BY <1>1, <2>2, <2>4, <2>5 DEF InBegun
  <2>7. Gap(a2, b.gone \cup Joining(b.first, h1), D)
    BY <1>1, <2>1, <2>2, <2>4 DEF BehindBy, Gap
  <2>8. BehindBy(a2, b, h1, h2, D)
    BY <1>1, <2>1, <2>6, <2>7 DEF BehindBy, Begun
  <2> QED BY <1>1, <1>3, <2>8 DEF Related, Behind
<1>6. CASE Ahead(a, b)
  <2>1. PICK D \in SUBSET Reqs : AheadBy(a, b, D)
    BY <1>6 DEF Ahead
  <2>2. a2.place \in Shut
    BY <1>2, <2>1 DEF AheadBy, Shut
  <2>3. AheadBy(a2, b, D)
    BY <1>1, <2>1, <2>2 DEF AheadBy
  <2> QED BY <1>1, <1>3, <2>3 DEF Related, Ahead
<1>7. ~Meeting(a, b)
  BY <1>2 DEF Meeting
<1> QED BY <1>3, <1>4, <1>5, <1>6, <1>7

\* The sibling does so too: it stays in the same batch, or its batch is over.
LEMMA SiblingTurns ==
  ASSUME NEW a, NEW b, NEW b2, Typed(a), Typed(b), Turns(b, b2), b2.heads = b.heads,
         Related(a, b)
  PROVE  Related(a, b2)
<1>1. /\ b2.group = b.group /\ b2.gone = b.gone /\ b2.taken = b.taken
      /\ b2.latest = b.latest /\ b2.first = b.first /\ b2.reqs = b.reqs /\ b2.net = b.net
  BY DEF Turns, Kept
<1>2. /\ b.place \in {"sweep", "post"} /\ (b.place = "sweep" => b2.place \in {"drained", "step"})
      /\ (b.place = "post" => b2.place = "refill")
      /\ (b.place = "sweep" /\ b.net = {} => b2.place = "drained")
  BY DEF Turns
<1>3. /\ a.group = b.group
      /\ SameBatch(a, b) \/ Behind(a, b) \/ Ahead(a, b) \/ Meeting(a, b)
  BY DEF Related
<1>4. CASE SameBatch(a, b)
  <2>1. (b.place \in Opened <=> b2.place \in Opened) /\ (b.place \in Shut <=> b2.place \in Shut)
    BY <1>2 DEF Opened, Shut
  <2>2. SameBatch(a, b2)
    BY <1>1, <1>4, <2>1 DEF SameBatch
  <2> QED BY <1>1, <1>3, <2>2 DEF Related
<1>5. CASE Behind(a, b)
  <2>1. PICK h1 \in Seq(0 .. MaxCommands), h2 \in Seq(0 .. MaxCommands), D \in SUBSET Reqs :
          BehindBy(a, b, h1, h2, D)
    BY <1>5 DEF Behind
  <2>2. Ending(b2, h1)
    BY <1>1, <1>2, <2>1 DEF BehindBy, Ending, Opened
  <2>3. BehindBy(a, b2, h1, h2, D)
    BY <1>1, <2>1, <2>2 DEF BehindBy
  <2> QED BY <1>1, <1>3, <2>3 DEF Related, Behind
<1>6. ~Ahead(a, b) /\ ~Meeting(a, b)
  BY <1>2 DEF Ahead, AheadBy, Meeting
<1> QED BY <1>3, <1>4, <1>5, <1>6

\* A batch is over.
Rests(a, a2) ==
  /\ a.place = "drained" /\ a2.place = "idle" /\ a.net = {} /\ a2.net = {}
  /\ a2.group = a.group /\ a2.gone = a.gone /\ a2.taken = a.taken /\ a2.latest = a.latest

\* The leader leaves its batch: the sibling is behind it from then on.
LEMMA LeaderRests ==
  ASSUME NEW a, NEW a2, NEW b, Typed(a), Typed(a2), Typed(b), Rests(a, a2),
         b.place = "step" => b.net # {}, Related(a, b)
  PROVE  Related(a2, b)
<1>1. /\ a.place = "drained" /\ a2.place = "idle" /\ a.net = {} /\ a2.net = {}
      /\ a2.group = a.group /\ a2.gone = a.gone /\ a2.taken = a.taken /\ a2.latest = a.latest
      /\ a.group = b.group /\ b.heads \in Seq(0 .. MaxCommands)
  BY DEF Rests, Related, Typed
<1>2. CASE SameBatch(a, b)
  <2>1. /\ b.first \in Reqs /\ a.gone = b.gone \cup Joining(b.first, b.heads)
        /\ Top(b.taken, ToSet(b.heads), a.taken) /\ b.net = {}
        /\ RowsIn(b.group, Joining(b.first, b.heads)) = {}
    BY <1>1, <1>2 DEF SameBatch
  <2>2. Joining(a2.latest, <<>>) = {} /\ ToSet(<<>>) = {} /\ b.heads \o <<>> = b.heads
    BY <1>1, NothingJoins, NoSplit
  <2>3. Ending(b, b.heads)
    <3>1. CASE b.place \in Opened
      <4>1. Polled(Joiners[b.first], b.heads, a.place \in Shut)
        BY <1>2, <3>1 DEF SameBatch, Opened, Shut
      <4>2. Polled(Joiners[b.first], b.heads, TRUE)
        BY <1>1, <4>1 DEF Shut, Polled
      <4> QED BY <2>1, <3>1, <4>2 DEF Ending
    <3>2. CASE b.place \in Shut /\ b.heads = <<>>
      BY <2>1, <3>2 DEF Ending, Shut
    <3> QED BY <1>2, <3>1, <3>2 DEF SameBatch
  <2>4. Begun(a2, <<>>)
    BY <1>1 DEF Begun
  <2>5. Gap(a2, b.gone \cup Joining(b.first, b.heads), {})
    BY <1>1 DEF Gap
  <2>6. ToSet(b.heads) \cup ToSet(<<>>) \cup {} = ToSet(b.heads)
    BY <2>2
  <2>7. a2.gone = b.gone \cup Joining(b.first, b.heads) \cup {} \cup Joining(a2.latest, <<>>)
    BY <1>1, <2>1, <2>2
  <2>8. Top(b.taken, ToSet(b.heads) \cup ToSet(<<>>) \cup {}, a2.taken)
    BY <1>1, <2>1, <2>6
  <2>9. BehindBy(a2, b, b.heads, <<>>, {})
    BY <2>2, <2>3, <2>4, <2>5, <2>7, <2>8 DEF BehindBy
  <2>10. <<>> \in Seq(0 .. MaxCommands) /\ {} \in SUBSET Reqs
    BY EmptySeq
  <2> QED BY <1>1, <2>9, <2>10 DEF Related, Behind
<1>3. CASE Ahead(a, b)
  <2>1. PICK D \in SUBSET Reqs : AheadBy(a, b, D)
    BY <1>3 DEF Ahead
  <2>2. AheadBy(a2, b, D)
    BY <1>1, <2>1 DEF AheadBy
  <2> QED BY <1>1, <2>2 DEF Related, Ahead
<1>4. ~Behind(a, b) /\ ~Meeting(a, b)
  BY <1>1 DEF Behind, BehindBy, Begun, InTrain, InBegun, Meeting
<1> QED BY <1>2, <1>3, <1>4 DEF Related

\* The sibling leaves the batch: it catches up, or gets ahead.
LEMMA SiblingRests ==
  ASSUME NEW a, NEW b, NEW b2, Typed(a), Typed(b), Typed(b2), Rests(b, b2),
         b2.heads = b.heads, Related(a, b)
  PROVE  Related(a, b2)
<1>1. /\ b.place = "drained" /\ b2.place = "idle" /\ b.net = {} /\ b2.net = {}
      /\ b2.group = b.group /\ b2.gone = b.gone /\ b2.taken = b.taken /\ b2.latest = b.latest
      /\ a.group = b.group /\ a.taken \in Nat /\ b.taken \in Nat
  BY DEF Rests, Related, Typed
<1>2. \A f : Joining(f, <<>>) = {} /\ ToSet(<<>>) = {}
  BY NothingJoins
<1>3. CASE SameBatch(a, b)
  <2>1. a.place \in Shut /\ b.heads = <<>>
    BY <1>1, <1>3 DEF SameBatch, Opened
  <2>2. Joining(b.first, b.heads) = {} /\ ToSet(b.heads) = {}
    BY <1>2, <2>1
  <2>3. RowsIn(b.group, Joining(b.first, b.heads)) = {}
    BY <2>2, NoRows
  <2>4. a.net = {} /\ a.gone = b.gone
    BY <1>1, <1>3, <2>2, <2>3 DEF SameBatch
  <2>5. Top(b.taken, {}, a.taken)
    BY <1>3, <2>2 DEF SameBatch
  <2>6. a.taken = b.taken
    BY <1>1, <2>5 DEF Top
  <2>7. Gap(b2, a.gone, {}) /\ Begun(b2, <<>>) /\ Top(a.taken, {}, b2.taken)
    BY <1>1, <2>6 DEF Gap, Begun, Top
  <2>8. AheadBy(a, b2, {})
    BY <1>1, <2>1, <2>4, <2>7 DEF AheadBy
  <2>9. {} \in SUBSET Reqs
    OBVIOUS
  <2> QED BY <1>1, <2>8, <2>9 DEF Related, Ahead
<1>4. CASE Behind(a, b)
  <2>1. PICK h1 \in Seq(0 .. MaxCommands), h2 \in Seq(0 .. MaxCommands), D \in SUBSET Reqs :
          BehindBy(a, b, h1, h2, D)
    BY <1>4 DEF Behind
  <2>2. h1 = <<>>
    BY <1>1, <2>1 DEF BehindBy, Ending, Opened
  <2>3. Ending(b2, h1)
    BY <1>1, <2>2 DEF Ending
  <2>4. b2.gone \cup Joining(b2.first, h1) = b.gone \cup Joining(b.first, h1)
    BY <1>1, <1>2, <2>2
  <2>5. BehindBy(a, b2, h1, h2, D)
    BY <1>1, <2>1, <2>3, <2>4 DEF BehindBy
  <2> QED BY <1>1, <2>5 DEF Related, Behind
<1>5. ~Ahead(a, b) /\ ~Meeting(a, b)
  BY <1>1 DEF Ahead, AheadBy, Meeting
<1> QED BY <1>3, <1>4, <1>5 DEF Related

\* A forward of the replica: what goes on is the same for both.
Forwards(a, a2) ==
  /\ a.place = "step" /\ a2.place = "post" /\ a2.group = a.group /\ a2.gone = a.gone
  /\ a2.taken = a.taken /\ a2.latest = a.latest /\ a2.first = a.first /\ a2.reqs = a.reqs

\* A forward, which both take part in, ends the same rows for both.
LEMMA BothForward ==
  ASSUME NEW a, NEW a2, NEW b, NEW b2, Typed(a), Typed(b), Forwards(a, a2), Forwards(b, b2),
         a2.net = b2.net, b2.heads = b.heads, Related(a, b)
  PROVE  Related(a2, b2)
<1>1. /\ a.place = "step" /\ a2.place = "post" /\ a2.group = a.group /\ a2.gone = a.gone
      /\ a2.taken = a.taken /\ a2.latest = a.latest /\ a2.first = a.first /\ a2.reqs = a.reqs
      /\ b.place = "step" /\ b2.place = "post" /\ b2.group = b.group /\ b2.gone = b.gone
      /\ b2.taken = b.taken /\ b2.latest = b.latest /\ b2.first = b.first /\ b2.reqs = b.reqs
      /\ a.group = b.group
  BY DEF Forwards, Related
<1>2. SameBatch(a, b)
  BY <1>1 DEF Related, Behind, BehindBy, Ending, Opened, Ahead, AheadBy, Meeting
<1>3. b.heads = <<>>
  BY <1>1, <1>2 DEF SameBatch, Opened
<1>4. Joining(b.first, b.heads) = {}
  BY <1>3, NothingJoins
<1>5. RowsIn(b.group, Joining(b.first, b.heads)) = {}
  BY <1>4, NoRows
<1>6. Polled(Joiners[b.first], b.heads, a2.place \in Shut)
  BY <1>1, <1>3 DEF Polled, Shut
<1>7. SameBatch(a2, b2)
  BY <1>1, <1>2, <1>3, <1>5, <1>6 DEF SameBatch, Opened
<1> QED BY <1>1, <1>7 DEF Related

\* A train: both go on.
LEMMA BothTrain ==
  ASSUME NEW a, NEW a2, NEW b, NEW b2, Typed(a), Typed(b), Kept(a, a2), Kept(b, b2),
         a.place = "train", b.place = "train", a2.place = "idle", b2.place = "idle",
         b2.heads = b.heads, Related(a, b)
  PROVE  Related(a2, b2)
<1>1. /\ a2.group = a.group /\ a2.gone = a.gone /\ a2.taken = a.taken /\ a2.net = a.net
      /\ b2.group = b.group /\ b2.gone = b.gone /\ b2.taken = b.taken /\ b2.net = b.net
      /\ a.group = b.group /\ b.taken \in Nat
  BY DEF Kept, Related, Typed
<1>2. Meeting(a, b)
  BY DEF Related, SameBatch, Behind, BehindBy, Ending, Opened, Shut, Ahead, AheadBy
<1>3. \A f : Joining(f, <<>>) = {} /\ ToSet(<<>>) = {}
  BY NothingJoins
<1>4. <<>> \in Seq(0 .. MaxCommands) /\ <<>> \o <<>> = <<>> /\ {} \in SUBSET Reqs
  BY EmptySeq, NoSplit
<1>5. Ending(b2, <<>>) /\ Begun(a2, <<>>)
  BY <1>1, <1>2 DEF Ending, Begun, Meeting
<1>6. Gap(a2, b2.gone \cup Joining(b2.first, <<>>), {})
  BY DEF Gap
<1>7. a2.gone = b2.gone \cup Joining(b2.first, <<>>) \cup {} \cup Joining(a2.latest, <<>>)
  BY <1>1, <1>2, <1>3 DEF Meeting
<1>8. Top(b2.taken, ToSet(<<>>) \cup ToSet(<<>>) \cup {}, a2.taken)
  BY <1>1, <1>2, <1>3 DEF Meeting, Top
<1>9. BehindBy(a2, b2, <<>>, <<>>, {})
  BY <1>2, <1>4, <1>5, <1>6, <1>7, <1>8 DEF BehindBy, Meeting
<1> QED BY <1>1, <1>4, <1>9 DEF Related, Behind

-----------------------------------------------------------------------------
\* The relation between two given views does not change with the state.
LEMMA RelatedStays ==
  ASSUME log' = log, NEW a, NEW b, Related(a, b)
  PROVE  Related(a, b)'
<1>1. /\ Joiners' = Joiners /\ GroupRows(b.group)' = GroupRows(b.group)
      /\ GroupRows(a.group)' = GroupRows(a.group)
  BY DEF Joiners, GroupRows, RowsOf
<1>2. \A f, h : Joining(f, h)' = Joining(f, h)
  BY <1>1 DEF Joining
<1>3. /\ \A C : RowsIn(a.group, C)' = RowsIn(a.group, C)
      /\ \A C : RowsIn(b.group, C)' = RowsIn(b.group, C)
  BY <1>1 DEF RowsIn
<1>4. ASSUME NEW x, NEW h, x = a \/ x = b, Begun(x, h) PROVE Begun(x, h)'
  BY <1>1, <1>4 DEF Begun, InTrain, InBegun, Joining, RowsIn, RowsOf
<1>5. ASSUME NEW x, NEW G, NEW D, Gap(x, G, D) PROVE Gap(x, G, D)'
  BY <1>5 DEF Gap, Rowless, RowsOf
<1>6. CASE SameBatch(a, b)
  <2>1. SameBatch(a, b)'
    BY <1>1, <1>6 DEF SameBatch, Joining, RowsIn
  <2> QED BY <2>1 DEF Related
<1>7. CASE Behind(a, b)
  <2>1. PICK h1 \in Seq(0 .. MaxCommands), h2 \in Seq(0 .. MaxCommands), D \in SUBSET Reqs :
          BehindBy(a, b, h1, h2, D)
    BY <1>7 DEF Behind
  <2>2. PICK G : G = b.gone \cup Joining(b.first, h1)
    OBVIOUS
  <2>3. G = (b.gone \cup Joining(b.first, h1))'
    BY <1>1, <2>2 DEF Joining
  <2>4. Ending(b, h1)'
    BY <1>1, <2>1 DEF BehindBy, Ending, Joining, RowsIn
  <2>5. Gap(a, G, D)'
    BY <1>5, <2>1, <2>2 DEF BehindBy
  <2>6. Begun(a, h2)'
    BY <1>4, <2>1 DEF BehindBy
  <2>7. a.gone = G \cup D \cup Joining(a.latest, h2)'
    BY <1>1, <2>1, <2>2 DEF BehindBy, Joining
  <2>8. BehindBy(a, b, h1, h2, D)'
    BY <2>1, <2>3, <2>4, <2>5, <2>6, <2>7 DEF BehindBy
  <2> QED BY <2>8, <1>7 DEF Related, Behind
<1>8. CASE Ahead(a, b)
  <2>1. PICK D \in SUBSET Reqs : AheadBy(a, b, D)
    BY <1>8 DEF Ahead
  <2>2. Begun(b, <<>>)' /\ Gap(b, a.gone, D)'
    BY <1>4, <1>5, <2>1 DEF AheadBy
  <2>3. AheadBy(a, b, D)'
    BY <2>1, <2>2 DEF AheadBy
  <2> QED BY <2>3 DEF Related, Ahead
<1>9. CASE Meeting(a, b)
  <2>1. Meeting(a, b)'
    BY <1>9 DEF Meeting
  <2> QED BY <2>1 DEF Related
<1> QED BY <1>6, <1>7, <1>8, <1>9 DEF Related

\* What a rank shows is typed.
LEMMA ViewTyped ==
  ASSUME Types, NEW r \in Ranks, NEW p
  PROVE  Typed(View(r, p))
<1>1. taken[r] \in 0 .. MaxCommands /\ headers[r] \in Seq(0 .. MaxCommands)
      /\ MaxCommands \in Nat /\ log \in [Reqs -> Menu]
  BY WorkerAssumption DEF Types
<1>2. Gone(r) \subseteq Reqs
  BY <1>1 DEF Gone, Reqs
<1>3. Latest(r) \in Nat /\ GroupOf(r) \in Groups
  BY <1>1, LatestFacts, RankFacts
<1> QED BY <1>1, <1>2, <1>3 DEF Typed, View

\* What a rank shows when it does not move.
LEMMA ViewSame ==
  ASSUME NEW r, NEW p, Steady(r), headers'[r] = headers[r]
  PROVE  View(r, p)' = View(r, p)
<1>1. First(r)' = First(r) /\ Requests(r)' = Requests(r)
  BY DEF Steady, First, Requests
<1> QED BY <1>1 DEF Steady, View

\* What it shows otherwise.
LEMMA ViewKept ==
  ASSUME NEW r, NEW p, NEW p2, Steady(r)
  PROVE  Kept(View(r, p), View(r, p2)')
<1>1. First(r)' = First(r) /\ Requests(r)' = Requests(r)
  BY DEF Steady, First, Requests
<1> QED BY <1>1 DEF Steady, View, Kept

\* Beginning a command, as seen from outside.
LEMMA ViewBegins ==
  ASSUME NEW r, NEW c, NEW p2, p2 = place'[r], Began(r, c)
  PROVE  Begins(View(r, "idle"), View(r, p2)', c)
<1>1. ASSUME batch'[r].reqs = <<c>> PROVE First(r)' = c /\ Requests(r)' = {c}
  BY <1>1 DEF First, Requests, ToSet
<1>2. /\ c \in Reqs /\ c \notin Gone(r) /\ 1 .. c - 1 \subseteq Gone(r)
      /\ Gone(r)' = Gone(r) \cup {c} /\ Top(taken[r], {c}, taken'[r])
      /\ Latest(r)' = c /\ Latest(r) < c
  BY DEF Began
<1>3. \/ p2 = "idle" /\ Rowless(GroupOf(r), c) /\ Net(r)' = {}
      \/ p2 = "train" /\ log[c].op = "train" /\ Net(r)' = {}
      \/ /\ p2 = "refill" /\ log[c].op = "rollout" /\ RowsOf(c, GroupOf(r)) # {}
         /\ First(r)' = c /\ Requests(r)' = {c} /\ Net(r)' = RowsOf(c, GroupOf(r))
  BY <1>1 DEF Began, Entered
<1> QED BY <1>2, <1>3 DEF Begins, View

\* Following a header, as seen from outside.
LEMMA ViewFollows ==
  ASSUME Types, NEW r \in Ranks, RankInv(r), NEW c \in 0 .. MaxCommands,
         NEW p2, p2 = place'[r], Followed(r, c)
  PROVE  Follows(View(r, "refill"), View(r, p2)', c)
<1>1. batch[r].reqs \in Seq(Reqs) /\ batch[r].reqs # <<>> /\ First(r) \in Reqs
  BY FirstFacts DEF Followed, InBatch
<1>2. PICK X : X = {c} \cap Joiners[First(r)]
  OBVIOUS
<1>3. /\ p2 = IF X = {} THEN "sweep" ELSE "refill"
      /\ Gone(r)' = Gone(r) \cup X /\ Latest(r)' = Latest(r)
      /\ IF c = 0 THEN taken'[r] = taken[r] ELSE taken[r] < c /\ taken'[r] = c
      /\ batch'[r].reqs = IF X = {} THEN batch[r].reqs ELSE Append(batch[r].reqs, c)
      /\ Net(r)' = Net(r) \cup RowsIn(GroupOf(r), X)
  BY <1>2 DEF Followed
<1>4. First(r)' = First(r) /\ Requests(r)' = Requests(r) \cup X
  <2>1. CASE X = {}
    BY <1>3, <2>1 DEF First, Requests
  <2>2. CASE X # {}
    <3>1. X = {c} /\ c \in Reqs
      BY <1>1, <1>2, <2>2 DEF Joiners
    <3>2. batch'[r].reqs = Append(batch[r].reqs, c)
      BY <1>3, <2>2
    <3>3. ToSet(Append(batch[r].reqs, c)) = ToSet(batch[r].reqs) \cup {c}
      BY <1>1, <3>1, AppendFacts
    <3>4. Append(batch[r].reqs, c)[1] = batch[r].reqs[1]
      BY <1>1, <3>1, FirstKept
    <3>5. First(r)' = First(r)
      BY <3>2, <3>4 DEF First
    <3>6. Requests(r)' = Requests(r) \cup X
      BY <3>1, <3>2, <3>3 DEF Requests
    <3> QED BY <3>5, <3>6
  <2> QED BY <2>1, <2>2
<1>5. Top(taken[r], {c}, taken'[r])
  <2>1. taken[r] \in Nat /\ c \in Nat
    BY WorkerAssumption DEF Types
  <2> QED BY <1>3, <2>1 DEF Top
<1> QED BY <1>2, <1>3, <1>4, <1>5 DEF View, Follows

-----------------------------------------------------------------------------
\* What a step does to what the ranks show: one rank moves, ...
Still(q) == Steady(q) /\ place'[q] = place[q]
Moved(r) ==
  \/ \E c \in Reqs : Began(r, c) /\ UNCHANGED headers
  \/ /\ IsLeader(r)
     /\ \E c \in 0 .. MaxCommands :
          /\ Followed(r, c)
          /\ \A q \in Ranks : headers'[q] = IF q \in Team(GroupOf(r)) \ {r}
                                           THEN Append(headers[q], c) ELSE headers[q]
  \/ /\ ~IsLeader(r) /\ Followed(r, Head(headers[r])) /\ headers[r] # <<>>
     /\ headers'[r] = Tail(headers[r]) /\ \A q \in Ranks \ {r} : headers'[q] = headers[q]
  \/ /\ Steady(r) /\ place[r] = "sweep" /\ UNCHANGED headers
     /\ place'[r] = IF Net(r) = {} THEN "drained" ELSE "step"
  \/ Steady(r) /\ place[r] = "post" /\ place'[r] = "refill" /\ UNCHANGED headers
  \/ Rested(r) /\ place[r] = "drained" /\ place'[r] = "idle" /\ UNCHANGED headers
  \/ Steady(r) /\ place'[r] = "dead" /\ UNCHANGED headers
MovedAlone(r) == Moved(r) /\ \A q \in Ranks \ {r} : Still(q)

\* ... a replica forwards, ...
Forwarded(g) ==
  /\ UNCHANGED headers
  /\ \A r \in Team(g) :
       /\ r \in Ranks /\ place[r] = "step" /\ place'[r] = "post"
       /\ Gone(r)' = Gone(r) /\ taken'[r] = taken[r] /\ Latest(r)' = Latest(r)
       /\ batch'[r].reqs = batch[r].reqs
  /\ \A r, q \in Team(g) : Net(r)' = Net(q)'
  /\ \A r \in Ranks \ Team(g) : Still(r)

\* ... or all ranks train.
Trained ==
  UNCHANGED headers /\ \A r \in Ranks : Steady(r) /\ place[r] = "train" /\ place'[r] = "idle"

\* No step does anything else, when no rollout carries cancel flags.
LEMMA StepEffects ==
  ASSUME IInv, flagged = {}, Uncancelled, [Next]_vars
  PROVE  /\ log' = log /\ flagged' = {}
         /\ \/ Trained
            \/ \E g \in Groups : Forwarded(g)
            \/ \E r \in Ranks : MovedAlone(r)
            \/ UNCHANGED headers /\ \A r \in Ranks : Still(r)
<1>1. Types /\ \A r \in Ranks : RankInv(r)
  BY DEF IInv
<1>2. ~CancelRow
  BY <1>1, NothingCancelled
<1>3. log' = log /\ flagged' = {}
  BY <1>2 DEF Next, Quiet, vars, queueVars, Train, Forward, Start, LeaderRefill,
              SiblingRefill, Sweep, Post, Finish, Fail
<1>4. CASE UNCHANGED vars
  BY <1>3, <1>4 DEF vars, queueVars, Still, Steady, Gone, Latest, Net
<1>5. CASE Train
  <2>1. UNCHANGED headers
    BY <1>5 DEF Train, queueVars
  <2> QED BY <1>1, <1>3, <1>5, <2>1, TrainEffect DEF Trained
<1>6. ASSUME NEW g \in Groups, Forward(g) PROVE Forwarded(g)
  <2>1. UNCHANGED headers
    BY <1>6 DEF Forward, queueVars
  <2> QED BY <1>1, <1>6, <2>1, ForwardEffect DEF Forwarded, Still
<1>7. ASSUME NEW r \in Ranks, Start(r) PROVE MovedAlone(r)
  <2>1. Began(r, NextCommand(r)) /\ UNCHANGED headers
    BY <1>1, <1>7, BeginEffect DEF Start
  <2>2. NextCommand(r) \in Reqs
    BY <2>1 DEF Began
  <2>3. \A q \in Ranks \ {r} : Still(q)
    BY <1>1, <1>7, StartInv, OthersSteady DEF Still
  <2> QED BY <2>1, <2>2, <2>3 DEF MovedAlone, Moved
<1>8. ASSUME NEW r \in Ranks, LeaderRefill(r) PROVE MovedAlone(r)
  <2>1. \A q \in Ranks \ {r} : Still(q)
    BY <1>1, <1>8, LeaderInv, OthersSteady DEF Still
  <2>2. IsLeader(r)
    BY <1>8 DEF LeaderRefill
  <2> QED BY <1>1, <1>8, <2>1, <2>2, LeaderEffect DEF MovedAlone, Moved
<1>9. ASSUME NEW r \in Ranks, SiblingRefill(r) PROVE MovedAlone(r)
  <2>1. \A q \in Ranks \ {r} : Still(q)
    BY <1>1, <1>9, SiblingInv, OthersSteady DEF Still
  <2>2. ~IsLeader(r)
    BY <1>9 DEF SiblingRefill
  <2> QED BY <1>1, <1>9, <2>1, <2>2, SiblingEffect DEF MovedAlone, Moved
<1>10. ASSUME NEW r \in Ranks, Sweep(r) PROVE MovedAlone(r)
  <2>1. (\A q \in Ranks \ {r} : Still(q)) /\ UNCHANGED headers
    BY <1>1, <1>10, SweepInv, OthersSteady DEF Still, Sweep, queueVars
  <2> QED BY <1>1, <1>10, <2>1, SweepEffect DEF MovedAlone, Moved
<1>11. ASSUME NEW r \in Ranks, Post(r) PROVE MovedAlone(r)
  <2>1. (\A q \in Ranks \ {r} : Still(q)) /\ UNCHANGED headers
    BY <1>1, <1>11, PostInv, OthersSteady DEF Still, Post, queueVars
  <2> QED BY <1>1, <1>11, <2>1, PostEffect DEF MovedAlone, Moved
<1>12. ASSUME NEW r \in Ranks, Finish(r) PROVE MovedAlone(r)
  <2>1. (\A q \in Ranks \ {r} : Still(q)) /\ UNCHANGED headers
    BY <1>1, <1>12, FinishInv, OthersSteady DEF Still, Finish, queueVars
  <2> QED BY <1>1, <1>12, <2>1, FinishEffect DEF MovedAlone, Moved
<1>13. ASSUME NEW r \in Ranks, Fail(r) PROVE MovedAlone(r)
  <2>1. (\A q \in Ranks \ {r} : Still(q)) /\ UNCHANGED headers
    BY <1>1, <1>13, FailInv, OthersSteady DEF Still, Fail, queueVars
  <2> QED BY <1>1, <1>13, <2>1, FailEffect DEF MovedAlone, Moved
<1> QED BY <1>2, <1>3, <1>4, <1>5, <1>6, <1>7, <1>8, <1>9, <1>10, <1>11, <1>12, <1>13
        DEF Next, Quiet

-----------------------------------------------------------------------------
\* A stepping batch has rows to go on with, and its requests joined in order.
WorkInv(r) ==
  /\ place[r] = "step" => Net(r) # {}
  /\ Increasing(batch[r].reqs)

\* The requests of a batch have been read.
LEMMA ReqsTaken ==
  ASSUME Types, NEW r \in Ranks, RankInv(r), Live(r)
  PROVE  Requests(r) \subseteq 1 .. taken[r]
<1>1. Homes(r) /\ batch[r].sent \subseteq Reports(r)
  BY DEF RankInv, BatchInv
<1>2. Requests(r) \subseteq Unsent(batch[r]) \cup batch[r].sent
  BY DEF Requests, Unsent
<1> QED BY <1>1, <1>2 DEF Homes

\* A poll appends what it read after all the requests of the batch.
LEMMA WorkStep ==
  ASSUME IInv, IInv', flagged = {}, Uncancelled, [Next]_vars, NEW r \in Ranks, WorkInv(r)
  PROVE  WorkInv(r)'
<1>1. Types /\ RankInv(r) /\ RankInv(r)' /\ Types'
  BY DEF IInv
<1>2. \A s : s = <<>> => Increasing(s)
  BY DEF Increasing
<1>3. ASSUME Steady(r), place'[r] = "step" => place[r] = "step" \/ Net(r) # {} PROVE WorkInv(r)'
  BY <1>3 DEF Steady, WorkInv, Increasing
<1>4. ASSUME place'[r] \in {"idle", "train"} PROVE WorkInv(r)'
  <2>1. batch'[r].reqs = <<>>
    BY <1>1, <1>4 DEF RankInv, PlaceInv, NoBatch
  <2> QED BY <1>2, <1>4, <2>1 DEF WorkInv, Increasing
<1>5. ASSUME NEW c \in Reqs, Began(r, c) PROVE WorkInv(r)'
  <2>1. CASE place'[r] \in {"idle", "train"}
    BY <1>4, <2>1
  <2>2. CASE place'[r] = "refill" /\ batch'[r].reqs = <<c>>
    BY <2>2 DEF WorkInv, Increasing
  <2> QED BY <1>5, <2>1, <2>2 DEF Began, Entered
<1>6. ASSUME NEW c \in 0 .. MaxCommands, Followed(r, c) PROVE WorkInv(r)'
  <2>1. place'[r] # "step"
    BY <1>6 DEF Followed
  <2>2. CASE batch'[r].reqs = batch[r].reqs
    BY <2>1, <2>2 DEF WorkInv, Increasing
  <2>3. CASE batch'[r].reqs # batch[r].reqs
    <3>1. /\ c \in Joiners[First(r)] /\ batch'[r].reqs = Append(batch[r].reqs, c)
          /\ c # 0 => taken[r] < c
      BY <1>6, <2>3 DEF Followed
    <3>2. place[r] \in InBatch /\ Live(r) /\ First(r) \in Reqs /\ batch[r].reqs \in Seq(Reqs)
      BY <1>1, <1>6, FirstFacts DEF Followed, InBatch, Live
    <3>3. c \in Reqs /\ taken[r] < c /\ c \in Nat
      BY <3>1, <3>2, ReqsNat DEF Joiners
    <3>4. \A x \in Requests(r) : x <= taken[r] /\ x \in Nat /\ taken[r] \in Nat
      <4>1. Requests(r) \subseteq 1 .. taken[r]
        BY <1>1, <3>2, ReqsTaken
      <4> QED BY <1>1, <4>1 DEF Types
    <3>5. \A i \in DOMAIN batch[r].reqs : batch[r].reqs[i] < c
      BY <3>3, <3>4 DEF Requests, ToSet
    <3>6. Increasing(Append(batch[r].reqs, c))
      BY <3>2, <3>3, <3>5, IncreasingAppend DEF WorkInv
    <3> QED BY <2>1, <3>1, <3>6 DEF WorkInv, Increasing
  <2> QED BY <2>2, <2>3
<1>7. CASE Trained
  BY <1>3, <1>7 DEF Trained
<1>8. ASSUME NEW g \in Groups, Forwarded(g) PROVE WorkInv(r)'
  <2>1. CASE r \in Team(g)
    BY <1>8, <2>1 DEF Forwarded, WorkInv, Increasing
  <2>2. CASE r \notin Team(g)
    BY <1>3, <1>8, <2>2 DEF Forwarded, Still, WorkInv
  <2> QED BY <2>1, <2>2
<1>9. ASSUME Still(r) PROVE WorkInv(r)'
  BY <1>3, <1>9 DEF Still, WorkInv
<1>10. ASSUME Moved(r) PROVE WorkInv(r)'
  <2>1. CASE \E c \in Reqs : Began(r, c)
    BY <1>5, <2>1
  <2>2. CASE \E c \in 0 .. MaxCommands : Followed(r, c)
    BY <1>6, <2>2
  <2>3. CASE Followed(r, Head(headers[r])) /\ headers[r] # <<>>
    <3>1. headers[r] \in Seq(0 .. MaxCommands)
      BY <1>1 DEF Types
    <3>2. Head(headers[r]) \in 0 .. MaxCommands
      BY <2>3, <3>1, TailFacts
    <3> QED BY <1>6, <2>3, <3>2
  <2>4. CASE Steady(r) /\ (place'[r] = "step" => Net(r) # {})
    BY <1>3, <2>4
  <2>5. CASE place'[r] = "idle"
    BY <1>4, <2>5
  <2> QED BY <1>10, <2>1, <2>2, <2>3, <2>4, <2>5 DEF Moved
<1> QED BY <1>7, <1>8, <1>9, <1>10, StepEffects DEF MovedAlone

-----------------------------------------------------------------------------
\* A live sibling is related to its leader where the leader is, or, when the
\* leader raised, to where it was.
TeamInv ==
  \A l, q \in Ranks :
    /\ IsLeader(l) /\ ~IsLeader(q) /\ GroupOf(l) = GroupOf(q) /\ Live(q)
    => \E p : (Live(l) => p = place[l]) /\ Related(View(l, p), View(q, place[q]))

\* One leader per replica, and the siblings are the team's others.
LEMMA TeamFacts ==
  ASSUME NEW l \in Ranks, NEW q \in Ranks, IsLeader(l), ~IsLeader(q), GroupOf(l) = GroupOf(q)
  PROVE  /\ l # q /\ l \in Team(GroupOf(l)) /\ q \in Team(GroupOf(l)) /\ GroupOf(l) \in Groups
         /\ \A r \in Ranks :
              IsLeader(r) /\ (q \in Team(GroupOf(r)) \/ l \in Team(GroupOf(r))) => r = l
<1>1. ASSUME NEW r \in Ranks, IsLeader(r), q \in Team(GroupOf(r)) \/ l \in Team(GroupOf(r))
      PROVE  r = l
  <2>1. GroupOf(r) = GroupOf(l)
    BY <1>1 DEF Team
  <2> QED BY <1>1, <2>1 DEF Ranks, IsLeader, GroupOf
<1> QED BY <1>1, RankFacts DEF Team

\* The latest command is a number, before and after a step.
LEMMA LatestTyped == Types => \A r \in Ranks : Latest(r) \in Nat
BY LatestFacts, WorkerAssumption

\* The same after a step.
LEMMA LatestTypedNext == Types' => (\A r \in Ranks : Latest(r) \in Nat)'
BY LatestTyped, PTL

\* What a rank shows after a step is typed.
LEMMA ViewTypedNext ==
  ASSUME Types', log' = log, NEW r \in Ranks, NEW p
  PROVE  Typed(View(r, p)')
<1>1. Latest(r)' \in Nat
  BY LatestTypedNext
<1>2. taken'[r] \in 0 .. MaxCommands /\ headers'[r] \in Seq(0 .. MaxCommands)
      /\ MaxCommands \in Nat /\ log \in [Reqs -> Menu]
  BY WorkerAssumption DEF Types
<1>3. Gone(r)' \subseteq Reqs
  BY <1>2 DEF Gone, Reqs
<1>4. Latest(r)' \in Nat /\ GroupOf(r) \in Groups
  BY <1>1, RankFacts
<1> QED BY <1>2, <1>3, <1>4 DEF Typed, View

\* A step related to the views before it.
LEMMA TeamAfter ==
  ASSUME log' = log, NEW l \in Ranks, NEW q \in Ranks, NEW p, NEW s, s = place'[q],
         Live(l)' => p = place'[l], Related(View(l, p)', View(q, s)')
  PROVE  \E n : (Live(l)' => n = place'[l]) /\ Related(View(l, n), View(q, place[q]))'
<1>1. PICK a, b : a = View(l, p)' /\ b = View(q, s)'
  OBVIOUS
<1>2. Related(a, b)'
  BY <1>1, RelatedStays
<1>3. b = View(q, place[q])'
  BY <1>1 DEF View
<1>4. Related(View(l, p), View(q, place[q]))'
  BY <1>1, <1>2, <1>3
<1> QED BY <1>4

\* The step of the leader, of the sibling, and of both.
LEMMA LeaderMoves ==
  ASSUME Types, Types', log' = log, NEW l \in Ranks, NEW q \in Ranks, RankInv(l),
         IsLeader(l), ~IsLeader(q), GroupOf(l) = GroupOf(q),
         place[q] = "step" => Net(q) # {}, MovedAlone(l), NEW p, Live(l) => p = place[l],
         NEW s, s = place[q], NEW p2, p2 = place'[l], Related(View(l, p), View(q, s))
  PROVE  \E n : (Live(l)' => n = place'[l]) /\ Related(View(l, n)', View(q, s)')
<1>1. l # q /\ q \in Team(GroupOf(l)) \ {l}
  BY TeamFacts
<1>2. Steady(q)
  BY <1>1 DEF MovedAlone, Still
<1>3. headers'[q] = headers[q] => View(q, s)' = View(q, s)
  BY <1>2, ViewSame
<1>4. /\ Typed(View(l, p)) /\ Typed(View(q, s)) /\ Typed(View(l, p2)') /\ Typed(View(q, s)')
  BY ViewTyped, ViewTypedNext
<1>5. PICK a, a2, b, b2 :
        a = View(l, p) /\ a2 = View(l, p2)' /\ b = View(q, s) /\ b2 = View(q, s)'
  OBVIOUS
<1>6. /\ Typed(a) /\ Typed(a2) /\ Typed(b) /\ Typed(b2) /\ Related(a, b)
      /\ b.place = s /\ b2.place = s /\ b.heads = headers[q] /\ b2.heads = headers'[q]
      /\ a.place = p /\ a2.place = p2 /\ b.net = Net(q) /\ a.net = Net(l)
  BY <1>4, <1>5 DEF View
<1>7. ASSUME Related(a2, b2)
      PROVE  \E n : (Live(l)' => n = place'[l]) /\ Related(View(l, n)', View(q, s)')
  BY <1>5, <1>7
<1>8. ASSUME NEW c \in Reqs, Began(l, c), UNCHANGED headers PROVE Related(a2, b2)
  <2>1. p = "idle"
    BY <1>8 DEF Began, Live
  <2>2. Begins(a, a2, c)
    BY <1>5, <1>8, <2>1, ViewBegins
  <2>3. b2 = b
    BY <1>3, <1>5, <1>8
  <2> QED BY <1>6, <2>2, <2>3, LeaderBegins
<1>9. ASSUME NEW c \in 0 .. MaxCommands, Followed(l, c), headers'[q] = Append(headers[q], c)
      PROVE  Related(a2, b2)
  <2>1. p = "refill"
    BY <1>9 DEF Followed, Live
  <2>2. Follows(a, a2, c)
    BY <1>5, <1>9, <2>1, ViewFollows
  <2>3. Kept(b, b2)
    BY <1>2, <1>5, ViewKept
  <2> QED BY <1>6, <1>9, <2>2, <2>3, LeaderFollows
<1>10. ASSUME Steady(l), UNCHANGED headers,
              \/ place[l] = "sweep" /\ p2 = IF Net(l) = {} THEN "drained" ELSE "step"
              \/ place[l] = "post" /\ p2 = "refill"
       PROVE  Related(a2, b2)
  <2>1. p = place[l]
    BY <1>10 DEF Live
  <2>2. Kept(a, a2)
    BY <1>5, <1>10, ViewKept
  <2>3. Turns(a, a2)
    BY <1>6, <1>10, <2>1, <2>2 DEF Turns
  <2>4. b2 = b
    BY <1>3, <1>5, <1>10
  <2> QED BY <1>6, <2>3, <2>4, LeaderTurns
<1>11. ASSUME Rested(l), place[l] = "drained", p2 = "idle", UNCHANGED headers
       PROVE  Related(a2, b2)
  <2>1. p = place[l]
    BY <1>11 DEF Live
  <2>2. Rests(a, a2)
    BY <1>5, <1>11, <2>1 DEF Rests, Rested, View
  <2>3. b2 = b
    BY <1>3, <1>5, <1>11
  <2> QED BY <1>6, <2>2, <2>3, LeaderRests
<1>12. ASSUME Steady(l), place'[l] = "dead", UNCHANGED headers
       PROVE  \E n : (Live(l)' => n = place'[l]) /\ Related(View(l, n)', View(q, s)')
  <2>1. View(l, p)' = View(l, p) /\ View(q, s)' = View(q, s)
    BY <1>3, <1>12, ViewSame
  <2> QED BY <1>12, <2>1 DEF Live
<1>13. \/ \E c \in Reqs : Began(l, c) /\ UNCHANGED headers
       \/ \E c \in 0 .. MaxCommands : Followed(l, c) /\ headers'[q] = Append(headers[q], c)
       \/ /\ Steady(l) /\ UNCHANGED headers
          /\ \/ place[l] = "sweep" /\ p2 = IF Net(l) = {} THEN "drained" ELSE "step"
             \/ place[l] = "post" /\ p2 = "refill"
       \/ Rested(l) /\ place[l] = "drained" /\ p2 = "idle" /\ UNCHANGED headers
       \/ Steady(l) /\ place'[l] = "dead" /\ UNCHANGED headers
  BY <1>1 DEF MovedAlone, Moved
<1> QED BY <1>7, <1>8, <1>9, <1>10, <1>11, <1>12, <1>13

\* A step of the sibling; one that fails has nothing left to keep.
LEMMA SiblingMoves ==
  ASSUME Types, Types', log' = log, NEW l \in Ranks, NEW q \in Ranks, RankInv(q),
         IsLeader(l), ~IsLeader(q), GroupOf(l) = GroupOf(q), MovedAlone(q), Live(q)',
         NEW p, NEW s, s = place[q], NEW s2, s2 = place'[q], Related(View(l, p), View(q, s))
  PROVE  Related(View(l, p)', View(q, s2)')
<1>1. l # q
  BY TeamFacts
<1>2. Steady(l) /\ headers'[l] = headers[l]
  BY <1>1 DEF MovedAlone, Moved, Still
<1>3. /\ Typed(View(l, p)) /\ Typed(View(q, s)) /\ Typed(View(q, s2)')
  BY ViewTyped, ViewTypedNext
<1>4. PICK a, b, b2 : a = View(l, p) /\ b = View(q, s) /\ b2 = View(q, s2)'
  OBVIOUS
<1>5. a = View(l, p)'
  BY <1>2, <1>4, ViewSame
<1>6. /\ Typed(a) /\ Typed(b) /\ Typed(b2) /\ Related(a, b)
      /\ b.place = s /\ b2.place = s2 /\ b.heads = headers[q] /\ b2.heads = headers'[q]
      /\ b.net = Net(q)
  BY <1>3, <1>4 DEF View
<1>7. ASSUME NEW c \in Reqs, Began(q, c), UNCHANGED headers PROVE Related(a, b2)
  <2>1. Begins(b, b2, c)
    <3>1. s = "idle"
      BY <1>7 DEF Began
    <3> QED BY <1>4, <1>7, <3>1, ViewBegins
  <2> QED BY <1>6, <1>7, <2>1, SiblingBegins
<1>8. ASSUME Followed(q, Head(headers[q])), headers[q] # <<>>, headers'[q] = Tail(headers[q])
      PROVE  Related(a, b2)
  <2>1. PICK c : c = Head(headers[q])
    OBVIOUS
  <2>2. c \in 0 .. MaxCommands
    <3>1. headers[q] \in Seq(0 .. MaxCommands)
      BY DEF Types
    <3> QED BY <1>8, <2>1, <3>1, TailFacts
  <2>3. Follows(b, b2, c)
    <3>1. s = "refill" /\ Followed(q, c)
      BY <1>8, <2>1 DEF Followed
    <3> QED BY <1>4, <2>2, <3>1, ViewFollows
  <2> QED BY <1>6, <1>8, <2>1, <2>3, SiblingFollows
<1>9. ASSUME Steady(q), UNCHANGED headers,
             \/ s = "sweep" /\ s2 = IF Net(q) = {} THEN "drained" ELSE "step"
             \/ s = "post" /\ s2 = "refill"
      PROVE  Related(a, b2)
  <2>1. Kept(b, b2)
    BY <1>4, <1>9, ViewKept
  <2>2. Turns(b, b2)
    BY <1>6, <1>9, <2>1 DEF Turns
  <2> QED BY <1>6, <1>9, <2>2, SiblingTurns
<1>10. ASSUME Rested(q), s = "drained", s2 = "idle", UNCHANGED headers
       PROVE  Related(a, b2)
  <2>1. Rests(b, b2)
    BY <1>4, <1>10 DEF Rests, Rested, View
  <2> QED BY <1>6, <1>10, <2>1, SiblingRests
<1>11. place'[q] # "dead"
  BY DEF Live
<1> QED BY <1>4, <1>5, <1>7, <1>8, <1>9, <1>10, <1>11 DEF MovedAlone, Moved

\* A collective moves both.
LEMMA BothMove ==
  ASSUME Types, log' = log, NEW l \in Ranks, NEW q \in Ranks,
         IsLeader(l), ~IsLeader(q), GroupOf(l) = GroupOf(q),
         NEW p, Live(l) => p = place[l], NEW s, s = place[q],
         NEW p2, p2 = place'[l], NEW s2, s2 = place'[q], Related(View(l, p), View(q, s)),
         Trained \/ Forwarded(GroupOf(l))
  PROVE  Related(View(l, p2)', View(q, s2)')
<1>1. /\ Typed(View(l, p)) /\ Typed(View(q, s))
  BY ViewTyped
<1>2. PICK a, a2, b, b2 :
        a = View(l, p) /\ a2 = View(l, p2)' /\ b = View(q, s) /\ b2 = View(q, s2)'
  OBVIOUS
<1>3. /\ Typed(a) /\ Typed(b) /\ Related(a, b)
      /\ b.place = s /\ b2.place = s2 /\ b.heads = headers[q] /\ b2.heads = headers'[q]
      /\ a.place = p /\ a2.place = p2
  BY <1>1, <1>2 DEF View
<1>4. CASE Trained
  <2>1. /\ p = "train" /\ s = "train" /\ p2 = "idle" /\ s2 = "idle" /\ Steady(l) /\ Steady(q)
        /\ UNCHANGED headers
    BY <1>4 DEF Trained, Live
  <2>2. Kept(a, a2) /\ Kept(b, b2)
    BY <1>2, <2>1, ViewKept
  <2>3. Related(a2, b2)
    BY <1>3, <2>1, <2>2, BothTrain
  <2> QED BY <1>2, <2>3
<1>5. CASE Forwarded(GroupOf(l))
  <2>1. l \in Team(GroupOf(l)) /\ q \in Team(GroupOf(l))
    BY TeamFacts
  <2>2. /\ p = "step" /\ s = "step" /\ p2 = "post" /\ s2 = "post" /\ UNCHANGED headers
        /\ Net(l)' = Net(q)'
    BY <1>5, <2>1 DEF Forwarded, Live
  <2>3. ASSUME NEW r \in Team(GroupOf(l)) PROVE Forwards(View(r, "step"), View(r, "post")')
    <3>1. First(r)' = First(r) /\ Requests(r)' = Requests(r)
      BY <1>5 DEF Forwarded, First, Requests
    <3> QED BY <1>5, <3>1 DEF Forwarded, Forwards, View
  <2>4. Forwards(a, a2) /\ Forwards(b, b2) /\ a2.net = b2.net
    BY <1>2, <2>1, <2>2, <2>3 DEF View
  <2>5. Related(a2, b2)
    BY <1>3, <2>2, <2>4, BothForward
  <2> QED BY <1>2, <2>5
<1> QED BY <1>4, <1>5

\* Every step keeps a live sibling related to its leader.
LEMMA TeamStep ==
  ASSUME IInv, IInv', TeamInv, \A r \in Ranks : WorkInv(r), flagged = {}, Uncancelled,
         [Next]_vars
  PROVE  TeamInv'
<1>1. /\ Types /\ Types' /\ log' = log
      /\ \A r \in Ranks : RankInv(r)
  BY StepEffects DEF IInv
<1> SUFFICES ASSUME NEW l \in Ranks, NEW q \in Ranks, IsLeader(l), ~IsLeader(q),
                    GroupOf(l) = GroupOf(q), Live(q)'
             PROVE  \E n : (Live(l)' => n = place'[l]) /\ Related(View(l, n), View(q, place[q]))'
  BY DEF TeamInv
<1>2. /\ l # q /\ l \in Team(GroupOf(l)) /\ q \in Team(GroupOf(l)) /\ GroupOf(l) \in Groups
      /\ \A r \in Ranks : IsLeader(r) /\ (q \in Team(GroupOf(r)) \/ l \in Team(GroupOf(r))) => r = l
  BY TeamFacts
<1>3. \/ Trained \/ \E g \in Groups : Forwarded(g)
      \/ \E r \in Ranks : MovedAlone(r)
      \/ UNCHANGED headers /\ \A r \in Ranks : Still(r)
  BY StepEffects
<1>4. Live(q)
  <2>1. place'[q] # "dead"
    BY DEF Live
  <2>2. CASE \E g \in Groups : Forwarded(g)
    BY <2>1, <2>2 DEF Forwarded, Still, Live
  <2>3. CASE \E r \in Ranks : MovedAlone(r)
    BY <2>1, <2>3 DEF MovedAlone, Moved, Began, Followed, Still, Live
  <2> QED BY <1>3, <2>1, <2>2, <2>3 DEF Trained, Still, Live
<1>5. PICK p : (Live(l) => p = place[l]) /\ Related(View(l, p), View(q, place[q]))
  BY <1>4 DEF TeamInv
<1>6. PICK s, s2, p2 : s = place[q] /\ s2 = place'[q] /\ p2 = place'[l]
  OBVIOUS
<1>7. Related(View(l, p), View(q, s))
  BY <1>5, <1>6
<1>8. ASSUME Still(l), Still(q), headers'[l] = headers[l], headers'[q] = headers[q]
      PROVE  \E n : (Live(l)' => n = place'[l]) /\ Related(View(l, n), View(q, place[q]))'
  <2>1. View(l, p)' = View(l, p) /\ View(q, s)' = View(q, s)
    BY <1>8, ViewSame DEF Still
  <2>2. Live(l)' => p = place'[l]
    BY <1>5, <1>8 DEF Live, Still
  <2>3. s = place'[q] /\ Related(View(l, p)', View(q, s)')
    BY <1>6, <1>7, <1>8, <2>1 DEF Still
  <2> QED BY <1>1, <2>2, <2>3, TeamAfter
<1>9. CASE Trained \/ Forwarded(GroupOf(l))
  <2>1. Related(View(l, p2)', View(q, s2)')
    BY <1>1, <1>5, <1>6, <1>7, <1>9, BothMove
  <2> QED BY <1>1, <1>6, <2>1, TeamAfter
<1>10. ASSUME NEW g \in Groups, Forwarded(g), g # GroupOf(l)
       PROVE  \E n : (Live(l)' => n = place'[l]) /\ Related(View(l, n), View(q, place[q]))'
  <2>1. l \notin Team(g) /\ q \notin Team(g)
    BY <1>10 DEF Team
  <2> QED BY <1>8, <1>10, <2>1 DEF Forwarded
<1>11. CASE MovedAlone(l)
  <2>1. place[q] = "step" => Net(q) # {}
    BY DEF WorkInv
  <2>2. PICK n : (Live(l)' => n = place'[l]) /\ Related(View(l, n)', View(q, s)')
    BY <1>1, <1>5, <1>6, <1>7, <1>11, <2>1, LeaderMoves
  <2>3. s = place'[q]
    BY <1>2, <1>6, <1>11 DEF MovedAlone, Still
  <2> QED BY <1>1, <2>2, <2>3, TeamAfter
<1>12. CASE MovedAlone(q)
  <2>1. Related(View(l, p)', View(q, s2)')
    BY <1>1, <1>6, <1>7, <1>12, SiblingMoves
  <2>2. Live(l)' => p = place'[l]
    BY <1>2, <1>5, <1>12 DEF MovedAlone, Still, Live
  <2> QED BY <1>1, <1>6, <2>1, <2>2, TeamAfter
<1>13. ASSUME NEW r \in Ranks, MovedAlone(r), r # l, r # q
       PROVE  \E n : (Live(l)' => n = place'[l]) /\ Related(View(l, n), View(q, place[q]))'
  <2>1. headers'[l] = headers[l] /\ headers'[q] = headers[q]
    BY <1>2, <1>13 DEF MovedAlone, Moved
  <2> QED BY <1>8, <1>13, <2>1 DEF MovedAlone
<1> QED BY <1>3, <1>8, <1>9, <1>10, <1>11, <1>12, <1>13

\* A finite set of numbers has a least element: of the sets of members below a
\* member, ordered by inclusion, one is minimal.
LEMMA LeastNat ==
  ASSUME NEW S \in SUBSET Nat, IsFiniteSet(S), S # {}
  PROVE  \E n \in S : \A m \in S : n <= m
<1> DEFINE Under(x) == {y \in S : y < x}
           T == {Under(x) : x \in S}
<1> S \subseteq Nat
  OBVIOUS
<1>1. T \subseteq FiniteSubsetsOf(S) /\ T # {}
  <2>1. ASSUME NEW x \in S
        PROVE  Under(x) \in FiniteSubsetsOf(S)
    <3>1. Under(x) \in SUBSET S
      OBVIOUS
    <3>2. IsFiniteSet(Under(x))
      BY <3>1, FS_Subset
    <3> QED BY <3>1, <3>2 DEF FiniteSubsetsOf
  <2> QED BY <2>1
<1>2. PICK B \in T : \A C \in T : ~(<<C, B>> \in StrictSubsetOrdering(S))
  BY <1>1, FS_StrictSubsetOrderingWellFounded, WFMin
<1>3. PICK x \in S : B = Under(x)
  OBVIOUS
<1>4. ASSUME NEW y \in S, y < x
      PROVE  FALSE
  <2>1. Under(y) \subseteq Under(x) /\ y \in Under(x) /\ y \notin Under(y)
    <3>1. \A z \in S : z < y => z < x
      BY <1>4
    <3>2. ~(y < y)
      OBVIOUS
    <3> QED BY <3>1, <3>2, <1>4
  <2>2. Under(y) \in SUBSET S /\ Under(x) \in SUBSET S /\ Under(y) # Under(x)
    BY <2>1
  <2>3. <<Under(y), Under(x)>> \in StrictSubsetOrdering(S)
    BY <2>1, <2>2 DEF StrictSubsetOrdering
  <2> QED BY <2>3, <1>2, <1>3
<1>5. \A y \in S : x <= y
  BY <1>4
<1> QED BY <1>5

\* Two increasing lists of the same numbers are one: take the least place they
\* differ at.
LEMMA IncreasingAgree ==
  ASSUME NEW s \in Seq(Reqs), NEW t \in Seq(Reqs), Increasing(s), Increasing(t),
         ToSet(s) = ToSet(t), NEW i \in DOMAIN s, i \in DOMAIN t,
         \A j \in DOMAIN s : j < i => s[j] = t[j]
  PROVE  t[i] <= s[i]
<1>1. /\ i \in Nat /\ s[i] \in Reqs /\ t[i] \in Reqs
  BY ElementOfSeq
<1>2. s[i] \in Nat /\ t[i] \in Nat
  BY <1>1, ReqsNat
<1>3. PICK j \in DOMAIN t : t[j] = s[i]
  BY DEF ToSet
<1>4. j \in Nat /\ Len(s) \in Nat /\ DOMAIN s = 1 .. Len(s)
  OBVIOUS
<1>5. CASE j < i
  <2>1. j \in DOMAIN s /\ s[j] = s[i]
    BY <1>1, <1>3, <1>4, <1>5
  <2>2. s[j] < s[i]
    BY <1>5, <2>1 DEF Increasing
  <2> QED BY <1>2, <2>1, <2>2
<1>6. CASE i <= j
  <2>1. i < j => t[i] < t[j]
    BY DEF Increasing
  <2> QED BY <1>1, <1>2, <1>3, <1>4, <1>6, <2>1
<1> QED BY <1>1, <1>4, <1>5, <1>6

\* So an increasing list is known by its members.
LEMMA IncreasingUnique ==
  ASSUME NEW s \in Seq(Reqs), NEW t \in Seq(Reqs), Increasing(s), Increasing(t),
         ToSet(s) = ToSet(t)
  PROVE  s = t
<1>1. /\ Len(s) \in Nat /\ DOMAIN s = 1 .. Len(s) /\ Len(t) \in Nat /\ DOMAIN t = 1 .. Len(t)
  OBVIOUS
<1>2. \A i \in DOMAIN s \cap DOMAIN t : s[i] = t[i]
  <2> SUFFICES ASSUME NEW k \in DOMAIN s \cap DOMAIN t, s[k] # t[k] PROVE FALSE
    OBVIOUS
  <2> DEFINE D == {i \in DOMAIN s \cap DOMAIN t : s[i] # t[i]}
  <2>1. D \in SUBSET Nat /\ D # {} /\ IsFiniteSet(D)
    <3>1. D \subseteq 1 .. Len(s) /\ IsFiniteSet(1 .. Len(s))
      BY <1>1, FS_Interval
    <3>2. IsFiniteSet(D)
      BY <3>1, FS_Subset
    <3> QED BY <1>1, <3>1, <3>2
  <2>2. PICK i \in D : \A j \in D : i <= j
    <3> HIDE DEF D
    <3> QED BY <2>1, LeastNat
  <2>3. i \in DOMAIN s /\ i \in DOMAIN t /\ s[i] # t[i] /\ i \in Nat
    BY <2>1, <2>2
  <2>4. /\ \A j \in DOMAIN s : j < i => s[j] = t[j]
        /\ \A j \in DOMAIN t : j < i => t[j] = s[j]
    BY <1>1, <2>2, <2>3
  <2>5. t[i] <= s[i]
    BY <2>3, <2>4, IncreasingAgree
  <2>6. s[i] <= t[i]
    BY <2>3, <2>4, IncreasingAgree
  <2>7. s[i] \in Nat /\ t[i] \in Nat
    <3>1. s[i] \in Reqs /\ t[i] \in Reqs
      BY <2>3, ElementOfSeq
    <3> QED BY <3>1, ReqsNat
  <2> QED BY <2>3, <2>5, <2>6, <2>7
<1>3. ASSUME NEW u \in Seq(Reqs), NEW v \in Seq(Reqs), Increasing(v), ToSet(u) = ToSet(v),
             \A i \in DOMAIN u \cap DOMAIN v : u[i] = v[i]
      PROVE  Len(v) <= Len(u)
  <2>1. /\ Len(u) \in Nat /\ DOMAIN u = 1 .. Len(u) /\ Len(v) \in Nat /\ DOMAIN v = 1 .. Len(v)
    OBVIOUS
  <2> SUFFICES ASSUME Len(u) < Len(v) PROVE FALSE
    BY <2>1
  <2>2. PICK n : n = Len(u) + 1
    OBVIOUS
  <2>3. n \in DOMAIN v
    BY <2>1, <2>2
  <2>4. PICK k \in DOMAIN u : u[k] = v[n]
    BY <1>3, <2>3 DEF ToSet
  <2>5. k \in DOMAIN v /\ k < n /\ v[k] = v[n]
    BY <1>3, <2>1, <2>2, <2>4
  <2>6. v[k] < v[n]
    BY <1>3, <2>3, <2>5 DEF Increasing
  <2>7. v[n] \in Nat
    <3>1. v[n] \in Reqs
      BY <2>3, ElementOfSeq
    <3> QED BY <3>1, ReqsNat
  <2> QED BY <2>5, <2>6, <2>7
<1>4. Len(s) = Len(t)
  <2>1. Len(t) <= Len(s)
    BY <1>2, <1>3
  <2>2. Len(s) <= Len(t)
    <3>1. \A i \in DOMAIN t \cap DOMAIN s : t[i] = s[i]
      BY <1>2
    <3> QED BY <1>3, <3>1
  <2>3. \A m, n \in Nat : m <= n /\ n <= m => m = n
    OBVIOUS
  <2>4. Len(s) \in Nat /\ Len(t) \in Nat
    BY <1>1
  <2> QED BY <2>1, <2>2, <2>3, <2>4
<1> QED BY <1>1, <1>2, <1>4, SeqEqual

-----------------------------------------------------------------------------
\* What two ranks of a replica have in common when both step.
LEMMA StepAlike ==
  ASSUME Types, NEW l \in Ranks, NEW q \in Ranks, IsLeader(l), ~IsLeader(q),
         GroupOf(l) = GroupOf(q), place[q] = "step", TeamInv
  PROVE  /\ Requests(l) = Requests(q) /\ Gone(l) = Gone(q) /\ taken[l] = taken[q]
         /\ Net(l) = Net(q)
<1>1. PICK p : Related(View(l, p), View(q, place[q]))
  BY DEF TeamInv, Live
<1>2. PICK a, b : a = View(l, p) /\ b = View(q, place[q])
  OBVIOUS
<1>3. Related(a, b) /\ b.place = "step" /\ a.taken = taken[l] /\ b.taken = taken[q]
      /\ a.reqs = Requests(l) /\ b.reqs = Requests(q) /\ a.gone = Gone(l) /\ b.gone = Gone(q)
      /\ a.net = Net(l) /\ b.net = Net(q)
  BY <1>1, <1>2 DEF View
<1>4. SameBatch(a, b)
  BY <1>3 DEF Related, Behind, BehindBy, Ending, Opened, Ahead, AheadBy, Meeting
<1>5. b.heads = <<>>
  BY <1>3, <1>4 DEF SameBatch, Opened
<1>6. Joining(b.first, b.heads) = {} /\ ToSet(b.heads) = {}
  BY <1>5, NothingJoins
<1>7. RowsIn(b.group, Joining(b.first, b.heads)) = {}
  BY <1>6, NoRows
<1>8. Top(taken[q], {}, taken[l]) /\ taken[q] \in Nat /\ taken[l] \in Nat
  BY <1>3, <1>4, <1>6, WorkerAssumption DEF SameBatch, Types
<1> QED BY <1>3, <1>4, <1>6, <1>7, <1>8 DEF SameBatch, Top

\* Two ranks of a replica that are about to forward share their leader's work.
LEMMA TeamMatch ==
  ASSUME IInv, TeamInv, \A x \in Ranks : WorkInv(x), NEW r \in Ranks, NEW q \in Ranks,
         GroupOf(r) = GroupOf(q), place[r] = "step", place[q] = "step"
  PROVE  /\ batch[r].reqs = batch[q].reqs /\ batch[r].open = batch[q].open
         /\ taken[r] = taken[q] /\ deferred[r] = deferred[q]
<1>1. Types /\ \A x \in Ranks : RankInv(x)
  BY DEF IInv
<1>2. PICK l \in Ranks : IsLeader(l) /\ GroupOf(l) = GroupOf(r)
  <2>1. <<r[1], 0>> \in Ranks
    BY WorkerAssumption DEF Ranks
  <2>2. IsLeader(<<r[1], 0>>) /\ GroupOf(<<r[1], 0>>) = GroupOf(r)
    BY DEF IsLeader, GroupOf
  <2> QED BY <2>1, <2>2
<1>3. ASSUME NEW x \in Ranks, GroupOf(x) = GroupOf(l), place[x] = "step"
      PROVE  /\ Requests(l) = Requests(x) /\ Gone(l) = Gone(x) /\ taken[l] = taken[x]
             /\ Net(l) = Net(x)
  <2>1. CASE IsLeader(x)
    <3>1. x = l
      BY <1>2, <1>3, <2>1 DEF Ranks, IsLeader, GroupOf
    <3> QED BY <3>1
  <2>2. CASE ~IsLeader(x)
    BY <1>1, <1>2, <1>3, <2>2, StepAlike
  <2> QED BY <2>1, <2>2
<1>4. /\ Requests(r) = Requests(q) /\ Gone(r) = Gone(q) /\ taken[r] = taken[q]
      /\ Net(r) = Net(q)
  BY <1>2, <1>3
<1>5. batch[r].open = batch[q].open
  <2>1. outcome[r] = {} /\ outcome[q] = {}
    BY <1>1 DEF RankInv, PlaceInv
  <2> QED BY <1>4, <2>1 DEF Net
<1>6. batch[r].reqs = batch[q].reqs
  <2>1. batch[r].reqs \in Seq(Reqs) /\ batch[q].reqs \in Seq(Reqs)
    BY <1>1 DEF Types, Batches
  <2> QED BY <1>4, <2>1, IncreasingUnique DEF Requests, WorkInv
<1>7. deferred[r] = deferred[q]
  <2>1. ASSUME NEW x \in Ranks
        PROVE  /\ deferred[x] \in Seq(Reqs) /\ Increasing(deferred[x])
               /\ ToSet(deferred[x]) = (1 .. taken[x]) \ Gone(x)
    <3>1. deferred[x] \in Seq(Reqs) /\ taken[x] \in Nat
      BY <1>1, WorkerAssumption DEF Types
    <3>2. ASSUME NEW i \in DOMAIN deferred[x] PROVE deferred[x][i] \in 1 .. taken[x]
      <4>1. deferred[x][i] \in Reqs /\ deferred[x][i] <= taken[x]
        BY <1>1, <3>1, ElementOfSeq DEF RankInv, OrderInv
      <4> QED BY <3>1, <4>1, ReqsNat
    <3>3. ToSet(deferred[x]) \subseteq 1 .. taken[x]
      BY <3>2 DEF ToSet
    <3> QED BY <1>1, <3>1, <3>3 DEF RankInv, OrderInv, Gone
  <2> QED BY <1>4, <2>1, IncreasingUnique
<1> QED BY <1>4, <1>5, <1>6, <1>7

-----------------------------------------------------------------------------
\* All ranks have been through the same trains: with or without cancellations,
\* polls and joins decide when a rank begins one, and never which.

\* The trains a rank has been through.
Trains(r) == {c \in Gone(r) : log[c].op = "train"} \ Training(r)

TrainsInv ==
  /\ \A r \in Ranks : place[r] = "train" => log[Latest(r)].op = "train"
  /\ \A r, q \in Ranks : Live(r) /\ Live(q) => Trains(r) = Trains(q)

\* What a step does to the trains of a rank that does not fail.
Quietly(r) ==
  /\ Gone(r)' = Gone(r) /\ Latest(r)' = Latest(r)
  /\ place'[r] = "train" <=> place[r] = "train"
Advanced(r) ==
  Live(r)' => /\ Live(r)
              /\ \/ Quietly(r) \/ \E c \in Reqs : Began(r, c)
                 \/ \E c \in 0 .. MaxCommands : Followed(r, c)

\* Nothing a rank shows of its trains changes with its batch.
LEMMA QuietEffect ==
  ASSUME NEW r \in Ranks, UNCHANGED <<taken, deferred, started>>,
         place'[r] = place[r] \/ (place[r] \in InBatch /\ place'[r] \in InBatch \cup {"idle"})
  PROVE  Advanced(r)
<1>1. Gone(r)' = Gone(r) /\ Latest(r)' = Latest(r)
  BY DEF Gone, Latest
<1> QED BY <1>1 DEF Advanced, Quietly, Live, InBatch

\* A rank advances, or another does; in a train all do.
LEMMA AdvanceStep ==
  ASSUME IInv, [Next]_vars
  PROVE  log' = log /\ (Trained \/ \A r \in Ranks : Advanced(r))
<1>1. /\ Types /\ \A r \in Ranks : RankInv(r)
      /\ place \in [Ranks -> InBatch \cup {"idle", "train", "dead"}]
  BY DEF IInv, Types
<1>2. log' = log
  BY DEF CancelRow, Next, Quiet, vars, queueVars, Train, Forward, Start, LeaderRefill,
         SiblingRefill, Sweep, Post, Finish, Fail
<1>3. CASE UNCHANGED vars
  BY <1>3, QuietEffect DEF vars, queueVars
<1>4. CASE CancelRow
  BY <1>4, QuietEffect DEF CancelRow
<1>5. CASE Train
  <2>1. UNCHANGED headers
    BY <1>5 DEF Train, queueVars
  <2>2. Types
    BY <1>1
  <2>3. \A r \in Ranks : Steady(r) /\ place[r] = "train" /\ place'[r] = "idle"
    BY <1>5, <2>2, TrainEffect
  <2> QED BY <1>2, <2>1, <2>3 DEF Trained
<1>6. ASSUME NEW g \in Groups, Forward(g), NEW r \in Ranks PROVE Advanced(r)
  <2>1. UNCHANGED <<taken, deferred, started>>
    BY <1>6 DEF Forward, queueVars
  <2>2. place'[r] = place[r] \/ (place[r] = "step" /\ place'[r] = "post")
    BY <1>6 DEF Forward
  <2> QED BY <2>1, <2>2, QuietEffect DEF InBatch
\* The others of a step of r are still.
<1>7. ASSUME NEW r \in Ranks, Others(r), NEW q \in Ranks \ {r} PROVE Advanced(q)
  <2>1. Steady(q) /\ place'[q] = place[q]
    BY <1>7, OthersSteady
  <2> QED BY <2>1 DEF Advanced, Quietly, Steady, Live
<1>8. ASSUME NEW r \in Ranks, Others(r), Advanced(r) PROVE \A q \in Ranks : Advanced(q)
  BY <1>7, <1>8
<1>9. ASSUME NEW r \in Ranks, Start(r) PROVE \A q \in Ranks : Advanced(q)
  <2>1. Began(r, NextCommand(r))
    BY <1>1, <1>9, BeginEffect
  <2>2. NextCommand(r) \in Reqs /\ Live(r)
    BY <2>1 DEF Began, Live
  <2>3. Others(r)
    BY <1>1, <1>9, StartInv
  <2> QED BY <1>8, <2>1, <2>2, <2>3 DEF Advanced
<1>10. ASSUME NEW r \in Ranks, LeaderRefill(r) PROVE \A q \in Ranks : Advanced(q)
  <2>1. Others(r)
    BY <1>1, <1>10, LeaderInv
  <2>2. \E c \in 0 .. MaxCommands : Followed(r, c)
    BY <1>1, <1>10, LeaderEffect
  <2> QED BY <1>8, <2>1, <2>2 DEF Advanced, Followed, Live
<1>11. ASSUME NEW r \in Ranks, SiblingRefill(r) PROVE \A q \in Ranks : Advanced(q)
  <2>1. Others(r)
    BY <1>1, <1>11, SiblingInv
  <2>2. Followed(r, Head(headers[r])) /\ headers[r] # <<>>
    BY <1>1, <1>11, SiblingEffect
  <2>3. headers[r] \in Seq(0 .. MaxCommands)
    BY <1>1 DEF Types
  <2>4. Head(headers[r]) \in 0 .. MaxCommands
    BY <2>2, <2>3, TailFacts
  <2> QED BY <1>8, <2>1, <2>2, <2>4 DEF Advanced, Followed, Live
<1>12. ASSUME NEW r \in Ranks, Sweep(r) PROVE \A q \in Ranks : Advanced(q)
  <2>1. Others(r)
    BY <1>1, <1>12, SweepInv
  <2>2. UNCHANGED <<taken, deferred, started>> /\ place[r] = "sweep"
        /\ place'[r] \in {"drained", "step"}
    BY <1>1, <1>12 DEF Sweep, queueVars
  <2> QED BY <1>8, <2>1, <2>2, QuietEffect DEF InBatch
<1>13. ASSUME NEW r \in Ranks, Post(r) PROVE \A q \in Ranks : Advanced(q)
  <2>1. Others(r)
    BY <1>1, <1>13, PostInv
  <2>2. UNCHANGED <<taken, deferred, started>> /\ place[r] = "post" /\ place'[r] = "refill"
    BY <1>1, <1>13 DEF Post, queueVars
  <2> QED BY <1>8, <2>1, <2>2, QuietEffect DEF InBatch
<1>14. ASSUME NEW r \in Ranks, Finish(r) PROVE \A q \in Ranks : Advanced(q)
  <2>1. Others(r)
    BY <1>1, <1>14, FinishInv
  <2>2. UNCHANGED <<taken, deferred, started>> /\ place[r] = "drained" /\ place'[r] = "idle"
    BY <1>1, <1>14 DEF Finish, queueVars
  <2> QED BY <1>8, <2>1, <2>2, QuietEffect DEF InBatch
<1>15. ASSUME NEW r \in Ranks, Fail(r) PROVE \A q \in Ranks : Advanced(q)
  <2>1. Others(r)
    BY <1>1, <1>15, FailInv
  <2>2. place'[r] = "dead"
    BY <1>1, <1>15 DEF Fail
  <2> QED BY <1>8, <2>1, <2>2 DEF Advanced, Live
<1> QED BY <1>2, <1>3, <1>4, <1>5, <1>6, <1>9, <1>10, <1>11, <1>12, <1>13, <1>14, <1>15
        DEF Next, Quiet

-----------------------------------------------------------------------------
\* The train a rank is at is the last command it began; it has dealt with that
\* command and all before it.
LEMMA AtTrain ==
  ASSUME Types, NEW r \in Ranks, RankInv(r)
  PROVE  /\ Training(r) = IF place[r] = "train" THEN {Latest(r)} ELSE {}
         /\ place[r] = "train" => Latest(r) \in Nat /\ 1 .. Latest(r) \subseteq Gone(r)
                                  /\ Latest(r) \in Gone(r)
<1>1. place[r] = "train" => started[r] # <<>>
  BY DEF RankInv, PlaceInv
<1>2. Training(r) = IF place[r] = "train" THEN {Latest(r)} ELSE {}
  BY <1>1, LatestFacts DEF Training
<1>3. ASSUME place[r] = "train"
      PROVE  Latest(r) \in Nat /\ 1 .. Latest(r) \subseteq Gone(r) /\ Latest(r) \in Gone(r)
  <2>1. PICK i \in DOMAIN started[r] : Latest(r) = started[r][i]
    BY <1>1, <1>3, LatestFacts
  <2>2. started[r] \in Seq(Reqs) /\ taken[r] \in Nat /\ deferred[r] \in Seq(Reqs)
    BY WorkerAssumption DEF Types
  <2>3. Latest(r) \in Reqs
    BY <2>1, <2>2, ElementOfSeq
  <2>4. Latest(r) \in Nat /\ Latest(r) > 0
    BY <2>3, ReqsNat
  <2>5. Latest(r) <= taken[r] /\ \A j \in DOMAIN deferred[r] : Latest(r) < deferred[r][j]
    BY <2>1 DEF RankInv, OrderInv
  <2>6. \A j \in DOMAIN deferred[r] : deferred[r][j] \in Nat
    <3>1. \A j \in DOMAIN deferred[r] : deferred[r][j] \in Reqs
      BY <2>2, ElementOfSeq
    <3> QED BY <3>1, ReqsNat
  <2>7. \A c \in 1 .. Latest(r) : c \in 1 .. taken[r] /\ c \notin ToSet(deferred[r])
    BY <2>2, <2>4, <2>5, <2>6 DEF ToSet
  <2> QED BY <2>4, <2>7 DEF Gone
<1> QED BY <1>2, <1>3

\* The same after a step.
LEMMA AtTrainNext ==
  (Types /\ \A r \in Ranks : RankInv(r))'
    => (\A r \in Ranks : Training(r) = IF place[r] = "train" THEN {Latest(r)} ELSE {})'
<1>1. Types /\ (\A r \in Ranks : RankInv(r))
        => \A r \in Ranks : Training(r) = IF place[r] = "train" THEN {Latest(r)} ELSE {}
  BY AtTrain
<1> QED BY <1>1, PTL

\* Two ranks at a train are at one: the earlier one would have been passed.
LEMMA SameTrain ==
  ASSUME Types, TrainsInv, NEW r \in Ranks, NEW q \in Ranks, RankInv(r), RankInv(q),
         place[r] = "train", place[q] = "train"
  PROVE  Latest(r) = Latest(q)
<1>1. ASSUME NEW x \in Ranks, NEW y \in Ranks, RankInv(x), RankInv(y), place[x] = "train",
             place[y] = "train", Latest(x) < Latest(y)
      PROVE  FALSE
  <2>1. /\ Training(x) = {Latest(x)} /\ Latest(x) \in Nat /\ Latest(x) \in Gone(x)
        /\ Training(y) = {Latest(y)} /\ Latest(y) \in Nat /\ 1 .. Latest(y) \subseteq Gone(y)
    BY <1>1, AtTrain
  <2>2. Gone(x) \subseteq Nat \ {0}
    BY DEF Gone
  <2>3. Latest(x) \in Gone(y) /\ Latest(x) # Latest(y)
    BY <1>1, <2>1, <2>2
  <2>4. log[Latest(x)].op = "train" /\ Trains(x) = Trains(y)
    BY <1>1 DEF TrainsInv, Live
  <2> QED BY <2>1, <2>3, <2>4 DEF Trains
<1>2. Latest(r) \in Nat /\ Latest(q) \in Nat
  BY AtTrain
<1>3. ~(Latest(r) < Latest(q)) /\ ~(Latest(q) < Latest(r))
  BY <1>1
<1> QED BY <1>2, <1>3

\* A rank that advances stays with its trains, ...
LEMMA TrainsKept ==
  ASSUME IInv, IInv', log' = log, NEW r \in Ranks, Advanced(r), Live(r)',
         place[r] = "train" => log[Latest(r)].op = "train"
  PROVE  /\ Live(r) /\ Trains(r)' = Trains(r)
         /\ place'[r] = "train" => log'[Latest(r)'].op = "train"
<1>1. /\ Training(r) = IF place[r] = "train" THEN {Latest(r)} ELSE {}
      /\ Training(r)' = IF place'[r] = "train" THEN {Latest(r)'} ELSE {}
  BY AtTrain, AtTrainNext DEF IInv
<1>2. Live(r)
  BY DEF Advanced
<1>3. CASE Quietly(r)
  <2>1. Training(r)' = Training(r)
    BY <1>1, <1>3 DEF Quietly
  <2> QED BY <1>2, <1>3, <2>1 DEF Quietly, Trains
<1>4. ASSUME NEW c \in Reqs, Began(r, c)
      PROVE  /\ Trains(r)' = Trains(r)
             /\ place'[r] = "train" => log'[Latest(r)'].op = "train"
  <2>1. /\ place[r] = "idle" /\ c \notin Gone(r) /\ Gone(r)' = Gone(r) \cup {c}
        /\ Latest(r)' = c /\ Entered(r, c)
    BY <1>4 DEF Began
  <2>2. Training(r) = {}
    BY <1>1, <2>1
  <2>3. CASE place'[r] = "train"
    <3>1. log[c].op = "train" /\ Training(r)' = {c}
      BY <1>1, <2>1, <2>3 DEF Entered
    <3> QED BY <2>1, <2>2, <3>1 DEF Trains
  <2>4. CASE place'[r] # "train"
    <3>1. log[c].op = "rollout" /\ Training(r)' = {}
      BY <1>1, <2>1, <2>4 DEF Entered, Rowless
    <3> QED BY <2>1, <2>2, <2>4, <3>1 DEF Trains
  <2> QED BY <2>3, <2>4
<1>5. ASSUME NEW c \in 0 .. MaxCommands, Followed(r, c)
      PROVE  Trains(r)' = Trains(r) /\ place'[r] # "train"
  <2>1. PICK J : J = {c} \cap Joiners[First(r)]
    OBVIOUS
  <2>2. /\ place[r] = "refill" /\ place'[r] # "train" /\ Gone(r)' = Gone(r) \cup J
    BY <1>5, <2>1 DEF Followed
  <2>3. First(r) \in Reqs
    BY <2>2, FirstFacts DEF IInv, InBatch
  <2>4. \A x \in J : log[x].op = "rollout"
    BY <2>1, <2>3 DEF Joiners
  <2>5. Training(r) = {} /\ Training(r)' = {}
    BY <1>1, <2>2
  <2> QED BY <2>2, <2>4, <2>5 DEF Trains
<1> QED BY <1>2, <1>3, <1>4, <1>5 DEF Advanced

\* ... and in a train all ranks go through the same one.
LEMMA TrainsStep ==
  ASSUME IInv, IInv', TrainsInv, [Next]_vars
  PROVE  TrainsInv'
<1>1. /\ Types /\ Types' /\ \A r \in Ranks : RankInv(r)
      /\ log' = log /\ (Trained \/ \A r \in Ranks : Advanced(r))
  BY AdvanceStep DEF IInv
<1>2. CASE Trained
  <2>1. \A r \in Ranks : Gone(r)' = Gone(r) /\ place[r] = "train" /\ place'[r] = "idle"
    BY <1>2 DEF Trained, Steady
  <2>2. ASSUME NEW r \in Ranks PROVE Trains(r)' = Trains(r) \cup {Latest(r)}
    <3>1. Training(r) = {Latest(r)} /\ Latest(r) \in Gone(r)
      BY <1>1, <2>1, AtTrain
    <3>2. log[Latest(r)].op = "train" /\ Training(r)' = {}
      BY <2>1 DEF TrainsInv, Training
    <3> QED BY <1>1, <2>1, <3>1, <3>2 DEF Trains
  <2>3. \A r, q \in Ranks : Latest(r) = Latest(q) /\ Trains(r) = Trains(q)
    BY <1>1, <2>1, SameTrain DEF TrainsInv, Live
  <2>4. \A r, q \in Ranks : Trains(r)' = Trains(q)'
    BY <2>2, <2>3
  <2> QED BY <2>1, <2>4 DEF TrainsInv
<1>3. CASE \A r \in Ranks : Advanced(r)
  <2>1. ASSUME NEW r \in Ranks, Live(r)'
        PROVE  /\ Live(r) /\ Trains(r)' = Trains(r)
               /\ place'[r] = "train" => log'[Latest(r)'].op = "train"
    BY <1>1, <1>3, <2>1, TrainsKept DEF TrainsInv
  <2>2. \A r \in Ranks : place'[r] = "train" => Live(r)'
    BY DEF Live
  <2>3. \A r, q \in Ranks : Live(r)' /\ Live(q)' => Trains(r)' = Trains(q)'
    BY <2>1 DEF TrainsInv
  <2>4. \A r \in Ranks : place'[r] = "train" => log'[Latest(r)'].op = "train"
    BY <2>1, <2>2
  <2> QED BY <2>3, <2>4 DEF TrainsInv
<1> QED BY <1>1, <1>2, <1>3

-----------------------------------------------------------------------------
\* At the start no rank has read anything.
LEMMA InitTeam ==
  ASSUME Init
  PROVE  flagged = {} /\ TeamInv /\ TrainsInv /\ \A r \in Ranks : WorkInv(r)
<1>1. \A r \in Ranks : /\ taken[r] = 0 /\ deferred[r] = <<>> /\ place[r] = "idle"
                       /\ batch[r] = NoBatch /\ headers[r] = <<>> /\ outcome[r] = {}
                       /\ started[r] = <<>>
  BY DEF Init
<1>2. \A r \in Ranks : /\ Gone(r) = {} /\ Net(r) = {} /\ batch[r].reqs = <<>>
  BY <1>1 DEF Gone, Net, NoBatch
<1>3. flagged = {}
  BY DEF Init
<1>4. TeamInv
  <2> SUFFICES ASSUME NEW l \in Ranks, NEW q \in Ranks, GroupOf(l) = GroupOf(q)
               PROVE  Related(View(l, place[l]), View(q, place[q]))
    BY DEF TeamInv
  <2>1. PICK a, b : a = View(l, place[l]) /\ b = View(q, place[q])
    OBVIOUS
  <2>2. /\ a.group = b.group /\ a.place = "idle" /\ b.place = "idle" /\ a.net = {} /\ b.net = {}
        /\ a.gone = {} /\ b.gone = {} /\ b.heads = <<>> /\ a.taken = 0 /\ b.taken = 0
    BY <1>1, <1>2, <2>1 DEF View
  <2>3. Gap(b, a.gone, {})
    BY <2>2 DEF Gap
  <2>4. Begun(b, <<>>) /\ Top(a.taken, {}, b.taken)
    BY <2>2 DEF Begun, Top
  <2>5. AheadBy(a, b, {})
    BY <2>2, <2>3, <2>4 DEF AheadBy
  <2> QED BY <2>1, <2>2, <2>5 DEF Ahead, Related
<1>5. TrainsInv
  BY <1>1, <1>2 DEF TrainsInv, Trains
<1>6. \A r \in Ranks : WorkInv(r)
  BY <1>1, <1>2 DEF WorkInv, Increasing
<1> QED BY <1>3, <1>4, <1>5, <1>6

\* With no cancel flags the ranks of a replica stay related.
TeamWork == flagged = {} /\ TeamInv /\ \A r \in Ranks : WorkInv(r)

\* Every step keeps it.
LEMMA TeamWorkStep ==
  IInv /\ IInv' /\ Uncancelled /\ TeamWork /\ [Next]_vars => TeamWork'
<1> SUFFICES ASSUME IInv, IInv', Uncancelled, TeamWork, [Next]_vars PROVE TeamWork'
  OBVIOUS
<1>1. flagged = {} /\ TeamInv /\ \A r \in Ranks : WorkInv(r)
  BY DEF TeamWork
<1>2. flagged' = {}
  BY <1>1, StepEffects
<1>3. TeamInv'
  BY <1>1, TeamStep
<1>4. ASSUME NEW r \in Ranks PROVE WorkInv(r)'
  BY <1>1, WorkStep
<1> QED BY <1>2, <1>3, <1>4 DEF TeamWork

\* Ranks that meet in a train bring the same command.
TrainsMatch ==
  \A r, q \in Ranks :
    place[r] = "train" /\ place[q] = "train" => Last(started[r]) = Last(started[q])

\* It follows from the trains each rank has been through.
LEMMA TrainsMeet == IInv /\ TrainsInv => TrainsMatch
<1> SUFFICES ASSUME IInv, TrainsInv, NEW r \in Ranks, NEW q \in Ranks,
                    place[r] = "train", place[q] = "train"
             PROVE  Last(started[r]) = Last(started[q])
  BY DEF TrainsMatch
<1>1. Types /\ RankInv(r) /\ RankInv(q)
  BY DEF IInv
<1>2. Latest(r) = Latest(q)
  BY <1>1, SameTrain
<1>3. started[r] # <<>> /\ started[q] # <<>>
  BY <1>1 DEF RankInv, PlaceInv
<1> QED BY <1>2, <1>3 DEF Latest

\* A replica of one rank meets nobody in a forward.
LEMMA AloneMatches == TPSize = 1 /\ TrainsMatch => CollectivesMatch
<1> SUFFICES ASSUME TPSize = 1, NEW r \in Ranks, NEW q \in Ranks, GroupOf(r) = GroupOf(q)
             PROVE  r = q
  BY DEF TrainsMatch, CollectivesMatch
<1>1. r \in Groups \X (0 .. 0) /\ q \in Groups \X (0 .. 0)
  BY DEF Ranks
<1>2. \A n \in 0 .. 0 : n = 0
  OBVIOUS
<1> QED BY <1>1, <1>2 DEF GroupOf

\* What the relation of a replica's ranks comes to in a forward.
LEMMA TeamMatches == IInv /\ TeamWork /\ TrainsMatch => CollectivesMatch
BY TeamMatch DEF TeamWork, TrainsMatch, CollectivesMatch

\* All ranks train on the same command, whatever the replicas polled, joined or
\* cancelled on the way: the other half of CollectivesMatch, with no hypothesis.
THEOREM TrainsHold == Spec => []TrainsMatch
<1>1. Spec => []IInv
  BY IInvHolds
<1>2. Init => TrainsInv
  BY InitTeam
<1>3. IInv /\ IInv' /\ TrainsInv /\ [Next]_vars => TrainsInv'
  BY TrainsStep
<1> QED BY <1>1, <1>2, <1>3, TrainsMeet, PTL DEF Spec

\* Ranks that meet in a collective bring the same work, when a replica has one
\* rank or no rollout carries cancel flags: all ranks the same command to a
\* train (engine/worker.py), the ranks of a replica the same requests, rows
\* and deferred commands to a forward.
THEOREM CollectivesHold == Spec => [](TPSize = 1 \/ Uncancelled => CollectivesMatch)
<1>1. Spec => []IInv
  BY IInvHolds
<1>2. Spec => []TrainsMatch
  BY TrainsHold
<1>3. Spec => [](Uncancelled => TeamWork)
  <2>1. Init => TeamWork
    BY InitTeam DEF TeamWork
  <2>2. IInv /\ IInv' /\ (Uncancelled => TeamWork) /\ [Next]_vars => (Uncancelled => TeamWork)'
    <3>1. Uncancelled' => Uncancelled
      BY DEF Uncancelled
    <3> QED BY <3>1, TeamWorkStep
  <2>3. Init => (Uncancelled => TeamWork)
    BY <2>1
  <2> QED BY <1>1, <2>2, <2>3, PTL DEF Spec
<1>4. IInv /\ TrainsMatch /\ (Uncancelled => TeamWork)
        => (TPSize = 1 \/ Uncancelled => CollectivesMatch)
  BY AloneMatches, TeamMatches
<1> QED BY <1>1, <1>2, <1>3, <1>4, PTL
=============================================================================
