------------------------ MODULE PolicyTransferProofs ------------------------
(***************************************************************************)
(* The ranks of a transfer meet at the same chunk, and every rollout rank  *)
(* writes every chunk whole, for any shape of the two partitions.  A       *)
(* rank's program is what it has to do, in one order; of two ranks of a    *)
(* group, both have done the same of its collectives; and the rank a       *)
(* collective reads from was last busy with the chunk it is for.           *)
(***************************************************************************)
EXTENDS PolicyTransfer, FiniteSetTheorems, SequenceTheorems, WellFoundedInduction, TLAPS

-----------------------------------------------------------------------------
\* Induction over numbers up to a bound, said of sets.

\* A finite set of numbers has a least element: of the sets of members below a
\* member, ordered by inclusion, one is minimal.
LEMMA LeastNat ==
  ASSUME NEW S \in SUBSET Nat, IsFiniteSet(S), S # {}
  PROVE  \E n \in S : \A m \in S : n <= m
<1> DEFINE Under(x) == {y \in S : y < x}
           T == {Under(x) : x \in S}
<1> S \subseteq Nat
  OBVIOUS
<1>1. T \subseteq FiniteSubsetsOf(S) /\ T # {}
  <2>1. ASSUME NEW x \in S
        PROVE  Under(x) \in FiniteSubsetsOf(S)
    <3>1. Under(x) \in SUBSET S
      OBVIOUS
    <3>2. IsFiniteSet(Under(x))
      BY <3>1, FS_Subset
    <3> QED BY <3>1, <3>2 DEF FiniteSubsetsOf
  <2> QED BY <2>1
<1>2. PICK B \in T : \A C \in T : ~(<<C, B>> \in StrictSubsetOrdering(S))
  BY <1>1, FS_StrictSubsetOrderingWellFounded, WFMin
<1>3. PICK x \in S : B = Under(x)
  OBVIOUS
<1>4. ASSUME NEW y \in S, y < x
      PROVE  FALSE
  <2>1. Under(y) \subseteq Under(x) /\ y \in Under(x) /\ y \notin Under(y)
    <3>1. \A z \in S : z < y => z < x
      BY <1>4
    <3>2. ~(y < y)
      OBVIOUS
    <3> QED BY <3>1, <3>2, <1>4
  <2>2. Under(y) \in SUBSET S /\ Under(x) \in SUBSET S /\ Under(y) # Under(x)
    BY <2>1
  <2>3. <<Under(y), Under(x)>> \in StrictSubsetOrdering(S)
    BY <2>1, <2>2 DEF StrictSubsetOrdering
  <2> QED BY <2>3, <1>2, <1>3
<1>5. \A y \in S : x <= y
  BY <1>4
<1> QED BY <1>5

\* What holds of 0, and of n + 1 when it holds of n, holds up to N.
LEMMA UpTo ==
  ASSUME NEW N \in Nat, NEW P \in SUBSET (0 .. N), 0 \in P,
         \A n \in 0 .. N : n < N /\ n \in P => n + 1 \in P
  PROVE  P = 0 .. N
<1> SUFFICES ASSUME (0 .. N) \ P # {} PROVE FALSE
  OBVIOUS
<1>1. PICK S : S = (0 .. N) \ P
  OBVIOUS
<1>2. S \in SUBSET Nat /\ S # {} /\ IsFiniteSet(S)
  <2>1. IsFiniteSet(0 .. N)
    BY FS_Interval
  <2> QED BY <1>1, <2>1, FS_Subset
<1>3. PICK n \in S : \A m \in S : n <= m
  BY <1>2, LeastNat
<1>4. n \in Nat /\ n <= N /\ n # 0
  BY <1>1
<1>5. n - 1 \in 0 .. N /\ n - 1 < N /\ n - 1 \notin S
  BY <1>3, <1>4
<1>6. n - 1 \in P
  BY <1>1, <1>5
<1>7. (n - 1) + 1 \in P
  BY <1>5, <1>6
<1> QED BY <1>1, <1>4, <1>7

\* A finite nonempty set of numbers has a greatest element.
LEMMA GreatestNat ==
  ASSUME NEW N \in Nat, NEW S \in SUBSET (0 .. N), S # {}
  PROVE  \E n \in S : \A m \in S : m <= n
<1>1. PICK T : T = {k \in 0 .. N : N - k \in S}
  OBVIOUS
<1>2. PICK s : s \in S
  OBVIOUS
<1>3. T \in SUBSET Nat /\ IsFiniteSet(T) /\ T # {}
  <2>1. IsFiniteSet(0 .. N)
    BY FS_Interval
  <2>2. N - s \in T
    BY <1>1, <1>2
  <2> QED BY <1>1, <2>1, <2>2, FS_Subset
<1>4. PICK k \in T : \A m \in T : k <= m
  BY <1>3, LeastNat
<1>5. N - k \in S /\ k \in Nat
  BY <1>1, <1>4
<1>6. ASSUME NEW m \in S PROVE m <= N - k
  <2>1. N - m \in T /\ m \in Nat
    BY <1>1
  <2> QED BY <1>4, <1>5, <2>1
<1> QED BY <1>5, <1>6

-----------------------------------------------------------------------------
\* Lists of a set and a relation.

\* Every member comes before the later ones in R.
Ordered(R, s) == \A i, j \in DOMAIN s : i < j => <<s[i], s[j]>> \in R

\* An ordered list put after another one.
LEMMA ConcatOrdered ==
  ASSUME NEW S, NEW R, NEW s \in Seq(S), NEW t \in Seq(S), Ordered(R, s), Ordered(R, t),
         \A x \in ToSet(s), y \in ToSet(t) : <<x, y>> \in R
  PROVE  s \o t \in Seq(S) /\ ToSet(s \o t) = ToSet(s) \cup ToSet(t) /\ Ordered(R, s \o t)
<1> DEFINE u == s \o t
<1>1. /\ u \in Seq(S) /\ Len(s) \in Nat /\ Len(t) \in Nat /\ DOMAIN s = 1 .. Len(s)
      /\ DOMAIN t = 1 .. Len(t) /\ DOMAIN u = 1 .. Len(s) + Len(t)
      /\ \A i \in 1 .. Len(s) + Len(t) : u[i] = IF i <= Len(s) THEN s[i] ELSE t[i - Len(s)]
  BY ConcatProperties
<1> HIDE DEF u
<1>2. \A i \in DOMAIN s : i \in DOMAIN u /\ u[i] = s[i]
  BY <1>1
<1>3. \A i \in DOMAIN t : Len(s) + i \in DOMAIN u /\ u[Len(s) + i] = t[i]
  BY <1>1
<1>4. \A i \in DOMAIN u \ DOMAIN s : i - Len(s) \in DOMAIN t /\ u[i] = t[i - Len(s)]
  BY <1>1
<1>5. ToSet(u) = ToSet(s) \cup ToSet(t)
  <2>1. \A x \in ToSet(u) : x \in ToSet(s) \cup ToSet(t)
    BY <1>2, <1>4 DEF ToSet
  <2>2. \A x \in ToSet(s) \cup ToSet(t) : x \in ToSet(u)
    BY <1>2, <1>3 DEF ToSet
  <2> QED BY <2>1, <2>2
<1>6. ASSUME NEW i \in DOMAIN u, NEW j \in DOMAIN u, i < j PROVE <<u[i], u[j]>> \in R
  <2>1. CASE i \in DOMAIN s /\ j \in DOMAIN s
    BY <1>2, <1>6, <2>1 DEF Ordered
  <2>2. CASE i \in DOMAIN s /\ j \notin DOMAIN s
    <3>1. u[i] \in ToSet(s) /\ u[j] \in ToSet(t)
      BY <1>2, <1>4, <2>2 DEF ToSet
    <3> QED BY <3>1
  <2>3. CASE i \notin DOMAIN s /\ j \in DOMAIN s
    BY <1>1, <1>6, <2>3
  <2>4. CASE i \notin DOMAIN s /\ j \notin DOMAIN s
    <3>1. i \in Nat /\ j \in Nat
      BY <1>1
    <3>2. /\ i - Len(s) \in DOMAIN t /\ u[i] = t[i - Len(s)]
          /\ j - Len(s) \in DOMAIN t /\ u[j] = t[j - Len(s)]
          /\ i - Len(s) < j - Len(s)
      BY <1>1, <1>4, <1>6, <2>4, <3>1
    <3> QED BY <3>2 DEF Ordered
  <2> QED BY <2>1, <2>2, <2>3, <2>4
<1>7. Ordered(R, u)
  BY <1>6 DEF Ordered
<1> QED BY <1>1, <1>5, <1>7 DEF u

\* The recursive function FlattenSeq is defined by exists.
LEMMA FlattenDefined ==
  ASSUME NEW N \in Nat \ {0}, NEW ss, Len(ss) = N
  PROVE  \E f : /\ f = [i \in 1 .. N |-> IF i = 1 THEN ss[i] ELSE f[i - 1] \o ss[i]]
                /\ FlattenSeq(ss) = f[N]
<1> DEFINE Good(f, n) == f = [i \in 1 .. n |-> IF i = 1 THEN ss[i] ELSE f[i - 1] \o ss[i]]
           P == {n \in 0 .. N : \E f : Good(f, n)}
<1>1. 0 \in P
  <2>1. PICK f : f = [i \in 1 .. 0 |-> ss[i]]
    OBVIOUS
  <2>2. Good(f, 0)
    BY <2>1
  <2> HIDE DEF Good
  <2> QED BY <2>2
<1>2. ASSUME NEW n \in 0 .. N, n < N, n \in P PROVE n + 1 \in P
  <2>1. PICK f : Good(f, n)
    BY <1>2
  <2> DEFINE x == IF n = 0 THEN ss[1] ELSE f[n] \o ss[n + 1]
             g == [i \in 1 .. n + 1 |-> IF i = n + 1 THEN x ELSE f[i]]
  <2> HIDE DEF x
  <2>2. ASSUME NEW i \in 1 .. n + 1
        PROVE  g[i] = IF i = 1 THEN ss[i] ELSE g[i - 1] \o ss[i]
    <3>1. CASE i = n + 1 /\ i = 1
      BY <3>1 DEF x
    <3>2. CASE i = n + 1 /\ i # 1
      <4>1. i - 1 \in 1 .. n + 1 /\ i - 1 = n /\ n # 0 /\ n # n + 1 /\ n \in Nat
        BY <3>2
      <4>2. g[n] = f[n] /\ g[i] = x
        BY <3>2, <4>1
      <4> QED BY <3>2, <4>1, <4>2 DEF x
    <3>3. CASE i # n + 1
      <4>1. i \in 1 .. n /\ i \in Nat /\ n \in Nat
        BY <3>3
      <4>2. g[i] = f[i] /\ (i # 1 => g[i - 1] = f[i - 1])
        BY <3>3, <4>1
      <4>3. f[i] = IF i = 1 THEN ss[i] ELSE f[i - 1] \o ss[i]
        BY <2>1, <4>1
      <4> QED BY <4>2, <4>3
    <3> QED BY <3>1, <3>2, <3>3
  <2>3. g = [i \in 1 .. n + 1 |-> IF i = 1 THEN ss[i] ELSE g[i - 1] \o ss[i]]
    <3> DEFINE h == [i \in 1 .. n + 1 |-> IF i = 1 THEN ss[i] ELSE g[i - 1] \o ss[i]]
    <3>1. DOMAIN g = 1 .. n + 1 /\ DOMAIN h = 1 .. n + 1
      OBVIOUS
    <3>2. \A i \in 1 .. n + 1 : g[i] = h[i]
      BY <2>2
    <3>3. g = [i \in 1 .. n + 1 |-> g[i]] /\ h = [i \in 1 .. n + 1 |-> h[i]]
      OBVIOUS
    <3> HIDE DEF g, h
    <3>4. g = h
      BY <3>2, <3>3
    <3> QED BY <3>4 DEF h
  <2> HIDE DEF g
  <2>4. n + 1 \in 0 .. N
    BY <1>2
  <2> QED BY <2>3, <2>4
<1>3. P = 0 .. N
  <2> HIDE DEF P
  <2>1. P \in SUBSET (0 .. N)
    BY DEF P
  <2> QED BY <1>1, <1>2, <2>1, UpTo
<1>4. \E f : Good(f, N)
  <2>1. N \in 0 .. N
    OBVIOUS
  <2>2. N \in P
    <3> HIDE DEF P
    <3> QED BY <1>3, <2>1
  <2> QED BY <2>2
<1>5. PICK c : c = CHOOSE f : f = [i \in 1 .. N |-> IF i = 1 THEN ss[i] ELSE f[i - 1] \o ss[i]]
  OBVIOUS
<1>6. c = [i \in 1 .. N |-> IF i = 1 THEN ss[i] ELSE c[i - 1] \o ss[i]]
  BY <1>4, <1>5
<1>7. FlattenSeq(ss) = c[N]
  BY <1>5 DEF FlattenSeq
<1> QED BY <1>6, <1>7

\* An ordered list of the members of N lists.
Collects(u, S, R, N, ss) ==
  /\ u \in Seq(S) /\ Ordered(R, u)
  /\ \A x : x \in ToSet(u) <=> \E n \in 1 .. N : x \in ToSet(ss[n])

\* Ordered lists, each after the ones before it, flatten to an ordered list of
\* all their members.
LEMMA FlattenOrdered ==
  ASSUME NEW S, NEW R, NEW N \in Nat \ {0}, NEW ss \in [1 .. N -> Seq(S)],
         \A n \in 1 .. N : Ordered(R, ss[n]),
         \A n, m \in 1 .. N : n < m =>
           \A x \in ToSet(ss[n]), y \in ToSet(ss[m]) : <<x, y>> \in R
  PROVE  Collects(FlattenSeq(ss), S, R, N, ss)
<1>1. Len(ss) = N
  OBVIOUS
<1>2. PICK f : /\ f = [i \in 1 .. N |-> IF i = 1 THEN ss[i] ELSE f[i - 1] \o ss[i]]
               /\ FlattenSeq(ss) = f[N]
  BY <1>1, FlattenDefined
<1> DEFINE Q(n) == /\ f[n] \in Seq(S) /\ Ordered(R, f[n])
                   /\ ToSet(f[n]) = UNION {ToSet(ss[m]) : m \in 1 .. n}
           P == {n \in 0 .. N : n = 0 \/ Q(n)}
<1>3. 0 \in P
  OBVIOUS
<1>4. ASSUME NEW n \in 0 .. N, n < N, n \in P PROVE n + 1 \in P
  <2>1. n + 1 \in 1 .. N /\ n \in Nat
    BY <1>4
  <2>2. CASE n = 0
    <3>1. f[1] = ss[1] /\ 1 \in 1 .. N
      BY <1>2, <2>1, <2>2
    <3>2. UNION {ToSet(ss[m]) : m \in 1 .. 1} = ToSet(ss[1])
      OBVIOUS
    <3>3. Q(1)
      BY <3>1, <3>2
    <3> QED BY <2>1, <2>2, <3>3
  <2>3. CASE n # 0
    <3>1. f[n + 1] = f[n] \o ss[n + 1]
      <4>1. \A i \in 1 .. N : f[i] = IF i = 1 THEN ss[i] ELSE f[i - 1] \o ss[i]
        BY <1>2
      <4>2. n + 1 # 1 /\ (n + 1) - 1 = n
        BY <2>1, <2>3
      <4> QED BY <2>1, <4>1, <4>2
    <3>2. Q(n)
      BY <1>4, <2>3
    <3>3. \A x \in ToSet(f[n]), y \in ToSet(ss[n + 1]) : <<x, y>> \in R
      <4> SUFFICES ASSUME NEW x \in ToSet(f[n]), NEW y \in ToSet(ss[n + 1])
                   PROVE  <<x, y>> \in R
        OBVIOUS
      <4>1. PICK m \in 1 .. n : x \in ToSet(ss[m])
        BY <3>2
      <4>2. m \in 1 .. N /\ m < n + 1
        BY <2>1
      <4> QED BY <2>1, <4>1, <4>2
    <3>4. ss[n + 1] \in Seq(S) /\ Ordered(R, ss[n + 1])
      BY <2>1
    <3> HIDE DEF Q
    <3>5. /\ f[n + 1] \in Seq(S) /\ Ordered(R, f[n + 1])
          /\ ToSet(f[n + 1]) = ToSet(f[n]) \cup ToSet(ss[n + 1])
      <4>1. PICK s, t : s = f[n] /\ t = ss[n + 1]
        OBVIOUS
      <4>2. s \in Seq(S) /\ Ordered(R, s)
        BY <3>2, <4>1 DEF Q
      <4>3. t \in Seq(S) /\ Ordered(R, t)
        BY <3>4, <4>1
      <4>4. \A x \in ToSet(s), y \in ToSet(t) : <<x, y>> \in R
        BY <3>3, <4>1
      <4>5. s \o t \in Seq(S) /\ ToSet(s \o t) = ToSet(s) \cup ToSet(t) /\ Ordered(R, s \o t)
        BY <4>2, <4>3, <4>4, ConcatOrdered
      <4>6. f[n + 1] = s \o t
        BY <3>1, <4>1
      <4> QED BY <4>1, <4>5, <4>6
    <3>6. ToSet(f[n + 1]) = UNION {ToSet(ss[m]) : m \in 1 .. n + 1}
      <4>1. 1 .. n + 1 = (1 .. n) \cup {n + 1}
        BY <2>1
      <4>2. ToSet(f[n]) = UNION {ToSet(ss[m]) : m \in 1 .. n}
        BY <3>2 DEF Q
      <4>3. ASSUME NEW x PROVE x \in ToSet(f[n + 1]) <=> \E m \in 1 .. n + 1 : x \in ToSet(ss[m])
        <5>1. x \in ToSet(f[n + 1]) <=> x \in ToSet(f[n]) \/ x \in ToSet(ss[n + 1])
          BY <3>5
        <5>2. x \in ToSet(f[n]) <=> \E m \in 1 .. n : x \in ToSet(ss[m])
          BY <4>2
        <5> QED BY <4>1, <5>1, <5>2
      <4>4. ASSUME NEW x
            PROVE  x \in UNION {ToSet(ss[m]) : m \in 1 .. n + 1}
                     <=> \E m \in 1 .. n + 1 : x \in ToSet(ss[m])
        OBVIOUS
      <4> QED BY <4>3, <4>4
    <3>7. Q(n + 1)
      BY <3>5, <3>6 DEF Q
    <3> QED BY <2>1, <3>7
  <2> QED BY <2>2, <2>3
<1>5. P = 0 .. N
  <2> HIDE DEF P
  <2>1. P \in SUBSET (0 .. N)
    BY DEF P
  <2> QED BY <1>3, <1>4, <2>1, UpTo
<1>6. Q(N)
  <2>1. N \in 0 .. N
    OBVIOUS
  <2>2. N \in P
    <3> HIDE DEF P
    <3> QED BY <1>5, <2>1
  <2> QED BY <2>2
<1>7. FlattenSeq(ss) \in Seq(S) /\ Ordered(R, FlattenSeq(ss))
  BY <1>2, <1>6
<1>8. ToSet(FlattenSeq(ss)) = UNION {ToSet(ss[m]) : m \in 1 .. N}
  BY <1>2, <1>6
<1> HIDE DEF Q, P
<1>9. ASSUME NEW x
      PROVE  x \in ToSet(FlattenSeq(ss)) <=> \E n \in 1 .. N : x \in ToSet(ss[n])
  BY <1>8
<1> QED BY <1>7, <1>9 DEF Collects

-----------------------------------------------------------------------------
\* Numbers laid out in rows.

\* What SMT has to be told of integer division.
LEMMA DivisionFacts ==
  ASSUME NEW a \in Nat, NEW b \in Nat, b > 0
  PROVE  /\ a \div b \in Nat /\ a % b \in 0 .. b - 1
         /\ a = ((a \div b) * b) + (a % b)
<1>1. a \in Int /\ b \in Int
  OBVIOUS
<1> QED BY <1>1, SMT

\* A number is a place in a row, and no two places are one.
LEMMA PlaceUnique ==
  ASSUME NEW b \in Nat, NEW d \in Nat, NEW e \in Nat, NEW t \in 0 .. b - 1, NEW u \in 0 .. b - 1,
         (d * b) + t = (e * b) + u
  PROVE  d = e /\ t = u
<1>1. ASSUME NEW x \in Nat, NEW y \in Nat, x < y PROVE (x * b) + b <= y * b
  <2>1. PICK k \in Nat : y = x + 1 + k
    <3>1. y - x - 1 \in Nat /\ y = x + 1 + (y - x - 1)
      BY <1>1
    <3> QED BY <3>1
  <2>2. y * b = (x * b) + b + (k * b) /\ k * b >= 0
    BY <2>1
  <2>3. x * b \in Nat /\ k * b \in Nat
    OBVIOUS
  <2> QED BY <2>2, <2>3
<1>2. d * b \in Nat /\ e * b \in Nat
  OBVIOUS
<1>3. ~(d < e)
  BY <1>1, <1>2
<1>4. ~(e < d)
  BY <1>1, <1>2
<1> QED BY <1>2, <1>3, <1>4

\* The place of a number within h rows of w, ...
LEMMA PlaceOf ==
  ASSUME NEW w \in Nat \ {0}, NEW h \in Nat \ {0}, NEW x \in 0 .. (w * h) - 1
  PROVE  /\ x % w \in 0 .. w - 1 /\ x \div w \in 0 .. h - 1
         /\ x = ((x \div w) * w) + (x % w)
<1>1. w * h \in Nat /\ x \in Nat /\ x < w * h
  OBVIOUS
<1>2. x \div w \in Nat /\ x % w \in 0 .. w - 1 /\ x = ((x \div w) * w) + (x % w)
  BY <1>1, DivisionFacts
<1>3. PICK d, t : d = x \div w /\ t = x % w
  OBVIOUS
<1>4. d \in Nat /\ t \in 0 .. w - 1 /\ x = (d * w) + t
  BY <1>2, <1>3
<1>5. d < h
  <2> SUFFICES ASSUME h <= d PROVE FALSE
    BY <1>4
  <2>1. PICK k \in Nat : d = h + k
    <3>1. d - h \in Nat /\ d = h + (d - h)
      BY <1>4
    <3> QED BY <3>1
  <2>2. d * w = (w * h) + (k * w) /\ k * w >= 0
    BY <2>1
  <2>3. d * w \in Nat /\ k * w \in Nat
    BY <1>4
  <2> QED BY <1>1, <1>4, <2>2, <2>3
<1> QED BY <1>2, <1>3, <1>4, <1>5

\* ... and the number of a place.
LEMMA NumberOf ==
  ASSUME NEW w \in Nat \ {0}, NEW h \in Nat \ {0}, NEW d \in 0 .. h - 1, NEW t \in 0 .. w - 1,
         NEW x, x = (d * w) + t
  PROVE  x \in 0 .. (w * h) - 1 /\ x \div w = d /\ x % w = t
<1>1. x = (d * w) + t
  OBVIOUS
<1>2. d * w \in Nat /\ w * h \in Nat /\ x \in Nat
  BY <1>1
<1>3. x < w * h
  <2>1. PICK k \in Nat : h = d + 1 + k
    <3>1. h - d - 1 \in Nat /\ h = d + 1 + (h - d - 1)
      OBVIOUS
    <3> QED BY <3>1
  <2>2. w * h = (d * w) + w + (k * w) /\ k * w >= 0
    BY <2>1
  <2>3. k * w \in Nat
    OBVIOUS
  <2> QED BY <1>1, <1>2, <2>2, <2>3
<1>4. x \div w \in Nat /\ x % w \in 0 .. w - 1 /\ x = ((x \div w) * w) + (x % w)
  BY <1>2, DivisionFacts
<1>5. PICK e, u : e = x \div w /\ u = x % w
  OBVIOUS
<1>6. e \in Nat /\ u \in 0 .. w - 1 /\ (d * w) + t = (e * w) + u
  BY <1>1, <1>4, <1>5
<1>7. d = e /\ t = u
  BY <1>6, PlaceUnique
<1> QED BY <1>1, <1>2, <1>3, <1>5, <1>7

-----------------------------------------------------------------------------
\* The ranks of a transfer, and their places.

\* The sizes of a shape.
LEMMA ShapeFacts ==
  ASSUME shape \in Shapes
  PROVE  /\ shape.trainTP \in Nat \ {0} /\ shape.trainDP \in Nat \ {0}
         /\ shape.rolloutTP \in Nat \ {0} /\ shape.rolloutDP \in Nat \ {0}
         /\ shape.offset \in Nat /\ TrainWorld \in Nat /\ TrainWorld > 0
         /\ shape.chunks \in [Tensors -> Nat \ {0}]
         /\ shape.layout \in [Tensors -> {"sharded", "replicated", "repeated"}]
<1>1. MaxTP \in Nat /\ MaxDP \in Nat /\ MaxChunks \in Nat /\ MaxOffset \in Nat
  BY TransferAssumption
<1>2. /\ shape.trainTP \in 1 .. MaxTP /\ shape.trainDP \in 1 .. MaxDP
      /\ shape.rolloutTP \in 1 .. MaxTP /\ shape.rolloutDP \in 1 .. MaxDP
      /\ shape.offset \in 0 .. MaxOffset /\ shape.chunks \in [Tensors -> 1 .. MaxChunks]
      /\ shape.layout \in [Tensors -> {"sharded", "replicated", "repeated"}]
  BY DEF Shapes
<1>3. PICK w, h : w = shape.trainTP /\ h = shape.trainDP
  OBVIOUS
<1>4. w \in Nat \ {0} /\ h \in Nat \ {0}
  BY <1>1, <1>2, <1>3
<1>5. w * h \in Nat /\ w * h > 0
  BY <1>4
<1>6. TrainWorld \in Nat /\ TrainWorld > 0
  BY <1>3, <1>5 DEF TrainWorld
<1>7. 1 .. MaxChunks \subseteq Nat \ {0} /\ 1 .. MaxTP \subseteq Nat \ {0}
      /\ 1 .. MaxDP \subseteq Nat \ {0}
  BY <1>1
<1>8. shape.chunks \in [Tensors -> Nat \ {0}]
  BY <1>2, <1>7
<1> QED BY <1>1, <1>2, <1>6, <1>7, <1>8

\* A training rank is a place in the rows of the training partition, ...
LEMMA TrainPlace ==
  ASSUME shape \in Shapes, NEW r \in TrainRanks
  PROVE  /\ r \in Nat /\ TPRank(r) \in 0 .. shape.trainTP - 1 /\ DPRank(r) \in Rows
         /\ r = (DPRank(r) * shape.trainTP) + TPRank(r) /\ r \notin RolloutRanks
<1>1. shape.trainTP \in Nat \ {0} /\ shape.trainDP \in Nat \ {0} /\ TrainWorld \in Nat
  BY ShapeFacts
<1>2. PICK w, h : w = shape.trainTP /\ h = shape.trainDP
  OBVIOUS
<1>3. w \in Nat \ {0} /\ h \in Nat \ {0} /\ r \in 0 .. (w * h) - 1
  BY <1>1, <1>2 DEF TrainRanks, TrainWorld
<1>4. TPRank(r) = r % w /\ DPRank(r) = r \div w
  BY <1>2 DEF TPRank, DPRank
<1>5. r % w \in 0 .. w - 1 /\ r \div w \in 0 .. h - 1 /\ r = ((r \div w) * w) + (r % w)
  BY <1>3, PlaceOf
<1>6. r \in Nat /\ r \notin RolloutRanks
  BY <1>1 DEF TrainRanks, RolloutRanks
<1> QED BY <1>2, <1>4, <1>5, <1>6 DEF Rows

\* ... a rollout rank one in the rows of the rollout partition.
LEMMA RolloutPlace ==
  ASSUME shape \in Shapes, NEW r \in RolloutRanks
  PROVE  /\ r \in Nat /\ r \notin TrainRanks
         /\ TPRank(r) \in 0 .. shape.rolloutTP - 1 /\ DPRank(r) \in 0 .. shape.rolloutDP - 1
         /\ r = TrainWorld + (DPRank(r) * shape.rolloutTP) + TPRank(r)
<1>1. /\ shape.rolloutTP \in Nat \ {0} /\ shape.rolloutDP \in Nat \ {0} /\ TrainWorld \in Nat
  BY ShapeFacts
<1>2. PICK w, h, x : w = shape.rolloutTP /\ h = shape.rolloutDP /\ x = r - TrainWorld
  OBVIOUS
<1>3. w \in Nat \ {0} /\ h \in Nat \ {0} /\ x \in 0 .. (w * h) - 1 /\ r = TrainWorld + x
      /\ r \in Nat /\ r \notin TrainRanks
  <2>1. w * h \in Nat
    BY <1>1, <1>2
  <2> QED BY <1>1, <1>2, <2>1 DEF RolloutRanks, TrainRanks
<1>4. TPRank(r) = x % w /\ DPRank(r) = x \div w
  BY <1>2, <1>3 DEF TPRank, DPRank
<1>5. x % w \in 0 .. w - 1 /\ x \div w \in 0 .. h - 1 /\ x = ((x \div w) * w) + (x % w)
  BY <1>3, PlaceOf
<1>6. PICK d, t : d = x \div w /\ t = x % w
  OBVIOUS
<1>7. d \in Nat /\ t \in Nat /\ d * w \in Nat /\ x = (d * w) + t
  <2>1. x = (d * w) + t /\ d \in 0 .. h - 1 /\ t \in 0 .. w - 1
    BY <1>5, <1>6
  <2>2. d \in Nat /\ t \in Nat
    BY <1>3, <2>1
  <2>3. d * w \in Nat
    BY <1>3, <2>2
  <2> QED BY <2>1, <2>2, <2>3
<1>8. r = TrainWorld + (d * w) + t
  BY <1>1, <1>3, <1>7
<1> QED BY <1>2, <1>3, <1>4, <1>5, <1>6, <1>8

\* Every place has one rank.
LEMMA TrainAt ==
  ASSUME shape \in Shapes, NEW o \in Rows, NEW t \in 0 .. shape.trainTP - 1
  PROVE  \E r \in TrainRanks : DPRank(r) = o /\ TPRank(r) = t
<1>1. shape.trainTP \in Nat \ {0} /\ shape.trainDP \in Nat \ {0}
  BY ShapeFacts
<1>2. PICK w, h, r : w = shape.trainTP /\ h = shape.trainDP /\ r = (o * w) + t
  OBVIOUS
<1>3. w \in Nat \ {0} /\ h \in Nat \ {0} /\ o \in 0 .. h - 1 /\ t \in 0 .. w - 1
  BY <1>1, <1>2 DEF Rows
<1>4. r \in 0 .. (w * h) - 1 /\ r \div w = o /\ r % w = t
  <2>1. r = (o * w) + t
    BY <1>2
  <2> QED BY <1>3, <2>1, NumberOf
<1>5. r \in TrainRanks
  BY <1>2, <1>4 DEF TrainRanks, TrainWorld
<1> QED BY <1>2, <1>4, <1>5 DEF DPRank, TPRank

\* The same of the rollout ranks.
LEMMA RolloutAt ==
  ASSUME shape \in Shapes, NEW d \in 0 .. shape.rolloutDP - 1, NEW t \in 0 .. shape.rolloutTP - 1
  PROVE  \E r \in RolloutRanks : DPRank(r) = d /\ TPRank(r) = t
<1>1. shape.rolloutTP \in Nat \ {0} /\ shape.rolloutDP \in Nat \ {0} /\ TrainWorld \in Nat
  BY ShapeFacts
<1>2. PICK w, h, x, r :
        w = shape.rolloutTP /\ h = shape.rolloutDP /\ x = (d * w) + t /\ r = TrainWorld + x
  OBVIOUS
<1>3. w \in Nat \ {0} /\ h \in Nat \ {0} /\ d \in 0 .. h - 1 /\ t \in 0 .. w - 1
  BY <1>1, <1>2
<1>4. x \in 0 .. (w * h) - 1 /\ x \div w = d /\ x % w = t
  <2>1. x = (d * w) + t
    BY <1>2
  <2>2. PICK e, u : e = d /\ u = t
    OBVIOUS
  <2>3. e \in 0 .. h - 1 /\ u \in 0 .. w - 1 /\ x = (e * w) + u
    BY <1>3, <2>1, <2>2
  <2>4. x \in 0 .. (w * h) - 1
    BY <1>3, <2>3, NumberOf, Zenon
  <2>5. x \div w = e
    BY <1>3, <2>3, NumberOf, Zenon
  <2>6. x % w = u
    <3>1. x \in Nat
      BY <1>3, <2>4
    <3>2. x = ((x \div w) * w) + (x % w) /\ x % w \in 0 .. w - 1
      BY <1>3, <3>1, DivisionFacts
    <3>3. PICK v : v = x % w
      OBVIOUS
    <3>4. (e * w) + v = (e * w) + u /\ v \in Nat /\ u \in Nat
      BY <1>3, <2>3, <2>5, <3>2, <3>3
    <3>5. PICK ew : ew = e * w
      OBVIOUS
    <3>6. ew \in Nat
      <4>1. e \in Nat /\ w \in Nat
        BY <1>3, <2>3
      <4> QED BY <3>5, <4>1
    <3>7. v = u
      BY <3>4, <3>5, <3>6
    <3> QED BY <3>3, <3>7
  <2> QED BY <2>2, <2>4, <2>5, <2>6
<1>5. PICK n, T : n = w * h /\ T = TrainWorld
  OBVIOUS
<1>6. r \in RolloutRanks /\ r \notin TrainRanks /\ r - TrainWorld = x
  <2>1. n \in Nat /\ T \in Nat
    <3>1. w \in Nat /\ h \in Nat
      BY <1>3
    <3>2. w * h \in Nat
      BY <3>1
    <3> QED BY <1>1, <1>5, <3>2
  <2>2. x \in 0 .. n - 1 /\ r = T + x
    BY <1>2, <1>4, <1>5
  <2>3. r \in T .. T + n - 1 /\ r \notin 0 .. T - 1 /\ r - T = x
    BY <2>1, <2>2
  <2>4. RolloutRanks = T .. T + n - 1 /\ TrainRanks = 0 .. T - 1
    BY <1>2, <1>5 DEF RolloutRanks, TrainRanks
  <2> QED BY <1>5, <2>3, <2>4
<1> QED BY <1>2, <1>4, <1>6 DEF DPRank, TPRank

-----------------------------------------------------------------------------
\* The choices of the plan: of pairs, the least; of rows, the least loaded.

\* The relay of a row is one of its candidates.
LEMMA RelayFacts ==
  ASSUME shape \in Shapes, NEW o \in Rows, Relays(o) # {}
  PROVE  Relay(o) \in Relays(o)
<1>1. PICK S : S = Relays(o)
  OBVIOUS
<1>2. ASSUME NEW p \in S PROVE p[1] \in Nat /\ p[2] \in Nat /\ p = <<p[1], p[2]>>
  <2>1. p \in TrainRanks \X RolloutRanks
    BY <1>1 DEF Relays
  <2> QED BY <2>1, TrainPlace, RolloutPlace
<1>3. TrainWorld \in Nat /\ shape.rolloutTP \in Nat /\ shape.rolloutDP \in Nat
  BY ShapeFacts
<1>4. IsFiniteSet(TrainRanks) /\ IsFiniteSet(RolloutRanks)
  <2>1. 0 \in Int /\ TrainWorld - 1 \in Int /\ TrainWorld \in Int
        /\ TrainWorld + shape.rolloutTP * shape.rolloutDP - 1 \in Int
    BY <1>3
  <2> QED BY <2>1, FS_Interval DEF TrainRanks, RolloutRanks
<1>5. PICK A : A = {x \in TrainRanks : \E p \in S : p[1] = x}
  OBVIOUS
<1>6. A \in SUBSET Nat /\ IsFiniteSet(A) /\ A # {}
  <2>1. A \subseteq TrainRanks
    BY <1>5
  <2>2. A # {}
    BY <1>1, <1>5 DEF Relays
  <2> QED BY <1>4, <2>1, <2>2, TrainPlace, FS_Subset
<1>7. PICK a \in A : \A x \in A : a <= x
  BY <1>6, LeastNat
<1>8. PICK B : B = {y \in RolloutRanks : \E p \in S : p[1] = a /\ p[2] = y}
  OBVIOUS
<1>9. B \in SUBSET Nat /\ IsFiniteSet(B) /\ B # {}
  <2>1. B \subseteq RolloutRanks
    BY <1>8
  <2>2. B # {}
    BY <1>1, <1>5, <1>7, <1>8 DEF Relays
  <2> QED BY <1>4, <2>1, <2>2, RolloutPlace, FS_Subset
<1>10. PICK b \in B : \A y \in B : b <= y
  BY <1>9, LeastNat
<1>11. PICK p \in S : p[1] = a /\ p[2] = b
  BY <1>8, <1>10
<1>12. ASSUME NEW q \in S PROVE p[1] < q[1] \/ (p[1] = q[1] /\ p[2] <= q[2])
  <2>1. q \in TrainRanks \X RolloutRanks
    BY <1>1 DEF Relays
  <2>2. q[1] \in A /\ (q[1] = a => q[2] \in B)
    BY <1>5, <1>8, <2>1
  <2>3. a \in Nat /\ q[1] \in Nat
    BY <1>2, <1>6
  <2> QED BY <1>7, <1>10, <1>11, <2>2, <2>3
<1>13. \E x \in Relays(o) : \A q \in Relays(o) : x[1] < q[1] \/ (x[1] = q[1] /\ x[2] <= q[2])
  BY <1>1, <1>12
<1> QED BY <1>13 DEF Relay

-----------------------------------------------------------------------------
\* The largest tensor first, ...

\* Of two tensors one is the larger, and what is larger than a larger one is larger.
LEMMA LargerOrder ==
  ASSUME shape \in Shapes, NEW i \in Tensors, NEW j \in Tensors, NEW k \in Tensors
  PROVE  /\ ~Larger(i, i) /\ (i = j \/ Larger(i, j) \/ Larger(j, i))
         /\ ~(Larger(i, j) /\ Larger(j, i))
         /\ (Larger(i, j) /\ Larger(j, k) => Larger(i, k))
<1>1. shape.chunks \in [Tensors -> Nat \ {0}]
  BY ShapeFacts
<1>2. i \in Nat /\ j \in Nat /\ k \in Nat
  BY DEF Tensors
<1>3. shape.chunks[i] \in Nat /\ shape.chunks[j] \in Nat /\ shape.chunks[k] \in Nat
  BY <1>1
<1> QED BY <1>2, <1>3 DEF Larger

\* ... in an order of all of them.
LEMMA BySizeFacts ==
  ASSUME shape \in Shapes
  PROVE  BySize \in [Tensors -> Tensors]
<1> DEFINE Above(x) == {y \in Tensors : Larger(y, x)}
           place == [x \in Tensors |-> Cardinality(Above(x)) + 1]
<1>1. NumTensors \in Nat /\ IsFiniteSet(Tensors) /\ Cardinality(Tensors) = NumTensors
  <2>1. NumTensors \in Nat \ {0}
    BY TransferAssumption
  <2>2. 1 \in Int /\ NumTensors \in Int /\ ~(1 > NumTensors) /\ NumTensors - 1 + 1 = NumTensors
    BY <2>1
  <2> QED BY <2>1, <2>2, FS_Interval DEF Tensors
<1>2. ASSUME NEW x \in Tensors
      PROVE  IsFiniteSet(Above(x)) /\ Cardinality(Above(x)) \in Nat
  <2>1. Above(x) \in SUBSET Tensors
    OBVIOUS
  <2> HIDE DEF Above
  <2> QED BY <1>1, <2>1, FS_Subset, FS_CardinalityType
<1>3. ASSUME NEW x \in Tensors, NEW y \in Tensors, Larger(x, y)
      PROVE  Cardinality(Above(x)) < Cardinality(Above(y))
  <2>1. Above(x) \in SUBSET Above(y) /\ x \in Above(y) /\ x \notin Above(x)
    BY <1>3, LargerOrder
  <2>2. /\ IsFiniteSet(Above(y)) /\ Cardinality(Above(y)) \in Nat
        /\ Cardinality(Above(x)) \in Nat
    BY <1>2
  <2> HIDE DEF Above
  <2>3. Cardinality(Above(x)) <= Cardinality(Above(y))
    BY <2>1, <2>2, FS_Subset
  <2>4. Cardinality(Above(y)) # Cardinality(Above(x))
    BY <2>1, <2>2, FS_Subset
  <2> QED BY <2>2, <2>3, <2>4
<1>4. ASSUME NEW x \in Tensors
      PROVE  place[x] \in Tensors
  <2>1. Above(x) \in SUBSET (Tensors \ {x})
    BY LargerOrder
  <2>2. IsFiniteSet(Tensors \ {x}) /\ Cardinality(Tensors \ {x}) = NumTensors - 1
    BY <1>1, FS_RemoveElement
  <2>3. place[x] = Cardinality(Above(x)) + 1
    OBVIOUS
  <2>4. Cardinality(Above(x)) \in Nat
    BY <1>2
  <2> HIDE DEF Above, place
  <2>5. Cardinality(Above(x)) <= NumTensors - 1
    BY <2>1, <2>2, FS_Subset
  <2> QED BY <1>1, <2>3, <2>4, <2>5 DEF Tensors
<1>5. ASSUME NEW x \in Tensors, NEW y \in Tensors, Larger(x, y)
      PROVE  place[x] < place[y]
  <2>1. /\ place[x] = Cardinality(Above(x)) + 1 /\ place[y] = Cardinality(Above(y)) + 1
        /\ Cardinality(Above(x)) \in Nat /\ Cardinality(Above(y)) \in Nat
    BY <1>2
  <2>2. Cardinality(Above(x)) < Cardinality(Above(y))
    BY <1>3, <1>5
  <2> HIDE DEF Above, place
  <2> QED BY <2>1, <2>2
<1>6. place \in [Tensors -> Tensors]
  <2>1. place = [x \in Tensors |-> place[x]]
    OBVIOUS
  <2> HIDE DEF place
  <2> QED BY <1>4, <2>1
<1> HIDE DEF place, Above
<1>7. \A x \in Tensors : place[x] \in Nat
  BY <1>6 DEF Tensors
<1>8. ASSUME NEW x \in Tensors, NEW y \in Tensors, place[x] = place[y]
      PROVE  x = y
  BY <1>5, <1>7, <1>8, LargerOrder
<1>9. place \in Injection(Tensors, Tensors)
  BY <1>6, <1>8 DEF Injection, IsInjective
<1>10. place \in Surjection(Tensors, Tensors)
  BY <1>1, <1>9, FS_Injection
<1>11. \A n \in Tensors : \E x \in Tensors : place[x] = n
  BY <1>10 DEF Surjection
<1> DEFINE order == [n \in Tensors |-> CHOOSE x \in Tensors : place[x] = n]
<1>12. ASSUME NEW n \in Tensors PROVE order[n] \in Tensors /\ place[order[n]] = n
  BY <1>11
<1>13. order \in [Tensors -> Tensors]
  <2>1. order = [n \in Tensors |-> order[n]]
    OBVIOUS
  <2> HIDE DEF order
  <2> QED BY <1>12, <2>1
<1>14. ASSUME NEW n \in Tensors, NEW m \in Tensors, n < m
       PROVE  Larger(order[n], order[m])
  <2>1. PICK x, y : x = order[n] /\ y = order[m]
    OBVIOUS
  <2>2. x \in Tensors /\ y \in Tensors /\ place[x] = n /\ place[y] = m
    BY <1>12, <2>1
  <2>3. n \in Nat /\ m \in Nat
    BY DEF Tensors
  <2>4. x # y /\ ~Larger(y, x)
    BY <1>5, <1>14, <2>2, <2>3
  <2>5. Larger(x, y)
    BY <2>2, <2>4, LargerOrder
  <2> HIDE DEF order
  <2> QED BY <2>1, <2>5
<1> HIDE DEF order
<1>15. \E s \in [Tensors -> Tensors] :
         \A n, m \in Tensors : n < m => Larger(s[n], s[m])
  BY <1>13, <1>14
<1> QED BY <1>15 DEF BySize

\* A row with the least of a load.
LEMMA LeastLoaded ==
  ASSUME shape \in Shapes, NEW load \in [Rows -> Nat]
  PROVE  \E o \in Rows : \A q \in Rows :
           load[o] < load[q] \/ (load[o] = load[q] /\ o <= q)
<1>1. /\ Rows \in SUBSET Nat /\ IsFiniteSet(Rows) /\ Rows # {}
  <2>1. shape.trainDP \in Nat \ {0}
    BY ShapeFacts
  <2>2. 0 \in Int /\ shape.trainDP - 1 \in Int /\ 0 \in 0 .. shape.trainDP - 1
    BY <2>1
  <2>3. IsFiniteSet(Rows)
    BY <2>2, FS_Interval DEF Rows
  <2> QED BY <2>1, <2>2, <2>3 DEF Rows
<1>2. PICK A : A = {load[o] : o \in Rows}
  OBVIOUS
<1>3. A \in SUBSET Nat /\ A # {} /\ IsFiniteSet(A)
  <2>1. A \in SUBSET Nat /\ A # {}
    BY <1>1, <1>2
  <2>2. load \in Surjection(Rows, A)
    BY <1>2 DEF Surjection
  <2>3. IsFiniteSet(A)
    BY <1>1, <2>2, FS_Surjection
  <2> QED BY <2>1, <2>3
<1>4. PICK a \in A : \A b \in A : a <= b
  BY <1>3, LeastNat
<1>5. PICK B : B = {o \in Rows : load[o] = a}
  OBVIOUS
<1>6. B \in SUBSET Nat /\ B # {} /\ IsFiniteSet(B)
  <2>1. B \in SUBSET Rows
    BY <1>5
  <2>2. B # {}
    BY <1>2, <1>4, <1>5
  <2> QED BY <1>1, <2>1, <2>2, FS_Subset
<1>7. PICK o \in B : \A q \in B : o <= q
  BY <1>6, LeastNat
<1>8. o \in Rows /\ load[o] = a
  BY <1>5
<1>9. ASSUME NEW q \in Rows
      PROVE  load[o] < load[q] \/ (load[o] = load[q] /\ o <= q)
  <2>1. load[o] <= load[q] /\ load[o] \in Nat /\ load[q] \in Nat
    BY <1>2, <1>4, <1>8
  <2>2. load[q] = load[o] => o <= q
    BY <1>5, <1>7, <1>8
  <2> QED BY <2>1, <2>2
<1> QED BY <1>8, <1>9

\* Assigning a tensor keeps the loads numbers and the owners rows.
LEMMA GiveFacts ==
  ASSUME shape \in Shapes, NEW given, NEW i \in Tensors,
         given = [load |-> given.load, owner |-> given.owner],
         given.load \in [Rows -> Nat], given.owner \in [Tensors -> Rows]
  PROVE  /\ Give(given, i) = [load |-> Give(given, i).load, owner |-> Give(given, i).owner]
         /\ Give(given, i).load \in [Rows -> Nat]
         /\ Give(given, i).owner \in [Tensors -> Rows]
<1> DEFINE least == CHOOSE o \in Rows : \A q \in Rows :
             given.load[o] < given.load[q] \/ (given.load[o] = given.load[q] /\ o <= q)
<1>1. least \in Rows
  <2>1. PICK load : load = given.load
    OBVIOUS
  <2>2. \E o \in Rows : \A q \in Rows :
           load[o] < load[q] \/ (load[o] = load[q] /\ o <= q)
    BY <2>1, LeastLoaded
  <2> QED BY <2>1, <2>2
<1>2. Give(given, i) = [load |-> [given.load EXCEPT ![least] = @ + shape.chunks[i]],
                        owner |-> [given.owner EXCEPT ![i] = least]]
  BY DEF Give
<1> HIDE DEF least
<1>3. shape.chunks[i] \in Nat
  BY ShapeFacts
<1>4. [given.load EXCEPT ![least] = @ + shape.chunks[i]] \in [Rows -> Nat]
  <2>1. given.load[least] + shape.chunks[i] \in Nat
    BY <1>1, <1>3
  <2> QED BY <1>1, <2>1
<1>5. [given.owner EXCEPT ![i] = least] \in [Tensors -> Rows]
  BY <1>1
<1> QED BY <1>2, <1>4, <1>5

\* Every tensor is owned by a row.
LEMMA OwnersFacts ==
  ASSUME shape \in Shapes
  PROVE  Owners \in [Tensors -> Rows]
<1> DEFINE N == NumTensors
           none == [load |-> [o \in Rows |-> 0], owner |-> [i \in Tensors |-> 0]]
           Step(f, n) == IF n = 0 THEN none ELSE Give(f[n - 1], BySize[n])
           Typed(g) == /\ g = [load |-> g.load, owner |-> g.owner]
                       /\ g.load \in [Rows -> Nat] /\ g.owner \in [Tensors -> Rows]
           Good(f, n) == f = [m \in 0 .. n |-> Step(f, m)]
           P == {n \in 0 .. N : \E f : Good(f, n)}
<1>1. N \in Nat \ {0}
  BY TransferAssumption
<1>2. Typed(none)
  <2>1. 0 \in Rows
    <3>1. shape.trainDP \in Nat \ {0}
      BY ShapeFacts
    <3> QED BY <3>1 DEF Rows
  <2> QED BY <2>1
<1> HIDE DEF N, none
<1>3. 0 \in P
  <2>1. PICK f : f = [m \in 0 .. 0 |-> none]
    OBVIOUS
  <2>2. f = [m \in 0 .. 0 |-> Step(f, m)]
    BY <2>1
  <2> QED BY <1>1, <2>2
<1>4. ASSUME NEW n \in 0 .. N, n < N, n \in P PROVE n + 1 \in P
  <2>1. PICK f : Good(f, n)
    BY <1>4
  <2> DEFINE x == Give(f[n], BySize[n + 1])
             g == [m \in 0 .. n + 1 |-> IF m = n + 1 THEN x ELSE f[m]]
  <2> HIDE DEF x
  <2>2. n \in Nat /\ n + 1 \in 0 .. N
    BY <1>1, <1>4
  <2>3. ASSUME NEW m \in 0 .. n + 1 PROVE g[m] = Step(g, m)
    <3>1. CASE m = n + 1
      <4>1. m # 0 /\ m - 1 = n /\ n \in 0 .. n + 1 /\ n # n + 1
        BY <2>2, <3>1
      <4>2. g[n] = f[n] /\ g[m] = x
        BY <3>1, <4>1
      <4> QED BY <3>1, <4>1, <4>2 DEF x
    <3>2. CASE m # n + 1
      <4>1. m \in 0 .. n /\ m \in Nat
        BY <2>2, <3>2
      <4>2. m # 0 => m - 1 \in 0 .. n + 1 /\ m - 1 # n + 1
        BY <2>2, <4>1
      <4>3. g[m] = f[m] /\ (m # 0 => g[m - 1] = f[m - 1])
        BY <3>2, <4>2
      <4>4. f[m] = Step(f, m)
        BY <2>1, <4>1
      <4> QED BY <4>3, <4>4
    <3> QED BY <3>1, <3>2
  <2>4. Good(g, n + 1)
    <3> DEFINE h == [m \in 0 .. n + 1 |-> Step(g, m)]
    <3>1. \A m \in 0 .. n + 1 : g[m] = h[m]
      BY <2>3
    <3>2. g = [m \in 0 .. n + 1 |-> g[m]] /\ h = [m \in 0 .. n + 1 |-> h[m]]
      OBVIOUS
    <3> HIDE DEF g, h
    <3>3. g = h
      BY <3>1, <3>2
    <3> QED BY <3>3 DEF h
  <2> HIDE DEF g, Good
  <2> QED BY <2>2, <2>4
<1>5. P = 0 .. N
  <2> HIDE DEF P
  <2>1. P \in SUBSET (0 .. N)
    BY DEF P
  <2> QED BY <1>1, <1>3, <1>4, <2>1, UpTo
<1>6. \E f : f = [n \in 0 .. N |-> Step(f, n)]
  <2>1. N \in 0 .. N
    BY <1>1
  <2>2. N \in P
    <3> HIDE DEF P
    <3> QED BY <1>5, <2>1
  <2> QED BY <2>2
<1>7. PICK f : f = [n \in 0 .. N |-> Step(f, n)] /\ Owners = f[N].owner
  <2>1. PICK c : c = CHOOSE f : f = [n \in 0 .. N |-> Step(f, n)]
    OBVIOUS
  <2>2. c = [n \in 0 .. N |-> Step(c, n)]
    BY <1>6, <2>1
  <2>3. Owners = c[N].owner
    BY <2>1 DEF Owners, N, none
  <2> QED BY <2>2, <2>3
<1> DEFINE T == {n \in 0 .. N : Typed(f[n])}
<1>8. 0 \in T
  <2>1. f[0] = none
    BY <1>1, <1>7
  <2>2. Typed(f[0])
    <3> HIDE DEF Typed
    <3> QED BY <1>2, <2>1
  <2>3. 0 \in 0 .. N
    BY <1>1
  <2> HIDE DEF Typed
  <2> QED BY <2>2, <2>3
<1>9. ASSUME NEW n \in 0 .. N, n < N, n \in T PROVE n + 1 \in T
  <2>1. n + 1 \in 0 .. N /\ n + 1 \in Tensors /\ n + 1 # 0 /\ (n + 1) - 1 = n
    BY <1>1, <1>9 DEF Tensors, N
  <2>2. f[n + 1] = Give(f[n], BySize[n + 1])
    <3>1. \A m \in 0 .. N : f[m] = Step(f, m)
      BY <1>7
    <3> QED BY <2>1, <3>1
  <2>3. BySize[n + 1] \in Tensors
    BY <2>1, BySizeFacts
  <2>4. PICK g, i : g = f[n] /\ i = BySize[n + 1]
    OBVIOUS
  <2>5. /\ g = [load |-> g.load, owner |-> g.owner]
        /\ g.load \in [Rows -> Nat] /\ g.owner \in [Tensors -> Rows] /\ i \in Tensors
    BY <1>9, <2>3, <2>4
  <2>6. PICK e : e = Give(g, i)
    OBVIOUS
  <2>7. e = [load |-> e.load, owner |-> e.owner]
    BY <2>5, <2>6, GiveFacts
  <2>8. e.load \in [Rows -> Nat]
    BY <2>5, <2>6, GiveFacts
  <2>9. e.owner \in [Tensors -> Rows]
    BY <2>5, <2>6, GiveFacts
  <2>10. f[n + 1] = e
    BY <2>2, <2>4, <2>6
  <2>11. Typed(f[n + 1])
    BY <2>7, <2>8, <2>9, <2>10
  <2> HIDE DEF Typed
  <2> QED BY <2>1, <2>11
<1>10. T = 0 .. N
  <2> HIDE DEF T
  <2>1. T \in SUBSET (0 .. N)
    BY DEF T
  <2> QED BY <1>1, <1>8, <1>9, <2>1, UpTo
<1>11. Typed(f[N])
  <2>1. N \in 0 .. N
    BY <1>1
  <2>2. N \in T
    <3> HIDE DEF T
    <3> QED BY <1>10, <2>1
  <2> QED BY <2>2
<1> QED BY <1>7, <1>11

-----------------------------------------------------------------------------
\* The steps of a rank.

Tasks == [group : Groups, owner : Rows, tensor : Tensors, chunk : Nat \ {0}]

Task(g, o, i, k) == [group |-> g, owner |-> o, tensor |-> i, chunk |-> k]

\* Tensors in order, the chunks of a tensor in order, and for a chunk the
\* reduction, the relay, the row, the column.
Phase(g) ==
  CASE g[1] = "reduce" -> 1 [] g[1] = "relay" -> 2 [] g[1] = "row" -> 3 [] g[1] = "column" -> 4

Before(e, f) ==
  \/ e.tensor < f.tensor
  \/ e.tensor = f.tensor /\ e.chunk < f.chunk
  \/ e.tensor = f.tensor /\ e.chunk = f.chunk /\ Phase(e.group) < Phase(f.group)

Order == {p \in Tasks \X Tasks : Before(p[1], p[2])}

\* The groups the chunks of row o's tensors go through.
Used(o) ==
  {g \in Groups : \/ g = <<"reduce", o>> /\ shape.trainTP > 1
                  \/ g = <<"relay", o>>
                  \/ g = <<"row", DPRank(Bridge(o))>> /\ shape.rolloutTP > 1
                  \/ g[1] = "column" /\ shape.rolloutDP > 1}

\* What a rank has to do for one chunk of tensor i of row o.
Mine(r, o, i, k) ==
  {e \in Tasks : /\ e.owner = o /\ e.tensor = i /\ e.chunk = k
                 /\ e.group \in Used(o) /\ r \in Members(e.group)}

\* A relay of every row has been chosen.
Linked == \A o \in Rows : relay[o] \in Relays(o)

\* A group is a kind and a number.
LEMMA GroupFacts ==
  ASSUME NEW g \in Groups
  PROVE  /\ g = <<g[1], g[2]>> /\ g[1] \in {"reduce", "relay", "row", "column"}
         /\ (g[1] \in {"reduce", "relay"} => g[2] \in Rows)
         /\ (g[1] = "row" => g[2] \in 0 .. shape.rolloutDP - 1)
         /\ (g[1] = "column" => g[2] \in 0 .. shape.rolloutTP - 1)
         /\ Phase(g) \in 1 .. 4
BY DEF Groups, Phase

\* Who is in a group of each kind.
LEMMA MembersOf ==
  ASSUME NEW r, NEW x
  PROVE  /\ r \in Members(<<"reduce", x>>) <=> r \in TrainRanks /\ DPRank(r) = x
         /\ r \in Members(<<"relay", x>>) <=> r = Source(x) \/ r = Bridge(x)
         /\ r \in Members(<<"row", x>>) <=> r \in RolloutRanks /\ DPRank(r) = x
         /\ r \in Members(<<"column", x>>) <=> r \in RolloutRanks /\ TPRank(r) = x
BY DEF Members

\* The place of each kind within a chunk.
LEMMA PhaseOf ==
  ASSUME NEW x
  PROVE  /\ Phase(<<"reduce", x>>) = 1 /\ Phase(<<"relay", x>>) = 2
         /\ Phase(<<"row", x>>) = 3 /\ Phase(<<"column", x>>) = 4
BY DEF Phase

\* The source of a row is one of its ranks, the bridge a rollout rank.
LEMMA LinkFacts ==
  ASSUME shape \in Shapes, Linked, NEW o \in Rows
  PROVE  /\ Source(o) \in TrainRanks /\ DPRank(Source(o)) = o /\ Bridge(o) \in RolloutRanks
         /\ Bridge(o) \notin TrainRanks /\ Source(o) \notin RolloutRanks
         /\ TPRank(Bridge(o)) \in 0 .. shape.rolloutTP - 1
         /\ DPRank(Bridge(o)) \in 0 .. shape.rolloutDP - 1
<1>1. relay[o] \in TrainRanks \X RolloutRanks /\ DPRank(relay[o][1]) = o
  BY DEF Linked, Relays
<1>2. Source(o) \in TrainRanks /\ DPRank(Source(o)) = o /\ Bridge(o) \in RolloutRanks
  BY <1>1 DEF Source, Bridge
<1>3. Source(o) \notin RolloutRanks
  BY <1>2, TrainPlace
<1> QED BY <1>2, <1>3, RolloutPlace

\* A list of at most one task.
LEMMA WhenFacts ==
  ASSUME NEW e \in Tasks, NEW s, NEW c \in BOOLEAN, s = IF c THEN <<e>> ELSE <<>>
  PROVE  /\ s \in Seq(Tasks) /\ Ordered(Order, s)
         /\ \A x : x \in ToSet(s) <=> (x = e /\ c)
<1>1. CASE c
  <2>1. s = <<e>>
    BY <1>1
  <2>2. <<e>> \in Seq(Tasks) /\ DOMAIN <<e>> = {1}
    OBVIOUS
  <2>3. Ordered(Order, <<e>>)
    BY <2>2 DEF Ordered
  <2>4. ToSet(<<e>>) = {e}
    BY <2>2 DEF ToSet
  <2> QED BY <1>1, <2>1, <2>2, <2>3, <2>4
<1>2. CASE ~c
  <2>1. s = <<>>
    BY <1>2
  <2>2. DOMAIN <<>> = {}
    OBVIOUS
  <2>3. <<>> \in Seq(Tasks) /\ Ordered(Order, <<>>)
    BY <2>2 DEF Ordered
  <2>4. ToSet(<<>>) = {}
    BY <2>2 DEF ToSet
  <2> QED BY <1>2, <2>1, <2>3, <2>4
<1> QED BY <1>1, <1>2

\* For a chunk a rank does in order what it has to do for it.
LEMMA StepsFacts ==
  ASSUME shape \in Shapes, Linked, NEW r \in Ranks, NEW o \in Rows, NEW i \in Tensors,
         NEW k \in Nat \ {0}
  PROVE  /\ Steps(r, o, i, k) \in Seq(Tasks) /\ Ordered(Order, Steps(r, o, i, k))
         /\ ToSet(Steps(r, o, i, k)) = Mine(r, o, i, k)
<1> DEFINE T(g) == Task(g, o, i, k)
           W(c, g) == IF c THEN <<T(g)>> ELSE <<>>
<1>1. ASSUME NEW g \in Groups
      PROVE  T(g) \in Tasks /\ T(g).group = g /\ T(g).owner = o /\ T(g).tensor = i /\ T(g).chunk = k
  BY DEF Task, Tasks
<1>2. ASSUME NEW g \in Groups, NEW h \in Groups, Phase(g) < Phase(h)
      PROVE  <<T(g), T(h)>> \in Order
  BY <1>1, <1>2 DEF Order, Before
<1>3. Mine(r, o, i, k) = {T(g) : g \in {h \in Used(o) : r \in Members(h)}}
  <2>1. ASSUME NEW e \in Mine(r, o, i, k)
        PROVE  e = T(e.group) /\ e.group \in Used(o) /\ r \in Members(e.group)
    BY DEF Mine, Tasks, Task
  <2>2. ASSUME NEW g \in Used(o), r \in Members(g)
        PROVE  T(g) \in Mine(r, o, i, k)
    <3>1. g \in Groups
      BY DEF Used
    <3> HIDE DEF T
    <3> QED BY <1>1, <2>2, <3>1 DEF Mine
  <2> HIDE DEF T
  <2> QED BY <2>1, <2>2
<1> HIDE DEF T
<1>w. ASSUME NEW g \in Groups, NEW c \in BOOLEAN
      PROVE  /\ W(c, g) \in Seq(Tasks) /\ Ordered(Order, W(c, g))
             /\ \A x : x \in ToSet(W(c, g)) <=> (x = T(g) /\ c)
  <2>1. PICK s, e : s = W(c, g) /\ e = T(g)
    OBVIOUS
  <2>2. e \in Tasks /\ s = IF c THEN <<e>> ELSE <<>>
    BY <1>1, <2>1
  <2> QED BY <2>1, <2>2, WhenFacts
<1>4. /\ {<<"reduce", o>>, <<"relay", o>>} \subseteq Groups
      /\ \A d \in 0 .. shape.rolloutDP - 1 : <<"row", d>> \in Groups
      /\ \A t \in 0 .. shape.rolloutTP - 1 : <<"column", t>> \in Groups
  BY DEF Groups
<1>5. /\ Source(o) \in TrainRanks /\ DPRank(Source(o)) = o /\ Bridge(o) \in RolloutRanks
      /\ Bridge(o) \notin TrainRanks /\ Source(o) \notin RolloutRanks
      /\ DPRank(Bridge(o)) \in 0 .. shape.rolloutDP - 1
  BY LinkFacts
<1>m. r \in Members(<<"relay", o>>) <=> (r = Source(o) \/ r = Bridge(o))
  BY MembersOf, Zenon
<1>n. ASSUME NEW g \in Groups, g[1] = "row"
      PROVE  r \in Members(g) <=> (r \in RolloutRanks /\ DPRank(r) = g[2])
  <2>1. g = <<"row", g[2]>>
    BY <1>n, GroupFacts
  <2>2. r \in Members(<<"row", g[2]>>) <=> (r \in RolloutRanks /\ DPRank(r) = g[2])
    BY MembersOf, Zenon
  <2> QED BY <2>1, <2>2
<1>p. ASSUME NEW g \in Groups, g[1] = "column"
      PROVE  r \in Members(g) <=> (r \in RolloutRanks /\ TPRank(r) = g[2])
  <2>1. g = <<"column", g[2]>>
    BY <1>p, GroupFacts
  <2>2. r \in Members(<<"column", g[2]>>) <=> (r \in RolloutRanks /\ TPRank(r) = g[2])
    BY MembersOf, Zenon
  <2> QED BY <2>1, <2>2
<1>6. CASE r \in TrainRanks /\ DPRank(r) # o
  <2>1. Steps(r, o, i, k) = <<>>
    BY <1>6 DEF Steps
  <2>2. DOMAIN <<>> = {}
    OBVIOUS
  <2>3. <<>> \in Seq(Tasks) /\ Ordered(Order, <<>>)
    BY <2>2 DEF Ordered
  <2>4. ToSet(<<>>) = {}
    BY <2>2 DEF ToSet
  <2>5. ASSUME NEW g \in Used(o), r \in Members(g) PROVE FALSE
    <3>1. g \in Groups
      BY DEF Used
    <3>2. r \notin RolloutRanks
      BY <1>6, TrainPlace
    <3>3. CASE g = <<"reduce", o>>
      BY <1>6, <2>5, <3>3, MembersOf
    <3>4. CASE g = <<"relay", o>>
      BY <1>m, <1>5, <1>6, <2>5, <3>2, <3>4
    <3>5. CASE g[1] \in {"row", "column"}
      BY <1>n, <1>p, <2>5, <3>1, <3>2, <3>5
    <3> QED BY <3>1, <3>3, <3>4, <3>5 DEF Used
  <2>6. Mine(r, o, i, k) = {}
    BY <1>3, <2>5
  <2> QED BY <2>1, <2>3, <2>4, <2>6
<1>7. CASE r \in TrainRanks /\ DPRank(r) = o
  <2>1. PICK a, b : a = W(shape.trainTP > 1, <<"reduce", o>>)
                    /\ b = W(r = Source(o), <<"relay", o>>)
    OBVIOUS
  <2>2. Steps(r, o, i, k) = a \o b
    BY <1>7, <2>1 DEF Steps, When, Task, T
  <2>3. a \in Seq(Tasks) /\ Ordered(Order, a)
        /\ \A x : x \in ToSet(a) <=> (x = T(<<"reduce", o>>) /\ shape.trainTP > 1)
    <3>1. CASE shape.trainTP > 1
      <4>1. a = W(TRUE, <<"reduce", o>>)
        BY <2>1, <3>1
      <4> HIDE DEF W
      <4> QED BY <1>4, <1>w, <3>1, <4>1
    <3>2. CASE ~(shape.trainTP > 1)
      <4>1. a = W(FALSE, <<"reduce", o>>)
        BY <2>1, <3>2
      <4> HIDE DEF W
      <4> QED BY <1>4, <1>w, <3>2, <4>1
    <3> QED BY <3>1, <3>2
  <2>4. b \in Seq(Tasks) /\ Ordered(Order, b)
        /\ \A x : x \in ToSet(b) <=> (x = T(<<"relay", o>>) /\ r = Source(o))
    <3>1. CASE r = Source(o)
      <4>1. b = W(TRUE, <<"relay", o>>)
        BY <2>1, <3>1
      <4> HIDE DEF W
      <4> QED BY <1>4, <1>w, <3>1, <4>1
    <3>2. CASE ~(r = Source(o))
      <4>1. b = W(FALSE, <<"relay", o>>)
        BY <2>1, <3>2
      <4> HIDE DEF W
      <4> QED BY <1>4, <1>w, <3>2, <4>1
    <3> QED BY <3>1, <3>2
  <2>5. \A x \in ToSet(a), y \in ToSet(b) : <<x, y>> \in Order
    <3>1. <<T(<<"reduce", o>>), T(<<"relay", o>>)>> \in Order
      <4>1. Phase(<<"reduce", o>>) = 1 /\ Phase(<<"relay", o>>) = 2
        BY PhaseOf
      <4> QED BY <1>2, <1>4, <4>1
    <3> QED BY <2>3, <2>4, <3>1
  <2>6. /\ a \o b \in Seq(Tasks) /\ Ordered(Order, a \o b)
        /\ ToSet(a \o b) = ToSet(a) \cup ToSet(b)
    BY <2>3, <2>4, <2>5, ConcatOrdered
  <2>7. ASSUME NEW g
        PROVE  (g \in Used(o) /\ r \in Members(g)) <=>
                 \/ g = <<"reduce", o>> /\ shape.trainTP > 1
                 \/ g = <<"relay", o>> /\ r = Source(o)
    <3>1. r \notin RolloutRanks
      BY <1>7, TrainPlace
    <3>2. r \in Members(<<"reduce", o>>)
      BY <1>7, MembersOf
    <3>3. r \in Members(<<"relay", o>>) <=> r = Source(o)
      BY <1>m, <1>5, <1>7
    <3>4. ASSUME g \in Groups, g[1] \in {"row", "column"} PROVE r \notin Members(g)
      BY <1>n, <1>p, <3>1, <3>4
    <3>5. g \in Used(o) => \/ g = <<"reduce", o>> /\ shape.trainTP > 1
                           \/ g = <<"relay", o>>
                           \/ g \in Groups /\ g[1] \in {"row", "column"}
      BY DEF Used
    <3>6. (g = <<"reduce", o>> /\ shape.trainTP > 1) \/ g = <<"relay", o>> => g \in Used(o)
      BY <1>4 DEF Used
    <3> QED BY <3>2, <3>3, <3>4, <3>5, <3>6
  <2>8. Mine(r, o, i, k) = ToSet(a) \cup ToSet(b)
    <3>1. ASSUME NEW e \in Mine(r, o, i, k) PROVE e \in ToSet(a) \cup ToSet(b)
      BY <1>3, <2>3, <2>4, <2>7
    <3>2. ASSUME NEW e \in ToSet(a) \cup ToSet(b) PROVE e \in Mine(r, o, i, k)
      BY <1>3, <2>3, <2>4, <2>7
    <3> QED BY <3>1, <3>2
  <2> QED BY <2>2, <2>6, <2>8
<1>8. CASE r \in RolloutRanks
  <2> DEFINE onRow == DPRank(r) = DPRank(Bridge(o)) /\ shape.rolloutTP > 1
             row == <<"row", DPRank(r)>>
             column == <<"column", TPRank(r)>>
  <2>1. PICK a, b, c : a = W(r = Bridge(o), <<"relay", o>>) /\ b = W(onRow, row)
                       /\ c = W(shape.rolloutDP > 1, column)
    OBVIOUS
  <2>2. r \notin TrainRanks /\ row \in Groups /\ column \in Groups
    BY <1>4, <1>8, RolloutPlace
  <2> HIDE DEF row, column, onRow
  <2>3. Steps(r, o, i, k) = (a \o b) \o c
    BY <2>1, <2>2 DEF Steps, When, Task, T, row, column, onRow
  <2>4. a \in Seq(Tasks) /\ Ordered(Order, a)
        /\ \A x : x \in ToSet(a) <=> (x = T(<<"relay", o>>) /\ r = Bridge(o))
    <3>1. CASE r = Bridge(o)
      <4>1. a = W(TRUE, <<"relay", o>>)
        BY <2>1, <3>1
      <4> HIDE DEF W
      <4> QED BY <1>4, <1>w, <3>1, <4>1
    <3>2. CASE ~(r = Bridge(o))
      <4>1. a = W(FALSE, <<"relay", o>>)
        BY <2>1, <3>2
      <4> HIDE DEF W
      <4> QED BY <1>4, <1>w, <3>2, <4>1
    <3> QED BY <3>1, <3>2
  <2>5. b \in Seq(Tasks) /\ Ordered(Order, b)
        /\ \A x : x \in ToSet(b) <=> (x = T(row) /\ onRow)
    <3>1. CASE onRow
      <4>1. b = W(TRUE, row)
        BY <2>1, <3>1
      <4> HIDE DEF W
      <4> QED BY <2>2, <1>w, <3>1, <4>1
    <3>2. CASE ~(onRow)
      <4>1. b = W(FALSE, row)
        BY <2>1, <3>2
      <4> HIDE DEF W
      <4> QED BY <2>2, <1>w, <3>2, <4>1
    <3> QED BY <3>1, <3>2
  <2>6. c \in Seq(Tasks) /\ Ordered(Order, c)
        /\ \A x : x \in ToSet(c) <=> (x = T(column) /\ shape.rolloutDP > 1)
    <3>1. CASE shape.rolloutDP > 1
      <4>1. c = W(TRUE, column)
        BY <2>1, <3>1
      <4> HIDE DEF W
      <4> QED BY <2>2, <1>w, <3>1, <4>1
    <3>2. CASE ~(shape.rolloutDP > 1)
      <4>1. c = W(FALSE, column)
        BY <2>1, <3>2
      <4> HIDE DEF W
      <4> QED BY <2>2, <1>w, <3>2, <4>1
    <3> QED BY <3>1, <3>2
  <2>7. /\ <<T(<<"relay", o>>), T(row)>> \in Order /\ <<T(<<"relay", o>>), T(column)>> \in Order
        /\ <<T(row), T(column)>> \in Order
    <3>1. Phase(<<"relay", o>>) = 2 /\ Phase(row) = 3 /\ Phase(column) = 4
      BY PhaseOf DEF row, column
    <3> QED BY <1>2, <1>4, <2>2, <3>1
  <2>8. /\ a \o b \in Seq(Tasks) /\ Ordered(Order, a \o b)
        /\ ToSet(a \o b) = ToSet(a) \cup ToSet(b)
    <3>1. \A x \in ToSet(a), y \in ToSet(b) : <<x, y>> \in Order
      BY <2>4, <2>5, <2>7
    <3> QED BY <2>4, <2>5, <3>1, ConcatOrdered
  <2>9. /\ (a \o b) \o c \in Seq(Tasks) /\ Ordered(Order, (a \o b) \o c)
        /\ ToSet((a \o b) \o c) = (ToSet(a) \cup ToSet(b)) \cup ToSet(c)
    <3>1. PICK s : s = a \o b
      OBVIOUS
    <3>2. s \in Seq(Tasks) /\ Ordered(Order, s) /\ ToSet(s) = ToSet(a) \cup ToSet(b)
      BY <2>8, <3>1
    <3>3. \A x \in ToSet(s), y \in ToSet(c) : <<x, y>> \in Order
      BY <2>4, <2>5, <2>6, <2>7, <3>2
    <3>4. s \o c \in Seq(Tasks) /\ Ordered(Order, s \o c)
          /\ ToSet(s \o c) = ToSet(s) \cup ToSet(c)
      BY <2>6, <3>2, <3>3, ConcatOrdered
    <3> QED BY <3>1, <3>2, <3>4
  <2>10. ASSUME NEW g
         PROVE  (g \in Used(o) /\ r \in Members(g)) <=>
                  \/ g = <<"relay", o>> /\ r = Bridge(o)
                  \/ g = row /\ onRow
                  \/ g = column /\ shape.rolloutDP > 1
    <3>1. r \in Members(<<"relay", o>>) <=> r = Bridge(o)
      BY <1>m, <1>5, <1>8
    <3>2. r \notin Members(<<"reduce", o>>)
      BY <2>2, MembersOf
    <3>3. ASSUME g \in Groups, g[1] = "row" PROVE r \in Members(g) <=> g = row
      <4>1. g = <<"row", g[2]>>
        BY <3>3, GroupFacts
      <4>2. r \in Members(<<"row", g[2]>>) <=> DPRank(r) = g[2]
        BY <1>8, MembersOf
      <4> QED BY <4>1, <4>2 DEF row
    <3>4. ASSUME g \in Groups, g[1] = "column" PROVE r \in Members(g) <=> g = column
      <4>1. g = <<"column", g[2]>>
        BY <3>4, GroupFacts
      <4>2. r \in Members(<<"column", g[2]>>) <=> TPRank(r) = g[2]
        BY <1>8, MembersOf
      <4> QED BY <4>1, <4>2 DEF column
    <3>5. g \in Used(o) <=>
            /\ g \in Groups
            /\ \/ g = <<"reduce", o>> /\ shape.trainTP > 1
               \/ g = <<"relay", o>>
               \/ g = <<"row", DPRank(Bridge(o))>> /\ shape.rolloutTP > 1
               \/ g[1] = "column" /\ shape.rolloutDP > 1
      BY DEF Used
    <3>6. row[1] = "row" /\ column[1] = "column" /\ <<"row", DPRank(Bridge(o))>>[1] = "row"
          /\ (row = <<"row", DPRank(Bridge(o))>> <=> DPRank(r) = DPRank(Bridge(o)))
      BY DEF row, column
    <3> QED BY <1>4, <2>2, <3>1, <3>2, <3>3, <3>4, <3>5, <3>6 DEF onRow
  <2>11. Mine(r, o, i, k) = (ToSet(a) \cup ToSet(b)) \cup ToSet(c)
    <3>1. ASSUME NEW e \in Mine(r, o, i, k) PROVE e \in (ToSet(a) \cup ToSet(b)) \cup ToSet(c)
      BY <1>3, <2>4, <2>5, <2>6, <2>10
    <3>2. ASSUME NEW e \in (ToSet(a) \cup ToSet(b)) \cup ToSet(c) PROVE e \in Mine(r, o, i, k)
      BY <1>3, <2>4, <2>5, <2>6, <2>10
    <3> QED BY <3>1, <3>2
  <2> QED BY <2>3, <2>9, <2>11
<1> QED BY <1>6, <1>7, <1>8 DEF Ranks

\* What a rank has to do for all tensors.
Duties(r, own) ==
  {e \in Tasks : /\ e.owner = own[e.tensor] /\ e.chunk \in 1 .. shape.chunks[e.tensor]
                 /\ e.group \in Used(e.owner) /\ r \in Members(e.group)}

\* A rank's program is what it has to do, in order.
LEMMA WalkFacts ==
  ASSUME shape \in Shapes, Linked, NEW r \in Ranks, NEW own \in [Tensors -> Rows]
  PROVE  /\ Walk(r, InOrder, own) \in Seq(Tasks) /\ Ordered(Order, Walk(r, InOrder, own))
         /\ ToSet(Walk(r, InOrder, own)) = Duties(r, own)
<1> DEFINE inner(n) == [k \in 1 .. shape.chunks[n] |-> Steps(r, own[n], n, k)]
           outer == [n \in 1 .. NumTensors |-> FlattenSeq(inner(n))]
           C(n) == UNION {Mine(r, own[n], n, k) : k \in 1 .. shape.chunks[n]}
<1>1. /\ NumTensors \in Nat \ {0} /\ Tensors = 1 .. NumTensors
      /\ \A n \in Tensors : shape.chunks[n] \in Nat \ {0} /\ own[n] \in Rows
  BY ShapeFacts, TransferAssumption DEF Tensors
<1>2. Walk(r, InOrder, own) = FlattenSeq(outer)
  BY <1>1 DEF Walk, InOrder
<1>3. ASSUME NEW n \in Tensors
      PROVE  /\ FlattenSeq(inner(n)) \in Seq(Tasks) /\ Ordered(Order, FlattenSeq(inner(n)))
             /\ \A e : e \in ToSet(FlattenSeq(inner(n))) <=> e \in C(n)
  <2>1. PICK K, ss : K = shape.chunks[n] /\ ss = [k \in 1 .. K |-> Steps(r, own[n], n, k)]
    OBVIOUS
  <2>2. K \in Nat \ {0} /\ own[n] \in Rows
    BY <1>1, <2>1
  <2>3. ASSUME NEW k \in 1 .. K
        PROVE  ss[k] \in Seq(Tasks) /\ Ordered(Order, ss[k]) /\ ToSet(ss[k]) = Mine(r, own[n], n, k)
    <3>1. ss[k] = Steps(r, own[n], n, k)
      BY <2>1
    <3>2. k \in Nat \ {0}
      BY <2>2
    <3>3. PICK o : o = own[n]
      OBVIOUS
    <3>4. /\ Steps(r, o, n, k) \in Seq(Tasks) /\ Ordered(Order, Steps(r, o, n, k))
          /\ ToSet(Steps(r, o, n, k)) = Mine(r, o, n, k)
      BY <2>2, <3>2, <3>3, StepsFacts
    <3> QED BY <3>1, <3>3, <3>4
  <2>4. ss \in [1 .. K -> Seq(Tasks)]
    BY <2>1, <2>3
  <2>5. ASSUME NEW k \in 1 .. K, NEW m \in 1 .. K, k < m,
               NEW x \in ToSet(ss[k]), NEW y \in ToSet(ss[m])
        PROVE  <<x, y>> \in Order
    <3>1. x \in Mine(r, own[n], n, k) /\ y \in Mine(r, own[n], n, m)
      BY <2>3
    <3>2. x \in Tasks /\ y \in Tasks /\ x.tensor = y.tensor /\ x.chunk < y.chunk
      BY <2>5, <3>1 DEF Mine
    <3> QED BY <3>2 DEF Order, Before
  <2>6. /\ FlattenSeq(ss) \in Seq(Tasks) /\ Ordered(Order, FlattenSeq(ss))
        /\ \A x : x \in ToSet(FlattenSeq(ss)) <=> \E k \in 1 .. K : x \in ToSet(ss[k])
    <3>1. \A k \in 1 .. K : Ordered(Order, ss[k])
      BY <2>3
    <3>2. \A k, m \in 1 .. K : k < m =>
            \A x \in ToSet(ss[k]), y \in ToSet(ss[m]) : <<x, y>> \in Order
      BY <2>5
    <3>3. Collects(FlattenSeq(ss), Tasks, Order, K, ss)
      BY <2>2, <2>4, <3>1, <3>2, FlattenOrdered
    <3> QED BY <3>3 DEF Collects
  <2>7. ss = inner(n)
    BY <2>1
  <2>8. ASSUME NEW e PROVE (\E k \in 1 .. K : e \in ToSet(ss[k])) <=> e \in C(n)
    BY <2>1, <2>3
  <2> QED BY <2>6, <2>7, <2>8
<1> HIDE DEF inner
<1>4. \A n \in 1 .. NumTensors : outer[n] = FlattenSeq(inner(n))
  OBVIOUS
<1>5. outer \in [1 .. NumTensors -> Seq(Tasks)]
  BY <1>1, <1>3
<1> HIDE DEF outer
<1>6. ASSUME NEW n \in 1 .. NumTensors, NEW e \in ToSet(outer[n])
      PROVE  e \in Tasks /\ e.tensor = n
  <2>1. e \in C(n)
    BY <1>1, <1>3, <1>4
  <2> QED BY <2>1 DEF Mine
<1>7. ASSUME NEW n \in 1 .. NumTensors, NEW m \in 1 .. NumTensors, n < m,
             NEW x \in ToSet(outer[n]), NEW y \in ToSet(outer[m])
      PROVE  <<x, y>> \in Order
  BY <1>6, <1>7 DEF Order, Before
<1>8. \A n \in 1 .. NumTensors : Ordered(Order, outer[n])
  BY <1>1, <1>3, <1>4
<1>9. /\ FlattenSeq(outer) \in Seq(Tasks) /\ Ordered(Order, FlattenSeq(outer))
      /\ \A x : x \in ToSet(FlattenSeq(outer)) <=>
                 \E n \in 1 .. NumTensors : x \in ToSet(outer[n])
  <2>1. \A n, m \in 1 .. NumTensors : n < m =>
          \A x \in ToSet(outer[n]), y \in ToSet(outer[m]) : <<x, y>> \in Order
    BY <1>7
  <2>2. Collects(FlattenSeq(outer), Tasks, Order, NumTensors, outer)
    BY <1>1, <1>5, <1>8, <2>1, FlattenOrdered
  <2> QED BY <2>2 DEF Collects
<1>10. ASSUME NEW e
       PROVE  (\E n \in 1 .. NumTensors : e \in ToSet(outer[n])) <=> e \in Duties(r, own)
  <2>1. (\E n \in 1 .. NumTensors : e \in ToSet(outer[n])) <=> \E n \in Tensors : e \in C(n)
    BY <1>1, <1>3, <1>4
  <2>2. (\E n \in Tensors : e \in C(n)) <=>
          \E n \in Tensors : \E k \in 1 .. shape.chunks[n] : e \in Mine(r, own[n], n, k)
    OBVIOUS
  <2>3. e \in Duties(r, own) <=>
          \E n \in Tensors : \E k \in 1 .. shape.chunks[n] : e \in Mine(r, own[n], n, k)
    BY DEF Duties, Mine, Tasks
  <2> QED BY <2>1, <2>2, <2>3
<1> QED BY <1>2, <1>9, <1>10

-----------------------------------------------------------------------------
\* What stays as it was chosen.

Fixed(own) ==
  /\ shape \in Shapes /\ Linked /\ own \in [Tensors -> Rows]
  /\ \A r \in Ranks : /\ program[r] \in Seq(Tasks) /\ Ordered(Order, program[r])
                      /\ ToSet(program[r]) = Duties(r, own)

Progress ==
  /\ pc \in [Ranks -> Nat] /\ \A r \in Ranks : pc[r] <= Len(program[r])
  /\ buffer = [r \in Ranks |-> buffer[r]] /\ written = [r \in RolloutRanks |-> written[r]]

Done(r) == {program[r][n] : n \in 1 .. pc[r]}

\* The ranks of a group have done the same of its collectives.
Agree ==
  \A g \in Groups : \A r, q \in Members(g) :
    \A e \in Done(r) : e.group = g => e \in Done(q)

TransferInv == (\E own : Fixed(own)) /\ Progress /\ Agree

\* The members of a group are ranks.
LEMMA MemberRanks ==
  ASSUME shape \in Shapes, Linked, NEW g \in Groups
  PROVE  Members(g) \subseteq Ranks
<1> SUFFICES ASSUME NEW r \in Members(g) PROVE r \in Ranks
  OBVIOUS
<1>1. \A o \in Rows : Source(o) \in Ranks /\ Bridge(o) \in Ranks
  BY LinkFacts DEF Ranks
<1>2. CASE g[1] = "reduce"
  BY <1>2 DEF Members, Ranks
<1>3. CASE g[1] = "relay"
  <2>1. r = Source(g[2]) \/ r = Bridge(g[2])
    BY <1>3 DEF Members
  <2> QED BY <1>1, <1>3, <2>1, GroupFacts
<1>4. CASE g[1] = "row"
  BY <1>4 DEF Members, Ranks
<1>5. CASE g[1] = "column"
  BY <1>5 DEF Members, Ranks
<1> QED BY <1>2, <1>3, <1>4, <1>5, GroupFacts

\* The next task of a rank that is not through.
LEMMA NowFacts ==
  ASSUME NEW own, Fixed(own), Progress, NEW r \in Ranks, ~Finished(r)
  PROVE  /\ pc[r] \in Nat /\ pc[r] + 1 \in 1 .. Len(program[r])
         /\ DOMAIN program[r] = 1 .. Len(program[r]) /\ Now(r) \in Duties(r, own)
<1>1. program[r] \in Seq(Tasks) /\ ToSet(program[r]) = Duties(r, own)
  BY DEF Fixed
<1>2. Len(program[r]) \in Nat /\ DOMAIN program[r] = 1 .. Len(program[r])
  BY <1>1
<1>3. pc[r] \in Nat /\ pc[r] <= Len(program[r]) /\ pc[r] # Len(program[r])
  BY DEF Progress, Finished
<1>4. pc[r] + 1 \in 1 .. Len(program[r])
  BY <1>2, <1>3
<1>5. Now(r) \in ToSet(program[r])
  BY <1>2, <1>4 DEF Now, ToSet
<1> QED BY <1>1, <1>2, <1>3, <1>4, <1>5

\* What a rank has still to do is not before its next task.
LEMMA NotYet ==
  ASSUME NEW own, Fixed(own), Progress, NEW r \in Ranks, ~Finished(r),
         NEW e \in Duties(r, own), Before(e, Now(r))
  PROVE  e \in Done(r)
<1>1. program[r] \in Seq(Tasks) /\ Ordered(Order, program[r]) /\ e \in ToSet(program[r])
  BY DEF Fixed
<1>2. /\ pc[r] \in Nat /\ pc[r] + 1 \in 1 .. Len(program[r])
      /\ DOMAIN program[r] = 1 .. Len(program[r]) /\ Now(r) \in Tasks
  BY NowFacts DEF Duties
<1>3. PICK n \in DOMAIN program[r] : program[r][n] = e
  BY <1>1 DEF ToSet
<1>4. e \in Tasks /\ ~Before(Now(r), e) /\ e # Now(r)
  <2>1. e \in Tasks
    BY DEF Duties
  <2>2. /\ e.tensor \in Nat /\ e.chunk \in Nat /\ Phase(e.group) \in Nat
        /\ Now(r).tensor \in Nat /\ Now(r).chunk \in Nat /\ Phase(Now(r).group) \in Nat
    BY <1>2, <2>1, GroupFacts DEF Tasks, Tensors
  <2> QED BY <2>1, <2>2 DEF Before
<1>5. ~(pc[r] + 1 < n)
  BY <1>1, <1>2, <1>3, <1>4 DEF Ordered, Order, Now
<1>6. n # pc[r] + 1
  BY <1>3, <1>4 DEF Now
<1>7. n \in 1 .. pc[r]
  BY <1>2, <1>5, <1>6
<1> QED BY <1>3, <1>7 DEF Done

\* The next task is not done.
LEMMA NowNotDone ==
  ASSUME NEW own, Fixed(own), Progress, NEW r \in Ranks, ~Finished(r)
  PROVE  Now(r) \notin Done(r)
<1> SUFFICES ASSUME NEW n \in 1 .. pc[r], program[r][n] = Now(r) PROVE FALSE
  BY DEF Done
<1>1. Ordered(Order, program[r])
  BY DEF Fixed
<1>2. /\ pc[r] \in Nat /\ pc[r] + 1 \in 1 .. Len(program[r])
      /\ DOMAIN program[r] = 1 .. Len(program[r]) /\ Now(r) \in Tasks
  BY NowFacts DEF Duties
<1>3. Now(r).tensor \in Nat /\ Now(r).chunk \in Nat /\ Phase(Now(r).group) \in Nat
  BY <1>2, GroupFacts DEF Tasks, Tensors
<1>4. ~Before(Now(r), Now(r))
  BY <1>3 DEF Before
<1>5. n < pc[r] + 1 /\ n \in DOMAIN program[r] /\ pc[r] + 1 \in DOMAIN program[r]
  BY <1>2
<1>6. <<program[r][n], program[r][pc[r] + 1]>> \in Order
  BY <1>1, <1>5 DEF Ordered
<1>7. Before(program[r][n], program[r][pc[r] + 1])
  BY <1>6 DEF Order
<1> QED BY <1>4, <1>7 DEF Now

\* Ranks that have come to a collective of a group are at the same task.
LEMMA SameNow ==
  ASSUME NEW own, Fixed(own), Progress, Agree, NEW g \in Groups, ReadyFor(g),
         NEW r \in Members(g), NEW q \in Members(g)
  PROVE  Now(r) = Now(q)
<1>1. r \in Ranks /\ q \in Ranks
  BY MemberRanks DEF Fixed
<1>2. ~Finished(r) /\ ~Finished(q) /\ Now(r).group = g /\ Now(q).group = g
  BY DEF ReadyFor
<1>3. Now(r) \in Duties(r, own) /\ Now(q) \in Duties(q, own)
  BY <1>1, <1>2, NowFacts
<1>4. Now(r) \in Duties(q, own) /\ Now(q) \in Duties(r, own)
  BY <1>2, <1>3 DEF Duties
<1>5. ASSUME Before(Now(r), Now(q)) PROVE FALSE
  <2>1. Now(r) \in Done(q)
    BY <1>1, <1>2, <1>4, <1>5, NotYet
  <2>2. Now(r) \in Done(r)
    BY <1>2, <2>1 DEF Agree
  <2> QED BY <1>1, <1>2, <2>2, NowNotDone
<1>6. ASSUME Before(Now(q), Now(r)) PROVE FALSE
  <2>1. Now(q) \in Done(r)
    BY <1>1, <1>2, <1>4, <1>6, NotYet
  <2>2. Now(q) \in Done(q)
    BY <1>2, <2>1 DEF Agree
  <2> QED BY <1>1, <1>2, <2>2, NowNotDone
<1>7. Now(r) \in Tasks /\ Now(q) \in Tasks
      /\ Now(r).owner = own[Now(r).tensor] /\ Now(q).owner = own[Now(q).tensor]
  BY <1>3 DEF Duties
<1>8. /\ Now(r).tensor \in Nat /\ Now(r).chunk \in Nat
      /\ Now(q).tensor \in Nat /\ Now(q).chunk \in Nat
  BY <1>7 DEF Tasks, Tensors
<1>9. Now(r).tensor = Now(q).tensor /\ Now(r).chunk = Now(q).chunk
  BY <1>5, <1>6, <1>8 DEF Before
<1> QED BY <1>2, <1>7, <1>9 DEF Tasks

-----------------------------------------------------------------------------
\* What a step leaves alone.

\* Ranks and groups depend on the shape alone, ...
LEMMA RanksNext ==
  UNCHANGED shape =>
    /\ TrainRanks' = TrainRanks /\ RolloutRanks' = RolloutRanks /\ Ranks' = Ranks
    /\ Rows' = Rows /\ Groups' = Groups /\ Shapes' = Shapes /\ Tasks' = Tasks
BY DEF TrainRanks, RolloutRanks, Ranks, Rows, Groups, Shapes, Tasks, TrainWorld, Tensors

\* ... and so do the places, ...
LEMMA PlacesNext ==
  UNCHANGED shape => \A r : DPRank(r)' = DPRank(r) /\ TPRank(r)' = TPRank(r)
BY DEF DPRank, TPRank, TrainRanks, TrainWorld

\* ... sources and bridges on the relays as well, ...
LEMMA LinksNext ==
  UNCHANGED <<shape, relay>> =>
    /\ \A o : Source(o)' = Source(o) /\ Bridge(o)' = Bridge(o)
    /\ Linked => Linked'
BY RanksNext, PlacesNext
   DEF Source, Bridge, Linked, Relays, Device, Rows, TrainRanks, RolloutRanks, TrainWorld, DPRank

\* ... and with them the members of a group ...
LEMMA MembersNext ==
  UNCHANGED <<shape, relay>> => \A g : Members(g)' = Members(g)
<1> SUFFICES ASSUME UNCHANGED <<shape, relay>>, NEW g PROVE Members(g)' = Members(g)
  OBVIOUS
<1>1. /\ TrainRanks' = TrainRanks /\ RolloutRanks' = RolloutRanks
      /\ \A r : DPRank(r)' = DPRank(r) /\ TPRank(r)' = TPRank(r)
      /\ \A o : Source(o)' = Source(o) /\ Bridge(o)' = Bridge(o)
  BY RanksNext, PlacesNext, LinksNext
<1> QED BY <1>1 DEF Members

\* ... and the groups a row uses.
LEMMA UsedNext ==
  UNCHANGED <<shape, relay>> => \A o : Used(o)' = Used(o)
<1> SUFFICES ASSUME UNCHANGED <<shape, relay>>, NEW o PROVE Used(o)' = Used(o)
  OBVIOUS
<1>1. /\ Groups' = Groups /\ shape' = shape
      /\ \A r : DPRank(r)' = DPRank(r)
      /\ \A x : Bridge(x)' = Bridge(x)
  BY RanksNext, PlacesNext, LinksNext
<1> QED BY <1>1 DEF Used

\* What was chosen stays true while shape, relays and programs stay.
LEMMA FixedNext ==
  ASSUME NEW own, Fixed(own), UNCHANGED <<shape, relay, program>>
  PROVE  Fixed(own)'
<1>1. /\ Tasks' = Tasks /\ Ranks' = Ranks /\ shape' = shape /\ program' = program
      /\ Shapes' = Shapes /\ Rows' = Rows /\ Linked'
  BY RanksNext, LinksNext DEF Fixed
<1>2. \A g : Members(g)' = Members(g)
  BY MembersNext
<1>3. \A o : Used(o)' = Used(o)
  BY UsedNext
<1>4. \A r : Duties(r, own)' = Duties(r, own)
  BY <1>1, <1>2, <1>3 DEF Duties
<1>5. Order' = Order
  BY <1>1 DEF Order, Before, Phase
<1>6. ASSUME NEW r \in Ranks
      PROVE  /\ program'[r] \in Seq(Tasks') /\ Ordered(Order', program'[r])
             /\ ToSet(program'[r]) = Duties(r, own)'
  BY <1>1, <1>4, <1>5, <1>6 DEF Fixed
<1> QED BY <1>1, <1>6 DEF Fixed

\* A step of a group is the collective of all its ranks.
LEMMA StepFacts ==
  ASSUME Next
  PROVE  \/ UNCHANGED vars
         \/ \E g \in Groups : ReadyFor(g) /\ \E receivers, value : Complete(g, receivers, value)
<1>1. CASE \E o \in Rows : Reduce(o) \/ RelayChunk(o)
  <2>1. PICK o \in Rows : Reduce(o) \/ RelayChunk(o)
    BY <1>1
  <2>2. <<"reduce", o>> \in Groups /\ <<"relay", o>> \in Groups
    BY DEF Groups
  <2> QED BY <2>1, <2>2 DEF Reduce, RelayChunk
<1>2. CASE \E d \in 0 .. shape.rolloutDP - 1 : BroadcastRow(d)
  <2>1. PICK d \in 0 .. shape.rolloutDP - 1 : BroadcastRow(d)
    BY <1>2
  <2>2. <<"row", d>> \in Groups
    BY DEF Groups
  <2> QED BY <2>1, <2>2 DEF BroadcastRow
<1>3. CASE \E t \in 0 .. shape.rolloutTP - 1 : BroadcastColumn(t)
  <2>1. PICK t \in 0 .. shape.rolloutTP - 1 : BroadcastColumn(t)
    BY <1>3
  <2>2. <<"column", t>> \in Groups
    BY DEF Groups
  <2> QED BY <2>1, <2>2 DEF BroadcastColumn
<1>4. CASE Returned
  BY <1>4 DEF Returned
<1> QED BY <1>1, <1>2, <1>3, <1>4 DEF Next

\* After a collective its ranks have done one task more.
LEMMA DoneNext ==
  ASSUME NEW own, Fixed(own), Progress, NEW g \in Groups, ReadyFor(g),
         NEW receivers, NEW value, Complete(g, receivers, value), NEW r \in Ranks
  PROVE  /\ Done(r)' = IF r \in Members(g) THEN Done(r) \cup {Now(r)} ELSE Done(r)
         /\ pc'[r] = IF r \in Members(g) THEN pc[r] + 1 ELSE pc[r]
         /\ pc'[r] \in Nat /\ pc'[r] <= Len(program[r])
<1>1. pc' = [q \in Ranks |-> pc[q] + IF q \in Members(g) THEN 1 ELSE 0] /\ program' = program
  BY DEF Complete
<1>2. pc[r] \in Nat /\ pc[r] <= Len(program[r]) /\ Len(program[r]) \in Nat
  BY DEF Progress, Fixed
<1>3. CASE r \in Members(g)
  <2>1. pc'[r] = pc[r] + 1
    BY <1>1, <1>2, <1>3
  <2>2. pc[r] + 1 \in 1 .. Len(program[r])
    BY <1>3, NowFacts DEF ReadyFor
  <2>3. 1 .. pc'[r] = (1 .. pc[r]) \cup {pc[r] + 1}
    BY <1>2, <2>1
  <2>4. Done(r)' = {program[r][n] : n \in 1 .. pc'[r]}
    BY <1>1 DEF Done
  <2>5. Done(r)' = Done(r) \cup {Now(r)}
    BY <2>3, <2>4 DEF Done, Now
  <2> QED BY <1>2, <1>3, <2>1, <2>2, <2>5
<1>4. CASE r \notin Members(g)
  <2>1. pc'[r] = pc[r]
    BY <1>1, <1>2, <1>4
  <2> QED BY <1>1, <1>2, <1>4, <2>1 DEF Done
<1> QED BY <1>3, <1>4

\* A collective keeps the invariant.
LEMMA CompleteKeeps ==
  ASSUME NEW own, Fixed(own), Progress, Agree, NEW g \in Groups, ReadyFor(g),
         NEW receivers, NEW value, Complete(g, receivers, value)
  PROVE  Fixed(own)' /\ Progress' /\ Agree'
<1>1. UNCHANGED <<shape, relay, program>>
  BY DEF Complete
<1>2. Fixed(own)'
  BY <1>1, FixedNext
<1>3. /\ Ranks' = Ranks /\ RolloutRanks' = RolloutRanks /\ Groups' = Groups
      /\ \A h : Members(h)' = Members(h)
  BY <1>1, RanksNext, MembersNext
<1>4. Progress'
  <2>1. pc' = [q \in Ranks |-> pc[q] + IF q \in Members(g) THEN 1 ELSE 0]
    BY DEF Complete
  <2>2. \A r \in Ranks : pc'[r] \in Nat /\ pc'[r] <= Len(program[r])
    BY DoneNext
  <2>3. pc' \in [Ranks -> Nat]
    BY <2>1, <2>2
  <2>4. buffer' = [r \in Ranks |-> buffer'[r]]
    BY DEF Complete
  <2>5. written' = [r \in RolloutRanks |-> written'[r]]
    BY DEF Complete
  <2> QED BY <1>1, <1>3, <2>2, <2>3, <2>4, <2>5 DEF Progress
<1>5. ASSUME NEW h \in Groups, NEW r \in Members(h), NEW q \in Members(h), NEW e \in Done(r)',
             e.group = h
      PROVE  e \in Done(q)'
  <2>1. r \in Ranks /\ q \in Ranks
    BY MemberRanks DEF Fixed
  <2>2. CASE e \in Done(r)
    <3>1. e \in Done(q)
      BY <1>5, <2>2 DEF Agree
    <3> QED BY <2>1, <3>1, DoneNext
  <2>3. CASE e \notin Done(r)
    <3>1. r \in Members(g) /\ e = Now(r)
      BY <2>1, <2>3, DoneNext
    <3>2. h = g
      BY <1>5, <3>1 DEF ReadyFor
    <3>3. Now(q) = Now(r)
      BY <3>1, <3>2, SameNow
    <3> QED BY <2>1, <3>1, <3>2, <3>3, DoneNext
  <2> QED BY <2>2, <2>3
<1>6. Agree'
  BY <1>3, <1>5 DEF Agree
<1> QED BY <1>2, <1>4, <1>6

\* So does a step that changes nothing.
LEMMA UnchangedKeeps ==
  ASSUME NEW own, Fixed(own), Progress, Agree, UNCHANGED vars
  PROVE  Fixed(own)' /\ Progress' /\ Agree'
<1>1. UNCHANGED <<shape, relay, program, pc, buffer, written>>
  BY DEF vars
<1>2. Fixed(own)'
  BY <1>1, FixedNext
<1>3. /\ Ranks' = Ranks /\ RolloutRanks' = RolloutRanks /\ Groups' = Groups
      /\ \A h : Members(h)' = Members(h)
  BY <1>1, RanksNext, MembersNext
<1>4. Progress'
  BY <1>1, <1>3 DEF Progress
<1>5. \A r : Done(r)' = Done(r)
  BY <1>1 DEF Done
<1>6. Agree'
  BY <1>3, <1>5 DEF Agree
<1> QED BY <1>2, <1>4, <1>6

\* The programs a transfer starts with are what the ranks have to do, ...
LEMMA InitFixed ==
  ASSUME Init
  PROVE  Fixed(Owners)
<1>1. shape \in Shapes /\ \A o \in Rows : Relays(o) # {}
  BY DEF Init
<1>2. Linked
  <2>1. \A o \in Rows : relay[o] = Relay(o)
    BY DEF Init
  <2> QED BY <1>1, <2>1, RelayFacts DEF Linked
<1>3. Owners \in [Tensors -> Rows]
  BY <1>1, OwnersFacts
<1>4. ASSUME NEW r \in Ranks
      PROVE  /\ program[r] \in Seq(Tasks) /\ Ordered(Order, program[r])
             /\ ToSet(program[r]) = Duties(r, Owners)
  <2>1. program[r] = Walk(r, InOrder, Owners)
    BY DEF Init, Program
  <2> QED BY <1>1, <1>2, <1>3, <2>1, WalkFacts
<1> QED BY <1>1, <1>2, <1>3, <1>4 DEF Fixed

\* ... and nothing is done yet.
LEMMA InitProgress ==
  ASSUME Init
  PROVE  Progress /\ Agree
<1>1. Fixed(Owners)
  BY InitFixed
<1>2. \A r \in Ranks : Len(program[r]) \in Nat
  BY <1>1 DEF Fixed
<1>3. Progress
  BY <1>2 DEF Init, Progress
<1>4. \A r \in Ranks : Done(r) = {}
  BY DEF Init, Done
<1>5. \A g \in Groups : Members(g) \subseteq Ranks
  BY <1>1, MemberRanks DEF Fixed
<1>6. Agree
  BY <1>4, <1>5 DEF Agree
<1> QED BY <1>3, <1>6

\* The invariant of the transfer, from its first step to its last.
THEOREM TransferHolds == Spec => []TransferInv
<1>1. Init => TransferInv
  BY InitFixed, InitProgress DEF TransferInv
<1>2. TransferInv /\ [Next]_vars => TransferInv'
  <2> SUFFICES ASSUME TransferInv, [Next]_vars PROVE TransferInv'
    OBVIOUS
  <2>1. PICK own : Fixed(own)
    BY DEF TransferInv
  <2>2. Progress /\ Agree
    BY DEF TransferInv
  <2>3. CASE UNCHANGED vars
    BY <2>1, <2>2, <2>3, UnchangedKeeps DEF TransferInv
  <2>4. CASE \E g \in Groups : ReadyFor(g) /\ \E receivers, value : Complete(g, receivers, value)
    BY <2>1, <2>2, <2>4, CompleteKeeps DEF TransferInv
  <2> QED BY <2>3, <2>4, StepFacts
<1> QED BY <1>1, <1>2, PTL DEF Spec

\* The ranks that meet in a collective of the transfer are at the same chunk of
\* the same tensor.
THEOREM MatchedHolds == Spec => []Matched
<1>1. TransferInv => Matched
  BY SameNow DEF TransferInv, Matched
<1> QED BY <1>1, TransferHolds, PTL

-----------------------------------------------------------------------------
\* What the buffers hold.

Latest(r) == program[r][pc[r]]

\* A rank holds the whole of the chunk it was last busy with.
Holds(r) == pc[r] > 0 => buffer[r] = Whole(Latest(r).tensor, Latest(r).chunk)

Filled ==
  /\ \A r \in RolloutRanks : Holds(r)
  /\ shape.trainTP > 1 => \A o \in Rows : Holds(Source(o))

\* Each piece of a tensor is read by one rank of a row ...
LEMMA ReduceWhole ==
  ASSUME shape \in Shapes, Linked, NEW o \in Rows, NEW i \in Tensors, NEW k
  PROVE  Read(Members(<<"reduce", o>>), i, k) = Whole(i, k)
<1>1. /\ shape.trainTP \in Nat \ {0}
      /\ shape.layout[i] \in {"sharded", "replicated", "repeated"}
  BY ShapeFacts
<1>2. ASSUME NEW p \in Pieces(i)
      PROVE  Cardinality({r \in Members(<<"reduce", o>>) : Publishes(r, i, p)}) = 1
  <2>1. \A r : r \in Members(<<"reduce", o>>) <=> (r \in TrainRanks /\ DPRank(r) = o)
    BY MembersOf
  <2>2. ASSUME NEW t \in 0 .. shape.trainTP - 1
        PROVE  \E x \in Members(<<"reduce", o>>) :
                 \A r \in Members(<<"reduce", o>>) : TPRank(r) = t <=> r = x
    <3>1. PICK x \in TrainRanks : DPRank(x) = o /\ TPRank(x) = t
      BY TrainAt
    <3>2. ASSUME NEW r \in Members(<<"reduce", o>>), TPRank(r) = t PROVE r = x
      <4>1. r \in TrainRanks /\ DPRank(r) = o
        BY <2>1
      <4>2. r = (DPRank(r) * shape.trainTP) + TPRank(r)
        BY <4>1, TrainPlace
      <4>3. x = (DPRank(x) * shape.trainTP) + TPRank(x)
        BY TrainPlace
      <4> QED BY <3>1, <3>2, <4>1, <4>2, <4>3
    <3> QED BY <2>1, <3>1, <3>2
  <2>3. PICK x : {r \in Members(<<"reduce", o>>) : Publishes(r, i, p)} = {x}
    <3>1. CASE shape.layout[i] = "sharded"
      <4>1. p \in 0 .. shape.trainTP - 1
        BY <3>1 DEF Pieces
      <4>2. \A r : Publishes(r, i, p) <=> p = TPRank(r)
        BY <3>1 DEF Publishes
      <4> QED BY <2>2, <4>1, <4>2
    <3>2. CASE shape.layout[i] = "repeated"
      <4>1. 0 \in 0 .. shape.trainTP - 1
        BY <1>1
      <4>2. \A r : Publishes(r, i, p) <=> TPRank(r) = 0
        BY <3>2 DEF Publishes
      <4> QED BY <2>2, <4>1, <4>2
    <3>3. CASE shape.layout[i] = "replicated"
      <4>1. \A r : Publishes(r, i, p) <=> r = Source(DPRank(r))
        BY <3>3 DEF Publishes
      <4>2. Source(o) \in TrainRanks /\ DPRank(Source(o)) = o
        BY LinkFacts
      <4>3. ASSUME NEW r \in Members(<<"reduce", o>>)
            PROVE  Publishes(r, i, p) <=> r = Source(o)
        <5>1. DPRank(r) = o
          BY <2>1
        <5> QED BY <4>1, <5>1
      <4>4. Source(o) \in Members(<<"reduce", o>>)
        BY <2>1, <4>2
      <4>5. \A r : r \in {q \in Members(<<"reduce", o>>) : Publishes(q, i, p)} <=> r = Source(o)
        BY <4>3, <4>4
      <4>6. {r \in Members(<<"reduce", o>>) : Publishes(r, i, p)} = {Source(o)}
        BY <4>5
      <4> QED BY <4>6
    <3> QED BY <1>1, <3>1, <3>2, <3>3
  <2> QED BY <2>3, FS_Singleton
<1> QED BY <1>2 DEF Read, Whole

\* ... and all of it by a row of one rank.
LEMMA SourceWhole ==
  ASSUME shape \in Shapes, Linked, shape.trainTP = 1, NEW o \in Rows, NEW i \in Tensors, NEW k
  PROVE  Read({Source(o)}, i, k) = Whole(i, k)
<1>1. shape.layout[i] \in {"sharded", "replicated", "repeated"}
  BY ShapeFacts
<1>2. Source(o) \in TrainRanks /\ DPRank(Source(o)) = o
  BY LinkFacts
<1>3. TPRank(Source(o)) = 0
  <2>1. TPRank(Source(o)) \in 0 .. shape.trainTP - 1
    BY <1>2, TrainPlace
  <2> QED BY <2>1
<1>4. ASSUME NEW p \in Pieces(i)
      PROVE  Cardinality({r \in {Source(o)} : Publishes(r, i, p)}) = 1
  <2>1. p = 0
    BY DEF Pieces
  <2>2. Publishes(Source(o), i, p)
    BY <1>1, <1>2, <1>3, <2>1 DEF Publishes
  <2>3. {r \in {Source(o)} : Publishes(r, i, p)} = {Source(o)}
    BY <2>2
  <2> QED BY <2>3, FS_Singleton
<1> QED BY <1>4 DEF Read, Whole

\* A rank that has something to do for a chunk before its next task was last busy
\* with that chunk.
LEMMA Preceding ==
  ASSUME NEW own, Fixed(own), Progress, NEW r \in Ranks, ~Finished(r),
         NEW f \in Duties(r, own), f.tensor = Now(r).tensor, f.chunk = Now(r).chunk,
         Phase(f.group) < Phase(Now(r).group)
  PROVE  /\ pc[r] > 0 /\ Latest(r).tensor = Now(r).tensor
         /\ Latest(r).chunk = Now(r).chunk
<1>1. f \in Done(r)
  BY NotYet DEF Before
<1>2. PICK n \in 1 .. pc[r] : program[r][n] = f
  BY <1>1 DEF Done
<1>3. /\ pc[r] \in Nat /\ pc[r] + 1 \in 1 .. Len(program[r])
      /\ DOMAIN program[r] = 1 .. Len(program[r]) /\ Now(r) \in Tasks
  BY NowFacts DEF Duties
<1>4. pc[r] > 0 /\ pc[r] \in DOMAIN program[r] /\ n \in DOMAIN program[r]
      /\ pc[r] + 1 \in DOMAIN program[r] /\ pc[r] < pc[r] + 1
  BY <1>2, <1>3
<1>5. Ordered(Order, program[r])
  BY DEF Fixed
<1>6. <<Latest(r), Now(r)>> \in Order
  BY <1>4, <1>5 DEF Ordered, Latest, Now
<1>7. Latest(r) = f \/ <<f, Latest(r)>> \in Order
  <2>1. CASE n = pc[r]
    BY <1>2, <2>1 DEF Latest
  <2>2. CASE n # pc[r]
    <3>1. n < pc[r]
      BY <1>2, <1>3, <2>2
    <3> QED BY <1>2, <1>4, <1>5, <3>1 DEF Ordered, Latest
  <2> QED BY <2>1, <2>2
<1>8. f \in Tasks /\ Latest(r) \in Tasks
  BY <1>6 DEF Duties, Order
<1>9. /\ f.tensor \in Nat /\ f.chunk \in Nat /\ Latest(r).tensor \in Nat
      /\ Latest(r).chunk \in Nat
  BY <1>8 DEF Tasks, Tensors
<1>10. Before(Latest(r), Now(r))
  BY <1>6 DEF Order
<1>11. Latest(r) = f \/ Before(f, Latest(r))
  BY <1>7 DEF Order
<1> QED BY <1>4, <1>9, <1>10, <1>11 DEF Before

\* What is done for a chunk in one group is done for it in the others.
LEMMA AlsoDone ==
  ASSUME NEW own, Fixed(own), NEW r, NEW q, NEW e \in Duties(r, own), NEW h \in Used(e.owner),
         q \in Members(h)
  PROVE  Task(h, e.owner, e.tensor, e.chunk) \in Duties(q, own)
<1>1. e \in Tasks /\ e.owner = own[e.tensor] /\ e.chunk \in 1 .. shape.chunks[e.tensor]
  BY DEF Duties
<1>2. h \in Groups
  BY DEF Used
<1>3. Task(h, e.owner, e.tensor, e.chunk) \in Tasks
  BY <1>1, <1>2 DEF Tasks, Task
<1> QED BY <1>1, <1>2, <1>3 DEF Duties, Task

\* The members of a group hold the whole chunk after its collective: a value goes
\* to them, or they have it.
Fair(g, receivers, value, e) ==
  /\ g \in Groups /\ ReadyFor(g) /\ Complete(g, receivers, value)
  /\ \A r \in Members(g) : Now(r) = e
  /\ receivers \subseteq Members(g) /\ value = Whole(e.tensor, e.chunk)
  /\ \A r \in Members(g) : r \in RolloutRanks => r \in receivers
  /\ shape.trainTP > 1 => \A o \in Rows : Source(o) \in Members(g) =>
       Source(o) \in receivers \/ buffer[Source(o)] = Whole(e.tensor, e.chunk)

\* A reduction leaves the whole chunk at the source.
LEMMA ReduceFair ==
  ASSUME NEW own, Fixed(own), Progress, Agree, NEW o \in Rows, Reduce(o)
  PROVE  \E g, receivers, value, e : Fair(g, receivers, value, e)
<1>1. PICK g, s, e : g = <<"reduce", o>> /\ s = Source(o) /\ e = Now(s)
  OBVIOUS
<1>2. g \in Groups /\ ReadyFor(g) /\ Complete(g, {s}, Read(Members(g), e.tensor, e.chunk))
  BY <1>1 DEF Reduce, Groups
<1>3. shape \in Shapes /\ Linked
  BY DEF Fixed
<1>4. s \in TrainRanks /\ DPRank(s) = o /\ s \in Ranks
  BY <1>1, <1>3, LinkFacts DEF Ranks
<1>5. \A r : r \in Members(g) <=> (r \in TrainRanks /\ DPRank(r) = o)
  BY <1>1, MembersOf
<1>6. s \in Members(g)
  BY <1>4, <1>5
<1>7. \A r \in Members(g) : Now(r) = e
  BY <1>1, <1>2, <1>6, SameNow
<1>8. e \in Tasks
  <2>1. ~Finished(s)
    BY <1>2, <1>6 DEF ReadyFor
  <2> QED BY <1>1, <1>4, <2>1, NowFacts DEF Duties
<1>9. Read(Members(g), e.tensor, e.chunk) = Whole(e.tensor, e.chunk)
  BY <1>1, <1>3, <1>8, ReduceWhole DEF Tasks
<1>10. ASSUME NEW q \in Rows, Source(q) \in Members(g) PROVE Source(q) = s
  <2>1. DPRank(Source(q)) = q
    BY <1>3, LinkFacts
  <2> QED BY <1>1, <1>5, <1>10, <2>1
<1>11. ASSUME NEW r \in Members(g) PROVE r \notin RolloutRanks
  BY <1>3, <1>5, TrainPlace
<1>12. Fair(g, {s}, Read(Members(g), e.tensor, e.chunk), e)
  BY <1>2, <1>6, <1>7, <1>9, <1>10, <1>11 DEF Fair
<1> QED BY <1>12

\* A relay brings it to the bridge: what the row reduced, or what its one rank reads.
LEMMA RelayFair ==
  ASSUME NEW own, Fixed(own), Progress, Agree, Filled, NEW o \in Rows, RelayChunk(o)
  PROVE  \E g, receivers, value, e : Fair(g, receivers, value, e)
<1>1. PICK g, s, b, e : g = <<"relay", o>> /\ s = Source(o) /\ b = Bridge(o) /\ e = Now(s)
  OBVIOUS
<1>2. PICK value : value = IF shape.trainTP > 1 THEN buffer[s]
                           ELSE Read({s}, e.tensor, e.chunk)
  OBVIOUS
<1>3. g \in Groups /\ ReadyFor(g) /\ Complete(g, {b}, value)
  BY <1>1, <1>2 DEF RelayChunk, Groups
<1>4. shape \in Shapes /\ Linked /\ shape.trainTP \in Nat \ {0}
  BY ShapeFacts DEF Fixed
<1>5. s \in TrainRanks /\ DPRank(s) = o /\ s \in Ranks /\ b \in RolloutRanks
      /\ b \notin TrainRanks /\ s \notin RolloutRanks
  BY <1>1, <1>4, LinkFacts DEF Ranks
<1>6. \A r : r \in Members(g) <=> (r = s \/ r = b)
  BY <1>1, MembersOf
<1>7. \A r \in Members(g) : Now(r) = e
  BY <1>1, <1>3, <1>6, SameNow
<1>8. ~Finished(s) /\ e.group = g
  BY <1>1, <1>3, <1>6 DEF ReadyFor
<1>9. e \in Duties(s, own) /\ e \in Tasks /\ e.group \in Used(e.owner)
  BY <1>1, <1>5, <1>8, NowFacts DEF Duties
<1>10. e.owner = o
  BY <1>1, <1>8, <1>9 DEF Used
<1>11. CASE shape.trainTP > 1
  <2>1. PICK h : h = <<"reduce", o>>
    OBVIOUS
  <2>2. h \in Used(e.owner)
    BY <1>10, <1>11, <2>1 DEF Used, Groups
  <2>3. s \in Members(h)
    BY <1>5, <2>1, MembersOf
  <2>4. Task(h, e.owner, e.tensor, e.chunk) \in Duties(s, own)
    BY <1>9, <2>2, <2>3, AlsoDone
  <2>5. PICK f : f = Task(h, e.owner, e.tensor, e.chunk)
    OBVIOUS
  <2>6. f.tensor = e.tensor /\ f.chunk = e.chunk /\ f.group = h
    BY <2>5 DEF Task
  <2>7. Phase(h) < Phase(g)
    <3>1. Phase(h) = 1 /\ Phase(g) = 2
      BY <1>1, <2>1, PhaseOf
    <3> QED BY <3>1
  <2>8. pc[s] > 0 /\ Latest(s).tensor = e.tensor /\ Latest(s).chunk = e.chunk
    BY <1>1, <1>5, <1>8, <2>4, <2>5, <2>6, <2>7, Preceding
  <2>9. buffer[s] = Whole(e.tensor, e.chunk)
    BY <1>1, <1>11, <2>8 DEF Filled, Holds
  <2>10. ASSUME NEW q \in Rows, Source(q) \in Members(g) PROVE Source(q) = s
    <3>1. Source(q) \in TrainRanks
      BY <1>4, LinkFacts
    <3> QED BY <1>5, <1>6, <2>10, <3>1
  <2>11. value = Whole(e.tensor, e.chunk)
    BY <1>2, <1>11, <2>9
  <2>12. Fair(g, {b}, value, e)
    BY <1>3, <1>5, <1>6, <1>7, <2>9, <2>10, <2>11 DEF Fair
  <2> QED BY <2>12
<1>12. CASE ~(shape.trainTP > 1)
  <2>1. shape.trainTP = 1
    BY <1>4, <1>12
  <2>2. e.tensor \in Tensors
    BY <1>9 DEF Tasks
  <2>3. value = Whole(e.tensor, e.chunk)
    BY <1>1, <1>2, <1>4, <1>12, <2>1, <2>2, SourceWhole
  <2>4. Fair(g, {b}, value, e)
    BY <1>3, <1>5, <1>6, <1>7, <1>12, <2>3 DEF Fair
  <2> QED BY <2>4
<1> QED BY <1>11, <1>12

\* A member of a rollout group that has its chunk before the others.
LEMMA HasChunk ==
  ASSUME NEW own, Fixed(own), Progress, Filled, NEW r \in RolloutRanks, ~Finished(r),
         NEW h \in Used(Now(r).owner), r \in Members(h), Phase(h) < Phase(Now(r).group)
  PROVE  buffer[r] = Whole(Now(r).tensor, Now(r).chunk)
<1>1. r \in Ranks
  BY DEF Ranks
<1>2. PICK e : e = Now(r)
  OBVIOUS
<1>3. e \in Duties(r, own)
  BY <1>1, <1>2, NowFacts
<1>4. PICK f : f = Task(h, e.owner, e.tensor, e.chunk)
  OBVIOUS
<1>5. f \in Duties(r, own)
  BY <1>2, <1>3, <1>4, AlsoDone
<1>6. f.tensor = e.tensor /\ f.chunk = e.chunk /\ f.group = h
  BY <1>4 DEF Task
<1>7. pc[r] > 0 /\ Latest(r).tensor = e.tensor /\ Latest(r).chunk = e.chunk
  BY <1>1, <1>2, <1>5, <1>6, Preceding
<1> QED BY <1>2, <1>7 DEF Filled, Holds

\* The bridge has the chunk the other rollout ranks are given.
LEMMA BridgeHas ==
  ASSUME NEW own, Fixed(own), Progress, Filled, NEW o \in Rows, ~Finished(Bridge(o)),
         Now(Bridge(o)).owner = o, Now(Bridge(o)).group[1] \in {"row", "column"}
  PROVE  buffer[Bridge(o)] = Whole(Now(Bridge(o)).tensor, Now(Bridge(o)).chunk)
<1>1. PICK r, h, e : r = Bridge(o) /\ h = <<"relay", o>> /\ e = Now(r)
  OBVIOUS
<1>2. r \in RolloutRanks /\ r \in Ranks
  BY <1>1, LinkFacts DEF Fixed, Ranks
<1>3. h \in Used(o)
  BY <1>1 DEF Used, Groups
<1>4. r \in Members(h)
  BY <1>1, MembersOf
<1>5. e \in Duties(r, own)
  BY <1>1, <1>2, NowFacts
<1>6. e.group \in Groups
  BY <1>5 DEF Duties, Tasks
<1>7. Phase(h) = 2
  BY <1>1, PhaseOf
<1>8. Phase(e.group) \in {3, 4}
  BY <1>1, <1>6 DEF Phase
<1> QED BY <1>1, <1>2, <1>3, <1>4, <1>7, <1>8, HasChunk

\* A row gets it from the bridge.
LEMMA RowFair ==
  ASSUME NEW own, Fixed(own), Progress, Agree, Filled, NEW d \in 0 .. shape.rolloutDP - 1,
         BroadcastRow(d)
  PROVE  \E g, receivers, value, e : Fair(g, receivers, value, e)
<1>1. PICK g : g = <<"row", d>>
  OBVIOUS
<1>2. PICK r \in Members(g) : Complete(g, Members(g), buffer[Bridge(Now(r).owner)])
  BY <1>1 DEF BroadcastRow
<1>3. g \in Groups /\ ReadyFor(g)
  BY <1>1 DEF BroadcastRow, Groups
<1>4. shape \in Shapes /\ Linked
  BY DEF Fixed
<1>5. \A q : q \in Members(g) <=> (q \in RolloutRanks /\ DPRank(q) = d)
  BY <1>1, MembersOf
<1>6. PICK e, o, b : e = Now(r) /\ o = e.owner /\ b = Bridge(o)
  OBVIOUS
<1>7. \A q \in Members(g) : Now(q) = e /\ ~Finished(q)
  <2>1. \A q \in Members(g) : Now(q) = Now(r)
    BY <1>3, SameNow
  <2> QED BY <1>3, <1>6, <2>1 DEF ReadyFor
<1>8. e.group = g
  BY <1>3, <1>6 DEF ReadyFor
<1>9. e \in Duties(r, own)
  <2>1. r \in Ranks
    BY <1>5 DEF Ranks
  <2> QED BY <1>6, <1>7, <2>1, NowFacts
<1>10. o \in Rows /\ g \in Used(o)
  BY <1>6, <1>8, <1>9 DEF Duties, Tasks
<1>11. d = DPRank(b)
  BY <1>1, <1>6, <1>10 DEF Used
<1>12. b \in Members(g)
  BY <1>4, <1>5, <1>6, <1>10, <1>11, LinkFacts
<1>13. buffer[b] = Whole(e.tensor, e.chunk)
  <2>1. Now(b) = e /\ ~Finished(b) /\ Now(b).group[1] = "row"
    BY <1>1, <1>7, <1>8, <1>12
  <2> QED BY <1>6, <1>10, <2>1, BridgeHas
<1>14. ASSUME NEW q \in Rows PROVE Source(q) \notin Members(g)
  BY <1>4, <1>5, LinkFacts
<1>15. Fair(g, Members(g), buffer[b], e)
  BY <1>2, <1>3, <1>6, <1>7, <1>13, <1>14 DEF Fair
<1> QED BY <1>15

\* A column gets it from its rank in the bridge's row.
LEMMA ColumnFair ==
  ASSUME NEW own, Fixed(own), Progress, Agree, Filled, NEW t \in 0 .. shape.rolloutTP - 1,
         BroadcastColumn(t)
  PROVE  \E g, receivers, value, e : Fair(g, receivers, value, e)
<1>1. PICK g : g = <<"column", t>>
  OBVIOUS
<1>2. PICK r \in Members(g) :
        Complete(g, Members(g),
          buffer[CHOOSE q \in Members(g) : DPRank(q) = DPRank(Bridge(Now(r).owner))])
  BY <1>1 DEF BroadcastColumn
<1>3. g \in Groups /\ ReadyFor(g)
  BY <1>1 DEF BroadcastColumn, Groups
<1>4. shape \in Shapes /\ Linked
  BY DEF Fixed
<1>5. \A q : q \in Members(g) <=> (q \in RolloutRanks /\ TPRank(q) = t)
  BY <1>1, MembersOf
<1>6. PICK e, o, b : e = Now(r) /\ o = e.owner /\ b = Bridge(o)
  OBVIOUS
<1>7. \A q \in Members(g) : Now(q) = e /\ ~Finished(q)
  <2>1. \A q \in Members(g) : Now(q) = Now(r)
    BY <1>3, SameNow
  <2> QED BY <1>3, <1>6, <2>1 DEF ReadyFor
<1>8. e.group = g
  BY <1>3, <1>6 DEF ReadyFor
<1>9. e \in Duties(r, own)
  <2>1. r \in Ranks
    BY <1>5 DEF Ranks
  <2> QED BY <1>6, <1>7, <2>1, NowFacts
<1>10. o \in Rows /\ g \in Used(o)
  BY <1>6, <1>8, <1>9 DEF Duties, Tasks
<1>11. /\ b \in RolloutRanks /\ DPRank(b) \in 0 .. shape.rolloutDP - 1
       /\ TPRank(b) \in 0 .. shape.rolloutTP - 1
  BY <1>4, <1>6, <1>10, LinkFacts
<1>12. PICK q : q = CHOOSE x \in Members(g) : DPRank(x) = DPRank(b)
  OBVIOUS
<1>13. q \in Members(g) /\ DPRank(q) = DPRank(b)
  <2>1. \E x \in RolloutRanks : DPRank(x) = DPRank(b) /\ TPRank(x) = t
    <3>1. PICK dp : dp = DPRank(b)
      OBVIOUS
    <3>2. \E x \in RolloutRanks : DPRank(x) = dp /\ TPRank(x) = t
      BY <1>4, <1>11, <3>1, RolloutAt
    <3> QED BY <3>1, <3>2
  <2>2. \E x \in Members(g) : DPRank(x) = DPRank(b)
    BY <1>5, <2>1
  <2> QED BY <1>12, <2>2
<1>14. q \in RolloutRanks /\ TPRank(q) = t /\ Now(q) = e /\ ~Finished(q)
  BY <1>5, <1>7, <1>13
<1>15. buffer[q] = Whole(e.tensor, e.chunk)
  <2>1. CASE shape.rolloutTP > 1
    <3>1. PICK h : h = <<"row", DPRank(b)>>
      OBVIOUS
    <3>2. h \in Used(o)
      BY <1>6, <1>11, <2>1, <3>1 DEF Used, Groups
    <3>3. q \in Members(h)
      BY <1>13, <1>14, <3>1, MembersOf
    <3>4. Phase(h) = 3 /\ Phase(g) = 4
      BY <1>1, <3>1, PhaseOf
    <3>5. buffer[q] = Whole(Now(q).tensor, Now(q).chunk)
      BY <1>6, <1>8, <1>14, <3>2, <3>3, <3>4, HasChunk
    <3> QED BY <1>14, <3>5
  <2>2. CASE ~(shape.rolloutTP > 1)
    <3>1. shape.rolloutTP = 1
      <4>1. shape.rolloutTP \in Nat \ {0}
        BY <1>4, ShapeFacts
      <4> QED BY <2>2, <4>1
    <3>2. TPRank(q) = 0 /\ TPRank(b) = 0
      BY <1>11, <1>14, <3>1
    <3>3. q = TrainWorld + (DPRank(q) * shape.rolloutTP) + TPRank(q)
      BY <1>4, <1>14, RolloutPlace
    <3>4. b = TrainWorld + (DPRank(b) * shape.rolloutTP) + TPRank(b)
      BY <1>4, <1>11, RolloutPlace
    <3>5. q = b
      BY <1>13, <3>2, <3>3, <3>4
    <3>6. Now(b) = e /\ ~Finished(b) /\ Now(b).group[1] = "column"
      BY <1>1, <1>8, <1>14, <3>5
    <3> QED BY <1>6, <1>10, <3>5, <3>6, BridgeHas
  <2> QED BY <2>1, <2>2
<1>16. ASSUME NEW p \in Rows PROVE Source(p) \notin Members(g)
  BY <1>4, <1>5, LinkFacts
<1>17. Complete(g, Members(g), buffer[q])
  BY <1>2, <1>6, <1>12
<1>18. Fair(g, Members(g), buffer[q], e)
  BY <1>3, <1>7, <1>15, <1>16, <1>17 DEF Fair
<1> QED BY <1>18

-----------------------------------------------------------------------------
\* What the rollout ranks have written.

\* After its n-th task a rank is through with the chunk.
Ends(r, n) ==
  \/ n = Len(program[r])
  \/ program[r][n + 1].tensor # program[r][n].tensor
  \/ program[r][n + 1].chunk # program[r][n].chunk

Entry(r, n) ==
  <<program[r][n].tensor, program[r][n].chunk,
    Whole(program[r][n].tensor, program[r][n].chunk)>>

Kept ==
  \A r \in RolloutRanks : written[r] = {Entry(r, n) : n \in {m \in 1 .. pc[r] : Ends(r, m)}}

\* A whole chunk depends on the shape alone.
LEMMA WholeNext ==
  UNCHANGED shape => \A i, k : Whole(i, k)' = Whole(i, k)
BY DEF Whole, Pieces

\* A collective leaves every rank that matters with the chunk it was for.
LEMMA HoldsNext ==
  ASSUME NEW own, Fixed(own), Progress, NEW g, NEW receivers, NEW value, NEW e,
         Fair(g, receivers, value, e), NEW r \in Ranks, Holds(r),
         r \in Members(g) => r \in receivers \/ buffer[r] = Whole(e.tensor, e.chunk)
  PROVE  Holds(r)'
<1>1. /\ g \in Groups /\ ReadyFor(g) /\ Complete(g, receivers, value)
      /\ receivers \subseteq Members(g) /\ value = Whole(e.tensor, e.chunk)
      /\ \A q \in Members(g) : Now(q) = e
  BY DEF Fair
<1>2. /\ UNCHANGED <<shape, program>>
      /\ buffer' = [q \in Ranks |-> IF q \in receivers THEN value ELSE buffer[q]]
  BY <1>1 DEF Complete
<1>3. \A i, k : Whole(i, k)' = Whole(i, k)
  BY <1>2, WholeNext
<1>4. CASE r \in Members(g)
  <2>1. pc'[r] = pc[r] + 1
    BY <1>1, <1>4, DoneNext
  <2>2. Latest(r)' = Now(r)
    BY <1>2, <2>1 DEF Latest, Now
  <2>3. Latest(r)' = e
    BY <1>1, <1>4, <2>2
  <2>4. buffer'[r] = Whole(e.tensor, e.chunk)
    BY <1>1, <1>2, <1>4
  <2> QED BY <1>3, <2>3, <2>4 DEF Holds
<1>5. CASE r \notin Members(g)
  <2>1. pc'[r] = pc[r]
    BY <1>1, <1>5, DoneNext
  <2>2. buffer'[r] = buffer[r]
    BY <1>1, <1>2, <1>5
  <2>3. Latest(r)' = Latest(r)
    BY <1>2, <2>1 DEF Latest
  <2> QED BY <1>3, <2>1, <2>2, <2>3 DEF Holds
<1> QED BY <1>4, <1>5

\* The buffers after a collective.
LEMMA FilledNext ==
  ASSUME NEW own, Fixed(own), Progress, Filled, NEW g, NEW receivers, NEW value, NEW e,
         Fair(g, receivers, value, e)
  PROVE  Filled'
<1>1. UNCHANGED <<shape, relay>>
  BY DEF Fair, Complete
<1>2. RolloutRanks' = RolloutRanks /\ Rows' = Rows /\ \A o : Source(o)' = Source(o)
  BY <1>1, RanksNext, LinksNext
<1>3. ASSUME NEW r \in RolloutRanks PROVE Holds(r)'
  <2>1. r \in Ranks /\ Holds(r)
    BY DEF Ranks, Filled
  <2>2. r \in Members(g) => r \in receivers
    BY DEF Fair
  <2> QED BY <2>1, <2>2, HoldsNext
<1>4. ASSUME shape.trainTP > 1, NEW o \in Rows PROVE Holds(Source(o))'
  <2>1. PICK s : s = Source(o)
    OBVIOUS
  <2>2. s \in Ranks /\ Holds(s)
    BY <1>4, <2>1, LinkFacts DEF Ranks, Fixed, Filled
  <2>3. s \in Members(g) => s \in receivers \/ buffer[s] = Whole(e.tensor, e.chunk)
    BY <1>4, <2>1 DEF Fair
  <2>4. Holds(s)'
    BY <2>2, <2>3, HoldsNext
  <2>5. Holds(Source(o))' <=> Holds(s)'
    BY <1>2, <2>1 DEF Holds, Latest
  <2> QED BY <2>4, <2>5
<1>5. \A o \in Rows : shape.trainTP > 1 => Holds(Source(o))'
  BY <1>4
<1> QED BY <1>1, <1>2, <1>3, <1>5 DEF Filled

\* The written chunks after a collective.
LEMMA KeptNext ==
  ASSUME NEW own, Fixed(own), Progress, Kept, NEW g, NEW receivers, NEW value, NEW e,
         Fair(g, receivers, value, e)
  PROVE  Kept'
<1>1. /\ g \in Groups /\ ReadyFor(g) /\ Complete(g, receivers, value)
      /\ receivers \subseteq Members(g) /\ value = Whole(e.tensor, e.chunk)
      /\ \A q \in Members(g) : Now(q) = e /\ (q \in RolloutRanks => q \in receivers)
  BY DEF Fair
<1>2. /\ UNCHANGED <<shape, program>>
      /\ written' = [r \in RolloutRanks |->
           IF r \in Members(g) /\ LastOfChunk(r)
           THEN written[r] \cup {<<Now(r).tensor, Now(r).chunk,
                  [q \in Ranks |-> IF q \in receivers THEN value ELSE buffer[q]][r]>>}
           ELSE written[r]]
  BY <1>1 DEF Complete
<1>3. RolloutRanks' = RolloutRanks
  BY <1>2, RanksNext
<1>4. \A r, n : Ends(r, n)' = Ends(r, n) /\ Entry(r, n)' = Entry(r, n)
  <2>1. \A i, k : Whole(i, k)' = Whole(i, k)
    BY <1>2, WholeNext
  <2> QED BY <1>2, <2>1 DEF Ends, Entry
<1>5. ASSUME NEW r \in RolloutRanks
      PROVE  written'[r] = {Entry(r, n) : n \in {m \in 1 .. pc'[r] : Ends(r, m)}}
  <2>1. r \in Ranks /\ pc[r] \in Nat
    BY DEF Ranks, Progress
  <2>2. written[r] = {Entry(r, n) : n \in {m \in 1 .. pc[r] : Ends(r, m)}}
    BY DEF Kept
  <2>3. CASE r \in Members(g)
    <3>1. pc'[r] = pc[r] + 1
      BY <1>1, <2>1, <2>3, DoneNext
    <3>2. 1 .. pc'[r] = (1 .. pc[r]) \cup {pc[r] + 1}
      BY <2>1, <3>1
    <3>3. LastOfChunk(r) <=> Ends(r, pc[r] + 1)
      <4>1. (pc[r] + 1) + 1 = pc[r] + 2
        BY <2>1
      <4> QED BY <4>1 DEF LastOfChunk, Ends, Now
    <3>4. Entry(r, pc[r] + 1) = <<e.tensor, e.chunk, Whole(e.tensor, e.chunk)>>
      <4>1. program[r][pc[r] + 1] = e
        BY <1>1, <2>3 DEF Now
      <4> QED BY <4>1 DEF Entry
    <3>5. written'[r] = IF Ends(r, pc[r] + 1) THEN written[r] \cup {Entry(r, pc[r] + 1)}
                        ELSE written[r]
      <4>1. [q \in Ranks |-> IF q \in receivers THEN value ELSE buffer[q]][r] = value
        BY <1>1, <2>1, <2>3
      <4>2. Now(r) = e
        BY <1>1, <2>3
      <4> QED BY <1>1, <1>2, <2>3, <3>3, <3>4, <4>1, <4>2
    <3> QED BY <2>2, <3>2, <3>5
  <2>4. CASE r \notin Members(g)
    <3>1. pc'[r] = pc[r]
      BY <1>1, <2>1, <2>4, DoneNext
    <3>2. written'[r] = written[r]
      BY <1>2, <2>4
    <3> QED BY <2>2, <3>1, <3>2
  <2> QED BY <2>3, <2>4
<1> QED BY <1>3, <1>4, <1>5 DEF Kept

\* Every rollout rank has something to do for every chunk.
LEMMA EveryChunk ==
  ASSUME NEW own, Fixed(own), NEW r \in RolloutRanks, NEW i \in Tensors,
         NEW k \in 1 .. shape.chunks[i]
  PROVE  \E e \in Duties(r, own) : e.tensor = i /\ e.chunk = k
<1>1. shape \in Shapes /\ Linked /\ own \in [Tensors -> Rows]
  BY DEF Fixed
<1>2. /\ shape.chunks[i] \in Nat \ {0} /\ k \in Nat \ {0}
      /\ shape.rolloutTP \in Nat \ {0} /\ shape.rolloutDP \in Nat \ {0}
  BY <1>1, ShapeFacts
<1>3. PICK o, b : o = own[i] /\ b = Bridge(o)
  OBVIOUS
<1>4. /\ o \in Rows /\ b \in RolloutRanks /\ DPRank(b) \in 0 .. shape.rolloutDP - 1
      /\ TPRank(b) \in 0 .. shape.rolloutTP - 1
  BY <1>1, <1>3, LinkFacts
<1>5. /\ DPRank(r) \in 0 .. shape.rolloutDP - 1 /\ TPRank(r) \in 0 .. shape.rolloutTP - 1
      /\ r = TrainWorld + (DPRank(r) * shape.rolloutTP) + TPRank(r)
  BY <1>1, RolloutPlace
<1>6. b = TrainWorld + (DPRank(b) * shape.rolloutTP) + TPRank(b)
  BY <1>1, <1>4, RolloutPlace
<1>7. ASSUME NEW h \in Used(o), r \in Members(h)
      PROVE  \E e \in Duties(r, own) : e.tensor = i /\ e.chunk = k
  <2>1. PICK e : e = Task(h, o, i, k)
    OBVIOUS
  <2>2. e.group = h /\ e.owner = o /\ e.tensor = i /\ e.chunk = k
    BY <2>1 DEF Task
  <2>3. e \in Tasks
    <3>1. h \in Groups
      BY DEF Used
    <3> QED BY <1>2, <1>4, <2>1, <3>1 DEF Tasks, Task
  <2>4. e \in Duties(r, own)
    BY <1>3, <1>7, <2>2, <2>3 DEF Duties
  <2> QED BY <2>2, <2>4
<1>8. CASE shape.rolloutDP > 1
  <2>1. PICK h : h = <<"column", TPRank(r)>>
    OBVIOUS
  <2>2. h \in Used(o)
    BY <1>5, <1>8, <2>1 DEF Used, Groups
  <2>3. r \in Members(h)
    BY <2>1, MembersOf
  <2> QED BY <1>7, <2>2, <2>3
<1>9. CASE shape.rolloutDP = 1 /\ shape.rolloutTP > 1
  <2>1. PICK h : h = <<"row", DPRank(b)>>
    OBVIOUS
  <2>2. h \in Used(o)
    BY <1>3, <1>4, <1>9, <2>1 DEF Used, Groups
  <2>3. DPRank(r) = DPRank(b)
    BY <1>4, <1>5, <1>9
  <2>4. r \in Members(h)
    BY <2>1, <2>3, MembersOf
  <2> QED BY <1>7, <2>2, <2>4
<1>10. CASE shape.rolloutDP = 1 /\ shape.rolloutTP = 1
  <2>1. PICK h : h = <<"relay", o>>
    OBVIOUS
  <2>2. h \in Used(o)
    BY <1>4, <2>1 DEF Used, Groups
  <2>3. DPRank(r) = DPRank(b) /\ TPRank(r) = TPRank(b)
    BY <1>4, <1>5, <1>10
  <2>4. r = b
    BY <1>5, <1>6, <2>3
  <2>5. r \in Members(h)
    BY <1>3, <2>1, <2>4, MembersOf
  <2> QED BY <1>7, <2>2, <2>5
<1> QED BY <1>2, <1>8, <1>9, <1>10

\* A rank that has done all its tasks has been through with every chunk.
LEMMA AllKept ==
  ASSUME NEW own, Fixed(own), Progress, NEW r \in RolloutRanks, Finished(r),
         NEW i \in Tensors, NEW k \in 1 .. shape.chunks[i]
  PROVE  \E n \in 1 .. pc[r] : Ends(r, n) /\ program[r][n].tensor = i /\ program[r][n].chunk = k
<1>1. r \in Ranks /\ program[r] \in Seq(Tasks) /\ ToSet(program[r]) = Duties(r, own)
  BY DEF Ranks, Fixed
<1>2. /\ Len(program[r]) \in Nat /\ DOMAIN program[r] = 1 .. Len(program[r])
      /\ pc[r] = Len(program[r])
  BY <1>1 DEF Finished
<1>3. PICK e \in Duties(r, own) : e.tensor = i /\ e.chunk = k
  BY EveryChunk
<1>4. PICK S : S = {n \in 1 .. pc[r] : program[r][n].tensor = i /\ program[r][n].chunk = k}
  OBVIOUS
<1>5. S # {}
  <2>1. e \in ToSet(program[r])
    BY <1>1
  <2>2. PICK n \in 1 .. pc[r] : program[r][n] = e
    BY <1>2, <2>1 DEF ToSet
  <2> QED BY <1>3, <1>4, <2>2
<1>6. PICK n \in S : \A m \in S : m <= n
  <2>1. PICK N : N = pc[r]
    OBVIOUS
  <2>2. N \in Nat /\ S \in SUBSET (0 .. N)
    BY <1>2, <1>4, <2>1
  <2> QED BY <1>5, <2>2, GreatestNat
<1>7. n \in 1 .. pc[r] /\ program[r][n].tensor = i /\ program[r][n].chunk = k
  BY <1>4
<1>8. Ends(r, n)
  <2> SUFFICES ASSUME n # Len(program[r]),
                      program[r][n + 1].tensor = program[r][n].tensor,
                      program[r][n + 1].chunk = program[r][n].chunk
               PROVE  FALSE
    BY DEF Ends
  <2>1. n + 1 \in 1 .. pc[r]
    BY <1>2, <1>7
  <2>2. n + 1 \in S
    BY <1>4, <1>7, <2>1
  <2> QED BY <1>2, <1>6, <1>7, <2>2
<1> QED BY <1>7, <1>8

\* What has been written is whole, and in the end it is everything.
LEMMA KeptDelivered ==
  ASSUME NEW own, Fixed(own), Progress, Kept
  PROVE  Delivered
<1> SUFFICES ASSUME NEW r \in RolloutRanks
             PROVE  /\ \A w \in written[r] : w[3] = Whole(w[1], w[2])
                    /\ AllFinished => {<<w[1], w[2]>> : w \in written[r]} = Chunks
  BY DEF Delivered
<1>1. written[r] = {Entry(r, n) : n \in {m \in 1 .. pc[r] : Ends(r, m)}}
  BY DEF Kept
<1>2. \A n : /\ Entry(r, n)[1] = program[r][n].tensor /\ Entry(r, n)[2] = program[r][n].chunk
             /\ Entry(r, n)[3] = Whole(Entry(r, n)[1], Entry(r, n)[2])
  BY DEF Entry
<1>3. \A w \in written[r] : w[3] = Whole(w[1], w[2])
  BY <1>1, <1>2
<1>4. ASSUME AllFinished PROVE {<<w[1], w[2]>> : w \in written[r]} = Chunks
  <2>1. r \in Ranks /\ Finished(r)
    BY <1>4 DEF AllFinished, Ranks
  <2>2. ASSUME NEW w \in written[r] PROVE <<w[1], w[2]>> \in Chunks
    <3>1. PICK n \in 1 .. pc[r] : w = Entry(r, n)
      BY <1>1
    <3>2. /\ program[r] \in Seq(Tasks) /\ ToSet(program[r]) = Duties(r, own)
          /\ pc[r] = Len(program[r])
      BY <2>1 DEF Fixed, Finished
    <3>3. program[r][n] \in Duties(r, own)
      <4>1. n \in DOMAIN program[r]
        BY <3>2
      <4> QED BY <3>2, <4>1 DEF ToSet
    <3>4. /\ program[r][n].tensor \in Tensors
          /\ program[r][n].chunk \in 1 .. shape.chunks[program[r][n].tensor]
      BY <3>3 DEF Duties, Tasks
    <3> QED BY <1>2, <3>1, <3>4 DEF Chunks
  <2>3. ASSUME NEW c \in Chunks PROVE \E w \in written[r] : c = <<w[1], w[2]>>
    <3>1. PICK i \in Tensors : \E k \in 1 .. shape.chunks[i] : c = <<i, k>>
      BY DEF Chunks
    <3>2. PICK k \in 1 .. shape.chunks[i] : c = <<i, k>>
      BY <3>1
    <3>3. PICK n \in 1 .. pc[r] :
            Ends(r, n) /\ program[r][n].tensor = i /\ program[r][n].chunk = k
      BY <2>1, AllKept
    <3>4. Entry(r, n) \in written[r]
      BY <1>1, <3>3
    <3> QED BY <1>2, <3>2, <3>3, <3>4
  <2> QED BY <2>2, <2>3
<1> QED BY <1>3, <1>4

\* Every step is a collective that leaves its ranks with the chunk.
LEMMA FairStep ==
  ASSUME NEW own, Fixed(own), Progress, Agree, Filled, Next
  PROVE  UNCHANGED vars \/ \E g, receivers, value, e : Fair(g, receivers, value, e)
<1>1. CASE \E o \in Rows : Reduce(o) \/ RelayChunk(o)
  BY <1>1, ReduceFair, RelayFair
<1>2. CASE \E d \in 0 .. shape.rolloutDP - 1 : BroadcastRow(d)
  BY <1>2, RowFair
<1>3. CASE \E t \in 0 .. shape.rolloutTP - 1 : BroadcastColumn(t)
  BY <1>3, ColumnFair
<1>4. CASE Returned
  BY <1>4 DEF Returned
<1> QED BY <1>1, <1>2, <1>3, <1>4 DEF Next

\* A step that changes nothing keeps what is held and written.
LEMMA UnchangedHolds ==
  ASSUME UNCHANGED vars
  PROVE  (Filled => Filled') /\ (Kept => Kept')
<1>1. UNCHANGED <<shape, relay, program, pc, buffer, written>>
  BY DEF vars
<1>2. /\ RolloutRanks' = RolloutRanks /\ Rows' = Rows /\ \A o : Source(o)' = Source(o)
      /\ \A i, k : Whole(i, k)' = Whole(i, k)
  BY <1>1, RanksNext, LinksNext, WholeNext
<1>3. Filled => Filled'
  BY <1>1, <1>2 DEF Filled, Holds, Latest
<1>4. \A r, n : Ends(r, n)' = Ends(r, n) /\ Entry(r, n)' = Entry(r, n)
  BY <1>1, <1>2 DEF Ends, Entry
<1>5. Kept => Kept'
  BY <1>1, <1>2, <1>4 DEF Kept
<1> QED BY <1>3, <1>5

\* Nothing is held or written yet.
LEMMA InitHolds ==
  ASSUME Init
  PROVE  Filled /\ Kept
<1>1. Fixed(Owners)
  BY InitFixed
<1>2. \A r \in Ranks : pc[r] = 0
  BY DEF Init
<1>3. Filled
  <2>1. \A r \in RolloutRanks : r \in Ranks
    BY DEF Ranks
  <2>2. \A o \in Rows : Source(o) \in Ranks
    BY <1>1, LinkFacts DEF Fixed, Ranks
  <2> QED BY <1>2, <2>1, <2>2 DEF Filled, Holds
<1>4. Kept
  <2>1. \A r \in RolloutRanks : written[r] = {} /\ pc[r] = 0
    BY <1>2 DEF Init, Ranks
  <2> QED BY <2>1 DEF Kept
<1> QED BY <1>3, <1>4

\* The buffers and the written chunks, from the first step of the transfer to its
\* last.
THEOREM ChunksHold == Spec => [](Filled /\ Kept)
<1>1. Init => Filled /\ Kept
  BY InitHolds
<1>2. TransferInv /\ Filled /\ Kept /\ [Next]_vars => (Filled /\ Kept)'
  <2> SUFFICES ASSUME TransferInv, Filled, Kept, [Next]_vars PROVE Filled' /\ Kept'
    OBVIOUS
  <2>1. PICK own : Fixed(own)
    BY DEF TransferInv
  <2>2. Progress /\ Agree
    BY DEF TransferInv
  <2>3. CASE UNCHANGED vars
    BY <2>3, UnchangedHolds
  <2>4. CASE \E g, receivers, value, e : Fair(g, receivers, value, e)
    BY <2>1, <2>2, <2>4, FilledNext, KeptNext
  <2> QED BY <2>1, <2>2, <2>3, <2>4, FairStep
<1> QED BY <1>1, <1>2, TransferHolds, PTL DEF Spec

\* What a rollout rank writes to a chunk is that chunk, whole, and in the end it
\* has written all of them.
THEOREM DeliveredHolds == Spec => []Delivered
<1>1. TransferInv /\ Filled /\ Kept => Delivered
  BY KeptDelivered DEF TransferInv
<1> QED BY <1>1, TransferHolds, ChunksHold, PTL
=============================================================================
