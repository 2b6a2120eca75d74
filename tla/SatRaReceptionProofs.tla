------------------------ MODULE SatRaReceptionProofs ------------------------
(***************************************************************************)
(* What a carrier of random access hears (SatRaReception): the changes of  *)
(* power, what they sum to, and what a frame of slotted ALOHA, CRDSA or    *)
(* MARSALA makes of it.  SatReturnLinkProofs adds ESSA and concludes.      *)
(***************************************************************************)
EXTENDS SatRaReception, SatFacts, SequenceTheorems

-----------------------------------------------------------------------------
(* The list of changes. *)

BurstOk(b) ==
  b.sender \in Sender /\ b.start \in Nat /\ b.end \in Nat /\ b.start < b.end

\* The two changes of a burst.
Rise(b) == Change(b, b.start, RxPower[b.sender], FALSE)
Fall(b) == Change(b, b.end, -RxPower[b.sender], TRUE)

\* A list, in the order of time, of changes of the bursts in H, none twice.
IsList(L, H) ==
  /\ IsFiniteSet(H) /\ \A b \in H : BurstOk(b)
  /\ L \in Seq({Rise(b) : b \in H} \cup {Fall(b) : b \in H})
  /\ \A i, j \in 1 .. Len(L) : i < j => L[i].time <= L[j].time
  /\ \A i, j \in 1 .. Len(L) : L[i].event = L[j].event /\ L[i].isEnd = L[j].isEnd => i = j

\* The changes behind a position, and the bursts that last at it.
Behind(L, k) == {<<L[i].event, L[i].isEnd>> : i \in k + 1 .. Len(L)}
Lasting(L, b, k) == <<b, FALSE>> \notin Behind(L, k) /\ <<b, TRUE>> \in Behind(L, k)
PowerLasting(L, H, k) == [b \in H |-> IF Lasting(L, b, k) THEN RxPower[b.sender] ELSE 0]

\* What the members of a list are.
LEMMA ListMember ==
  ASSUME NEW L, NEW H, IsList(L, H), NEW i \in 1 .. Len(L)
  PROVE  /\ Len(L) \in Nat /\ DOMAIN L = 1 .. Len(L)
         /\ L[i].event \in H /\ BurstOk(L[i].event)
         /\ L[i].time \in Nat /\ L[i].power \in Int /\ L[i].isEnd \in BOOLEAN
         /\ L[i] = IF L[i].isEnd THEN Fall(L[i].event) ELSE Rise(L[i].event)
         /\ L[i].time = IF L[i].isEnd THEN L[i].event.end ELSE L[i].event.start
         /\ L[i].power = IF L[i].isEnd THEN -RxPower[L[i].event.sender]
                         ELSE RxPower[L[i].event.sender]
         /\ RxPower[L[i].event.sender] \in Nat
<1>1. Len(L) \in Nat /\ DOMAIN L = 1 .. Len(L)
  BY DEF IsList
<1>2. L[i] \in {Rise(b) : b \in H} \cup {Fall(b) : b \in H}
  BY DEF IsList
<1>3. PICK b \in H : L[i] = Rise(b) \/ L[i] = Fall(b)
  BY <1>2
<1>4. BurstOk(b) /\ RxPower[b.sender] \in Nat
  BY CarrierAssumption DEF IsList, BurstOk
<1>5. CASE L[i] = Rise(b)
  <2>1. L[i].event = b /\ L[i].time = b.start /\ L[i].power = RxPower[b.sender] /\ L[i].isEnd = FALSE
    BY <1>5 DEF Rise, Change
  <2>2. L[i] = Rise(L[i].event) /\ L[i].isEnd \in BOOLEAN /\ ~L[i].isEnd
    BY <1>5, <2>1
  <2>3. L[i].time \in Nat /\ L[i].power \in Int
    BY <1>4, <2>1 DEF BurstOk
  <2> QED BY <1>1, <1>4, <2>1, <2>2, <2>3
<1>6. CASE L[i] = Fall(b)
  <2>1. L[i].event = b /\ L[i].time = b.end /\ L[i].power = -RxPower[b.sender] /\ L[i].isEnd = TRUE
    BY <1>6 DEF Fall, Change
  <2>2. L[i] = Fall(L[i].event) /\ L[i].isEnd \in BOOLEAN /\ L[i].isEnd
    BY <1>6, <2>1
  <2>3. L[i].time \in Nat /\ L[i].power \in Int
    BY <1>4, <2>1 DEF BurstOk
  <2> QED BY <1>1, <1>4, <2>1, <2>2, <2>3
<1> QED BY <1>3, <1>5, <1>6

\* The changes up to a time are the first ones.
LEMMA CountOfPrefix ==
  ASSUME NEW L, NEW H, IsList(L, H), NEW t \in Int
  PROVE  /\ CountUpTo(L, t) \in 0 .. Len(L)
         /\ \A i \in 1 .. Len(L) : i <= CountUpTo(L, t) <=> L[i].time <= t
<1> DEFINE P == {i \in DOMAIN L : L[i].time <= t}
<1>1. Len(L) \in Nat /\ DOMAIN L = 1 .. Len(L)
  BY DEF IsList
<1>2. P \in SUBSET Nat /\ P \subseteq 1 .. Len(L) /\ IsFiniteSet(P)
  <2>1. IsFiniteSet(1 .. Len(L))
    BY <1>1, FS_Interval
  <2>2. P \in SUBSET Nat /\ P \subseteq 1 .. Len(L)
    BY <1>1
  <2> HIDE DEF P
  <2> QED BY <2>1, <2>2, FS_Subset
<1>3. \A n \in P : n >= 1 /\ 1 .. n \subseteq P
  <2>1. ASSUME NEW n \in P, NEW m \in 1 .. n PROVE m \in P
    <3>1. m \in 1 .. Len(L) /\ n \in 1 .. Len(L) /\ (m < n \/ m = n)
      BY <1>1
    <3>2. L[m].time <= L[n].time
      BY <3>1, ListMember DEF IsList
    <3>3. L[m].time \in Nat /\ L[n].time \in Nat /\ L[n].time <= t
      BY <3>1, ListMember
    <3> QED BY <1>1, <3>1, <3>2, <3>3
  <2> QED BY <1>1, <2>1
<1>4. P = 1 .. 1 + Cardinality(P) - 1 /\ Cardinality(P) \in Nat
  <2> HIDE DEF P
  <2> QED BY <1>2, <1>3, DownClosedInterval, FS_CardinalityType
<1>5. CountUpTo(L, t) = Cardinality(P)
  BY DEF CountUpTo
<1>6. Cardinality(P) <= Len(L)
  <2>1. IsFiniteSet(1 .. Len(L)) /\ Cardinality(1 .. Len(L)) = Len(L)
    BY <1>1, FirstNumbers
  <2> HIDE DEF P
  <2> QED BY <2>1, <1>2, FS_Subset
<1>7. \A i \in 1 .. Len(L) : i \in P <=> L[i].time <= t
  BY <1>1
<1> HIDE DEF P
<1> QED BY <1>1, <1>4, <1>5, <1>6, <1>7

\* q is s with e put in after place n.
WithPut(q, S, s, n, e) ==
  /\ q \in Seq(S) /\ Len(q) = Len(s) + 1
  /\ \A i \in 1 .. Len(q) : q[i] = IF i <= n THEN s[i] ELSE IF i = n + 1 THEN e ELSE s[i - 1]

\* A sequence with an element put in, or taken out, at a position.
LEMMA InsertedAt ==
  ASSUME NEW S, NEW s \in Seq(S), NEW n \in 0 .. Len(s), NEW e \in S, NEW q, q = InsertAt(s, n + 1, e)
  PROVE  WithPut(q, S, s, n, e)
<1> DEFINE a == SubSeq(s, 1, n)
           b == SubSeq(s, n + 1, Len(s))
           d == a \o <<e>>
           r == d \o b
<1>1. InsertAt(s, n + 1, e) = r
  <2>1. (n + 1) - 1 = n
    OBVIOUS
  <2> QED BY <2>1 DEF InsertAt
<1>2. a \in Seq(S) /\ Len(a) = n /\ \A i \in 1 .. n : a[i] = s[i]
  OBVIOUS
<1>3. b \in Seq(S) /\ Len(b) = Len(s) - n /\ \A i \in 1 .. Len(s) - n : b[i] = s[n + i]
  OBVIOUS
<1> HIDE DEF a, b
<1>4. d \in Seq(S) /\ Len(d) = n + 1 /\ \A i \in 1 .. n + 1 : d[i] = IF i <= n THEN s[i] ELSE e
  BY <1>2
<1> HIDE DEF d
<1>5. r \in Seq(S) /\ Len(r) = Len(s) + 1
      /\ \A i \in 1 .. Len(r) : r[i] = IF i <= n + 1 THEN d[i] ELSE b[i - (n + 1)]
  <2>1. /\ r \in Seq(S) /\ Len(r) = Len(d) + Len(b)
        /\ \A i \in 1 .. Len(d) + Len(b) : r[i] = IF i <= Len(d) THEN d[i] ELSE b[i - Len(d)]
    BY <1>3, <1>4, ConcatProperties
  <2> QED BY <1>3, <1>4, <2>1
<1> HIDE DEF r
<1>6. ASSUME NEW i \in 1 .. Len(r)
      PROVE  r[i] = IF i <= n THEN s[i] ELSE IF i = n + 1 THEN e ELSE s[i - 1]
  <2>1. CASE i <= n + 1
    BY <1>4, <1>5, <2>1
  <2>2. CASE ~(i <= n + 1)
    <3>1. i - (n + 1) \in 1 .. Len(s) - n /\ n + (i - (n + 1)) = i - 1
      BY <1>5, <2>2
    <3>2. b[i - (n + 1)] = s[i - 1]
      BY <1>3, <3>1
    <3> QED BY <1>5, <2>2, <3>2
  <2> QED BY <2>1, <2>2
<1> HIDE DEF r
<1> QED BY <1>1, <1>5, <1>6 DEF WithPut

\* The first changes taken off a list.
LEMMA ListFrom ==
  ASSUME NEW L, NEW H, IsList(L, H), NEW n \in 0 .. Len(L)
  PROVE  LET r == SubSeq(L, n + 1, Len(L))
         IN  IsList(r, H) /\ Len(r) = Len(L) - n /\ \A k \in 0 .. Len(r) : Behind(r, k) = Behind(L, n + k)
<1> DEFINE r == SubSeq(L, n + 1, Len(L))
<1>1. /\ Len(r) = Len(L) - n /\ Len(L) \in Nat
      /\ \A i \in 1 .. Len(r) : i + n \in 1 .. Len(L) /\ r[i] = L[n + i]
  BY DEF IsList
<1>2. r \in Seq({Rise(b) : b \in H} \cup {Fall(b) : b \in H})
  BY DEF IsList
<1> HIDE DEF r
<1>3. \A i, j \in 1 .. Len(r) : i < j => r[i].time <= r[j].time
  BY <1>1, SMTT(30) DEF IsList
<1>4. \A i, j \in 1 .. Len(r) : r[i].event = r[j].event /\ r[i].isEnd = r[j].isEnd => i = j
  <2>1. ASSUME NEW i \in 1 .. Len(r), NEW j \in 1 .. Len(r), r[i].event = r[j].event,
               r[i].isEnd = r[j].isEnd
        PROVE  i = j
    <3>1. n + i = n + j
      BY <1>1, <2>1, SMTT(30) DEF IsList
    <3> QED BY <3>1
  <2> QED BY <2>1
<1>5. ASSUME NEW k \in 0 .. Len(r) PROVE Behind(r, k) = Behind(L, n + k)
  <2>1. \A i \in k + 1 .. Len(r) : i + n \in n + k + 1 .. Len(L) /\ r[i] = L[n + i]
    BY <1>1
  <2>2. \A i \in n + k + 1 .. Len(L) : i - n \in k + 1 .. Len(r) /\ r[i - n] = L[i]
    BY <1>1
  <2>3. Behind(r, k) \subseteq Behind(L, n + k)
    BY <2>1 DEF Behind
  <2>4. Behind(L, n + k) \subseteq Behind(r, k)
    BY <2>2 DEF Behind
  <2> QED BY <2>3, <2>4
<1> QED BY <1>1, <1>2, <1>3, <1>4, <1>5 DEF IsList, r

\* A change put into a list that has not got it.
LEMMA ListInserted ==
  ASSUME NEW L, NEW H, IsList(L, H), NEW c \in {Rise(b) : b \in H} \cup {Fall(b) : b \in H},
         <<c.event, c.isEnd>> \notin Behind(L, 0)
  PROVE  /\ IsList(InsertChange(L, c), H)
         /\ Behind(InsertChange(L, c), 0) = Behind(L, 0) \cup {<<c.event, c.isEnd>>}
<1> DEFINE n == CountUpTo(L, c.time)
           r == InsertChange(L, c)
           S == {Rise(b) : b \in H} \cup {Fall(b) : b \in H}
<1>1. c.time \in Nat
  <2>1. PICK b \in H : c = Rise(b) \/ c = Fall(b)
    OBVIOUS
  <2>2. b.start \in Nat /\ b.end \in Nat
    BY DEF IsList, BurstOk
  <2> QED BY <2>1, <2>2 DEF Rise, Fall, Change
<1>2. n \in 0 .. Len(L) /\ \A i \in 1 .. Len(L) : i <= n <=> L[i].time <= c.time
  <2>1. PICK t \in Int : t = c.time
    BY <1>1
  <2>2. /\ CountUpTo(L, t) \in 0 .. Len(L)
        /\ \A i \in 1 .. Len(L) : i <= CountUpTo(L, t) <=> L[i].time <= t
    BY CountOfPrefix
  <2>3. n = CountUpTo(L, t)
    BY <2>1
  <2> HIDE DEF n
  <2> QED BY <2>1, <2>2, <2>3
<1>3. L \in Seq(S) /\ c \in S
  BY DEF IsList
<1>4. Len(L) \in Nat
  BY <1>3
<1> HIDE DEF n, S
<1>5. /\ r \in Seq(S) /\ Len(r) = Len(L) + 1
      /\ \A i \in 1 .. Len(r) : r[i] = IF i <= n THEN L[i] ELSE IF i = n + 1 THEN c ELSE L[i - 1]
  <2>1. r = InsertAt(L, n + 1, c)
    BY DEF InsertChange, n
  <2> HIDE DEF r
  <2>2. n \in 0 .. Len(L)
    BY <1>2
  <2>3. L \in Seq(S)
    BY <1>3
  <2>4. c \in S
    BY <1>3
  <2>5. WithPut(r, S, L, n, c)
    BY <2>1, <2>2, <2>3, <2>4, InsertedAt, ZenonT(60)
  <2> QED BY <2>5 DEF WithPut
<1> HIDE DEF r
<1> DEFINE old(i) == IF i <= n THEN i ELSE i - 1
<1>6. \A i \in 1 .. Len(r) : i # n + 1 => old(i) \in 1 .. Len(L) /\ r[i] = L[old(i)]
  BY <1>2, <1>4, <1>5
<1>7. \A i \in 1 .. Len(L) : L[i].time \in Nat
  BY ListMember
<1>8. ASSUME NEW i \in 1 .. Len(r), NEW j \in 1 .. Len(r), i < j PROVE r[i].time <= r[j].time
  <2>1. CASE i # n + 1 /\ j # n + 1
    <3>1. old(i) < old(j)
      <4>1. n \in Nat /\ Len(L) \in Nat /\ Len(r) = Len(L) + 1
        BY <1>2, <1>4, <1>5
      <4>2. PICK m \in Nat : m = Len(r)
        BY <4>1
      <4>3. i \in 1 .. m /\ j \in 1 .. m
        BY <4>2
      <4> QED BY <1>8, <2>1, <4>1, <4>3
    <3>2. r[i] = L[old(i)] /\ r[j] = L[old(j)]
      BY <1>6, <2>1
    <3>3. PICK x \in 1 .. Len(L), y \in 1 .. Len(L) : x = old(i) /\ y = old(j)
      BY <1>6, <2>1
    <3>4. x < y
      BY <3>1, <3>3
    <3>5. L[x].time <= L[y].time
      BY <3>4 DEF IsList
    <3> QED BY <3>2, <3>3, <3>5
  <2>2. CASE i = n + 1
    <3>1. r[i] = c /\ r[j] = L[j - 1] /\ j - 1 \in 1 .. Len(L) /\ ~(j - 1 <= n)
      <4>1. n \in Nat /\ Len(L) \in Nat /\ Len(r) = Len(L) + 1
        BY <1>2, <1>4, <1>5
      <4>2. PICK m \in Nat : m = Len(r)
        BY <4>1
      <4>3. i \in 1 .. m /\ j \in 1 .. m /\ m = Len(L) + 1
        BY <4>1, <4>2
      <4>4. j - 1 \in 1 .. Len(L) /\ ~(j - 1 <= n) /\ ~(j <= n) /\ j # n + 1 /\ ~(i <= n)
        BY <1>8, <2>2, <4>1, <4>3
      <4>5. r[i] = IF i <= n THEN L[i] ELSE IF i = n + 1 THEN c ELSE L[i - 1]
        BY <1>5
      <4>6. r[j] = IF j <= n THEN L[j] ELSE IF j = n + 1 THEN c ELSE L[j - 1]
        BY <1>5
      <4> QED BY <2>2, <4>4, <4>5, <4>6
    <3> QED BY <1>1, <1>2, <1>7, <3>1
  <2>3. CASE j = n + 1
    <3>1. r[j] = c /\ r[i] = L[i] /\ i \in 1 .. Len(L) /\ i <= n
      <4>1. n \in Nat /\ n <= Len(L) /\ Len(L) \in Nat /\ Len(r) = Len(L) + 1
        BY <1>2, <1>4, <1>5
      <4>2. PICK m \in Nat : m = Len(r)
        BY <4>1
      <4>3. i \in 1 .. m /\ j \in 1 .. m /\ m = Len(L) + 1
        BY <4>1, <4>2
      <4>4. i \in 1 .. Len(L) /\ i <= n /\ ~(j <= n)
        BY <1>8, <2>3, <4>1, <4>3
      <4>5. r[i] = IF i <= n THEN L[i] ELSE IF i = n + 1 THEN c ELSE L[i - 1]
        BY <1>5
      <4>6. r[j] = IF j <= n THEN L[j] ELSE IF j = n + 1 THEN c ELSE L[j - 1]
        BY <1>5
      <4> QED BY <2>3, <4>4, <4>5, <4>6
    <3> QED BY <1>2, <3>1
  <2> QED BY <2>1, <2>2, <2>3
<1>9. ASSUME NEW i \in 1 .. Len(r), NEW j \in 1 .. Len(r), r[i].event = r[j].event, r[i].isEnd = r[j].isEnd
      PROVE  i = j
  <2>1. \A k \in 1 .. Len(L) : ~(L[k].event = c.event /\ L[k].isEnd = c.isEnd)
    <3>1. \A k \in 1 .. Len(L) : <<L[k].event, L[k].isEnd>> \in Behind(L, 0)
      BY <1>4 DEF Behind
    <3> QED BY <3>1
  <2>2. r[n + 1] = c
    BY <1>2, <1>4, <1>5
  <2>3. CASE i # n + 1 /\ j # n + 1
    <3>1. old(i) = old(j)
      BY <1>6, <1>9, <2>3, ZenonT(60) DEF IsList
    <3>2. Len(r) \in Nat
      BY <1>4, <1>5, SMTT(30)
    <3> HIDE DEF r
    <3> QED BY <1>2, <2>3, <3>1, <3>2, SMTT(30)
  <2>4. CASE i = n + 1 /\ j # n + 1
    BY <1>6, <1>9, <2>1, <2>2, <2>4
  <2>5. CASE i # n + 1 /\ j = n + 1
    BY <1>6, <1>9, <2>1, <2>2, <2>5
  <2> QED BY <2>3, <2>4, <2>5
<1>10. Behind(r, 0) = Behind(L, 0) \cup {<<c.event, c.isEnd>>}
  <2>1. ASSUME NEW i \in 0 + 1 .. Len(r)
        PROVE  <<r[i].event, r[i].isEnd>> \in Behind(L, 0) \cup {<<c.event, c.isEnd>>}
    <3>1. CASE i = n + 1
      <4>1. r[i] = c
        BY <1>2, <1>4, <1>5, <3>1
      <4> QED BY <4>1
    <3>2. CASE i # n + 1
      BY <1>4, <1>6, <3>2 DEF Behind
    <3> QED BY <3>1, <3>2
  <2>2. ASSUME NEW i \in 0 + 1 .. Len(L) PROVE <<L[i].event, L[i].isEnd>> \in Behind(r, 0)
    <3>1. PICK j \in 0 + 1 .. Len(r) : r[j] = L[i]
      <4>1. CASE i <= n
        BY <1>2, <1>4, <1>5, <4>1
      <4>2. CASE ~(i <= n)
        <5>1. i + 1 \in 0 + 1 .. Len(r) /\ r[i + 1] = L[i]
          BY <1>2, <1>4, <1>5, <4>2
        <5> QED BY <5>1
      <4> QED BY <4>1, <4>2
    <3> QED BY <3>1 DEF Behind
  <2>3. <<c.event, c.isEnd>> \in Behind(r, 0)
    <3>1. n + 1 \in 0 + 1 .. Len(r) /\ r[n + 1] = c
      BY <1>2, <1>4, <1>5
    <3> QED BY <3>1 DEF Behind
  <2>4. Behind(r, 0) \subseteq Behind(L, 0) \cup {<<c.event, c.isEnd>>}
    BY <2>1 DEF Behind
  <2>5. Behind(L, 0) \subseteq Behind(r, 0)
    BY <2>2 DEF Behind
  <2> QED BY <2>3, <2>4, <2>5
<1> QED BY <1>5, <1>8, <1>9, <1>10 DEF IsList, r, S

\* A burst that is still to begin is still to end.
Complete(L) == \A i \in 1 .. Len(L) : ~L[i].isEnd => <<L[i].event, TRUE>> \in Behind(L, 0)

\* What is behind a position is the next change and what is behind that.
LEMMA NextBehind ==
  ASSUME NEW L, NEW H, IsList(L, H), NEW k \in Nat, k + 1 \in 1 .. Len(L)
  PROVE  /\ Behind(L, k) = Behind(L, k + 1) \cup {<<L[k + 1].event, L[k + 1].isEnd>>}
         /\ <<L[k + 1].event, L[k + 1].isEnd>> \notin Behind(L, k + 1)
<1>1. Len(L) \in Nat
  BY DEF IsList
<1>2. \A i \in k + 1 .. Len(L) : i = k + 1 \/ i \in (k + 1) + 1 .. Len(L)
  BY <1>1
<1>3. \A i \in (k + 1) + 1 .. Len(L) : i \in k + 1 .. Len(L)
  BY <1>1
<1>4. k + 1 \in k + 1 .. Len(L)
  BY <1>1
<1>5. Behind(L, k) \subseteq Behind(L, k + 1) \cup {<<L[k + 1].event, L[k + 1].isEnd>>}
  BY <1>2 DEF Behind
<1>6. Behind(L, k + 1) \cup {<<L[k + 1].event, L[k + 1].isEnd>>} \subseteq Behind(L, k)
  BY <1>3, <1>4 DEF Behind
<1>7. ASSUME <<L[k + 1].event, L[k + 1].isEnd>> \in Behind(L, k + 1) PROVE FALSE
  <2>1. PICK i \in (k + 1) + 1 .. Len(L) :
          <<L[k + 1].event, L[k + 1].isEnd>> = <<L[i].event, L[i].isEnd>>
    BY <1>7 DEF Behind
  <2>2. i \in 1 .. Len(L) /\ i # k + 1
    BY <1>1
  <2>3. L[k + 1].event = L[i].event /\ L[k + 1].isEnd = L[i].isEnd
    BY <2>1
  <2> QED BY <2>2, <2>3 DEF IsList
<1> QED BY <1>5, <1>6, <1>7

\* A rise begins a burst that lasts from then on; a fall ends one that did.
LEMMA NextLasting ==
  ASSUME NEW L, NEW H, IsList(L, H), Complete(L), NEW k \in Nat, k + 1 \in 1 .. Len(L)
  PROVE  LET b == L[k + 1].event
         IN  /\ \A x : x # b => (Lasting(L, x, k + 1) <=> Lasting(L, x, k))
             /\ ~L[k + 1].isEnd => ~Lasting(L, b, k) /\ Lasting(L, b, k + 1)
             /\ L[k + 1].isEnd => Lasting(L, b, k) /\ ~Lasting(L, b, k + 1)
<1> DEFINE b == L[k + 1].event
<1>1. /\ Behind(L, k) = Behind(L, k + 1) \cup {<<b, L[k + 1].isEnd>>}
      /\ <<b, L[k + 1].isEnd>> \notin Behind(L, k + 1)
  BY NextBehind
<1>2. /\ Len(L) \in Nat /\ BurstOk(b) /\ L[k + 1].isEnd \in BOOLEAN
      /\ L[k + 1].time = IF L[k + 1].isEnd THEN b.end ELSE b.start
  BY ListMember
<1> HIDE DEF b
<1>3. \A x : x # b => (Lasting(L, x, k + 1) <=> Lasting(L, x, k))
  BY <1>1 DEF Lasting
<1>4. ASSUME ~L[k + 1].isEnd PROVE ~Lasting(L, b, k) /\ Lasting(L, b, k + 1)
  <2>1. L[k + 1].isEnd = FALSE
    BY <1>2, <1>4
  <2>2. <<b, FALSE>> \in Behind(L, k) /\ <<b, FALSE>> \notin Behind(L, k + 1)
    BY <1>1, <2>1
  <2>3. <<b, TRUE>> \in Behind(L, 0)
    BY <1>4 DEF Complete, b
  <2>4. PICK j \in 0 + 1 .. Len(L) : <<b, TRUE>> = <<L[j].event, L[j].isEnd>>
    BY <2>3 DEF Behind
  <2>5. j \in 1 .. Len(L) /\ L[j].event = b /\ L[j].isEnd /\ L[j].time = b.end
    <3>1. j \in 1 .. Len(L) /\ L[j].event = b /\ L[j].isEnd
      <4>1. L[j].event = b /\ L[j].isEnd = TRUE
        BY <2>4, Zenon
      <4> QED BY <4>1
    <3>2. L[j].time = IF L[j].isEnd THEN L[j].event.end ELSE L[j].event.start
      BY <3>1, ListMember
    <3> QED BY <3>1, <3>2
  <2>6. ~(j < k + 1) /\ j # k + 1
    <3>1. L[k + 1].time = b.start
      BY <1>2, <1>4
    <3>2. j < k + 1 => L[j].time <= L[k + 1].time
      BY <2>5 DEF IsList
    <3> QED BY <1>2, <1>4, <2>5, <3>1, <3>2 DEF BurstOk
  <2>7. j \in (k + 1) + 1 .. Len(L)
    BY <1>2, <2>5, <2>6
  <2>8. <<b, TRUE>> \in Behind(L, k + 1)
    BY <2>4, <2>7 DEF Behind
  <2> QED BY <2>2, <2>8 DEF Lasting
<1>5. ASSUME L[k + 1].isEnd PROVE Lasting(L, b, k) /\ ~Lasting(L, b, k + 1)
  <2>1. L[k + 1].isEnd = TRUE
    BY <1>2, <1>5
  <2>2. <<b, TRUE>> \in Behind(L, k) /\ <<b, TRUE>> \notin Behind(L, k + 1)
    BY <1>1, <2>1
  <2>3. ASSUME <<b, FALSE>> \in Behind(L, k) PROVE FALSE
    <3>1. PICK j \in k + 1 .. Len(L) : <<b, FALSE>> = <<L[j].event, L[j].isEnd>>
      BY <2>3 DEF Behind
    <3>2. j \in 1 .. Len(L) /\ L[j].event = b /\ ~L[j].isEnd
      <4>1. L[j].event = b /\ L[j].isEnd = FALSE
        BY <3>1, Zenon
      <4> QED BY <1>2, <4>1
    <3>3. L[j].time = b.start
      <4>1. L[j].time = IF L[j].isEnd THEN L[j].event.end ELSE L[j].event.start
        BY <3>2, ListMember
      <4> QED BY <3>2, <4>1
    <3>4. j # k + 1
      BY <1>5, <3>2
    <3>5. L[k + 1].time <= L[j].time
      BY <1>2, <3>2, <3>4 DEF IsList
    <3> QED BY <1>2, <1>5, <3>3, <3>5 DEF BurstOk
  <2> QED BY <2>2, <2>3 DEF Lasting
<1> QED BY <1>3, <1>4, <1>5 DEF b

\* The power of the first changes is the sum of theirs.
LEMMA PowerOfFirst ==
  ASSUME NEW L, NEW H, IsList(L, H), NEW k \in 0 .. Len(L)
  PROVE  PowerOf(SubSeq(L, 1, k)) = SumFunctionOnSet([i \in 1 .. Len(L) |-> L[i].power], 1 .. k)
<1> DEFINE s == SubSeq(L, 1, k)
           f == [i \in DOMAIN s |-> s[i].power]
           g == [i \in 1 .. Len(L) |-> L[i].power]
<1>1. Len(L) \in Nat /\ DOMAIN s = 1 .. k /\ \A i \in 1 .. k : s[i] = L[i] /\ i \in 1 .. Len(L)
  BY DEF IsList
<1> HIDE DEF s
<1>2. DOMAIN f = 1 .. k /\ \A i \in 1 .. k : f[i] = g[i] /\ f[i] \in Int
  BY <1>1, ListMember
<1>3. PowerOf(s) = SumFunctionOnSet(f, DOMAIN f)
  BY DEF PowerOf, SumFunction
<1> HIDE DEF f, g
<1>4. IsFiniteSet(1 .. k)
  BY FirstNumbers
<1>5. SumFunctionOnSet(f, 1 .. k) = SumFunctionOnSet(g, 1 .. k)
  BY <1>2, <1>4, SumSame
<1> QED BY <1>2, <1>3, <1>5 DEF s, g

\* The changes up to a position add up to the power of the bursts that last there.
LEMMA PowerUpTo ==
  ASSUME NEW L, NEW H, IsList(L, H), Complete(L), NEW R,
         R = SumFunctionOnSet(PowerLasting(L, H, 0), H)
  PROVE  \A k \in 0 .. Len(L) :
           R + PowerOf(SubSeq(L, 1, k)) = SumFunctionOnSet(PowerLasting(L, H, k), H)
<1> DEFINE g == [i \in 1 .. Len(L) |-> L[i].power]
           A == {k \in Nat : k <= Len(L) =>
                   R + SumFunctionOnSet(g, 1 .. k) = SumFunctionOnSet(PowerLasting(L, H, k), H)}
<1>1. Len(L) \in Nat /\ IsFiniteSet(H) /\ \A i \in 1 .. Len(L) : g[i] = L[i].power /\ g[i] \in Int
  BY ListMember DEF IsList
<1> HIDE DEF g
<1>2. ASSUME NEW k PROVE \A b \in H : PowerLasting(L, H, k)[b] \in Int
  <2>1. \A b \in H : RxPower[b.sender] \in Int
    BY CarrierAssumption DEF IsList, BurstOk
  <2> QED BY <2>1 DEF PowerLasting
<1>3. ASSUME NEW k PROVE SumFunctionOnSet(PowerLasting(L, H, k), H) \in Int
  BY <1>1, <1>2, SumType
<1>4. 0 \in A
  <2>1. 1 .. 0 = {}
    OBVIOUS
  <2>2. SumFunctionOnSet(g, 1 .. 0) = 0
    BY <2>1, SumOfNone
  <2> QED BY <1>3, <2>2
<1>5. ASSUME NEW k \in Nat, k \in A PROVE k + 1 \in A
  <2>1. SUFFICES ASSUME k + 1 <= Len(L)
        PROVE  R + SumFunctionOnSet(g, 1 .. k + 1) = SumFunctionOnSet(PowerLasting(L, H, k + 1), H)
    OBVIOUS
  <2>2. k + 1 \in 1 .. Len(L) /\ k <= Len(L) /\ \A i \in 1 .. k + 1 : i \in 1 .. Len(L)
    BY <1>1, <2>1
  <2>3. SumFunctionOnSet(g, 1 .. k + 1) = SumFunctionOnSet(g, 1 .. k) + g[k + 1]
    BY <1>1, <2>2, SumToNext
  <2>4. SumFunctionOnSet(g, 1 .. k) \in Int
    <3>1. IsFiniteSet(1 .. k) /\ \A i \in 1 .. k : g[i] \in Int
      BY <1>1, <2>2, FirstNumbers
    <3> QED BY <3>1, SumType
  <2>5. R + SumFunctionOnSet(g, 1 .. k) = SumFunctionOnSet(PowerLasting(L, H, k), H)
    BY <1>5, <2>2
  <2> DEFINE b == L[k + 1].event
             e == PowerLasting(L, H, k)
             f == PowerLasting(L, H, k + 1)
  <2>6. b \in H /\ L[k + 1].power = (IF L[k + 1].isEnd THEN -RxPower[b.sender] ELSE RxPower[b.sender])
        /\ L[k + 1].isEnd \in BOOLEAN /\ RxPower[b.sender] \in Int
    BY <2>2, ListMember
  <2>7. /\ \A x : x # b => (Lasting(L, x, k + 1) <=> Lasting(L, x, k))
        /\ ~L[k + 1].isEnd => ~Lasting(L, b, k) /\ Lasting(L, b, k + 1)
        /\ L[k + 1].isEnd => Lasting(L, b, k) /\ ~Lasting(L, b, k + 1)
    BY <2>2, NextLasting
  <2> HIDE DEF b
  <2>8. (\A x \in H : x # b => f[x] = e[x]) /\ f[b] = e[b] + L[k + 1].power
    BY <2>6, <2>7 DEF PowerLasting
  <2>9. \A x \in H : e[x] \in Int /\ f[x] \in Int /\ (x # b => f[x] = e[x])
    BY <1>2, <2>8
  <2> HIDE DEF e, f
  <2>10. SumFunctionOnSet(f, H) = SumFunctionOnSet(e, H) - e[b] + f[b]
    <3>1. IsFiniteSet(H) /\ b \in H
      BY <1>1, <2>6
    <3> QED BY <3>1, <2>9, SumChanged
  <2>11. SumFunctionOnSet(e, H) \in Int /\ SumFunctionOnSet(f, H) \in Int
    BY <1>3 DEF e, f
  <2>12. R \in Int /\ g[k + 1] = L[k + 1].power /\ g[k + 1] \in Int /\ e[b] \in Int
    BY <1>1, <1>3, <2>2, <2>6, <2>9
  <2>13. R + SumFunctionOnSet(g, 1 .. k) = SumFunctionOnSet(e, H)
    BY <2>5 DEF e
  <2>14. R + SumFunctionOnSet(g, 1 .. k + 1) = SumFunctionOnSet(f, H)
    BY <2>3, <2>4, <2>8, <2>10, <2>11, <2>12, <2>13, SMTT(30)
  <2> QED BY <2>14 DEF f
<1>6. \A k \in Nat : k \in A
  <2> HIDE DEF A
  <2> QED BY <1>4, <1>5, Induction
<1>7. ASSUME NEW k \in 0 .. Len(L)
      PROVE  R + PowerOf(SubSeq(L, 1, k)) = SumFunctionOnSet(PowerLasting(L, H, k), H)
  <2>1. k \in Nat /\ k <= Len(L)
    BY <1>1
  <2>2. R + SumFunctionOnSet(g, 1 .. k) = SumFunctionOnSet(PowerLasting(L, H, k), H)
    BY <1>6, <2>1
  <2> QED BY <2>2, PowerOfFirst DEF g
<1> QED BY <1>7

-----------------------------------------------------------------------------
(* What is worked out from the list. *)

L0 == m_interferenceChanges

\* The list and the residual power stand for the bursts in H, all those heard;
\* nothing is cleaned up that is later than the start of a reception.
Heard(H) ==
  /\ IsList(L0, H) /\ Complete(L0)
  /\ m_residualPowerW = SumFunctionOnSet(PowerLasting(L0, H, 0), H)
  /\ now \in Nat
  /\ \A b \in H : b.start <= now /\ (<<b, TRUE>> \notin Behind(L0, 0) => b.end <= now)
  /\ Receiving \subseteq H
  /\ \A e \in Receiving : <<e, FALSE>> \in Behind(L0, 0) /\ <<e, TRUE>> \in Behind(L0, 0)
  /\ \A e \in Receiving, b \in H :
       /\ <<b, FALSE>> \notin Behind(L0, 0) => b.start <= e.start
       /\ <<b, TRUE>> \notin Behind(L0, 0) => b.end <= e.start

\* What is behind a position, and a position in general.
LEMMA InBehind ==
  ASSUME NEW L, NEW H, IsList(L, H), NEW k \in Nat, NEW b, NEW isEnd
  PROVE  <<b, isEnd>> \in Behind(L, k) <=>
           \E i \in 1 .. Len(L) : i > k /\ L[i].event = b /\ L[i].isEnd = isEnd
<1>1. Len(L) \in Nat
  BY DEF IsList
<1>2. ASSUME NEW i \in 1 .. Len(L), i > k, L[i].event = b, L[i].isEnd = isEnd
      PROVE  <<b, isEnd>> \in Behind(L, k)
  <2>1. i \in k + 1 .. Len(L) /\ <<b, isEnd>> = <<L[i].event, L[i].isEnd>>
    BY <1>1, <1>2
  <2> QED BY <2>1 DEF Behind
<1>3. ASSUME <<b, isEnd>> \in Behind(L, k)
      PROVE  \E i \in 1 .. Len(L) : i > k /\ L[i].event = b /\ L[i].isEnd = isEnd
  <2>1. PICK i \in k + 1 .. Len(L) : <<b, isEnd>> = <<L[i].event, L[i].isEnd>>
    BY <1>3 DEF Behind
  <2>2. L[i].event = b /\ L[i].isEnd = isEnd
    BY <2>1, Zenon
  <2>3. i \in 1 .. Len(L) /\ i > k
    BY <1>1
  <2> QED BY <2>2, <2>3
<1> QED BY <1>2, <1>3

LEMMA RiseBehind ==
  ASSUME NEW L, NEW H, IsList(L, H), NEW k \in Nat, NEW b
  PROVE  <<b, FALSE>> \in Behind(L, k) <=> \E i \in 1 .. Len(L) : i > k /\ L[i].event = b /\ ~L[i].isEnd
<1>1. ASSUME NEW x
      PROVE  <<b, x>> \in Behind(L, k) <=>
               \E i \in 1 .. Len(L) : i > k /\ L[i].event = b /\ L[i].isEnd = x
  BY InBehind
<1>2. <<b, FALSE>> \in Behind(L, k) <=>
        \E i \in 1 .. Len(L) : i > k /\ L[i].event = b /\ L[i].isEnd = FALSE
  BY <1>1, Zenon
<1>3. \A i \in 1 .. Len(L) : L[i].isEnd = FALSE <=> ~L[i].isEnd
  BY ListMember
<1> QED BY <1>2, <1>3, Zenon

LEMMA FallBehind ==
  ASSUME NEW L, NEW H, IsList(L, H), NEW k \in Nat, NEW b
  PROVE  <<b, TRUE>> \in Behind(L, k) <=> \E i \in 1 .. Len(L) : i > k /\ L[i].event = b /\ L[i].isEnd
<1>1. ASSUME NEW x
      PROVE  <<b, x>> \in Behind(L, k) <=>
               \E i \in 1 .. Len(L) : i > k /\ L[i].event = b /\ L[i].isEnd = x
  BY InBehind
<1>2. <<b, TRUE>> \in Behind(L, k) <=>
        \E i \in 1 .. Len(L) : i > k /\ L[i].event = b /\ L[i].isEnd = TRUE
  BY <1>1, Zenon
<1>3. \A i \in 1 .. Len(L) : L[i].isEnd = TRUE <=> L[i].isEnd
  BY ListMember
<1> QED BY <1>2, <1>3, Zenon

\* Where a reception lies in the list.
LEMMA Positions ==
  ASSUME NEW H, Heard(H), NEW e \in Receiving
  PROVE  LET s == PositionOf(e, FALSE)
             f == PositionOf(e, TRUE)
         IN  /\ Len(L0) \in Nat /\ s \in 1 .. Len(L0) /\ f \in 1 .. Len(L0) /\ s < f
             /\ L0[s].event = e /\ L0[s].isEnd = FALSE /\ L0[s].time = e.start
             /\ L0[f].event = e /\ L0[f].isEnd = TRUE /\ L0[f].time = e.end
             /\ \A i \in 1 .. Len(L0) : /\ i # s /\ i # f => L0[i].event # e
                                        /\ L0[i].time \in Nat
                                        /\ i <= s => L0[i].time <= e.start
                                        /\ s <= i => e.start <= L0[i].time
                                        /\ i <= f => L0[i].time <= e.end
                                        /\ f <= i => e.end <= L0[i].time
             /\ e \in H /\ BurstOk(e)
<1> DEFINE s == PositionOf(e, FALSE)
           f == PositionOf(e, TRUE)
<1>1. IsList(L0, H) /\ Len(L0) \in Nat /\ e \in H /\ BurstOk(e) /\ DOMAIN L0 = 1 .. Len(L0)
  BY DEF Heard, IsList
<1>2. <<e, FALSE>> \in Behind(L0, 0) /\ <<e, TRUE>> \in Behind(L0, 0)
  BY DEF Heard
<1>3. ASSUME NEW isEnd, <<e, isEnd>> \in Behind(L0, 0)
      PROVE  /\ PositionOf(e, isEnd) \in 1 .. Len(L0) /\ L0[PositionOf(e, isEnd)].event = e
             /\ L0[PositionOf(e, isEnd)].isEnd = isEnd
  <2>1. \E i \in 1 .. Len(L0) : L0[i].event = e /\ L0[i].isEnd = isEnd
    BY <1>1, <1>3, InBehind
  <2> QED BY <1>1, <2>1 DEF PositionOf, L0
<1>4. s \in 1 .. Len(L0) /\ L0[s].event = e /\ L0[s].isEnd = FALSE
  BY <1>2, <1>3
<1>5. f \in 1 .. Len(L0) /\ L0[f].event = e /\ L0[f].isEnd = TRUE
  BY <1>2, <1>3
<1> HIDE DEF s, f
<1>6. L0[s].time = e.start
  <2>1. L0[s].time = IF L0[s].isEnd THEN L0[s].event.end ELSE L0[s].event.start
    BY <1>1, <1>4, ListMember
  <2> QED BY <1>4, <2>1
<1>7. L0[f].time = e.end
  <2>1. L0[f].time = IF L0[f].isEnd THEN L0[f].event.end ELSE L0[f].event.start
    BY <1>1, <1>5, ListMember
  <2> QED BY <1>5, <2>1
<1>8. s < f
  <2>1. s # f
    BY <1>4, <1>5
  <2>2. ASSUME f < s PROVE FALSE
    <3>1. L0[f].time <= L0[s].time
      BY <1>1, <1>4, <1>5, <2>2 DEF IsList
    <3> QED BY <1>1, <1>6, <1>7, <3>1 DEF BurstOk
  <2> QED BY <1>4, <1>5, <2>1, <2>2
<1>9. ASSUME NEW i \in 1 .. Len(L0)
      PROVE  /\ i # s /\ i # f => L0[i].event # e
             /\ L0[i].time \in Nat
             /\ i <= s => L0[i].time <= e.start
             /\ s <= i => e.start <= L0[i].time
             /\ i <= f => L0[i].time <= e.end
             /\ f <= i => e.end <= L0[i].time
  <2>1. L0[i].time \in Nat /\ L0[i].isEnd \in BOOLEAN
    BY <1>1, ListMember
  <2>2. i # s /\ i # f => L0[i].event # e
    <3>1. SUFFICES ASSUME L0[i].event = e PROVE i = s \/ i = f
      OBVIOUS
    <3>2. L0[i].isEnd = FALSE \/ L0[i].isEnd = TRUE
      BY <2>1
    <3> QED BY <1>1, <1>4, <1>5, <3>1, <3>2 DEF IsList
  <2>3. \A j \in 1 .. Len(L0) : i <= j => L0[i].time <= L0[j].time
    BY <1>1, <2>1 DEF IsList
  <2>4. \A j \in 1 .. Len(L0) : j <= i => L0[j].time <= L0[i].time
    BY <1>1, <2>1 DEF IsList
  <2> QED BY <1>4, <1>5, <1>6, <1>7, <2>1, <2>2, <2>3, <2>4
<1> QED BY <1>1, <1>4, <1>5, <1>6, <1>7, <1>8, <1>9 DEF s, f

\* The power of others between the changes of a reception.
LEMMA PowerDuring ==
  ASSUME NEW H, Heard(H), NEW e \in Receiving
  PROVE  LET s == PositionOf(e, FALSE)
             D == ChangesDuring(e)
         IN  /\ Len(D) = PositionOf(e, TRUE) - s - 1 /\ DOMAIN D = 1 .. Len(D) /\ Len(D) \in Nat
             /\ \A i \in 1 .. Len(D) : D[i] = L0[s + i] /\ s + i \in 1 .. Len(L0)
             /\ PowerBefore(e) \in Int
             /\ \A j \in 0 .. Len(D) :
                  PowerBefore(e) + PowerOf(SubSeq(D, 1, j))
                    = SumFunctionOnSet(PowerLasting(L0, H, s + j), H \ {e})
<1> DEFINE s == PositionOf(e, FALSE)
           f == PositionOf(e, TRUE)
           D == ChangesDuring(e)
           n == f - s - 1
           R == m_residualPowerW
           P == RxPower[e.sender]
           g == [i \in 1 .. Len(L0) |-> L0[i].power]
           h == [i \in 1 .. n |-> L0[s + i].power]
<1>1. /\ Len(L0) \in Nat /\ s \in 1 .. Len(L0) /\ f \in 1 .. Len(L0) /\ s < f
      /\ L0[s].event = e /\ L0[s].isEnd = FALSE
      /\ L0[f].event = e /\ L0[f].isEnd = TRUE
      /\ \A i \in 1 .. Len(L0) : i # s /\ i # f => L0[i].event # e
      /\ e \in H /\ BurstOk(e)
  BY Positions, ZenonT(60)
<1>2. IsList(L0, H) /\ Complete(L0) /\ R = SumFunctionOnSet(PowerLasting(L0, H, 0), H)
  BY DEF Heard
<1>3. DOMAIN L0 = 1 .. Len(L0) /\ \A i \in 1 .. Len(L0) : L0[i].power \in Int
  BY <1>2, ListMember
<1>4. D = SubSeq(L0, s + 1, f - 1) /\ PowerBefore(e) = R + PowerOf(SubSeq(L0, 1, s - 1))
  BY DEF ChangesDuring, PowerBefore, L0
<1> HIDE DEF s, f, R
<1>5. /\ n \in Nat /\ Len(D) = n /\ DOMAIN D = 1 .. n
      /\ \A i \in 1 .. n : D[i] = L0[s + i] /\ s + i \in 1 .. Len(L0)
  <2>1. n \in Nat /\ s + 1 \in 1 .. Len(L0) /\ f - 1 \in 1 .. Len(L0) /\ (f - 1) - (s + 1) + 1 = n
    BY <1>1
  <2>2. L0 \in Seq({Rise(b) : b \in H} \cup {Fall(b) : b \in H})
    BY <1>2 DEF IsList
  <2> HIDE DEF L0, n
  <2>3. Len(SubSeq(L0, s + 1, f - 1)) = n /\ \A i \in 1 .. n : SubSeq(L0, s + 1, f - 1)[i] = L0[s + i]
    <3>1. PICK m \in Int, k \in Int : m = s + 1 /\ k = f - 1
      BY <1>1
    <3>2. PICK S : S = {Rise(b) : b \in H} \cup {Fall(b) : b \in H}
      OBVIOUS
    <3>3. \A i \in m .. k : L0[i] \in S
      BY <1>1, <2>2, <3>1, <3>2
    <3>4. /\ Len(SubSeq(L0, m, k)) = IF m <= k THEN k - m + 1 ELSE 0
          /\ \A i \in 1 .. k - m + 1 : SubSeq(L0, m, k)[i] = L0[m + i - 1]
      BY <3>3, SubSeqProperties
    <3>5. k - m + 1 = n /\ (m <= k \/ n = 0) /\ \A i \in 1 .. n : m + i - 1 = s + i
      BY <1>1, <2>1, <3>1
    <3>6. Len(SubSeq(L0, m, k)) = n /\ \A i \in 1 .. n : SubSeq(L0, m, k)[i] = L0[s + i]
      BY <2>1, <3>1, <3>4, <3>5
    <3> QED BY <3>1, <3>6
  <2>4. DOMAIN SubSeq(L0, s + 1, f - 1) = 1 .. n
    BY <1>1, <2>1, <2>2, <2>3
  <2>5. \A i \in 1 .. n : s + i \in 1 .. Len(L0)
    BY <1>1, <2>1 DEF n
  <2> QED BY <1>4, <2>1, <2>3, <2>4, <2>5
<1> HIDE DEF D
<1>6. \A k \in 0 .. Len(L0) : R + SumFunctionOnSet(g, 1 .. k) = SumFunctionOnSet(PowerLasting(L0, H, k), H)
  <2>1. ASSUME NEW k \in 0 .. Len(L0)
        PROVE  R + SumFunctionOnSet(g, 1 .. k) = SumFunctionOnSet(PowerLasting(L0, H, k), H)
    <3>1. R + PowerOf(SubSeq(L0, 1, k)) = SumFunctionOnSet(PowerLasting(L0, H, k), H)
      BY <1>2, PowerUpTo
    <3>2. PowerOf(SubSeq(L0, 1, k)) = SumFunctionOnSet(g, 1 .. k)
      BY <1>2, PowerOfFirst
    <3> QED BY <3>1, <3>2
  <2> QED BY <2>1
<1>7. P \in Int /\ g[s] = P
  <2>1. L0[s].power = IF L0[s].isEnd THEN -RxPower[L0[s].event.sender] ELSE RxPower[L0[s].event.sender]
    BY <1>1, <1>2, ListMember
  <2>2. g[s] = L0[s].power /\ g[s] \in Int
    BY <1>1, <1>3
  <2> QED BY <1>1, <2>1, <2>2
<1>8. ASSUME NEW k PROVE /\ \A b \in H : PowerLasting(L0, H, k)[b] \in Int
                         /\ SumFunctionOnSet(PowerLasting(L0, H, k), H) \in Int
                         /\ SumFunctionOnSet(PowerLasting(L0, H, k), H \ {e}) \in Int
  <2>1. \A b \in H : RxPower[b.sender] \in Int
    BY <1>2, CarrierAssumption DEF IsList, BurstOk
  <2>2. \A b \in H : PowerLasting(L0, H, k)[b] \in Int
    BY <2>1 DEF PowerLasting
  <2>3. IsFiniteSet(H) /\ IsFiniteSet(H \ {e})
    BY <1>2, FS_RemoveElement DEF IsList
  <2>4. SumFunctionOnSet(PowerLasting(L0, H, k), H) \in Int
    BY <2>2, <2>3, SumType
  <2>5. \A b \in H \ {e} : PowerLasting(L0, H, k)[b] \in Int
    BY <2>2
  <2>6. SumFunctionOnSet(PowerLasting(L0, H, k), H \ {e}) \in Int
    BY <2>3, <2>5, SumType
  <2> QED BY <2>2, <2>4, <2>6
<1>9. ASSUME NEW k \in 0 .. Len(L0) PROVE SumFunctionOnSet(g, 1 .. k) \in Int
  <2>1. IsFiniteSet(1 .. k) /\ \A i \in 1 .. k : g[i] \in Int
    BY <1>1, <1>3, FirstNumbers
  <2> QED BY <2>1, SumType
<1>10. R \in Int
  BY <1>2, <1>8
<1>11. PowerBefore(e) = R + SumFunctionOnSet(g, 1 .. s - 1) /\ PowerBefore(e) \in Int
  <2>1. s - 1 \in 0 .. Len(L0)
    BY <1>1
  <2>2. PowerOf(SubSeq(L0, 1, s - 1)) = SumFunctionOnSet(g, 1 .. s - 1)
    BY <1>2, <2>1, PowerOfFirst
  <2> QED BY <1>4, <1>9, <1>10, <2>1, <2>2
<1> HIDE DEF P, n
<1> DEFINE A == {j \in Nat : j <= n => PowerBefore(e) + SumFunctionOnSet(h, 1 .. j) + P
                                         = R + SumFunctionOnSet(g, 1 .. s + j)}
<1>12. \A i \in 1 .. n : h[i] = L0[s + i].power /\ h[i] = g[s + i] /\ h[i] \in Int
  BY <1>3, <1>5
<1>13. 0 \in A
  <2>1. 1 .. 0 = {} /\ s - 1 \in Nat /\ (s - 1) + 1 = s /\ s + 0 = s
    BY <1>1
  <2>2. SumFunctionOnSet(h, 1 .. 0) = 0
    BY <2>1, SumOfNone
  <2>3. \A i \in 1 .. (s - 1) + 1 : g[i] \in Int
    BY <1>1, <1>3
  <2> HIDE DEF g, h
  <2>4. SumFunctionOnSet(g, 1 .. (s - 1) + 1) = SumFunctionOnSet(g, 1 .. s - 1) + g[(s - 1) + 1]
    BY <2>1, <2>3, SumToNext
  <2>5. SumFunctionOnSet(g, 1 .. s) = SumFunctionOnSet(g, 1 .. s - 1) + P
    BY <1>7, <2>1, <2>4
  <2>6. SumFunctionOnSet(g, 1 .. s - 1) \in Int
    <3>1. s - 1 \in 0 .. Len(L0)
      BY <1>1
    <3> QED BY <1>9, <3>1 DEF g
  <2>7. PowerBefore(e) + 0 + P = R + (SumFunctionOnSet(g, 1 .. s - 1) + P)
    BY <1>7, <1>10, <1>11, <2>6 DEF g
  <2> QED BY <2>1, <2>2, <2>5, <2>7 DEF g, h
<1>14. ASSUME NEW j \in Nat, j \in A PROVE j + 1 \in A
  <2>1. SUFFICES ASSUME j + 1 <= n
        PROVE  PowerBefore(e) + SumFunctionOnSet(h, 1 .. j + 1) + P = R + SumFunctionOnSet(g, 1 .. s + (j + 1))
    OBVIOUS
  <2>2. /\ j <= n /\ j + 1 \in 1 .. n /\ s + j \in Nat /\ s + j \in 0 .. Len(L0)
        /\ s + (j + 1) = (s + j) + 1 /\ (s + j) + 1 \in 1 .. Len(L0)
        /\ \A i \in 1 .. (s + j) + 1 : i \in 1 .. Len(L0)
    BY <1>1, <2>1 DEF n
  <2>3. (\A i \in 1 .. j + 1 : h[i] \in Int) /\ (\A i \in 1 .. j : h[i] \in Int)
        /\ \A i \in 1 .. (s + j) + 1 : g[i] \in Int
    <3>1. \A i \in 1 .. Len(L0) : g[i] \in Int
      BY <1>3
    <3>2. \A i \in 1 .. n : h[i] \in Int
      BY <1>12
    <3> HIDE DEF g, h
    <3>3. \A i \in 1 .. j + 1 : i \in 1 .. n
      BY <1>5, <2>1
    <3>4. \A i \in 1 .. j : i \in 1 .. n
      BY <1>5, <2>1
    <3> QED BY <2>2, <3>1, <3>2, <3>3, <3>4
  <2>4. h[j + 1] = g[(s + j) + 1] /\ h[j + 1] \in Int
    BY <1>12, <2>2
  <2>5. PowerBefore(e) + SumFunctionOnSet(h, 1 .. j) + P = R + SumFunctionOnSet(g, 1 .. s + j)
    BY <1>14, <2>2
  <2>6. SumFunctionOnSet(g, 1 .. s + j) \in Int
    BY <1>9, <2>2
  <2> HIDE DEF g, h
  <2>7. SumFunctionOnSet(h, 1 .. j + 1) = SumFunctionOnSet(h, 1 .. j) + h[j + 1]
    BY <2>3, SumToNext
  <2>8. SumFunctionOnSet(g, 1 .. (s + j) + 1) = SumFunctionOnSet(g, 1 .. s + j) + g[(s + j) + 1]
    BY <2>2, <2>3, SumToNext
  <2>9. SumFunctionOnSet(h, 1 .. j) \in Int
    <3>1. IsFiniteSet(1 .. j)
      BY FirstNumbers
    <3> QED BY <2>3, <3>1, SumType
  <2>10. SumFunctionOnSet(g, 1 .. s + (j + 1)) = SumFunctionOnSet(g, 1 .. s + j) + h[j + 1]
    BY <2>2, <2>4, <2>8
  <2> QED BY <1>7, <1>10, <1>11, <2>4, <2>5, <2>6, <2>7, <2>9, <2>10, SMTT(30)
<1>15. \A j \in Nat : j \in A
  <2> HIDE DEF A
  <2> QED BY <1>13, <1>14, Induction
<1>16. ASSUME NEW j \in 0 .. n
       PROVE  PowerBefore(e) + PowerOf(SubSeq(D, 1, j)) = SumFunctionOnSet(PowerLasting(L0, H, s + j), H \ {e})
  <2>1. j \in Nat /\ j <= n /\ s + j \in 0 .. Len(L0) /\ s + j \in Nat
    BY <1>1, <1>5, SMTT(30) DEF n
  <2>2. PowerBefore(e) + SumFunctionOnSet(h, 1 .. j) + P = SumFunctionOnSet(PowerLasting(L0, H, s + j), H)
    BY <1>6, <1>15, <2>1
  <2>3. PowerOf(SubSeq(D, 1, j)) = SumFunctionOnSet(h, 1 .. j)
    <3> DEFINE q == SubSeq(D, 1, j)
               p == [i \in DOMAIN q |-> q[i].power]
    <3>1. DOMAIN q = 1 .. j /\ \A i \in 1 .. j : q[i] = D[i] /\ i \in 1 .. n
      <4>1. D \in Seq({Rise(b) : b \in H} \cup {Fall(b) : b \in H})
        <5>1. L0 \in Seq({Rise(b) : b \in H} \cup {Fall(b) : b \in H})
          BY <1>2 DEF IsList
        <5> HIDE DEF L0
        <5>2. SubSeq(L0, s + 1, f - 1) \in Seq({Rise(b) : b \in H} \cup {Fall(b) : b \in H})
          BY <1>1, <5>1
        <5> QED BY <1>4, <5>2
      <4> QED BY <1>5, <2>1, <4>1
    <3> HIDE DEF q
    <3>2. DOMAIN p = 1 .. j /\ \A i \in 1 .. j : p[i] \in Int /\ p[i] = h[i]
      BY <1>5, <1>12, <3>1
    <3> HIDE DEF p, h
    <3>3. SumFunctionOnSet(p, 1 .. j) = SumFunctionOnSet(h, 1 .. j)
      <4>1. IsFiniteSet(1 .. j)
        BY <2>1, FirstNumbers
      <4> QED BY <3>2, <4>1, SumSame
    <3>4. PowerOf(q) = SumFunctionOnSet(p, DOMAIN p)
      BY DEF PowerOf, SumFunction, p
    <3> QED BY <3>2, <3>3, <3>4 DEF q
  <2>4. PowerLasting(L0, H, s + j)[e] = P
    <3>1. <<e, FALSE>> \notin Behind(L0, s + j)
      <4>1. ASSUME NEW i \in 1 .. Len(L0), i > s + j, L0[i].event = e, ~L0[i].isEnd PROVE FALSE
        <5>1. i = s \/ i = f
          BY <1>1, <4>1
        <5> QED BY <2>1, <4>1, <5>1, <1>1
      <4> QED BY <1>2, <2>1, <4>1, RiseBehind
    <3>2. <<e, TRUE>> \in Behind(L0, s + j)
      <4>1. f > s + j
        BY <1>1, <2>1 DEF n
      <4> QED BY <1>1, <1>2, <2>1, <4>1, FallBehind
    <3> QED BY <1>1, <3>1, <3>2 DEF PowerLasting, Lasting, P
  <2>5. SumFunctionOnSet(PowerLasting(L0, H, s + j), H) = P + SumFunctionOnSet(PowerLasting(L0, H, s + j), H \ {e})
    <3>1. IsFiniteSet(H) /\ e \in H /\ \A b \in H : PowerLasting(L0, H, s + j)[b] \in Int
      BY <1>1, <1>2, <1>8 DEF IsList
    <3>2. SumFunctionOnSet(PowerLasting(L0, H, s + j), H)
            = PowerLasting(L0, H, s + j)[e] + SumFunctionOnSet(PowerLasting(L0, H, s + j), H \ {e})
      BY <3>1, SumWithout
    <3> QED BY <2>4, <3>2
  <2>6. SumFunctionOnSet(PowerLasting(L0, H, s + j), H \ {e}) \in Int
    BY <1>8
  <2>7. SumFunctionOnSet(h, 1 .. j) \in Int
    <3>1. \A i \in 1 .. j : i \in 1 .. n
      BY <1>5, <2>1
    <3>2. \A i \in 1 .. j : h[i] \in Int
      BY <1>12, <3>1
    <3>3. IsFiniteSet(1 .. j)
      BY <2>1, FirstNumbers
    <3> QED BY <3>2, <3>3, SumType
  <2> QED BY <1>7, <1>11, <2>2, <2>3, <2>5, <2>6, <2>7
<1> QED BY <1>5, <1>11, <1>16 DEF s, f, D, n

\* A burst that has ended has begun.
LEMMA RiseBeforeFall ==
  ASSUME NEW L, NEW H, IsList(L, H), Complete(L), NEW k \in Nat, NEW b,
         <<b, FALSE>> \in Behind(L, k)
  PROVE  <<b, TRUE>> \in Behind(L, k)
<1>1. PICK i \in 1 .. Len(L) : i > k /\ L[i].event = b /\ ~L[i].isEnd
  BY RiseBehind
<1>2. Len(L) \in Nat
  BY DEF IsList
<1>3. <<b, TRUE>> \in Behind(L, 0)
  BY <1>1 DEF Complete
<1>4. PICK j \in 1 .. Len(L) : j > 0 /\ L[j].event = b /\ L[j].isEnd
  BY <1>3, FallBehind
<1>5. L[i].time = b.start /\ BurstOk(b)
  <2>1. L[i].time = IF L[i].isEnd THEN L[i].event.end ELSE L[i].event.start
    BY ListMember
  <2>2. BurstOk(L[i].event)
    BY ListMember
  <2> QED BY <1>1, <2>1, <2>2
<1>6. L[j].time = b.end
  <2>1. L[j].time = IF L[j].isEnd THEN L[j].event.end ELSE L[j].event.start
    BY ListMember
  <2> QED BY <1>4, <2>1
<1>7. ~(j < i) /\ j # i
  <2>1. j < i => L[j].time <= L[i].time
    BY DEF IsList
  <2> QED BY <1>1, <1>4, <1>5, <1>6, <2>1 DEF BurstOk
<1>8. j > k
  BY <1>1, <1>2, <1>7
<1> QED BY <1>4, <1>8, FallBehind

LEMMA Distribute == \A p \in Int, x \in Int, y \in Int : p * (x - y) = p * x - p * y
OBVIOUS

\* How long the rest of a reception is, from a time on.
Rest(e, t) == IF t <= e.start THEN e.end - e.start ELSE e.end - t

\* What a burst has counted for when the changes up to a position are seen.
Begun(e, b, k) == IF <<b, FALSE>> \in Behind(L0, k) THEN 0 ELSE Rest(e, b.start)
Ended(e, b, k) == IF <<b, TRUE>> \in Behind(L0, k) THEN 0 ELSE Rest(e, b.end)
Weight(e, H, k) == [b \in H |-> RxPower[b.sender] * (Begun(e, b, k) - Ended(e, b, k))]

LEMMA WeightType ==
  ASSUME NEW H, IsList(L0, H), NEW e \in H, NEW k
  PROVE  \A b \in H : /\ RxPower[b.sender] \in Nat /\ BurstOk(b)
                      /\ Begun(e, b, k) \in Int /\ Ended(e, b, k) \in Int
                      /\ Weight(e, H, k)[b] \in Int
<1>1. ASSUME NEW b \in H
      PROVE  RxPower[b.sender] \in Nat /\ BurstOk(b) /\ Begun(e, b, k) \in Int /\ Ended(e, b, k) \in Int
  BY CarrierAssumption, SMTT(30) DEF IsList, BurstOk, Begun, Ended, Rest
<1>2. ASSUME NEW b \in H PROVE Weight(e, H, k)[b] \in Int
  <2>1. Weight(e, H, k)[b] = RxPower[b.sender] * (Begun(e, b, k) - Ended(e, b, k))
    BY DEF Weight
  <2>2. RxPower[b.sender] \in Int /\ Begun(e, b, k) - Ended(e, b, k) \in Int
    BY <1>1
  <2> QED BY <2>1, <2>2, TimesType
<1> QED BY <1>1, <1>2

\* Times of what is before a position and behind it.
LEMMA TimesAt ==
  ASSUME NEW H, Heard(H), NEW e \in Receiving, NEW b \in H, b # e, NEW k \in Nat,
         PositionOf(e, FALSE) <= k, k < PositionOf(e, TRUE)
  PROVE  /\ k = PositionOf(e, FALSE) => /\ <<b, FALSE>> \notin Behind(L0, k) => b.start <= e.start
                                        /\ <<b, TRUE>> \notin Behind(L0, k) => b.end <= e.start
         /\ <<b, FALSE>> \in Behind(L0, k) => b.start >= e.start
         /\ <<b, TRUE>> \in Behind(L0, k) => b.end >= e.start
         /\ k = PositionOf(e, TRUE) - 1 => /\ <<b, FALSE>> \in Behind(L0, k) => b.start >= e.end
                                           /\ <<b, TRUE>> \in Behind(L0, k) => b.end >= e.end
         /\ <<b, FALSE>> \notin Behind(L0, k) => b.start <= e.end
         /\ <<b, TRUE>> \notin Behind(L0, k) => b.end <= e.end
<1> DEFINE s == PositionOf(e, FALSE)
           f == PositionOf(e, TRUE)
<1>1. /\ Len(L0) \in Nat /\ s \in 1 .. Len(L0) /\ f \in 1 .. Len(L0) /\ s < f
      /\ L0[s].event = e /\ L0[f].event = e
      /\ \A i \in 1 .. Len(L0) : /\ L0[i].time \in Nat
                                 /\ i <= s => L0[i].time <= e.start
                                 /\ s <= i => e.start <= L0[i].time
                                 /\ i <= f => L0[i].time <= e.end
                                 /\ f <= i => e.end <= L0[i].time
      /\ e \in H /\ BurstOk(e)
  BY Positions, ZenonT(60)
<1>2. IsList(L0, H) /\ BurstOk(b)
  BY DEF Heard, IsList
<1>3. /\ <<b, FALSE>> \notin Behind(L0, 0) => b.start <= e.start
      /\ <<b, TRUE>> \notin Behind(L0, 0) => b.end <= e.start
  BY DEF Heard
<1>9. s <= k /\ k < f
  OBVIOUS
<1> HIDE DEF s, f
<1>4. ASSUME NEW i \in 1 .. Len(L0), L0[i].event = b
      PROVE  L0[i].time = (IF L0[i].isEnd THEN b.end ELSE b.start) /\ i # s /\ i # f
  <2>1. L0[i].time = IF L0[i].isEnd THEN L0[i].event.end ELSE L0[i].event.start
    BY <1>2, ListMember
  <2> QED BY <1>1, <1>4, <2>1
<1>5. ASSUME <<b, FALSE>> \in Behind(L0, k)
      PROVE  b.start >= e.start /\ (k = f - 1 => b.start >= e.end)
  <2>1. PICK i \in 1 .. Len(L0) : i > k /\ L0[i].event = b /\ ~L0[i].isEnd
    BY <1>2, <1>5, RiseBehind
  <2>2. L0[i].time = b.start /\ s <= i
    BY <1>1, <1>4, <1>9, <2>1
  <2>3. k = f - 1 => f <= i
    BY <1>1, <2>1
  <2> QED BY <1>1, <1>2, <2>2, <2>3 DEF BurstOk
<1>6. ASSUME <<b, TRUE>> \in Behind(L0, k)
      PROVE  b.end >= e.start /\ (k = f - 1 => b.end >= e.end)
  <2>1. PICK i \in 1 .. Len(L0) : i > k /\ L0[i].event = b /\ L0[i].isEnd
    BY <1>2, <1>6, FallBehind
  <2>2. L0[i].time = b.end /\ s <= i
    BY <1>1, <1>4, <1>9, <2>1
  <2>3. k = f - 1 => f <= i
    BY <1>1, <2>1
  <2> QED BY <1>1, <1>2, <2>2, <2>3 DEF BurstOk
<1>7. ASSUME <<b, FALSE>> \notin Behind(L0, k)
      PROVE  b.start <= e.end /\ (k = s => b.start <= e.start)
  <2>1. CASE <<b, FALSE>> \notin Behind(L0, 0)
    BY <1>1, <1>2, <1>3, <2>1 DEF BurstOk
  <2>2. CASE <<b, FALSE>> \in Behind(L0, 0)
    <3>1. PICK i \in 1 .. Len(L0) : i > 0 /\ L0[i].event = b /\ ~L0[i].isEnd
      BY <1>2, <2>2, RiseBehind
    <3>2. ~(i > k)
      BY <1>2, <1>7, <3>1, RiseBehind
    <3>3. L0[i].time = b.start /\ i <= f /\ (k = s => i <= s)
      BY <1>1, <1>4, <1>9, <3>1, <3>2
    <3> QED BY <1>1, <3>3
  <2> QED BY <2>1, <2>2
<1>8. ASSUME <<b, TRUE>> \notin Behind(L0, k)
      PROVE  b.end <= e.end /\ (k = s => b.end <= e.start)
  <2>1. CASE <<b, TRUE>> \notin Behind(L0, 0)
    BY <1>1, <1>2, <1>3, <2>1 DEF BurstOk
  <2>2. CASE <<b, TRUE>> \in Behind(L0, 0)
    <3>1. PICK i \in 1 .. Len(L0) : i > 0 /\ L0[i].event = b /\ L0[i].isEnd
      BY <1>2, <2>2, FallBehind
    <3>2. ~(i > k)
      BY <1>2, <1>8, <3>1, FallBehind
    <3>3. L0[i].time = b.end /\ i <= f /\ (k = s => i <= s)
      BY <1>1, <1>4, <1>9, <3>1, <3>2
    <3> QED BY <1>1, <3>3
  <2> QED BY <2>1, <2>2
<1> QED BY <1>5, <1>6, <1>7, <1>8 DEF s, f

\* The change at a position counts for the rest of the reception.
LEMMA WeightStep ==
  ASSUME NEW H, Heard(H), NEW e \in Receiving, NEW k \in Nat,
         PositionOf(e, FALSE) <= k, k + 1 < PositionOf(e, TRUE)
  PROVE  SumFunctionOnSet(Weight(e, H, k + 1), H \ {e})
           = SumFunctionOnSet(Weight(e, H, k), H \ {e})
               + L0[k + 1].power * (e.end - L0[k + 1].time)
<1> DEFINE s == PositionOf(e, FALSE)
           f == PositionOf(e, TRUE)
           c == L0[k + 1].event
           g == Weight(e, H, k + 1)
           h == Weight(e, H, k)
<1>1. /\ Len(L0) \in Nat /\ s \in 1 .. Len(L0) /\ f \in 1 .. Len(L0) /\ s < f
      /\ \A i \in 1 .. Len(L0) : /\ i # s /\ i # f => L0[i].event # e
                                 /\ L0[i].time \in Nat
                                 /\ s <= i => e.start <= L0[i].time
                                 /\ i <= f => L0[i].time <= e.end
      /\ e \in H /\ BurstOk(e)
  BY Positions, ZenonT(60)
<1>2. IsList(L0, H) /\ IsFiniteSet(H) /\ IsFiniteSet(H \ {e})
  BY FS_RemoveElement DEF Heard, IsList
<1>13. s <= k /\ k + 1 < f
  OBVIOUS
<1> HIDE DEF s, f
<1>3. k + 1 \in 1 .. Len(L0) /\ k + 1 # s /\ k + 1 # f /\ s <= k + 1 /\ k + 1 <= f
  <2>1. Len(L0) \in Nat /\ s \in 1 .. Len(L0) /\ f \in 1 .. Len(L0)
    BY <1>1
  <2> QED BY <1>13, <2>1
<1>4. c # e /\ c \in H /\ BurstOk(c) /\ L0[k + 1].isEnd \in BOOLEAN
      /\ L0[k + 1].time \in Nat /\ L0[k + 1].power \in Int
      /\ L0[k + 1].time = (IF L0[k + 1].isEnd THEN c.end ELSE c.start)
      /\ L0[k + 1].power = (IF L0[k + 1].isEnd THEN -RxPower[c.sender] ELSE RxPower[c.sender])
  BY <1>1, <1>2, <1>3, ListMember
<1>5. e.start <= L0[k + 1].time /\ L0[k + 1].time <= e.end
  BY <1>1, <1>3
<1>6. /\ Behind(L0, k) = Behind(L0, k + 1) \cup {<<c, L0[k + 1].isEnd>>}
      /\ <<c, L0[k + 1].isEnd>> \notin Behind(L0, k + 1)
  BY <1>2, <1>3, NextBehind
<1>7. \A b \in H \ {e} : g[b] \in Int /\ h[b] \in Int /\ RxPower[b.sender] \in Nat
  BY <1>1, <1>2, WeightType
<1>8. \A b \in H \ {e} : b # c => g[b] = h[b]
  <2>1. ASSUME NEW b \in H, b # c PROVE Begun(e, b, k + 1) = Begun(e, b, k) /\ Ended(e, b, k + 1) = Ended(e, b, k)
    <3>1. <<b, FALSE>> \in Behind(L0, k + 1) <=> <<b, FALSE>> \in Behind(L0, k)
      BY <1>6, <2>1
    <3>2. <<b, TRUE>> \in Behind(L0, k + 1) <=> <<b, TRUE>> \in Behind(L0, k)
      BY <1>6, <2>1
    <3> QED BY <3>1, <3>2 DEF Begun, Ended
  <2> QED BY <2>1 DEF Weight
<1>9. g[c] = h[c] + L0[k + 1].power * (e.end - L0[k + 1].time)
  <2> DEFINE P == RxPower[c.sender]
             B == Begun(e, c, k)
             E == Ended(e, c, k)
             t == L0[k + 1].time
  <2>1. /\ P \in Int /\ B \in Int /\ E \in Int /\ Begun(e, c, k + 1) \in Int
        /\ Ended(e, c, k + 1) \in Int /\ e.end \in Int /\ t \in Int
    <3>1. e \in H /\ c \in H
      BY <1>1, <1>4
    <3>2. P \in Int /\ B \in Int /\ E \in Int
      BY <1>2, <3>1, WeightType
    <3>3. Begun(e, c, k + 1) \in Int /\ Ended(e, c, k + 1) \in Int
      BY <1>2, <3>1, WeightType
    <3>4. e.end \in Int /\ t \in Int
      BY <1>1, <1>4 DEF BurstOk
    <3> QED BY <3>2, <3>3, <3>4
  <2>2. h[c] = P * (B - E) /\ g[c] = P * (Begun(e, c, k + 1) - Ended(e, c, k + 1))
    BY <1>4 DEF Weight
  <2>3. CASE ~L0[k + 1].isEnd
    <3>1. L0[k + 1].isEnd = FALSE
      BY <1>4, <2>3
    <3>2. <<c, FALSE>> \in Behind(L0, k) /\ <<c, FALSE>> \notin Behind(L0, k + 1)
      BY <1>6, <3>1
    <3>3. <<c, TRUE>> \in Behind(L0, k + 1) <=> <<c, TRUE>> \in Behind(L0, k)
      BY <1>6, <3>1
    <3>4. B = 0 /\ Begun(e, c, k + 1) = Rest(e, c.start) /\ Ended(e, c, k + 1) = E
      BY <3>2, <3>3 DEF Begun, Ended
    <3>5. t = c.start /\ L0[k + 1].power = P
      BY <1>4, <2>3
    <3>6. Rest(e, c.start) = e.end - t
      <4>1. e.start <= t /\ t <= e.end /\ e.start \in Int /\ e.end \in Int /\ t \in Int
        BY <1>1, <1>5, <2>1 DEF BurstOk
      <4> HIDE DEF c, t
      <4>2. Rest(e, t) = e.end - t
        BY <4>1 DEF Rest
      <4> QED BY <3>5, <4>2
    <3>7. g[c] = P * ((e.end - t) - E) /\ h[c] = P * (0 - E)
      BY <2>2, <3>4, <3>6
    <3> HIDE DEF P, B, E, t, g, h
    <3>8. e.end - t \in Int
      BY <2>1
    <3>9. P * ((e.end - t) - E) = P * (e.end - t) - P * E /\ P * (0 - E) = P * 0 - P * E /\ P * 0 = 0
      BY <2>1, <3>8, Distribute
    <3>10. P * (e.end - t) \in Int /\ P * E \in Int
      BY <2>1, <3>8, TimesType
    <3> QED BY <3>5, <3>7, <3>9, <3>10 DEF t
  <2>4. CASE L0[k + 1].isEnd
    <3>1. L0[k + 1].isEnd = TRUE
      BY <1>4, <2>4
    <3>2. <<c, TRUE>> \in Behind(L0, k) /\ <<c, TRUE>> \notin Behind(L0, k + 1)
      BY <1>6, <3>1
    <3>3. <<c, FALSE>> \in Behind(L0, k + 1) <=> <<c, FALSE>> \in Behind(L0, k)
      BY <1>6, <3>1
    <3>4. E = 0 /\ Ended(e, c, k + 1) = Rest(e, c.end) /\ Begun(e, c, k + 1) = B
      BY <3>2, <3>3 DEF Begun, Ended
    <3>5. t = c.end /\ L0[k + 1].power = -P
      BY <1>4, <2>4
    <3>6. Rest(e, c.end) = e.end - t
      <4>1. e.start <= t /\ t <= e.end /\ e.start \in Int /\ e.end \in Int /\ t \in Int
        BY <1>1, <1>5, <2>1 DEF BurstOk
      <4> HIDE DEF c, t
      <4>2. Rest(e, t) = e.end - t
        BY <4>1 DEF Rest
      <4> QED BY <3>5, <4>2
    <3>7. g[c] = P * (B - (e.end - t)) /\ h[c] = P * (B - 0)
      BY <2>2, <3>4, <3>6
    <3> HIDE DEF P, B, E, t, g, h
    <3>8. e.end - t \in Int
      BY <2>1
    <3>9. P * (B - (e.end - t)) = P * B - P * (e.end - t) /\ P * (B - 0) = P * B
      BY <2>1, <3>8, Distribute
    <3>10. P * (e.end - t) \in Int /\ P * B \in Int /\ (-P) * (e.end - t) = -(P * (e.end - t))
      BY <2>1, <3>8, TimesType
    <3> QED BY <3>5, <3>7, <3>9, <3>10 DEF t
  <2> QED BY <1>4, <2>3, <2>4
<1> HIDE DEF g, h, c
<1>10. SumFunctionOnSet(g, H \ {e}) = SumFunctionOnSet(h, H \ {e}) - h[c] + g[c]
  <2> DEFINE S == H \ {e}
  <2>1. c \in S /\ IsFiniteSet(S)
    BY <1>2, <1>4
  <2>2. \A b \in S : h[b] \in Int /\ g[b] \in Int /\ (b # c => g[b] = h[b])
    BY <1>7, <1>8
  <2> HIDE DEF S
  <2>3. SumFunctionOnSet(g, S) = SumFunctionOnSet(h, S) - h[c] + g[c]
    BY <2>1, <2>2, SumChanged
  <2> QED BY <2>3 DEF S
<1>11. SumFunctionOnSet(h, H \ {e}) \in Int
  BY <1>2, <1>7, SumType
<1>12. h[c] \in Int /\ L0[k + 1].power * (e.end - L0[k + 1].time) \in Int
  <2>1. e.end - L0[k + 1].time \in Int
    BY <1>1, <1>4 DEF BurstOk
  <2>2. h[c] \in Int
    BY <1>4, <1>7
  <2> QED BY <1>4, <2>1, <2>2, TimesType
<1> QED BY <1>9, <1>10, <1>11, <1>12 DEF g, h, c

\* The ticks that two bursts have in common.
LEMMA OverlapLength ==
  ASSUME NEW e, BurstOk(e), NEW b, BurstOk(b)
  PROVE  /\ Overlapping(e, b) \in Nat
         /\ LET first == IF b.start <= e.start THEN e.start ELSE b.start
                last == IF b.end <= e.end THEN b.end ELSE e.end
            IN  Overlapping(e, b) = IF first <= last THEN last - first ELSE 0
<1> DEFINE first == IF b.start <= e.start THEN e.start ELSE b.start
           last == IF b.end <= e.end THEN b.end ELSE e.end
<1>1. first \in Nat /\ last \in Nat
  BY DEF BurstOk
<1>2. (e.start .. e.end - 1) \cap (b.start .. b.end - 1) = first .. last - 1
  BY DEF BurstOk
<1> HIDE DEF first, last
<1>3. Cardinality(first .. last - 1) = IF first <= last - 1 THEN (last - 1) - first + 1 ELSE 0
  BY <1>1, FS_Interval
<1>4. Overlapping(e, b) = IF first <= last THEN last - first ELSE 0
  <2>1. Overlapping(e, b) = Cardinality(first .. last - 1)
    BY <1>2 DEF Overlapping
  <2> QED BY <1>1, <1>3, <2>1
<1> QED BY <1>1, <1>4 DEF first, last

\* The interference of a reception is the energy of the others over its time.
EnergyDuring(e, H) == [b \in H |-> RxPower[b.sender] * Overlapping(e, b)]

LEMMA PerPacketIsExact ==
  ASSUME NEW H, Heard(H), NEW e \in Receiving
  PROVE  PerPacket(e) = SumFunctionOnSet(EnergyDuring(e, H), H \ {e})
<1> DEFINE s == PositionOf(e, FALSE)
           f == PositionOf(e, TRUE)
           D == ChangesDuring(e)
           n == Len(D)
           Q == PowerBefore(e)
           g == [i \in DOMAIN D |-> D[i].power * (e.end - D[i].time)]
<1>1. /\ Len(L0) \in Nat /\ s \in 1 .. Len(L0) /\ f \in 1 .. Len(L0) /\ s < f
      /\ e \in H /\ BurstOk(e)
  BY Positions, ZenonT(60)
<1>2. IsList(L0, H) /\ Complete(L0) /\ IsFiniteSet(H) /\ IsFiniteSet(H \ {e})
  BY FS_RemoveElement DEF Heard, IsList
<1>3. /\ n = f - s - 1 /\ DOMAIN D = 1 .. n /\ n \in Nat
      /\ \A i \in 1 .. n : D[i] = L0[s + i] /\ s + i \in 1 .. Len(L0)
      /\ Q \in Int
      /\ Q + PowerOf(SubSeq(D, 1, 0)) = SumFunctionOnSet(PowerLasting(L0, H, s + 0), H \ {e})
  <2>1. /\ n = f - s - 1 /\ DOMAIN D = 1 .. n /\ n \in Nat
        /\ \A i \in 1 .. n : D[i] = L0[s + i] /\ s + i \in 1 .. Len(L0)
        /\ Q \in Int
        /\ \A j \in 0 .. n :
             Q + PowerOf(SubSeq(D, 1, j)) = SumFunctionOnSet(PowerLasting(L0, H, s + j), H \ {e})
    BY PowerDuring
  <2> HIDE DEF s, D, n, Q
  <2>2. 0 \in 0 .. n
    <3>1. n \in Nat
      BY <2>1
    <3> QED BY <3>1
  <2>3. Q + PowerOf(SubSeq(D, 1, 0)) = SumFunctionOnSet(PowerLasting(L0, H, s + 0), H \ {e})
    BY <2>1, <2>2
  <2> QED BY <2>1, <2>3
<1>4. PerPacket(e) = Q * (e.end - e.start) + SumFunctionOnSet(g, 1 .. n)
  BY <1>3 DEF PerPacket, SumFunction
<1> HIDE DEF s, f, D, n, Q
<1>5. ASSUME NEW i \in 1 .. n
      PROVE  /\ g[i] = L0[s + i].power * (e.end - L0[s + i].time) /\ g[i] \in Int
  <2>1. g[i] = L0[s + i].power * (e.end - L0[s + i].time)
    BY <1>3
  <2>2. L0[s + i].power \in Int /\ L0[s + i].time \in Nat
    BY <1>2, <1>3, ListMember
  <2>3. e.end - L0[s + i].time \in Int
    BY <1>1, <2>2 DEF BurstOk
  <2> QED BY <2>1, <2>2, <2>3, TimesType
<1> HIDE DEF g
<1>6. Q * (e.end - e.start) = SumFunctionOnSet(Weight(e, H, s), H \ {e})
  <2> DEFINE p == PowerLasting(L0, H, s)
             w == Weight(e, H, s)
             m == e.end - e.start
  <2>1. PowerOf(SubSeq(D, 1, 0)) = 0
    <3>1. SubSeq(D, 1, 0) = <<>>
      OBVIOUS
    <3>2. DOMAIN <<>> = {}
      OBVIOUS
    <3> QED BY <3>1, <3>2, SumOfNone DEF PowerOf, SumFunction
  <2>2. Q = SumFunctionOnSet(p, H \ {e})
    <3>1. s + 0 = s
      BY <1>1
    <3> QED BY <1>3, <2>1, <3>1
  <2>3. \A b \in H : RxPower[b.sender] \in Nat /\ p[b] \in Int /\ w[b] \in Int
    <3>1. \A b \in H : RxPower[b.sender] \in Nat /\ w[b] \in Int
      BY <1>1, <1>2, WeightType
    <3> QED BY <3>1 DEF PowerLasting
  <2>4. m \in Int
    BY <1>1 DEF BurstOk
  <2>5. ASSUME NEW b \in H \ {e} PROVE w[b] = p[b] * m
    <3>1. w[b] = RxPower[b.sender] * (Begun(e, b, s) - Ended(e, b, s))
      BY DEF Weight
    <3>2. p[b] = IF Lasting(L0, b, s) THEN RxPower[b.sender] ELSE 0
      BY DEF PowerLasting
    <3>3. /\ <<b, FALSE>> \notin Behind(L0, s) => b.start <= e.start
          /\ <<b, TRUE>> \notin Behind(L0, s) => b.end <= e.start
      <4>1. s <= s /\ s < f /\ s \in Nat
        BY <1>1
      <4> QED BY <4>1, TimesAt DEF s, f
    <3>4. ASSUME <<b, FALSE>> \in Behind(L0, s) PROVE <<b, TRUE>> \in Behind(L0, s)
      <4>1. s \in Nat
        BY <1>1
      <4> QED BY <1>2, <3>4, <4>1, RiseBeforeFall
    <3>5. BurstOk(b)
      BY <1>2 DEF IsList
    <3>6. CASE Lasting(L0, b, s)
      <4>1. Begun(e, b, s) = m /\ Ended(e, b, s) = 0
        BY <3>3, <3>5, <3>6, <1>1 DEF Lasting, Begun, Ended, Rest, BurstOk
      <4> HIDE DEF m
      <4>2. Begun(e, b, s) - Ended(e, b, s) = m
        BY <2>4, <4>1
      <4> QED BY <3>1, <3>2, <3>6, <4>2
    <3>7. CASE ~Lasting(L0, b, s)
      <4>1. Begun(e, b, s) - Ended(e, b, s) = 0
        BY <3>3, <3>4, <3>5, <3>7, <1>1 DEF Lasting, Begun, Ended, Rest, BurstOk
      <4> HIDE DEF m
      <4>2. RxPower[b.sender] * 0 = 0 /\ 0 * m = 0
        BY <2>3, <2>4
      <4> QED BY <3>1, <3>2, <3>7, <4>1, <4>2
    <3> QED BY <3>6, <3>7
  <2> HIDE DEF p, w, m
  <2>6. SumFunctionOnSet(w, H \ {e}) = SumFunctionOnSet(p, H \ {e}) * m
    BY <1>2, <2>3, <2>4, <2>5, SumTimes
  <2> QED BY <2>2, <2>6 DEF w, m
<1> DEFINE A == {j \in Nat : j <= n => Q * (e.end - e.start) + SumFunctionOnSet(g, 1 .. j)
                                         = SumFunctionOnSet(Weight(e, H, s + j), H \ {e})}
<1>7. Q * (e.end - e.start) \in Int
  <2>1. e.end - e.start \in Int
    BY <1>1 DEF BurstOk
  <2> QED BY <1>3, <2>1, TimesType
<1>8. 0 \in A
  <2>1. 1 .. 0 = {} /\ s + 0 = s
    BY <1>1
  <2>2. SumFunctionOnSet(g, 1 .. 0) = 0
    BY <2>1, SumOfNone
  <2> QED BY <1>6, <1>7, <2>1, <2>2
<1>9. ASSUME NEW j \in Nat, j \in A PROVE j + 1 \in A
  <2>1. SUFFICES ASSUME j + 1 <= n
        PROVE  Q * (e.end - e.start) + SumFunctionOnSet(g, 1 .. j + 1)
                 = SumFunctionOnSet(Weight(e, H, s + (j + 1)), H \ {e})
    OBVIOUS
  <2>2. /\ j <= n /\ j + 1 \in 1 .. n /\ s + j \in Nat /\ s <= s + j /\ (s + j) + 1 < f
        /\ s + (j + 1) = (s + j) + 1
    <3>1. s \in Nat /\ f \in Nat /\ n \in Nat /\ n = f - s - 1
      BY <1>1, <1>3
    <3> QED BY <2>1, <3>1
  <2>3. Q * (e.end - e.start) + SumFunctionOnSet(g, 1 .. j)
          = SumFunctionOnSet(Weight(e, H, s + j), H \ {e})
    BY <1>9, <2>2
  <2>4. (\A i \in 1 .. j + 1 : g[i] \in Int) /\ (\A i \in 1 .. j : g[i] \in Int)
    BY <1>3, <1>5, <2>2
  <2>5. SumFunctionOnSet(g, 1 .. j + 1) = SumFunctionOnSet(g, 1 .. j) + g[j + 1]
    BY <2>4, SumToNext
  <2>6. SumFunctionOnSet(g, 1 .. j) \in Int /\ g[j + 1] \in Int
    <3>1. IsFiniteSet(1 .. j)
      BY FirstNumbers
    <3> QED BY <1>5, <2>2, <2>4, <3>1, SumType
  <2>7. SumFunctionOnSet(Weight(e, H, (s + j) + 1), H \ {e})
          = SumFunctionOnSet(Weight(e, H, s + j), H \ {e})
              + L0[(s + j) + 1].power * (e.end - L0[(s + j) + 1].time)
    BY <2>2, WeightStep DEF s, f
  <2>8. g[j + 1] = L0[(s + j) + 1].power * (e.end - L0[(s + j) + 1].time)
    BY <1>5, <2>2
  <2>9. SumFunctionOnSet(Weight(e, H, s + (j + 1)), H \ {e})
          = SumFunctionOnSet(Weight(e, H, s + j), H \ {e}) + g[j + 1]
    BY <2>2, <2>7, <2>8
  <2> QED BY <1>7, <2>3, <2>5, <2>6, <2>9
<1>10. \A j \in Nat : j \in A
  <2> HIDE DEF A
  <2> QED BY <1>8, <1>9, Induction
<1>11. PerPacket(e) = SumFunctionOnSet(Weight(e, H, s + n), H \ {e})
  <2>1. n \in Nat /\ n <= n
    BY <1>3
  <2> QED BY <1>4, <1>10, <2>1
<1>12. \A b \in H \ {e} : /\ EnergyDuring(e, H)[b] = Weight(e, H, s + n)[b]
                          /\ Weight(e, H, s + n)[b] \in Int
  <2>1. ASSUME NEW b \in H \ {e}
        PROVE  EnergyDuring(e, H)[b] = Weight(e, H, s + n)[b]
    <3> DEFINE k == s + n
    <3>1. k = f - 1 /\ k \in Nat /\ s <= k /\ k < f
      BY <1>1, <1>3
    <3>2. BurstOk(b)
      BY <1>2 DEF IsList
    <3> HIDE DEF k
    <3>3. /\ <<b, FALSE>> \in Behind(L0, k) => b.start >= e.end
          /\ <<b, TRUE>> \in Behind(L0, k) => b.end >= e.end
          /\ <<b, FALSE>> \notin Behind(L0, k) => b.start <= e.end
          /\ <<b, TRUE>> \notin Behind(L0, k) => b.end <= e.end
      BY <3>1, TimesAt DEF s, f
    <3>4. /\ LET first == IF b.start <= e.start THEN e.start ELSE b.start
                 last == IF b.end <= e.end THEN b.end ELSE e.end
             IN  Overlapping(e, b) = IF first <= last THEN last - first ELSE 0
      BY <1>1, <3>2, OverlapLength
    <3>5. Begun(e, b, k) - Ended(e, b, k) = Overlapping(e, b)
      BY <1>1, <3>2, <3>3, <3>4 DEF BurstOk, Begun, Ended, Rest
    <3> QED BY <3>5 DEF EnergyDuring, Weight, k
  <2> QED BY <1>1, <1>2, <2>1, WeightType
<1>13. SumFunctionOnSet(Weight(e, H, s + n), H \ {e}) = SumFunctionOnSet(EnergyDuring(e, H), H \ {e})
  BY <1>2, <1>12, SumSame
<1> QED BY <1>11, <1>13

-----------------------------------------------------------------------------
(* What was heard, step by step. *)

LEMMA CleanedList ==
  ASSUME NEW L, NEW H, IsList(L, H), Complete(L), NEW n \in 0 .. Len(L)
  PROVE  LET r == SubSeq(L, n + 1, Len(L))
         IN  IsList(r, H) /\ Complete(r) /\ Behind(r, 0) = Behind(L, n)
<1> DEFINE r == SubSeq(L, n + 1, Len(L))
<1>1. IsList(r, H) /\ Len(r) = Len(L) - n /\ \A k \in 0 .. Len(r) : Behind(r, k) = Behind(L, n + k)
  BY ListFrom
<1>2. Len(L) \in Nat
  BY DEF IsList
<1> HIDE DEF r
<1>3. Behind(r, 0) = Behind(L, n)
  <2>1. 0 \in 0 .. Len(r) /\ n + 0 = n
    BY <1>1, <1>2
  <2> QED BY <1>1, <2>1
<1>4. ASSUME NEW i \in 1 .. Len(r), ~r[i].isEnd PROVE <<r[i].event, TRUE>> \in Behind(r, 0)
  <2>1. i > 0
    OBVIOUS
  <2>2. <<r[i].event, FALSE>> \in Behind(r, 0)
    BY <1>1, <1>4, <2>1, RiseBehind
  <2>3. <<r[i].event, FALSE>> \in Behind(L, n)
    BY <1>3, <2>2
  <2>4. <<r[i].event, TRUE>> \in Behind(L, n)
    <3>1. n \in Nat
      BY <1>2
    <3> QED BY <2>3, <3>1, RiseBeforeFall
  <2> QED BY <1>3, <2>4
<1> QED BY <1>1, <1>3, <1>4 DEF Complete, r

LEMMA ListWithBurst ==
  ASSUME NEW L, NEW H, IsList(L, H), Complete(L), NEW b, BurstOk(b), b \notin H
  PROVE  LET q == InsertChange(InsertChange(L, Rise(b)), Fall(b))
         IN  /\ IsList(q, H \cup {b}) /\ Complete(q)
             /\ \A x \in H : /\ <<x, FALSE>> \in Behind(q, 0) <=> <<x, FALSE>> \in Behind(L, 0)
                             /\ <<x, TRUE>> \in Behind(q, 0) <=> <<x, TRUE>> \in Behind(L, 0)
             /\ <<b, FALSE>> \in Behind(q, 0) /\ <<b, TRUE>> \in Behind(q, 0)
<1> DEFINE G == H \cup {b}
           S == {Rise(x) : x \in G} \cup {Fall(x) : x \in G}
           p == InsertChange(L, Rise(b))
           q == InsertChange(p, Fall(b))
<1>1. IsList(L, G)
  <2>1. IsFiniteSet(G)
    BY FS_AddElement DEF IsList
  <2>2. \A x \in G : BurstOk(x)
    BY DEF IsList
  <2>3. L \in Seq(S)
    <3>1. L \in Seq({Rise(x) : x \in H} \cup {Fall(x) : x \in H})
      BY DEF IsList
    <3>2. \A i \in 1 .. Len(L) : L[i] \in S
      BY <3>1
    <3> QED BY <3>1, <3>2
  <2> HIDE DEF G
  <2> QED BY <2>1, <2>2, <2>3 DEF IsList
<1>2. \A isEnd : <<b, isEnd>> \notin Behind(L, 0)
  <2>1. ASSUME NEW isEnd, <<b, isEnd>> \in Behind(L, 0) PROVE FALSE
    <3>1. PICK i \in 1 .. Len(L) : i > 0 /\ L[i].event = b /\ L[i].isEnd = isEnd
      BY <2>1, InBehind
    <3>2. L[i].event \in H
      BY ListMember
    <3> QED BY <3>1, <3>2
  <2> QED BY <2>1
<1>3. Rise(b).event = b /\ Rise(b).isEnd = FALSE /\ Fall(b).event = b /\ Fall(b).isEnd = TRUE
      /\ Rise(b) \in S /\ Fall(b) \in S
  BY DEF Rise, Fall, Change
<1>4. IsList(p, G) /\ Behind(p, 0) = Behind(L, 0) \cup {<<b, FALSE>>}
  <2>1. <<Rise(b).event, Rise(b).isEnd>> = <<b, FALSE>>
    BY <1>3
  <2>2. <<b, FALSE>> \notin Behind(L, 0)
    BY <1>2
  <2>3. Rise(b) \in {Rise(x) : x \in G} \cup {Fall(x) : x \in G}
    OBVIOUS
  <2> HIDE DEF G
  <2>4. PICK c \in {Rise(x) : x \in G} \cup {Fall(x) : x \in G} : c = Rise(b)
    BY <2>3
  <2>5. IsList(L, G) /\ <<c.event, c.isEnd>> \notin Behind(L, 0)
    BY <1>1, <2>1, <2>2, <2>4
  <2>6. /\ IsList(InsertChange(L, c), G)
        /\ Behind(InsertChange(L, c), 0) = Behind(L, 0) \cup {<<c.event, c.isEnd>>}
    BY <2>5, ListInserted
  <2> QED BY <2>1, <2>4, <2>6
<1> HIDE DEF p
<1>5. IsList(q, G) /\ Behind(q, 0) = Behind(p, 0) \cup {<<b, TRUE>>}
  <2>1. <<Fall(b).event, Fall(b).isEnd>> = <<b, TRUE>>
    BY <1>3
  <2>2. <<b, TRUE>> \notin Behind(p, 0)
    <3>1. <<b, TRUE>> \notin Behind(L, 0)
      BY <1>2
    <3>2. <<b, TRUE>> # <<b, FALSE>>
      OBVIOUS
    <3> QED BY <1>4, <3>1, <3>2
  <2>3. Fall(b) \in {Rise(x) : x \in G} \cup {Fall(x) : x \in G}
    OBVIOUS
  <2> HIDE DEF G
  <2>4. PICK c \in {Rise(x) : x \in G} \cup {Fall(x) : x \in G} : c = Fall(b)
    BY <2>3
  <2>5. IsList(p, G) /\ <<c.event, c.isEnd>> \notin Behind(p, 0)
    BY <1>4, <2>1, <2>2, <2>4
  <2>6. /\ IsList(InsertChange(p, c), G)
        /\ Behind(InsertChange(p, c), 0) = Behind(p, 0) \cup {<<c.event, c.isEnd>>}
    BY <2>5, ListInserted
  <2> QED BY <2>1, <2>4, <2>6
<1>6. Behind(q, 0) = Behind(L, 0) \cup {<<b, FALSE>>, <<b, TRUE>>}
  BY <1>4, <1>5
<1> HIDE DEF q
<1>7. ASSUME NEW x \in H, NEW isEnd
      PROVE  <<x, isEnd>> \in Behind(q, 0) <=> <<x, isEnd>> \in Behind(L, 0)
  <2>1. <<x, isEnd>> # <<b, FALSE>> /\ <<x, isEnd>> # <<b, TRUE>>
    OBVIOUS
  <2> QED BY <1>6, <2>1
<1>8. \A x \in H : /\ <<x, FALSE>> \in Behind(q, 0) <=> <<x, FALSE>> \in Behind(L, 0)
                   /\ <<x, TRUE>> \in Behind(q, 0) <=> <<x, TRUE>> \in Behind(L, 0)
  BY <1>7, Zenon
<1>9. <<b, FALSE>> \in Behind(q, 0) /\ <<b, TRUE>> \in Behind(q, 0)
  BY <1>6
<1>10. ASSUME NEW i \in 1 .. Len(q), ~q[i].isEnd PROVE <<q[i].event, TRUE>> \in Behind(q, 0)
  <2>1. CASE q[i].event = b
    BY <1>9, <2>1
  <2>2. CASE q[i].event # b
    <3>1. q[i].event \in H
      <4>1. q[i].event \in G
        BY <1>5, ListMember
      <4> QED BY <2>2, <4>1
    <3>2. i > 0
      OBVIOUS
    <3>3. <<q[i].event, FALSE>> \in Behind(q, 0)
      BY <1>5, <1>10, <3>2, RiseBehind
    <3>4. <<q[i].event, FALSE>> \in Behind(L, 0)
      BY <1>8, <3>1, <3>3
    <3>5. <<q[i].event, TRUE>> \in Behind(L, 0)
      BY <3>4, RiseBeforeFall
    <3> QED BY <1>8, <3>1, <3>5
  <2> QED BY <2>1, <2>2
<1> QED BY <1>5, <1>8, <1>9, <1>10 DEF Complete, p, q

\* A burst begins.
LEMMA HeardStart ==
  ASSUME NEW H, Heard(H), NEW burst, BurstOk(burst), burst \notin H, StartRx(burst)
  PROVE  Heard(H \cup {burst})'
<1> DEFINE G == H \cup {burst}
           n == IF Receiving = {} THEN CountUpTo(L0, burst.start) ELSE 0
           kept == SubSeq(L0, n + 1, Len(L0))
           q == InsertChange(InsertChange(kept, Rise(burst)), Fall(burst))
<1>1. /\ IsList(L0, H) /\ Complete(L0) /\ IsFiniteSet(H) /\ \A b \in H : BurstOk(b)
      /\ m_residualPowerW = SumFunctionOnSet(PowerLasting(L0, H, 0), H)
      /\ now \in Nat /\ Len(L0) \in Nat
  BY DEF Heard, IsList
<1>2. burst.start = now /\ Add(burst, RxPower[burst.sender]) /\ now' = now
  BY DEF StartRx
<1>3. n \in 0 .. Len(L0)
  BY <1>1, <1>2, CountOfPrefix
<1>4. CleanedUp(burst.start) = SubSeq(L0, 1, n)
  <2>1. CASE Receiving = {}
    BY <2>1 DEF CleanedUp, UpTo, L0
  <2>2. CASE Receiving # {}
    <3>1. SubSeq(L0, 1, 0) = <<>>
      BY <1>1 DEF IsList
    <3> QED BY <2>2, <3>1 DEF CleanedUp
  <2> QED BY <2>1, <2>2
<1>5. Len(SubSeq(L0, 1, n)) = n
  BY <1>1, <1>3 DEF IsList
<1>6. L0' = q /\ m_residualPowerW' = m_residualPowerW + PowerOf(SubSeq(L0, 1, n))
  <2>1. Len(CleanedUp(burst.start)) = n
    BY <1>4, <1>5
  <2> HIDE DEF n
  <2> QED BY <1>2, <1>4, <2>1 DEF Add, Rise, Fall, L0
<1> HIDE DEF n
<1>7. IsList(kept, H) /\ Complete(kept) /\ Behind(kept, 0) = Behind(L0, n)
  BY <1>1, <1>3, CleanedList
<1> HIDE DEF kept
<1>8. /\ IsList(q, G) /\ Complete(q)
      /\ \A x \in H : /\ <<x, FALSE>> \in Behind(q, 0) <=> <<x, FALSE>> \in Behind(kept, 0)
                      /\ <<x, TRUE>> \in Behind(q, 0) <=> <<x, TRUE>> \in Behind(kept, 0)
      /\ <<burst, FALSE>> \in Behind(q, 0) /\ <<burst, TRUE>> \in Behind(q, 0)
  BY <1>7, ListWithBurst
<1> HIDE DEF q
<1>9. m_residualPowerW' = SumFunctionOnSet(PowerLasting(q, G, 0), G)
  <2> DEFINE f == PowerLasting(L0, H, n)
             g == PowerLasting(q, G, 0)
  <2>1. m_residualPowerW' = SumFunctionOnSet(f, H)
    BY <1>1, <1>3, <1>6, PowerUpTo
  <2>2. \A x \in H : RxPower[x.sender] \in Int
    BY <1>1, CarrierAssumption DEF BurstOk
  <2>3. \A x \in H : f[x] \in Int /\ g[x] = f[x]
    <3>1. \A x \in H : Lasting(q, x, 0) <=> Lasting(L0, x, n)
      BY <1>7, <1>8 DEF Lasting
    <3> QED BY <2>2, <3>1 DEF PowerLasting
  <2>4. g[burst] = 0
    BY <1>8 DEF PowerLasting, Lasting
  <2> HIDE DEF f, g
  <2>5. SumFunctionOnSet(f, H) \in Int
    BY <1>1, <2>3, SumType
  <2>6. SumFunctionOnSet(g, H \cup {burst}) = SumFunctionOnSet(f, H) + g[burst]
    <3>1. IsFiniteSet(H) /\ burst \notin H /\ g[burst] \in Int
      BY <1>1, <2>4
    <3>2. \A x \in H : f[x] \in Int /\ g[x] = f[x]
      BY <2>3
    <3> QED BY <3>1, <3>2, SumWith, SMTT(30)
  <2> QED BY <2>1, <2>4, <2>5, <2>6 DEF g
<1>10. Receiving' = Receiving \/ Receiving' = Receiving \cup {burst}
  BY DEF StartRx, NotifyRxStart, Receiving
<1>11. \A b \in H : b.start <= now /\ (<<b, TRUE>> \notin Behind(L0, 0) => b.end <= now)
  BY DEF Heard
<1>12. ASSUME NEW b \in H, <<b, TRUE>> \notin Behind(L0, n) PROVE b.end <= now
  <2>1. CASE <<b, TRUE>> \notin Behind(L0, 0)
    BY <1>11, <2>1
  <2>2. CASE <<b, TRUE>> \in Behind(L0, 0)
    <3>1. n # 0
      BY <1>12, <2>2
    <3>2. n = CountUpTo(L0, now)
      BY <1>2, <3>1 DEF n
    <3>3. PICK i \in 1 .. Len(L0) : i > 0 /\ L0[i].event = b /\ L0[i].isEnd
      BY <1>1, <2>2, FallBehind
    <3>4. ~(i > n)
      <4>1. IsList(L0, H) /\ n \in Nat
        BY <1>1, <1>3
      <4> QED BY <1>12, <3>3, <4>1, FallBehind
    <3>5. L0[i].time <= now
      <4>1. IsList(L0, H) /\ now \in Int
        BY <1>1
      <4>2. \A k \in 1 .. Len(L0) : k <= CountUpTo(L0, now) <=> L0[k].time <= now
        BY <4>1, CountOfPrefix
      <4>3. i <= CountUpTo(L0, now)
        BY <1>1, <1>3, <3>2, <3>4
      <4> QED BY <4>2, <4>3
    <3>6. L0[i].time = IF L0[i].isEnd THEN L0[i].event.end ELSE L0[i].event.start
      BY <1>1, ListMember
    <3> QED BY <3>3, <3>5, <3>6
  <2> QED BY <2>1, <2>2
<1>13. \A b \in G : b.start <= now' /\ (<<b, TRUE>> \notin Behind(q, 0) => b.end <= now')
  <2>1. burst.start <= now
    BY <1>1, <1>2
  <2> QED BY <1>2, <1>7, <1>8, <1>11, <1>12, <2>1
<1>14. Receiving \subseteq H
  BY DEF Heard
<1>15. Receiving # {} => n = 0
  BY DEF n
<1>16. ASSUME NEW e \in Receiving'
       PROVE  /\ e \in G /\ <<e, FALSE>> \in Behind(q, 0) /\ <<e, TRUE>> \in Behind(q, 0)
              /\ \A b \in G : /\ <<b, FALSE>> \notin Behind(q, 0) => b.start <= e.start
                              /\ <<b, TRUE>> \notin Behind(q, 0) => b.end <= e.start
  <2>1. CASE e = burst
    <3>1. ASSUME NEW b \in G
          PROVE  b.start <= e.start /\ (<<b, TRUE>> \notin Behind(q, 0) => b.end <= e.start)
      BY <1>2, <1>13, <2>1
    <3> QED BY <1>8, <2>1, <3>1
  <2>2. CASE e # burst
    <3>1. e \in Receiving /\ e \in H /\ n = 0
      BY <1>10, <1>14, <1>15, <2>2
    <3>2. /\ <<e, FALSE>> \in Behind(L0, 0) /\ <<e, TRUE>> \in Behind(L0, 0)
          /\ \A b \in H : /\ <<b, FALSE>> \notin Behind(L0, 0) => b.start <= e.start
                          /\ <<b, TRUE>> \notin Behind(L0, 0) => b.end <= e.start
      BY <3>1 DEF Heard
    <3>3. \A b \in H : /\ <<b, FALSE>> \in Behind(q, 0) <=> <<b, FALSE>> \in Behind(L0, 0)
                       /\ <<b, TRUE>> \in Behind(q, 0) <=> <<b, TRUE>> \in Behind(L0, 0)
      BY <1>7, <1>8, <3>1
    <3> QED BY <1>8, <3>1, <3>2, <3>3
  <2> QED BY <2>1, <2>2
<1>17. now' \in Nat
  BY <1>1, <1>2
<1>18. Receiving' \subseteq G
  BY <1>16
<1> QED BY <1>6, <1>8, <1>9, <1>13, <1>16, <1>17, <1>18 DEF Heard

\* A reception ends.
LEMMA HeardEnd ==
  ASSUME NEW H, Heard(H), NEW burst, EndRxData(burst)
  PROVE  Heard(H)'
<1>1. Receiving' \subseteq Receiving
  BY DEF EndRxData, NotifyRxEnd, Receiving
<1>2. L0' = L0 /\ m_residualPowerW' = m_residualPowerW /\ now' = now
  BY DEF EndRxData, L0
<1> QED BY <1>1, <1>2 DEF Heard

\* Time passes.
LEMMA HeardLater ==
  ASSUME NEW H, Heard(H), UNCHANGED interferenceVars, now' = now \/ now' = now + 1
  PROVE  Heard(H)'
<1>1. Receiving' = Receiving /\ L0' = L0 /\ m_residualPowerW' = m_residualPowerW
  BY DEF interferenceVars, Receiving, L0
<1>2. now \in Nat /\ now' \in Nat /\ now <= now'
  BY DEF Heard
<1>3. \A b \in H : b.start \in Nat /\ b.end \in Nat
  BY DEF Heard, IsList, BurstOk
<1>4. ASSUME NEW b \in H
      PROVE  b.start <= now' /\ (<<b, TRUE>> \notin Behind(L0, 0) => b.end <= now')
  <2>1. b.start <= now /\ (<<b, TRUE>> \notin Behind(L0, 0) => b.end <= now)
    BY DEF Heard
  <2> QED BY <1>2, <1>3, <2>1
<1> QED BY <1>1, <1>2, <1>4 DEF Heard

-----------------------------------------------------------------------------
(* The bursts of a frame. *)

Slotted == m_randomAccessModel = "SLOTTED_ALOHA"
Framed == m_randomAccessModel # "ESSA"

FrameStart == frame * FrameDuration
StartOf(slot) == frame * FrameDuration + slot * SlotDuration

FrameBurst(b) ==
  /\ b.sender \in Sender /\ b.slot \in Slot /\ b.slots \subseteq Slot /\ b.slot \in b.slots
  /\ b.id \in Nat /\ b.type = IF Slotted THEN "SLOTTED_ALOHA" ELSE "CRDSA"
  /\ b = Burst(b.sender, b.type, b.id, b.slot, b.slots)

\* What UTs send in a frame: all the replicas of their packets, none in the
\* slot of another.
IsTransmission(X) ==
  /\ IsFiniteSet(X) /\ \A b \in X : FrameBurst(b)
  /\ \A b \in X : \A s \in b.slots : Burst(b.sender, b.type, b.id, s, b.slots) \in X
  /\ \A b, c \in X : SamePacket(b, c) => b.slots = c.slots
  /\ \A b, c \in X : b.sender = c.sender /\ b.slots \cap c.slots # {} => b.id = c.id
  /\ Slotted => \A b \in X : b.slots = {b.slot}

LEMMA SlotTimes ==
  ASSUME frame \in Nat
  PROVE  /\ FrameDuration \in Nat /\ FrameStart \in Nat
         /\ SlotDuration \in Nat /\ GuardTime \in Nat /\ 0 < GuardTime /\ GuardTime < SlotDuration
         /\ (frame + 1) * FrameDuration = FrameStart + FrameDuration
         /\ \A s \in Slot : /\ s \in Nat /\ StartOf(s) \in Nat /\ FrameStart <= StartOf(s)
                            /\ StartOf(s) + SlotDuration <= FrameStart + FrameDuration
         /\ \A s, t \in Slot : s < t => StartOf(s) + SlotDuration <= StartOf(t)
<1> DEFINE n == Cardinality(Slot)
<1>1. n \in Nat /\ Slot = 0 .. n - 1
  BY FrameAssumption, FS_CardinalityType
<1>2. SlotDuration \in Nat \ {0} /\ GuardTime \in Nat /\ 0 < GuardTime /\ GuardTime < SlotDuration
  BY FrameAssumption
<1>3. FrameDuration = n * SlotDuration /\ FrameDuration \in Int
  <2>1. n * SlotDuration \in Int
    <3>1. n \in Int /\ SlotDuration \in Int
      BY <1>1, <1>2
    <3> QED BY <3>1, TimesType
  <2> QED BY <2>1 DEF FrameDuration
<1> HIDE DEF n
<1>4. \A a \in Nat, b \in Nat : a * b \in Nat
  OBVIOUS
<1>5. FrameDuration \in Nat /\ FrameStart \in Nat
  <2>1. FrameDuration \in Nat
    BY <1>1, <1>2, <1>3, <1>4
  <2> QED BY <1>4, <2>1 DEF FrameStart
<1>6. (frame + 1) * FrameDuration = FrameStart + FrameDuration
  <2>1. \A a \in Nat, b \in Nat : (a + 1) * b = a * b + b
    OBVIOUS
  <2> QED BY <1>5, <2>1 DEF FrameStart
<1>7. ASSUME NEW s \in Slot
      PROVE  /\ s \in Nat /\ StartOf(s) \in Nat /\ FrameStart <= StartOf(s)
             /\ StartOf(s) + SlotDuration <= FrameStart + FrameDuration
  <2>1. s \in Nat /\ s < n
    BY <1>1
  <2>2. s * SlotDuration \in Nat /\ s * SlotDuration + SlotDuration <= n * SlotDuration
    <3>1. s \in Int /\ n \in Int
      BY <1>1, <2>1
    <3> QED BY <1>2, <1>4, <2>1, <3>1, TimesMonotonic
  <2>3. StartOf(s) = FrameStart + s * SlotDuration
    BY DEF StartOf, FrameStart
  <2> QED BY <1>2, <1>3, <1>5, <2>1, <2>2, <2>3
<1>8. ASSUME NEW s \in Slot, NEW t \in Slot, s < t
      PROVE  StartOf(s) + SlotDuration <= StartOf(t)
  <2>1. s \in Int /\ t \in Int
    BY <1>1
  <2>2. s * SlotDuration + SlotDuration <= t * SlotDuration
    BY <1>2, <1>8, <2>1, TimesMonotonic
  <2>3. StartOf(s) = FrameStart + s * SlotDuration /\ StartOf(t) = FrameStart + t * SlotDuration
    BY DEF StartOf, FrameStart
  <2>4. s * SlotDuration \in Int /\ t * SlotDuration \in Int
    BY <1>2, <2>1, TimesType
  <2> QED BY <1>2, <1>5, <2>2, <2>3, <2>4
<1> QED BY <1>2, <1>5, <1>6, <1>7, <1>8

\* When a burst of the frame is on the air.
LEMMA BurstTimes ==
  ASSUME frame \in Nat, NEW b, FrameBurst(b)
  PROVE  /\ BurstOk(b) /\ b.start = StartOf(b.slot) /\ b.end = b.start + SlotDuration - GuardTime
         /\ Duration(b) = SlotDuration - GuardTime /\ Duration(b) \in Nat \ {0}
         /\ FrameStart <= b.start /\ b.end < FrameStart + FrameDuration
         /\ \A c : FrameBurst(c) => /\ b.slot = c.slot <=> b.start = c.start
                                    /\ b.slot = c.slot => b.end = c.end
                                    /\ b.slot # c.slot => b.end < c.start \/ c.end < b.start
<1>1. ASSUME NEW c, FrameBurst(c)
      PROVE  c.start = StartOf(c.slot) /\ c.end = StartOf(c.slot) + SlotDuration - GuardTime
  <2>1. c = Burst(c.sender, c.type, c.id, c.slot, c.slots)
    BY <1>1 DEF FrameBurst
  <2>2. ASSUME NEW u, NEW v, NEW w, NEW x, NEW y
        PROVE  /\ Burst(u, v, w, x, y).start = StartOf(x)
               /\ Burst(u, v, w, x, y).end = StartOf(x) + SlotDuration - GuardTime
    BY DEF Burst, StartOf
  <2> HIDE DEF Burst
  <2>3. /\ Burst(c.sender, c.type, c.id, c.slot, c.slots).start = StartOf(c.slot)
        /\ Burst(c.sender, c.type, c.id, c.slot, c.slots).end = StartOf(c.slot) + SlotDuration - GuardTime
    BY <2>2
  <2> QED BY <2>1, <2>3, Zenon
<1>2. /\ FrameDuration \in Nat /\ FrameStart \in Nat
      /\ SlotDuration \in Nat /\ GuardTime \in Nat /\ 0 < GuardTime /\ GuardTime < SlotDuration
      /\ \A s \in Slot : /\ s \in Nat /\ StartOf(s) \in Nat /\ FrameStart <= StartOf(s)
                         /\ StartOf(s) + SlotDuration <= FrameStart + FrameDuration
      /\ \A s, t \in Slot : s < t => StartOf(s) + SlotDuration <= StartOf(t)
  BY SlotTimes
<1>3. b.slot \in Slot /\ b.sender \in Sender
  BY DEF FrameBurst
<1>4. b.start = StartOf(b.slot) /\ b.end = b.start + SlotDuration - GuardTime /\ b.start \in Nat
  BY <1>1, <1>2, <1>3
<1>5. BurstOk(b) /\ Duration(b) = SlotDuration - GuardTime /\ Duration(b) \in Nat \ {0}
      /\ FrameStart <= b.start /\ b.end < FrameStart + FrameDuration
  BY <1>2, <1>3, <1>4 DEF BurstOk, Duration
<1>6. ASSUME NEW c, FrameBurst(c)
      PROVE  /\ b.slot = c.slot <=> b.start = c.start
             /\ b.slot = c.slot => b.end = c.end
             /\ b.slot # c.slot => b.end < c.start \/ c.end < b.start
  <2>1. c.slot \in Slot
    BY <1>6 DEF FrameBurst
  <2>2. c.start = StartOf(c.slot) /\ c.end = c.start + SlotDuration - GuardTime /\ c.start \in Nat
    BY <1>1, <1>2, <1>6, <2>1
  <2>3. b.slot < c.slot \/ b.slot = c.slot \/ c.slot < b.slot
    BY <1>2, <1>3, <2>1
  <2>4. CASE b.slot < c.slot
    <3>1. b.start + SlotDuration <= c.start
      BY <1>2, <1>3, <1>4, <2>1, <2>2, <2>4
    <3> QED BY <1>2, <1>3, <1>4, <2>1, <2>2, <2>4, <3>1
  <2>5. CASE c.slot < b.slot
    <3>1. c.start + SlotDuration <= b.start
      BY <1>2, <1>3, <1>4, <2>1, <2>2, <2>5
    <3> QED BY <1>2, <1>3, <1>4, <2>1, <2>2, <2>5, <3>1
  <2>6. CASE b.slot = c.slot
    BY <1>2, <1>4, <2>2, <2>6
  <2> QED BY <2>3, <2>4, <2>5, <2>6
<1> QED BY <1>4, <1>5, <1>6

\* A UT has one burst in a slot at most; the replicas of a packet.
LEMMA OneBurst ==
  ASSUME NEW X, IsTransmission(X), NEW b \in X, NEW c \in X, b.sender = c.sender
  PROVE  /\ b.slot = c.slot => b = c
         /\ b.slots \cap c.slots # {} => b.slots = c.slots /\ b.id = c.id
         /\ b.id = c.id => b.slots = c.slots
<1>1. b.id = c.id => b.slots = c.slots
  BY DEF IsTransmission, SamePacket
<1>2. b.slots \cap c.slots # {} => b.slots = c.slots /\ b.id = c.id
  BY <1>1 DEF IsTransmission
<1>3. ASSUME b.slot = c.slot PROVE b = c
  <2>1. FrameBurst(b) /\ FrameBurst(c)
    BY DEF IsTransmission
  <2>2. b.slots = c.slots /\ b.id = c.id
    BY <1>2, <1>3, <2>1 DEF FrameBurst
  <2>3. b.type = c.type
    BY <2>1 DEF FrameBurst
  <2>4. b = Burst(b.sender, b.type, b.id, b.slot, b.slots)
    BY <2>1 DEF FrameBurst
  <2>5. c = Burst(c.sender, c.type, c.id, c.slot, c.slots)
    BY <2>1 DEF FrameBurst
  <2> HIDE DEF Burst
  <2> QED BY <1>3, <2>2, <2>3, <2>4, <2>5, Zenon
<1> QED BY <1>1, <1>2, <1>3

-----------------------------------------------------------------------------
(* The energy of some bursts over the time of one. *)

EnergyAmong(e, S) == SumFunction(EnergyDuring(e, S))

LEMMA EnergyValue ==
  ASSUME NEW e, BurstOk(e), NEW T, \A b \in T : BurstOk(b)
  PROVE  \A b \in T : EnergyDuring(e, T)[b] = RxPower[b.sender] * Overlapping(e, b)
                      /\ EnergyDuring(e, T)[b] \in Nat
<1>1. ASSUME NEW b \in T
      PROVE  EnergyDuring(e, T)[b] = RxPower[b.sender] * Overlapping(e, b) /\ EnergyDuring(e, T)[b] \in Nat
  <2>1. EnergyDuring(e, T)[b] = RxPower[b.sender] * Overlapping(e, b)
    BY DEF EnergyDuring
  <2>2. Overlapping(e, b) \in Nat
    BY OverlapLength
  <2>3. RxPower[b.sender] \in Nat
    BY CarrierAssumption DEF BurstOk
  <2>4. \A x \in Nat, y \in Nat : x * y \in Nat
    OBVIOUS
  <2> QED BY <2>1, <2>2, <2>3, <2>4
<1> QED BY <1>1

LEMMA EnergyOfPart ==
  ASSUME NEW e, BurstOk(e), NEW T, IsFiniteSet(T), \A b \in T : BurstOk(b), NEW S \in SUBSET T
  PROVE  /\ SumFunctionOnSet(EnergyDuring(e, T), S) = EnergyAmong(e, S)
         /\ EnergyAmong(e, S) \in Nat
         /\ EnergyAmong(e, S) <= EnergyAmong(e, T)
         /\ (\A b \in T \ S : Overlapping(e, b) = 0) => EnergyAmong(e, S) = EnergyAmong(e, T)
         /\ EnergyAmong(e, T) = EnergyAmong(e, S) + EnergyAmong(e, T \ S)
<1> DEFINE f == EnergyDuring(e, T)
<1>1. \A b \in T : f[b] = RxPower[b.sender] * Overlapping(e, b) /\ f[b] \in Nat
  BY EnergyValue
<1>2. ASSUME NEW R \in SUBSET T
      PROVE  IsFiniteSet(R) /\ SumFunctionOnSet(f, R) = EnergyAmong(e, R) /\ EnergyAmong(e, R) \in Nat
  <2> DEFINE g == EnergyDuring(e, R)
  <2>1. IsFiniteSet(R)
    BY FS_Subset
  <2>2. \A b \in R : g[b] = RxPower[b.sender] * Overlapping(e, b) /\ g[b] \in Nat
    BY EnergyValue
  <2>3. DOMAIN g = R
    BY DEF EnergyDuring
  <2>4. EnergyAmong(e, R) = SumFunctionOnSet(g, R)
    BY <2>3 DEF EnergyAmong, SumFunction
  <2>5. \A b \in R : f[b] \in Int /\ f[b] = g[b] /\ f[b] \in Nat
    BY <1>1, <2>2
  <2> HIDE DEF f, g
  <2>6. SumFunctionOnSet(f, R) = SumFunctionOnSet(g, R)
    BY <2>1, <2>5, SumSame
  <2>7. SumFunctionOnSet(f, R) \in Nat
    BY <2>1, <2>5, SumOfNaturals
  <2> QED BY <2>1, <2>4, <2>6, <2>7
<1>3. ASSUME NEW b \in T PROVE Overlapping(e, b) = 0 => f[b] = 0
  <2>1. RxPower[b.sender] \in Nat
    BY CarrierAssumption DEF BurstOk
  <2>2. RxPower[b.sender] * 0 = 0
    BY <2>1
  <2> HIDE DEF f
  <2> QED BY <1>1, <2>2
<1> HIDE DEF f
<1>4. EnergyAmong(e, S) <= EnergyAmong(e, T)
  <2>1. SumFunctionOnSet(f, S) <= SumFunctionOnSet(f, T)
    BY <1>1, SumSmaller
  <2>2. T \in SUBSET T
    OBVIOUS
  <2> QED BY <1>2, <2>1, <2>2
<1>5. ASSUME \A b \in T \ S : Overlapping(e, b) = 0 PROVE EnergyAmong(e, S) = EnergyAmong(e, T)
  <2>1. \A b \in T \ S : f[b] = 0
    BY <1>3, <1>5
  <2>2. \A b \in T : f[b] \in Int
    BY <1>1
  <2>3. SumFunctionOnSet(f, T) = SumFunctionOnSet(f, S)
    BY <2>1, <2>2, SumPart
  <2>4. T \in SUBSET T
    OBVIOUS
  <2> QED BY <1>2, <2>3, <2>4
<1>6. EnergyAmong(e, T) = EnergyAmong(e, S) + EnergyAmong(e, T \ S)
  <2> DEFINE R == T \ S
  <2>1. R \in SUBSET T /\ T \in SUBSET T /\ S \cap R = {} /\ S \cup R = T
    OBVIOUS
  <2>2. IsFiniteSet(S) /\ IsFiniteSet(R) /\ \A b \in S \cup R : f[b] \in Int
    BY <1>1, <1>2, <2>1
  <2> HIDE DEF R
  <2>3. SumFunctionOnSet(f, S \cup R) = SumFunctionOnSet(f, S) + SumFunctionOnSet(f, R)
    BY <2>1, <2>2, SumUnion
  <2>4. SumFunctionOnSet(f, T) = SumFunctionOnSet(f, S) + SumFunctionOnSet(f, R)
    BY <2>1, <2>3
  <2>5. EnergyAmong(e, T) = EnergyAmong(e, S) + EnergyAmong(e, R)
    BY <1>2, <2>1, <2>4
  <2> QED BY <2>5 DEF R
<1> QED BY <1>2, <1>4, <1>5, <1>6 DEF f

\* What the model calls it.
LEMMA EnergyOverIs ==
  ASSUME NEW b, NEW gone
  PROVE  EnergyOver(b, gone) = EnergyAmong(b, bursts \ (gone \cup {b}))
BY DEF EnergyOver, EnergyAmong, EnergyDuring

\* Bursts that do not last together.
LEMMA Apart ==
  ASSUME NEW e, BurstOk(e), NEW b, BurstOk(b)
  PROVE  /\ b.end <= e.start \/ e.end <= b.start => Overlapping(e, b) = 0
         /\ b.start = e.start /\ b.end = e.end => Overlapping(e, b) = Duration(e)
<1>1. LET first == IF b.start <= e.start THEN e.start ELSE b.start
          last == IF b.end <= e.end THEN b.end ELSE e.end
      IN  Overlapping(e, b) = IF first <= last THEN last - first ELSE 0
  BY OverlapLength
<1> QED BY <1>1 DEF BurstOk, Duration

\* A reception of the frame, among all that was ever heard.
LEMMA ReceptionIsExact ==
  ASSUME NEW H, Heard(H), NEW e \in Receiving, bursts \subseteq H, e \in bursts,
         \A b \in H \ bursts : b.end <= e.start
  PROVE  PerPacket(e) = EnergyOver(e, {})
<1> DEFINE T == H \ {e}
           S == bursts \ {e}
<1>1. IsFiniteSet(H) /\ \A b \in H : BurstOk(b)
  BY DEF Heard, IsList
<1>2. BurstOk(e) /\ IsFiniteSet(T) /\ S \in SUBSET T /\ T \in SUBSET H /\ T \in SUBSET T
  BY <1>1, FS_Subset
<1>3. \A b \in T \ S : Overlapping(e, b) = 0
  BY <1>1, <1>2, Apart
<1>4. \A b \in T : BurstOk(b)
  BY <1>1
<1>5. EnergyOver(e, {}) = EnergyAmong(e, S)
  <2>1. bursts \ ({} \cup {e}) = S
    OBVIOUS
  <2>2. EnergyOver(e, {}) = EnergyAmong(e, bursts \ ({} \cup {e}))
    BY EnergyOverIs
  <2> QED BY <2>1, <2>2, Zenon
<1>6. PerPacket(e) = SumFunctionOnSet(EnergyDuring(e, H), T)
  BY PerPacketIsExact
<1> HIDE DEF S, T
<1>7. EnergyAmong(e, S) = EnergyAmong(e, T)
  BY <1>2, <1>3, <1>4, EnergyOfPart
<1>8. SumFunctionOnSet(EnergyDuring(e, H), T) = EnergyAmong(e, T)
  <2> DEFINE f == EnergyDuring(e, H)
             g == EnergyDuring(e, T)
  <2>1. \A b \in T : f[b] = g[b] /\ f[b] \in Int
    <3>1. \A b \in H : f[b] = RxPower[b.sender] * Overlapping(e, b) /\ f[b] \in Nat
      BY <1>1, <1>2, EnergyValue
    <3>2. \A b \in T : g[b] = RxPower[b.sender] * Overlapping(e, b)
      BY DEF EnergyDuring
    <3> HIDE DEF f, g
    <3> QED BY <1>2, <3>1, <3>2
  <2>2. DOMAIN g = T
    BY DEF EnergyDuring
  <2>3. EnergyAmong(e, T) = SumFunctionOnSet(g, T)
    BY <2>2 DEF EnergyAmong, SumFunction
  <2> HIDE DEF f, g
  <2>4. SumFunctionOnSet(f, T) = SumFunctionOnSet(g, T)
    BY <1>2, <2>1, SumSame
  <2> QED BY <2>3, <2>4 DEF f
<1> QED BY <1>5, <1>6, <1>7, <1>8

-----------------------------------------------------------------------------
(* What is being received. *)

\* Bursts of the beam, in the order in which they end; those not being received
\* have ended.
RxOk ==
  /\ m_rxParams \in Seq(Own) /\ Receiving = {m_rxParams[i] : i \in 1 .. Len(m_rxParams)}
  /\ \A i, j \in 1 .. Len(m_rxParams) :
       /\ m_rxParams[i] = m_rxParams[j] => i = j
       /\ i < j => m_rxParams[i].end <= m_rxParams[j].end
  /\ \A b \in Receiving : now <= b.end
  /\ \A b \in Own \ Receiving : b.end <= now

LEMMA RxStart ==
  ASSUME NEW H, Heard(H), bursts \subseteq H, RxOk,
         NEW burst, BurstOk(burst), burst \notin H, StartRx(burst),
         \A b \in Receiving : b.end <= burst.end
  PROVE  /\ RxOk' /\ bursts' = bursts \cup {burst} /\ Receiving' \subseteq Receiving \cup {burst}
         /\ Own' = Own \cup (IF burst.sender \in OwnBeam THEN {burst} ELSE {})
         /\ Receiving' = Receiving \cup (IF burst.sender \in OwnBeam THEN {burst} ELSE {})
<1>1. bursts' = bursts \cup {burst} /\ now' = now /\ burst.start = now
  BY DEF StartRx
<1>2. Own' = Own \cup (IF burst.sender \in OwnBeam THEN {burst} ELSE {})
  BY <1>1 DEF Own
<1>3. now \in Nat /\ now <= burst.end
  BY <1>1 DEF Heard, BurstOk
<1>4. Len(m_rxParams) \in Nat /\ \A i \in 1 .. Len(m_rxParams) : m_rxParams[i] \in Own
  BY DEF RxOk
<1>5. CASE burst.sender \in OwnBeam
  <2> DEFINE s == m_rxParams
             r == Append(s, burst)
             n == Len(m_rxParams)
  <2>1. m_rxParams' = r /\ Receiving' = Receiving \cup {burst}
    BY <1>5 DEF StartRx, NotifyRxStart, Receiving
  <2>2. Own' = Own \cup {burst}
    BY <1>2, <1>5
  <2>3. /\ r \in Seq(Own \cup {burst}) /\ Len(r) = n + 1 /\ n \in Nat
        /\ \A i \in 1 .. n : r[i] = s[i]
        /\ r[n + 1] = burst
    <3>1. s \in Seq(Own \cup {burst})
      BY DEF RxOk
    <3> HIDE DEF s
    <3>2. r \in Seq(Own \cup {burst})
      BY <3>1
    <3>3. Len(r) = Len(s) + 1 /\ \A i \in 1 .. Len(s) : r[i] = s[i]
      BY <3>1
    <3>4. r[Len(s) + 1] = burst
      BY <3>1
    <3> QED BY <1>4, <3>2, <3>3, <3>4 DEF s
  <2> HIDE DEF r
  <2>4. \A i \in 1 .. n + 1 : i = n + 1 \/ i \in 1 .. n
    BY <1>4
  <2>5. \A i \in 1 .. n : s[i] \in Receiving /\ s[i] # burst
    <3>1. Receiving \subseteq H
      BY DEF Heard
    <3>2. \A i \in 1 .. n : s[i] \in Receiving
      BY DEF RxOk
    <3> QED BY <3>1, <3>2
  <2>6. {r[i] : i \in 1 .. n + 1} = {s[i] : i \in 1 .. n} \cup {burst}
    <3>1. \A i \in 1 .. n : i \in 1 .. n + 1
      BY <1>4
    <3>2. n + 1 \in 1 .. n + 1
      BY <1>4
    <3>3. ASSUME NEW x \in {r[i] : i \in 1 .. n + 1} PROVE x \in {s[i] : i \in 1 .. n} \cup {burst}
      BY <2>3, <2>4
    <3>4. ASSUME NEW x \in {s[i] : i \in 1 .. n} \cup {burst} PROVE x \in {r[i] : i \in 1 .. n + 1}
      BY <2>3, <3>1, <3>2
    <3> QED BY <3>3, <3>4
  <2>7. ASSUME NEW i \in 1 .. n + 1, NEW j \in 1 .. n + 1
        PROVE  (r[i] = r[j] => i = j) /\ (i < j => r[i].end <= r[j].end)
    <3>1. CASE i \in 1 .. n /\ j \in 1 .. n
      BY <2>3, <3>1 DEF RxOk
    <3>2. CASE i \in 1 .. n /\ j = n + 1
      BY <2>3, <2>5, <3>2
    <3>3. CASE i = n + 1 /\ j \in 1 .. n
      <4>1. ~(i < j)
        BY <1>4, <3>3
      <4> QED BY <2>3, <2>5, <3>3, <4>1
    <3>4. CASE i = n + 1 /\ j = n + 1
      BY <1>4, <3>4
    <3> QED BY <2>4, <3>1, <3>2, <3>3, <3>4
  <2>8. Receiving' = {r[i] : i \in 1 .. n + 1}
    <3>1. Receiving = {s[i] : i \in 1 .. n}
      BY DEF RxOk
    <3> QED BY <2>1, <2>6, <3>1
  <2>9. \A b \in Receiving' : now' <= b.end
    BY <1>1, <1>3, <2>1 DEF RxOk
  <2>10. \A b \in Own' \ Receiving' : b.end <= now'
    BY <1>1, <2>1, <2>2 DEF RxOk
  <2>11. RxOk'
    <3>1. Len(m_rxParams') = n + 1 /\ m_rxParams' \in Seq(Own')
      BY <2>1, <2>2, <2>3
    <3>2. \A i, j \in 1 .. Len(m_rxParams') :
            /\ m_rxParams'[i] = m_rxParams'[j] => i = j
            /\ i < j => m_rxParams'[i].end <= m_rxParams'[j].end
      BY <2>1, <2>7, <3>1
    <3>3. Receiving' = {m_rxParams'[i] : i \in 1 .. Len(m_rxParams')}
      BY <2>1, <2>8, <3>1
    <3> QED BY <2>9, <2>10, <3>1, <3>2, <3>3 DEF RxOk
  <2> QED BY <1>1, <1>2, <1>5, <2>1, <2>11
<1>6. CASE burst.sender \notin OwnBeam
  <2>1. m_rxParams' = m_rxParams /\ m_packetCollisions' = m_packetCollisions
    BY <1>6 DEF StartRx
  <2>2. Own' = Own /\ Receiving' = Receiving
    BY <1>2, <1>6, <2>1 DEF Receiving
  <2>3. RxOk'
    BY <1>1, <2>1, <2>2 DEF RxOk
  <2> QED BY <1>1, <1>6, <2>2, <2>3
<1> QED BY <1>5, <1>6

LEMMA RxEnd ==
  ASSUME RxOk, NEW burst, EndRxData(burst), now \in Nat
  PROVE  /\ RxOk' /\ Own' = Own /\ burst \in Own /\ burst \in Receiving /\ burst.end = now
         /\ Receiving' = Receiving \ {burst}
<1> DEFINE s == m_rxParams
           r == Tail(s)
           n == Len(s)
<1>1. s # <<>> /\ burst = Head(s) /\ burst.end = now /\ m_rxParams' = r /\ now' = now /\ bursts' = bursts
      /\ Receiving' = Receiving \ {burst}
  BY DEF EndRxData, NotifyRxEnd, Receiving
<1>2. s \in Seq(Own) /\ Own' = Own
  BY <1>1 DEF RxOk, Own
<1>3. n \in Nat /\ n >= 1 /\ burst = s[1] /\ \A i \in 1 .. n : s[i] \in Own
  <2> HIDE DEF s
  <2> QED BY <1>1, <1>2
<1>4. r \in Seq(Own) /\ Len(r) = n - 1 /\ \A i \in 1 .. n - 1 : r[i] = s[i + 1] /\ i + 1 \in 1 .. n
  <2> HIDE DEF s
  <2> QED BY <1>1, <1>2
<1>5. /\ \A i, j \in 1 .. n : (s[i] = s[j] => i = j) /\ (i < j => s[i].end <= s[j].end)
      /\ Receiving = {s[i] : i \in 1 .. n}
      /\ \A b \in Receiving : now <= b.end
      /\ \A b \in Own \ Receiving : b.end <= now
  BY DEF RxOk
<1> HIDE DEF s, r, n
<1>6. burst \in Own /\ burst \in Receiving
  <2>1. 1 \in 1 .. n
    BY <1>3
  <2> QED BY <1>3, <1>5, <2>1
<1>7. Receiving \ {burst} = {r[i] : i \in 1 .. n - 1}
  <2>1. ASSUME NEW i \in 1 .. n, s[i] # burst PROVE s[i] \in {r[k] : k \in 1 .. n - 1}
    <3>1. i # 1
      BY <1>3, <2>1
    <3>2. i - 1 \in 1 .. n - 1 /\ (i - 1) + 1 = i
      BY <1>3, <3>1
    <3>3. r[i - 1] = s[i]
      BY <1>4, <3>2
    <3> QED BY <3>2, <3>3
  <2>2. ASSUME NEW i \in 1 .. n - 1 PROVE r[i] \in Receiving \ {burst}
    <3>1. i + 1 \in 1 .. n /\ 1 \in 1 .. n /\ i + 1 # 1
      BY <1>3, <1>4
    <3> QED BY <1>3, <1>4, <1>5, <3>1
  <2> QED BY <1>5, <2>1, <2>2
<1>8. ASSUME NEW i \in 1 .. n - 1, NEW j \in 1 .. n - 1
      PROVE  (r[i] = r[j] => i = j) /\ (i < j => r[i].end <= r[j].end)
  <2>1. i + 1 \in 1 .. n /\ j + 1 \in 1 .. n /\ r[i] = s[i + 1] /\ r[j] = s[j + 1]
    BY <1>4
  <2>2. i \in Nat /\ j \in Nat
    OBVIOUS
  <2>3. (i + 1 = j + 1 => i = j) /\ (i < j => i + 1 < j + 1)
    BY <2>2
  <2> QED BY <1>5, <2>1, <2>3
<1>9. \A b \in Own \ (Receiving \ {burst}) : b.end <= now
  BY <1>1, <1>5
<1>10. RxOk'
  <2>1. m_rxParams' \in Seq(Own') /\ Len(m_rxParams') = n - 1 /\ m_rxParams' = r
    BY <1>1, <1>2, <1>4
  <2>2. Receiving' = {m_rxParams'[i] : i \in 1 .. Len(m_rxParams')}
    BY <1>1, <1>7, <2>1
  <2>3. \A b \in Receiving' : now' <= b.end
    BY <1>1, <1>5
  <2>4. \A b \in Own' \ Receiving' : b.end <= now'
    BY <1>1, <1>2, <1>9
  <2> QED BY <1>8, <2>1, <2>2, <2>3, <2>4 DEF RxOk
<1> QED BY <1>1, <1>2, <1>6, <1>10

LEMMA RxTime ==
  ASSUME RxOk, now \in Nat, \A b \in bursts : BurstOk(b), ~ReceptionIsDue, now' = now + 1,
         UNCHANGED <<interferenceVars, m_rxParams, bursts>>
  PROVE  RxOk'
<1>1. Own' = Own /\ Receiving' = Receiving /\ m_rxParams' = m_rxParams
  BY DEF interferenceVars, Own, Receiving
<1>2. ASSUME NEW b \in Receiving PROVE now + 1 <= b.end
  <2>1. PICK i \in 1 .. Len(m_rxParams) : b = m_rxParams[i]
    BY DEF RxOk
  <2>2. Len(m_rxParams) \in Nat /\ m_rxParams # <<>> /\ 1 \in 1 .. Len(m_rxParams)
        /\ Head(m_rxParams) = m_rxParams[1] /\ m_rxParams[1] \in Own /\ b \in Own
    BY <2>1 DEF RxOk
  <2>3. m_rxParams[1].end # now
    BY <2>2 DEF ReceptionIsDue
  <2>4. m_rxParams[1] \in Receiving
    BY <2>2 DEF RxOk
  <2>5. now <= m_rxParams[1].end /\ m_rxParams[1].end \in Nat /\ b.end \in Nat
    BY <2>2, <2>4 DEF RxOk, Own, BurstOk
  <2>6. m_rxParams[1].end <= b.end
    <3>1. i = 1 \/ 1 < i
      BY <2>2
    <3> QED BY <2>1, <2>2, <2>5, <3>1 DEF RxOk
  <2> QED BY <2>3, <2>5, <2>6
<1>3. \A b \in Own \ Receiving : b.end <= now + 1
  BY DEF RxOk, Own, BurstOk
<1> QED BY <1>1, <1>2, <1>3 DEF RxOk

-----------------------------------------------------------------------------
(* A frame, as far as the reception of its bursts goes. *)

Processing == {"sic", "marsala", "cleanup"}

FrameTimes ==
  /\ frame \in Nat /\ now \in Nat /\ phase \in {"start", "receive"} \cup Processing
  /\ phase = "start" => now = FrameStart /\ Receiving = {}
  /\ phase = "receive" => /\ FrameStart <= now /\ now <= FrameStart + FrameDuration
                          /\ \A b \in plan : now <= b.start
  /\ phase \in Processing => now = FrameStart + FrameDuration /\ plan = {} /\ Receiving = {}
  /\ phase # "start" => IsTransmission(plan \cup bursts) /\ plan \cap bursts = {}

\* What was heard before the frame is over.
FrameHeard(H) ==
  /\ Heard(H) /\ bursts \subseteq H
  /\ \A b \in H : (b \in bursts /\ phase # "start") \/ b.end <= FrameStart

\* A reception has collided with one that is over by now.
Collisions ==
  \A e \in Receiving : /\ m_packetCollisions[e] \in BOOLEAN
                       /\ m_packetCollisions[e] <=> \E c \in Own \ Receiving : c.start = e.start

FrameReception == FrameTimes /\ (\E H : FrameHeard(H)) /\ RxOk /\ Collisions

LEMMA FrameMembers ==
  ASSUME FrameReception, phase # "start"
  PROVE  /\ frame \in Nat /\ now \in Nat /\ IsTransmission(plan \cup bursts) /\ IsFiniteSet(bursts)
         /\ \A b \in plan \cup bursts : FrameBurst(b) /\ BurstOk(b)
         /\ \A b \in bursts : b.start <= now /\ b \notin plan
         /\ Receiving \subseteq Own /\ Own \subseteq bursts
         /\ \A e \in Receiving : e.start <= now /\ now <= e.end
<1>1. frame \in Nat /\ now \in Nat /\ IsTransmission(plan \cup bursts) /\ plan \cap bursts = {}
  BY DEF FrameReception, FrameTimes
<1>2. \A b \in plan \cup bursts : FrameBurst(b) /\ BurstOk(b)
  BY <1>1, BurstTimes DEF IsTransmission
<1>3. PICK H : FrameHeard(H)
  BY DEF FrameReception
<1>4. IsFiniteSet(bursts) /\ \A b \in bursts : b.start <= now
  <2>1. IsFiniteSet(H) /\ bursts \subseteq H /\ \A b \in H : b.start <= now
    BY <1>3 DEF FrameHeard, Heard, IsList
  <2> QED BY <2>1, FS_Subset
<1>5. Receiving \subseteq Own /\ Own \subseteq bursts /\ \A e \in Receiving : now <= e.end
  BY DEF FrameReception, RxOk, Own
<1> QED BY <1>1, <1>2, <1>4, <1>5

\* What is received at one time is in one slot.
LEMMA OneSlot ==
  ASSUME FrameReception, phase # "start", NEW e \in Receiving, NEW c \in plan \cup bursts,
         c.start <= now, now <= c.end
  PROVE  c.slot = e.slot /\ c.start = e.start /\ c.end = e.end
<1>1. /\ frame \in Nat /\ now \in Nat /\ FrameBurst(c) /\ FrameBurst(e) /\ BurstOk(c) /\ BurstOk(e)
      /\ e.start <= now /\ now <= e.end
  BY FrameMembers
<1>2. /\ c.slot = e.slot <=> c.start = e.start
      /\ c.slot = e.slot => c.end = e.end
      /\ c.slot # e.slot => c.end < e.start \/ e.end < c.start
  BY <1>1, BurstTimes
<1> QED BY <1>1, <1>2 DEF BurstOk

LEMMA FrameBegins ==
  ASSUME FrameReception, NEW X, BeginFrame(X), IsTransmission(X)
  PROVE  FrameReception'
<1>1. /\ phase = "start" /\ phase' = "receive" /\ plan' = X /\ bursts' = {}
      /\ UNCHANGED <<now, m_rxParams, frame, m_randomAccessModel>> /\ UNCHANGED interferenceVars
  BY DEF BeginFrame
<1>2. frame \in Nat /\ now = FrameStart /\ Receiving = {} /\ Receiving' = {}
      /\ m_packetCollisions' = m_packetCollisions
  BY <1>1 DEF FrameReception, FrameTimes, Receiving, interferenceVars
<1>3. FrameTimes'
  <2>1. IsTransmission(X)' /\ FrameStart' = FrameStart /\ FrameDuration \in Nat /\ FrameStart \in Nat
    BY <1>1, <1>2, SlotTimes
       DEF IsTransmission, FrameBurst, Burst, Slotted, FrameStart, FrameDuration, SamePacket
  <2>2. \A b \in X : FrameStart <= b.start
    BY <1>2, BurstTimes DEF IsTransmission
  <2>3. X \cup {} = X /\ X \cap {} = {}
    OBVIOUS
  <2>4. IsTransmission(plan \cup bursts)' /\ (plan \cap bursts)' = {}
    BY <1>1, <2>1, <2>3 DEF IsTransmission, FrameBurst, Burst, Slotted, SamePacket
  <2>5. FrameDuration' = FrameDuration
    BY DEF FrameDuration
  <2>6. phase' \notin Processing /\ phase' # "start" /\ now' = FrameStart
    BY <1>1, <1>2 DEF Processing
  <2> HIDE DEF FrameDuration
  <2>7. FrameStart' <= now' /\ now' <= FrameStart' + FrameDuration'
    BY <2>1, <2>5, <2>6
  <2>8. frame' \in Nat /\ now' \in Nat
    BY <1>1, <1>2, <2>1
  <2> QED BY <1>1, <2>1, <2>2, <2>4, <2>6, <2>7, <2>8 DEF FrameTimes
<1>4. \E H : FrameHeard(H)'
  <2>1. PICK H : FrameHeard(H)
    BY DEF FrameReception
  <2>2. Heard(H)'
    BY <1>1, <2>1, HeardLater DEF FrameHeard
  <2>3. \A b \in H : b.end <= FrameStart
    BY <1>1, <2>1 DEF FrameHeard
  <2>4. FrameHeard(H)'
    BY <1>1, <2>2, <2>3 DEF FrameHeard, FrameStart, FrameDuration
  <2> QED BY <2>4
<1>5. RxOk'
  <2>1. Own' = {}
    BY <1>1 DEF Own
  <2>2. m_rxParams = <<>>
    <3>1. Receiving = {m_rxParams[i] : i \in 1 .. Len(m_rxParams)} /\ m_rxParams \in Seq(Own)
      BY DEF FrameReception, RxOk
    <3>2. ~(1 \in 1 .. Len(m_rxParams))
      BY <1>2, <3>1
    <3> QED BY <3>1, <3>2
  <2>3. m_rxParams' = <<>>
    BY <1>1, <2>2
  <2> QED BY <1>2, <2>1, <2>3 DEF RxOk
<1>6. Collisions'
  BY <1>2 DEF Collisions
<1> QED BY <1>3, <1>4, <1>5, <1>6 DEF FrameReception

LEMMA TransmissionSame ==
  ASSUME IsTransmission(plan \cup bursts), plan' \cup bursts' = plan \cup bursts,
         UNCHANGED <<frame, m_randomAccessModel>>
  PROVE  IsTransmission(plan \cup bursts)'
<1>1. PICK X : X = plan \cup bursts
  OBVIOUS
<1>2. /\ Slotted' = Slotted
      /\ \A u, v, w, x, y : Burst(u, v, w, x, y)' = Burst(u, v, w, x, y)
  BY DEF Slotted, Burst, FrameDuration
<1>3. ASSUME NEW b PROVE FrameBurst(b)' = FrameBurst(b)
  <2> HIDE DEF Burst
  <2>1. Burst(b.sender, b.type, b.id, b.slot, b.slots)' = Burst(b.sender, b.type, b.id, b.slot, b.slots)
    BY <1>2
  <2> QED BY <1>2, <2>1 DEF FrameBurst
<1>4. /\ IsFiniteSet(X) /\ \A b \in X : FrameBurst(b)'
      /\ \A b \in X : \A s \in b.slots : Burst(b.sender, b.type, b.id, s, b.slots)' \in X
      /\ \A b, c \in X : SamePacket(b, c) => b.slots = c.slots
      /\ \A b, c \in X : b.sender = c.sender /\ b.slots \cap c.slots # {} => b.id = c.id
      /\ Slotted' => \A b \in X : b.slots = {b.slot}
  <2> HIDE DEF Burst
  <2> QED BY <1>1, <1>2, <1>3, ZenonT(60) DEF IsTransmission
<1> HIDE DEF Burst
<1> QED BY <1>1, <1>4, ZenonT(60) DEF IsTransmission, SamePacket

LEMMA FrameBurstArrives ==
  ASSUME FrameReception, NEW burst \in plan, phase = "receive", StartRx(burst), plan' = plan \ {burst},
         UNCHANGED <<frame, m_randomAccessModel, phase>>
  PROVE  /\ FrameReception' /\ bursts' = bursts \cup {burst} /\ burst \notin bursts
         /\ Own' = Own \cup (IF burst.sender \in OwnBeam THEN {burst} ELSE {})
         /\ Receiving' = Receiving \cup (IF burst.sender \in OwnBeam THEN {burst} ELSE {})
         /\ \A b \in Own \ Receiving : b.end <= burst.start
<1>1. phase # "start" /\ phase \notin Processing
  BY DEF Processing
<1>2. /\ frame \in Nat /\ now \in Nat /\ IsTransmission(plan \cup bursts)
      /\ \A b \in plan \cup bursts : FrameBurst(b) /\ BurstOk(b)
      /\ \A b \in bursts : b.start <= now /\ b \notin plan
      /\ Receiving \subseteq Own /\ Own \subseteq bursts
      /\ \A e \in Receiving : e.start <= now /\ now <= e.end
  BY <1>1, FrameMembers
<1>3. PICK H : FrameHeard(H)
  BY DEF FrameReception
<1>4. burst.start = now /\ BurstOk(burst) /\ FrameBurst(burst) /\ burst \notin bursts
      /\ bursts' = bursts \cup {burst} /\ now' = now
  BY <1>2 DEF StartRx
<1>5. burst \notin H
  <2>1. FrameStart <= burst.start
    BY <1>2, <1>4, BurstTimes
  <2>2. FrameStart \in Nat
    BY <1>2, SlotTimes
  <2> QED BY <1>3, <1>4, <2>1, <2>2 DEF FrameHeard, BurstOk
<1>6. \A b \in Receiving : b.end <= burst.end
  <2>1. ASSUME NEW b \in Receiving PROVE b.end <= burst.end
    <3>1. burst.start <= now /\ now <= burst.end
      BY <1>2, <1>4 DEF BurstOk
    <3>2. b.end = burst.end
      BY <1>1, <3>1, OneSlot
    <3> QED BY <1>4, <3>2 DEF BurstOk
  <2> QED BY <2>1
<1>7. /\ RxOk'
      /\ Own' = Own \cup (IF burst.sender \in OwnBeam THEN {burst} ELSE {})
      /\ Receiving' = Receiving \cup (IF burst.sender \in OwnBeam THEN {burst} ELSE {})
  <2>1. Heard(H) /\ bursts \subseteq H /\ RxOk
    BY <1>3 DEF FrameHeard, FrameReception
  <2> QED BY <1>4, <1>5, <1>6, <2>1, RxStart
<1>8. FrameHeard(H \cup {burst})'
  <2>1. Heard(H \cup {burst})'
    BY <1>3, <1>4, <1>5, HeardStart DEF FrameHeard
  <2>2. bursts' \subseteq H \cup {burst}
    BY <1>3, <1>4 DEF FrameHeard
  <2>3. \A b \in H \cup {burst} : (b \in bursts' /\ phase' # "start") \/ b.end <= FrameStart'
    BY <1>1, <1>3, <1>4 DEF FrameHeard, FrameStart, FrameDuration
  <2> QED BY <2>1, <2>2, <2>3 DEF FrameHeard
<1>9. FrameTimes'
  <2>1. plan' \cup bursts' = plan \cup bursts /\ plan' \cap bursts' = {}
    BY <1>2, <1>4
  <2>2. IsTransmission(plan \cup bursts)'
    <3>1. IsTransmission(plan \cup bursts)
      BY <1>2
    <3> QED BY <2>1, <3>1, TransmissionSame
  <2>3. FrameStart' = FrameStart /\ FrameDuration' = FrameDuration
    BY DEF FrameStart, FrameDuration
  <2>4. FrameStart <= now /\ now <= FrameStart + FrameDuration /\ \A b \in plan : now <= b.start
    BY DEF FrameReception, FrameTimes
  <2> HIDE DEF FrameStart, FrameDuration
  <2> QED BY <1>1, <1>2, <1>4, <2>1, <2>2, <2>3, <2>4 DEF FrameTimes
<1>10. \A b \in Own \ Receiving : b.end <= burst.start
  BY <1>4 DEF FrameReception, RxOk
<1>11. Collisions'
  <2>1. ASSUME NEW e \in Receiving'
        PROVE  /\ m_packetCollisions'[e] \in BOOLEAN
               /\ m_packetCollisions'[e] <=> \E c \in Own' \ Receiving' : c.start = e.start
    <3>1. Own' \ Receiving' = Own \ Receiving
      <4>1. burst \notin Own
        BY <1>2, <1>4
      <4>2. burst \notin Receiving
        BY <1>2, <4>1
      <4> QED BY <1>7, <4>1, <4>2
    <3>2. CASE e \in Receiving
      <4>1. m_packetCollisions'[e] = m_packetCollisions[e]
        <5>1. e # burst
          BY <1>2, <1>4, <3>2
        <5>2. CASE burst.sender \in OwnBeam
          <6>1. m_packetCollisions[e] \in BOOLEAN
            BY <3>2 DEF FrameReception, Collisions
          <6>2. m_packetCollisions' = [x \in Receiving \cup {burst} |-> x # burst /\ m_packetCollisions[x]]
            BY <5>2 DEF StartRx, NotifyRxStart
          <6> QED BY <3>2, <5>1, <6>1, <6>2
        <5>3. CASE burst.sender \notin OwnBeam
          BY <5>3 DEF StartRx
        <5> QED BY <5>2, <5>3
      <4> QED BY <3>1, <3>2, <4>1 DEF FrameReception, Collisions
    <3>3. CASE e = burst /\ burst.sender \in OwnBeam
      <4>1. m_packetCollisions'[e] = FALSE
        BY <3>3 DEF StartRx, NotifyRxStart
      <4>2. \A c \in Own \ Receiving : c.start # e.start
        BY <1>2, <1>4, <1>10, <3>3 DEF BurstOk
      <4> QED BY <3>1, <4>1, <4>2
    <3> QED BY <1>7, <3>2, <3>3
  <2> QED BY <2>1 DEF Collisions
<1> QED BY <1>4, <1>7, <1>8, <1>9, <1>10, <1>11 DEF FrameReception

\* A reception ends: what interfered with it is known, and whether it collided.
LEMMA FrameBurstEnds ==
  ASSUME FrameReception, phase = "receive", NEW burst, EndRxData(burst),
         UNCHANGED <<plan, frame, m_randomAccessModel, phase>>
  PROVE  /\ FrameReception' /\ burst \in Receiving /\ burst \in Own /\ Own' = Own
         /\ Receiving' = Receiving \ {burst} /\ bursts' = bursts
         /\ PerPacket(burst) = EnergyOver(burst, {})
         /\ HasCollision(burst) \in BOOLEAN
         /\ HasCollision(burst) <=> OthersInSlot(burst, {}) # {}
<1>1. phase # "start" /\ phase \notin Processing
  BY DEF Processing
<1>2. /\ frame \in Nat /\ now \in Nat /\ IsTransmission(plan \cup bursts)
      /\ \A b \in plan \cup bursts : FrameBurst(b) /\ BurstOk(b)
      /\ \A b \in bursts : b.start <= now /\ b \notin plan
      /\ Receiving \subseteq Own /\ Own \subseteq bursts
      /\ \A e \in Receiving : e.start <= now /\ now <= e.end
  BY <1>1, FrameMembers
<1>3. PICK H : FrameHeard(H)
  BY DEF FrameReception
<1>4. /\ RxOk' /\ Own' = Own /\ burst \in Own /\ burst \in Receiving /\ burst.end = now
      /\ Receiving' = Receiving \ {burst}
  BY <1>2, RxEnd DEF FrameReception
<1>5. bursts' = bursts /\ now' = now
  BY DEF EndRxData
<1>6. FrameHeard(H)'
  <2>1. Heard(H)'
    BY <1>3, HeardEnd DEF FrameHeard
  <2> QED BY <1>3, <1>5, <2>1 DEF FrameHeard, FrameStart, FrameDuration
<1>7. FrameTimes'
  <2>1. IsTransmission(plan \cup bursts)'
    BY <1>2, <1>5, TransmissionSame
  <2>2. FrameStart' = FrameStart /\ FrameDuration' = FrameDuration
    BY DEF FrameStart, FrameDuration
  <2>3. FrameTimes
    BY DEF FrameReception
  <2> HIDE DEF FrameStart, FrameDuration
  <2> QED BY <1>1, <1>4, <1>5, <2>1, <2>2, <2>3 DEF FrameTimes
<1>8. ASSUME NEW e \in Receiving
      PROVE  HasCollision(e) \in BOOLEAN /\ (HasCollision(e) <=> \E c \in Own : c # e /\ c.start = e.start)
  <2>1. m_packetCollisions[e] \in BOOLEAN /\ (m_packetCollisions[e] <=> \E c \in Own \ Receiving : c.start = e.start)
    BY DEF FrameReception, Collisions
  <2>2. IsFiniteSet(Receiving)
    <3>1. IsFiniteSet(bursts)
      BY <1>1, FrameMembers
    <3> QED BY <1>2, <3>1, FS_Subset
  <2>3. Cardinality(Receiving) > 1 <=> \E c \in Receiving : c # e
    <3>1. Cardinality(Receiving) \in Nat
      BY <2>2, FS_CardinalityType
    <3>2. Cardinality(Receiving \ {e}) = Cardinality(Receiving) - 1 /\ IsFiniteSet(Receiving \ {e})
      BY <2>2, FS_RemoveElement
    <3>3. Cardinality(Receiving \ {e}) = 0 <=> Receiving \ {e} = {}
      BY <3>2, FS_EmptySet
    <3>4. Receiving \ {e} = {} <=> ~\E c \in Receiving : c # e
      OBVIOUS
    <3>5. Cardinality(Receiving \ {e}) = 0 <=> ~(Cardinality(Receiving) > 1)
      <4>1. Cardinality(Receiving \ {e}) \in Nat
        BY <3>2, FS_CardinalityType
      <4> QED BY <3>1, <3>2, <4>1
    <3> QED BY <3>3, <3>4, <3>5
  <2>4. \A c \in Receiving : c.start = e.start
    BY <1>1, <1>2, OneSlot
  <2> QED BY <1>2, <2>1, <2>3, <2>4 DEF HasCollision
<1>9. HasCollision(burst) \in BOOLEAN /\ (HasCollision(burst) <=> OthersInSlot(burst, {}) # {})
  BY <1>4, <1>8 DEF OthersInSlot
<1>10. Collisions'
  <2>1. ASSUME NEW e \in Receiving'
        PROVE  /\ m_packetCollisions'[e] \in BOOLEAN
               /\ m_packetCollisions'[e] <=> \E c \in Own' \ Receiving' : c.start = e.start
    <3>1. e \in Receiving /\ e # burst
      BY <1>4
    <3>2. m_packetCollisions'[e] = HasCollision(e)
      BY <3>1 DEF EndRxData, NotifyRxEnd
    <3>3. burst \in Own' \ Receiving' /\ burst.start = e.start
      <4>1. burst.start = e.start
        BY <1>1, <1>2, <1>4, <3>1, OneSlot
      <4> QED BY <1>4, <4>1
    <3>4. HasCollision(e) = TRUE
      BY <1>4, <1>8, <3>1, <3>3
    <3> QED BY <3>2, <3>3, <3>4
  <2> QED BY <2>1 DEF Collisions
<1>11. PerPacket(burst) = EnergyOver(burst, {})
  <2>1. Heard(H) /\ bursts \subseteq H /\ burst \in bursts
    BY <1>2, <1>3, <1>4 DEF FrameHeard
  <2>2. \A b \in H \ bursts : b.end <= burst.start
    <3>1. FrameStart <= burst.start /\ BurstOk(burst)
      BY <1>2, <2>1, BurstTimes
    <3>2. FrameStart \in Nat
      BY <1>2, SlotTimes
    <3>3. \A b \in H : BurstOk(b)
      BY <2>1 DEF Heard, IsList
    <3>4. \A b \in H \ bursts : b.end <= FrameStart
      BY <1>3 DEF FrameHeard
    <3> QED BY <3>1, <3>2, <3>3, <3>4 DEF BurstOk
  <2> QED BY <1>4, <2>1, <2>2, ReceptionIsExact
<1> QED BY <1>4, <1>5, <1>6, <1>7, <1>9, <1>10, <1>11 DEF FrameReception

LEMMA FrameTimePasses ==
  ASSUME FrameReception, TimePasses
  PROVE  FrameReception'
<1>1. /\ phase = "receive" /\ ~FrameEndIsDue /\ ~ReceptionIsDue /\ \A b \in plan : b.start > now
      /\ now' = now + 1 /\ UNCHANGED interferenceVars
      /\ UNCHANGED <<m_rxParams, bursts, m_randomAccessModel, frame, plan, phase>>
  BY DEF TimePasses, frameVars
<1>2. phase # "start" /\ phase \notin Processing
  BY <1>1 DEF Processing
<1>3. /\ frame \in Nat /\ now \in Nat /\ IsTransmission(plan \cup bursts)
      /\ \A b \in plan \cup bursts : FrameBurst(b) /\ BurstOk(b)
  BY <1>2, FrameMembers
<1>4. PICK H : FrameHeard(H)
  BY DEF FrameReception
<1>5. RxOk'
  BY <1>1, <1>3, RxTime DEF FrameReception
<1>6. FrameHeard(H)'
  <2>1. Heard(H)'
    BY <1>1, <1>4, HeardLater DEF FrameHeard
  <2> QED BY <1>1, <1>4, <2>1 DEF FrameHeard, FrameStart, FrameDuration
<1>7. Receiving' = Receiving /\ m_packetCollisions' = m_packetCollisions /\ Own' = Own
  BY <1>1 DEF Receiving, interferenceVars, Own
<1>8. Collisions'
  BY <1>7 DEF FrameReception, Collisions
<1>9. FrameTimes'
  <2>1. IsTransmission(plan \cup bursts)'
    BY <1>1, <1>3, TransmissionSame
  <2>2. FrameStart' = FrameStart /\ FrameDuration' = FrameDuration
    BY <1>1 DEF FrameStart, FrameDuration
  <2>3. FrameTimes
    BY DEF FrameReception
  <2>4. now # FrameStart + FrameDuration /\ FrameDuration \in Nat /\ FrameStart \in Nat
    BY <1>1, <1>3, SlotTimes DEF FrameEndIsDue
  <2>5. FrameStart <= now /\ now <= FrameStart + FrameDuration
    BY <1>1, <2>3 DEF FrameTimes
  <2>6. \A b \in plan : now + 1 <= b.start
    BY <1>1, <1>3 DEF BurstOk
  <2> HIDE DEF FrameStart, FrameDuration
  <2>7. FrameStart <= now + 1 /\ now + 1 <= FrameStart + FrameDuration /\ now + 1 \in Nat
    BY <1>3, <2>4, <2>5
  <2> QED BY <1>1, <1>2, <1>3, <1>7, <2>1, <2>2, <2>3, <2>6, <2>7 DEF FrameTimes
<1> QED BY <1>5, <1>6, <1>8, <1>9 DEF FrameReception

\* The frame ends, when all of it was received.
LEMMA FrameReceived ==
  ASSUME FrameReception, DoFrameEnd
  PROVE  FrameReception' /\ plan = {} /\ Receiving = {}
<1>1. /\ phase = "receive" /\ now = (frame + 1) * FrameDuration /\ phase' = "sic"
      /\ UNCHANGED interferenceVars
      /\ UNCHANGED <<now, m_rxParams, bursts, m_randomAccessModel, frame, plan>>
  BY DEF DoFrameEnd, FrameEndIsDue, carrierVars
<1>2. phase # "start" /\ phase' # "start" /\ phase' \in Processing /\ phase' # "receive"
  BY <1>1 DEF Processing
<1>3. /\ frame \in Nat /\ now \in Nat /\ IsTransmission(plan \cup bursts)
      /\ \A b \in plan \cup bursts : FrameBurst(b) /\ BurstOk(b)
      /\ Receiving \subseteq Own /\ Own \subseteq bursts
      /\ \A e \in Receiving : now <= e.end
  BY <1>2, FrameMembers
<1>4. now = FrameStart + FrameDuration /\ FrameStart \in Nat /\ FrameDuration \in Nat
  BY <1>1, <1>3, SlotTimes
<1>5. \A b \in plan \cup bursts : b.start < b.end /\ b.end < now /\ b.end \in Nat /\ b.start \in Nat
  BY <1>3, <1>4, BurstTimes DEF BurstOk
<1>6. plan = {}
  <2>1. \A b \in plan : now <= b.start
    BY <1>1 DEF FrameReception, FrameTimes
  <2> QED BY <1>3, <1>5, <2>1
<1>7. Receiving = {}
  BY <1>3, <1>5
<1>8. Receiving' = Receiving /\ Own' = Own
  BY <1>1 DEF Receiving, interferenceVars, Own
<1>9. FrameTimes'
  <2>1. IsTransmission(plan \cup bursts)'
    BY <1>1, <1>3, TransmissionSame
  <2>2. FrameStart' = FrameStart /\ FrameDuration' = FrameDuration
    BY <1>1 DEF FrameStart, FrameDuration
  <2> HIDE DEF FrameStart, FrameDuration
  <2> QED BY <1>1, <1>2, <1>3, <1>4, <1>6, <1>7, <1>8, <2>1, <2>2 DEF FrameTimes
<1>10. PICK H : FrameHeard(H)
  BY DEF FrameReception
<1>11. FrameHeard(H)'
  <2>1. Heard(H)'
    BY <1>1, <1>10, HeardLater DEF FrameHeard
  <2> QED BY <1>1, <1>2, <1>10, <2>1 DEF FrameHeard, FrameStart, FrameDuration
<1>12. RxOk'
  BY <1>1, <1>8 DEF FrameReception, RxOk
<1>13. Collisions'
  BY <1>7, <1>8 DEF Collisions
<1> QED BY <1>6, <1>7, <1>9, <1>11, <1>12, <1>13 DEF FrameReception

\* Nothing is received while the frame is processed.
LEMMA FrameProcessed ==
  ASSUME FrameReception, phase \in Processing, phase' \in Processing,
         UNCHANGED <<carrierVars, m_randomAccessModel, frame, plan>>
  PROVE  FrameReception'
<1>1. /\ UNCHANGED interferenceVars
      /\ UNCHANGED <<now, m_rxParams, bursts, m_randomAccessModel, frame, plan>>
  BY DEF carrierVars
<1>2. phase # "start" /\ phase' # "start" /\ phase # "receive" /\ phase' # "receive"
  BY DEF Processing
<1>3. Receiving' = Receiving /\ Own' = Own /\ m_packetCollisions' = m_packetCollisions
  BY <1>1 DEF Receiving, interferenceVars, Own
<1>4. FrameTimes'
  <2>1. IsTransmission(plan \cup bursts)'
    <3>1. IsTransmission(plan \cup bursts)
      BY <1>2 DEF FrameReception, FrameTimes
    <3> QED BY <1>1, <3>1, TransmissionSame
  <2>2. FrameStart' = FrameStart /\ FrameDuration' = FrameDuration
    BY <1>1 DEF FrameStart, FrameDuration
  <2>3. FrameTimes
    BY DEF FrameReception
  <2> HIDE DEF FrameStart, FrameDuration
  <2> QED BY <1>1, <1>2, <1>3, <2>1, <2>2, <2>3 DEF FrameTimes
<1>5. PICK H : FrameHeard(H)
  BY DEF FrameReception
<1>6. FrameHeard(H)'
  <2>1. Heard(H)'
    BY <1>1, <1>5, HeardLater DEF FrameHeard
  <2> QED BY <1>1, <1>2, <1>5, <2>1 DEF FrameHeard, FrameStart, FrameDuration
<1>7. RxOk'
  BY <1>1, <1>3 DEF FrameReception, RxOk
<1>8. Collisions'
  BY <1>3 DEF FrameReception, Collisions
<1> QED BY <1>4, <1>6, <1>7, <1>8 DEF FrameReception

\* The next frame begins.
LEMMA FrameEnds ==
  ASSUME FrameReception, HandUpResults
  PROVE  FrameReception'
<1>1. /\ phase = "cleanup" /\ phase' = "start" /\ frame' = frame + 1 /\ UNCHANGED interferenceVars
      /\ UNCHANGED <<now, m_rxParams, bursts, m_randomAccessModel, plan>>
  BY DEF HandUpResults
<1>2. phase # "start" /\ phase \in Processing /\ phase' # "receive" /\ phase' \notin Processing
  BY <1>1 DEF Processing
<1>3. frame \in Nat /\ now \in Nat /\ now = FrameStart + FrameDuration /\ Receiving = {}
      /\ \A b \in plan \cup bursts : FrameBurst(b) /\ BurstOk(b)
  BY <1>2, FrameMembers DEF FrameReception, FrameTimes
<1>4. FrameStart' = FrameStart + FrameDuration /\ FrameStart \in Nat /\ FrameDuration \in Nat
  <2>1. (frame + 1) * FrameDuration = FrameStart + FrameDuration /\ FrameStart \in Nat /\ FrameDuration \in Nat
    BY <1>3, SlotTimes
  <2>2. FrameStart' = (frame + 1) * FrameDuration
    BY <1>1 DEF FrameStart, FrameDuration
  <2> QED BY <2>1, <2>2
<1>5. Receiving' = Receiving /\ Own' = Own /\ m_packetCollisions' = m_packetCollisions
  BY <1>1 DEF Receiving, interferenceVars, Own
<1>6. FrameTimes'
  <2>1. frame' \in Nat /\ now' \in Nat /\ now' = FrameStart'
    BY <1>1, <1>3, <1>4
  <2> QED BY <1>1, <1>2, <1>3, <1>5, <2>1 DEF FrameTimes
<1>7. PICK H : FrameHeard(H)
  BY DEF FrameReception
<1>8. FrameHeard(H)'
  <2>1. Heard(H)'
    BY <1>1, <1>7, HeardLater DEF FrameHeard
  <2>2. ASSUME NEW b \in H PROVE b.end <= FrameStart'
    <3>1. b.end \in Nat
      BY <1>7 DEF FrameHeard, Heard, IsList, BurstOk
    <3>2. CASE b \in bursts
      <4>1. b.end < FrameStart + FrameDuration
        BY <1>3, <3>2, BurstTimes
      <4> QED BY <1>4, <3>1, <4>1
    <3>3. CASE b.end <= FrameStart
      BY <1>4, <3>1, <3>3
    <3> QED BY <1>7, <3>2, <3>3 DEF FrameHeard
  <2> QED BY <1>1, <1>2, <1>7, <2>1, <2>2 DEF FrameHeard
<1>9. RxOk'
  BY <1>1, <1>5 DEF FrameReception, RxOk
<1>10. Collisions'
  BY <1>5 DEF FrameReception, Collisions
<1> QED BY <1>6, <1>8, <1>9, <1>10 DEF FrameReception

\* Ratios are whole numbers, the smaller the more interferes.
LEMMA RatioType ==
  ASSUME NEW s \in Nat, NEW i \in Nat, NEW n \in Nat \ {0}
  PROVE  Sinr(s, i, n) \in Nat
<1>1. Scale * s \in Nat
  <2>1. Scale \in Nat
    BY CarrierAssumption
  <2>2. \A x \in Nat, y \in Nat : x * y \in Nat
    OBVIOUS
  <2> QED BY <2>1, <2>2
<1>2. i + n \in Nat \ {0}
  OBVIOUS
<1>3. \A x \in Nat, y \in Nat \ {0} : x \div y \in Nat
  OBVIOUS
<1> QED BY <1>1, <1>2, <1>3 DEF Sinr

LEMMA EnergyType ==
  ASSUME NEW b, BurstOk(b)
  PROVE  /\ Duration(b) \in Nat \ {0} /\ Energy(b) \in Nat /\ Noise * Duration(b) \in Nat \ {0}
         /\ Energy(b) = RxPower[b.sender] * Duration(b)
<1>1. Duration(b) \in Nat \ {0}
  BY DEF BurstOk, Duration
<1>2. RxPower[b.sender] \in Nat /\ Noise \in Nat \ {0}
  BY CarrierAssumption DEF BurstOk
<1>3. \A x \in Nat, y \in Nat : x * y \in Nat
  OBVIOUS
<1>4. \A x \in Nat \ {0}, y \in Nat \ {0} : x * y \in Nat \ {0}
  OBVIOUS
<1> QED BY <1>1, <1>2, <1>3, <1>4 DEF Energy

LEMMA EnergyOverType ==
  ASSUME IsFiniteSet(bursts), \A b \in bursts : BurstOk(b), NEW e, BurstOk(e), NEW gone
  PROVE  EnergyOver(e, gone) \in Nat
<1> DEFINE T == bursts \ (gone \cup {e})
<1>1. IsFiniteSet(T) /\ T \in SUBSET T /\ \A b \in T : BurstOk(b)
  BY FS_Subset
<1>2. EnergyOver(e, gone) = EnergyAmong(e, T)
  BY EnergyOverIs
<1> HIDE DEF T
<1> QED BY <1>1, <1>2, EnergyOfPart

LEMMA SinrType ==
  ASSUME IsFiniteSet(bursts), \A b \in bursts : BurstOk(b), NEW e, BurstOk(e), NEW gone
  PROVE  SinrAlone(e, gone) \in Nat
BY EnergyType, EnergyOverType, RatioType DEF SinrAlone

-----------------------------------------------------------------------------
(* Slotted ALOHA. *)

\* What was received was handed up, once and rightly.
SlottedOk ==
  Slotted =>
    /\ m_crdsaPacketContainer = EmptyMap /\ combinedPackets = {}
    /\ handedUp \in Seq([burst : Own \ Receiving, phyError : BOOLEAN])
    /\ \A i \in 1 .. Len(handedUp) : SlottedAlohaJustified(handedUp[i])
    /\ \A i, j \in 1 .. Len(handedUp) : handedUp[i].burst = handedUp[j].burst => i = j
    /\ \A b \in Own \ Receiving : \E i \in 1 .. Len(handedUp) : handedUp[i].burst = b

LEMMA ErrorOf ==
  ASSUME NEW x \in Int
  PROVE  /\ LinkErrors(x) \subseteq BOOLEAN /\ LinkErrors(x) # {}
         /\ TRUE \in LinkErrors(x) <=> x < SinrAlways
         /\ FALSE \in LinkErrors(x) <=> x >= SinrNever
<1>1. SinrAlways \in Nat /\ SinrNever \in Nat /\ SinrNever <= SinrAlways
  BY CarrierAssumption
<1>2. CASE x >= SinrAlways
  <2>1. LinkErrors(x) = {FALSE}
    <3>1. ~(x < SinrNever)
      BY <1>1, <1>2
    <3> QED BY <1>2, <3>1, Zenon DEF LinkErrors
  <2> QED BY <1>1, <1>2, <2>1
<1>3. CASE x < SinrNever
  <2>1. LinkErrors(x) = {TRUE}
    BY <1>1, <1>3 DEF LinkErrors
  <2> QED BY <1>1, <1>3, <2>1
<1>4. CASE ~(x >= SinrAlways) /\ ~(x < SinrNever)
  <2>1. LinkErrors(x) = BOOLEAN
    BY <1>1, <1>4 DEF LinkErrors
  <2>2. LinkErrors(x) \subseteq BOOLEAN /\ TRUE \in LinkErrors(x) /\ FALSE \in LinkErrors(x)
    BY <2>1
  <2>3. x < SinrAlways /\ x >= SinrNever
    BY <1>1, <1>4
  <2> QED BY <2>2, <2>3
<1> QED BY <1>2, <1>3, <1>4

LEMMA SeqOfPart == ASSUME NEW S, NEW T, S \subseteq T, NEW s \in Seq(S) PROVE s \in Seq(T)
OBVIOUS

LEMMA SeqElement == ASSUME NEW S, NEW s \in Seq(S), NEW i \in 1 .. Len(s) PROVE s[i] \in S
OBVIOUS

LEMMA PacketsOf ==
  ASSUME NEW B, NEW s \in Seq([burst : B, phyError : BOOLEAN])
  PROVE  \A i \in 1 .. Len(s) : /\ s[i] \in [burst : B, phyError : BOOLEAN]
                                /\ s[i].burst \in B /\ s[i].phyError \in BOOLEAN
<1>1. \A i \in 1 .. Len(s) : s[i] \in [burst : B, phyError : BOOLEAN]
  BY SeqElement
<1> QED BY <1>1

\* A later burst does not change what one that is over suffered.
LEMMA EnergyLater ==
  ASSUME IsFiniteSet(bursts), \A b \in bursts : BurstOk(b), NEW n, BurstOk(n),
         bursts' = bursts \cup {n}, NEW b \in bursts, b.end <= n.start
  PROVE  EnergyOver(b, {})' = EnergyOver(b, {})
<1> DEFINE S == bursts \ {b}
           T == (bursts \cup {n}) \ {b}
<1>1. EnergyOver(b, {}) = EnergyAmong(b, S)
  <2>1. bursts \ ({} \cup {b}) = S
    OBVIOUS
  <2>2. EnergyOver(b, {}) = EnergyAmong(b, bursts \ ({} \cup {b}))
    BY EnergyOverIs
  <2> QED BY <2>1, <2>2, Zenon
<1>2. EnergyOver(b, {})' = EnergyAmong(b, T)
  <2>1. bursts' \ ({} \cup {b}) = T
    OBVIOUS
  <2>2. EnergyOver(b, {})' = EnergyAmong(b, bursts' \ ({} \cup {b}))
    BY DEF EnergyOver, EnergyAmong, EnergyDuring
  <2> QED BY <2>1, <2>2, Zenon
<1>3. IsFiniteSet(T) /\ S \in SUBSET T /\ BurstOk(b) /\ \A x \in T : BurstOk(x)
  <2>1. IsFiniteSet(bursts \cup {n})
    BY FS_AddElement
  <2> QED BY <2>1, FS_RemoveElement
<1>4. \A x \in T \ S : Overlapping(b, x) = 0
  BY Apart
<1> HIDE DEF S, T
<1>5. EnergyAmong(b, S) = EnergyAmong(b, T)
  BY <1>3, <1>4, EnergyOfPart
<1> QED BY <1>1, <1>2, <1>5

\* Nothing that counts for slotted ALOHA changes.
LEMMA SlottedSame ==
  ASSUME SlottedOk, bursts' = bursts, handedUp' = handedUp, Receiving' = Receiving,
         Slotted => m_crdsaPacketContainer' = EmptyMap /\ combinedPackets' = {},
         UNCHANGED <<m_randomAccessModel, m_randomAccessCollisionModel>>
  PROVE  SlottedOk'
<1>1. Own' = Own /\ Slotted' = Slotted
  BY DEF Own, Slotted
<1>2. ASSUME NEW packet PROVE SlottedAlohaJustified(packet)' = SlottedAlohaJustified(packet)
  BY DEF SlottedAlohaJustified, OthersInSlot, Own, SinrAlone, EnergyOver
<1> QED BY <1>1, <1>2 DEF SlottedOk

LEMMA SlottedBegins ==
  ASSUME FrameReception, SlottedOk, NEW X, BeginFrame(X)
  PROVE  SlottedOk'
<1>1. bursts' = {} /\ handedUp' = <<>> /\ combinedPackets' = {}
      /\ m_crdsaPacketContainer' = m_crdsaPacketContainer /\ m_randomAccessModel' = m_randomAccessModel
  BY DEF BeginFrame
<1>2. Own' = {} /\ Slotted' = Slotted
  BY <1>1 DEF Own, Slotted
<1>3. Len(<<>>) = 0 /\ <<>> \in Seq([burst : {}, phyError : BOOLEAN]) /\ 1 .. 0 = {}
  OBVIOUS
<1>4. Own' \ Receiving' = {}
  BY <1>2
<1> QED BY <1>1, <1>2, <1>3, <1>4 DEF SlottedOk

LEMMA SlottedArrives ==
  ASSUME FrameReception, SlottedOk, BurstArrives
  PROVE  SlottedOk'
<1>1. PICK burst \in plan : StartRx(burst) /\ plan' = plan \ {burst}
  BY DEF BurstArrives
<1>2. /\ phase = "receive" /\ UNCHANGED <<frame, m_randomAccessModel, phase>>
      /\ UNCHANGED <<m_randomAccessCollisionModel, m_crdsaPacketContainer, combinedPackets>>
      /\ handedUp' = handedUp
  BY <1>1 DEF BurstArrives, StartRx
<1>3. /\ bursts' = bursts \cup {burst} /\ burst \notin bursts
      /\ Own' = Own \cup (IF burst.sender \in OwnBeam THEN {burst} ELSE {})
      /\ Receiving' = Receiving \cup (IF burst.sender \in OwnBeam THEN {burst} ELSE {})
      /\ \A b \in Own \ Receiving : b.end <= burst.start
  BY <1>1, <1>2, FrameBurstArrives
<1>4. /\ IsFiniteSet(bursts) /\ \A b \in plan \cup bursts : BurstOk(b)
      /\ Receiving \subseteq Own /\ Own \subseteq bursts
  <2>1. phase # "start"
    BY <1>2
  <2> QED BY <2>1, FrameMembers
<1>5. Own' \ Receiving' = Own \ Receiving /\ Slotted' = Slotted
  BY <1>2, <1>3, <1>4 DEF Slotted
<1>6. ASSUME NEW packet, packet.burst \in Own \ Receiving
      PROVE  SlottedAlohaJustified(packet)' = SlottedAlohaJustified(packet)
  <2> DEFINE b == packet.burst
  <2>1. b.end <= burst.start /\ b \in bursts /\ BurstOk(b) /\ BurstOk(burst)
    BY <1>3, <1>4, <1>6
  <2>2. EnergyOver(b, {})' = EnergyOver(b, {})
    BY <1>3, <1>4, <2>1, EnergyLater
  <2>3. SinrAlone(b, {})' = SinrAlone(b, {})
    BY <2>2 DEF SinrAlone
  <2>4. burst.start # b.start
    BY <2>1 DEF BurstOk
  <2>5. OthersInSlot(b, {})' = OthersInSlot(b, {})
    BY <1>3, <2>4 DEF OthersInSlot
  <2> QED BY <1>2, <2>3, <2>5 DEF SlottedAlohaJustified
<1>7. Slotted => \A i \in 1 .. Len(handedUp) : handedUp[i].burst \in Own \ Receiving
  BY PacketsOf DEF SlottedOk
<1> QED BY <1>2, <1>5, <1>6, <1>7 DEF SlottedOk

LEMMA SlottedReceives ==
  ASSUME FrameReception, SlottedOk, ReceiveSlot
  PROVE  SlottedOk'
<1>1. PICK burst \in Range(m_rxParams) :
        EndRxData(burst) /\ (ReceiveSlottedAloha(burst) \/ ReceiveCrdsa(burst))
  BY DEF ReceiveSlot
<1>2. /\ phase = "receive" /\ UNCHANGED <<plan, frame, m_randomAccessModel, phase>>
      /\ UNCHANGED <<m_randomAccessCollisionModel, combinedPackets>>
  BY DEF ReceiveSlot
<1>3. /\ burst \in Receiving /\ burst \in Own /\ Own' = Own
      /\ Receiving' = Receiving \ {burst} /\ bursts' = bursts
      /\ PerPacket(burst) = EnergyOver(burst, {})
      /\ HasCollision(burst) \in BOOLEAN
      /\ HasCollision(burst) <=> OthersInSlot(burst, {}) # {}
  BY <1>1, <1>2, FrameBurstEnds
<1>4. CASE ~Slotted
  BY <1>2, <1>4 DEF SlottedOk, Slotted
<1>5. CASE Slotted
  <2>1. burst.type = "SLOTTED_ALOHA"
    <3>1. phase # "start"
      BY <1>2
    <3>2. FrameBurst(burst)
      BY <1>3, <3>1, FrameMembers
    <3> QED BY <1>5, <3>2 DEF FrameBurst
  <2>2. ReceiveSlottedAloha(burst)
    BY <1>1, <2>1 DEF ReceiveCrdsa
  <2>3. PICK phyError \in SlottedAlohaErrors(burst) : HandUp(<<Packet(burst, phyError)>>)
    BY <2>2 DEF ReceiveSlottedAloha
  <2> DEFINE p == Packet(burst, phyError)
             n == Len(handedUp)
             S == [burst : Own' \ Receiving', phyError : BOOLEAN]
  <2>4. phyError \in BOOLEAN
    BY <1>3, <2>3 DEF SlottedAlohaErrors, LinkErrors
  <2>5. p \in S /\ p.burst = burst /\ p.phyError = phyError
    BY <1>3, <2>4 DEF Packet
  <2>6. ASSUME NEW packet PROVE SlottedAlohaJustified(packet)' = SlottedAlohaJustified(packet)
    BY <1>2, <1>3 DEF SlottedAlohaJustified, OthersInSlot, Own, SinrAlone, EnergyOver
  <2>7. SlottedAlohaJustified(p)
    <3>1. CASE m_randomAccessCollisionModel = "drop colliding"
      <4>1. phyError = HasCollision(burst)
        BY <2>3, <3>1 DEF SlottedAlohaErrors
      <4> HIDE DEF p
      <4> QED BY <1>3, <2>5, <3>1, <4>1 DEF SlottedAlohaJustified
    <3>2. CASE m_randomAccessCollisionModel = "check SINR"
      <4>1. phyError \in LinkErrors(SinrAlone(burst, {}))
        BY <1>3, <2>3, <3>2 DEF SlottedAlohaErrors, SinrAlone
      <4> DEFINE sinr == SinrAlone(burst, {})
      <4>2. IF phyError THEN sinr < SinrAlways ELSE sinr >= SinrNever
        <5>1. sinr \in Int
          <6>1. /\ BurstOk(burst) /\ Duration(burst) \in Nat \ {0} /\ IsFiniteSet(bursts)
                /\ \A b \in bursts : BurstOk(b)
            <7>1. phase # "start"
              BY <1>2
            <7>2. FrameBurst(burst) /\ frame \in Nat /\ IsFiniteSet(bursts) /\ \A b \in bursts : BurstOk(b)
              BY <1>3, <7>1, FrameMembers
            <7> QED BY <7>2, BurstTimes
          <6> QED BY <6>1, SinrType
        <5> HIDE DEF sinr
        <5>3. phyError \in LinkErrors(sinr)
          BY <4>1 DEF sinr
        <5>4. CASE phyError = TRUE
          BY <5>1, <5>3, <5>4, ErrorOf
        <5>5. CASE phyError = FALSE
          BY <5>1, <5>3, <5>5, ErrorOf
        <5> QED BY <2>4, <5>4, <5>5
      <4> HIDE DEF p
      <4> QED BY <2>5, <3>2, <4>2 DEF SlottedAlohaJustified
    <3> QED BY <3>1, <3>2 DEF SlottedAlohaJustified
  <2>8. handedUp' = Append(handedUp, p)
    <3>1. handedUp' = handedUp \o <<p>>
      BY <2>3 DEF HandUp
    <3>2. handedUp \in Seq([burst : Own \ Receiving, phyError : BOOLEAN])
      BY <1>5 DEF SlottedOk
    <3> HIDE DEF p
    <3> QED BY <3>1, <3>2
  <2>9. handedUp \in Seq(S)
    <3>1. handedUp \in Seq([burst : Own \ Receiving, phyError : BOOLEAN])
      BY <1>5 DEF SlottedOk
    <3>2. Own \ Receiving \subseteq Own' \ Receiving'
      BY <1>3
    <3>3. [burst : Own \ Receiving, phyError : BOOLEAN] \subseteq S
      BY <3>2
    <3> HIDE DEF S
    <3> QED BY <3>1, <3>3, SeqOfPart
  <2> HIDE DEF p
  <2>10. /\ handedUp' \in Seq(S) /\ Len(handedUp') = n + 1 /\ n \in Nat
         /\ \A i \in 1 .. n : handedUp'[i] = handedUp[i]
         /\ handedUp'[n + 1] = p
    <3> HIDE DEF S
    <3> QED BY <2>5, <2>8, <2>9
  <2> HIDE DEF n
  <2>11. \A i \in 1 .. n + 1 : i \in 1 .. n \/ i = n + 1
    BY <2>10
  <2>12. \A i \in 1 .. n : handedUp[i].burst # burst
    <3>1. \A i \in 1 .. n : handedUp[i].burst \in Own \ Receiving
      BY <1>5, PacketsOf DEF SlottedOk, n
    <3> QED BY <1>3, <3>1
  <2>13. ASSUME NEW i \in 1 .. n + 1 PROVE SlottedAlohaJustified(handedUp[i])'
    <3>1. \A k \in 1 .. n : SlottedAlohaJustified(handedUp[k])
      BY <1>5 DEF SlottedOk, n
    <3>2. PICK q : q = handedUp'[i]
      OBVIOUS
    <3>3. SlottedAlohaJustified(q)
      BY <2>7, <2>10, <2>11, <3>1, <3>2
    <3>4. SlottedAlohaJustified(q)'
      BY <2>6, <3>3
    <3> QED BY <3>2, <3>4 DEF SlottedAlohaJustified, OthersInSlot, SinrAlone, EnergyOver
  <2>14. \A i, j \in 1 .. n + 1 : handedUp'[i].burst = handedUp'[j].burst => i = j
    <3>1. \A i, j \in 1 .. n : handedUp[i].burst = handedUp[j].burst => i = j
      BY <1>5 DEF SlottedOk, n
    <3> QED BY <2>5, <2>10, <2>11, <2>12, <3>1
  <2>15. \A b \in Own' \ Receiving' : \E i \in 1 .. n + 1 : handedUp'[i].burst = b
    <3>1. ASSUME NEW b \in Own' \ Receiving' PROVE \E i \in 1 .. n + 1 : handedUp'[i].burst = b
      <4>1. CASE b = burst
        <5>1. n + 1 \in 1 .. n + 1
          BY <2>10
        <5> QED BY <2>5, <2>10, <4>1, <5>1
      <4>2. CASE b # burst
        <5>1. b \in Own \ Receiving
          BY <1>3, <4>2
        <5>2. PICK i \in 1 .. n : handedUp[i].burst = b
          BY <1>5, <5>1 DEF SlottedOk, n
        <5>3. i \in 1 .. n + 1
          BY <2>10
        <5> QED BY <2>10, <5>2, <5>3
      <4> QED BY <4>1, <4>2
    <3> QED BY <3>1
  <2>16. m_crdsaPacketContainer' = EmptyMap /\ combinedPackets' = {}
    BY <1>2, <1>5, <2>2 DEF SlottedOk, ReceiveSlottedAloha
  <2>17. \A i \in 1 .. n + 1 : SlottedAlohaJustified(handedUp[i])'
    BY <2>13
  <2>18. Slotted' = Slotted
    BY <1>2 DEF Slotted
  <2> QED BY <2>10, <2>14, <2>15, <2>16, <2>17 DEF SlottedOk, S
<1> QED BY <1>4, <1>5

\* A list without the element at a position.
LEMMA ListWithout ==
  ASSUME NEW P, NEW L \in Seq(P), NEW i \in 1 .. Len(L)
  PROVE  /\ RemoveAt(L, i) \in Seq(P) /\ Len(RemoveAt(L, i)) = Len(L) - 1
         /\ \A k \in 1 .. Len(L) - 1 : RemoveAt(L, i)[k] = L[IF k < i THEN k ELSE k + 1]
<1> DEFINE n == Len(L)
           q == SubSeq(L, 1, i - 1)
           r == SubSeq(L, i + 1, n)
<1>1. n \in Nat /\ i \in Nat /\ 1 <= i /\ i <= n
  OBVIOUS
<1>2. q \in Seq(P) /\ Len(q) = i - 1 /\ \A k \in 1 .. i - 1 : q[k] = L[k]
  OBVIOUS
<1>3. r \in Seq(P) /\ Len(r) = n - i /\ \A k \in 1 .. n - i : r[k] = L[k + i]
  OBVIOUS
<1>4. RemoveAt(L, i) = q \o r
  BY DEF RemoveAt
<1> HIDE DEF q, r
<1>5. q \o r \in Seq(P) /\ Len(q \o r) = n - 1
  <2>1. q \o r \in Seq(P)
    BY <1>2, <1>3
  <2>2. Len(q \o r) = Len(q) + Len(r)
    BY <1>2, <1>3, ConcatProperties
  <2> QED BY <1>1, <1>2, <1>3, <2>1, <2>2
<1>6. ASSUME NEW k \in 1 .. n - 1 PROVE (q \o r)[k] = L[IF k < i THEN k ELSE k + 1]
  <2>1. CASE k < i
    BY <1>1, <1>2, <1>3, <2>1
  <2>2. CASE ~(k < i)
    <3>1. (q \o r)[k] = r[k - (i - 1)]
      BY <1>1, <1>2, <1>3, <2>2
    <3>2. k - (i - 1) \in 1 .. n - i /\ k - (i - 1) + i = k + 1
      BY <1>1, <2>2
    <3> QED BY <1>3, <2>2, <3>1, <3>2
  <2> QED BY <2>1, <2>2
<1> QED BY <1>4, <1>5, <1>6

\* The only match is the first.
WithoutReplica(L, packet) == RemoveFirstMatch(L, LAMBDA other : IsReplica(packet, other))

LEMMA OnlyMatch ==
  ASSUME NEW packet, NEW L, Len(L) \in Nat, NEW i \in 1 .. Len(L),
         \A k \in 1 .. Len(L) : IsReplica(packet, L[k]) <=> k = i
  PROVE  WithoutReplica(L, packet) = RemoveAt(L, i)
<1>1. {k \in 1 .. Len(L) : IsReplica(packet, L[k])} = {i}
  OBVIOUS
<1>2. Min({i}) = i
  BY DEF Min
<1> QED BY <1>1, <1>2 DEF WithoutReplica, RemoveFirstMatch, SelectInSeq

-----------------------------------------------------------------------------
(* The replicas of a packet. *)

ReplicaIn(b, s) == Burst(b.sender, b.type, b.id, s, b.slots)
ReplicasOf(b) == {c \in bursts : SamePacket(c, b)}

LEMMA ReplicaFacts ==
  ASSUME IsTransmission(bursts), NEW b \in bursts
  PROVE  /\ \A s \in b.slots : /\ ReplicaIn(b, s) \in ReplicasOf(b) /\ ReplicaIn(b, s).slot = s
                              /\ s \in Slot
         /\ \A c \in ReplicasOf(b) : /\ c.slot \in b.slots /\ c.slots = b.slots /\ c.sender = b.sender
                                    /\ c = ReplicaIn(b, c.slot)
         /\ \A c \in bursts : c.sender = b.sender /\ c.slots \cap b.slots # {} => c \in ReplicasOf(b)
         /\ \A c \in bursts : c.sender = b.sender /\ c.slot = b.slot => c = b
         /\ b \in ReplicasOf(b) /\ b.slot \in b.slots
<1>1. \A c \in bursts : FrameBurst(c)
  BY DEF IsTransmission
<1>2. ASSUME NEW s \in b.slots
      PROVE  ReplicaIn(b, s) \in ReplicasOf(b) /\ ReplicaIn(b, s).slot = s /\ s \in Slot
  <2>1. ReplicaIn(b, s) \in bursts
    BY DEF IsTransmission, ReplicaIn
  <2>2. /\ ReplicaIn(b, s).slot = s /\ ReplicaIn(b, s).sender = b.sender
        /\ ReplicaIn(b, s).id = b.id
    BY DEF ReplicaIn, Burst
  <2>3. s \in Slot
    BY <1>1 DEF FrameBurst
  <2> QED BY <2>1, <2>2, <2>3 DEF ReplicasOf, SamePacket
<1>3. ASSUME NEW c \in ReplicasOf(b)
      PROVE  c.slot \in b.slots /\ c.slots = b.slots /\ c.sender = b.sender /\ c = ReplicaIn(b, c.slot)
  <2>1. c \in bursts /\ c.sender = b.sender /\ c.id = b.id
    BY DEF ReplicasOf, SamePacket
  <2>2. c.slots = b.slots
    BY <2>1, OneBurst
  <2>3. FrameBurst(c) /\ FrameBurst(b)
    BY <1>1, <2>1
  <2>4. c.type = b.type
    BY <2>3 DEF FrameBurst
  <2>5. c = Burst(c.sender, c.type, c.id, c.slot, c.slots) /\ c.slot \in c.slots
    BY <2>3 DEF FrameBurst
  <2>6. c = Burst(b.sender, b.type, b.id, c.slot, b.slots)
    <3> HIDE DEF Burst
    <3> QED BY <2>1, <2>2, <2>4, <2>5, Zenon
  <2> QED BY <2>1, <2>2, <2>5, <2>6 DEF ReplicaIn
<1>4. \A c \in bursts : c.sender = b.sender /\ c.slots \cap b.slots # {} => c \in ReplicasOf(b)
  BY OneBurst DEF ReplicasOf, SamePacket
<1>5. \A c \in bursts : c.sender = b.sender /\ c.slot = b.slot => c = b
  BY OneBurst
<1>6. b \in ReplicasOf(b) /\ b.slot \in b.slots
  BY <1>1 DEF ReplicasOf, SamePacket, FrameBurst
<1> QED BY <1>2, <1>3, <1>4, <1>5, <1>6

-----------------------------------------------------------------------------
(* The container of CRDSA and MARSALA. *)

Waiting == [burst : Own, ifPower : Int, packetHasBeenProcessed : BOOLEAN]

\* A container F holds the bursts of W, each once and in its slot.
SlotHolds(L, s, W) ==
  /\ L \in Seq(Waiting)
  /\ \A i \in 1 .. Len(L) : L[i].burst \in W /\ L[i].burst.slot = s
  /\ \A i, j \in 1 .. Len(L) : L[i].burst = L[j].burst => i = j
  /\ \A b \in W : b.slot = s => \E i \in 1 .. Len(L) : L[i].burst = b
Lists(F, W) ==
  /\ F = [s \in DOMAIN F |-> F[s]] /\ DOMAIN F \subseteq Slot
  /\ \A s \in DOMAIN F : SlotHolds(F[s], s, W)
  /\ \A b \in W : b.slot \in DOMAIN F

\* A list that a packet is taken from.
LEMMA SlotWithout ==
  ASSUME NEW s, NEW W, NEW L, SlotHolds(L, s, W), NEW i \in 1 .. Len(L), NEW V,
         V \subseteq W, \A b \in W : b.slot = s => (b \notin V <=> b = L[i].burst)
  PROVE  /\ SlotHolds(RemoveAt(L, i), s, V)
         /\ \A k \in 1 .. Len(RemoveAt(L, i)) : \E j \in 1 .. Len(L) : RemoveAt(L, i)[k] = L[j]
<1> DEFINE N == RemoveAt(L, i)
           From(k) == IF k < i THEN k ELSE k + 1
<1>1. L \in Seq(Waiting) /\ Len(L) \in Nat /\ i \in Nat /\ 1 <= i /\ i <= Len(L)
  BY DEF SlotHolds
<1>2. N \in Seq(Waiting) /\ Len(N) = Len(L) - 1 /\ \A k \in 1 .. Len(L) - 1 : N[k] = L[From(k)]
  BY <1>1, ListWithout
<1> HIDE DEF N
<1>3. \A k \in 1 .. Len(N) : From(k) \in 1 .. Len(L) /\ From(k) # i /\ N[k] = L[From(k)]
  BY <1>1, <1>2
<1>4. \A j \in 1 .. Len(L) : j # i => \E k \in 1 .. Len(N) : From(k) = j
  <2>1. ASSUME NEW j \in 1 .. Len(L), j < i PROVE j \in 1 .. Len(N) /\ From(j) = j
    BY <1>1, <1>2, <2>1
  <2>2. ASSUME NEW j \in 1 .. Len(L), j > i PROVE j - 1 \in 1 .. Len(N) /\ From(j - 1) = j
    BY <1>1, <1>2, <2>2
  <2>3. \A j \in 1 .. Len(L) : j < i \/ j > i \/ j = i
    BY <1>1
  <2> HIDE DEF From
  <2> QED BY <2>1, <2>2, <2>3
<1>5. \A k, l \in 1 .. Len(N) : From(k) = From(l) => k = l
  BY <1>1, <1>2
<1> HIDE DEF From
<1>6. /\ \A j \in 1 .. Len(L) : L[j].burst \in W /\ L[j].burst.slot = s
      /\ \A j, k \in 1 .. Len(L) : L[j].burst = L[k].burst => j = k
      /\ \A b \in W : b.slot = s => \E j \in 1 .. Len(L) : L[j].burst = b
  BY DEF SlotHolds
<1>7. \A k \in 1 .. Len(N) : N[k].burst \in V /\ N[k].burst.slot = s
  <2>1. ASSUME NEW k \in 1 .. Len(N) PROVE N[k].burst \in V /\ N[k].burst.slot = s
    <3>1. N[k] = L[From(k)] /\ From(k) \in 1 .. Len(L) /\ From(k) # i
      BY <1>3
    <3>2. L[From(k)].burst # L[i].burst
      BY <1>6, <3>1
    <3>3. L[From(k)].burst \in W /\ L[From(k)].burst.slot = s
      BY <1>6, <3>1
    <3> QED BY <3>1, <3>2, <3>3
  <2> QED BY <2>1
<1>8. \A k, l \in 1 .. Len(N) : N[k].burst = N[l].burst => k = l
  BY <1>3, <1>5, <1>6
<1>9. ASSUME NEW b \in V, b.slot = s PROVE \E k \in 1 .. Len(N) : N[k].burst = b
  <2>1. b \in W /\ b # L[i].burst
    BY <1>9
  <2>2. PICK j \in 1 .. Len(L) : L[j].burst = b
    BY <1>6, <1>9, <2>1
  <2>3. PICK k \in 1 .. Len(N) : From(k) = j
    BY <1>4, <2>1, <2>2
  <2> QED BY <1>3, <2>2, <2>3
<1>10. \A k \in 1 .. Len(N) : \E j \in 1 .. Len(L) : N[k] = L[j]
  BY <1>3
<1> QED BY <1>2, <1>7, <1>8, <1>9, <1>10 DEF N, SlotHolds

\* Nothing changes for a slot in which nothing is taken.
LEMMA SlotUntouched ==
  ASSUME NEW s, NEW W, NEW L, SlotHolds(L, s, W), NEW V, V \subseteq W,
         \A b \in W : b.slot = s => b \in V
  PROVE  SlotHolds(L, s, V)
BY DEF SlotHolds

\* The container without a packet and its replicas, which were all in it.
LEMMA RemovedHolds ==
  ASSUME IsTransmission(bursts), NEW W, W \subseteq Own, Lists(m_crdsaPacketContainer, W),
         NEW slot \in DOMAIN m_crdsaPacketContainer,
         NEW i \in 1 .. Len(m_crdsaPacketContainer[slot]),
         NEW packet, packet = m_crdsaPacketContainer[slot][i],
         ReplicasOf(packet.burst) \subseteq W
  PROVE  /\ ReplicasCanBeFound(packet)
         /\ DOMAIN Removed(slot, i) = DOMAIN m_crdsaPacketContainer
         /\ Lists(Removed(slot, i), W \ ReplicasOf(packet.burst))
         /\ \A s \in DOMAIN m_crdsaPacketContainer : \A k \in 1 .. Len(Removed(slot, i)[s]) :
              \E j \in 1 .. Len(m_crdsaPacketContainer[s]) :
                Removed(slot, i)[s][k] = m_crdsaPacketContainer[s][j]
<1> DEFINE F == m_crdsaPacketContainer
           b == packet.burst
           V == W \ ReplicasOf(b)
           N == Removed(slot, i)
<1>1. /\ F = [s \in DOMAIN F |-> F[s]] /\ DOMAIN F \subseteq Slot
      /\ \A s \in DOMAIN F : SlotHolds(F[s], s, W)
      /\ \A c \in W : c.slot \in DOMAIN F
  BY DEF Lists
<1>2. b \in W /\ b.slot = slot /\ b \in bursts
  <2>1. SlotHolds(F[slot], slot, W)
    BY <1>1
  <2> QED BY <2>1 DEF SlotHolds, Own
<1>3. /\ \A s \in b.slots : /\ ReplicaIn(b, s) \in ReplicasOf(b) /\ ReplicaIn(b, s).slot = s
                            /\ s \in Slot
      /\ \A c \in ReplicasOf(b) : /\ c.slot \in b.slots /\ c.slots = b.slots /\ c.sender = b.sender
                                  /\ c = ReplicaIn(b, c.slot)
      /\ \A c \in bursts : c.sender = b.sender /\ c.slots \cap b.slots # {} => c \in ReplicasOf(b)
      /\ b \in ReplicasOf(b) /\ b.slot \in b.slots
  BY <1>2, ReplicaFacts
<1>4. \A c \in W : c \in bursts /\ c.slot \in c.slots
  <2>1. \A c \in W : c \in bursts
    BY DEF Own
  <2> QED BY <2>1 DEF IsTransmission, FrameBurst
<1>5. \A s \in DOMAIN F : /\ F[s] \in Seq(Waiting) /\ Len(F[s]) \in Nat
                          /\ \A k \in 1 .. Len(F[s]) : F[s][k].burst \in W /\ F[s][k].burst.slot = s
                          /\ \A k, l \in 1 .. Len(F[s]) : F[s][k].burst = F[s][l].burst => k = l
                          /\ DOMAIN F[s] = 1 .. Len(F[s])
  BY <1>1 DEF SlotHolds
<1> HIDE DEF F
<1>6. ASSUME NEW s \in b.slots
      PROVE  /\ s \in DOMAIN F
             /\ \E j \in 1 .. Len(F[s]) :
                  /\ F[s][j].burst = ReplicaIn(b, s)
                  /\ \A k \in 1 .. Len(F[s]) : IsReplica(packet, F[s][k]) <=> k = j
                  /\ \A k \in 1 .. Len(F[s]) : ~PartlyOverlap(packet, F[s][k])
  <2>1. ReplicaIn(b, s) \in W /\ ReplicaIn(b, s) \in ReplicasOf(b) /\ ReplicaIn(b, s).slot = s
    BY <1>3
  <2>2. s \in DOMAIN F
    BY <1>1, <2>1
  <2>3. PICK j \in 1 .. Len(F[s]) : F[s][j].burst = ReplicaIn(b, s)
    <3>1. SlotHolds(F[s], s, W)
      BY <1>1, <2>2
    <3> QED BY <2>1, <3>1 DEF SlotHolds
  <2>4. ASSUME NEW k \in 1 .. Len(F[s])
        PROVE  /\ IsReplica(packet, F[s][k]) <=> k = j
               /\ ~PartlyOverlap(packet, F[s][k])
    <3> DEFINE c == F[s][k].burst
    <3>1. c \in bursts /\ c.slot = s /\ c.slot \in c.slots
      BY <1>4, <1>5, <2>2
    <3> HIDE DEF c
    <3>2. k = j <=> c = ReplicaIn(b, s)
      BY <1>5, <2>2, <2>3 DEF c
    <3>3. c.sender = b.sender => c \in ReplicasOf(b)
      BY <1>3, <3>1
    <3>4. c \in ReplicasOf(b) => c = ReplicaIn(b, s) /\ c.slots = b.slots /\ c.sender = b.sender
      BY <1>3, <3>1
    <3>5. c = ReplicaIn(b, s) => c \in ReplicasOf(b)
      BY <2>1
    <3> QED BY <3>2, <3>3, <3>4, <3>5 DEF c, IsReplica, PartlyOverlap
  <2> QED BY <2>2, <2>3, <2>4
<1>7. ReplicasCanBeFound(packet)
  <2>1. ASSUME NEW s \in OtherSlots(packet)
        PROVE  /\ s \in DOMAIN F
               /\ Cardinality({k \in DOMAIN F[s] : IsReplica(packet, F[s][k])}) = 1
               /\ \A k \in DOMAIN F[s] : ~PartlyOverlap(packet, F[s][k])
    <3>1. s \in b.slots
      BY DEF OtherSlots
    <3>2. PICK j \in 1 .. Len(F[s]) :
             /\ \A k \in 1 .. Len(F[s]) : IsReplica(packet, F[s][k]) <=> k = j
             /\ \A k \in 1 .. Len(F[s]) : ~PartlyOverlap(packet, F[s][k])
      BY <1>6, <3>1
    <3>3. s \in DOMAIN F /\ DOMAIN F[s] = 1 .. Len(F[s])
      BY <1>5, <1>6, <3>1
    <3>4. {k \in DOMAIN F[s] : IsReplica(packet, F[s][k])} = {j}
      BY <3>2, <3>3
    <3>5. Cardinality({j}) = 1
      BY FS_Singleton
    <3> QED BY <3>2, <3>3, <3>4, <3>5
  <2> QED BY <2>1 DEF ReplicasCanBeFound, F
<1>8. /\ DOMAIN N = DOMAIN F /\ N = [s \in DOMAIN N |-> N[s]]
      /\ \A s \in DOMAIN F :
           N[s] = IF s = slot THEN RemoveAt(F[s], i)
                  ELSE IF s \in OtherSlots(packet)
                  THEN WithoutReplica(F[s], packet)
                  ELSE F[s]
  BY DEF Removed, F, WithoutReplica
<1> HIDE DEF N
<1>9. ASSUME NEW s \in DOMAIN F, s \in b.slots
      PROVE  \E j \in 1 .. Len(F[s]) : F[s][j].burst = ReplicaIn(b, s) /\ N[s] = RemoveAt(F[s], j)
  <2>1. PICK j \in 1 .. Len(F[s]) :
          /\ F[s][j].burst = ReplicaIn(b, s)
          /\ \A k \in 1 .. Len(F[s]) : IsReplica(packet, F[s][k]) <=> k = j
    BY <1>6, <1>9
  <2>2. CASE s = slot
    <3>1. b = ReplicaIn(b, slot) /\ F[slot][i].burst = b
      BY <1>2, <1>3 DEF F
    <3>2. i \in 1 .. Len(F[s])
      BY <2>2 DEF F
    <3>3. i = j
      BY <1>5, <2>1, <2>2, <3>1, <3>2
    <3> QED BY <1>8, <2>1, <2>2, <3>3
  <2>3. CASE s # slot
    <3>1. s \in OtherSlots(packet)
      BY <1>2, <1>9, <2>3 DEF OtherSlots
    <3>2. N[s] = WithoutReplica(F[s], packet)
      BY <1>8, <2>3, <3>1
    <3>3. WithoutReplica(F[s], packet) = RemoveAt(F[s], j)
      <4> DEFINE L == F[s]
      <4>1. Len(L) \in Nat /\ j \in 1 .. Len(L) /\ \A k \in 1 .. Len(L) : IsReplica(packet, L[k]) <=> k = j
        BY <1>5, <2>1
      <4> HIDE DEF L
      <4>2. WithoutReplica(L, packet) = RemoveAt(L, j)
        BY <4>1, OnlyMatch
      <4> QED BY <4>2 DEF L
    <3> QED BY <2>1, <3>2, <3>3
  <2> QED BY <2>2, <2>3
<1>10. ASSUME NEW s \in DOMAIN F
       PROVE  /\ SlotHolds(N[s], s, V)
              /\ \A k \in 1 .. Len(N[s]) : \E j \in 1 .. Len(F[s]) : N[s][k] = F[s][j]
  <2>1. SlotHolds(F[s], s, W) /\ V \subseteq W
    BY <1>1
  <2>2. CASE s \in b.slots
    <3>1. PICK j \in 1 .. Len(F[s]) : F[s][j].burst = ReplicaIn(b, s) /\ N[s] = RemoveAt(F[s], j)
      BY <1>9, <2>2
    <3>2. \A c \in W : c.slot = s => (c \notin V <=> c = F[s][j].burst)
      BY <1>3, <2>2, <3>1
    <3> HIDE DEF V
    <3> QED BY <2>1, <3>1, <3>2, SlotWithout, SMTT(60)
  <2>3. CASE s \notin b.slots
    <3>1. N[s] = F[s]
      <4>1. s # slot /\ s \notin OtherSlots(packet)
        BY <1>2, <1>3, <2>3 DEF OtherSlots
      <4> QED BY <1>8, <4>1
    <3>2. \A c \in W : c.slot = s => c \in V
      BY <1>3, <2>3
    <3> HIDE DEF V
    <3>3. SlotHolds(N[s], s, V)
      BY <2>1, <3>1, <3>2, SlotUntouched
    <3> QED BY <3>1, <3>3
  <2> QED BY <2>2, <2>3
<1>11. \A c \in V : c.slot \in DOMAIN F
  BY <1>1
<1>12. Lists(N, V)
  <2> HIDE DEF V
  <2> QED BY <1>1, <1>8, <1>10, <1>11 DEF Lists
<1> QED BY <1>7, <1>8, <1>10, <1>12 DEF F, N

-----------------------------------------------------------------------------
(* What cancelling does to the interference of the bursts of a frame. *)

\* The bursts of a frame, all of them heard.
FrameIs == /\ frame \in Nat /\ IsTransmission(bursts)
           /\ IsFiniteSet(bursts) /\ \A b \in bursts : BurstOk(b) /\ FrameBurst(b)

LEMMA SmallerQuotient ==
  ASSUME NEW a \in Nat, NEW x \in Nat \ {0}, NEW y \in Nat \ {0}, x <= y
  PROVE  a \div y \in Nat /\ a \div x \in Nat /\ a \div y <= a \div x
<1> DEFINE p == a \div x
           q == a \div y
<1>1. \A m \in Nat, n \in Nat \ {0} : m \div n \in Nat
  OBVIOUS
<1>2. p \in Nat /\ q \in Nat
  BY <1>1
<1>3. a = p * x + (a % x) /\ a % x \in 0 .. x - 1
  BY DivModSplit, DivModType
<1>4. a = q * y + (a % y) /\ a % y \in 0 .. y - 1
  BY DivModSplit, DivModType
<1> HIDE DEF p, q
<1>5. ASSUME p < q PROVE FALSE
  <2>1. p * x + x <= q * x
    BY <1>2, <1>5, TimesMonotonic
  <2>2. q * x <= q * y
    <3>1. q * x = x * q /\ q * y = y * q
      BY <1>2
    <3>2. CASE x = y
      BY <1>2, <3>2
    <3>3. CASE x < y
      <4>1. q \in Nat \ {0}
        BY <1>2, <1>5
      <4>2. x * q + q <= y * q
        BY <3>3, <4>1, TimesMonotonic
      <4>3. x * q \in Int /\ y * q \in Int
        BY <1>2, TimesType
      <4> QED BY <1>2, <3>1, <4>2, <4>3
    <3> QED BY <3>2, <3>3
  <2>3. p * x \in Int /\ q * x \in Int /\ q * y \in Int
    BY <1>2, TimesType
  <2>4. a % x \in Int /\ a % x < x /\ a % y \in Int /\ a % y >= 0
    BY <1>3, <1>4
  <2> QED BY <1>3, <1>4, <2>1, <2>2, <2>3, <2>4
<1> QED BY <1>2, <1>5 DEF p, q

\* The less interferes, the better.
LEMMA BetterRatio ==
  ASSUME NEW s \in Nat, NEW i \in Nat, NEW j \in Nat, i <= j, NEW n \in Nat \ {0}
  PROVE  Sinr(s, j, n) \in Nat /\ Sinr(s, i, n) \in Nat /\ Sinr(s, j, n) <= Sinr(s, i, n)
<1>1. Scale * s \in Nat
  <2>1. Scale \in Nat
    BY CarrierAssumption
  <2>2. \A x \in Nat, y \in Nat : x * y \in Nat
    OBVIOUS
  <2> QED BY <2>1, <2>2
<1>2. i + n \in Nat \ {0} /\ j + n \in Nat \ {0} /\ i + n <= j + n
  OBVIOUS
<1> QED BY <1>1, <1>2, SmallerQuotient DEF Sinr

LEMMA EnergyMonotone ==
  ASSUME FrameIs, NEW e \in bursts, NEW gone, NEW more, gone \subseteq more
  PROVE  EnergyOver(e, more) \in Nat /\ EnergyOver(e, gone) \in Nat
         /\ EnergyOver(e, more) <= EnergyOver(e, gone)
<1> DEFINE T == bursts \ (gone \cup {e})
           S == bursts \ (more \cup {e})
<1>1. IsFiniteSet(T) /\ S \in SUBSET T /\ T \in SUBSET T /\ BurstOk(e) /\ \A b \in T : BurstOk(b)
  BY FS_Subset DEF FrameIs
<1>2. EnergyOver(e, gone) = EnergyAmong(e, T) /\ EnergyOver(e, more) = EnergyAmong(e, S)
  BY EnergyOverIs
<1> HIDE DEF S, T
<1> QED BY <1>1, <1>2, EnergyOfPart

LEMMA ReplicasFinite ==
  ASSUME FrameIs, NEW e \in bursts
  PROVE  /\ IsFiniteSet(ReplicasOf(e)) /\ ReplicasOf(e) \subseteq bursts
         /\ Cardinality(ReplicasOf(e)) \in Nat \ {0}
<1>1. IsFiniteSet(ReplicasOf(e)) /\ ReplicasOf(e) \subseteq bursts
  BY FS_Subset DEF ReplicasOf, FrameIs
<1>2. ReplicasOf(e) # {}
  BY DEF ReplicasOf, SamePacket
<1> QED BY <1>1, <1>2, FS_CardinalityType, FS_EmptySet

\* The energy of all replicas, and all that interferes with them.
LEMMA CombinedTypes ==
  ASSUME FrameIs, NEW e \in bursts, NEW gone, NEW n, n = Cardinality(ReplicasOf(e))
  PROVE  /\ n * SumFunction([b \in ReplicasOf(e) |-> Energy(b)]) \in Nat
         /\ n * Noise * Duration(e) \in Nat \ {0}
         /\ SumFunction([b \in ReplicasOf(e) |-> EnergyOver(b, gone)]) \in Nat
<1>1. IsFiniteSet(ReplicasOf(e)) /\ ReplicasOf(e) \subseteq bursts /\ n \in Nat \ {0}
  BY ReplicasFinite
<1>2. \A x \in Nat, y \in Nat : x * y \in Nat
  OBVIOUS
<1>3. \A x \in Nat \ {0}, y \in Nat \ {0} : x * y \in Nat \ {0}
  OBVIOUS
<1>4. BurstOk(e)
  BY DEF FrameIs
<1>5. Duration(e) \in Nat \ {0} /\ Noise \in Nat \ {0}
  BY <1>4, EnergyType, CarrierAssumption
<1>6. n * Noise * Duration(e) \in Nat \ {0}
  BY <1>1, <1>3, <1>5
<1>7. ASSUME NEW f, DOMAIN f = ReplicasOf(e), \A b \in ReplicasOf(e) : f[b] \in Nat
      PROVE  SumFunction(f) \in Nat
  BY <1>1, <1>7, SumOfNaturals DEF SumFunction
<1>8. SumFunction([b \in ReplicasOf(e) |-> Energy(b)]) \in Nat
  <2> DEFINE f == [b \in ReplicasOf(e) |-> Energy(b)]
  <2>1. \A b \in ReplicasOf(e) : Energy(b) \in Nat
    BY <1>1, EnergyType DEF FrameIs
  <2>2. DOMAIN f = ReplicasOf(e) /\ \A b \in ReplicasOf(e) : f[b] \in Nat
    BY <2>1
  <2> HIDE DEF f
  <2>3. SumFunction(f) \in Nat
    BY <1>7, <2>2
  <2> QED BY <2>3 DEF f
<1>9. SumFunction([b \in ReplicasOf(e) |-> EnergyOver(b, gone)]) \in Nat
  <2> DEFINE f == [b \in ReplicasOf(e) |-> EnergyOver(b, gone)]
  <2>1. \A b \in ReplicasOf(e) : EnergyOver(b, gone) \in Nat
    <3>1. gone \subseteq gone
      OBVIOUS
    <3> QED BY <1>1, <3>1, EnergyMonotone
  <2>2. DOMAIN f = ReplicasOf(e) /\ \A b \in ReplicasOf(e) : f[b] \in Nat
    BY <2>1
  <2> HIDE DEF f
  <2>3. SumFunction(f) \in Nat
    BY <1>7, <2>2
  <2> QED BY <2>3 DEF f
<1> QED BY <1>1, <1>2, <1>6, <1>8, <1>9

LEMMA SinrCombinedIs ==
  ASSUME NEW e, NEW gone
  PROVE  SinrCombined(e, gone) =
           Sinr(Cardinality(ReplicasOf(e)) * SumFunction([b \in ReplicasOf(e) |-> Energy(b)]),
                SumFunction([b \in ReplicasOf(e) |-> EnergyOver(b, gone)]),
                Cardinality(ReplicasOf(e)) * Noise * Duration(e))
BY DEF SinrCombined, ReplicasOf

\* The more is gone, the better.
LEMMA SinrMonotone ==
  ASSUME FrameIs, NEW e \in bursts, NEW gone, NEW more, gone \subseteq more
  PROVE  /\ SinrAlone(e, gone) \in Nat /\ SinrAlone(e, more) \in Nat
         /\ SinrAlone(e, gone) <= SinrAlone(e, more)
         /\ SinrCombined(e, gone) \in Nat /\ SinrCombined(e, more) \in Nat
         /\ SinrCombined(e, gone) <= SinrCombined(e, more)
<1>1. BurstOk(e)
  BY DEF FrameIs
<1>2. Energy(e) \in Nat /\ Noise * Duration(e) \in Nat \ {0}
  BY <1>1, EnergyType
<1>3. EnergyOver(e, more) \in Nat /\ EnergyOver(e, gone) \in Nat
      /\ EnergyOver(e, more) <= EnergyOver(e, gone)
  BY EnergyMonotone
<1>4. /\ SinrAlone(e, gone) \in Nat /\ SinrAlone(e, more) \in Nat
      /\ SinrAlone(e, gone) <= SinrAlone(e, more)
  BY <1>2, <1>3, BetterRatio DEF SinrAlone
<1> DEFINE n == Cardinality(ReplicasOf(e))
           s == n * SumFunction([b \in ReplicasOf(e) |-> Energy(b)])
           f == [b \in ReplicasOf(e) |-> EnergyOver(b, more)]
           g == [b \in ReplicasOf(e) |-> EnergyOver(b, gone)]
           m == n * Noise * Duration(e)
<1>5. s \in Nat /\ m \in Nat \ {0} /\ SumFunction(f) \in Nat /\ SumFunction(g) \in Nat
  BY CombinedTypes
<1>6. SumFunction(f) <= SumFunction(g)
  <2>1. IsFiniteSet(ReplicasOf(e)) /\ ReplicasOf(e) \subseteq bursts
    BY ReplicasFinite
  <2>2. \A b \in ReplicasOf(e) : EnergyOver(b, more) \in Nat /\ EnergyOver(b, gone) \in Nat
                                 /\ EnergyOver(b, more) <= EnergyOver(b, gone)
    BY <2>1, EnergyMonotone
  <2>3. /\ DOMAIN f = ReplicasOf(e) /\ DOMAIN g = ReplicasOf(e)
        /\ \A b \in ReplicasOf(e) : f[b] \in Int /\ g[b] \in Int /\ f[b] <= g[b]
    BY <2>2
  <2> HIDE DEF f, g
  <2> QED BY <2>1, <2>3, SumMonotonic DEF SumFunction
<1>7. SinrCombined(e, gone) = Sinr(s, SumFunction(g), m) /\ SinrCombined(e, more) = Sinr(s, SumFunction(f), m)
  BY SinrCombinedIs
<1> HIDE DEF n, s, f, g, m
<1>8. Sinr(s, SumFunction(g), m) \in Nat /\ Sinr(s, SumFunction(f), m) \in Nat
      /\ Sinr(s, SumFunction(g), m) <= Sinr(s, SumFunction(f), m)
  BY <1>5, <1>6, BetterRatio
<1> QED BY <1>4, <1>7, <1>8

ReachesAlone(e, level, gone) ==
  /\ m_randomAccessCollisionModel = "drop colliding" => OthersInSlot(e, gone) = {}
  /\ SinrAlone(e, gone) >= level

LEMMA ReachesMore ==
  ASSUME FrameIs, NEW e \in bursts, NEW gone, NEW more, gone \subseteq more, NEW level \in Nat,
         Reaches(e, level, gone)
  PROVE  Reaches(e, level, more)
<1>1. /\ SinrAlone(e, gone) \in Nat /\ SinrAlone(e, more) \in Nat
      /\ SinrAlone(e, gone) <= SinrAlone(e, more)
      /\ SinrCombined(e, gone) \in Nat /\ SinrCombined(e, more) \in Nat
      /\ SinrCombined(e, gone) <= SinrCombined(e, more)
  BY SinrMonotone
<1>2. OthersInSlot(e, gone) = {} => OthersInSlot(e, more) = {}
  BY DEF OthersInSlot
<1>3. CASE SinrAlone(e, gone) >= level /\ (m_randomAccessCollisionModel = "drop colliding" => OthersInSlot(e, gone) = {})
  <2> DEFINE x == SinrAlone(e, gone)
             y == SinrAlone(e, more)
  <2>1. y >= level
    <3>1. x \in Nat /\ y \in Nat /\ x <= y /\ x >= level
      BY <1>1, <1>3
    <3> HIDE DEF x, y
    <3> QED BY <3>1
  <2> QED BY <1>2, <1>3, <2>1, Zenon DEF Reaches
<1>4. CASE m_randomAccessModel = "MARSALA" /\ SinrCombined(e, gone) >= level
  <2>1. SinrCombined(e, more) >= level
    BY <1>1, <1>4
  <2> QED BY <1>4, <2>1, Zenon DEF Reaches
<1> QED BY <1>3, <1>4 DEF Reaches

\* A packet is cancelled: each of its replicas frees its slot of its energy.
LEMMA EnergyCancelled ==
  ASSUME FrameIs, NEW b \in bursts, NEW e \in bursts, e \notin ReplicasOf(b), NEW gone,
         ReplicasOf(b) \cap gone = {}
  PROVE  EnergyOver(e, gone \cup ReplicasOf(b)) =
           EnergyOver(e, gone) - (IF e.slot \in b.slots THEN Energy(b) ELSE 0)
<1> DEFINE R == ReplicasOf(b)
           T == bursts \ (gone \cup {e})
           S == bursts \ (gone \cup R \cup {e})
<1>1. /\ IsFiniteSet(T) /\ S \in SUBSET T /\ T \in SUBSET T /\ BurstOk(e) /\ \A c \in T : BurstOk(c)
      /\ R \in SUBSET T /\ T \ S = R /\ IsFiniteSet(R) /\ \A c \in R : BurstOk(c) /\ FrameBurst(c)
  <2>1. R \subseteq bursts
    BY DEF ReplicasOf
  <2>2. IsFiniteSet(T) /\ IsFiniteSet(R)
    BY <2>1, FS_Subset DEF FrameIs
  <2>3. T \ S = R /\ R \subseteq T
    BY <2>1
  <2> QED BY <2>1, <2>2, <2>3 DEF FrameIs
<1>2. EnergyOver(e, gone) = EnergyAmong(e, T) /\ EnergyOver(e, gone \cup R) = EnergyAmong(e, S)
  <2>1. EnergyOver(e, gone \cup R) = EnergyAmong(e, bursts \ ((gone \cup R) \cup {e}))
    BY EnergyOverIs
  <2> QED BY <2>1, EnergyOverIs
<1>3. /\ \A s \in b.slots : ReplicaIn(b, s) \in R /\ ReplicaIn(b, s).slot = s
      /\ \A c \in R : c.slot \in b.slots /\ c = ReplicaIn(b, c.slot) /\ c.sender = b.sender
  BY ReplicaFacts DEF FrameIs
<1>4. \A c \in R : /\ c.slot = e.slot => c.start = e.start /\ c.end = e.end
                   /\ c.slot # e.slot => c.end < e.start \/ e.end < c.start
  <2>1. frame \in Nat /\ FrameBurst(e)
    BY DEF FrameIs
  <2> QED BY <1>1, <2>1, BurstTimes
<1>5. \A c \in R : /\ c.slot = e.slot => Overlapping(e, c) = Duration(e)
                   /\ c.slot # e.slot => Overlapping(e, c) = 0
  <2>1. \A c \in R : /\ c.end <= e.start \/ e.end <= c.start => Overlapping(e, c) = 0
                     /\ c.start = e.start /\ c.end = e.end => Overlapping(e, c) = Duration(e)
    BY <1>1, Apart
  <2>2. \A c \in R : c.end \in Int /\ c.start \in Int /\ e.start \in Int /\ e.end \in Int
    BY <1>1 DEF BurstOk
  <2> QED BY <1>4, <2>1, <2>2
<1> HIDE DEF R, S, T
<1>6. CASE e.slot \notin b.slots
  <2>1. \A c \in T \ S : Overlapping(e, c) = 0
    BY <1>1, <1>3, <1>5, <1>6
  <2>2. EnergyAmong(e, S) = EnergyAmong(e, T) /\ EnergyAmong(e, S) \in Nat
    BY <1>1, <2>1, EnergyOfPart
  <2> QED BY <1>2, <1>6, <2>2 DEF R
<1>7. CASE e.slot \in b.slots
  <2> DEFINE r == ReplicaIn(b, e.slot)
  <2>1. r \in R /\ r.slot = e.slot /\ r.sender = b.sender /\ Overlapping(e, r) = Duration(e)
    BY <1>3, <1>5, <1>7
  <2>2. \A c \in R \ {r} : Overlapping(e, c) = 0
    BY <1>3, <1>5
  <2> HIDE DEF r
  <2>3. {r} \in SUBSET R
    BY <2>1
  <2>4. EnergyAmong(e, {r}) = EnergyAmong(e, R)
    <3>1. \A c \in R : BurstOk(c)
      BY <1>1
    <3> QED BY <1>1, <2>2, <2>3, <3>1, EnergyOfPart, ZenonT(60)
  <2>5. EnergyAmong(e, {r}) = RxPower[b.sender] * Duration(e)
    <3> DEFINE f == EnergyDuring(e, {r})
    <3>1. DOMAIN f = {r} /\ f[r] = RxPower[b.sender] * Duration(e)
      BY <2>1 DEF EnergyDuring
    <3>2. f[r] \in Int
      <4>1. Duration(e) \in Nat
        BY <1>1, EnergyType
      <4>2. RxPower[r.sender] \in Nat
        BY <1>1, <2>1, CarrierAssumption DEF BurstOk
      <4>3. RxPower[b.sender] * Duration(e) \in Int
        BY <2>1, <4>1, <4>2, TimesType
      <4> QED BY <3>1, <4>3
    <3>3. EnergyAmong(e, {r}) = SumFunctionOnSet(f, {r})
      BY <3>1 DEF EnergyAmong, SumFunction
    <3> HIDE DEF f
    <3>4. SumFunctionOnSet(f, {r}) = f[r] + SumFunctionOnSet(f, {r} \ {r})
      BY <3>2, FS_Singleton, SumWithout
    <3>5. SumFunctionOnSet(f, {r} \ {r}) = 0
      <4>1. {r} \ {r} = {}
        OBVIOUS
      <4> QED BY <4>1, SumOfNone
    <3> QED BY <3>1, <3>2, <3>3, <3>4, <3>5
  <2>6. Duration(e) = Duration(b)
    <3>1. frame \in Nat /\ FrameBurst(e) /\ FrameBurst(b)
      BY DEF FrameIs
    <3>2. Duration(e) = SlotDuration - GuardTime /\ Duration(b) = SlotDuration - GuardTime
      BY <3>1, BurstTimes
    <3> QED BY <3>2
  <2>7. EnergyAmong(e, R) = Energy(b)
    BY <2>4, <2>5, <2>6 DEF Energy
  <2>8. EnergyAmong(e, T) = EnergyAmong(e, S) + EnergyAmong(e, T \ S) /\ EnergyAmong(e, S) \in Nat
    BY <1>1, EnergyOfPart
  <2>9. EnergyAmong(e, T) = EnergyAmong(e, S) + Energy(b)
    BY <1>1, <2>7, <2>8
  <2>10. Energy(b) \in Nat
    BY EnergyType DEF FrameIs
  <2> QED BY <1>2, <1>7, <2>8, <2>9, <2>10 DEF R
<1> QED BY <1>6, <1>7

\* In the other slots nothing changes.
LEMMA ReachesElsewhere ==
  ASSUME FrameIs, NEW b \in bursts, NEW e \in bursts, e.slot \notin b.slots, NEW gone,
         ReplicasOf(b) \cap gone = {}, NEW level
  PROVE  ReachesAlone(e, level, gone \cup ReplicasOf(b)) <=> ReachesAlone(e, level, gone)
<1> DEFINE R == ReplicasOf(b)
<1>1. \A c \in R : c.slot # e.slot
  BY ReplicaFacts DEF FrameIs
<1>2. e \notin R
  BY <1>1
<1>3. EnergyOver(e, gone \cup R) = EnergyOver(e, gone) - 0 /\ EnergyOver(e, gone) \in Nat
  <2>1. EnergyOver(e, gone) \in Nat
    BY EnergyMonotone
  <2> QED BY <1>2, <2>1, EnergyCancelled
<1>4. SinrAlone(e, gone \cup R) = SinrAlone(e, gone)
  <2>1. EnergyOver(e, gone \cup R) = EnergyOver(e, gone)
    BY <1>3
  <2> QED BY <2>1 DEF SinrAlone
<1>5. \A c \in R : c.start # e.start
  <2>1. frame \in Nat /\ FrameBurst(e) /\ \A c \in R : FrameBurst(c)
    BY DEF FrameIs, ReplicasOf
  <2> QED BY <1>1, <2>1, BurstTimes
<1>6. OthersInSlot(e, gone \cup R) = OthersInSlot(e, gone)
  BY <1>5 DEF OthersInSlot
<1> QED BY <1>4, <1>6 DEF ReachesAlone

-----------------------------------------------------------------------------
(* The state of the successive interference cancellation, of a container F *)
(* and the packets P that left it, in a phase, when those of R are being   *)
(* received.                                                               *)

DecodedBy(P) == {b \in bursts : \E packet \in P : ~packet.phyError /\ SamePacket(packet.burst, b)}
WaitingFor(P, R) == {b \in Own \ R : \A packet \in P : ~SamePacket(packet.burst, b)}

\* A packet has left once, decoded for a reason.
Combined(P, ph) ==
  /\ IsFiniteSet(P) /\ P \subseteq [burst : Own, phyError : BOOLEAN]
  /\ \A p, q \in P : SamePacket(p.burst, q.burst) => p = q
  /\ ph = "receive" => P = {}
  /\ ph \in {"sic", "marsala"} => \A p \in P : ~p.phyError
  /\ \A p \in P : ~p.phyError =>
       \E b \in bursts : SamePacket(b, p.burst) /\ Reaches(b, SinrNever, DecodedBy(P))

\* What is known of a packet that waits is exact; it is not tried again for a
\* reason.
JudgedPacket(packet, D, ph) ==
  /\ packet.ifPower = EnergyOver(packet.burst, D)
  /\ packet.packetHasBeenProcessed => ph # "receive" /\ ~ReachesAlone(packet.burst, SinrAlways, D)
  /\ ph \in {"marsala", "cleanup"} => packet.packetHasBeenProcessed
Judged(F, D, ph) == \A s \in DOMAIN F : \A i \in 1 .. Len(F[s]) : JudgedPacket(F[s][i], D, ph)

\* Nothing can be gained any more.
GivenUp(D, ph) == ph = "cleanup" => \A b \in Own \ D : ~Reaches(b, SinrAlways, D)

CrdsaState(F, P, ph, R) ==
  /\ Lists(F, WaitingFor(P, R)) /\ Combined(P, ph) /\ Judged(F, DecodedBy(P), ph)
  /\ GivenUp(DecodedBy(P), ph)

\* The replicas of a packet that waits.
LEMMA WaitingReplicas ==
  ASSUME FrameIs, NEW P, NEW b \in WaitingFor(P, {})
  PROVE  /\ b \in Own /\ b \in bursts /\ ReplicasOf(b) \subseteq WaitingFor(P, {})
         /\ ReplicasOf(b) \cap DecodedBy(P) = {}
         /\ \A phyError : WaitingFor(P \cup {Packet(b, phyError)}, {}) = WaitingFor(P, {}) \ ReplicasOf(b)
         /\ DecodedBy(P \cup {Packet(b, FALSE)}) = DecodedBy(P) \cup ReplicasOf(b)
         /\ DecodedBy(P \cup {Packet(b, TRUE)}) = DecodedBy(P)
<1>1. b \in Own /\ b \in bursts /\ b.sender \in OwnBeam /\ \A packet \in P : ~SamePacket(packet.burst, b)
  BY DEF WaitingFor, Own
<1>2. \A phyError : Packet(b, phyError).burst = b
  BY DEF Packet
<1>3. Packet(b, TRUE).phyError /\ ~Packet(b, FALSE).phyError
  BY DEF Packet
<1>4. ReplicasOf(b) \subseteq WaitingFor(P, {})
  BY <1>1 DEF ReplicasOf, WaitingFor, Own, SamePacket
<1>5. ReplicasOf(b) \cap DecodedBy(P) = {}
  BY <1>1 DEF ReplicasOf, DecodedBy, SamePacket
<1>6. ASSUME NEW phyError
      PROVE  WaitingFor(P \cup {Packet(b, phyError)}, {}) = WaitingFor(P, {}) \ ReplicasOf(b)
  <2> DEFINE q == Packet(b, phyError)
  <2>1. q.burst = b
    BY <1>2
  <2> HIDE DEF q
  <2>2. WaitingFor(P \cup {q}, {}) \subseteq WaitingFor(P, {}) \ ReplicasOf(b)
    BY <2>1 DEF WaitingFor, ReplicasOf, SamePacket
  <2>3. WaitingFor(P, {}) \ ReplicasOf(b) \subseteq WaitingFor(P \cup {q}, {})
    BY <2>1 DEF WaitingFor, ReplicasOf, SamePacket, Own
  <2> QED BY <2>2, <2>3 DEF q
<1>7. DecodedBy(P \cup {Packet(b, FALSE)}) = DecodedBy(P) \cup ReplicasOf(b)
  <2> DEFINE q == Packet(b, FALSE)
  <2>1. q.burst = b /\ ~q.phyError
    BY <1>2, <1>3
  <2> HIDE DEF q
  <2>2. DecodedBy(P \cup {q}) = DecodedBy(P) \cup ReplicasOf(b)
    BY <2>1 DEF DecodedBy, ReplicasOf, SamePacket
  <2> QED BY <2>2 DEF q
<1>8. DecodedBy(P \cup {Packet(b, TRUE)}) = DecodedBy(P)
  <2> DEFINE q == Packet(b, TRUE)
  <2>1. q.phyError
    BY <1>3
  <2> HIDE DEF q
  <2>2. DecodedBy(P \cup {q}) = DecodedBy(P)
    BY <2>1 DEF DecodedBy
  <2> QED BY <2>2 DEF q
<1> QED BY <1>1, <1>4, <1>5, <1>6, <1>7, <1>8

\* One more packet leaves the container.
LEMMA CombinedMore ==
  ASSUME FrameIs, NEW P, NEW ph, Combined(P, ph), NEW b \in WaitingFor(P, {}),
         NEW phyError \in BOOLEAN, NEW next \in {"sic", "marsala", "cleanup"},
         next # "cleanup" => ph \in {"sic", "marsala"} /\ ~phyError,
         ~phyError => Reaches(b, SinrNever, DecodedBy(P))
  PROVE  Combined(P \cup {Packet(b, phyError)}, next)
<1> DEFINE q == Packet(b, phyError)
           Q == P \cup {q}
<1>1. b \in Own /\ b \in bursts /\ \A packet \in P : ~SamePacket(packet.burst, b)
  BY DEF WaitingFor, Own
<1>2. q.burst = b /\ q \in [burst : Own, phyError : BOOLEAN]
  BY <1>1 DEF Packet
<1>3. q.phyError <=> phyError
  BY DEF Packet
<1> HIDE DEF q
<1>4. IsFiniteSet(Q) /\ Q \subseteq [burst : Own, phyError : BOOLEAN]
  BY <1>2, FS_AddElement DEF Combined
<1>5. \A p, r \in Q : SamePacket(p.burst, r.burst) => p = r
  BY <1>1, <1>2 DEF Combined, SamePacket
<1>6. DecodedBy(P) \subseteq DecodedBy(Q)
  BY DEF DecodedBy
<1>7. ASSUME NEW p \in Q, ~p.phyError
      PROVE  \E c \in bursts : SamePacket(c, p.burst) /\ Reaches(c, SinrNever, DecodedBy(Q))
  <2>1. \E c \in bursts : SamePacket(c, p.burst) /\ Reaches(c, SinrNever, DecodedBy(P))
    <3>1. CASE p = q
      BY <1>1, <1>2, <1>3, <1>7, <3>1 DEF SamePacket
    <3>2. CASE p # q
      BY <1>7, <3>2 DEF Combined
    <3> QED BY <3>1, <3>2
  <2>2. PICK c \in bursts : SamePacket(c, p.burst) /\ Reaches(c, SinrNever, DecodedBy(P))
    BY <2>1
  <2>3. SinrNever \in Nat
    BY CarrierAssumption
  <2>4. Reaches(c, SinrNever, DecodedBy(Q))
    <3> DEFINE D == DecodedBy(P)
               E == DecodedBy(Q)
    <3>1. D \subseteq E /\ Reaches(c, SinrNever, D)
      BY <1>6, <2>2
    <3> HIDE DEF D, E
    <3>2. Reaches(c, SinrNever, E)
      BY <2>3, <3>1, ReachesMore
    <3> QED BY <3>2 DEF E
  <2> QED BY <2>2, <2>4
<1>8. next \in {"sic", "marsala"} => \A p \in Q : ~p.phyError
  BY <1>3 DEF Combined
<1> QED BY <1>4, <1>5, <1>7, <1>8 DEF Combined, q

\* The interference of a packet is taken out of a slot.
LEMMA EliminatedHolds ==
  ASSUME FrameIs, NEW L, NEW s, NEW W, SlotHolds(L, s, W), NEW packet, BurstOk(packet.burst)
  PROVE  /\ SlotHolds(Eliminate(L, packet), s, W) /\ Len(Eliminate(L, packet)) = Len(L)
         /\ \A k \in 1 .. Len(L) : /\ Eliminate(L, packet)[k].burst = L[k].burst
                                   /\ Eliminate(L, packet)[k].ifPower = L[k].ifPower - Energy(packet.burst)
                                   /\ ~Eliminate(L, packet)[k].packetHasBeenProcessed
                                   /\ Eliminate(L, packet)[k] \in Waiting
<1> DEFINE N == Eliminate(L, packet)
           n == Len(L)
<1>1. L \in Seq(Waiting) /\ n \in Nat /\ DOMAIN L = 1 .. n
  BY DEF SlotHolds
<1>2. Energy(packet.burst) \in Int
  BY EnergyType
<1>3. ASSUME NEW k \in 1 .. n
      PROVE  /\ N[k].burst = L[k].burst /\ N[k].ifPower = L[k].ifPower - Energy(packet.burst)
             /\ ~N[k].packetHasBeenProcessed /\ N[k] \in Waiting
  <2>1. L[k] \in Waiting
    BY <1>1
  <2>2. N[k] = [L[k] EXCEPT !.ifPower = L[k].ifPower - Energy(packet.burst),
                            !.packetHasBeenProcessed = FALSE]
    BY <1>1 DEF Eliminate
  <2>3. L[k].ifPower - Energy(packet.burst) \in Int
    BY <1>2, <2>1 DEF Waiting
  <2> HIDE DEF N
  <2>4. PICK w : w = L[k]
    OBVIOUS
  <2>5. PICK p : p = L[k].ifPower - Energy(packet.burst)
    OBVIOUS
  <2>6. N[k] = [w EXCEPT !.ifPower = p, !.packetHasBeenProcessed = FALSE] /\ w \in Waiting /\ p \in Int
    BY <2>1, <2>2, <2>3, <2>4, <2>5
  <2>7. /\ N[k].burst = w.burst /\ N[k].ifPower = p
        /\ ~N[k].packetHasBeenProcessed /\ N[k] \in Waiting
    BY <2>6, ZenonT(60) DEF Waiting
  <2> QED BY <2>4, <2>5, <2>7
<1>4. N \in [1 .. n -> Waiting]
  <2>1. DOMAIN N = 1 .. n /\ N = [k \in 1 .. n |-> N[k]]
    BY <1>1 DEF Eliminate
  <2> HIDE DEF N
  <2> QED BY <1>3, <2>1
<1> HIDE DEF N
<1>5. N \in Seq(Waiting) /\ Len(N) = n
  <2> HIDE DEF n
  <2> QED BY <1>1, <1>4
<1> QED BY <1>1, <1>3, <1>5, SMTT(30) DEF N, n, SlotHolds

\* What waits for its slot is in it.
LEMMA InContainer ==
  ASSUME NEW F, NEW W, W \subseteq Own, Lists(F, W), NEW s \in DOMAIN F, NEW i \in 1 .. Len(F[s])
  PROVE  /\ F[s] \in Seq(Waiting) /\ Len(F[s]) \in Nat /\ DOMAIN F[s] = 1 .. Len(F[s])
         /\ F[s][i] \in Waiting /\ F[s][i].burst \in W /\ F[s][i].burst \in bursts
         /\ F[s][i].burst.slot = s /\ s \in Slot
<1>1. SlotHolds(F[s], s, W) /\ s \in Slot
  BY DEF Lists
<1>2. F[s] \in Seq(Waiting) /\ F[s][i].burst \in W /\ F[s][i].burst.slot = s
  BY <1>1 DEF SlotHolds
<1>3. F[s][i] \in Waiting
  BY <1>2, SeqElement
<1> QED BY <1>1, <1>2, <1>3 DEF Own

\* A packet is decoded.
LEMMA CrdsaDecodes ==
  ASSUME FrameIs, NEW ph \in {"sic", "marsala"},
         CrdsaState(m_crdsaPacketContainer, combinedPackets, ph, {}),
         NEW slot \in DOMAIN m_crdsaPacketContainer,
         NEW i \in 1 .. Len(m_crdsaPacketContainer[slot]),
         Reaches(m_crdsaPacketContainer[slot][i].burst, SinrNever, DecodedBy(combinedPackets)),
         Decode(slot, i)
  PROVE  CrdsaState(m_crdsaPacketContainer', combinedPackets', "sic", {}) /\ fatal' = FALSE
<1> DEFINE F == m_crdsaPacketContainer
           P == combinedPackets
           W == WaitingFor(P, {})
           D == DecodedBy(P)
           N == Removed(slot, i)
           C == Cancelled(slot, i)
<1>1. PICK packet : packet = F[slot][i]
  OBVIOUS
<1> DEFINE b == packet.burst
           R == ReplicasOf(b)
           V == W \ R
<1>2. W \subseteq Own /\ Lists(F, W) /\ Combined(P, ph) /\ Judged(F, D, ph)
  BY DEF CrdsaState, WaitingFor
<1>3. F[slot] \in Seq(Waiting) /\ packet \in Waiting /\ b \in W /\ b \in bursts /\ b.slot = slot
  <2> HIDE DEF F, W
  <2> QED BY <1>1, <1>2, InContainer DEF F
<1>4. R \subseteq W /\ R \cap D = {}
      /\ WaitingFor(P \cup {Packet(b, FALSE)}, {}) = V
      /\ DecodedBy(P \cup {Packet(b, FALSE)}) = D \cup R
  <2> HIDE DEF P
  <2> QED BY <1>3, WaitingReplicas
<1>5. m_crdsaPacketContainer' = C /\ combinedPackets' = P \cup {Packet(b, FALSE)}
  BY <1>1 DEF Decode
<1>6. /\ ReplicasCanBeFound(packet)
      /\ DOMAIN N = DOMAIN F /\ Lists(N, V)
      /\ \A s \in DOMAIN F : \A k \in 1 .. Len(N[s]) : \E j \in 1 .. Len(F[s]) : N[s][k] = F[s][j]
  <2> HIDE DEF W, N
  <2>1. IsTransmission(bursts)
    BY DEF FrameIs
  <2>2. /\ W \subseteq Own /\ Lists(m_crdsaPacketContainer, W)
        /\ packet = m_crdsaPacketContainer[slot][i] /\ ReplicasOf(packet.burst) \subseteq W
    BY <1>1, <1>2, <1>4
  <2> HIDE DEF F, P, D, C, b, R, V
  <2>3. /\ ReplicasCanBeFound(packet)
        /\ DOMAIN Removed(slot, i) = DOMAIN m_crdsaPacketContainer
        /\ Lists(Removed(slot, i), W \ ReplicasOf(packet.burst))
        /\ \A s \in DOMAIN m_crdsaPacketContainer : \A k \in 1 .. Len(Removed(slot, i)[s]) :
             \E j \in 1 .. Len(m_crdsaPacketContainer[s]) :
               Removed(slot, i)[s][k] = m_crdsaPacketContainer[s][j]
    BY <2>1, <2>2, RemovedHolds, ZenonT(60)
  <2> QED BY <2>3 DEF N, F, V, R, b
<1>7. /\ C = [s \in {s \in DOMAIN N : s \in b.slots => N[s] # <<>>} |->
                IF s \in b.slots THEN Eliminate(N[s], packet) ELSE N[s]]
  <2> HIDE DEF N
  <2> QED BY <1>1 DEF Cancelled, N
<1> HIDE DEF F, P, W, D, N, C, R, V
<1>8. /\ DOMAIN C \subseteq DOMAIN F /\ C = [s \in DOMAIN C |-> C[s]]
      /\ \A s \in DOMAIN C : C[s] = IF s \in b.slots THEN Eliminate(N[s], packet) ELSE N[s]
      /\ \A s \in DOMAIN F : (s \in b.slots => N[s] # <<>>) => s \in DOMAIN C
  BY <1>6, <1>7
<1>9. BurstOk(b) /\ Energy(b) \in Nat
  BY <1>3, EnergyType DEF FrameIs
<1>10. ASSUME NEW s \in DOMAIN C
       PROVE  /\ SlotHolds(C[s], s, V)
              /\ \A k \in 1 .. Len(C[s]) : JudgedPacket(C[s][k], D \cup R, "sic")
  <2>1. SlotHolds(N[s], s, V) /\ s \in DOMAIN F
    BY <1>6, <1>8 DEF Lists
  <2>2. ASSUME NEW k \in 1 .. Len(N[s])
        PROVE  /\ N[s][k].burst \in bursts /\ N[s][k].burst \notin R /\ N[s][k].burst.slot = s
               /\ JudgedPacket(N[s][k], D, ph)
    <3>1. PICK j \in 1 .. Len(F[s]) : N[s][k] = F[s][j]
      BY <1>6, <2>1
    <3>2. N[s][k].burst \in V /\ N[s][k].burst.slot = s
      BY <2>1 DEF SlotHolds
    <3>3. JudgedPacket(F[s][j], D, ph)
      BY <1>2, <2>1 DEF Judged
    <3> QED BY <1>2, <3>1, <3>2, <3>3 DEF V, Own
  <2>3. CASE s \notin b.slots
    <3>1. C[s] = N[s]
      BY <1>8, <2>3
    <3>2. ASSUME NEW k \in 1 .. Len(N[s]) PROVE JudgedPacket(N[s][k], D \cup R, "sic")
      <4> DEFINE e == N[s][k].burst
      <4>1. /\ e \in bursts /\ e \notin R /\ e.slot \notin b.slots
            /\ N[s][k].ifPower = EnergyOver(e, D)
            /\ N[s][k].packetHasBeenProcessed => ~ReachesAlone(e, SinrAlways, D)
        BY <2>2, <2>3 DEF JudgedPacket
      <4> HIDE DEF e
      <4>2. EnergyOver(e, D \cup R) = EnergyOver(e, D) - 0 /\ EnergyOver(e, D) \in Nat
        <5>1. EnergyOver(e, D) \in Nat
          BY <4>1, EnergyMonotone
        <5> QED BY <1>3, <1>4, <4>1, <5>1, EnergyCancelled DEF R
      <4>3. ReachesAlone(e, SinrAlways, D \cup R) <=> ReachesAlone(e, SinrAlways, D)
        BY <1>3, <1>4, <4>1, ReachesElsewhere DEF R
      <4>4. EnergyOver(e, D \cup R) = EnergyOver(e, D)
        BY <4>2
      <4> QED BY <4>1, <4>3, <4>4 DEF JudgedPacket, e
    <3> QED BY <2>1, <3>1, <3>2
  <2>4. CASE s \in b.slots
    <3> DEFINE L == N[s]
               M == Eliminate(L, packet)
    <3>1. C[s] = M
      BY <1>8, <2>4
    <3>2. SlotHolds(L, s, V) /\ \A k \in 1 .. Len(L) : L[k].burst \in bursts /\ L[k].burst \notin R /\ L[k].burst.slot = s
                                                      /\ L[k].ifPower = EnergyOver(L[k].burst, D)
      BY <2>1, <2>2 DEF JudgedPacket
    <3> HIDE DEF L
    <3>3. /\ SlotHolds(M, s, V) /\ Len(M) = Len(L)
          /\ \A k \in 1 .. Len(L) : /\ M[k].burst = L[k].burst /\ M[k].ifPower = L[k].ifPower - Energy(b)
                                    /\ ~M[k].packetHasBeenProcessed
      BY <1>9, <3>2, EliminatedHolds
    <3> HIDE DEF M
    <3>4. ASSUME NEW k \in 1 .. Len(M) PROVE JudgedPacket(M[k], D \cup R, "sic")
      <4> DEFINE e == L[k].burst
      <4>1. /\ e \in bursts /\ e \notin R /\ e.slot \in b.slots /\ M[k].burst = e
            /\ M[k].ifPower = EnergyOver(e, D) - Energy(b) /\ ~M[k].packetHasBeenProcessed
        BY <2>4, <3>2, <3>3
      <4> HIDE DEF e
      <4>2. EnergyOver(e, D \cup R) = EnergyOver(e, D) - Energy(b)
        BY <1>3, <1>4, <4>1, EnergyCancelled DEF R
      <4> QED BY <4>1, <4>2 DEF JudgedPacket
    <3> QED BY <3>1, <3>3, <3>4
  <2> QED BY <2>3, <2>4
<1>11. Lists(C, V)
  <2>1. ASSUME NEW c \in V PROVE c.slot \in DOMAIN C
    <3>1. c.slot \in DOMAIN N /\ SlotHolds(N[c.slot], c.slot, V)
      BY <1>6 DEF Lists
    <3>2. PICK k \in 1 .. Len(N[c.slot]) : N[c.slot][k].burst = c
      BY <3>1 DEF SlotHolds
    <3>3. N[c.slot] # <<>>
      BY <3>2
    <3> QED BY <1>6, <1>8, <3>1, <3>3
  <2>2. DOMAIN C \subseteq Slot
    BY <1>2, <1>8 DEF Lists
  <2> QED BY <1>8, <1>10, <2>1, <2>2 DEF Lists
<1>12. Judged(C, D \cup R, "sic")
  BY <1>10 DEF Judged
<1>13. Combined(P \cup {Packet(b, FALSE)}, "sic")
  <2>1. Reaches(b, SinrNever, D)
    BY <1>1 DEF F, D, P
  <2>2. b \in WaitingFor(P, {})
    BY <1>3 DEF W
  <2> QED BY <1>2, <2>1, <2>2, CombinedMore DEF D
<1>14. CrdsaState(C, P \cup {Packet(b, FALSE)}, "sic", {})
  BY <1>4, <1>11, <1>12, <1>13 DEF CrdsaState, GivenUp
<1>15. \A s \in DOMAIN C : \A j \in DOMAIN C[s] : ~(C[s][j].ifPower < 0)
  <2>1. ASSUME NEW s \in DOMAIN C, NEW j \in DOMAIN C[s] PROVE ~(C[s][j].ifPower < 0)
    <3>1. V \subseteq Own
      BY <1>2 DEF V
    <3>2. SlotHolds(C[s], s, V)
      BY <1>10
    <3>3. j \in 1 .. Len(C[s])
      BY <3>2 DEF SlotHolds
    <3>4. C[s][j].burst \in bursts
      BY <1>11, <3>1, <3>3, InContainer
    <3>5. C[s][j].ifPower = EnergyOver(C[s][j].burst, D \cup R)
      BY <1>10, <3>3 DEF JudgedPacket
    <3>6. EnergyOver(C[s][j].burst, D \cup R) \in Nat
      BY <3>4, EnergyMonotone
    <3> QED BY <3>5, <3>6
  <2> QED BY <2>1
<1>16. fatal' = FALSE
  <2>1. fatal' = \/ ~ReplicasCanBeFound(packet)
                 \/ \E s \in DOMAIN C : \E j \in DOMAIN C[s] : C[s][j].ifPower < 0
    BY <1>1, <1>5 DEF Decode, F
  <2> QED BY <1>6, <1>15, <2>1
<1> QED BY <1>5, <1>14, <1>16

-----------------------------------------------------------------------------
(* Where the packets are, and what is found out about each. *)

LEMMA SlotNumbers == Slot \subseteq Nat
<1>1. Cardinality(Slot) \in Nat
  BY FrameAssumption, FS_CardinalityType
<1> QED BY <1>1, FrameAssumption

\* A slot holds at most one burst of each UT.
LEMMA PlacesAre ==
  ASSUME FrameIs, NEW W, W \subseteq Own, Lists(m_crdsaPacketContainer, W)
  PROVE  /\ \A s \in DOMAIN m_crdsaPacketContainer : \A i \in 1 .. Len(m_crdsaPacketContainer[s]) :
              <<s, i>> \in Places
         /\ \A p \in Places : /\ p = <<p[1], p[2]>> /\ p[1] \in DOMAIN m_crdsaPacketContainer
                              /\ p[2] \in 1 .. Len(m_crdsaPacketContainer[p[1]])
                              /\ p[1] \in Nat /\ p[2] \in Nat /\ p[1] \in Slot
                              /\ p[2] \in 1 .. Cardinality(Sender)
         /\ IsFiniteSet(Places)
<1> DEFINE F == m_crdsaPacketContainer
           n == Cardinality(Sender)
<1>1. \A s \in DOMAIN F : /\ s \in Slot /\ SlotHolds(F[s], s, W) /\ DOMAIN F[s] = 1 .. Len(F[s])
                          /\ Len(F[s]) \in Nat
  <2>1. \A s \in DOMAIN F : s \in Slot /\ SlotHolds(F[s], s, W)
    BY DEF Lists
  <2> QED BY <2>1 DEF SlotHolds
<1>2. IsFiniteSet(Sender) /\ n \in Nat
  BY CarrierAssumption, FS_CardinalityType
<1> HIDE DEF F, n
<1>3. ASSUME NEW s \in DOMAIN F PROVE Len(F[s]) <= n
  <2> DEFINE L == F[s]
             m == Len(L)
             f == [i \in 1 .. m |-> L[i].burst.sender]
  <2>1. m \in Nat /\ \A i \in 1 .. m : L[i].burst \in W /\ L[i].burst.slot = s
    BY <1>1 DEF SlotHolds
  <2>2. \A i, j \in 1 .. m : L[i].burst = L[j].burst => i = j
    BY <1>1 DEF SlotHolds
  <2>3. \A i \in 1 .. m : L[i].burst \in bursts /\ L[i].burst.sender \in Sender
    <3>1. \A i \in 1 .. m : L[i].burst \in bursts
      BY <2>1 DEF Own
    <3> QED BY <3>1 DEF FrameIs, BurstOk
  <2> HIDE DEF L, m
  <2>4. ASSUME NEW i \in 1 .. m, NEW j \in 1 .. m, L[i].burst.sender = L[j].burst.sender PROVE i = j
    <3>1. L[i].burst \in bursts /\ L[j].burst \in bursts /\ L[j].burst.slot = L[i].burst.slot
      BY <2>1, <2>3
    <3>2. L[j].burst = L[i].burst
      BY <2>4, <3>1, ReplicaFacts DEF FrameIs
    <3> QED BY <2>2, <3>2
  <2>5. IsFiniteSet(1 .. m) /\ Cardinality(1 .. m) = m
    BY <2>1, FirstNumbers
  <2>6. f \in Injection(1 .. m, Sender)
    BY <2>3, <2>4 DEF Injection, IsInjective
  <2>7. Cardinality(1 .. m) <= n
    <3> HIDE DEF f
    <3> QED BY <1>2, <2>5, <2>6, FS_Injection DEF n
  <2> QED BY <2>5, <2>7 DEF L, m
<1>4. ASSUME NEW s \in DOMAIN F, NEW i \in 1 .. Len(F[s]) PROVE <<s, i>> \in Places
  <2>1. s \in Slot /\ i \in DOMAIN F[s] /\ i \in 1 .. n
    BY <1>1, <1>2, <1>3
  <2> QED BY <2>1 DEF Places, F, n
<1>5. ASSUME NEW p \in Places
      PROVE  /\ p = <<p[1], p[2]>> /\ p[1] \in DOMAIN F /\ p[2] \in 1 .. Len(F[p[1]])
             /\ p[1] \in Nat /\ p[2] \in Nat /\ p[1] \in Slot /\ p[2] \in 1 .. n
  <2>1. p \in Slot \X (1 .. n) /\ p[1] \in DOMAIN F /\ p[2] \in DOMAIN F[p[1]]
    BY DEF Places, F, n
  <2>2. p[1] \in Nat
    <3>1. p[1] \in Slot
      BY <2>1
    <3> QED BY <3>1, SlotNumbers
  <2> QED BY <1>1, <1>2, <2>1, <2>2
<1>6. IsFiniteSet(Places)
  <2>1. IsFiniteSet(1 .. n) /\ IsFiniteSet(Slot)
    BY <1>2, FirstNumbers, FrameAssumption
  <2>2. IsFiniteSet(Slot \X (1 .. n))
    BY <2>1, FS_Product
  <2>3. Places \subseteq Slot \X (1 .. n)
    BY DEF Places, n
  <2> QED BY <2>2, <2>3, FS_Subset
<1> QED BY <1>4, <1>5, <1>6 DEF F, n

\* Some place comes first.
LEMMA FirstOfPlaces ==
  ASSUME NEW T, T # {}, NEW n \in Nat, \A p \in T : p = <<p[1], p[2]>> /\ p[1] \in Nat /\ p[2] \in Nat
  PROVE  First(T) \in T /\ \A q \in T : First(T) = q \/ Before(First(T), q)
<1> DEFINE A == {p[1] : p \in T}
<1>1. A \in SUBSET Nat /\ A # {}
  OBVIOUS
<1>2. PICK a \in A : \A x \in A : a <= x
  <2> HIDE DEF A
  <2> QED BY <1>1, LeastNatural
<1> DEFINE B == {p[2] : p \in {p \in T : p[1] = a}}
<1>3. B \in SUBSET Nat /\ B # {}
  BY <1>2
<1>4. PICK b \in B : \A x \in B : b <= x
  <2> HIDE DEF B
  <2> QED BY <1>3, LeastNatural
<1>5. PICK p \in T : p[1] = a /\ p[2] = b
  BY <1>4
<1>6. ASSUME NEW q \in T PROVE p = q \/ Before(p, q)
  <2>1. a <= q[1] /\ (q[1] = a => b <= q[2])
    BY <1>2, <1>4
  <2>2. q = <<q[1], q[2]>> /\ p = <<p[1], p[2]>> /\ q[1] \in Nat /\ q[2] \in Nat /\ a \in Nat /\ b \in Nat
    BY <1>5
  <2> QED BY <1>5, <2>1, <2>2 DEF Before
<1>7. \E x \in T : \A q \in T : x = q \/ Before(x, q)
  BY <1>6
<1> QED BY <1>7, Zenon DEF First

\* What is waiting, at a place.
LEMMA AtPlace ==
  ASSUME FrameIs, NEW ph \in {"sic", "marsala"},
         CrdsaState(m_crdsaPacketContainer, combinedPackets, ph, {}), NEW p \in Places
  PROVE  /\ p[1] \in DOMAIN m_crdsaPacketContainer
         /\ p[2] \in 1 .. Len(m_crdsaPacketContainer[p[1]])
         /\ PacketAt(p) \in Waiting /\ PacketAt(p) = m_crdsaPacketContainer[p[1]][p[2]]
         /\ PacketAt(p).burst \in WaitingFor(combinedPackets, {})
         /\ PacketAt(p).burst \in bursts /\ PacketAt(p).burst \in Own /\ PacketAt(p).burst.slot = p[1]
         /\ JudgedPacket(PacketAt(p), DecodedBy(combinedPackets), ph)
<1> DEFINE W == WaitingFor(combinedPackets, {})
           F == m_crdsaPacketContainer
<1>1. W \subseteq Own /\ Lists(F, W)
  BY DEF CrdsaState, WaitingFor
<1>2. p[1] \in DOMAIN F /\ p[2] \in 1 .. Len(F[p[1]])
  <2> HIDE DEF W
  <2> QED BY <1>1, PlacesAre
<1>3. /\ F[p[1]][p[2]] \in Waiting /\ F[p[1]][p[2]].burst \in W /\ F[p[1]][p[2]].burst \in bursts
      /\ F[p[1]][p[2]].burst.slot = p[1]
  <2> HIDE DEF W, F
  <2> QED BY <1>1, <1>2, InContainer
<1>4. JudgedPacket(F[p[1]][p[2]], DecodedBy(combinedPackets), ph)
  BY <1>2 DEF CrdsaState, Judged
<1> QED BY <1>1, <1>2, <1>3, <1>4 DEF PacketAt

LEMMA TurnErrors ==
  ASSUME FrameIs, NEW ph \in {"sic", "marsala"},
         CrdsaState(m_crdsaPacketContainer, combinedPackets, ph, {}), NEW p \in Places
  PROVE  /\ CrdsaErrors(p) \subseteq BOOLEAN
         /\ FALSE \in CrdsaErrors(p) =>
              Reaches(PacketAt(p).burst, SinrNever, DecodedBy(combinedPackets))
         /\ TRUE \in CrdsaErrors(p) =>
              ~ReachesAlone(PacketAt(p).burst, SinrAlways, DecodedBy(combinedPackets))
<1> DEFINE F == m_crdsaPacketContainer
           W == WaitingFor(combinedPackets, {})
           D == DecodedBy(combinedPackets)
           b == PacketAt(p).burst
           L == F[p[1]]
           drop == m_randomAccessCollisionModel = "drop colliding"
           x == SinrAlone(b, D)
<1>1. /\ p[1] \in DOMAIN F /\ p[2] \in 1 .. Len(L) /\ PacketAt(p) = L[p[2]]
      /\ b \in W /\ b \in bursts /\ b \in Own /\ b.slot = p[1]
      /\ PacketAt(p).ifPower = EnergyOver(b, D)
  BY AtPlace DEF JudgedPacket
<1>2. SlotHolds(L, p[1], W) /\ Len(L) \in Nat
  <2>1. SlotHolds(L, p[1], W)
    BY <1>1 DEF CrdsaState, Lists
  <2> QED BY <2>1 DEF SlotHolds
<1>3. x \in Nat
  BY <1>1, SinrMonotone
<1>4. CrdsaErrors(p) = IF drop /\ Len(L) > 1 THEN {TRUE} ELSE LinkErrors(x)
  BY <1>1 DEF CrdsaErrors, SinrAlone
<1> HIDE DEF L, x
<1>5. /\ LinkErrors(x) \subseteq BOOLEAN
      /\ TRUE \in LinkErrors(x) <=> x < SinrAlways
      /\ FALSE \in LinkErrors(x) <=> x >= SinrNever
  <2>1. x \in Int
    BY <1>3
  <2> QED BY <2>1, ErrorOf, Zenon
<1>6. Len(L) > 1 => OthersInSlot(b, D) # {}
  <2>1. ASSUME Len(L) > 1 PROVE OthersInSlot(b, D) # {}
    <3>1. PICK i \in 1 .. Len(L) : i # p[2]
      <4>1. 1 \in 1 .. Len(L) /\ 2 \in 1 .. Len(L)
        BY <1>2, <2>1
      <4> QED BY <4>1
    <3> DEFINE c == L[i].burst
    <3>2. c \in W /\ c.slot = b.slot /\ c # b
      BY <1>1, <1>2, <3>1 DEF SlotHolds, L
    <3>3. c \in Own /\ c \in bursts /\ c \notin D
      BY <3>2 DEF WaitingFor, DecodedBy, Own, SamePacket
    <3>4. c.start = b.start
      <4>1. frame \in Nat /\ FrameBurst(b) /\ FrameBurst(c)
        BY <1>1, <3>3 DEF FrameIs
      <4> HIDE DEF c, b
      <4> QED BY <3>2, <4>1, BurstTimes
    <3> HIDE DEF c, D
    <3> QED BY <3>2, <3>3, <3>4 DEF OthersInSlot
  <2> QED BY <2>1
<1>7. ~(Len(L) > 1) => OthersInSlot(b, D) = {}
  <2>1. ASSUME NEW c \in OthersInSlot(b, D) PROVE Len(L) > 1
    <3>1. c \in Own /\ c \in bursts /\ c \notin D /\ c # b /\ c.start = b.start
      BY DEF OthersInSlot, Own
    <3>2. c.slot = b.slot
      <4>1. frame \in Nat /\ FrameBurst(b) /\ FrameBurst(c)
        BY <1>1, <3>1 DEF FrameIs
      <4> HIDE DEF b
      <4> QED BY <3>1, <4>1, BurstTimes
    <3>3. c \in W
      <4>1. \A packet \in combinedPackets : ~packet.phyError
        BY DEF CrdsaState, Combined
      <4>2. \A packet \in combinedPackets : ~SamePacket(packet.burst, c)
        BY <3>1, <4>1 DEF DecodedBy
      <4> QED BY <3>1, <4>2 DEF WaitingFor
    <3>4. PICK i \in 1 .. Len(L) : L[i].burst = c
      BY <1>1, <1>2, <3>2, <3>3 DEF SlotHolds
    <3>5. i # p[2]
      BY <1>1, <3>1, <3>4 DEF L
    <3>6. p[2] \in 1 .. Len(L)
      BY <1>1 DEF L
    <3> QED BY <1>2, <3>5, <3>6
  <2> QED BY <2>1
<1>8. SinrAlways \in Nat /\ SinrNever \in Nat
  BY CarrierAssumption
<1> HIDE DEF b, D
<1>9. CrdsaErrors(p) \subseteq BOOLEAN
  <2>1. {TRUE} \subseteq BOOLEAN
    OBVIOUS
  <2>2. CASE drop /\ Len(L) > 1
    <3>1. CrdsaErrors(p) = {TRUE}
      BY <1>4, <2>2
    <3> QED BY <2>1, <3>1, Zenon
  <2>3. CASE ~(drop /\ Len(L) > 1)
    <3>1. CrdsaErrors(p) = LinkErrors(x)
      BY <1>4, <2>3
    <3> QED BY <1>5, <3>1, Zenon
  <2> QED BY <2>2, <2>3
<1>10. ASSUME FALSE \in CrdsaErrors(p) PROVE Reaches(b, SinrNever, D)
  <2>1. ~(drop /\ Len(L) > 1)
    BY <1>4, <1>10
  <2>2. FALSE \in LinkErrors(x)
    BY <1>4, <1>10, <2>1
  <2>3. SinrAlone(b, D) >= SinrNever
    BY <1>5, <2>2 DEF x
  <2>4. drop => OthersInSlot(b, D) = {}
    BY <1>7, <2>1
  <2> QED BY <2>3, <2>4 DEF Reaches
<1>11. ASSUME TRUE \in CrdsaErrors(p) PROVE ~ReachesAlone(b, SinrAlways, D)
  <2>1. CASE drop /\ Len(L) > 1
    BY <1>6, <2>1 DEF ReachesAlone
  <2>2. CASE ~(drop /\ Len(L) > 1)
    <3>1. TRUE \in LinkErrors(x)
      BY <1>4, <1>11, <2>2
    <3>2. x < SinrAlways
      BY <1>5, <3>1, Zenon
    <3>3. ~(x >= SinrAlways)
      BY <1>3, <1>8, <3>2
    <3> QED BY <3>3 DEF ReachesAlone, x
  <2> QED BY <2>1, <2>2
<1> QED BY <1>9, <1>10, <1>11 DEF b, D

\* What waits is at some place, and at one only.
LEMMA PlaceOf ==
  ASSUME FrameIs, NEW ph \in {"sic", "marsala"},
         CrdsaState(m_crdsaPacketContainer, combinedPackets, ph, {})
  PROVE  /\ \A c \in WaitingFor(combinedPackets, {}) : \E q \in Places : PacketAt(q).burst = c
         /\ \A q, r \in Places : PacketAt(q).burst = PacketAt(r).burst => q = r
<1> DEFINE W == WaitingFor(combinedPackets, {})
           F == m_crdsaPacketContainer
<1>1. W \subseteq Own /\ Lists(F, W)
  BY DEF CrdsaState, WaitingFor
<1>2. ASSUME NEW c \in W PROVE \E q \in Places : PacketAt(q).burst = c
  <2>1. c.slot \in DOMAIN F /\ SlotHolds(F[c.slot], c.slot, W)
    BY <1>1 DEF Lists
  <2>2. PICK k \in 1 .. Len(F[c.slot]) : F[c.slot][k].burst = c
    BY <2>1 DEF SlotHolds
  <2>3. <<c.slot, k>> \in Places
    <3> HIDE DEF W
    <3> QED BY <1>1, <2>1, PlacesAre
  <2>4. PacketAt(<<c.slot, k>>).burst = c
    BY <2>2 DEF PacketAt
  <2> QED BY <2>3, <2>4
<1>3. ASSUME NEW q \in Places, NEW r \in Places, PacketAt(q).burst = PacketAt(r).burst PROVE q = r
  <2>1. /\ q[1] \in DOMAIN F /\ q[2] \in 1 .. Len(F[q[1]]) /\ PacketAt(q) = F[q[1]][q[2]]
        /\ PacketAt(q).burst.slot = q[1]
        /\ r[1] \in DOMAIN F /\ r[2] \in 1 .. Len(F[r[1]]) /\ PacketAt(r) = F[r[1]][r[2]]
        /\ PacketAt(r).burst.slot = r[1]
    BY AtPlace
  <2>2. q[1] = r[1]
    BY <1>3, <2>1
  <2>3. SlotHolds(F[q[1]], q[1], W)
    BY <1>1, <2>1 DEF Lists
  <2>4. q[2] = r[2]
    BY <1>3, <2>1, <2>2, <2>3 DEF SlotHolds
  <2>5. q = <<q[1], q[2]>> /\ r = <<r[1], r[2]>>
    <3> HIDE DEF W
    <3> QED BY <1>1, PlacesAre
  <2> QED BY <2>2, <2>4, <2>5
<1> QED BY <1>2, <1>3

\* MARSALA works out the SINR of all the replicas.
LEMMA CorrelatedIs ==
  ASSUME FrameIs, NEW ph \in {"sic", "marsala"},
         CrdsaState(m_crdsaPacketContainer, combinedPackets, ph, {}), NEW p \in Places
  PROVE  CorrelatedSinr(p) = SinrCombined(PacketAt(p).burst, DecodedBy(combinedPackets))
<1> DEFINE W == WaitingFor(combinedPackets, {})
           D == DecodedBy(combinedPackets)
           b == PacketAt(p).burst
           R == ReplicasOf(b)
           Q == ReplicaPlaces(p)
           n == Cardinality(R)
           f == [c \in R |-> EnergyOver(c, D)]
           g == [q \in Q |-> PacketAt(q).ifPower]
           m == [q \in Q |-> PacketAt(q).burst]
           h == [c \in R |-> Energy(c)]
<1>1. b \in W /\ b \in bursts /\ b.slot = p[1]
  BY AtPlace
<1>2. R \subseteq W
  BY <1>1, WaitingReplicas
<1> HIDE DEF b
<1>3. /\ \A s \in b.slots : ReplicaIn(b, s) \in R /\ ReplicaIn(b, s).slot = s
      /\ \A c \in R : /\ c.slot \in b.slots /\ c.slots = b.slots /\ c.sender = b.sender
                      /\ c = ReplicaIn(b, c.slot)
      /\ \A c \in bursts : c.sender = b.sender /\ c.slots \cap b.slots # {} => c \in R
      /\ b \in R /\ b.slot \in b.slots
  BY <1>1, ReplicaFacts DEF FrameIs
<1>4. IsFiniteSet(R) /\ R \subseteq bursts /\ n \in Nat
  BY <1>1, ReplicasFinite
<1>5. Cardinality(b.slots) = n
  <2> DEFINE k == [c \in R |-> c.slot]
  <2>1. k \in Bijection(R, b.slots)
    BY <1>3 DEF Bijection, Injection, Surjection, IsInjective
  <2>2. ExistsBijection(R, b.slots)
    BY <2>1 DEF ExistsBijection
  <2> QED BY <1>4, <2>2, FS_Bijection
<1>6. SumFunction(h) = n * Energy(b) /\ Energy(b) \in Int
  <2>1. ASSUME NEW c \in R PROVE Energy(c) = Energy(b)
    <3>1. frame \in Nat /\ FrameBurst(c) /\ FrameBurst(b)
      BY <1>1, <1>4 DEF FrameIs
    <3>2. Duration(c) = SlotDuration - GuardTime /\ Duration(b) = SlotDuration - GuardTime
      BY <3>1, BurstTimes
    <3> QED BY <1>3, <3>2 DEF Energy
  <2>2. Energy(b) \in Int
    BY <1>1, EnergyType DEF FrameIs
  <2>3. DOMAIN h = R /\ \A c \in R : h[c] = Energy(b)
    BY <2>1
  <2> HIDE DEF h, R, n
  <2>4. SumFunctionOnSet(h, R) = Cardinality(R) * Energy(b)
    BY <1>4, <2>2, <2>3, SumOfEqual
  <2> QED BY <2>2, <2>3, <2>4 DEF SumFunction, n
<1>7. IsFiniteSet(Q) /\ Q \subseteq Places
  <2>1. IsFiniteSet(Places)
    <3>1. W \subseteq Own /\ Lists(m_crdsaPacketContainer, W)
      BY DEF CrdsaState, WaitingFor
    <3> HIDE DEF W
    <3> QED BY <3>1, PlacesAre
  <2>2. Q \subseteq Places
    BY DEF ReplicaPlaces
  <2> QED BY <2>1, <2>2, FS_Subset
<1>8. {m[q] : q \in Q} = R
  <2>1. ASSUME NEW q \in Q PROVE m[q] \in R
    <3>1. m[q] = PacketAt(q).burst /\ q \in Places
      BY <1>7
    <3>2. PacketAt(q).burst \in bursts
      BY <3>1, AtPlace
    <3>3. CASE q = p
      BY <1>3, <3>1, <3>3 DEF b
    <3>4. CASE q # p
      <4>1. IsReplica(PacketAt(p), PacketAt(q))
        BY <3>4 DEF ReplicaPlaces
      <4>2. PacketAt(q).burst.sender = b.sender /\ b.slots \subseteq PacketAt(q).burst.slots
        BY <4>1 DEF IsReplica, b
      <4>3. b.slot \in PacketAt(q).burst.slots \cap b.slots
        BY <1>3, <4>2
      <4> QED BY <1>3, <3>1, <3>2, <4>2, <4>3
    <3> QED BY <3>3, <3>4
  <2>2. ASSUME NEW c \in R PROVE \E q \in Q : m[q] = c
    <3>1. PICK q \in Places : PacketAt(q).burst = c
      BY <1>2, PlaceOf
    <3>2. CASE c = b
      <4>1. p \in Q
        BY DEF ReplicaPlaces
      <4>2. m[p] = b
        BY <4>1 DEF b
      <4> QED BY <3>2, <4>1, <4>2
    <3>3. CASE c # b
      <4>1. c.slot # b.slot
        BY <1>3, <3>3
      <4>2. q[1] = c.slot
        BY <3>1, AtPlace
      <4>3. q[1] \in OtherSlots(PacketAt(p))
        BY <1>3, <4>1, <4>2 DEF OtherSlots, b
      <4>4. IsReplica(PacketAt(p), PacketAt(q))
        BY <1>3, <3>1 DEF IsReplica, b
      <4>5. q \in Q
        BY <4>3, <4>4 DEF ReplicaPlaces
      <4> QED BY <3>1, <4>5
    <3> QED BY <3>2, <3>3
  <2> HIDE DEF m, Q, R
  <2>3. {m[q] : q \in Q} \subseteq R
    BY <2>1
  <2>4. R \subseteq {m[q] : q \in Q}
    BY <2>2
  <2> QED BY <2>3, <2>4
<1>9. SumFunction(g) = SumFunction(f)
  <2>1. ASSUME NEW q \in Q PROVE g[q] \in Int /\ g[q] = f[m[q]]
    <3>1. q \in Places /\ g[q] = PacketAt(q).ifPower /\ m[q] = PacketAt(q).burst
      BY <1>7
    <3>2. PacketAt(q).burst \in bursts /\ PacketAt(q).ifPower = EnergyOver(PacketAt(q).burst, D)
      BY <3>1, AtPlace DEF JudgedPacket
    <3>3. m[q] \in R
      BY <1>8
    <3>4. f[m[q]] = EnergyOver(m[q], D)
      BY <3>3
    <3>5. EnergyOver(m[q], D) \in Nat
      BY <1>4, <3>3, EnergyMonotone
    <3> HIDE DEF f, g, m
    <3> QED BY <3>1, <3>2, <3>4, <3>5
  <2>2. \A q, r \in Q : m[q] = m[r] => q = r
    BY <1>7, PlaceOf
  <2>3. DOMAIN f = R /\ DOMAIN g = Q
    OBVIOUS
  <2> HIDE DEF f, g, m, R, Q
  <2>4. SumFunctionOnSet(f, {m[q] : q \in Q}) = SumFunctionOnSet(g, Q)
    BY <1>7, <2>1, <2>2, SumRenamed
  <2> QED BY <1>8, <2>3, <2>4 DEF SumFunction
<1>10. n * n * Energy(b) = n * SumFunction(h)
  <2>1. \A x \in Nat, y \in Int : x * x * y = x * (x * y)
    OBVIOUS
  <2> QED BY <1>4, <1>6, <2>1
<1>11. SinrCombined(b, D) = Sinr(n * SumFunction(h), SumFunction(f), n * Noise * Duration(b))
  BY SinrCombinedIs
<1>12. CorrelatedSinr(p) = Sinr(n * n * Energy(b), SumFunction(g), n * Noise * Duration(b))
  <2> HIDE DEF n, R
  <2> QED BY <1>5 DEF CorrelatedSinr, b
<1> HIDE DEF n, f, g, h
<1> QED BY <1>9, <1>10, <1>11, <1>12 DEF b

\* A packet is marked as processed.
LEMMA MarkedHolds ==
  ASSUME NEW L, NEW s, NEW W, SlotHolds(L, s, W), NEW i \in 1 .. Len(L), NEW M,
         M = [L EXCEPT ![i].packetHasBeenProcessed = TRUE]
  PROVE  /\ SlotHolds(M, s, W) /\ Len(M) = Len(L)
         /\ \A k \in 1 .. Len(L) : k # i => M[k] = L[k]
         /\ M[i].burst = L[i].burst /\ M[i].ifPower = L[i].ifPower /\ M[i].packetHasBeenProcessed
<1>1. L \in Seq(Waiting) /\ Len(L) \in Nat /\ DOMAIN L = 1 .. Len(L)
  BY DEF SlotHolds
<1>2. \A k \in 1 .. Len(L) : L[k] \in Waiting
  BY <1>1, SeqElement
<1>3. M = [L EXCEPT ![i] = [L[i] EXCEPT !.packetHasBeenProcessed = TRUE]]
  OBVIOUS
<1> DEFINE r == [L[i] EXCEPT !.packetHasBeenProcessed = TRUE]
<1>4. r \in Waiting /\ r.burst = L[i].burst /\ r.ifPower = L[i].ifPower /\ r.packetHasBeenProcessed
  BY <1>2 DEF Waiting
<1> HIDE DEF r
<1>5. M \in Seq(Waiting) /\ Len(M) = Len(L) /\ M[i] = r /\ \A k \in 1 .. Len(L) : k # i => M[k] = L[k]
  BY <1>1, <1>3, <1>4 DEF r
<1>6. \A k \in 1 .. Len(L) : M[k].burst = L[k].burst
  BY <1>4, <1>5
<1> QED BY <1>4, <1>5, <1>6 DEF SlotHolds

\* A packet is tried.
LEMMA CrdsaTurn ==
  ASSUME FrameIs, phase = "sic",
         CrdsaState(m_crdsaPacketContainer, combinedPackets, "sic", {}), fatal = FALSE, SicTurn
  PROVE  CrdsaState(m_crdsaPacketContainer', combinedPackets', "sic", {}) /\ fatal' = FALSE
<1> DEFINE F == m_crdsaPacketContainer
           W == WaitingFor(combinedPackets, {})
           D == DecodedBy(combinedPackets)
<1>2. PICK p : p = First(Unprocessed)
  OBVIOUS
<1>3. p \in Places
  <2>1. Unprocessed \subseteq Places /\ Unprocessed # {}
    BY DEF SicTurn, Unprocessed
  <2>2. \A q \in Unprocessed : q = <<q[1], q[2]>> /\ q[1] \in Nat /\ q[2] \in Nat
    <3>1. W \subseteq Own /\ Lists(F, W)
      BY DEF CrdsaState, WaitingFor
    <3> HIDE DEF W
    <3> QED BY <2>1, <3>1, PlacesAre
  <2>3. 0 \in Nat
    OBVIOUS
  <2>4. First(Unprocessed) \in Unprocessed
    BY <2>1, <2>2, <2>3, FirstOfPlaces
  <2> QED BY <1>2, <2>1, <2>4
<1>4. /\ p[1] \in DOMAIN F /\ p[2] \in 1 .. Len(F[p[1]]) /\ PacketAt(p) = F[p[1]][p[2]]
      /\ JudgedPacket(F[p[1]][p[2]], D, "sic")
  BY <1>3, AtPlace
<1>5. PICK phyError \in CrdsaErrors(p) :
        IF phyError
        THEN /\ m_crdsaPacketContainer' =
                  [m_crdsaPacketContainer EXCEPT ![p[1]][p[2]].packetHasBeenProcessed = TRUE]
             /\ UNCHANGED <<combinedPackets, fatal>>
        ELSE Decode(p[1], p[2])
  BY <1>2 DEF SicTurn
<1>6. /\ CrdsaErrors(p) \subseteq BOOLEAN
      /\ FALSE \in CrdsaErrors(p) => Reaches(PacketAt(p).burst, SinrNever, D)
      /\ TRUE \in CrdsaErrors(p) => ~ReachesAlone(PacketAt(p).burst, SinrAlways, D)
  BY <1>3, TurnErrors
<1>7. CASE phyError = FALSE
  <2>1. Decode(p[1], p[2]) /\ Reaches(F[p[1]][p[2]].burst, SinrNever, D)
    BY <1>4, <1>5, <1>6, <1>7
  <2> QED BY <1>4, <2>1, CrdsaDecodes
<1>8. CASE phyError = TRUE
  <2> DEFINE C == m_crdsaPacketContainer'
             M == [F[p[1]] EXCEPT ![p[2]].packetHasBeenProcessed = TRUE]
  <2>1. C = [F EXCEPT ![p[1]] = M] /\ combinedPackets' = combinedPackets /\ fatal' = fatal
    BY <1>5, <1>8
  <2>2. SlotHolds(F[p[1]], p[1], W)
    BY <1>4 DEF CrdsaState, Lists
  <2>3. /\ SlotHolds(M, p[1], W) /\ Len(M) = Len(F[p[1]])
        /\ \A k \in 1 .. Len(F[p[1]]) : k # p[2] => M[k] = F[p[1]][k]
        /\ M[p[2]].burst = F[p[1]][p[2]].burst /\ M[p[2]].ifPower = F[p[1]][p[2]].ifPower
        /\ M[p[2]].packetHasBeenProcessed
    BY <1>4, <2>2, MarkedHolds
  <2>4. ~ReachesAlone(F[p[1]][p[2]].burst, SinrAlways, D)
    BY <1>4, <1>6, <1>8
  <2> HIDE DEF M, W, F, D, C
  <2>5. F = [s \in DOMAIN F |-> F[s]] /\ Lists(F, W) /\ Judged(F, D, "sic")
    BY DEF CrdsaState, Lists, F, W, D
  <2>6. DOMAIN C = DOMAIN F /\ C = [s \in DOMAIN C |-> C[s]] /\ C[p[1]] = M
        /\ \A s \in DOMAIN F : s # p[1] => C[s] = F[s]
    BY <1>4, <2>1, <2>5
  <2>7. Lists(C, W)
    BY <2>3, <2>5, <2>6 DEF Lists
  <2>8. Judged(C, D, "sic")
    <3>1. ASSUME NEW s \in DOMAIN C, NEW i \in 1 .. Len(C[s]) PROVE JudgedPacket(C[s][i], D, "sic")
      <4>1. CASE s # p[1]
        BY <2>5, <2>6, <4>1 DEF Judged
      <4>2. CASE s = p[1] /\ i # p[2]
        <5>1. C[s][i] = F[s][i] /\ s \in DOMAIN F /\ i \in 1 .. Len(F[s])
          BY <2>3, <2>6, <4>2
        <5> QED BY <2>5, <5>1 DEF Judged
      <4>3. CASE s = p[1] /\ i = p[2]
        <5>1. C[s][i] = M[p[2]]
          BY <2>6, <4>3
        <5> QED BY <1>4, <2>3, <2>4, <5>1 DEF JudgedPacket
      <4> QED BY <4>1, <4>2, <4>3
    <3> QED BY <3>1 DEF Judged
  <2>9. Combined(combinedPackets, "sic") /\ GivenUp(D, "sic")
    BY DEF CrdsaState, GivenUp
  <2>10. CrdsaState(C, combinedPackets, "sic", {})
    BY <2>7, <2>8, <2>9 DEF CrdsaState, W, D
  <2> QED BY <2>1, <2>10 DEF C
<1> QED BY <1>5, <1>6, <1>7, <1>8

\* Nothing is left to process.
LEMMA CrdsaSicEnds ==
  ASSUME FrameIs, CrdsaState(m_crdsaPacketContainer, combinedPackets, "sic", {}), Unprocessed = {},
         NEW next, next = IF m_randomAccessModel = "MARSALA" THEN "marsala" ELSE "cleanup"
  PROVE  CrdsaState(m_crdsaPacketContainer, combinedPackets, next, {})
<1> DEFINE F == m_crdsaPacketContainer
           P == combinedPackets
           W == WaitingFor(P, {})
           D == DecodedBy(P)
<1>1. W \subseteq Own /\ Lists(F, W) /\ Judged(F, D, "sic") /\ Combined(P, "sic")
  BY DEF CrdsaState, WaitingFor
<1>2. next \in {"marsala", "cleanup"} /\ (next = "cleanup" => m_randomAccessModel # "MARSALA")
  OBVIOUS
<1>3. ASSUME NEW s \in DOMAIN F, NEW i \in 1 .. Len(F[s])
      PROVE  F[s][i].packetHasBeenProcessed /\ JudgedPacket(F[s][i], D, next)
  <2>1. <<s, i>> \in Places
    <3> HIDE DEF W
    <3> QED BY <1>1, PlacesAre
  <2>2. F[s][i].packetHasBeenProcessed
    BY <2>1 DEF Unprocessed, PacketAt
  <2>3. JudgedPacket(F[s][i], D, "sic")
    BY <1>1 DEF Judged
  <2> QED BY <1>2, <2>2, <2>3 DEF JudgedPacket
<1>4. Judged(F, D, next)
  BY <1>3 DEF Judged
<1>5. Combined(P, next)
  BY <1>1, <1>2 DEF Combined
<1>6. ASSUME next = "cleanup", NEW b \in Own \ D PROVE ~Reaches(b, SinrAlways, D)
  <2>1. b \in W
    BY <1>1 DEF WaitingFor, DecodedBy, Own, Combined
  <2>2. PICK q \in Places : PacketAt(q).burst = b
    BY <2>1, PlaceOf
  <2>3. q[1] \in DOMAIN F /\ q[2] \in 1 .. Len(F[q[1]]) /\ PacketAt(q) = F[q[1]][q[2]]
    BY <2>2, AtPlace
  <2>4. ~ReachesAlone(b, SinrAlways, D)
    BY <1>3, <2>2, <2>3 DEF JudgedPacket
  <2> HIDE DEF D
  <2> QED BY <1>2, <1>6, <2>4 DEF Reaches, ReachesAlone
<1>7. GivenUp(D, next)
  BY <1>6 DEF GivenUp
<1> QED BY <1>1, <1>4, <1>5, <1>7 DEF CrdsaState

\* MARSALA decodes a packet, or none.
LEMMA MarsalaLevel ==
  ASSUME FrameIs, CrdsaState(m_crdsaPacketContainer, combinedPackets, "marsala", {}),
         NEW p \in Places
  PROVE  /\ FALSE \in LinkErrors(CorrelatedSinr(p)) =>
              SinrCombined(PacketAt(p).burst, DecodedBy(combinedPackets)) >= SinrNever
         /\ TRUE \in LinkErrors(CorrelatedSinr(p)) =>
              ~(SinrCombined(PacketAt(p).burst, DecodedBy(combinedPackets)) >= SinrAlways)
<1> DEFINE x == SinrCombined(PacketAt(p).burst, DecodedBy(combinedPackets))
<1>1. CorrelatedSinr(p) = x
  BY CorrelatedIs
<1>2. x \in Nat
  <2>1. PacketAt(p).burst \in bursts
    BY AtPlace
  <2> QED BY <2>1, SinrMonotone
<1> HIDE DEF x
<1>3. /\ TRUE \in LinkErrors(x) <=> x < SinrAlways
      /\ FALSE \in LinkErrors(x) <=> x >= SinrNever
  <2>1. x \in Int
    BY <1>2
  <2> QED BY <2>1, ErrorOf, Zenon
<1>4. x < SinrAlways => ~(x >= SinrAlways)
  BY <1>2, CarrierAssumption
<1> QED BY <1>1, <1>3, <1>4, Zenon DEF x

LEMMA CrdsaMarsalaDecodes ==
  ASSUME FrameIs, CrdsaState(m_crdsaPacketContainer, combinedPackets, "marsala", {}),
         m_randomAccessModel = "MARSALA", MarsalaDecodes
  PROVE  CrdsaState(m_crdsaPacketContainer', combinedPackets', "sic", {}) /\ fatal' = FALSE
<1>1. PICK p \in Places : FALSE \in LinkErrors(CorrelatedSinr(p)) /\ Decode(p[1], p[2])
  BY DEF MarsalaDecodes
<1>2. /\ p[1] \in DOMAIN m_crdsaPacketContainer
      /\ p[2] \in 1 .. Len(m_crdsaPacketContainer[p[1]])
      /\ PacketAt(p) = m_crdsaPacketContainer[p[1]][p[2]]
  BY AtPlace
<1>3. Reaches(m_crdsaPacketContainer[p[1]][p[2]].burst, SinrNever, DecodedBy(combinedPackets))
  BY <1>1, <1>2, MarsalaLevel DEF Reaches
<1> QED BY <1>1, <1>2, <1>3, CrdsaDecodes

LEMMA CrdsaMarsalaEnds ==
  ASSUME FrameIs, CrdsaState(m_crdsaPacketContainer, combinedPackets, "marsala", {}),
         \A p \in Places : TRUE \in LinkErrors(CorrelatedSinr(p))
  PROVE  CrdsaState(m_crdsaPacketContainer, combinedPackets, "cleanup", {})
<1> DEFINE F == m_crdsaPacketContainer
           P == combinedPackets
           W == WaitingFor(P, {})
           D == DecodedBy(P)
<1>1. W \subseteq Own /\ Lists(F, W) /\ Judged(F, D, "marsala") /\ Combined(P, "marsala")
  BY DEF CrdsaState, WaitingFor
<1>2. Judged(F, D, "cleanup") /\ Combined(P, "cleanup")
  BY <1>1 DEF Judged, JudgedPacket, Combined
<1>3. ASSUME NEW b \in Own \ D PROVE ~Reaches(b, SinrAlways, D)
  <2>1. b \in W
    BY <1>1 DEF WaitingFor, DecodedBy, Own, Combined
  <2>2. PICK q \in Places : PacketAt(q).burst = b
    BY <2>1, PlaceOf
  <2>3. JudgedPacket(PacketAt(q), D, "marsala")
    BY <2>2, AtPlace
  <2>4. ~ReachesAlone(b, SinrAlways, D)
    BY <2>2, <2>3 DEF JudgedPacket
  <2>5. ~(SinrCombined(b, D) >= SinrAlways)
    BY <2>2, MarsalaLevel
  <2> HIDE DEF D
  <2> QED BY <2>4, <2>5 DEF Reaches, ReachesAlone
<1> QED BY <1>1, <1>2, <1>3 DEF CrdsaState, GivenUp

\* A slot without packets is erased.
LEMMA ErasedHolds ==
  ASSUME NEW F, NEW W, NEW s \in DOMAIN F, Lists(F, W), F[s] = <<>>
  PROVE  /\ Lists(MapErase(F, s), W)
         /\ \A D, ph : Judged(F, D, ph) => Judged(MapErase(F, s), D, ph)
<1> DEFINE C == MapErase(F, s)
<1>1. DOMAIN C = DOMAIN F \ {s} /\ C = [x \in DOMAIN C |-> C[x]] /\ \A x \in DOMAIN C : C[x] = F[x]
  BY DEF MapErase
<1> HIDE DEF C
<1>2. ASSUME NEW b \in W PROVE b.slot \in DOMAIN C
  <2>1. b.slot \in DOMAIN F /\ SlotHolds(F[b.slot], b.slot, W)
    BY DEF Lists
  <2>2. PICK k \in 1 .. Len(F[b.slot]) : F[b.slot][k].burst = b
    BY <2>1 DEF SlotHolds
  <2>3. b.slot # s
    BY <2>2
  <2> QED BY <1>1, <2>1, <2>3
<1>3. Lists(C, W)
  BY <1>1, <1>2 DEF Lists
<1>4. \A D, ph : Judged(F, D, ph) => Judged(C, D, ph)
  BY <1>1 DEF Judged
<1> QED BY <1>3, <1>4 DEF C

LEMMA CrdsaCleansUp ==
  ASSUME FrameIs, CrdsaState(m_crdsaPacketContainer, combinedPackets, "cleanup", {}),
         fatal = FALSE, CleanUp
  PROVE  CrdsaState(m_crdsaPacketContainer', combinedPackets', "cleanup", {}) /\ fatal' = FALSE
<1> DEFINE F == m_crdsaPacketContainer
           P == combinedPackets
           W == WaitingFor(P, {})
           D == DecodedBy(P)
<1>1. /\ W \subseteq Own /\ Lists(F, W) /\ Judged(F, D, "cleanup") /\ Combined(P, "cleanup")
      /\ GivenUp(D, "cleanup")
  BY DEF CrdsaState, WaitingFor
<1>2. PICK slot : slot = Min(DOMAIN F)
  OBVIOUS
<1>3. slot \in DOMAIN F
  <2>1. DOMAIN F # {}
    <3>1. F = [s \in DOMAIN F |-> F[s]] /\ F # EmptyMap
      BY <1>1 DEF Lists, CleanUp
    <3>2. ASSUME DOMAIN F = {} PROVE F = EmptyMap
      <4> HIDE DEF F
      <4> QED BY <3>1, <3>2 DEF EmptyMap
    <3> QED BY <3>1, <3>2
  <2>2. DOMAIN F \in SUBSET Nat
    BY <1>1, SlotNumbers DEF Lists
  <2>3. \E x \in DOMAIN F : \A y \in DOMAIN F : x <= y
    <3> HIDE DEF F
    <3> QED BY <2>1, <2>2, LeastNatural
  <2> HIDE DEF F
  <2> QED BY <1>2, <2>3 DEF Min
<1>4. CASE F[slot] = <<>>
  <2>1. m_crdsaPacketContainer' = MapErase(F, slot) /\ UNCHANGED <<combinedPackets, fatal>>
    BY <1>2, <1>4 DEF CleanUp
  <2>2. Lists(MapErase(F, slot), W) /\ Judged(MapErase(F, slot), D, "cleanup")
    <3> HIDE DEF F, W, D
    <3> QED BY <1>1, <1>3, <1>4, ErasedHolds
  <2> QED BY <1>1, <2>1, <2>2 DEF CrdsaState
<1>5. CASE F[slot] # <<>>
  <2> DEFINE N == Removed(slot, 1)
  <2>1. F[slot] \in Seq(Waiting)
    BY <1>1, <1>3 DEF Lists, SlotHolds
  <2>2. 1 \in 1 .. Len(F[slot]) /\ Head(F[slot]) = F[slot][1]
    <3> HIDE DEF F
    <3> QED BY <1>5, <2>1
  <2>3. PICK packet : packet = F[slot][1]
    OBVIOUS
  <2> DEFINE b == packet.burst
             R == ReplicasOf(b)
             V == W \ R
  <2>4. packet \in Waiting /\ b \in W /\ JudgedPacket(packet, D, "cleanup")
    <3>1. JudgedPacket(packet, D, "cleanup")
      BY <1>1, <1>3, <2>2, <2>3 DEF Judged
    <3>2. packet \in Waiting /\ b \in W
      <4> HIDE DEF F, W
      <4> QED BY <1>1, <1>3, <2>2, <2>3, InContainer
    <3> QED BY <3>1, <3>2
  <2>5. R \subseteq W /\ WaitingFor(P \cup {Packet(b, TRUE)}, {}) = V
        /\ DecodedBy(P \cup {Packet(b, TRUE)}) = D
    <3> HIDE DEF P
    <3> QED BY <2>4, WaitingReplicas
  <2>6. /\ fatal' = (~packet.packetHasBeenProcessed \/ ~ReplicasCanBeFound(packet))
        /\ combinedPackets' = P \cup {Packet(b, TRUE)}
        /\ m_crdsaPacketContainer' = IF N[slot] = <<>> THEN MapErase(N, slot) ELSE N
    <3> HIDE DEF N
    <3> QED BY <1>2, <1>5, <2>2, <2>3 DEF CleanUp, N
  <2>7. /\ ReplicasCanBeFound(packet)
        /\ DOMAIN N = DOMAIN F /\ Lists(N, V)
        /\ \A s \in DOMAIN F : \A k \in 1 .. Len(N[s]) : \E j \in 1 .. Len(F[s]) : N[s][k] = F[s][j]
    <3> HIDE DEF W, N
    <3>1. IsTransmission(bursts)
      BY DEF FrameIs
    <3>2. /\ W \subseteq Own /\ Lists(m_crdsaPacketContainer, W) /\ slot \in DOMAIN m_crdsaPacketContainer
          /\ 1 \in 1 .. Len(m_crdsaPacketContainer[slot])
          /\ packet = m_crdsaPacketContainer[slot][1] /\ ReplicasOf(packet.burst) \subseteq W
      BY <1>1, <1>3, <2>2, <2>3, <2>5
    <3> HIDE DEF F, V, R, b
    <3>3. PICK i : i = 1
      OBVIOUS
    <3>4. i \in 1 .. Len(m_crdsaPacketContainer[slot]) /\ packet = m_crdsaPacketContainer[slot][i]
      BY <3>2, <3>3
    <3> HIDE DEF P, D
    <3>5. /\ ReplicasCanBeFound(packet)
          /\ DOMAIN Removed(slot, i) = DOMAIN m_crdsaPacketContainer
          /\ Lists(Removed(slot, i), W \ ReplicasOf(packet.burst))
          /\ \A s \in DOMAIN m_crdsaPacketContainer : \A k \in 1 .. Len(Removed(slot, i)[s]) :
               \E j \in 1 .. Len(m_crdsaPacketContainer[s]) :
                 Removed(slot, i)[s][k] = m_crdsaPacketContainer[s][j]
      BY <3>1, <3>2, <3>4, RemovedHolds, ZenonT(60)
    <3>6. N = Removed(slot, i)
      BY <3>3 DEF N
    <3> QED BY <3>5, <3>6 DEF F, V, R, b
  <2> HIDE DEF N, F, D
  <2>8. Judged(N, D, "cleanup")
    <3>1. ASSUME NEW s \in DOMAIN N, NEW k \in 1 .. Len(N[s]) PROVE JudgedPacket(N[s][k], D, "cleanup")
      <4>1. PICK j \in 1 .. Len(F[s]) : N[s][k] = F[s][j]
        BY <2>7
      <4>2. JudgedPacket(F[s][j], D, "cleanup")
        BY <1>1, <2>7 DEF Judged
      <4> QED BY <4>1, <4>2
    <3> QED BY <3>1 DEF Judged
  <2>9. Combined(P \cup {Packet(b, TRUE)}, "cleanup")
    <3>1. TRUE \in BOOLEAN /\ b \in WaitingFor(P, {}) /\ Combined(P, "cleanup")
      BY <1>1, <2>4
    <3> QED BY <3>1, CombinedMore
  <2>10. fatal' = FALSE
    <3>1. packet.packetHasBeenProcessed
      BY <2>4 DEF JudgedPacket
    <3> QED BY <2>6, <2>7, <3>1
  <2>11. slot \in DOMAIN N
    BY <1>3, <2>7
  <2>12. Lists(m_crdsaPacketContainer', V) /\ Judged(m_crdsaPacketContainer', D, "cleanup")
    <3>1. CASE N[slot] = <<>>
      <4>1. m_crdsaPacketContainer' = MapErase(N, slot)
        BY <2>6, <3>1
      <4>2. Lists(MapErase(N, slot), V) /\ Judged(MapErase(N, slot), D, "cleanup")
        <5> HIDE DEF V
        <5> QED BY <2>7, <2>8, <2>11, <3>1, ErasedHolds
      <4> QED BY <4>1, <4>2
    <3>2. CASE N[slot] # <<>>
      BY <2>6, <2>7, <2>8, <3>2
    <3> QED BY <3>1, <3>2
  <2>13. CrdsaState(m_crdsaPacketContainer', P \cup {Packet(b, TRUE)}, "cleanup", {})
    <3> HIDE DEF V, b
    <3> QED BY <1>1, <2>5, <2>9, <2>12 DEF CrdsaState
  <2> QED BY <2>6, <2>10, <2>13
<1> QED BY <1>4, <1>5

-----------------------------------------------------------------------------
(* The results of a frame. *)

FrameOnce(H) ==
  \A b \in Own :
    /\ Cardinality({i \in DOMAIN H : SamePacket(H[i].burst, b) /\ H[i].phyError = FALSE}
                   \cup {i \in DOMAIN H : SamePacket(H[i].burst, b) /\ H[i].phyError = TRUE}) = 1
    /\ \A i, j \in DOMAIN H :
         m_randomAccessModel # "SLOTTED_ALOHA" /\ i < j /\ H[i].burst.sender = H[j].burst.sender
           => H[i].burst.id < H[j].burst.id
FrameJustified(H) ==
  \A i \in DOMAIN H :
    IF m_randomAccessModel = "SLOTTED_ALOHA" THEN SlottedAlohaJustified(H[i])
    ELSE CrdsaJustified(H[i])

\* A packet is handed up once.
LEMMA OnlyOne ==
  ASSUME NEW H, NEW i \in DOMAIN H, NEW b, \A k \in DOMAIN H : H[k].phyError \in BOOLEAN,
         \A k \in DOMAIN H : SamePacket(H[k].burst, b) <=> k = i
  PROVE  Cardinality({k \in DOMAIN H : SamePacket(H[k].burst, b) /\ H[k].phyError = FALSE}
                     \cup {k \in DOMAIN H : SamePacket(H[k].burst, b) /\ H[k].phyError = TRUE}) = 1
<1> DEFINE A == {k \in DOMAIN H : SamePacket(H[k].burst, b) /\ H[k].phyError = FALSE}
           B == {k \in DOMAIN H : SamePacket(H[k].burst, b) /\ H[k].phyError = TRUE}
<1>1. H[i].phyError = TRUE \/ H[i].phyError = FALSE
  OBVIOUS
<1>2. A \cup B = {i}
  <2>1. A \cup B \subseteq {i}
    OBVIOUS
  <2>2. i \in A \cup B
    BY <1>1
  <2> HIDE DEF A, B
  <2> QED BY <2>1, <2>2
<1> HIDE DEF A, B
<1>3. Cardinality({i}) = 1
  BY FS_Singleton
<1> QED BY <1>2, <1>3 DEF A, B

\* CRDSA and MARSALA, once the container is empty.
LEMMA CrdsaResults ==
  ASSUME FrameIs,
         CrdsaState(m_crdsaPacketContainer, combinedPackets, "cleanup", {}),
         m_crdsaPacketContainer = EmptyMap, ~Slotted, NEW H \in Sorted(combinedPackets)
  PROVE  FrameOnce(H) /\ FrameJustified(H)
<1> DEFINE P == combinedPackets
           D == DecodedBy(P)
           n == Cardinality(P)
<1>1. /\ Lists(m_crdsaPacketContainer, WaitingFor(P, {})) /\ Combined(P, "cleanup")
      /\ GivenUp(D, "cleanup")
  BY DEF CrdsaState
<1>2. WaitingFor(P, {}) = {}
  BY <1>1 DEF Lists, EmptyMap
<1>3. IsFiniteSet(P) /\ n \in Nat
  BY <1>1, FS_CardinalityType DEF Combined
<1>4. /\ H \in [1 .. n -> P] /\ DOMAIN H = 1 .. n /\ \A i, j \in 1 .. n : i # j => H[i] # H[j]
      /\ \A i, j \in 1 .. n : i < j => H[i].burst.id <= H[j].burst.id
  BY DEF Sorted, SetToSeqs
<1>5. \A p \in P : \E i \in 1 .. n : H[i] = p
  <2> HIDE DEF P, n
  <2>1. H \in Injection(1 .. n, P)
    BY <1>4 DEF Injection, IsInjective
  <2>2. Cardinality(1 .. n) = n
    BY <1>3, FirstNumbers
  <2>3. H \in Surjection(1 .. n, P)
    <3>1. Cardinality(1 .. n) = Cardinality(P)
      BY <2>2 DEF n
    <3> QED BY <1>3, <2>1, <3>1, FS_Injection
  <2> QED BY <2>3 DEF Surjection
<1> HIDE DEF n
<1>6. \A i \in 1 .. n : H[i] \in P /\ H[i] \in [burst : Own, phyError : BOOLEAN]
  BY <1>1, <1>4 DEF Combined
<1>7. \A i \in 1 .. n : H[i].burst \in Own /\ H[i].phyError \in BOOLEAN
  BY <1>6
<1>8. \A i, j \in 1 .. n : SamePacket(H[i].burst, H[j].burst) => i = j
  BY <1>1, <1>4, <1>6 DEF Combined
<1>9. FrameOnce(H)
  <2>1. ASSUME NEW b \in Own PROVE \E i \in 1 .. n : \A k \in 1 .. n : SamePacket(H[k].burst, b) <=> k = i
    <3>1. PICK p \in P : SamePacket(p.burst, b)
      BY <1>2 DEF WaitingFor
    <3>2. PICK i \in 1 .. n : H[i] = p
      BY <1>5
    <3>3. \A k \in 1 .. n : SamePacket(H[k].burst, b) => SamePacket(H[k].burst, H[i].burst)
      BY <3>1, <3>2 DEF SamePacket
    <3> QED BY <1>8, <3>1, <3>2, <3>3
  <2>2. ASSUME NEW b \in Own
        PROVE  Cardinality({i \in DOMAIN H : SamePacket(H[i].burst, b) /\ H[i].phyError = FALSE}
                   \cup {i \in DOMAIN H : SamePacket(H[i].burst, b) /\ H[i].phyError = TRUE}) = 1
    <3>1. PICK i \in DOMAIN H : \A k \in DOMAIN H : SamePacket(H[k].burst, b) <=> k = i
      BY <1>4, <2>1
    <3>2. \A k \in DOMAIN H : H[k].phyError \in BOOLEAN
      BY <1>4, <1>7
    <3> QED BY <3>1, <3>2, OnlyOne, ZenonT(60)
  <2>3. ASSUME NEW i \in 1 .. n, NEW j \in 1 .. n, i < j, H[i].burst.sender = H[j].burst.sender
        PROVE  H[i].burst.id < H[j].burst.id
    <3>1. H[i].burst.id # H[j].burst.id
      <4>1. i # j
        BY <1>3, <2>3
      <4> QED BY <1>8, <2>3, <4>1 DEF SamePacket
    <3>2. H[i].burst.id \in Nat /\ H[j].burst.id \in Nat
      BY <1>7 DEF FrameIs, Own, FrameBurst
    <3>3. H[i].burst.id <= H[j].burst.id
      BY <1>4, <2>3
    <3> QED BY <3>1, <3>2, <3>3
  <2> QED BY <1>4, <2>2, <2>3 DEF FrameOnce
<1>10. FrameJustified(H)
  <2>1. DecodedInFrame = D
    BY DEF DecodedInFrame, DecodedBy
  <2>2. ASSUME NEW i \in 1 .. n PROVE CrdsaJustified(H[i])
    <3>1. {b \in bursts : SamePacket(b, H[i].burst)} \subseteq Own
      BY <1>7 DEF Own, SamePacket
    <3>2. CASE H[i].phyError = TRUE
      <4>1. ASSUME NEW b \in bursts, SamePacket(b, H[i].burst) PROVE ~Reaches(b, SinrAlways, D)
        <5>1. b \notin D
          <6>1. ASSUME b \in D PROVE FALSE
            <7>1. PICK q \in P : ~q.phyError /\ SamePacket(q.burst, b)
              BY <6>1 DEF DecodedBy
            <7>2. SamePacket(q.burst, H[i].burst)
              BY <4>1, <7>1 DEF SamePacket
            <7>3. q = H[i]
              BY <1>1, <1>6, <7>2 DEF Combined
            <7> QED BY <3>2, <7>1, <7>3
          <6> QED BY <6>1
        <5>2. b \in Own
          BY <3>1, <4>1
        <5> QED BY <1>1, <5>1, <5>2 DEF GivenUp
      <4> HIDE DEF D
      <4> QED BY <2>1, <3>2, <4>1 DEF CrdsaJustified
    <3>3. CASE H[i].phyError = FALSE
      <4>1. PICK b \in bursts : SamePacket(b, H[i].burst) /\ Reaches(b, SinrNever, D)
        BY <1>1, <1>6, <3>3 DEF Combined
      <4> HIDE DEF D
      <4> QED BY <2>1, <3>3, <4>1 DEF CrdsaJustified
    <3> QED BY <1>7, <3>2, <3>3
  <2> QED BY <1>4, <2>2 DEF FrameJustified, Slotted
<1> QED BY <1>9, <1>10

-----------------------------------------------------------------------------
(* A frame of CRDSA while it is received. *)

Held(F, R) ==
  /\ Lists(F, Own \ R)
  /\ \A s \in DOMAIN F : \A i \in 1 .. Len(F[s]) :
       F[s][i].ifPower = EnergyOver(F[s][i].burst, {}) /\ ~F[s][i].packetHasBeenProcessed

LEMMA WhileReceived ==
  ASSUME NEW F, NEW P, NEW R
  PROVE  CrdsaState(F, P, "receive", R) <=> P = {} /\ Held(F, R)
<1>1. ASSUME P = {} PROVE WaitingFor(P, R) = Own \ R /\ DecodedBy(P) = {} /\ Combined(P, "receive")
  BY <1>1, FS_EmptySet DEF WaitingFor, DecodedBy, Combined
<1>2. Combined(P, "receive") => P = {}
  BY DEF Combined
<1>3. GivenUp({}, "receive")
  BY DEF GivenUp
<1>4. Judged(F, {}, "receive") <=>
        \A s \in DOMAIN F : \A i \in 1 .. Len(F[s]) :
          F[s][i].ifPower = EnergyOver(F[s][i].burst, {}) /\ ~F[s][i].packetHasBeenProcessed
  BY DEF Judged, JudgedPacket
<1> QED BY <1>1, <1>2, <1>3, <1>4 DEF CrdsaState, Held

\* A packet is put behind those of its slot.
LEMMA HeldMore ==
  ASSUME NEW F, NEW R, Held(F, R), NEW b, b \in Own, b \in R, b.slot \in Slot, NEW params,
         params \in Waiting, params.burst = b, params.ifPower = EnergyOver(b, {}),
         ~params.packetHasBeenProcessed, NEW L,
         L = IF b.slot \in DOMAIN F THEN F[b.slot] ELSE <<>>
  PROVE  Held(MapAssign(F, b.slot, Append(L, params)), R \ {b})
<1> DEFINE W == Own \ R
           V == Own \ (R \ {b})
           N == Append(L, params)
           G == MapAssign(F, b.slot, N)
           Fits(x) == x.ifPower = EnergyOver(x.burst, {}) /\ ~x.packetHasBeenProcessed
<1>1. Lists(F, W) /\ \A s \in DOMAIN F : \A i \in 1 .. Len(F[s]) : Fits(F[s][i])
  BY DEF Held
<1>2. V = W \cup {b} /\ b \notin W
  OBVIOUS
<1>3. DOMAIN G = DOMAIN F \cup {b.slot} /\ G = [s \in DOMAIN G |-> G[s]]
      /\ G[b.slot] = N /\ \A s \in DOMAIN F : s # b.slot => G[s] = F[s]
  BY DEF MapAssign
<1>4. SlotHolds(L, b.slot, W) /\ \A i \in 1 .. Len(L) : Fits(L[i])
  <2>1. CASE b.slot \in DOMAIN F
    BY <1>1, <2>1 DEF Lists
  <2>2. CASE b.slot \notin DOMAIN F
    <3>1. L = <<>> /\ Len(L) = 0 /\ 1 .. Len(L) = {} /\ L \in Seq(Waiting)
      BY <2>2
    <3>2. \A c \in W : c.slot # b.slot
      BY <1>1, <2>2 DEF Lists
    <3> HIDE DEF W
    <3> QED BY <3>1, <3>2 DEF SlotHolds
  <2> QED BY <2>1, <2>2
<1> HIDE DEF G, V, W
<1>5. SlotHolds(N, b.slot, V) /\ \A i \in 1 .. Len(N) : Fits(N[i])
  <2> DEFINE n == Len(L)
  <2>1. L \in Seq(Waiting) /\ n \in Nat
    BY <1>4 DEF SlotHolds
  <2>2. N \in Seq(Waiting) /\ Len(N) = n + 1 /\ N[n + 1] = params /\ \A i \in 1 .. n : N[i] = L[i]
    BY <2>1
  <2>3. \A i \in 1 .. n + 1 : i \in 1 .. n \/ i = n + 1
    BY <2>1
  <2>4. n + 1 \in 1 .. n + 1 /\ \A i \in 1 .. n : i \in 1 .. n + 1
    BY <2>1
  <2>5. /\ \A i \in 1 .. n : L[i].burst \in W /\ L[i].burst.slot = b.slot /\ Fits(L[i])
        /\ \A i, j \in 1 .. n : L[i].burst = L[j].burst => i = j
        /\ \A c \in W : c.slot = b.slot => \E i \in 1 .. n : L[i].burst = c
    BY <1>4 DEF SlotHolds
  <2> HIDE DEF n, N, Fits
  <2>6. \A i \in 1 .. n + 1 : N[i].burst \in V /\ N[i].burst.slot = b.slot
    BY <1>2, <2>2, <2>3, <2>5
  <2>7. \A i, j \in 1 .. n + 1 : N[i].burst = N[j].burst => i = j
    BY <1>2, <2>2, <2>3, <2>5
  <2>8. ASSUME NEW c \in V, c.slot = b.slot PROVE \E i \in 1 .. n + 1 : N[i].burst = c
    <3>1. CASE c = b
      BY <2>2, <2>4, <3>1
    <3>2. CASE c # b
      <4>1. PICK i \in 1 .. n : L[i].burst = c
        BY <1>2, <2>5, <2>8, <3>2
      <4> QED BY <2>2, <2>4, <4>1
    <3> QED BY <3>1, <3>2
  <2>9. Fits(params)
    BY DEF Fits
  <2>10. \A i \in 1 .. n + 1 : Fits(N[i])
    BY <2>2, <2>3, <2>5, <2>9
  <2> QED BY <2>2, <2>6, <2>7, <2>8, <2>10 DEF SlotHolds
<1> HIDE DEF N
<1>6. ASSUME NEW s \in DOMAIN F, s # b.slot
      PROVE  SlotHolds(F[s], s, V) /\ \A i \in 1 .. Len(F[s]) : Fits(F[s][i])
  <2>1. SlotHolds(F[s], s, W)
    BY <1>1 DEF Lists
  <2> QED BY <1>1, <1>2, <1>6, <2>1 DEF SlotHolds
<1>7. \A s \in DOMAIN G : SlotHolds(G[s], s, V) /\ \A i \in 1 .. Len(G[s]) : Fits(G[s][i])
  <2> HIDE DEF Fits
  <2> QED BY <1>3, <1>5, <1>6
<1>8. Lists(G, V)
  <2>1. \A c \in V : c.slot \in DOMAIN G
    BY <1>1, <1>2, <1>3 DEF Lists
  <2>2. DOMAIN G \subseteq Slot
    BY <1>1, <1>3 DEF Lists
  <2> QED BY <1>3, <1>7, <2>1, <2>2 DEF Lists
<1> QED BY <1>7, <1>8 DEF Held, G, V, N

\* A burst that arrives does not touch those that wait.
LEMMA HeldArrives ==
  ASSUME FrameReception, Held(m_crdsaPacketContainer, Receiving), BurstArrives
  PROVE  Held(m_crdsaPacketContainer, Receiving)'
<1>1. PICK burst \in plan : StartRx(burst) /\ plan' = plan \ {burst}
  BY DEF BurstArrives
<1>2. /\ phase = "receive" /\ UNCHANGED <<frame, m_randomAccessModel, phase>>
      /\ m_crdsaPacketContainer' = m_crdsaPacketContainer
  BY DEF BurstArrives
<1>3. /\ bursts' = bursts \cup {burst} /\ burst \notin bursts
      /\ Own' = Own \cup (IF burst.sender \in OwnBeam THEN {burst} ELSE {})
      /\ Receiving' = Receiving \cup (IF burst.sender \in OwnBeam THEN {burst} ELSE {})
      /\ \A b \in Own \ Receiving : b.end <= burst.start
  BY <1>1, <1>2, FrameBurstArrives
<1>4. /\ IsFiniteSet(bursts) /\ \A b \in plan \cup bursts : BurstOk(b)
      /\ Receiving \subseteq Own /\ Own \subseteq bursts
  <2>1. phase # "start"
    BY <1>2
  <2> QED BY <2>1, FrameMembers
<1> DEFINE F == m_crdsaPacketContainer
           W == Own \ Receiving
<1>5. Own' \ Receiving' = W /\ Own \subseteq Own'
  BY <1>3, <1>4
<1>6. ASSUME NEW b \in W PROVE EnergyOver(b, {})' = EnergyOver(b, {})
  <2>1. b.end <= burst.start /\ b \in bursts /\ BurstOk(burst)
    BY <1>3, <1>4
  <2> QED BY <1>3, <1>4, <2>1, EnergyLater
<1>7. Lists(F, W) /\ \A s \in DOMAIN F : \A i \in 1 .. Len(F[s]) :
        F[s][i].ifPower = EnergyOver(F[s][i].burst, {}) /\ ~F[s][i].packetHasBeenProcessed
  BY DEF Held
<1>8. Waiting \subseteq Waiting'
  BY <1>5 DEF Waiting
<1> HIDE DEF W
<1>9. ASSUME NEW s \in DOMAIN F PROVE SlotHolds(F[s], s, W)'
  <2>1. SlotHolds(F[s], s, W)
    BY <1>7 DEF Lists
  <2>2. F[s] \in Seq(Waiting')
    <3>1. F[s] \in Seq(Waiting)
      BY <2>1 DEF SlotHolds
    <3> HIDE DEF F
    <3> QED BY <1>8, <3>1, SeqOfPart
  <2> QED BY <1>2, <1>5, <2>1, <2>2 DEF SlotHolds, W
<1>10. Lists(F, W)'
  BY <1>2, <1>5, <1>7, <1>9 DEF Lists, W
<1>11. ASSUME NEW s \in DOMAIN F, NEW i \in 1 .. Len(F[s])
       PROVE  F[s][i].burst \in W
  BY <1>7 DEF Lists, SlotHolds
<1>12. ASSUME NEW s \in DOMAIN F, NEW i \in 1 .. Len(F[s])
       PROVE  (F[s][i].ifPower = EnergyOver(F[s][i].burst, {}) /\ ~F[s][i].packetHasBeenProcessed)'
  <2>1. PICK b : b = F[s][i].burst
    OBVIOUS
  <2>2. EnergyOver(b, {})' = EnergyOver(b, {})
    BY <1>6, <1>11, <2>1
  <2>3. F[s][i].ifPower = EnergyOver(b, {}) /\ ~F[s][i].packetHasBeenProcessed
    BY <1>7, <2>1
  <2>4. F[s][i].ifPower = EnergyOver(b, {})'
    BY <2>2, <2>3
  <2>5. b = F'[s][i].burst
    BY <1>2, <2>1
  <2> QED BY <1>2, <2>3, <2>4, <2>5 DEF EnergyOver
<1> QED BY <1>2, <1>10, <1>12 DEF Held, W
\* What does not depend on the container is as it was when nothing is heard.
LEMMA StateSame ==
  ASSUME UNCHANGED <<bursts, m_randomAccessModel, m_randomAccessCollisionModel>>,
         NEW F, NEW P, NEW ph, NEW R
  PROVE  CrdsaState(F, P, ph, R)' = CrdsaState(F, P, ph, R)
<1>1. Own' = Own /\ Waiting' = Waiting /\ WaitingFor(P, R)' = WaitingFor(P, R)
      /\ DecodedBy(P)' = DecodedBy(P)
  BY DEF Own, Waiting, WaitingFor, DecodedBy
<1>2. \A b, D : EnergyOver(b, D)' = EnergyOver(b, D)
  BY DEF EnergyOver
<1>3. ASSUME NEW b, NEW D
      PROVE  SinrAlone(b, D)' = SinrAlone(b, D) /\ SinrCombined(b, D)' = SinrCombined(b, D)
             /\ OthersInSlot(b, D)' = OthersInSlot(b, D)
  BY <1>1 DEF SinrAlone, SinrCombined, OthersInSlot, EnergyOver
<1>4. ASSUME NEW b, NEW D, NEW level
      PROVE  /\ Reaches(b, level, D)' = Reaches(b, level, D)
             /\ ReachesAlone(b, level, D)' = ReachesAlone(b, level, D)
  BY <1>3 DEF Reaches, ReachesAlone
<1>5. ASSUME NEW W PROVE Lists(F, W)' = Lists(F, W)
  BY <1>1 DEF Lists, SlotHolds
<1>6. ASSUME NEW D PROVE Judged(F, D, ph)' = Judged(F, D, ph)
  BY <1>2, <1>4 DEF Judged, JudgedPacket
<1>7. ASSUME NEW D PROVE GivenUp(D, ph)' = GivenUp(D, ph)
  BY <1>1, <1>4 DEF GivenUp
<1>8. Combined(P, ph)' = Combined(P, ph)
  BY <1>1, <1>4 DEF Combined
<1> QED BY <1>1, <1>5, <1>6, <1>7, <1>8 DEF CrdsaState

LEMMA StateNext ==
  ASSUME NEW F, F = m_crdsaPacketContainer', NEW P, P = combinedPackets', NEW ph, ph = phase',
         NEW R, R = Receiving', CrdsaState(F, P, ph, R)'
  PROVE  CrdsaState(m_crdsaPacketContainer, combinedPackets, phase, Receiving)'
OBVIOUS

-----------------------------------------------------------------------------
(* A frame, from its beginning to its results. *)

\* CRDSA and MARSALA: what waits is known.
CrdsaOk ==
  ~Slotted =>
    /\ phase = "start" => m_crdsaPacketContainer = EmptyMap
    /\ phase # "start" => /\ handedUp = <<>>
                          /\ CrdsaState(m_crdsaPacketContainer, combinedPackets, phase, Receiving)

FrameResults == phase = "start" => FrameOnce(handedUp) /\ FrameJustified(handedUp)

FrameInv == FrameReception /\ fatal = FALSE /\ SlottedOk /\ CrdsaOk /\ FrameResults

\* The frame that is processed was received as a whole.
LEMMA FrameIsWhole ==
  ASSUME FrameReception, phase \in Processing
  PROVE  FrameIs /\ Receiving = {}
<1>1. phase # "start"
  BY DEF Processing
<1>2. plan = {} /\ Receiving = {}
  BY DEF FrameReception, FrameTimes
<1>3. plan \cup bursts = bursts
  BY <1>2
<1>4. /\ frame \in Nat /\ IsTransmission(plan \cup bursts) /\ IsFiniteSet(bursts)
      /\ \A b \in bursts : BurstOk(b) /\ FrameBurst(b)
  BY <1>1, FrameMembers
<1>5. PICK X : X = plan \cup bursts
  OBVIOUS
<1>6. IsTransmission(bursts)
  BY <1>3, <1>4, <1>5
<1> QED BY <1>2, <1>4, <1>6 DEF FrameIs

LEMMA ResultsSame ==
  ASSUME UNCHANGED <<bursts, combinedPackets, m_randomAccessModel, m_randomAccessCollisionModel>>,
         NEW H
  PROVE  FrameOnce(H)' = FrameOnce(H) /\ FrameJustified(H)' = FrameJustified(H)
<1>1. Own' = Own /\ DecodedInFrame' = DecodedInFrame
  BY DEF Own, DecodedInFrame
<1>2. FrameOnce(H)' = FrameOnce(H)
  BY <1>1 DEF FrameOnce
<1>3. ASSUME NEW b, NEW D
      PROVE  SinrAlone(b, D)' = SinrAlone(b, D) /\ SinrCombined(b, D)' = SinrCombined(b, D)
             /\ OthersInSlot(b, D)' = OthersInSlot(b, D)
  BY <1>1 DEF SinrAlone, SinrCombined, OthersInSlot, EnergyOver
<1>4. ASSUME NEW b, NEW D, NEW level PROVE Reaches(b, level, D)' = Reaches(b, level, D)
  BY <1>3 DEF Reaches
<1>5. ASSUME NEW packet
      PROVE  /\ SlottedAlohaJustified(packet)' = SlottedAlohaJustified(packet)
             /\ CrdsaJustified(packet)' = CrdsaJustified(packet)
  <2>1. SlottedAlohaJustified(packet)' = SlottedAlohaJustified(packet)
    BY <1>3 DEF SlottedAlohaJustified
  <2>2. CrdsaJustified(packet)' = CrdsaJustified(packet)
    BY <1>1, <1>4 DEF CrdsaJustified
  <2> QED BY <2>1, <2>2
<1>6. FrameJustified(H)' = FrameJustified(H)
  BY <1>5 DEF FrameJustified
<1> QED BY <1>2, <1>6

\* Slotted ALOHA, once the frame is over.
LEMMA SlottedResults ==
  ASSUME FrameReception, SlottedOk, Slotted, phase \in Processing
  PROVE  FrameOnce(handedUp) /\ FrameJustified(handedUp)
<1>1. FrameIs /\ Receiving = {}
  BY FrameIsWhole
<1>2. /\ handedUp \in Seq([burst : Own, phyError : BOOLEAN])
      /\ \A i \in 1 .. Len(handedUp) : SlottedAlohaJustified(handedUp[i])
      /\ \A i, j \in 1 .. Len(handedUp) : handedUp[i].burst = handedUp[j].burst => i = j
      /\ \A b \in Own : \E i \in 1 .. Len(handedUp) : handedUp[i].burst = b
  <2>1. Own \ Receiving = Own
    BY <1>1
  <2> QED BY <2>1 DEF SlottedOk
<1>3. DOMAIN handedUp = 1 .. Len(handedUp)
      /\ \A i \in 1 .. Len(handedUp) : handedUp[i].burst \in Own /\ handedUp[i].phyError \in BOOLEAN
  BY <1>2, PacketsOf
<1>4. FrameJustified(handedUp)
  BY <1>2, <1>3 DEF FrameJustified, Slotted
<1>5. ASSUME NEW b \in Own, NEW c \in Own, SamePacket(b, c) PROVE b = c
  <2>1. b.slots = c.slots /\ b.slots = {b.slot} /\ c.slots = {c.slot} /\ FrameBurst(b) /\ FrameBurst(c)
        /\ b.sender = c.sender /\ b.id = c.id
    BY <1>1, <1>5 DEF FrameIs, IsTransmission, Own, SamePacket
  <2>2. b.slot = c.slot /\ b.type = c.type
    BY <2>1 DEF FrameBurst
  <2> QED BY <2>1, <2>2 DEF FrameBurst
<1>6. ASSUME NEW b \in Own
      PROVE  Cardinality({i \in DOMAIN handedUp : SamePacket(handedUp[i].burst, b) /\ handedUp[i].phyError = FALSE}
               \cup {i \in DOMAIN handedUp : SamePacket(handedUp[i].burst, b) /\ handedUp[i].phyError = TRUE}) = 1
  <2>1. PICK i \in DOMAIN handedUp : handedUp[i].burst = b
    BY <1>2, <1>3
  <2>2. \A k \in DOMAIN handedUp : SamePacket(handedUp[k].burst, b) <=> k = i
    <3>1. SamePacket(b, b)
      BY DEF SamePacket
    <3> QED BY <1>2, <1>3, <1>5, <2>1, <3>1
  <2>3. \A k \in DOMAIN handedUp : handedUp[k].phyError \in BOOLEAN
    BY <1>3
  <2> QED BY <2>2, <2>3, OnlyOne
<1>7. FrameOnce(handedUp)
  BY <1>6 DEF FrameOnce, Slotted
<1> QED BY <1>4, <1>7

\* The container and the results change, and nothing else but the phase.
LEMMA StepIsExact ==
  ASSUME UNCHANGED <<bursts, m_randomAccessModel, m_randomAccessCollisionModel>>, NEW ph, phase' = ph,
         Receiving' = {}, CrdsaState(m_crdsaPacketContainer', combinedPackets', ph, {})
  PROVE  CrdsaState(m_crdsaPacketContainer, combinedPackets, phase, Receiving)'
<1>1. PICK F : F = m_crdsaPacketContainer'
  OBVIOUS
<1>2. PICK P : P = combinedPackets'
  OBVIOUS
<1>3. PICK R : R = Receiving'
  OBVIOUS
<1>4. CrdsaState(F, P, ph, R)
  BY <1>1, <1>2, <1>3
<1>5. CrdsaState(F, P, ph, R)'
  BY <1>4, StateSame
<1> QED BY <1>1, <1>2, <1>3, <1>5, StateNext

FrameWaits == phase = "receive" /\ combinedPackets = {} /\ Held(m_crdsaPacketContainer, Receiving)
FrameIsExact == CrdsaState(m_crdsaPacketContainer, combinedPackets, phase, Receiving)

LEMMA WaitsIsExact == FrameWaits => FrameIsExact
BY WhileReceived DEF FrameWaits, FrameIsExact

LEMMA WaitsIsExactNext == FrameWaits' => FrameIsExact'
BY WaitsIsExact, PTL

LEMMA FrameBeginsOk ==
  ASSUME FrameInv, NEW X, BeginFrame(X), IsTransmission(X)
  PROVE  FrameInv'
<1>1. /\ phase = "start" /\ phase' = "receive" /\ handedUp' = <<>> /\ bursts' = {}
      /\ combinedPackets' = {} /\ UNCHANGED interferenceVars
      /\ UNCHANGED <<m_crdsaPacketContainer, fatal, m_randomAccessModel>>
  BY DEF BeginFrame
<1>2. FrameReception' /\ SlottedOk'
  BY FrameBegins, SlottedBegins DEF FrameInv
<1>3. phase' # "start"
  BY <1>1
<1>4. ASSUME ~Slotted
      PROVE  CrdsaState(m_crdsaPacketContainer, combinedPackets, phase, Receiving)'
  <2>1. m_crdsaPacketContainer' = EmptyMap
    BY <1>1, <1>4 DEF FrameInv, CrdsaOk
  <2>2. Own' = {}
    BY <1>1 DEF Own
  <2>3. Held(EmptyMap, Receiving)'
    BY <2>2 DEF Held, Lists, EmptyMap
  <2>4. Held(m_crdsaPacketContainer, Receiving)'
    BY <2>1, <2>3
  <2> QED BY <1>1, <2>4, WaitsIsExactNext DEF FrameWaits, FrameIsExact
<1>5. CrdsaOk'
  BY <1>1, <1>3, <1>4 DEF CrdsaOk, Slotted
<1> QED BY <1>1, <1>2, <1>3, <1>5 DEF FrameInv, FrameResults

LEMMA FrameArrivesOk ==
  ASSUME FrameInv, BurstArrives
  PROVE  FrameInv'
<1>1. PICK burst \in plan : StartRx(burst) /\ plan' = plan \ {burst}
  BY DEF BurstArrives
<1>2. /\ phase = "receive" /\ phase' = "receive" /\ UNCHANGED <<frame, m_randomAccessModel, phase>>
      /\ UNCHANGED <<m_crdsaPacketContainer, combinedPackets, fatal, handedUp>>
  BY <1>1 DEF BurstArrives, StartRx
<1>3. FrameReception'
  BY <1>1, <1>2, FrameBurstArrives DEF FrameInv
<1>4. SlottedOk'
  BY SlottedArrives DEF FrameInv
<1>5. phase # "start" /\ phase' # "start"
  BY <1>2
<1>6. ASSUME ~Slotted
      PROVE  CrdsaState(m_crdsaPacketContainer, combinedPackets, phase, Receiving)'
  <2>1. CrdsaState(m_crdsaPacketContainer, combinedPackets, "receive", Receiving)
    BY <1>2, <1>5, <1>6 DEF FrameInv, CrdsaOk
  <2>2. combinedPackets = {} /\ Held(m_crdsaPacketContainer, Receiving)
    BY <2>1, WhileReceived
  <2>3. Held(m_crdsaPacketContainer, Receiving)'
    BY <2>2, HeldArrives DEF FrameInv
  <2>4. combinedPackets' = {} /\ phase' = "receive"
    BY <1>2, <2>2
  <2> QED BY <2>3, <2>4, WaitsIsExactNext DEF FrameWaits, FrameIsExact
<1>7. CrdsaOk'
  BY <1>2, <1>5, <1>6 DEF FrameInv, CrdsaOk, Slotted
<1> QED BY <1>2, <1>3, <1>4, <1>5, <1>7 DEF FrameInv, FrameResults

LEMMA FrameReceivesOk ==
  ASSUME FrameInv, ReceiveSlot
  PROVE  FrameInv'
<1>1. PICK burst \in Range(m_rxParams) :
        EndRxData(burst) /\ (ReceiveSlottedAloha(burst) \/ ReceiveCrdsa(burst))
  BY DEF ReceiveSlot
<1>2. /\ phase = "receive" /\ phase' = "receive" /\ UNCHANGED <<plan, frame, m_randomAccessModel, phase>>
      /\ UNCHANGED <<m_randomAccessCollisionModel, combinedPackets, fatal>>
  BY DEF ReceiveSlot
<1>3. /\ FrameReception' /\ burst \in Receiving /\ burst \in Own /\ Own' = Own
      /\ Receiving' = Receiving \ {burst} /\ bursts' = bursts
      /\ PerPacket(burst) = EnergyOver(burst, {})
  BY <1>1, <1>2, FrameBurstEnds DEF FrameInv
<1>4. SlottedOk'
  BY SlottedReceives DEF FrameInv
<1>5. phase # "start" /\ phase' # "start"
  BY <1>2
<1>6. ASSUME ~Slotted
      PROVE  /\ CrdsaState(m_crdsaPacketContainer, combinedPackets, phase, Receiving)'
             /\ handedUp' = <<>>
  <2> DEFINE F == m_crdsaPacketContainer
             L == IF burst.slot \in DOMAIN F THEN F[burst.slot] ELSE <<>>
             params == [burst |-> burst, ifPower |-> PerPacket(burst), packetHasBeenProcessed |-> FALSE]
             G == MapAssign(F, burst.slot, Append(L, params))
  <2>1. CrdsaState(F, combinedPackets, "receive", Receiving) /\ handedUp = <<>>
    BY <1>2, <1>5, <1>6 DEF FrameInv, CrdsaOk
  <2>2. combinedPackets = {} /\ Held(F, Receiving)
    BY <2>1, WhileReceived
  <2>3. /\ FrameBurst(burst) /\ BurstOk(burst) /\ IsFiniteSet(bursts) /\ \A b \in bursts : BurstOk(b)
    BY <1>3, <1>5, FrameMembers DEF FrameInv
  <2>4. burst.type = "CRDSA" /\ burst.slot \in Slot
    BY <1>6, <2>3 DEF FrameBurst
  <2>5. ReceiveCrdsa(burst)
    BY <1>1, <2>4 DEF ReceiveSlottedAloha
  <2>6. m_crdsaPacketContainer' = G /\ handedUp' = handedUp
    BY <2>5 DEF ReceiveCrdsa
  <2>7. EnergyOver(burst, {}) \in Nat
    BY <2>3, EnergyOverType
  <2>8. params \in Waiting /\ params.burst = burst /\ params.ifPower = EnergyOver(burst, {})
        /\ ~params.packetHasBeenProcessed
    BY <1>3, <2>7 DEF Waiting
  <2>9. L = IF burst.slot \in DOMAIN F THEN F[burst.slot] ELSE <<>>
    OBVIOUS
  <2>10. Held(G, Receiving \ {burst})
    <3> HIDE DEF params, L, F
    <3> QED BY <1>3, <2>2, <2>4, <2>8, <2>9, HeldMore
  <2> HIDE DEF G, F
  <2>11. CrdsaState(G, {}, "receive", Receiving \ {burst})
    BY <2>10, WhileReceived
  <2>12. PICK R : R = Receiving \ {burst}
    OBVIOUS
  <2>13. PICK C : C = G
    OBVIOUS
  <2>14. CrdsaState(C, {}, "receive", R)'
    BY <1>2, <1>3, <2>11, <2>12, <2>13, StateSame
  <2>15. C = m_crdsaPacketContainer' /\ {} = combinedPackets' /\ "receive" = phase' /\ R = Receiving'
    BY <1>2, <1>3, <2>2, <2>6, <2>12, <2>13
  <2> QED BY <2>1, <2>6, <2>14, <2>15, StateNext
<1>7. CrdsaOk'
  BY <1>2, <1>5, <1>6 DEF CrdsaOk, Slotted
<1> QED BY <1>2, <1>3, <1>4, <1>5, <1>7 DEF FrameInv, FrameResults

LEMMA FrameTimeOk ==
  ASSUME FrameInv, TimePasses
  PROVE  FrameInv'
<1>1. /\ phase = "receive" /\ UNCHANGED <<bursts, handedUp, phase, m_crdsaPacketContainer, combinedPackets>>
      /\ UNCHANGED <<fatal, m_randomAccessModel, m_randomAccessCollisionModel>>
      /\ UNCHANGED interferenceVars
  BY DEF TimePasses, frameVars
<1>2. Receiving' = Receiving
  BY <1>1 DEF Receiving, interferenceVars
<1>3. FrameReception'
  BY FrameTimePasses DEF FrameInv
<1>4. Slotted => m_crdsaPacketContainer = EmptyMap /\ combinedPackets = {}
  BY DEF FrameInv, SlottedOk
<1>5. SlottedOk'
  BY <1>1, <1>2, <1>4, SlottedSame DEF FrameInv
<1>6. phase # "start" /\ phase' # "start"
  BY <1>1
<1>7. ASSUME ~Slotted
      PROVE  CrdsaState(m_crdsaPacketContainer, combinedPackets, phase, Receiving)'
  <2>1. PICK F : F = m_crdsaPacketContainer
    OBVIOUS
  <2>2. PICK P : P = combinedPackets
    OBVIOUS
  <2>3. PICK R : R = Receiving
    OBVIOUS
  <2>4. PICK ph : ph = phase
    OBVIOUS
  <2>5. CrdsaState(F, P, ph, R)
    BY <1>6, <1>7, <2>1, <2>2, <2>3, <2>4 DEF FrameInv, CrdsaOk
  <2>6. CrdsaState(F, P, ph, R)'
    BY <1>1, <2>5, StateSame
  <2> QED BY <1>1, <1>2, <2>1, <2>2, <2>3, <2>4, <2>6, StateNext
<1>8. CrdsaOk'
  BY <1>1, <1>6, <1>7 DEF FrameInv, CrdsaOk, Slotted
<1> QED BY <1>1, <1>3, <1>5, <1>6, <1>8 DEF FrameInv, FrameResults

LEMMA FrameReceivedOk ==
  ASSUME FrameInv, DoFrameEnd
  PROVE  FrameInv'
<1>1. /\ phase = "receive" /\ phase' = "sic" /\ UNCHANGED carrierVars
      /\ UNCHANGED <<m_randomAccessModel, m_randomAccessCollisionModel, m_crdsaPacketContainer>>
      /\ UNCHANGED <<combinedPackets, fatal>>
  BY DEF DoFrameEnd, FrameEndIsDue
<1>2. FrameReception' /\ Receiving = {}
  BY FrameReceived DEF FrameInv
<1>3. /\ UNCHANGED <<bursts, handedUp>> /\ Receiving' = {} /\ Receiving' = Receiving
  BY <1>1, <1>2 DEF carrierVars, interferenceVars, Receiving
<1>4. SlottedOk'
  <2>1. Slotted => m_crdsaPacketContainer = EmptyMap /\ combinedPackets = {}
    BY DEF FrameInv, SlottedOk
  <2> QED BY <1>1, <1>3, <2>1, SlottedSame DEF FrameInv
<1>5. phase # "start" /\ phase' # "start"
  BY <1>1
<1>6. ASSUME ~Slotted
      PROVE  CrdsaState(m_crdsaPacketContainer, combinedPackets, phase, Receiving)'
  <2>1. CrdsaState(m_crdsaPacketContainer, combinedPackets, "receive", {})
    BY <1>1, <1>2, <1>5, <1>6 DEF FrameInv, CrdsaOk
  <2>2. combinedPackets = {} /\ Combined(combinedPackets, "sic")
    BY <2>1 DEF CrdsaState, Combined
  <2>3. CrdsaState(m_crdsaPacketContainer, combinedPackets, "sic", {})
    BY <2>1, <2>2 DEF CrdsaState, Judged, JudgedPacket, GivenUp
  <2>4. CrdsaState(m_crdsaPacketContainer', combinedPackets', "sic", {})
    BY <1>1, <2>3
  <2> QED BY <1>1, <1>3, <2>4, StepIsExact
<1>7. CrdsaOk'
  BY <1>1, <1>3, <1>5, <1>6 DEF FrameInv, CrdsaOk, Slotted
<1> QED BY <1>1, <1>2, <1>4, <1>5, <1>7 DEF FrameInv, FrameResults

\* A step of the processing of a frame.
LEMMA FrameProcessedOk ==
  ASSUME FrameInv, phase \in Processing, phase' \in Processing, fatal' = FALSE,
         UNCHANGED <<carrierVars, m_randomAccessModel, m_randomAccessCollisionModel, frame, plan>>,
         Slotted => UNCHANGED <<m_crdsaPacketContainer, combinedPackets>>,
         ~Slotted => CrdsaState(m_crdsaPacketContainer', combinedPackets', phase', {})
  PROVE  FrameInv'
<1>1. FrameReception'
  BY FrameProcessed DEF FrameInv
<1>2. Receiving = {} /\ phase # "start" /\ phase' # "start"
  BY FrameIsWhole DEF FrameInv, Processing
<1>3. /\ UNCHANGED <<bursts, handedUp>> /\ Receiving' = {} /\ Receiving' = Receiving
  BY <1>2 DEF carrierVars, interferenceVars, Receiving
<1>4. SlottedOk'
  <2>1. Slotted => m_crdsaPacketContainer = EmptyMap /\ combinedPackets = {}
    BY DEF FrameInv, SlottedOk
  <2> QED BY <1>3, <2>1, SlottedSame DEF FrameInv
<1>5. ASSUME ~Slotted
      PROVE  CrdsaState(m_crdsaPacketContainer, combinedPackets, phase, Receiving)'
  <2>1. PICK ph : ph = phase'
    OBVIOUS
  <2>2. CrdsaState(m_crdsaPacketContainer', combinedPackets', ph, {})
    BY <1>5, <2>1
  <2> QED BY <1>3, <2>1, <2>2, StepIsExact
<1>6. CrdsaOk'
  BY <1>2, <1>3, <1>5 DEF FrameInv, CrdsaOk, Slotted
<1> QED BY <1>1, <1>2, <1>4, <1>6 DEF FrameInv, FrameResults

\* What is known while a frame is processed.
LEMMA WhileProcessed ==
  ASSUME FrameInv, NEW ph \in Processing, phase = ph
  PROVE  /\ FrameIs /\ fatal = FALSE /\ phase \in Processing
         /\ ~Slotted => CrdsaState(m_crdsaPacketContainer, combinedPackets, ph, {})
         /\ Slotted => m_crdsaPacketContainer = EmptyMap /\ Places = {}
<1>1. FrameIs /\ Receiving = {}
  BY FrameIsWhole DEF FrameInv
<1>2. phase # "start"
  BY DEF Processing
<1>3. ~Slotted => CrdsaState(m_crdsaPacketContainer, combinedPackets, ph, {})
  BY <1>1, <1>2 DEF FrameInv, CrdsaOk
<1>4. Slotted => m_crdsaPacketContainer = EmptyMap
  BY DEF FrameInv, SlottedOk
<1>5. DOMAIN EmptyMap = {}
  BY DEF EmptyMap
<1>6. Slotted => Places = {}
  BY <1>4, <1>5 DEF Places
<1> QED BY <1>1, <1>3, <1>4, <1>6 DEF FrameInv

LEMMA FrameSicOk ==
  ASSUME FrameInv, SicTurn \/ SicEnds
  PROVE  FrameInv'
<1>1. /\ phase = "sic" /\ phase \in Processing
      /\ UNCHANGED <<carrierVars, m_randomAccessModel, m_randomAccessCollisionModel, frame, plan>>
  BY DEF SicTurn, SicEnds, Processing
<1>2. /\ FrameIs /\ fatal = FALSE
      /\ ~Slotted => CrdsaState(m_crdsaPacketContainer, combinedPackets, "sic", {})
      /\ Slotted => Places = {}
  BY <1>1, WhileProcessed DEF Processing
<1>3. CASE SicTurn
  <2>1. phase' = "sic" /\ phase' \in Processing /\ Unprocessed # {}
    BY <1>1, <1>3 DEF SicTurn
  <2>2. ~Slotted
    BY <1>2, <2>1 DEF Unprocessed
  <2>3. CrdsaState(m_crdsaPacketContainer', combinedPackets', "sic", {}) /\ fatal' = FALSE
    BY <1>1, <1>2, <1>3, <2>2, CrdsaTurn
  <2> QED BY <1>1, <2>1, <2>2, <2>3, FrameProcessedOk
<1>4. CASE SicEnds
  <2>1. PICK next : next = IF m_randomAccessModel = "MARSALA" THEN "marsala" ELSE "cleanup"
    OBVIOUS
  <2>2. /\ phase' = next /\ next \in Processing /\ Unprocessed = {}
        /\ UNCHANGED <<m_crdsaPacketContainer, combinedPackets, fatal>>
    BY <1>4, <2>1 DEF SicEnds, Processing
  <2>3. ASSUME ~Slotted PROVE CrdsaState(m_crdsaPacketContainer', combinedPackets', phase', {})
    <3>1. CrdsaState(m_crdsaPacketContainer, combinedPackets, next, {})
      BY <1>2, <2>1, <2>2, <2>3, CrdsaSicEnds
    <3> QED BY <2>2, <3>1
  <2> QED BY <1>1, <1>2, <2>2, <2>3, FrameProcessedOk
<1> QED BY <1>3, <1>4

LEMMA FrameMarsalaOk ==
  ASSUME FrameInv, MarsalaDecodes \/ MarsalaEnds, m_randomAccessModel # "MARSALA" => phase # "marsala"
  PROVE  FrameInv'
<1>1. /\ phase = "marsala" /\ phase \in Processing
      /\ UNCHANGED <<carrierVars, m_randomAccessModel, m_randomAccessCollisionModel, frame, plan>>
  BY DEF MarsalaDecodes, MarsalaEnds, Processing
<1>2. /\ FrameIs /\ fatal = FALSE
      /\ ~Slotted => CrdsaState(m_crdsaPacketContainer, combinedPackets, "marsala", {})
  BY <1>1, WhileProcessed DEF Processing
<1>3. m_randomAccessModel = "MARSALA" /\ ~Slotted
  BY <1>1 DEF Slotted
<1>4. CASE MarsalaDecodes
  <2>1. phase' = "sic" /\ phase' \in Processing
    BY <1>4 DEF MarsalaDecodes, Processing
  <2>2. CrdsaState(m_crdsaPacketContainer', combinedPackets', "sic", {}) /\ fatal' = FALSE
    BY <1>2, <1>3, <1>4, CrdsaMarsalaDecodes
  <2> QED BY <1>1, <1>3, <2>1, <2>2, FrameProcessedOk
<1>5. CASE MarsalaEnds
  <2>1. /\ phase' = "cleanup" /\ phase' \in Processing
        /\ \A p \in Places : TRUE \in LinkErrors(CorrelatedSinr(p))
        /\ UNCHANGED <<m_crdsaPacketContainer, combinedPackets, fatal>>
    BY <1>5 DEF MarsalaEnds, Processing
  <2>2. CrdsaState(m_crdsaPacketContainer, combinedPackets, "cleanup", {})
    BY <1>2, <1>3, <2>1, CrdsaMarsalaEnds
  <2>3. CrdsaState(m_crdsaPacketContainer', combinedPackets', phase', {})
    BY <2>1, <2>2
  <2> QED BY <1>1, <1>2, <1>3, <2>1, <2>3, FrameProcessedOk
<1> QED BY <1>4, <1>5

LEMMA FrameCleansUpOk ==
  ASSUME FrameInv, CleanUp
  PROVE  FrameInv'
<1>1. /\ phase = "cleanup" /\ phase \in Processing /\ phase' = "cleanup" /\ phase' \in Processing
      /\ m_crdsaPacketContainer # EmptyMap
      /\ UNCHANGED <<carrierVars, m_randomAccessModel, m_randomAccessCollisionModel, frame, plan>>
  BY DEF CleanUp, Processing
<1>2. /\ FrameIs /\ fatal = FALSE
      /\ ~Slotted => CrdsaState(m_crdsaPacketContainer, combinedPackets, "cleanup", {})
      /\ Slotted => m_crdsaPacketContainer = EmptyMap
  BY <1>1, WhileProcessed DEF Processing
<1>3. ~Slotted
  BY <1>1, <1>2
<1>4. CrdsaState(m_crdsaPacketContainer', combinedPackets', "cleanup", {}) /\ fatal' = FALSE
  BY <1>2, <1>3, CrdsaCleansUp
<1> QED BY <1>1, <1>3, <1>4, FrameProcessedOk

LEMMA FrameEndsOk ==
  ASSUME FrameInv, HandUpResults
  PROVE  FrameInv'
<1>1. /\ phase = "cleanup" /\ phase \in Processing /\ phase' = "start"
      /\ m_crdsaPacketContainer = EmptyMap /\ UNCHANGED interferenceVars
      /\ UNCHANGED <<bursts, m_randomAccessModel, m_randomAccessCollisionModel>>
      /\ UNCHANGED <<m_crdsaPacketContainer, combinedPackets, fatal>>
  BY DEF HandUpResults, Processing
<1>2. PICK sorted \in Sorted(combinedPackets) : handedUp' = handedUp \o sorted
  BY DEF HandUpResults, HandUp
<1>3. /\ FrameIs /\ fatal = FALSE
      /\ ~Slotted => CrdsaState(m_crdsaPacketContainer, combinedPackets, "cleanup", {})
  BY <1>1, WhileProcessed DEF Processing
<1>4. FrameReception'
  BY FrameEnds DEF FrameInv
<1>5. ASSUME NEW H, FrameOnce(H) /\ FrameJustified(H), handedUp' = H PROVE FrameResults'
  <2>1. FrameOnce(H)' /\ FrameJustified(H)'
    BY <1>1, <1>5, ResultsSame
  <2> QED BY <1>5, <2>1 DEF FrameResults
<1>6. CASE Slotted
  <2>1. combinedPackets = {} /\ handedUp \in Seq([burst : Own \ Receiving, phyError : BOOLEAN])
    BY <1>6 DEF FrameInv, SlottedOk
  <2>2. sorted = <<>>
    <3>1. Cardinality({}) = 0
      BY FS_EmptySet
    <3>2. sorted \in [1 .. 0 -> {}]
      BY <1>2, <2>1, <3>1 DEF Sorted, SetToSeqs
    <3> QED BY <3>2
  <2>3. handedUp' = handedUp
    BY <1>2, <2>1, <2>2
  <2>4. PICK H : H = handedUp
    OBVIOUS
  <2>5. FrameOnce(H) /\ FrameJustified(H)
    BY <1>1, <1>6, <2>4, SlottedResults DEF FrameInv
  <2>6. FrameResults'
    BY <1>5, <2>3, <2>4, <2>5
  <2>7. SlottedOk'
    <3>1. Receiving' = Receiving
      BY <1>1 DEF interferenceVars, Receiving
    <3> QED BY <1>1, <2>1, <2>3, <3>1, SlottedSame DEF FrameInv
  <2>8. CrdsaOk'
    BY <1>1, <1>6 DEF CrdsaOk, Slotted
  <2> QED BY <1>1, <1>3, <1>4, <2>6, <2>7, <2>8 DEF FrameInv
<1>7. CASE ~Slotted
  <2>1. handedUp = <<>>
    BY <1>1, <1>7 DEF FrameInv, CrdsaOk
  <2>2. FrameOnce(sorted) /\ FrameJustified(sorted)
    BY <1>1, <1>2, <1>3, <1>7, CrdsaResults
  <2>3. handedUp' = sorted
    <3>1. IsFiniteSet(combinedPackets)
      BY <1>3, <1>7 DEF CrdsaState, Combined
    <3>2. PICK n \in Nat : n = Cardinality(combinedPackets)
      BY <3>1, FS_CardinalityType
    <3>3. sorted \in [1 .. n -> combinedPackets]
      BY <1>2, <3>2 DEF Sorted, SetToSeqs
    <3>4. sorted \in Seq(combinedPackets)
      BY <3>3
    <3> QED BY <1>2, <2>1, <3>4
  <2>4. FrameResults'
    BY <1>5, <2>2, <2>3
  <2>5. SlottedOk'
    BY <1>1, <1>7 DEF SlottedOk, Slotted
  <2>6. CrdsaOk'
    BY <1>1 DEF CrdsaOk
  <2> QED BY <1>1, <1>3, <1>4, <2>4, <2>5, <2>6 DEF FrameInv
<1> QED BY <1>6, <1>7

-----------------------------------------------------------------------------
(* What the UTs send in a frame. *)

LEMMA ChoiceFacts ==
  ASSUME frame \in Nat, frame < Len(MaxFramePackets), NEW sender \in Sender, NEW c \in SlotChoices(sender)
  PROVE  /\ \E m \in Nat : DOMAIN c = 1 .. m
         /\ \A i \in DOMAIN c : c[i] \in SUBSET Slot /\ (Slotted => \E s \in Slot : c[i] = {s})
         /\ \A i, j \in DOMAIN c : i # j => c[i] \cap c[j] = {}
<1>1. MaxFramePackets[frame + 1][sender] \in Nat
  <2>1. MaxFramePackets \in Seq([Sender -> Nat])
    BY ReceptionAssumption
  <2>2. frame + 1 \in 1 .. Len(MaxFramePackets)
    BY <2>1
  <2>3. MaxFramePackets[frame + 1] \in [Sender -> Nat]
    BY <2>1, <2>2
  <2> QED BY <2>3
<1>2. PICK n \in Nat : n = MaxFramePackets[frame + 1][sender]
  BY <1>1
<1>3. c \in BoundedSeq(SlotSets, n) /\ \A i, j \in DOMAIN c : i # j => c[i] \cap c[j] = {}
  BY <1>2 DEF SlotChoices
<1>4. PICK m \in 0 .. n : c \in [1 .. m -> SlotSets]
  BY <1>3 DEF BoundedSeq, SeqOf
<1>5. \A x \in SlotSets : x \in SUBSET Slot /\ (Slotted => \E s \in Slot : x = {s})
  BY DEF SlotSets, kSubset, Slotted
<1>6. m \in Nat /\ DOMAIN c = 1 .. m
  BY <1>4
<1> QED BY <1>3, <1>4, <1>5, <1>6

LEMMA TransmissionsAre ==
  ASSUME frame \in Nat, frame < Len(MaxFramePackets), NEW choice,
         \A sender \in Sender : choice[sender] \in SlotChoices(sender)
  PROVE  IsTransmission(Transmissions(choice))
<1> DEFINE X == Transmissions(choice)
           Type == IF m_randomAccessModel = "SLOTTED_ALOHA" THEN "SLOTTED_ALOHA" ELSE "CRDSA"
           Of(u, id, s) == Burst(u, Type, id, s, choice[u][id])
           Sent(u, id) == {Of(u, id, s) : s \in choice[u][id]}
           By(u) == UNION {Sent(u, id) : id \in DOMAIN choice[u]}
<1>1. X = UNION {By(u) : u \in Sender}
  BY DEF Transmissions, Replicas
<1>2. \A u \in Sender :
        /\ \E m \in Nat : DOMAIN choice[u] = 1 .. m
        /\ \A i \in DOMAIN choice[u] : choice[u][i] \in SUBSET Slot
                                       /\ (Slotted => \E s \in Slot : choice[u][i] = {s})
        /\ \A i, j \in DOMAIN choice[u] : i # j => choice[u][i] \cap choice[u][j] = {}
  BY ChoiceFacts
<1> HIDE DEF X, Type
<1>3. ASSUME NEW b \in X
      PROVE  \E u \in Sender : \E id \in DOMAIN choice[u] : \E s \in choice[u][id] : b = Of(u, id, s)
  BY <1>1
<1>4. ASSUME NEW u \in Sender, NEW id \in DOMAIN choice[u], NEW s \in choice[u][id]
      PROVE  Of(u, id, s) \in X
  BY <1>1
<1>5. ASSUME NEW u \in Sender, NEW id \in DOMAIN choice[u], NEW s \in choice[u][id]
      PROVE  /\ Of(u, id, s).sender = u /\ Of(u, id, s).id = id /\ Of(u, id, s).slot = s
             /\ Of(u, id, s).slots = choice[u][id] /\ Of(u, id, s).type = Type
             /\ s \in Slot /\ choice[u][id] \subseteq Slot /\ id \in Nat
             /\ Slotted => choice[u][id] = {s}
  <2>1. /\ Of(u, id, s).sender = u /\ Of(u, id, s).id = id /\ Of(u, id, s).slot = s
        /\ Of(u, id, s).slots = choice[u][id] /\ Of(u, id, s).type = Type
    BY DEF Burst
  <2>2. s \in Slot /\ choice[u][id] \subseteq Slot /\ id \in Nat
    BY <1>2
  <2>3. Slotted => choice[u][id] = {s}
    BY <1>2
  <2> QED BY <2>1, <2>2, <2>3
<1> DEFINE Is(b, u, id, s) ==
             /\ u \in Sender /\ id \in DOMAIN choice[u] /\ s \in choice[u][id] /\ b = Of(u, id, s)
             /\ b.sender = u /\ b.id = id /\ b.slot = s /\ b.slots = choice[u][id] /\ b.type = Type
             /\ s \in Slot /\ choice[u][id] \subseteq Slot /\ id \in Nat
             /\ Slotted => choice[u][id] = {s}
<1>6. \A b \in X : \E u, id, s : Is(b, u, id, s)
  <2> HIDE DEF Of
  <2> QED BY <1>3, <1>5
<1>7. IsFiniteSet(X)
  <2>1. ASSUME NEW u \in Sender, NEW id \in DOMAIN choice[u] PROVE IsFiniteSet(Sent(u, id))
    <3> DEFINE S == choice[u][id]
               p == [s \in S |-> Of(u, id, s)]
    <3>1. IsFiniteSet(S)
      BY <1>2, FS_Subset, FrameAssumption
    <3>2. Sent(u, id) = {p[s] : s \in S}
      <4> HIDE DEF Of
      <4> QED OBVIOUS
    <3> HIDE DEF S, p
    <3>3. IsFiniteSet({p[s] : s \in S})
      BY <3>1, ImageIsFinite
    <3> QED BY <3>2, <3>3
  <2>2. ASSUME NEW u \in Sender PROVE IsFiniteSet(By(u))
    <3> DEFINE I == DOMAIN choice[u]
               p == [id \in I |-> Sent(u, id)]
    <3>1. IsFiniteSet(I)
      <4>1. PICK m \in Nat : I = 1 .. m
        BY <1>2
      <4> QED BY <4>1, FS_Interval
    <3>2. {Sent(u, id) : id \in I} = {p[id] : id \in I}
      <4> HIDE DEF Sent
      <4> QED OBVIOUS
    <3>3. \A id \in I : IsFiniteSet(p[id])
      <4> HIDE DEF Sent
      <4> QED BY <2>1
    <3> HIDE DEF I, p
    <3>4. IsFiniteSet({p[id] : id \in I})
      BY <3>1, ImageIsFinite
    <3>5. IsFiniteSet(UNION {p[id] : id \in I})
      BY <3>3, <3>4, FS_UNION
    <3> HIDE DEF Sent
    <3> QED BY <3>2, <3>5 DEF I
  <2> DEFINE p == [u \in Sender |-> By(u)]
  <2>3. {By(u) : u \in Sender} = {p[u] : u \in Sender}
    <3> HIDE DEF By
    <3> QED OBVIOUS
  <2>4. \A u \in Sender : IsFiniteSet(p[u])
    <3> HIDE DEF By
    <3> QED BY <2>2
  <2> HIDE DEF p
  <2>5. IsFiniteSet({p[u] : u \in Sender})
    BY ImageIsFinite, CarrierAssumption
  <2>6. IsFiniteSet(UNION {p[u] : u \in Sender})
    BY <2>4, <2>5, FS_UNION
  <2> HIDE DEF By
  <2> QED BY <1>1, <2>3, <2>6
<1>8. \A b \in X : FrameBurst(b)
  <2>1. ASSUME NEW b \in X PROVE FrameBurst(b)
    <3>1. PICK u, id, s : Is(b, u, id, s)
      BY <1>6
    <3>2. b = Burst(b.sender, b.type, b.id, b.slot, b.slots)
      <4>1. b = Burst(u, Type, id, s, choice[u][id])
        BY <3>1
      <4> QED BY <3>1, <4>1
    <3>3. b.type = IF Slotted THEN "SLOTTED_ALOHA" ELSE "CRDSA"
      BY <3>1 DEF Type, Slotted
    <3> HIDE DEF Of
    <3> QED BY <3>1, <3>2, <3>3 DEF FrameBurst
  <2> QED BY <2>1
<1>9. \A b \in X : \A s \in b.slots : Burst(b.sender, b.type, b.id, s, b.slots) \in X
  <2>1. ASSUME NEW b \in X, NEW t \in b.slots PROVE Burst(b.sender, b.type, b.id, t, b.slots) \in X
    <3>1. PICK u, id, s : Is(b, u, id, s)
      BY <1>6
    <3>2. t \in choice[u][id] /\ u \in Sender /\ id \in DOMAIN choice[u]
      BY <2>1, <3>1
    <3>3. Of(u, id, t) \in X
      BY <1>4, <3>2
    <3>4. Of(u, id, t) = Burst(b.sender, b.type, b.id, t, b.slots)
      BY <3>1
    <3> QED BY <3>3, <3>4
  <2> QED BY <2>1
<1>10. \A b, c \in X : SamePacket(b, c) => b.slots = c.slots
  <2> HIDE DEF Of
  <2> QED BY <1>6 DEF SamePacket
<1>11. \A b, c \in X : b.sender = c.sender /\ b.slots \cap c.slots # {} => b.id = c.id
  <2>1. ASSUME NEW b \in X, NEW c \in X, b.sender = c.sender, b.slots \cap c.slots # {}
        PROVE  b.id = c.id
    <3>1. PICK u, id, s : Is(b, u, id, s)
      BY <1>6
    <3>2. PICK v, jd, t : Is(c, v, jd, t)
      BY <1>6
    <3>3. u = v /\ choice[u][id] \cap choice[u][jd] # {} /\ id \in DOMAIN choice[u] /\ jd \in DOMAIN choice[u]
      BY <2>1, <3>1, <3>2
    <3>4. id = jd
      BY <1>2, <3>1, <3>3
    <3> QED BY <3>1, <3>2, <3>4
  <2> QED BY <2>1
<1>12. Slotted => \A b \in X : b.slots = {b.slot}
  <2> HIDE DEF Of
  <2> QED BY <1>6
<1> QED BY <1>7, <1>8, <1>9, <1>10, <1>11, <1>12 DEF IsTransmission, X

-----------------------------------------------------------------------------
(* Slotted ALOHA, CRDSA and MARSALA. *)

WindowIdle == m_essaPacketContainer = <<>> /\ windowPhase = "receive" /\ negativeInterference = FALSE

FramedInv == FrameInv /\ WindowIdle /\ (phase = "marsala" => m_randomAccessModel = "MARSALA")

\* Nothing was heard yet.
LEMMA HeardNothing ==
  ASSUME CarrierInit
  PROVE  Heard({})
<1>1. /\ m_interferenceChanges = <<>> /\ m_residualPowerW = 0 /\ Receiving = {} /\ now = 0
  BY DEF CarrierInit, InterferenceInit, Receiving
<1>2. Len(<<>>) = 0 /\ 1 .. 0 = {} /\ <<>> \in Seq({Rise(b) : b \in {}} \cup {Fall(b) : b \in {}})
  OBVIOUS
<1>3. IsFiniteSet({})
  BY FS_EmptySet
<1>4. IsList(L0, {}) /\ Complete(L0)
  BY <1>1, <1>2, <1>3 DEF IsList, Complete, L0
<1>5. SumFunctionOnSet(PowerLasting(L0, {}, 0), {}) = 0
  BY SumOfNone
<1> QED BY <1>1, <1>4, <1>5 DEF Heard

LEMMA FramedStarts ==
  ASSUME ReceptionInit, Framed
  PROVE  FramedInv
<1>1. /\ m_interferenceChanges = <<>> /\ m_residualPowerW = 0 /\ Receiving = {}
      /\ now = 0 /\ m_rxParams = <<>> /\ bursts = {} /\ handedUp = <<>>
      /\ frame = 0 /\ plan = {} /\ m_crdsaPacketContainer = EmptyMap /\ phase = "start"
      /\ combinedPackets = {} /\ fatal = FALSE
  BY DEF ReceptionInit, PerFrameInit, CarrierInit, InterferenceInit, Receiving
<1>2. WindowIdle
  BY DEF ReceptionInit, PerWindowInit, WindowIdle
<1>3. FrameTimes
  <2>1. FrameStart = 0
    <3>1. FrameDuration \in Nat
      BY <1>1, SlotTimes
    <3> HIDE DEF FrameDuration
    <3> QED BY <1>1, <3>1 DEF FrameStart
  <2>2. phase \notin Processing
    BY <1>1 DEF Processing
  <2> QED BY <1>1, <2>1, <2>2 DEF FrameTimes
<1>4. Own = {}
  BY <1>1 DEF Own
<1>5. FrameHeard({})
  <2>1. Heard({})
    BY HeardNothing DEF ReceptionInit, PerFrameInit
  <2> QED BY <1>1, <2>1 DEF FrameHeard
<1>6. RxOk
  BY <1>1, <1>4 DEF RxOk
<1>7. Collisions
  BY <1>1 DEF Collisions
<1>8. SlottedOk
  <2>1. Len(<<>>) = 0 /\ 1 .. 0 = {} /\ <<>> \in Seq([burst : Own \ Receiving, phyError : BOOLEAN])
    OBVIOUS
  <2>2. Own \ Receiving = {}
    BY <1>4
  <2> QED BY <1>1, <2>1, <2>2 DEF SlottedOk
<1>9. CrdsaOk
  BY <1>1 DEF CrdsaOk
<1>10. FrameResults
  <2>1. DOMAIN handedUp = {}
    BY <1>1
  <2> QED BY <1>4, <2>1 DEF FrameResults, FrameOnce, FrameJustified
<1> QED BY <1>1, <1>2, <1>3, <1>5, <1>6, <1>7, <1>8, <1>9, <1>10 DEF FramedInv, FrameInv, FrameReception

LEMMA FramedStep ==
  ASSUME FramedInv, Framed, ReceptionNext
  PROVE  FramedInv'
<1>1. UNCHANGED windowVars
  BY DEF ReceptionNext, Framed
<1>2. WindowIdle'
  BY <1>1 DEF FramedInv, WindowIdle, windowVars
<1>3. FrameInv
  BY DEF FramedInv
<1>4. CASE /\ phase = "start" /\ frame < Len(MaxFramePackets)
           /\ \E choice \in [Sender -> UNION {SlotChoices(sender) : sender \in Sender}] :
                /\ \A sender \in Sender : choice[sender] \in SlotChoices(sender)
                /\ BeginFrame(Transmissions(choice))
  <2>1. PICK choice : /\ \A sender \in Sender : choice[sender] \in SlotChoices(sender)
                      /\ BeginFrame(Transmissions(choice))
    BY <1>4
  <2>2. frame \in Nat
    BY <1>3 DEF FrameInv, FrameReception, FrameTimes
  <2>3. IsTransmission(Transmissions(choice))
    BY <1>4, <2>1, <2>2, TransmissionsAre
  <2>4. PICK X : X = Transmissions(choice)
    OBVIOUS
  <2>5. FrameInv'
    BY <1>3, <2>1, <2>3, <2>4, FrameBeginsOk
  <2>6. phase' # "marsala"
    BY <2>1 DEF BeginFrame
  <2> QED BY <1>2, <2>5, <2>6 DEF FramedInv
<1>5. CASE PerFrameNext
  <2>1. phase = "marsala" => m_randomAccessModel = "MARSALA"
    BY DEF FramedInv
  <2>2. CASE BurstArrives
    BY <1>2, <1>3, <2>2, FrameArrivesOk DEF FramedInv, BurstArrives
  <2>3. CASE ReceiveSlot
    BY <1>2, <1>3, <2>3, FrameReceivesOk DEF FramedInv, ReceiveSlot
  <2>4. CASE TimePasses
    BY <1>2, <1>3, <2>4, FrameTimeOk DEF FramedInv, TimePasses, frameVars
  <2>5. CASE DoFrameEnd
    BY <1>2, <1>3, <2>5, FrameReceivedOk DEF FramedInv, DoFrameEnd
  <2>6. CASE SicTurn
    BY <1>2, <1>3, <2>6, FrameSicOk DEF FramedInv, SicTurn
  <2>7. CASE SicEnds
    BY <1>2, <1>3, <2>7, FrameSicOk DEF FramedInv, SicEnds
  <2>8. CASE MarsalaDecodes
    BY <1>2, <1>3, <2>1, <2>8, FrameMarsalaOk DEF FramedInv, MarsalaDecodes
  <2>9. CASE MarsalaEnds
    BY <1>2, <1>3, <2>1, <2>9, FrameMarsalaOk DEF FramedInv, MarsalaEnds
  <2>10. CASE CleanUp
    BY <1>2, <1>3, <2>10, FrameCleansUpOk DEF FramedInv, CleanUp
  <2>11. CASE HandUpResults
    BY <1>2, <1>3, <2>11, FrameEndsOk DEF FramedInv, HandUpResults
  <2> QED BY <1>5, <2>2, <2>3, <2>4, <2>5, <2>6, <2>7, <2>8, <2>9, <2>10, <2>11 DEF PerFrameNext
<1> QED BY <1>4, <1>5 DEF ReceptionNext, Framed

\* Nothing happens.
LEMMA FramedStutters ==
  ASSUME FramedInv, UNCHANGED receptionVars
  PROVE  FramedInv'
<1>1. /\ UNCHANGED carrierVars /\ UNCHANGED frameVars /\ UNCHANGED windowVars
  BY DEF receptionVars
<1>2. /\ UNCHANGED interferenceVars /\ UNCHANGED <<now, m_rxParams, bursts, handedUp>>
      /\ UNCHANGED <<m_randomAccessModel, m_randomAccessCollisionModel, frame, plan>>
      /\ UNCHANGED <<m_crdsaPacketContainer, phase, combinedPackets, fatal>>
      /\ UNCHANGED <<m_essaPacketContainer, windowPhase, negativeInterference>>
  BY <1>1 DEF carrierVars, frameVars, windowVars
<1>3. FrameReception /\ fatal = FALSE /\ SlottedOk /\ CrdsaOk /\ FrameResults /\ WindowIdle
  BY DEF FramedInv, FrameInv
<1>4. Receiving' = Receiving /\ Own' = Own /\ m_packetCollisions' = m_packetCollisions
  BY <1>2 DEF Receiving, interferenceVars, Own
<1>5. FrameReception'
  <2>1. phase # "start" => IsTransmission(plan \cup bursts)'
    BY <1>2, <1>3, TransmissionSame DEF FrameReception, FrameTimes
  <2>2. FrameStart' = FrameStart /\ FrameDuration' = FrameDuration
    BY <1>2 DEF FrameStart, FrameDuration
  <2>3. FrameTimes'
    <3> HIDE DEF FrameStart, FrameDuration
    <3> QED BY <1>2, <1>3, <1>4, <2>1, <2>2 DEF FrameReception, FrameTimes
  <2>4. PICK H : FrameHeard(H)
    BY <1>3 DEF FrameReception
  <2>5. FrameHeard(H)'
    <3>1. Heard(H)'
      BY <1>2, <2>4, HeardLater DEF FrameHeard
    <3> QED BY <1>2, <2>4, <3>1 DEF FrameHeard, FrameStart, FrameDuration
  <2>6. RxOk'
    BY <1>2, <1>3, <1>4 DEF FrameReception, RxOk
  <2>7. Collisions'
    BY <1>3, <1>4 DEF FrameReception, Collisions
  <2> QED BY <2>3, <2>5, <2>6, <2>7 DEF FrameReception
<1>6. SlottedOk'
  BY <1>2, <1>3, <1>4, SlottedSame DEF SlottedOk
<1>7. CrdsaOk'
  <2>1. ASSUME ~Slotted, phase # "start"
        PROVE  CrdsaState(m_crdsaPacketContainer, combinedPackets, phase, Receiving)'
    <3>1. PICK F : F = m_crdsaPacketContainer
      OBVIOUS
    <3>2. PICK P : P = combinedPackets
      OBVIOUS
    <3>3. PICK R : R = Receiving
      OBVIOUS
    <3>4. PICK ph : ph = phase
      OBVIOUS
    <3>5. CrdsaState(F, P, ph, R)
      BY <1>3, <2>1, <3>1, <3>2, <3>3, <3>4 DEF CrdsaOk
    <3>6. CrdsaState(F, P, ph, R)'
      BY <1>2, <3>5, StateSame
    <3> QED BY <1>2, <1>4, <3>1, <3>2, <3>3, <3>4, <3>6, StateNext
  <2> QED BY <1>2, <1>3, <2>1 DEF CrdsaOk, Slotted
<1>8. FrameResults'
  <2>1. PICK H : H = handedUp
    OBVIOUS
  <2>2. FrameOnce(H)' = FrameOnce(H) /\ FrameJustified(H)' = FrameJustified(H)
    BY <1>2, ResultsSame
  <2>3. phase = "start" => FrameOnce(H) /\ FrameJustified(H)
    BY <1>3, <2>1 DEF FrameResults
  <2>4. phase' = "start" => FrameOnce(H)' /\ FrameJustified(H)'
    BY <1>2, <2>2, <2>3
  <2>5. handedUp' = H
    BY <1>2, <2>1
  <2> QED BY <2>4, <2>5 DEF FrameResults
<1> QED BY <1>2, <1>3, <1>5, <1>6, <1>7, <1>8 DEF FramedInv, FrameInv, WindowIdle

\* What the invariant says of the results.
LEMMA FramedIsRight ==
  ASSUME FramedInv, Framed
  PROVE  InterferenceIsExact /\ OutcomeJustified /\ HandedUpOnce
<1>1. /\ FrameReception /\ fatal = FALSE /\ SlottedOk /\ CrdsaOk /\ FrameResults
      /\ m_essaPacketContainer = <<>> /\ negativeInterference = FALSE
  BY DEF FramedInv, FrameInv, WindowIdle
<1>2. ASSUME NEW p \in Places
      PROVE  PacketAt(p).ifPower = EnergyOver(PacketAt(p).burst, DecodedInFrame)
  <2>1. m_crdsaPacketContainer # EmptyMap
    BY DEF Places, EmptyMap
  <2>2. ~Slotted /\ phase # "start"
    BY <1>1, <2>1 DEF SlottedOk, CrdsaOk
  <2>3. Lists(m_crdsaPacketContainer, WaitingFor(combinedPackets, Receiving))
        /\ Judged(m_crdsaPacketContainer, DecodedBy(combinedPackets), phase)
    BY <1>1, <2>2 DEF CrdsaOk, CrdsaState
  <2>4. p[1] \in DOMAIN m_crdsaPacketContainer /\ p[2] \in 1 .. Len(m_crdsaPacketContainer[p[1]])
    <3>1. p[1] \in DOMAIN m_crdsaPacketContainer /\ p[2] \in DOMAIN m_crdsaPacketContainer[p[1]]
      BY DEF Places
    <3>2. m_crdsaPacketContainer[p[1]] \in Seq(Waiting)
      BY <2>3, <3>1 DEF Lists, SlotHolds
    <3> QED BY <3>1, <3>2
  <2>5. DecodedInFrame = DecodedBy(combinedPackets)
    BY DEF DecodedInFrame, DecodedBy
  <2> QED BY <2>3, <2>4, <2>5 DEF Judged, JudgedPacket, PacketAt
<1>3. DOMAIN m_essaPacketContainer = {}
  BY <1>1
<1>4. InterferenceIsExact
  BY <1>2, <1>3 DEF InterferenceIsExact
<1>5. OutcomeJustified
  BY <1>1, <1>3 DEF OutcomeJustified, FrameResults, FrameJustified
<1>6. HandedUpOnce
  BY <1>1 DEF HandedUpOnce, FrameResults, FrameOnce, HandedUp, Framed
<1> QED BY <1>4, <1>5, <1>6

\* The invariant of a carrier that is not received per window.
LEMMA FramedInvariant == ReceptionSpec => [](Framed => FramedInv)
<1>1. ReceptionInit => (Framed => FramedInv)
  BY FramedStarts
<1>2. ASSUME Framed => FramedInv, [ReceptionNext]_receptionVars PROVE (Framed => FramedInv)'
  <2>1. m_randomAccessModel' = m_randomAccessModel
    BY <1>2 DEF receptionVars, frameVars, ReceptionNext, PerFrameNext, BeginFrame, BurstArrives,
       ReceiveSlot, TimePasses, DoFrameEnd, SicTurn, SicEnds, MarsalaDecodes, MarsalaEnds, CleanUp,
       HandUpResults
  <2>2. Framed' = Framed
    BY <2>1 DEF Framed
  <2>3. ASSUME Framed PROVE FramedInv'
    BY <1>2, <2>3, FramedStep, FramedStutters
  <2> QED BY <2>2, <2>3
<1> QED BY <1>1, <1>2, PTL DEF ReceptionSpec

=============================================================================
