------------------------- MODULE SatUtAccessProofs -------------------------
(***************************************************************************)
(* What holds of a UT's transmissions for every number of channels, slots  *)
(* and replicas.  The simulator's queue comes first: it stays in order, so *)
(* nothing is overdue when time passes.                                    *)
(***************************************************************************)
EXTENDS SatUtAccess, SatFacts

Bursts == {"DoTransmit", "TransmitPackets"}
Kinds == {"DoFrameStart", "DoTransmit", "TransmitPackets", "ScheduleSlottedAlohaTransmission",
          "DoSlottedAlohaTransmit", "ScheduleEssaTransmission", "DoEssaTransmit", "DoRandomAccess"}
Events == [kind : Kinds, left : Int]

\* A queue of the simulator.
Ordered(q) == \A i, j \in DOMAIN q : i < j => q[i].left <= q[j].left
Queue(q) == q \in Seq(Events) /\ Ordered(q)
Contents(q) == {q[i] : i \in DOMAIN q}

Backoffs == {"default", "low", "high"}
Messages == [channel : Channel, backoff : {"low", "high"}]
Errors == {None, "already TX", "slot unavailable", "wrong model"}

AccessTypeOK ==
  /\ m_randomAccessModel \in Models
  /\ m_raChannel \in Channel
  /\ backoffLeft \in [Channel -> Nat]
  /\ m_crdsaIdleBlocksLeft \in [Channel -> Nat]
  /\ m_crdsaNumOfConsecutiveBlocksUsed \in [Channel -> Nat]
  /\ m_crdsaNewData \in BOOLEAN
  /\ m_backoff \in [Channel -> Backoffs]
  /\ row \in Nat
  /\ owed \in Nat

\* Nothing is overdue.
Timely(q) == Queue(q) /\ \A e \in Contents(q) : e.left \in Nat

UtTypeOK ==
  /\ now \in 0 .. N - 1
  /\ Timely(events)
  /\ busy \in Nat
  /\ fatal \in Errors
  /\ buffered \in Nat
  /\ tbtps \in [Superframes -> 0 .. MaxTbtps]
  /\ knownSlots \subseteq Nat
  /\ m_usedRandomAccessSlots \subseteq Nat
  /\ m_isRandomAccessScheduled \in BOOLEAN
  /\ nextPacketIn \in Nat

NccTypeOK ==
  /\ m_isLowRandomAccessLoad \in [Channel -> BOOLEAN]
  /\ raMessages \in Seq(Messages)

TypeOK == AccessTypeOK /\ UtTypeOK /\ NccTypeOK
-----------------------------------------------------------------------------
\* The last message on its way to a channel says what the NCC wants of it; if
\* there is none, the UT does what the NCC wants.
Wanted(c) == IF m_isLowRandomAccessLoad[c] THEN "low" ELSE "high"
Follows(c) == m_backoff[c] = Wanted(c) \/ (m_backoff[c] = "default" /\ m_isLowRandomAccessLoad[c])
LastOf(c, i) ==
  /\ i \in DOMAIN raMessages
  /\ raMessages[i].channel = c
  /\ \A j \in DOMAIN raMessages : j > i => raMessages[j].channel # c
Announced ==
  fatal = None =>
    \A c \in Channel :
      \/ \E i \in DOMAIN raMessages : LastOf(c, i) /\ raMessages[i].backoff = Wanted(c)
      \/ Follows(c) /\ \A i \in DOMAIN raMessages : raMessages[i].channel # c
-----------------------------------------------------------------------------
\* The counts of the code and those of the history agree for the channel in
\* use, if no channel reaches its limit before it.
ShortestLimit ==
  \A c \in Channel \ {m_raChannel} :
    \/ MaxConsecutive[m_raChannel] < MaxConsecutive[c]
    \/ (MaxConsecutive[m_raChannel] = MaxConsecutive[c] /\ m_raChannel < c)
CountsAgree ==
  LET idle == m_crdsaIdleBlocksLeft[m_raChannel]
      used == m_crdsaNumOfConsecutiveBlocksUsed[m_raChannel]
  IN  /\ owed = idle
      /\ MinIdle[m_raChannel] = 0 => idle = 0
      /\ MinIdle[m_raChannel] > 0 /\ idle = 0 =>
           /\ row = used
           /\ used = 0 \/ used < MaxConsecutive[m_raChannel]
           /\ \A c \in Channel : m_crdsaNumOfConsecutiveBlocksUsed[c] <= used
-----------------------------------------------------------------------------
\* No two bursts start in the same slot, and there is one frame start.
Clash(a, b) ==
  \/ a.kind \in Bursts /\ b.kind \in Bursts /\ a.left = b.left
  \/ a.kind = "DoFrameStart" /\ b.kind = "DoFrameStart"
Alone(q) == \A i, j \in DOMAIN q : i # j => ~ Clash(q[i], q[j])

FrameStartDue == \E e \in Contents(events) : e.kind = "DoFrameStart" /\ e.left = 0

\* What is scheduled: the frame start of this superframe or of the next, the
\* dedicated slots that the container knows, and, once the superframe has
\* started, replicas in it.
Scheduled(e) ==
  \/ e.kind = "DoFrameStart" /\ ((e.left = 0 /\ now = 0) \/ e.left = N - now)
  \/ e.kind = "DoTransmit" /\ now + e.left \in knownSlots
  \/ e.kind = "TransmitPackets" /\ now + e.left < N /\ ~ FrameStartDue

CrdsaInv ==
  /\ Alone(events)
  /\ \A e \in Contents(events) : Scheduled(e)
  /\ busy <= 1
  /\ busy = 1 => \A e \in Contents(events) : e.kind \in Bursts => e.left > 0
  /\ m_usedRandomAccessSlots \subseteq 0 .. N - 1
  /\ FrameStartDue => (m_usedRandomAccessSlots = {} /\ (busy = 0 \/ now \in knownSlots))
  /\ OneTransmissionAtATime
CrdsaOK == UsesCrdsa => CrdsaInv
-----------------------------------------------------------------------------
(* The simulator's queue. *)

\* InsertAt puts an element at a position and moves those behind it.
LEMMA InsertAtFacts ==
  ASSUME NEW S, NEW q \in Seq(S), NEW k \in 1 .. Len(q) + 1, NEW e \in S
  PROVE  /\ InsertAt(q, k, e) \in Seq(S)
         /\ Len(InsertAt(q, k, e)) = Len(q) + 1
         /\ InsertAt(q, k, e)[k] = e
         /\ \A j \in 1 .. k - 1 : InsertAt(q, k, e)[j] = q[j]
         /\ \A j \in k + 1 .. Len(q) + 1 : InsertAt(q, k, e)[j] = q[j - 1]
<1> DEFINE a == SubSeq(q, 1, k - 1)
           b == SubSeq(q, k, Len(q))
           ae == a \o <<e>>
<1>1. a \in Seq(S) /\ Len(a) = k - 1 /\ \A j \in 1 .. k - 1 : a[j] = q[j]
  OBVIOUS
<1>2. b \in Seq(S) /\ Len(b) = Len(q) - k + 1 /\ \A j \in 1 .. Len(q) - k + 1 : b[j] = q[k + j - 1]
  OBVIOUS
<1> HIDE DEF a, b
<1>3. /\ ae \in Seq(S) /\ Len(ae) = k /\ ae[k] = e
      /\ \A j \in 1 .. k - 1 : ae[j] = q[j]
  BY <1>1
<1>4. InsertAt(q, k, e) = ae \o b
  BY DEF InsertAt, a, b
<1> HIDE DEF ae
<1> QED BY <1>2, <1>3, <1>4

\* The events of a queue.
LEMMA QueueFacts ==
  ASSUME NEW q, Queue(q)
  PROVE  /\ q \in Seq(Events) /\ Len(q) \in Nat /\ DOMAIN q = 1 .. Len(q)
         /\ \A i \in 1 .. Len(q) : q[i] \in Events /\ q[i].left \in Int
         /\ \A i, j \in 1 .. Len(q) : i < j => q[i].left <= q[j].left
<1>1. q \in Seq(Events) /\ Ordered(q)
  BY DEF Queue
<1>2. Len(q) \in Nat /\ DOMAIN q = 1 .. Len(q) /\ \A i \in 1 .. Len(q) : q[i] \in Events
  BY <1>1
<1>3. \A e \in Events : e.left \in Int
  BY DEF Events
<1> QED BY <1>1, <1>2, <1>3 DEF Ordered

\* An event comes behind those that are due no later.
LEMMA InsertFacts ==
  ASSUME NEW q, Queue(q), NEW e \in Events
  PROVE  \E k \in 1 .. Len(q) + 1 :
           /\ Insert(q, e) \in Seq(Events)
           /\ Len(Insert(q, e)) = Len(q) + 1
           /\ Insert(q, e)[k] = e
           /\ \A j \in 1 .. k - 1 : Insert(q, e)[j] = q[j] /\ q[j].left <= e.left
           /\ \A j \in k + 1 .. Len(q) + 1 : Insert(q, e)[j] = q[j - 1] /\ q[j - 1].left > e.left
<1> DEFINE P == {i \in DOMAIN q : q[i].left <= e.left}
           n == Cardinality(P)
<1>1. /\ q \in Seq(Events) /\ Len(q) \in Nat /\ DOMAIN q = 1 .. Len(q)
      /\ e.left \in Int /\ \A i \in 1 .. Len(q) : q[i].left \in Int
  BY QueueFacts DEF Events
<1>2. IsFiniteSet(P) /\ P \in SUBSET Nat
  <2>1. IsFiniteSet(1 .. Len(q))
    BY <1>1, FS_Interval
  <2> QED BY <1>1, <2>1, FS_Subset
<1>3. \A i \in P : i >= 1 /\ 1 .. i \subseteq P
  <2> SUFFICES ASSUME NEW i \in P, NEW j \in 1 .. i PROVE j \in P
    BY <1>1
  <2>1. j \in 1 .. Len(q) /\ i \in 1 .. Len(q) /\ (j = i \/ j < i)
    BY <1>1
  <2> QED BY <1>1, <2>1, QueueFacts
<1>4. P = 1 .. 1 + n - 1
  <2> HIDE DEF P
  <2> QED BY <1>2, <1>3, DownClosedInterval
<1>5. n \in Nat
  <2> HIDE DEF P
  <2> QED BY <1>2, FS_CardinalityType
<1>6. n <= Len(q)
  <2>1. CASE n = 0
    BY <1>1, <2>1
  <2>2. CASE n # 0
    <3>1. n \in P
      <4> HIDE DEF P, n
      <4> QED BY <1>4, <1>5, <2>2
    <3> HIDE DEF n
    <3> QED BY <1>1, <3>1
  <2> QED BY <2>1, <2>2
<1>7. Insert(q, e) = InsertAt(q, 1 + n, e)
  BY DEF Insert
<1>8. \A j \in 1 .. n : q[j].left <= e.left
  <2>1. \A j \in 1 .. n : j \in P
    <3> HIDE DEF P, n
    <3> QED BY <1>4, <1>5
  <2> HIDE DEF n
  <2> QED BY <2>1
<1>9. \A j \in n + 1 .. Len(q) : q[j].left > e.left
  <2>1. \A j \in n + 1 .. Len(q) : j \notin P
    <3> HIDE DEF P, n
    <3> QED BY <1>4, <1>5
  <2> HIDE DEF n
  <2> QED BY <1>1, <1>5, <2>1
<1> HIDE DEF P, n
<1>10. PICK k \in 1 .. Len(q) + 1 : k = 1 + n
  BY <1>1, <1>5, <1>6
<1>11. /\ InsertAt(q, k, e) \in Seq(Events)
       /\ Len(InsertAt(q, k, e)) = Len(q) + 1
       /\ InsertAt(q, k, e)[k] = e
       /\ \A j \in 1 .. k - 1 : InsertAt(q, k, e)[j] = q[j]
       /\ \A j \in k + 1 .. Len(q) + 1 : InsertAt(q, k, e)[j] = q[j - 1]
  <2> DEFINE S == Events
  <2>1. q \in Seq(S) /\ e \in S
    BY <1>1
  <2> HIDE DEF S
  <2>2. /\ InsertAt(q, k, e) \in Seq(S)
        /\ Len(InsertAt(q, k, e)) = Len(q) + 1
        /\ InsertAt(q, k, e)[k] = e
        /\ \A j \in 1 .. k - 1 : InsertAt(q, k, e)[j] = q[j]
        /\ \A j \in k + 1 .. Len(q) + 1 : InsertAt(q, k, e)[j] = q[j - 1]
    BY <2>1, InsertAtFacts
  <2> QED BY <2>2 DEF S
<1>12. /\ \A j \in 1 .. k - 1 : q[j].left <= e.left
       /\ \A j \in k + 1 .. Len(q) + 1 : q[j - 1].left > e.left
  BY <1>1, <1>5, <1>8, <1>9, <1>10
<1> QED BY <1>7, <1>10, <1>11, <1>12, SMTT(30)

\* An event that clashes with none of the queue.
ClashFree(q, S) == \A i \in DOMAIN q, x \in S : ~ Clash(q[i], x)

LEMMA InsertKeeps ==
  ASSUME NEW q, Queue(q), NEW e \in Events
  PROVE  /\ Queue(Insert(q, e))
         /\ Contents(Insert(q, e)) = Contents(q) \cup {e}
         /\ Alone(q) /\ ClashFree(q, {e}) => Alone(Insert(q, e))
<1> DEFINE r == Insert(q, e)
<1>1. PICK k \in 1 .. Len(q) + 1 :
        /\ r \in Seq(Events)
        /\ Len(r) = Len(q) + 1
        /\ r[k] = e
        /\ \A j \in 1 .. k - 1 : r[j] = q[j] /\ q[j].left <= e.left
        /\ \A j \in k + 1 .. Len(q) + 1 : r[j] = q[j - 1] /\ q[j - 1].left > e.left
  BY InsertFacts
<1> HIDE DEF r
<1>2. /\ q \in Seq(Events) /\ Len(q) \in Nat /\ DOMAIN q = 1 .. Len(q) /\ DOMAIN r = 1 .. Len(q) + 1
      /\ e.left \in Int /\ \A i \in 1 .. Len(q) : q[i].left \in Int
      /\ \A i, j \in 1 .. Len(q) : i < j => q[i].left <= q[j].left
  <2>1. DOMAIN r = 1 .. Len(q) + 1
    BY <1>1
  <2>2. e.left \in Int
    BY DEF Events
  <2> QED BY <2>1, <2>2, QueueFacts
<1> DEFINE was(j) == IF j < k THEN j ELSE j - 1
<1>3. \A j \in DOMAIN r : j = k \/ (was(j) \in 1 .. Len(q) /\ r[j] = q[was(j)] /\ (j < k <=> was(j) < k))
  BY <1>1, <1>2
<1>4. \A i \in 1 .. Len(q) : \E j \in DOMAIN r : r[j] = q[i]
  <2> TAKE i \in 1 .. Len(q)
  <2>1. CASE i < k
    <3>1. i \in DOMAIN r /\ i \in 1 .. k - 1
      BY <1>2, <2>1
    <3>2. r[i] = q[i]
      BY <1>1, <3>1
    <3> QED BY <3>1, <3>2
  <2>2. CASE i >= k
    <3>1. i + 1 \in k + 1 .. Len(q) + 1 /\ i + 1 \in DOMAIN r /\ (i + 1) - 1 = i
      BY <1>2, <2>2
    <3>2. r[i + 1] = q[i]
      BY <1>1, <3>1
    <3> QED BY <3>1, <3>2
  <2> QED BY <1>2, <2>1, <2>2
<1>5. Ordered(r)
  <2> SUFFICES ASSUME NEW i \in DOMAIN r, NEW j \in DOMAIN r, i < j PROVE r[i].left <= r[j].left
    BY DEF Ordered
  <2>1. i \in 1 .. Len(q) + 1 /\ j \in 1 .. Len(q) + 1 /\ i \in Int /\ j \in Int
    BY <1>2
  <2>2. CASE j < k
    <3>1. i \in 1 .. k - 1 /\ j \in 1 .. k - 1 /\ i \in 1 .. Len(q) /\ j \in 1 .. Len(q)
      BY <1>2, <2>1, <2>2
    <3>2. r[i] = q[i] /\ r[j] = q[j] /\ q[i].left <= q[j].left
      BY <1>1, <1>2, <3>1
    <3> QED BY <3>2
  <2>3. CASE j = k
    <3>1. i \in 1 .. k - 1
      BY <2>1, <2>3
    <3>2. r[i] = q[i] /\ r[j] = e /\ q[i].left <= e.left
      BY <1>1, <2>3, <3>1
    <3> QED BY <3>2
  <2>4. CASE j > k /\ i = k
    <3>1. j \in k + 1 .. Len(q) + 1 /\ j - 1 \in 1 .. Len(q)
      BY <2>1, <2>4
    <3>2. r[j] = q[j - 1] /\ r[i] = e /\ q[j - 1].left > e.left
      BY <1>1, <2>4, <3>1
    <3>3. q[j - 1].left \in Int /\ e.left \in Int
      BY <1>2, <3>1
    <3> QED BY <3>2, <3>3
  <2>5. CASE j > k /\ i < k
    <3>1. i \in 1 .. k - 1 /\ j \in k + 1 .. Len(q) + 1 /\ i \in 1 .. Len(q) /\ j - 1 \in 1 .. Len(q)
      BY <1>2, <2>1, <2>5
    <3>2. r[i] = q[i] /\ r[j] = q[j - 1] /\ q[i].left <= e.left /\ q[j - 1].left > e.left
      BY <1>1, <3>1
    <3>3. q[i].left \in Int /\ q[j - 1].left \in Int /\ e.left \in Int
      BY <1>2, <3>1
    <3> QED BY <3>2, <3>3
  <2>6. CASE j > k /\ i > k
    <3>1. /\ i \in k + 1 .. Len(q) + 1 /\ j \in k + 1 .. Len(q) + 1
          /\ i - 1 \in 1 .. Len(q) /\ j - 1 \in 1 .. Len(q) /\ i - 1 < j - 1
      BY <1>2, <2>1, <2>6
    <3>2. r[i] = q[i - 1] /\ r[j] = q[j - 1]
      BY <1>1, <3>1
    <3>3. q[i - 1].left <= q[j - 1].left
      BY <1>2, <3>1
    <3> QED BY <3>2, <3>3
  <2> QED BY <1>2, <2>1, <2>2, <2>3, <2>4, <2>5, <2>6
<1>6. Contents(r) = Contents(q) \cup {e}
  <2>1. \A x \in Contents(r) : x \in Contents(q) \cup {e}
    BY <1>1, <1>2, <1>3 DEF Contents
  <2>2. \A x \in Contents(q) : x \in Contents(r)
    <3> TAKE x \in Contents(q)
    <3>1. PICK i \in 1 .. Len(q) : x = q[i]
      BY <1>2 DEF Contents
    <3>2. PICK j \in DOMAIN r : r[j] = q[i]
      BY <1>4
    <3> QED BY <3>1, <3>2 DEF Contents
  <2>3. e \in Contents(r)
    <3>1. k \in DOMAIN r
      BY <1>2
    <3> QED BY <1>1, <3>1 DEF Contents
  <2> QED BY <2>1, <2>2, <2>3
<1>7. ASSUME Alone(q), ClashFree(q, {e}) PROVE Alone(r)
  <2> SUFFICES ASSUME NEW i \in DOMAIN r, NEW j \in DOMAIN r, i # j PROVE ~ Clash(r[i], r[j])
    BY DEF Alone
  <2>1. \A x \in DOMAIN q : ~ Clash(q[x], e) /\ ~ Clash(e, q[x])
    BY <1>7 DEF ClashFree, Clash
  <2>2. CASE i = k
    BY <1>1, <1>2, <1>3, <2>1, <2>2
  <2>3. CASE j = k
    BY <1>1, <1>2, <1>3, <2>1, <2>3
  <2>4. CASE i # k /\ j # k
    <3>1. was(i) # was(j)
      BY <1>2, <2>4
    <3> QED BY <1>2, <1>3, <1>7, <2>4, <3>1 DEF Alone
  <2> QED BY <2>2, <2>3, <2>4
<1> QED BY <1>1, <1>5, <1>6, <1>7 DEF Queue, r

\* The largest of some positions is one of them, and of the first ones the last.
LEMMA MaxFacts ==
  ASSUME NEW n \in Nat
  PROVE  /\ \A T \in SUBSET (1 .. n) : T # {} => Max(T) \in T
         /\ \A i \in 1 .. n : Max(1 .. i) = i
<1>1. ASSUME NEW T \in SUBSET (1 .. n), T # {} PROVE Max(T) \in T /\ \A y \in T : Max(T) >= y
  <2>1. PICK x \in T : \A y \in T : x >= y
    BY <1>1, LargestElement
  <2> QED BY <2>1 DEF Max
<1>2. ASSUME NEW i \in 1 .. n PROVE Max(1 .. i) = i
  <2>1. 1 .. i \in SUBSET (1 .. n) /\ 1 .. i # {} /\ i \in 1 .. i
    OBVIOUS
  <2>2. PICK x : x = Max(1 .. i)
    OBVIOUS
  <2>3. x \in 1 .. i /\ x >= i
    BY <1>1, <2>1, <2>2
  <2> QED BY <2>2, <2>3
<1> QED BY <1>1, <1>2

\* Events are scheduled one after the other.
IsScheduling(h, q, new) ==
  h = [T \in SUBSET DOMAIN new |->
         IF T = {} THEN q ELSE Insert(h[T \ {Max(T)}], new[Max(T)])]

LEMMA WithStepwise ==
  ASSUME NEW q, Queue(q), NEW new \in Seq(Events)
  PROVE  \E h : /\ With(q, new) = h[1 .. Len(new)]
                /\ h[{}] = q
                /\ \A i \in 1 .. Len(new) : h[1 .. i] = Insert(h[1 .. i - 1], new[i])
<1> DEFINE S == DOMAIN new
           Y == {y \in Seq(Events) : Queue(y)}
           pick == [T \in SUBSET S |-> Max(T)]
           step == [x \in S |-> [y \in Y |-> Insert(y, new[x])]]
           g == CHOOSE h : IsScheduling(h, q, new)
<1>1. Len(new) \in Nat /\ S = 1 .. Len(new) /\ \A x \in S : new[x] \in Events
  OBVIOUS
<1>2. \A T \in SUBSET S : T # {} => Max(T) \in T
  BY <1>1, MaxFacts
<1>3. \A x \in S, y \in Y : Insert(y, new[x]) \in Y
  BY <1>1, InsertKeeps DEF Queue
<1>4. PICK h : Recurs(h, S, q, pick, step) /\ \A T \in SUBSET S : h[T] \in Y
  <2>1. \A T \in SUBSET S : T # {} => pick[T] \in T
    BY <1>2
  <2>2. \A x \in S, y \in Y : step[x][y] \in Y
    BY <1>3
  <2>3. q \in Y
    BY DEF Queue
  <2>4. IsFiniteSet(S)
    BY <1>1, FS_Interval
  <2> HIDE DEF S, Y, pick, step
  <2> QED BY <2>1, <2>2, <2>3, <2>4, Recursion
<1>5. \A T \in SUBSET S :
        T # {} => step[pick[T]][h[T \ {pick[T]}]] = Insert(h[T \ {Max(T)}], new[Max(T)])
  <2> SUFFICES ASSUME NEW T \in SUBSET S, T # {}
               PROVE  step[pick[T]][h[T \ {pick[T]}]] = Insert(h[T \ {Max(T)}], new[Max(T)])
    OBVIOUS
  <2>1. Max(T) \in S /\ T \ {Max(T)} \in SUBSET S /\ pick[T] = Max(T)
    BY <1>2
  <2>2. h[T \ {Max(T)}] \in Y
    BY <1>4, <2>1
  <2> QED BY <2>1, <2>2
<1>6. IsScheduling(h, q, new)
  <2> HIDE DEF pick, step
  <2> QED BY <1>4, <1>5 DEF IsScheduling, Recurs
<1>7. IsScheduling(g, q, new)
  <2> HIDE DEF g
  <2>1. \E k : IsScheduling(k, q, new)
    BY <1>6
  <2> QED BY <2>1, Zenon DEF g
<1>8. With(q, new) = g[S]
  BY Zenon DEF With, FoldLeft, MapThenFoldSet, IsScheduling
<1>9. \A T \in SUBSET S : g[T] = IF T = {} THEN q ELSE Insert(g[T \ {Max(T)}], new[Max(T)])
  <2> HIDE DEF g
  <2> QED BY <1>7 DEF IsScheduling
<1>10. ASSUME NEW i \in 1 .. Len(new) PROVE g[1 .. i] = Insert(g[1 .. i - 1], new[i])
  <2>1. 1 .. i \in SUBSET S /\ 1 .. i # {} /\ (1 .. i) \ {i} = 1 .. i - 1
    <3>1. (1 .. i) \ {i} = 1 .. i - 1 /\ i \in 1 .. i
      OBVIOUS
    <3>2. \A j \in 1 .. i : j \in 1 .. Len(new)
      BY <1>1
    <3> QED BY <1>1, <3>1, <3>2
  <2>2. Max(1 .. i) = i
    BY <1>1, MaxFacts
  <2> HIDE DEF g
  <2> QED BY <1>9, <2>1, <2>2
<1> HIDE DEF g
<1>11. g[{}] = q /\ With(q, new) = g[1 .. Len(new)]
  BY <1>1, <1>8, <1>9
<1> QED BY <1>10, <1>11

LEMMA WithKeeps ==
  ASSUME NEW q, Queue(q), NEW new \in Seq(Events)
  PROVE  /\ Queue(With(q, new))
         /\ Contents(With(q, new)) = Contents(q) \cup Contents(new)
         /\ Alone(q) /\ Alone(new) /\ ClashFree(q, Contents(new)) => Alone(With(q, new))
<1>1. PICK h : /\ With(q, new) = h[1 .. Len(new)]
               /\ h[{}] = q
               /\ \A i \in 1 .. Len(new) : h[1 .. i] = Insert(h[1 .. i - 1], new[i])
  BY WithStepwise
<1>2. Len(new) \in Nat /\ DOMAIN new = 1 .. Len(new) /\ \A i \in 1 .. Len(new) : new[i] \in Events
  OBVIOUS
<1> DEFINE Apart == Alone(q) /\ Alone(new) /\ ClashFree(q, Contents(new))
           Some(i) == {new[j] : j \in 1 .. i}
           P(i) == /\ Queue(h[1 .. i])
                   /\ Contents(h[1 .. i]) = Contents(q) \cup Some(i)
                   /\ Apart => Alone(h[1 .. i])
           A == {i \in Nat : i <= Len(new) => P(i)}
<1>3. 0 \in A
  <2>1. 1 .. 0 = {} /\ Some(0) = {}
    OBVIOUS
  <2> QED BY <1>1, <2>1
<1>4. ASSUME NEW i \in Nat, i \in A, i + 1 <= Len(new) PROVE P(i + 1)
  <2> DEFINE e == new[i + 1]
  <2>1. i + 1 \in 1 .. Len(new) /\ e \in Events /\ P(i)
    BY <1>2, <1>4
  <2>2. PICK r : r = h[1 .. i]
    OBVIOUS
  <2>3. h[1 .. i + 1] = Insert(r, e)
    <3>1. (i + 1) - 1 = i
      OBVIOUS
    <3> QED BY <1>1, <2>1, <2>2, <3>1
  <2>4. Some(i + 1) = Some(i) \cup {e}
    <3>1. 1 .. i + 1 = (1 .. i) \cup {i + 1}
      OBVIOUS
    <3> QED BY <3>1
  <2>5. ASSUME Apart PROVE ClashFree(r, {e})
    <3> SUFFICES ASSUME NEW k \in DOMAIN r PROVE ~ Clash(r[k], e)
      BY DEF ClashFree
    <3>1. r[k] \in Contents(q) \cup Some(i)
      BY <2>1, <2>2 DEF Contents
    <3>2. CASE r[k] \in Contents(q)
      <4>1. e \in Contents(new)
        BY <1>2, <2>1 DEF Contents
      <4> QED BY <2>5, <3>2, <4>1 DEF ClashFree, Contents
    <3>3. CASE r[k] \in Some(i)
      <4>1. PICK j \in 1 .. i : r[k] = new[j]
        BY <3>3
      <4>2. j \in 1 .. Len(new) /\ j # i + 1
        BY <1>2, <2>1
      <4> QED BY <1>2, <2>1, <2>5, <4>1, <4>2 DEF Alone
    <3> QED BY <3>1, <3>2, <3>3
  <2>6. /\ Queue(Insert(r, e))
        /\ Contents(Insert(r, e)) = Contents(r) \cup {e}
        /\ Alone(r) /\ ClashFree(r, {e}) => Alone(Insert(r, e))
    <3> HIDE DEF e, Some
    <3> QED BY <2>1, <2>2, InsertKeeps
  <2> HIDE DEF e, Some, Apart
  <2> QED BY <2>1, <2>2, <2>3, <2>4, <2>5, <2>6
<1>5. \A i \in Nat : i \in A
  <2> HIDE DEF P
  <2>1. \A i \in Nat : i \in A => i + 1 \in A
    BY <1>4, <1>2
  <2> HIDE DEF A
  <2> QED BY <1>3, <2>1, Induction
<1>6. P(Len(new))
  <2> HIDE DEF P
  <2> QED BY <1>2, <1>5
<1>7. Some(Len(new)) = Contents(new)
  BY <1>2 DEF Contents
<1> QED BY <1>1, <1>6, <1>7

\* The first event leaves the queue.
LEMMA TailKeeps ==
  ASSUME NEW q, Queue(q), q # <<>>
  PROVE  /\ Queue(Tail(q))
         /\ Contents(Tail(q)) \subseteq Contents(q)
         /\ Head(q) \in Contents(q)
         /\ \A e \in Contents(q) : Head(q).left <= e.left
         /\ Alone(q) => Alone(Tail(q)) /\ ClashFree(Tail(q), {Head(q)})
<1> DEFINE t == Tail(q)
<1>1. q \in Seq(Events) /\ Len(q) \in Nat \ {0} /\ DOMAIN q = 1 .. Len(q)
  BY QueueFacts
<1>2. /\ t \in Seq(Events) /\ DOMAIN t = 1 .. Len(q) - 1
      /\ \A i \in 1 .. Len(q) - 1 : t[i] = q[i + 1]
      /\ Head(q) = q[1]
  BY <1>1
<1> HIDE DEF t
<1>3. \A i \in DOMAIN t : i + 1 \in DOMAIN q /\ i + 1 # 1 /\ t[i] = q[i + 1]
  BY <1>1, <1>2
<1>4. Ordered(t)
  <2> SUFFICES ASSUME NEW i \in DOMAIN t, NEW j \in DOMAIN t, i < j PROVE t[i].left <= t[j].left
    BY DEF Ordered
  <2>1. i + 1 < j + 1
    BY <1>1, <1>2
  <2> QED BY <1>1, <1>3, <2>1, QueueFacts
<1>5. Contents(t) \subseteq Contents(q)
  BY <1>3 DEF Contents
<1>6. 1 \in DOMAIN q
  BY <1>1
<1>7. Head(q) \in Contents(q)
  BY <1>2, <1>6 DEF Contents
<1>8. ASSUME NEW i \in DOMAIN q PROVE q[1].left <= q[i].left
  <2>1. i = 1 \/ 1 < i
    BY <1>1
  <2> QED BY <1>1, <1>6, <2>1, QueueFacts
<1>9. ASSUME Alone(q) PROVE Alone(t) /\ ClashFree(t, {Head(q)})
  <2>1. ASSUME NEW i \in DOMAIN t, NEW j \in DOMAIN t, i # j PROVE ~ Clash(t[i], t[j])
    <3>1. i + 1 # j + 1
      BY <1>2, <2>1
    <3> QED BY <1>3, <1>9, <3>1 DEF Alone
  <2>2. ASSUME NEW i \in DOMAIN t PROVE ~ Clash(t[i], q[1])
    BY <1>3, <1>6, <1>9 DEF Alone
  <2> QED BY <1>2, <2>1, <2>2 DEF Alone, ClashFree
<1> QED BY <1>2, <1>4, <1>5, <1>7, <1>8, <1>9 DEF Queue, t, Contents

\* SetToSeq takes each element once.
LEMMA SetToSeqFacts ==
  ASSUME NEW S, IsFiniteSet(S)
  PROVE  /\ Cardinality(S) \in Nat
         /\ SetToSeq(S) \in [1 .. Cardinality(S) -> S]
         /\ \A i, j \in 1 .. Cardinality(S) : SetToSeq(S)[i] = SetToSeq(S)[j] => i = j
<1> DEFINE D == 1 .. Cardinality(S)
           P(f) == f \in [D -> S] /\ IsInjective(f)
<1>1. Cardinality(S) \in Nat /\ ExistsBijection(D, S)
  BY FS_CardinalityType
<1>2. \E f : P(f)
  BY <1>1 DEF ExistsBijection, Bijection, Injection
<1>3. SetToSeq(S) = CHOOSE f \in [D -> S] : IsInjective(f)
  BY DEF SetToSeq
<1> HIDE DEF D
<1>4. P(SetToSeq(S))
  BY <1>2, <1>3
<1>5. DOMAIN SetToSeq(S) = D
  BY <1>4
<1> QED BY <1>1, <1>4, <1>5 DEF IsInjective, D
-----------------------------------------------------------------------------
(* The limits of consecutive superframes. *)

Counts == [used : [Channel -> Nat], idle : [Channel -> Nat]]
Channels == [i \in 1 .. Cardinality(Channel) |-> i - 1]

LEMMA ChannelFacts ==
  /\ Cardinality(Channel) \in Nat
  /\ \A i \in 1 .. Cardinality(Channel) : i - 1 \in Channel
  /\ \A c \in Channel : c \in Nat /\ c + 1 \in 1 .. Cardinality(Channel)
<1>1. Cardinality(Channel) \in Nat
  BY RandomAccessAssumption, FS_CardinalityType
<1>2. PICK n \in Nat : n = Cardinality(Channel)
  BY <1>1
<1>3. Channel = 0 .. n - 1
  BY <1>2, RandomAccessAssumption
<1>4. /\ \A i \in 1 .. n : i - 1 \in Channel
      /\ \A c \in Channel : c \in Nat /\ c + 1 \in 1 .. n
  BY <1>3
<1> QED BY <1>2, <1>4

LEMMA CountedType ==
  ASSUME NEW counts \in Counts, NEW c \in Channel
  PROVE  Counted(counts, c) \in Counts
<1>1. counts.used \in [Channel -> Nat] /\ counts.idle \in [Channel -> Nat]
  BY DEF Counts
<1>2. counts.used[c] + 1 \in Nat /\ MinIdle[c] \in Nat
  BY <1>1, RandomAccessAssumption
<1>3. /\ [counts EXCEPT !.used[c] = counts.used[c] + 1] \in Counts
      /\ [any \in Channel |-> 0] \in [Channel -> Nat]
      /\ [counts.idle EXCEPT ![c] = MinIdle[c]] \in [Channel -> Nat]
  BY <1>1, <1>2 DEF Counts
<1> QED BY <1>3 DEF Counted, Counts

\* The channels are counted one after the other.
IsCounting(h, counts) ==
  h = [T \in SUBSET DOMAIN Channels |->
         IF T = {} THEN counts ELSE Counted(h[T \ {Max(T)}], Channels[Max(T)])]

LEMMA CountedStepwise ==
  ASSUME NEW counts \in Counts
  PROVE  \E h : /\ FoldLeft(Counted, counts, Channels) = h[1 .. Cardinality(Channel)]
                /\ h[{}] = counts
                /\ \A i \in 1 .. Cardinality(Channel) : h[1 .. i] = Counted(h[1 .. i - 1], i - 1)
<1> DEFINE S == DOMAIN Channels
           pick == [T \in SUBSET S |-> Max(T)]
           step == [x \in S |-> [y \in Counts |-> Counted(y, Channels[x])]]
           g == CHOOSE h : IsCounting(h, counts)
<1>1. /\ Cardinality(Channel) \in Nat /\ S = 1 .. Cardinality(Channel)
      /\ \A x \in S : Channels[x] = x - 1 /\ Channels[x] \in Channel
  BY ChannelFacts DEF Channels
<1>2. \A T \in SUBSET S : T # {} => Max(T) \in T
  BY <1>1, MaxFacts
<1>3. \A x \in S, y \in Counts : Counted(y, Channels[x]) \in Counts
  BY <1>1, CountedType
<1>4. PICK h : Recurs(h, S, counts, pick, step) /\ \A T \in SUBSET S : h[T] \in Counts
  <2>1. \A T \in SUBSET S : T # {} => pick[T] \in T
    BY <1>2
  <2>2. \A x \in S, y \in Counts : step[x][y] \in Counts
    BY <1>3
  <2>3. IsFiniteSet(S)
    BY <1>1, FS_Interval
  <2> DEFINE Y == Counts
  <2>4. counts \in Y /\ \A x \in S, y \in Y : step[x][y] \in Y
    BY <2>2
  <2> HIDE DEF S, pick, step, Y
  <2>5. \E h : Recurs(h, S, counts, pick, step) /\ \A T \in SUBSET S : h[T] \in Y
    BY <2>1, <2>3, <2>4, Recursion
  <2> QED BY <2>5 DEF Y
<1>5. \A T \in SUBSET S :
        T # {} => step[pick[T]][h[T \ {pick[T]}]] = Counted(h[T \ {Max(T)}], Channels[Max(T)])
  <2> SUFFICES ASSUME NEW T \in SUBSET S, T # {}
               PROVE  step[pick[T]][h[T \ {pick[T]}]] = Counted(h[T \ {Max(T)}], Channels[Max(T)])
    OBVIOUS
  <2>1. Max(T) \in S /\ T \ {Max(T)} \in SUBSET S /\ pick[T] = Max(T)
    BY <1>2
  <2>2. h[T \ {Max(T)}] \in Counts
    BY <1>4, <2>1
  <2> QED BY <2>1, <2>2
<1>6. IsCounting(h, counts)
  <2> HIDE DEF pick, step
  <2> QED BY <1>4, <1>5 DEF IsCounting, Recurs
<1>7. IsCounting(g, counts)
  <2> HIDE DEF g
  <2>1. \E k : IsCounting(k, counts)
    BY <1>6
  <2> QED BY <2>1, Zenon DEF g
<1>8. FoldLeft(Counted, counts, Channels) = g[S]
  BY Zenon DEF FoldLeft, MapThenFoldSet, IsCounting
<1>9. \A T \in SUBSET S : g[T] = IF T = {} THEN counts ELSE Counted(g[T \ {Max(T)}], Channels[Max(T)])
  <2> HIDE DEF g
  <2> QED BY <1>7 DEF IsCounting
<1>10. ASSUME NEW i \in 1 .. Cardinality(Channel) PROVE g[1 .. i] = Counted(g[1 .. i - 1], i - 1)
  <2>1. 1 .. i \in SUBSET S /\ 1 .. i # {} /\ (1 .. i) \ {i} = 1 .. i - 1
    <3>1. (1 .. i) \ {i} = 1 .. i - 1 /\ i \in 1 .. i
      OBVIOUS
    <3>2. \A j \in 1 .. i : j \in 1 .. Cardinality(Channel)
      BY <1>1
    <3> QED BY <1>1, <3>1, <3>2
  <2>2. Max(1 .. i) = i
    BY <1>1, MaxFacts
  <2> HIDE DEF g
  <2> QED BY <1>1, <1>9, <2>1, <2>2
<1> HIDE DEF g
<1>11. g[{}] = counts /\ FoldLeft(Counted, counts, Channels) = g[1 .. Cardinality(Channel)]
  BY <1>1, <1>8, <1>9
<1> QED BY <1>10, <1>11

\* A limit that no other channel reaches before r does.
Shortest(r) ==
  \A c \in Channel \ {r} :
    MaxConsecutive[r] < MaxConsecutive[c] \/ (MaxConsecutive[r] = MaxConsecutive[c] /\ r < c)

\* What counting a superframe does to a channel whose limit is the shortest.
LEMMA CountsOfShortest ==
  ASSUME NEW used \in [Channel -> Nat], NEW idle \in [Channel -> Nat], NEW r \in Channel
  PROVE  LET counts == FoldLeft(Counted, [used |-> used, idle |-> idle], Channels)
         IN  /\ counts \in Counts
             /\ counts.idle[r] \in {idle[r], MinIdle[r]}
             /\ MaxConsecutive[r] = 0 => counts.idle[r] = MinIdle[r]
             /\ Shortest(r) /\ used[r] < MaxConsecutive[r] /\ (\A c \in Channel : used[c] <= used[r]) =>
                  IF used[r] + 1 >= MaxConsecutive[r] THEN counts.idle[r] = MinIdle[r]
                  ELSE counts.idle[r] = idle[r] /\ counts.used = [c \in Channel |-> used[c] + 1]
<1> DEFINE base == [used |-> used, idle |-> idle]
           m == Cardinality(Channel)
           Ahead0 == Shortest(r) /\ used[r] < MaxConsecutive[r] /\ \A c \in Channel : used[c] <= used[r]
           reached == used[r] + 1 >= MaxConsecutive[r]
           P(k, i) ==
             /\ k \in Counts
             /\ k.idle[r] \in {idle[r], MinIdle[r]}
             /\ MaxConsecutive[r] = 0 /\ i > r => k.idle[r] = MinIdle[r]
             /\ Ahead0 => IF reached /\ i > r THEN k.idle[r] = MinIdle[r]
                          ELSE /\ k.idle[r] = idle[r]
                               /\ \A c \in Channel : k.used[c] = IF c < i THEN used[c] + 1 ELSE used[c]
<1>1. base \in Counts
  BY DEF Counts
<1>2. PICK h : /\ FoldLeft(Counted, base, Channels) = h[1 .. m]
               /\ h[{}] = base
               /\ \A i \in 1 .. m : h[1 .. i] = Counted(h[1 .. i - 1], i - 1)
  <2> HIDE DEF base
  <2> QED BY <1>1, CountedStepwise
<1>3. /\ m \in Nat /\ r \in Nat /\ r + 1 \in 1 .. m /\ \A i \in 1 .. m : i - 1 \in Channel
      /\ \A c \in Channel : c \in Nat /\ c + 1 \in 1 .. m /\ used[c] \in Nat /\ idle[c] \in Nat
                            /\ MaxConsecutive[c] \in Nat /\ MinIdle[c] \in Nat
  BY ChannelFacts, RandomAccessAssumption
<1> DEFINE A == {i \in Nat : i <= m => P(h[1 .. i], i)}
<1>4. 0 \in A
  <2>1. 1 .. 0 = {}
    OBVIOUS
  <2>2. P(base, 0)
    BY <1>1, <1>3
  <2> QED BY <1>2, <2>1, <2>2
<1>5. ASSUME NEW i \in Nat, i \in A, i + 1 <= m PROVE P(h[1 .. i + 1], i + 1)
  <2>1. i + 1 \in 1 .. m /\ (i + 1) - 1 = i /\ i \in Channel
    <3>1. i + 1 \in 1 .. m /\ (i + 1) - 1 = i
      BY <1>3, <1>5
    <3> QED BY <1>3, <3>1
  <2>2. PICK k : k = h[1 .. i]
    OBVIOUS
  <2>3. P(k, i)
    BY <1>3, <1>5, <2>2
  <2>4. PICK l : l = Counted(k, i)
    OBVIOUS
  <2>5. h[1 .. i + 1] = l
    BY <1>2, <2>1, <2>2, <2>4
  <2>6. l \in Counts
    BY <2>1, <2>3, <2>4, CountedType
  <2>7. k.used \in [Channel -> Nat] /\ k.idle \in [Channel -> Nat]
    BY <2>3 DEF Counts
  <2>8. IF k.used[i] + 1 >= MaxConsecutive[i]
        THEN l.idle = [k.idle EXCEPT ![i] = MinIdle[i]]
        ELSE l.idle = k.idle /\ l.used = [k.used EXCEPT ![i] = k.used[i] + 1]
    BY <2>1, <2>3, <2>4, <2>7 DEF Counted, Counts
  <2>9. l.idle[r] \in {idle[r], MinIdle[r]}
    BY <2>1, <2>3, <2>7, <2>8
  <2>10. ASSUME MaxConsecutive[r] = 0, i + 1 > r PROVE l.idle[r] = MinIdle[r]
    BY <1>3, <2>1, <2>3, <2>7, <2>8, <2>10
  <2>11. ASSUME Ahead0
         PROVE  IF reached /\ i + 1 > r THEN l.idle[r] = MinIdle[r]
                ELSE /\ l.idle[r] = idle[r]
                     /\ \A c \in Channel : l.used[c] = IF c < i + 1 THEN used[c] + 1 ELSE used[c]
    <3>1. CASE reached /\ i > r
      BY <1>3, <2>1, <2>3, <2>7, <2>8, <2>11, <3>1
    <3>2. CASE ~ (reached /\ i > r)
      <4>1. /\ k.idle[r] = idle[r]
            /\ \A c \in Channel : k.used[c] = IF c < i THEN used[c] + 1 ELSE used[c]
        BY <2>3, <2>11, <3>2
      <4>2. k.used[i] = used[i]
        BY <1>3, <2>1, <4>1
      <4>3. CASE reached /\ i = r
        BY <1>3, <2>1, <2>7, <2>8, <4>2, <4>3
      <4>4. CASE ~ (reached /\ i = r)
        <5>1. used[i] + 1 < MaxConsecutive[i]
          <6>1. CASE i = r
            BY <1>3, <4>4, <6>1
          <6>2. CASE i # r
            <7>1. used[i] <= used[r] /\ i \in Channel \ {r}
              BY <2>1, <2>11, <6>2
            <7>2. MaxConsecutive[r] < MaxConsecutive[i] \/ (MaxConsecutive[r] = MaxConsecutive[i] /\ r < i)
              BY <2>11, <7>1 DEF Shortest
            <7> QED BY <1>3, <2>1, <2>11, <3>2, <7>1, <7>2
          <6> QED BY <6>1, <6>2
        <5>2. l.idle = k.idle /\ l.used = [k.used EXCEPT ![i] = used[i] + 1]
          BY <1>3, <2>1, <2>8, <4>2, <5>1
        <5>3. ~ (reached /\ i + 1 > r)
          BY <1>3, <2>1, <3>2, <4>4
        <5>4. \A c \in Channel : l.used[c] = IF c < i + 1 THEN used[c] + 1 ELSE used[c]
          <6> TAKE c \in Channel
          <6>1. CASE c = i
            BY <1>3, <2>1, <2>7, <5>2, <6>1
          <6>2. CASE c # i
            BY <1>3, <2>1, <2>7, <4>1, <5>2, <6>2
          <6> QED BY <6>1, <6>2
        <5> HIDE DEF reached
        <5> QED BY <4>1, <5>2, <5>3, <5>4
      <4> QED BY <1>3, <2>1, <3>2, <4>3, <4>4
    <3> QED BY <3>1, <3>2
  <2> HIDE DEF Ahead0, reached
  <2> QED BY <2>5, <2>6, <2>9, <2>10, <2>11
<1>6. \A i \in Nat : i \in A
  <2> HIDE DEF P
  <2>1. ASSUME NEW i \in Nat, i \in A PROVE i + 1 \in A
    <3>1. i + 1 \in Nat
      OBVIOUS
    <3>2. i + 1 <= m => P(h[1 .. i + 1], i + 1)
      BY <1>5, <2>1
    <3> QED BY <3>1, <3>2
  <2> HIDE DEF A
  <2> QED BY <1>4, <2>1, Induction
<1>7. PICK counts : counts = FoldLeft(Counted, base, Channels)
  OBVIOUS
<1>8. P(counts, m)
  <2> HIDE DEF P
  <2> QED BY <1>2, <1>3, <1>6, <1>7
<1>9. counts.used \in [Channel -> Nat]
  BY <1>8 DEF Counts
<1>10. ASSUME Ahead0
       PROVE  IF reached THEN counts.idle[r] = MinIdle[r]
              ELSE counts.idle[r] = idle[r] /\ counts.used = [c \in Channel |-> used[c] + 1]
  <2>1. m > r /\ \A c \in Channel : c < m
    BY <1>3
  <2>2. CASE reached
    BY <1>8, <1>10, <2>1, <2>2
  <2>3. CASE ~ reached
    <3>1. counts.idle[r] = idle[r] /\ \A c \in Channel : counts.used[c] = used[c] + 1
      BY <1>8, <1>10, <2>1, <2>3
    <3> QED BY <1>9, <2>3, <3>1
  <2> QED BY <2>2, <2>3
<1>11. m > r
  BY <1>3
<1> HIDE DEF reached, Ahead0
<1>12. /\ counts \in Counts
       /\ counts.idle[r] \in {idle[r], MinIdle[r]}
       /\ MaxConsecutive[r] = 0 => counts.idle[r] = MinIdle[r]
  BY <1>8, <1>11
<1> QED BY <1>7, <1>10, <1>12 DEF reached, Ahead0
-----------------------------------------------------------------------------
(* What is scheduled. *)

LEMMA EventFacts ==
  \A kind \in Kinds, left \in Int :
    /\ Event(kind, left) \in Events
    /\ Event(kind, left).kind = kind
    /\ Event(kind, left).left = left
  BY DEF Event, Events

\* A sequence of events without one, and with one.
LEMMA FewEvents ==
  /\ <<>> \in Seq(Events) /\ Contents(<<>>) = {} /\ Alone(<<>>)
  /\ \A e \in Events : <<e>> \in Seq(Events) /\ Contents(<<e>>) = {e} /\ Alone(<<e>>)
<1>1. <<>> \in Seq(Events) /\ Contents(<<>>) = {} /\ Alone(<<>>)
  BY DEF Contents, Alone
<1>2. ASSUME NEW e \in Events PROVE <<e>> \in Seq(Events) /\ Contents(<<e>>) = {e} /\ Alone(<<e>>)
  <2>1. <<e>> \in Seq(Events) /\ DOMAIN <<e>> = {1} /\ <<e>>[1] = e
    OBVIOUS
  <2> QED BY <2>1, Zenon DEF Contents, Alone
<1> QED BY <1>1, <1>2

LEMMA InsertTimely ==
  ASSUME NEW q, Timely(q), NEW e \in Events, e.left \in Nat
  PROVE  Timely(Insert(q, e))
<1>1. Queue(q) /\ \A x \in Contents(q) : x.left \in Nat
  BY DEF Timely
<1>2. PICK r : r = Insert(q, e)
  OBVIOUS
<1>3. Queue(r) /\ Contents(r) = Contents(q) \cup {e}
  BY <1>1, <1>2, InsertKeeps
<1> QED BY <1>1, <1>2, <1>3 DEF Timely

LEMMA WithTimely ==
  ASSUME NEW q, Timely(q), NEW new \in Seq(Events), \A e \in Contents(new) : e.left \in Nat
  PROVE  Timely(With(q, new))
  BY WithKeeps DEF Timely

LEMMA ScheduleTimely ==
  ASSUME NEW q, Timely(q), q # <<>>, NEW new \in Seq(Events), \A e \in Contents(new) : e.left \in Nat
  PROVE  Timely(With(Tail(q), new))
<1>1. Timely(Tail(q))
  BY TailKeeps DEF Timely
<1>2. PICK t : t = Tail(q)
  OBVIOUS
<1> QED BY <1>1, <1>2, WithTimely

\* The slots that a TBTP announces at the time t.
LEMMA DedicatedSlots ==
  ASSUME NEW slots \in SUBSET Nat, IsFiniteSet(slots), NEW t \in Nat
  PROVE  LET new == [i \in 1 .. Cardinality(slots) |-> Event("DoTransmit", SetToSeq(slots)[i] - t)]
         IN  /\ new \in Seq(Events)
             /\ Alone(new)
             /\ \A e \in Contents(new) : e.kind = "DoTransmit" /\ t + e.left \in slots
<1> DEFINE s == SetToSeq(slots)
           D == 1 .. Cardinality(slots)
           new == [i \in D |-> Event("DoTransmit", s[i] - t)]
<1>1. /\ Cardinality(slots) \in Nat
      /\ s \in [D -> slots]
      /\ \A i, j \in D : s[i] = s[j] => i = j
  BY SetToSeqFacts
<1> HIDE DEF s
<1>2. \A i \in D : s[i] \in slots /\ s[i] \in Nat /\ s[i] - t \in Int /\ t + (s[i] - t) = s[i]
  <2>1. \A i \in D : s[i] \in slots
    BY <1>1
  <2>2. \A x \in slots : x \in Nat /\ x - t \in Int /\ t + (x - t) = x
    OBVIOUS
  <2> QED BY <2>1, <2>2
<1>3. \A i \in D : /\ new[i] = Event("DoTransmit", s[i] - t)
                   /\ new[i] \in Events /\ new[i].kind = "DoTransmit" /\ new[i].left = s[i] - t
  <2> TAKE i \in D
  <2>1. new[i] = Event("DoTransmit", s[i] - t)
    OBVIOUS
  <2> HIDE DEF new
  <2>2. PICK l \in Int : l = s[i] - t
    BY <1>2
  <2>3. /\ Event("DoTransmit", l) \in Events
        /\ Event("DoTransmit", l).kind = "DoTransmit"
        /\ Event("DoTransmit", l).left = l
    BY EventFacts DEF Kinds
  <2> QED BY <2>1, <2>2, <2>3
<1>4. DOMAIN new = D
  OBVIOUS
<1> HIDE DEF new
<1>5. new \in Seq(Events)
  <2>1. new \in [1 .. Cardinality(slots) -> Events]
    BY <1>3, <1>4 DEF new
  <2> QED BY <1>1, <2>1
<1>6. Alone(new)
  <2> SUFFICES ASSUME NEW i \in D, NEW j \in D, i # j PROVE ~ Clash(new[i], new[j])
    BY <1>4 DEF Alone
  <2>1. s[i] # s[j]
    BY <1>1
  <2>2. new[i].left # new[j].left
    BY <1>2, <1>3, <2>1
  <2> QED BY <1>3, <2>2 DEF Clash
<1>7. \A e \in Contents(new) : e.kind = "DoTransmit" /\ t + e.left \in slots
  BY <1>2, <1>3, <1>4 DEF Contents
<1> QED BY <1>5, <1>6, <1>7 DEF new, s

RaSlotsOf(opportunities) == UNION Range(opportunities)

\* Opportunities are slots of the channel, each for one replica.
LEMMA OpportunityFacts ==
  ASSUME NEW opportunities \in Opportunities
  PROVE  /\ opportunities \in Seq(SUBSET RaSlots)
         /\ Disjoint(opportunities)
         /\ RaSlotsOf(opportunities) \subseteq RaSlots
<1>1. PICK n \in 0 .. MaxUniquePayload : opportunities \in CrdsaTxOpportunities(n)
  BY DEF Opportunities
<1>2. n \in Nat
  BY RandomAccessAssumption
<1>3. opportunities \in [1 .. n -> kSubset(NumOfInstances, RaSlots)] /\ Disjoint(opportunities)
  BY <1>1 DEF CrdsaTxOpportunities
<1>4. opportunities \in [1 .. n -> SUBSET RaSlots]
  BY <1>3 DEF kSubset
<1>5. opportunities \in Seq(SUBSET RaSlots)
  BY <1>2, <1>4
<1> QED BY <1>3, <1>4, <1>5 DEF RaSlotsOf, Range

\* The replicas of the packets that get an opportunity.
LEMMA ReplicaSlots ==
  ASSUME NEW opportunities \in Opportunities
  PROVE  /\ Replicas(opportunities) \in Seq(Events)
         /\ Alone(Replicas(opportunities))
         /\ \A e \in Contents(Replicas(opportunities)) :
              e.kind = "TransmitPackets" /\ e.left \in RaSlots
         /\ opportunities = <<>> => Replicas(opportunities) = <<>>
<1> DEFINE R == {r \in (DOMAIN opportunities) \X RaSlots :
                   r[1] <= buffered /\ r[2] \in opportunities[r[1]]}
           s == SetToSeq(R)
           D == 1 .. Cardinality(R)
           new == [i \in D |-> Event("TransmitPackets", s[i][2])]
<1>1. /\ opportunities \in Seq(SUBSET RaSlots) /\ Disjoint(opportunities)
      /\ Len(opportunities) \in Nat /\ DOMAIN opportunities = 1 .. Len(opportunities)
  BY OpportunityFacts
<1>2. IsFiniteSet(RaSlots) /\ RaSlots \in SUBSET Nat
  <2>1. N \in Nat /\ RaSlots \subseteq 0 .. N - 1 /\ RaSlots \subseteq Nat
    BY UtAccessAssumption, RandomAccessAssumption
  <2>2. IsFiniteSet(0 .. N - 1)
    BY <2>1, FS_Interval
  <2> QED BY <2>1, <2>2, FS_Subset
<1>3. IsFiniteSet(R)
  <2>1. IsFiniteSet(1 .. Len(opportunities))
    BY <1>1, FS_Interval
  <2>2. IsFiniteSet((1 .. Len(opportunities)) \X RaSlots)
    BY <1>2, <2>1, FS_Product
  <2> QED BY <1>1, <2>2, FS_Subset
<1>4. /\ Cardinality(R) \in Nat
      /\ s \in [D -> R]
      /\ \A i, j \in D : s[i] = s[j] => i = j
  <2> HIDE DEF R
  <2> QED BY <1>3, SetToSeqFacts
<1>5. \A r \in R : /\ r = <<r[1], r[2]>> /\ r[1] \in DOMAIN opportunities /\ r[2] \in RaSlots
                   /\ r[2] \in opportunities[r[1]]
  OBVIOUS
<1>6. Replicas(opportunities) = new
  BY DEF Replicas
<1> HIDE DEF s, R
<1>7. \A i \in D : s[i] \in R /\ s[i][2] \in Nat
  BY <1>2, <1>4, <1>5
<1>8. \A i \in D : /\ new[i] = Event("TransmitPackets", s[i][2])
                   /\ new[i] \in Events /\ new[i].kind = "TransmitPackets" /\ new[i].left = s[i][2]
  <2> TAKE i \in D
  <2>1. new[i] = Event("TransmitPackets", s[i][2])
    OBVIOUS
  <2> HIDE DEF new
  <2>2. PICK l \in Int : l = s[i][2]
    BY <1>7
  <2>3. /\ Event("TransmitPackets", l) \in Events
        /\ Event("TransmitPackets", l).kind = "TransmitPackets"
        /\ Event("TransmitPackets", l).left = l
    BY EventFacts DEF Kinds
  <2> QED BY <2>1, <2>2, <2>3
<1>9. DOMAIN new = D
  OBVIOUS
<1> HIDE DEF new
<1>10. new \in Seq(Events)
  <2>1. new \in [1 .. Cardinality(R) -> Events]
    BY <1>8, <1>9 DEF new
  <2> QED BY <1>4, <2>1
<1>11. Alone(new)
  <2> SUFFICES ASSUME NEW i \in D, NEW j \in D, i # j PROVE ~ Clash(new[i], new[j])
    BY <1>9 DEF Alone
  <2>1. s[i] # s[j]
    BY <1>4
  <2>2. s[i][1] # s[j][1] \/ s[i][2] # s[j][2]
    BY <1>5, <1>7, <2>1
  <2>3. s[i][2] # s[j][2]
    <3>1. CASE s[i][1] # s[j][1]
      BY <1>1, <1>5, <1>7, <3>1 DEF Disjoint
    <3> QED BY <2>2, <3>1
  <2> QED BY <1>8, <2>3 DEF Clash
<1>12. \A e \in Contents(new) : e.kind = "TransmitPackets" /\ e.left \in RaSlots
  BY <1>5, <1>7, <1>8, <1>9 DEF Contents
<1>13. ASSUME opportunities = <<>> PROVE new = <<>>
  <2>1. R = {}
    BY <1>13 DEF R
  <2>2. D = {}
    BY <2>1, FS_EmptySet
  <2>3. new \in Seq(Events) /\ DOMAIN new = {}
    BY <1>9, <1>10, <2>2
  <2> QED BY <2>3
<1> QED BY <1>6, <1>10, <1>11, <1>12, <1>13
-----------------------------------------------------------------------------
(* Types. *)

LEMMA ConstantFacts ==
  /\ N \in Nat \ {0} /\ EssaDuration \in Nat \ {0} /\ Ahead \in Nat /\ MaxTbtps \in Nat
  /\ RaSlots \subseteq 0 .. N - 1
  /\ ReleaseTimes \subseteq Nat /\ EssaWaits \subseteq Nat
  /\ MaxConsecutive \in [Channel -> Nat] /\ MinIdle \in [Channel -> Nat]
  /\ \A b \in Backoffs : BackoffTime[b] \in Nat
  /\ \A c \in Channel : c \in Int
<1>1. /\ N \in Nat \ {0} /\ EssaDuration \in Nat \ {0} /\ Ahead \in Nat /\ MaxTbtps \in Nat
      /\ RaSlots \subseteq 0 .. N - 1
  BY UtAccessAssumption
<1>2. /\ ReleaseTimes \subseteq Nat /\ EssaWaits \subseteq Nat
      /\ MaxConsecutive \in [Channel -> Nat] /\ MinIdle \in [Channel -> Nat]
  BY RandomAccessAssumption
<1>3. \A b \in Backoffs : BackoffTime[b] \in Nat
  <2>1. \A b \in Backoffs : b \in DOMAIN BackoffTime
    BY RandomAccessAssumption DEF Backoffs
  <2> QED BY <2>1, RandomAccessAssumption
<1>4. \A c \in Channel : c \in Int
  BY ChannelFacts
<1> QED BY <1>1, <1>2, <1>3, <1>4

LEMMA ReduceIsTyped ==
  ASSUME AccessTypeOK, CrdsaReduceIdleBlocks
  PROVE  /\ m_crdsaIdleBlocksLeft' \in [Channel -> Nat]
         /\ m_crdsaNumOfConsecutiveBlocksUsed' \in [Channel -> Nat]
  BY DEF AccessTypeOK, CrdsaReduceIdleBlocks

LEMMA IncreaseIsTyped ==
  ASSUME AccessTypeOK, CrdsaIncreaseConsecutiveBlocksUsed
  PROVE  /\ m_crdsaIdleBlocksLeft' \in [Channel -> Nat]
         /\ m_crdsaNumOfConsecutiveBlocksUsed' \in [Channel -> Nat]
<1>1. PICK counts : counts = FoldLeft(Counted, [used |-> m_crdsaNumOfConsecutiveBlocksUsed,
                                                idle |-> m_crdsaIdleBlocksLeft], Channels)
  OBVIOUS
<1>2. /\ m_crdsaNumOfConsecutiveBlocksUsed' = counts.used
      /\ m_crdsaIdleBlocksLeft' = counts.idle
  BY <1>1, Zenon DEF CrdsaIncreaseConsecutiveBlocksUsed, Channels
<1>3. counts \in Counts
  BY <1>1, CountsOfShortest DEF AccessTypeOK
<1> QED BY <1>2, <1>3 DEF Counts

LEMMA CrdsaIsTyped ==
  ASSUME AccessTypeOK, NEW dama, NEW empty, NEW opportunities,
         DoCrdsa(m_raChannel, dama, empty, opportunities)
  PROVE  /\ m_randomAccessModel' \in Models
         /\ m_raChannel' \in Channel
         /\ backoffLeft' \in [Channel -> Nat]
         /\ m_crdsaIdleBlocksLeft' \in [Channel -> Nat]
         /\ m_crdsaNumOfConsecutiveBlocksUsed' \in [Channel -> Nat]
         /\ m_crdsaNewData' \in BOOLEAN
         /\ m_backoff' \in [Channel -> Backoffs]
<1>1. UNCHANGED <<m_randomAccessModel, m_raChannel, m_backoff>>
  BY DEF DoCrdsa
<1>2. \/ /\ CrdsaReduceIdleBlocks \/ CrdsaIncreaseConsecutiveBlocksUsed
         /\ m_crdsaNewData' = FALSE
         /\ backoffLeft' \in {backoffLeft, [backoffLeft EXCEPT ![m_raChannel] =
                                              BackoffTime[m_backoff[m_raChannel]]]}
      \/ CrdsaReduceIdleBlocks /\ UNCHANGED <<backoffLeft, m_crdsaNewData>>
  BY Zenon DEF DoCrdsa, CrdsaTransmits, CrdsaAborts, CrdsaPrepareToTransmit
<1>3. /\ m_crdsaIdleBlocksLeft' \in [Channel -> Nat]
      /\ m_crdsaNumOfConsecutiveBlocksUsed' \in [Channel -> Nat]
  BY <1>2, ReduceIsTyped, IncreaseIsTyped
<1>4. BackoffTime[m_backoff[m_raChannel]] \in Nat
  BY ConstantFacts DEF AccessTypeOK
<1>5. backoffLeft' \in [Channel -> Nat] /\ m_crdsaNewData' \in BOOLEAN
  BY <1>2, <1>4 DEF AccessTypeOK
<1> QED BY <1>1, <1>3, <1>5 DEF AccessTypeOK

LEMMA RowIsTyped ==
  ASSUME AccessTypeOK, NEW used \in BOOLEAN, Row(used)
  PROVE  row' \in Nat /\ owed' \in Nat
<1>1. MinIdle[m_raChannel] \in Nat /\ row \in Nat /\ owed \in Nat
  BY ConstantFacts DEF AccessTypeOK
<1> QED BY <1>1 DEF Row

LEMMA InitTypeOK == Init => TypeOK
<1> SUFFICES ASSUME Init PROVE TypeOK
  OBVIOUS
<1> USE DEF Init, AccessInit
<1>1. AccessTypeOK
  BY DEF AccessTypeOK, Backoffs
<1>2. Timely(events)
  <2>1. Event("DoFrameStart", 0) \in Events /\ Event("DoFrameStart", 0).left = 0
    BY EventFacts DEF Kinds
  <2>2. PICK e \in Events : e = Event("DoFrameStart", 0)
    BY <2>1
  <2>3. events \in Seq(Events) /\ Contents(events) = {e} /\ DOMAIN events = {1}
    <3>1. events = <<e>>
      BY <2>2
    <3>2. DOMAIN <<e>> = {1}
      OBVIOUS
    <3> QED BY <3>1, <3>2, FewEvents
  <2>4. Ordered(events)
    BY <2>3 DEF Ordered
  <2> QED BY <2>1, <2>2, <2>3, <2>4 DEF Timely, Queue
<1>3. UtTypeOK
  <2>1. now \in 0 .. N - 1 /\ tbtps \in [Superframes -> 0 .. MaxTbtps]
    BY ConstantFacts
  <2>2. /\ busy \in Nat /\ buffered \in Nat /\ nextPacketIn \in Nat /\ fatal \in Errors
        /\ knownSlots \subseteq Nat /\ m_usedRandomAccessSlots \subseteq Nat
        /\ m_isRandomAccessScheduled \in BOOLEAN
    BY DEF Errors
  <2> QED BY <1>2, <2>1, <2>2 DEF UtTypeOK
<1>4. NccTypeOK
  BY DEF NccTypeOK
<1> QED BY <1>1, <1>3, <1>4 DEF TypeOK

\* When nothing is due, time can pass for every event.
Sooner(q) == [i \in DOMAIN q |-> [q[i] EXCEPT !.left = @ - 1]]

LEMMA TimePasses ==
  ASSUME NEW q, Timely(q), ~ (q # <<>> /\ Head(q).left = 0),
         NEW r, r = Sooner(q)
  PROVE  /\ Timely(r)
         /\ Alone(q) => Alone(r)
         /\ \A e \in Contents(r) : \E f \in Contents(q) :
              f.left \in Nat \ {0} /\ e.kind = f.kind /\ e.left = f.left - 1
<1>1. /\ Queue(q) /\ q \in Seq(Events) /\ Len(q) \in Nat /\ DOMAIN q = 1 .. Len(q)
      /\ \A i \in DOMAIN q : q[i] \in Events /\ q[i].left \in Nat
      /\ \A i, j \in DOMAIN q : i < j => q[i].left <= q[j].left
  BY QueueFacts DEF Timely, Contents
<1>2. ASSUME NEW i \in DOMAIN q PROVE q[i].left > 0
  <2>1. q # <<>> /\ 1 \in DOMAIN q /\ Head(q) = q[1]
    BY <1>1
  <2>2. q[1].left # 0
    BY <2>1
  <2>3. i = 1 \/ 1 < i
    BY <1>1
  <2> QED BY <1>1, <2>1, <2>2, <2>3
<1>3. \A e \in Events, n \in Int :
        /\ [e EXCEPT !.left = n] \in Events
        /\ [e EXCEPT !.left = n].kind = e.kind
        /\ [e EXCEPT !.left = n].left = n
  BY DEF Events
<1>4. /\ DOMAIN r = DOMAIN q /\ r = [i \in DOMAIN q |-> r[i]]
      /\ \A i \in DOMAIN q : r[i] = [q[i] EXCEPT !.left = q[i].left - 1]
  BY DEF Sooner
<1>5. \A i \in DOMAIN q : /\ r[i] \in Events /\ r[i].kind = q[i].kind
                          /\ r[i].left = q[i].left - 1 /\ q[i].left \in Nat \ {0}
  <2> TAKE i \in DOMAIN q
  <2>1. PICK e \in Events, n \in Int : e = q[i] /\ n = q[i].left - 1
    BY <1>1
  <2>2. r[i] = [e EXCEPT !.left = n]
    BY <1>4, <2>1
  <2> QED BY <1>1, <1>2, <1>3, <2>1, <2>2
<1>6. r \in Seq(Events)
  <2>1. r \in [1 .. Len(q) -> Events]
    BY <1>1, <1>4, <1>5
  <2> QED BY <1>1, <2>1
<1>7. Ordered(r)
  BY <1>1, <1>4, <1>5 DEF Ordered
<1>8. \A e \in Contents(r) : e.left \in Nat
  BY <1>4, <1>5 DEF Contents
<1>9. Alone(q) => Alone(r)
  BY <1>1, <1>4, <1>5, SMTT(30) DEF Alone, Clash
<1>10. \A e \in Contents(r) : \E f \in Contents(q) :
         f.left \in Nat \ {0} /\ e.kind = f.kind /\ e.left = f.left - 1
  <2> TAKE e \in Contents(r)
  <2>1. PICK i \in DOMAIN q : e = r[i]
    BY <1>4 DEF Contents
  <2>2. PICK f \in Contents(q) : f = q[i]
    BY DEF Contents
  <2> QED BY <1>5, <2>1, <2>2
<1> QED BY <1>6, <1>7, <1>8, <1>9, <1>10 DEF Timely, Queue

\* A TBTP is about a superframe to come.
LEMMA DaSlotFacts ==
  ASSUME NEW d \in Superframes \ {0}, NEW slots \in DaSlots(d)
  PROVE  /\ slots \in SUBSET Nat
         /\ IsFiniteSet(slots)
         /\ \A x \in slots : x >= N
<1> DEFINE a == d * N
           b == (d + 1) * N
<1>1. N \in Nat \ {0} /\ d \in Nat \ {0} /\ d \in Int /\ d + 1 \in Int
  BY ConstantFacts DEF Superframes
<1>2. a \in Int /\ b \in Int
  BY <1>1, TimesType
<1>3. 0 * N + N <= a
  BY <1>1, TimesMonotonic
<1>4. 0 * N + N = N
  BY <1>1
<1>5. slots \subseteq a .. b - 1
  BY DEF DaSlots
<1> HIDE DEF a, b
<1>6. IsFiniteSet(a .. b - 1)
  BY <1>2, FS_Interval
<1>7. a >= N
  BY <1>1, <1>2, <1>3, <1>4
<1>8. IsFiniteSet(slots)
  BY <1>5, <1>6, FS_Subset
<1>9. \A x \in slots : x \in Int /\ x >= N
  BY <1>1, <1>2, <1>5, <1>7
<1> QED BY <1>1, <1>8, <1>9

LEMMA SendIsTyped ==
  ASSUME UtTypeOK, NEW duration \in Nat, SendPacket(duration)
  PROVE  busy' \in Nat /\ fatal' \in Errors /\ buffered' \in Nat
<1>1. busy \in Nat /\ buffered \in Nat /\ fatal \in Errors
  BY DEF UtTypeOK
<1>2. CASE buffered = 0
  BY <1>1, <1>2 DEF SendPacket, NoTx
<1>3. CASE buffered # 0
  <2>1. buffered' = buffered - 1 /\ busy' \in {busy, duration} /\ fatal' \in {"already TX", None}
    BY <1>3 DEF SendPacket, StartTx
  <2>2. buffered - 1 \in Nat
    BY <1>1, <1>3
  <2> QED BY <1>1, <2>1, <2>2 DEF Errors
<1> QED BY <1>2, <1>3

LEMMA HandlesFacts ==
  ASSUME NEW kind, Handles(kind), UtTypeOK
  PROVE  /\ fatal = None /\ events # <<>> /\ Timely(events)
         /\ Head(events) \in Contents(events)
         /\ Head(events).kind = kind /\ Head(events).left = 0
  BY TailKeeps DEF Handles, Due, UtTypeOK, Timely

\* What a handler schedules keeps the queue in order.
LEMMA NoneScheduled ==
  ASSUME UtTypeOK, events # <<>>, Schedule(<<>>)
  PROVE  Timely(events')
<1>1. Timely(events) /\ <<>> \in Seq(Events) /\ Contents(<<>>) = {}
  BY FewEvents DEF UtTypeOK
<1>2. \A e \in Contents(<<>>) : e.left \in Nat
  BY <1>1
<1> QED BY <1>1, <1>2, ScheduleTimely DEF Schedule

LEMMA OneScheduled ==
  ASSUME UtTypeOK, events # <<>>, NEW kind \in Kinds, NEW left \in Nat, Schedule(<<Event(kind, left)>>)
  PROVE  Timely(events')
<1>1. PICK e \in Events : e = Event(kind, left) /\ e.left = left
  BY EventFacts
<1>2. Timely(events) /\ <<e>> \in Seq(Events) /\ Contents(<<e>>) = {e}
  BY FewEvents DEF UtTypeOK
<1>3. \A x \in Contents(<<e>>) : x.left \in Nat
  BY <1>1, <1>2
<1>4. PICK s : s = <<e>>
  OBVIOUS
<1>5. events' = With(Tail(events), s)
  BY <1>1, <1>4 DEF Schedule
<1> QED BY <1>2, <1>3, <1>4, <1>5, ScheduleTimely

LEMMA FrameIsScheduled ==
  ASSUME UtTypeOK, events # <<>>, NEW opportunities \in Opportunities,
         Schedule(Append(Replicas(opportunities), Event("DoFrameStart", N)))
  PROVE  LET new == Append(Replicas(opportunities), Event("DoFrameStart", N))
         IN  /\ Timely(events')
             /\ new \in Seq(Events)
             /\ Contents(new) = Contents(Replicas(opportunities)) \cup {Event("DoFrameStart", N)}
             /\ Alone(new)
<1>1. PICK e \in Events : e = Event("DoFrameStart", N) /\ e.kind = "DoFrameStart" /\ e.left = N
  BY EventFacts, ConstantFacts DEF Kinds
<1>2. PICK s : s = Replicas(opportunities)
  OBVIOUS
<1>3. /\ s \in Seq(Events) /\ Alone(s)
      /\ \A x \in Contents(s) : x.kind = "TransmitPackets" /\ x.left \in RaSlots
  BY <1>2, ReplicaSlots
<1>4. PICK new : new = Append(s, e)
  OBVIOUS
<1>5. /\ new \in Seq(Events) /\ Len(s) \in Nat /\ DOMAIN s = 1 .. Len(s)
      /\ DOMAIN new = 1 .. Len(s) + 1
      /\ new[Len(s) + 1] = e /\ \A i \in 1 .. Len(s) : new[i] = s[i]
  BY <1>3, <1>4
<1>6. Contents(new) = Contents(s) \cup {e}
  <2>1. \A i \in DOMAIN new : i \in DOMAIN s \/ i = Len(s) + 1
    BY <1>5
  <2>2. Len(s) + 1 \in DOMAIN new /\ \A i \in DOMAIN s : i \in DOMAIN new
    BY <1>5
  <2>3. \A x \in Contents(new) : x \in Contents(s) \cup {e}
    BY <1>5, <2>1 DEF Contents
  <2>4. \A x \in Contents(s) : x \in Contents(new)
    <3> SUFFICES ASSUME NEW i \in DOMAIN s PROVE s[i] \in Contents(new)
      BY DEF Contents
    <3>1. new[i] = s[i] /\ i \in DOMAIN new
      BY <1>5, <2>2
    <3> QED BY <3>1 DEF Contents
  <2>5. e \in Contents(new)
    BY <1>5, <2>2 DEF Contents
  <2> QED BY <2>3, <2>4, <2>5
<1>7. Alone(new)
  <2> SUFFICES ASSUME NEW i \in DOMAIN new, NEW j \in DOMAIN new, i # j PROVE ~ Clash(new[i], new[j])
    BY DEF Alone
  <2>1. \A k \in DOMAIN s : s[k].kind = "TransmitPackets"
    BY <1>3 DEF Contents
  <2>2. CASE i \in DOMAIN s /\ j \in DOMAIN s
    BY <1>3, <1>5, <2>2 DEF Alone
  <2>3. CASE i = Len(s) + 1 /\ j \in DOMAIN s
    BY <1>1, <1>5, <2>1, <2>3 DEF Clash, Bursts
  <2>4. CASE j = Len(s) + 1 /\ i \in DOMAIN s
    BY <1>1, <1>5, <2>1, <2>4 DEF Clash, Bursts
  <2> QED BY <1>5, <2>2, <2>3, <2>4
<1>8. \A x \in Contents(new) : x.left \in Nat
  <2>1. N \in Nat /\ \A i \in RaSlots : i \in Nat
    BY ConstantFacts
  <2> QED BY <1>1, <1>3, <1>6, <2>1
<1>9. Timely(events')
  <2>1. events' = With(Tail(events), new)
    BY <1>1, <1>2, <1>4 DEF Schedule
  <2> QED BY <1>5, <1>8, <2>1, ScheduleTimely DEF UtTypeOK
<1> QED BY <1>1, <1>2, <1>4, <1>5, <1>6, <1>7, <1>9

LEMMA AccessTypeStep == TypeOK /\ [Next]_vars => AccessTypeOK'
<1> SUFFICES ASSUME TypeOK, [Next]_vars PROVE AccessTypeOK'
  OBVIOUS
<1>1. AccessTypeOK /\ NccTypeOK
  BY DEF TypeOK
<1>2. CASE UNCHANGED <<accessVars, history>>
  BY <1>1, <1>2 DEF AccessTypeOK, accessVars, crdsaVars, history
<1>3. ASSUME NEW opportunities \in Opportunities, DoFrameStart(opportunities) PROVE AccessTypeOK'
  <2>1. CASE UsesCrdsa
    <3>1. /\ DoCrdsa(m_raChannel, HasScheduledTimeSlots, buffered = 0, opportunities)
          /\ Row(opportunities # <<>>)
      BY <1>3, <2>1 DEF DoFrameStart
    <3>2. row' \in Nat /\ owed' \in Nat
      BY <1>1, <3>1, RowIsTyped
    <3> QED BY <1>1, <3>1, <3>2, CrdsaIsTyped DEF AccessTypeOK
  <2>2. CASE ~ UsesCrdsa
    BY <1>2, <1>3, <2>2 DEF DoFrameStart
  <2> QED BY <2>1, <2>2
<1>4. CASE ReceiveRaMessage
  <2>1. CASE TakesBackoff
    <3>1. /\ raMessages \in Seq(Messages) /\ raMessages # <<>>
          /\ SetBackoff(Head(raMessages).channel, Head(raMessages).backoff)
          /\ UNCHANGED history
      BY <1>1, <1>4, <2>1 DEF ReceiveRaMessage, NccTypeOK
    <3>2. Head(raMessages) \in Messages
      BY <3>1
    <3>3. Head(raMessages).backoff \in Backoffs
      BY <3>2 DEF Messages, Backoffs
    <3> QED BY <1>1, <3>1, <3>3 DEF AccessTypeOK, SetBackoff, crdsaVars, history
  <2>2. CASE ~ TakesBackoff
    BY <1>2, <1>4, <2>2 DEF ReceiveRaMessage
  <2> QED BY <2>1, <2>2
<1>5. CASE Tick
  <2>1. BackoffTimePasses /\ UNCHANGED history
    BY <1>5 DEF Tick
  <2>2. backoffLeft' \in [Channel -> Nat]
    BY <1>1, <2>1 DEF AccessTypeOK, BackoffTimePasses
  <2> QED BY <1>1, <2>1, <2>2 DEF AccessTypeOK, BackoffTimePasses, history
<1>6. CASE UNCHANGED vars
  BY <1>2, <1>6 DEF vars
<1>7. CASE \E d \in Superframes \ {0} : \E slots \in DaSlots(d) : ReceiveTbtp(d, slots)
  BY <1>2, <1>7 DEF ReceiveTbtp
<1>8. CASE \/ DoTransmit \/ TransmitPackets \/ Enque \/ ScheduleSlottedAlohaTransmission
           \/ DoSlottedAlohaTransmit \/ ScheduleEssaTransmission \/ DoEssaTransmit \/ DoRandomAccess
  BY <1>2, <1>8 DEF DoTransmit, TransmitPackets, Enque, ScheduleSlottedAlohaTransmission,
     DoSlottedAlohaTransmit, ScheduleEssaTransmission, DoEssaTransmit, DoRandomAccess
<1>9. CASE \E c \in Channel, isLow \in BOOLEAN : LoadControl(c, isLow)
  BY <1>2, <1>9 DEF LoadControl
<1> QED BY <1>3, <1>4, <1>5, <1>6, <1>7, <1>8, <1>9 DEF Next

LEMMA NccTypeStep == TypeOK /\ [Next]_vars => NccTypeOK'
<1> SUFFICES ASSUME TypeOK, [Next]_vars PROVE NccTypeOK'
  OBVIOUS
<1>1. m_isLowRandomAccessLoad \in [Channel -> BOOLEAN] /\ raMessages \in Seq(Messages)
  BY DEF TypeOK, NccTypeOK
<1>2. CASE UNCHANGED nccVars
  BY <1>1, <1>2 DEF NccTypeOK, nccVars
<1>3. ASSUME NEW c \in Channel, NEW isLow \in BOOLEAN, LoadControl(c, isLow) PROVE NccTypeOK'
  <2>1. [channel |-> c, backoff |-> IF isLow THEN "low" ELSE "high"] \in Messages
    BY DEF Messages
  <2>2. PICK m \in Messages : m = [channel |-> c, backoff |-> IF isLow THEN "low" ELSE "high"]
    BY <2>1
  <2>3. raMessages' = Append(raMessages, m)
    BY <1>3, <2>2 DEF LoadControl
  <2>4. raMessages' \in Seq(Messages)
    BY <1>1, <2>3
  <2> QED BY <1>1, <1>3, <2>4 DEF LoadControl, NccTypeOK
<1>4. CASE ReceiveRaMessage
  <2>1. raMessages # <<>> /\ raMessages' = Tail(raMessages) /\ UNCHANGED m_isLowRandomAccessLoad
    BY <1>4 DEF ReceiveRaMessage
  <2> QED BY <1>1, <2>1 DEF NccTypeOK
<1>5. CASE UNCHANGED vars
  BY <1>2, <1>5 DEF vars
<1>6. CASE \E d \in Superframes \ {0} : \E slots \in DaSlots(d) : ReceiveTbtp(d, slots)
  BY <1>2, <1>6 DEF ReceiveTbtp
<1>7. CASE \E opportunities \in Opportunities : DoFrameStart(opportunities)
  BY <1>2, <1>7 DEF DoFrameStart
<1>8. CASE \/ DoTransmit \/ TransmitPackets \/ Enque \/ ScheduleSlottedAlohaTransmission \/ Tick
           \/ DoSlottedAlohaTransmit \/ ScheduleEssaTransmission \/ DoEssaTransmit \/ DoRandomAccess
  BY <1>2, <1>8 DEF DoTransmit, TransmitPackets, Enque, ScheduleSlottedAlohaTransmission, Tick,
     DoSlottedAlohaTransmit, ScheduleEssaTransmission, DoEssaTransmit, DoRandomAccess
<1> QED BY <1>3, <1>4, <1>5, <1>6, <1>7, <1>8 DEF Next


LEMMA TbtpIsTyped ==
  ASSUME UtTypeOK, NEW d \in Superframes \ {0}, NEW slots \in DaSlots(d), ReceiveTbtp(d, slots)
  PROVE  UtTypeOK'
<1>1. slots \in SUBSET Nat /\ IsFiniteSet(slots) /\ \A x \in slots : x >= N
  BY DaSlotFacts
<1>2. now \in 0 .. N - 1 /\ now \in Nat /\ N \in Nat
  BY ConstantFacts DEF UtTypeOK
<1>3. PICK new : new = [i \in 1 .. Cardinality(slots) |-> Event("DoTransmit", SetToSeq(slots)[i] - now)]
  OBVIOUS
<1>4. new \in Seq(Events) /\ \A e \in Contents(new) : now + e.left \in slots
  BY <1>1, <1>2, <1>3, DedicatedSlots
<1>5. \A e \in Contents(new) : e.left \in Nat
  <2> TAKE e \in Contents(new)
  <2>1. e \in Events
    BY <1>4 DEF Contents
  <2>2. e.left \in Int
    BY <2>1 DEF Events
  <2> QED BY <1>1, <1>2, <1>4, <2>2
<1>6. Timely(events')
  <2>1. events' = With(events, new)
    BY <1>3 DEF ReceiveTbtp
  <2> QED BY <1>4, <1>5, <2>1, WithTimely DEF UtTypeOK
<1>7. tbtps' \in [Superframes -> 0 .. MaxTbtps]
  <2>1. tbtps[d] \in 0 .. MaxTbtps /\ tbtps[d] < MaxTbtps /\ tbtps' = [tbtps EXCEPT ![d] = tbtps[d] + 1]
    BY DEF ReceiveTbtp, UtTypeOK
  <2>2. tbtps[d] + 1 \in 0 .. MaxTbtps
    BY <2>1, ConstantFacts
  <2> QED BY <2>1, <2>2 DEF UtTypeOK
<1>8. knownSlots' \subseteq Nat
  BY <1>1 DEF ReceiveTbtp, KnownAfter, UtTypeOK
<1> QED BY <1>6, <1>7, <1>8 DEF ReceiveTbtp, UtTypeOK

LEMMA FrameStartIsTyped ==
  ASSUME UtTypeOK, NEW opportunities \in Opportunities, DoFrameStart(opportunities)
  PROVE  UtTypeOK'
<1>1. events # <<>>
  BY HandlesFacts DEF DoFrameStart
<1>2. Timely(events')
  BY <1>1, FrameIsScheduled DEF DoFrameStart
<1>3. Len(opportunities) \in Nat /\ RaSlotsOf(opportunities) \subseteq Nat
  <2>1. opportunities \in Seq(SUBSET RaSlots) /\ RaSlotsOf(opportunities) \subseteq RaSlots
    BY OpportunityFacts
  <2>2. RaSlots \subseteq Nat
    BY RandomAccessAssumption
  <2>3. Len(opportunities) \in Nat
    BY <2>1
  <2> QED BY <2>1, <2>2, <2>3
<1>4. buffered' \in Nat
  <2>1. buffered \in Nat /\ buffered' = IF buffered > Len(opportunities)
                                        THEN buffered - Len(opportunities) ELSE 0
    BY DEF DoFrameStart, UtTypeOK
  <2> QED BY <1>3, <2>1
<1>5. fatal' \in Errors
  BY DEF DoFrameStart, Errors
<1>6. m_usedRandomAccessSlots' \subseteq Nat /\ m_isRandomAccessScheduled' \in BOOLEAN
  BY <1>3 DEF DoFrameStart, RaSlotsOf, UtTypeOK
<1> QED BY <1>2, <1>4, <1>5, <1>6 DEF DoFrameStart, UtTypeOK

LEMMA EnqueIsTyped ==
  ASSUME UtTypeOK, Enque
  PROVE  UtTypeOK'
<1>1. Timely(events')
  <2>1. CASE UNCHANGED events
    BY <2>1 DEF UtTypeOK
  <2>2. ASSUME NEW kind \in Kinds, NEW time \in Nat, events' = Insert(events, Event(kind, time))
        PROVE  Timely(events')
    <3>1. Event(kind, time) \in Events /\ Event(kind, time).left \in Nat
      BY EventFacts
    <3> QED BY <2>2, <3>1, InsertTimely DEF UtTypeOK
  <2>3. ReleaseTimes \subseteq Nat /\ EssaWaits \subseteq Nat
    BY ConstantFacts
  <2> QED BY <2>1, <2>2, <2>3 DEF Enque, Kinds
<1>2. buffered' \in Nat
  BY DEF Enque, UtTypeOK
<1>3. m_isRandomAccessScheduled' \in BOOLEAN
  BY DEF Enque, UtTypeOK
<1> QED BY <1>1, <1>2, <1>3 DEF Enque, UtTypeOK

LEMMA AlohaIsTyped ==
  ASSUME UtTypeOK, ScheduleSlottedAlohaTransmission
  PROVE  UtTypeOK'
<1>1. events # <<>>
  BY HandlesFacts DEF ScheduleSlottedAlohaTransmission
<1>2. CASE HasScheduledTimeSlots
  <2>1. Schedule(<<>>) /\ UNCHANGED m_usedRandomAccessSlots
    BY <1>2 DEF ScheduleSlottedAlohaTransmission
  <2>2. Timely(events')
    BY <1>1, <2>1, NoneScheduled
  <2> QED BY <2>1, <2>2 DEF ScheduleSlottedAlohaTransmission, UtTypeOK
<1>3. CASE ~ HasScheduledTimeSlots
  <2> DEFINE slot == Min(AvailableSlots)
  <2>1. AvailableSlots # {} /\ Schedule(<<Event("DoSlottedAlohaTransmit", slot - now)>>)
        /\ m_usedRandomAccessSlots' = UsedFrom(slot) \cup {slot}
    BY <1>3 DEF ScheduleSlottedAlohaTransmission
  <2>2. now \in 0 .. N - 1 /\ N \in Nat
    BY ConstantFacts DEF UtTypeOK
  <2>3. AvailableSlots \subseteq SlotsAhead /\ \A i \in AvailableSlots : i >= now
    BY DEF AvailableSlots
  <2>4. PICK b \in Int : b = (Ahead + 1) * N
    BY ConstantFacts, TimesType
  <2>5. SlotsAhead = 0 .. b - 1
    BY <2>4 DEF SlotsAhead
  <2>6. slot \in AvailableSlots
    <3>1. PICK y \in AvailableSlots : TRUE
      BY <2>1
    <3>2. b - 1 \in Nat
      BY <2>3, <2>4, <2>5, <3>1
    <3>3. \E x \in AvailableSlots : \A z \in AvailableSlots : x <= z
      BY <2>1, <2>3, <2>5, <3>2, LeastElement
    <3> QED BY <3>3 DEF Min
  <2>7. slot \in Nat /\ slot - now \in Nat
    <3>1. slot \in 0 .. b - 1 /\ slot >= now
      BY <2>3, <2>5, <2>6
    <3> HIDE DEF slot
    <3> QED BY <2>2, <2>4, <3>1
  <2> HIDE DEF slot
  <2>8. Timely(events')
    BY <1>1, <2>1, <2>7, OneScheduled DEF Kinds
  <2>9. m_usedRandomAccessSlots' \subseteq Nat
    BY <2>1, <2>7 DEF UsedFrom, UtTypeOK
  <2> QED BY <2>8, <2>9 DEF ScheduleSlottedAlohaTransmission, UtTypeOK
<1> QED BY <1>2, <1>3

LEMMA EssaIsTyped ==
  ASSUME UtTypeOK, ScheduleEssaTransmission \/ DoEssaTransmit \/ DoRandomAccess
  PROVE  UtTypeOK'
<1>1. events # <<>>
  BY HandlesFacts DEF ScheduleEssaTransmission, DoEssaTransmit, DoRandomAccess
<1>2. CASE ScheduleEssaTransmission
  <2>1. nextPacketIn \in Nat
    BY DEF UtTypeOK
  <2>2. Timely(events')
    BY <1>1, <1>2, <2>1, OneScheduled DEF ScheduleEssaTransmission, Kinds
  <2> QED BY <1>2, <2>2 DEF ScheduleEssaTransmission, UtTypeOK
<1>3. CASE DoRandomAccess
  <2>1. PICK time \in EssaWaits : Schedule(<<Event("ScheduleEssaTransmission", time)>>)
    BY <1>3 DEF DoRandomAccess
  <2>2. time \in Nat
    BY ConstantFacts
  <2>3. Timely(events')
    BY <1>1, <2>1, <2>2, OneScheduled DEF Kinds
  <2> QED BY <1>3, <2>3 DEF DoRandomAccess, UtTypeOK
<1>4. CASE DoEssaTransmit
  <2>1. EssaDuration \in Nat
    BY ConstantFacts
  <2>2. Timely(events')
    <3>1. CASE buffered > 0
      BY <1>1, <1>4, <2>1, <3>1, OneScheduled DEF DoEssaTransmit, Kinds
    <3>2. CASE ~ (buffered > 0)
      BY <1>1, <1>4, <3>2, NoneScheduled DEF DoEssaTransmit
    <3> QED BY <3>1, <3>2
  <2>3. busy' \in Nat /\ fatal' \in Errors /\ buffered' \in Nat
    BY <1>4, <2>1, SendIsTyped DEF DoEssaTransmit
  <2>4. nextPacketIn' \in Nat /\ m_isRandomAccessScheduled' \in BOOLEAN
    BY <1>4, <2>1 DEF DoEssaTransmit, UtTypeOK
  <2> QED BY <1>4, <2>2, <2>3, <2>4 DEF DoEssaTransmit, UtTypeOK
<1> QED BY <1>2, <1>3, <1>4

LEMMA TransmissionIsTyped ==
  ASSUME UtTypeOK, DoTransmit \/ DoSlottedAlohaTransmit \/ TransmitPackets
  PROVE  UtTypeOK'
<1>1. events # <<>>
  BY HandlesFacts DEF DoTransmit, DoSlottedAlohaTransmit, TransmitPackets
<1>2. Timely(events')
  BY <1>1, NoneScheduled DEF DoTransmit, DoSlottedAlohaTransmit, TransmitPackets
<1>3. CASE DoTransmit \/ DoSlottedAlohaTransmit
  <2>1. busy' \in Nat /\ fatal' \in Errors /\ buffered' \in Nat
    BY <1>3, SendIsTyped DEF DoTransmit, DoSlottedAlohaTransmit
  <2> QED BY <1>2, <1>3, <2>1 DEF DoTransmit, DoSlottedAlohaTransmit, UtTypeOK
<1>4. CASE TransmitPackets
  BY <1>2, <1>4 DEF TransmitPackets, StartTx, UtTypeOK, Errors
<1> QED BY <1>3, <1>4

LEMMA TickIsTyped ==
  ASSUME UtTypeOK, Tick
  PROVE  UtTypeOK'
<1>1. N \in Nat \ {0} /\ Ahead \in Nat /\ now \in 0 .. N - 1
  BY ConstantFacts DEF UtTypeOK
<1>2. Timely(events')
  <2>1. ~ (events # <<>> /\ Head(events).left = 0) /\ events' = Sooner(events)
    BY DEF Tick, Due, Sooner
  <2> QED BY <2>1, TimePasses DEF UtTypeOK
<1>3. now' \in 0 .. N - 1
  BY <1>1, DivModType DEF Tick
<1>4. \A n \in Nat : Less(n) \in Nat
  BY DEF Less
<1>5. \A slots \in SUBSET Nat : Shifted(slots) \subseteq Nat
  <2> TAKE slots \in SUBSET Nat
  <2>1. \A j \in slots : j >= N => j - N \in Nat
    BY <1>1
  <2>2. {i - N : i \in {j \in slots : j >= N}} \subseteq Nat
    BY <2>1
  <2> QED BY <2>2 DEF Shifted
<1>6. tbtps' \in [Superframes -> 0 .. MaxTbtps]
  <2>1. tbtps \in [Superframes -> 0 .. MaxTbtps]
    BY DEF UtTypeOK
  <2>2. \A d \in Superframes : d # Ahead => d + 1 \in Superframes
    BY <1>1 DEF Superframes
  <2>3. 0 \in 0 .. MaxTbtps
    BY ConstantFacts
  <2> QED BY <2>1, <2>2, <2>3 DEF Tick
<1>7. busy' \in Nat /\ nextPacketIn' \in Nat
  BY <1>4 DEF Tick, UtTypeOK
<1>8. knownSlots' \subseteq Nat /\ m_usedRandomAccessSlots' \subseteq Nat
  BY <1>5 DEF Tick, UtTypeOK
<1> QED BY <1>2, <1>3, <1>6, <1>7, <1>8 DEF Tick, UtTypeOK

LEMMA UtTypeStep == TypeOK /\ [Next]_vars => UtTypeOK'
<1> SUFFICES ASSUME TypeOK, [Next]_vars PROVE UtTypeOK'
  OBVIOUS
<1>1. UtTypeOK
  BY DEF TypeOK
<1>2. CASE UNCHANGED utVars
  BY <1>1, <1>2 DEF UtTypeOK, utVars
<1>3. CASE \E d \in Superframes \ {0} : \E slots \in DaSlots(d) : ReceiveTbtp(d, slots)
  BY <1>1, <1>3, TbtpIsTyped
<1>4. CASE \E opportunities \in Opportunities : DoFrameStart(opportunities)
  BY <1>1, <1>4, FrameStartIsTyped
<1>5. CASE ReceiveRaMessage
  BY <1>1, <1>5 DEF ReceiveRaMessage, UtTypeOK, Errors
<1>6. CASE \/ UNCHANGED vars
           \/ \E c \in Channel, isLow \in BOOLEAN : LoadControl(c, isLow)
  BY <1>2, <1>6 DEF vars, LoadControl
<1> QED BY <1>1, <1>3, <1>4, <1>5, <1>6, EnqueIsTyped, AlohaIsTyped, EssaIsTyped,
        TransmissionIsTyped, TickIsTyped DEF Next

\* The types of the UT, its random access, the NCC's load control and the
\* simulator's queue, in which nothing is ever overdue.
THEOREM AccessTypeCorrect == Spec => []TypeOK
<1>1. TypeOK /\ [Next]_vars => TypeOK'
  BY AccessTypeStep, UtTypeStep, NccTypeStep DEF TypeOK
<1> QED BY <1>1, InitTypeOK, PTL DEF Spec
-----------------------------------------------------------------------------
(* The load control. *)

\* What Announced says while the simulation goes on.
ChannelAnnounced(c) ==
  \/ \E i \in DOMAIN raMessages : LastOf(c, i) /\ raMessages[i].backoff = Wanted(c)
  \/ Follows(c) /\ \A i \in DOMAIN raMessages : raMessages[i].channel # c

LEMMA LoadControlAnnounces ==
  ASSUME TypeOK, NEW d \in Channel, ChannelAnnounced(d),
         NEW c \in Channel, NEW isLow \in BOOLEAN, LoadControl(c, isLow)
  PROVE  ChannelAnnounced(d)'
<1>1. /\ m_isLowRandomAccessLoad \in [Channel -> BOOLEAN] /\ raMessages \in Seq(Messages)
      /\ Len(raMessages) \in Nat /\ DOMAIN raMessages = 1 .. Len(raMessages)
  BY DEF TypeOK, NccTypeOK
<1>2. PICK m \in Messages : /\ m = [channel |-> c, backoff |-> IF isLow THEN "low" ELSE "high"]
                            /\ m.channel = c /\ m.backoff = IF isLow THEN "low" ELSE "high"
  <2> DEFINE m == [channel |-> c, backoff |-> IF isLow THEN "low" ELSE "high"]
  <2>1. m \in Messages /\ m.channel = c /\ m.backoff = IF isLow THEN "low" ELSE "high"
    BY DEF Messages
  <2> QED BY <2>1
<1>3. /\ raMessages' = Append(raMessages, m)
      /\ m_isLowRandomAccessLoad' = [m_isLowRandomAccessLoad EXCEPT ![c] = isLow]
      /\ UNCHANGED m_backoff
  BY <1>2 DEF LoadControl, accessVars
<1>4. PICK n \in Nat : n = Len(raMessages) + 1
  BY <1>1
<1>5. /\ DOMAIN raMessages' = 1 .. n /\ n \in 1 .. n /\ raMessages'[n] = m
      /\ \A i \in DOMAIN raMessages : i \in 1 .. n /\ i < n /\ raMessages'[i] = raMessages[i]
      /\ \A i \in 1 .. n : (i = n \/ i \in DOMAIN raMessages) /\ ~ (i > n)
  BY <1>1, <1>3, <1>4
<1>6. CASE d = c
  <2>1. Wanted(d)' = m.backoff
    BY <1>1, <1>2, <1>3, <1>6 DEF Wanted
  <2>2. LastOf(d, n)'
    BY <1>1, <1>2, <1>5, <1>6 DEF LastOf
  <2> QED BY <1>5, <2>1, <2>2 DEF ChannelAnnounced
<1>7. CASE d # c
  <2>1. (Wanted(d)' = Wanted(d)) /\ (Follows(d)' = Follows(d))
    BY <1>1, <1>3, <1>7 DEF Wanted, Follows
  <2>2. CASE \E i \in DOMAIN raMessages : LastOf(d, i) /\ raMessages[i].backoff = Wanted(d)
    <3>1. PICK i \in DOMAIN raMessages : LastOf(d, i) /\ raMessages[i].backoff = Wanted(d)
      BY <2>2
    <3>2. LastOf(d, i)'
      BY <1>2, <1>5, <1>7, <3>1 DEF LastOf
    <3> QED BY <1>5, <2>1, <3>1, <3>2 DEF ChannelAnnounced
  <2>3. CASE Follows(d) /\ \A i \in DOMAIN raMessages : raMessages[i].channel # d
    BY <1>2, <1>5, <1>7, <2>1, <2>3 DEF ChannelAnnounced
  <2> QED BY <2>2, <2>3 DEF ChannelAnnounced
<1> QED BY <1>6, <1>7

LEMMA MessageIsFollowed ==
  ASSUME TypeOK, NEW d \in Channel, ChannelAnnounced(d), ReceiveRaMessage, TakesBackoff
  PROVE  ChannelAnnounced(d)'
<1>1. /\ m_backoff \in [Channel -> Backoffs] /\ raMessages \in Seq(Messages) /\ raMessages # <<>>
      /\ Len(raMessages) \in Nat \ {0} /\ DOMAIN raMessages = 1 .. Len(raMessages)
  BY DEF TypeOK, AccessTypeOK, NccTypeOK, ReceiveRaMessage
<1>2. PICK m \in Messages : m = raMessages[1] /\ m = Head(raMessages)
  BY <1>1
<1>3. /\ raMessages' = Tail(raMessages)
      /\ m_backoff' = [m_backoff EXCEPT ![m.channel] = m.backoff]
      /\ UNCHANGED m_isLowRandomAccessLoad
  BY <1>2 DEF ReceiveRaMessage, SetBackoff
<1>4. /\ DOMAIN raMessages' = 1 .. Len(raMessages) - 1
      /\ \A i \in 1 .. Len(raMessages) - 1 : raMessages'[i] = raMessages[i + 1]
  BY <1>1, <1>3
<1>5. /\ \A i \in DOMAIN raMessages' : i + 1 \in DOMAIN raMessages /\ i + 1 > 1 /\ raMessages'[i] = raMessages[i + 1]
      /\ 1 \in DOMAIN raMessages
  BY <1>1, <1>4
<1>6. Wanted(d)' = Wanted(d)
  BY <1>3 DEF Wanted
<1>7. CASE \E i \in DOMAIN raMessages : LastOf(d, i) /\ raMessages[i].backoff = Wanted(d)
  <2>1. PICK i \in DOMAIN raMessages : LastOf(d, i) /\ raMessages[i].backoff = Wanted(d)
    BY <1>7
  <2>2. CASE i = 1
    <3>1. m.channel = d /\ m.backoff = Wanted(d)
      BY <1>2, <2>1, <2>2 DEF LastOf
    <3>2. Follows(d)'
      BY <1>1, <1>3, <1>6, <3>1 DEF Follows
    <3>3. \A j \in DOMAIN raMessages' : raMessages'[j].channel # d
      BY <1>5, <2>1, <2>2 DEF LastOf
    <3> QED BY <3>2, <3>3 DEF ChannelAnnounced
  <2>3. CASE i # 1
    <3>1. i - 1 \in DOMAIN raMessages' /\ raMessages'[i - 1] = raMessages[i]
      <4>1. i - 1 \in 1 .. Len(raMessages) - 1 /\ (i - 1) + 1 = i
        BY <1>1, <2>3
      <4> QED BY <1>4, <4>1
    <3>2. \A j \in DOMAIN raMessages' : j > i - 1 => j + 1 > i
      BY <1>1, <1>4
    <3>3. LastOf(d, i - 1)'
      BY <1>5, <2>1, <3>1, <3>2 DEF LastOf
    <3> QED BY <1>6, <2>1, <3>1, <3>3 DEF ChannelAnnounced
  <2> QED BY <2>2, <2>3
<1>8. CASE Follows(d) /\ \A i \in DOMAIN raMessages : raMessages[i].channel # d
  <2>1. m.channel # d
    BY <1>2, <1>5, <1>8
  <2>2. Follows(d)'
    BY <1>1, <1>2, <1>3, <1>6, <1>8, <2>1 DEF Follows
  <2>3. \A i \in DOMAIN raMessages' : raMessages'[i].channel # d
    BY <1>5, <1>8
  <2> QED BY <2>2, <2>3 DEF ChannelAnnounced
<1> QED BY <1>7, <1>8 DEF ChannelAnnounced

LEMMA AnnouncedStep == TypeOK /\ Announced /\ [Next]_vars => Announced'
<1> SUFFICES ASSUME TypeOK, Announced, [Next]_vars PROVE Announced'
  OBVIOUS
<1>1. fatal = None => \A c \in Channel : ChannelAnnounced(c)
  BY DEF Announced, ChannelAnnounced
<1> SUFFICES ASSUME fatal' = None, NEW d \in Channel PROVE ChannelAnnounced(d)'
  BY DEF Announced, ChannelAnnounced
<1>2. ASSUME fatal = None, UNCHANGED <<raMessages, m_backoff, m_isLowRandomAccessLoad>>
      PROVE  ChannelAnnounced(d)'
  BY <1>1, <1>2 DEF ChannelAnnounced, LastOf, Follows, Wanted
<1>3. CASE UNCHANGED vars
  BY <1>2, <1>3 DEF vars, utVars, nccVars, accessVars
<1>4. CASE \E c \in Channel, isLow \in BOOLEAN : LoadControl(c, isLow)
  BY <1>1, <1>4, LoadControlAnnounces DEF LoadControl
<1>5. CASE ReceiveRaMessage
  <2>1. fatal = None /\ TakesBackoff
    BY <1>5 DEF ReceiveRaMessage, None
  <2> QED BY <1>1, <1>5, <2>1, MessageIsFollowed
<1>6. CASE \E d0 \in Superframes \ {0} : \E slots \in DaSlots(d0) : ReceiveTbtp(d0, slots)
  BY <1>2, <1>6 DEF ReceiveTbtp, nccVars, accessVars
<1>7. CASE \E opportunities \in Opportunities : DoFrameStart(opportunities)
  BY <1>2, <1>7 DEF DoFrameStart, Handles, DoCrdsa, nccVars, accessVars
<1>8. CASE Tick
  BY <1>2, <1>8 DEF Tick, BackoffTimePasses, nccVars
<1>9. CASE \/ DoTransmit \/ TransmitPackets \/ Enque \/ ScheduleSlottedAlohaTransmission
           \/ DoSlottedAlohaTransmit \/ ScheduleEssaTransmission \/ DoEssaTransmit \/ DoRandomAccess
  BY <1>2, <1>9 DEF DoTransmit, TransmitPackets, Enque, ScheduleSlottedAlohaTransmission,
     DoSlottedAlohaTransmit, ScheduleEssaTransmission, DoEssaTransmit, DoRandomAccess,
     Handles, nccVars, accessVars
<1> QED BY <1>3, <1>4, <1>5, <1>6, <1>7, <1>8, <1>9 DEF Next

\* Once no control message is on its way to the UT, it backs off as the NCC
\* wants on every channel: the last message about a channel always says what the
\* NCC wants, so what the UT has at the end is right.
THEOREM BackoffCorrect == Spec => []BackoffFollowsLoad
<1>1. Init => Announced
  BY DEF Init, AccessInit, Announced, Follows, Wanted
<1>2. Announced => BackoffFollowsLoad
  BY DEF Announced, BackoffFollowsLoad, Follows, Wanted
<1> QED BY <1>1, <1>2, AnnouncedStep, AccessTypeCorrect, PTL DEF Spec
-----------------------------------------------------------------------------
(* The rate limit. *)

\* An empty set of opportunities is one of the packets none.
LEMMA TransmittedWhenFree ==
  ASSUME TypeOK, NEW opportunities, opportunities # <<>>,
         CrdsaPrepareToTransmit(m_raChannel, opportunities)
  PROVE  m_crdsaIdleBlocksLeft[m_raChannel] = 0
<1>1. PICK n : /\ opportunities \in CrdsaTxOpportunities(n)
               /\ m_crdsaIdleBlocksLeft[m_raChannel] # 0 => n = 0
  BY DEF CrdsaPrepareToTransmit, CrdsaIsAllocationChannelFree
<1>2. CASE n = 0
  <2>1. opportunities \in [1 .. 0 -> kSubset(NumOfInstances, RaSlots)]
    BY <1>1, <1>2 DEF CrdsaTxOpportunities
  <2>2. opportunities = <<>>
    BY <2>1
  <2> QED BY <2>2
<1> QED BY <1>1, <1>2

\* A superframe that is left idle.
LEMMA IdleKeepsCounts ==
  ASSUME TypeOK, CountsAgree, CrdsaReduceIdleBlocks, Row(FALSE), UNCHANGED m_raChannel
  PROVE  CountsAgree' /\ row' <= row
<1> DEFINE r == m_raChannel
           idle == m_crdsaIdleBlocksLeft[r]
<1>1. r \in Channel /\ idle \in Nat /\ MinIdle[r] \in Nat /\ MaxConsecutive[r] \in Nat /\ row \in Nat
  BY ConstantFacts DEF TypeOK, AccessTypeOK
<1>2. /\ m_crdsaIdleBlocksLeft'[r] = IF idle > 0 THEN idle - 1 ELSE 0
      /\ \A c \in Channel : m_crdsaNumOfConsecutiveBlocksUsed'[c] = 0
  BY <1>1 DEF CrdsaReduceIdleBlocks
<1>3. row' = 0 /\ owed' = IF owed > 0 THEN owed - 1 ELSE 0
  BY DEF Row
<1>4. owed = idle /\ (MinIdle[r] = 0 => idle = 0)
  BY DEF CountsAgree
<1> HIDE DEF idle
<1>5. PICK k : k = m_crdsaIdleBlocksLeft'[r]
  OBVIOUS
<1>6. owed' = k /\ (MinIdle[r] = 0 => k = 0)
  BY <1>1, <1>2, <1>3, <1>4, <1>5
<1>7. CountsAgree'
  BY <1>1, <1>2, <1>3, <1>5, <1>6 DEF CountsAgree
<1> QED BY <1>1, <1>3, <1>7

\* A superframe that is used.
LEMMA UseKeepsCounts ==
  ASSUME TypeOK, CountsAgree, ShortestLimit, CrdsaIncreaseConsecutiveBlocksUsed, Row(TRUE),
         m_crdsaIdleBlocksLeft[m_raChannel] = 0, UNCHANGED m_raChannel
  PROVE  CountsAgree'
<1> DEFINE r == m_raChannel
           used == m_crdsaNumOfConsecutiveBlocksUsed
           max == MaxConsecutive[r]
           min == MinIdle[r]
<1>1. PICK counts : counts = FoldLeft(Counted, [used |-> used, idle |-> m_crdsaIdleBlocksLeft], Channels)
  OBVIOUS
<1>2. m_crdsaNumOfConsecutiveBlocksUsed' = counts.used /\ m_crdsaIdleBlocksLeft' = counts.idle
  BY <1>1, Zenon DEF CrdsaIncreaseConsecutiveBlocksUsed, Channels
<1>3. /\ r \in Channel /\ used \in [Channel -> Nat] /\ used[r] \in Nat
      /\ max \in Nat /\ min \in Nat /\ row \in Nat
  BY ConstantFacts DEF TypeOK, AccessTypeOK
<1>4. /\ counts.idle[r] \in {0, min}
      /\ max = 0 => counts.idle[r] = min
      /\ used[r] < max /\ (\A c \in Channel : used[c] <= used[r]) =>
           IF used[r] + 1 >= max THEN counts.idle[r] = min
           ELSE counts.idle[r] = 0 /\ counts.used = [c \in Channel |-> used[c] + 1]
  <2>1. Shortest(r)
    BY DEF ShortestLimit, Shortest
  <2>2. m_crdsaIdleBlocksLeft \in [Channel -> Nat]
    BY DEF TypeOK, AccessTypeOK
  <2> HIDE DEF r, used
  <2>3. PICK idle \in [Channel -> Nat] : idle = m_crdsaIdleBlocksLeft /\ idle[r] = 0
    BY <2>2 DEF r
  <2> QED BY <1>1, <1>3, <2>1, <2>3, CountsOfShortest
<1>5. row' = row + 1 /\ owed' = IF row + 1 >= max THEN min ELSE 0
  BY DEF Row, CountsAgree
<1>6. min > 0 => row = used[r] /\ (used[r] = 0 \/ used[r] < max) /\ \A c \in Channel : used[c] <= used[r]
  BY DEF CountsAgree
<1>7. CASE min = 0
  BY <1>2, <1>4, <1>5, <1>7 DEF CountsAgree
<1>8. CASE min > 0 /\ row + 1 >= max
  <2>1. counts.idle[r] = min
    BY <1>3, <1>4, <1>6, <1>8
  <2> QED BY <1>2, <1>3, <1>5, <1>8, <2>1 DEF CountsAgree
<1>9. CASE min > 0 /\ row + 1 < max
  <2>1. counts.idle[r] = 0 /\ counts.used = [c \in Channel |-> used[c] + 1]
    BY <1>3, <1>4, <1>6, <1>9
  <2>2. owed' = 0
    BY <1>3, <1>5, <1>9
  <2>3. \A c \in Channel : used[c] + 1 <= used[r] + 1
    BY <1>3, <1>6, <1>9
  <2> QED BY <1>2, <1>3, <1>5, <1>6, <1>9, <2>1, <2>2, <2>3 DEF CountsAgree
<1> QED BY <1>3, <1>7, <1>8, <1>9

\* A superframe is used only when none is left to be idle.
LEMMA FrameKeepsCounts ==
  ASSUME TypeOK, CountsAgree, ShortestLimit, NEW dama, NEW empty, NEW opportunities,
         DoCrdsa(m_raChannel, dama, empty, opportunities), Row(opportunities # <<>>)
  PROVE  CountsAgree' /\ (row' > row => owed = 0)
<1>1. UNCHANGED m_raChannel
  BY DEF DoCrdsa
<1>2. CASE opportunities = <<>>
  <2>1. CrdsaReduceIdleBlocks /\ Row(FALSE)
    BY <1>2 DEF DoCrdsa, CrdsaTransmits, CrdsaAborts
  <2>2. CountsAgree' /\ row' <= row /\ row' = 0 /\ row \in Nat
    BY <1>1, <2>1, IdleKeepsCounts DEF Row, TypeOK, AccessTypeOK
  <2> QED BY <2>2
<1>3. CASE opportunities # <<>>
  <2>1. CrdsaIncreaseConsecutiveBlocksUsed /\ Row(TRUE) /\ CrdsaPrepareToTransmit(m_raChannel, opportunities)
    BY <1>3 DEF DoCrdsa, CrdsaTransmits, CrdsaAborts
  <2>2. m_crdsaIdleBlocksLeft[m_raChannel] = 0
    BY <1>3, <2>1, TransmittedWhenFree
  <2>3. CountsAgree'
    BY <1>1, <2>1, <2>2, UseKeepsCounts
  <2> QED BY <2>2, <2>3 DEF CountsAgree
<1> QED BY <1>2, <1>3

LEMMA RateStep ==
  ASSUME TypeOK, CountsAgree, ShortestLimit, [Next]_vars
  PROVE  CountsAgree' /\ ShortestLimit' /\ (row' > row => owed = 0)
<1>1. ASSUME UNCHANGED <<m_raChannel, m_crdsaIdleBlocksLeft, m_crdsaNumOfConsecutiveBlocksUsed, row, owed>>
      PROVE  CountsAgree' /\ ShortestLimit' /\ (row' > row => owed = 0)
  <2>1. row \in Nat
    BY DEF TypeOK, AccessTypeOK
  <2> QED BY <1>1, <2>1 DEF CountsAgree, ShortestLimit
<1>2. ASSUME NEW opportunities \in Opportunities, DoFrameStart(opportunities)
      PROVE  CountsAgree' /\ ShortestLimit' /\ (row' > row => owed = 0)
  <2>1. CASE UsesCrdsa
    <3>1. /\ DoCrdsa(m_raChannel, HasScheduledTimeSlots, buffered = 0, opportunities)
          /\ Row(opportunities # <<>>)
      BY <1>2, <2>1 DEF DoFrameStart
    <3>2. ShortestLimit'
      BY <3>1 DEF DoCrdsa, ShortestLimit
    <3> QED BY <3>1, <3>2, FrameKeepsCounts
  <2>2. CASE ~ UsesCrdsa
    BY <1>1, <1>2, <2>2 DEF DoFrameStart, accessVars, crdsaVars, history
  <2> QED BY <2>1, <2>2
<1>3. CASE UNCHANGED <<accessVars, history>>
  BY <1>1, <1>3 DEF accessVars, crdsaVars, history
<1>4. CASE ReceiveRaMessage
  BY <1>1, <1>4 DEF ReceiveRaMessage, SetBackoff, accessVars, crdsaVars, history
<1>5. CASE Tick
  BY <1>1, <1>5 DEF Tick, BackoffTimePasses, history
<1>6. CASE UNCHANGED vars
  BY <1>3, <1>6 DEF vars
<1>7. CASE \E d \in Superframes \ {0} : \E slots \in DaSlots(d) : ReceiveTbtp(d, slots)
  BY <1>3, <1>7 DEF ReceiveTbtp
<1>8. CASE \/ DoTransmit \/ TransmitPackets \/ Enque \/ ScheduleSlottedAlohaTransmission
           \/ DoSlottedAlohaTransmit \/ ScheduleEssaTransmission \/ DoEssaTransmit \/ DoRandomAccess
  BY <1>3, <1>8 DEF DoTransmit, TransmitPackets, Enque, ScheduleSlottedAlohaTransmission,
     DoSlottedAlohaTransmit, ScheduleEssaTransmission, DoEssaTransmit, DoRandomAccess
<1>9. CASE \E c \in Channel, isLow \in BOOLEAN : LoadControl(c, isLow)
  BY <1>3, <1>9 DEF LoadControl
<1> QED BY <1>2, <1>4, <1>5, <1>6, <1>7, <1>8, <1>9 DEF Next

\* The channel in use never goes on after MaxConsecutive superframes before it
\* has left MinIdle of them idle, if no other channel reaches its limit earlier:
\* its counts are then those of the superframes that it really used and left
\* idle.  A channel with a shorter limit restarts the count of this one.
THEOREM RateLimitCorrect == Spec /\ ShortestLimit => RateLimited
<1>1. Init => CountsAgree
  BY ConstantFacts DEF Init, AccessInit, CountsAgree
<1>2. TypeOK /\ CountsAgree /\ ShortestLimit /\ [Next]_vars => CountsAgree' /\ ShortestLimit'
  BY RateStep
<1>3. TypeOK /\ CountsAgree /\ ShortestLimit /\ [Next]_vars => [row' > row => owed = 0]_vars
  BY RateStep
<1> QED BY <1>1, <1>2, <1>3, AccessTypeCorrect, PTL DEF Spec, RateLimited
-----------------------------------------------------------------------------
(* CRDSA. *)

LEMMA ContentFacts ==
  ASSUME NEW q, Timely(q)
  PROVE  \A e \in Contents(q) : e \in Events /\ e.kind \in Kinds /\ e.left \in Nat
<1>1. \A e \in Events : e.kind \in Kinds
  BY DEF Events
<1>2. \A e \in Contents(q) : e \in Events
  BY QueueFacts DEF Timely, Contents
<1> QED BY <1>1, <1>2 DEF Timely

\* With CRDSA nothing else is scheduled.
LEMMA CrdsaOnly ==
  ASSUME UsesCrdsa
  PROVE  ~ UsesSlottedAloha /\ ~ UsesEssa
  BY RandomAccessAssumption DEF UsesCrdsa, UsesSlottedAloha, UsesEssa

LEMMA InitCrdsa == Init => CrdsaInv
<1> SUFFICES ASSUME Init PROVE CrdsaInv
  OBVIOUS
<1> USE DEF Init
<1>1. PICK e \in Events : e = Event("DoFrameStart", 0) /\ e.kind = "DoFrameStart" /\ e.left = 0
  BY EventFacts DEF Kinds
<1>2. events = <<e>> /\ Contents(events) = {e} /\ Alone(events)
  BY <1>1, FewEvents
<1>3. Scheduled(e) /\ e.kind \notin Bursts
  BY <1>1 DEF Scheduled, Bursts
<1>4. OneTransmissionAtATime
  BY DEF OneTransmissionAtATime, None
<1> QED BY <1>2, <1>3, <1>4 DEF CrdsaInv

\* A TBTP announces slots that no burst has: it is about a superframe to come,
\* and replicas belong to this one.
LEMMA TbtpKeepsAlone ==
  ASSUME TypeOK, CrdsaInv, MaxTbtps <= 1,
         NEW d \in Superframes \ {0}, NEW slots \in DaSlots(d), ReceiveTbtp(d, slots)
  PROVE  CrdsaInv'
<1>1. slots \in SUBSET Nat /\ IsFiniteSet(slots) /\ \A x \in slots : x \in Nat /\ x >= N
  BY DaSlotFacts
<1>2. now \in 0 .. N - 1 /\ now \in Nat /\ N \in Nat /\ Timely(events) /\ busy \in Nat
  BY ConstantFacts DEF TypeOK, UtTypeOK
<1>3. PICK new : new = [i \in 1 .. Cardinality(slots) |-> Event("DoTransmit", SetToSeq(slots)[i] - now)]
  OBVIOUS
<1>4. /\ new \in Seq(Events) /\ Alone(new)
      /\ \A e \in Contents(new) : e.kind = "DoTransmit" /\ now + e.left \in slots
  BY <1>1, <1>2, <1>3, DedicatedSlots
<1>5. knownSlots' = knownSlots \cup slots
  <2>1. tbtps[d] = 0
    <3>1. tbtps[d] \in 0 .. MaxTbtps /\ tbtps[d] < MaxTbtps /\ MaxTbtps \in Nat
      BY ConstantFacts DEF ReceiveTbtp, TypeOK, UtTypeOK
    <3> QED BY <3>1
  <2> QED BY <2>1 DEF ReceiveTbtp, KnownAfter
<1>6. UNCHANGED <<now, busy, fatal, m_usedRandomAccessSlots>> /\ events' = With(events, new)
  BY <1>3 DEF ReceiveTbtp
<1>7. \A e \in Contents(events) : e \in Events /\ e.left \in Nat
  BY <1>2, ContentFacts
<1>8. ClashFree(events, Contents(new))
  <2> SUFFICES ASSUME NEW i \in DOMAIN events, NEW x \in Contents(new), Clash(events[i], x) PROVE FALSE
    BY DEF ClashFree
  <2>1. PICK e \in Contents(events) : e = events[i]
    BY DEF Contents
  <2>2. x.kind = "DoTransmit" /\ now + x.left \in slots /\ now + x.left >= N
    BY <1>1, <1>4
  <2>3. e.kind \in Bursts /\ e.left = x.left
    BY <2>1, <2>2 DEF Clash
  <2>4. CASE e.kind = "DoTransmit"
    BY <2>1, <2>2, <2>3, <2>4 DEF ReceiveTbtp
  <2>5. CASE e.kind = "TransmitPackets"
    BY <1>2, <1>7, <2>1, <2>2, <2>3, <2>5 DEF CrdsaInv, Scheduled
  <2> QED BY <2>3, <2>4, <2>5 DEF Bursts
<1>9. Alone(events') /\ Contents(events') = Contents(events) \cup Contents(new)
  <2>1. Queue(events) /\ Alone(events)
    BY <1>2 DEF CrdsaInv, Timely
  <2> QED BY <1>4, <1>6, <1>8, <2>1, WithKeeps
<1>10. FrameStartDue' <=> FrameStartDue
  BY <1>4, <1>9 DEF FrameStartDue
<1>11. \A e \in Contents(events') : Scheduled(e)'
  <2> TAKE e \in Contents(events')
  <2>1. CASE e \in Contents(events)
    BY <1>5, <1>6, <1>10, <2>1 DEF CrdsaInv, Scheduled
  <2>2. CASE e \in Contents(new)
    BY <1>4, <1>5, <1>6, <2>2 DEF Scheduled
  <2> QED BY <1>9, <2>1, <2>2
<1>12. ASSUME NEW e \in Contents(new) PROVE e.left > 0
  <2>1. e \in Events
    BY <1>4 DEF Contents
  <2>2. e.left \in Int
    BY <2>1 DEF Events
  <2>3. now + e.left >= N
    BY <1>1, <1>4
  <2> QED BY <1>2, <2>2, <2>3
<1>13. busy' = 1 => \A e \in Contents(events') : e.kind \in Bursts => e.left > 0
  BY <1>6, <1>9, <1>12 DEF CrdsaInv
<1> QED BY <1>5, <1>6, <1>9, <1>10, <1>11, <1>13 DEF CrdsaInv, OneTransmissionAtATime

\* A handler that schedules nothing.
LEMMA NothingScheduled ==
  ASSUME TypeOK, events # <<>>, Schedule(<<>>), Alone(events)
  PROVE  /\ Alone(events')
         /\ \A e \in Contents(events') : e \in Contents(events) /\ ~ Clash(e, Head(events))
<1>1. PICK t : t = Tail(events)
  OBVIOUS
<1>2. /\ Queue(t) /\ Contents(t) \subseteq Contents(events)
      /\ Alone(t) /\ ClashFree(t, {Head(events)})
  BY <1>1, TailKeeps DEF TypeOK, UtTypeOK, Timely
<1>3. PICK none : none = <<>>
  OBVIOUS
<1>4. none \in Seq(Events) /\ Contents(none) = {} /\ Alone(none) /\ ClashFree(t, Contents(none))
  BY <1>3, FewEvents DEF ClashFree
<1>5. events' = With(t, none)
  BY <1>1, <1>3 DEF Schedule
<1>6. Alone(events') /\ Contents(events') = Contents(t)
  <2>1. PICK r : r = With(t, none)
    OBVIOUS
  <2>2. (Alone(t) => Alone(r)) /\ Contents(r) = Contents(t) \cup Contents(none)
    BY <1>2, <1>4, <2>1, WithKeeps
  <2> QED BY <1>2, <1>4, <1>5, <2>1, <2>2
<1>7. \A e \in Contents(t) : ~ Clash(e, Head(events))
  BY <1>2 DEF ClashFree, Contents
<1> QED BY <1>2, <1>6, <1>7

\* The transmitter is idle when a burst is due.
LEMMA BurstKeepsAlone ==
  ASSUME TypeOK, CrdsaInv, DoTransmit \/ TransmitPackets
  PROVE  CrdsaInv'
<1>1. PICK h \in Contents(events) :
        /\ h = Head(events) /\ h.left = 0 /\ h.kind \in Bursts
        /\ DoTransmit => h.kind = "DoTransmit"
        /\ TransmitPackets => h.kind = "TransmitPackets"
  BY HandlesFacts DEF DoTransmit, TransmitPackets, Bursts, TypeOK
<1>2. /\ events # <<>> /\ Schedule(<<>>) /\ Timely(events)
      /\ UNCHANGED <<now, knownSlots, m_usedRandomAccessSlots>>
      /\ now \in Nat /\ N \in Nat
  BY HandlesFacts, ConstantFacts DEF DoTransmit, TransmitPackets, TypeOK, UtTypeOK
<1>3. /\ Alone(events')
      /\ \A e \in Contents(events') : e \in Contents(events) /\ ~ Clash(e, h)
  BY <1>1, <1>2, NothingScheduled DEF CrdsaInv
<1>4. busy = 0
  <2>1. busy \in Nat /\ busy <= 1 /\ ~ (busy = 1)
    BY <1>1 DEF CrdsaInv, TypeOK, UtTypeOK
  <2> QED BY <2>1
<1>5. busy' \in {0, 1} /\ fatal' = None
  <2>1. fatal = None
    BY HandlesFacts DEF DoTransmit, TransmitPackets, TypeOK
  <2> QED BY <1>4, <2>1 DEF DoTransmit, TransmitPackets, SendPacket, StartTx, NoTx
<1>6. \A e \in Contents(events') : e.kind \in Bursts => e.left > 0
  <2> TAKE e \in Contents(events')
  <2> HAVE e.kind \in Bursts
  <2>1. e.left # 0
    BY <1>1, <1>3 DEF Clash
  <2>2. e.left \in Nat
    BY <1>2, <1>3, ContentFacts
  <2> QED BY <2>1, <2>2
<1>7. FrameStartDue' => FrameStartDue
  BY <1>3 DEF FrameStartDue
<1>8. FrameStartDue' => now' \in knownSlots'
  <2> SUFFICES ASSUME FrameStartDue PROVE now \in knownSlots
    BY <1>2, <1>7
  <2>1. h.kind = "DoTransmit" /\ now + h.left \in knownSlots
    BY <1>1 DEF CrdsaInv, Scheduled, Bursts
  <2> QED BY <1>1, <1>2, <2>1
<1>9. \A e \in Contents(events') : Scheduled(e)'
  BY <1>2, <1>3, <1>7 DEF CrdsaInv, Scheduled
<1>10. (OneTransmissionAtATime)'
  BY <1>5 DEF OneTransmissionAtATime, None
<1> QED BY <1>2, <1>3, <1>5, <1>6, <1>7, <1>8, <1>9, <1>10 DEF CrdsaInv

\* At the start of a superframe no burst is left but those of dedicated slots,
\* and replicas are drawn only if there are none.
LEMMA FrameStartKeepsAlone ==
  ASSUME TypeOK, CrdsaInv, UsesCrdsa, NEW opportunities \in Opportunities, DoFrameStart(opportunities)
  PROVE  CrdsaInv'
<1>1. PICK h \in Contents(events) : h = Head(events) /\ h.left = 0 /\ h.kind = "DoFrameStart"
  BY HandlesFacts DEF DoFrameStart, TypeOK
<1>2. /\ events # <<>> /\ Timely(events) /\ UtTypeOK
      /\ UNCHANGED <<now, busy, knownSlots>>
      /\ now \in 0 .. N - 1 /\ N \in Nat \ {0} /\ RaSlots \subseteq 0 .. N - 1
      /\ busy \in Nat /\ knownSlots \subseteq Nat
  BY HandlesFacts, ConstantFacts DEF DoFrameStart, TypeOK, UtTypeOK
<1>3. FrameStartDue
  BY <1>1 DEF FrameStartDue
<1>4. now = 0
  <2>1. h.kind = "DoFrameStart" /\ ((h.left = 0 /\ now = 0) \/ h.left = N - now)
    BY <1>1 DEF CrdsaInv, Scheduled
  <2> QED BY <1>1, <1>2, <2>1
<1>5. m_usedRandomAccessSlots = {} /\ (busy = 0 \/ now \in knownSlots)
  BY <1>3 DEF CrdsaInv
<1>6. ASSUME opportunities # <<>> PROVE knownSlots = {}
  <2>1. DoCrdsa(m_raChannel, HasScheduledTimeSlots, buffered = 0, opportunities)
    BY DEF DoFrameStart
  <2>2. ~ HasScheduledTimeSlots
    BY <1>6, <2>1 DEF DoCrdsa, CrdsaAborts
  <2> QED BY <1>2, <1>4, <2>2 DEF HasScheduledTimeSlots
<1>7. PICK t : t = Tail(events)
  OBVIOUS
<1>8. /\ Queue(t) /\ Contents(t) \subseteq Contents(events)
      /\ Alone(t) /\ ClashFree(t, {h})
  BY <1>1, <1>2, <1>7, TailKeeps DEF CrdsaInv, Timely
<1>9. \A e \in Contents(t) : e.kind = "DoTransmit" /\ e.left \in Nat /\ now + e.left \in knownSlots
  <2> TAKE e \in Contents(t)
  <2>1. e \in Contents(events) /\ ~ Clash(e, h)
    BY <1>8 DEF ClashFree, Contents
  <2>2. e.kind # "DoFrameStart"
    BY <1>1, <2>1 DEF Clash
  <2>3. Scheduled(e)
    BY <2>1 DEF CrdsaInv
  <2>4. e.kind = "DoTransmit" /\ now + e.left \in knownSlots
    BY <1>3, <2>2, <2>3 DEF Scheduled
  <2>5. e.left \in Nat
    BY <1>2, <2>1, ContentFacts
  <2> QED BY <2>4, <2>5
<1>10. PICK replicas, new : /\ replicas = Replicas(opportunities)
                            /\ new = Append(replicas, Event("DoFrameStart", N))
  OBVIOUS
<1>11. /\ \A e \in Contents(replicas) : e.kind = "TransmitPackets" /\ e.left \in RaSlots
       /\ opportunities = <<>> => Contents(replicas) = {}
  BY <1>10, ReplicaSlots, FewEvents
<1>12. PICK f \in Events : f = Event("DoFrameStart", N) /\ f.kind = "DoFrameStart" /\ f.left = N
  BY <1>2, EventFacts DEF Kinds
<1>13. new \in Seq(Events) /\ Contents(new) = Contents(replicas) \cup {f} /\ Alone(new)
  <2>1. Schedule(Append(Replicas(opportunities), Event("DoFrameStart", N)))
    BY DEF DoFrameStart
  <2> QED BY <1>2, <1>10, <1>12, <2>1, FrameIsScheduled
<1>14. ClashFree(t, Contents(new))
  <2> SUFFICES ASSUME NEW i \in DOMAIN t, NEW x \in Contents(new), Clash(t[i], x) PROVE FALSE
    BY DEF ClashFree
  <2>1. PICK e \in Contents(t) : e = t[i]
    BY DEF Contents
  <2>2. e.kind = "DoTransmit" /\ now + e.left \in knownSlots
    BY <1>9
  <2>3. x.kind # "DoFrameStart" /\ x.kind \in Bursts
    BY <2>1, <2>2 DEF Clash, Bursts
  <2>4. x \in Contents(replicas)
    BY <1>12, <1>13, <2>3
  <2> QED BY <1>6, <1>11, <2>2, <2>4
<1>15. /\ Alone(events')
       /\ Contents(events') = Contents(t) \cup Contents(replicas) \cup {f}
  <2>1. PICK r : r = With(t, new)
    OBVIOUS
  <2>2. Alone(r) /\ Contents(r) = Contents(t) \cup Contents(new)
    BY <1>8, <1>13, <1>14, <2>1, WithKeeps
  <2>3. events' = r
    BY <1>7, <1>10, <2>1 DEF DoFrameStart, Schedule
  <2> QED BY <1>13, <2>2, <2>3
<1>16. ~ FrameStartDue'
  BY <1>2, <1>9, <1>11, <1>12, <1>15 DEF FrameStartDue
<1>17. \A e \in Contents(events') : Scheduled(e)'
  <2> TAKE e \in Contents(events')
  <2>1. CASE e \in Contents(t)
    BY <1>2, <1>9, <2>1 DEF Scheduled
  <2>2. CASE e \in Contents(replicas)
    <3>1. e.kind = "TransmitPackets" /\ e.left \in 0 .. N - 1
      BY <1>2, <1>11, <2>2
    <3>2. now' + e.left < N
      BY <1>2, <1>4, <3>1
    <3> QED BY <1>16, <3>1, <3>2 DEF Scheduled
  <2>3. CASE e = f
    BY <1>2, <1>4, <1>12, <2>3 DEF Scheduled
  <2> QED BY <1>15, <2>1, <2>2, <2>3
<1>18. busy' = 1 => \A e \in Contents(events') : e.kind \in Bursts => e.left > 0
  <2> SUFFICES ASSUME busy = 1, NEW e \in Contents(events'), e.kind \in Bursts PROVE e.left > 0
    BY <1>2
  <2>1. Contents(replicas) = {}
    BY <1>5, <1>6, <1>11
  <2>2. e \in Contents(t)
    BY <1>12, <1>15, <2>1 DEF Bursts
  <2>3. e \in Contents(events)
    BY <1>8, <2>2
  <2> QED BY <2>3 DEF CrdsaInv
<1>19. m_usedRandomAccessSlots' \subseteq 0 .. N - 1 /\ fatal' = None
  <2>1. RaSlotsOf(opportunities) \subseteq RaSlots
    BY OpportunityFacts
  <2>2. m_usedRandomAccessSlots' = RaSlotsOf(opportunities) /\ fatal' = None
    BY <1>5 DEF DoFrameStart, RaSlotsOf
  <2> QED BY <1>2, <2>1, <2>2
<1>20. (OneTransmissionAtATime)'
  BY <1>19 DEF OneTransmissionAtATime, None
<1> QED BY <1>2, <1>15, <1>16, <1>17, <1>18, <1>19, <1>20 DEF CrdsaInv

\* Time passes when no burst is due; slots and events move together into the
\* next superframe, and no replica is left by then.
LEMMA TickKeepsAlone ==
  ASSUME TypeOK, CrdsaInv, Tick
  PROVE  CrdsaInv'
<1>1. /\ now \in 0 .. N - 1 /\ N \in Nat \ {0} /\ Timely(events) /\ busy \in Nat
      /\ knownSlots \subseteq Nat /\ fatal = None /\ fatal' = fatal
  BY ConstantFacts DEF TypeOK, UtTypeOK, Tick
<1>2. /\ Alone(events')
      /\ \A e \in Contents(events') : \E f \in Contents(events) :
           f.left \in Nat \ {0} /\ e.kind = f.kind /\ e.left = f.left - 1
  <2>1. PICK r : r = Sooner(events)
    OBVIOUS
  <2>2. ~ (events # <<>> /\ Head(events).left = 0) /\ events' = r
    BY <2>1 DEF Tick, Due, Sooner
  <2>3. /\ Alone(events) => Alone(r)
        /\ \A e \in Contents(r) : \E f \in Contents(events) :
             f.left \in Nat \ {0} /\ e.kind = f.kind /\ e.left = f.left - 1
    BY <1>1, <2>1, <2>2, TimePasses
  <2> QED BY <2>2, <2>3 DEF CrdsaInv
<1>3. busy' = 0
  BY <1>1 DEF Tick, Less, CrdsaInv
<1>4. (OneTransmissionAtATime)'
  BY <1>1 DEF OneTransmissionAtATime, None
<1>5. CASE now # N - 1
  <2>1. /\ now' = now + 1 /\ knownSlots' = knownSlots
        /\ m_usedRandomAccessSlots' = m_usedRandomAccessSlots
    <3>1. (now + 1) % N = now + 1
      BY <1>1, <1>5, ModSmall
    <3> QED BY <1>5, <3>1 DEF Tick, Shifted
  <2>2. ASSUME NEW e \in Contents(events')
        PROVE  /\ e.kind = "DoFrameStart" => e.left = N - now' /\ e.left > 0
               /\ e.kind = "DoTransmit" => now' + e.left \in knownSlots'
               /\ e.kind = "TransmitPackets" => now' + e.left < N
               /\ e.kind \in {"DoFrameStart", "DoTransmit", "TransmitPackets"}
    <3>1. PICK f \in Contents(events) : f.left \in Nat \ {0} /\ e.kind = f.kind /\ e.left = f.left - 1
      BY <1>2
    <3>2. Scheduled(f) /\ now' + e.left = now + f.left
      BY <1>1, <2>1, <3>1 DEF CrdsaInv
    <3> QED BY <1>1, <1>5, <2>1, <3>1, <3>2 DEF Scheduled
  <2>3. ~ FrameStartDue'
    BY <2>2 DEF FrameStartDue
  <2>4. \A e \in Contents(events') : Scheduled(e)'
    BY <2>2, <2>3 DEF Scheduled
  <2> QED BY <1>2, <1>3, <1>4, <2>1, <2>3, <2>4 DEF CrdsaInv
<1>6. CASE now = N - 1
  <2>1. now' = 0 /\ knownSlots' = {i - N : i \in {j \in knownSlots : j >= N}}
    <3>1. N % N = 0 /\ now + 1 = N
      BY <1>1, <1>6
    <3> QED BY <1>6, <3>1 DEF Tick, Shifted
  <2>2. m_usedRandomAccessSlots' = {}
    <3>1. {j \in m_usedRandomAccessSlots : j >= N} = {}
      <4>1. \A j \in 0 .. N - 1 : ~ (j >= N)
        BY <1>1
      <4> QED BY <4>1 DEF CrdsaInv
    <3> QED BY <1>6, <3>1 DEF Tick, Shifted
  <2>3. ASSUME NEW e \in Contents(events') PROVE Scheduled(e)'
    <3>1. PICK f \in Contents(events) : f.left \in Nat \ {0} /\ e.kind = f.kind /\ e.left = f.left - 1
      BY <1>2
    <3>2. Scheduled(f)
      BY DEF CrdsaInv
    <3>3. CASE f.kind = "DoFrameStart"
      <4>1. f.left = N - now
        BY <3>1, <3>2, <3>3 DEF Scheduled
      <4>2. e.left = 0
        BY <1>1, <1>6, <3>1, <4>1
      <4> QED BY <2>1, <3>1, <3>3, <4>2 DEF Scheduled
    <3>4. CASE f.kind = "DoTransmit"
      <4>1. now + f.left \in knownSlots
        BY <3>2, <3>4 DEF Scheduled
      <4>2. now + f.left >= N /\ now' + e.left = (now + f.left) - N
        BY <1>1, <1>6, <2>1, <3>1
      <4>3. now' + e.left \in knownSlots'
        BY <2>1, <4>1, <4>2
      <4> QED BY <3>1, <3>4, <4>3 DEF Scheduled
    <3>5. CASE f.kind = "TransmitPackets"
      BY <1>1, <1>6, <3>1, <3>2, <3>5 DEF Scheduled
    <3> QED BY <3>2, <3>3, <3>4, <3>5 DEF Scheduled
  <2>4. m_usedRandomAccessSlots' \subseteq 0 .. N - 1
    BY <2>2
  <2> QED BY <1>2, <1>3, <1>4, <2>2, <2>3, <2>4 DEF CrdsaInv
<1> QED BY <1>5, <1>6

LEMMA CrdsaStep ==
  ASSUME MaxTbtps <= 1
  PROVE  TypeOK /\ CrdsaOK /\ [Next]_vars => CrdsaOK'
<1> SUFFICES ASSUME TypeOK, CrdsaOK, [Next]_vars PROVE CrdsaOK'
  OBVIOUS
<1>1. UNCHANGED m_randomAccessModel
  BY DEF Next, vars, accessVars, ReceiveTbtp, DoTransmit, DoFrameStart, TransmitPackets, Enque,
     ScheduleSlottedAlohaTransmission, DoSlottedAlohaTransmit, ScheduleEssaTransmission,
     DoEssaTransmit, DoRandomAccess, LoadControl, ReceiveRaMessage, Tick, DoCrdsa, SetBackoff,
     BackoffTimePasses
<1> SUFFICES ASSUME UsesCrdsa PROVE CrdsaInv'
  BY <1>1 DEF CrdsaOK, UsesCrdsa
<1>2. CrdsaInv /\ UtTypeOK
  BY DEF CrdsaOK, TypeOK
<1>3. ASSUME UNCHANGED <<now, events, busy, knownSlots, m_usedRandomAccessSlots>>, fatal' \in {fatal, "wrong model"}
      PROVE  CrdsaInv'
  <2>1. FrameStartDue' = FrameStartDue
    BY <1>3 DEF FrameStartDue
  <2>2. \A e : Scheduled(e) => Scheduled(e)'
    BY <1>3, <2>1 DEF Scheduled
  <2>3. (OneTransmissionAtATime)'
    BY <1>2, <1>3 DEF CrdsaInv, OneTransmissionAtATime
  <2> QED BY <1>2, <1>3, <2>1, <2>2, <2>3 DEF CrdsaInv
<1>4. CASE UNCHANGED vars
  BY <1>3, <1>4 DEF vars, utVars
<1>5. CASE \E d \in Superframes \ {0} : \E slots \in DaSlots(d) : ReceiveTbtp(d, slots)
  BY <1>2, <1>5, TbtpKeepsAlone
<1>6. CASE \E opportunities \in Opportunities : DoFrameStart(opportunities)
  BY <1>2, <1>6, FrameStartKeepsAlone
<1>7. CASE DoTransmit \/ TransmitPackets
  BY <1>2, <1>7, BurstKeepsAlone
<1>8. CASE Enque
  BY <1>3, <1>8, CrdsaOnly DEF Enque
<1>9. CASE \E c \in Channel, isLow \in BOOLEAN : LoadControl(c, isLow)
  BY <1>3, <1>9 DEF LoadControl, utVars
<1>10. CASE ReceiveRaMessage
  BY <1>3, <1>10 DEF ReceiveRaMessage
<1>11. CASE Tick
  BY <1>2, <1>11, TickKeepsAlone
<1>12. ASSUME NEW kind \in Kinds, Handles(kind)
       PROVE  kind \in {"DoFrameStart", "DoTransmit", "TransmitPackets"}
  <2>1. Head(events) \in Contents(events) /\ Head(events).kind = kind
    BY <1>2, <1>12, HandlesFacts
  <2> QED BY <1>2, <2>1 DEF CrdsaInv, Scheduled
<1>13. ~ \/ ScheduleSlottedAlohaTransmission \/ DoSlottedAlohaTransmit
         \/ ScheduleEssaTransmission \/ DoEssaTransmit \/ DoRandomAccess
  BY <1>12 DEF ScheduleSlottedAlohaTransmission, DoSlottedAlohaTransmit, ScheduleEssaTransmission,
     DoEssaTransmit, DoRandomAccess, Kinds
<1> QED BY <1>4, <1>5, <1>6, <1>7, <1>8, <1>9, <1>10, <1>11, <1>13 DEF Next

\* With CRDSA the UT never transmits while it does and uses no slot twice, for
\* every choice of slots, replicas and TBTPs, if it gets the slots of a superframe
\* in one TBTP: the container keeps the first TBTP only.
THEOREM CrdsaCorrect ==
  ASSUME MaxTbtps <= 1
  PROVE  Spec => []CrdsaTransmitsAlone
<1>1. Init => CrdsaOK
  BY InitCrdsa DEF CrdsaOK
<1>2. TypeOK /\ CrdsaOK /\ [Next]_vars => CrdsaOK'
  BY CrdsaStep
<1>3. CrdsaOK => CrdsaTransmitsAlone
  BY DEF CrdsaOK, CrdsaInv, CrdsaTransmitsAlone
<1> QED BY <1>1, <1>2, <1>3, AccessTypeCorrect, PTL DEF Spec
=============================================================================
