---------------------------- MODULE SatArqProofs ----------------------------
(***************************************************************************)
(* The two halves of an ARQ connection, each by itself and then together.  *)
(*                                                                         *)
(* The transmitter's bookkeeping is consistent for every window that a     *)
(* uint8_t can hold.  All rests on the window being an interval shorter    *)
(* than the number space: then a one-byte number names one PDU of the last *)
(* cycle, Release finds it, and the map keys of the two buffers never      *)
(* collide.                                                                *)
(*                                                                         *)
(* The receiver's invariants hold for every window, every number space and *)
(* every sequence of arrivals.  The step to show is that the loop of       *)
(* ReassembleAndReceive stops at the first gap: the numbers it pops are    *)
(* downward closed, so they form an interval, and what is left is one too. *)
(***************************************************************************)
EXTENDS SatArqLink, SatFacts

(***************************************************************************)
(* The transmitter.                                                        *)
(***************************************************************************)

Inv ==
  /\ SenderTypeOK
  /\ WindowIsContiguous
  /\ NumbersMatchContexts
  /\ TimersMatchContexts
  /\ RetransmissionsBounded

-----------------------------------------------------------------------------
\* Release takes the one-byte number of a PDU of the last cycle back to it.
LEMMA ReleasedSnExact ==
  ASSUME m_currSeqNo \in 0 .. U32 - 1, NEW p \in LastCycle
  PROVE  ReleasedSn(p % MaxSn) = p
<1> DEFINE M == MaxSn
           f == m_currSeqNo \div M
           s == m_currSeqNo % M
           q == p \div M
           r == p % M
<1>1. /\ M \in Nat \ {0} /\ U32 \in Nat \ {0}
      /\ p \in Nat /\ p <= m_currSeqNo /\ m_currSeqNo - p < M
  BY NumbersAssumption DEF LastCycle
<1>2. f \in Int /\ q \in Int /\ s \in 0 .. M - 1 /\ r \in 0 .. M - 1
  BY <1>1, DivModType
<1>3. m_currSeqNo = f * M + s /\ p = q * M + r
  BY <1>1, DivModSplit
<1>4. /\ f * M \in Int /\ q * M \in Int /\ (f - 1) * M \in Int /\ f - 1 \in Int
      /\ (f - 1) * M = f * M - M
  BY <1>1, <1>2, TimesType
<1>5. /\ f < q => f * M + M <= q * M
      /\ q < f - 1 => q * M + M <= (f - 1) * M
  BY <1>1, <1>2, <1>4, TimesMonotonic
<1>6. p % U32 = p
  BY <1>1, ModSmall
<1> HIDE DEF f, s, q, r
<1>7. CASE r <= s
  <2>1. q = f
    <3> DEFINE x == f * M
               y == q * M
               z == (f - 1) * M
    <3>1. /\ x \in Int /\ y \in Int /\ z = x - M /\ m_currSeqNo = x + s /\ p = y + r
          /\ (f < q => x + M <= y) /\ (q < f - 1 => y + M <= z)
          /\ (q = f - 1 => y = z)
      BY <1>3, <1>4, <1>5
    <3> HIDE DEF x, y, z
    <3> QED BY <1>1, <1>2, <1>7, <3>1
  <2>2. ReleasedSn(p % MaxSn) = (f * M + r) % U32
    BY <1>7 DEF ReleasedSn, f, s, r
  <2> QED BY <1>3, <1>6, <2>1, <2>2
<1>8. CASE r > s
  <2>1. q = f - 1
    <3> DEFINE x == f * M
               y == q * M
               z == (f - 1) * M
    <3>1. /\ x \in Int /\ y \in Int /\ z = x - M /\ m_currSeqNo = x + s /\ p = y + r
          /\ (f < q => x + M <= y) /\ (q < f - 1 => y + M <= z)
          /\ (q = f => y = x)
      BY <1>3, <1>4, <1>5
    <3> HIDE DEF x, y, z
    <3> QED BY <1>1, <1>2, <1>8, <3>1
  <2>2. ReleasedSn(p % MaxSn) = ((f - 1) * M + r) % U32
    <3>1. ~(p % MaxSn <= m_currSeqNo % MaxSn)
      BY <1>2, <1>8 DEF s, r
    <3> QED BY <3>1 DEF ReleasedSn, f, r
  <2> QED BY <1>3, <1>6, <2>1, <2>2
<1> QED BY <1>2, <1>7, <1>8

\* PDUs of the window have different one-byte numbers.
LEMMA WindowDistinct ==
  ASSUME NEW p \in LastCycle, NEW q \in LastCycle, m_currSeqNo \in Int, p % MaxSn = q % MaxSn
  PROVE  p = q
<1>1. p \in Nat /\ q \in Nat /\ p - q < MaxSn /\ q - p < MaxSn /\ MaxSn \in Nat \ {0}
  BY NumbersAssumption DEF LastCycle
<1>2. ~(p < q) /\ ~(q < p)
  BY <1>1, ModDistinct
<1> QED BY <1>1, <1>2

\* The numbers of the window are among those of the last cycle.
LEMMA WindowInLastCycle ==
  ASSUME SenderTypeOK, WindowIsContiguous
  PROVE  /\ DOMAIN m_seqNoMap \subseteq LastCycle
         /\ IsFiniteSet(DOMAIN m_seqNoMap)
         /\ SeqNoAvailable => \A p \in DOMAIN m_seqNoMap : m_currSeqNo + 1 - p < MaxSn
<1>1. PICK lo \in 0 .. m_currSeqNo + 1 : DOMAIN m_seqNoMap = lo .. m_currSeqNo
  BY DEF WindowIsContiguous
<1>2. m_currSeqNo \in Int /\ WindowSize \in Nat /\ MaxSn \in Nat /\ WindowSize <= MaxSn
  BY NumbersAssumption DEF SenderTypeOK
<1>3. /\ IsFiniteSet(lo .. m_currSeqNo)
      /\ Cardinality(lo .. m_currSeqNo) = IF lo > m_currSeqNo THEN 0 ELSE m_currSeqNo - lo + 1
  BY <1>2, FS_Interval
<1>4. lo <= m_currSeqNo => m_currSeqNo - lo + 1 <= WindowSize
  BY <1>1, <1>2, <1>3 DEF WindowIsContiguous
<1>5. SeqNoAvailable /\ lo <= m_currSeqNo => m_currSeqNo - lo + 1 < WindowSize
  BY <1>1, <1>2, <1>3 DEF SeqNoAvailable
<1>6. DOMAIN m_seqNoMap \subseteq LastCycle
  BY <1>1, <1>2, <1>4 DEF LastCycle
<1>7. SeqNoAvailable => \A p \in DOMAIN m_seqNoMap : m_currSeqNo + 1 - p < MaxSn
  BY <1>1, <1>2, <1>5
<1> QED BY <1>1, <1>3, <1>6, <1>7

\* Releasing a number of the last cycle keeps the window contiguous, and
\* takes exactly that number from the unreleased ones.
LEMMA ReleaseKeepsWindow ==
  ASSUME SenderTypeOK, WindowIsContiguous, NEW p \in LastCycle, Release(p % MaxSn)
  PROVE  /\ m_currSeqNo' = m_currSeqNo
         /\ IsMap(m_seqNoMap', 0 .. m_currSeqNo, BOOLEAN)
         /\ WindowIsContiguous'
         /\ Unreleased' = Unreleased \ {p}
<1> DEFINE map == MapAssign(m_seqNoMap, p, TRUE)
           kept == {k \in DOMAIN map : \E j \in DOMAIN map : j <= k /\ ~map[j]}
<1>1. p \in Nat /\ p <= m_currSeqNo /\ m_currSeqNo \in 0 .. U32 - 1
  BY NumbersAssumption DEF LastCycle, SenderTypeOK
<1>2. m_seqNoMap' = [k \in kept |-> map[k]] /\ m_currSeqNo' = m_currSeqNo
  BY <1>1, ReleasedSnExact DEF Release, SeqNoCleanUp
<1>3. PICK lo \in 0 .. m_currSeqNo + 1 :
        /\ DOMAIN m_seqNoMap = lo .. m_currSeqNo
        /\ lo <= m_currSeqNo => ~m_seqNoMap[lo]
  BY DEF WindowIsContiguous
<1>4. /\ DOMAIN map = (lo .. m_currSeqNo) \cup {p}
      /\ map[p] = TRUE
      /\ \A k \in lo .. m_currSeqNo : k # p => map[k] = m_seqNoMap[k]
  BY <1>3 DEF MapAssign
<1>5. \A k \in DOMAIN m_seqNoMap : m_seqNoMap[k] \in BOOLEAN
  BY DEF SenderTypeOK, IsMap
<1> HIDE DEF map
<1>6. kept \subseteq lo .. m_currSeqNo
  <2>1. ASSUME NEW k \in kept PROVE k >= lo
    <3>1. PICK j \in DOMAIN map : j <= k /\ ~map[j]
      OBVIOUS
    <3>2. j \in lo .. m_currSeqNo
      BY <1>4, <3>1
    <3> QED BY <1>1, <1>3, <1>4, <3>1, <3>2
  <2> QED BY <1>1, <1>3, <1>4, <2>1
<1>7. \A k \in kept : k <= m_currSeqNo /\ k .. m_currSeqNo \subseteq kept
  <2>1. ASSUME NEW k \in kept, NEW i \in k .. m_currSeqNo PROVE i \in kept
    <3>1. PICK j \in DOMAIN map : j <= k /\ ~map[j]
      OBVIOUS
    <3>2. i \in lo .. m_currSeqNo /\ j <= i
      BY <1>1, <1>3, <1>4, <1>6, <3>1
    <3> QED BY <1>4, <3>1, <3>2
  <2> QED BY <1>1, <1>3, <1>6, <2>1
<1>8. IsFiniteSet(DOMAIN m_seqNoMap) /\ kept \subseteq DOMAIN m_seqNoMap
  BY <1>3, <1>6, WindowInLastCycle
<1>9. IsFiniteSet(kept) /\ Cardinality(kept) <= Cardinality(DOMAIN m_seqNoMap)
      /\ Cardinality(kept) \in Nat /\ Cardinality(DOMAIN m_seqNoMap) \in Nat
  <2> HIDE DEF kept
  <2> QED BY <1>8, FS_Subset, FS_CardinalityType
<1> DEFINE low == m_currSeqNo - Cardinality(kept) + 1
<1>10. kept = low .. m_currSeqNo
  <2>1. kept \in SUBSET Nat
    BY <1>3, <1>6
  <2> HIDE DEF kept
  <2> QED BY <1>1, <1>7, <1>9, <2>1, UpClosedInterval
<1>11. low \in 0 .. m_currSeqNo + 1
  <2>1. low \in Int /\ low <= m_currSeqNo + 1
    <3> HIDE DEF kept
    <3> QED BY <1>1, <1>9
  <2>2. low <= m_currSeqNo => low >= lo
    <3> HIDE DEF kept, low
    <3> QED BY <1>1, <1>3, <1>6, <1>10, <2>1
  <2> HIDE DEF low
  <2> QED BY <1>1, <1>3, <2>1, <2>2
<1>12. low <= m_currSeqNo => ~map[low]
  <2> SUFFICES ASSUME low <= m_currSeqNo PROVE ~map[low]
    OBVIOUS
  <2>1. low \in kept
    <3> HIDE DEF kept, low
    <3> QED BY <1>1, <1>10, <1>11
  <2> HIDE DEF low
  <2>2. PICK j \in DOMAIN map : j <= low /\ ~map[j]
    BY <2>1
  <2>3. j \in kept
    <3>1. j \in lo .. m_currSeqNo
      BY <1>4, <2>2
    <3> QED BY <1>3, <2>2, <3>1
  <2>4. j = low
    <3> HIDE DEF kept
    <3> QED BY <1>10, <1>11, <2>2, <2>3
  <2> QED BY <2>2, <2>4
<1> HIDE DEF low
<1>13. DOMAIN m_seqNoMap' = kept /\ \A k \in kept : m_seqNoMap'[k] = map[k]
  BY <1>2
<1>14. WindowIsContiguous'
  <2>1. DOMAIN m_seqNoMap' = low .. m_currSeqNo'
    BY <1>2, <1>10, <1>13
  <2>2. low <= m_currSeqNo' => ~m_seqNoMap'[low]
    <3>1. low <= m_currSeqNo => low \in kept
      <4> HIDE DEF kept
      <4> QED BY <1>1, <1>10, <1>11
    <3> QED BY <1>2, <1>12, <1>13, <3>1
  <2>3. Cardinality(DOMAIN m_seqNoMap') <= WindowSize
    <3>1. Cardinality(DOMAIN m_seqNoMap) <= WindowSize
      BY DEF WindowIsContiguous
    <3> HIDE DEF kept
    <3> QED BY <1>9, <1>13, <3>1, NumbersAssumption
  <2>4. low \in 0 .. m_currSeqNo' + 1
    BY <1>2, <1>11
  <2> QED BY <2>1, <2>2, <2>3, <2>4 DEF WindowIsContiguous
<1>15. IsMap(m_seqNoMap', 0 .. m_currSeqNo, BOOLEAN)
  <2>1. \A k \in kept : k \in 0 .. m_currSeqNo /\ map[k] \in BOOLEAN
    <3>1. \A k \in kept : k \in 0 .. m_currSeqNo /\ k \in lo .. m_currSeqNo
      BY <1>1, <1>3, <1>6
    <3>2. \A k \in lo .. m_currSeqNo : map[k] \in BOOLEAN
      <4>1. TRUE \in BOOLEAN
        OBVIOUS
      <4> QED BY <1>3, <1>4, <1>5, <4>1, Zenon
    <3> QED BY <3>1, <3>2
  <2> HIDE DEF kept
  <2> QED BY <1>2, <2>1 DEF IsMap
<1>16. Unreleased' = Unreleased \ {p}
  <2>1. Unreleased' = {k \in kept : ~map[k]}
    BY <1>13 DEF Unreleased
  <2>2. ASSUME NEW k \in kept, ~map[k] PROVE k \in Unreleased /\ k # p
    BY <1>3, <1>4, <1>6, <2>2 DEF Unreleased
  <2>3. ASSUME NEW k \in Unreleased, k # p PROVE k \in kept /\ ~map[k]
    <3>1. k \in lo .. m_currSeqNo /\ ~map[k] /\ k \in DOMAIN map
      BY <1>3, <1>4, <2>3 DEF Unreleased
    <3>2. k <= k
      BY <1>3, <3>1
    <3> QED BY <3>1, <3>2
  <2> HIDE DEF kept
  <2> QED BY <2>1, <2>2, <2>3
<1> QED BY <1>2, <1>14, <1>15, <1>16
-----------------------------------------------------------------------------
\* What the invariant says of a context, wherever it is.
LEMMA ContextFacts ==
  ASSUME Inv
  PROVE  /\ \A s \in DOMAIN m_txedBuffer :
              /\ s \in SeqNo /\ m_txedBuffer[s] \in Context
              /\ m_txedBuffer[s].pdu % MaxSn = s
              /\ m_txedBuffer[s].pdu \in Unreleased /\ m_txedBuffer[s].pdu \in LastCycle
              /\ s \notin DOMAIN m_retxBuffer
         /\ \A s \in DOMAIN m_retxBuffer :
              /\ s \in SeqNo /\ m_retxBuffer[s] \in Context
              /\ m_retxBuffer[s].pdu % MaxSn = s
              /\ m_retxBuffer[s].pdu \in Unreleased /\ m_retxBuffer[s].pdu \in LastCycle
              /\ s \notin DOMAIN m_txedBuffer
         /\ m_currSeqNo \in Int
<1>1. Unreleased \subseteq LastCycle
  BY WindowInLastCycle DEF Inv, Unreleased
<1>2. /\ \A s \in DOMAIN m_txedBuffer : s \in SeqNo /\ m_txedBuffer[s] \in Context
      /\ \A s \in DOMAIN m_retxBuffer : s \in SeqNo /\ m_retxBuffer[s] \in Context
      /\ m_currSeqNo \in Int
  BY NumbersAssumption DEF Inv, SenderTypeOK, IsMap
<1>3. /\ \A s \in DOMAIN m_txedBuffer : m_txedBuffer[s].pdu \in Unreleased
      /\ \A s \in DOMAIN m_retxBuffer : m_retxBuffer[s].pdu \in Unreleased
  BY DEF Inv, NumbersMatchContexts, InFlight, BufferedIn
<1> QED BY <1>1, <1>2, <1>3 DEF Inv, NumbersMatchContexts

\* The parts of the invariant that only look at the variables that ACKs and
\* timers leave alone.
LEMMA SenderInitInv == SenderInit => Inv
<1> SUFFICES ASSUME SenderInit PROVE Inv
  OBVIOUS
<1>1. /\ m_currSeqNo = FirstSn - 1 /\ m_seqNoMap = EmptyMap
      /\ m_txedBuffer = EmptyMap /\ m_retxBuffer = EmptyMap
      /\ m_retxBufferSize = 0 /\ txQueueBytes = 0 /\ waitingTimers = {}
      /\ FirstSn \in 0 .. U32 - 1 /\ U32 \in Nat \ {0} /\ WindowSize \in Nat
  BY NumbersAssumption DEF SenderInit, SeqNoInit
<1>2. DOMAIN EmptyMap = {} /\ EmptyMap = [k \in DOMAIN EmptyMap |-> EmptyMap[k]]
  BY DEF EmptyMap
<1>3. SenderTypeOK
  BY <1>1, <1>2 DEF SenderTypeOK, IsMap
<1>4. WindowIsContiguous
  <2>1. DOMAIN m_seqNoMap = FirstSn .. m_currSeqNo
    BY <1>1, <1>2
  <2>2. Cardinality(DOMAIN m_seqNoMap) = 0
    BY <1>1, <1>2, FS_EmptySet
  <2> QED BY <1>1, <2>1, <2>2 DEF WindowIsContiguous
<1>5. NumbersMatchContexts /\ TimersMatchContexts /\ RetransmissionsBounded
  BY <1>1, <1>2 DEF NumbersMatchContexts, TimersMatchContexts, RetransmissionsBounded,
                    InFlight, BufferedIn, Unreleased
<1> QED BY <1>3, <1>4, <1>5 DEF Inv

\* CleanUp for a PDU of the last cycle: an ACK, early or late, or the end of
\* the retransmissions.
LEMMA CleanUpKeepsInv ==
  ASSUME Inv, NEW p \in LastCycle, CleanUp(p % MaxSn),
         waitingTimers' = waitingTimers \ DisposedTimers(p % MaxSn)
  PROVE  Inv'
<1> DEFINE n == p % MaxSn
<1>1. /\ m_currSeqNo' = m_currSeqNo /\ IsMap(m_seqNoMap', 0 .. m_currSeqNo, BOOLEAN)
      /\ WindowIsContiguous' /\ Unreleased' = Unreleased \ {p}
  BY ReleaseKeepsWindow DEF CleanUp, Inv
<1>2. /\ m_txedBuffer' = MapErase(m_txedBuffer, n)
      /\ m_retxBuffer' = MapErase(m_retxBuffer, n)
      /\ m_retxBufferSize' = m_retxBufferSize - RetxBytesOf(n)
      /\ txQueueBytes' = txQueueBytes
  BY DEF CleanUp
<1>3. /\ DOMAIN m_txedBuffer' = DOMAIN m_txedBuffer \ {n}
      /\ DOMAIN m_retxBuffer' = DOMAIN m_retxBuffer \ {n}
      /\ \A s \in DOMAIN m_txedBuffer' : m_txedBuffer'[s] = m_txedBuffer[s]
      /\ \A s \in DOMAIN m_retxBuffer' : m_retxBuffer'[s] = m_retxBuffer[s]
  BY <1>2 DEF MapErase
<1>4. /\ \A s \in DOMAIN m_txedBuffer : s = n <=> m_txedBuffer[s].pdu = p
      /\ \A s \in DOMAIN m_retxBuffer : s = n <=> m_retxBuffer[s].pdu = p
  BY ContextFacts, WindowDistinct
<1> HIDE DEF n
<1>5. SenderTypeOK'
  <2>1. RetxBytesOf(n) \in Int
    BY ContextFacts DEF RetxBytesOf, Context
  <2>2. IsMap(m_txedBuffer', SeqNo, Context) /\ IsMap(m_retxBuffer', SeqNo, Context)
    BY <1>2, <1>3, ContextFacts DEF IsMap, MapErase
  <2> QED BY <1>1, <1>2, <2>1, <2>2 DEF Inv, SenderTypeOK
<1>6. NumbersMatchContexts'
  <2>1. InFlight' = InFlight \ {p}
    BY <1>3, <1>4 DEF InFlight, BufferedIn
  <2> QED BY <1>1, <1>3, <2>1 DEF Inv, NumbersMatchContexts
<1>7. TimersMatchContexts'
  <2>1. waitingTimers' = waitingTimers \ DisposedTimers(n)
    BY DEF n
  <2>2. waitingTimers = {[seqNo |-> s, pdu |-> m_txedBuffer[s].pdu] : s \in DOMAIN m_txedBuffer}
    BY DEF Inv, TimersMatchContexts
  <2>3. DisposedTimers(n) = {[seqNo |-> s, pdu |-> m_txedBuffer[s].pdu] :
                               s \in DOMAIN m_txedBuffer \cap {n}}
    BY <2>2, ContextFacts DEF DisposedTimers
  <2> QED BY <1>3, <2>1, <2>2, <2>3 DEF TimersMatchContexts
<1>8. RetransmissionsBounded'
  BY <1>3 DEF Inv, RetransmissionsBounded
<1> QED BY <1>1, <1>5, <1>6, <1>7, <1>8 DEF Inv

LEMMA GiveUpKeepsInv ==
  ASSUME Inv, NEW timer \in waitingTimers, GiveUp(timer)
  PROVE  Inv'
<1>1. PICK s \in DOMAIN m_txedBuffer : timer = [seqNo |-> s, pdu |-> m_txedBuffer[s].pdu]
  BY DEF Inv, TimersMatchContexts
<1> DEFINE p == m_txedBuffer[s].pdu
<1>2. p \in LastCycle /\ timer.seqNo = p % MaxSn /\ timer.seqNo = s
  BY <1>1, ContextFacts
<1>3. timer \in DisposedTimers(s)
  BY <1>1 DEF DisposedTimers
<1>4. CleanUp(p % MaxSn) /\ waitingTimers' = waitingTimers \ DisposedTimers(p % MaxSn)
  BY <1>2, <1>3 DEF GiveUp
<1> QED BY <1>2, <1>4, CleanUpKeepsInv

\* The window, the queue and the counter are not touched by the steps that
\* move a context between the buffers.
LEMMA MoveToRetxBufferKeepsInv ==
  ASSUME Inv, NEW timer \in waitingTimers, MoveToRetxBuffer(timer)
  PROVE  Inv'
<1>1. PICK s \in DOMAIN m_txedBuffer : timer = [seqNo |-> s, pdu |-> m_txedBuffer[s].pdu]
  BY DEF Inv, TimersMatchContexts
<1> DEFINE c == m_txedBuffer[s]
<1>2. /\ timer.seqNo = s /\ RetransmissionsLeft(c)
      /\ m_txedBuffer' = MapErase(m_txedBuffer, s)
      /\ m_retxBufferSize' = m_retxBufferSize + c.size
      /\ m_retxBuffer' = MapInsert(m_retxBuffer, s, c)
      /\ waitingTimers' = waitingTimers \ {timer}
      /\ UNCHANGED <<m_seqNoMap, m_currSeqNo, txQueueBytes>>
  BY <1>1 DEF MoveToRetxBuffer
<1>3. c \in Context /\ s \in SeqNo /\ s \notin DOMAIN m_retxBuffer /\ c.pdu % MaxSn = s
  BY ContextFacts
<1> HIDE DEF c
<1>4. /\ DOMAIN m_txedBuffer' = DOMAIN m_txedBuffer \ {s}
      /\ DOMAIN m_retxBuffer' = DOMAIN m_retxBuffer \cup {s}
      /\ \A t \in DOMAIN m_txedBuffer' : m_txedBuffer'[t] = m_txedBuffer[t]
      /\ \A t \in DOMAIN m_retxBuffer : m_retxBuffer'[t] = m_retxBuffer[t]
      /\ m_retxBuffer'[s] = c /\ m_txedBuffer[s] = c
  BY <1>2, <1>3 DEF MapErase, MapInsert, c
<1>5. SenderTypeOK'
  <2>1. IsMap(m_txedBuffer', SeqNo, Context)
    BY <1>2, <1>4, ContextFacts DEF IsMap, MapErase
  <2>2. IsMap(m_retxBuffer', SeqNo, Context)
    <3>1. \A t \in DOMAIN m_retxBuffer' : t \in SeqNo /\ m_retxBuffer'[t] \in Context
      BY <1>3, <1>4, ContextFacts
    <3>2. m_retxBuffer' = [t \in DOMAIN m_retxBuffer' |-> m_retxBuffer'[t]]
      BY <1>2 DEF MapInsert
    <3> QED BY <3>1, <3>2 DEF IsMap
  <2>3. c.size \in Nat
    BY <1>3 DEF Context
  <2> QED BY <1>2, <2>1, <2>2, <2>3 DEF Inv, SenderTypeOK
<1>6. WindowIsContiguous'
  BY <1>2 DEF Inv, WindowIsContiguous
<1>7. NumbersMatchContexts'
  <2>1. InFlight' = InFlight /\ Unreleased' = Unreleased
    BY <1>2, <1>4 DEF InFlight, BufferedIn, Unreleased
  <2> QED BY <1>3, <1>4, <2>1, ContextFacts DEF Inv, NumbersMatchContexts
<1>8. TimersMatchContexts'
  <2>1. \A t \in DOMAIN m_txedBuffer : [seqNo |-> t, pdu |-> m_txedBuffer[t].pdu] = timer => t = s
    BY <1>1
  <2> QED BY <1>1, <1>2, <1>4, <2>1 DEF Inv, TimersMatchContexts
<1>9. RetransmissionsBounded'
  BY <1>2, <1>4 DEF Inv, RetransmissionsBounded, RetransmissionsLeft
<1> QED BY <1>5, <1>6, <1>7, <1>8, <1>9 DEF Inv

LEMMA RetransmitKeepsInv ==
  ASSUME Inv, NEW bytes, Retransmit(bytes)
  PROVE  Inv'
<1> DEFINE s == Begin(m_retxBuffer)
           old == m_retxBuffer[s]
           c == Retransmitted(old)
<1>1. s \in DOMAIN m_retxBuffer
  <2>1. DOMAIN m_retxBuffer # {}
    BY DEF Retransmit, Inv, SenderTypeOK, IsMap, EmptyMap
  <2>2. DOMAIN m_retxBuffer \in SUBSET (0 .. MaxSn - 1) /\ MaxSn - 1 \in Nat
    BY NumbersAssumption DEF Inv, SenderTypeOK, IsMap, SeqNo
  <2>3. \E x \in DOMAIN m_retxBuffer : \A y \in DOMAIN m_retxBuffer : x <= y
    BY <2>1, <2>2, LeastElement
  <2> QED BY <2>3 DEF Begin, Min
<1>2. /\ m_retxBuffer' = MapErase(m_retxBuffer, s)
      /\ m_retxBufferSize' = m_retxBufferSize - c.size
      /\ m_txedBuffer' = MapInsert(m_txedBuffer, s, c)
      /\ waitingTimers' = waitingTimers \cup {[seqNo |-> s, pdu |-> c.pdu]}
      /\ UNCHANGED <<m_seqNoMap, m_currSeqNo, txQueueBytes>>
  BY DEF Retransmit
<1>3. /\ old \in Context /\ s \in SeqNo /\ s \notin DOMAIN m_txedBuffer /\ old.pdu % MaxSn = s
      /\ old.m_retransmissionCount < MaxNoOfRetransmissions
  BY <1>1, ContextFacts DEF Inv, RetransmissionsBounded
<1>4. /\ c \in Context /\ c.pdu = old.pdu /\ c.size \in Nat
      /\ c.m_retransmissionCount = old.m_retransmissionCount + 1
  <2> HIDE DEF old
  <2> QED BY <1>3 DEF Retransmitted, Context
<1> HIDE DEF c, s
<1>5. /\ DOMAIN m_retxBuffer' = DOMAIN m_retxBuffer \ {s}
      /\ DOMAIN m_txedBuffer' = DOMAIN m_txedBuffer \cup {s}
      /\ \A t \in DOMAIN m_retxBuffer' : m_retxBuffer'[t] = m_retxBuffer[t]
      /\ \A t \in DOMAIN m_txedBuffer : m_txedBuffer'[t] = m_txedBuffer[t]
      /\ m_txedBuffer'[s] = c
  BY <1>2, <1>3 DEF MapErase, MapInsert
<1>6. SenderTypeOK'
  <2>1. IsMap(m_retxBuffer', SeqNo, Context)
    BY <1>2, <1>5, ContextFacts DEF IsMap, MapErase
  <2>2. IsMap(m_txedBuffer', SeqNo, Context)
    <3>1. \A t \in DOMAIN m_txedBuffer' : t \in SeqNo /\ m_txedBuffer'[t] \in Context
      BY <1>3, <1>4, <1>5, ContextFacts
    <3>2. m_txedBuffer' = [t \in DOMAIN m_txedBuffer' |-> m_txedBuffer'[t]]
      BY <1>2 DEF MapInsert
    <3> QED BY <3>1, <3>2 DEF IsMap
  <2>3. [seqNo |-> s, pdu |-> c.pdu] \in TimerEvent
    BY <1>3, <1>4 DEF TimerEvent, Context
  <2> QED BY <1>2, <1>4, <2>1, <2>2, <2>3 DEF Inv, SenderTypeOK
<1>7. WindowIsContiguous'
  BY <1>2 DEF Inv, WindowIsContiguous
<1>8. NumbersMatchContexts'
  <2>1. InFlight' = InFlight /\ Unreleased' = Unreleased
    BY <1>1, <1>2, <1>4, <1>5 DEF InFlight, BufferedIn, Unreleased
  <2> QED BY <1>3, <1>4, <1>5, <2>1, ContextFacts DEF Inv, NumbersMatchContexts
<1>9. TimersMatchContexts'
  BY <1>2, <1>3, <1>5 DEF Inv, TimersMatchContexts
<1>10. RetransmissionsBounded'
  <2>1. c.m_retransmissionCount <= MaxNoOfRetransmissions
    BY <1>3, <1>4, SenderAssumption DEF Context
  <2> QED BY <1>5, <2>1 DEF Inv, RetransmissionsBounded
<1> QED BY <1>6, <1>7, <1>8, <1>9, <1>10 DEF Inv

\* The window grows by the number handed out.
LEMMA NextNumberKeepsWindow ==
  ASSUME SenderTypeOK, WindowIsContiguous, SeqNoAvailable, NumbersLeft, NextSequenceNumber
  PROVE  /\ m_currSeqNo' \in -1 .. U32 - 1
         /\ IsMap(m_seqNoMap', 0 .. m_currSeqNo', BOOLEAN)
         /\ WindowIsContiguous'
         /\ Unreleased' = Unreleased \cup {m_currSeqNo + 1}
<1> DEFINE new == m_currSeqNo + 1
<1>1. /\ m_currSeqNo' = new /\ m_seqNoMap' = MapAssign(m_seqNoMap, new, FALSE)
      /\ m_currSeqNo \in -1 .. U32 - 1 /\ new \in Nat /\ new < U32 /\ U32 \in Nat
      /\ WindowSize \in Nat
  BY NumbersAssumption DEF NextSequenceNumber, SenderTypeOK, NumbersLeft
<1>0. new = m_currSeqNo + 1
  OBVIOUS
<1>2. PICK lo \in 0 .. new :
        /\ DOMAIN m_seqNoMap = lo .. m_currSeqNo
        /\ lo <= m_currSeqNo => ~m_seqNoMap[lo]
  BY DEF WindowIsContiguous
<1>3. /\ DOMAIN m_seqNoMap' = (lo .. m_currSeqNo) \cup {new}
      /\ m_seqNoMap'[new] = FALSE
      /\ \A k \in lo .. m_currSeqNo : m_seqNoMap'[k] = m_seqNoMap[k] /\ k # new
      /\ m_seqNoMap' = [k \in DOMAIN m_seqNoMap' |-> m_seqNoMap'[k]]
  <2>1. \A k \in lo .. m_currSeqNo : k # new
    BY <1>1, <1>2
  <2> HIDE DEF new
  <2> QED BY <1>1, <1>2, <2>1 DEF MapAssign
<1> HIDE DEF new
<1>4. DOMAIN m_seqNoMap' = lo .. new
  <2>1. (lo .. m_currSeqNo) \cup {new} = lo .. new
    BY <1>0, <1>1
  <2> QED BY <1>3, <2>1
<1>5. WindowIsContiguous'
  <2>1. lo <= new => ~m_seqNoMap'[lo]
    <3>1. CASE lo = new
      BY <1>3, <3>1
    <3>2. CASE lo # new
      <4>1. lo <= m_currSeqNo /\ lo \in lo .. m_currSeqNo
        BY <1>0, <1>1, <1>2, <3>2
      <4> QED BY <1>2, <1>3, <4>1
    <3> QED BY <3>1, <3>2
  <2>2. Cardinality(DOMAIN m_seqNoMap') <= WindowSize
    <3>1. IsFiniteSet(DOMAIN m_seqNoMap) /\ Cardinality(DOMAIN m_seqNoMap) \in Nat
      BY WindowInLastCycle, FS_CardinalityType
    <3>2. new \notin DOMAIN m_seqNoMap
      BY <1>0, <1>1, <1>2
    <3>3. DOMAIN m_seqNoMap' = DOMAIN m_seqNoMap \cup {new}
      BY <1>2, <1>3
    <3>4. Cardinality(DOMAIN m_seqNoMap') = Cardinality(DOMAIN m_seqNoMap) + 1
      BY <3>1, <3>2, <3>3, FS_AddElement
    <3> DEFINE d == Cardinality(DOMAIN m_seqNoMap)
    <3>5. d < WindowSize /\ d \in Nat
      BY <3>1 DEF SeqNoAvailable
    <3> HIDE DEF d
    <3>6. d + 1 <= WindowSize
      BY <1>1, <3>5
    <3> QED BY <3>4, <3>6 DEF d
  <2>3. lo \in 0 .. m_currSeqNo' + 1
    BY <1>0, <1>1, <1>2
  <2> QED BY <1>1, <1>4, <2>1, <2>2, <2>3 DEF WindowIsContiguous
<1>6. IsMap(m_seqNoMap', 0 .. m_currSeqNo', BOOLEAN)
  <2>1. \A k \in lo .. m_currSeqNo : m_seqNoMap[k] \in BOOLEAN
    BY <1>2 DEF SenderTypeOK, IsMap
  <2>2. \A k \in DOMAIN m_seqNoMap' : m_seqNoMap'[k] \in BOOLEAN
    BY <1>3, <2>1, Zenon
  <2>3. DOMAIN m_seqNoMap' \subseteq 0 .. m_currSeqNo'
    BY <1>1, <1>2, <1>4, lo .. new \subseteq 0 .. new
  <2>4. m_seqNoMap' \in [DOMAIN m_seqNoMap' -> BOOLEAN]
    BY <1>3, <2>2, Zenon
  <2> QED BY <2>3, <2>4 DEF IsMap
<1>7. Unreleased' = Unreleased \cup {new}
  BY <1>2, <1>3 DEF Unreleased
<1>8. m_currSeqNo' \in -1 .. U32 - 1
  BY <1>1
<1> QED BY <1>5, <1>6, <1>7, <1>8 DEF new

\* The one-byte number of a new PDU is not in use.
LEMMA NextSeqNoUnused ==
  ASSUME Inv, SeqNoAvailable
  PROVE  NextSeqNo \in SeqNo /\ NextSeqNo \notin DOMAIN m_txedBuffer
<1> DEFINE n == m_currSeqNo + 1
<1>1. n \in Nat /\ MaxSn \in Nat \ {0} /\ m_currSeqNo \in Int /\ n = m_currSeqNo + 1
  BY NumbersAssumption DEF Inv, SenderTypeOK
<1>2. NextSeqNo = n % MaxSn
  BY DEF NextSeqNo
<1> HIDE DEF n
<1>4. NextSeqNo \in SeqNo
  BY <1>1, <1>2, DivModType DEF SeqNo
<1>3. ASSUME NEW s \in DOMAIN m_txedBuffer PROVE s # NextSeqNo
  <2> DEFINE p == m_txedBuffer[s].pdu
  <2>1. p \in LastCycle /\ p \in DOMAIN m_seqNoMap /\ s = p % MaxSn
    BY ContextFacts DEF Unreleased
  <2>3. m_currSeqNo + 1 - p < MaxSn
    BY <2>1, WindowInLastCycle DEF Inv
  <2> HIDE DEF p
  <2>2. p \in Nat /\ p < n
    BY <1>1, <2>1 DEF LastCycle
  <2>4. n - p < MaxSn
    <3>1. m_currSeqNo + 1 - p = n - p
      BY <1>1, <2>2
    <3> QED BY <2>3, <3>1
  <2>5. p % MaxSn # n % MaxSn
    BY <1>1, <2>2, <2>4, ModDistinct
  <2> QED BY <1>2, <2>1, <2>5
<1> QED BY <1>3, <1>4

LEMMA TransmitNewKeepsInv ==
  ASSUME Inv, NumbersLeft, NEW bytes \in Nat, NEW payload \in 1 .. bytes,
         TransmitNew(bytes, payload)
  PROVE  Inv'
<1> DEFINE s == NextSeqNo
           new == m_currSeqNo + 1
           c == [pdu |-> new, size |-> payload + HeaderSize, m_retransmissionCount |-> 0]
<1>1. /\ SeqNoAvailable /\ NextSequenceNumber /\ m_retxBuffer = EmptyMap
      /\ m_txedBuffer' = MapInsert(m_txedBuffer, s, c)
      /\ waitingTimers' = waitingTimers \cup {[seqNo |-> s, pdu |-> new]}
      /\ txQueueBytes' = txQueueBytes - payload /\ payload \in 1 .. txQueueBytes
      /\ UNCHANGED <<m_retxBuffer, m_retxBufferSize>>
  BY DEF TransmitNew
<1>2. s \in SeqNo /\ s \notin DOMAIN m_txedBuffer /\ s = new % MaxSn
  BY <1>1, NextSeqNoUnused DEF NextSeqNo
<1>3. /\ m_currSeqNo' \in -1 .. U32 - 1
      /\ IsMap(m_seqNoMap', 0 .. m_currSeqNo', BOOLEAN)
      /\ WindowIsContiguous'
      /\ Unreleased' = Unreleased \cup {new}
  BY <1>1, NextNumberKeepsWindow DEF Inv
<1>4. new \in Nat /\ c \in Context /\ c.pdu = new /\ c.m_retransmissionCount = 0
  BY NumbersAssumption, SenderAssumption DEF Context, Inv, SenderTypeOK
<1> HIDE DEF s, c, new
<1>5. /\ DOMAIN m_txedBuffer' = DOMAIN m_txedBuffer \cup {s}
      /\ \A t \in DOMAIN m_txedBuffer : m_txedBuffer'[t] = m_txedBuffer[t]
      /\ m_txedBuffer'[s] = c
      /\ DOMAIN m_retxBuffer' = {} /\ DOMAIN m_retxBuffer = {}
  BY <1>1, <1>2 DEF MapInsert, EmptyMap
<1>6. SenderTypeOK'
  <2>1. IsMap(m_txedBuffer', SeqNo, Context)
    <3>1. \A t \in DOMAIN m_txedBuffer' : t \in SeqNo /\ m_txedBuffer'[t] \in Context
      BY <1>2, <1>4, <1>5, ContextFacts
    <3>2. m_txedBuffer' = [t \in DOMAIN m_txedBuffer' |-> m_txedBuffer'[t]]
      BY <1>1 DEF MapInsert
    <3> QED BY <3>1, <3>2 DEF IsMap
  <2>2. [seqNo |-> s, pdu |-> new] \in TimerEvent
    BY <1>2, <1>4 DEF TimerEvent
  <2> QED BY <1>1, <1>3, <2>1, <2>2 DEF Inv, SenderTypeOK
<1>7. NumbersMatchContexts'
  <2>1. InFlight' = InFlight \cup {new}
    BY <1>1, <1>4, <1>5 DEF InFlight, BufferedIn
  <2> QED BY <1>2, <1>3, <1>4, <1>5, <2>1, ContextFacts DEF Inv, NumbersMatchContexts
<1>8. TimersMatchContexts'
  BY <1>1, <1>2, <1>4, <1>5 DEF Inv, TimersMatchContexts
<1>9. RetransmissionsBounded'
  BY <1>4, <1>5, SenderAssumption DEF Inv, RetransmissionsBounded
<1> QED BY <1>3, <1>6, <1>7, <1>8, <1>9 DEF Inv

LEMMA SenderNextKeepsInv == Inv /\ [SenderNext]_senderVars => Inv'
<1> SUFFICES ASSUME Inv, [SenderNext]_senderVars PROVE Inv'
  OBVIOUS
<1>1. ASSUME NEW bytes \in PacketSizes, EnquePdu(bytes) PROVE Inv'
  <2>1. txQueueBytes' \in Nat
    BY <1>1, SenderAssumption DEF EnquePdu, Inv, SenderTypeOK
  <2> QED BY <1>1, <2>1 DEF EnquePdu, seqNoVars, Inv, SenderTypeOK, WindowIsContiguous,
             NumbersMatchContexts, TimersMatchContexts, RetransmissionsBounded, InFlight,
             BufferedIn, Unreleased
<1>2. CASE UNCHANGED senderVars
  BY <1>2 DEF senderVars, seqNoVars, Inv, SenderTypeOK, WindowIsContiguous,
     NumbersMatchContexts, TimersMatchContexts, RetransmissionsBounded, InFlight,
     BufferedIn, Unreleased
<1>3. ASSUME NEW bytes \in TxOpportunities, NotifyTxOpportunity(bytes) PROVE Inv'
  <2>1. bytes \in Nat
    BY SenderAssumption
  <2> QED BY <1>3, <2>1, RetransmitKeepsInv, TransmitNewKeepsInv DEF NotifyTxOpportunity
<1>4. ASSUME NEW p \in LastCycle, ReceiveAck(p % MaxSn) PROVE Inv'
  BY <1>4, CleanUpKeepsInv DEF ReceiveAck
<1>5. ASSUME NEW timer \in waitingTimers, ArqReTxTimerExpired(timer) PROVE Inv'
  BY <1>5, MoveToRetxBufferKeepsInv, GiveUpKeepsInv DEF ArqReTxTimerExpired
<1> QED BY <1>1, <1>2, <1>3, <1>4, <1>5 DEF SenderNext

-----------------------------------------------------------------------------
\* The inductive invariant of the transmitter.
THEOREM SenderInvariant == SenderSpec => []Inv
  BY SenderInitInv, SenderNextKeepsInv, PTL DEF SenderSpec

\* The transmitter's variables keep their types.
THEOREM SenderTypeCorrect == SenderSpec => []SenderTypeOK
<1>1. Inv => SenderTypeOK
  BY DEF Inv
<1> QED BY <1>1, SenderInvariant, PTL

\* NextSequenceNumber and Release keep the window an interval that ends at
\* the number handed out last, whatever ACKs arrive late.
THEOREM SenderWindowContiguous == SenderSpec => []WindowIsContiguous
<1>1. Inv => WindowIsContiguous
  BY DEF Inv
<1> QED BY <1>1, SenderInvariant, PTL

\* The handler and the two buffers always agree on what is in flight.
THEOREM SenderNumbersMatch == SenderSpec => []NumbersMatchContexts
<1>1. Inv => NumbersMatchContexts
  BY DEF Inv
<1> QED BY <1>1, SenderInvariant, PTL

\* A retransmission timer runs for exactly the contexts that wait for an ACK.
THEOREM SenderTimersMatch == SenderSpec => []TimersMatchContexts
<1>1. Inv => TimersMatchContexts
  BY DEF Inv
<1> QED BY <1>1, SenderInvariant, PTL

\* No PDU is transmitted more often than the attribute allows.
THEOREM SenderRetransmissionsBounded == SenderSpec => []RetransmissionsBounded
<1>1. Inv => RetransmissionsBounded
  BY DEF Inv
<1> QED BY <1>1, SenderInvariant, PTL

\* The five together: what the transmitter knows of a PDU is the same in the
\* sequence number handler, in the buffers and in its timers, at all times.
THEOREM SenderIsConsistent == SenderSpec => []SenderConsistent
<1>1. Inv => SenderConsistent
  BY DEF Inv, SenderConsistent
<1> QED BY <1>1, SenderInvariant, PTL
-----------------------------------------------------------------------------
(* The byte count of the retransmission buffer, a sum over the buffer. *)

Sizes(buffer) == [s \in DOMAIN buffer |-> buffer[s].size]

\* A context makes up its size of the bytes of a buffer.
LEMMA SizesWithout ==
  ASSUME NEW buffer, IsMap(buffer, SeqNo, Context), NEW s \in DOMAIN buffer
  PROVE  SumFunction(Sizes(buffer)) = buffer[s].size + SumFunction(Sizes(MapErase(buffer, s)))
<1> DEFINE f == Sizes(buffer)
           g == Sizes(MapErase(buffer, s))
           D == DOMAIN buffer
<1>1. DOMAIN f = D /\ DOMAIN g = D \ {s} /\ \A t \in D : f[t] = buffer[t].size
  BY DEF Sizes, MapErase
<1>2. \A t \in D : f[t] \in Int
  BY <1>1 DEF IsMap, Context
<1>3. \A t \in D \ {s} : f[t] \in Int /\ f[t] = g[t]
  BY <1>1, <1>2 DEF Sizes, MapErase
<1>4. IsFiniteSet(D) /\ IsFiniteSet(D \ {s})
  <2>1. IsFiniteSet(0 .. MaxSn - 1)
    BY FS_Interval, NumbersAssumption
  <2>2. D \in SUBSET (0 .. MaxSn - 1)
    BY DEF IsMap, SeqNo
  <2>3. IsFiniteSet(D)
    BY <2>1, <2>2, FS_Subset
  <2> QED BY <2>3, FS_RemoveElement
<1> HIDE DEF f, g
<1>5. SumFunctionOnSet(f, D) = f[s] + SumFunctionOnSet(f, D \ {s})
  BY <1>2, <1>4, SumWithout
<1>6. SumFunctionOnSet(f, D \ {s}) = SumFunctionOnSet(g, D \ {s})
  BY <1>3, <1>4, SumSame
<1>7. SumFunction(f) = SumFunctionOnSet(f, D) /\ SumFunction(g) = SumFunctionOnSet(g, D \ {s})
  BY <1>1 DEF SumFunction
<1>8. SumFunction(f) = buffer[s].size + SumFunction(g)
  BY <1>1, <1>5, <1>6, <1>7
<1> QED BY <1>8 DEF f, g

\* The bytes of a buffer are a number.
LEMMA SizesType ==
  ASSUME NEW buffer, IsMap(buffer, SeqNo, Context)
  PROVE  SumFunction(Sizes(buffer)) \in Int
<1> DEFINE f == Sizes(buffer)
<1>1. DOMAIN f = DOMAIN buffer /\ \A t \in DOMAIN buffer : f[t] \in Int
  BY DEF Sizes, IsMap, Context
<1>2. IsFiniteSet(DOMAIN buffer)
  <2>1. IsFiniteSet(0 .. MaxSn - 1)
    BY FS_Interval, NumbersAssumption
  <2>2. DOMAIN buffer \in SUBSET (0 .. MaxSn - 1)
    BY DEF IsMap, SeqNo
  <2> QED BY <2>1, <2>2, FS_Subset
<1> HIDE DEF f
<1>3. SumFunction(f) \in Int
  BY <1>1, <1>2, SumType DEF SumFunction
<1> QED BY <1>3 DEF f

\* A number without a context is no key to erase.
LEMMA EraseNothing ==
  ASSUME NEW buffer, IsMap(buffer, SeqNo, Context), NEW s, s \notin DOMAIN buffer
  PROVE  MapErase(buffer, s) = buffer
  BY DEF IsMap, MapErase

\* CleanUp takes the bytes of the context that it erases.
LEMMA CleanUpCounts ==
  ASSUME Inv, NEW n, CleanUp(n), RetxBytesExact
  PROVE  RetxBytesExact'
<1>1. /\ m_retxBuffer' = MapErase(m_retxBuffer, n)
      /\ m_retxBufferSize' = m_retxBufferSize - RetxBytesOf(n)
      /\ m_retxBufferSize = SumFunction(Sizes(m_retxBuffer))
      /\ IsMap(m_retxBuffer, SeqNo, Context)
  BY DEF CleanUp, RetxBytesExact, Sizes, Inv, SenderTypeOK
<1>2. m_retxBufferSize' = SumFunction(Sizes(m_retxBuffer'))
  <2>1. CASE n \in DOMAIN m_retxBuffer
    <3>1. SumFunction(Sizes(m_retxBuffer)) = m_retxBuffer[n].size + SumFunction(Sizes(m_retxBuffer'))
      BY <1>1, <2>1, SizesWithout
    <3>2. RetxBytesOf(n) = m_retxBuffer[n].size /\ m_retxBuffer[n].size \in Int
      BY <1>1, <2>1 DEF RetxBytesOf, IsMap, Context
    <3>3. IsMap(m_retxBuffer', SeqNo, Context)
      BY <1>1 DEF IsMap, MapErase
    <3>4. SumFunction(Sizes(m_retxBuffer')) \in Int
      BY <3>3, SizesType
    <3> QED BY <1>1, <3>1, <3>2, <3>4
  <2>2. CASE n \notin DOMAIN m_retxBuffer
    <3>1. m_retxBuffer' = m_retxBuffer
      BY <1>1, <2>2, EraseNothing
    <3>2. RetxBytesOf(n) = 0
      BY <2>2 DEF RetxBytesOf
    <3>3. SumFunction(Sizes(m_retxBuffer)) \in Int
      BY <1>1, SizesType
    <3> QED BY <1>1, <3>1, <3>2, <3>3
  <2> QED BY <2>1, <2>2
<1> QED BY <1>2 DEF RetxBytesExact, Sizes

\* A context that waits for retransmission brings its bytes.
LEMMA MoveToRetxBufferCounts ==
  ASSUME Inv, NEW timer, MoveToRetxBuffer(timer), RetxBytesExact
  PROVE  RetxBytesExact'
<1> DEFINE s == timer.seqNo
           c == m_txedBuffer[s]
<1>1. /\ s \in DOMAIN m_txedBuffer
      /\ m_retxBufferSize' = m_retxBufferSize + c.size
      /\ m_retxBuffer' = MapInsert(m_retxBuffer, s, c)
      /\ m_retxBufferSize = SumFunction(Sizes(m_retxBuffer))
      /\ IsMap(m_retxBuffer, SeqNo, Context)
  BY DEF MoveToRetxBuffer, RetxBytesExact, Sizes, Inv, SenderTypeOK
<1>2. c \in Context /\ s \in SeqNo /\ s \notin DOMAIN m_retxBuffer
  BY <1>1, ContextFacts
<1> HIDE DEF s, c
<1>3. IsMap(m_retxBuffer', SeqNo, Context) /\ s \in DOMAIN m_retxBuffer' /\ m_retxBuffer'[s] = c
  BY <1>1, <1>2 DEF MapInsert, IsMap
<1>4. MapErase(m_retxBuffer', s) = m_retxBuffer
  BY <1>1, <1>2 DEF MapInsert, MapErase, IsMap
<1>5. SumFunction(Sizes(m_retxBuffer')) = m_retxBuffer'[s].size + SumFunction(Sizes(MapErase(m_retxBuffer', s)))
  BY <1>3, SizesWithout
<1>6. c.size \in Int /\ SumFunction(Sizes(m_retxBuffer)) \in Int
  BY <1>1, <1>2, SizesType DEF Context
<1>7. m_retxBufferSize' = SumFunction(Sizes(m_retxBuffer'))
  BY <1>1, <1>3, <1>4, <1>5, <1>6
<1> QED BY <1>7 DEF RetxBytesExact, Sizes

\* A context that is retransmitted takes its bytes.
LEMMA RetransmitCounts ==
  ASSUME Inv, NEW bytes, Retransmit(bytes), RetxBytesExact
  PROVE  RetxBytesExact'
<1> DEFINE s == Begin(m_retxBuffer)
<1>1. /\ m_retxBuffer' = MapErase(m_retxBuffer, s)
      /\ m_retxBufferSize' = m_retxBufferSize - Retransmitted(m_retxBuffer[s]).size
      /\ m_retxBufferSize = SumFunction(Sizes(m_retxBuffer))
      /\ IsMap(m_retxBuffer, SeqNo, Context)
  BY DEF Retransmit, RetxBytesExact, Sizes, Inv, SenderTypeOK
<1>2. s \in DOMAIN m_retxBuffer
  <2>1. DOMAIN m_retxBuffer # {}
    BY DEF Retransmit, Inv, SenderTypeOK, IsMap, EmptyMap
  <2>2. DOMAIN m_retxBuffer \in SUBSET (0 .. MaxSn - 1) /\ MaxSn - 1 \in Nat
    BY NumbersAssumption DEF Inv, SenderTypeOK, IsMap, SeqNo
  <2>3. \E x \in DOMAIN m_retxBuffer : \A y \in DOMAIN m_retxBuffer : x <= y
    BY <2>1, <2>2, LeastElement
  <2> QED BY <2>3 DEF Begin, Min
<1> HIDE DEF s
<1>3. m_retxBuffer[s] \in Context
  BY <1>1, <1>2 DEF IsMap
<1>4. Retransmitted(m_retxBuffer[s]).size = m_retxBuffer[s].size /\ m_retxBuffer[s].size \in Int
  BY <1>3 DEF Retransmitted, Context
<1>5. SumFunction(Sizes(m_retxBuffer)) = m_retxBuffer[s].size + SumFunction(Sizes(m_retxBuffer'))
  BY <1>1, <1>2, SizesWithout
<1>6. IsMap(m_retxBuffer', SeqNo, Context)
  BY <1>1 DEF IsMap, MapErase
<1>7. SumFunction(Sizes(m_retxBuffer')) \in Int
  BY <1>6, SizesType
<1>8. m_retxBufferSize' = SumFunction(Sizes(m_retxBuffer'))
  BY <1>1, <1>4, <1>5, <1>7
<1> QED BY <1>8 DEF RetxBytesExact, Sizes

LEMMA SenderInitCounts == SenderInit => RetxBytesExact
<1> SUFFICES ASSUME SenderInit PROVE RetxBytesExact
  OBVIOUS
<1> DEFINE f == [s \in DOMAIN m_retxBuffer |-> m_retxBuffer[s].size]
<1>1. m_retxBufferSize = 0 /\ DOMAIN f = {}
  BY DEF SenderInit, EmptyMap
<1> HIDE DEF f
<1>2. SumFunction(f) = 0
  BY <1>1, SumOfNone DEF SumFunction
<1> QED BY <1>1, <1>2 DEF RetxBytesExact, f

LEMMA SenderNextCounts == Inv /\ RetxBytesExact /\ [SenderNext]_senderVars => RetxBytesExact'
<1> SUFFICES ASSUME Inv, RetxBytesExact, [SenderNext]_senderVars PROVE RetxBytesExact'
  OBVIOUS
<1>1. CASE UNCHANGED <<m_retxBuffer, m_retxBufferSize>>
  BY <1>1 DEF RetxBytesExact
<1>2. ASSUME NEW bytes \in PacketSizes, EnquePdu(bytes) PROVE RetxBytesExact'
  BY <1>1, <1>2 DEF EnquePdu
<1>3. ASSUME NEW bytes \in TxOpportunities, NotifyTxOpportunity(bytes) PROVE RetxBytesExact'
  BY <1>1, <1>3, RetransmitCounts DEF NotifyTxOpportunity, TransmitNew
<1>4. ASSUME NEW p \in LastCycle, ReceiveAck(p % MaxSn) PROVE RetxBytesExact'
  BY <1>4, CleanUpCounts DEF ReceiveAck
<1>5. ASSUME NEW timer \in waitingTimers, ArqReTxTimerExpired(timer) PROVE RetxBytesExact'
  BY <1>5, CleanUpCounts, MoveToRetxBufferCounts DEF ArqReTxTimerExpired, GiveUp
<1>6. CASE UNCHANGED senderVars
  BY <1>1, <1>6 DEF senderVars
<1> QED BY <1>2, <1>3, <1>4, <1>5, <1>6 DEF SenderNext

\* m_retxBufferSize, which the MAC schedules and asks for capacity by, is the
\* sum of the sizes in the retransmission buffer, whatever is acknowledged,
\* expires and is sent again.
THEOREM SenderRetxBytesExact == SenderSpec => []RetxBytesExact
<1>1. Inv /\ RetxBytesExact /\ [SenderNext]_senderVars => (Inv /\ RetxBytesExact)'
  BY SenderNextKeepsInv, SenderNextCounts
<1>2. SenderInit => Inv /\ RetxBytesExact
  BY SenderInitInv, SenderInitCounts
<1> QED BY <1>1, <1>2, PTL DEF SenderSpec
-----------------------------------------------------------------------------
(***************************************************************************)
(* The receiver.                                                           *)
(***************************************************************************)

ReceiverInv ==
  /\ ReceiverTypeOK
  /\ BufferIsGapFree
  /\ ContextsAreWhole
  /\ TimersMatchGaps
  /\ StreamIsPrefix
  /\ FirstSn <= m_nextExpectedSeqNo

\* The context that the waiting timer leaves behind for an instant.
PassedOver == [m_pdu |-> NoPdu, m_rxStatus |-> TRUE]

\* What ReassembleAndReceive finds in the buffer when it is called.
ReadyToReassemble(buf, timers) ==
  /\ m_nextExpectedSeqNo \in Nat
  /\ FirstSn <= m_nextExpectedSeqNo
  /\ StreamIsPrefix
  /\ IsMap(stream, Nat, Pdu \cup {NoPdu})
  /\ IsMap(buf, Nat, RxContext)
  /\ \E last \in Nat : DOMAIN buf = m_nextExpectedSeqNo .. last
  /\ \A n \in DOMAIN buf :
       \/ buf[n] = Missing
       \/ \E pdu \in Pdu : buf[n] = Received(pdu)
       \/ n = m_nextExpectedSeqNo /\ buf[n] = PassedOver
  /\ timers = {n \in DOMAIN buf : buf[n] = Missing}

\* Contexts are never confused with each other.
LEMMA ContextsDiffer ==
  /\ Missing \in RxContext /\ PassedOver \in RxContext
  /\ \A pdu \in Pdu : Received(pdu) \in RxContext /\ Received(pdu).m_rxStatus
                      /\ Received(pdu).m_pdu = pdu /\ Received(pdu) # Missing
  /\ ~Missing.m_rxStatus /\ PassedOver.m_rxStatus /\ PassedOver # Missing
  BY DEF Missing, PassedOver, Received, RxContext

\* The popped contexts form an interval from the expected number on.
LEMMA PoppedInterval ==
  ASSUME NEW buf, NEW timers, ReadyToReassemble(buf, timers),
         NEW P, P = Poppable(buf)
  PROVE  /\ Cardinality(P) \in Nat
         /\ P \subseteq DOMAIN buf
         /\ P = m_nextExpectedSeqNo .. After(P) - 1
         /\ After(P) \in DOMAIN buf => buf[After(P)] = Missing
<1> DEFINE e == m_nextExpectedSeqNo
<1>0. e \in Nat
  BY DEF ReadyToReassemble
<1>1. PICK last \in Nat : DOMAIN buf = e .. last
  BY DEF ReadyToReassemble
<1>2. P \subseteq e .. last
  BY <1>1 DEF Poppable
<1>3. IsFiniteSet(P)
  <2>1. IsFiniteSet(e .. last)
    BY <1>0, FS_Interval
  <2> QED BY <1>2, <2>1, FS_Subset
<1>4. \A n \in P : n >= e /\ e .. n \subseteq P
  BY <1>0, <1>1 DEF Poppable
<1>5. P = e .. e + Cardinality(P) - 1
  <2>1. P \in SUBSET Nat
    BY <1>0, <1>2
  <2> HIDE DEF e
  <2> QED BY <1>0, <1>3, <1>4, <2>1, DownClosedInterval
<1>6. Cardinality(P) \in Nat
  BY <1>3, FS_CardinalityType
<1>7. ASSUME e + Cardinality(P) \in DOMAIN buf PROVE buf[e + Cardinality(P)] = Missing
  <2> DEFINE m == e + Cardinality(P)
  <2>1. m \notin P
    BY <1>0, <1>5, <1>6
  <2>2. \A i \in e .. m - 1 : i \in DOMAIN buf /\ buf[i].m_rxStatus
    <3>1. \A i \in P : i \in DOMAIN buf /\ buf[i].m_rxStatus
      BY <1>0, <1>2 DEF Poppable
    <3>2. m - 1 = e + Cardinality(P) - 1
      BY <1>0, <1>6
    <3> HIDE DEF m
    <3> QED BY <1>5, <3>1, <3>2
  <2>3. m \in DOMAIN buf
    BY <1>7
  <2>4. \A i \in e .. m : i = m \/ i \in e .. m - 1
    BY <1>0, <1>6
  <2>5. \A j \in DOMAIN buf : j >= e
    BY <1>0, <1>1
  <2> HIDE DEF m
  <2>6. ~buf[m].m_rxStatus
    BY <2>1, <2>2, <2>3, <2>4, <2>5 DEF Poppable
  <2>7. buf[m] = Missing
    BY <2>3, <2>6, ContextsDiffer DEF ReadyToReassemble
  <2> QED BY <2>7 DEF m
<1>8. After(P) = e + Cardinality(P)
  BY DEF After
<1>9. P \subseteq DOMAIN buf
  BY <1>1, <1>2
<1>10. P = e .. After(P) - 1
  <2>1. After(P) - 1 = e + Cardinality(P) - 1
    BY <1>0, <1>6, <1>8
  <2> HIDE DEF e
  <2> QED BY <1>5, <2>1
<1>11. After(P) \in DOMAIN buf => buf[After(P)] = Missing
  BY <1>7, <1>8
<1> QED BY <1>6, <1>9, <1>10, <1>11

\* The loop re-establishes the invariant.
LEMMA ReassembleKeepsInv ==
  ASSUME NEW buf, NEW timers, ReadyToReassemble(buf, timers),
         ReassembleAndReceive(buf, timers)
  PROVE  ReceiverInv'
<1> DEFINE e == m_nextExpectedSeqNo
           P == Poppable(buf)
           m == After(P)
<1>0. e \in Nat /\ FirstSn <= e /\ DOMAIN stream = FirstSn .. e - 1
  BY DEF ReadyToReassemble, StreamIsPrefix
<1>1. PICK last \in Nat : DOMAIN buf = e .. last
  BY DEF ReadyToReassemble
<1>2. /\ m \in Nat /\ m >= e
      /\ P \subseteq DOMAIN buf /\ P = e .. m - 1
      /\ m \in DOMAIN buf => buf[m] = Missing
  <2>1. /\ Cardinality(P) \in Nat /\ P \subseteq DOMAIN buf
        /\ P = e .. After(P) - 1
        /\ After(P) \in DOMAIN buf => buf[After(P)] = Missing
    <3> HIDE DEF P
    <3>1. P = Poppable(buf)
      BY DEF P
    <3> QED BY <3>1, PoppedInterval
  <2> QED BY <1>0, <2>1 DEF After
<1>3. /\ m_nextExpectedSeqNo' = m
      /\ m_reorderingBuffer' = [n \in DOMAIN buf \ P |-> buf[n]]
      /\ rxWaitingTimers' = timers \ P
      /\ stream' = [n \in DOMAIN stream \cup P |-> IF n \in P THEN buf[n].m_pdu ELSE stream[n]]
  BY DEF ReassembleAndReceive
<1> HIDE DEF P, m
<1>4. DOMAIN buf \ P = m .. last
  BY <1>0, <1>1, <1>2
<1>5. \A n \in DOMAIN buf \ P :
        buf[n] = Missing \/ \E pdu \in Pdu : buf[n] = Received(pdu)
  <2>1. ASSUME NEW n \in DOMAIN buf \ P, n = e PROVE buf[n] = Missing
    BY <1>0, <1>1, <1>2, <1>4, <2>1
  <2> QED BY <2>1 DEF ReadyToReassemble
<1>6. ReceiverTypeOK'
  <2>1. \A n \in DOMAIN buf : buf[n] \in RxContext /\ buf[n].m_pdu \in Pdu \cup {NoPdu}
    BY DEF ReadyToReassemble, IsMap, RxContext
  <2>2. IsMap(m_reorderingBuffer', Nat, RxContext)
    BY <1>1, <1>2, <1>3, <1>4, <2>1 DEF IsMap
  <2>3. rxWaitingTimers' \subseteq Nat
    BY <1>0, <1>1, <1>3 DEF ReadyToReassemble
  <2>4. IsMap(stream', Nat, Pdu \cup {NoPdu})
    <3>1. \A n \in DOMAIN stream : n \in Nat /\ stream[n] \in Pdu \cup {NoPdu}
      BY DEF ReadyToReassemble, IsMap
    <3>2. P \subseteq Nat
      BY <1>0, <1>2
    <3> QED BY <1>2, <1>3, <2>1, <3>1, <3>2 DEF IsMap
  <2> QED BY <1>2, <1>3, <2>2, <2>3, <2>4 DEF ReceiverTypeOK
<1>7. BufferIsGapFree'
  <2> SUFFICES ASSUME m_reorderingBuffer' # EmptyMap
               PROVE  /\ \E k \in DOMAIN m_reorderingBuffer' : DOMAIN m_reorderingBuffer' = m .. k
                      /\ m_reorderingBuffer'[m] = Missing
    BY <1>3 DEF BufferIsGapFree, Missing, EmptyMap
  <2>1. DOMAIN m_reorderingBuffer' = m .. last
    BY <1>3, <1>4
  <2>2. m <= last
    <3>1. CASE m > last
      <4>1. DOMAIN buf \ P = {}
        BY <3>1, <1>2, <1>4
      <4>2. m_reorderingBuffer' = EmptyMap
        BY <4>1, <1>3 DEF EmptyMap
      <4> QED BY <4>2
    <3> QED BY <3>1, <1>2
  <2>3. m \in DOMAIN buf \ P
    BY <2>2, <1>2, <1>4
  <2> QED BY <2>1, <2>2, <2>3, <1>2, <1>3
<1>8. ContextsAreWhole'
  BY <1>3, <1>5 DEF ContextsAreWhole, Missing, Received
<1>9. TimersMatchGaps'
  BY <1>3 DEF TimersMatchGaps, ReadyToReassemble, Missing
<1>10. StreamIsPrefix' /\ FirstSn <= m_nextExpectedSeqNo'
  <2>1. FirstSn \in Nat
    BY NumbersAssumption
  <2> QED BY <1>0, <1>2, <1>3, <2>1 DEF StreamIsPrefix
<1> QED BY <1>6, <1>7, <1>8, <1>9, <1>10 DEF ReceiverInv

\* What a call of ReassembleAndReceive adds to the stream.
LEMMA ReassembleStep ==
  ASSUME ReceiverInv, NEW buf, NEW timers, ReassembleAndReceive(buf, timers),
         ReadyToReassemble(buf, timers),
         \A n \in DOMAIN buf :
           n # m_nextExpectedSeqNo => n \in DOMAIN m_reorderingBuffer /\ buf[n] = m_reorderingBuffer[n],
         m_nextExpectedSeqNo \in rxWaitingTimers \/ m_nextExpectedSeqNo \notin DOMAIN m_reorderingBuffer,
         buf[m_nextExpectedSeqNo] = PassedOver => m_nextExpectedSeqNo \in rxWaitingTimers
  PROVE  StreamStep
<1> DEFINE e == m_nextExpectedSeqNo
           P == Poppable(buf)
<1>1. stream' = [n \in DOMAIN stream \cup P |-> IF n \in P THEN buf[n].m_pdu ELSE stream[n]]
  BY DEF ReassembleAndReceive
<1>2. \A n \in P : n \in DOMAIN buf /\ n >= e /\ n \in Nat /\ buf[n].m_rxStatus
  BY DEF Poppable, ReadyToReassemble
<1>3. \A n \in DOMAIN stream : n \notin P
  <2>1. \A n \in DOMAIN stream : n < e
    BY NumbersAssumption DEF ReadyToReassemble, StreamIsPrefix
  <2> QED BY <1>2, <2>1 DEF ReadyToReassemble
<1> HIDE DEF P
<1>4. ASSUME NEW n \in P
      PROVE  /\ buf[n].m_pdu = NoPdu => n = e /\ n \in rxWaitingTimers
             /\ n \in DOMAIN m_reorderingBuffer /\ n \notin rxWaitingTimers =>
                  buf[n].m_pdu = m_reorderingBuffer[n].m_pdu
  <2>1. buf[n] # Missing
    BY <1>2, ContextsDiffer
  <2>2. (n = e /\ buf[n] = PassedOver) \/ \E pdu \in Pdu : buf[n] = Received(pdu)
    BY <1>2, <2>1 DEF ReadyToReassemble
  <2>3. buf[n].m_pdu = NoPdu => n = e /\ buf[n] = PassedOver
    BY <2>2, ContextsDiffer, ReceiverAssumption
  <2> QED BY <1>2, <2>3
<1> QED BY <1>1, <1>3, <1>4 DEF StreamStep

LEMMA InitEstablishesInv == ReceiverInit => ReceiverInv
  BY NumbersAssumption
  DEF ReceiverInit, ReceiverInv, ReceiverTypeOK, BufferIsGapFree, ContextsAreWhole,
      TimersMatchGaps, StreamIsPrefix, EmptyMap, IsMap

\* The continuous number of an arrival is a number, however the conversion
\* counts the rounds.
LEMMA ConvertSeqNoType ==
  ASSUME m_nextExpectedSeqNo \in Nat, NEW seqNo \in SeqNo
  PROVE  ConvertSeqNo(seqNo) \in 0 .. U32 - 1
<1> DEFINE rounds == m_nextExpectedSeqNo \div MaxSn
           rawSeqNo == m_nextExpectedSeqNo % MaxSn
           adjusted == CASE seqNo - rawSeqNo > 2 * WindowSize -> rounds - 1
                         [] rawSeqNo - seqNo > 2 * WindowSize -> rounds + 1
                         [] OTHER -> rounds
<1>1. rounds \in Int /\ rawSeqNo \in Int /\ seqNo \in Int /\ WindowSize \in Int
  BY NumbersAssumption, DivModType DEF SeqNo
<1>2. adjusted \in Int
  <2> HIDE DEF rounds, rawSeqNo
  <2> QED BY <1>1
<1>3. ConvertSeqNo(seqNo) = (adjusted * MaxSn + seqNo) % U32
  BY DEF ConvertSeqNo
<1> HIDE DEF adjusted
<1>4. adjusted * MaxSn + seqNo \in Int
  BY <1>1, <1>2, NumbersAssumption, TimesType
<1> QED BY <1>3, <1>4, NumbersAssumption, DivModType

\* What the invariant says of the buffer, in one place.
LEMMA BufferShape ==
  ASSUME ReceiverInv
  PROVE  /\ m_nextExpectedSeqNo \in Nat /\ FirstSn <= m_nextExpectedSeqNo
         /\ \A n \in DOMAIN m_reorderingBuffer : n \in Nat
         /\ \/ m_reorderingBuffer = EmptyMap /\ DOMAIN m_reorderingBuffer = {}
            \/ /\ \E last \in Nat : DOMAIN m_reorderingBuffer = m_nextExpectedSeqNo .. last
                                    /\ last >= m_nextExpectedSeqNo
               /\ m_reorderingBuffer[m_nextExpectedSeqNo] = Missing
<1>1. CASE m_reorderingBuffer = EmptyMap
  BY <1>1 DEF ReceiverInv, ReceiverTypeOK, IsMap, EmptyMap
<1>2. CASE m_reorderingBuffer # EmptyMap
  <2>1. PICK last \in DOMAIN m_reorderingBuffer :
          DOMAIN m_reorderingBuffer = m_nextExpectedSeqNo .. last
    BY <1>2 DEF ReceiverInv, BufferIsGapFree
  <2>2. last \in Nat /\ m_nextExpectedSeqNo \in Nat
    BY DEF ReceiverInv, ReceiverTypeOK, IsMap
  <2>3. last >= m_nextExpectedSeqNo
    BY <2>1, <2>2
  <2> QED BY <1>2, <2>1, <2>2, <2>3 DEF ReceiverInv, ReceiverTypeOK, IsMap, BufferIsGapFree
<1> QED BY <1>1, <1>2

\* ReceivePdu with the expected number: what the loop finds.
LEMMA ExpectedIsReady ==
  ASSUME ReceiverInv, NEW sn \in Nat, NEW pdu \in Pdu, ReceiveExpected(sn, pdu),
         NEW buf, buf = MapAssign(m_reorderingBuffer, sn, Received(pdu)),
         NEW timers, timers = rxWaitingTimers \ {sn}
  PROVE  /\ sn = m_nextExpectedSeqNo /\ ReassembleAndReceive(buf, timers)
         /\ ReadyToReassemble(buf, timers)
         /\ DOMAIN buf = DOMAIN m_reorderingBuffer \cup {sn}
         /\ \A n \in DOMAIN buf : buf[n] = IF n = sn THEN Received(pdu) ELSE m_reorderingBuffer[n]
<1> DEFINE e == m_nextExpectedSeqNo
<1>1. sn = e /\ ReassembleAndReceive(buf, timers)
  BY DEF ReceiveExpected
<1>2. /\ DOMAIN buf = DOMAIN m_reorderingBuffer \cup {e}
      /\ \A n \in DOMAIN buf : buf[n] = IF n = e THEN Received(pdu) ELSE m_reorderingBuffer[n]
      /\ buf = [n \in DOMAIN buf |-> buf[n]]
  BY <1>1 DEF MapAssign
<1>3. \E last \in Nat : DOMAIN buf = e .. last
  <2>1. CASE DOMAIN m_reorderingBuffer = {}
    <3>1. DOMAIN buf = e .. e /\ e \in Nat
      BY <1>2, <2>1, BufferShape
    <3> QED BY <3>1
  <2>2. CASE \E last \in Nat : DOMAIN m_reorderingBuffer = e .. last /\ last >= e
    BY <1>2, <2>2, BufferShape
  <2> QED BY <2>1, <2>2, BufferShape
<1>4. \A n \in DOMAIN buf : buf[n] = Missing \/ \E p \in Pdu : buf[n] = Received(p)
  BY <1>2 DEF ReceiverInv, ContextsAreWhole
<1>5. IsMap(buf, Nat, RxContext)
  <2>1. \A n \in DOMAIN buf : n \in Nat /\ buf[n] \in RxContext
    BY <1>2, <1>4, BufferShape, ContextsDiffer
  <2> QED BY <1>2, <2>1 DEF IsMap
<1>6. timers = {n \in DOMAIN buf : buf[n] = Missing}
  BY <1>1, <1>2, ContextsDiffer DEF ReceiverInv, TimersMatchGaps
<1>7. ReadyToReassemble(buf, timers)
  BY <1>3, <1>4, <1>5, <1>6 DEF ReadyToReassemble, ReceiverInv, ReceiverTypeOK
<1> QED BY <1>1, <1>2, <1>7

LEMMA ExpectedKeepsInv ==
  ASSUME ReceiverInv, NEW sn \in Nat, NEW pdu \in Pdu, ReceiveExpected(sn, pdu)
  PROVE  ReceiverInv' /\ StreamStep
<1> DEFINE e == m_nextExpectedSeqNo
           buf == MapAssign(m_reorderingBuffer, sn, Received(pdu))
           timers == rxWaitingTimers \ {sn}
<1>1. /\ sn = e /\ ReassembleAndReceive(buf, timers) /\ ReadyToReassemble(buf, timers)
      /\ DOMAIN buf = DOMAIN m_reorderingBuffer \cup {e}
      /\ \A n \in DOMAIN buf : buf[n] = IF n = e THEN Received(pdu) ELSE m_reorderingBuffer[n]
  BY ExpectedIsReady
<1> HIDE DEF buf, timers
<1>2. e \in rxWaitingTimers \/ e \notin DOMAIN m_reorderingBuffer
  BY BufferShape DEF ReceiverInv, TimersMatchGaps
<1>3. buf[e] # PassedOver
  BY <1>1, ContextsDiffer, ReceiverAssumption DEF PassedOver, Received
<1>4. \A n \in DOMAIN buf :
        n # e => n \in DOMAIN m_reorderingBuffer /\ buf[n] = m_reorderingBuffer[n]
  BY <1>1
<1> QED BY <1>1, <1>2, <1>3, <1>4, ReassembleKeepsInv, ReassembleStep

\* ReceivePdu with a number ahead of the expected one.
LEMMA AheadKeepsInv ==
  ASSUME ReceiverInv, NEW sn \in Nat, NEW pdu \in Pdu, ReceiveAhead(sn, pdu)
  PROVE  ReceiverInv' /\ StreamStep
<1> DEFINE e == m_nextExpectedSeqNo
           buf == MapAssign(m_reorderingBuffer, sn, Received(pdu))
           missing == MissingBefore(sn, buf)
<1>1. /\ sn > e /\ e \in Nat
      /\ DOMAIN buf = DOMAIN m_reorderingBuffer \cup {sn}
      /\ \A n \in DOMAIN buf : buf[n] = IF n = sn THEN Received(pdu) ELSE m_reorderingBuffer[n]
      /\ missing = (e .. sn - 1) \ DOMAIN buf
  BY BufferShape DEF ReceiveAhead, MapAssign, MissingBefore
<1>2. /\ m_reorderingBuffer' =
           [n \in DOMAIN buf \cup missing |-> IF n \in missing THEN Missing ELSE buf[n]]
      /\ rxWaitingTimers' = TimersWith(sn, missing)
      /\ m_nextExpectedSeqNo' = e /\ stream' = stream
  BY DEF ReceiveAhead
<1> HIDE DEF buf, missing
<1>3. PICK top \in Nat : DOMAIN buf \cup missing = e .. top /\ top >= e
  <2>1. CASE DOMAIN m_reorderingBuffer = {}
    <3>1. DOMAIN buf \cup missing = e .. sn /\ sn >= e
      BY <1>1, <2>1
    <3> QED BY <3>1
  <2>2. ASSUME NEW last \in Nat, DOMAIN m_reorderingBuffer = e .. last, last >= e
        PROVE  \E k \in Nat : DOMAIN buf \cup missing = e .. k /\ k >= e
    <3>1. CASE sn <= last
      <4>1. DOMAIN buf \cup missing = e .. last
        BY <1>1, <2>2, <3>1
      <4> QED BY <2>2, <4>1
    <3>2. CASE sn > last
      <4>1. DOMAIN buf \cup missing = e .. sn /\ sn >= e
        BY <1>1, <2>2, <3>2
      <4> QED BY <4>1
    <3> QED BY <2>2, <3>1, <3>2
  <2> QED BY <2>1, <2>2, BufferShape
<1>4. /\ DOMAIN m_reorderingBuffer' = e .. top
      /\ \A n \in e .. top :
           m_reorderingBuffer'[n] = IF n \in missing THEN Missing ELSE buf[n]
  BY <1>2, <1>3
<1>5. \A n \in e .. top : \/ m_reorderingBuffer'[n] = Missing
                          \/ \E p \in Pdu : m_reorderingBuffer'[n] = Received(p)
  BY <1>1, <1>3, <1>4 DEF ReceiverInv, ContextsAreWhole
<1>6. rxWaitingTimers' = {n \in e .. top : m_reorderingBuffer'[n] = Missing}
  <2>1. rxWaitingTimers = {n \in DOMAIN m_reorderingBuffer : m_reorderingBuffer[n] = Missing}
    BY DEF ReceiverInv, TimersMatchGaps
  <2>2. rxWaitingTimers' = (rxWaitingTimers \ {sn}) \cup missing
    BY <1>2 DEF TimersWith
  <2> QED BY <1>1, <1>3, <1>4, <2>1, <2>2, ContextsDiffer
<1>7. m_reorderingBuffer'[e] = Missing
  <2>1. e \in e .. top
    BY <1>1, <1>3
  <2>2. CASE DOMAIN m_reorderingBuffer = {}
    BY <1>1, <1>4, <2>1, <2>2
  <2>3. CASE m_reorderingBuffer[e] = Missing
    BY <1>1, <1>4, <2>1, <2>3, <1>3
  <2> QED BY <2>2, <2>3, BufferShape
<1>8. ReceiverTypeOK'
  <2>1. IsMap(m_reorderingBuffer', Nat, RxContext)
    <3>1. \A n \in e .. top : n \in Nat /\ m_reorderingBuffer'[n] \in RxContext
      BY <1>1, <1>5, ContextsDiffer
    <3> QED BY <1>2, <1>3, <1>4, <3>1 DEF IsMap
  <2>2. rxWaitingTimers' \subseteq Nat
    BY <1>1, <1>6
  <2> QED BY <1>1, <1>2, <2>1, <2>2 DEF ReceiverTypeOK, ReceiverInv, IsMap
<1>9. BufferIsGapFree'
  <2>1. top \in e .. top
    BY <1>1, <1>3
  <2> QED BY <1>2, <1>4, <1>7, <2>1 DEF BufferIsGapFree, Missing
<1>10. ContextsAreWhole' /\ TimersMatchGaps'
  BY <1>4, <1>5, <1>6 DEF ContextsAreWhole, TimersMatchGaps, Missing, Received
<1>11. StreamIsPrefix' /\ FirstSn <= m_nextExpectedSeqNo'
  BY <1>2 DEF StreamIsPrefix, ReceiverInv
<1>12. StreamStep
  BY <1>2 DEF StreamStep
<1> QED BY <1>8, <1>9, <1>10, <1>11, <1>12 DEF ReceiverInv

\* A waiting timer expires: it is that of the expected number.
LEMMA ExpiryIsReady ==
  ASSUME ReceiverInv, NEW sn \in rxWaitingTimers, RxWaitingTimerExpired(sn),
         NEW buf, buf = MapAssign(m_reorderingBuffer, sn, MarkedReceived(m_reorderingBuffer[sn])),
         NEW timers, timers = rxWaitingTimers \ {sn}
  PROVE  /\ sn = m_nextExpectedSeqNo /\ ReassembleAndReceive(buf, timers)
         /\ ReadyToReassemble(buf, timers)
         /\ DOMAIN buf = DOMAIN m_reorderingBuffer
         /\ \A n \in DOMAIN buf : buf[n] = IF n = sn THEN PassedOver ELSE m_reorderingBuffer[n]
<1> DEFINE e == m_nextExpectedSeqNo
<1>1. rxWaitingTimers = {n \in DOMAIN m_reorderingBuffer : m_reorderingBuffer[n] = Missing}
  BY DEF ReceiverInv, TimersMatchGaps
<1>2. PICK last \in Nat : DOMAIN m_reorderingBuffer = e .. last /\ last >= e
                          /\ m_reorderingBuffer[e] = Missing
  BY <1>1, BufferShape
<1>3. sn = e
  <2>1. e \in rxWaitingTimers
    BY <1>1, <1>2, BufferShape
  <2>2. sn <= e /\ sn \in e .. last
    BY <2>1, <1>1, <1>2 DEF RxWaitingTimerExpired
  <2> QED BY <2>2, BufferShape
<1>4. /\ DOMAIN buf = DOMAIN m_reorderingBuffer
      /\ \A n \in DOMAIN buf : buf[n] = IF n = e THEN PassedOver ELSE m_reorderingBuffer[n]
      /\ buf = [n \in DOMAIN buf |-> buf[n]]
  <2>1. MarkedReceived(m_reorderingBuffer[sn]) = PassedOver
    <3>1. MarkedReceived(Missing) = PassedOver
      BY DEF MarkedReceived, PassedOver, Missing
    <3>2. m_reorderingBuffer[sn] = Missing
      BY <1>2, <1>3
    <3> QED BY <3>1, <3>2
  <2>2. e \in DOMAIN m_reorderingBuffer
    BY <1>2, BufferShape
  <2>3. buf = [n \in DOMAIN m_reorderingBuffer \cup {e} |->
                 IF n = e THEN PassedOver ELSE m_reorderingBuffer[n]]
    BY <1>3, <2>1 DEF MapAssign
  <2> HIDE DEF e
  <2> QED BY <2>2, <2>3
<1>5. ReassembleAndReceive(buf, timers)
  BY DEF RxWaitingTimerExpired
<1>6. \A n \in DOMAIN buf : \/ buf[n] = Missing
                            \/ \E pdu \in Pdu : buf[n] = Received(pdu)
                            \/ n = e /\ buf[n] = PassedOver
  BY <1>4 DEF ReceiverInv, ContextsAreWhole
<1>7. IsMap(buf, Nat, RxContext)
  <2>1. \A n \in DOMAIN buf : n \in Nat /\ buf[n] \in RxContext
    BY <1>4, <1>6, BufferShape, ContextsDiffer
  <2> QED BY <1>4, <2>1 DEF IsMap
<1>8. timers = {n \in DOMAIN buf : buf[n] = Missing}
  BY <1>1, <1>3, <1>4, ContextsDiffer
<1>9. ReadyToReassemble(buf, timers)
  BY <1>2, <1>4, <1>6, <1>7, <1>8 DEF ReadyToReassemble, ReceiverInv, ReceiverTypeOK
<1> QED BY <1>3, <1>4, <1>5, <1>9

LEMMA ExpiryKeepsInv ==
  ASSUME ReceiverInv, NEW sn \in rxWaitingTimers, RxWaitingTimerExpired(sn)
  PROVE  ReceiverInv' /\ StreamStep
<1> DEFINE e == m_nextExpectedSeqNo
           buf == MapAssign(m_reorderingBuffer, sn, MarkedReceived(m_reorderingBuffer[sn]))
           timers == rxWaitingTimers \ {sn}
<1>1. /\ sn = e /\ ReassembleAndReceive(buf, timers) /\ ReadyToReassemble(buf, timers)
      /\ DOMAIN buf = DOMAIN m_reorderingBuffer
      /\ \A n \in DOMAIN buf : buf[n] = IF n = e THEN PassedOver ELSE m_reorderingBuffer[n]
  BY ExpiryIsReady
<1> HIDE DEF buf, timers
<1>2. e \in rxWaitingTimers
  BY <1>1
<1>3. \A n \in DOMAIN buf :
        n # e => n \in DOMAIN m_reorderingBuffer /\ buf[n] = m_reorderingBuffer[n]
  BY <1>1
<1> QED BY <1>1, <1>2, <1>3, ReassembleKeepsInv, ReassembleStep

LEMMA NextKeepsInv ==
  ReceiverInv /\ [ReceiverNext]_receiverVars => ReceiverInv' /\ [StreamStep]_receiverVars
<1> SUFFICES ASSUME ReceiverInv, [ReceiverNext]_receiverVars
             PROVE  ReceiverInv' /\ [StreamStep]_receiverVars
  OBVIOUS
<1>1. ASSUME NEW seqNo \in SeqNo, NEW pdu \in Pdu, ReceivePdu(seqNo, pdu)
      PROVE  ReceiverInv' /\ [StreamStep]_receiverVars
  <2> DEFINE sn == ConvertSeqNo(seqNo)
  <2>1. sn \in Nat
    BY NumbersAssumption, ConvertSeqNoType DEF ReceiverInv, ReceiverTypeOK
  <2>2. ReceiveOld(sn) \/ ReceiveExpected(sn, pdu) \/ ReceiveAhead(sn, pdu)
    BY <1>1 DEF ReceivePdu
  <2> HIDE DEF sn
  <2>3. CASE ReceiveOld(sn)
    BY <2>3 DEF ReceiveOld, receiverVars, ReceiverInv, ReceiverTypeOK, BufferIsGapFree,
                ContextsAreWhole, TimersMatchGaps, StreamIsPrefix, Missing, Received
  <2> QED BY <2>1, <2>2, <2>3, ExpectedKeepsInv, AheadKeepsInv
<1>2. ASSUME NEW sn \in rxWaitingTimers, RxWaitingTimerExpired(sn)
      PROVE  ReceiverInv' /\ StreamStep
  BY <1>2, ExpiryKeepsInv
<1>3. CASE UNCHANGED receiverVars
  BY <1>3 DEF receiverVars, ReceiverInv, ReceiverTypeOK, BufferIsGapFree,
              ContextsAreWhole, TimersMatchGaps, StreamIsPrefix, Missing, Received
<1> QED BY <1>1, <1>2, <1>3 DEF ReceiverNext

\* The inductive invariant of the receiver.
THEOREM ReceiverInvariant == ReceiverSpec => []ReceiverInv
<1>1. ReceiverInit => ReceiverInv
  BY InitEstablishesInv
<1>2. ReceiverInv /\ [ReceiverNext]_receiverVars => ReceiverInv'
  BY NextKeepsInv
<1> QED BY <1>1, <1>2, PTL DEF ReceiverSpec

\* The receiver's variables keep their types.
THEOREM ReceiverTypeCorrect == ReceiverSpec => []ReceiverTypeOK
<1>1. ReceiverInv => ReceiverTypeOK
  BY DEF ReceiverInv
<1> QED BY <1>1, ReceiverInvariant, PTL

\* ReceivePdu and RxWaitingTimerExpired leave no gap in the reordering buffer
\* and nothing in it that could have been processed.
THEOREM ReceiverGapFree == ReceiverSpec => []BufferIsGapFree
<1>1. ReceiverInv => BufferIsGapFree
  BY DEF ReceiverInv
<1> QED BY <1>1, ReceiverInvariant, PTL

\* A waiting timer runs for exactly the missing numbers: the fatal error of
\* RxWaitingTimerExpired is unreachable.
THEOREM ReceiverTimersMatch == ReceiverSpec => []TimersMatchGaps
<1>1. ReceiverInv => TimersMatchGaps
  BY DEF ReceiverInv
<1> QED BY <1>1, ReceiverInvariant, PTL

\* Every number before the expected one has been decided, and no other.
THEOREM ReceiverInOrder == ReceiverSpec => []StreamIsPrefix
<1>1. ReceiverInv => StreamIsPrefix
  BY DEF ReceiverInv
<1> QED BY <1>1, ReceiverInvariant, PTL

\* What has been processed stays, and only the expected number, when its own
\* waiting timer ran, is passed over.
THEOREM ReceiverStreamOnlyGrows == ReceiverSpec => StreamOnlyGrows
<1>1. ReceiverInv /\ [ReceiverNext]_receiverVars => [StreamStep]_receiverVars
  BY NextKeepsInv
<1> QED BY <1>1, ReceiverInvariant, PTL DEF ReceiverSpec, StreamOnlyGrows

\* The four together: buffer, timers and stream tell the same of every number.
THEOREM ReceiverIsConsistent == ReceiverSpec => []ReceiverConsistent
<1>1. ReceiverInv => ReceiverConsistent
  BY DEF ReceiverInv, ReceiverConsistent
<1> QED BY <1>1, ReceiverInvariant, PTL

(***************************************************************************)
(* The two halves of an ARQ connection together.  A step of the connection *)
(* is a step of each half, so what is proved of the halves holds here.     *)
(* What the halves cannot know by themselves is that the receiver stays    *)
(* within two windows of the transmitter: then the one-byte number of a    *)
(* PDU is extended to the number it was sent with, on the way there as on  *)
(* the way back.                                                           *)
(***************************************************************************)

\* What is on its way has been sent.
ChannelsOK ==
  /\ pduChannel \subseteq [pdu : Nat, m_retransmissionCount : Nat]
  /\ \A copy \in pduChannel : copy.pdu <= m_currSeqNo
  /\ ackChannel \subseteq Nat
  /\ \A p \in ackChannel : p <= m_currSeqNo

\* The receiver expects a number at most two windows behind the last one that
\* was handed out.
WithinWindows ==
  /\ m_nextExpectedSeqNo <= m_currSeqNo + 1
  /\ m_currSeqNo <= m_nextExpectedSeqNo + 2 * WindowSize

\* What waits in the reordering buffer was sent, and is what was sent.
BufferedAsSent ==
  \A n \in DOMAIN m_reorderingBuffer :
    n <= m_currSeqNo /\ m_reorderingBuffer[n] \in {Missing, Received(n)}

\* What was handed up is what was sent.
HandedUpAsSent == \A n \in DOMAIN stream : stream[n] \in {n, NoPdu}

\* Only what has reached the receiver is acknowledged.
AcksAreTrue == \A p \in ackChannel : HasReached(p)

LinkInv ==
  /\ Inv
  /\ ReceiverInv
  /\ ChannelsOK
  /\ WithinWindows
  /\ BufferedAsSent
  /\ HandedUpAsSent
  /\ AcksAreTrue

-----------------------------------------------------------------------------
\* A number of the header is that of a PDU.
LEMMA HeaderNumber == \A p \in Nat : p % MaxSn \in SeqNo
  BY NumbersAssumption, DivModType DEF SeqNo

\* A step of the connection is one of the transmitter, or leaves it alone.
LEMMA LinkStepOfSender ==
  LinkInv /\ [LinkNext]_linkVars => [SenderNext]_senderVars
<1> SUFFICES ASSUME LinkInv, [LinkNext]_linkVars PROVE [SenderNext]_senderVars
  OBVIOUS
<1>1. CASE Enque
  BY <1>1 DEF Enque, SenderNext
<1>2. CASE SendNew
  <2>1. PICK bytes \in TxOpportunities, payload \in 1 .. txQueueBytes : TransmitNew(bytes, payload)
    BY <1>2 DEF SendNew
  <2>2. payload \in 1 .. bytes
    <3>1. payload + HeaderSize <= bytes /\ txQueueBytes \in Nat
      BY <2>1 DEF TransmitNew, LinkInv, Inv, SenderTypeOK
    <3> QED BY <3>1, SenderAssumption
  <2> QED BY <1>2, <2>1, <2>2 DEF SendNew, SenderNext, NotifyTxOpportunity
<1>3. CASE SendAgain
  BY <1>3 DEF SendAgain, SenderNext, NotifyTxOpportunity
<1>4. CASE TimerExpires
  BY <1>4 DEF TimerExpires, SenderNext
<1>5. ASSUME NEW pdu \in ackChannel, AckInTime(pdu), ArriveAck(pdu) PROVE SenderNext
  <2>1. pdu \in Nat /\ pdu <= m_currSeqNo /\ m_currSeqNo \in Int /\ MaxSn \in Nat
    BY NumbersAssumption DEF LinkInv, ChannelsOK, Inv, SenderTypeOK
  <2>2. pdu \in LastCycle
    BY <1>5, <2>1 DEF AckInTime, LastCycle
  <2> QED BY <1>5, <2>2 DEF ArriveAck, SenderNext
<1>6. CASE UNCHANGED senderVars
  BY <1>6
<1> QED BY <1>1, <1>2, <1>3, <1>4, <1>5, <1>6
        DEF LinkNext, linkVars, Arrive, Lose, WaitingEnds

\* A step of the connection is one of the receiver, or leaves it alone.
LEMMA LinkStepOfReceiver ==
  LinkInv /\ [LinkNext]_linkVars => [ReceiverNext]_receiverVars
<1> SUFFICES ASSUME LinkInv, [LinkNext]_linkVars PROVE [ReceiverNext]_receiverVars
  OBVIOUS
<1>1. ASSUME NEW copy \in pduChannel, Arrive(copy) PROVE ReceiverNext
  <2>1. copy.pdu \in Nat
    BY DEF LinkInv, ChannelsOK
  <2>2. copy.pdu % MaxSn \in SeqNo /\ copy.pdu \in Pdu
    BY <2>1, HeaderNumber, LinkAssumption
  <2> QED BY <1>1, <2>2 DEF Arrive, ReceiverNext
<1>2. CASE WaitingEnds
  BY <1>2 DEF WaitingEnds, ReceiverNext
<1>3. CASE UNCHANGED receiverVars
  BY <1>3
<1> QED BY <1>1, <1>2, <1>3
        DEF LinkNext, linkVars, Enque, SendNew, SendAgain, TimerExpires, ArriveAck, Lose

-----------------------------------------------------------------------------
\* ConvertSeqNo takes the number of a PDU that is within two windows of the
\* expected one back to it: of the numbers with the same remainder, it is the
\* one in that range.
LEMMA ConvertsWithinWindows ==
  ASSUME m_nextExpectedSeqNo \in Nat, NEW p \in 0 .. U32 - 1,
         p <= m_nextExpectedSeqNo + 2 * WindowSize,
         m_nextExpectedSeqNo <= p + 2 * WindowSize
  PROVE  ConvertSeqNo(p % MaxSn) = p
<1> DEFINE M == MaxSn
           e == m_nextExpectedSeqNo
           W == WindowSize
           R == e \div M
           r == e % M
           q == p \div M
           s == p % M
           adjusted == CASE s - r > 2 * W -> R - 1
                         [] r - s > 2 * W -> R + 1
                         [] OTHER -> R
<1>1. /\ M \in Nat \ {0} /\ U32 \in Nat \ {0} /\ W \in Nat /\ M > 4 * W
      /\ e \in Nat /\ p \in Nat /\ p < U32
  BY NumbersAssumption, LinkAssumption
<1>2. R \in Int /\ q \in Int /\ r \in 0 .. M - 1 /\ s \in 0 .. M - 1
  BY <1>1, DivModType
<1>3. e = R * M + r /\ p = q * M + s
  BY <1>1, DivModSplit
<1>4. ConvertSeqNo(p % MaxSn) = (adjusted * M + s) % U32
  BY DEF ConvertSeqNo
<1> HIDE DEF R, r, q, s
<1>5. /\ R * M \in Int /\ q * M \in Int /\ (R - 1) * M = R * M - M /\ (R + 1) * M = R * M + M
      /\ q < R - 1 => q * M + M <= (R - 1) * M
      /\ R + 1 < q => (R + 1) * M + M <= q * M
  <2>1. R - 1 \in Int /\ R + 1 \in Int
    BY <1>2
  <2> QED BY <1>1, <1>2, <2>1, TimesType, TimesMonotonic
<1> DEFINE x == R * M
           y == q * M
<1>6. /\ x \in Int /\ y \in Int /\ e = x + r /\ p = y + s
      /\ q < R - 1 => y + M <= x - M
      /\ R + 1 < q => x + M + M <= y
      /\ q = R => y = x
      /\ q = R - 1 => y = x - M
      /\ q = R + 1 => y = x + M
  BY <1>3, <1>5
<1>7. /\ p <= e + 2 * W /\ e <= p + 2 * W
  OBVIOUS
<1> HIDE DEF x, y, e, W
<1>8. q \in {R - 1, R, R + 1}
  BY <1>1, <1>2, <1>6, <1>7
<1>9. /\ q = R => ~(s - r > 2 * W) /\ ~(r - s > 2 * W)
      /\ q = R - 1 => s - r > 2 * W
      /\ q = R + 1 => ~(s - r > 2 * W) /\ r - s > 2 * W
  BY <1>1, <1>2, <1>6, <1>7
<1>10. adjusted = q
  <2>1. CASE q = R
    BY <1>9, <2>1
  <2>2. CASE q = R - 1
    <3>1. ~(r - s > 2 * W)
      BY <1>1, <1>2, <1>9, <2>2
    <3> QED BY <1>9, <2>2, <3>1
  <2>3. CASE q = R + 1
    BY <1>2, <1>9, <2>3
  <2> QED BY <1>8, <2>1, <2>2, <2>3
<1>11. p % U32 = p
  BY <1>1, ModSmall
<1> HIDE DEF adjusted
<1> QED BY <1>3, <1>4, <1>10, <1>11

\* So a PDU that arrives in time gets its number back.
LEMMA ArrivalConverts ==
  ASSUME LinkInv, NEW copy \in pduChannel, InTime(copy)
  PROVE  ConvertSeqNo(copy.pdu % MaxSn) = copy.pdu
<1> DEFINE p == copy.pdu
<1>1. p \in Nat /\ p <= m_currSeqNo
  BY DEF LinkInv, ChannelsOK
<1>2. m_nextExpectedSeqNo \in Nat /\ m_currSeqNo \in Int /\ m_currSeqNo <= U32 - 1 /\ U32 \in Nat
      /\ WindowSize \in Nat
  BY NumbersAssumption DEF LinkInv, Inv, SenderTypeOK, ReceiverInv, ReceiverTypeOK
<1>3. m_nextExpectedSeqNo <= p + 2 * WindowSize
  BY <1>1, <1>2 DEF InTime
<1>4. p <= m_nextExpectedSeqNo + 2 * WindowSize
  BY <1>1, <1>2 DEF LinkInv, WithinWindows
<1> HIDE DEF p
<1>5. p \in 0 .. U32 - 1
  BY <1>1, <1>2
<1>6. ConvertSeqNo(p % MaxSn) = p
  BY <1>2, <1>3, <1>4, <1>5, ConvertsWithinWindows
<1> QED BY <1>6 DEF p

-----------------------------------------------------------------------------
\* What the receiver does to the connection, whatever arrives or expires: it
\* decides numbers in order and none that was not handed out, and what has
\* reached it stays reached.
ReceiverProgress ==
  /\ m_nextExpectedSeqNo <= m_nextExpectedSeqNo'
  /\ m_nextExpectedSeqNo' <= m_currSeqNo + 1
  /\ BufferedAsSent'
  /\ HandedUpAsSent'
  /\ \A p \in Nat : HasReached(p) => HasReached(p)'

\* The loop, on a buffer that still holds what has reached the receiver.
LEMMA ReassembleProgress ==
  ASSUME LinkInv, NEW buf, NEW timers, ReadyToReassemble(buf, timers),
         ReassembleAndReceive(buf, timers), m_currSeqNo' = m_currSeqNo,
         \A n \in DOMAIN buf :
           n <= m_currSeqNo /\ buf[n] \in {Missing, Received(n), PassedOver},
         \A n \in DOMAIN m_reorderingBuffer :
           n \in DOMAIN buf /\ (m_reorderingBuffer[n] = Received(n) => buf[n] = Received(n))
  PROVE  ReceiverProgress
<1> DEFINE e == m_nextExpectedSeqNo
           P == Poppable(buf)
           m == After(P)
<1>1. /\ P \subseteq DOMAIN buf /\ P = e .. m - 1 /\ Cardinality(P) \in Nat
      /\ m \in DOMAIN buf => buf[m] = Missing
  BY PoppedInterval
<1>2. /\ e \in Nat /\ m \in Nat /\ m >= e
      /\ m_currSeqNo \in Int /\ e <= m_currSeqNo + 1
  <2>1. e \in Nat /\ m_currSeqNo \in Int /\ e <= m_currSeqNo + 1
    BY NumbersAssumption DEF LinkInv, Inv, SenderTypeOK, ReceiverInv, ReceiverTypeOK, WithinWindows
  <2> QED BY <1>1, <2>1 DEF After
<1>3. /\ m_nextExpectedSeqNo' = m
      /\ DOMAIN m_reorderingBuffer' = DOMAIN buf \ P
      /\ \A n \in DOMAIN buf \ P : m_reorderingBuffer'[n] = buf[n]
      /\ DOMAIN stream' = DOMAIN stream \cup P
      /\ \A n \in DOMAIN stream' : stream'[n] = IF n \in P THEN buf[n].m_pdu ELSE stream[n]
  BY DEF ReassembleAndReceive
<1> HIDE DEF P, m
<1>4. m <= m_currSeqNo + 1
  <2>1. CASE m = e
    BY <1>2, <2>1
  <2>2. CASE m > e
    <3>1. m - 1 \in P
      BY <1>1, <1>2, <2>2
    <3>2. m - 1 <= m_currSeqNo
      BY <1>1, <3>1
    <3> QED BY <1>2, <3>2
  <2> QED BY <1>2, <2>1, <2>2
<1>5. BufferedAsSent'
  <2> SUFFICES ASSUME NEW n \in DOMAIN buf \ P
               PROVE  n <= m_currSeqNo /\ buf[n] \in {Missing, Received(n)}
    BY <1>3 DEF BufferedAsSent, Missing, Received
  <2>1. CASE n = e
    <3>1. m = e
      BY <1>1, <1>2, <2>1
    <3> QED BY <1>1, <2>1, <3>1
  <2>2. CASE n # e
    <3>1. buf[n] # PassedOver
      BY <2>2, ContextsDiffer, ReceiverAssumption DEF ReadyToReassemble, PassedOver, Received
    <3> QED BY <3>1
  <2> QED BY <2>1, <2>2
<1>6. HandedUpAsSent'
  <2>1. ASSUME NEW n \in P PROVE buf[n].m_pdu \in {n, NoPdu}
    BY <1>1 DEF Missing, Received, PassedOver
  <2> QED BY <1>3, <2>1 DEF HandedUpAsSent, LinkInv
<1>7. ASSUME NEW p \in Nat, HasReached(p) PROVE HasReached(p)'
  <2>1. CASE p < e
    BY <1>2, <1>3, <2>1 DEF HasReached
  <2>2. CASE p \in DOMAIN m_reorderingBuffer /\ m_reorderingBuffer[p] = Received(p)
    <3>1. p \in DOMAIN buf /\ buf[p] = Received(p)
      BY <2>2
    <3>2. CASE p \in P
      BY <1>1, <1>2, <1>3, <3>2 DEF HasReached
    <3>3. CASE p \notin P
      BY <1>3, <3>1, <3>3 DEF HasReached, Received
    <3> QED BY <3>2, <3>3
  <2> QED BY <1>7, <2>1, <2>2 DEF HasReached
<1> QED BY <1>2, <1>3, <1>4, <1>5, <1>6, <1>7 DEF ReceiverProgress

\* A PDU arrives in time: it is taken for what it is.
LEMMA ArriveProgress ==
  ASSUME LinkInv, NEW copy \in pduChannel, InTime(copy), Arrive(copy)
  PROVE  ReceiverProgress /\ HasReached(copy.pdu)'
<1> DEFINE p == copy.pdu
           buf == MapAssign(m_reorderingBuffer, p, Received(p))
           timers == rxWaitingTimers \ {p}
<1>1. /\ p \in Nat /\ p \in Pdu /\ p <= m_currSeqNo
      /\ m_currSeqNo' = m_currSeqNo /\ m_nextExpectedSeqNo \in Nat
  BY LinkAssumption DEF LinkInv, ChannelsOK, Arrive, senderVars, ReceiverInv, ReceiverTypeOK
<1>2. ReceiveOld(p) \/ ReceiveExpected(p, p) \/ ReceiveAhead(p, p)
  BY ArrivalConverts DEF Arrive, ReceivePdu
<1> HIDE DEF p
<1>3. DOMAIN buf = DOMAIN m_reorderingBuffer \cup {p}
      /\ \A n \in DOMAIN buf : buf[n] = IF n = p THEN Received(p) ELSE m_reorderingBuffer[n]
  BY DEF MapAssign
<1>4. /\ \A n \in DOMAIN buf : n <= m_currSeqNo /\ buf[n] \in {Missing, Received(n)}
      /\ \A n \in DOMAIN m_reorderingBuffer :
           n \in DOMAIN buf /\ (m_reorderingBuffer[n] = Received(n) => buf[n] = Received(n))
  BY <1>1, <1>3 DEF LinkInv, BufferedAsSent
<1>5. CASE ReceiveOld(p)
  <2>1. UNCHANGED receiverVars /\ p < m_nextExpectedSeqNo
    BY <1>5 DEF ReceiveOld
  <2>2. ReceiverProgress
    BY <1>1, <2>1 DEF ReceiverProgress, receiverVars, LinkInv, WithinWindows, BufferedAsSent,
                      HandedUpAsSent, HasReached, Missing, Received
  <2> QED BY <2>1, <2>2 DEF HasReached, p, receiverVars
<1>6. CASE ReceiveExpected(p, p)
  <2>1. p = m_nextExpectedSeqNo /\ ReassembleAndReceive(buf, timers) /\ ReadyToReassemble(buf, timers)
    BY <1>1, <1>6, ExpectedIsReady DEF LinkInv
  <2> HIDE DEF buf, timers
  <2>2. ReceiverProgress
    BY <1>1, <1>4, <2>1, ReassembleProgress
  <2>3. HasReached(p)'
    <3>1. p \in Poppable(buf)
      <4>1. p \in DOMAIN buf /\ buf[p].m_rxStatus
        BY <1>3 DEF Received
      <4>2. \A j \in DOMAIN buf : j >= p
        BY <1>1, <2>1 DEF ReadyToReassemble
      <4>3. m_nextExpectedSeqNo .. p = {p}
        BY <1>1, <2>1
      <4> QED BY <2>1, <4>1, <4>2, <4>3 DEF Poppable
    <3>2. Poppable(buf) = m_nextExpectedSeqNo .. After(Poppable(buf)) - 1
          /\ Cardinality(Poppable(buf)) \in Nat
      BY <2>1, PoppedInterval
    <3>3. m_nextExpectedSeqNo' = After(Poppable(buf))
      BY <2>1 DEF ReassembleAndReceive
    <3>4. p < m_nextExpectedSeqNo'
      BY <1>1, <3>1, <3>2, <3>3 DEF After
    <3> QED BY <3>4 DEF HasReached
  <2> QED BY <2>2, <2>3 DEF p
<1>7. CASE ReceiveAhead(p, p)
  <2> DEFINE missing == MissingBefore(p, buf)
  <2>1. /\ p > m_nextExpectedSeqNo
        /\ m_reorderingBuffer' =
             [n \in DOMAIN buf \cup missing |-> IF n \in missing THEN Missing ELSE buf[n]]
        /\ m_nextExpectedSeqNo' = m_nextExpectedSeqNo /\ stream' = stream
    BY <1>7 DEF ReceiveAhead
  <2>2. missing = (m_nextExpectedSeqNo .. p - 1) \ DOMAIN buf
    BY DEF MissingBefore
  <2> HIDE DEF buf, missing
  <2>3. \A n \in missing : n < p /\ n \in Nat /\ n \notin DOMAIN buf
    BY <1>1, <2>2
  <2>4. \A n \in DOMAIN buf : n \in DOMAIN m_reorderingBuffer' /\ m_reorderingBuffer'[n] = buf[n]
    BY <2>1, <2>3
  <2>5. BufferedAsSent'
    <3>1. m_currSeqNo \in Int
      BY NumbersAssumption DEF LinkInv, Inv, SenderTypeOK
    <3>2. \A n \in missing : n <= m_currSeqNo
      BY <1>1, <2>3, <3>1
    <3> QED BY <1>1, <1>4, <2>1, <3>2 DEF BufferedAsSent, Missing, Received
  <2>6. HandedUpAsSent'
    BY <2>1 DEF HandedUpAsSent, LinkInv
  <2>7. \A q \in Nat : HasReached(q) => HasReached(q)'
    BY <1>4, <2>1, <2>4 DEF HasReached, Received
  <2>8. HasReached(p)'
    BY <1>3, <2>4 DEF HasReached, Received
  <2> QED BY <1>1, <2>1, <2>5, <2>6, <2>7, <2>8 DEF ReceiverProgress, LinkInv, WithinWindows, p
<1> QED BY <1>2, <1>5, <1>6, <1>7

\* The receiver stops waiting for a PDU.
LEMMA WaitingEndsProgress ==
  ASSUME LinkInv, WaitingEnds
  PROVE  ReceiverProgress
<1>1. PICK sn \in rxWaitingTimers : RxWaitingTimerExpired(sn)
  BY DEF WaitingEnds
<1> DEFINE buf == MapAssign(m_reorderingBuffer, sn, MarkedReceived(m_reorderingBuffer[sn]))
           timers == rxWaitingTimers \ {sn}
<1>2. /\ sn = m_nextExpectedSeqNo /\ ReassembleAndReceive(buf, timers)
      /\ ReadyToReassemble(buf, timers)
      /\ DOMAIN buf = DOMAIN m_reorderingBuffer
      /\ \A n \in DOMAIN buf : buf[n] = IF n = sn THEN PassedOver ELSE m_reorderingBuffer[n]
  BY <1>1, ExpiryIsReady DEF LinkInv
<1> HIDE DEF buf, timers
<1>3. m_reorderingBuffer[sn] = Missing
  BY DEF LinkInv, ReceiverInv, TimersMatchGaps
<1>4. \A n \in DOMAIN buf : n <= m_currSeqNo /\ buf[n] \in {Missing, Received(n), PassedOver}
  BY <1>2 DEF LinkInv, BufferedAsSent
<1>5. \A n \in DOMAIN m_reorderingBuffer :
        n \in DOMAIN buf /\ (m_reorderingBuffer[n] = Received(n) => buf[n] = Received(n))
  BY <1>2, <1>3 DEF Missing, Received
<1>6. m_currSeqNo' = m_currSeqNo
  BY DEF WaitingEnds, senderVars
<1> QED BY <1>2, <1>4, <1>5, <1>6, ReassembleProgress

-----------------------------------------------------------------------------
\* What the transmitter, the channel and the ACKs do leaves the receiver as it
\* is; only SendNew hands out a number, and one that is in step.
LEMMA OtherStepsKeepTheRest ==
  ASSUME LinkInv, UNCHANGED receiverVars,
         \/ m_currSeqNo' = m_currSeqNo
         \/ InStep /\ m_currSeqNo' = m_currSeqNo + 1
  PROVE  /\ WithinWindows' /\ BufferedAsSent' /\ HandedUpAsSent'
         /\ m_currSeqNo <= m_currSeqNo'
         /\ \A p \in Nat : HasReached(p)' <=> HasReached(p)
<1>1. /\ m_nextExpectedSeqNo \in Nat /\ m_currSeqNo \in Int /\ WindowSize \in Nat
      /\ \A n \in DOMAIN m_reorderingBuffer : n \in Nat
  BY NumbersAssumption DEF LinkInv, Inv, SenderTypeOK, ReceiverInv, ReceiverTypeOK, IsMap
<1>2. /\ m_nextExpectedSeqNo' = m_nextExpectedSeqNo
      /\ m_reorderingBuffer' = m_reorderingBuffer /\ stream' = stream
  BY DEF receiverVars
<1>3. WithinWindows'
  BY <1>1, <1>2 DEF LinkInv, WithinWindows, InStep
<1>4. m_currSeqNo <= m_currSeqNo'
  BY <1>1
<1>5. BufferedAsSent'
  BY <1>1, <1>2, <1>4 DEF LinkInv, BufferedAsSent, Missing, Received
<1>6. HandedUpAsSent'
  BY <1>2 DEF LinkInv, HandedUpAsSent
<1>7. \A p \in Nat : HasReached(p)' <=> HasReached(p)
  BY <1>2 DEF HasReached, Received
<1> QED BY <1>3, <1>4, <1>5, <1>6, <1>7

\* The number of a PDU sent again was handed out before.
LEMMA SentAgainWasSent ==
  ASSUME LinkInv, NEW bytes, Retransmit(bytes)
  PROVE  LET context == m_retxBuffer[Begin(m_retxBuffer)]
         IN  /\ context.pdu \in Nat /\ context.pdu <= m_currSeqNo
             /\ context.m_retransmissionCount \in Nat
<1>1. Begin(m_retxBuffer) \in DOMAIN m_retxBuffer
  <2>1. DOMAIN m_retxBuffer # {}
    BY DEF Retransmit, LinkInv, Inv, SenderTypeOK, IsMap, EmptyMap
  <2>2. DOMAIN m_retxBuffer \in SUBSET (0 .. MaxSn - 1) /\ MaxSn - 1 \in Nat
    BY NumbersAssumption DEF LinkInv, Inv, SenderTypeOK, IsMap, SeqNo
  <2>3. \E x \in DOMAIN m_retxBuffer : \A y \in DOMAIN m_retxBuffer : x <= y
    BY <2>1, <2>2, LeastElement
  <2> QED BY <2>3 DEF Begin, Min
<1> DEFINE context == m_retxBuffer[Begin(m_retxBuffer)]
<1>2. context \in Context /\ context.pdu \in LastCycle
  BY <1>1, ContextFacts DEF LinkInv
<1> HIDE DEF context
<1>3. context.pdu \in Nat /\ context.pdu <= m_currSeqNo /\ context.m_retransmissionCount \in Nat
  BY <1>2, NumbersAssumption DEF Context, LastCycle, LinkInv, Inv, SenderTypeOK
<1> QED BY <1>3 DEF context

LEMMA LinkInitInv == LinkInit => LinkInv
<1> SUFFICES ASSUME LinkInit PROVE LinkInv
  OBVIOUS
<1>1. Inv /\ ReceiverInv
  BY SenderInitInv, InitEstablishesInv DEF LinkInit
<1>2. /\ m_nextExpectedSeqNo = FirstSn /\ m_currSeqNo = FirstSn - 1
      /\ FirstSn \in Nat /\ WindowSize \in Nat
      /\ DOMAIN m_reorderingBuffer = {} /\ DOMAIN stream = {}
      /\ pduChannel = {} /\ ackChannel = {}
  BY NumbersAssumption DEF LinkInit, SenderInit, SeqNoInit, ReceiverInit, EmptyMap
<1>3. WithinWindows
  BY <1>2 DEF WithinWindows
<1> QED BY <1>1, <1>2, <1>3
        DEF LinkInv, ChannelsOK, BufferedAsSent, HandedUpAsSent, AcksAreTrue

LEMMA LinkNextKeepsInv == LinkInv /\ [LinkNext]_linkVars => LinkInv'
<1> SUFFICES ASSUME LinkInv, [LinkNext]_linkVars PROVE LinkInv'
  OBVIOUS
<1>1. Inv' /\ ReceiverInv'
  BY LinkStepOfSender, SenderNextKeepsInv, LinkStepOfReceiver, NextKeepsInv DEF LinkInv
<1>2. m_currSeqNo \in Int /\ WindowSize \in Nat /\ m_nextExpectedSeqNo \in Nat
  BY NumbersAssumption DEF LinkInv, Inv, SenderTypeOK, ReceiverInv, ReceiverTypeOK
<1>3. /\ \A copy \in pduChannel : /\ copy \in [pdu : Nat, m_retransmissionCount : Nat]
                                  /\ copy.pdu \in Nat /\ copy.pdu <= m_currSeqNo
      /\ \A p \in ackChannel : p \in Nat /\ p <= m_currSeqNo /\ HasReached(p)
  BY DEF LinkInv, ChannelsOK, AcksAreTrue
<1> DEFINE Rest == ChannelsOK /\ WithinWindows /\ BufferedAsSent /\ HandedUpAsSent /\ AcksAreTrue
<1>4. ASSUME UNCHANGED receiverVars, m_currSeqNo' = m_currSeqNo,
             pduChannel' \subseteq pduChannel, ackChannel' \subseteq ackChannel
      PROVE  Rest'
  BY <1>3, <1>4, OtherStepsKeepTheRest DEF ChannelsOK, AcksAreTrue
<1>5. ASSUME UNCHANGED <<receiverVars, ackChannel>>, NEW pdu \in Nat, NEW count \in Nat,
             Put(pdu, count), pdu <= m_currSeqNo',
             m_currSeqNo' = m_currSeqNo \/ (InStep /\ m_currSeqNo' = m_currSeqNo + 1)
      PROVE  Rest'
  <2>1. m_currSeqNo' \in Int /\ m_currSeqNo <= m_currSeqNo'
    BY <1>2, <1>5
  <2>2. ChannelsOK'
    BY <1>2, <1>3, <1>5, <2>1 DEF ChannelsOK, Put
  <2>3. AcksAreTrue'
    BY <1>3, <1>5, OtherStepsKeepTheRest DEF AcksAreTrue
  <2> QED BY <1>5, <2>2, <2>3, OtherStepsKeepTheRest
<1>6. ASSUME ReceiverProgress, m_currSeqNo' = m_currSeqNo, pduChannel' \subseteq pduChannel,
             \A p \in ackChannel' : p \in ackChannel \/ (p \in Nat /\ p <= m_currSeqNo /\ HasReached(p)')
      PROVE  Rest'
  <2>1. ChannelsOK'
    BY <1>3, <1>6 DEF ChannelsOK
  <2>2. WithinWindows'
    <3>1. m_nextExpectedSeqNo' \in Nat
      BY <1>1 DEF ReceiverInv, ReceiverTypeOK
    <3>2. m_nextExpectedSeqNo <= m_nextExpectedSeqNo' /\ m_nextExpectedSeqNo' <= m_currSeqNo + 1
      BY <1>6 DEF ReceiverProgress
    <3>3. m_currSeqNo <= m_nextExpectedSeqNo + 2 * WindowSize
      BY DEF LinkInv, WithinWindows
    <3>4. m_currSeqNo <= m_nextExpectedSeqNo' + 2 * WindowSize
      <4> DEFINE two == 2 * WindowSize
                 next == m_nextExpectedSeqNo'
      <4>1. two \in Int /\ next \in Int
        BY <1>2, <3>1
      <4>2. m_nextExpectedSeqNo <= next /\ m_currSeqNo <= m_nextExpectedSeqNo + two
        BY <3>2, <3>3
      <4> HIDE DEF two, next
      <4>3. m_currSeqNo <= next + two
        BY <1>2, <4>1, <4>2
      <4> QED BY <4>3 DEF two, next
    <3>5. m_currSeqNo' = m_currSeqNo
      BY <1>6
    <3> QED BY <3>2, <3>4, <3>5 DEF WithinWindows
  <2>3. AcksAreTrue'
    BY <1>3, <1>6 DEF AcksAreTrue, ReceiverProgress
  <2> QED BY <1>6, <2>1, <2>2, <2>3 DEF ReceiverProgress
<1>7. Rest'
  <2>1. CASE Enque
    BY <1>4, <2>1 DEF Enque, EnquePdu
  <2>2. CASE InStep /\ SendNew
    <3>1. m_currSeqNo' = m_currSeqNo + 1
      BY <2>2 DEF SendNew, TransmitNew, NextSequenceNumber
    <3>2. m_currSeqNo + 1 \in Nat
      BY NumbersAssumption DEF LinkInv, Inv, SenderTypeOK
    <3>3. m_currSeqNo + 1 <= m_currSeqNo'
      BY <3>1, <3>2
    <3> QED BY <1>5, <2>2, <3>1, <3>2, <3>3 DEF SendNew
  <2>3. CASE SendAgain
    <3>1. PICK bytes \in TxOpportunities : Retransmit(bytes)
      BY <2>3 DEF SendAgain
    <3>2. m_currSeqNo' = m_currSeqNo
      BY <3>1 DEF Retransmit
    <3> DEFINE context == m_retxBuffer[Begin(m_retxBuffer)]
    <3>3. /\ context.pdu \in Nat /\ context.pdu <= m_currSeqNo
          /\ context.m_retransmissionCount + 1 \in Nat
      BY <3>1, SentAgainWasSent
    <3>4. Put(context.pdu, context.m_retransmissionCount + 1) /\ UNCHANGED <<receiverVars, ackChannel>>
      BY <2>3 DEF SendAgain
    <3> HIDE DEF context
    <3> QED BY <1>5, <3>2, <3>3, <3>4
  <2>4. CASE TimerExpires
    BY <1>4, <2>4 DEF TimerExpires, ArqReTxTimerExpired, MoveToRetxBuffer, GiveUp, CleanUp, Release
  <2>5. ASSUME NEW copy \in pduChannel, InTime(copy), Arrive(copy) PROVE Rest'
    <3>1. ReceiverProgress /\ HasReached(copy.pdu)'
      BY <2>5, ArriveProgress
    <3>2. m_currSeqNo' = m_currSeqNo
      BY <2>5 DEF Arrive, senderVars
    <3> QED BY <1>3, <1>6, <2>5, <3>1, <3>2 DEF Arrive
  <2>6. ASSUME NEW pdu \in ackChannel, ArriveAck(pdu) PROVE Rest'
    BY <1>4, <2>6 DEF ArriveAck, ReceiveAck, CleanUp, Release
  <2>7. CASE Lose
    BY <1>4, <2>7 DEF Lose, senderVars
  <2>8. CASE WaitingEnds
    <3>1. ReceiverProgress
      BY <2>8, WaitingEndsProgress
    <3>2. m_currSeqNo' = m_currSeqNo /\ UNCHANGED <<pduChannel, ackChannel>>
      BY <2>8 DEF WaitingEnds, senderVars
    <3> QED BY <1>6, <3>1, <3>2
  <2>9. CASE UNCHANGED linkVars
    BY <1>4, <2>9 DEF linkVars, senderVars
  <2> QED BY <2>1, <2>2, <2>3, <2>4, <2>5, <2>6, <2>7, <2>8, <2>9 DEF LinkNext
<1> QED BY <1>1, <1>7 DEF LinkInv

\* Every step of the connection is one that the service allows, or none.
LEMMA LinkStepOfService ==
  LinkInv /\ [LinkNext]_linkVars => [Service!ServiceNext]_Service!serviceVars
<1> SUFFICES ASSUME LinkInv, [LinkNext]_linkVars
             PROVE  [Service!ServiceNext]_Service!serviceVars
  OBVIOUS
<1>1. LinkInv' /\ [StreamStep]_receiverVars
  BY LinkNextKeepsInv, LinkStepOfReceiver, NextKeepsInv DEF LinkInv
<1>2. /\ m_nextExpectedSeqNo \in Nat /\ m_nextExpectedSeqNo' \in Nat /\ m_currSeqNo \in Int
      /\ DOMAIN stream = FirstSn .. m_nextExpectedSeqNo - 1
      /\ DOMAIN stream' = FirstSn .. m_nextExpectedSeqNo' - 1
      /\ stream = [n \in DOMAIN stream |-> stream[n]]
      /\ stream' = [n \in DOMAIN stream' |-> stream'[n]]
      /\ FirstSn \in Nat
  BY <1>1, NumbersAssumption
  DEF LinkInv, Inv, SenderTypeOK, ReceiverInv, ReceiverTypeOK, StreamIsPrefix, IsMap
<1>3. CASE InStep /\ SendNew
  <2>1. m_currSeqNo' = m_currSeqNo + 1 /\ UNCHANGED <<m_nextExpectedSeqNo, stream>>
    BY <1>3 DEF SendNew, TransmitNew, NextSequenceNumber, receiverVars
  <2> QED BY <2>1 DEF Service!ServiceNext, Service!Accept
<1>4. ASSUME ReceiverProgress, m_currSeqNo' = m_currSeqNo
      PROVE  [Service!ServiceNext]_Service!serviceVars
  <2> DEFINE last == m_nextExpectedSeqNo' - 1
  <2>1. \A n \in DOMAIN stream : n \in DOMAIN stream' /\ stream'[n] = stream[n]
    BY <1>1 DEF StreamStep, receiverVars
  <2>2. \A n \in DOMAIN stream' : stream'[n] \in {n, NoPdu} /\ n \in Nat
    BY <1>2, <1>4 DEF ReceiverProgress, HandedUpAsSent
  <2>3. CASE m_nextExpectedSeqNo' = m_nextExpectedSeqNo
    <3>1. stream' = stream
      BY <1>2, <2>1, <2>3
    <3> QED BY <1>4, <2>3, <3>1 DEF Service!serviceVars
  <2>4. CASE m_nextExpectedSeqNo' # m_nextExpectedSeqNo
    <3>1. last \in m_nextExpectedSeqNo .. m_currSeqNo /\ last + 1 = m_nextExpectedSeqNo'
      BY <1>2, <1>4, <2>4 DEF ReceiverProgress
    <3>2. stream' \in [FirstSn .. last -> Nat \cup {NoPdu}]
      BY <1>2, <2>2
    <3>3. \A n \in FirstSn .. m_nextExpectedSeqNo - 1 : stream'[n] = stream[n]
      BY <1>2, <2>1
    <3>4. \A n \in m_nextExpectedSeqNo .. last : stream'[n] \in {n, NoPdu}
      <4>1. m_nextExpectedSeqNo >= FirstSn
        BY DEF LinkInv, ReceiverInv
      <4>2. m_nextExpectedSeqNo .. last \subseteq DOMAIN stream'
        BY <1>2, <4>1
      <4> QED BY <2>2, <4>2
    <3> HIDE DEF last
    <3>5. Service!Decide(last)
      BY <1>4, <3>1, <3>2, <3>3, <3>4 DEF Service!Decide
    <3> QED BY <3>1, <3>5 DEF Service!ServiceNext
  <2> QED BY <2>3, <2>4
<1>5. CASE UNCHANGED <<m_currSeqNo, receiverVars>>
  BY <1>5 DEF Service!serviceVars, receiverVars
<1>6. ASSUME NEW copy \in pduChannel, InTime(copy), Arrive(copy)
      PROVE  [Service!ServiceNext]_Service!serviceVars
  BY <1>4, <1>6, ArriveProgress DEF Arrive, senderVars
<1>7. CASE WaitingEnds
  BY <1>4, <1>7, WaitingEndsProgress DEF WaitingEnds, senderVars
<1> QED BY <1>3, <1>5, <1>6, <1>7
        DEF LinkNext, linkVars, senderVars, Enque, EnquePdu, SendAgain, Retransmit, TimerExpires,
            ArqReTxTimerExpired, MoveToRetxBuffer, GiveUp, CleanUp, Release, ArriveAck, ReceiveAck,
            Lose

\* What one step of the connection may take out of flight.
LetGoOnlyWhenDue ==
  \A p \in InFlight \ InFlight' :
    \/ HasReached(p)
    \/ \E s \in DOMAIN m_txedBuffer :
         /\ m_txedBuffer[s].pdu = p
         /\ m_txedBuffer[s].m_retransmissionCount = MaxNoOfRetransmissions

LEMMA LinkStepLetsGoWhenDue ==
  LinkInv /\ [LinkNext]_linkVars => [LetGoOnlyWhenDue]_linkVars
<1> SUFFICES ASSUME LinkInv, LinkNext PROVE LetGoOnlyWhenDue
  OBVIOUS
<1>1. InFlight = Unreleased /\ InFlight' = Unreleased'
  BY LinkNextKeepsInv DEF LinkInv, Inv, NumbersMatchContexts
<1>2. SenderTypeOK /\ WindowIsContiguous
  BY DEF LinkInv, Inv
<1>3. CASE m_seqNoMap' = m_seqNoMap
  BY <1>1, <1>3 DEF Unreleased, LetGoOnlyWhenDue
<1>4. CASE SendNew
  <2>1. SeqNoAvailable /\ NumbersLeft /\ NextSequenceNumber
    BY <1>4 DEF SendNew, TransmitNew
  <2>2. Unreleased' = Unreleased \cup {m_currSeqNo + 1}
    BY <1>2, <2>1, NextNumberKeepsWindow
  <2> QED BY <1>1, <2>2 DEF LetGoOnlyWhenDue
<1>5. ASSUME NEW timer \in waitingTimers, GiveUp(timer) PROVE LetGoOnlyWhenDue
  <2>1. PICK s \in DOMAIN m_txedBuffer : timer = [seqNo |-> s, pdu |-> m_txedBuffer[s].pdu]
    BY DEF LinkInv, Inv, TimersMatchContexts
  <2> DEFINE c == m_txedBuffer[s]
  <2>2. c.pdu \in LastCycle /\ c.pdu % MaxSn = s /\ c \in Context
    BY ContextFacts DEF LinkInv
  <2>3. Release(c.pdu % MaxSn) /\ ~RetransmissionsLeft(c)
    BY <1>5, <2>1, <2>2 DEF GiveUp, CleanUp
  <2>4. Unreleased' = Unreleased \ {c.pdu}
    BY <1>2, <2>2, <2>3, ReleaseKeepsWindow
  <2>5. c.m_retransmissionCount = MaxNoOfRetransmissions
    <3>1. c.m_retransmissionCount <= MaxNoOfRetransmissions
      BY DEF LinkInv, Inv, RetransmissionsBounded
    <3>2. c.m_retransmissionCount \in Nat /\ ~(c.m_retransmissionCount < MaxNoOfRetransmissions)
      BY <2>2, <2>3 DEF Context, RetransmissionsLeft
    <3> HIDE DEF c
    <3> QED BY <3>1, <3>2, SenderAssumption
  <2> QED BY <1>1, <2>4, <2>5 DEF LetGoOnlyWhenDue
<1>6. ASSUME NEW pdu \in ackChannel, AckInTime(pdu), ArriveAck(pdu) PROVE LetGoOnlyWhenDue
  <2>1. pdu \in Nat /\ pdu <= m_currSeqNo /\ m_currSeqNo \in Int /\ MaxSn \in Nat /\ HasReached(pdu)
    BY NumbersAssumption DEF LinkInv, ChannelsOK, Inv, SenderTypeOK, AcksAreTrue
  <2>2. pdu \in LastCycle
    BY <1>6, <2>1 DEF AckInTime, LastCycle
  <2>3. Release(pdu % MaxSn)
    BY <1>6 DEF ArriveAck, ReceiveAck, CleanUp
  <2>4. Unreleased' = Unreleased \ {pdu}
    BY <1>2, <2>2, <2>3, ReleaseKeepsWindow
  <2> QED BY <1>1, <2>1, <2>4 DEF LetGoOnlyWhenDue
<1> QED BY <1>3, <1>4, <1>5, <1>6
        DEF LinkNext, Enque, EnquePdu, SendAgain, Retransmit, TimerExpires, ArqReTxTimerExpired,
            MoveToRetxBuffer, Arrive, Lose, WaitingEnds, senderVars

-----------------------------------------------------------------------------
\* The inductive invariant of the connection: the two halves, what is on its
\* way, and how far the receiver may be behind.
THEOREM LinkInvariant == LinkSpec => []LinkInv
  BY LinkInitInv, LinkNextKeepsInv, PTL DEF LinkSpec

\* The transmitter of a connection does what the transmitter on its own does,
\* and the receiver what the receiver on its own does: all that is proved of
\* them holds between them and a link that loses and reorders.
THEOREM LinkImplementsHalves == LinkSpec => SenderSpec /\ ReceiverSpec
<1>1. LinkInit => SenderInit /\ ReceiverInit
  BY DEF LinkInit
<1> QED BY <1>1, LinkInvariant, LinkStepOfSender, LinkStepOfReceiver, PTL
        DEF LinkSpec, SenderSpec, ReceiverSpec

\* ConvertSeqNo: a PDU that arrives in time is given the number it was sent
\* with, whatever was lost and overtaken before it.
THEOREM LinkConversionExact == LinkSpec => []ConversionExact
<1>1. LinkInv => ConversionExact
  BY ArrivalConverts DEF ConversionExact
<1> QED BY <1>1, LinkInvariant, PTL

\* The transmitter lets go of a PDU only when it has reached the receiver or
\* every retransmission is used up.
THEOREM LinkNothingLetGoEarly == LinkSpec => NothingLetGoEarly
<1>1. LinkInv /\ [LinkNext]_linkVars => [LetGoOnlyWhenDue]_linkVars
  BY LinkStepLetsGoWhenDue
<1> QED BY <1>1, LinkInvariant, PTL DEF LinkSpec, NothingLetGoEarly, LetGoOnlyWhenDue

\* The connection keeps the promise of SatDeliveryService: PDUs are handed up
\* in the order they were sent, each at most once and as itself.
THEOREM LinkImplementsService == LinkSpec => ImplementsService
<1>1. LinkInit => Service!ServiceInit
  BY DEF LinkInit, SenderInit, SeqNoInit, ReceiverInit, EmptyMap, Service!ServiceInit
<1> QED BY <1>1, LinkInvariant, LinkStepOfService, PTL
        DEF LinkSpec, ImplementsService, Service!ServiceSpec

\* Between the two ends the receiver's buffer, timers and stream agree, as they
\* do when any number may arrive.
THEOREM LinkReceiverConsistent == LinkSpec => []ReceiverConsistent
  BY LinkImplementsHalves, ReceiverIsConsistent, PTL
=============================================================================
