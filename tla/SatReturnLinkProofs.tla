------------------------ MODULE SatReturnLinkProofs -------------------------
(***************************************************************************)
(* Two ends of the return link.  What waits at a UT is asked for           *)
(* (SatCapacity): the request manager counts bytes that it asked for and   *)
(* bytes that it was assigned; what it holds is bounded by what the slots  *)
(* in hand, and what is still pending, will carry.  And what UTs send by   *)
(* random access is received rightly (SatRaReception): what a packet is    *)
(* judged by, what becomes of it, and that it is handed up once.  The      *)
(* carriers received by frame are in SatRaReceptionProofs; here is ESSA.   *)
(***************************************************************************)
EXTENDS SatCapacity, SatRaReceptionProofs

Room == SlotPayload - SlotOverhead

\* q bytes are queued, of which v came in since the last evaluation; the others
\* fit into s slots and what p bytes of capacity carry, a slot's share of them
\* being overhead, but for a part of a byte.
Provided(q, v, s, p) ==
  (q - v) * SlotPayload < (s * SlotPayload + p) * Room + SlotPayload

\* Some elements in a row.
IsSequence(s) == \E S : s \in Seq(S)

\* The types that the proof needs.
CapacityType ==
  /\ queueBytes \in [Rc -> Nat] /\ volumeIn \in [Rc -> Nat]
  /\ m_pendingVbdcBytes \in [Rc -> Int] /\ m_assignedDaResourcesBytes \in [Rc -> Int]
  /\ slots \in [Rc -> Nat]
  /\ takenByControl \in [VolumeRc -> Nat]
  /\ IsSequence(controlQueue)
  /\ tbtpChannel \in Seq([Rc -> Nat])
  /\ elapsed \in Nat

\* What is neither new nor in place of what control messages took is provided
\* for.
OldIsProvided ==
  \A rc \in VolumeRc :
    Provided(queueBytes[rc] - takenByControl[rc], volumeIn[rc], slots[rc], StillPending(rc))

CapacityInv == CapacityType /\ OldIsProvided

\* A request of volume can carry a service's maximum, in one of the units and in
\* its 16 bits, and there is no constant rate to be taken off what is asked for.
VolumesFit ==
  \A rc \in VolumeRc :
    /\ Cra(rc) = 0
    /\ \E i \in DOMAIN ScalingFactors : LlsConf[rc].maximumBacklog <= ScalingFactors[i] * NumValues
    /\ \A i \in DOMAIN ScalingFactors : LlsConf[rc].maximumBacklog + ScalingFactors[i] <= W16

\* The over-estimation is no less than what a slot's overhead takes of its payload.
OverheadIsEstimated == OverEstimation[1] * Room >= OverEstimation[2] * SlotPayload

\* What is queued and what came in is no more than may be asked for, and what
\* came in is enough for its over-estimation, a number of bytes, to be as much
\* more.
RequestsCover ==
  \A rc \in VolumeRc :
    /\ OverEstimated(queueBytes[rc]) <= LlsConf[rc].maximumBacklog
    /\ OverEstimated(volumeIn[rc]) <= LlsConf[rc].maximumBacklog
    /\ volumeIn[rc] * SlotPayload <= OverEstimated(volumeIn[rc]) * Room

-----------------------------------------------------------------------------
(* The arithmetic. *)

\* A slot has room.
LEMMA RoomType ==
  /\ SlotPayload \in Nat \ {0} /\ Room \in Nat \ {0} /\ SlotOverhead \in Nat
  /\ Room = SlotPayload - SlotOverhead
  BY CapacityAssumption DEF Room

\* The limits of a number.
LEMMA Limits ==
  \A b \in Int, n \in Int :
    /\ AtMost(b, n) \in Int /\ AtMost(b, n) <= n /\ AtMost(b, n) <= b /\ AtMost(b, n) \in {b, n}
    /\ AtLeast(b, n) \in Int /\ AtLeast(b, n) >= n /\ AtLeast(b, n) >= b /\ AtLeast(b, n) \in {b, n}
  BY DEF AtMost, AtLeast

\* A sequence with an element more, or with the first ones taken off.
LEMMA SequenceSteps ==
  /\ IsSequence(<<>>)
  /\ \A s, e : IsSequence(s) => IsSequence(Append(s, e))
  /\ \A s : IsSequence(s) => Len(s) \in Nat /\ \A n \in 0 .. Len(s) : IsSequence(SubSeq(s, n + 1, Len(s)))
<1>1. IsSequence(<<>>)
  <2>1. <<>> \in Seq({})
    OBVIOUS
  <2> QED BY <2>1 DEF IsSequence
<1>2. ASSUME NEW s, NEW e, IsSequence(s) PROVE IsSequence(Append(s, e))
  <2>1. PICK S : s \in Seq(S)
    BY <1>2 DEF IsSequence
  <2>2. s \in Seq(S \cup {e}) /\ e \in S \cup {e}
    BY <2>1, SeqDef
  <2>3. Append(s, e) \in Seq(S \cup {e})
    BY <2>2, AppendProperties
  <2> QED BY <2>3 DEF IsSequence
<1>3. ASSUME NEW s, IsSequence(s), NEW n \in 0 .. Len(s)
      PROVE  Len(s) \in Nat /\ IsSequence(SubSeq(s, n + 1, Len(s)))
  <2>1. PICK S : s \in Seq(S)
    BY <1>3 DEF IsSequence
  <2>2. Len(s) \in Nat
    BY <2>1, LenProperties
  <2>3. n + 1 \in 1 .. Len(s) + 1 /\ Len(s) \in (n + 1) - 1 .. Len(s)
    BY <2>2
  <2>4. SubSeq(s, n + 1, Len(s)) \in Seq(S)
    BY <2>1, <2>3, SubSeqProperties
  <2> QED BY <2>2, <2>4 DEF IsSequence
<1>4. ASSUME NEW s, IsSequence(s) PROVE Len(s) \in Nat
  <2>1. PICK S : s \in Seq(S)
    BY <1>4 DEF IsSequence
  <2> QED BY <2>1, LenProperties
<1> QED BY <1>1, <1>2, <1>3, <1>4

\* Nothing queued is provided for.
LEMMA NothingQueued ==
  ASSUME NEW v \in Nat, NEW s \in Nat, NEW p \in Nat
  PROVE  Provided(0, v, s, p)
<1>1. PICK P \in Nat, R \in Nat : P = SlotPayload /\ R = Room
  BY RoomType
<1>2. (0 - v) * P <= 0
  OBVIOUS
<1>3. s * P \in Nat
  OBVIOUS
<1>4. s * P + p \in Nat
  BY <1>3
<1>5. PICK x \in Nat : x = s * P + p
  BY <1>4
<1>6. 0 <= x * R
  OBVIOUS
<1>7. (0 - v) * P \in Int /\ x * R \in Int /\ P > 0
  BY <1>1, RoomType
<1> QED BY <1>1, <1>2, <1>5, <1>6, <1>7 DEF Provided

\* Less queued, and more slots or capacity, are as well.
LEMMA MoreProvided ==
  ASSUME NEW q \in Int, NEW v \in Int, NEW s \in Int, NEW p \in Int, Provided(q, v, s, p),
         NEW r \in Int, NEW w \in Int, NEW t \in Int, NEW u \in Int,
         r - w <= q - v, t * SlotPayload + u >= s * SlotPayload + p
  PROVE  Provided(r, w, t, u)
<1>1. PICK P \in Nat, R \in Nat : P = SlotPayload /\ R = Room
  BY RoomType
<1>2. PICK x \in Int, y \in Int : x = s * P + p /\ y = t * P + u
  OBVIOUS
<1>3. x <= y
  BY <1>1, <1>2
<1>4. x * R <= y * R
  <2>1. (y - x) * R >= 0
    <3>1. y - x \in Nat
      BY <1>3
    <3> QED BY <3>1
  <2>2. (y - x) * R = y * R - x * R /\ y * R \in Int /\ x * R \in Int
    OBVIOUS
  <2> QED BY <2>1, <2>2
<1>5. (r - w) * P <= (q - v) * P
  <2> DEFINE d == (q - v) - (r - w)
  <2>1. d \in Nat
    OBVIOUS
  <2>2. d * P >= 0
    BY <2>1
  <2>3. d * P = (q - v) * P - (r - w) * P /\ (q - v) * P \in Int /\ (r - w) * P \in Int
    OBVIOUS
  <2> QED BY <2>2, <2>3
<1>6. (q - v) * P < x * R + P
  BY <1>1, <1>2 DEF Provided
<1>7. (r - w) * P \in Int /\ (q - v) * P \in Int /\ x * R \in Int /\ y * R \in Int
  OBVIOUS
<1>8. (r - w) * P < y * R + P
  BY <1>4, <1>5, <1>6, <1>7
<1> QED BY <1>1, <1>2, <1>8 DEF Provided

\* A slot used takes its room off the queue.
LEMMA SlotUsed ==
  ASSUME NEW q \in Int, NEW v \in Int, NEW s \in Int, NEW p \in Int, Provided(q, v, s, p)
  PROVE  Provided(q - Room, v, s - 1, p)
<1>1. PICK P \in Int, R \in Int : P = SlotPayload /\ R = Room
  BY RoomType
<1>2. (q - R - v) * P = (q - v) * P - R * P
  OBVIOUS
<1>3. (s - 1) * P + p = (s * P + p) - P
  OBVIOUS
<1>4. PICK x \in Int : x = s * P + p
  OBVIOUS
<1>5. (x - P) * R = x * R - R * P
  OBVIOUS
<1>6. (q - v) * P < x * R + P
  BY <1>1, <1>4 DEF Provided
<1>7. (q - v) * P \in Int /\ R * P \in Int /\ x * R \in Int
  OBVIOUS
<1>8. (q - v) * P - R * P < x * R - R * P + P
  BY <1>6, <1>7
<1> QED BY <1>1, <1>2, <1>3, <1>4, <1>5, <1>8 DEF Provided

\* Capacity asked for what is new, or for all.
LEMMA Requested ==
  ASSUME NEW q \in Int, NEW v \in Nat, NEW s \in Nat, NEW p \in Nat, NEW val \in Nat
  PROVE  /\ Provided(q, v, s, p) /\ v * SlotPayload <= val * Room => Provided(q, 0, s, p + val)
         /\ q * SlotPayload < val * Room + SlotPayload => Provided(q, 0, s, p + val)
<1>1. PICK P \in Nat, R \in Nat : P = SlotPayload /\ R = Room
  BY RoomType
<1>2. PICK x \in Nat : x = s * P + p
  <2>1. s * P \in Nat
    OBVIOUS
  <2> QED BY <2>1
<1>3. s * P + (p + val) = x + val
  <2>1. s * P \in Int
    OBVIOUS
  <2> QED BY <1>2, <2>1
<1>4. /\ (x + val) * R = x * R + val * R /\ x * R >= 0
      /\ (q - v) * P = q * P - v * P /\ (q - 0) * P = q * P
  OBVIOUS
<1>5. x * R \in Int /\ val * R \in Int /\ q * P \in Int /\ v * P \in Int
  OBVIOUS
<1>6. (q - v) * P < x * R + P /\ v * P <= val * R => (q - 0) * P < (x + val) * R + P
  BY <1>4, <1>5
<1>7. q * P < val * R + P => (q - 0) * P < (x + val) * R + P
  BY <1>4, <1>5
<1> QED BY <1>1, <1>2, <1>3, <1>6, <1>7 DEF Provided

-----------------------------------------------------------------------------
(* What is asked for. *)

\* The quotient rounded up.
LEMMA RoundedUp ==
  ASSUME NEW v \in Nat, NEW f \in Nat \ {0}
  PROVE  /\ ((v + f - 1) \div f) * f \in Nat
         /\ ((v + f - 1) \div f) * f >= v /\ ((v + f - 1) \div f) * f < v + f
<1>1. PICK a \in Int : a = v + f - 1
  OBVIOUS
<1>2. a \div f \in Int /\ a % f \in 0 .. f - 1 /\ a = (a \div f) * f + (a % f)
  BY DivModType, DivModSplit
<1>3. PICK d \in Int, r \in 0 .. f - 1 : d = a \div f /\ r = a % f
  BY <1>2
<1>4. PICK x \in Int : x = d * f
  OBVIOUS
<1>5. a = x + r
  BY <1>2, <1>3, <1>4
<1> QED BY <1>1, <1>3, <1>4, <1>5

\* A request of no more than the maximum is not cut: it is rounded up, and the
\* field that it is sent in holds what comes out.
LEMMA QuantizedCovers ==
  ASSUME VolumesFit, NEW rc \in VolumeRc, NEW v \in Nat, v <= LlsConf[rc].maximumBacklog
  PROVE  /\ Quantized(LlsConf[rc].maximumBacklog)[v] \in Nat
         /\ Quantized(LlsConf[rc].maximumBacklog)[v] >= v
<1> DEFINE most == LlsConf[rc].maximumBacklog
           fits == {i \in DOMAIN ScalingFactors : v <= ScalingFactors[i] * NumValues}
<1>1. most \in Nat
  BY ServiceAssumption DEF VolumeRc, Service
<1>2. /\ ScalingFactors \in Seq(Nat \ {0}) /\ NumValues \in Nat /\ W16 \in Nat \ {0}
      /\ DOMAIN ScalingFactors = 1 .. Len(ScalingFactors) /\ Len(ScalingFactors) \in Nat
      /\ \A i \in DOMAIN ScalingFactors : ScalingFactors[i] \in Nat \ {0}
  BY RequestManagerAssumption, ServiceAssumption
<1>3. PICK j \in DOMAIN ScalingFactors : most <= ScalingFactors[j] * NumValues
  BY DEF VolumesFit
<1>4. \A i \in DOMAIN ScalingFactors : most + ScalingFactors[i] <= W16
  BY DEF VolumesFit
<1>5. v % W16 = v
  <2>1. v \in 0 .. W16 - 1
    BY <1>1, <1>2, <1>3, <1>4, SMTT(30)
  <2> QED BY <1>2, <2>1, ModSmall
<1>6. Min(fits) \in DOMAIN ScalingFactors
  <2>1. j \in fits
    <3>1. ScalingFactors[j] * NumValues \in Int
      BY <1>2
    <3> QED BY <1>1, <1>3, <3>1
  <2>2. fits \in SUBSET Nat /\ fits # {} /\ fits \subseteq DOMAIN ScalingFactors
    BY <1>2, <2>1
  <2> HIDE DEF fits
  <2>3. \E x \in fits : \A y \in fits : x <= y
    BY <2>2, LeastNatural
  <2>4. Min(fits) \in fits
    BY <2>3 DEF Min
  <2> QED BY <2>2, <2>4
<1>7. PICK f : f = ScalingFactors[Min(fits)]
  OBVIOUS
<1>8. f \in Nat \ {0} /\ most + f <= W16
  BY <1>2, <1>4, <1>6, <1>7
<1>9. PICK x : x = ((v + f - 1) \div f) * f
  OBVIOUS
<1>10. x \in Nat /\ x >= v /\ x < v + f
  BY <1>8, <1>9, RoundedUp
<1>11. x % W16 = x
  <2>1. x \in 0 .. W16 - 1
    BY <1>1, <1>2, <1>8, <1>10, SMTT(30)
  <2> QED BY <1>2, <2>1, ModSmall
<1>12. Quantized(most)[v] = x % W16
  <2>1. ~ (v > most)
    BY <1>1
  <2>2. Quantized(most)[v] = (IF v > most THEN most ELSE ((v + f - 1) \div f) * f) % W16
    BY <1>5, <1>7 DEF Quantized
  <2> QED BY <1>9, <2>1, <2>2
<1> QED BY <1>10, <1>11, <1>12

\* The over-estimation, a number of bytes, is short of what it is to be by less
\* than a byte.
LEMMA EstimateCovers ==
  ASSUME OverheadIsEstimated, NEW q \in Nat
  PROVE  OverEstimated(q) \in Nat /\ q * SlotPayload < OverEstimated(q) * Room + SlotPayload
<1>1. PICK n \in Nat, d \in Nat \ {0} : n = OverEstimation[1] /\ d = OverEstimation[2]
  BY RequestManagerAssumption
<1>2. PICK P \in Nat, R \in Nat \ {0} : P = SlotPayload /\ R = Room /\ R <= P
  BY RoomType
<1>3. PICK a \in Nat : a = n * q
  OBVIOUS
<1>4. a \div d \in Int /\ a % d \in 0 .. d - 1 /\ a = (a \div d) * d + (a % d)
  BY DivModType, DivModSplit
<1>5. PICK o \in Int, r \in 0 .. d - 1 : o = a \div d /\ r = a % d
  BY <1>4
<1>6. OverEstimated(q) = o /\ a = o * d + r
  BY <1>1, <1>3, <1>4, <1>5 DEF OverEstimated
<1>7. o \in Nat
  BY <1>5
<1>8. PICK X \in Int, Y \in Int : X = q * P /\ Y = o * R + R
  <2>1. q * P \in Int /\ o * R \in Int
    OBVIOUS
  <2> QED BY <2>1
<1>9. X < Y
  <2>1. d * X <= a * R
    <3>1. n * R >= d * P
      BY <1>1, <1>2 DEF OverheadIsEstimated
    <3>2. PICK e \in Nat : n * R = d * P + e
      <4>1. n * R - d * P \in Nat
        <5>1. n * R \in Int /\ d * P \in Int
          OBVIOUS
        <5> QED BY <3>1, <5>1
      <4>2. n * R = d * P + (n * R - d * P)
        BY <4>1
      <4> QED BY <4>1, <4>2
    <3>3. a * R = (n * R) * q /\ d * X = (d * P) * q
      BY <1>3, <1>8
    <3>4. (d * P + e) * q = (d * P) * q + e * q
      OBVIOUS
    <3>5. e * q >= 0 /\ e * q \in Int /\ (d * P) * q \in Int
      OBVIOUS
    <3> QED BY <3>2, <3>3, <3>4, <3>5
  <2>2. a * R < d * Y
    <3>1. d * Y = (o * d) * R + d * R /\ a * R = (o * d) * R + r * R
      BY <1>6, <1>8
    <3>2. r * R < d * R
      <4>1. (d - r) * R = d * R - r * R /\ (d - r) * R > 0
        OBVIOUS
      <4>2. d * R \in Int /\ r * R \in Int
        OBVIOUS
      <4> QED BY <4>1, <4>2
    <3>3. (o * d) * R \in Int /\ d * R \in Int /\ r * R \in Int
      OBVIOUS
    <3> QED BY <3>1, <3>2, <3>3
  <2>3. d * X < d * Y
    <3>1. d * X \in Int /\ d * Y \in Int /\ a * R \in Int
      OBVIOUS
    <3> QED BY <2>1, <2>2, <3>1
  <2> QED BY <2>3
<1>10. o * R \in Int
  OBVIOUS
<1> QED BY <1>2, <1>6, <1>7, <1>8, <1>9, <1>10

\* What is asked for some bytes is no less than their over-estimation.
LEMMA VolumeCovers ==
  ASSUME VolumesFit, NEW rc \in VolumeRc, elapsed \in Nat, NEW bytes, NEW o \in Nat,
         o = OverEstimated(bytes), o <= LlsConf[rc].maximumBacklog
  PROVE  /\ VolumeFor(rc, bytes) \in Nat /\ VolumeFor(rc, bytes) >= o
         /\ VolumeFor(rc, bytes) * Room >= o * Room
<1>1. VolumeFor(rc, bytes) = IF o > 0 THEN Quantized(LlsConf[rc].maximumBacklog)[o] ELSE 0
  <2>1. o - Cra(rc) * elapsed = o
    BY DEF VolumesFit
  <2> QED BY <2>1 DEF VolumeFor
<1>2. VolumeFor(rc, bytes) \in Nat /\ VolumeFor(rc, bytes) >= o
  <2>1. CASE o > 0
    BY <1>1, <2>1, QuantizedCovers
  <2>2. CASE ~ (o > 0)
    BY <1>1, <2>2
  <2> QED BY <2>1, <2>2
<1>3. PICK R \in Nat, x \in Nat : R = Room /\ x = VolumeFor(rc, bytes)
  BY <1>2, RoomType
<1>4. o * R <= x * R
  <2>1. (x - o) * R >= 0
    <3>1. x - o \in Nat
      BY <1>2, <1>3
    <3> QED BY <3>1
  <2>2. (x - o) * R = x * R - o * R /\ x * R \in Int /\ o * R \in Int
    OBVIOUS
  <2> QED BY <2>1, <2>2
<1> QED BY <1>2, <1>3, <1>4

-----------------------------------------------------------------------------
(* The steps. *)

\* What is pending is a number of bytes.
LEMMA StillPendingType ==
  ASSUME CapacityType, NEW rc \in Rc
  PROVE  /\ StillPending(rc) \in Nat
         /\ StillPending(rc) >= m_pendingVbdcBytes[rc] - m_assignedDaResourcesBytes[rc]
<1>1. PICK n \in Int : n = m_pendingVbdcBytes[rc] - m_assignedDaResourcesBytes[rc]
  BY DEF CapacityType
<1> QED BY <1>1, Limits DEF StillPending

\* An evaluation: what came in, or all there is, is asked for.
LEMMA EvaluateStep ==
  ASSUME VolumesFit, OverheadIsEstimated, CapacityInv, RequestsCover, Evaluate
  PROVE  CapacityInv'
<1>1. CapacityType /\ OldIsProvided
  BY DEF CapacityInv
<1>2. PICK cr : cr = CapacityRequest /\ DoEvaluation(cr)
  BY DEF Evaluate
<1>3. /\ UNCHANGED <<slots, tbtpChannel, queueBytes>>
      /\ takenByControl' = [rc \in VolumeRc |-> IF CountsAfresh(rc) THEN 0 ELSE takenByControl[rc]]
      /\ controlQueue' = controlQueue \/ \E c : controlQueue' = Append(controlQueue, c)
  BY <1>2 DEF Evaluate, DoEvaluation
<1>4. /\ volumeIn' = [rc \in Rc |-> 0] /\ m_assignedDaResourcesBytes' = [rc \in Rc |-> 0]
      /\ elapsed' = 1
      /\ m_pendingVbdcBytes' =
           [rc \in Rc |-> IF LlsConf[rc].volumeAllowed THEN PendingAfter(rc, cr) ELSE StillPending(rc)]
  BY <1>2 DEF DoEvaluation
<1>5. ASSUME NEW rc \in VolumeRc
      PROVE  /\ Value(cr, rc, {"VBDC", "AVBDC"}) = VbdcRequest(rc).value
             /\ VbdcRequest(rc).value \in Nat
             /\ Provided(queueBytes[rc] - takenByControl'[rc], 0, slots[rc], PendingAfter(rc, cr))
             /\ PendingAfter(rc, cr) \in Nat
  <2>1. rc \in Rc /\ LlsConf[rc].volumeAllowed /\ ~ LlsConf[rc].rbdcAllowed
    BY ServiceAssumption DEF VolumeRc
  <2>2. Request(rc) = VbdcRequest(rc)
    BY <2>1 DEF Request
  <2>3. PICK q \in Nat, v \in Nat, s \in Nat, p \in Nat :
          q = queueBytes[rc] /\ v = volumeIn[rc] /\ s = slots[rc] /\ p = StillPending(rc)
    BY <1>1, <2>1, StillPendingType DEF CapacityType
  <2>4. /\ VolumeFor(rc, q) \in Nat /\ q * SlotPayload < VolumeFor(rc, q) * Room + SlotPayload
        /\ VolumeFor(rc, v) \in Nat /\ v * SlotPayload <= VolumeFor(rc, v) * Room
    <3>1. elapsed \in Nat
      BY <1>1 DEF CapacityType
    <3>2. PICK oq \in Nat, ov \in Nat : oq = OverEstimated(q) /\ ov = OverEstimated(v)
      BY EstimateCovers
    <3>3. /\ oq <= LlsConf[rc].maximumBacklog /\ ov <= LlsConf[rc].maximumBacklog
          /\ v * SlotPayload <= ov * Room
      BY <2>3, <3>2 DEF RequestsCover
    <3>4. q * SlotPayload < oq * Room + SlotPayload
      BY <3>2, EstimateCovers
    <3>5. /\ VolumeFor(rc, q) \in Nat /\ VolumeFor(rc, q) * Room >= oq * Room
          /\ VolumeFor(rc, v) \in Nat /\ VolumeFor(rc, v) * Room >= ov * Room
      BY <3>1, <3>2, <3>3, VolumeCovers
    <3>6. PICK x \in Int, y \in Int : x = VolumeFor(rc, q) /\ y = VolumeFor(rc, v)
      BY <3>5
    <3>7. /\ x * Room \in Int /\ y * Room \in Int /\ oq * Room \in Int /\ ov * Room \in Int
          /\ q * SlotPayload \in Int /\ v * SlotPayload \in Int /\ SlotPayload \in Int
      <4>1. Room \in Int /\ SlotPayload \in Int
        BY RoomType
      <4> QED BY <4>1, TimesType
    <3>8. /\ q * SlotPayload < x * Room + SlotPayload
          /\ v * SlotPayload <= y * Room
      BY <3>3, <3>4, <3>5, <3>6, <3>7
    <3> QED BY <3>5, <3>6, <3>8
  <2>5. PICK val \in Nat : val = VbdcRequest(rc).value
    BY <2>3, <2>4 DEF VbdcRequest
  <2>6. VbdcRequest(rc).cac \in {"VBDC", "AVBDC"}
    BY DEF VbdcRequest
  <2>7. Value(cr, rc, {"VBDC", "AVBDC"}) = val
    <3>1. CASE val > 0
      <4>1. rc \in DOMAIN cr /\ cr[rc] = VbdcRequest(rc)
        BY <1>2, <2>1, <2>2, <2>5, <3>1 DEF CapacityRequest
      <4> QED BY <2>5, <2>6, <4>1 DEF Value
    <3>2. CASE ~ (val > 0)
      <4>1. rc \notin DOMAIN cr
        BY <1>2, <2>2, <2>5, <3>2 DEF CapacityRequest
      <4> QED BY <2>5, <3>2, <4>1 DEF Value
    <3> QED BY <3>1, <3>2
  <2>8. PICK t \in Nat : t = takenByControl[rc] /\ Provided(q - t, v, s, p)
    BY <1>1, <2>3 DEF OldIsProvided, CapacityType
  <2>9. CASE CountsAfresh(rc)
    <3>1. val = VolumeFor(rc, q) /\ PendingAfter(rc, cr) = val
      BY <2>3, <2>5, <2>7, <2>9 DEF VbdcRequest, PendingAfter
    <3>2. Provided(q, 0, s, 0 + val)
      BY <2>4, <3>1, Requested
    <3>3. takenByControl'[rc] = 0 /\ q - 0 = q
      BY <1>3, <2>9
    <3> QED BY <2>3, <2>5, <2>7, <3>1, <3>2, <3>3
  <2>10. CASE ~ CountsAfresh(rc)
    <3>1. val = VolumeFor(rc, v) /\ PendingAfter(rc, cr) = p + val
      BY <2>3, <2>5, <2>7, <2>10 DEF VbdcRequest, PendingAfter
    <3>2. Provided(q - t, 0, s, p + val)
      <4>1. PICK d \in Int : d = q - t
        OBVIOUS
      <4> QED BY <2>4, <2>8, <3>1, <4>1, Requested
    <3>3. takenByControl'[rc] = t
      BY <1>3, <2>8, <2>10
    <3> QED BY <2>3, <2>5, <2>7, <3>1, <3>2, <3>3
  <2> QED BY <2>9, <2>10
<1>6. m_pendingVbdcBytes' \in [Rc -> Int]
  <2>1. ASSUME NEW rc \in Rc
        PROVE  (IF LlsConf[rc].volumeAllowed THEN PendingAfter(rc, cr) ELSE StillPending(rc)) \in Int
    <3>1. CASE LlsConf[rc].volumeAllowed
      <4>1. PendingAfter(rc, cr) \in Nat
        BY <1>5, <3>1 DEF VolumeRc
      <4> QED BY <3>1, <4>1
    <3>2. CASE ~ LlsConf[rc].volumeAllowed
      <4>1. StillPending(rc) \in Nat
        BY <1>1, StillPendingType
      <4> QED BY <3>2, <4>1
    <3> QED BY <3>1, <3>2
  <2> QED BY <1>4, <2>1
<1>7. CapacityType'
  <2>1. takenByControl' \in [VolumeRc -> Nat]
    BY <1>1, <1>3 DEF CapacityType
  <2>2. IsSequence(controlQueue')
    BY <1>1, <1>3, SequenceSteps DEF CapacityType
  <2> QED BY <1>1, <1>3, <1>4, <1>6, <2>1, <2>2 DEF CapacityType
<1>8. OldIsProvided'
  <2> SUFFICES ASSUME NEW rc \in VolumeRc
               PROVE  Provided(queueBytes'[rc] - takenByControl'[rc], volumeIn'[rc], slots'[rc], StillPending(rc)')
    BY DEF OldIsProvided, VolumeRc
  <2>1. rc \in Rc /\ LlsConf[rc].volumeAllowed
    BY DEF VolumeRc
  <2>2. PICK n \in Nat : n = PendingAfter(rc, cr)
    BY <1>5
  <2>3. m_pendingVbdcBytes'[rc] = n /\ m_assignedDaResourcesBytes'[rc] = 0 /\ volumeIn'[rc] = 0
    BY <1>4, <2>1, <2>2
  <2>4. StillPending(rc)' = n
    BY <2>3 DEF StillPending, AtLeast
  <2> QED BY <1>3, <1>5, <2>2, <2>3, <2>4
<1> QED BY <1>7, <1>8 DEF CapacityInv

-----------------------------------------------------------------------------
(* A slot is filled. *)

\* A service is served in a slot, after others.
ServeNext(done, rc) ==
  [room |-> RoomAfter(Served(rc, done.room), done.room),
   served |-> [done.served EXCEPT ![rc] = Served(rc, done.room)]]

NoneServed(payload) == [room |-> payload, served |-> [rc \in Rc |-> 0]]

\* No service is served more than it has.
Servings == [room : Int, served : [Rc -> Nat]]
NoneOverserved(done) == \A rc \in Rc : done.served[rc] <= queueBytes[rc]

\* What a slot with this payload holds after each service in an order.
Serves(h, order, payload) ==
  h = [T \in SUBSET DOMAIN order |->
         IF T = {} THEN NoneServed(payload) ELSE ServeNext(h[T \ {Max(T)}], order[Max(T)])]

\* The service that is served next gets no more than it has, the others keep
\* what they got.
LEMMA NextServed ==
  ASSUME CapacityType, NEW done \in Servings, NoneOverserved(done), NEW rc \in Rc
  PROVE  /\ ServeNext(done, rc) \in Servings /\ NoneOverserved(ServeNext(done, rc))
         /\ ServeNext(done, rc).served[rc] = Served(rc, done.room)
         /\ \A c \in Rc \ {rc} : ServeNext(done, rc).served[c] = done.served[c]
<1>1. PICK b : b = Served(rc, done.room)
  OBVIOUS
<1>2. b \in Nat /\ b <= queueBytes[rc]
  <2>1. PICK q \in Nat, m \in Int : q = queueBytes[rc] /\ m = done.room - SlotOverhead
    BY RoomType DEF CapacityType, Servings
  <2>2. b = AtLeast(0, AtMost(m, q))
    BY <1>1, <2>1 DEF Served
  <2> QED BY <2>1, <2>2 DEF AtLeast, AtMost
<1>3. PICK r : r = RoomAfter(b, done.room)
  OBVIOUS
<1>4. r \in Int
  BY <1>2, <1>3, RoomType DEF RoomAfter, Servings
<1>5. PICK f \in [Rc -> Nat] : f = done.served
  BY DEF Servings
<1>6. PICK g : g = [f EXCEPT ![rc] = b]
  OBVIOUS
<1>7. g \in [Rc -> Nat] /\ g[rc] = b /\ \A c \in Rc \ {rc} : g[c] = f[c]
  BY <1>2, <1>6
<1>8. ServeNext(done, rc) = [room |-> r, served |-> g]
  BY <1>1, <1>3, <1>5, <1>6 DEF ServeNext
<1>9. PICK n : n = ServeNext(done, rc)
  OBVIOUS
<1>10. n \in Servings /\ n.served = g
  BY <1>4, <1>7, <1>8, <1>9 DEF Servings
<1>11. NoneOverserved(n)
  BY <1>2, <1>5, <1>7, <1>10 DEF NoneOverserved
<1> QED BY <1>1, <1>5, <1>7, <1>9, <1>10, <1>11

\* The service whose slot it is gets as much as the payload has room for, the
\* others no more than they have.
LEMMA SlotServes ==
  ASSUME CapacityType, NEW order \in Orders, NEW own \in Rc, order[1] = own, NEW payload \in Int
  PROVE  /\ ServedInOrder(order, payload) \in [Rc -> Nat]
         /\ \A rc \in Rc : ServedInOrder(order, payload)[rc] <= queueBytes[rc]
         /\ ServedInOrder(order, payload)[own] = Served(own, payload)
<1> DEFINE n == Cardinality(Rc)
           D == DOMAIN order
           Y == {done \in Servings : NoneOverserved(done)}
           pick == [T \in SUBSET D |-> Max(T)]
           step == [i \in D |-> [y \in Y |-> ServeNext(y, order[i])]]
<1>1. n \in Nat /\ n >= 1
  <2>1. IsFiniteSet(Rc)
    BY ServiceAssumption
  <2>2. n \in Nat /\ (n = 0 <=> Rc = {})
    BY <2>1, FS_CardinalityType, FS_EmptySet
  <2> QED BY <2>2
<1>2. D = 1 .. n /\ \A i \in D : order[i] \in Rc /\ (i # 1 => order[i] # own)
  <2>1. /\ order \in [1 .. n -> Rc]
        /\ \A i, j \in 1 .. n : i # j => order[i] # order[j]
    BY DEF Orders, SetToSeqs
  <2> HIDE DEF n
  <2> QED BY <1>1, <2>1
<1> HIDE DEF n
<1>3. IsFiniteSet(D) /\ \A T \in SUBSET D : T # {} => Max(T) \in T /\ \A i \in T : Max(T) >= i
  <2>1. IsFiniteSet(1 .. n)
    BY <1>1, FS_Interval
  <2>2. ASSUME NEW T \in SUBSET (1 .. n), T # {} PROVE Max(T) \in T /\ \A i \in T : Max(T) >= i
    <3>1. \E x \in T : \A y \in T : x >= y
      BY <1>1, <2>2, LargestElement
    <3> QED BY <3>1 DEF Max
  <2> QED BY <1>2, <2>1, <2>2
<1>4. ASSUME NEW i \in D, NEW y \in Y PROVE ServeNext(y, order[i]) \in Y
  BY <1>2, NextServed
<1>5. NoneServed(payload) \in Y
  <2>1. NoneServed(payload) \in Servings
    BY RoomType DEF NoneServed, Servings
  <2>2. NoneOverserved(NoneServed(payload))
    BY DEF NoneServed, NoneOverserved, CapacityType
  <2> QED BY <2>1, <2>2
<1> HIDE DEF D, Y
<1>6. PICK h : Recurs(h, D, NoneServed(payload), pick, step) /\ \A T \in SUBSET D : h[T] \in Y
  <2>1. \A T \in SUBSET D : T # {} => pick[T] \in T
    BY <1>3
  <2>2. \A i \in D, y \in Y : step[i][y] \in Y
    BY <1>4
  <2> HIDE DEF pick, step
  <2> QED BY <1>3, <1>5, <2>1, <2>2, Recursion
<1>7. Serves(h, order, payload)
  <2>1. \A T \in SUBSET D : T # {} =>
          step[pick[T]][h[T \ {pick[T]}]] = ServeNext(h[T \ {Max(T)}], order[Max(T)])
    BY <1>3, <1>6
  <2> HIDE DEF pick, step
  <2> QED BY <1>6, <2>1 DEF Recurs, Serves, D
<1> DEFINE r == CHOOSE g : Serves(g, order, payload)
<1>8. Serves(r, order, payload)
  BY <1>7, Zenon
<1>9. ServedInOrder(order, payload) = r[D].served
  BY Zenon DEF ServedInOrder, FoldLeft, MapThenFoldSet, Serves, ServeNext, NoneServed, D
<1> HIDE DEF r
<1> DEFINE A == {T \in SUBSET D : /\ r[T] \in Y
                                  /\ 1 \in T => r[T].served[own] = Served(own, payload)}
<1>10. D \in A
  <2>1. {} \in A
    BY <1>5, <1>8 DEF Serves, D
  <2>2. ASSUME NEW T \in SUBSET D, T # {}, T \ {Max(T)} \in A PROVE T \in A
    <3>1. PICK i \in D : i = Max(T) /\ i \in T /\ \A j \in T : i >= j
      BY <1>3, <2>2
    <3>2. PICK y \in Y : y = r[T \ {i}]
      BY <2>2, <3>1
    <3>3. r[T] = ServeNext(y, order[i])
      BY <1>8, <2>2, <3>1, <3>2 DEF Serves, D
    <3>4. r[T] \in Y
      BY <1>4, <3>2, <3>3
    <3>5. /\ y \in Servings /\ NoneOverserved(y) /\ order[i] \in Rc
      BY <1>2, <3>2 DEF Y
    <3>6. /\ ServeNext(y, order[i]).served[order[i]] = Served(order[i], y.room)
          /\ \A c \in Rc \ {order[i]} : ServeNext(y, order[i]).served[c] = y.served[c]
      BY <3>5, NextServed
    <3>7. ASSUME 1 \in T PROVE r[T].served[own] = Served(own, payload)
      <4>1. CASE i = 1
        <5>1. T \ {i} = {}
          <6>1. \A j \in T : j \in D /\ i >= j
            BY <3>1
          <6> QED BY <1>1, <1>2, <4>1, <6>1
        <5>2. y = NoneServed(payload)
          BY <1>8, <3>2, <5>1 DEF Serves, D
        <5>3. y.room = payload /\ order[i] = own
          BY <1>2, <4>1, <5>2 DEF NoneServed
        <5> QED BY <3>3, <3>6, <5>3
      <4>2. CASE i # 1
        <5>1. order[i] # own /\ 1 \in T \ {i}
          BY <1>2, <3>7, <4>2
        <5>2. y.served[own] = Served(own, payload)
          BY <2>2, <3>1, <3>2, <5>1
        <5> QED BY <3>3, <3>6, <5>1, <5>2
      <4> QED BY <4>1, <4>2
    <3> QED BY <3>4, <3>7
  <2>3. \A T \in SUBSET D : T # {} => \E i \in T : T \ {i} \in A => T \in A
    BY <1>3, <2>2
  <2> HIDE DEF A
  <2> QED BY <1>3, <2>1, <2>3, SubsetInduction
<1>11. r[D] \in Y /\ r[D].served[own] = Served(own, payload)
  BY <1>1, <1>2, <1>10
<1>12. r[D] \in Servings /\ NoneOverserved(r[D])
  BY <1>11 DEF Y
<1> QED BY <1>9, <1>11, <1>12 DEF Servings, NoneOverserved

-----------------------------------------------------------------------------
(* The other steps. *)

\* What holds of a service after a step in which its queue, what came in and the
\* slots change, and its requests do not.
LEMMA StepProvides ==
  ASSUME CapacityInv, CapacityType', takenByControl' = takenByControl,
         \A rc \in VolumeRc :
           /\ queueBytes'[rc] - volumeIn'[rc] <= queueBytes[rc] - volumeIn[rc]
           /\ slots'[rc] * SlotPayload + StillPending(rc)' >= slots[rc] * SlotPayload + StillPending(rc)
  PROVE  CapacityInv'
<1> SUFFICES ASSUME NEW rc \in VolumeRc
             PROVE  Provided(queueBytes'[rc] - takenByControl'[rc], volumeIn'[rc], slots'[rc], StillPending(rc)')
  BY DEF CapacityInv, OldIsProvided, VolumeRc
<1>1. rc \in Rc /\ Provided(queueBytes[rc] - takenByControl[rc], volumeIn[rc], slots[rc], StillPending(rc))
  BY DEF CapacityInv, OldIsProvided, VolumeRc
<1>2. PICK q \in Int, v \in Int, s \in Int, p \in Int :
        q = queueBytes[rc] /\ v = volumeIn[rc] /\ s = slots[rc] /\ p = StillPending(rc)
  <2>1. queueBytes[rc] \in Int /\ volumeIn[rc] \in Int /\ slots[rc] \in Int
    BY <1>1 DEF CapacityInv, CapacityType
  <2>2. StillPending(rc) \in Int
    BY <1>1, StillPendingType DEF CapacityInv
  <2> QED BY <2>1, <2>2
<1>3. PICK n \in Int : n = m_pendingVbdcBytes'[rc] - m_assignedDaResourcesBytes'[rc]
  BY <1>1 DEF CapacityType
<1>4. PICK x \in Int, w \in Int, t \in Int, u \in Int :
        x = queueBytes'[rc] /\ w = volumeIn'[rc] /\ t = slots'[rc] /\ u = StillPending(rc)'
  <2>1. StillPending(rc)' \in Int
    BY <1>3, Limits DEF StillPending
  <2> QED BY <1>1, <2>1 DEF CapacityType
<1>5. PICK n1 \in Int : n1 = takenByControl[rc] /\ n1 = takenByControl'[rc]
  BY DEF CapacityInv, CapacityType
<1>6. Provided(q - n1, v, s, p) /\ x - w <= q - v /\ t * SlotPayload + u >= s * SlotPayload + p
  BY <1>1, <1>2, <1>4, <1>5
<1>7. PICK y \in Int, z \in Int : y = q - n1 /\ z = x - n1
  OBVIOUS
<1>8. z - w <= y - v
  BY <1>6, <1>7
<1>9. Provided(z, w, t, u)
  BY <1>6, <1>7, <1>8, MoreProvided
<1> QED BY <1>4, <1>5, <1>7, <1>9

\* A packet counts as new.
LEMMA PacketStep ==
  ASSUME CapacityInv, PacketArrives PROVE CapacityInv'
<1>1. PICK own \in Rc, bytes \in Nat : EnquePacket(own, bytes)
  BY CapacityAssumption DEF PacketArrives
<1>2. UNCHANGED <<m_pendingVbdcBytes, m_assignedDaResourcesBytes, elapsed, slots, tbtpChannel,
                  takenByControl, controlQueue>>
  BY <1>1 DEF PacketArrives, EnquePacket
<1>3. /\ queueBytes' = [queueBytes EXCEPT ![own] = @ + bytes]
      /\ volumeIn' = [volumeIn EXCEPT ![own] = @ + bytes]
  BY <1>1 DEF EnquePacket
<1>4. CapacityType
  BY DEF CapacityInv
<1>5. CapacityType'
  BY <1>2, <1>3, <1>4, SMTT(30) DEF CapacityType
<1>6. \A rc \in Rc : queueBytes'[rc] - volumeIn'[rc] = queueBytes[rc] - volumeIn[rc]
  BY <1>3, <1>4 DEF CapacityType
<1>7. \A rc \in Rc : /\ queueBytes'[rc] - volumeIn'[rc] <= queueBytes[rc] - volumeIn[rc]
                     /\ slots'[rc] * SlotPayload + StillPending(rc)' >= slots[rc] * SlotPayload + StillPending(rc)
  <2> TAKE rc \in Rc
  <2>1. PICK a \in Int, b \in Int : a = queueBytes[rc] - volumeIn[rc] /\ b = slots[rc] * SlotPayload + StillPending(rc)
    <3>1. queueBytes[rc] \in Int /\ volumeIn[rc] \in Int /\ slots[rc] \in Int /\ SlotPayload \in Int
      BY <1>4, RoomType DEF CapacityType
    <3>2. slots[rc] * SlotPayload \in Int /\ StillPending(rc) \in Int
      BY <1>4, <3>1, StillPendingType
    <3> QED BY <3>1, <3>2
  <2>2. StillPending(rc)' = StillPending(rc)
    BY <1>2 DEF StillPending
  <2> QED BY <1>2, <1>6, <2>1, <2>2
<1> QED BY <1>2, <1>5, <1>7, StepProvides DEF VolumeRc

\* Steps that change nothing that the invariant is about.
LEMMA OtherStep ==
  ASSUME CapacityInv, elapsed' \in Nat, tbtpChannel' \in Seq([Rc -> Nat]), IsSequence(controlQueue'),
         UNCHANGED <<queueBytes, volumeIn, m_pendingVbdcBytes, m_assignedDaResourcesBytes, slots,
                     takenByControl>>
  PROVE  CapacityInv'
<1>1. \A rc \in Rc : StillPending(rc)' = StillPending(rc)
  BY DEF StillPending
<1>2. CapacityType'
  BY DEF CapacityInv, CapacityType
<1> QED BY <1>1, <1>2 DEF CapacityInv, OldIsProvided, VolumeRc

\* A TBTP arrives: what is assigned is no longer pending, but in hand.
LEMMA TbtpStep ==
  ASSUME CapacityInv, TbtpReceived PROVE CapacityInv'
<1>1. CapacityType
  BY DEF CapacityInv
<1>2. PICK tbtp \in [Rc -> Nat] : tbtp = Head(tbtpChannel)
  BY <1>1 DEF CapacityType, TbtpReceived
<1>3. /\ slots' = [rc \in Rc |-> slots[rc] + tbtp[rc]]
      /\ m_assignedDaResourcesBytes' =
           [rc \in Rc |-> m_assignedDaResourcesBytes[rc] + AssignedBytes(tbtp)[rc]]
      /\ UNCHANGED <<queueBytes, volumeIn, m_pendingVbdcBytes, elapsed, takenByControl, controlQueue>>
      /\ tbtpChannel' = Tail(tbtpChannel)
  BY <1>2 DEF TbtpReceived, AssignedDaResources
<1>4. \A rc \in Rc : AssignedBytes(tbtp)[rc] = tbtp[rc] * SlotPayload /\ tbtp[rc] * SlotPayload \in Nat
  <2>1. SlotPayload \in Nat /\ \A rc \in Rc : tbtp[rc] \in Nat
    BY RoomType
  <2>2. \A rc \in Rc : tbtp[rc] * SlotPayload \in Nat
    BY <2>1
  <2> QED BY <2>2 DEF AssignedBytes
<1>5. CapacityType'
  <2>1. tbtpChannel' \in Seq([Rc -> Nat])
    BY <1>1, <1>3 DEF CapacityType, TbtpReceived
  <2>2. slots' \in [Rc -> Nat]
    BY <1>1, <1>3 DEF CapacityType
  <2>3. m_assignedDaResourcesBytes' \in [Rc -> Int]
    BY <1>1, <1>3, <1>4 DEF CapacityType
  <2> QED BY <1>1, <1>3, <2>1, <2>2, <2>3 DEF CapacityType
<1>6. ASSUME NEW rc \in Rc
      PROVE  /\ queueBytes'[rc] - volumeIn'[rc] <= queueBytes[rc] - volumeIn[rc]
             /\ slots'[rc] * SlotPayload + StillPending(rc)' >= slots[rc] * SlotPayload + StillPending(rc)
  <2>1. PICK s \in Int, g \in Int, a \in Int, b \in Int, P \in Int :
          /\ s = slots[rc] /\ g = tbtp[rc] /\ P = SlotPayload
          /\ a = m_pendingVbdcBytes[rc] /\ b = m_assignedDaResourcesBytes[rc]
    BY <1>1, RoomType DEF CapacityType
  <2>2. PICK x \in Nat, y \in Int : x = g * P /\ y = s * P
    BY <1>4, <2>1
  <2>3. slots'[rc] = s + g /\ (s + g) * P = y + x
    BY <1>3, <2>1, <2>2
  <2>4. StillPending(rc) = AtLeast(0, a - b)
    BY <2>1 DEF StillPending
  <2>5. StillPending(rc)' = AtLeast(0, a - (b + x))
    BY <1>3, <1>4, <2>1, <2>2 DEF StillPending
  <2>6. (s + g) * P + AtLeast(0, a - (b + x)) >= y + AtLeast(0, a - b)
    BY <2>3 DEF AtLeast
  <2>7. queueBytes[rc] \in Int /\ volumeIn[rc] \in Int
    BY <1>1 DEF CapacityType
  <2>8. queueBytes'[rc] - volumeIn'[rc] <= queueBytes[rc] - volumeIn[rc]
    BY <1>3, <2>7
  <2>9. slots'[rc] * SlotPayload = (s + g) * P /\ slots[rc] * SlotPayload = y
    BY <2>1, <2>2, <2>3
  <2> QED BY <2>4, <2>5, <2>6, <2>8, <2>9
<1> QED BY <1>3, <1>5, <1>6, StepProvides DEF VolumeRc

\* The control messages that fit into a slot.
LEMMA ControlFits ==
  ASSUME IsSequence(controlQueue)
  PROVE  /\ ControlSent \in 0 .. Len(controlQueue) /\ ControlSent * ControlSize \in Nat
         /\ IsSequence(SubSeq(controlQueue, ControlSent + 1, Len(controlQueue)))
<1>1. PICK n \in Nat, P \in Nat, c \in Nat \ {0} : n = Len(controlQueue) /\ P = SlotPayload /\ c = ControlSize
  BY CapacityAssumption, SequenceSteps
<1>2. PICK d \in Int : d = P \div c /\ d >= 0
  <2>1. P \div c \in Int /\ P % c \in 0 .. c - 1 /\ P = (P \div c) * c + (P % c)
    BY DivModType, DivModSplit
  <2>2. PICK e \in Int, r \in 0 .. c - 1 : e = P \div c /\ r = P % c /\ P = e * c + r
    BY <2>1
  <2>3. ASSUME e < 0 PROVE FALSE
    <3>1. e * c + c <= 0 * c
      BY <2>3, TimesMonotonic
    <3>2. e * c \in Int /\ 0 * c = 0
      OBVIOUS
    <3> QED BY <2>2, <3>1, <3>2
  <2> QED BY <2>2, <2>3
<1>3. PICK k \in Nat : k = ControlSent /\ k <= n
  <2>1. ControlSent = AtMost(n, d)
    BY <1>1, <1>2 DEF ControlSent
  <2> QED BY <1>2, <2>1 DEF AtMost
<1>4. k * c \in Nat
  OBVIOUS
<1>5. k \in 0 .. Len(controlQueue)
  BY <1>1, <1>3
<1> QED BY <1>1, <1>3, <1>4, <1>5, SequenceSteps

\* A slot is used: control messages and its own service fill it, or nothing is
\* left of the service.
LEMMA TransmitStep ==
  ASSUME CapacityInv, NEW own \in Rc, DoTransmit(own) PROVE CapacityInv'
<1>1. CapacityType /\ OldIsProvided
  BY DEF CapacityInv
<1>2. PICK c \in Nat : c = ControlSent * ControlSize
  BY <1>1, ControlFits DEF CapacityType
<1>3. PICK order \in Orders : order[1] = own /\ Dequeue(ServedInOrder(order, SlotPayload - c))
  BY <1>2 DEF DoTransmit
<1>4. PICK bytes : bytes = ServedInOrder(order, SlotPayload - c)
  OBVIOUS
<1>5. /\ bytes \in [Rc -> Nat] /\ \A rc \in Rc : bytes[rc] <= queueBytes[rc]
      /\ bytes[own] = Served(own, SlotPayload - c)
  <2>1. SlotPayload - c \in Int
    BY RoomType
  <2> QED BY <1>1, <1>3, <1>4, <2>1, SlotServes
<1>6. /\ queueBytes' = [rc \in Rc |-> queueBytes[rc] - bytes[rc]]
      /\ UNCHANGED <<volumeIn, m_pendingVbdcBytes, m_assignedDaResourcesBytes, elapsed>>
  BY <1>3, <1>4 DEF Dequeue
<1>7. /\ slots[own] > 0 /\ slots' = [slots EXCEPT ![own] = @ - 1] /\ tbtpChannel' = tbtpChannel
      /\ takenByControl' = [rc \in VolumeRc |-> IF queueBytes'[rc] = 0 THEN 0
                                               ELSE takenByControl[rc] + (IF rc = own THEN c ELSE 0)]
      /\ controlQueue' = SubSeq(controlQueue, ControlSent + 1, Len(controlQueue))
  BY <1>2 DEF DoTransmit, SendControl
<1>8. CapacityType'
  <2>1. queueBytes' \in [Rc -> Nat]
    <3>1. \A rc \in Rc : queueBytes[rc] - bytes[rc] \in Nat
      <4> TAKE rc \in Rc
      <4>1. PICK q \in Nat, b \in Nat : q = queueBytes[rc] /\ b = bytes[rc] /\ b <= q
        BY <1>1, <1>5 DEF CapacityType
      <4> QED BY <4>1
    <3> QED BY <1>6, <3>1
  <2>2. slots' \in [Rc -> Nat]
    BY <1>1, <1>7 DEF CapacityType
  <2>3. takenByControl' \in [VolumeRc -> Nat]
    BY <1>1, <1>7 DEF CapacityType
  <2>4. IsSequence(controlQueue')
    BY <1>1, <1>7, ControlFits DEF CapacityType
  <2> QED BY <1>1, <1>6, <1>7, <2>1, <2>2, <2>3, <2>4 DEF CapacityType
<1>9. \A rc \in Rc : StillPending(rc)' = StillPending(rc)
  BY <1>6 DEF StillPending
<1>10. ASSUME NEW rc \in VolumeRc
       PROVE  Provided(queueBytes'[rc] - takenByControl'[rc], volumeIn'[rc], slots'[rc], StillPending(rc)')
  <2>1. rc \in Rc
    BY DEF VolumeRc
  <2>2. PICK q \in Nat, v \in Nat, s \in Nat, p \in Nat, b \in Nat, t \in Nat :
          /\ q = queueBytes[rc] /\ v = volumeIn[rc] /\ s = slots[rc]
          /\ p = StillPending(rc) /\ b = bytes[rc] /\ t = takenByControl[rc]
    BY <1>1, <1>5, <2>1, StillPendingType DEF CapacityType
  <2>3. Provided(q - t, v, s, p)
    BY <1>1, <2>2 DEF OldIsProvided
  <2>4. /\ queueBytes'[rc] = q - b /\ volumeIn'[rc] = v /\ StillPending(rc)' = p /\ b <= q
        /\ takenByControl'[rc] = IF q - b = 0 THEN 0 ELSE t + (IF rc = own THEN c ELSE 0)
    BY <1>5, <1>6, <1>7, <1>9, <2>1, <2>2
  <2>5. slots'[rc] = (IF rc = own THEN s - 1 ELSE s) /\ slots'[rc] \in Nat
    BY <1>1, <1>7, <1>8, <2>1, <2>2 DEF CapacityType
  <2>6. CASE q - b = 0
    <3>1. queueBytes'[rc] - takenByControl'[rc] = 0
      BY <2>4, <2>6
    <3>2. PICK z \in Nat : z = slots'[rc] /\ Provided(0, v, z, p)
      BY <2>5, NothingQueued
    <3> QED BY <2>4, <3>1, <3>2
  <2>7. CASE q - b # 0 /\ rc = own
    <3>1. PICK R \in Nat : R = Room /\ SlotPayload - c - SlotOverhead = R - c
      BY RoomType
    <3>2. b + c >= R
      <4>1. b = AtLeast(0, AtMost(R - c, q))
        BY <1>5, <2>2, <2>7, <3>1 DEF Served
      <4> QED BY <2>7, <4>1 DEF AtLeast, AtMost
    <3>3. PICK d \in Int, e \in Int : d = q - t /\ e = (q - b) - (t + c)
      OBVIOUS
    <3>4. d - R \in Int /\ e - v <= (d - R) - v /\ s - 1 \in Int
      BY <3>2, <3>3
    <3>5. Provided(d - R, v, s - 1, p)
      BY <2>3, <3>1, <3>3, SlotUsed
    <3>6. (s - 1) * SlotPayload + p >= (s - 1) * SlotPayload + p
      <4>1. PICK x \in Int : x = (s - 1) * SlotPayload + p
        BY RoomType
      <4> QED BY <4>1
    <3>7. Provided(e, v, s - 1, p)
      BY <3>4, <3>5, <3>6, MoreProvided
    <3> QED BY <2>4, <2>5, <2>7, <3>3, <3>7
  <2>8. CASE q - b # 0 /\ rc # own
    <3>1. PICK x \in Int : x = s * SlotPayload + p
      BY RoomType
    <3>2. PICK d \in Int, e \in Int : d = q - t /\ e = (q - b) - t
      OBVIOUS
    <3>3. e - v <= d - v
      BY <3>2
    <3>4. Provided(e, v, s, p)
      BY <2>3, <3>1, <3>2, <3>3, MoreProvided
    <3>5. takenByControl'[rc] = t
      BY <2>4, <2>8
    <3> QED BY <2>4, <2>5, <2>8, <3>2, <3>4, <3>5
  <2> QED BY <2>6, <2>7, <2>8
<1> QED BY <1>8, <1>10 DEF CapacityInv, OldIsProvided, VolumeRc

\* A grant is no more than MaxSlots slots of a service.
LEMMA ScheduleStep ==
  ASSUME CapacityInv, ScheduleSome PROVE CapacityInv'
<1>1. PICK grant \in [Rc -> 0 .. MaxSlots] : Schedule(grant)
  BY DEF ScheduleSome
<1>2. grant \in [Rc -> Nat]
  BY CapacityAssumption
<1>3. tbtpChannel' \in Seq([Rc -> Nat])
  BY <1>1, <1>2 DEF Schedule, CapacityInv, CapacityType
<1>4. UNCHANGED <<queueBytes, volumeIn, m_pendingVbdcBytes, m_assignedDaResourcesBytes, slots, elapsed,
                  takenByControl, controlQueue>>
  BY <1>1 DEF Schedule, managerVars
<1>5. elapsed' \in Nat /\ IsSequence(controlQueue')
  BY <1>4 DEF CapacityInv, CapacityType
<1> QED BY <1>3, <1>4, <1>5, OtherStep

\* A message is lost: what it would have asked for, or assigned, stays pending.
LEMMA LossStep ==
  ASSUME CapacityInv, LoseMessage PROVE CapacityInv'
<1>1. UNCHANGED <<queueBytes, volumeIn, m_pendingVbdcBytes, m_assignedDaResourcesBytes, slots, elapsed,
                  takenByControl, controlQueue>>
  BY DEF LoseMessage, managerVars
<1>2. tbtpChannel' = tbtpChannel \/ (tbtpChannel # <<>> /\ tbtpChannel' = Tail(tbtpChannel))
  BY DEF LoseMessage
<1>3. tbtpChannel \in Seq([Rc -> Nat]) /\ elapsed \in Nat /\ IsSequence(controlQueue)
  BY DEF CapacityInv, CapacityType
<1>4. tbtpChannel' \in Seq([Rc -> Nat]) /\ elapsed' \in Nat
  <2> DEFINE S == [Rc -> Nat]
  <2>1. tbtpChannel \in Seq(S)
    BY <1>3
  <2> HIDE DEF S
  <2>2. tbtpChannel' \in Seq(S)
    BY <1>2, <2>1
  <2> QED BY <1>1, <1>3, <2>2 DEF S
<1>5. IsSequence(controlQueue')
  BY <1>1, <1>3
<1> QED BY <1>1, <1>4, <1>5, OtherStep

\* Control messages enter their queue, or go by slotted ALOHA.
LEMMA ControlStep ==
  ASSUME CapacityInv, SendReport \/ DoSlottedAlohaTransmit PROVE CapacityInv'
<1>1. UNCHANGED <<managerVars, tbtpChannel, slots, takenByControl>>
  BY DEF SendReport, DoSlottedAlohaTransmit
<1>2. tbtpChannel \in Seq([Rc -> Nat]) /\ elapsed \in Nat /\ IsSequence(controlQueue)
  BY DEF CapacityInv, CapacityType
<1>3. IsSequence(controlQueue')
  <2>1. CASE SendReport
    BY <1>2, <2>1, SequenceSteps DEF SendReport
  <2>2. CASE DoSlottedAlohaTransmit
    BY <1>2, <2>2, ControlFits DEF DoSlottedAlohaTransmit, SendControl
  <2> QED BY <2>1, <2>2
<1> QED BY <1>1, <1>2, <1>3, OtherStep DEF managerVars

-----------------------------------------------------------------------------
(* The invariant. *)

LEMMA CapacityStarts ==
  ASSUME Init PROVE CapacityInv
<1>1. CapacityType
  BY SequenceSteps DEF Init, ManagerInit, CapacityType
<1>2. ASSUME NEW rc \in VolumeRc
      PROVE  Provided(queueBytes[rc] - takenByControl[rc], volumeIn[rc], slots[rc], StillPending(rc))
  <2>1. rc \in Rc
    BY DEF VolumeRc
  <2>2. queueBytes[rc] - takenByControl[rc] = 0 /\ volumeIn[rc] = 0 /\ slots[rc] = 0
    BY <2>1 DEF Init, ManagerInit
  <2>3. StillPending(rc) \in Nat
    BY <1>1, <2>1, StillPendingType
  <2> QED BY <2>2, <2>3, NothingQueued
<1> QED BY <1>1, <1>2 DEF CapacityInv, OldIsProvided

LEMMA CapacitySteps ==
  ASSUME VolumesFit, OverheadIsEstimated, CapacityInv, RequestsCover, [Next]_vars
  PROVE  CapacityInv'
<1>1. tbtpChannel \in Seq([Rc -> Nat]) /\ elapsed \in Nat /\ IsSequence(controlQueue)
  BY DEF CapacityInv, CapacityType
<1>2. CASE PacketArrives
  BY <1>2, PacketStep
<1>3. CASE Evaluate
  BY <1>3, EvaluateStep
<1>4. CASE Skip
  <2>1. elapsed' = elapsed + 1
        /\ UNCHANGED <<queueBytes, volumeIn, m_pendingVbdcBytes, m_assignedDaResourcesBytes, slots, tbtpChannel,
                     takenByControl, controlQueue>>
    BY <1>4 DEF Skip, SkipEvaluation, linkVars
  <2>2. elapsed' \in Nat /\ tbtpChannel' \in Seq([Rc -> Nat]) /\ IsSequence(controlQueue')
    BY <1>1, <2>1
  <2> QED BY <2>1, <2>2, OtherStep
<1>5. CASE CrReceived
  <2>1. UNCHANGED <<managerVars, slots, tbtpChannel, takenByControl, controlQueue>>
    BY <1>5 DEF CrReceived
  <2>2. elapsed' \in Nat /\ tbtpChannel' \in Seq([Rc -> Nat]) /\ IsSequence(controlQueue')
    BY <1>1, <2>1 DEF managerVars
  <2> QED BY <2>1, <2>2, OtherStep DEF managerVars
<1>6. CASE ScheduleSome
  BY <1>6, ScheduleStep
<1>7. CASE TbtpReceived
  BY <1>7, TbtpStep
<1>8. CASE \E rc \in Rc : DoTransmit(rc)
  BY <1>8, TransmitStep
<1>9. CASE LoseMessage
  BY <1>9, LossStep
<1>10. CASE SendReport \/ DoSlottedAlohaTransmit
  BY <1>10, ControlStep
<1>11. CASE UNCHANGED vars
  <2>1. UNCHANGED <<managerVars, slots, tbtpChannel, takenByControl, controlQueue>>
    BY <1>11 DEF vars, linkVars
  <2>2. elapsed' \in Nat /\ tbtpChannel' \in Seq([Rc -> Nat]) /\ IsSequence(controlQueue')
    BY <1>1, <2>1 DEF managerVars
  <2> QED BY <2>1, <2>2, OtherStep DEF managerVars
<1> QED BY <1>2, <1>3, <1>4, <1>5, <1>6, <1>7, <1>8, <1>9, <1>10, <1>11 DEF Next

\* What is not new, and not pending, has its slots.
LEMMA AskedFor ==
  ASSUME CapacityInv PROVE BacklogIsAskedFor
<1> SUFFICES ASSUME NEW rc \in VolumeRc, volumeIn[rc] = 0,
                    m_pendingVbdcBytes[rc] <= m_assignedDaResourcesBytes[rc]
             PROVE  queueBytes[rc] <= slots[rc] * (SlotPayload - SlotOverhead) + takenByControl[rc]
  BY DEF BacklogIsAskedFor
<1>1. rc \in Rc /\ Provided(queueBytes[rc] - takenByControl[rc], volumeIn[rc], slots[rc], StillPending(rc))
  BY DEF CapacityInv, OldIsProvided, VolumeRc
<1>2. StillPending(rc) = 0
  <2>1. PICK a \in Int, b \in Int : a = m_pendingVbdcBytes[rc] /\ b = m_assignedDaResourcesBytes[rc]
    BY <1>1 DEF CapacityInv, CapacityType
  <2>2. StillPending(rc) = AtLeast(0, a - b) /\ a <= b
    BY <2>1 DEF StillPending
  <2> QED BY <2>1, <2>2 DEF AtLeast
<1>3. PICK q \in Int, t \in Nat, s \in Nat, P \in Nat \ {0}, R \in Nat :
        q = queueBytes[rc] - t /\ t = takenByControl[rc] /\ s = slots[rc] /\ P = SlotPayload /\ R = Room
  BY <1>1, RoomType DEF CapacityInv, CapacityType
<1>4. PICK x \in Int : x = s * R
  OBVIOUS
<1>5. q * P < x * P + P
  <2>1. (q - 0) * P < (s * P + 0) * R + P
    BY <1>1, <1>2, <1>3 DEF Provided
  <2>2. (q - 0) * P = q * P /\ (s * P + 0) * R = (s * R) * P
    OBVIOUS
  <2> QED BY <1>4, <2>1, <2>2
<1>6. q <= x
  <2> SUFFICES ASSUME x < q PROVE FALSE
    OBVIOUS
  <2>1. x * P + P <= q * P
    BY TimesMonotonic
  <2>2. x * P \in Int /\ q * P \in Int
    OBVIOUS
  <2> QED BY <1>5, <2>1, <2>2
<1>7. queueBytes[rc] = q + t
  <2>1. queueBytes[rc] \in Int
    BY <1>1 DEF CapacityInv, CapacityType
  <2> QED BY <1>3, <2>1
<1> QED BY <1>3, <1>4, <1>6, <1>7 DEF Room

\* DoEvaluation forgets no backlog but what control messages displaced: whatever
\* requests and TBTPs are lost, and whatever is granted, bytes that the request
\* manager does not take to be asked for have slots in hand, or are no more than
\* control messages took from the service's slots.
THEOREM BacklogAskedFor ==
  VolumesFit /\ OverheadIsEstimated /\ Spec /\ []RequestsCover => []BacklogIsAskedFor
<1> SUFFICES ASSUME VolumesFit, OverheadIsEstimated
             PROVE  Spec /\ []RequestsCover => []BacklogIsAskedFor
  OBVIOUS
<1>1. Init => CapacityInv
  BY CapacityStarts
<1>2. CapacityInv /\ RequestsCover /\ [Next]_vars => CapacityInv'
  BY CapacitySteps
<1>3. CapacityInv => BacklogIsAskedFor
  BY AskedFor
<1> QED BY <1>1, <1>2, <1>3, PTL DEF Spec

-----------------------------------------------------------------------------
(* The fragments of a reception. *)

Fragment == [from : Int, to : Int, power : Int]
PowerAmong(S) == SumFunction([b \in S |-> RxPower[b.sender]])

\* The bursts that EliminateInterferences takes off a fragment of burst e, but
\* for those that are gone.
EndingIn(H, fragment, e, gone) == {b \in H \ (gone \cup {e}) : EndsIn(fragment, b)}

\* A burst ends at the instant at which another begins or ends.
Coincide(H) == \E b, c \in H : b # c /\ b.end \in {c.start, c.end}

\* A fragment that lasts has the power of the bursts that are not gone, which
\* last all the time or not at all; one that lasts no time has enough power
\* for all that may be taken off it, unless bursts coincide.
FragmentOk(H, fragment, e, gone) ==
  /\ fragment \in Fragment
  /\ e.start <= fragment.from /\ fragment.from <= fragment.to /\ fragment.to <= e.end
  /\ fragment.from < fragment.to =>
       /\ fragment.power = PowerAmong(EndingIn(H, fragment, e, gone))
       /\ \A b \in H \ {e} : \/ b.start <= fragment.from /\ fragment.to <= b.end
                             \/ b.end <= fragment.from
                             \/ fragment.to <= b.start
  /\ Coincide(H) \/ fragment.power >= PowerAmong(EndingIn(H, fragment, e, gone))

\* Fragments cover a burst.
Fragmented(P, e) ==
  /\ P \in Seq(Fragment) /\ Len(P) \in Nat \ {0}
  /\ P[1].from = e.start /\ P[Len(P)].to = e.end
  /\ \A i \in 1 .. Len(P) - 1 : P[i + 1].from = P[i].to

ExactFragments(H, P, e, gone) ==
  Fragmented(P, e) /\ \A i \in 1 .. Len(P) : FragmentOk(H, P[i], e, gone)

LEMMA PowerAmongFacts ==
  ASSUME NEW S, IsFiniteSet(S), \A b \in S : BurstOk(b)
  PROVE  /\ PowerAmong(S) \in Nat
         /\ \A T \in SUBSET S : /\ PowerAmong(T) \in Nat /\ PowerAmong(T) <= PowerAmong(S)
                                /\ PowerAmong(S) = PowerAmong(T) + PowerAmong(S \ T)
         /\ \A x \in S : PowerAmong(S) = RxPower[x.sender] + PowerAmong(S \ {x})
<1> DEFINE f == [b \in S |-> RxPower[b.sender]]
<1>1. \A b \in S : f[b] \in Nat /\ f[b] \in Int /\ f[b] = RxPower[b.sender]
  BY CarrierAssumption DEF BurstOk
<1> HIDE DEF f
<1>2. ASSUME NEW T \in SUBSET S
      PROVE  IsFiniteSet(T) /\ PowerAmong(T) = SumFunctionOnSet(f, T) /\ PowerAmong(T) \in Nat
  <2> DEFINE g == [b \in T |-> RxPower[b.sender]]
  <2>1. IsFiniteSet(T)
    BY FS_Subset
  <2>2. PowerAmong(T) = SumFunctionOnSet(g, T)
    BY DEF PowerAmong, SumFunction
  <2>3. \A x \in T : g[x] \in Int /\ g[x] = f[x] /\ f[x] \in Nat
    BY <1>1
  <2> HIDE DEF g
  <2>4. SumFunctionOnSet(g, T) = SumFunctionOnSet(f, T)
    BY <2>1, <2>3, SumSame
  <2>5. SumFunctionOnSet(f, T) \in Nat
    BY <2>1, <2>3, SumOfNaturals
  <2> QED BY <2>1, <2>2, <2>4, <2>5
<1>3. PowerAmong(S) = SumFunctionOnSet(f, S) /\ PowerAmong(S) \in Nat
  <2>1. S \in SUBSET S
    OBVIOUS
  <2> QED BY <1>2, <2>1
<1>4. ASSUME NEW T \in SUBSET S
      PROVE  PowerAmong(T) <= PowerAmong(S) /\ PowerAmong(S) = PowerAmong(T) + PowerAmong(S \ T)
  <2>1. SumFunctionOnSet(f, T) <= SumFunctionOnSet(f, S)
    BY <1>1, SumSmaller
  <2>2. PICK R \in SUBSET S : R = S \ T
    OBVIOUS
  <2>3. IsFiniteSet(T) /\ IsFiniteSet(R) /\ T \cap R = {} /\ T \cup R = S
    BY <1>2, <2>2
  <2>4. \A x \in T \cup R : f[x] \in Int
    BY <1>1
  <2>5. SumFunctionOnSet(f, T \cup R) = SumFunctionOnSet(f, T) + SumFunctionOnSet(f, R)
    BY <2>3, <2>4, SumUnion
  <2> QED BY <1>2, <1>3, <2>1, <2>2, <2>3, <2>5
<1>5. ASSUME NEW x \in S PROVE PowerAmong(S) = RxPower[x.sender] + PowerAmong(S \ {x})
  <2>1. SumFunctionOnSet(f, S) = f[x] + SumFunctionOnSet(f, S \ {x})
    BY <1>1, SumWithout
  <2>2. S \ {x} \in SUBSET S
    OBVIOUS
  <2> QED BY <1>1, <1>2, <1>3, <2>1, <2>2
<1> QED BY <1>2, <1>3, <1>4, <1>5

\* When a burst begins and ends, seen from a position in the list.
LEMMA TimesBetween ==
  ASSUME NEW H, Heard(H), NEW e \in Receiving, NEW b \in H, NEW k \in Nat,
         PositionOf(e, FALSE) <= k, k < PositionOf(e, TRUE)
  PROVE  /\ L0[k].time \in Nat /\ L0[k + 1].time \in Nat
         /\ e.start <= L0[k].time /\ L0[k].time <= L0[k + 1].time /\ L0[k + 1].time <= e.end
         /\ <<b, FALSE>> \in Behind(L0, k) => L0[k + 1].time <= b.start
         /\ <<b, TRUE>> \in Behind(L0, k) => L0[k + 1].time <= b.end
         /\ <<b, FALSE>> \notin Behind(L0, k) => b.start <= L0[k].time
         /\ <<b, TRUE>> \notin Behind(L0, k) => b.end <= L0[k].time
<1> DEFINE s == PositionOf(e, FALSE)
           f == PositionOf(e, TRUE)
<1>1. /\ Len(L0) \in Nat /\ s \in 1 .. Len(L0) /\ f \in 1 .. Len(L0)
      /\ \A i \in 1 .. Len(L0) : /\ L0[i].time \in Nat
                                 /\ s <= i => e.start <= L0[i].time
                                 /\ i <= f => L0[i].time <= e.end
      /\ e \in H /\ BurstOk(e)
  BY Positions
<1>2. IsList(L0, H) /\ BurstOk(b)
  BY DEF Heard, IsList
<1>3. /\ <<b, FALSE>> \notin Behind(L0, 0) => b.start <= e.start
      /\ <<b, TRUE>> \notin Behind(L0, 0) => b.end <= e.start
  BY DEF Heard
<1>4. s <= k /\ k < f
  OBVIOUS
<1> HIDE DEF s, f
<1>5. /\ k \in 1 .. Len(L0) /\ k + 1 \in 1 .. Len(L0) /\ k + 1 <= f
      /\ \A i \in 1 .. Len(L0) : (i > k => i = k + 1 \/ k + 1 < i) /\ (~(i > k) => i = k \/ i < k)
  BY <1>1, <1>4
<1>6. \A i, j \in 1 .. Len(L0) : i < j => L0[i].time <= L0[j].time
  BY <1>2 DEF IsList
<1>7. /\ L0[k].time \in Nat /\ L0[k + 1].time \in Nat
      /\ e.start <= L0[k].time /\ L0[k].time <= L0[k + 1].time /\ L0[k + 1].time <= e.end
  <2>1. k < k + 1
    OBVIOUS
  <2> QED BY <1>1, <1>4, <1>5, <1>6, <2>1
<1>8. ASSUME NEW i \in 1 .. Len(L0), L0[i].event = b
      PROVE  L0[i].time = (IF L0[i].isEnd THEN b.end ELSE b.start)
  <2>1. L0[i].time = IF L0[i].isEnd THEN L0[i].event.end ELSE L0[i].event.start
    BY <1>2, ListMember
  <2> QED BY <1>8, <2>1
<1>9. ASSUME NEW i \in 1 .. Len(L0)
      PROVE  /\ i > k => L0[k + 1].time <= L0[i].time
             /\ ~(i > k) => L0[i].time <= L0[k].time
  <2>1. ASSUME NEW j \in 1 .. Len(L0), NEW l \in 1 .. Len(L0), j = l \/ j < l
        PROVE  L0[j].time <= L0[l].time
    <3>1. CASE j = l
      BY <1>1, <3>1
    <3>2. CASE j < l
      BY <1>6, <3>2
    <3> QED BY <2>1, <3>1, <3>2
  <2>2. i > k => i = k + 1 \/ k + 1 < i
    BY <1>5
  <2>3. ~(i > k) => i = k \/ i < k
    BY <1>5
  <2>4. k \in 1 .. Len(L0) /\ k + 1 \in 1 .. Len(L0)
    BY <1>5
  <2> QED BY <2>1, <2>2, <2>3, <2>4
<1>10. ASSUME <<b, FALSE>> \in Behind(L0, k) PROVE L0[k + 1].time <= b.start
  <2>1. PICK i \in 1 .. Len(L0) : i > k /\ L0[i].event = b /\ ~L0[i].isEnd
    BY <1>2, <1>10, RiseBehind
  <2> QED BY <1>8, <1>9, <2>1
<1>11. ASSUME <<b, TRUE>> \in Behind(L0, k) PROVE L0[k + 1].time <= b.end
  <2>1. PICK i \in 1 .. Len(L0) : i > k /\ L0[i].event = b /\ L0[i].isEnd
    BY <1>2, <1>11, FallBehind
  <2> QED BY <1>8, <1>9, <2>1
<1>12. ASSUME <<b, FALSE>> \notin Behind(L0, k) PROVE b.start <= L0[k].time
  <2>1. CASE <<b, FALSE>> \notin Behind(L0, 0)
    BY <1>1, <1>2, <1>3, <1>7, <2>1 DEF BurstOk
  <2>2. CASE <<b, FALSE>> \in Behind(L0, 0)
    <3>1. PICK i \in 1 .. Len(L0) : i > 0 /\ L0[i].event = b /\ ~L0[i].isEnd
      BY <1>2, <2>2, RiseBehind
    <3>2. ~(i > k)
      BY <1>2, <1>12, <3>1, RiseBehind
    <3> QED BY <1>8, <1>9, <3>1, <3>2
  <2> QED BY <2>1, <2>2
<1>13. ASSUME <<b, TRUE>> \notin Behind(L0, k) PROVE b.end <= L0[k].time
  <2>1. CASE <<b, TRUE>> \notin Behind(L0, 0)
    BY <1>1, <1>2, <1>3, <1>7, <2>1 DEF BurstOk
  <2>2. CASE <<b, TRUE>> \in Behind(L0, 0)
    <3>1. PICK i \in 1 .. Len(L0) : i > 0 /\ L0[i].event = b /\ L0[i].isEnd
      BY <1>2, <2>2, FallBehind
    <3>2. ~(i > k)
      BY <1>2, <1>13, <3>1, FallBehind
    <3> QED BY <1>8, <1>9, <3>1, <3>2
  <2> QED BY <2>1, <2>2
<1> QED BY <1>7, <1>10, <1>11, <1>12, <1>13

\* A fragment between two changes.
LEMMA FragmentBetween ==
  ASSUME NEW H, Heard(H), NEW e \in Receiving, NEW k \in Nat,
         PositionOf(e, FALSE) <= k, k < PositionOf(e, TRUE), NEW fragment,
         fragment.from = L0[k].time, fragment.to = L0[k + 1].time,
         fragment.power = SumFunctionOnSet(PowerLasting(L0, H, k), H \ {e}),
         fragment = [from |-> fragment.from, to |-> fragment.to, power |-> fragment.power]
  PROVE  FragmentOk(H, fragment, e, {})
<1> DEFINE S == H \ {e}
           T == {b \in S : Lasting(L0, b, k)}
           E == EndingIn(H, fragment, e, {})
<1>1. /\ IsList(L0, H) /\ IsFiniteSet(H) /\ IsFiniteSet(S)
      /\ \A b \in H : BurstOk(b) /\ RxPower[b.sender] \in Nat
  BY FS_RemoveElement, CarrierAssumption DEF Heard, IsList, BurstOk
<1>2. /\ Len(L0) \in Nat /\ e \in H /\ BurstOk(e) /\ k + 1 \in 1 .. Len(L0)
  <2>1. /\ Len(L0) \in Nat /\ PositionOf(e, FALSE) \in 1 .. Len(L0)
        /\ PositionOf(e, TRUE) \in 1 .. Len(L0) /\ e \in H /\ BurstOk(e)
    BY Positions
  <2>2. PICK s : s = PositionOf(e, FALSE)
    OBVIOUS
  <2>3. PICK f : f = PositionOf(e, TRUE)
    OBVIOUS
  <2>4. s \in 1 .. Len(L0) /\ f \in 1 .. Len(L0) /\ s <= k /\ k < f
    BY <2>1, <2>2, <2>3
  <2>5. k + 1 \in 1 .. Len(L0)
    BY <2>1, <2>4
  <2> QED BY <2>1, <2>5
<1>3. /\ fragment.from \in Nat /\ fragment.to \in Nat
      /\ e.start <= fragment.from /\ fragment.from <= fragment.to /\ fragment.to <= e.end
  BY <1>2, TimesBetween, ZenonT(60)
<1>4. ASSUME NEW b \in S
      PROVE  /\ b \in T => b.start <= fragment.from /\ fragment.to <= b.end
             /\ b \notin T => b.end <= fragment.from \/ fragment.to <= b.start
             /\ b \notin T => <<b, FALSE>> \in Behind(L0, k) \/ <<b, TRUE>> \notin Behind(L0, k)
             /\ <<b, FALSE>> \in Behind(L0, k) => fragment.to <= b.start
  BY TimesBetween DEF Lasting
<1>5. fragment.power = PowerAmong(T) /\ PowerAmong(T) \in Nat
  <2> DEFINE p == PowerLasting(L0, H, k)
             g == [b \in T |-> RxPower[b.sender]]
  <2>1. /\ \A b \in S : p[b] \in Int
        /\ \A b \in S \ T : p[b] = 0
        /\ \A b \in T : p[b] = g[b] /\ p[b] \in Int
    BY <1>1 DEF PowerLasting
  <2>2. T \in SUBSET S /\ IsFiniteSet(T)
    BY <1>1, FS_Subset
  <2>3. SumFunctionOnSet(g, T) = PowerAmong(T)
    BY DEF PowerAmong, SumFunction
  <2> HIDE DEF p, g, T, S
  <2>4. SumFunctionOnSet(p, S) = SumFunctionOnSet(p, T)
    BY <1>1, <2>1, <2>2, SumPart
  <2>5. SumFunctionOnSet(p, T) = SumFunctionOnSet(g, T)
    BY <2>1, <2>2, SumSame
  <2>6. \A b \in T : BurstOk(b)
    BY <1>1, <2>2 DEF S
  <2>7. PowerAmong(T) \in Nat
    BY <2>2, <2>6, PowerAmongFacts
  <2> QED BY <2>3, <2>4, <2>5, <2>7 DEF p, S
<1>6. E = {b \in S : b.start < fragment.to /\ fragment.to <= b.end}
  BY DEF EndingIn, EndsIn
<1> HIDE DEF T, E, S
<1>7. T \subseteq S /\ E \subseteq S /\ S \subseteq H
  BY <1>6 DEF T, S
<1>8. ASSUME fragment.from < fragment.to PROVE E = T
  <2>1. ASSUME NEW b \in S PROVE b \in E <=> b \in T
    <3>1. b.start \in Nat /\ b.end \in Nat
      BY <1>1, <1>7 DEF BurstOk
    <3>2. /\ b \in T => b.start <= fragment.from /\ fragment.to <= b.end
          /\ b \notin T => b.end <= fragment.from \/ fragment.to <= b.start
      BY <1>4
    <3>3. b \in E <=> b.start < fragment.to /\ fragment.to <= b.end
      BY <1>6
    <3> QED BY <1>3, <1>8, <3>1, <3>2, <3>3
  <2> QED BY <1>7, <2>1
<1>9. ASSUME ~Coincide(H) PROVE E \subseteq T
  <2>1. ASSUME NEW b \in E, b \notin T PROVE FALSE
    <3>1. b \in S /\ b \in H /\ b.start \in Nat /\ b.end \in Nat /\ b.start < fragment.to
          /\ fragment.to <= b.end
      BY <1>1, <1>6, <1>7 DEF BurstOk
    <3>2. b.end <= fragment.from
      <4>1. b.end <= fragment.from \/ fragment.to <= b.start
        BY <1>4, <2>1, <3>1
      <4> QED BY <1>3, <3>1, <4>1
    <3>3. b.end = fragment.to
      BY <1>3, <3>1, <3>2
    <3>4. <<b, FALSE>> \notin Behind(L0, k) /\ <<b, TRUE>> \notin Behind(L0, k)
      <4>1. /\ <<b, FALSE>> \in Behind(L0, k) \/ <<b, TRUE>> \notin Behind(L0, k)
            /\ <<b, FALSE>> \in Behind(L0, k) => fragment.to <= b.start
        BY <1>4, <2>1, <3>1
      <4>2. ~(fragment.to <= b.start)
        BY <1>3, <3>1
      <4> QED BY <4>1, <4>2
    <3>5. PICK c : c = L0[k + 1].event
      OBVIOUS
    <3>6. /\ c \in H /\ L0[k + 1].isEnd \in BOOLEAN
          /\ fragment.to = IF L0[k + 1].isEnd THEN c.end ELSE c.start
      BY <1>1, <1>2, <3>5, ListMember
    <3>7. c # b
      <4>1. ASSUME c = b PROVE FALSE
        <5>1. k + 1 > k
          OBVIOUS
        <5>2. CASE L0[k + 1].isEnd
          BY <1>1, <1>2, <3>4, <3>5, <4>1, <5>1, <5>2, FallBehind
        <5>3. CASE ~L0[k + 1].isEnd
          BY <1>1, <1>2, <3>4, <3>5, <4>1, <5>1, <5>3, RiseBehind
        <5> QED BY <5>2, <5>3
      <4> QED BY <4>1
    <3> QED BY <1>9, <3>1, <3>3, <3>6, <3>7 DEF Coincide
  <2> QED BY <2>1
<1>10. ASSUME ~Coincide(H) PROVE fragment.power >= PowerAmong(E)
  <2>1. IsFiniteSet(T) /\ \A b \in T : BurstOk(b)
    BY <1>1, <1>7, FS_Subset
  <2>2. E \in SUBSET T
    BY <1>9, <1>10
  <2>3. PowerAmong(E) \in Nat /\ PowerAmong(E) <= PowerAmong(T)
    BY <2>1, <2>2, PowerAmongFacts
  <2> QED BY <1>5, <2>3
<1>11. fragment \in Fragment
  BY <1>3, <1>5 DEF Fragment
<1>12. ASSUME NEW b \in H \ {e}
       PROVE  \/ b.start <= fragment.from /\ fragment.to <= b.end
              \/ b.end <= fragment.from
              \/ fragment.to <= b.start
  BY <1>4 DEF S
<1> QED BY <1>3, <1>5, <1>8, <1>10, <1>11, <1>12 DEF FragmentOk, E

\* What SatPerFragmentInterference works out for a reception.
LEMMA FragmentsAreExact ==
  ASSUME NEW H, Heard(H), NEW e \in Receiving
  PROVE  ExactFragments(H, PerFragment(e), e, {})
<1> DEFINE s == PositionOf(e, FALSE)
           f == PositionOf(e, TRUE)
           D == ChangesDuring(e)
           n == Len(D)
           d == [i \in DOMAIN D |-> D[i].time]
           times == <<e.start>> \o d \o <<e.end>>
           P == [i \in 1 .. Len(D) + 1 |->
                   [from |-> times[i], to |-> times[i + 1],
                    power |-> PowerBefore(e) + PowerOf(SubSeq(D, 1, i - 1))]]
<1>1. /\ Len(L0) \in Nat /\ s \in 1 .. Len(L0) /\ f \in 1 .. Len(L0) /\ s < f
      /\ L0[s].time = e.start /\ L0[f].time = e.end
      /\ \A i \in 1 .. Len(L0) : L0[i].time \in Nat
      /\ e \in H /\ BurstOk(e)
  BY Positions
<1>2. /\ n = f - s - 1 /\ DOMAIN D = 1 .. n /\ n \in Nat
      /\ \A i \in 1 .. n : D[i] = L0[s + i] /\ s + i \in 1 .. Len(L0)
      /\ \A j \in 0 .. n :
           PowerBefore(e) + PowerOf(SubSeq(D, 1, j)) = SumFunctionOnSet(PowerLasting(L0, H, s + j), H \ {e})
  BY PowerDuring
<1>3. PerFragment(e) = IF Lasts(Last(P)) = 0 THEN Front(P) ELSE P
  BY DEF PerFragment
<1> HIDE DEF s, f, D
<1>4. \A i \in 1 .. n + 2 : times[i] = L0[s + i - 1].time
  <2>1. d \in Seq(Nat) /\ Len(d) = n /\ \A i \in 1 .. n : d[i] = L0[s + i].time
    <3>1. \A i \in 1 .. n : d[i] = L0[s + i].time /\ L0[s + i].time \in Nat
      BY <1>1, <1>2
    <3>2. d \in [1 .. n -> Nat]
      BY <1>2, <3>1
    <3> QED BY <1>2, <3>1, <3>2
  <2>2. e.start \in Nat /\ e.end \in Nat
    BY <1>1 DEF BurstOk
  <2> HIDE DEF d, n
  <2>3. <<e.start>> \in Seq(Nat) /\ <<e.end>> \in Seq(Nat)
    BY <2>2
  <2> DEFINE q == <<e.start>> \o d
  <2>4. q \in Seq(Nat) /\ Len(q) = n + 1 /\ \A i \in 1 .. n + 1 : q[i] = IF i = 1 THEN e.start ELSE d[i - 1]
    BY <1>2, <2>1, <2>2
  <2> HIDE DEF q
  <2>5. \A i \in 1 .. n + 2 : (q \o <<e.end>>)[i] = IF i <= n + 1 THEN q[i] ELSE e.end
    BY <1>2, <2>2, <2>4
  <2>6. ASSUME NEW i \in 1 .. n + 2 PROVE times[i] = L0[s + i - 1].time
    <3>1. times[i] = IF i <= n + 1 THEN q[i] ELSE e.end
      BY <2>5 DEF q
    <3>2. CASE i = 1
      <4>1. s + i - 1 = s /\ 1 <= n + 1
        BY <1>1, <1>2, <3>2
      <4> QED BY <1>1, <2>4, <3>1, <3>2, <4>1
    <3>3. CASE i = n + 2
      <4>1. PICK m \in Nat : m = n
        BY <1>2
      <4>2. PICK x \in Nat : x = s
        BY <1>1
      <4>3. PICK y \in Nat : y = f
        BY <1>1
      <4>4. m = y - x - 1 /\ i = m + 2
        BY <1>2, <3>3, <4>1, <4>2, <4>3
      <4>5. x + i - 1 = y /\ ~(i <= m + 1)
        BY <4>4
      <4>6. s + i - 1 = f /\ ~(i <= n + 1)
        BY <4>1, <4>2, <4>3, <4>5
      <4> QED BY <1>1, <3>1, <4>6
    <3>4. CASE i # 1 /\ i # n + 2
      <4>1. i <= n + 1 /\ i - 1 \in 1 .. n /\ s + (i - 1) = s + i - 1
        BY <1>1, <1>2, <3>4
      <4>2. PICK j \in 1 .. n : j = i - 1 /\ s + j = s + i - 1
        BY <4>1
      <4>3. times[i] = q[i]
        BY <3>1, <4>1
      <4>4. q[i] = d[j]
        BY <2>4, <3>4, <4>1, <4>2
      <4>5. d[j] = L0[s + j].time
        BY <2>1, <4>2
      <4> QED BY <4>2, <4>3, <4>4, <4>5
    <3> QED BY <3>2, <3>3, <3>4
  <2> QED BY <2>6
<1>5. ASSUME NEW i \in 1 .. n + 1
      PROVE  /\ s + i - 1 \in Nat /\ s <= s + i - 1 /\ s + i - 1 < f
             /\ P[i].from = L0[s + i - 1].time /\ P[i].to = L0[s + i].time
             /\ FragmentOk(H, P[i], e, {})
  <2>1. /\ s + i - 1 \in Nat /\ s <= s + i - 1 /\ s + i - 1 < f /\ (s + i - 1) + 1 = s + i
        /\ i \in 1 .. n + 2 /\ i + 1 \in 1 .. n + 2 /\ s + (i + 1) - 1 = s + i
        /\ i - 1 \in 0 .. n /\ s + (i - 1) = s + i - 1
    <3> HIDE DEF n
    <3>1. PICK x \in Nat : x = s
      BY <1>1
    <3>2. PICK y \in Nat : y = f
      BY <1>1
    <3>3. PICK m \in Nat : m = n /\ m = y - x - 1
      BY <1>2, <3>1, <3>2
    <3>4. i \in 1 .. m + 1 /\ x >= 1
      BY <1>1, <1>5, <3>1, <3>3
    <3>5. /\ x + i - 1 \in Nat /\ x <= x + i - 1 /\ x + i - 1 < y /\ (x + i - 1) + 1 = x + i
          /\ i \in 1 .. m + 2 /\ i + 1 \in 1 .. m + 2 /\ x + (i + 1) - 1 = x + i
          /\ i - 1 \in 0 .. m /\ x + (i - 1) = x + i - 1
      BY <3>3, <3>4
    <3> QED BY <3>1, <3>2, <3>3, <3>5
  <2>2. /\ P[i].from = times[i] /\ P[i].to = times[i + 1]
        /\ P[i].power = PowerBefore(e) + PowerOf(SubSeq(D, 1, i - 1))
        /\ P[i] = [from |-> P[i].from, to |-> P[i].to, power |-> P[i].power]
    OBVIOUS
  <2> HIDE DEF times, P, n
  <2>3. P[i].from = L0[s + i - 1].time /\ P[i].to = L0[s + i].time
    BY <1>4, <2>1, <2>2
  <2>4. P[i].power = SumFunctionOnSet(PowerLasting(L0, H, s + i - 1), H \ {e})
    BY <1>2, <2>1, <2>2
  <2>5. PICK k \in Nat : k = s + i - 1
    BY <2>1
  <2>6. PICK fragment : fragment = P[i]
    OBVIOUS
  <2>7. /\ PositionOf(e, FALSE) <= k /\ k < PositionOf(e, TRUE)
        /\ fragment.from = L0[k].time /\ fragment.to = L0[k + 1].time
        /\ fragment.power = SumFunctionOnSet(PowerLasting(L0, H, k), H \ {e})
        /\ fragment = [from |-> fragment.from, to |-> fragment.to, power |-> fragment.power]
    BY <2>1, <2>2, <2>3, <2>4, <2>5, <2>6 DEF s, f
  <2>8. FragmentOk(H, fragment, e, {})
    BY <2>7, FragmentBetween
  <2> QED BY <2>1, <2>3, <2>6, <2>8
<1>6. /\ P \in Seq(Fragment) /\ Len(P) = n + 1
  <2>1. \A i \in 1 .. n + 1 : P[i] \in Fragment
    BY <1>5 DEF FragmentOk
  <2>2. P \in [1 .. n + 1 -> Fragment]
    <3>1. P = [i \in 1 .. n + 1 |-> P[i]]
      OBVIOUS
    <3> HIDE DEF P
    <3> QED BY <2>1, <3>1
  <2> HIDE DEF P
  <2>3. n + 1 \in Nat
    BY <1>2
  <2> QED BY <2>2, <2>3
<1> HIDE DEF P, times, d
<1>7. /\ P[1].from = e.start /\ P[n + 1].to = e.end
      /\ \A i \in 1 .. n : P[i + 1].from = P[i].to
  <2>1. 1 \in 1 .. n + 1 /\ n + 1 \in 1 .. n + 1 /\ s + 1 - 1 = s /\ s + (n + 1) = f
    <3> HIDE DEF n
    <3>1. PICK x \in Nat : x = s
      BY <1>1
    <3>2. PICK y \in Nat : y = f
      BY <1>1
    <3>3. PICK m \in Nat : m = n /\ m = y - x - 1
      BY <1>2, <3>1, <3>2
    <3>4. 1 \in 1 .. m + 1 /\ m + 1 \in 1 .. m + 1 /\ x + 1 - 1 = x /\ x + (m + 1) = y
      BY <3>3
    <3> QED BY <3>1, <3>2, <3>3, <3>4
  <2>2. P[1].from = L0[s + 1 - 1].time /\ P[n + 1].to = L0[s + (n + 1)].time
    BY <1>5, <2>1
  <2>3. ASSUME NEW i \in 1 .. n PROVE P[i + 1].from = P[i].to
    <3>1. i \in 1 .. n + 1 /\ i + 1 \in 1 .. n + 1 /\ s + (i + 1) - 1 = s + i
      BY <1>1, <1>2
    <3>2. P[i + 1].from = L0[s + (i + 1) - 1].time /\ P[i].to = L0[s + i].time
      BY <1>5, <3>1
    <3> QED BY <3>1, <3>2
  <2> QED BY <1>1, <2>1, <2>2, <2>3
<1>8. ASSUME NEW m \in Nat \ {0}, m <= n + 1, NEW Q \in Seq(Fragment), Len(Q) = m,
             \A i \in 1 .. m : Q[i] = P[i], P[m].to = e.end
      PROVE  ExactFragments(H, Q, e, {})
  <2>1. \A i \in 1 .. m : i \in 1 .. n + 1
    BY <1>2, <1>8
  <2>2. \A i \in 1 .. m - 1 : i \in 1 .. n /\ i \in 1 .. m /\ i + 1 \in 1 .. m
    BY <1>2, <1>8
  <2>3. 1 \in 1 .. m /\ m \in 1 .. m
    BY <1>8
  <2>4. \A i \in 1 .. m - 1 : Q[i + 1].from = Q[i].to
    BY <1>7, <1>8, <2>2
  <2>5. \A i \in 1 .. m : FragmentOk(H, Q[i], e, {})
    BY <1>5, <1>8, <2>1
  <2> QED BY <1>7, <1>8, <2>3, <2>4, <2>5 DEF ExactFragments, Fragmented
<1>9. CASE Lasts(Last(P)) = 0
  <2>1. P[n + 1].from = e.end
    <3>1. Last(P) = P[n + 1]
      BY <1>6 DEF Last
    <3>2. P[n + 1].from \in Nat /\ P[n + 1].to \in Nat
      <4>1. n + 1 \in 1 .. n + 1 /\ s + (n + 1) - 1 \in 1 .. Len(L0) /\ s + (n + 1) \in 1 .. Len(L0)
        BY <1>1, <1>2 DEF n
      <4> QED BY <1>1, <1>5, <4>1
    <3> QED BY <1>7, <1>9, <3>1, <3>2 DEF Lasts
  <2>2. n # 0
    <3>1. e.start < e.end /\ e.start \in Nat /\ e.end \in Nat
      BY <1>1 DEF BurstOk
    <3>2. ASSUME n = 0 PROVE FALSE
      <4>1. n + 1 = 1
        BY <3>2
      <4> QED BY <1>7, <2>1, <3>1, <4>1
    <3> QED BY <3>2
  <2>3. Front(P) \in Seq(Fragment) /\ Len(Front(P)) = n /\ \A i \in 1 .. n : Front(P)[i] = P[i]
    <3>1. Front(P) = SubSeq(P, 1, n)
      <4>1. Len(P) - 1 = n
        BY <1>2, <1>6
      <4> QED BY <4>1 DEF Front
    <3> HIDE DEF n
    <3> QED BY <1>2, <1>6, <3>1
  <2>4. P[n].to = e.end
    <3>0. n \in Nat
      BY <1>2
    <3>1. n \in 1 .. n
      BY <2>2, <3>0
    <3>2. P[n + 1].from = P[n].to
      BY <1>7, <3>1
    <3> QED BY <2>1, <3>2
  <2>5. ExactFragments(H, Front(P), e, {})
    <3>1. PICK Q : Q = Front(P)
      OBVIOUS
    <3>2. PICK m \in Nat \ {0} : m = n
      BY <1>2, <2>2
    <3>3. Q \in Seq(Fragment) /\ Len(Q) = m /\ \A i \in 1 .. m : Q[i] = P[i]
      BY <2>3, <3>1, <3>2
    <3>4. P[m].to = e.end
      BY <2>4, <3>2
    <3>5. m <= n + 1
      <4>1. m <= m + 1
        OBVIOUS
      <4> QED BY <3>2, <4>1
    <3> HIDE DEF n
    <3>6. ExactFragments(H, Q, e, {})
      BY <1>8, <3>3, <3>4, <3>5
    <3> QED BY <3>1, <3>6
  <2> QED BY <1>3, <1>9, <2>5
<1>10. CASE ~(Lasts(Last(P)) = 0)
  <2>1. n + 1 \in Nat \ {0} /\ n + 1 <= n + 1
    BY <1>2
  <2>2. \A i \in 1 .. n + 1 : P[i] = P[i]
    OBVIOUS
  <2>3. ExactFragments(H, P, e, {})
    BY <1>6, <1>7, <1>8, <2>1
  <2> QED BY <1>3, <1>10, <2>3
<1> QED BY <1>9, <1>10

NotNegative(packet) == \A k \in 1 .. Len(packet.ifPower) : packet.ifPower[k].power >= 0

\* What ends in a fragment, and what is left when more is gone.
LEMMA EndingInFacts ==
  ASSUME NEW H, IsFiniteSet(H), \A b \in H : BurstOk(b), NEW fragment, NEW e, NEW gone
  PROVE  /\ IsFiniteSet(EndingIn(H, fragment, e, gone))
         /\ \A b \in EndingIn(H, fragment, e, gone) : b \in H /\ BurstOk(b)
         /\ PowerAmong(EndingIn(H, fragment, e, gone)) \in Nat
<1> DEFINE E == EndingIn(H, fragment, e, gone)
<1>1. E \subseteq H
  BY DEF EndingIn
<1>2. IsFiniteSet(E)
  BY <1>1, FS_Subset
<1>3. \A b \in E : b \in H /\ BurstOk(b)
  BY <1>1
<1> HIDE DEF E
<1>4. PowerAmong(E) \in Nat
  BY <1>2, <1>3, PowerAmongFacts
<1> QED BY <1>2, <1>3, <1>4 DEF E

\* A burst that begins when another is over does not touch its fragments.
LEMMA FragmentLater ==
  ASSUME NEW H, \A b \in H : BurstOk(b), NEW n, NEW e \in H, e.end <= n.start, BurstOk(n),
         NEW gone, NEW fragment, FragmentOk(H, fragment, e, gone)
  PROVE  FragmentOk(H \cup {n}, fragment, e, gone)
<1>1. fragment \in Fragment /\ fragment.to \in Int /\ fragment.to <= e.end /\ BurstOk(e)
  BY DEF FragmentOk, Fragment
<1>2. fragment.to <= n.start
  BY <1>1 DEF BurstOk
<1>3. EndingIn(H \cup {n}, fragment, e, gone) = EndingIn(H, fragment, e, gone)
  <2>1. ~EndsIn(fragment, n)
    BY <1>1, <1>2 DEF EndsIn, BurstOk
  <2> QED BY <2>1 DEF EndingIn
<1>4. Coincide(H) => Coincide(H \cup {n})
  BY DEF Coincide
<1>5. \A b \in H \ {e} : (\/ b.start <= fragment.from /\ fragment.to <= b.end
                          \/ b.end <= fragment.from
                          \/ fragment.to <= b.start) <=>
                         (\/ b.start <= fragment.from /\ fragment.to <= b.end
                          \/ b.end <= fragment.from
                          \/ fragment.to <= b.start)
  OBVIOUS
<1>6. ASSUME fragment.from < fragment.to, NEW b \in (H \cup {n}) \ {e}
      PROVE  \/ b.start <= fragment.from /\ fragment.to <= b.end
             \/ b.end <= fragment.from
             \/ fragment.to <= b.start
  <2>1. CASE b = n
    BY <1>2, <2>1
  <2>2. CASE b # n
    <3>1. b \in H \ {e}
      BY <2>2
    <3> QED BY <1>6, <3>1 DEF FragmentOk
  <2> QED BY <2>1, <2>2
<1> QED BY <1>3, <1>4, <1>6 DEF FragmentOk

LEMMA ExactLater ==
  ASSUME NEW H, \A b \in H : BurstOk(b), NEW n, NEW e \in H, e.end <= n.start, BurstOk(n),
         NEW gone, NEW P, ExactFragments(H, P, e, gone)
  PROVE  ExactFragments(H \cup {n}, P, e, gone)
<1>1. ASSUME NEW i \in 1 .. Len(P) PROVE FragmentOk(H \cup {n}, P[i], e, gone)
  <2>1. PICK fragment : fragment = P[i]
    OBVIOUS
  <2>2. FragmentOk(H, fragment, e, gone)
    BY <2>1 DEF ExactFragments
  <2>3. FragmentOk(H \cup {n}, fragment, e, gone)
    BY <2>2, FragmentLater
  <2> QED BY <2>1, <2>3
<1> QED BY <1>1 DEF ExactFragments

\* The bursts of D, decoded, are taken off a fragment.
TakenOff(D, fragment, e) == {b \in D : Overlap(b, e) /\ EndsIn(fragment, b)}
Rid(fragment, D, e) == [fragment EXCEPT !.power = fragment.power - PowerAmong(TakenOff(D, fragment, e))]

LEMMA FragmentRid ==
  ASSUME NEW H, IsFiniteSet(H), \A b \in H : BurstOk(b), NEW e \in H, NEW gone,
         NEW D \in SUBSET (H \ (gone \cup {e})), NEW fragment, FragmentOk(H, fragment, e, gone)
  PROVE  /\ FragmentOk(H, Rid(fragment, D, e), e, gone \cup D)
         /\ Rid(fragment, D, e).from = fragment.from /\ Rid(fragment, D, e).to = fragment.to
         /\ Rid(fragment, D, e) \in Fragment
<1> DEFINE T == TakenOff(D, fragment, e)
           U == {b \in D : EndsIn(fragment, b)}
           E == EndingIn(H, fragment, e, gone)
           V == EndingIn(H, fragment, e, gone \cup D)
           g == Rid(fragment, D, e)
<1>1. /\ fragment.from \in Int /\ fragment.to \in Int /\ fragment.power \in Int
      /\ fragment = [from |-> fragment.from, to |-> fragment.to, power |-> fragment.power]
      /\ e.start <= fragment.from /\ fragment.from <= fragment.to /\ fragment.to <= e.end
      /\ e.start \in Nat /\ e.end \in Nat
  BY DEF FragmentOk, Fragment, BurstOk
<1>2. T \subseteq U /\ U \subseteq E /\ V = E \ U
  BY DEF TakenOff, EndingIn
<1>3. ASSUME fragment.from < fragment.to \/ ~Coincide(H) PROVE T = U
  <2>1. ASSUME NEW b \in U PROVE b \in T
    <3>1. b \in H /\ b # e /\ b.start \in Nat /\ b.end \in Nat /\ b \in D
          /\ b.start < fragment.to /\ fragment.to <= b.end
      BY DEF EndsIn, BurstOk
    <3>2. b.start < e.end
      BY <1>1, <3>1
    <3>3. CASE e.start < b.end
      BY <3>1, <3>2, <3>3 DEF TakenOff, Overlap, EndsIn
    <3>4. CASE ~(e.start < b.end)
      <4>1. b.end = e.start /\ ~(fragment.from < fragment.to)
        BY <1>1, <3>1, <3>4
      <4>2. Coincide(H)
        BY <3>1, <4>1 DEF Coincide
      <4> QED BY <1>3, <4>1, <4>2
    <3> QED BY <3>3, <3>4
  <2> QED BY <1>2, <2>1
<1>4. /\ IsFiniteSet(E) /\ \A b \in E : BurstOk(b)
  BY EndingInFacts
<1>5. TakenOff(D, fragment, e) = T /\ g = [fragment EXCEPT !.power = fragment.power - PowerAmong(T)]
  BY DEF Rid
<1> HIDE DEF T, U, E, V, g
<1>6. /\ PowerAmong(T) \in Nat /\ PowerAmong(U) \in Nat /\ PowerAmong(V) \in Nat /\ PowerAmong(E) \in Nat
      /\ PowerAmong(E) = PowerAmong(U) + PowerAmong(V)
  <2>1. T \in SUBSET E /\ U \in SUBSET E /\ E \ U = V /\ V \in SUBSET E
    BY <1>2
  <2> QED BY <1>4, <2>1, PowerAmongFacts
<1>7. /\ g.from = fragment.from /\ g.to = fragment.to /\ g.power = fragment.power - PowerAmong(T)
      /\ g \in Fragment
  <2>1. g = [from |-> fragment.from, to |-> fragment.to, power |-> fragment.power - PowerAmong(T)]
    BY <1>1, <1>5
  <2>2. fragment.power - PowerAmong(T) \in Int
    BY <1>1, <1>6
  <2> QED BY <1>1, <2>1, <2>2 DEF Fragment
<1>8. EndingIn(H, g, e, gone \cup D) = V
  BY <1>7 DEF EndingIn, EndsIn, V
<1>9. ASSUME fragment.from < fragment.to PROVE g.power = PowerAmong(V)
  <2>1. fragment.power = PowerAmong(E)
    BY <1>9 DEF FragmentOk, E
  <2> QED BY <1>3, <1>6, <1>7, <1>9, <2>1
<1>10. ASSUME ~Coincide(H) PROVE g.power >= PowerAmong(V)
  <2>1. fragment.power >= PowerAmong(E)
    BY <1>10 DEF FragmentOk, E
  <2> QED BY <1>1, <1>3, <1>6, <1>7, <1>10, <2>1
<1>11. fragment.from < fragment.to =>
         \A b \in H \ {e} : \/ b.start <= fragment.from /\ fragment.to <= b.end
                            \/ b.end <= fragment.from
                            \/ fragment.to <= b.start
  BY DEF FragmentOk
<1>12. FragmentOk(H, g, e, gone \cup D)
  BY <1>1, <1>7, <1>8, <1>9, <1>10, <1>11 DEF FragmentOk
<1> QED BY <1>7, <1>12 DEF g

LEMMA ExactRid ==
  ASSUME NEW H, IsFiniteSet(H), \A b \in H : BurstOk(b), NEW e \in H, NEW gone,
         NEW D \in SUBSET (H \ (gone \cup {e})), NEW P, ExactFragments(H, P, e, gone),
         NEW Q, Q = [k \in DOMAIN P |-> Rid(P[k], D, e)]
  PROVE  ExactFragments(H, Q, e, gone \cup D)
<1>1. /\ P \in Seq(Fragment) /\ Len(P) \in Nat \ {0} /\ DOMAIN P = 1 .. Len(P)
      /\ P[1].from = e.start /\ P[Len(P)].to = e.end
      /\ \A i \in 1 .. Len(P) - 1 : P[i + 1].from = P[i].to
  BY DEF ExactFragments, Fragmented
<1>2. ASSUME NEW k \in 1 .. Len(P)
      PROVE  /\ FragmentOk(H, Q[k], e, gone \cup D) /\ Q[k] \in Fragment
             /\ Q[k].from = P[k].from /\ Q[k].to = P[k].to
  <2>1. PICK fragment : fragment = P[k]
    OBVIOUS
  <2>2. FragmentOk(H, fragment, e, gone) /\ Q[k] = Rid(fragment, D, e)
    BY <1>1, <2>1 DEF ExactFragments
  <2>3. /\ FragmentOk(H, Rid(fragment, D, e), e, gone \cup D)
        /\ Rid(fragment, D, e).from = fragment.from /\ Rid(fragment, D, e).to = fragment.to
        /\ Rid(fragment, D, e) \in Fragment
    BY <2>2, FragmentRid
  <2> QED BY <2>1, <2>2, <2>3
<1>3. Q \in [1 .. Len(P) -> Fragment]
  <2>1. Q = [k \in 1 .. Len(P) |-> Q[k]]
    BY <1>1
  <2> QED BY <1>2, <2>1
<1>4. Q \in Seq(Fragment) /\ Len(Q) = Len(P)
  BY <1>1, <1>3
<1>5. /\ 1 \in 1 .. Len(P) /\ Len(P) \in 1 .. Len(P)
      /\ \A i \in 1 .. Len(P) - 1 : i \in 1 .. Len(P) /\ i + 1 \in 1 .. Len(P)
  BY <1>1
<1>6. Q[1].from = e.start /\ Q[Len(Q)].to = e.end
  BY <1>1, <1>2, <1>4, <1>5
<1>7. \A i \in 1 .. Len(Q) - 1 : Q[i + 1].from = Q[i].to
  BY <1>1, <1>2, <1>4, <1>5
<1> QED BY <1>1, <1>2, <1>4, <1>6, <1>7 DEF ExactFragments, Fragmented

\* One packet is cancelled (DoSic).
LEMMA ExactWithout ==
  ASSUME NEW H, IsFiniteSet(H), \A b \in H : BurstOk(b), NEW e \in H, NEW gone,
         NEW p \in H \ (gone \cup {e}), NEW P, ExactFragments(H, P, e, gone),
         NEW Q, Q = IF Overlap(e, p) THEN Without(P, p) ELSE P
  PROVE  ExactFragments(H, Q, e, gone \cup {p})
<1>1. P \in Seq(Fragment) /\ DOMAIN P = 1 .. Len(P)
  BY DEF ExactFragments, Fragmented
<1>2. RxPower[p.sender] \in Nat /\ Overlap(e, p) = Overlap(p, e)
  BY CarrierAssumption DEF BurstOk, Overlap
<1>3. ASSUME NEW k \in DOMAIN P
      PROVE  Rid(P[k], {p}, e) =
               IF Overlap(e, p) /\ EndsIn(P[k], p) THEN [P[k] EXCEPT !.power = @ - RxPower[p.sender]] ELSE P[k]
  <2>1. PICK fragment \in Fragment : fragment = P[k]
    BY <1>1
  <2> DEFINE T == TakenOff({p}, fragment, e)
  <2>2. /\ fragment.power \in Int
        /\ fragment = [from |-> fragment.from, to |-> fragment.to, power |-> fragment.power]
    BY DEF Fragment
  <2>3. Rid(fragment, {p}, e) = [fragment EXCEPT !.power = fragment.power - PowerAmong(T)]
    BY DEF Rid
  <2>4. CASE Overlap(e, p) /\ EndsIn(fragment, p)
    <3>1. T = {p}
      BY <1>2, <2>4 DEF TakenOff
    <3>2. PowerAmong({p}) = RxPower[p.sender]
      <4> DEFINE f == [b \in {p} |-> RxPower[b.sender]]
      <4>1. PowerAmong({p}) = SumFunctionOnSet(f, {p})
        BY DEF PowerAmong, SumFunction
      <4>2. f[p] = RxPower[p.sender] /\ \A x \in {p} : f[x] \in Int
        BY <1>2
      <4> HIDE DEF f
      <4>3. SumFunctionOnSet(f, {p}) = f[p] + SumFunctionOnSet(f, {p} \ {p})
        BY <4>2, SumWithout, FS_Singleton
      <4>4. SumFunctionOnSet(f, {p} \ {p}) = 0
        <5>1. {p} \ {p} = {}
          OBVIOUS
        <5> QED BY <5>1, SumOfNone
      <4> QED BY <1>2, <4>1, <4>2, <4>3, <4>4
    <3> HIDE DEF T
    <3> QED BY <2>1, <2>3, <2>4, <3>1, <3>2
  <2>5. CASE ~(Overlap(e, p) /\ EndsIn(fragment, p))
    <3>1. T = {}
      BY <1>2, <2>5 DEF TakenOff
    <3>2. PowerAmong({}) = 0
      <4>1. PowerAmong({}) = SumFunctionOnSet([b \in {} |-> RxPower[b.sender]], {})
        BY DEF PowerAmong, SumFunction
      <4> QED BY <4>1, SumOfNone
    <3> HIDE DEF T
    <3>3. fragment.power - PowerAmong(T) = fragment.power
      BY <2>2, <3>1, <3>2
    <3> QED BY <2>1, <2>2, <2>3, <2>5, <3>3
  <2> QED BY <2>4, <2>5, <2>1
<1>4. Q = [k \in DOMAIN P |-> Rid(P[k], {p}, e)]
  <2>1. CASE Overlap(e, p)
    <3>1. Q = [k \in DOMAIN P |-> IF EndsIn(P[k], p) THEN [P[k] EXCEPT !.power = @ - RxPower[p.sender]]
                                  ELSE P[k]]
      BY <2>1 DEF Without
    <3> QED BY <1>3, <2>1, <3>1
  <2>2. CASE ~Overlap(e, p)
    <3>1. \A k \in DOMAIN P : Rid(P[k], {p}, e) = P[k]
      BY <1>3, <2>2
    <3>2. P = [k \in DOMAIN P |-> P[k]]
      BY <1>1
    <3> QED BY <2>2, <3>1, <3>2
  <2> QED BY <2>1, <2>2
<1>5. {p} \in SUBSET (H \ (gone \cup {e}))
  OBVIOUS
<1>6. PICK D : D = {p}
  OBVIOUS
<1>7. Q = [k \in DOMAIN P |-> Rid(P[k], D, e)] /\ D \in SUBSET (H \ (gone \cup {e}))
  BY <1>4, <1>5, <1>6
<1>8. ExactFragments(H, Q, e, gone \cup D)
  BY <1>7, ExactRid
<1> QED BY <1>6, <1>8

\* Unless bursts coincide, no fragment has less than nothing.
LEMMA NothingNegative ==
  ASSUME NEW H, IsFiniteSet(H), \A b \in H : BurstOk(b), ~Coincide(H), NEW e, NEW gone,
         NEW P, ExactFragments(H, P, e, gone), NEW k \in 1 .. Len(P)
  PROVE  P[k].power >= 0
<1>1. PICK fragment : fragment = P[k]
  OBVIOUS
<1>2. FragmentOk(H, fragment, e, gone)
  BY <1>1 DEF ExactFragments
<1>3. PowerAmong(EndingIn(H, fragment, e, gone)) \in Nat
  BY EndingInFacts
<1>4. fragment.power \in Int /\ fragment.power >= PowerAmong(EndingIn(H, fragment, e, gone))
  BY <1>2 DEF FragmentOk, Fragment
<1> QED BY <1>1, <1>3, <1>4

\* The power of a fragment is that at each instant of it.
LEMMA PowerAtIs ==
  ASSUME \A b \in bursts : BurstOk(b), NEW e, NEW gone, NEW fragment,
         FragmentOk(bursts, fragment, e, gone), NEW t \in fragment.from .. fragment.to - 1
  PROVE  PowerAt(t, e, gone) = fragment.power
<1> DEFINE T == {b \in bursts \ (gone \cup {e}) : b.start <= t /\ t < b.end}
<1>1. fragment.from \in Int /\ fragment.to \in Int /\ t \in Int /\ fragment.from <= t /\ t < fragment.to
      /\ fragment.from < fragment.to
  BY DEF FragmentOk, Fragment
<1>2. fragment.power = PowerAmong(EndingIn(bursts, fragment, e, gone))
  BY <1>1 DEF FragmentOk
<1>3. PowerAt(t, e, gone) = PowerAmong(T)
  BY DEF PowerAt, PowerAmong
<1>4. ASSUME NEW b \in bursts \ (gone \cup {e})
      PROVE  b.start <= t /\ t < b.end <=> EndsIn(fragment, b)
  <2>1. \/ b.start <= fragment.from /\ fragment.to <= b.end
        \/ b.end <= fragment.from
        \/ fragment.to <= b.start
    BY <1>1 DEF FragmentOk
  <2>2. b.start \in Nat /\ b.end \in Nat
    BY DEF BurstOk
  <2> QED BY <1>1, <2>1, <2>2 DEF EndsIn
<1>5. T = EndingIn(bursts, fragment, e, gone)
  BY <1>4 DEF EndingIn
<1> QED BY <1>2, <1>3, <1>5

\* A function on an interval, that is constant on pieces that follow each other.
InPieces(to, n, c, h, v) ==
  \A i \in 1 .. n : /\ to[i] \in Int /\ to[i - 1] <= to[i] /\ c[i] \in Int
                    /\ v[i] = (to[i] - to[i - 1]) * c[i]
                    /\ \A t \in to[i - 1] .. to[i] - 1 : h[t] = c[i]

LEMMA SumOfPieces ==
  ASSUME NEW a \in Int, NEW n \in Nat, NEW to, to[0] = a, NEW c, NEW h, NEW v,
         InPieces(to, n, c, h, v)
  PROVE  /\ SumFunctionOnSet(h, a .. to[n] - 1) = SumFunctionOnSet(v, 1 .. n)
         /\ a <= to[n] /\ \A t \in a .. to[n] - 1 : h[t] \in Int
<1> DEFINE A == {k \in Nat : k <= n =>
                   /\ to[k] \in Int /\ a <= to[k] /\ \A t \in a .. to[k] - 1 : h[t] \in Int
                   /\ SumFunctionOnSet(h, a .. to[k] - 1) = SumFunctionOnSet(v, 1 .. k)}
<1> USE DEF InPieces
<1>1. 0 \in A
  <2>1. a .. to[0] - 1 = {} /\ 1 .. 0 = {}
    OBVIOUS
  <2>2. SumFunctionOnSet(h, a .. to[0] - 1) = SumFunctionOnSet(v, 1 .. 0)
    BY <2>1, SumOfNone
  <2> QED BY <2>1, <2>2
<1>2. ASSUME NEW k \in Nat, k \in A PROVE k + 1 \in A
  <2> SUFFICES ASSUME k + 1 <= n
               PROVE  /\ to[k + 1] \in Int /\ a <= to[k + 1]
                      /\ \A t \in a .. to[k + 1] - 1 : h[t] \in Int
                      /\ SumFunctionOnSet(h, a .. to[k + 1] - 1) = SumFunctionOnSet(v, 1 .. k + 1)
    OBVIOUS
  <2>1. /\ to[k] \in Int /\ a <= to[k] /\ \A t \in a .. to[k] - 1 : h[t] \in Int
        /\ SumFunctionOnSet(h, a .. to[k] - 1) = SumFunctionOnSet(v, 1 .. k)
    BY <1>2
  <2>2. /\ k + 1 \in 1 .. n /\ (k + 1) - 1 = k /\ \A i \in 1 .. k + 1 : i \in 1 .. n
    OBVIOUS
  <2>3. PICK x : x = to[k]
    OBVIOUS
  <2>4. PICK y : y = to[k + 1]
    OBVIOUS
  <2>5. PICK d : d = c[k + 1]
    OBVIOUS
  <2>6. /\ x \in Int /\ y \in Int /\ d \in Int /\ a <= x /\ x <= y
        /\ v[k + 1] = (y - x) * d /\ \A t \in x .. y - 1 : h[t] = d
    BY <2>1, <2>2, <2>3, <2>4, <2>5
  <2>7. /\ IsFiniteSet(a .. x - 1) /\ IsFiniteSet(x .. y - 1) /\ Cardinality(x .. y - 1) = y - x
    <3>1. /\ IsFiniteSet(a .. x - 1)
          /\ IsFiniteSet(x .. y - 1)
          /\ Cardinality(x .. y - 1) = IF x > y - 1 THEN 0 ELSE (y - 1) - x + 1
      BY <2>6, FS_Interval, SMTT(60)
    <3> QED BY <2>6, <3>1
  <2>8. a .. y - 1 = (a .. x - 1) \cup (x .. y - 1) /\ (a .. x - 1) \cap (x .. y - 1) = {}
    BY <2>6
  <2>9. \A t \in (a .. x - 1) \cup (x .. y - 1) : h[t] \in Int
    BY <2>1, <2>3, <2>6
  <2>10. SumFunctionOnSet(h, a .. y - 1) = SumFunctionOnSet(h, a .. x - 1) + SumFunctionOnSet(h, x .. y - 1)
    <3>1. PICK A1 : A1 = a .. x - 1
      OBVIOUS
    <3>2. PICK A2 : A2 = x .. y - 1
      OBVIOUS
    <3>3. IsFiniteSet(A1) /\ IsFiniteSet(A2) /\ A1 \cap A2 = {} /\ a .. y - 1 = A1 \cup A2
      BY <2>7, <2>8, <3>1, <3>2
    <3>4. \A t \in A1 \cup A2 : h[t] \in Int
      BY <2>9, <3>1, <3>2
    <3>5. SumFunctionOnSet(h, A1 \cup A2) = SumFunctionOnSet(h, A1) + SumFunctionOnSet(h, A2)
      BY <3>3, <3>4, SumUnion
    <3> QED BY <3>1, <3>2, <3>3, <3>5
  <2>11. SumFunctionOnSet(h, x .. y - 1) = v[k + 1]
    <3>1. SumFunctionOnSet(h, x .. y - 1) = Cardinality(x .. y - 1) * d
      BY <2>6, <2>7, SumOfEqual
    <3> QED BY <2>6, <2>7, <3>1
  <2>12. SumFunctionOnSet(v, 1 .. k + 1) = SumFunctionOnSet(v, 1 .. k) + v[k + 1]
    <3>1. \A i \in 1 .. k + 1 : v[i] \in Int
      <4>1. ASSUME NEW i \in 1 .. k + 1 PROVE v[i] \in Int
        <5>1. i \in 1 .. n /\ (i = 1 => to[i - 1] \in Int) /\ (i # 1 => i - 1 \in 1 .. n)
          BY <2>2
        <5>2. to[i] \in Int /\ to[i - 1] \in Int /\ c[i] \in Int /\ v[i] = (to[i] - to[i - 1]) * c[i]
          BY <5>1
        <5>3. to[i] - to[i - 1] \in Int
          BY <5>2
        <5> QED BY <5>2, <5>3, TimesType
      <4> QED BY <4>1
    <3> QED BY <3>1, SumToNext
  <2>13. SumFunctionOnSet(h, a .. y - 1) = SumFunctionOnSet(v, 1 .. k + 1)
    BY <2>1, <2>3, <2>10, <2>11, <2>12
  <2>14. a <= y /\ \A t \in a .. y - 1 : h[t] \in Int
    BY <2>6, <2>8, <2>9
  <2> QED BY <2>4, <2>6, <2>13, <2>14
<1>3. \A k \in Nat : k \in A
  <2> HIDE DEF A
  <2> QED BY <1>1, <1>2, Induction
<1>4. n \in A
  BY <1>3
<1> QED BY <1>4

\* What the code works out from the fragments is what the window lets through.
LEMMA SnirIsExact ==
  ASSUME \A b \in bursts : BurstOk(b), NEW packet, NEW e, e = packet.burst, BurstOk(e), NEW gone,
         ExactFragments(bursts, packet.ifPower, e, gone), NotNegative(packet)
  PROVE  SnirOfWindow(e, gone) = GetEffectiveSnir(packet)
<1> DEFINE P == packet.ifPower
           n == Len(P)
           Level(g) == IF g < Saturation THEN g ELSE Saturation
           c == [i \in 1 .. n |-> Level(Gamma(e, P[i].power))]
           to == [i \in 0 .. n |-> IF i = 0 THEN e.start ELSE P[i].to]
           v == [i \in DOMAIN P |-> Lasts(P[i]) * Level(Gamma(e, P[i].power))]
           h == [t \in e.start .. e.end - 1 |-> Level(Sinr(RxPower[e.sender], PowerAt(t, e, gone), Noise))]
<1>1. /\ P \in Seq(Fragment) /\ n \in Nat \ {0} /\ DOMAIN P = 1 .. n
      /\ P[1].from = e.start /\ P[n].to = e.end
      /\ \A i \in 1 .. n - 1 : P[i + 1].from = P[i].to
      /\ \A i \in 1 .. n : FragmentOk(bursts, P[i], e, gone)
  BY DEF ExactFragments, Fragmented
<1>2. GetEffectiveSnir(packet) = SumFunctionOnSet(v, DOMAIN v) \div Duration(e)
  BY DEF GetEffectiveSnir, SumFunction
<1>3. SnirOfWindow(e, gone) = SumFunctionOnSet(h, DOMAIN h) \div Duration(e)
  BY DEF SnirOfWindow, SumFunction
<1>4. \A i \in 1 .. n : P[i].power \in Nat /\ P[i].from \in Int /\ P[i].to \in Int /\ P[i].from <= P[i].to
                        /\ P[i].to <= e.end /\ e.start <= P[i].from
  BY <1>1, SMTT(60) DEF NotNegative, FragmentOk, Fragment
<1>5. \A p \in Nat : Gamma(e, p) \in Nat /\ Level(Gamma(e, p)) \in Int
  <2>1. RxPower[e.sender] \in Nat /\ Noise \in Nat \ {0} /\ Saturation \in Nat
    BY CarrierAssumption, WindowAssumption DEF BurstOk
  <2>2. \A p \in Nat : Sinr(RxPower[e.sender], p, Noise) \in Nat
    BY <2>1, RatioType
  <2>3. \A p \in Nat : Gamma(e, p) \in Nat
    BY <2>2 DEF Gamma
  <2> QED BY <2>1, <2>3
<1>6. e.start \in Int /\ e.end \in Int
  BY DEF BurstOk
<1>7. ASSUME NEW i \in 1 .. n
      PROVE  /\ to[i] = P[i].to /\ to[i - 1] = P[i].from /\ c[i] \in Int
             /\ v[i] = (to[i] - to[i - 1]) * c[i]
             /\ \A t \in to[i - 1] .. to[i] - 1 : h[t] = c[i]
  <2>1. to[i] = P[i].to
    BY <1>1
  <2>2. to[i - 1] = P[i].from
    <3>1. CASE i = 1
      BY <1>1, <3>1
    <3>2. CASE i # 1
      <4>1. i - 1 \in 1 .. n - 1 /\ i - 1 \in 0 .. n /\ i - 1 # 0 /\ (i - 1) + 1 = i
        BY <1>1, <3>2
      <4>2. to[i - 1] = P[i - 1].to
        BY <4>1
      <4>3. P[(i - 1) + 1].from = P[i - 1].to
        BY <1>1, <4>1
      <4> QED BY <4>1, <4>2, <4>3
    <3> QED BY <3>1, <3>2
  <2>3. c[i] = Level(Gamma(e, P[i].power)) /\ c[i] \in Int
    BY <1>4, <1>5
  <2>4. v[i] = Lasts(P[i]) * c[i]
    BY <1>1, <2>3
  <2>5. Lasts(P[i]) = to[i] - to[i - 1]
    BY <2>1, <2>2 DEF Lasts
  <2>6. ASSUME NEW t \in to[i - 1] .. to[i] - 1 PROVE h[t] = c[i]
    <3>1. PICK fragment : fragment = P[i]
      OBVIOUS
    <3>2. FragmentOk(bursts, fragment, e, gone) /\ t \in fragment.from .. fragment.to - 1
      BY <1>1, <2>1, <2>2, <3>1
    <3>3. PowerAt(t, e, gone) = fragment.power
      BY <3>2, PowerAtIs
    <3>4. t \in e.start .. e.end - 1
      <4>1. PICK x \in Int : x = P[i].from
        BY <1>4
      <4>2. PICK y \in Int : y = P[i].to
        BY <1>4
      <4>3. t \in x .. y - 1 /\ e.start <= x /\ y <= e.end
        BY <1>4, <2>1, <2>2, <4>1, <4>2
      <4> QED BY <1>6, <4>3, SMTT(60)
    <3>5. h[t] = Level(Sinr(RxPower[e.sender], PowerAt(t, e, gone), Noise))
      BY <3>4
    <3> QED BY <2>3, <3>1, <3>3, <3>5 DEF Gamma
  <2> QED BY <2>1, <2>2, <2>3, <2>4, <2>5, <2>6
<1>8. to[0] = e.start /\ to[n] = e.end
  BY <1>1
<1>9. DOMAIN v = 1 .. n /\ DOMAIN h = e.start .. e.end - 1
  BY <1>1
<1> HIDE DEF P, n, c, to, v, h
<1>10. InPieces(to, n, c, h, v)
  BY <1>4, <1>7 DEF InPieces
<1>11. PICK a \in Int : a = e.start
  BY <1>6
<1>12. SumFunctionOnSet(h, a .. to[n] - 1) = SumFunctionOnSet(v, 1 .. n)
  <2>1. n \in Nat /\ to[0] = a
    BY <1>1, <1>8, <1>11
  <2> QED BY <1>10, <2>1, SumOfPieces
<1> QED BY <1>2, <1>3, <1>8, <1>9, <1>11, <1>12

-----------------------------------------------------------------------------
(* What the receiver of ESSA knows. *)

EssaBurstOk(b) == b.sender \in Sender /\ b.start \in Nat /\ b.end = b.start + PacketDuration

EssaPacket(W) ==
  [burst : W, ifPower : Seq(Fragment), hasBeenDecoded : BOOLEAN, hasBeenUpdated : BOOLEAN,
   isInsideWindow : BOOLEAN, hasBeenTreatedInWindow : BOOLEAN]

\* The packets of a container C, of bursts in W, which are in the order in
\* which they ended.
Listed(C, W) ==
  /\ C \in Seq(EssaPacket(W))
  /\ \A i, j \in 1 .. Len(C) : i < j => C[i].burst.end <= C[j].burst.end
  /\ \A i, j \in 1 .. Len(C) : C[i].burst = C[j].burst => i = j

\* A packet not decoded suffers from the bursts of H that are not in D, which
\* are decoded, and was tried in vain since that changed last, or will be.
JudgedEssa(packet, H, D) ==
  /\ packet.hasBeenDecoded <=> packet.burst \in D
  /\ ~packet.hasBeenDecoded => ExactFragments(H, packet.ifPower, packet.burst, D)
  /\ ~packet.hasBeenDecoded /\ ~packet.hasBeenUpdated => GetEffectiveSnir(packet) < SinrAlways

\* What was decoded is still in the container, or ended a window ago; what
\* lay in a window, ended with it.
Kept(C, W, D, t) ==
  /\ D \subseteq W
  /\ \A b \in D : (\E i \in 1 .. Len(C) : C[i].burst = b)
                  \/ b.end + m_windowDelay + m_windowDuration <= t
  /\ \A i \in 1 .. Len(C) : C[i].isInsideWindow => C[i].burst.end + m_windowDelay <= t

EssaKnows(C, H, W, D, t) ==
  /\ Listed(C, W) /\ Kept(C, W, D, t)
  /\ \A i \in 1 .. Len(C) : JudgedEssa(C[i], H, D)

\* The error is met only if bursts coincide.
NegativeOk(C, H, negative) ==
  /\ negative \in BOOLEAN
  /\ negative => Coincide(H)
  /\ ~negative => \A i \in 1 .. Len(C) : NotNegative(C[i])

\* Between windows: what lay in the last one was tried for the last time.
Tried(C) ==
  \A i \in 1 .. Len(C) :
    C[i].isInsideWindow => NotNegative(C[i]) /\ (~C[i].hasBeenDecoded => ~C[i].hasBeenUpdated)

\* In a window: it looks at the packets that began before its end.
LooksAt(C, bound, t) ==
  /\ bound \in 0 .. Len(C)
  /\ \A i \in 1 .. Len(C) : i <= bound <=> C[i].burst.start + m_windowDelay <= t
DecodedNow(C, bound) ==
  {C[i].burst : i \in {i \in 1 .. bound : Treated(C[i]) /\ C[i].hasBeenDecoded}}

\* The bursts in D were handed up as decoded, once and at last; of the others
\* in O nothing but failures.
HandedRight(s, O, D) ==
  /\ s \in Seq([burst : O, phyError : BOOLEAN])
  /\ \A b \in D : \E i \in 1 .. Len(s) : s[i].burst = b /\ ~s[i].phyError
  /\ \A i \in 1 .. Len(s) : ~s[i].phyError => s[i].burst \in D
  /\ \A i, j \in 1 .. Len(s) : s[i].burst = s[j].burst /\ ~s[j].phyError => i <= j

EssaResults(ph, C, bound, t, s, O, D) ==
  /\ ph \in {"receive", "decode"}
  /\ ph = "receive" => Tried(C) /\ HandedRight(s, O, D)
  /\ ph = "decode" => LooksAt(C, bound, t) /\ HandedRight(s, O, D \ DecodedNow(C, bound))

EssaIdle ==
  /\ frame = 0 /\ phase = "start" /\ m_crdsaPacketContainer = EmptyMap
  /\ combinedPackets = {} /\ fatal = FALSE
EssaCarrier == Heard(bursts) /\ RxOk /\ \A b \in bursts : EssaBurstOk(b)

EssaInv ==
  /\ EssaIdle /\ EssaCarrier
  /\ nextWindowEnd \in Nat /\ pendingWindows \in Seq(Nat)
  /\ EssaKnows(m_essaPacketContainer, bursts, Own \ Receiving, decoded, now)
  /\ NegativeOk(m_essaPacketContainer, bursts, negativeInterference)
  /\ EssaResults(windowPhase, m_essaPacketContainer, windowBounds, now, handedUp, Own, decoded)

-----------------------------------------------------------------------------
(* The container. *)

LEMMA WindowTimes ==
  /\ PacketDuration \in Nat \ {0} /\ m_windowStep \in Nat \ {0} /\ m_windowDuration \in Nat \ {0}
  /\ m_windowDelay \in Nat /\ m_windowDuration >= PacketDuration + m_windowStep
  /\ \A b : EssaBurstOk(b) => BurstOk(b) /\ b.end = b.start + PacketDuration
<1>1. /\ PacketDuration \in Nat \ {0} /\ m_windowStep \in Nat \ {0} /\ m_windowDuration \in Nat \ {0}
      /\ m_windowDelay \in Nat /\ m_windowDuration >= PacketDuration + m_windowStep
  BY WindowAssumption
<1>2. ASSUME NEW b, EssaBurstOk(b) PROVE BurstOk(b) /\ b.end = b.start + PacketDuration
  BY <1>1, <1>2 DEF EssaBurstOk, BurstOk
<1> QED BY <1>1, <1>2

\* What the carrier hears.
LEMMA EssaHears ==
  ASSUME EssaCarrier
  PROVE  /\ IsFiniteSet(bursts) /\ now \in Nat /\ Own \subseteq bursts /\ Receiving \subseteq Own
         /\ \A b \in bursts : BurstOk(b) /\ b.end = b.start + PacketDuration /\ b.start <= now
         /\ \A b \in Own \ Receiving : b.end <= now
         /\ \A b \in Receiving : now <= b.end
<1>1. IsFiniteSet(bursts) /\ now \in Nat /\ \A b \in bursts : b.start <= now
  BY DEF EssaCarrier, Heard, IsList
<1>2. Own \subseteq bursts
  BY DEF Own
<1>3. Receiving \subseteq Own
  <2>1. ASSUME NEW b \in Receiving PROVE b \in Own
    <3>1. PICK i \in 1 .. Len(m_rxParams) : b = m_rxParams[i]
      BY DEF EssaCarrier, RxOk
    <3> QED BY <3>1 DEF EssaCarrier, RxOk
  <2> QED BY <2>1
<1>4. \A b \in bursts : BurstOk(b) /\ b.end = b.start + PacketDuration
  BY WindowTimes DEF EssaCarrier
<1>5. /\ \A b \in Own \ Receiving : b.end <= now
      /\ \A b \in Receiving : now <= b.end
  BY DEF EssaCarrier, RxOk
<1> QED BY <1>1, <1>2, <1>3, <1>4, <1>5

LEMMA ListedMember ==
  ASSUME NEW C, NEW W, Listed(C, W)
  PROVE  /\ Len(C) \in Nat /\ DOMAIN C = 1 .. Len(C)
         /\ \A i \in 1 .. Len(C) :
              /\ C[i] \in EssaPacket(W) /\ C[i].burst \in W /\ C[i].ifPower \in Seq(Fragment)
              /\ C[i].hasBeenDecoded \in BOOLEAN /\ C[i].hasBeenUpdated \in BOOLEAN
              /\ C[i].isInsideWindow \in BOOLEAN /\ C[i].hasBeenTreatedInWindow \in BOOLEAN
<1>1. C \in Seq(EssaPacket(W)) /\ Len(C) \in Nat /\ DOMAIN C = 1 .. Len(C)
  BY DEF Listed
<1>2. \A i \in 1 .. Len(C) : C[i] \in EssaPacket(W)
  BY <1>1
<1>3. \A packet \in EssaPacket(W) :
        /\ packet.burst \in W /\ packet.ifPower \in Seq(Fragment)
        /\ packet.hasBeenDecoded \in BOOLEAN /\ packet.hasBeenUpdated \in BOOLEAN
        /\ packet.isInsideWindow \in BOOLEAN /\ packet.hasBeenTreatedInWindow \in BOOLEAN
  BY DEF EssaPacket
<1> QED BY <1>1, <1>2, <1>3

\* The SNIR depends on the fragments alone.
LEMMA SnirSame ==
  ASSUME NEW p, NEW q, q.burst = p.burst, q.ifPower = p.ifPower
  PROVE  /\ GetEffectiveSnir(q) = GetEffectiveSnir(p)
         /\ NotNegative(q) <=> NotNegative(p)
BY DEF GetEffectiveSnir, NotNegative

\* Packets change in their places.
LEMMA ListedSame ==
  ASSUME NEW C, NEW W, Listed(C, W), NEW B, B = [i \in 1 .. Len(C) |-> B[i]],
         \A i \in 1 .. Len(C) : B[i] \in EssaPacket(W) /\ B[i].burst = C[i].burst
  PROVE  Listed(B, W) /\ Len(B) = Len(C)
<1>1. PICK n \in Nat : n = Len(C)
  BY ListedMember
<1>2. B \in [1 .. n -> EssaPacket(W)]
  BY <1>1
<1>3. B \in Seq(EssaPacket(W)) /\ Len(B) = n
  BY <1>2
<1>4. /\ \A i, j \in 1 .. n : i < j => B[i].burst.end <= B[j].burst.end
      /\ \A i, j \in 1 .. n : B[i].burst = B[j].burst => i = j
  BY <1>1 DEF Listed
<1> QED BY <1>1, <1>3, <1>4 DEF Listed

\* More bursts, but no more packets.
LEMMA ListedWider ==
  ASSUME NEW C, NEW W, Listed(C, W), NEW V, W \subseteq V
  PROVE  Listed(C, V)
<1>1. PICK n \in Nat : n = Len(C)
  BY ListedMember
<1>2. \A p \in EssaPacket(W) : p \in EssaPacket(V)
  BY DEF EssaPacket
<1>3. C = [i \in 1 .. n |-> C[i]] /\ \A i \in 1 .. n : C[i] \in EssaPacket(W)
  <2>1. C \in Seq(EssaPacket(W))
    BY DEF Listed
  <2> QED BY <1>1, <2>1
<1>4. C \in [1 .. n -> EssaPacket(V)]
  BY <1>2, <1>3
<1>5. C \in Seq(EssaPacket(V))
  BY <1>4
<1> QED BY <1>5 DEF Listed

\* A packet is put behind the others.
WithLast(B, C, p) ==
  /\ \A i \in 1 .. Len(C) : B[i] = C[i] /\ i \in 1 .. Len(B)
  /\ \A i \in 1 .. Len(B) : (i \in 1 .. Len(C) /\ B[i] = C[i]) \/ B[i] = p

LEMMA ListedMore ==
  ASSUME NEW C, NEW W, Listed(C, W), NEW b, b \notin W, \A x \in W : x.end <= b.end,
         NEW p \in EssaPacket(W \cup {b}), p.burst = b, NEW B, B = Append(C, p)
  PROVE  Listed(B, W \cup {b}) /\ WithLast(B, C, p)
<1>1. PICK n \in Nat : n = Len(C)
  BY ListedMember
<1>2. Listed(C, W \cup {b})
  BY ListedWider
<1>3. C \in Seq(EssaPacket(W \cup {b})) /\ \A i \in 1 .. n : C[i].burst \in W
  BY <1>1, <1>2, ListedMember DEF Listed
<1>4. /\ B \in Seq(EssaPacket(W \cup {b})) /\ Len(B) = n + 1 /\ B[n + 1] = p
      /\ \A i \in 1 .. n : B[i] = C[i]
  BY <1>1, <1>3
<1>5. \A i \in 1 .. n + 1 : (i \in 1 .. n /\ B[i] = C[i]) \/ (i = n + 1 /\ B[i] = p)
  BY <1>4
<1>6. ASSUME NEW i \in 1 .. n + 1, NEW j \in 1 .. n + 1, i < j
      PROVE  B[i].burst.end <= B[j].burst.end
  <2>1. i \in 1 .. n /\ B[i] = C[i] /\ B[i].burst \in W
    BY <1>3, <1>4, <1>6
  <2>2. CASE j \in 1 .. n
    <3>1. B[j] = C[j] /\ C[i].burst.end <= C[j].burst.end
      BY <1>1, <1>4, <1>6, <2>1, <2>2 DEF Listed
    <3> QED BY <2>1, <3>1
  <2>3. CASE j = n + 1
    BY <1>4, <2>1, <2>3
  <2> QED BY <1>5, <2>2, <2>3
<1>7. ASSUME NEW i \in 1 .. n + 1, NEW j \in 1 .. n + 1, B[i].burst = B[j].burst
      PROVE  i = j
  <2>1. CASE i \in 1 .. n /\ j \in 1 .. n
    BY <1>1, <1>4, <1>7, <2>1 DEF Listed
  <2>2. CASE i \in 1 .. n /\ j = n + 1
    BY <1>3, <1>4, <1>7, <2>2
  <2>3. CASE i = n + 1 /\ j \in 1 .. n
    BY <1>3, <1>4, <1>7, <2>3
  <2> QED BY <2>1, <2>2, <2>3
<1>8. Listed(B, W \cup {b})
  BY <1>4, <1>6, <1>7 DEF Listed
<1>9. \A i \in 1 .. n : i \in 1 .. Len(B)
  BY <1>4
<1> QED BY <1>1, <1>4, <1>5, <1>8, <1>9 DEF WithLast

\* The first packets go.
LEMMA ListedFrom ==
  ASSUME NEW C, NEW W, Listed(C, W), NEW k \in 0 .. Len(C), NEW B, B = SubSeq(C, k + 1, Len(C))
  PROVE  /\ Listed(B, W) /\ Len(B) = Len(C) - k
         /\ \A i \in 1 .. Len(B) : k + i \in 1 .. Len(C) /\ B[i] = C[k + i]
<1>1. PICK n \in Nat : n = Len(C)
  BY ListedMember
<1>2. C \in Seq(EssaPacket(W)) /\ k \in 0 .. n
  BY <1>1 DEF Listed
<1>3. /\ B \in Seq(EssaPacket(W)) /\ Len(B) = n - k /\ \A i \in 1 .. n - k : B[i] = C[k + i]
  BY <1>1, <1>2
<1>4. \A i \in 1 .. n - k : k + i \in 1 .. n
  BY <1>2
<1>5. ASSUME NEW i \in 1 .. n - k, NEW j \in 1 .. n - k
      PROVE  /\ i < j => B[i].burst.end <= B[j].burst.end
             /\ B[i].burst = B[j].burst => i = j
  <2>1. PICK x \in 1 .. n : x = k + i
    BY <1>4
  <2>2. PICK y \in 1 .. n : y = k + j
    BY <1>4
  <2>3. B[i] = C[x] /\ B[j] = C[y]
    BY <1>3, <2>1, <2>2
  <2>4. (i < j => x < y) /\ (x = y => i = j)
    BY <1>2, <2>1, <2>2
  <2> QED BY <1>1, <2>3, <2>4 DEF Listed
<1>6. Listed(B, W)
  BY <1>3, <1>5 DEF Listed
<1> QED BY <1>1, <1>3, <1>4, <1>6

\* Numbers that reach down to one are the first ones.
LEMMA PrefixCount ==
  ASSUME NEW n \in Nat, NEW T \in SUBSET (1 .. n), \A i \in T : \A j \in 1 .. n : j < i => j \in T
  PROVE  Cardinality(T) \in 0 .. n /\ \A i \in 1 .. n : i <= Cardinality(T) <=> i \in T
<1>1. IsFiniteSet(1 .. n) /\ Cardinality(1 .. n) = n
  BY FirstNumbers
<1>2. IsFiniteSet(T) /\ Cardinality(T) \in Nat /\ Cardinality(T) <= n
  BY <1>1, FS_Subset, FS_CardinalityType
<1>3. PICK c \in Nat : c = Cardinality(T)
  BY <1>2
<1>4. PICK e \in Nat : e = 1
  OBVIOUS
<1>5. T \in SUBSET Nat
  OBVIOUS
<1>6. ASSUME NEW i \in T PROVE i >= e /\ e .. i \subseteq T
  <2>1. i \in Nat /\ i >= 1 /\ i <= n
    OBVIOUS
  <2>2. ASSUME NEW j \in e .. i PROVE j \in T
    <3>1. j \in 1 .. n /\ (j < i \/ j = i)
      BY <1>4, <2>1
    <3> QED BY <3>1
  <2> QED BY <1>4, <2>1, <2>2
<1>7. T = e .. e + Cardinality(T) - 1
  BY <1>2, <1>5, <1>6, DownClosedInterval
<1>8. T = 1 .. c
  BY <1>3, <1>4, <1>7
<1>9. c \in 0 .. n /\ \A i \in 1 .. n : i <= c <=> i \in T
  <2>1. c <= n
    BY <1>2, <1>3
  <2> QED BY <1>8, <2>1
<1> QED BY <1>3, <1>9

-----------------------------------------------------------------------------
(* What ESSA hears, step by step. *)

LEMMA IdleSame ==
  ASSUME EssaIdle, UNCHANGED frameVars
  PROVE  EssaIdle'
BY DEF EssaIdle, frameVars

LEMMA HeardBursts ==
  ASSUME NEW H, Heard(H)', H = bursts'
  PROVE  Heard(bursts)'
BY DEF Heard

\* The carrier hears nothing new.
LEMMA CarrierStays ==
  ASSUME EssaCarrier, UNCHANGED carrierVars
  PROVE  /\ EssaCarrier' /\ bursts' = bursts /\ now' = now /\ handedUp' = handedUp
         /\ Own' = Own /\ Receiving' = Receiving
<1>1. /\ bursts' = bursts /\ now' = now /\ handedUp' = handedUp /\ Own' = Own
      /\ Receiving' = Receiving /\ m_rxParams' = m_rxParams /\ UNCHANGED interferenceVars
  BY DEF carrierVars, interferenceVars, Own, Receiving
<1>2. PICK H : H = bursts
  OBVIOUS
<1>3. Heard(H)'
  BY <1>1, <1>2, HeardLater DEF EssaCarrier
<1>4. Heard(bursts)'
  BY <1>1, <1>2, <1>3, HeardBursts
<1>5. RxOk'
  BY <1>1 DEF EssaCarrier, RxOk
<1> QED BY <1>1, <1>4, <1>5 DEF EssaCarrier

LEMMA SeqWider ==
  ASSUME NEW S, NEW T, S \subseteq T, NEW s \in Seq(S)
  PROVE  s \in Seq(T)
<1>1. PICK n \in Nat : n = Len(s)
  OBVIOUS
<1>2. s = [i \in 1 .. n |-> s[i]] /\ \A i \in 1 .. n : s[i] \in S
  BY <1>1
<1>3. s \in [1 .. n -> T]
  BY <1>2
<1> QED BY <1>3

\* Results are those of more bursts, too.
LEMMA HandedWider ==
  ASSUME NEW s, NEW O, NEW D, HandedRight(s, O, D), NEW Q, O \subseteq Q
  PROVE  HandedRight(s, Q, D)
<1>1. s \in Seq([burst : O, phyError : BOOLEAN])
  BY DEF HandedRight
<1>2. PICK S : S = [burst : O, phyError : BOOLEAN]
  OBVIOUS
<1>3. PICK T : T = [burst : Q, phyError : BOOLEAN]
  OBVIOUS
<1>4. S \subseteq T
  BY <1>2, <1>3
<1>5. s \in Seq(S)
  BY <1>1, <1>2
<1>6. s \in Seq([burst : Q, phyError : BOOLEAN])
  BY <1>3, <1>4, <1>5, SeqWider
<1> QED BY <1>6 DEF HandedRight

\* A burst begins.
LEMMA EssaArrivesOk ==
  ASSUME EssaInv, ~negativeInterference, NEW sender \in Sender, EssaBurstArrives(sender),
         UNCHANGED frameVars
  PROVE  EssaInv'
<1> DEFINE C == m_essaPacketContainer
           W == Own \ Receiving
<1>1. EssaIdle' /\ EssaCarrier
  BY IdleSame DEF EssaInv
<1>2. /\ IsFiniteSet(bursts) /\ now \in Nat /\ Own \subseteq bursts /\ Receiving \subseteq Own
      /\ \A b \in bursts : BurstOk(b) /\ b.end = b.start + PacketDuration /\ b.start <= now
      /\ \A b \in Own \ Receiving : b.end <= now
  BY <1>1, EssaHears
<1>3. PICK n : n = EssaBurst(sender)
  OBVIOUS
<1>4. /\ windowPhase = "receive" /\ StartRx(n) /\ UNCHANGED windowVars
      /\ \A b \in bursts : b.sender = sender => b.end <= now
  BY <1>3 DEF EssaBurstArrives
<1>5. /\ n.sender = sender /\ n.start = now /\ n.end = now + PacketDuration
      /\ PacketDuration \in Nat \ {0}
  BY <1>3, WindowTimes DEF EssaBurst
<1>6. EssaBurstOk(n) /\ BurstOk(n)
  BY <1>2, <1>5, WindowTimes DEF EssaBurstOk
<1>7. n \notin bursts
  <2>1. ASSUME n \in bursts PROVE FALSE
    <3>1. n.end <= now
      BY <1>4, <1>5, <2>1
    <3> QED BY <1>2, <1>5, <3>1
  <2> QED BY <2>1
<1>8. \A b \in Receiving : b.end <= n.end
  <2>1. ASSUME NEW b \in Receiving PROVE b.end <= n.end
    <3>1. b \in bursts
      BY <1>2
    <3>2. b.end = b.start + PacketDuration /\ b.start <= now /\ b.start \in Nat
      BY <1>2, <3>1 DEF BurstOk
    <3> QED BY <1>2, <1>5, <3>2
  <2> QED BY <2>1
<1>9. /\ RxOk' /\ bursts' = bursts \cup {n}
      /\ Own' = Own \cup (IF n.sender \in OwnBeam THEN {n} ELSE {})
      /\ Receiving' = Receiving \cup (IF n.sender \in OwnBeam THEN {n} ELSE {})
  <2>1. Heard(bursts) /\ RxOk /\ bursts \subseteq bursts
    BY <1>1 DEF EssaCarrier
  <2> QED BY <1>4, <1>6, <1>7, <1>8, <2>1, RxStart
<1>10. Heard(bursts)'
  <2>1. PICK H : H = bursts
    OBVIOUS
  <2>2. Heard(H) /\ n \notin H
    BY <1>1, <1>7, <2>1 DEF EssaCarrier
  <2>3. PICK K : K = H \cup {n}
    OBVIOUS
  <2>4. Heard(H \cup {n})'
    BY <1>4, <1>6, <2>2, HeardStart
  <2>5. Heard(K)'
    BY <2>3, <2>4
  <2>6. K = bursts'
    BY <1>9, <2>1, <2>3
  <2> QED BY <2>5, <2>6, HeardBursts
<1>11. now' = now /\ handedUp' = handedUp
  BY <1>4 DEF StartRx
<1>12. EssaCarrier'
  <2>1. \A b \in bursts' : EssaBurstOk(b)
    BY <1>1, <1>6, <1>9 DEF EssaCarrier
  <2> QED BY <1>9, <1>10, <2>1 DEF EssaCarrier
<1>13. Own' \ Receiving' = W /\ Own \subseteq Own'
  BY <1>2, <1>7, <1>9
<1>14. EssaKnows(C, bursts', W, decoded, now)
  <2>1. EssaKnows(C, bursts, W, decoded, now)
    BY DEF EssaInv
  <2>2. ASSUME NEW i \in 1 .. Len(C) PROVE JudgedEssa(C[i], bursts \cup {n}, decoded)
    <3>1. PICK p : p = C[i]
      OBVIOUS
    <3>2. PICK e : e = p.burst
      OBVIOUS
    <3>3. e \in W /\ JudgedEssa(p, bursts, decoded)
      BY <2>1, <3>1, <3>2, ListedMember DEF EssaKnows
    <3>4. e \in bursts /\ e.end <= n.start
      BY <1>2, <1>5, <3>3
    <3>5. ASSUME ~p.hasBeenDecoded PROVE ExactFragments(bursts \cup {n}, p.ifPower, p.burst, decoded)
      <4>1. PICK P : P = p.ifPower
        OBVIOUS
      <4>2. ExactFragments(bursts, P, e, decoded)
        BY <3>2, <3>3, <3>5, <4>1 DEF JudgedEssa
      <4>3. ExactFragments(bursts \cup {n}, P, e, decoded)
        BY <1>2, <1>6, <3>4, <4>2, ExactLater
      <4> QED BY <3>2, <4>1, <4>3
    <3>6. JudgedEssa(p, bursts \cup {n}, decoded)
      BY <3>3, <3>5 DEF JudgedEssa
    <3> QED BY <3>1, <3>6
  <2> HIDE DEF C, W
  <2> QED BY <1>9, <2>1, <2>2 DEF EssaKnows
<1>15. NegativeOk(C, bursts', negativeInterference)
  BY DEF EssaInv, NegativeOk
<1>16. EssaResults(windowPhase, C, windowBounds, now, handedUp, Own', decoded)
  <2>1. Tried(C) /\ HandedRight(handedUp, Own, decoded)
    BY <1>4 DEF EssaInv, EssaResults
  <2>2. PICK Q : Q = Own'
    OBVIOUS
  <2>3. HandedRight(handedUp, Q, decoded)
    BY <1>13, <2>1, <2>2, HandedWider
  <2> QED BY <1>4, <2>1, <2>2, <2>3 DEF EssaResults
<1>17. nextWindowEnd \in Nat /\ pendingWindows \in Seq(Nat)
  BY DEF EssaInv
<1>18. /\ m_essaPacketContainer' = C /\ nextWindowEnd' = nextWindowEnd /\ decoded' = decoded
       /\ pendingWindows' = pendingWindows /\ windowBounds' = windowBounds
       /\ windowPhase' = windowPhase /\ negativeInterference' = negativeInterference
  BY <1>4 DEF windowVars
<1> HIDE DEF C, W
<1> QED BY <1>1, <1>11, <1>12, <1>13, <1>14, <1>15, <1>16, <1>17, <1>18 DEF EssaInv

\* A window ends.
LEMMA EssaWindowEndOk ==
  ASSUME EssaInv, DoWindowEnd, UNCHANGED frameVars
  PROVE  EssaInv'
<1>1. /\ now = nextWindowEnd /\ pendingWindows' = Append(pendingWindows, now)
      /\ nextWindowEnd' = now + m_windowStep
      /\ UNCHANGED <<carrierVars, m_essaPacketContainer, windowBounds, windowPhase,
                     negativeInterference, decoded>>
  BY DEF DoWindowEnd
<1>2. now \in Nat /\ m_windowStep \in Nat
  BY WindowTimes, EssaHears DEF EssaInv
<1>3. nextWindowEnd' \in Nat /\ pendingWindows' \in Seq(Nat)
  <2>1. pendingWindows \in Seq(Nat)
    BY DEF EssaInv
  <2> QED BY <1>1, <1>2, <2>1
<1>4. EssaIdle'
  BY IdleSame DEF EssaInv
<1>5. /\ EssaCarrier' /\ bursts' = bursts /\ now' = now /\ handedUp' = handedUp
      /\ Own' = Own /\ Receiving' = Receiving
  BY <1>1, CarrierStays DEF EssaInv
<1> QED BY <1>1, <1>3, <1>4, <1>5 DEF EssaInv

\* Time passes.
LEMMA EssaTimeOk ==
  ASSUME EssaInv, EssaTimePasses, UNCHANGED frameVars
  PROVE  EssaInv'
<1> DEFINE C == m_essaPacketContainer
           W == Own \ Receiving
<1>1. /\ windowPhase = "receive" /\ ~ReceptionIsDue /\ now' = now + 1
      /\ UNCHANGED <<interferenceVars, m_rxParams, bursts, handedUp, windowVars>>
  BY DEF EssaTimePasses
<1>2. EssaCarrier /\ now \in Nat /\ \A b \in bursts : BurstOk(b)
  BY EssaHears DEF EssaInv
<1>3. Own' = Own /\ Receiving' = Receiving /\ bursts' = bursts /\ handedUp' = handedUp
  BY <1>1 DEF Own, Receiving, interferenceVars
<1>4. EssaCarrier'
  <2>1. PICK H : H = bursts
    OBVIOUS
  <2>2. Heard(H)'
    BY <1>1, <1>2, <2>1, HeardLater DEF EssaCarrier
  <2>3. Heard(bursts)'
    BY <1>3, <2>1, <2>2, HeardBursts
  <2>4. RxOk'
    BY <1>1, <1>2, RxTime DEF EssaCarrier
  <2> QED BY <1>2, <1>3, <2>3, <2>4 DEF EssaCarrier
<1>5. EssaKnows(C, bursts, W, decoded, now + 1)
  <2>1. EssaKnows(C, bursts, W, decoded, now)
    BY DEF EssaInv
  <2>2. m_windowDelay \in Nat /\ m_windowDuration \in Nat
    BY WindowTimes
  <2>3. \A b \in W : b \in bursts /\ b.end \in Nat
    BY <1>2, EssaHears DEF BurstOk
  <2>4. \A i \in 1 .. Len(C) : C[i].burst \in W
    BY <2>1, ListedMember DEF EssaKnows
  <2> HIDE DEF C, W
  <2>5. Kept(C, W, decoded, now)
    BY <2>1 DEF EssaKnows
  <2>6. decoded \subseteq W
    BY <2>5 DEF Kept
  <2>7. ASSUME NEW b \in decoded
        PROVE  \/ \E i \in 1 .. Len(C) : C[i].burst = b
               \/ b.end + m_windowDelay + m_windowDuration <= now + 1
    <3>1. CASE \E i \in 1 .. Len(C) : C[i].burst = b
      BY <3>1
    <3>2. CASE ~\E i \in 1 .. Len(C) : C[i].burst = b
      <4>1. b.end + m_windowDelay + m_windowDuration <= now /\ b.end \in Nat
        BY <2>3, <2>5, <2>6, <3>2 DEF Kept
      <4>2. b.end + m_windowDelay + m_windowDuration <= now + 1
        BY <1>2, <2>2, <4>1
      <4> QED BY <4>2
    <3> QED BY <3>1, <3>2
  <2>8. ASSUME NEW i \in 1 .. Len(C), C[i].isInsideWindow
        PROVE  C[i].burst.end + m_windowDelay <= now + 1
    <3>1. C[i].burst.end + m_windowDelay <= now /\ C[i].burst.end \in Nat
      BY <2>3, <2>4, <2>5, <2>8 DEF Kept
    <3> QED BY <1>2, <2>2, <3>1
  <2>9. Kept(C, W, decoded, now + 1)
    BY <2>6, <2>7, <2>8 DEF Kept
  <2> QED BY <2>1, <2>9 DEF EssaKnows
<1>6. EssaResults(windowPhase, C, windowBounds, now + 1, handedUp, Own, decoded)
  BY <1>1 DEF EssaInv, EssaResults
<1>7. /\ m_essaPacketContainer' = C /\ nextWindowEnd' = nextWindowEnd /\ decoded' = decoded
      /\ pendingWindows' = pendingWindows /\ windowBounds' = windowBounds
      /\ windowPhase' = windowPhase /\ negativeInterference' = negativeInterference
  BY <1>1 DEF windowVars
<1>8. EssaIdle'
  BY IdleSame DEF EssaInv
<1>9. /\ nextWindowEnd \in Nat /\ pendingWindows \in Seq(Nat)
      /\ NegativeOk(C, bursts, negativeInterference)
  BY DEF EssaInv
<1> HIDE DEF C, W
<1> QED BY <1>1, <1>3, <1>4, <1>5, <1>6, <1>7, <1>8, <1>9 DEF EssaInv, W

-----------------------------------------------------------------------------
(* A packet is received. *)

\* EliminatePreviousInterferences takes off all that was decoded.
LEMMA PreviousIs ==
  ASSUME EssaCarrier, EssaKnows(m_essaPacketContainer, bursts, Own \ Receiving, decoded, now),
         NEW e \in Receiving, e.end = now
  PROVE  PreviousEliminated(e) = [k \in DOMAIN PerFragment(e) |-> Rid(PerFragment(e)[k], decoded, e)]
<1> DEFINE C == m_essaPacketContainer
           W == Own \ Receiving
           S(g) == {i \in DOMAIN C : C[i].hasBeenDecoded /\ Overlap(C[i].burst, e) /\ EndsIn(g, C[i].burst)}
           Power(places) == SumFunction([i \in places |-> RxPower[C[i].burst.sender]])
<1>1. /\ now \in Nat /\ Own \subseteq bursts /\ e \in bursts
      /\ \A b \in bursts : BurstOk(b) /\ b.end = b.start + PacketDuration
  BY EssaHears
<1>2. PICK n \in Nat : n = Len(C)
  BY ListedMember DEF EssaKnows
<1>3. /\ DOMAIN C = 1 .. n /\ \A i \in 1 .. n : C[i].burst \in W /\ BurstOk(C[i].burst)
      /\ \A i \in 1 .. n : C[i].hasBeenDecoded <=> C[i].burst \in decoded
      /\ \A i, j \in 1 .. n : C[i].burst = C[j].burst => i = j
  BY <1>1, <1>2, ListedMember DEF EssaKnows, JudgedEssa, Listed
<1>4. \A b \in decoded : b \in bursts /\ ((\E i \in 1 .. n : C[i].burst = b)
                                          \/ b.end + m_windowDelay + m_windowDuration <= now)
  BY <1>1, <1>2 DEF EssaKnows, Kept
<1>5. ASSUME NEW b \in decoded, Overlap(b, e) PROVE \E i \in 1 .. n : C[i].burst = b
  <2>1. b.end \in Nat /\ e.start \in Nat /\ e.end = e.start + PacketDuration
    BY <1>1, <1>4 DEF BurstOk
  <2>2. /\ m_windowDelay \in Nat /\ m_windowDuration \in Nat /\ PacketDuration \in Nat
        /\ m_windowStep \in Nat /\ m_windowDuration >= PacketDuration + m_windowStep
    BY WindowTimes
  <2>3. e.start < b.end
    BY <1>5 DEF Overlap
  <2>4. ~(b.end + m_windowDelay + m_windowDuration <= now)
    BY <2>1, <2>2, <2>3
  <2> QED BY <1>4, <2>4
<1> HIDE DEF C, W
<1>6. ASSUME NEW g PROVE Power(S(g)) = PowerAmong(TakenOff(decoded, g, e))
  <2>1. PICK T : T = S(g)
    OBVIOUS
  <2>2. PICK R : R = TakenOff(decoded, g, e)
    OBVIOUS
  <2> DEFINE p == [i \in T |-> C[i].burst]
             f == [b \in R |-> RxPower[b.sender]]
             h == [i \in T |-> RxPower[C[i].burst.sender]]
  <2>3. T \in SUBSET (1 .. n)
    BY <1>3, <2>1
  <2>4. IsFiniteSet(T)
    BY <2>3, FirstNumbers, FS_Subset
  <2>5. \A x \in T : C[x].burst \in R /\ BurstOk(C[x].burst)
    BY <1>3, <2>1, <2>2, <2>3 DEF TakenOff
  <2>6. \A b \in R : \E x \in T : C[x].burst = b
    <3>1. ASSUME NEW b \in R PROVE \E x \in T : C[x].burst = b
      <4>1. b \in decoded /\ Overlap(b, e) /\ EndsIn(g, b)
        BY <2>2 DEF TakenOff
      <4>2. PICK x \in 1 .. n : C[x].burst = b
        BY <1>5, <4>1
      <4>3. x \in T
        BY <1>3, <2>1, <4>1, <4>2
      <4> QED BY <4>2, <4>3
    <3> QED BY <3>1
  <2>7. {p[x] : x \in T} = R
    BY <2>5, <2>6
  <2>8. \A x, y \in T : p[x] = p[y] => x = y
    BY <1>3, <2>3
  <2>9. \A x \in T : h[x] \in Int /\ h[x] = f[p[x]]
    BY <2>5, CarrierAssumption DEF BurstOk
  <2>10. Power(S(g)) = SumFunctionOnSet(h, T)
    BY <2>1 DEF SumFunction
  <2>11. PowerAmong(R) = SumFunctionOnSet(f, R)
    BY DEF PowerAmong, SumFunction
  <2> HIDE DEF p, f, h, Power, S
  <2>12. SumFunctionOnSet(f, {p[x] : x \in T}) = SumFunctionOnSet(h, T)
    BY <2>4, <2>8, <2>9, SumRenamed
  <2> QED BY <2>2, <2>7, <2>10, <2>11, <2>12
<1>7. PICK P : P = PerFragment(e)
  OBVIOUS
<1>8. PreviousEliminated(e) = [k \in DOMAIN P |-> [P[k] EXCEPT !.power = P[k].power - Power(S(P[k]))]]
  BY <1>7 DEF PreviousEliminated, C
<1> HIDE DEF Power, S
<1>9. \A k \in DOMAIN P : [P[k] EXCEPT !.power = P[k].power - Power(S(P[k]))] = Rid(P[k], decoded, e)
  BY <1>6 DEF Rid
<1> QED BY <1>7, <1>8, <1>9

LEMMA NegativeIs ==
  ASSUME NEW B, NEW W, Listed(B, W)
  PROVE  /\ HasNegative(B) \in BOOLEAN
         /\ HasNegative(B) => \E i \in 1 .. Len(B) : ~NotNegative(B[i])
         /\ ~HasNegative(B) => \A i \in 1 .. Len(B) : NotNegative(B[i])
<1>1. /\ DOMAIN B = 1 .. Len(B) /\ \A i \in 1 .. Len(B) : B[i].ifPower \in Seq(Fragment)
  BY ListedMember
<1>2. \A P \in Seq(Fragment) : DOMAIN P = 1 .. Len(P) /\ \A k \in 1 .. Len(P) : P[k].power \in Int
  <2>1. ASSUME NEW P \in Seq(Fragment), NEW k \in 1 .. Len(P) PROVE P[k].power \in Int
    <3>1. P[k] \in Fragment
      OBVIOUS
    <3> QED BY <3>1 DEF Fragment
  <2> QED BY <2>1
<1>3. ASSUME NEW i \in 1 .. Len(B)
      PROVE  (\E k \in DOMAIN B[i].ifPower : B[i].ifPower[k].power < 0) <=> ~NotNegative(B[i])
  <2>1. PICK P \in Seq(Fragment) : P = B[i].ifPower
    BY <1>1
  <2>2. DOMAIN P = 1 .. Len(P) /\ \A k \in 1 .. Len(P) : P[k].power \in Int
    BY <1>2
  <2>3. \A k \in 1 .. Len(P) : P[k].power < 0 <=> ~(P[k].power >= 0)
    BY <2>2
  <2> QED BY <2>1, <2>2, <2>3 DEF NotNegative
<1>4. Range(B) = {B[i] : i \in 1 .. Len(B)}
  BY <1>1 DEF Range
<1>5. HasNegative(B) <=> \E i \in 1 .. Len(B) : \E k \in DOMAIN B[i].ifPower : B[i].ifPower[k].power < 0
  BY <1>4 DEF HasNegative
<1> QED BY <1>3, <1>5 DEF HasNegative

\* The error of a container in which nothing but what is not decoded changed.
LEMMA NegativeOnlyIf ==
  ASSUME NEW B, NEW W, Listed(B, W), NEW H, IsFiniteSet(H), \A b \in H : BurstOk(b), NEW D,
         \A i \in 1 .. Len(B) : NotNegative(B[i]) \/ ExactFragments(H, B[i].ifPower, B[i].burst, D)
  PROVE  NegativeOk(B, H, HasNegative(B))
<1>1. ASSUME NEW i \in 1 .. Len(B), ~NotNegative(B[i]) PROVE Coincide(H)
  <2>1. PICK P : P = B[i].ifPower
    OBVIOUS
  <2>2. PICK e : e = B[i].burst
    OBVIOUS
  <2>3. ExactFragments(H, P, e, D)
    BY <1>1, <2>1, <2>2
  <2>4. PICK k \in 1 .. Len(P) : ~(P[k].power >= 0)
    BY <1>1, <2>1 DEF NotNegative
  <2> QED BY <2>3, <2>4, NothingNegative
<1>2. /\ HasNegative(B) \in BOOLEAN
      /\ HasNegative(B) => \E i \in 1 .. Len(B) : ~NotNegative(B[i])
      /\ ~HasNegative(B) => \A i \in 1 .. Len(B) : NotNegative(B[i])
  BY NegativeIs
<1> QED BY <1>1, <1>2 DEF NegativeOk

LEMMA EssaReceivesOk ==
  ASSUME EssaInv, ~negativeInterference, ReceiveEssa, UNCHANGED frameVars
  PROVE  EssaInv'
<1> DEFINE C == m_essaPacketContainer
           W == Own \ Receiving
<1>1. EssaIdle' /\ EssaCarrier /\ EssaKnows(C, bursts, W, decoded, now)
  BY IdleSame DEF EssaInv
<1>2. /\ IsFiniteSet(bursts) /\ now \in Nat /\ Own \subseteq bursts /\ Receiving \subseteq Own
      /\ \A b \in bursts : BurstOk(b)
      /\ \A b \in W : b.end <= now
  BY <1>1, EssaHears
<1>3. PICK e : EndRxData(e) /\ m_essaPacketContainer' =
            IF PacketCanBeDetected(e)
            THEN Append(m_essaPacketContainer,
                        [burst |-> e, ifPower |-> PreviousEliminated(e),
                         hasBeenDecoded |-> FALSE, hasBeenUpdated |-> TRUE,
                         isInsideWindow |-> FALSE, hasBeenTreatedInWindow |-> FALSE])
            ELSE m_essaPacketContainer
  BY DEF ReceiveEssa
<1>4. /\ windowPhase = "receive" /\ negativeInterference' = HasNegative(m_essaPacketContainer')
      /\ UNCHANGED <<handedUp, nextWindowEnd, pendingWindows, windowBounds, windowPhase, decoded>>
  BY DEF ReceiveEssa
<1>5. /\ RxOk' /\ Own' = Own /\ e \in Own /\ e \in Receiving /\ e.end = now
      /\ Receiving' = Receiving \ {e}
  BY <1>1, <1>2, <1>3, RxEnd DEF EssaCarrier
<1>6. now' = now /\ bursts' = bursts
  BY <1>3 DEF EndRxData
<1>7. EssaCarrier'
  <2>1. PICK H : H = bursts
    OBVIOUS
  <2>2. Heard(H)'
    BY <1>1, <1>3, <2>1, HeardEnd DEF EssaCarrier
  <2>3. Heard(bursts)'
    BY <1>6, <2>1, <2>2, HeardBursts
  <2> QED BY <1>1, <1>5, <1>6, <2>3 DEF EssaCarrier
<1>8. PICK V : V = W \cup {e}
  OBVIOUS
<1>9. Own' \ Receiving' = V /\ e \notin W /\ W \subseteq V
  BY <1>5, <1>8
<1>10. PICK Q : Q = PreviousEliminated(e)
  OBVIOUS
<1>11. decoded \subseteq W
  BY <1>1 DEF EssaKnows, Kept
<1>12. ExactFragments(bursts, Q, e, decoded)
  <2>1. PICK P : P = PerFragment(e)
    OBVIOUS
  <2>2. PICK none : none = {}
    OBVIOUS
  <2>3. ExactFragments(bursts, P, e, none)
    BY <1>1, <1>5, <2>1, <2>2, FragmentsAreExact DEF EssaCarrier
  <2>4. Q = [k \in DOMAIN P |-> Rid(P[k], decoded, e)]
    BY <1>1, <1>5, <1>10, <2>1, PreviousIs
  <2>5. PICK D : D = decoded
    OBVIOUS
  <2>6. D \in SUBSET (bursts \ (none \cup {e})) /\ e \in bursts
    BY <1>2, <1>5, <1>9, <1>11, <2>2, <2>5
  <2>7. Q = [k \in DOMAIN P |-> Rid(P[k], D, e)]
    BY <2>4, <2>5
  <2> HIDE DEF W, C
  <2>8. ExactFragments(bursts, Q, e, none \cup D)
    BY <1>2, <2>3, <2>6, <2>7, ExactRid
  <2>9. none \cup D = decoded
    BY <2>2, <2>5
  <2> QED BY <2>8, <2>9
<1>13. PICK p : p = [burst |-> e, ifPower |-> Q, hasBeenDecoded |-> FALSE, hasBeenUpdated |-> TRUE,
                     isInsideWindow |-> FALSE, hasBeenTreatedInWindow |-> FALSE]
  OBVIOUS
<1>14. /\ p.burst = e /\ p.ifPower = Q /\ p.hasBeenDecoded = FALSE /\ p.hasBeenUpdated = TRUE
       /\ p.isInsideWindow = FALSE /\ p \in EssaPacket(V)
  <2>1. Q \in Seq(Fragment) /\ e \in V
    BY <1>8, <1>12 DEF ExactFragments, Fragmented
  <2> QED BY <1>13, <2>1 DEF EssaPacket
<1>15. PICK B : B = m_essaPacketContainer'
  OBVIOUS
<1>16. B = IF PacketCanBeDetected(e) THEN Append(C, p) ELSE C
  BY <1>3, <1>10, <1>13, <1>15
<1> HIDE DEF C, W
<1>17. \A i \in 1 .. Len(C) : NotNegative(C[i])
  BY DEF EssaInv, NegativeOk, C
<1>18. JudgedEssa(p, bursts, decoded)
  BY <1>9, <1>11, <1>12, <1>14 DEF JudgedEssa
<1>19. /\ Listed(B, V)
       /\ \A i \in 1 .. Len(C) : B[i] = C[i] /\ i \in 1 .. Len(B)
       /\ \A i \in 1 .. Len(B) : (i \in 1 .. Len(C) /\ B[i] = C[i]) \/ B[i] = p
  <2>1. Listed(C, W)
    BY <1>1 DEF EssaKnows
  <2>2. CASE PacketCanBeDetected(e)
    <3>1. B = Append(C, p)
      BY <1>16, <2>2
    <3>2. \A x \in W : x.end <= e.end
      BY <1>2, <1>5
    <3>3. p \in EssaPacket(W \cup {e})
      BY <1>8, <1>14
    <3>4. Listed(B, W \cup {e}) /\ WithLast(B, C, p)
      <4>1. e \notin W /\ p.burst = e
        BY <1>9, <1>14
      <4> QED BY <2>1, <3>1, <3>2, <3>3, <4>1, ListedMore, ZenonT(60)
    <3> QED BY <1>8, <3>4 DEF WithLast
  <2>3. CASE ~PacketCanBeDetected(e)
    <3>1. B = C
      BY <1>16, <2>3
    <3>2. Listed(C, V)
      BY <1>9, <2>1, ListedWider
    <3> QED BY <3>1, <3>2
  <2> QED BY <2>2, <2>3
<1>20. EssaKnows(B, bursts, V, decoded, now)
  <2>1. \A i \in 1 .. Len(B) : JudgedEssa(B[i], bursts, decoded)
    BY <1>1, <1>18, <1>19 DEF EssaKnows
  <2>2. Kept(C, W, decoded, now)
    BY <1>1 DEF EssaKnows
  <2>3. decoded \subseteq V
    BY <1>9, <1>11
  <2>4. ASSUME NEW b \in decoded
        PROVE  \/ \E i \in 1 .. Len(B) : B[i].burst = b
               \/ b.end + m_windowDelay + m_windowDuration <= now
    BY <1>19, <2>2 DEF Kept
  <2>5. ASSUME NEW i \in 1 .. Len(B), B[i].isInsideWindow
        PROVE  B[i].burst.end + m_windowDelay <= now
    BY <1>14, <1>19, <2>2, <2>5 DEF Kept
  <2> QED BY <1>19, <2>1, <2>3, <2>4, <2>5 DEF EssaKnows, Kept
<1>21. NegativeOk(B, bursts, HasNegative(B))
  <2>1. \A i \in 1 .. Len(B) : NotNegative(B[i]) \/ ExactFragments(bursts, B[i].ifPower, B[i].burst, decoded)
    BY <1>12, <1>14, <1>17, <1>19
  <2> QED BY <1>2, <1>19, <2>1, NegativeOnlyIf
<1>22. EssaResults("receive", B, windowBounds, now, handedUp, Own, decoded)
  <2>1. Tried(C) /\ HandedRight(handedUp, Own, decoded)
    BY <1>4 DEF EssaInv, EssaResults, C
  <2>2. Tried(B)
    BY <1>14, <1>19, <2>1 DEF Tried
  <2> QED BY <2>1, <2>2 DEF EssaResults
<1>23. nextWindowEnd \in Nat /\ pendingWindows \in Seq(Nat)
  BY DEF EssaInv
<1> QED BY <1>1, <1>4, <1>5, <1>6, <1>7, <1>9, <1>15, <1>20, <1>21, <1>22, <1>23 DEF EssaInv

-----------------------------------------------------------------------------
(* A window is looked at. *)

\* Where CleanOldPackets stops.
LEMMA CleanedIs ==
  ASSUME NEW W, Listed(m_essaPacketContainer, W), \A b \in W : b.end \in Nat, NEW t \in Int
  PROVE  \E k \in 0 .. Len(m_essaPacketContainer) :
           /\ CleanOldPackets(t) = SubSeq(m_essaPacketContainer, k + 1, Len(m_essaPacketContainer))
           /\ \A i \in 1 .. Len(m_essaPacketContainer) :
                i <= k <=> m_essaPacketContainer[i].burst.end <= t
<1> DEFINE C == m_essaPacketContainer
<1>1. PICK n \in Nat : n = Len(C)
  BY ListedMember
<1>2. DOMAIN C = 1 .. n /\ \A i \in 1 .. n : C[i].burst.end \in Nat
  BY <1>1, ListedMember
<1> DEFINE T == {i \in 1 .. n : C[i].burst.end <= t}
<1>3. CleanOldPackets(t) = SubSeq(C, Cardinality(T) + 1, n)
  BY <1>1, <1>2 DEF CleanOldPackets
<1>4. ASSUME NEW i \in T, NEW j \in 1 .. n, j < i PROVE j \in T
  <2>1. C[j].burst.end <= C[i].burst.end
    BY <1>1, <1>4 DEF Listed
  <2>2. C[j].burst.end \in Nat /\ C[i].burst.end \in Nat /\ C[i].burst.end <= t
    BY <1>2
  <2> QED BY <2>1, <2>2
<1>5. T \in SUBSET (1 .. n) /\ \A i \in 1 .. n : i \in T <=> C[i].burst.end <= t
  OBVIOUS
<1> HIDE DEF T
<1>6. Cardinality(T) \in 0 .. n /\ \A i \in 1 .. n : i <= Cardinality(T) <=> i \in T
  BY <1>4, <1>5, PrefixCount
<1> QED BY <1>1, <1>3, <1>5, <1>6

\* Where GetWindowBounds stops.
LEMMA BoundsAre ==
  ASSUME NEW B, NEW W, Listed(B, W), \A b \in W : BurstOk(b) /\ b.end = b.start + PacketDuration,
         NEW t \in Int
  PROVE  /\ GetWindowBounds(B, t) \in 0 .. Len(B)
         /\ \A i \in 1 .. Len(B) : i <= GetWindowBounds(B, t) <=> B[i].burst.start <= t
<1>1. PICK n \in Nat : n = Len(B)
  BY ListedMember
<1>2. /\ DOMAIN B = 1 .. n /\ PacketDuration \in Nat
      /\ \A i \in 1 .. n : /\ B[i].burst.start \in Nat /\ B[i].burst.end \in Nat
                           /\ B[i].burst.end = B[i].burst.start + PacketDuration
  BY <1>1, ListedMember, WindowTimes DEF BurstOk
<1> DEFINE T == {i \in 1 .. n : B[i].burst.start <= t}
<1>3. GetWindowBounds(B, t) = Cardinality(T)
  BY <1>2 DEF GetWindowBounds
<1>4. ASSUME NEW i \in T, NEW j \in 1 .. n, j < i PROVE j \in T
  <2>1. B[j].burst.end <= B[i].burst.end
    BY <1>1, <1>4 DEF Listed
  <2>2. /\ B[j].burst.start \in Nat /\ B[i].burst.start \in Nat /\ B[i].burst.start <= t
        /\ B[i].burst.end = B[i].burst.start + PacketDuration
        /\ B[j].burst.end = B[j].burst.start + PacketDuration
    BY <1>2
  <2>3. B[j].burst.start <= t
    <3>1. PICK x \in Nat : x = B[j].burst.start
      BY <2>2
    <3>2. PICK y \in Nat : y = B[i].burst.start
      BY <2>2
    <3>3. x + PacketDuration <= y + PacketDuration /\ y <= t /\ PacketDuration \in Nat
      BY <1>2, <2>1, <2>2, <3>1, <3>2
    <3>4. x <= t
      BY <3>3
    <3> QED BY <3>1, <3>4
  <2> QED BY <2>3
<1>5. T \in SUBSET (1 .. n) /\ \A i \in 1 .. n : i \in T <=> B[i].burst.start <= t
  OBVIOUS
<1> HIDE DEF T
<1>6. Cardinality(T) \in 0 .. n /\ \A i \in 1 .. n : i <= Cardinality(T) <=> i \in T
  BY <1>4, <1>5, PrefixCount
<1> QED BY <1>1, <1>3, <1>5, <1>6

LEMMA PacketFields ==
  ASSUME NEW a, NEW b, NEW c, NEW d, NEW e, NEW f, NEW q,
         q = [burst |-> a, ifPower |-> b, hasBeenDecoded |-> c, hasBeenUpdated |-> d,
              isInsideWindow |-> e, hasBeenTreatedInWindow |-> f]
  PROVE  /\ q.burst = a /\ q.ifPower = b /\ q.hasBeenDecoded = c /\ q.hasBeenUpdated = d
         /\ q.isInsideWindow = e /\ q.hasBeenTreatedInWindow = f
OBVIOUS

\* The marks of a packet that the window looks at.
MarkedAs(p, inside) ==
  [p EXCEPT !.isInsideWindow = inside, !.hasBeenTreatedInWindow = ~inside /\ p.hasBeenTreatedInWindow]

LEMMA MarkedInside ==
  ASSUME NEW W, NEW p \in EssaPacket(W), NEW inside \in BOOLEAN, NEW q, q = MarkedAs(p, inside)
  PROVE  /\ q \in EssaPacket(W) /\ q.burst = p.burst /\ q.ifPower = p.ifPower
         /\ q.hasBeenDecoded = p.hasBeenDecoded /\ q.hasBeenUpdated = p.hasBeenUpdated
         /\ q.isInsideWindow = inside /\ (inside => ~q.hasBeenTreatedInWindow)
<1>1. p.hasBeenTreatedInWindow \in BOOLEAN
  BY DEF EssaPacket
<1>2. PICK treated \in BOOLEAN : treated <=> (~inside /\ p.hasBeenTreatedInWindow)
  BY <1>1
<1>3. treated = (~inside /\ p.hasBeenTreatedInWindow)
  BY <1>1, <1>2
<1>4. q = [p EXCEPT !.isInsideWindow = inside, !.hasBeenTreatedInWindow = treated]
  BY <1>3 DEF MarkedAs
<1>5. p = [burst |-> p.burst, ifPower |-> p.ifPower, hasBeenDecoded |-> p.hasBeenDecoded,
           hasBeenUpdated |-> p.hasBeenUpdated, isInsideWindow |-> p.isInsideWindow,
           hasBeenTreatedInWindow |-> p.hasBeenTreatedInWindow]
      /\ p.burst \in W /\ p.ifPower \in Seq(Fragment) /\ p.hasBeenDecoded \in BOOLEAN
      /\ p.hasBeenUpdated \in BOOLEAN
  BY DEF EssaPacket
<1>6. q = [burst |-> p.burst, ifPower |-> p.ifPower, hasBeenDecoded |-> p.hasBeenDecoded,
           hasBeenUpdated |-> p.hasBeenUpdated, isInsideWindow |-> inside,
           hasBeenTreatedInWindow |-> treated]
  BY <1>4, <1>5
<1>7. q \in EssaPacket(W)
  BY <1>5, <1>6 DEF EssaPacket
<1>8. /\ q.burst = p.burst /\ q.ifPower = p.ifPower
      /\ q.hasBeenDecoded = p.hasBeenDecoded /\ q.hasBeenUpdated = p.hasBeenUpdated
      /\ q.isInsideWindow = inside /\ q.hasBeenTreatedInWindow = treated
  BY <1>6, PacketFields
<1> QED BY <1>2, <1>7, <1>8

\* What Within leaves alone, and what it finds out.
SameIn(X, B, bound, s, t) ==
  \A i \in 1 .. Len(B) :
    /\ X[i].burst = B[i].burst /\ X[i].ifPower = B[i].ifPower
    /\ X[i].hasBeenDecoded = B[i].hasBeenDecoded /\ X[i].hasBeenUpdated = B[i].hasBeenUpdated
    /\ i > bound => X[i] = B[i]
    /\ ~(i > bound) => /\ X[i].isInsideWindow => B[i].burst.end <= t
                       /\ X[i].isInsideWindow => ~X[i].hasBeenTreatedInWindow

LEMMA WithinIs ==
  ASSUME NEW B, NEW W, Listed(B, W), NEW s, NEW t, NEW X, X = Within(B, s, t)
  PROVE  /\ Listed(X, W) /\ Len(X) = Len(B) /\ SameIn(X, B, GetWindowBounds(B, t), s, t)
<1> DEFINE g == GetWindowBounds(B, t)
           inside(i) == B[i].burst.start >= s /\ B[i].burst.end <= t
<1>1. DOMAIN B = 1 .. Len(B) /\ \A i \in 1 .. Len(B) : B[i] \in EssaPacket(W)
  BY ListedMember
<1>2. X = [i \in 1 .. Len(B) |->
             IF i > g THEN B[i]
             ELSE [B[i] EXCEPT !.isInsideWindow = inside(i),
                               !.hasBeenTreatedInWindow = ~inside(i) /\ B[i].hasBeenTreatedInWindow]]
  BY <1>1 DEF Within
<1> HIDE DEF g
<1>3. ASSUME NEW i \in 1 .. Len(B)
      PROVE  /\ X[i] \in EssaPacket(W)
             /\ X[i].burst = B[i].burst /\ X[i].ifPower = B[i].ifPower
             /\ X[i].hasBeenDecoded = B[i].hasBeenDecoded /\ X[i].hasBeenUpdated = B[i].hasBeenUpdated
             /\ i > g => X[i] = B[i]
             /\ ~(i > g) => /\ X[i].isInsideWindow => B[i].burst.end <= t
                            /\ X[i].isInsideWindow => ~X[i].hasBeenTreatedInWindow
  <2>1. CASE i > g
    BY <1>1, <1>2, <2>1
  <2>2. CASE ~(i > g)
    <3>1. PICK within \in BOOLEAN : within = inside(i)
      OBVIOUS
    <3>2. PICK p \in EssaPacket(W) : p = B[i]
      BY <1>1
    <3>3. PICK q : q = X[i]
      OBVIOUS
    <3>4. q = MarkedAs(p, within)
      BY <1>2, <2>2, <3>1, <3>2, <3>3 DEF MarkedAs
    <3>5. /\ q \in EssaPacket(W) /\ q.burst = p.burst /\ q.ifPower = p.ifPower
          /\ q.hasBeenDecoded = p.hasBeenDecoded /\ q.hasBeenUpdated = p.hasBeenUpdated
          /\ q.isInsideWindow = within /\ (within => ~q.hasBeenTreatedInWindow)
      BY <3>4, MarkedInside
    <3>6. within => B[i].burst.end <= t
      BY <3>1
    <3> HIDE DEF inside
    <3> QED BY <2>2, <3>2, <3>3, <3>5, <3>6
  <2> QED BY <2>1, <2>2
<1>4. X = [i \in 1 .. Len(B) |-> X[i]]
  BY <1>2
<1>5. Listed(X, W) /\ Len(X) = Len(B)
  BY <1>3, <1>4, ListedSame
<1> QED BY <1>3, <1>5 DEF SameIn, g

LEMMA EssaLooksOk ==
  ASSUME EssaInv, ~negativeInterference, ProcessWindow, UNCHANGED frameVars
  PROVE  EssaInv'
<1> DEFINE C == m_essaPacketContainer
           W == Own \ Receiving
<1>1. EssaIdle' /\ EssaCarrier /\ EssaKnows(C, bursts, W, decoded, now)
  BY IdleSame DEF EssaInv
<1>2. /\ now \in Nat /\ Own \subseteq bursts
      /\ \A b \in bursts : BurstOk(b) /\ b.end = b.start + PacketDuration
  BY <1>1, EssaHears
<1>3. PICK E : E = Head(pendingWindows)
  OBVIOUS
<1>4. /\ windowPhase = "receive" /\ pendingWindows # <<>> /\ E + m_windowDelay = now
      /\ pendingWindows' = Tail(pendingWindows) /\ windowPhase' = "decode"
      /\ UNCHANGED <<carrierVars, nextWindowEnd, negativeInterference, decoded>>
  BY <1>3 DEF ProcessWindow, WindowIsDue
<1>5. E \in Nat /\ pendingWindows' \in Seq(Nat) /\ nextWindowEnd \in Nat
  <2>1. pendingWindows \in Seq(Nat) /\ nextWindowEnd \in Nat
    BY DEF EssaInv
  <2> QED BY <1>3, <1>4, <2>1
<1>6. /\ EssaCarrier' /\ bursts' = bursts /\ now' = now /\ handedUp' = handedUp
      /\ Own' = Own /\ Receiving' = Receiving
  BY <1>1, <1>4, CarrierStays
<1>8. /\ m_windowDelay \in Nat /\ m_windowDuration \in Nat
  BY WindowTimes
<1>9. PICK s \in Int : s = E - m_windowDuration
  BY <1>5, <1>8
<1>10. PICK cleaned : cleaned = CleanOldPackets(s)
  OBVIOUS
<1>11. PICK X : X = m_essaPacketContainer'
  OBVIOUS
<1>12. PICK g : g = GetWindowBounds(cleaned, E)
  OBVIOUS
<1>13. X = Within(cleaned, s, E) /\ windowBounds' = g
  BY <1>3, <1>9, <1>10, <1>11, <1>12 DEF ProcessWindow
<1>14. \A b \in W : b \in bursts /\ b.end \in Nat /\ b.start \in Nat
  BY <1>2 DEF BurstOk
<1>15. Listed(C, W) /\ Kept(C, W, decoded, now) /\ \A i \in 1 .. Len(C) : JudgedEssa(C[i], bursts, decoded)
  BY <1>1 DEF EssaKnows
<1>16. PICK k \in 0 .. Len(C) :
         /\ cleaned = SubSeq(C, k + 1, Len(C))
         /\ \A i \in 1 .. Len(C) : i <= k <=> C[i].burst.end <= s
  <2> HIDE DEF W
  <2> QED BY <1>9, <1>10, <1>14, <1>15, CleanedIs
<1> HIDE DEF C, W
<1>17. /\ Listed(cleaned, W) /\ Len(cleaned) = Len(C) - k /\ Len(cleaned) \in Nat /\ Len(C) \in Nat
       /\ \A i \in 1 .. Len(cleaned) : k + i \in 1 .. Len(C) /\ cleaned[i] = C[k + i]
  BY <1>15, <1>16, ListedFrom, ListedMember
<1>18. g \in 0 .. Len(cleaned) /\ \A i \in 1 .. Len(cleaned) : i <= g <=> cleaned[i].burst.start <= E
  <2>1. \A b \in W : BurstOk(b) /\ b.end = b.start + PacketDuration
    BY <1>2, <1>14
  <2>2. E \in Int
    BY <1>5
  <2> QED BY <1>12, <1>17, <2>1, <2>2, BoundsAre
<1>19. Listed(X, W) /\ Len(X) = Len(cleaned) /\ SameIn(X, cleaned, g, s, E)
  BY <1>12, <1>13, <1>17, WithinIs
<1>20. ASSUME NEW i \in 1 .. Len(X)
       PROVE  /\ k + i \in 1 .. Len(C)
              /\ X[i].burst = C[k + i].burst /\ X[i].ifPower = C[k + i].ifPower
              /\ X[i].hasBeenDecoded = C[k + i].hasBeenDecoded
              /\ X[i].hasBeenUpdated = C[k + i].hasBeenUpdated
              /\ i > g => X[i] = C[k + i]
              /\ ~(i > g) => /\ X[i].isInsideWindow => X[i].burst.end <= E
                             /\ X[i].isInsideWindow => ~X[i].hasBeenTreatedInWindow
              /\ X[i].burst \in W
  <2>1. i \in 1 .. Len(cleaned) /\ cleaned[i] = C[k + i] /\ k + i \in 1 .. Len(C)
    BY <1>17, <1>19
  <2>2. X[i].burst \in W
    BY <1>19, ListedMember
  <2>3. PICK p : p = C[k + i]
    OBVIOUS
  <2>4. cleaned[i] = p
    BY <2>1, <2>3
  <2>5. /\ X[i].burst = p.burst /\ X[i].ifPower = p.ifPower
        /\ X[i].hasBeenDecoded = p.hasBeenDecoded
        /\ X[i].hasBeenUpdated = p.hasBeenUpdated
        /\ i > g => X[i] = p
        /\ ~(i > g) => /\ X[i].isInsideWindow => p.burst.end <= E
                       /\ X[i].isInsideWindow => ~X[i].hasBeenTreatedInWindow
    BY <1>19, <2>1, <2>4 DEF SameIn
  <2> QED BY <2>1, <2>2, <2>3, <2>5
<1>21. ASSUME NEW i \in 1 .. Len(X)
       PROVE  JudgedEssa(X[i], bursts, decoded) /\ NotNegative(X[i])
  <2>1. PICK p : p = C[k + i]
    OBVIOUS
  <2>2. PICK q : q = X[i]
    OBVIOUS
  <2>3. JudgedEssa(p, bursts, decoded) /\ NotNegative(p)
    BY <1>15, <1>20, <2>1 DEF EssaInv, NegativeOk, C
  <2>4. /\ q.burst = p.burst /\ q.ifPower = p.ifPower
        /\ q.hasBeenDecoded = p.hasBeenDecoded /\ q.hasBeenUpdated = p.hasBeenUpdated
    BY <1>20, <2>1, <2>2
  <2>5. GetEffectiveSnir(q) = GetEffectiveSnir(p) /\ (NotNegative(q) <=> NotNegative(p))
    BY <2>4, SnirSame
  <2>6. JudgedEssa(q, bursts, decoded)
    BY <2>3, <2>4, <2>5 DEF JudgedEssa
  <2> QED BY <2>2, <2>3, <2>5, <2>6
<1>22. Kept(X, W, decoded, now)
  <2>1. ASSUME NEW b \in decoded
        PROVE  \/ \E i \in 1 .. Len(X) : X[i].burst = b
               \/ b.end + m_windowDelay + m_windowDuration <= now
    <3>1. CASE b.end + m_windowDelay + m_windowDuration <= now
      BY <3>1
    <3>2. CASE ~(b.end + m_windowDelay + m_windowDuration <= now)
      <4>1. PICK j \in 1 .. Len(C) : C[j].burst = b
        BY <1>15, <3>2 DEF Kept
      <4>2. CASE j <= k
        <5>1. b.end <= s /\ b.end \in Nat
          BY <1>14, <1>15, <1>16, <4>1, <4>2, ListedMember
        <5> QED BY <1>4, <1>5, <1>8, <1>9, <3>2, <5>1
      <4>3. CASE ~(j <= k)
        <5>1. PICK i \in 1 .. Len(X) : k + i = j
          <6>1. j - k \in 1 .. Len(X) /\ k + (j - k) = j
            BY <1>16, <1>17, <1>19, <4>3
          <6> QED BY <6>1
        <5>2. X[i].burst = b
          BY <1>20, <4>1, <5>1
        <5> QED BY <5>2
      <4> QED BY <4>2, <4>3
    <3> QED BY <3>1, <3>2
  <2>2. ASSUME NEW i \in 1 .. Len(X), X[i].isInsideWindow
        PROVE  X[i].burst.end + m_windowDelay <= now
    <3>1. CASE i > g
      <4>1. X[i] = C[k + i] /\ k + i \in 1 .. Len(C)
        BY <1>20, <3>1
      <4> QED BY <1>15, <2>2, <4>1 DEF Kept
    <3>2. CASE ~(i > g)
      <4>1. X[i].burst.end <= E /\ X[i].burst.end \in Nat
        BY <1>14, <1>20, <2>2, <3>2
      <4> QED BY <1>4, <1>5, <1>8, <4>1, SMTT(60)
    <3> QED BY <3>1, <3>2
  <2>3. decoded \subseteq W
    BY <1>15 DEF Kept
  <2> QED BY <2>1, <2>2, <2>3 DEF Kept
<1>23. EssaKnows(X, bursts, W, decoded, now)
  BY <1>19, <1>21, <1>22 DEF EssaKnows
<1>24. NegativeOk(X, bursts, negativeInterference)
  BY <1>21 DEF EssaInv, NegativeOk
<1>25. LooksAt(X, g, now)
  <2>1. ASSUME NEW i \in 1 .. Len(X) PROVE i <= g <=> X[i].burst.start + m_windowDelay <= now
    <3>1. i \in 1 .. Len(cleaned) /\ X[i].burst = cleaned[i].burst
      BY <1>17, <1>19, <1>20
    <3>2. i <= g <=> X[i].burst.start <= E
      BY <1>18, <3>1
    <3>3. X[i].burst.start \in Nat
      BY <1>14, <1>20
    <3>4. PICK x \in Nat : x = X[i].burst.start
      BY <3>3
    <3>5. x <= E <=> x + m_windowDelay <= now
      BY <1>4, <1>5, <1>8
    <3> QED BY <3>2, <3>4, <3>5
  <2> QED BY <1>18, <1>19, <2>1 DEF LooksAt
<1>26. DecodedNow(X, g) = {}
  <2>1. ASSUME NEW i \in 1 .. g PROVE ~Treated(X[i])
    <3>1. i \in 1 .. Len(X) /\ ~(i > g)
      BY <1>17, <1>18, <1>19
    <3> QED BY <1>20, <3>1 DEF Treated
  <2> QED BY <2>1 DEF DecodedNow
<1>27. EssaResults("decode", X, g, now, handedUp, Own, decoded)
  <2>1. HandedRight(handedUp, Own, decoded)
    BY <1>4 DEF EssaInv, EssaResults
  <2>2. decoded \ DecodedNow(X, g) = decoded
    BY <1>26
  <2> QED BY <1>25, <2>1, <2>2 DEF EssaResults
<1> QED BY <1>1, <1>4, <1>5, <1>6, <1>11, <1>13, <1>23, <1>24, <1>27 DEF EssaInv, W

-----------------------------------------------------------------------------
(* A packet is tried. *)

\* The mean that the packets are compared by, and the SNIR.
LEMMA LevelsAre ==
  ASSUME NEW packet, NEW e, e = packet.burst, BurstOk(e), NEW H, NEW gone,
         ExactFragments(H, packet.ifPower, e, gone), NotNegative(packet)
  PROVE  MeanSinr(packet) \in Nat /\ GetEffectiveSnir(packet) \in Int
<1> DEFINE P == packet.ifPower
           n == Len(P)
           Level(g) == IF g < Saturation THEN g ELSE Saturation
           u == [i \in DOMAIN P |-> Lasts(P[i]) * Gamma(e, P[i].power)]
           v == [i \in DOMAIN P |-> Lasts(P[i]) * Level(Gamma(e, P[i].power))]
<1>1. /\ P \in Seq(Fragment) /\ n \in Nat /\ DOMAIN P = 1 .. n
      /\ \A i \in 1 .. n : FragmentOk(H, P[i], e, gone)
  BY DEF ExactFragments, Fragmented
<1>2. \A i \in 1 .. n : P[i].power \in Nat /\ P[i].from \in Int /\ P[i].to \in Int /\ P[i].from <= P[i].to
  BY <1>1 DEF NotNegative, FragmentOk, Fragment
<1>3. \A p \in Nat : Gamma(e, p) \in Nat /\ Level(Gamma(e, p)) \in Nat
  <2>1. RxPower[e.sender] \in Nat /\ Noise \in Nat \ {0} /\ Saturation \in Nat
    BY CarrierAssumption, WindowAssumption DEF BurstOk
  <2>2. \A p \in Nat : Sinr(RxPower[e.sender], p, Noise) \in Nat
    BY <2>1, RatioType
  <2>3. \A p \in Nat : Gamma(e, p) \in Nat
    BY <2>2 DEF Gamma
  <2> QED BY <2>1, <2>3
<1>4. \A i \in 1 .. n : Lasts(P[i]) \in Nat
  BY <1>2 DEF Lasts
<1>5. \A a, b \in Nat : a * b \in Nat
  OBVIOUS
<1>6. IsFiniteSet(1 .. n)
  BY <1>1, FirstNumbers
<1>7. Duration(e) \in Nat \ {0}
  BY DEF Duration, BurstOk
<1>8. MeanSinr(packet) = SumFunctionOnSet(u, DOMAIN u) /\ DOMAIN u = 1 .. n
  BY <1>1 DEF MeanSinr, SumFunction
<1>9. GetEffectiveSnir(packet) = SumFunctionOnSet(v, DOMAIN v) \div Duration(e) /\ DOMAIN v = 1 .. n
  BY <1>1 DEF GetEffectiveSnir, SumFunction
<1>10. ASSUME NEW i \in 1 .. n PROVE u[i] \in Nat /\ v[i] \in Nat
  <2>1. PICK l \in Nat : l = Lasts(P[i])
    BY <1>4
  <2>2. PICK a \in Nat : a = Gamma(e, P[i].power)
    BY <1>2, <1>3
  <2>3. PICK b \in Nat : b = Level(Gamma(e, P[i].power))
    BY <1>2, <1>3
  <2>4. u[i] = l * a /\ v[i] = l * b
    BY <1>1, <2>1, <2>2, <2>3
  <2> QED BY <1>5, <2>4
<1> HIDE DEF P, n, u, v
<1>11. SumFunctionOnSet(u, 1 .. n) \in Nat
  BY <1>6, <1>10, SumOfNaturals
<1>12. PICK x \in Nat : x = SumFunctionOnSet(v, 1 .. n)
  BY <1>6, <1>10, SumOfNaturals
<1>13. x \div Duration(e) \in Int
  BY <1>7, DivModType
<1> QED BY <1>8, <1>9, <1>11, <1>12, <1>13

\* Of some numbers with natural values one comes first.
LEMMA FirstOfHighest ==
  ASSUME NEW n \in Nat, NEW T \in SUBSET (1 .. n), T # {}, NEW f, \A j \in T : f[j] \in Nat
  PROVE  \E i \in T : \A j \in T : f[i] > f[j] \/ (f[i] = f[j] /\ i <= j)
<1>1. IsFiniteSet(T)
  BY FirstNumbers, FS_Subset
<1>2. PICK m \in Nat : \A j \in T : f[j] <= m
  <2>1. SumFunctionOnSet(f, T) \in Nat /\ \A j \in T : f[j] <= SumFunctionOnSet(f, T)
    BY <1>1, SumOfNaturals
  <2> QED BY <2>1
<1> DEFINE V == {f[j] + 1 : j \in T}
<1>3. V \in SUBSET (1 .. m + 1) /\ V # {}
  <2>1. ASSUME NEW j \in T PROVE f[j] + 1 \in 1 .. m + 1
    BY <1>2
  <2> QED BY <2>1
<1>4. PICK k \in Nat : k = m + 1
  OBVIOUS
<1>5. PICK x \in V : \A y \in V : x >= y
  <2> HIDE DEF V
  <2>1. V \in SUBSET (1 .. k)
    BY <1>3, <1>4
  <2> QED BY <1>3, <2>1, LargestElement
<1> DEFINE U == {j \in T : f[j] + 1 = x}
<1>6. U \in SUBSET Nat /\ U # {}
  <2>1. PICK j \in T : x = f[j] + 1
    BY <1>5
  <2>2. j \in U
    BY <2>1
  <2>3. \A i \in U : i \in 1 .. n
    OBVIOUS
  <2>4. \A i \in 1 .. n : i \in Nat
    OBVIOUS
  <2> QED BY <2>2, <2>3, <2>4
<1>7. PICK i \in U : \A j \in U : i <= j
  <2> HIDE DEF U
  <2> QED BY <1>6, LeastNatural
<1>8. ASSUME NEW j \in T PROVE f[i] > f[j] \/ (f[i] = f[j] /\ i <= j)
  <2>1. i \in T /\ f[i] + 1 = x
    BY <1>7
  <2>2. f[j] + 1 \in V
    OBVIOUS
  <2>3. x >= f[j] + 1
    BY <1>5, <2>2
  <2>4. f[i] \in Nat /\ f[j] \in Nat
    BY <2>1
  <2>5. f[i] > f[j] \/ f[i] = f[j]
    BY <2>1, <2>3, <2>4
  <2>6. ASSUME f[i] = f[j] PROVE i <= j
    <3>1. j \in U
      BY <2>1, <2>6
    <3> QED BY <1>7, <3>1
  <2> QED BY <2>5, <2>6
<1> QED BY <1>7, <1>8

\* What is known while a window is looked at.
LEMMA WhileDecoding ==
  ASSUME EssaInv, ~negativeInterference, windowPhase = "decode"
  PROVE  /\ EssaCarrier /\ IsFiniteSet(bursts) /\ now \in Nat
         /\ EssaKnows(m_essaPacketContainer, bursts, Own \ Receiving, decoded, now)
         /\ LooksAt(m_essaPacketContainer, windowBounds, now)
         /\ HandedRight(handedUp, Own, decoded \ DecodedNow(m_essaPacketContainer, windowBounds))
         /\ \A i \in 1 .. Len(m_essaPacketContainer) : NotNegative(m_essaPacketContainer[i])
         /\ Own \ Receiving \subseteq bursts
         /\ \A b \in bursts : BurstOk(b) /\ b.end = b.start + PacketDuration
         /\ ToTry \in SUBSET (1 .. Len(m_essaPacketContainer)) /\ Len(m_essaPacketContainer) \in Nat
<1>1. EssaCarrier
  BY DEF EssaInv
<1>2. /\ IsFiniteSet(bursts) /\ now \in Nat /\ Own \subseteq bursts
      /\ \A b \in bursts : BurstOk(b) /\ b.end = b.start + PacketDuration
  BY <1>1, EssaHears
<1>3. EssaKnows(m_essaPacketContainer, bursts, Own \ Receiving, decoded, now)
  BY DEF EssaInv
<1>4. /\ LooksAt(m_essaPacketContainer, windowBounds, now)
      /\ HandedRight(handedUp, Own, decoded \ DecodedNow(m_essaPacketContainer, windowBounds))
  BY DEF EssaInv, EssaResults
<1>5. \A i \in 1 .. Len(m_essaPacketContainer) : NotNegative(m_essaPacketContainer[i])
  BY DEF EssaInv, NegativeOk
<1>6. Len(m_essaPacketContainer) \in Nat
  BY <1>3, ListedMember DEF EssaKnows
<1>7. ToTry \in SUBSET (1 .. Len(m_essaPacketContainer))
  <2>1. windowBounds \in 0 .. Len(m_essaPacketContainer)
    BY <1>4 DEF LooksAt
  <2>2. \A i \in 1 .. windowBounds : i \in 1 .. Len(m_essaPacketContainer)
    BY <1>6, <2>1
  <2> QED BY <2>2 DEF ToTry
<1> QED BY <1>1, <1>2, <1>3, <1>4, <1>5, <1>6, <1>7

\* GetHighestSnirPacket finds a packet to try.
LEMMA HighestIs ==
  ASSUME EssaInv, ~negativeInterference, windowPhase = "decode", ToTry # {}
  PROVE  /\ GetHighestSnirPacket \in ToTry
         /\ \A i \in ToTry : GetEffectiveSnir(m_essaPacketContainer[i]) \in Int
<1> DEFINE C == m_essaPacketContainer
           W == Own \ Receiving
<1>1. /\ EssaKnows(C, bursts, W, decoded, now) /\ W \subseteq bursts
      /\ \A b \in bursts : BurstOk(b)
      /\ \A i \in 1 .. Len(C) : NotNegative(C[i])
      /\ ToTry \in SUBSET (1 .. Len(C)) /\ Len(C) \in Nat
  BY WhileDecoding
<1> HIDE DEF W
<1>2. ASSUME NEW i \in ToTry PROVE MeanSinr(C[i]) \in Nat /\ GetEffectiveSnir(C[i]) \in Int
  <2>1. i \in 1 .. Len(C) /\ ~C[i].hasBeenDecoded
    BY <1>1 DEF ToTry
  <2>2. PICK p : p = C[i]
    OBVIOUS
  <2>3. PICK e : e = p.burst
    OBVIOUS
  <2>4. JudgedEssa(p, bursts, decoded) /\ e \in W /\ NotNegative(p)
    BY <1>1, <2>1, <2>2, <2>3, ListedMember DEF EssaKnows
  <2>5. ExactFragments(bursts, p.ifPower, e, decoded)
    BY <2>1, <2>2, <2>3, <2>4 DEF JudgedEssa
  <2>6. MeanSinr(p) \in Nat /\ GetEffectiveSnir(p) \in Int
    BY <1>1, <2>3, <2>4, <2>5, LevelsAre
  <2> QED BY <2>2, <2>6
<1> DEFINE f == [j \in ToTry |-> MeanSinr(C[j])]
<1>3. \A j \in ToTry : f[j] \in Nat /\ f[j] = MeanSinr(C[j])
  BY <1>2
<1>4. PICK n \in Nat : n = Len(C)
  BY <1>1
<1> HIDE DEF f
<1>5. \E i \in ToTry : \A j \in ToTry : f[i] > f[j] \/ (f[i] = f[j] /\ i <= j)
  <2>1. PICK T : T = ToTry
    OBVIOUS
  <2>2. T \in SUBSET (1 .. n) /\ T # {} /\ \A j \in T : f[j] \in Nat
    BY <1>1, <1>3, <1>4, <2>1
  <2>3. \E i \in T : \A j \in T : f[i] > f[j] \/ (f[i] = f[j] /\ i <= j)
    BY <2>2, FirstOfHighest
  <2> QED BY <2>1, <2>3
<1>6. \E i \in ToTry : \A j \in ToTry :
        MeanSinr(C[i]) > MeanSinr(C[j]) \/ (MeanSinr(C[i]) = MeanSinr(C[j]) /\ i <= j)
  BY <1>3, <1>5
<1>7. GetHighestSnirPacket \in ToTry
  BY <1>6 DEF GetHighestSnirPacket
<1> QED BY <1>2, <1>7

\* A packet with its fragments and marks.
Marks(b, P, d, u, i, t) ==
  [burst |-> b, ifPower |-> P, hasBeenDecoded |-> d, hasBeenUpdated |-> u,
   isInsideWindow |-> i, hasBeenTreatedInWindow |-> t]

LEMMA MarksAre ==
  ASSUME NEW b, NEW P, NEW d, NEW u, NEW i, NEW t, NEW q, q = Marks(b, P, d, u, i, t)
  PROVE  /\ q.burst = b /\ q.ifPower = P /\ q.hasBeenDecoded = d /\ q.hasBeenUpdated = u
         /\ q.isInsideWindow = i /\ q.hasBeenTreatedInWindow = t
BY PacketFields DEF Marks

LEMMA MarksTyped ==
  ASSUME NEW W, NEW b \in W, NEW P \in Seq(Fragment), NEW d, NEW u, NEW i, NEW t,
         d \in BOOLEAN, u \in BOOLEAN, i \in BOOLEAN, t \in BOOLEAN,
         NEW q, q = Marks(b, P, d, u, i, t)
  PROVE  q \in EssaPacket(W)
BY DEF Marks, EssaPacket

LEMMA PacketIs ==
  ASSUME NEW W, NEW p \in EssaPacket(W)
  PROVE  \E b, P, d, u, i, t :
           /\ p = Marks(b, P, d, u, i, t)
           /\ p.burst = b /\ p.ifPower = P /\ p.hasBeenDecoded = d
           /\ p.hasBeenUpdated = u /\ p.isInsideWindow = i /\ p.hasBeenTreatedInWindow = t
           /\ b \in W /\ P \in Seq(Fragment) /\ {d, u, i, t} \subseteq BOOLEAN
<1>1. /\ p.burst \in W /\ p.ifPower \in Seq(Fragment) /\ p.hasBeenDecoded \in BOOLEAN
      /\ p.hasBeenUpdated \in BOOLEAN /\ p.isInsideWindow \in BOOLEAN
      /\ p.hasBeenTreatedInWindow \in BOOLEAN
  BY DEF EssaPacket
<1>2. p = Marks(p.burst, p.ifPower, p.hasBeenDecoded, p.hasBeenUpdated, p.isInsideWindow,
                p.hasBeenTreatedInWindow)
  BY DEF EssaPacket, Marks
<1> QED BY <1>1, <1>2

-----------------------------------------------------------------------------
(* A turn of decoding. *)

\* The packet was not decoded.
FailedIs(B, C, i) ==
  /\ B = [j \in 1 .. Len(C) |-> B[j]]
  /\ \A j \in 1 .. Len(C) :
       /\ B[j].burst = C[j].burst /\ B[j].ifPower = C[j].ifPower
       /\ B[j].hasBeenDecoded = C[j].hasBeenDecoded /\ B[j].isInsideWindow = C[j].isInsideWindow
       /\ j = i => ~B[j].hasBeenUpdated /\ Treated(B[j])
       /\ j # i => B[j] = C[j]

\* It was, and is cancelled out of those up to a bound that it overlaps.
SicIs(B, C, i, p, bound) ==
  /\ B = [j \in 1 .. Len(C) |-> B[j]]
  /\ \A j \in 1 .. Len(C) :
       /\ B[j].burst = C[j].burst /\ B[j].isInsideWindow = C[j].isInsideWindow
       /\ j = i => B[j].hasBeenDecoded /\ ~B[j].hasBeenUpdated /\ Treated(B[j])
                   /\ B[j].ifPower = C[j].ifPower
       /\ j # i /\ j <= bound /\ ~C[j].hasBeenDecoded /\ Overlap(C[j].burst, p) =>
            /\ B[j].ifPower = Without(C[j].ifPower, p) /\ B[j].hasBeenUpdated
            /\ ~B[j].hasBeenDecoded /\ B[j].hasBeenTreatedInWindow = C[j].hasBeenTreatedInWindow
       /\ j # i /\ ~(j <= bound /\ ~C[j].hasBeenDecoded /\ Overlap(C[j].burst, p)) => B[j] = C[j]

\* A packet that is tried gets its marks.
TriedPacket(p) ==
  [p EXCEPT !.hasBeenTreatedInWindow = TRUE, !.hasBeenUpdated = FALSE, !.hasBeenDecoded = TRUE]
FailedPacket(p) == [p EXCEPT !.hasBeenTreatedInWindow = TRUE, !.hasBeenUpdated = FALSE]
UpdatedPacket(p, Q) == [p EXCEPT !.ifPower = Q, !.hasBeenUpdated = TRUE]

\* A packet q that is the packet p with other fragments and marks.
Remarked(q, p, W, P, d, u, t) ==
  /\ q \in EssaPacket(W) /\ q.burst = p.burst /\ q.ifPower = P /\ q.hasBeenDecoded = d
  /\ q.hasBeenUpdated = u /\ q.isInsideWindow = p.isInsideWindow
  /\ q.hasBeenTreatedInWindow = t

LEMMA TriedMarks ==
  ASSUME NEW W, NEW p \in EssaPacket(W), NEW q, q = TriedPacket(p)
  PROVE  Remarked(q, p, W, p.ifPower, TRUE, FALSE, TRUE)
<1>1. PICK b, P, d, u, i, t :
        p = Marks(b, P, d, u, i, t) /\ p.burst = b /\ p.ifPower = P /\ p.isInsideWindow = i
        /\ b \in W /\ P \in Seq(Fragment) /\ {d, u, i, t} \subseteq BOOLEAN
  BY PacketIs
<1>2. q = Marks(b, P, TRUE, FALSE, i, TRUE)
  BY <1>1 DEF Marks, TriedPacket
<1>3. /\ q \in EssaPacket(W) /\ q.burst = b /\ q.ifPower = P /\ q.hasBeenDecoded = TRUE
      /\ q.hasBeenUpdated = FALSE /\ q.isInsideWindow = i /\ q.hasBeenTreatedInWindow = TRUE
  <2>1. PICK no, yes : no = FALSE /\ yes = TRUE
    OBVIOUS
  <2>2. q = Marks(b, P, yes, no, i, yes)
    BY <1>2, <2>1
  <2>3. /\ q.burst = b /\ q.ifPower = P /\ q.hasBeenDecoded = yes
        /\ q.hasBeenUpdated = no /\ q.isInsideWindow = i /\ q.hasBeenTreatedInWindow = yes
    BY <2>2, MarksAre
  <2>4. yes \in BOOLEAN /\ no \in BOOLEAN /\ i \in BOOLEAN
    BY <1>1, <2>1
  <2>5. b \in W /\ P \in Seq(Fragment)
    BY <1>1
  <2>6. q \in EssaPacket(W)
    BY <2>2, <2>4, <2>5, MarksTyped
  <2> QED BY <2>1, <2>3, <2>6
<1> QED BY <1>1, <1>3 DEF Remarked

LEMMA FailedMarks ==
  ASSUME NEW W, NEW p \in EssaPacket(W), NEW q,
         q = FailedPacket(p)
  PROVE  Remarked(q, p, W, p.ifPower, p.hasBeenDecoded, FALSE, TRUE)
<1>1. PICK b, P, d, u, i, t :
        /\ p = Marks(b, P, d, u, i, t) /\ p.burst = b /\ p.ifPower = P /\ p.isInsideWindow = i
        /\ p.hasBeenDecoded = d
        /\ b \in W /\ P \in Seq(Fragment) /\ {d, u, i, t} \subseteq BOOLEAN
  BY PacketIs
<1>2. q = Marks(b, P, d, FALSE, i, TRUE)
  BY <1>1 DEF Marks, FailedPacket
<1>3. /\ q \in EssaPacket(W) /\ q.burst = b /\ q.ifPower = P /\ q.hasBeenDecoded = d
      /\ q.hasBeenUpdated = FALSE /\ q.isInsideWindow = i /\ q.hasBeenTreatedInWindow = TRUE
  <2>1. PICK no, yes : no = FALSE /\ yes = TRUE
    OBVIOUS
  <2>2. q = Marks(b, P, d, no, i, yes)
    BY <1>2, <2>1
  <2>3. /\ q.burst = b /\ q.ifPower = P /\ q.hasBeenDecoded = d
        /\ q.hasBeenUpdated = no /\ q.isInsideWindow = i /\ q.hasBeenTreatedInWindow = yes
    BY <2>2, MarksAre
  <2>4. d \in BOOLEAN /\ no \in BOOLEAN /\ i \in BOOLEAN /\ yes \in BOOLEAN
    BY <1>1, <2>1
  <2>5. b \in W /\ P \in Seq(Fragment)
    BY <1>1
  <2>6. q \in EssaPacket(W)
    BY <2>2, <2>4, <2>5, MarksTyped
  <2> QED BY <2>1, <2>3, <2>6
<1> QED BY <1>1, <1>3 DEF Remarked

LEMMA WithoutMarks ==
  ASSUME NEW W, NEW p \in EssaPacket(W), NEW Q \in Seq(Fragment), NEW q,
         q = UpdatedPacket(p, Q)
  PROVE  Remarked(q, p, W, Q, p.hasBeenDecoded, TRUE, p.hasBeenTreatedInWindow)
<1>1. PICK b, P, d, u, i, t :
        /\ p = Marks(b, P, d, u, i, t) /\ p.burst = b /\ p.ifPower = P /\ p.isInsideWindow = i
        /\ p.hasBeenDecoded = d /\ p.hasBeenTreatedInWindow = t
        /\ b \in W /\ P \in Seq(Fragment) /\ {d, u, i, t} \subseteq BOOLEAN
  BY PacketIs
<1>2. q = Marks(b, Q, d, TRUE, i, t)
  BY <1>1 DEF Marks, UpdatedPacket
<1>3. /\ q \in EssaPacket(W) /\ q.burst = b /\ q.ifPower = Q /\ q.hasBeenDecoded = d
      /\ q.hasBeenUpdated = TRUE /\ q.isInsideWindow = i /\ q.hasBeenTreatedInWindow = t
  <2>1. PICK no, yes : no = FALSE /\ yes = TRUE
    OBVIOUS
  <2>2. q = Marks(b, Q, d, yes, i, t)
    BY <1>2, <2>1
  <2>3. /\ q.burst = b /\ q.ifPower = Q /\ q.hasBeenDecoded = d
        /\ q.hasBeenUpdated = yes /\ q.isInsideWindow = i /\ q.hasBeenTreatedInWindow = t
    BY <2>2, MarksAre
  <2>4. d \in BOOLEAN /\ yes \in BOOLEAN /\ i \in BOOLEAN /\ t \in BOOLEAN
    BY <1>1, <2>1
  <2>5. b \in W /\ Q \in Seq(Fragment)
    BY <1>1
  <2>6. q \in EssaPacket(W)
    BY <2>2, <2>4, <2>5, MarksTyped
  <2> QED BY <2>1, <2>3, <2>6
<1> QED BY <1>1, <1>3 DEF Remarked

\* Fragments with less power are fragments.
LEMMA WithoutType ==
  ASSUME NEW P \in Seq(Fragment), NEW b, RxPower[b.sender] \in Nat
  PROVE  Without(P, b) \in Seq(Fragment)
<1>1. PICK n \in Nat : n = Len(P)
  OBVIOUS
<1>2. PICK Q : Q = Without(P, b)
  OBVIOUS
<1>3. ASSUME NEW g \in Fragment PROVE [g EXCEPT !.power = g.power - RxPower[b.sender]] \in Fragment
  <2>1. g.power \in Int /\ g.power - RxPower[b.sender] \in Int
    BY DEF Fragment
  <2> QED BY <2>1 DEF Fragment
<1>4. DOMAIN P = 1 .. n /\ \A i \in 1 .. n : P[i] \in Fragment
  BY <1>1
<1>5. Q = [i \in 1 .. n |-> IF EndsIn(P[i], b) THEN [P[i] EXCEPT !.power = P[i].power - RxPower[b.sender]]
                             ELSE P[i]]
  BY <1>2, <1>4 DEF Without
<1>6. Q \in [1 .. n -> Fragment]
  <2>1. ASSUME NEW i \in 1 .. n PROVE Q[i] \in Fragment
    <3>1. CASE EndsIn(P[i], b)
      <4>1. [P[i] EXCEPT !.power = P[i].power - RxPower[b.sender]] \in Fragment
        BY <1>3, <1>4
      <4> QED BY <1>5, <3>1, <4>1
    <3>2. CASE ~EndsIn(P[i], b)
      BY <1>4, <1>5, <3>2
    <3> QED BY <3>1, <3>2
  <2> QED BY <1>5, <2>1
<1> QED BY <1>2, <1>6

FailedAt(C, i) == [C EXCEPT ![i].hasBeenTreatedInWindow = TRUE, ![i].hasBeenUpdated = FALSE]

LEMMA FailedChange ==
  ASSUME NEW C, NEW W, Listed(C, W), NEW i \in 1 .. Len(C), C[i].isInsideWindow, NEW B,
         B = FailedAt(C, i)
  PROVE  FailedIs(B, C, i) /\ Listed(B, W) /\ Len(B) = Len(C)
<1>1. PICK n \in Nat : n = Len(C) /\ DOMAIN C = 1 .. n /\ \A j \in 1 .. n : C[j] \in EssaPacket(W)
  BY ListedMember
<1>2. C = [j \in 1 .. n |-> C[j]]
  <2>1. C \in Seq(EssaPacket(W))
    BY DEF Listed
  <2> QED BY <1>1, <2>1
<1>3. B = [j \in 1 .. n |-> IF j = i THEN FailedPacket(C[i]) ELSE C[j]]
  BY <1>1, <1>2 DEF FailedPacket, FailedAt
<1>4. PICK p \in EssaPacket(W) : p = C[i]
  BY <1>1
<1>5. PICK q : q = FailedPacket(p)
  OBVIOUS
<1>6. /\ q \in EssaPacket(W) /\ q.burst = p.burst /\ q.ifPower = p.ifPower
      /\ q.hasBeenDecoded = p.hasBeenDecoded
      /\ q.hasBeenUpdated = FALSE /\ q.isInsideWindow = p.isInsideWindow
      /\ q.hasBeenTreatedInWindow = TRUE
  <2>1. Remarked(q, p, W, p.ifPower, p.hasBeenDecoded, FALSE, TRUE)
    BY <1>5, FailedMarks
  <2> QED BY <2>1 DEF Remarked
<1>7. B[i] = q /\ \A j \in 1 .. n : j # i => B[j] = C[j]
  BY <1>1, <1>3, <1>4, <1>5
<1>8. B = [j \in 1 .. n |-> B[j]]
  BY <1>3
<1>9. ~q.hasBeenUpdated /\ Treated(q)
  BY <1>4, <1>6 DEF Treated
<1> HIDE DEF FailedPacket
<1>10. \A j \in 1 .. n : B[j] \in EssaPacket(W) /\ B[j].burst = C[j].burst
  BY <1>1, <1>4, <1>6, <1>7
<1>11. Listed(B, W) /\ Len(B) = Len(C)
  BY <1>1, <1>8, <1>10, ListedSame
<1>12. FailedIs(B, C, i)
  BY <1>1, <1>4, <1>6, <1>7, <1>8, <1>9 DEF FailedIs
<1> QED BY <1>11, <1>12

LEMMA SicChange ==
  ASSUME NEW W, Listed(m_essaPacketContainer, W), \A b \in W : BurstOk(b),
         NEW i \in 1 .. Len(m_essaPacketContainer), m_essaPacketContainer[i].isInsideWindow,
         NEW B, B = DoSic(i)
  PROVE  /\ SicIs(B, m_essaPacketContainer, i, m_essaPacketContainer[i].burst, windowBounds)
         /\ Listed(B, W) /\ Len(B) = Len(m_essaPacketContainer)
<1>1. PICK C : C = m_essaPacketContainer
  OBVIOUS
<1>2. PICK n \in Nat : n = Len(C) /\ DOMAIN C = 1 .. n
  BY <1>1, ListedMember
<1>3. \A j \in 1 .. n : C[j] \in EssaPacket(W) /\ C[j].burst \in W /\ C[j].ifPower \in Seq(Fragment)
                        /\ C[j].hasBeenDecoded \in BOOLEAN
  BY <1>1, <1>2, ListedMember
<1>4. PICK x : x = C[i].burst
  OBVIOUS
<1>5. RxPower[x.sender] \in Nat
  BY <1>1, <1>2, <1>3, <1>4, CarrierAssumption DEF BurstOk
<1>6. B = [j \in 1 .. n |->
             IF j = i THEN TriedPacket(C[j])
             ELSE IF j <= windowBounds /\ ~C[j].hasBeenDecoded /\ Overlap(C[j].burst, x)
             THEN UpdatedPacket(C[j], Without(C[j].ifPower, x))
             ELSE C[j]]
  BY <1>1, <1>2, <1>4 DEF DoSic, TriedPacket, UpdatedPacket
<1>7. ASSUME NEW j \in 1 .. n
      PROVE  /\ B[j] \in EssaPacket(W)
             /\ B[j].burst = C[j].burst /\ B[j].isInsideWindow = C[j].isInsideWindow
             /\ j = i => B[j].hasBeenDecoded /\ ~B[j].hasBeenUpdated /\ Treated(B[j])
                         /\ B[j].ifPower = C[j].ifPower
             /\ j # i /\ j <= windowBounds /\ ~C[j].hasBeenDecoded /\ Overlap(C[j].burst, x) =>
                  /\ B[j].ifPower = Without(C[j].ifPower, x) /\ B[j].hasBeenUpdated
                  /\ ~B[j].hasBeenDecoded /\ B[j].hasBeenTreatedInWindow = C[j].hasBeenTreatedInWindow
             /\ j # i /\ ~(j <= windowBounds /\ ~C[j].hasBeenDecoded /\ Overlap(C[j].burst, x)) =>
                  B[j] = C[j]
  <2>1. PICK p \in EssaPacket(W) : p = C[j]
    BY <1>3
  <2>2. PICK q : q = B[j]
    OBVIOUS
  <2>3. CASE j = i
    <3>1. q = TriedPacket(p)
      BY <1>6, <2>1, <2>2, <2>3
    <3>2. /\ q \in EssaPacket(W) /\ q.burst = p.burst /\ q.ifPower = p.ifPower /\ q.hasBeenDecoded = TRUE
          /\ q.hasBeenUpdated = FALSE /\ q.isInsideWindow = p.isInsideWindow
          /\ q.hasBeenTreatedInWindow = TRUE
      <4>1. Remarked(q, p, W, p.ifPower, TRUE, FALSE, TRUE)
        BY <3>1, TriedMarks
      <4> QED BY <4>1 DEF Remarked
    <3>3. p.isInsideWindow
      BY <1>1, <2>1, <2>3
    <3> QED BY <2>1, <2>2, <2>3, <3>2, <3>3 DEF Treated
  <2>4. CASE j # i /\ j <= windowBounds /\ ~C[j].hasBeenDecoded /\ Overlap(C[j].burst, x)
    <3>1. PICK Q \in Seq(Fragment) : Q = Without(p.ifPower, x)
      BY <1>3, <1>5, <2>1, WithoutType
    <3>2. q = UpdatedPacket(p, Q)
      BY <1>6, <2>1, <2>2, <2>4, <3>1
    <3>3. /\ q \in EssaPacket(W) /\ q.burst = p.burst /\ q.ifPower = Q
          /\ q.hasBeenDecoded = p.hasBeenDecoded
          /\ q.hasBeenUpdated = TRUE /\ q.isInsideWindow = p.isInsideWindow
          /\ q.hasBeenTreatedInWindow = p.hasBeenTreatedInWindow
      <4>1. Remarked(q, p, W, Q, p.hasBeenDecoded, TRUE, p.hasBeenTreatedInWindow)
        BY <3>2, WithoutMarks
      <4> QED BY <4>1 DEF Remarked
    <3> QED BY <2>1, <2>2, <2>4, <3>1, <3>3
  <2>5. CASE j # i /\ ~(j <= windowBounds /\ ~C[j].hasBeenDecoded /\ Overlap(C[j].burst, x))
    BY <1>3, <1>6, <2>5
  <2> QED BY <2>3, <2>4, <2>5
<1>8. B = [j \in 1 .. n |-> B[j]]
  BY <1>6
<1>9. Listed(B, W) /\ Len(B) = Len(C)
  BY <1>1, <1>2, <1>7, <1>8, ListedSame
<1>10. SicIs(B, C, i, x, windowBounds)
  BY <1>2, <1>7, <1>8 DEF SicIs
<1> QED BY <1>1, <1>4, <1>9, <1>10

\* Packets keep their places and whether they are in the window, and none of
\* those decoded goes.
LEMMA KeptSame ==
  ASSUME NEW C, NEW W, NEW D, NEW t, Kept(C, W, D, t), NEW B, Len(B) = Len(C),
         \A j \in 1 .. Len(C) : B[j].burst = C[j].burst /\ B[j].isInsideWindow = C[j].isInsideWindow,
         NEW E, E \subseteq W, \A b \in E : b \in D \/ \E j \in 1 .. Len(C) : C[j].burst = b
  PROVE  Kept(B, W, E, t)
<1>1. ASSUME NEW b \in E
      PROVE  (\E j \in 1 .. Len(B) : B[j].burst = b) \/ b.end + m_windowDelay + m_windowDuration <= t
  <2>1. CASE \E j \in 1 .. Len(C) : C[j].burst = b
    BY <2>1
  <2>2. CASE ~\E j \in 1 .. Len(C) : C[j].burst = b
    BY <2>2 DEF Kept
  <2> QED BY <2>1, <2>2
<1>2. \A j \in 1 .. Len(B) : B[j].isInsideWindow => B[j].burst.end + m_windowDelay <= t
  BY DEF Kept
<1> QED BY <1>1, <1>2 DEF Kept

LEMMA LooksSame ==
  ASSUME NEW C, NEW bound, NEW t, LooksAt(C, bound, t), NEW B, Len(B) = Len(C),
         \A j \in 1 .. Len(C) : B[j].burst = C[j].burst
  PROVE  LooksAt(B, bound, t)
BY DEF LooksAt

\* The packet fails.
LEMMA FailedOk ==
  ASSUME NEW C, NEW H, NEW W, NEW D, NEW t, EssaKnows(C, H, W, D, t),
         \A j \in 1 .. Len(C) : NotNegative(C[j]), NEW bound, LooksAt(C, bound, t),
         NEW i \in 1 .. bound, ~C[i].hasBeenDecoded, C[i].isInsideWindow,
         GetEffectiveSnir(C[i]) < SinrAlways, NEW B, B = FailedAt(C, i)
  PROVE  /\ EssaKnows(B, H, W, D, t) /\ LooksAt(B, bound, t)
         /\ \A j \in 1 .. Len(B) : NotNegative(B[j])
         /\ DecodedNow(B, bound) = DecodedNow(C, bound)
<1>1. /\ Listed(C, W) /\ Kept(C, W, D, t) /\ Len(C) \in Nat /\ bound \in 0 .. Len(C)
      /\ \A j \in 1 .. Len(C) : JudgedEssa(C[j], H, D)
  BY ListedMember DEF EssaKnows, LooksAt
<1>2. i \in 1 .. Len(C) /\ \A j \in 1 .. bound : j \in 1 .. Len(C)
  BY <1>1
<1>3. FailedIs(B, C, i) /\ Listed(B, W) /\ Len(B) = Len(C)
  BY <1>1, <1>2, FailedChange
<1>4. ASSUME NEW j \in 1 .. Len(C)
      PROVE  /\ B[j].burst = C[j].burst /\ B[j].ifPower = C[j].ifPower
             /\ B[j].hasBeenDecoded = C[j].hasBeenDecoded /\ B[j].isInsideWindow = C[j].isInsideWindow
             /\ j = i => ~B[j].hasBeenUpdated /\ Treated(B[j])
             /\ j # i => B[j] = C[j]
  BY <1>3 DEF FailedIs
<1>5. ASSUME NEW j \in 1 .. Len(C) PROVE JudgedEssa(B[j], H, D) /\ NotNegative(B[j])
  <2>1. CASE j # i
    BY <1>1, <1>4, <2>1
  <2>2. CASE j = i
    <3>1. PICK p : p = C[i]
      OBVIOUS
    <3>2. PICK q : q = B[i]
      OBVIOUS
    <3>3. /\ q.burst = p.burst /\ q.ifPower = p.ifPower /\ q.hasBeenDecoded = p.hasBeenDecoded
          /\ JudgedEssa(p, H, D) /\ NotNegative(p) /\ GetEffectiveSnir(p) < SinrAlways
      BY <1>1, <1>2, <1>4, <3>1, <3>2
    <3>4. GetEffectiveSnir(q) = GetEffectiveSnir(p) /\ (NotNegative(q) <=> NotNegative(p))
      BY <3>3, SnirSame
    <3>5. JudgedEssa(q, H, D)
      BY <3>3, <3>4 DEF JudgedEssa
    <3> QED BY <2>2, <3>2, <3>3, <3>4, <3>5
  <2> QED BY <2>1, <2>2
<1>6. Kept(B, W, D, t)
  <2>1. D \subseteq W /\ \A b \in D : b \in D \/ \E j \in 1 .. Len(C) : C[j].burst = b
    BY <1>1 DEF Kept
  <2> QED BY <1>1, <1>3, <1>4, <2>1, KeptSame
<1>7. LooksAt(B, bound, t)
  BY <1>3, <1>4, LooksSame
<1>8. EssaKnows(B, H, W, D, t)
  BY <1>3, <1>5, <1>6 DEF EssaKnows
<1>9. ASSUME NEW j \in 1 .. bound
      PROVE  Treated(B[j]) /\ B[j].hasBeenDecoded <=> Treated(C[j]) /\ C[j].hasBeenDecoded
  <2>1. CASE j = i
    BY <1>2, <1>4, <2>1
  <2>2. CASE j # i
    BY <1>2, <1>4, <2>2
  <2> QED BY <2>1, <2>2
<1>10. DecodedNow(B, bound) = DecodedNow(C, bound)
  <2>1. DecodedNow(B, bound) \subseteq DecodedNow(C, bound)
    <3>1. ASSUME NEW b \in DecodedNow(B, bound) PROVE b \in DecodedNow(C, bound)
      <4>1. PICK j \in 1 .. bound : Treated(B[j]) /\ B[j].hasBeenDecoded /\ b = B[j].burst
        BY DEF DecodedNow
      <4>2. Treated(C[j]) /\ C[j].hasBeenDecoded /\ b = C[j].burst
        BY <1>2, <1>4, <1>9, <4>1
      <4> QED BY <4>2 DEF DecodedNow
    <3> QED BY <3>1
  <2>2. DecodedNow(C, bound) \subseteq DecodedNow(B, bound)
    <3>1. ASSUME NEW b \in DecodedNow(C, bound) PROVE b \in DecodedNow(B, bound)
      <4>1. PICK j \in 1 .. bound : Treated(C[j]) /\ C[j].hasBeenDecoded /\ b = C[j].burst
        BY DEF DecodedNow
      <4>2. Treated(B[j]) /\ B[j].hasBeenDecoded /\ b = B[j].burst
        BY <1>2, <1>4, <1>9, <4>1
      <4> QED BY <4>2 DEF DecodedNow
    <3> QED BY <3>1
  <2> QED BY <2>1, <2>2
<1> QED BY <1>3, <1>5, <1>7, <1>8, <1>10

\* The packet is decoded and cancelled out of the others.
SicRight(B, C, bound, H, W, D, x, t) ==
  /\ EssaKnows(B, H, W, D \cup {x}, t) /\ LooksAt(B, bound, t) /\ x \notin D
  /\ \A j \in 1 .. Len(B) : NotNegative(B[j])
                            \/ ExactFragments(H, B[j].ifPower, B[j].burst, D \cup {x})
  /\ DecodedNow(B, bound) = DecodedNow(C, bound) \cup {x}

LEMMA SicOk ==
  ASSUME NEW C, C = m_essaPacketContainer, NEW H, IsFiniteSet(H), \A b \in H : BurstOk(b),
         NEW W, W \subseteq H, NEW D, NEW t \in Nat, EssaKnows(C, H, W, D, t),
         \A j \in 1 .. Len(C) : NotNegative(C[j]), LooksAt(C, windowBounds, t),
         NEW i \in 1 .. windowBounds, ~C[i].hasBeenDecoded, C[i].isInsideWindow,
         NEW x, x = C[i].burst, NEW B, B = DoSic(i)
  PROVE  SicRight(B, C, windowBounds, H, W, D, x, t)
<1> DEFINE bound == windowBounds
<1>1. /\ Listed(C, W) /\ Kept(C, W, D, t) /\ Len(C) \in Nat /\ bound \in 0 .. Len(C)
      /\ \A j \in 1 .. Len(C) : JudgedEssa(C[j], H, D)
  BY ListedMember DEF EssaKnows, LooksAt
<1>2. i \in 1 .. Len(C) /\ \A j \in 1 .. bound : j \in 1 .. Len(C)
  BY <1>1
<1>3. SicIs(B, C, i, x, bound) /\ Listed(B, W) /\ Len(B) = Len(C)
  <2>1. \A b \in W : BurstOk(b)
    OBVIOUS
  <2> QED BY <1>1, <1>2, <2>1, SicChange
<1>4. x \in W /\ x \in H /\ x \notin D /\ BurstOk(x) /\ x.end + m_windowDelay <= t
  <2>1. JudgedEssa(C[i], H, D) /\ x \in W
    BY <1>1, <1>2, ListedMember
  <2> QED BY <1>1, <1>2, <2>1 DEF JudgedEssa, Kept
<1>5. PICK d \in Nat : d = m_windowDelay
  BY WindowTimes
<1>6. ASSUME NEW j \in 1 .. Len(C)
      PROVE  /\ B[j].burst = C[j].burst /\ B[j].isInsideWindow = C[j].isInsideWindow
             /\ j = i => B[j].hasBeenDecoded /\ Treated(B[j]) /\ B[j].ifPower = C[j].ifPower
             /\ j # i => C[j].burst # x
             /\ j # i /\ C[j].hasBeenDecoded => B[j] = C[j]
             /\ j # i /\ ~C[j].hasBeenDecoded => ~B[j].hasBeenDecoded
  BY <1>1, <1>2, <1>3 DEF SicIs, Listed
<1>7. ASSUME NEW j \in 1 .. Len(C), j # i, ~C[j].hasBeenDecoded
      PROVE  ExactFragments(H, B[j].ifPower, B[j].burst, D \cup {x}) /\ JudgedEssa(B[j], H, D \cup {x})
  <2>1. PICK p : p = C[j]
    OBVIOUS
  <2>2. PICK q : q = B[j]
    OBVIOUS
  <2>3. PICK e : e = p.burst
    OBVIOUS
  <2>4. e \in W /\ JudgedEssa(p, H, D) /\ ~p.hasBeenDecoded /\ q.burst = e /\ e # x /\ ~q.hasBeenDecoded
    BY <1>1, <1>6, <1>7, <2>1, <2>2, <2>3, ListedMember
  <2>5. e \notin D /\ e \in H /\ BurstOk(e) /\ ExactFragments(H, p.ifPower, e, D)
    BY <2>3, <2>4 DEF JudgedEssa
  <2>6. x \in H \ (D \cup {e})
    BY <1>4, <2>4
  <2>7. PICK P : P = p.ifPower
    OBVIOUS
  <2>8. CASE j <= bound /\ Overlap(e, x)
    <3>1. q.ifPower = Without(P, x) /\ q.hasBeenUpdated
      BY <1>3, <1>7, <2>1, <2>2, <2>3, <2>7, <2>8 DEF SicIs
    <3>2. PICK Q : Q = q.ifPower
      OBVIOUS
    <3>3. Q = IF Overlap(e, x) THEN Without(P, x) ELSE P
      BY <2>8, <3>1, <3>2
    <3>4. ExactFragments(H, P, e, D)
      BY <2>5, <2>7
    <3>5. ExactFragments(H, Q, e, D \cup {x})
      BY <2>5, <2>6, <3>3, <3>4, ExactWithout
    <3>6. ExactFragments(H, q.ifPower, q.burst, D \cup {x})
      BY <2>4, <3>2, <3>5
    <3>7. q.burst \notin D \cup {x}
      BY <2>4, <2>5
    <3> QED BY <2>2, <2>4, <3>1, <3>6, <3>7 DEF JudgedEssa
  <2>9. CASE ~(j <= bound /\ Overlap(e, x))
    <3>1. q = p
      BY <1>3, <1>7, <2>1, <2>2, <2>3, <2>9 DEF SicIs
    <3>2. ~Overlap(e, x)
      <4>1. CASE j <= bound
        BY <2>9, <4>1
      <4>2. CASE ~(j <= bound)
        <5>1. ~(e.start + m_windowDelay <= t)
          BY <2>1, <2>3, <4>2 DEF LooksAt
        <5>2. e.start \in Nat /\ x.end \in Nat
          BY <1>4, <2>5 DEF BurstOk
        <5>3. PICK y \in Nat : y = e.start
          BY <5>2
        <5>4. PICK z \in Nat : z = x.end
          BY <5>2
        <5>5. ~(y + d <= t) /\ z + d <= t
          BY <1>4, <1>5, <5>1, <5>3, <5>4
        <5>6. ~(y < z)
          BY <5>5
        <5> QED BY <5>3, <5>4, <5>6 DEF Overlap
      <4> QED BY <4>1, <4>2
    <3>3. ExactFragments(H, P, e, D)
      BY <2>5, <2>7
    <3>4. P = IF Overlap(e, x) THEN Without(P, x) ELSE P
      BY <3>2
    <3>5. ExactFragments(H, P, e, D \cup {x})
      BY <2>5, <2>6, <3>3, <3>4, ExactWithout
    <3>6. ExactFragments(H, q.ifPower, q.burst, D \cup {x})
      BY <2>4, <2>7, <3>1, <3>5
    <3>7. q.burst \notin D \cup {x}
      BY <2>4, <2>5
    <3> QED BY <2>2, <2>4, <3>1, <3>6, <3>7 DEF JudgedEssa
  <2> QED BY <2>8, <2>9
<1>8. ASSUME NEW j \in 1 .. Len(C)
      PROVE  /\ JudgedEssa(B[j], H, D \cup {x})
             /\ NotNegative(B[j]) \/ ExactFragments(H, B[j].ifPower, B[j].burst, D \cup {x})
  <2>1. PICK p : p = C[j]
    OBVIOUS
  <2>2. PICK q : q = B[j]
    OBVIOUS
  <2>3. JudgedEssa(p, H, D) /\ NotNegative(p)
    BY <1>1, <2>1
  <2>4. CASE j # i /\ ~C[j].hasBeenDecoded
    BY <1>7, <2>4
  <2>5. CASE j # i /\ C[j].hasBeenDecoded
    <3>1. q = p /\ p.hasBeenDecoded
      BY <1>6, <2>1, <2>2, <2>5
    <3>2. JudgedEssa(q, H, D \cup {x})
      BY <2>3, <3>1 DEF JudgedEssa
    <3> QED BY <2>2, <2>3, <3>1, <3>2
  <2>6. CASE j = i
    <3>1. /\ q.burst = x /\ q.hasBeenDecoded /\ q.ifPower = p.ifPower /\ q.burst = p.burst
      BY <1>6, <2>1, <2>2, <2>6
    <3>2. JudgedEssa(q, H, D \cup {x})
      BY <3>1 DEF JudgedEssa
    <3>3. NotNegative(q)
      BY <2>3, <3>1, SnirSame
    <3> QED BY <2>2, <3>2, <3>3
  <2> QED BY <2>4, <2>5, <2>6
<1>9. Kept(B, W, D \cup {x}, t)
  <2>1. PICK E : E = D \cup {x}
    OBVIOUS
  <2>2. E \subseteq W /\ \A b \in E : b \in D \/ \E j \in 1 .. Len(C) : C[j].burst = b
    BY <1>1, <1>2, <1>4, <2>1 DEF Kept
  <2>3. \A j \in 1 .. Len(C) : B[j].burst = C[j].burst /\ B[j].isInsideWindow = C[j].isInsideWindow
    BY <1>6
  <2>4. Kept(B, W, E, t)
    BY <1>1, <1>3, <2>2, <2>3, KeptSame
  <2> QED BY <2>1, <2>4
<1>10. LooksAt(B, windowBounds, t)
  BY <1>3, <1>6, LooksSame
<1>11. EssaKnows(B, H, W, D \cup {x}, t)
  BY <1>3, <1>8, <1>9 DEF EssaKnows
<1>12. ASSUME NEW j \in 1 .. bound, j # i
       PROVE  Treated(B[j]) /\ B[j].hasBeenDecoded <=> Treated(C[j]) /\ C[j].hasBeenDecoded
  BY <1>2, <1>6, <1>12
<1>13. DecodedNow(B, bound) = DecodedNow(C, bound) \cup {x}
  <2>1. ASSUME NEW b \in DecodedNow(B, bound) PROVE b \in DecodedNow(C, bound) \cup {x}
    <3>1. PICK j \in 1 .. bound : Treated(B[j]) /\ B[j].hasBeenDecoded /\ b = B[j].burst
      BY DEF DecodedNow
    <3>2. CASE j = i
      BY <1>2, <1>6, <3>1, <3>2
    <3>3. CASE j # i
      <4>1. Treated(C[j]) /\ C[j].hasBeenDecoded /\ b = C[j].burst
        BY <1>2, <1>6, <1>12, <3>1, <3>3
      <4> QED BY <4>1 DEF DecodedNow
    <3> QED BY <3>2, <3>3
  <2>2. ASSUME NEW b \in DecodedNow(C, bound) PROVE b \in DecodedNow(B, bound)
    <3>1. PICK j \in 1 .. bound : Treated(C[j]) /\ C[j].hasBeenDecoded /\ b = C[j].burst
      BY DEF DecodedNow
    <3>2. Treated(B[j]) /\ B[j].hasBeenDecoded /\ b = B[j].burst
      BY <1>2, <1>6, <1>12, <3>1
    <3> QED BY <3>2 DEF DecodedNow
  <2>3. x \in DecodedNow(B, bound)
    <3>1. Treated(B[i]) /\ B[i].hasBeenDecoded /\ x = B[i].burst
      BY <1>2, <1>6
    <3> QED BY <3>1 DEF DecodedNow
  <2> QED BY <2>1, <2>2, <2>3
<1> QED BY <1>3, <1>4, <1>8, <1>10, <1>11, <1>13 DEF SicRight

LEMMA EssaDecodesOk ==
  ASSUME EssaInv, ~negativeInterference, DecodeTurn, UNCHANGED frameVars
  PROVE  EssaInv'
<1>1. PICK C : C = m_essaPacketContainer
  OBVIOUS
<1>2. PICK W : W = Own \ Receiving
  OBVIOUS
<1>3. PICK B : B = m_essaPacketContainer'
  OBVIOUS
<1>4. PICK i : i = GetHighestSnirPacket
  OBVIOUS
<1>5. /\ windowPhase = "decode" /\ ToTry # {}
      /\ UNCHANGED <<carrierVars, nextWindowEnd, pendingWindows, windowBounds, windowPhase>>
  BY DEF DecodeTurn
<1>6. PICK phyError \in LinkErrors(GetEffectiveSnir(C[i])) :
        IF phyError
        THEN B = FailedAt(C, i) /\ UNCHANGED <<negativeInterference, decoded>>
        ELSE B = DoSic(i) /\ negativeInterference' = HasNegative(B) /\ decoded' = decoded \cup {C[i].burst}
  BY <1>1, <1>3, <1>4 DEF DecodeTurn, FailedAt
<1>7. /\ EssaCarrier /\ IsFiniteSet(bursts) /\ now \in Nat
      /\ EssaKnows(C, bursts, W, decoded, now)
      /\ LooksAt(C, windowBounds, now)
      /\ HandedRight(handedUp, Own, decoded \ DecodedNow(C, windowBounds))
      /\ \A j \in 1 .. Len(C) : NotNegative(C[j])
      /\ W \subseteq bursts
      /\ \A b \in bursts : BurstOk(b)
  BY <1>1, <1>2, <1>5, WhileDecoding
<1>8. i \in ToTry /\ GetEffectiveSnir(C[i]) \in Int
  BY <1>1, <1>4, <1>5, HighestIs
<1>9. i \in 1 .. windowBounds /\ ~C[i].hasBeenDecoded /\ C[i].isInsideWindow
  BY <1>1, <1>8 DEF ToTry
<1>10. /\ EssaCarrier' /\ bursts' = bursts /\ now' = now /\ handedUp' = handedUp
       /\ Own' = Own /\ Receiving' = Receiving
  BY <1>5, <1>7, CarrierStays
<1>11. EssaIdle' /\ nextWindowEnd' \in Nat /\ pendingWindows' \in Seq(Nat)
  BY <1>5, IdleSame DEF EssaInv
<1>12. /\ EssaKnows(B, bursts, W, decoded', now) /\ LooksAt(B, windowBounds, now)
       /\ HandedRight(handedUp, Own, decoded' \ DecodedNow(B, windowBounds))
       /\ NegativeOk(B, bursts, negativeInterference')
  <2>1. CASE phyError
    <3>1. B = FailedAt(C, i) /\ negativeInterference' = negativeInterference /\ decoded' = decoded
      BY <1>6, <2>1
    <3>2. GetEffectiveSnir(C[i]) < SinrAlways
      <4>1. PICK s \in Int : s = GetEffectiveSnir(C[i])
        BY <1>8
      <4>2. TRUE \in LinkErrors(s)
        <5>1. phyError \in LinkErrors(s) /\ LinkErrors(s) \subseteq BOOLEAN
          BY <4>1 DEF LinkErrors
        <5> QED BY <2>1, <5>1
      <4> QED BY <4>1, <4>2, ErrorOf
    <3>3. /\ EssaKnows(B, bursts, W, decoded, now) /\ LooksAt(B, windowBounds, now)
          /\ \A j \in 1 .. Len(B) : NotNegative(B[j])
          /\ DecodedNow(B, windowBounds) = DecodedNow(C, windowBounds)
      BY <1>7, <1>9, <3>1, <3>2, FailedOk
    <3>4. NegativeOk(B, bursts, negativeInterference)
      BY <3>3 DEF EssaInv, NegativeOk
    <3> QED BY <1>7, <3>1, <3>3, <3>4
  <2>2. CASE ~phyError
    <3>1. PICK x : x = C[i].burst
      OBVIOUS
    <3>2. B = DoSic(i) /\ negativeInterference' = HasNegative(B) /\ decoded' = decoded \cup {x}
      BY <1>6, <2>2, <3>1
    <3>3. PICK D : D = decoded
      OBVIOUS
    <3>4. PICK H : H = bursts
      OBVIOUS
    <3>5. PICK t \in Nat : t = now
      BY <1>7
    <3>6. /\ IsFiniteSet(H) /\ (\A b \in H : BurstOk(b)) /\ W \subseteq H /\ EssaKnows(C, H, W, D, t)
          /\ LooksAt(C, windowBounds, t)
      BY <1>7, <3>3, <3>4, <3>5
    <3>7. /\ EssaKnows(B, H, W, D \cup {x}, t) /\ LooksAt(B, windowBounds, t) /\ x \notin D
          /\ \A j \in 1 .. Len(B) : NotNegative(B[j])
                                    \/ ExactFragments(H, B[j].ifPower, B[j].burst, D \cup {x})
          /\ DecodedNow(B, windowBounds) = DecodedNow(C, windowBounds) \cup {x}
      <4>1. SicRight(B, C, windowBounds, H, W, D, x, t)
        BY <1>1, <1>7, <1>9, <3>1, <3>2, <3>6, SicOk
      <4> QED BY <4>1 DEF SicRight
    <3>8. NegativeOk(B, H, HasNegative(B))
      <4>1. Listed(B, W)
        BY <3>7 DEF EssaKnows
      <4>2. PICK E : E = D \cup {x}
        OBVIOUS
      <4>3. \A j \in 1 .. Len(B) : NotNegative(B[j]) \/ ExactFragments(H, B[j].ifPower, B[j].burst, E)
        BY <3>7, <4>2
      <4> QED BY <3>6, <4>1, <4>3, NegativeOnlyIf
    <3>9. decoded' \ DecodedNow(B, windowBounds) = decoded \ DecodedNow(C, windowBounds)
      <4>1. decoded' = D \cup {x} /\ x \notin D /\ D = decoded
        BY <3>2, <3>3, <3>7
      <4>2. PICK N : N = DecodedNow(C, windowBounds)
        OBVIOUS
      <4>3. DecodedNow(B, windowBounds) = N \cup {x}
        BY <3>7, <4>2
      <4>4. (D \cup {x}) \ (N \cup {x}) = D \ N
        BY <4>1
      <4> QED BY <4>1, <4>2, <4>3, <4>4
    <3>10. decoded' = D \cup {x}
      BY <3>2, <3>3
    <3> QED BY <1>7, <3>2, <3>4, <3>5, <3>7, <3>8, <3>9, <3>10
  <2> QED BY <2>1, <2>2
<1>13. EssaResults("decode", B, windowBounds, now, handedUp, Own, decoded')
  BY <1>12 DEF EssaResults
<1>14. windowPhase' = "decode" /\ windowBounds' = windowBounds
  BY <1>5
<1> QED BY <1>2, <1>3, <1>10, <1>11, <1>12, <1>13, <1>14 DEF EssaInv

-----------------------------------------------------------------------------
(* What was treated in a window is handed up. *)

\* Packets q: the bursts in N as decoded, others that are not in D as failed.
HandedNow(q, O, D, N) ==
  /\ q \in Seq([burst : O, phyError : BOOLEAN]) /\ N \subseteq D
  /\ \A b \in N : \E k \in 1 .. Len(q) : q[k].burst = b /\ ~q[k].phyError
  /\ \A k \in 1 .. Len(q) : (~q[k].phyError \/ q[k].burst \in D) => q[k].burst \in N
  /\ \A k, l \in 1 .. Len(q) : q[k].burst = q[l].burst => k = l

LEMMA HandedMore ==
  ASSUME NEW s, NEW O, NEW D, NEW N, HandedRight(s, O, D \ N), NEW q, HandedNow(q, O, D, N),
         NEW z, z = s \o q
  PROVE  HandedRight(z, O, D)
<1>1. PICK R : R = [burst : O, phyError : BOOLEAN]
  OBVIOUS
<1>2. s \in Seq(R) /\ q \in Seq(R)
  BY <1>1 DEF HandedRight, HandedNow
<1>3. PICK m \in Nat : m = Len(s)
  BY <1>2
<1>4. PICK n \in Nat : n = Len(q)
  BY <1>2
<1>5. /\ z \in Seq(R) /\ Len(z) = m + n
      /\ \A i \in 1 .. m : z[i] = s[i]
      /\ \A k \in 1 .. n : z[m + k] = q[k]
  BY <1>2, <1>3, <1>4
<1>6. /\ \A i \in 1 .. m : i \in 1 .. m + n
      /\ \A k \in 1 .. n : m + k \in 1 .. m + n
      /\ \A i \in 1 .. m + n : i \notin 1 .. m => \E k \in 1 .. n : i = m + k
  <2>1. ASSUME NEW i \in 1 .. m + n, i \notin 1 .. m PROVE \E k \in 1 .. n : i = m + k
    <3>1. i - m \in 1 .. n /\ i = m + (i - m)
      BY <2>1
    <3> QED BY <3>1
  <2> QED BY <2>1
<1>7. ASSUME NEW b \in D PROVE \E i \in 1 .. Len(z) : z[i].burst = b /\ ~z[i].phyError
  <2>1. CASE b \in N
    <3>1. PICK k \in 1 .. n : q[k].burst = b /\ ~q[k].phyError
      BY <1>4, <2>1 DEF HandedNow
    <3> QED BY <1>5, <1>6, <3>1
  <2>2. CASE b \notin N
    <3>1. PICK i \in 1 .. m : s[i].burst = b /\ ~s[i].phyError
      BY <1>3, <2>2 DEF HandedRight
    <3> QED BY <1>5, <1>6, <3>1
  <2> QED BY <2>1, <2>2
<1>8. ASSUME NEW i \in 1 .. Len(z), ~z[i].phyError PROVE z[i].burst \in D
  <2>1. CASE i \in 1 .. m
    BY <1>3, <1>5, <1>8, <2>1 DEF HandedRight
  <2>2. CASE i \notin 1 .. m
    <3>1. PICK k \in 1 .. n : i = m + k
      BY <1>5, <1>6, <2>2
    <3> QED BY <1>4, <1>5, <1>8, <3>1 DEF HandedNow
  <2> QED BY <2>1, <2>2
<1>9. ASSUME NEW i \in 1 .. Len(z), NEW j \in 1 .. Len(z), z[i].burst = z[j].burst, ~z[j].phyError
      PROVE  i <= j
  <2>1. CASE i \in 1 .. m /\ j \in 1 .. m
    BY <1>3, <1>5, <1>9, <2>1 DEF HandedRight
  <2>2. CASE i \in 1 .. m /\ j \notin 1 .. m
    BY <1>5, <2>2
  <2>3. CASE i \notin 1 .. m /\ j \in 1 .. m
    <3>1. PICK k \in 1 .. n : i = m + k
      BY <1>5, <1>6, <2>3
    <3>2. s[j].burst \in D \ N
      BY <1>3, <1>5, <1>9, <2>3 DEF HandedRight
    <3>3. q[k].burst = s[j].burst
      BY <1>5, <1>9, <2>3, <3>1
    <3> QED BY <1>4, <3>2, <3>3 DEF HandedNow
  <2>4. CASE i \notin 1 .. m /\ j \notin 1 .. m
    <3>1. PICK k \in 1 .. n : i = m + k
      BY <1>5, <1>6, <2>4
    <3>2. PICK l \in 1 .. n : j = m + l
      BY <1>5, <1>6, <2>4
    <3>3. z[i] = q[k] /\ z[j] = q[l]
      BY <1>5, <3>1, <3>2
    <3>4. q[k].burst = q[l].burst
      BY <1>9, <3>3
    <3>5. k = l
      BY <1>4, <3>4 DEF HandedNow
    <3> QED BY <3>1, <3>2, <3>5
  <2> QED BY <2>1, <2>2, <2>3, <2>4
<1> QED BY <1>1, <1>5, <1>7, <1>8, <1>9 DEF HandedRight

\* A sequence of all of a set of numbers, once each.
LEMMA OrderIs ==
  ASSUME NEW S, IsFiniteSet(S), NEW order \in SetToSeqs(S)
  PROVE  /\ \E n \in Nat : order \in [1 .. n -> S]
         /\ DOMAIN order = 1 .. Len(order) /\ Len(order) \in Nat
         /\ \A k \in 1 .. Len(order) : order[k] \in S
         /\ \A k, l \in 1 .. Len(order) : order[k] = order[l] => k = l
         /\ \A i \in S : \E k \in 1 .. Len(order) : order[k] = i
<1>1. PICK n \in Nat : n = Cardinality(S)
  BY FS_CardinalityType
<1>2. order \in [1 .. n -> S] /\ \A k, l \in 1 .. n : k # l => order[k] # order[l]
  BY <1>1 DEF SetToSeqs
<1>3. DOMAIN order = 1 .. n /\ Len(order) = n
  BY <1>2
<1>4. order \in Injection(1 .. n, S)
  BY <1>2 DEF Injection, IsInjective
<1>5. Cardinality(1 .. n) = Cardinality(S)
  BY <1>1, FirstNumbers
<1>6. order \in Surjection(1 .. n, S)
  BY <1>4, <1>5, FS_Injection
<1> QED BY <1>2, <1>3, <1>6 DEF Surjection

\* What is handed up at the end of a window.
LEMMA TreatedIs ==
  ASSUME NEW C, NEW H, NEW W, NEW D, NEW t, EssaKnows(C, H, W, D, t), NEW bound,
         LooksAt(C, bound, t), NEW O, W \subseteq O,
         NEW order \in SetToSeqs({i \in 1 .. bound : Treated(C[i])}), NEW q,
         q = [k \in DOMAIN order |-> Packet(C[order[k]].burst, ~C[order[k]].hasBeenDecoded)]
  PROVE  HandedNow(q, O, D, DecodedNow(C, bound))
<1>1. /\ Listed(C, W) /\ Kept(C, W, D, t) /\ Len(C) \in Nat /\ bound \in 0 .. Len(C)
      /\ \A j \in 1 .. Len(C) : C[j].hasBeenDecoded <=> C[j].burst \in D
      /\ \A j \in 1 .. Len(C) : C[j].burst \in W /\ C[j].hasBeenDecoded \in BOOLEAN
      /\ \A j, k \in 1 .. Len(C) : C[j].burst = C[k].burst => j = k
  BY ListedMember DEF EssaKnows, LooksAt, JudgedEssa, Listed
<1>2. PICK S : S = {i \in 1 .. bound : Treated(C[i])}
  OBVIOUS
<1>3. S \in SUBSET (1 .. Len(C)) /\ IsFiniteSet(S)
  <2>1. S \in SUBSET (1 .. Len(C))
    BY <1>1, <1>2
  <2> QED BY <1>1, <2>1, FirstNumbers, FS_Subset
<1>4. PICK n \in Nat : n = Len(order)
  BY <1>2, <1>3, OrderIs
<1>5. /\ DOMAIN order = 1 .. n
      /\ \A k \in 1 .. n : order[k] \in S
      /\ \A k, l \in 1 .. n : order[k] = order[l] => k = l
      /\ \A i \in S : \E k \in 1 .. n : order[k] = i
  <2>1. order \in SetToSeqs(S)
    BY <1>2
  <2>2. /\ DOMAIN order = 1 .. Len(order) /\ Len(order) \in Nat
        /\ \A k \in 1 .. Len(order) : order[k] \in S
        /\ \A k, l \in 1 .. Len(order) : order[k] = order[l] => k = l
        /\ \A i \in S : \E k \in 1 .. Len(order) : order[k] = i
    BY <1>3, <2>1, OrderIs
  <2> QED BY <1>4, <2>2
<1>6. q = [k \in 1 .. n |-> Packet(C[order[k]].burst, ~C[order[k]].hasBeenDecoded)]
  BY <1>5
<1>7. \A b, e : Packet(b, e).burst = b /\ (Packet(b, e).phyError <=> e)
  BY Zenon DEF Packet
<1>8. ASSUME NEW k \in 1 .. n
      PROVE  /\ q[k] \in [burst : O, phyError : BOOLEAN]
             /\ q[k].burst = C[order[k]].burst
             /\ q[k].phyError <=> ~C[order[k]].hasBeenDecoded
             /\ order[k] \in 1 .. Len(C) /\ order[k] \in 1 .. bound /\ Treated(C[order[k]])
  <2>1. order[k] \in 1 .. Len(C) /\ order[k] \in 1 .. bound /\ Treated(C[order[k]])
    BY <1>2, <1>3, <1>5
  <2>2. PICK b \in O : b = C[order[k]].burst
    BY <1>1, <2>1
  <2>3. PICK e \in BOOLEAN : e <=> ~C[order[k]].hasBeenDecoded
    BY <1>1, <2>1
  <2>4. e = ~C[order[k]].hasBeenDecoded
    BY <1>1, <2>1, <2>3
  <2>5. q[k] = Packet(b, e)
    BY <1>6, <2>2, <2>4
  <2>6. Packet(b, e) \in [burst : O, phyError : BOOLEAN]
    BY DEF Packet
  <2>7. q[k].burst = b
    BY <1>7, <2>5
  <2>8. q[k].phyError <=> e
    BY <1>7, <2>5, Zenon
  <2> QED BY <2>1, <2>2, <2>3, <2>5, <2>6, <2>7, <2>8
<1>9. Len(q) = n /\ q \in Seq([burst : O, phyError : BOOLEAN])
  <2>1. PICK R : R = [burst : O, phyError : BOOLEAN]
    OBVIOUS
  <2>2. q \in [1 .. n -> R]
    BY <1>6, <1>8, <2>1
  <2>3. Len(q) = n /\ q \in Seq(R)
    BY <2>2
  <2> QED BY <2>1, <2>3
<1> DEFINE N == DecodedNow(C, bound)
<1>10. \A b : b \in N <=> \E i \in S : C[i].hasBeenDecoded /\ b = C[i].burst
  BY <1>2 DEF DecodedNow
<1> HIDE DEF N
<1>11. N \subseteq D
  BY <1>1, <1>3, <1>10
<1>12. ASSUME NEW b \in N PROVE \E k \in 1 .. n : q[k].burst = b /\ ~q[k].phyError
  <2>1. PICK i \in S : C[i].hasBeenDecoded /\ b = C[i].burst
    BY <1>10
  <2>2. PICK k \in 1 .. n : order[k] = i
    BY <1>5
  <2> QED BY <1>8, <2>1, <2>2
<1>13. ASSUME NEW k \in 1 .. n, ~q[k].phyError \/ q[k].burst \in D PROVE q[k].burst \in N
  <2>1. C[order[k]].hasBeenDecoded
    BY <1>1, <1>8, <1>13
  <2> QED BY <1>5, <1>8, <1>10, <2>1
<1>14. ASSUME NEW k \in 1 .. n, NEW l \in 1 .. n, q[k].burst = q[l].burst PROVE k = l
  <2>1. PICK x \in 1 .. Len(C) : x = order[k]
    BY <1>8
  <2>2. PICK y \in 1 .. Len(C) : y = order[l]
    BY <1>8
  <2>3. C[x].burst = C[y].burst
    BY <1>8, <1>14, <2>1, <2>2
  <2>4. x = y
    BY <1>1, <2>3
  <2> QED BY <1>5, <2>1, <2>2, <2>4
<1> QED BY <1>9, <1>11, <1>12, <1>13, <1>14, ZenonT(60) DEF HandedNow, N

LEMMA EssaHandsUpOk ==
  ASSUME EssaInv, ~negativeInterference, HandUpTreated, UNCHANGED frameVars
  PROVE  EssaInv'
<1>1. PICK C : C = m_essaPacketContainer
  OBVIOUS
<1>2. PICK W : W = Own \ Receiving
  OBVIOUS
<1>3. PICK S : S = {i \in 1 .. windowBounds : Treated(C[i])}
  OBVIOUS
<1>4. /\ windowPhase = "decode" /\ ToTry = {} /\ windowPhase' = "receive"
      /\ UNCHANGED <<interferenceVars, now, m_rxParams, bursts, m_essaPacketContainer, nextWindowEnd,
                     pendingWindows, windowBounds, negativeInterference, decoded>>
  BY DEF HandUpTreated
<1>5. PICK order \in SetToSeqs(S) :
        handedUp' = handedUp \o [k \in DOMAIN order |->
                                   Packet(C[order[k]].burst, ~C[order[k]].hasBeenDecoded)]
  BY <1>1, <1>3 DEF HandUpTreated, HandUp
<1>6. /\ EssaCarrier /\ IsFiniteSet(bursts) /\ now \in Nat
      /\ EssaKnows(C, bursts, W, decoded, now)
      /\ LooksAt(C, windowBounds, now)
      /\ HandedRight(handedUp, Own, decoded \ DecodedNow(C, windowBounds))
      /\ \A j \in 1 .. Len(C) : NotNegative(C[j])
      /\ W \subseteq bursts /\ W \subseteq Own
      /\ \A b \in bursts : BurstOk(b) /\ b.end = b.start + PacketDuration
  BY <1>1, <1>2, <1>4, WhileDecoding
<1>7. /\ bursts' = bursts /\ now' = now /\ Own' = Own
      /\ Receiving' = Receiving /\ m_rxParams' = m_rxParams /\ UNCHANGED interferenceVars
  BY <1>4 DEF interferenceVars, Own, Receiving
<1>8. EssaCarrier'
  <2>1. PICK H : H = bursts
    OBVIOUS
  <2>2. Heard(H)'
    BY <1>6, <1>7, <2>1, HeardLater DEF EssaCarrier
  <2>3. Heard(bursts)'
    BY <1>7, <2>1, <2>2, HeardBursts
  <2>4. RxOk'
    BY <1>6, <1>7 DEF EssaCarrier, RxOk
  <2> QED BY <1>6, <1>7, <2>3, <2>4 DEF EssaCarrier
<1>9. EssaIdle' /\ nextWindowEnd' \in Nat /\ pendingWindows' \in Seq(Nat)
  BY <1>4, IdleSame DEF EssaInv
<1>10. HandedRight(handedUp', Own, decoded)
  <2>1. PICK q : q = [k \in DOMAIN order |-> Packet(C[order[k]].burst, ~C[order[k]].hasBeenDecoded)]
    OBVIOUS
  <2>2. PICK N : N = DecodedNow(C, windowBounds)
    OBVIOUS
  <2>3. PICK O : O = Own
    OBVIOUS
  <2>4. PICK z : z = handedUp'
    OBVIOUS
  <2>5. HandedNow(q, O, decoded, N)
    BY <1>3, <1>6, <2>1, <2>2, <2>3, TreatedIs
  <2>6. HandedRight(handedUp, O, decoded \ N) /\ z = handedUp \o q
    BY <1>5, <1>6, <2>1, <2>2, <2>3, <2>4
  <2>7. HandedRight(z, O, decoded)
    BY <2>5, <2>6, HandedMore
  <2> QED BY <2>3, <2>4, <2>7
<1>11. Tried(C)
  <2>1. ASSUME NEW i \in 1 .. Len(C), C[i].isInsideWindow
        PROVE  NotNegative(C[i]) /\ (~C[i].hasBeenDecoded => ~C[i].hasBeenUpdated)
    <3>1. C[i].burst \in bursts /\ C[i].burst.end + m_windowDelay <= now
      BY <1>6, <2>1, ListedMember DEF EssaKnows, Kept
    <3>2. PICK x : x = C[i].burst
      OBVIOUS
    <3>3. x.start \in Nat /\ x.end = x.start + PacketDuration /\ x.end + m_windowDelay <= now
      BY <1>6, <3>1, <3>2 DEF BurstOk
    <3>4. PICK y \in Nat : y = x.start
      BY <3>3
    <3>5. PacketDuration \in Nat /\ m_windowDelay \in Nat /\ y + PacketDuration + m_windowDelay <= now
      BY <3>3, <3>4, WindowTimes
    <3>6. y + m_windowDelay <= now
      BY <1>6, <3>5
    <3>7. i <= windowBounds /\ windowBounds \in Nat
      BY <1>6, <3>2, <3>4, <3>6 DEF LooksAt
    <3>8. i \in 1 .. windowBounds
      BY <3>7
    <3>9. ~(~C[i].hasBeenDecoded /\ C[i].hasBeenUpdated /\ C[i].isInsideWindow)
      BY <1>1, <1>4, <3>8 DEF ToTry
    <3> QED BY <1>6, <2>1, <3>9
  <2> QED BY <2>1 DEF Tried
<1>12. EssaResults("receive", C, windowBounds, now, handedUp', Own, decoded)
  BY <1>10, <1>11 DEF EssaResults
<1>13. NegativeOk(C, bursts, negativeInterference)
  BY <1>1 DEF EssaInv
<1> QED BY <1>1, <1>2, <1>4, <1>6, <1>7, <1>8, <1>9, <1>12, <1>13 DEF EssaInv

-----------------------------------------------------------------------------
(* ESSA from the start. *)

LEMMA EssaStarts ==
  ASSUME ReceptionInit, ~Framed
  PROVE  EssaInv
<1>1. /\ Receiving = {} /\ now = 0 /\ m_rxParams = <<>> /\ bursts = {} /\ handedUp = <<>>
      /\ frame = 0 /\ m_crdsaPacketContainer = EmptyMap /\ phase = "start"
      /\ combinedPackets = {} /\ fatal = FALSE
  BY DEF ReceptionInit, PerFrameInit, CarrierInit, InterferenceInit, Receiving
<1>2. /\ m_essaPacketContainer = <<>> /\ nextWindowEnd = m_windowDuration /\ pendingWindows = <<>>
      /\ windowBounds = 0 /\ windowPhase = "receive" /\ negativeInterference = FALSE /\ decoded = {}
  BY DEF ReceptionInit, PerWindowInit
<1>3. Own = {}
  BY <1>1 DEF Own
<1>4. EssaIdle
  BY <1>1 DEF EssaIdle
<1>5. EssaCarrier
  <2>1. Heard({})
    BY HeardNothing DEF ReceptionInit, PerFrameInit
  <2>2. RxOk
    BY <1>1, <1>3 DEF RxOk
  <2> QED BY <1>1, <2>1, <2>2 DEF EssaCarrier
<1>6. nextWindowEnd \in Nat /\ pendingWindows \in Seq(Nat)
  BY <1>2, WindowTimes
<1>7. Len(m_essaPacketContainer) = 0 /\ 1 .. 0 = {}
  BY <1>2
<1>8. Listed(m_essaPacketContainer, Own \ Receiving)
  <2>1. <<>> \in Seq(EssaPacket(Own \ Receiving))
    OBVIOUS
  <2> QED BY <1>2, <1>7, <2>1 DEF Listed
<1>9. EssaKnows(m_essaPacketContainer, bursts, Own \ Receiving, decoded, now)
  BY <1>2, <1>7, <1>8 DEF EssaKnows, Kept
<1>10. NegativeOk(m_essaPacketContainer, bursts, negativeInterference)
  BY <1>2, <1>7 DEF NegativeOk
<1>11. HandedRight(handedUp, Own, decoded)
  <2>1. <<>> \in Seq([burst : Own, phyError : BOOLEAN]) /\ Len(<<>>) = 0
    OBVIOUS
  <2> QED BY <1>1, <1>2, <1>7, <2>1 DEF HandedRight
<1>12. Tried(m_essaPacketContainer)
  BY <1>7 DEF Tried
<1> QED BY <1>2, <1>4, <1>5, <1>6, <1>9, <1>10, <1>11, <1>12 DEF EssaInv, EssaResults

LEMMA EssaStep ==
  ASSUME EssaInv, ~Framed, ReceptionNext
  PROVE  EssaInv'
<1>1. ~negativeInterference /\ UNCHANGED frameVars
  BY DEF ReceptionNext, Framed
<1>2. (\E sender \in Sender : EssaBurstArrives(sender)) \/ PerWindowNext
  BY DEF ReceptionNext, Framed
<1>3. CASE \E sender \in Sender : EssaBurstArrives(sender)
  BY <1>1, <1>3, EssaArrivesOk
<1>4. CASE ReceiveEssa
  BY <1>1, <1>4, EssaReceivesOk
<1>5. CASE DoWindowEnd
  BY <1>1, <1>5, EssaWindowEndOk
<1>6. CASE ProcessWindow
  BY <1>1, <1>6, EssaLooksOk
<1>7. CASE DecodeTurn
  BY <1>1, <1>7, EssaDecodesOk
<1>8. CASE HandUpTreated
  BY <1>1, <1>8, EssaHandsUpOk
<1>9. CASE EssaTimePasses
  BY <1>1, <1>9, EssaTimeOk
<1> QED BY <1>2, <1>3, <1>4, <1>5, <1>6, <1>7, <1>8, <1>9 DEF PerWindowNext

LEMMA EssaStutters ==
  ASSUME EssaInv, UNCHANGED receptionVars
  PROVE  EssaInv'
<1>1. UNCHANGED carrierVars /\ UNCHANGED frameVars /\ UNCHANGED windowVars
  BY DEF receptionVars
<1>2. EssaIdle'
  BY <1>1, IdleSame DEF EssaInv
<1>3. /\ EssaCarrier' /\ bursts' = bursts /\ now' = now /\ handedUp' = handedUp
      /\ Own' = Own /\ Receiving' = Receiving
  BY <1>1, CarrierStays DEF EssaInv
<1>4. UNCHANGED <<m_essaPacketContainer, nextWindowEnd, pendingWindows, windowBounds, windowPhase,
                  negativeInterference, decoded>>
  BY <1>1 DEF windowVars
<1> QED BY <1>2, <1>3, <1>4 DEF EssaInv

-----------------------------------------------------------------------------
(* What the invariant of ESSA says of the results. *)

LEMMA EssaInterference ==
  ASSUME EssaInv
  PROVE  InterferenceIsExact
<1>1. /\ EssaCarrier /\ m_crdsaPacketContainer = EmptyMap
      /\ EssaKnows(m_essaPacketContainer, bursts, Own \ Receiving, decoded, now)
  BY DEF EssaInv, EssaIdle
<1>2. \A b \in bursts : BurstOk(b)
  BY <1>1, EssaHears
<1>3. PICK C : C = m_essaPacketContainer
  OBVIOUS
<1>4. /\ DOMAIN C = 1 .. Len(C) /\ \A i \in 1 .. Len(C) : JudgedEssa(C[i], bursts, decoded)
  BY <1>1, <1>3, ListedMember DEF EssaKnows
<1>5. Places = {}
  BY <1>1 DEF Places, EmptyMap
<1>6. ASSUME NEW i \in 1 .. Len(C), ~C[i].hasBeenDecoded, NEW fragment \in Range(C[i].ifPower),
             NEW t \in fragment.from .. fragment.to - 1
      PROVE  fragment.power = PowerAt(t, C[i].burst, decoded)
  <2>1. PICK P : P = C[i].ifPower
    OBVIOUS
  <2>2. PICK e : e = C[i].burst
    OBVIOUS
  <2>3. ExactFragments(bursts, P, e, decoded)
    BY <1>4, <1>6, <2>1, <2>2 DEF JudgedEssa
  <2>4. P \in Seq(Fragment) /\ \A k \in 1 .. Len(P) : FragmentOk(bursts, P[k], e, decoded)
    BY <2>3 DEF ExactFragments, Fragmented
  <2>5. PICK k \in 1 .. Len(P) : fragment = P[k]
    <3>1. \E k \in DOMAIN P : fragment = P[k]
      BY <1>6, <2>1 DEF Range
    <3>2. DOMAIN P = 1 .. Len(P)
      BY <2>4
    <3> QED BY <3>1, <3>2
  <2>6. FragmentOk(bursts, fragment, e, decoded)
    BY <2>4, <2>5
  <2>7. PowerAt(t, e, decoded) = fragment.power
    BY <1>2, <1>6, <2>6, PowerAtIs
  <2> QED BY <2>2, <2>7
<1> QED BY <1>3, <1>4, <1>5, <1>6 DEF InterferenceIsExact

LEMMA EssaOutcome ==
  ASSUME EssaInv, ~Framed
  PROVE  OutcomeJustified
<1>1. /\ EssaCarrier
      /\ EssaKnows(m_essaPacketContainer, bursts, Own \ Receiving, decoded, now)
  BY DEF EssaInv
<1>2. \A b \in bursts : BurstOk(b)
  BY <1>1, EssaHears
<1>3. Own \ Receiving \subseteq bursts
  BY <1>1, EssaHears
<1>4. PICK C : C = m_essaPacketContainer
  OBVIOUS
<1>5. /\ DOMAIN C = 1 .. Len(C) /\ \A i \in 1 .. Len(C) : JudgedEssa(C[i], bursts, decoded)
      /\ \A i \in 1 .. Len(C) : C[i].burst \in bursts
  BY <1>1, <1>3, <1>4, ListedMember DEF EssaKnows
<1>6. ASSUME windowPhase = "receive", NEW i \in 1 .. Len(C), C[i].isInsideWindow,
             ~C[i].hasBeenDecoded
      PROVE  SnirOfWindow(C[i].burst, decoded) < SinrAlways
  <2>1. PICK p : p = C[i]
    OBVIOUS
  <2>2. PICK e : e = p.burst
    OBVIOUS
  <2>3. Tried(C)
    BY <1>4, <1>6 DEF EssaInv, EssaResults
  <2>4. NotNegative(p) /\ ~p.hasBeenDecoded /\ ~p.hasBeenUpdated
    BY <1>6, <2>1, <2>3 DEF Tried
  <2>5. JudgedEssa(p, bursts, decoded) /\ e \in bursts
    BY <1>5, <2>1, <2>2
  <2>6. GetEffectiveSnir(p) < SinrAlways /\ ExactFragments(bursts, p.ifPower, e, decoded)
    BY <2>2, <2>4, <2>5 DEF JudgedEssa
  <2>7. BurstOk(e)
    BY <1>2, <2>5
  <2>8. SnirOfWindow(e, decoded) = GetEffectiveSnir(p)
    BY <1>2, <2>2, <2>4, <2>6, <2>7, SnirIsExact
  <2> QED BY <2>1, <2>2, <2>6, <2>8
<1> QED BY <1>4, <1>5, <1>6 DEF OutcomeJustified, Framed

LEMMA EssaHandsUp ==
  ASSUME EssaInv
  PROVE  HandedUpOnce
<1>1. frame = 0 /\ ~fatal
  BY DEF EssaInv, EssaIdle
<1>2. negativeInterference => \E b, c \in bursts : b # c /\ b.end \in {c.start, c.end}
  BY DEF EssaInv, NegativeOk, Coincide
<1>3. ASSUME windowPhase = "receive", NEW b \in Own
      PROVE  LET good == {i \in DOMAIN handedUp : handedUp[i] = Packet(b, FALSE)}
                 failed == {i \in DOMAIN handedUp : handedUp[i] = Packet(b, TRUE)}
             IN  /\ Cardinality(good) = IF b \in decoded THEN 1 ELSE 0
                 /\ \A i \in failed, j \in good : i < j
  <2>1. PICK s : s = handedUp
    OBVIOUS
  <2>2. HandedRight(s, Own, decoded)
    BY <1>3, <2>1 DEF EssaInv, EssaResults
  <2>3. PICK n \in Nat : n = Len(s) /\ DOMAIN s = 1 .. n
    BY <2>2 DEF HandedRight
  <2>4. PICK O : O = Own
    OBVIOUS
  <2>5. \A i \in 1 .. n : s[i] \in [burst : O, phyError : BOOLEAN]
    <3>1. PICK R : R = [burst : O, phyError : BOOLEAN]
      OBVIOUS
    <3>2. s \in Seq(R)
      BY <2>2, <2>4, <3>1 DEF HandedRight
    <3>3. \A i \in 1 .. n : s[i] \in R
      BY <2>3, <3>2
    <3> QED BY <3>1, <3>3
  <2>6. \A p \in [burst : O, phyError : BOOLEAN] :
          /\ p = Packet(b, FALSE) <=> p.burst = b /\ ~p.phyError
          /\ p = Packet(b, TRUE) <=> p.burst = b /\ p.phyError
    BY DEF Packet
  <2>7. \A i \in 1 .. n : /\ s[i] = Packet(b, FALSE) <=> s[i].burst = b /\ ~s[i].phyError
                          /\ s[i] = Packet(b, TRUE) <=> s[i].burst = b /\ s[i].phyError
    BY <2>4, <2>5, <2>6
  <2> DEFINE good == {i \in 1 .. n : s[i] = Packet(b, FALSE)}
             failed == {i \in 1 .. n : s[i] = Packet(b, TRUE)}
  <2>8. \A i \in failed, j \in good : i < j
    <3>1. ASSUME NEW i \in failed, NEW j \in good PROVE i < j
      <4>1. s[i].burst = b /\ s[i].phyError /\ s[j].burst = b /\ ~s[j].phyError
        BY <2>7
      <4>2. i <= j
        BY <2>2, <2>3, <4>1 DEF HandedRight
      <4>3. i # j
        BY <4>1
      <4> QED BY <4>2, <4>3
    <3> QED BY <3>1
  <2>9. Cardinality(good) = IF b \in decoded THEN 1 ELSE 0
    <3>1. CASE b \in decoded
      <4>1. PICK i \in 1 .. n : s[i].burst = b /\ ~s[i].phyError
        BY <2>2, <2>3, <3>1 DEF HandedRight
      <4>2. i \in good
        BY <2>7, <4>1
      <4>3. ASSUME NEW j \in good PROVE j = i
        <5>1. s[j].burst = b /\ ~s[j].phyError /\ j \in 1 .. n
          BY <2>7
        <5>2. i <= j /\ j <= i
          BY <2>2, <2>3, <4>1, <5>1 DEF HandedRight
        <5> QED BY <5>1, <5>2
      <4>4. good = {i}
        BY <4>2, <4>3
      <4> QED BY <3>1, <4>4, FS_Singleton
    <3>2. CASE b \notin decoded
      <4>1. ASSUME NEW j \in good PROVE FALSE
        <5>1. s[j].burst = b /\ ~s[j].phyError
          BY <2>7
        <5> QED BY <2>2, <2>3, <3>2, <5>1 DEF HandedRight
      <4>2. good = {}
        BY <4>1
      <4> QED BY <3>2, <4>2, FS_EmptySet
    <3> QED BY <3>1, <3>2
  <2> QED BY <2>1, <2>3, <2>8, <2>9
<1>4. ~(frame > 0)
  BY <1>1
<1> QED BY <1>1, <1>2, <1>3, <1>4, Zenon DEF HandedUpOnce

\* The invariant of a carrier that is received per window.
LEMMA EssaInvariant == ReceptionSpec => [](~Framed => EssaInv)
<1>1. ReceptionInit => (~Framed => EssaInv)
  BY EssaStarts
<1>2. ASSUME ~Framed => EssaInv, [ReceptionNext]_receptionVars PROVE (~Framed => EssaInv)'
  <2>1. m_randomAccessModel' = m_randomAccessModel
    BY <1>2 DEF receptionVars, frameVars, ReceptionNext, PerFrameNext, BeginFrame, BurstArrives,
       ReceiveSlot, TimePasses, DoFrameEnd, SicTurn, SicEnds, MarsalaDecodes, MarsalaEnds, CleanUp,
       HandUpResults
  <2>2. Framed' = Framed
    BY <2>1 DEF Framed
  <2>3. ASSUME ~Framed PROVE EssaInv'
    BY <1>2, <2>3, EssaStep, EssaStutters
  <2> QED BY <2>2, <2>3
<1> QED BY <1>1, <1>2, PTL DEF ReceptionSpec

\* At any time the receiver knows of each packet that waits just the
\* interference of the bursts not yet decoded (SatPhyRxCarrierPerFrame,
\* SatPhyRxCarrierPerWindow, SatInterference), whatever the access protocol,
\* and however times, slots, replicas and levels are chosen.
THEOREM ReceptionInterference == ReceptionSpec => []InterferenceIsExact
<1>1. (Framed => FramedInv) /\ (~Framed => EssaInv) => InterferenceIsExact
  BY FramedIsRight, EssaInterference
<1> QED BY <1>1, FramedInvariant, EssaInvariant, PTL

\* Cancellation ends only when nothing more can be gained, and decodes nothing
\* that could not be, by frame and by window.
THEOREM ReceptionOutcome == ReceptionSpec => []OutcomeJustified
<1>1. (Framed => FramedInv) /\ (~Framed => EssaInv) => OutcomeJustified
  BY FramedIsRight, EssaOutcome
<1> QED BY <1>1, FramedInvariant, EssaInvariant, PTL

\* Every packet is handed up once and in order, by frame and by window; no
\* state is met that ends the simulation, but for the one of ESSA when bursts
\* begin or end at one instant.
THEOREM ReceptionHandUp == ReceptionSpec => []HandedUpOnce
<1>1. (Framed => FramedInv) /\ (~Framed => EssaInv) => HandedUpOnce
  BY FramedIsRight, EssaHandsUp
<1> QED BY <1>1, FramedInvariant, EssaInvariant, PTL

=============================================================================
