---------------------- MODULE SatDedicatedAccessProofs ----------------------
(***************************************************************************)
(* Dedicated slots.  How a superframe is laid out (SatSuperframeAllocator):*)
(* slots do not overlap, the loop over a UT's slots ends, TBTPs fit into   *)
(* BBFrames, and what is granted in a frame stays within its target load,  *)
(* for any number of UTs, frames, carriers and request classes and any     *)
(* lengths of bursts.  And what is sent in slots (SatEncapsulationLink):   *)
(* whatever is lost, in bursts that are shorter than a cycle of fragment   *)
(* ids, packets come out whole, once and in order.                         *)
(***************************************************************************)
EXTENDS SatSuperframeAllocator, SatEncapsulationLink, SatFacts

(***************************************************************************)
(* The length of a slot: none, or one that fits.                           *)
(***************************************************************************)
BetterLength(best, length, symbolsToUse, symbolsLeft) ==
  IF length <= symbolsToUse
     /\ (IF best < symbolsLeft THEN best < length ELSE length < best)
  THEN length ELSE best

IsBestOf(h, symbolsToUse, symbolsLeft) ==
  h = [T \in SUBSET DOMAIN BurstLengths |->
         IF T = {} THEN 0
         ELSE BetterLength(h[T \ {Max(T)}], BurstLengths[Max(T)], symbolsToUse, symbolsLeft)]

\* The largest of some positions is one of them.
LEMMA MaxIsOne ==
  ASSUME NEW n \in Nat, NEW T \in SUBSET (1 .. n), T # {}
  PROVE  Max(T) \in T
<1>1. PICK x \in T : \A y \in T : x >= y
  BY LargestElement
<1> QED BY <1>1 DEF Max

\* What GetOptimalBurtsLengthInSymbols returns fits into what can be used.
LEMMA BurstFits ==
  ASSUME NEW a \in Nat, NEW left
  PROVE  GetOptimalBurstLength(a, left) \in 0 .. a
<1> DEFINE S == DOMAIN BurstLengths
           Y == 0 .. a
           pick == [T \in SUBSET S |-> Max(T)]
           step == [x \in S |-> [y \in Y |-> BetterLength(y, BurstLengths[x], a, left)]]
           g == CHOOSE h : IsBestOf(h, a, left)
<1>1. /\ Len(BurstLengths) \in Nat /\ S = 1 .. Len(BurstLengths) /\ IsFiniteSet(S)
      /\ \A x \in S : BurstLengths[x] \in Nat
  <2>1. /\ Len(BurstLengths) \in Nat /\ S = 1 .. Len(BurstLengths)
        /\ \A x \in S : BurstLengths[x] \in Nat
    BY SlotAssumption
  <2> QED BY <2>1, FS_Interval
<1>2. \A T \in SUBSET S : T # {} => Max(T) \in T
  BY <1>1, MaxIsOne
<1>3. \A x \in S, y \in Y : BetterLength(y, BurstLengths[x], a, left) \in Y
  BY <1>1 DEF BetterLength
<1>4. PICK h : Recurs(h, S, 0, pick, step) /\ \A T \in SUBSET S : h[T] \in Y
  <2>1. \A T \in SUBSET S : T # {} => pick[T] \in T
    BY <1>2
  <2>2. \A x \in S, y \in Y : step[x][y] \in Y
    BY <1>3
  <2>3. 0 \in Y
    OBVIOUS
  <2> HIDE DEF S, Y, pick, step
  <2> QED BY <1>1, <2>1, <2>2, <2>3, Recursion
<1>5. \A T \in SUBSET S :
        T # {} => step[pick[T]][h[T \ {pick[T]}]]
                    = BetterLength(h[T \ {Max(T)}], BurstLengths[Max(T)], a, left)
  <2> SUFFICES ASSUME NEW T \in SUBSET S, T # {}
               PROVE  step[pick[T]][h[T \ {pick[T]}]]
                        = BetterLength(h[T \ {Max(T)}], BurstLengths[Max(T)], a, left)
    OBVIOUS
  <2>1. Max(T) \in S /\ T \ {Max(T)} \in SUBSET S /\ pick[T] = Max(T)
    BY <1>2
  <2>2. h[T \ {Max(T)}] \in Y
    BY <1>4, <2>1
  <2> QED BY <2>1, <2>2
<1>6. IsBestOf(h, a, left)
  <2> HIDE DEF pick, step
  <2> QED BY <1>4, <1>5 DEF IsBestOf, Recurs
<1>7. IsBestOf(g, a, left)
  <2> HIDE DEF g
  <2>1. \E k : IsBestOf(k, a, left)
    BY <1>6
  <2> QED BY <2>1, Zenon DEF g
<1>8. GetOptimalBurstLength(a, left) = g[S]
  BY Zenon DEF GetOptimalBurstLength, FoldLeft, MapThenFoldSet, IsBestOf, BetterLength
<1>9. \A T \in SUBSET S : IsFiniteSet(T) /\ Cardinality(T) \in Nat
  BY <1>1, FS_Subset, FS_CardinalityType
<1> DEFINE A == {n \in Nat : \A T \in SUBSET S : Cardinality(T) <= n => g[T] \in Y}
<1>10. \A T \in SUBSET S :
         g[T] = IF T = {} THEN 0
                ELSE BetterLength(g[T \ {Max(T)}], BurstLengths[Max(T)], a, left)
  <2> HIDE DEF g
  <2> QED BY <1>7 DEF IsBestOf
<1>11. 0 \in A
  <2> HIDE DEF g
  <2>1. \A T \in SUBSET S : Cardinality(T) <= 0 => T = {}
    BY <1>9, FS_EmptySet
  <2> QED BY <1>10, <2>1
<1>12. ASSUME NEW n \in Nat, n \in A PROVE n + 1 \in A
  <2> HIDE DEF g, Y, S
  <2>1. ASSUME NEW T \in SUBSET S, Cardinality(T) <= n + 1, T # {} PROVE g[T] \in Y
    <3>1. Max(T) \in T /\ T \ {Max(T)} \in SUBSET S
      BY <1>2, <2>1
    <3>2. Cardinality(T \ {Max(T)}) = Cardinality(T) - 1
      BY <1>9, <3>1, FS_RemoveElement
    <3>3. Cardinality(T \ {Max(T)}) <= n
      BY <1>9, <2>1, <3>2
    <3>4. g[T \ {Max(T)}] \in Y
      BY <1>12, <3>1, <3>3
    <3>5. g[T] = BetterLength(g[T \ {Max(T)}], BurstLengths[Max(T)], a, left)
      BY <1>10, <2>1
    <3> QED BY <1>3, <3>1, <3>4, <3>5
  <2>2. g[{}] \in Y
    BY <1>10 DEF Y
  <2>3. \A T \in SUBSET S : Cardinality(T) <= n + 1 => g[T] \in Y
    BY <2>1, <2>2
  <2> QED BY <2>3
<1>13. Cardinality(S) \in A
  <2> HIDE DEF A
  <2>1. \A n \in Nat : n \in A
    BY <1>11, <1>12, Induction
  <2> QED BY <2>1, <1>9
<1>14. g[S] \in Y
  <2> HIDE DEF g, Y, S
  <2>1. S \in SUBSET S /\ Cardinality(S) <= Cardinality(S)
    BY <1>9
  <2> QED BY <1>13, <2>1
<1> QED BY <1>8, <1>14
-----------------------------------------------------------------------------
(***************************************************************************)
(* Every UT is allocated in one frame.                                     *)
(***************************************************************************)
Distinct(q) == \A i, j \in DOMAIN q : i # j => q[i] # q[j]

AllocationsOK ==
  /\ m_utInfos \subseteq Ut
  /\ m_utAllocs = [f \in Frame |-> m_utAllocs[f]]
  /\ \A f \in Frame : AllocatedTo(f) \subseteq Ut
  /\ \A f, g \in Frame : f # g => AllocatedTo(f) \cap AllocatedTo(g) = {}
  /\ toAllocate \in Seq(Ut)
  /\ Distinct(toAllocate)
  /\ \A f \in Frame, i \in DOMAIN toAllocate : toAllocate[i] \notin AllocatedTo(f)

\* An order of a finite set lists each of its elements once.
LEMMA OrderOf ==
  ASSUME NEW S, IsFiniteSet(S), NEW q \in SetToSeqs(S)
  PROVE  /\ q \in Seq(S) /\ Distinct(q) /\ Len(q) = Cardinality(S)
         /\ Cardinality(S) \in Nat /\ (S # {} => q # <<>>)
<1>1. Cardinality(S) \in Nat /\ (Cardinality(S) = 0 <=> S = {})
  BY FS_CardinalityType, FS_EmptySet
<1>2. q \in [1 .. Cardinality(S) -> S] /\ Distinct(q)
  BY DEF SetToSeqs, Distinct
<1> QED BY <1>1, <1>2

\* The tail of a list without repetitions has none, and its head is not in it.
LEMMA TailDistinct ==
  ASSUME NEW S, NEW q \in Seq(S), q # <<>>, Distinct(q)
  PROVE  /\ Tail(q) \in Seq(S) /\ Distinct(Tail(q))
         /\ Head(q) = q[1] /\ Head(q) \in S /\ 1 \in DOMAIN q
         /\ DOMAIN Tail(q) = 1 .. Len(q) - 1 /\ DOMAIN q = 1 .. Len(q) /\ Len(q) \in Nat \ {0}
         /\ \A i \in 1 .. Len(q) - 1 : Tail(q)[i] = q[i + 1] /\ i + 1 \in DOMAIN q
         /\ \A i \in DOMAIN Tail(q) : Tail(q)[i] # Head(q)
<1>1. /\ Len(q) \in Nat \ {0} /\ DOMAIN q = 1 .. Len(q)
      /\ Tail(q) \in Seq(S) /\ DOMAIN Tail(q) = 1 .. Len(q) - 1
      /\ Head(q) = q[1] /\ Head(q) \in S
      /\ \A i \in 1 .. Len(q) - 1 : Tail(q)[i] = q[i + 1]
  OBVIOUS
<1>2. \A i \in 1 .. Len(q) - 1 : i + 1 \in DOMAIN q /\ i + 1 # 1
  BY <1>1
<1>3. \A i, j \in 1 .. Len(q) - 1 : i # j => i + 1 # j + 1
  OBVIOUS
<1> QED BY <1>1, <1>2, <1>3 DEF Distinct

LEMMA AllocationsInit == Init => AllocationsOK
<1> SUFFICES ASSUME Init PROVE AllocationsOK
  OBVIOUS
<1>1. m_utInfos = {} /\ toAllocate = <<>> /\ m_utAllocs = [f \in Frame |-> <<>>]
  BY DEF Init, FrameInit
<1>2. DOMAIN toAllocate = {} /\ \A f \in Frame : AllocatedTo(f) = {}
  BY <1>1 DEF AllocatedTo
<1> QED BY <1>1, <1>2 DEF AllocationsOK, Distinct

LEMMA AllocationsNext == AllocationsOK /\ [Next]_vars => AllocationsOK'
<1> SUFFICES ASSUME AllocationsOK, [Next]_vars PROVE AllocationsOK'
  OBVIOUS
<1>1. ASSUME UNCHANGED <<m_utAllocs, toAllocate>>, m_utInfos' \subseteq Ut PROVE AllocationsOK'
  BY <1>1 DEF AllocationsOK, AllocatedTo, Distinct
<1>2. ASSUME m_utAllocs' = [f \in Frame |-> <<>>], m_utInfos' \subseteq Ut,
             toAllocate' \in Seq(Ut), Distinct(toAllocate')
      PROVE  AllocationsOK'
  <2>1. \A f \in Frame : AllocatedTo(f)' = {}
    BY <1>2 DEF AllocatedTo
  <2> QED BY <1>2, <2>1 DEF AllocationsOK, Distinct
<1>3. ASSUME NEW ut \in Ut, AddUtInfo(ut) \/ RemoveUtInfo(ut) PROVE AllocationsOK'
  BY <1>1, <1>3 DEF AddUtInfo, RemoveUtInfo, frameVars, AllocationsOK
<1>4. CASE Start
  <2>1. IsFiniteSet(m_utInfos) /\ m_utInfos \subseteq Ut
    BY FrameAssumption, FS_Subset DEF AllocationsOK
  <2>2. toAllocate' \in Seq(m_utInfos) /\ Distinct(toAllocate')
    BY <1>4, <2>1, OrderOf DEF Start
  <2>3. toAllocate' \in Seq(Ut)
    BY <2>1, <2>2
  <2> QED BY <1>2, <1>4, <2>1, <2>2, <2>3 DEF Start, RemoveAllocations
<1>5. ASSUME NEW supported \in SUBSET Frame, AllocateToFrame(supported) PROVE AllocationsOK'
  <2> DEFINE ut == Head(toAllocate)
  <2>1. toAllocate # <<>> /\ toAllocate' = Tail(toAllocate) /\ UNCHANGED m_utInfos
    BY <1>5 DEF AllocateToFrame
  <2>2. /\ Tail(toAllocate) \in Seq(Ut) /\ Distinct(Tail(toAllocate)) /\ ut \in Ut
        /\ ut = toAllocate[1] /\ 1 \in DOMAIN toAllocate
        /\ DOMAIN Tail(toAllocate) = 1 .. Len(toAllocate) - 1
        /\ \A i \in 1 .. Len(toAllocate) - 1 :
             Tail(toAllocate)[i] = toAllocate[i + 1] /\ i + 1 \in DOMAIN toAllocate
        /\ \A i \in DOMAIN Tail(toAllocate) : Tail(toAllocate)[i] # ut
    BY <2>1, TailDistinct DEF AllocationsOK
  <2>3. \/ UNCHANGED m_utAllocs
        \/ \E f \in Frame : /\ m_utAllocs' = [g \in Frame |-> m_utAllocs'[g]]
                            /\ AllocatedTo(f)' = AllocatedTo(f) \cup {ut}
                            /\ \A g \in Frame \ {f} : AllocatedTo(g)' = AllocatedTo(g)
    <3>1. CASE supported = {}
      BY <1>5, <3>1 DEF AllocateToFrame, frameVars
    <3>2. CASE supported # {}
      <4>1. PICK f \in Frame : \E level, req, ctrl : Allocate(level, f, ut, req, ctrl)
        BY <1>5, <3>2 DEF AllocateToFrame
      <4>2. PICK r : m_utAllocs' = [m_utAllocs EXCEPT ![f] = MapAssign(@, ut, r)]
        BY <4>1 DEF Allocate
      <4>3. /\ m_utAllocs' = [g \in Frame |-> m_utAllocs'[g]]
            /\ m_utAllocs'[f] = MapAssign(m_utAllocs[f], ut, r)
            /\ \A g \in Frame \ {f} : m_utAllocs'[g] = m_utAllocs[g]
        BY <4>2 DEF AllocationsOK
      <4>4. DOMAIN MapAssign(m_utAllocs[f], ut, r) = DOMAIN m_utAllocs[f] \cup {ut}
        BY DEF MapAssign
      <4> QED BY <4>3, <4>4 DEF AllocatedTo
    <3> QED BY <3>1, <3>2
  <2>4. \A f \in Frame, i \in DOMAIN toAllocate' :
          toAllocate'[i] \notin AllocatedTo(f) /\ toAllocate'[i] # ut
    BY <2>1, <2>2 DEF AllocationsOK
  <2>5. \A f \in Frame : ut \notin AllocatedTo(f)
    BY <2>2 DEF AllocationsOK
  <2>6. CASE UNCHANGED m_utAllocs
    BY <2>1, <2>2, <2>4, <2>6 DEF AllocationsOK, AllocatedTo, Distinct
  <2> HIDE DEF ut
  <2>7. ASSUME NEW f \in Frame, m_utAllocs' = [g \in Frame |-> m_utAllocs'[g]],
               AllocatedTo(f)' = AllocatedTo(f) \cup {ut},
               \A g \in Frame \ {f} : AllocatedTo(g)' = AllocatedTo(g)
        PROVE  AllocationsOK'
    <3>1. \A g \in Frame : AllocatedTo(g)' = IF g = f THEN AllocatedTo(f) \cup {ut} ELSE AllocatedTo(g)
      BY <2>7
    <3>2. \A g \in Frame : AllocatedTo(g)' \subseteq Ut
      BY <3>1, <2>2 DEF AllocationsOK
    <3>3. \A g, h \in Frame : g # h => AllocatedTo(g)' \cap AllocatedTo(h)' = {}
      BY <3>1, <2>5 DEF AllocationsOK
    <3>4. \A g \in Frame, i \in DOMAIN toAllocate' : toAllocate'[i] \notin AllocatedTo(g)'
      BY <3>1, <2>4
    <3> QED BY <2>1, <2>2, <2>7, <3>2, <3>3, <3>4 DEF AllocationsOK, Distinct
  <2> QED BY <2>3, <2>6, <2>7
<1>6. CASE Share
  <2>1. /\ m_utAllocs' = [f \in Frame |-> Shared(LevelOf(f), f)]
        /\ UNCHANGED <<m_utInfos, toAllocate>>
    BY <1>6 DEF Share, PreAllocateSymbols
  <2>2. \A level : \A f \in Frame : DOMAIN Shared(level, f) = AllocatedTo(f)
    BY DEF Shared
  <2>3. \A f \in Frame : AllocatedTo(f)' = AllocatedTo(f)
    BY <2>1, <2>2 DEF AllocatedTo
  <2>4. m_utAllocs' = [f \in Frame |-> m_utAllocs'[f]]
    BY <2>1
  <2> QED BY <2>1, <2>3, <2>4 DEF AllocationsOK, Distinct
<1>7. CASE EnterRaChannel \/ StartFrames \/ Slots \/ NextFrame \/ SendTbtps
  BY <1>1, <1>7 DEF EnterRaChannel, StartFrames, Slots, NextFrame, SendTbtps, frameVars,
     superframeVars, AllocationsOK
<1>8. CASE NextSuperframe
  BY <1>2, <1>8 DEF NextSuperframe, RemoveAllocations, AllocationsOK
<1>9. CASE UNCHANGED vars
  BY <1>1, <1>9 DEF vars, frameVars, superframeVars, AllocationsOK
<1> QED BY <1>3, <1>4, <1>5, <1>6, <1>7, <1>8, <1>9 DEF Next, Superframe
-----------------------------------------------------------------------------
(***************************************************************************)
(* Slots.  The ones of the carrier that is being filled end where it is    *)
(* filled up to.  A UT starts with the time of one carrier; once it has    *)
(* reached the next carrier, what is left of its time ends where its slots *)
(* of the carrier before begin.                                            *)
(***************************************************************************)
SlotOK(s) ==
  /\ s.start \in Nat /\ s.length \in Nat \ {0} /\ s.start + s.length <= CarrierSymbols
  /\ s.frame \in Frame /\ s.ut \in AllocatedTo(s.frame)

Place == CarrierSymbols - carrierSymbolsToUse

\* Nothing is laid out of carriers, UTs and frames to come.
CarriersBehind ==
  \A s \in slots : s.frame = frame =>
    \A i \in DOMAIN carriers : s.carrier = carriers[i] => i = 1 /\ s.start + s.length <= Place

UtsBehind == \A s \in slots, i \in DOMAIN uts : s.ut = uts[i] => i = 1 /\ rcs # <<>>

FramesBehind ==
  \A s \in slots, i \in DOMAIN framesLeft : s.frame # framesLeft[i]

\* Where the slots of the current UT may be.
CurrentUt ==
  rcs # <<>> =>
    \A s \in slots : s.ut = Head(uts) =>
      IF utSymbolsToUse >= carrierSymbolsToUse
      THEN s.start + carrierSymbolsToUse >= utSymbolsToUse /\ s.start + s.length <= Place
      ELSE s.start + s.length <= Place \/ s.start >= Place + utSymbolsToUse

NoTwoClash ==
  \A s, t \in slots :
    s # t /\ (s.ut = t.ut \/ (s.frame = t.frame /\ s.carrier = t.carrier)) => ~Overlap(s, t)

CursorOK ==
  /\ frame \in Frame
  /\ framesLeft \in Seq(Frame) /\ Distinct(framesLeft)
  /\ \A i \in DOMAIN framesLeft : framesLeft[i] # frame
  /\ uts \in Seq(AllocatedTo(frame)) /\ Distinct(uts)
  /\ carriers \in Seq(Carrier) /\ Distinct(carriers)
  /\ carrierSymbolsToUse \in 1 .. CarrierSymbols
  /\ rcs # <<>> => uts # <<>> /\ carriers # <<>> /\ utSymbolsToUse \in 1 .. CarrierSymbols

Layout == CursorOK /\ CarriersBehind /\ UtsBehind /\ FramesBehind /\ CurrentUt

SlotsInv ==
  /\ phase \in {"idle", "allocate", "channels", "slots", "sent"}
  /\ phase \in {"idle", "allocate", "channels"} => slots = {}
  /\ phase # "slots" => rcs = <<>>
  /\ rcs \in Seq(Rc)
  /\ \A s \in slots : SlotOK(s)
  /\ NoTwoClash
  /\ phase = "slots" => Layout

\* What a turn of the loop over a UT's slots does to the places in the frame.
TurnShape(carrierLeft, utLeft) ==
  /\ carriers' = IF carrierLeft = 0 THEN Tail(carriers) ELSE carriers
  /\ carrierSymbolsToUse' = IF carrierLeft = 0 THEN CarrierSymbols ELSE carrierLeft
  /\ utSymbolsToUse' = utLeft
  /\ UNCHANGED frame
  /\ \/ rcs' = <<>> /\ uts' = Tail(uts)
     \/ /\ rcs' # <<>> /\ rcs' \in {rcs, Tail(rcs)} /\ uts' = uts
        /\ carriers' # <<>> /\ utLeft > 0

LEMMA AdvanceShape ==
  ASSUME NEW left, left.carrier \in Nat, left.ut \in Nat, Advance(left)
  PROVE  TurnShape(left.carrier, left.ut)
<1>1. (left.carrier <= 0 <=> left.carrier = 0) /\ (left.ut <= 0 <=> ~(left.ut > 0))
  OBVIOUS
<1> QED BY <1>1 DEF Advance, TurnShape

\* A slot that is entered, and the turn it ends.
Entered(length) ==
  /\ length \in 1 .. SymbolsToUse
  /\ slots' = slots \cup {NewSlot(length)}
  /\ TurnShape(carrierSymbolsToUse - length, utSymbolsToUse - length)

\* A turn without a slot: the rest of the carrier or of the UT's time is lost, or
\* only the RC changes.
Lost ==
  /\ UNCHANGED slots
  /\ \/ TurnShape(carrierSymbolsToUse, utSymbolsToUse) /\ rcs' \in {<<>>, Tail(rcs)}
     \/ /\ carrierSymbolsToUse <= utSymbolsToUse
        /\ TurnShape(0, utSymbolsToUse - carrierSymbolsToUse)
     \/ /\ carrierSymbolsToUse > utSymbolsToUse
        /\ TurnShape(carrierSymbolsToUse, 0)

LEMMA SymbolsToUseType ==
  ASSUME CursorOK, rcs # <<>>
  PROVE  /\ SymbolsToUse \in Nat \ {0}
         /\ SymbolsToUse <= carrierSymbolsToUse /\ SymbolsToUse <= utSymbolsToUse
         /\ carrierSymbolsToUse \in Nat \ {0} /\ utSymbolsToUse \in Nat \ {0}
         /\ SymbolsToUse = (IF carrierSymbolsToUse <= utSymbolsToUse
                            THEN carrierSymbolsToUse ELSE utSymbolsToUse)
<1>1. carrierSymbolsToUse \in Nat \ {0} /\ utSymbolsToUse \in Nat \ {0}
  BY FrameAssumption DEF CursorOK
<1> QED BY <1>1 DEF SymbolsToUse, AtMost

\* Every turn is one of the two.
LEMMA Turn ==
  ASSUME CursorOK, rcs # <<>>, CtrlSlot \/ TrcSlot \/ NoSlot
  PROVE  (\E length : Entered(length)) \/ Lost
<1>1. /\ SymbolsToUse \in Nat \ {0}
      /\ SymbolsToUse <= carrierSymbolsToUse /\ SymbolsToUse <= utSymbolsToUse
      /\ carrierSymbolsToUse \in Nat \ {0} /\ utSymbolsToUse \in Nat \ {0}
      /\ SymbolsToUse = (IF carrierSymbolsToUse <= utSymbolsToUse
                         THEN carrierSymbolsToUse ELSE utSymbolsToUse)
  BY SymbolsToUseType
<1>2. ASSUME NEW length \in 1 .. SymbolsToUse, EnterSlot(length), Advance(AfterSlot(length))
      PROVE  Entered(length)
  <2>1. /\ AfterSlot(length).carrier = carrierSymbolsToUse - length
        /\ AfterSlot(length).ut = utSymbolsToUse - length
    BY DEF AfterSlot, Left
  <2>2. carrierSymbolsToUse - length \in Nat /\ utSymbolsToUse - length \in Nat
    BY <1>1
  <2>3. TurnShape(carrierSymbolsToUse - length, utSymbolsToUse - length)
    BY <1>2, <2>1, <2>2, AdvanceShape
  <2> QED BY <1>2, <2>3 DEF Entered, EnterSlot
<1>3. CASE CtrlSlot
  <2>1. RobustLength \in 1 .. SymbolsToUse
    BY <1>1, <1>3, SlotAssumption DEF CtrlSlot, CtrlSlotFits
  <2> QED BY <1>2, <1>3, <2>1 DEF CtrlSlot
<1>4. CASE TrcSlot
  <2>1. SlotLength \in 0 .. SymbolsToUse
    BY <1>1, BurstFits DEF SlotLength
  <2>2. SlotLength \in 1 .. SymbolsToUse
    BY <1>1, <1>4, <2>1 DEF TrcSlot
  <2> QED BY <1>2, <1>4, <2>2 DEF TrcSlot
<1>5. CASE NoSlot
  <2>1. CASE rcSymbolsLeft > 0
    <3>1. Advance(AfterRest) /\ UNCHANGED slots
      BY <1>5, <2>1 DEF NoSlot
    <3>2. CASE carrierSymbolsToUse <= utSymbolsToUse
      <4>1. AfterRest.carrier = 0 /\ AfterRest.ut = utSymbolsToUse - carrierSymbolsToUse
        BY <1>1, <3>2 DEF AfterRest, Left
      <4>2. AfterRest.carrier \in Nat /\ AfterRest.ut \in Nat
        BY <1>1, <3>2, <4>1
      <4>3. TurnShape(AfterRest.carrier, AfterRest.ut)
        BY <3>1, <4>2, AdvanceShape
      <4> QED BY <3>1, <3>2, <4>1, <4>3 DEF Lost
    <3>3. CASE carrierSymbolsToUse > utSymbolsToUse
      <4>1. AfterRest.carrier = carrierSymbolsToUse /\ AfterRest.ut = 0
        BY <1>1, <3>3 DEF AfterRest, Left
      <4>2. AfterRest.carrier \in Nat /\ AfterRest.ut \in Nat
        BY <1>1, <4>1
      <4>3. TurnShape(AfterRest.carrier, AfterRest.ut)
        BY <3>1, <4>2, AdvanceShape
      <4> QED BY <3>1, <3>3, <4>1, <4>3 DEF Lost
    <3> QED BY <1>1, <3>2, <3>3
  <2>2. CASE ~(rcSymbolsLeft > 0)
    <3> DEFINE left == Left(carrierSymbolsToUse, utSymbolsToUse, rcSymbolsLeft, utSymbolsLeft)
    <3>1. Advance(left) /\ UNCHANGED slots
      BY <1>5, <2>2 DEF NoSlot
    <3>2. left.carrier = carrierSymbolsToUse /\ left.ut = utSymbolsToUse /\ left.rc = rcSymbolsLeft
      BY DEF Left
    <3> HIDE DEF left
    <3>3. TurnShape(carrierSymbolsToUse, utSymbolsToUse)
      BY <1>1, <3>1, <3>2, AdvanceShape
    <3>4. rcs' \in {<<>>, Tail(rcs)}
      BY <2>2, <3>1, <3>2 DEF Advance
    <3> QED BY <3>1, <3>3, <3>4 DEF Lost
  <2> QED BY <2>1, <2>2
<1> QED BY <1>3, <1>4, <1>5

\* A turn keeps the lists of what is to come.
LEMMA CursorStep ==
  ASSUME AllocationsOK, CursorOK, rcs # <<>>, rcs \in Seq(Rc),
         NEW c \in 0 .. CarrierSymbols, NEW u \in 0 .. CarrierSymbols, TurnShape(c, u),
         UNCHANGED <<framesLeft, m_utAllocs>>
  PROVE  CursorOK' /\ rcs' \in Seq(Rc)
<1>1. uts # <<>> /\ carriers # <<>>
  BY DEF CursorOK
<1>2. /\ Tail(uts) \in Seq(AllocatedTo(frame)) /\ Distinct(Tail(uts))
      /\ Tail(carriers) \in Seq(Carrier) /\ Distinct(Tail(carriers))
  BY <1>1, TailDistinct DEF CursorOK
<1>3. AllocatedTo(frame)' = AllocatedTo(frame) /\ frame' = frame
  BY DEF AllocatedTo, TurnShape
<1>4. carrierSymbolsToUse' \in 1 .. CarrierSymbols
  BY FrameAssumption DEF TurnShape
<1>5. carriers' \in Seq(Carrier) /\ Distinct(carriers') /\ uts' \in Seq(AllocatedTo(frame)) /\ Distinct(uts')
  BY <1>2 DEF CursorOK, TurnShape
<1>6. rcs' # <<>> => uts' # <<>> /\ carriers' # <<>> /\ utSymbolsToUse' \in 1 .. CarrierSymbols
  BY <1>1 DEF TurnShape
<1>7. rcs' \in Seq(Rc)
  <2>1. Tail(rcs) \in Seq(Rc) /\ <<>> \in Seq(Rc)
    OBVIOUS
  <2> QED BY <2>1 DEF TurnShape
<1>8. /\ frame' \in Frame /\ framesLeft' \in Seq(Frame) /\ Distinct(framesLeft')
      /\ \A i \in DOMAIN framesLeft' : framesLeft'[i] # frame'
  BY <1>3 DEF CursorOK
<1> QED BY <1>3, <1>4, <1>5, <1>6, <1>7, <1>8 DEF CursorOK

\* The UTs to go after a turn.
LEMMA UtsAfterTurn ==
  ASSUME CursorOK, rcs # <<>>, UtsBehind, NEW c, NEW u, TurnShape(c, u),
         NEW s, s \in slots \/ s.ut = Head(uts), NEW i \in DOMAIN uts', s.ut = uts'[i]
  PROVE  i = 1 /\ rcs' # <<>>
<1>1. uts # <<>> /\ uts \in Seq(AllocatedTo(frame)) /\ Distinct(uts)
  BY DEF CursorOK
<1>2. /\ Head(uts) = uts[1] /\ 1 \in DOMAIN uts /\ DOMAIN Tail(uts) = 1 .. Len(uts) - 1
      /\ Len(uts) \in Nat \ {0}
      /\ \A j \in 1 .. Len(uts) - 1 : Tail(uts)[j] = uts[j + 1] /\ j + 1 \in DOMAIN uts
      /\ \A j \in DOMAIN Tail(uts) : Tail(uts)[j] # Head(uts)
  BY <1>1, TailDistinct
<1>3. \A j \in DOMAIN uts : s.ut = uts[j] => j = 1
  <2>1. CASE s \in slots
    BY <2>1 DEF UtsBehind
  <2>2. CASE s.ut = Head(uts)
    BY <1>1, <1>2, <2>2 DEF Distinct
  <2> QED BY <2>1, <2>2
<1>4. CASE uts' = uts /\ rcs' # <<>>
  BY <1>3, <1>4
<1>5. CASE uts' = Tail(uts)
  <2>1. i \in 1 .. Len(uts) - 1 /\ s.ut = uts[i + 1] /\ i + 1 \in DOMAIN uts
    BY <1>2, <1>5
  <2>2. i + 1 = 1
    BY <1>3, <2>1
  <2> QED BY <2>1, <2>2, <1>2
<1> QED BY <1>4, <1>5 DEF TurnShape

\* The carriers to go after a turn that leaves c symbols of the first one.
LEMMA CarriersAfterTurn ==
  ASSUME CursorOK, rcs # <<>>, NEW c \in 0 .. CarrierSymbols, NEW u, TurnShape(c, u),
         NEW s, NEW i \in DOMAIN carriers', s.carrier = carriers'[i],
         \A j \in DOMAIN carriers : s.carrier = carriers[j] => j = 1
  PROVE  i = 1 /\ c # 0 /\ Place' = CarrierSymbols - c /\ s.carrier = Head(carriers)
<1>1. carriers # <<>> /\ carriers \in Seq(Carrier) /\ Distinct(carriers)
  BY DEF CursorOK
<1>2. /\ Head(carriers) = carriers[1] /\ 1 \in DOMAIN carriers
      /\ DOMAIN Tail(carriers) = 1 .. Len(carriers) - 1
      /\ Len(carriers) \in Nat \ {0}
      /\ \A j \in 1 .. Len(carriers) - 1 : Tail(carriers)[j] = carriers[j + 1] /\ j + 1 \in DOMAIN carriers
  BY <1>1, TailDistinct
<1>3. c # 0
  <2> SUFFICES ASSUME c = 0 PROVE FALSE
    OBVIOUS
  <2>1. carriers' = Tail(carriers)
    BY DEF TurnShape
  <2>2. i \in 1 .. Len(carriers) - 1 /\ s.carrier = carriers[i + 1] /\ i + 1 \in DOMAIN carriers
    BY <1>2, <2>1
  <2>3. i + 1 = 1
    BY <2>2
  <2> QED BY <2>2, <2>3, <1>2
<1>4. carriers' = carriers /\ carrierSymbolsToUse' = c
  BY <1>3 DEF TurnShape
<1> QED BY <1>2, <1>3, <1>4 DEF Place

\* The current UT's slots after a turn that leaves c symbols of the carrier and u
\* of the UT's time, when they are where they may be for c and u.
LEMMA UtAfterTurn ==
  ASSUME NEW s, SlotOK(s), carriers # <<>>,
         NEW c \in 0 .. CarrierSymbols, NEW u \in 0 .. CarrierSymbols, TurnShape(c, u),
         c = 0 => u < CarrierSymbols,
         IF u >= c
         THEN s.start + c >= u /\ s.start + s.length <= CarrierSymbols - c
         ELSE s.start + s.length <= CarrierSymbols - c \/ s.start >= CarrierSymbols - c + u
  PROVE  IF utSymbolsToUse' >= carrierSymbolsToUse'
         THEN s.start + carrierSymbolsToUse' >= utSymbolsToUse' /\ s.start + s.length <= Place'
         ELSE s.start + s.length <= Place' \/ s.start >= Place' + utSymbolsToUse'
<1>1. /\ s.start \in Nat /\ s.length \in Nat /\ CarrierSymbols \in Nat \ {0}
      /\ s.start + s.length <= CarrierSymbols
  BY FrameAssumption DEF SlotOK
<1>2. utSymbolsToUse' = u /\ carrierSymbolsToUse' = (IF c = 0 THEN CarrierSymbols ELSE c)
  BY DEF TurnShape
<1>3. Place' = CarrierSymbols - carrierSymbolsToUse'
  BY DEF Place
<1>4. CASE c = 0
  <2>1. u < CarrierSymbols /\ Place' = 0 /\ carrierSymbolsToUse' = CarrierSymbols /\ u \in Nat
    BY <1>1, <1>2, <1>3, <1>4
  <2>2. s.start >= u
    BY <1>1, <1>4
  <2> QED BY <1>1, <1>2, <2>1, <2>2
<1>5. CASE c # 0
  BY <1>1, <1>2, <1>3, <1>5
<1> QED BY <1>4, <1>5

\* A turn of the loop keeps the layout, and no slot it enters clashes.
LEMMA EnteredStep ==
  ASSUME AllocationsOK, SlotsInv, phase = "slots", rcs # <<>>, NEW length, Entered(length),
         UNCHANGED <<framesLeft, m_utAllocs, phase>>
  PROVE  SlotsInv'
<1> DEFINE new == NewSlot(length)
           c == carrierSymbolsToUse - length
           u == utSymbolsToUse - length
<1>1. /\ CursorOK /\ CarriersBehind /\ UtsBehind /\ FramesBehind /\ CurrentUt
      /\ rcs \in Seq(Rc) /\ \A s \in slots : SlotOK(s)
  BY DEF SlotsInv, Layout
<1>2. /\ length \in Nat \ {0} /\ length <= carrierSymbolsToUse /\ length <= utSymbolsToUse
      /\ carrierSymbolsToUse \in 1 .. CarrierSymbols /\ utSymbolsToUse \in 1 .. CarrierSymbols
      /\ CarrierSymbols \in Nat \ {0}
  <2>1. length \in 1 .. SymbolsToUse
    BY DEF Entered
  <2> QED BY <1>1, <2>1, SymbolsToUseType, FrameAssumption DEF CursorOK
<1>3. /\ c \in 0 .. CarrierSymbols /\ u \in 0 .. CarrierSymbols /\ TurnShape(c, u)
      /\ c = 0 => u < CarrierSymbols
  BY <1>2 DEF Entered
<1>4. /\ slots' = slots \cup {new} /\ new.ut = Head(uts) /\ new.frame = frame
      /\ new.carrier = Head(carriers) /\ new.start = Place /\ new.length = length
      /\ Place \in 0 .. CarrierSymbols - 1 /\ Place = CarrierSymbols - carrierSymbolsToUse
  BY <1>2 DEF Entered, NewSlot, Place
<1> HIDE DEF new, c, u
<1>5. CursorOK' /\ rcs' \in Seq(Rc)
  BY <1>1, <1>3, CursorStep
<1>6. /\ uts # <<>> /\ carriers # <<>> /\ Head(uts) \in AllocatedTo(frame) /\ frame \in Frame
      /\ Head(carriers) = carriers[1] /\ 1 \in DOMAIN carriers
      /\ uts[1] = Head(uts) /\ 1 \in DOMAIN uts
      /\ \A i, j \in DOMAIN carriers : i # j => carriers[i] # carriers[j]
  <2>1. /\ uts # <<>> /\ carriers # <<>> /\ frame \in Frame
        /\ uts \in Seq(AllocatedTo(frame)) /\ carriers \in Seq(Carrier)
        /\ Distinct(carriers) /\ Distinct(uts)
    BY <1>1 DEF CursorOK
  <2>2. Head(carriers) = carriers[1] /\ 1 \in DOMAIN carriers
    BY <2>1, TailDistinct
  <2>3. Head(uts) \in AllocatedTo(frame) /\ uts[1] = Head(uts) /\ 1 \in DOMAIN uts
    BY <2>1, TailDistinct
  <2> QED BY <2>1, <2>2, <2>3 DEF Distinct
<1>7. SlotOK(new)
  BY <1>2, <1>4, <1>6 DEF SlotOK
<1>8. \A s \in slots' : SlotOK(s) /\ SlotOK(s)'
  BY <1>1, <1>4, <1>7 DEF SlotOK, AllocatedTo
<1>9. \A s \in slots : s.ut = Head(uts) \/ (s.frame = frame /\ s.carrier = Head(carriers)) =>
        s.start + s.length <= Place \/ s.start >= Place + length
  <2> SUFFICES ASSUME NEW s \in slots, s.ut = Head(uts) \/ (s.frame = frame /\ s.carrier = Head(carriers))
               PROVE  s.start + s.length <= Place \/ s.start >= Place + length
    OBVIOUS
  <2>1. s.start \in Nat /\ s.length \in Nat
    BY <1>1 DEF SlotOK
  <2>2. CASE s.ut = Head(uts)
    <3>1. \/ s.start + s.length <= Place
          \/ s.start >= Place + utSymbolsToUse
      BY <1>1, <2>2 DEF CurrentUt
    <3> QED BY <1>2, <1>4, <2>1, <3>1
  <2>3. CASE s.frame = frame /\ s.carrier = Head(carriers)
    BY <1>1, <1>6, <2>3 DEF CarriersBehind
  <2> QED BY <2>2, <2>3
<1>10. NoTwoClash'
  <2>1. ASSUME NEW s \in slots, s.ut = new.ut \/ (s.frame = new.frame /\ s.carrier = new.carrier)
        PROVE  ~Overlap(s, new) /\ ~Overlap(new, s)
    <3>1. s.start \in Nat /\ s.length \in Nat
      BY <1>1 DEF SlotOK
    <3>2. s.start + s.length <= new.start \/ s.start >= new.start + new.length
      BY <1>4, <1>9, <2>1
    <3> QED BY <1>2, <1>4, <3>1, <3>2 DEF Overlap
  <2>2. NoTwoClash
    BY DEF SlotsInv
  <2> QED BY <1>4, <2>1, <2>2 DEF NoTwoClash, Overlap
<1>11. CarriersBehind'
  <2> SUFFICES ASSUME NEW s \in slots', s.frame = frame', NEW i \in DOMAIN carriers',
                      s.carrier = carriers'[i]
               PROVE  i = 1 /\ s.start + s.length <= Place'
    BY DEF CarriersBehind
  <2>1. \A j \in DOMAIN carriers : s.carrier = carriers[j] => j = 1
    BY <1>1, <1>3, <1>4, <1>6 DEF CarriersBehind, TurnShape
  <2>2. i = 1 /\ c # 0 /\ Place' = CarrierSymbols - c /\ s.carrier = Head(carriers)
    BY <1>1, <1>3, <2>1, CarriersAfterTurn
  <2>3. Place' = Place + length
    BY <1>2, <1>4, <2>2 DEF c
  <2>4. CASE s = new
    <3>1. s.start + s.length = Place'
      BY <1>4, <2>3, <2>4
    <3>2. Place' \in Int
      BY <1>2, <1>4, <2>3
    <3> QED BY <2>2, <3>1, <3>2
  <2>5. CASE s \in slots
    <3>1. s.start + s.length <= Place /\ s.start \in Nat /\ s.length \in Nat
      BY <1>1, <1>3, <1>6, <2>2, <2>5 DEF CarriersBehind, SlotOK, TurnShape
    <3> QED BY <1>2, <1>4, <2>2, <2>3, <3>1
  <2> QED BY <1>4, <2>4, <2>5
<1>12. UtsBehind'
  <2> SUFFICES ASSUME NEW s \in slots', NEW i \in DOMAIN uts', s.ut = uts'[i]
               PROVE  i = 1 /\ rcs' # <<>>
    BY DEF UtsBehind
  <2>1. s \in slots \/ s.ut = Head(uts)
    BY <1>4
  <2> QED BY <1>1, <1>3, <2>1, UtsAfterTurn
<1>13. FramesBehind'
  BY <1>1, <1>4 DEF FramesBehind, CursorOK
<1>14. CurrentUt'
  <2> SUFFICES ASSUME rcs' # <<>>, NEW s \in slots', s.ut = Head(uts')
               PROVE  IF utSymbolsToUse' >= carrierSymbolsToUse'
                      THEN s.start + carrierSymbolsToUse' >= utSymbolsToUse' /\ s.start + s.length <= Place'
                      ELSE s.start + s.length <= Place' \/ s.start >= Place' + utSymbolsToUse'
    BY DEF CurrentUt
  <2>1. uts' = uts
    BY <1>3 DEF TurnShape
  <2>2. s.start \in Nat /\ s.length \in Nat /\ SlotOK(s)
    BY <1>8 DEF SlotOK
  <2>3. IF u >= c
        THEN s.start + c >= u /\ s.start + s.length <= CarrierSymbols - c
        ELSE s.start + s.length <= CarrierSymbols - c \/ s.start >= CarrierSymbols - c + u
    <3>1. CASE s = new
      BY <1>2, <1>4, <3>1 DEF c, u
    <3>2. CASE s \in slots
      <4>1. IF utSymbolsToUse >= carrierSymbolsToUse
            THEN s.start + carrierSymbolsToUse >= utSymbolsToUse /\ s.start + s.length <= Place
            ELSE s.start + s.length <= Place \/ s.start >= Place + utSymbolsToUse
        BY <1>1, <2>1, <3>2 DEF CurrentUt
      <4> QED BY <1>2, <1>4, <2>2, <4>1 DEF c, u
    <3> QED BY <1>4, <3>1, <3>2
  <2> QED BY <1>3, <1>6, <2>2, <2>3, UtAfterTurn
<1> QED BY <1>5, <1>8, <1>10, <1>11, <1>12, <1>13, <1>14 DEF SlotsInv, Layout

LEMMA LostStep ==
  ASSUME AllocationsOK, SlotsInv, phase = "slots", rcs # <<>>, Lost,
         UNCHANGED <<framesLeft, m_utAllocs, phase>>
  PROVE  SlotsInv'
<1>1. /\ CursorOK /\ CarriersBehind /\ UtsBehind /\ FramesBehind /\ CurrentUt
      /\ rcs \in Seq(Rc) /\ NoTwoClash /\ \A s \in slots : SlotOK(s)
  BY DEF SlotsInv, Layout
<1>2. /\ carrierSymbolsToUse \in 1 .. CarrierSymbols /\ utSymbolsToUse \in 1 .. CarrierSymbols
      /\ CarrierSymbols \in Nat \ {0} /\ carriers # <<>> /\ slots' = slots
  BY <1>1, FrameAssumption DEF CursorOK, Lost
<1>3. PICK c \in 0 .. CarrierSymbols, u \in 0 .. CarrierSymbols :
        /\ TurnShape(c, u)
        /\ \/ c = carrierSymbolsToUse /\ u = utSymbolsToUse
           \/ c = 0 /\ u = utSymbolsToUse - carrierSymbolsToUse
           \/ c = carrierSymbolsToUse /\ u = 0
  <2>1. carrierSymbolsToUse <= utSymbolsToUse => utSymbolsToUse - carrierSymbolsToUse \in 0 .. CarrierSymbols
    BY <1>2
  <2>2. 0 \in 0 .. CarrierSymbols /\ carrierSymbolsToUse \in 0 .. CarrierSymbols /\ utSymbolsToUse \in 0 .. CarrierSymbols
    BY <1>2
  <2> QED BY <2>1, <2>2 DEF Lost
<1>4. CursorOK' /\ rcs' \in Seq(Rc)
  BY <1>1, <1>3, CursorStep
<1>5. \A s \in slots : SlotOK(s)' /\ s.start \in Nat /\ s.length \in Nat
  BY <1>1 DEF SlotOK, AllocatedTo
<1>6. CarriersBehind'
  <2> SUFFICES ASSUME NEW s \in slots, s.frame = frame', NEW i \in DOMAIN carriers',
                      s.carrier = carriers'[i]
               PROVE  i = 1 /\ s.start + s.length <= Place'
    BY <1>2 DEF CarriersBehind
  <2>1. s.frame = frame
    BY <1>3 DEF TurnShape
  <2>2. \A j \in DOMAIN carriers : s.carrier = carriers[j] => j = 1 /\ s.start + s.length <= Place
    BY <1>1, <2>1 DEF CarriersBehind
  <2>3. i = 1 /\ c # 0 /\ Place' = CarrierSymbols - c /\ s.carrier = Head(carriers)
    BY <1>1, <1>3, <2>2, CarriersAfterTurn
  <2>4. c = carrierSymbolsToUse
    BY <1>3, <2>3
  <2>5. Head(carriers) = carriers[1] /\ 1 \in DOMAIN carriers
    BY <1>1, <1>2, TailDistinct DEF CursorOK
  <2> QED BY <2>2, <2>3, <2>4, <2>5 DEF Place
<1>7. UtsBehind'
  <2> SUFFICES ASSUME NEW s \in slots, NEW i \in DOMAIN uts', s.ut = uts'[i]
               PROVE  i = 1 /\ rcs' # <<>>
    BY <1>2 DEF UtsBehind
  <2> QED BY <1>1, <1>3, UtsAfterTurn
<1>8. FramesBehind'
  BY <1>1, <1>2 DEF FramesBehind
<1>9. CurrentUt'
  <2> SUFFICES ASSUME rcs' # <<>>, NEW s \in slots, s.ut = Head(uts')
               PROVE  IF utSymbolsToUse' >= carrierSymbolsToUse'
                      THEN s.start + carrierSymbolsToUse' >= utSymbolsToUse' /\ s.start + s.length <= Place'
                      ELSE s.start + s.length <= Place' \/ s.start >= Place' + utSymbolsToUse'
    BY <1>2 DEF CurrentUt
  <2>1. uts' = uts /\ u > 0
    BY <1>3 DEF TurnShape
  <2>2. s.start \in Nat /\ s.length \in Nat /\ s.start + s.length <= CarrierSymbols
    BY <1>1 DEF SlotOK
  <2>3. IF utSymbolsToUse >= carrierSymbolsToUse
        THEN s.start + carrierSymbolsToUse >= utSymbolsToUse /\ s.start + s.length <= Place
        ELSE s.start + s.length <= Place \/ s.start >= Place + utSymbolsToUse
    BY <1>1, <2>1 DEF CurrentUt
  <2>4. IF u >= c
        THEN s.start + c >= u /\ s.start + s.length <= CarrierSymbols - c
        ELSE s.start + s.length <= CarrierSymbols - c \/ s.start >= CarrierSymbols - c + u
    <3>1. CASE c = carrierSymbolsToUse /\ u = utSymbolsToUse
      BY <1>2, <2>2, <2>3, <3>1 DEF Place
    <3>2. CASE c = 0 /\ u = utSymbolsToUse - carrierSymbolsToUse
      BY <1>2, <2>1, <2>2, <2>3, <3>2 DEF Place
    <3> QED BY <1>3, <2>1, <3>1, <3>2
  <2>5. c = 0 => u < CarrierSymbols
    BY <1>2, <1>3
  <2> QED BY <1>1, <1>2, <1>3, <2>4, <2>5, UtAfterTurn
<1>10. NoTwoClash'
  BY <1>1, <1>2 DEF NoTwoClash, Overlap
<1>11. phase' = "slots"
  OBVIOUS
<1> QED BY <1>2, <1>4, <1>5, <1>6, <1>7, <1>8, <1>9, <1>10, <1>11 DEF SlotsInv, Layout

LEMMA SlotsInit_ == Init => SlotsInv
  BY DEF Init, SlotsInit, SlotsInv, NoTwoClash

\* A frame is begun: nothing of it is laid out.
LEMMA FrameBegun ==
  ASSUME AllocationsOK, SlotsInv, rcs = <<>>,
         NEW order \in Seq(Frame), order # <<>>, Distinct(order),
         \A s \in slots, i \in DOMAIN order : s.frame # order[i],
         StartFrame(Head(order)), framesLeft' = Tail(order), phase' = "slots",
         UNCHANGED m_utAllocs
  PROVE  SlotsInv'
<1>1. /\ Tail(order) \in Seq(Frame) /\ Distinct(Tail(order))
      /\ Head(order) = order[1] /\ Head(order) \in Frame /\ 1 \in DOMAIN order
      /\ DOMAIN Tail(order) = 1 .. Len(order) - 1
      /\ \A i \in 1 .. Len(order) - 1 : Tail(order)[i] = order[i + 1] /\ i + 1 \in DOMAIN order
      /\ \A i \in DOMAIN Tail(order) : Tail(order)[i] # Head(order)
  BY TailDistinct
<1>2. /\ frame' = Head(order) /\ uts' \in SetToSeqs(AllocatedTo(Head(order)))
      /\ carriers' \in SetToSeqs(Carrier) /\ carrierSymbolsToUse' = CarrierSymbols
      /\ slots' = slots /\ rcs' = rcs
  BY DEF StartFrame
<1>3. IsFiniteSet(AllocatedTo(Head(order))) /\ IsFiniteSet(Carrier)
  BY <1>1, FrameAssumption, FS_Subset DEF AllocationsOK
<1>4. uts' \in Seq(AllocatedTo(Head(order))) /\ Distinct(uts')
  BY <1>2, <1>3, OrderOf
<1>5. carriers' \in Seq(Carrier) /\ Distinct(carriers')
  BY <1>2, <1>3, OrderOf
<1>6. AllocatedTo(frame)' = AllocatedTo(Head(order))
  BY <1>2 DEF AllocatedTo
<1>7. CursorOK'
  BY <1>1, <1>2, <1>4, <1>5, <1>6, FrameAssumption DEF CursorOK
<1>8. \A s \in slots : s.frame # frame' /\ s.frame \in Frame /\ s.ut \in AllocatedTo(s.frame)
  BY <1>1, <1>2 DEF SlotsInv, SlotOK
<1>9. UtsBehind'
  <2> SUFFICES ASSUME NEW s \in slots, NEW i \in DOMAIN uts', s.ut = uts'[i] PROVE FALSE
    BY <1>2 DEF UtsBehind
  <2>1. s.ut \in AllocatedTo(Head(order)) /\ s.ut \in AllocatedTo(s.frame)
    BY <1>4, <1>8
  <2> QED BY <1>1, <1>2, <1>8, <2>1 DEF AllocationsOK
<1>10. CarriersBehind' /\ CurrentUt'
  BY <1>2, <1>8 DEF CarriersBehind, CurrentUt
<1>11. FramesBehind'
  <2> SUFFICES ASSUME NEW s \in slots, NEW i \in DOMAIN framesLeft' PROVE s.frame # framesLeft'[i]
    BY <1>2 DEF FramesBehind
  <2> QED BY <1>1
<1>12. \A s \in slots : SlotOK(s)'
  BY DEF SlotsInv, SlotOK, AllocatedTo
<1>13. NoTwoClash'
  BY <1>2 DEF SlotsInv, NoTwoClash, Overlap
<1> QED BY <1>2, <1>7, <1>9, <1>10, <1>11, <1>12, <1>13 DEF SlotsInv, Layout

\* A UT is begun: it has no slots yet.
LEMMA UtBegun ==
  ASSUME AllocationsOK, SlotsInv, phase = "slots", StartUt,
         UNCHANGED <<framesLeft, m_utAllocs, phase>>
  PROVE  SlotsInv'
<1>1. /\ CursorOK /\ CarriersBehind /\ UtsBehind /\ FramesBehind /\ rcs = <<>>
      /\ uts # <<>> /\ carriers # <<>>
      /\ utSymbolsToUse' = CarrierSymbols
      /\ UNCHANGED <<slots, frame, uts, carriers, carrierSymbolsToUse>>
  BY DEF SlotsInv, Layout, StartUt
<1>2. rcs' \in Seq(Rc) /\ rcs' # <<>>
  <2>1. PICK others \in SetToSeqs(Rc \ {0}) : rcs' = <<0>> \o others
    BY DEF StartUt
  <2>2. 0 \in Rc
    <3>1. Cardinality(Rc) \in Nat
      BY FrameAssumption, FS_CardinalityType
    <3> QED BY <3>1, FrameAssumption
  <2>3. IsFiniteSet(Rc \ {0})
    BY FrameAssumption, FS_Subset
  <2>4. others \in Seq(Rc \ {0})
    BY <2>3, OrderOf
  <2> QED BY <2>1, <2>2, <2>4
<1>3. CursorOK'
  BY <1>1, <1>2, FrameAssumption DEF CursorOK, AllocatedTo
<1>4. \A s \in slots : s.ut # Head(uts)
  <2>1. Head(uts) = uts[1] /\ 1 \in DOMAIN uts
    BY <1>1, TailDistinct DEF CursorOK
  <2> QED BY <1>1, <2>1 DEF UtsBehind
<1>5. CarriersBehind' /\ UtsBehind' /\ FramesBehind' /\ CurrentUt'
  BY <1>1, <1>2, <1>4 DEF CarriersBehind, UtsBehind, FramesBehind, CurrentUt, Place
<1>6. \A s \in slots : SlotOK(s)'
  BY DEF SlotsInv, SlotOK, AllocatedTo
<1>7. NoTwoClash'
  BY <1>1 DEF SlotsInv, NoTwoClash, Overlap
<1> QED BY <1>1, <1>2, <1>3, <1>5, <1>6, <1>7 DEF SlotsInv, Layout

\* A UT without an allocation is passed over.
LEMMA UtSkipped ==
  ASSUME AllocationsOK, SlotsInv, phase = "slots", SkipUt,
         UNCHANGED <<framesLeft, m_utAllocs, phase>>
  PROVE  SlotsInv'
<1>1. /\ CursorOK /\ CarriersBehind /\ UtsBehind /\ FramesBehind /\ rcs # <<>>
      /\ rcs' = <<>> /\ uts' = Tail(uts) /\ uts # <<>>
      /\ UNCHANGED <<slots, frame, carriers, carrierSymbolsToUse>>
  BY DEF SlotsInv, Layout, SkipUt, CursorOK
<1>2. /\ Tail(uts) \in Seq(AllocatedTo(frame)) /\ Distinct(Tail(uts))
      /\ DOMAIN Tail(uts) = 1 .. Len(uts) - 1
      /\ \A j \in 1 .. Len(uts) - 1 : Tail(uts)[j] = uts[j + 1] /\ j + 1 \in DOMAIN uts
  BY <1>1, TailDistinct DEF CursorOK
<1>3. CursorOK'
  BY <1>1, <1>2 DEF CursorOK, AllocatedTo
<1>4. UtsBehind'
  <2> SUFFICES ASSUME NEW s \in slots, NEW i \in DOMAIN Tail(uts), s.ut = Tail(uts)[i] PROVE FALSE
    BY <1>1 DEF UtsBehind
  <2>1. i \in 1 .. Len(uts) - 1 /\ s.ut = uts[i + 1] /\ i + 1 \in DOMAIN uts /\ i + 1 # 1
    BY <1>2
  <2> QED BY <1>1, <2>1 DEF UtsBehind
<1>5. CarriersBehind' /\ FramesBehind' /\ CurrentUt'
  BY <1>1 DEF CarriersBehind, FramesBehind, CurrentUt, Place
<1>6. \A s \in slots : SlotOK(s)'
  BY DEF SlotsInv, SlotOK, AllocatedTo
<1>7. NoTwoClash' /\ rcs' \in Seq(Rc)
  BY <1>1 DEF SlotsInv, NoTwoClash, Overlap
<1> QED BY <1>1, <1>3, <1>4, <1>5, <1>6, <1>7 DEF SlotsInv, Layout

LEMMA SlotsNext == AllocationsOK /\ SlotsInv /\ [Next]_vars => SlotsInv'
<1> SUFFICES ASSUME AllocationsOK, SlotsInv, [Next]_vars PROVE SlotsInv'
  OBVIOUS
<1> DEFINE layoutVars == <<slots, frame, framesLeft, uts, carriers, rcs, carrierSymbolsToUse, utSymbolsToUse>>
<1>1. ASSUME UNCHANGED <<layoutVars, m_utAllocs>>, phase' = phase PROVE SlotsInv'
  <2>1. \A s \in slots : SlotOK(s) => SlotOK(s)'
    BY <1>1 DEF SlotOK, AllocatedTo
  <2>2. Layout => Layout'
    BY <1>1 DEF Layout, CursorOK, CarriersBehind, UtsBehind, FramesBehind, CurrentUt, Place, AllocatedTo
  <2>3. NoTwoClash => NoTwoClash'
    BY <1>1 DEF NoTwoClash, Overlap
  <2> QED BY <1>1, <2>1, <2>2, <2>3 DEF SlotsInv
<1>2. ASSUME slots' = {}, rcs' = <<>>, phase' \in {"idle", "allocate", "channels"} PROVE SlotsInv'
  BY <1>2 DEF SlotsInv, NoTwoClash
<1>3. ASSUME NEW ut \in Ut, AddUtInfo(ut) \/ RemoveUtInfo(ut) PROVE SlotsInv'
  BY <1>1, <1>3 DEF AddUtInfo, RemoveUtInfo, frameVars, slotVars, cursorVars
<1>4. CASE Start
  BY <1>2, <1>4 DEF Start, slotVars, cursorVars, SlotsInv
<1>5. ASSUME NEW supported \in SUBSET Frame, AllocateToFrame(supported) PROVE SlotsInv'
  BY <1>2, <1>5 DEF AllocateToFrame, slotVars, cursorVars, SlotsInv
<1>6. CASE Share
  BY <1>2, <1>6 DEF Share, StartTbtps, cursorVars, SlotsInv
<1>7. CASE EnterRaChannel
  BY <1>2, <1>7 DEF EnterRaChannel, AddRaChannel, cursorVars, SlotsInv
<1>8. CASE StartFrames
  <2>1. PICK order \in SetToSeqs(Frame) : StartFrame(Head(order)) /\ framesLeft' = Tail(order)
    BY <1>8 DEF StartFrames
  <2>2. order \in Seq(Frame) /\ order # <<>> /\ Distinct(order)
    BY <2>1, FrameAssumption, OrderOf
  <2>3. rcs = <<>> /\ slots = {} /\ phase' = "slots" /\ UNCHANGED m_utAllocs
    BY <1>8 DEF StartFrames, SlotsInv, frameVars
  <2> QED BY <2>1, <2>2, <2>3, FrameBegun
<1>9. CASE NextFrame
  <2>1. /\ phase = "slots" /\ rcs = <<>> /\ framesLeft # <<>> /\ StartFrame(Head(framesLeft))
        /\ framesLeft' = Tail(framesLeft) /\ phase' = "slots" /\ UNCHANGED m_utAllocs
    BY <1>9 DEF NextFrame, FrameIsDone, frameVars
  <2>2. framesLeft \in Seq(Frame) /\ Distinct(framesLeft)
    BY <2>1 DEF SlotsInv, Layout, CursorOK
  <2>3. \A s \in slots, i \in DOMAIN framesLeft : s.frame # framesLeft[i]
    BY <2>1 DEF SlotsInv, Layout, FramesBehind
  <2> QED BY <2>1, <2>2, <2>3, FrameBegun
<1>10. CASE Slots
  <2>1. phase = "slots" /\ UNCHANGED <<framesLeft, m_utAllocs, phase>>
    BY <1>10 DEF Slots, frameVars, superframeVars
  <2>2. CASE StartUt
    BY <2>1, <2>2, UtBegun
  <2>3. CASE SkipUt
    BY <2>1, <2>3, UtSkipped
  <2>4. CASE CtrlSlot \/ TrcSlot \/ NoSlot
    <3>1. rcs # <<>> /\ CursorOK
      BY <2>1, <2>4 DEF CtrlSlot, TrcSlot, NoSlot, SlotsInv, Layout
    <3>2. (\E length : Entered(length)) \/ Lost
      BY <2>4, <3>1, Turn
    <3> QED BY <2>1, <3>1, <3>2, EnteredStep, LostStep
  <2> QED BY <1>10, <2>2, <2>3, <2>4 DEF Slots
<1>11. CASE SendTbtps
  <2>1. /\ rcs = <<>> /\ phase' = "sent" /\ UNCHANGED <<slots, rcs, m_utAllocs>>
    BY <1>11 DEF SendTbtps, FrameIsDone, slotVars, cursorVars, frameVars
  <2>2. \A s \in slots : SlotOK(s)'
    BY <2>1 DEF SlotsInv, SlotOK, AllocatedTo
  <2>3. NoTwoClash'
    BY <2>1 DEF SlotsInv, NoTwoClash, Overlap
  <2> QED BY <2>1, <2>2, <2>3 DEF SlotsInv
<1>12. CASE NextSuperframe
  BY <1>2, <1>12 DEF NextSuperframe
<1>13. CASE UNCHANGED vars
  BY <1>1, <1>13 DEF vars, frameVars, slotVars, cursorVars, superframeVars
<1> QED BY <1>3, <1>4, <1>5, <1>6, <1>7, <1>8, <1>9, <1>10, <1>11, <1>12, <1>13 DEF Next, Superframe

\* Every UT is allocated in one frame, and the slots are laid out as above.
THEOREM SuperframeInvariant == Spec => [](AllocationsOK /\ SlotsInv)
<1>1. Init => AllocationsOK /\ SlotsInv
  BY AllocationsInit, SlotsInit_
<1>2. AllocationsOK /\ SlotsInv /\ [Next]_vars => AllocationsOK' /\ SlotsInv'
  BY AllocationsNext, SlotsNext
<1> QED BY <1>1, <1>2, PTL DEF Spec

\* Two slots of a carrier or of a UT never overlap, and a slot ends with its
\* carrier.
THEOREM SlotsNeverClash == Spec => []SlotsDoNotClash
<1>1. SlotsInv => SlotsDoNotClash
  BY DEF SlotsInv, SlotOK, NoTwoClash, SlotsDoNotClash
<1> QED BY <1>1, SuperframeInvariant, PTL

\* The loop of GenerateTimeSlots over the slots of a UT ends.
THEOREM UtLoopAlwaysEnds == Spec => UtLoopEnds
<1> DEFINE Turned ==
      rcs # <<>> =>
        \/ uts' = Tail(uts) /\ rcs' = <<>>
        \/ /\ uts' = uts
           /\ rcs' # <<>>
           /\ utSymbolsToUse' \in 1 .. utSymbolsToUse
           /\ rcs' # rcs => rcs' = Tail(rcs)
           /\ Len(rcs') + utSymbolsToUse' < Len(rcs) + utSymbolsToUse
<1>1. SlotsInv /\ [Next]_vars => [Turned]_vars
  <2> SUFFICES ASSUME SlotsInv, Next, rcs # <<>> PROVE Turned
    OBVIOUS
  <2>1. phase = "slots" /\ CursorOK /\ rcs \in Seq(Rc)
    BY DEF SlotsInv, Layout
  <2>2. Slots
    BY <2>1 DEF Next, Superframe, AddUtInfo, RemoveUtInfo, Start, AllocateToFrame, Share,
       EnterRaChannel, StartFrames, NextFrame, SendTbtps, NextSuperframe, FrameIsDone
  <2>3. CASE SkipUt
    BY <2>3 DEF SkipUt
  <2>4. CASE CtrlSlot \/ TrcSlot \/ NoSlot
    <3>1. /\ carrierSymbolsToUse \in Nat \ {0} /\ utSymbolsToUse \in Nat \ {0}
          /\ Len(Tail(rcs)) = Len(rcs) - 1 /\ Len(rcs) \in Nat \ {0}
      BY <2>1, SymbolsToUseType
    <3>2. ASSUME NEW c, NEW u \in Nat, u < utSymbolsToUse, TurnShape(c, u) PROVE Turned
      <4>1. (Len(rcs') <= Len(rcs) /\ Len(rcs') \in Nat) \/ rcs' = <<>>
        BY <3>1, <3>2 DEF TurnShape
      <4> QED BY <3>1, <3>2, <4>1 DEF TurnShape
    <3>3. ASSUME NEW length, Entered(length) PROVE Turned
      <4>1. utSymbolsToUse - length \in Nat /\ utSymbolsToUse - length < utSymbolsToUse
        BY <2>1, <3>1, <3>3, SymbolsToUseType DEF Entered
      <4> QED BY <3>2, <3>3, <4>1 DEF Entered
    <3>4. CASE Lost
      <4>1. CASE carrierSymbolsToUse <= utSymbolsToUse /\ TurnShape(0, utSymbolsToUse - carrierSymbolsToUse)
        <5>1. /\ utSymbolsToUse - carrierSymbolsToUse \in Nat
              /\ utSymbolsToUse - carrierSymbolsToUse < utSymbolsToUse
          BY <3>1, <4>1
        <5> QED BY <3>2, <4>1, <5>1
      <4>2. CASE TurnShape(carrierSymbolsToUse, 0)
        BY <3>1, <3>2, <4>2
      <4>3. CASE TurnShape(carrierSymbolsToUse, utSymbolsToUse) /\ rcs' \in {<<>>, Tail(rcs)}
        BY <3>1, <4>3 DEF TurnShape
      <4> QED BY <3>4, <4>1, <4>2, <4>3 DEF Lost
    <3> QED BY <2>1, <2>4, <3>3, <3>4, Turn
  <2> QED BY <2>2, <2>3, <2>4 DEF Slots, StartUt
<1> QED BY <1>1, SuperframeInvariant, PTL DEF Spec, UtLoopEnds
-----------------------------------------------------------------------------
(***************************************************************************)
(* TBTPs.  With two random access channels the second may meet a TBTP with *)
(* less room than the frame's information takes; the unsigned difference   *)
(* is then huge and the TBTP outgrows a BBFrame.  With one, none does.     *)
(***************************************************************************)
OneRaChannel == RaChannels = <<>> \/ RaChannels = <<RaChannels[1]>>

RaFrames == {RaChannels[i].frame : i \in DOMAIN RaChannels}
Tbtp == [frames : SUBSET (Frame \cup RaFrames), count : Int]

AllFit(all) ==
  all \in Seq(Tbtp) /\ all # <<>> /\ \A i \in DOMAIN all : GetSizeInBytes(all[i]) <= MaxTbtpSize

TbtpsInv ==
  /\ tbtps \in Seq(Tbtp)
  /\ \A i \in DOMAIN tbtps : GetSizeInBytes(tbtps[i]) <= MaxTbtpSize
  /\ phase \in {"channels", "slots"} => tbtps # <<>>
  /\ phase = "channels" =>
       channelsLeft = <<>> \/ (channelsLeft = RaChannels /\ tbtps = <<EmptyTbtp>>)
  /\ phase = "slots" /\ rcs # <<>> =>
       \/ frame \in Last(tbtps).frames
       \/ GetSizeInBytes(Last(tbtps)) + (SlotSize + FrameSize) <= MaxTbtpSize

LEMMA Sizes ==
  /\ BodySize \in Nat /\ FrameSize \in Nat /\ SlotSize \in Nat \ {0} /\ MaxTbtpSize \in Nat
  /\ BodySize + FrameSize + SlotSize <= MaxTbtpSize
  BY SlotAssumption

\* The size of a TBTP, when slots of a frame are added.
LEMMA SizeWithSlots ==
  ASSUME OneRaChannel, NEW t \in Tbtp, NEW f \in Frame \cup RaFrames, NEW n \in Int
  PROVE  /\ GetSizeInBytes(t) \in Int /\ WithSlots(t, f, n) \in Tbtp
         /\ f \in WithSlots(t, f, n).frames
         /\ GetSizeInBytes(WithSlots(t, f, n))
              = GetSizeInBytes(t) + (IF f \in t.frames THEN 0 ELSE FrameSize) + n * SlotSize
<1> DEFINE w == WithSlots(t, f, n)
           k == Cardinality(t.frames)
           l == Cardinality(t.frames \cup {f})
<1>1. /\ t.frames \in SUBSET (Frame \cup RaFrames) /\ t.count \in Int
      /\ w.frames = t.frames \cup {f} /\ w.count = t.count + n /\ w \in Tbtp
  BY DEF Tbtp, WithSlots
<1>2. IsFiniteSet(Frame \cup RaFrames)
  <2>1. RaFrames = {} \/ RaFrames = {RaChannels[1].frame}
    <3>1. CASE RaChannels = <<>>
      BY <3>1 DEF RaFrames
    <3>2. CASE RaChannels = <<RaChannels[1]>>
      <4>1. DOMAIN RaChannels = {1}
        BY <3>2
      <4> QED BY <4>1 DEF RaFrames
    <3> QED BY <3>1, <3>2 DEF OneRaChannel
  <2>2. IsFiniteSet({}) /\ IsFiniteSet({RaChannels[1].frame})
    BY FS_EmptySet, FS_Singleton
  <2>3. IsFiniteSet(RaFrames)
    BY <2>1, <2>2
  <2> QED BY <2>3, FrameAssumption, FS_Union
<1>3. IsFiniteSet(t.frames) /\ k \in Nat
  BY <1>1, <1>2, FS_Subset, FS_CardinalityType
<1>4. l = IF f \in t.frames THEN k ELSE k + 1
  BY <1>3, FS_AddElement
<1> HIDE DEF k, l, w
<1>5. /\ GetSizeInBytes(t) = BodySize + k * FrameSize + t.count * SlotSize
      /\ GetSizeInBytes(w) = BodySize + l * FrameSize + (t.count + n) * SlotSize
  BY <1>1 DEF GetSizeInBytes, k, l
<1>6. /\ (k + 1) * FrameSize = k * FrameSize + FrameSize
      /\ k * FrameSize \in Int
  BY <1>3, Sizes, TimesType
<1>7. /\ (t.count + n) * SlotSize = t.count * SlotSize + n * SlotSize
      /\ t.count * SlotSize \in Int /\ n * SlotSize \in Int
  BY <1>1, Sizes, TimesType
<1>8. GetSizeInBytes(w) = GetSizeInBytes(t) + (IF f \in t.frames THEN 0 ELSE FrameSize) + n * SlotSize
  <2>1. CASE f \in t.frames
    BY <1>4, <1>5, <1>6, <1>7, <2>1, Sizes
  <2>2. CASE f \notin t.frames
    BY <1>4, <1>5, <1>6, <1>7, <2>2, Sizes
  <2> QED BY <2>1, <2>2
<1>9. GetSizeInBytes(t) \in Int
  BY <1>5, <1>6, <1>7, Sizes
<1> QED BY <1>1, <1>8, <1>9 DEF w

LEMMA EmptySize ==
  EmptyTbtp \in Tbtp /\ GetSizeInBytes(EmptyTbtp) = BodySize /\ EmptyTbtp.frames = {}
<1>1. Cardinality({}) = 0
  BY FS_EmptySet
<1> QED BY <1>1, Sizes DEF EmptyTbtp, Tbtp, GetSizeInBytes

\* CreateNewTbtp leaves room for what is to come.
LEMMA RoomInFits ==
  ASSUME OneRaChannel, NEW all, AllFit(all), NEW size \in Nat, BodySize + size <= MaxTbtpSize
  PROVE  /\ AllFit(RoomIn(all, size))
         /\ GetSizeInBytes(Last(RoomIn(all, size))) + size <= MaxTbtpSize
         /\ RoomIn(all, size) = all \/ Last(RoomIn(all, size)) = EmptyTbtp
<1>1. /\ all \in Seq(Tbtp) /\ all # <<>> /\ Len(all) \in Nat \ {0} /\ DOMAIN all = 1 .. Len(all)
      /\ Last(all) = all[Len(all)] /\ Last(all) \in Tbtp
  BY DEF AllFit, Last
<1>2. CASE GetSizeInBytes(Last(all)) + size > MaxTbtpSize
  <2> DEFINE r == Append(all, EmptyTbtp)
  <2>1. RoomIn(all, size) = r
    BY <1>2 DEF RoomIn
  <2>2. /\ r \in Seq(Tbtp) /\ Len(r) = Len(all) + 1 /\ r # <<>> /\ DOMAIN r = 1 .. Len(all) + 1
        /\ \A i \in 1 .. Len(all) : r[i] = all[i]
        /\ r[Len(all) + 1] = EmptyTbtp
    BY <1>1, EmptySize
  <2> HIDE DEF r
  <2>3. \A i \in DOMAIN r : GetSizeInBytes(r[i]) <= MaxTbtpSize
    <3>1. \A i \in DOMAIN r : i \in 1 .. Len(all) \/ i = Len(all) + 1
      BY <1>1, <2>2
    <3>2. BodySize <= MaxTbtpSize
      BY Sizes
    <3> QED BY <1>1, <2>2, <3>1, <3>2, EmptySize DEF AllFit
  <2>4. Last(r) = EmptyTbtp
    BY <2>2 DEF Last
  <2> QED BY <2>1, <2>2, <2>3, <2>4, EmptySize DEF AllFit
<1>3. CASE ~(GetSizeInBytes(Last(all)) + size > MaxTbtpSize)
  <2>1. RoomIn(all, size) = all
    BY <1>3 DEF RoomIn
  <2>2. GetSizeInBytes(Last(all)) \in Int
    BY <1>1, FrameAssumption, SizeWithSlots
  <2> QED BY <1>3, <2>1, <2>2, Sizes
<1> QED BY <1>2, <1>3

\* A slot is entered into the last TBTP.
LEMMA SlotFits ==
  ASSUME OneRaChannel, AllFit(tbtps), NEW length, EnterSlot(length), frame \in Frame,
         \/ frame \in Last(tbtps).frames
         \/ GetSizeInBytes(Last(tbtps)) + (SlotSize + FrameSize) <= MaxTbtpSize
  PROVE  AllFit(tbtps') /\ frame \in Last(tbtps').frames
<1> DEFINE all == RoomIn(tbtps, SlotSize)
           w == WithSlots(Last(all), frame, 1)
<1>1. BodySize + SlotSize <= MaxTbtpSize /\ SlotSize \in Nat
  BY Sizes
<1>2. /\ AllFit(all) /\ GetSizeInBytes(Last(all)) + SlotSize <= MaxTbtpSize
      /\ all = tbtps \/ Last(all) = EmptyTbtp
  BY <1>1, RoomInFits
<1>3. tbtps' = [all EXCEPT ![Len(all)] = w]
  BY DEF EnterSlot, Last
<1> HIDE DEF all
<1>4. /\ all \in Seq(Tbtp) /\ Len(all) \in Nat \ {0} /\ DOMAIN all = 1 .. Len(all)
      /\ Last(all) \in Tbtp
  BY <1>2 DEF AllFit, Last
<1>5. /\ GetSizeInBytes(Last(all)) \in Int /\ w \in Tbtp /\ frame \in w.frames
      /\ GetSizeInBytes(w)
           = GetSizeInBytes(Last(all)) + (IF frame \in Last(all).frames THEN 0 ELSE FrameSize) + 1 * SlotSize
  BY <1>4, SizeWithSlots
<1> HIDE DEF w
<1>6. GetSizeInBytes(w) <= MaxTbtpSize
  <2>1. CASE frame \in Last(all).frames
    BY <1>2, <1>5, <2>1, Sizes
  <2>2. CASE frame \notin Last(all).frames
    <3>1. GetSizeInBytes(Last(all)) + (SlotSize + FrameSize) <= MaxTbtpSize
      BY <1>2, <2>2, Sizes, EmptySize
    <3> QED BY <1>5, <2>2, <3>1, Sizes
  <2> QED BY <2>1, <2>2
<1>7. /\ tbtps' \in Seq(Tbtp) /\ Len(tbtps') = Len(all) /\ DOMAIN tbtps' = DOMAIN all /\ tbtps' # <<>>
      /\ \A i \in DOMAIN all : tbtps'[i] = IF i = Len(all) THEN w ELSE all[i]
  BY <1>3, <1>4, <1>5
<1>8. \A i \in DOMAIN tbtps' : GetSizeInBytes(tbtps'[i]) <= MaxTbtpSize
  BY <1>2, <1>6, <1>7 DEF AllFit
<1>9. Last(tbtps') = w
  BY <1>4, <1>7 DEF Last
<1> QED BY <1>5, <1>7, <1>8, <1>9 DEF AllFit

\* The slots of the one random access channel fit.
LEMMA ChannelFits ==
  ASSUME OneRaChannel, tbtps = <<EmptyTbtp>>, NEW f \in RaFrames, NEW count \in Nat \ {0},
         AddRaChannel(f, count)
  PROVE  AllFit(tbtps')
<1> DEFINE each == RaRoom(EmptyTbtp)
           now == AtMost(count, each)
           m == (count - now + each - 1) \div each
           new == [i \in 1 .. m |-> WithSlots(EmptyTbtp, f, AtMost(each, count - now - (i - 1) * each))]
           w == WithSlots(EmptyTbtp, f, now)
           room == MaxTbtpSize - BodySize - FrameSize
<1>1. each = room \div SlotSize /\ room \in Nat /\ room >= SlotSize
  BY Sizes, EmptySize DEF RaRoom
<1>2. each \in Nat \ {0} /\ each * SlotSize <= room
  <2> HIDE DEF room
  <2>1. /\ room = (room \div SlotSize) * SlotSize + (room % SlotSize)
        /\ room \div SlotSize \in Int /\ room % SlotSize \in 0 .. SlotSize - 1
    BY <1>1, Sizes, DivModSplit, DivModType
  <2> DEFINE q == room \div SlotSize
  <2>2. q \in Int /\ room = q * SlotSize + (room % SlotSize)
    BY <2>1
  <2>3. q * SlotSize \in Int
    BY <2>2, Sizes, TimesType
  <2>4. q * SlotSize <= room
    BY <2>1, <2>2, <2>3, <1>1
  <2>5. q >= 1
    <3> SUFFICES ASSUME q < 1 PROVE FALSE
      BY <2>2
    <3>1. q * SlotSize + SlotSize <= 1 * SlotSize
      BY <2>2, Sizes, TimesMonotonic
    <3> HIDE DEF q
    <3> QED BY <1>1, <2>1, <2>2, <2>3, <3>1, Sizes
  <2> HIDE DEF q
  <2>6. each = q
    BY <1>1 DEF q
  <2> QED BY <2>2, <2>4, <2>5, <2>6
<1>3. tbtps' = [tbtps EXCEPT ![Len(tbtps)] = WithSlots(@, f, now)] \o new
  <2>1. Last(tbtps) = EmptyTbtp
    BY DEF Last
  <2> QED BY <2>1, Zenon DEF AddRaChannel
<1>4. [tbtps EXCEPT ![Len(tbtps)] = WithSlots(@, f, now)] = <<w>>
  OBVIOUS
<1> HIDE DEF each, room, now, m, new
<1>5. ASSUME NEW n \in Int, n <= each
      PROVE  /\ WithSlots(EmptyTbtp, f, n) \in Tbtp
             /\ GetSizeInBytes(WithSlots(EmptyTbtp, f, n)) <= MaxTbtpSize
  <2>1. /\ WithSlots(EmptyTbtp, f, n) \in Tbtp
        /\ GetSizeInBytes(WithSlots(EmptyTbtp, f, n)) = BodySize + FrameSize + n * SlotSize
    <3> DEFINE t == EmptyTbtp
               v == WithSlots(t, f, n)
    <3>1. t \in Tbtp /\ GetSizeInBytes(t) = BodySize /\ t.frames = {} /\ f \in Frame \cup RaFrames
      BY EmptySize
    <3> HIDE DEF t
    <3>2. /\ v \in Tbtp
          /\ GetSizeInBytes(v) = GetSizeInBytes(t) + (IF f \in t.frames THEN 0 ELSE FrameSize) + n * SlotSize
      BY <3>1, <1>5, SizeWithSlots, SMTT(30)
    <3> HIDE DEF v
    <3>3. v \in Tbtp /\ GetSizeInBytes(v) = BodySize + FrameSize + n * SlotSize
      BY <3>1, <3>2
    <3> QED BY <3>3 DEF v, t
  <2>2. n * SlotSize <= each * SlotSize
    <3>1. CASE n < each
      <4>1. n * SlotSize + SlotSize <= each * SlotSize /\ n * SlotSize \in Int /\ each * SlotSize \in Int
        BY <1>2, <3>1, Sizes, TimesMonotonic, TimesType
      <4> QED BY <4>1, Sizes
    <3>2. CASE n = each
      <4>1. each * SlotSize \in Int
        BY <1>2, Sizes, TimesType
      <4> QED BY <3>2, <4>1
    <3> QED BY <1>2, <1>5, <3>1, <3>2
  <2>3. n * SlotSize \in Int /\ each * SlotSize \in Int
    BY <1>2, Sizes, TimesType
  <2>4. BodySize + FrameSize + n * SlotSize <= MaxTbtpSize
    BY <1>1, <1>2, <2>2, <2>3, Sizes DEF room
  <2> QED BY <2>1, <2>4
<1>6. now \in Int /\ now <= each
  BY <1>2 DEF now, AtMost
<1>7. w \in Tbtp /\ GetSizeInBytes(w) <= MaxTbtpSize
  BY <1>5, <1>6
<1>8. m \in Int
  <2>1. count - now + each - 1 \in Int
    BY <1>2, <1>6
  <2> QED BY <1>2, <2>1, DivModType DEF m
<1>9. \A i \in 1 .. m : new[i] \in Tbtp /\ GetSizeInBytes(new[i]) <= MaxTbtpSize
  <2> SUFFICES ASSUME NEW i \in 1 .. m PROVE new[i] \in Tbtp /\ GetSizeInBytes(new[i]) <= MaxTbtpSize
    OBVIOUS
  <2> DEFINE n == AtMost(each, count - now - (i - 1) * each)
  <2>1. (i - 1) * each \in Int
    BY <1>2, <1>8, TimesType
  <2>2. n \in Int /\ n <= each
    BY <1>2, <1>6, <2>1 DEF AtMost
  <2>3. new[i] = WithSlots(EmptyTbtp, f, n)
    BY DEF new
  <2> HIDE DEF n
  <2> QED BY <1>5, <2>2, <2>3
<1>10. new \in Seq(Tbtp) /\ DOMAIN new = 1 .. m /\ Len(new) = (IF m > 0 THEN m ELSE 0)
  <2>1. DOMAIN new = 1 .. m /\ new = [i \in 1 .. m |-> new[i]]
    BY DEF new
  <2>2. CASE m > 0
    <3>1. m \in Nat /\ \A i \in 1 .. m : new[i] \in Tbtp
      BY <1>8, <1>9, <2>2
    <3>2. new \in [1 .. m -> Tbtp]
      BY <2>1, <3>1
    <3>3. new \in Seq(Tbtp)
      BY <3>1, <3>2
    <3>4. Len(new) = m
      BY <2>1, <3>1, <3>3
    <3> QED BY <2>1, <2>2, <3>3, <3>4
  <2>3. CASE ~(m > 0)
    <3>1. 1 .. m = {}
      BY <1>8, <2>3
    <3>2. new = <<>>
      BY <2>1, <3>1
    <3>3. <<>> \in Seq(Tbtp) /\ Len(<<>>) = 0
      OBVIOUS
    <3>4. Len(new) = 0 /\ new \in Seq(Tbtp)
      BY <3>2, <3>3, Zenon
    <3> QED BY <2>1, <2>3, <3>4
  <2> QED BY <2>2, <2>3
<1> DEFINE k == Len(new)
<1>11. k \in Nat /\ \A i \in 1 .. k : i \in 1 .. m
  BY <1>8, <1>10
<1>12. /\ <<w>> \o new \in Seq(Tbtp) /\ Len(<<w>> \o new) = 1 + k
       /\ (<<w>> \o new)[1] = w
       /\ \A i \in 1 .. 1 + k : i # 1 => (<<w>> \o new)[i] = new[i - 1] /\ i - 1 \in 1 .. k
  BY <1>7, <1>10, <1>11
<1>13. \A i \in 1 .. 1 + k : GetSizeInBytes((<<w>> \o new)[i]) <= MaxTbtpSize
  BY <1>7, <1>9, <1>11, <1>12
<1>14. tbtps' = <<w>> \o new
  BY <1>3, <1>4
<1>15. DOMAIN (<<w>> \o new) = 1 .. 1 + k /\ <<w>> \o new # <<>>
  BY <1>11, <1>12
<1> QED BY <1>12, <1>13, <1>14, <1>15 DEF AllFit

LEMMA TbtpsInit == Init => TbtpsInv
<1> SUFFICES ASSUME Init PROVE TbtpsInv
  OBVIOUS
<1>1. tbtps = <<>> /\ phase = "idle"
  BY DEF Init, SlotsInit
<1> QED BY <1>1 DEF TbtpsInv

LEMMA TbtpsNext ==
  ASSUME OneRaChannel, SlotsInv, TbtpsInv, [Next]_vars
  PROVE  TbtpsInv'
<1>1. ASSUME UNCHANGED <<tbtps, frame, rcs, channelsLeft, phase>> PROVE TbtpsInv'
  <2>1. \A i \in DOMAIN tbtps : GetSizeInBytes(tbtps[i])' = GetSizeInBytes(tbtps[i])
    BY <1>1 DEF GetSizeInBytes
  <2>2. GetSizeInBytes(Last(tbtps))' = GetSizeInBytes(Last(tbtps)) /\ Last(tbtps)' = Last(tbtps)
    BY <1>1 DEF GetSizeInBytes, Last
  <2> QED BY <1>1, <2>1, <2>2 DEF TbtpsInv
<1>2. ASSUME tbtps' = tbtps, phase' \notin {"channels", "slots"} PROVE TbtpsInv'
  BY <1>2 DEF TbtpsInv, GetSizeInBytes
<1>3. ASSUME NEW ut \in Ut, AddUtInfo(ut) \/ RemoveUtInfo(ut) PROVE TbtpsInv'
  BY <1>1, <1>3 DEF AddUtInfo, RemoveUtInfo, slotVars, cursorVars
<1>4. CASE Start
  BY <1>2, <1>4 DEF Start, slotVars
<1>5. ASSUME NEW supported \in SUBSET Frame, AllocateToFrame(supported) PROVE TbtpsInv'
  BY <1>1, <1>5 DEF AllocateToFrame, slotVars, cursorVars
<1>6. CASE Share
  <2>1. tbtps' = <<EmptyTbtp>> /\ channelsLeft' = RaChannels /\ phase' = "channels"
    BY <1>6 DEF Share, StartTbtps
  <2>2. <<EmptyTbtp>> \in Seq(Tbtp) /\ DOMAIN <<EmptyTbtp>> = {1} /\ <<EmptyTbtp>> # <<>>
    BY EmptySize
  <2>3. GetSizeInBytes(EmptyTbtp) <= MaxTbtpSize
    BY EmptySize, Sizes
  <2> QED BY <2>1, <2>2, <2>3 DEF TbtpsInv
<1>7. CASE EnterRaChannel
  <2>1. /\ phase = "channels" /\ channelsLeft # <<>> /\ phase' = phase
        /\ AddRaChannel(Head(channelsLeft).frame, Head(channelsLeft).count)
        /\ channelsLeft' = Tail(channelsLeft)
    BY <1>7 DEF EnterRaChannel
  <2>2. channelsLeft = RaChannels /\ tbtps = <<EmptyTbtp>> /\ RaChannels = <<RaChannels[1]>>
    BY <2>1 DEF TbtpsInv, OneRaChannel
  <2>3. /\ Head(RaChannels) = RaChannels[1] /\ Tail(RaChannels) = <<>> /\ 1 \in DOMAIN RaChannels
    <3>1. PICK c : RaChannels = <<c>>
      BY <2>2
    <3> QED BY <3>1
  <2>4. RaChannels[1].count \in Nat \ {0} /\ RaChannels[1].frame \in RaFrames
    BY <2>3, SuperframeAssumption DEF RaFrames
  <2>5. AllFit(tbtps')
    BY <2>1, <2>2, <2>3, <2>4, ChannelFits
  <2> QED BY <2>1, <2>2, <2>3, <2>5 DEF TbtpsInv, AllFit
<1>8. CASE StartFrames \/ NextFrame
  <2>1. tbtps' = tbtps /\ phase' = "slots" /\ phase \in {"channels", "slots"} /\ rcs' = <<>>
    BY <1>8 DEF StartFrames, NextFrame, StartFrame, FrameIsDone, SlotsInv
  <2> QED BY <2>1 DEF TbtpsInv, GetSizeInBytes
<1>9. CASE Slots
  <2>1. /\ phase = "slots" /\ phase' = phase /\ AllFit(tbtps)
    BY <1>9 DEF Slots, superframeVars, TbtpsInv, AllFit
  <2>2. CASE StartUt
    <3>1. tbtps' = RoomIn(tbtps, SlotSize + FrameSize)
      BY <2>2 DEF StartUt
    <3>2. SlotSize + FrameSize \in Nat /\ BodySize + (SlotSize + FrameSize) <= MaxTbtpSize
      BY Sizes
    <3>3. /\ AllFit(tbtps')
          /\ GetSizeInBytes(Last(tbtps')) + (SlotSize + FrameSize) <= MaxTbtpSize
      BY <2>1, <3>1, <3>2, RoomInFits
    <3> QED BY <2>1, <3>3 DEF TbtpsInv, AllFit
  <2>3. ASSUME NEW length, EnterSlot(length), rcs # <<>>, UNCHANGED frame PROVE TbtpsInv'
    <3>1. /\ frame \in Frame
          /\ \/ frame \in Last(tbtps).frames
             \/ GetSizeInBytes(Last(tbtps)) + (SlotSize + FrameSize) <= MaxTbtpSize
      BY <2>1, <2>3 DEF TbtpsInv, SlotsInv, Layout, CursorOK
    <3>2. AllFit(tbtps') /\ frame \in Last(tbtps').frames
      BY <2>1, <2>3, <3>1, SlotFits
    <3> QED BY <2>1, <2>3, <3>2 DEF TbtpsInv, AllFit
  <2>4. CASE CtrlSlot \/ TrcSlot
    BY <2>3, <2>4 DEF CtrlSlot, TrcSlot, Advance
  <2>5. CASE NoSlot \/ SkipUt
    <3>1. tbtps' = tbtps /\ frame' = frame /\ rcs # <<>>
      BY <2>5 DEF NoSlot, SkipUt, Advance
    <3> QED BY <2>1, <3>1 DEF TbtpsInv, GetSizeInBytes
  <2> QED BY <1>9, <2>2, <2>4, <2>5 DEF Slots
<1>10. CASE SendTbtps
  BY <1>2, <1>10 DEF SendTbtps, slotVars
<1>11. CASE NextSuperframe
  <2>1. tbtps' = <<>> /\ phase' = "idle"
    BY <1>11 DEF NextSuperframe
  <2> QED BY <2>1 DEF TbtpsInv
<1>12. CASE UNCHANGED vars
  BY <1>1, <1>12 DEF vars, slotVars, cursorVars, superframeVars
<1> QED BY <1>3, <1>4, <1>5, <1>6, <1>7, <1>8, <1>9, <1>10, <1>11, <1>12 DEF Next, Superframe

\* With one random access channel no TBTP outgrows a BBFrame, which would end
\* the simulation in Schedule.
THEOREM TbtpsAlwaysFit ==
  ASSUME OneRaChannel
  PROVE  Spec => []TbtpsFit
<1>1. Init => TbtpsInv
  BY TbtpsInit
<1>2. SlotsInv /\ TbtpsInv /\ [Next]_vars => TbtpsInv'
  BY TbtpsNext
<1>3. TbtpsInv => TbtpsFit
  BY DEF TbtpsInv, TbtpsFit
<1> QED BY <1>1, <1>2, <1>3, SuperframeInvariant, PTL DEF Spec
-----------------------------------------------------------------------------
(***************************************************************************)
(* The load of a frame.  While UTs are allocated, the symbols that are     *)
(* pre-allocated cover, level by level, what the stored requests can be    *)
(* granted; sharing then hands out no more than what is left.              *)
(***************************************************************************)
LevelNames == {"CRA_RBDC_VBDC", "CRA_RBDC", "CRA_MIN_RBDC", "CRA"}

Requests == [total : Symbols, rc : [Rc -> Symbols]]
Grants == [request : Requests, ctrl : BOOLEAN, allocation : Requests]

MinRbdcOf(req) == SumFunctionOnSet([i \in Rc |-> req.rc[i].minRbdc], Rc)

\* A request whose minimum RBDC is a part of its RBDC.
Consistent(req) ==
  /\ req \in Requests
  /\ MinRbdcOf(req) <= req.total.minRbdc
  /\ req.total.minRbdc <= req.total.rbdc

\* The minimum rates of a UT that is admitted fit into a carrier.
Admissible(req) == Consistent(req) /\ req.total.cra + req.total.minRbdc <= CarrierSymbols

ToCheck(ut) == MinRateBased(ut) + (IF CtrlSlotPeriod THEN RobustLength ELSE 0)

AdmissionInv ==
  /\ m_minimumRateBasedBytesLeft \in Int
  /\ \A ut \in m_utInfos : ToCheck(ut) <= CarrierSymbols

RequestsInv ==
  phase = "allocate" =>
    \A i \in DOMAIN toAllocate :
      /\ Admissible(requests[toAllocate[i]].req)
      /\ requests[toAllocate[i]].ctrl \in BOOLEAN

\* What the requests of some UTs use at a level.
UsedBy(level, allocs) ==
  SumFunctionOnSet([ut \in DOMAIN allocs |-> Used(level, allocs[ut].request.total)], DOMAIN allocs)

\* VBDC is not counted for a request that is accepted at its minimum rates: then
\* there is no room left for the RBDC either.
Covered(level, pre, allocs) ==
  \/ UsedBy(level, allocs) <= Used(level, pre)
  \/ level = "CRA_RBDC_VBDC" /\ Used("CRA_RBDC", pre) > TotalSymbols

FrameInv(pre, allocs, order) ==
  /\ pre \in Symbols /\ pre.minRbdc <= pre.rbdc
  /\ allocs \in [DOMAIN allocs -> Grants]
  /\ \A ut \in DOMAIN allocs : Consistent(allocs[ut].request)
  /\ \A level \in LevelNames : Covered(level, pre, allocs)
  /\ order \in Seq((DOMAIN allocs) \X Rc) /\ Distinct(order)

FramesInv ==
  /\ denied \in BOOLEAN
  /\ m_preAllocated = [f \in Frame |-> m_preAllocated[f]]
  /\ m_rcAllocs = [f \in Frame |-> m_rcAllocs[f]]
  /\ ~denied => \A f \in Frame : FrameInv(m_preAllocated[f], m_utAllocs[f], m_rcAllocs[f])
  /\ WithinTargetLoad

LoadInv == AdmissionInv /\ RequestsInv /\ FramesInv
-----------------------------------------------------------------------------
(***************************************************************************)
(* Sharing.  An RC that has its turn gives up what it was owed, the        *)
(* minimum RBDC it was accepted with, for what it is granted, which the    *)
(* symbols left are reduced by.                                            *)
(***************************************************************************)
\* What the loop that shares symbols keeps: allocations, and counts of what is left.
Sharing(A) == [allocs : [A -> Grants], left : Nat, rcsLeft : Int]

\* The minimum RBDC that is granted with the share of an RC.
Owed(level, grant, i) == IF level = "CRA_MIN_RBDC" THEN grant.allocation.rc[i].minRbdc ELSE 0

\* A share of the symbols left is one of them.
LEMMA DividedAmong ==
  \A a \in Nat, b \in Nat \ {0} : a \div b \in Nat /\ a \div b <= a
<1> SUFFICES ASSUME NEW a \in Nat, NEW b \in Nat \ {0} PROVE a \div b \in Nat /\ a \div b <= a
  OBVIOUS
<1> DEFINE q == a \div b
<1>1. q \in Int /\ a % b \in 0 .. b - 1 /\ a = q * b + (a % b)
  BY DivModType, DivModSplit
<1> HIDE DEF q
<1>2. q * b \in Int
  BY <1>1, TimesType
<1>3. q >= 0
  <2> SUFFICES ASSUME q < 0 PROVE FALSE
    BY <1>1
  <2>1. q * b + b <= 0 * b /\ 0 * b = 0
    BY <1>1, TimesMonotonic
  <2> QED BY <1>1, <1>2, <2>1
<1>4. q <= a
  <2> SUFFICES ASSUME a < q PROVE FALSE
    BY <1>1
  <2>1. a * b + b <= q * b /\ a * b \in Int
    BY <1>1, TimesMonotonic, TimesType
  <2>2. a <= a * b
    <3>1. CASE a = 0
      BY <3>1
    <3>2. CASE a # 0
      <4>1. b = 1 \/ 1 < b
        OBVIOUS
      <4>2. 1 < b => 1 * a + a <= b * a
        BY <3>2, TimesMonotonic
      <4>3. b * a = a * b /\ 1 * a = a
        OBVIOUS
      <4>4. b = 1 => a * b = a
        OBVIOUS
      <4> HIDE DEF q
      <4> QED BY <2>1, <4>1, <4>2, <4>3, <4>4
    <3> QED BY <3>1, <3>2
  <2> QED BY <1>1, <1>2, <2>1, <2>2
<1> QED BY <1>1, <1>3, <1>4 DEF q

\* Symbols add up, at every level.
LEMMA TotalType == \A s \in Symbols : GetTotalSymbols(s) \in Nat
BY DEF Symbols, GetTotalSymbols

LEMMA SymbolsAdd ==
  \A a \in Symbols, b \in Symbols :
    /\ Plus(a, b) \in Symbols
    /\ GetTotalSymbols(a) \in Nat
    /\ GetTotalSymbols(Plus(a, b)) = GetTotalSymbols(a) + GetTotalSymbols(b)
    /\ \A level \in LevelNames : /\ Used(level, a) \in Nat
                                 /\ Used(level, Plus(a, b)) = Used(level, a) + Used(level, b)
BY DEF Symbols, Plus, GetTotalSymbols, Used, LevelNames

\* What a share adds to an allocation.
LEMMA ShareAdds ==
  \A level \in LevelNames, s \in Symbols, n \in Nat :
    /\ ShareOf(level, s, n) \in Symbols
    /\ GetTotalSymbols(ShareOf(level, s, n)) = n + (IF level = "CRA_MIN_RBDC" THEN s.minRbdc ELSE 0)
<1> SUFFICES ASSUME NEW level \in LevelNames, NEW s \in Symbols, NEW n \in Nat
             PROVE  /\ ShareOf(level, s, n) \in Symbols
                    /\ GetTotalSymbols(ShareOf(level, s, n))
                         = n + (IF level = "CRA_MIN_RBDC" THEN s.minRbdc ELSE 0)
  OBVIOUS
<1>1. s.minRbdc \in Nat
  BY DEF Symbols
<1>2. CASE level \in {"CRA_RBDC_VBDC", "CRA_RBDC"}
  <2>1. ShareOf(level, s, n) = [cra |-> 0, minRbdc |-> 0, rbdc |-> 0, vbdc |-> n]
    BY <1>2 DEF ShareOf, None
  <2> QED BY <1>2, <2>1 DEF Symbols, GetTotalSymbols
<1>3. CASE level = "CRA_MIN_RBDC"
  <2>1. ShareOf(level, s, n) = [cra |-> 0, minRbdc |-> 0, rbdc |-> n + s.minRbdc, vbdc |-> 0]
    BY <1>3 DEF ShareOf, None
  <2> QED BY <1>1, <1>3, <2>1 DEF Symbols, GetTotalSymbols
<1>4. CASE level = "CRA"
  <2>1. ShareOf(level, s, n) = [cra |-> 0, minRbdc |-> n, rbdc |-> n, vbdc |-> 0]
    BY <1>4 DEF ShareOf, None
  <2> QED BY <1>4, <2>1 DEF Symbols, GetTotalSymbols
<1> QED BY <1>2, <1>3, <1>4 DEF LevelNames

\* A turn takes from the symbols left what it grants beyond the minimum RBDC.
LEMMA TurnKeeps ==
  ASSUME NEW level \in LevelNames, NEW A, NEW y \in Sharing(A), y.rcsLeft > 0,
         NEW ut \in A, NEW i \in Rc
  PROVE  LET z == WithShare(level, y, ut, i)
         IN  /\ z \in Sharing(A)
             /\ z.rcsLeft = y.rcsLeft - 1
             /\ \A u \in A \ {ut} : z.allocs[u] = y.allocs[u]
             /\ \A j \in Rc \ {i} : z.allocs[ut].allocation.rc[j] = y.allocs[ut].allocation.rc[j]
             /\ GetTotalSymbols(z.allocs[ut].allocation.total) + z.left
                  <= GetTotalSymbols(y.allocs[ut].allocation.total) + y.left
                       + Owed(level, y.allocs[ut], i)
<1> DEFINE z == WithShare(level, y, ut, i)
           a == y.allocs[ut]
           total == a.allocation.total
           free == AtLeast(0, CarrierSymbols - GetTotalSymbols(total))
           symbols == AtMost(free, y.left \div y.rcsLeft)
           share == ShareOf(level, a.allocation.rc[i], symbols)
           taken == [allocs |-> [y.allocs EXCEPT ![ut].allocation.total = Plus(@, share),
                                                 ![ut].allocation.rc[i] = Plus(@, share)],
                     left |-> y.left - symbols,
                     rcsLeft |-> y.rcsLeft - 1]
           notTaken == [y EXCEPT !.rcsLeft = @ - 1]
<1>1. /\ y.allocs \in [A -> Grants] /\ y.left \in Nat /\ y.rcsLeft \in Nat \ {0}
      /\ y = [allocs |-> y.allocs, left |-> y.left, rcsLeft |-> y.rcsLeft]
      /\ a \in Grants /\ total \in Symbols /\ a.allocation.rc \in [Rc -> Symbols]
      /\ a.allocation.rc[i] \in Symbols /\ a.allocation \in Requests
  BY DEF Sharing, Grants, Requests
<1>2. z = taken \/ z = notTaken
  BY DEF WithShare
<1>3. symbols \in Nat /\ symbols <= y.left
  <2>1. y.left \div y.rcsLeft \in Nat /\ y.left \div y.rcsLeft <= y.left
    BY <1>1, DividedAmong
  <2>2. GetTotalSymbols(total) \in Nat
    BY <1>1, SymbolsAdd
  <2>3. free \in Nat
    BY <2>2, FrameAssumption DEF AtLeast
  <2> HIDE DEF free, total
  <2> QED BY <1>1, <2>1, <2>3 DEF AtMost
<1>4. /\ share \in Symbols
      /\ GetTotalSymbols(share) = symbols + Owed(level, a, i)
      /\ Owed(level, a, i) \in Nat
  <2>1. a.allocation.rc[i].minRbdc \in Nat
    BY <1>1 DEF Symbols
  <2> HIDE DEF symbols, a
  <2> QED BY <1>1, <1>3, <2>1, ShareAdds DEF Owed
<1> HIDE DEF z, symbols, share
<1>5. CASE z = notTaken
  <2>1. z = [allocs |-> y.allocs, left |-> y.left, rcsLeft |-> y.rcsLeft - 1]
    BY <1>1, <1>5
  <2>2. z \in Sharing(A) /\ z.allocs = y.allocs /\ z.left = y.left /\ z.rcsLeft = y.rcsLeft - 1
    BY <1>1, <2>1 DEF Sharing
  <2>3. GetTotalSymbols(total) \in Nat
    BY <1>1, SymbolsAdd
  <2> QED BY <1>1, <1>4, <2>2, <2>3 DEF z
<1>6. CASE z = taken
  <2> DEFINE t == Plus(total, share)
             r == Plus(a.allocation.rc[i], share)
             rc == [a.allocation.rc EXCEPT ![i] = r]
             b == [request |-> a.request, ctrl |-> a.ctrl, allocation |-> [total |-> t, rc |-> rc]]
  <2>1. t \in Symbols /\ r \in Symbols
    <3> HIDE DEF a
    <3> QED BY <1>1, <1>4, SymbolsAdd
  <2>2. rc \in [Rc -> Symbols] /\ b \in Grants
    BY <1>1, <2>1 DEF Grants, Requests
  <2>3. [y.allocs EXCEPT ![ut].allocation.total = Plus(@, share),
                         ![ut].allocation.rc[i] = Plus(@, share)] = [y.allocs EXCEPT ![ut] = b]
    <3>1. a = [request |-> a.request, ctrl |-> a.ctrl, allocation |-> a.allocation]
          /\ a.allocation = [total |-> total, rc |-> a.allocation.rc]
      BY <1>1 DEF Grants, Requests
    <3> DEFINE c == [a EXCEPT !.allocation.total = t]
    <3>2. c = [request |-> a.request, ctrl |-> a.ctrl,
               allocation |-> [total |-> t, rc |-> a.allocation.rc]]
      <4> HIDE DEF t
      <4> QED BY <3>1
    <3>3. [c EXCEPT !.allocation.rc[i] = r] = b
      <4>1. \A q, k, w, f, v :
              [[request |-> q, ctrl |-> k, allocation |-> [total |-> w, rc |-> f]]
                 EXCEPT !.allocation.rc[i] = v]
                = [request |-> q, ctrl |-> k, allocation |-> [total |-> w, rc |-> [f EXCEPT ![i] = v]]]
        OBVIOUS
      <4> HIDE DEF t, r, a, c
      <4> QED BY <3>2, <4>1, SMTT(30) DEF b, rc
    <3>4. [y.allocs EXCEPT ![ut].allocation.total = Plus(@, share),
                           ![ut].allocation.rc[i] = Plus(@, share)]
            = [y.allocs EXCEPT ![ut] = [c EXCEPT !.allocation.rc[i] = r]]
      <4> DEFINE e == y.allocs
                 e1 == [e EXCEPT ![ut].allocation.total = Plus(@, share)]
      <4>1. e \in [A -> Grants] /\ a = e[ut]
        BY <1>1
      <4>2. e1 = [e EXCEPT ![ut] = c]
        OBVIOUS
      <4>3. e1[ut] = c /\ DOMAIN e1 = A
        BY <4>1, <4>2
      <4>4. c.allocation.rc[i] = a.allocation.rc[i]
        BY <3>2
      <4>5. [e1 EXCEPT ![ut].allocation.rc[i] = Plus(@, share)]
              = [e1 EXCEPT ![ut] = [c EXCEPT !.allocation.rc[i] = r]]
        <5> HIDE DEF e1, c, a
        <5> QED BY <4>3, <4>4
      <4>6. [e1 EXCEPT ![ut] = [c EXCEPT !.allocation.rc[i] = r]]
              = [e EXCEPT ![ut] = [c EXCEPT !.allocation.rc[i] = r]]
        <5> HIDE DEF r, e, a
        <5>1. \A v : [[e EXCEPT ![ut] = c] EXCEPT ![ut] = v] = [e EXCEPT ![ut] = v]
          BY <4>1
        <5> HIDE DEF c, e1
        <5> QED BY <4>2, <5>1
      <4> QED BY <4>5, <4>6
    <3> QED BY <3>3, <3>4
  <2> HIDE DEF b
  <2>4. /\ z.allocs = [y.allocs EXCEPT ![ut] = b] /\ z.left = y.left - symbols
        /\ z.rcsLeft = y.rcsLeft - 1 /\ z = [allocs |-> z.allocs, left |-> z.left, rcsLeft |-> z.rcsLeft]
    BY <1>6, <2>3
  <2>5. z.allocs \in [A -> Grants] /\ z.left \in Nat /\ z.rcsLeft \in Int
    BY <1>1, <1>3, <2>2, <2>4
  <2>6. z \in Sharing(A)
    BY <2>4, <2>5 DEF Sharing
  <2>7. (\A u \in A \ {ut} : z.allocs[u] = y.allocs[u]) /\ z.allocs[ut] = b
    BY <1>1, <2>4
  <2>8. b.allocation.total = t /\ \A j \in Rc \ {i} : b.allocation.rc[j] = a.allocation.rc[j]
    BY <1>1 DEF b
  <2>9. GetTotalSymbols(t) = GetTotalSymbols(total) + GetTotalSymbols(share)
        /\ GetTotalSymbols(total) \in Nat
    <3> HIDE DEF total
    <3> QED BY <1>1, <1>4, SymbolsAdd
  <2> HIDE DEF t, rc
  <2>10. GetTotalSymbols(z.allocs[ut].allocation.total) + z.left
           <= GetTotalSymbols(total) + y.left + Owed(level, a, i)
    <3>1. GetTotalSymbols(z.allocs[ut].allocation.total) = GetTotalSymbols(t)
      BY <2>7, <2>8
    <3> HIDE DEF total, a
    <3> QED BY <1>1, <1>3, <1>4, <2>4, <2>9, <3>1
  <2>11. \A j \in Rc \ {i} : z.allocs[ut].allocation.rc[j] = a.allocation.rc[j]
    BY <2>7, <2>8
  <2> QED BY <2>4, <2>6, <2>7, <2>10, <2>11 DEF z, a, total
<1> QED BY <1>2, <1>5, <1>6

\* One RC takes its turn after the other.
IsSharing(h, level, start, order) ==
  h = [T \in SUBSET DOMAIN order |->
         IF T = {} THEN start
         ELSE WithShare(level, h[T \ {Max(T)}], order[Max(T)][1], order[Max(T)][2])]

IsStepwise(h, level, allocs, left, order) ==
  /\ SharedAmong(level, allocs, left, order) = h[1 .. Len(order)].allocs
  /\ h[{}] = [allocs |-> allocs, left |-> left, rcsLeft |-> Len(order)]
  /\ \A k \in 1 .. Len(order) :
       h[1 .. k] = WithShare(level, h[1 .. k - 1], order[k][1], order[k][2])

\* The fold of SharedAmong is the result of one turn after the other.
LEMMA SharingStepwise ==
  ASSUME NEW level \in LevelNames, NEW A, NEW order \in Seq(A \X Rc),
         NEW allocs \in [A -> Grants], NEW left \in Nat
  PROVE  \E h : IsStepwise(h, level, allocs, left, order)
<1> DEFINE start == [allocs |-> allocs, left |-> left, rcsLeft |-> Len(order)]
           S == DOMAIN order
           Y == Sharing(A)
           turn(y, x) == WithShare(level, y, order[x][1], order[x][2])
           pick == [T \in SUBSET S |-> Max(T)]
           step == [x \in S |-> [y \in Y |-> IF y.rcsLeft > 0 THEN turn(y, x) ELSE y]]
           g == CHOOSE h : IsSharing(h, level, start, order)
<1>1. /\ Len(order) \in Nat /\ S = 1 .. Len(order)
      /\ \A x \in S : order[x][1] \in A /\ order[x][2] \in Rc
  OBVIOUS
<1>2. start \in Sharing(A) /\ start.rcsLeft = Len(order)
  BY <1>1 DEF Sharing
<1> HIDE DEF start
<1>3. \A T \in SUBSET S : T # {} => Max(T) \in T
  BY <1>1, MaxIsOne
<1>4. \A x \in S, y \in Y : y.rcsLeft > 0 => turn(y, x) \in Y /\ turn(y, x).rcsLeft = y.rcsLeft - 1
  <2> SUFFICES ASSUME NEW x \in S, NEW y \in Sharing(A), y.rcsLeft > 0
               PROVE  turn(y, x) \in Sharing(A) /\ turn(y, x).rcsLeft = y.rcsLeft - 1
    OBVIOUS
  <2>1. PICK ut, i : ut = order[x][1] /\ i = order[x][2]
    OBVIOUS
  <2>2. ut \in A /\ i \in Rc
    BY <1>1, <2>1
  <2>3. /\ WithShare(level, y, ut, i) \in Sharing(A)
        /\ WithShare(level, y, ut, i).rcsLeft = y.rcsLeft - 1
    BY <2>2, TurnKeeps
  <2> QED BY <2>1, <2>3
<1>5. PICK h : Recurs(h, S, start, pick, step) /\ \A T \in SUBSET S : h[T] \in Y
  <2>1. \A T \in SUBSET S : T # {} => pick[T] \in T
    BY <1>3
  <2>2. \A x \in S, y \in Y : step[x][y] \in Y
    <3> HIDE DEF turn
    <3> QED BY <1>4
  <2>3. start \in Y
    BY <1>2
  <2>4. IsFiniteSet(1 .. Len(order))
    BY <1>1, FS_Interval
  <2> HIDE DEF S, Y, pick, step
  <2>5. IsFiniteSet(S)
    BY <1>1, <2>4
  <2> QED BY <2>1, <2>2, <2>3, <2>5, Recursion
<1>6. \A T \in SUBSET S : IsFiniteSet(T) /\ Cardinality(T) \in Nat
  <2>1. IsFiniteSet(1 .. Len(order))
    BY <1>1, FS_Interval
  <2> HIDE DEF S
  <2> QED BY <1>1, <2>1, FS_Subset, FS_CardinalityType
<1>7. \A T \in SUBSET S :
        h[T] = IF T = {} THEN start
               ELSE IF h[T \ {Max(T)}].rcsLeft > 0 THEN turn(h[T \ {Max(T)}], Max(T)) ELSE h[T \ {Max(T)}]
  <2> SUFFICES ASSUME NEW T \in SUBSET S, T # {}
               PROVE  h[T] = IF h[T \ {Max(T)}].rcsLeft > 0 THEN turn(h[T \ {Max(T)}], Max(T))
                             ELSE h[T \ {Max(T)}]
    <3> HIDE DEF step, pick, turn
    <3> QED BY <1>5 DEF Recurs
  <2>1. Max(T) \in S /\ T \ {Max(T)} \in SUBSET S /\ pick[T] = Max(T)
    BY <1>3
  <2>2. h[T \ {Max(T)}] \in Y
    BY <1>5, <2>1
  <2>3. h[T] = step[pick[T]][h[T \ {pick[T]}]]
    <3> HIDE DEF step, pick
    <3> QED BY <1>5 DEF Recurs
  <2> HIDE DEF turn, Y
  <2> QED BY <2>1, <2>2, <2>3
<1> DEFINE B == {n \in Nat : \A T \in SUBSET S : Cardinality(T) = n => h[T].rcsLeft = Len(order) - n}
<1>8. 0 \in B
  <2>1. \A T \in SUBSET S : Cardinality(T) = 0 => T = {}
    BY <1>6, FS_EmptySet
  <2>2. h[{}] = start
    BY <1>7
  <2> HIDE DEF S
  <2>3. ASSUME NEW T \in SUBSET S, Cardinality(T) = 0 PROVE h[T].rcsLeft = Len(order) - 0
    <3>1. h[T] = start
      BY <2>1, <2>2, <2>3
    <3>2. start.rcsLeft = Len(order)
      BY <1>2
    <3> QED BY <1>1, <3>1, <3>2
  <2> QED BY <2>3
<1>9. \A T \in SUBSET S : T # {} => /\ Cardinality(T \ {Max(T)}) = Cardinality(T) - 1
                                    /\ T \ {Max(T)} \in SUBSET S
                                    /\ Cardinality(T) \in Nat \ {0} /\ Cardinality(T) <= Len(order)
  <2>1. ASSUME NEW T \in SUBSET S, T # {}
        PROVE  Cardinality(T \ {Max(T)}) = Cardinality(T) - 1 /\ Cardinality(T) \in Nat \ {0}
    <3> HIDE DEF S
    <3>1. IsFiniteSet(T) /\ Cardinality(T) \in Nat /\ Max(T) \in T
      BY <1>3, <1>6, <2>1
    <3> QED BY <2>1, <3>1, FS_RemoveElement, FS_EmptySet
  <2>2. IsFiniteSet(S) /\ Cardinality(S) = Len(order)
    <3> PICK n : n = Len(order)
      OBVIOUS
    <3>2. n \in Nat
      BY <1>1
    <3>3. IsFiniteSet(1 .. n) /\ Cardinality(1 .. n) = n
      <4>1. IsFiniteSet(1 .. n)
        BY <3>2, FS_Interval
      <4>2. Cardinality(1 .. n) = (IF 1 > n THEN 0 ELSE n - 1 + 1)
        <5>1. 1 \in Int /\ n \in Int
          BY <3>2
        <5> HIDE DEF S
        <5> QED BY <5>1, FS_Interval
      <4> QED BY <3>2, <4>1, <4>2
    <3>1. IsFiniteSet(1 .. Len(order)) /\ Cardinality(1 .. Len(order)) = Len(order)
      BY <3>3
    <3> HIDE DEF S
    <3> QED BY <1>1, <3>1
  <2>3. \A T \in SUBSET S : Cardinality(T) <= Len(order)
    BY <2>2, FS_Subset
  <2> QED BY <2>1, <2>3
<1>10. ASSUME NEW n \in Nat, n \in B PROVE n + 1 \in B
  <2> HIDE DEF S, Y, turn
  <2>1. ASSUME NEW T \in SUBSET S, Cardinality(T) = n + 1 PROVE h[T].rcsLeft = Len(order) - (n + 1)
    <3>1. T # {}
      <4>1. T = {} => Cardinality(T) = 0
        BY FS_EmptySet
      <4>2. Cardinality(T) # 0
        BY <2>1
      <4> QED BY <4>1, <4>2
    <3>2. PICK U, x : U = T \ {Max(T)} /\ x = Max(T)
      OBVIOUS
    <3>3. U \in SUBSET S /\ Cardinality(U) = n /\ n + 1 <= Len(order) /\ x \in S
      <4>1. Max(T) \in S /\ Cardinality(T) - 1 = n
        BY <1>3, <2>1, <3>1
      <4>2. /\ Cardinality(T \ {Max(T)}) = Cardinality(T) - 1
            /\ T \ {Max(T)} \in SUBSET S /\ Cardinality(T) <= Len(order)
        BY <1>9, <3>1
      <4> QED BY <2>1, <3>2, <4>1, <4>2
    <3>4. h[U].rcsLeft = Len(order) - n /\ h[U] \in Y
      BY <1>5, <1>10, <3>3
    <3>5. h[U].rcsLeft > 0
      BY <1>1, <3>3, <3>4
    <3>6. h[T] = turn(h[U], x)
      BY <1>7, <3>1, <3>2, <3>5
    <3>7. turn(h[U], x).rcsLeft = h[U].rcsLeft - 1
      BY <1>4, <3>3, <3>4, <3>5
    <3> QED BY <1>1, <3>4, <3>6, <3>7
  <2> QED BY <2>1
<1>11. \A T \in SUBSET S : h[T].rcsLeft = Len(order) - Cardinality(T)
  <2> HIDE DEF B
  <2>1. \A n \in Nat : n \in B
    BY <1>8, <1>10, Induction
  <2> QED BY <1>6, <2>1 DEF B
<1>12. \A T \in SUBSET S : T # {} => h[T] = turn(h[T \ {Max(T)}], Max(T))
  <2> HIDE DEF turn
  <2> SUFFICES ASSUME NEW T \in SUBSET S, T # {} PROVE h[T] = turn(h[T \ {Max(T)}], Max(T))
    OBVIOUS
  <2>1. PICK U : U = T \ {Max(T)}
    OBVIOUS
  <2>2. U \in SUBSET S /\ Cardinality(U) = Cardinality(T) - 1
        /\ Cardinality(T) \in Nat \ {0} /\ Cardinality(T) <= Len(order)
    BY <1>9, <2>1
  <2>3. h[U].rcsLeft > 0
    BY <1>1, <1>11, <2>2
  <2> QED BY <1>7, <2>1, <2>3
<1>13. IsSharing(h, level, start, order)
  <2>1. h = [T \in SUBSET S |-> h[T]]
    <3> HIDE DEF pick, step, S
    <3> QED BY <1>5 DEF Recurs
  <2>2. h = [T \in SUBSET S |-> IF T = {} THEN start ELSE turn(h[T \ {Max(T)}], Max(T))]
    <3> HIDE DEF turn, S
    <3> QED BY <1>7, <1>12, <2>1
  <2> QED BY <2>2, Zenon DEF IsSharing
<1>14. IsSharing(g, level, start, order)
  <2> HIDE DEF g
  <2>1. \E k : IsSharing(k, level, start, order)
    BY <1>13
  <2> QED BY <2>1, Zenon DEF g
<1>15. SharedAmong(level, allocs, left, order) = g[S].allocs
  BY Zenon DEF SharedAmong, FoldLeft, MapThenFoldSet, IsSharing, start
<1>16. \A T \in SUBSET S : g[T] = IF T = {} THEN start ELSE turn(g[T \ {Max(T)}], Max(T))
  <2> HIDE DEF g
  <2> QED BY <1>14 DEF IsSharing
<1>17. ASSUME NEW k \in 1 .. Len(order) PROVE g[1 .. k] = turn(g[1 .. k - 1], k)
  <2>1. 1 .. k \in SUBSET S /\ 1 .. k # {} /\ (1 .. k) \ {k} = 1 .. k - 1
    <3>1. (1 .. k) \ {k} = 1 .. k - 1 /\ k \in 1 .. k
      OBVIOUS
    <3>2. \A j \in 1 .. k : j \in 1 .. Len(order)
      BY <1>1
    <3> QED BY <1>1, <3>1, <3>2
  <2>2. Max(1 .. k) = k
    <3>1. PICK m : m = Max(1 .. k)
      OBVIOUS
    <3>2. \E x \in 1 .. k : \A y \in 1 .. k : x >= y
      OBVIOUS
    <3>3. m \in 1 .. k /\ \A y \in 1 .. k : m >= y
      BY <3>1, <3>2 DEF Max
    <3>4. m >= k /\ m <= k
      BY <3>3
    <3> QED BY <1>1, <3>1, <3>3, <3>4
  <2> HIDE DEF g, turn
  <2> QED BY <1>16, <2>1, <2>2
<1> HIDE DEF g
<1>18. /\ g[{}] = start
       /\ SharedAmong(level, allocs, left, order) = g[1 .. Len(order)].allocs
  BY <1>1, <1>15, <1>16
<1> QED BY <1>17, <1>18 DEF start, IsStepwise

Granted(allocs) == [ut \in DOMAIN allocs |-> GetTotalSymbols(allocs[ut].allocation.total)]

\* What a UT is granted, and is still owed when some RCs have had their turn.
OwedTo(level, grant) == [i \in Rc |-> Owed(level, grant, i)]
Claim(level, grant, done) ==
  GetTotalSymbols(grant.allocation.total) + SumFunctionOnSet(OwedTo(level, grant), Rc \ done)

\* The RCs of a UT that have had one of the first k turns.
DoneBy(order, k, ut) == {i \in Rc : \E n \in 1 .. k : order[n] = <<ut, i>>}

\* Claims are numbers.
LEMMA OwedType ==
  ASSUME NEW level, NEW grant \in Grants
  PROVE  /\ \A i \in Rc : OwedTo(level, grant)[i] = Owed(level, grant, i)
                          /\ OwedTo(level, grant)[i] \in Nat
         /\ GetTotalSymbols(grant.allocation.total) \in Nat
         /\ \A R \in SUBSET Rc : IsFiniteSet(R) /\ SumFunctionOnSet(OwedTo(level, grant), R) \in Nat
         /\ \A done : Claim(level, grant, done) \in Nat
<1>1. /\ grant.allocation.total \in Symbols
      /\ \A i \in Rc : grant.allocation.rc[i].minRbdc \in Nat
  BY DEF Grants, Requests, Symbols
<1>2. \A i \in Rc : OwedTo(level, grant)[i] = Owed(level, grant, i)
                    /\ OwedTo(level, grant)[i] \in Nat
  BY <1>1 DEF OwedTo, Owed
<1>3. GetTotalSymbols(grant.allocation.total) \in Nat
  BY <1>1, SymbolsAdd
<1>4. ASSUME NEW R \in SUBSET Rc
      PROVE  IsFiniteSet(R) /\ SumFunctionOnSet(OwedTo(level, grant), R) \in Nat
  <2>1. PICK f : f = OwedTo(level, grant)
    OBVIOUS
  <2>2. IsFiniteSet(R)
    BY FrameAssumption, FS_Subset
  <2> DEFINE z == [i \in Rc |-> 0]
  <2>3. \A i \in R : z[i] = 0 /\ f[i] \in Int
    BY <1>2, <2>1
  <2>4. \A i \in R : z[i] \in Int /\ f[i] \in Int /\ z[i] <= f[i]
    BY <1>2, <2>1
  <2> HIDE DEF z
  <2>5. SumFunctionOnSet(z, R) = 0 /\ SumFunctionOnSet(f, R) \in Int
    BY <2>2, <2>3, SumOfZeros, SumType
  <2>6. SumFunctionOnSet(z, R) <= SumFunctionOnSet(f, R)
    BY <2>2, <2>4, SumMonotonic
  <2> QED BY <2>1, <2>2, <2>5, <2>6
<1>5. \A done : Rc \ done \in SUBSET Rc
  OBVIOUS
<1> QED BY <1>2, <1>3, <1>4, <1>5 DEF Claim

AreClaims(f, level, A, y, done) == \A u \in A : f[u] = Claim(level, y.allocs[u], done[u])

\* The turn of an RC that has not had one.
IsTurn(A, ut, i, was, is) ==
  /\ \A u \in A : was[u] \in SUBSET Rc /\ is[u] = (IF u = ut THEN was[u] \cup {i} ELSE was[u])
  /\ i \notin was[ut]

\* An RC that has its turn gives up its claim for what it is granted.
LEMMA TurnWithinClaims ==
  ASSUME NEW level \in LevelNames, NEW A, IsFiniteSet(A), NEW y \in Sharing(A), y.rcsLeft > 0,
         NEW ut \in A, NEW i \in Rc, NEW was, NEW is, IsTurn(A, ut, i, was, is),
         NEW z, z = WithShare(level, y, ut, i),
         NEW f, AreClaims(f, level, A, y, was), NEW g, AreClaims(g, level, A, z, is)
  PROVE  SumFunctionOnSet(g, A) + z.left <= SumFunctionOnSet(f, A) + y.left
<1>2. /\ z \in Sharing(A)
      /\ \A u \in A \ {ut} : z.allocs[u] = y.allocs[u]
      /\ \A j \in Rc \ {i} : z.allocs[ut].allocation.rc[j] = y.allocs[ut].allocation.rc[j]
      /\ GetTotalSymbols(z.allocs[ut].allocation.total) + z.left
           <= GetTotalSymbols(y.allocs[ut].allocation.total) + y.left + Owed(level, y.allocs[ut], i)
  BY TurnKeeps
<1>3. /\ z.left \in Nat /\ y.left \in Nat
      /\ \A u \in A : z.allocs[u] \in Grants /\ y.allocs[u] \in Grants
  BY <1>2 DEF Sharing
<1>4. \A u \in A : f[u] \in Int /\ g[u] \in Int /\ (u # ut => g[u] = f[u])
  <2>1. \A grant \in Grants : \A done : Claim(level, grant, done) \in Int
    <3>1. \A grant \in Grants : \A done : Claim(level, grant, done) \in Nat
      BY OwedType
    <3> QED BY <3>1
  <2>2. \A u \in A : u # ut => is[u] = was[u]
    BY DEF IsTurn
  <2> QED BY <1>2, <1>3, <2>1, <2>2 DEF AreClaims
<1>5. g[ut] + z.left <= f[ut] + y.left
  <2>1. PICK a, b : a = y.allocs[ut] /\ b = z.allocs[ut]
    OBVIOUS
  <2> DEFINE R == Rc \ was[ut]
             ya == OwedTo(level, a)
             zb == OwedTo(level, b)
  <2>2. a \in Grants /\ b \in Grants
    BY <1>3, <2>1
  <2>3. i \in R /\ R \in SUBSET Rc /\ R \ {i} = Rc \ is[ut] /\ R \ {i} \in SUBSET Rc
    BY DEF IsTurn
  <2>4. /\ GetTotalSymbols(a.allocation.total) \in Nat
        /\ \A r \in Rc : ya[r] = Owed(level, a, r) /\ ya[r] \in Nat
        /\ \A T \in SUBSET Rc : IsFiniteSet(T) /\ SumFunctionOnSet(ya, T) \in Nat
    BY <2>2, OwedType
  <2>5. /\ GetTotalSymbols(b.allocation.total) \in Nat
        /\ \A r \in Rc : zb[r] = Owed(level, b, r) /\ zb[r] \in Nat
    BY <2>2, OwedType
  <2>6. \A r \in R \ {i} : zb[r] = ya[r] /\ zb[r] \in Int
    <3>1. \A r \in Rc \ {i} : b.allocation.rc[r] = a.allocation.rc[r]
      BY <1>2, <2>1
    <3>2. \A r \in Rc \ {i} : Owed(level, b, r) = Owed(level, a, r)
      BY <3>1, Zenon DEF Owed
    <3>3. \A r \in R \ {i} : r \in Rc \ {i}
      BY <2>3
    <3> QED BY <2>4, <2>5, <3>2, <3>3
  <2> HIDE DEF ya, zb, R
  <2>7. SumFunctionOnSet(zb, R \ {i}) = SumFunctionOnSet(ya, R \ {i})
    <3>1. IsFiniteSet(R \ {i})
      BY <2>3, <2>4
    <3> QED BY <2>6, <3>1, SumSame
  <2>8. SumFunctionOnSet(ya, R) = ya[i] + SumFunctionOnSet(ya, R \ {i})
    <3>1. IsFiniteSet(R) /\ \A r \in R : ya[r] \in Int
      BY <2>3, <2>4
    <3> QED BY <2>3, <3>1, SumWithout
  <2>9. f[ut] = GetTotalSymbols(a.allocation.total) + SumFunctionOnSet(ya, R)
    BY <2>1 DEF Claim, AreClaims, ya, R
  <2>10. g[ut] = GetTotalSymbols(b.allocation.total) + SumFunctionOnSet(zb, R \ {i})
    <3>1. g[ut] = Claim(level, b, is[ut])
      BY <2>1 DEF AreClaims
    <3> QED BY <2>3, <3>1 DEF Claim, zb
  <2>11. SumFunctionOnSet(ya, R \ {i}) \in Nat /\ ya[i] \in Nat /\ ya[i] = Owed(level, a, i)
    BY <2>3, <2>4
  <2>12. GetTotalSymbols(b.allocation.total) + z.left
           <= GetTotalSymbols(a.allocation.total) + y.left + ya[i]
    BY <1>2, <2>1, <2>11
  <2> QED BY <1>3, <2>4, <2>5, <2>7, <2>8, <2>9, <2>10, <2>11, <2>12
<1>6. SumFunctionOnSet(g, A) = SumFunctionOnSet(f, A) - f[ut] + g[ut]
  BY <1>4, SumChanged
<1>7. SumFunctionOnSet(f, A) \in Int
  <2>1. \A u \in A : f[u] \in Int
    BY <1>4
  <2> QED BY <2>1, SumType
<1>8. f[ut] \in Int /\ g[ut] \in Int
  BY <1>4
<1>9. SumFunctionOnSet(g, A) + z.left <= SumFunctionOnSet(f, A) + y.left
  BY <1>3, <1>5, <1>6, <1>7, <1>8
<1> QED BY <1>9

\* Sharing grants no more than what the UTs claim and what is left.
LEMMA SharedWithin ==
  ASSUME NEW level \in LevelNames, NEW allocs, IsFiniteSet(DOMAIN allocs),
         allocs \in [DOMAIN allocs -> Grants], NEW left \in Nat,
         NEW order \in Seq((DOMAIN allocs) \X Rc), Distinct(order)
  PROVE  LET result == SharedAmong(level, allocs, left, order)
         IN  /\ result \in [DOMAIN allocs -> Grants]
             /\ SumFunctionOnSet(Granted(result), DOMAIN allocs)
                  <= SumFunctionOnSet([ut \in DOMAIN allocs |-> Claim(level, allocs[ut], {})],
                                      DOMAIN allocs) + left
<1>1. PICK A : A = DOMAIN allocs /\ IsFiniteSet(A)
  OBVIOUS
<1> DEFINE start == [allocs |-> allocs, left |-> left, rcsLeft |-> Len(order)]
<1>2. /\ Len(order) \in Nat /\ DOMAIN order = 1 .. Len(order) /\ order \in Seq(A \X Rc)
      /\ \A k \in 1 .. Len(order) :
           order[k][1] \in A /\ order[k][2] \in Rc /\ order[k] = <<order[k][1], order[k][2]>>
  BY <1>1
<1>3. start \in Sharing(A) /\ start.rcsLeft = Len(order)
  BY <1>1, <1>2 DEF Sharing
<1>4. PICK h : /\ SharedAmong(level, allocs, left, order) = h[1 .. Len(order)].allocs
               /\ h[{}] = start
               /\ \A k \in 1 .. Len(order) :
                    h[1 .. k] = WithShare(level, h[1 .. k - 1], order[k][1], order[k][2])
  <2>1. allocs \in [A -> Grants]
    BY <1>1
  <2>2. order \in Seq(A \X Rc)
    BY <1>1
  <2>3. \E h : IsStepwise(h, level, allocs, left, order)
    BY <2>1, <2>2, SharingStepwise
  <2> QED BY <2>3 DEF IsStepwise
<1> DEFINE done(k) == [u \in A |-> DoneBy(order, k, u)]
           Claims(y, k) == SumFunctionOnSet([u \in A |-> Claim(level, y.allocs[u], done(k)[u])], A)
           bound == Claims(start, 0) + left
           P(k) == /\ h[1 .. k] \in Sharing(A)
                   /\ h[1 .. k].rcsLeft = Len(order) - k
                   /\ Claims(h[1 .. k], k) + h[1 .. k].left <= bound
           B == {k \in Nat : k <= Len(order) => P(k)}
<1>5. \A y \in Sharing(A), k \in Nat : Claims(y, k) \in Int
  <2> SUFFICES ASSUME NEW y \in Sharing(A), NEW k \in Nat PROVE Claims(y, k) \in Int
    OBVIOUS
  <2> DEFINE f == [u \in A |-> Claim(level, y.allocs[u], done(k)[u])]
  <2>1. \A u \in A : y.allocs[u] \in Grants
    BY DEF Sharing
  <2>2. \A grant \in Grants : \A d : Claim(level, grant, d) \in Nat
    BY OwedType
  <2>3. \A u \in A : f[u] \in Int
    <3> HIDE DEF done
    <3> QED BY <2>1, <2>2
  <2> HIDE DEF f
  <2>4. SumFunctionOnSet(f, A) \in Int
    BY <1>1, <2>3, SumType
  <2> QED BY <2>4 DEF f
<1>6. 0 \in B
  <2>1. 1 .. 0 = {} /\ start.left = left
    OBVIOUS
  <2>2. h[1 .. 0] = start
    BY <1>4, <2>1
  <2> HIDE DEF start, done
  <2>3. Claims(start, 0) \in Int
    BY <1>3, <1>5
  <2> HIDE DEF Claims
  <2> QED BY <1>2, <1>3, <2>1, <2>2, <2>3
<1>7. ASSUME NEW k \in Nat, k \in B, k + 1 <= Len(order) PROVE P(k + 1)
  <2>1. PICK y, z, ut, i : y = h[1 .. k] /\ z = h[1 .. k + 1] /\ ut = order[k + 1][1] /\ i = order[k + 1][2]
    OBVIOUS
  <2>2. k + 1 \in 1 .. Len(order) /\ (k + 1) - 1 = k
    BY <1>2, <1>7
  <2>3. ut \in A /\ i \in Rc /\ order[k + 1] = <<ut, i>> /\ z = WithShare(level, y, ut, i)
    BY <1>2, <1>4, <2>1, <2>2
  <2>4. y \in Sharing(A) /\ y.rcsLeft = Len(order) - k /\ Claims(y, k) + y.left <= bound
    <3> HIDE DEF Claims, bound
    <3> QED BY <1>7, <2>1, <2>2
  <2>5. y.rcsLeft > 0
    BY <1>2, <1>7, <2>4
  <2>6. z \in Sharing(A) /\ z.rcsLeft = y.rcsLeft - 1
    BY <2>3, <2>4, <2>5, TurnKeeps
  <2>7. PICK was, is : was = done(k) /\ is = done(k + 1)
    OBVIOUS
  <2>8. \A u \in A : was[u] \in SUBSET Rc
    BY <2>7 DEF DoneBy
  <2>9. i \notin was[ut]
    <3> SUFFICES ASSUME i \in was[ut] PROVE FALSE
      OBVIOUS
    <3>1. PICK n \in 1 .. k : order[n] = <<ut, i>>
      BY <2>3, <2>7 DEF DoneBy
    <3>2. n \in DOMAIN order /\ k + 1 \in DOMAIN order /\ n # k + 1
      BY <1>2, <1>7, <2>2
    <3> QED BY <2>3, <3>1, <3>2 DEF Distinct
  <2>10. \A u \in A : is[u] = IF u = ut THEN was[u] \cup {i} ELSE was[u]
    <3>1. \A n : n \in 1 .. k + 1 <=> n \in 1 .. k \/ n = k + 1
      OBVIOUS
    <3>2. \A u \in A : DoneBy(order, k + 1, u) = IF u = ut THEN DoneBy(order, k, u) \cup {i} ELSE DoneBy(order, k, u)
      <4> SUFFICES ASSUME NEW u \in A
                   PROVE  DoneBy(order, k + 1, u) = IF u = ut THEN DoneBy(order, k, u) \cup {i}
                                                   ELSE DoneBy(order, k, u)
        OBVIOUS
      <4>1. \A j \in Rc : order[k + 1] = <<u, j>> <=> u = ut /\ j = i
        BY <2>3
      <4>2. \A j : j \in DoneBy(order, k + 1, u) <=> j \in DoneBy(order, k, u) \/ (u = ut /\ j = i)
        BY <2>3, <3>1, <4>1 DEF DoneBy
      <4> QED BY <4>2
    <3> QED BY <2>7, <3>2
  <2> DEFINE f == [u \in A |-> Claim(level, y.allocs[u], was[u])]
             g == [u \in A |-> Claim(level, z.allocs[u], is[u])]
  <2>11. SumFunctionOnSet(g, A) + z.left <= SumFunctionOnSet(f, A) + y.left
    <3>1. AreClaims(f, level, A, y, was) /\ AreClaims(g, level, A, z, is)
      BY DEF AreClaims
    <3>2. IsTurn(A, ut, i, was, is)
      BY <2>8, <2>9, <2>10 DEF IsTurn
    <3> HIDE DEF f, g
    <3> QED BY <1>1, <2>3, <2>4, <2>5, <3>1, <3>2, TurnWithinClaims
  <2>12. Claims(z, k + 1) + z.left <= Claims(y, k) + y.left
    <3> HIDE DEF done
    <3> QED BY <2>7, <2>11
  <2>13. /\ Claims(z, k + 1) \in Int /\ Claims(y, k) \in Int /\ bound \in Int
         /\ z.left \in Int /\ y.left \in Int
    <3>1. Claims(start, 0) \in Int
      <4> HIDE DEF start, Claims
      <4> QED BY <1>3, <1>5
    <3> HIDE DEF Claims
    <3>2. z.left \in Int /\ y.left \in Int /\ k + 1 \in Nat
      BY <2>4, <2>6 DEF Sharing
    <3> QED BY <1>5, <2>4, <2>6, <3>1, <3>2, SMTT(30)
  <2> HIDE DEF Claims, bound
  <2>14. Claims(z, k + 1) + z.left <= bound
    BY <2>4, <2>12, <2>13
  <2>15. z.rcsLeft = Len(order) - (k + 1)
    BY <1>2, <2>4, <2>6
  <2> QED BY <2>1, <2>6, <2>14, <2>15
<1>8. Len(order) \in B
  <2> HIDE DEF P
  <2>1. \A k \in Nat : k \in B => k + 1 \in B
    BY <1>2, <1>7
  <2> HIDE DEF B
  <2>2. \A k \in Nat : k \in B
    BY <1>6, <2>1, Induction
  <2> QED BY <1>2, <2>2
<1>9. PICK y : y = h[1 .. Len(order)]
  OBVIOUS
<1>10. y \in Sharing(A) /\ Claims(y, Len(order)) + y.left <= bound
  <2> HIDE DEF Claims, bound
  <2> QED BY <1>2, <1>8, <1>9
<1>11. y.allocs \in [A -> Grants] /\ y.left \in Nat
  BY <1>10 DEF Sharing
<1>12. SumFunctionOnSet(Granted(y.allocs), A) <= Claims(y, Len(order))
  <2> DEFINE f == Granted(y.allocs)
             d == done(Len(order))
             g == [u \in A |-> Claim(level, y.allocs[u], d[u])]
  <2>1. \A u \in A : f[u] \in Int /\ g[u] \in Int /\ f[u] <= g[u]
    <3> SUFFICES ASSUME NEW u \in A PROVE f[u] \in Int /\ g[u] \in Int /\ f[u] <= g[u]
      OBVIOUS
    <3>1. PICK b, e : b = y.allocs[u] /\ e = d[u]
      OBVIOUS
    <3>2. b \in Grants /\ f[u] = GetTotalSymbols(b.allocation.total) /\ g[u] = Claim(level, b, e)
      <4> HIDE DEF d
      <4> QED BY <1>11, <3>1 DEF Granted
    <3>3. Rc \ e \in SUBSET Rc
      OBVIOUS
    <3>4. /\ GetTotalSymbols(b.allocation.total) \in Nat
          /\ SumFunctionOnSet(OwedTo(level, b), Rc \ e) \in Nat
      BY <3>2, <3>3, OwedType
    <3>5. g[u] = GetTotalSymbols(b.allocation.total) + SumFunctionOnSet(OwedTo(level, b), Rc \ e)
      BY <3>2 DEF Claim
    <3> HIDE DEF f, g
    <3> QED BY <3>2, <3>4, <3>5
  <2> HIDE DEF f, g, d
  <2>2. SumFunctionOnSet(f, A) <= SumFunctionOnSet(g, A)
    BY <1>1, <2>1, SumMonotonic
  <2> QED BY <2>2 DEF f, g, d
<1>13. bound = SumFunctionOnSet([ut \in A |-> Claim(level, allocs[ut], {})], A) + left
  <2>1. \A u \in A : done(0)[u] = {}
    BY DEF DoneBy
  <2>2. [u \in A |-> Claim(level, start.allocs[u], done(0)[u])] = [ut \in A |-> Claim(level, allocs[ut], {})]
    <3>1. start.allocs = allocs
      OBVIOUS
    <3> HIDE DEF start, done
    <3> QED BY <2>1, <3>1
  <2> HIDE DEF start, done
  <2> QED BY <2>2
<1>14. SumFunctionOnSet(Granted(y.allocs), A) <= bound
  <2>1. Claims(y, Len(order)) \in Int
    <3> HIDE DEF Claims
    <3> QED BY <1>2, <1>5, <1>10
  <2>2. Claims(start, 0) \in Int
    <3> HIDE DEF Claims, start
    <3> QED BY <1>3, <1>5
  <2>3. bound \in Int
    <3> HIDE DEF Claims
    <3> QED BY <2>2
  <2>4. SumFunctionOnSet(Granted(y.allocs), A) \in Int
    <3> DEFINE f == Granted(y.allocs)
    <3>1. \A u \in A : f[u] \in Int
      <4>1. \A u \in A : y.allocs[u].allocation.total \in Symbols
        BY <1>11 DEF Grants, Requests
      <4>2. DOMAIN y.allocs = A
        BY <1>11
      <4>3. \A s \in Symbols : GetTotalSymbols(s) \in Int
        BY TotalType
      <4> QED BY <4>1, <4>2, <4>3 DEF Granted
    <3> HIDE DEF f
    <3>2. SumFunctionOnSet(f, A) \in Int
      BY <1>1, <3>1, SumType
    <3> QED BY <3>2 DEF f
  <2> HIDE DEF Claims, bound
  <2> QED BY <1>10, <1>11, <1>12, <2>1, <2>3, <2>4
<1>15. SharedAmong(level, allocs, left, order) = y.allocs
  BY <1>4, <1>9
<1> HIDE DEF bound
<1> QED BY <1>1, <1>11, <1>13, <1>14, <1>15
-----------------------------------------------------------------------------
(***************************************************************************)
(* Sorting only changes the order in which the RCs have their turns.       *)
(***************************************************************************)
\* The places of a sequence in the order of their ranks.
Before(rank, m, n) == rank[m] < rank[n] \/ (rank[m] = rank[n] /\ m < n)
Smaller(rank, places, n) == {m \in places : Before(rank, m, n)}
AtPlace(rank, places, i) == CHOOSE n \in places : Cardinality(Smaller(rank, places, n)) = i - 1

\* For every place there is one element that as many others come before.
LEMMA PlacesAreTaken ==
  ASSUME NEW N \in Nat, NEW rank, \A n \in 1 .. N : rank[n] \in Nat
  PROVE  \A i \in 1 .. N : /\ AtPlace(rank, 1 .. N, i) \in 1 .. N
                           /\ Cardinality(Smaller(rank, 1 .. N, AtPlace(rank, 1 .. N, i))) = i - 1
<1>1. PICK S : S = 1 .. N /\ IsFiniteSet(S) /\ Cardinality(S) = N
  BY FS_Interval
<1> DEFINE C(n) == Cardinality(Smaller(rank, S, n))
           T == 0 .. N - 1
           c == [n \in S |-> C(n)]
<1>2. ASSUME NEW n \in S PROVE C(n) \in T
  <2>1. Smaller(rank, S, n) \in SUBSET S /\ n \notin Smaller(rank, S, n)
    BY <1>1 DEF Smaller, Before
  <2>2. IsFiniteSet(Smaller(rank, S, n)) /\ C(n) <= N /\ C(n) \in Nat
        /\ (C(n) = N => Smaller(rank, S, n) = S)
    BY <1>1, <2>1, FS_Subset, FS_CardinalityType
  <2> QED BY <2>1, <2>2
<1>3. ASSUME NEW m \in S, NEW n \in S, Before(rank, m, n) PROVE C(m) < C(n)
  <2> DEFINE A == Smaller(rank, S, m)
             B == Smaller(rank, S, n)
  <2>1. rank[m] \in Nat /\ rank[n] \in Nat /\ m \in Nat /\ n \in Nat
    BY <1>1
  <2>2. \A k \in S : Before(rank, k, m) => Before(rank, k, n)
    <3>1. \A k \in S : rank[k] \in Nat /\ k \in Nat
      BY <1>1
    <3> QED BY <1>3, <2>1, <3>1 DEF Before
  <2>3. A \in SUBSET B /\ m \in B /\ m \notin A /\ B \in SUBSET S
    <3>1. m \in Smaller(rank, S, n)
      BY <1>3 DEF Smaller
    <3>2. m \notin Smaller(rank, S, m)
      BY <2>1 DEF Smaller, Before
    <3>3. Smaller(rank, S, m) \subseteq Smaller(rank, S, n) /\ Smaller(rank, S, n) \subseteq S
      BY <2>2 DEF Smaller
    <3> QED BY <3>1, <3>2, <3>3
  <2> HIDE DEF A, B
  <2>4. IsFiniteSet(B)
    BY <1>1, <2>3, FS_Subset
  <2>5. Cardinality(A) \in Nat /\ Cardinality(B) \in Nat /\ Cardinality(A) <= Cardinality(B)
        /\ (Cardinality(A) = Cardinality(B) => A = B)
    BY <2>3, <2>4, FS_Subset, FS_CardinalityType
  <2>6. Cardinality(A) < Cardinality(B)
    BY <2>3, <2>5
  <2> QED BY <2>6 DEF A, B
<1>4. \A m, n \in S : m # n => C(m) # C(n)
  <2>1. \A m, n \in S : m # n => Before(rank, m, n) \/ Before(rank, n, m)
    <3>1. \A k \in S : rank[k] \in Nat /\ k \in Nat
      BY <1>1
    <3> QED BY <3>1 DEF Before
  <2>2. \A n \in S : C(n) \in Int
    BY <1>2
  <2> HIDE DEF C
  <2> QED BY <1>3, <2>1, <2>2
<1>5. IsFiniteSet(T) /\ Cardinality(T) = N
  <2>1. 0 \in Int /\ N - 1 \in Int
    OBVIOUS
  <2>2. Cardinality(0 .. N - 1) = (IF 0 > N - 1 THEN 0 ELSE N - 1 - 0 + 1) /\ IsFiniteSet(0 .. N - 1)
    BY <2>1, FS_Interval
  <2> QED BY <2>2
<1> HIDE DEF C
<1>6. c \in [S -> T]
  BY <1>2
<1>7. c \in Injection(S, T)
  BY <1>4, <1>6, FS_Injection DEF Injection, IsInjective
<1>8. c \in Surjection(S, T)
  <2> HIDE DEF c, T
  <2> QED BY <1>1, <1>5, <1>7, FS_Injection
<1>9. \A i \in 1 .. N : \E n \in S : C(n) = i - 1
  <2>1. \A i \in 1 .. N : i - 1 \in T
    OBVIOUS
  <2>2. \A t \in T : \E n \in S : c[n] = t
    BY <1>8 DEF Surjection
  <2> HIDE DEF T
  <2>3. \A i \in 1 .. N : \E n \in S : c[n] = i - 1
    BY <2>1, <2>2
  <2> QED BY <2>3
<1>10. ASSUME NEW i \in 1 .. N
       PROVE  /\ AtPlace(rank, S, i) \in S
              /\ Cardinality(Smaller(rank, S, AtPlace(rank, S, i))) = i - 1
  <2>1. \E n \in S : Cardinality(Smaller(rank, S, n)) = i - 1
    BY <1>9 DEF C
  <2> QED BY <2>1, Zenon DEF AtPlace
<1> QED BY <1>1, <1>10

\* Requests are ranked by a number.
LEMMA RankedType ==
  \A level \in LevelNames, s \in Symbols : Ranked(level, s) \in Nat
BY DEF LevelNames, Symbols, Ranked

\* Sorting only changes the order.
LEMMA SortedKeeps ==
  ASSUME NEW level \in LevelNames, NEW f,
         m_utAllocs[f] \in [AllocatedTo(f) -> Grants],
         m_rcAllocs[f] \in Seq(AllocatedTo(f) \X Rc), Distinct(m_rcAllocs[f])
  PROVE  Sorted(level, f) \in Seq(AllocatedTo(f) \X Rc) /\ Distinct(Sorted(level, f))
<1> DEFINE q == m_rcAllocs[f]
           A == AllocatedTo(f)
           N == Len(q)
           rank(n) == Ranked(level, m_utAllocs[f][q[n][1]].request.rc[q[n][2]])
           places == DOMAIN q
           before(m, n) == rank(m) < rank(n) \/ (rank(m) = rank(n) /\ m < n)
           after(n) == Cardinality({m \in places : before(m, n)})
<1>1. Sorted(level, f) = [i \in places |-> q[CHOOSE n \in places : after(n) = i - 1]]
  BY Zenon DEF Sorted
<1>2. /\ q \in Seq(A \X Rc) /\ N \in Nat /\ DOMAIN q = 1 .. N /\ Distinct(q)
      /\ \A n \in 1 .. N : q[n] \in A \X Rc /\ q[n][1] \in A /\ q[n][2] \in Rc
  OBVIOUS
<1> HIDE DEF q
<1>3. PICK r : r = [n \in 1 .. N |-> rank(n)]
  OBVIOUS
<1>4. \A n \in 1 .. N : r[n] = rank(n) /\ r[n] \in Nat
  <2>1. ASSUME NEW n \in 1 .. N PROVE rank(n) \in Nat
    <3>1. PICK a : a = m_utAllocs[f][q[n][1]]
      OBVIOUS
    <3>2. a \in Grants
      BY <1>2, <3>1
    <3>3. a.request.rc[q[n][2]] \in Symbols
      BY <1>2, <3>2 DEF Grants, Requests
    <3> QED BY <3>1, <3>3, RankedType
  <2> HIDE DEF rank
  <2> QED BY <1>3, <2>1
<1> DEFINE p(i) == AtPlace(r, 1 .. N, i)
<1>5. Sorted(level, f) = [i \in 1 .. N |-> q[p(i)]]
  <2>2. \A n \in 1 .. N : after(n) = Cardinality(Smaller(r, 1 .. N, n))
    <3> SUFFICES ASSUME NEW n \in 1 .. N PROVE after(n) = Cardinality(Smaller(r, 1 .. N, n))
      OBVIOUS
    <3> HIDE DEF rank
    <3>1. {m \in places : before(m, n)} = Smaller(r, 1 .. N, n)
      BY <1>2, <1>4 DEF Smaller, Before
    <3> QED BY <3>1
  <2> HIDE DEF after
  <2>3. \A i : (CHOOSE n \in places : after(n) = i - 1) = p(i)
    <3> SUFFICES ASSUME NEW i PROVE (CHOOSE n \in places : after(n) = i - 1) = p(i)
      OBVIOUS
    <3>1. \A n : (n \in places /\ after(n) = i - 1)
                   <=> (n \in 1 .. N /\ Cardinality(Smaller(r, 1 .. N, n)) = i - 1)
      BY <1>2, <2>2
    <3> QED BY <3>1, Zenon DEF AtPlace
  <2>4. places = 1 .. N
    BY <1>2
  <2> HIDE DEF p, places
  <2> QED BY <1>1, <2>3, <2>4
<1>6. \A i \in 1 .. N : p(i) \in 1 .. N /\ Cardinality(Smaller(r, 1 .. N, p(i))) = i - 1
  <2>1. \A n \in 1 .. N : r[n] \in Nat
    BY <1>4
  <2> QED BY <1>2, <2>1, PlacesAreTaken
<1> HIDE DEF p
<1>7. \A i, j \in 1 .. N : i # j => p(i) # p(j)
  <2>1. \A i, j \in 1 .. N : i # j => i - 1 # j - 1
    OBVIOUS
  <2> QED BY <1>6, <2>1
<1>8. PICK s : s = [i \in 1 .. N |-> q[p(i)]]
  OBVIOUS
<1>9. s \in Seq(A \X Rc)
  <2>1. \A i \in 1 .. N : q[p(i)] \in A \X Rc
    BY <1>2, <1>6
  <2> QED BY <1>2, <1>8, <2>1
<1>10. Distinct(s)
  <2>1. DOMAIN s = 1 .. N /\ \A i \in 1 .. N : s[i] = q[p(i)]
    BY <1>8
  <2> QED BY <1>2, <1>6, <1>7, <2>1 DEF Distinct
<1> QED BY <1>5, <1>8, <1>9, <1>10
-----------------------------------------------------------------------------
(***************************************************************************)
(* A level that fits: what is accepted and shared is within the target.    *)
(***************************************************************************)
\* The target load of a frame is a part of its symbols.
LEMMA SymbolCounts ==
  /\ TotalSymbols \in Nat /\ AvailableSymbols \in Nat /\ AvailableSymbols <= TotalSymbols
  /\ CarrierSymbols \in Nat \ {0}
<1> DEFINE T == TotalSymbols
           a == TargetLoad[1]
           b == TargetLoad[2]
           q == (a * T) \div b
<1>1. CarrierSymbols \in Nat \ {0} /\ Cardinality(Carrier) \in Nat
      /\ a \in Nat /\ b \in Nat \ {0} /\ a <= b
  BY FrameAssumption, FS_CardinalityType
<1>2. T \in Nat
  BY <1>1 DEF TotalSymbols
<1> HIDE DEF T, a, b
<1>3. a * T \in Nat
  BY <1>1, <1>2
<1>4. q \in Nat /\ q \in Int /\ a * T = q * b + ((a * T) % b) /\ (a * T) % b \in 0 .. b - 1
  <2>1. PICK m : m = a * T
    OBVIOUS
  <2>2. m \in Nat /\ m \in Int
    BY <1>3, <2>1
  <2>3. m \div b \in Nat
    BY <1>1, <2>2, DividedAmong
  <2>4. m = (m \div b) * b + (m % b) /\ m % b \in 0 .. b - 1
    BY <1>1, <2>2, DivModType, DivModSplit
  <2>5. q = m \div b
    BY <2>1
  <2> QED BY <2>1, <2>3, <2>4, <2>5
<1> HIDE DEF q
<1>5. q * b <= a * T /\ q * b \in Int
  <2>1. q * b \in Int
    BY <1>1, <1>4, TimesType
  <2> QED BY <1>3, <1>4, <2>1
<1>6. a * T <= T * b /\ T * b \in Int
  <2>1. b * T = T * b /\ T * b \in Int /\ b * T \in Int
    BY <1>1, <1>2
  <2>2. CASE a = b
    BY <1>3, <2>1, <2>2
  <2>3. CASE T = 0
    <3>1. a * 0 = 0 /\ 0 * b = 0
      BY <1>1
    <3> QED BY <2>3, <3>1
  <2>4. CASE a # b /\ T # 0
    <3>1. a * T + T <= b * T
      BY <1>1, <1>2, <2>4, TimesMonotonic
    <3> QED BY <1>2, <1>3, <2>1, <3>1
  <2> QED BY <2>2, <2>3, <2>4
<1>7. q <= T
  <2> SUFFICES ASSUME T < q PROVE FALSE
    BY <1>2, <1>4
  <2>1. T * b + b <= q * b
    BY <1>1, <1>2, <1>4, TimesMonotonic
  <2> QED BY <1>1, <1>3, <1>5, <1>6, <2>1
<1> QED BY <1>1, <1>2, <1>4, <1>7 DEF AvailableSymbols, q, T, a, b

\* The level at which a frame shares its symbols.
LEMMA LevelFits ==
  ASSUME NEW f, ~CrasDoNotFit(f)
  PROVE  /\ LevelOf(f) \in LevelNames
         /\ Used(LevelOf(f), m_preAllocated[f]) <= AvailableSymbols
<1>1. PICK F : F = FittingLevels(f) /\ F # {}
  BY DEF CrasDoNotFit
<1>2. F \in SUBSET (1 .. 4)
  BY <1>1 DEF FittingLevels, Levels
<1>3. F \in SUBSET (0 .. 4)
  BY <1>2
<1>4. \E x \in F : \A y \in F : x <= y
  BY <1>1, <1>3, LeastElement
<1>5. Min(F) \in F
  BY <1>4, Zenon DEF Min
<1>6. \A i \in 1 .. 4 : Levels[i] \in LevelNames
  <2>1. \A i \in 1 .. 4 : i = 1 \/ i = 2 \/ i = 3 \/ i = 4
    OBVIOUS
  <2> QED BY <2>1 DEF Levels, LevelNames
<1>7. PICK i : i = Min(F)
  OBVIOUS
<1>8. LevelOf(f) = Levels[i]
  BY <1>1, <1>7 DEF LevelOf
<1>9. i \in FittingLevels(f) /\ i \in 1 .. 4
  BY <1>1, <1>2, <1>5, <1>7
<1> QED BY <1>6, <1>8, <1>9 DEF FittingLevels

\* What a level grants, before anything is shared, is no more than what is
\* counted for it.
LEMMA AcceptedWithinUsed ==
  ASSUME NEW level \in LevelNames, NEW alloc \in Grants, Consistent(alloc.request)
  PROVE  LET a == AcceptRequests(level, alloc)
         IN  /\ a \in Grants
             /\ Claim(level, a, {}) <= Used(level, alloc.request.total)
             /\ GetTotalSymbols(a.allocation.total) <= Used(level, alloc.request.total)
<1> DEFINE req == alloc.request
           a == AcceptRequests(level, alloc)
           t == Accepted(level, req.total)
           rc == [i \in Rc |-> Accepted(level, req.rc[i])]
<1>1. /\ req \in Requests /\ req.total \in Symbols /\ req.rc \in [Rc -> Symbols]
      /\ alloc = [request |-> req, ctrl |-> alloc.ctrl, allocation |-> alloc.allocation]
      /\ alloc.ctrl \in BOOLEAN
  BY DEF Grants, Requests
<1>2. a = [request |-> req, ctrl |-> alloc.ctrl, allocation |-> [total |-> t, rc |-> rc]]
  <2>1. \A v : [alloc EXCEPT !.allocation = v] = [request |-> req, ctrl |-> alloc.ctrl, allocation |-> v]
    <3> HIDE DEF req
    <3> QED BY <1>1
  <2> HIDE DEF t, rc
  <2> QED BY <2>1 DEF AcceptRequests, t, rc
<1>3. \A s \in Symbols :
        /\ Accepted(level, s) \in Symbols
        /\ GetTotalSymbols(Accepted(level, s)) + (IF level = "CRA_MIN_RBDC" THEN s.minRbdc ELSE 0)
             = Used(level, s)
        /\ level = "CRA_MIN_RBDC" => Accepted(level, s).minRbdc = s.minRbdc
  <2> SUFFICES ASSUME NEW s \in Symbols
        PROVE  /\ Accepted(level, s) \in Symbols
               /\ GetTotalSymbols(Accepted(level, s)) + (IF level = "CRA_MIN_RBDC" THEN s.minRbdc ELSE 0)
                    = Used(level, s)
               /\ level = "CRA_MIN_RBDC" => Accepted(level, s).minRbdc = s.minRbdc
    OBVIOUS
  <2>1. s = [cra |-> s.cra, minRbdc |-> s.minRbdc, rbdc |-> s.rbdc, vbdc |-> s.vbdc]
        /\ s.cra \in Nat /\ s.minRbdc \in Nat /\ s.rbdc \in Nat /\ s.vbdc \in Nat
    BY DEF Symbols
  <2>2. CASE level = "CRA"
    <3>1. Accepted(level, s) = [cra |-> s.cra, minRbdc |-> 0, rbdc |-> 0, vbdc |-> 0]
      BY <2>2 DEF Accepted, None
    <3> QED BY <2>1, <2>2, <3>1 DEF Symbols, GetTotalSymbols, Used
  <2>3. CASE level = "CRA_MIN_RBDC"
    <3>1. Accepted(level, s) = [cra |-> s.cra, minRbdc |-> s.minRbdc, rbdc |-> 0, vbdc |-> 0]
      BY <2>3 DEF Accepted, None
    <3> QED BY <2>1, <2>3, <3>1 DEF Symbols, GetTotalSymbols, Used
  <2>4. CASE level = "CRA_RBDC"
    <3>1. Accepted(level, s) = [cra |-> s.cra, minRbdc |-> s.minRbdc, rbdc |-> s.rbdc, vbdc |-> 0]
      BY <2>1, <2>4 DEF Accepted
    <3> QED BY <2>1, <2>4, <3>1 DEF Symbols, GetTotalSymbols, Used
  <2>5. CASE level = "CRA_RBDC_VBDC"
    <3>1. Accepted(level, s) = s
      BY <2>5 DEF Accepted
    <3> QED BY <2>1, <2>5, <3>1 DEF Symbols, GetTotalSymbols, Used
  <2> QED BY <2>2, <2>3, <2>4, <2>5 DEF LevelNames
<1>4. t \in Symbols /\ rc \in [Rc -> Symbols]
  BY <1>1, <1>3
<1>5. a \in Grants
  <2> HIDE DEF t, rc, req, a
  <2> QED BY <1>1, <1>2, <1>4 DEF Grants, Requests
<1>6. /\ a.allocation.total = t
      /\ \A i \in Rc : a.allocation.rc[i] = Accepted(level, req.rc[i])
  <2> HIDE DEF t, a, req
  <2> QED BY <1>2
<1> HIDE DEF a
<1>7. SumFunctionOnSet(OwedTo(level, a), Rc)
        <= (IF level = "CRA_MIN_RBDC" THEN req.total.minRbdc ELSE 0)
  <2> DEFINE o == OwedTo(level, a)
  <2>1. \A i \in Rc : o[i] = Owed(level, a, i) /\ o[i] \in Nat
    BY <1>5, OwedType
  <2>2. IsFiniteSet(Rc)
    BY FrameAssumption
  <2>3. CASE level = "CRA_MIN_RBDC"
    <3> DEFINE m == [i \in Rc |-> req.rc[i].minRbdc]
    <3>1. \A i \in Rc : o[i] \in Int /\ o[i] = m[i]
      <4> SUFFICES ASSUME NEW i \in Rc PROVE o[i] \in Int /\ o[i] = m[i]
        OBVIOUS
      <4>1. o[i] = Accepted(level, req.rc[i]).minRbdc
        <5> HIDE DEF o
        <5> QED BY <1>6, <2>1, <2>3 DEF Owed
      <4>2. req.rc[i] \in Symbols
        BY <1>1
      <4>3. Accepted(level, req.rc[i]).minRbdc = req.rc[i].minRbdc
        BY <1>3, <2>3, <4>2
      <4> HIDE DEF o
      <4> QED BY <2>1, <4>1, <4>3
    <3> HIDE DEF o, m
    <3>2. SumFunctionOnSet(o, Rc) = SumFunctionOnSet(m, Rc)
      BY <2>2, <3>1, SumSame
    <3>3. SumFunctionOnSet(m, Rc) <= req.total.minRbdc
      BY DEF Consistent, MinRbdcOf, m
    <3> QED BY <2>3, <3>2, <3>3 DEF o
  <2>4. CASE level # "CRA_MIN_RBDC"
    <3>1. \A i \in Rc : o[i] = 0
      <4> HIDE DEF o
      <4> QED BY <2>1, <2>4 DEF Owed
    <3> HIDE DEF o
    <3>2. SumFunctionOnSet(o, Rc) = 0
      BY <2>2, <3>1, SumOfZeros
    <3> QED BY <2>4, <3>2 DEF o
  <2> QED BY <2>3, <2>4
<1>8. GetTotalSymbols(t) + (IF level = "CRA_MIN_RBDC" THEN req.total.minRbdc ELSE 0)
        = Used(level, req.total)
  <2> HIDE DEF req
  <2> QED BY <1>1, <1>3
<1>9. /\ GetTotalSymbols(t) \in Nat /\ req.total.minRbdc \in Nat
      /\ SumFunctionOnSet(OwedTo(level, a), Rc) \in Nat
  <2>1. Rc \in SUBSET Rc
    OBVIOUS
  <2>2. req.total.minRbdc \in Nat
    BY <1>1 DEF Symbols
  <2> HIDE DEF t
  <2> QED BY <1>4, <1>5, <2>1, <2>2, TotalType, OwedType
<1>10. Claim(level, a, {}) = GetTotalSymbols(t) + SumFunctionOnSet(OwedTo(level, a), Rc)
  <2>1. Rc \ {} = Rc
    OBVIOUS
  <2> HIDE DEF t
  <2> QED BY <1>6, <2>1 DEF Claim
<1> HIDE DEF t, req
<1>11. Claim(level, a, {}) <= Used(level, req.total) /\ GetTotalSymbols(t) <= Used(level, req.total)
  BY <1>7, <1>8, <1>9, <1>10
<1> QED BY <1>5, <1>6, <1>11 DEF a, req

\* A frame grants no more than its target load.
LEMMA SharedLoad ==
  ASSUME NEW f, IsFiniteSet(AllocatedTo(f)), ~CrasDoNotFit(f),
         FrameInv(m_preAllocated[f], m_utAllocs[f], m_rcAllocs[f])
  PROVE  SumFunction(Granted(Shared(LevelOf(f), f))) <= AvailableSymbols
<1>1. PICK level : level = LevelOf(f)
  OBVIOUS
<1>2. PICK pre, A : pre = m_preAllocated[f] /\ A = AllocatedTo(f) /\ IsFiniteSet(A)
  OBVIOUS
<1> DEFINE agreed == [ut \in AllocatedTo(f) |-> AcceptRequests(level, m_utAllocs[f][ut])]
           left == AvailableSymbols - Used(level, pre)
           order == Sorted(level, f)
           result == IF IsShared(level) THEN SharedAmong(level, agreed, left, order) ELSE agreed
           u == [ut \in A |-> Used(level, m_utAllocs[f][ut].request.total)]
           claims == [ut \in A |-> Claim(level, agreed[ut], {})]
<1>3. level \in LevelNames /\ Used(level, pre) <= AvailableSymbols
  BY <1>1, <1>2, LevelFits
<1>4. /\ pre \in Symbols /\ pre.minRbdc <= pre.rbdc
      /\ m_utAllocs[f] \in [A -> Grants]
      /\ \A ut \in A : Consistent(m_utAllocs[f][ut].request)
      /\ \A l \in LevelNames : Covered(l, pre, m_utAllocs[f])
      /\ m_rcAllocs[f] \in Seq(A \X Rc) /\ Distinct(m_rcAllocs[f])
  BY <1>2 DEF FrameInv, AllocatedTo
<1>5. Used(level, pre) \in Nat /\ left \in Nat /\ AvailableSymbols \in Nat
  <2>1. Used(level, pre) \in Nat
    BY <1>3, <1>4, SymbolsAdd
  <2> QED BY <1>3, <2>1, SymbolCounts
<1>6. SumFunctionOnSet(u, A) <= Used(level, pre)
  <2>1. SumFunctionOnSet(u, A) = UsedBy(level, m_utAllocs[f])
    BY <1>2 DEF UsedBy, AllocatedTo
  <2>2. Covered(level, pre, m_utAllocs[f])
    BY <1>3, <1>4
  <2>3. CASE UsedBy(level, m_utAllocs[f]) <= Used(level, pre)
    BY <2>1, <2>3
  <2>4. CASE level = "CRA_RBDC_VBDC" /\ Used("CRA_RBDC", pre) > TotalSymbols
    <3>1. Used("CRA_RBDC", pre) <= Used("CRA_RBDC_VBDC", pre) /\ Used("CRA_RBDC", pre) \in Nat
      BY <1>4 DEF Symbols, Used, GetTotalSymbols
    <3> QED BY <1>3, <1>5, <2>4, <3>1, SymbolCounts
  <2> QED BY <2>2, <2>3, <2>4 DEF Covered
<1>7. \A ut \in A : /\ agreed[ut] \in Grants /\ u[ut] \in Int
                    /\ claims[ut] \in Int /\ claims[ut] <= u[ut]
                    /\ GetTotalSymbols(agreed[ut].allocation.total) <= u[ut]
  <2> SUFFICES ASSUME NEW ut \in A
               PROVE  /\ agreed[ut] \in Grants /\ u[ut] \in Int
                      /\ claims[ut] \in Int /\ claims[ut] <= u[ut]
                      /\ GetTotalSymbols(agreed[ut].allocation.total) <= u[ut]
    OBVIOUS
  <2>1. PICK alloc, a : alloc = m_utAllocs[f][ut] /\ a = AcceptRequests(level, alloc)
    OBVIOUS
  <2>2. alloc \in Grants /\ Consistent(alloc.request)
    BY <1>4, <2>1
  <2>3. /\ a \in Grants /\ Claim(level, a, {}) <= Used(level, alloc.request.total)
        /\ GetTotalSymbols(a.allocation.total) <= Used(level, alloc.request.total)
    BY <1>3, <2>1, <2>2, AcceptedWithinUsed
  <2>4. Claim(level, a, {}) \in Nat
    BY <2>3, OwedType
  <2>5. agreed[ut] = a /\ u[ut] = Used(level, alloc.request.total) /\ claims[ut] = Claim(level, a, {})
    BY <1>2, <2>1
  <2>6. Used(level, alloc.request.total) \in Nat
    <3>1. alloc.request.total \in Symbols
      BY <2>2 DEF Grants, Requests
    <3> QED BY <1>3, <3>1, SymbolsAdd
  <2> HIDE DEF agreed, u, claims
  <2> QED BY <2>3, <2>4, <2>5, <2>6
<1>8. DOMAIN agreed = A /\ agreed \in [A -> Grants]
  BY <1>2, <1>7
<1>9. order \in Seq(A \X Rc) /\ Distinct(order)
  BY <1>2, <1>3, <1>4, SortedKeeps
<1>10. SumFunctionOnSet(u, A) \in Int
  <2> HIDE DEF u
  <2>1. \A ut \in A : u[ut] \in Int
    BY <1>7
  <2> QED BY <1>2, <2>1, SumType
<1> DEFINE granted == Granted(result)
<1> HIDE DEF agreed, order, left
<1>11. result \in [A -> Grants] /\ SumFunctionOnSet(granted, A) <= AvailableSymbols
  <2>1. CASE IsShared(level)
    <3>1. PICK r : r = SharedAmong(level, agreed, left, order)
      OBVIOUS
    <3>2. result = r
      BY <2>1, <3>1
    <3>3. /\ r \in [DOMAIN agreed -> Grants]
          /\ SumFunctionOnSet(Granted(r), DOMAIN agreed)
               <= SumFunctionOnSet([ut \in DOMAIN agreed |-> Claim(level, agreed[ut], {})],
                                   DOMAIN agreed) + left
      <4>1. /\ IsFiniteSet(DOMAIN agreed) /\ agreed \in [DOMAIN agreed -> Grants]
            /\ order \in Seq((DOMAIN agreed) \X Rc) /\ left \in Nat
        BY <1>2, <1>5, <1>8, <1>9
      <4> QED BY <1>3, <1>9, <3>1, <4>1, SharedWithin
    <3>4. SumFunctionOnSet(Granted(r), A) <= SumFunctionOnSet(claims, A) + left
      BY <1>8, <3>3
    <3>5. SumFunctionOnSet(claims, A) <= SumFunctionOnSet(u, A)
          /\ SumFunctionOnSet(claims, A) \in Int
      <4> HIDE DEF claims, u
      <4>1. \A ut \in A : claims[ut] \in Int
        BY <1>7
      <4> QED BY <1>2, <1>7, <4>1, SumMonotonic, SumType
    <3>6. left = AvailableSymbols - Used(level, pre)
      BY DEF left
    <3>7. SumFunctionOnSet(Granted(r), A) \in Int
      <4> DEFINE g == Granted(r)
      <4>1. \A ut \in A : g[ut] \in Int
        <5>1. \A ut \in A : r[ut].allocation.total \in Symbols
          BY <1>8, <3>3 DEF Grants, Requests
        <5> QED BY <1>8, <3>3, <5>1, TotalType DEF Granted
      <4> HIDE DEF g
      <4>2. SumFunctionOnSet(g, A) \in Int
        BY <1>2, <4>1, SumType
      <4> QED BY <4>2 DEF g
    <3> HIDE DEF claims, u, result
    <3> QED BY <1>5, <1>6, <1>8, <1>10, <3>2, <3>3, <3>4, <3>5, <3>6, <3>7
  <2>2. CASE ~IsShared(level)
    <3>1. result = agreed
      BY <2>2
    <3> DEFINE g == Granted(agreed)
    <3>2. \A ut \in A : g[ut] \in Int /\ u[ut] \in Int /\ g[ut] <= u[ut]
      <4>1. \A ut \in A : agreed[ut].allocation.total \in Symbols
        BY <1>7 DEF Grants, Requests
      <4>2. \A ut \in A : g[ut] = GetTotalSymbols(agreed[ut].allocation.total)
        BY <1>8 DEF Granted
      <4>3. \A ut \in A : g[ut] \in Int
        BY <4>1, <4>2, TotalType
      <4> HIDE DEF g, u
      <4> QED BY <1>7, <4>2, <4>3
    <3> HIDE DEF g, u
    <3>3. SumFunctionOnSet(g, A) <= SumFunctionOnSet(u, A) /\ SumFunctionOnSet(g, A) \in Int
      <4>1. \A ut \in A : g[ut] \in Int
        BY <3>2
      <4> QED BY <1>2, <3>2, <4>1, SumMonotonic, SumType
    <3>4. SumFunctionOnSet(g, A) <= AvailableSymbols
      BY <1>3, <1>5, <1>6, <1>10, <3>3
    <3> HIDE DEF result
    <3> QED BY <1>8, <3>1, <3>4 DEF g
  <2> QED BY <2>1, <2>2
<1>12. Shared(LevelOf(f), f) = [ut \in A |-> result[ut]]
  BY <1>1, <1>2, Zenon DEF Shared, agreed, order, left
<1> HIDE DEF result
<1>13. Shared(LevelOf(f), f) = result
  BY <1>11, <1>12
<1>14. DOMAIN Granted(result) = A
  BY <1>11 DEF Granted
<1> QED BY <1>11, <1>13, <1>14 DEF SumFunction
-----------------------------------------------------------------------------
(***************************************************************************)
(* Allocating: the symbols pre-allocated for a request cover what it is    *)
(* cut to.                                                                 *)
(***************************************************************************)
\* A share of a number by a proportion is a number.
LEMMA Proportion == \A a \in Nat, b \in Nat, c \in Nat \ {0} : (a * b) \div c \in Nat
<1> SUFFICES ASSUME NEW a \in Nat, NEW b \in Nat, NEW c \in Nat \ {0} PROVE (a * b) \div c \in Nat
  OBVIOUS
<1>1. PICK m : m = a * b
  OBVIOUS
<1>2. m \in Nat
  BY <1>1
<1>3. m \div c \in Nat
  BY <1>2, DividedAmong
<1> QED BY <1>1, <1>3

\* A request that is cut to a carrier is still consistent, and uses what is
\* pre-allocated for it.
LEMMA FittedRequest ==
  ASSUME NEW req, Admissible(req)
  PROVE  LET r == FittedToCarrier(req)
             t == req.total
             k == CarrierSymbols - t.cra
         IN  /\ Consistent(r)
             /\ r.total.cra = t.cra /\ r.total.minRbdc = t.minRbdc
             /\ r.total.rbdc = AtMost(k, t.rbdc)
             /\ r.total.vbdc = AtMost(AtLeast(0, k - t.rbdc), t.vbdc)
<1> DEFINE r == FittedToCarrier(req)
           t == req.total
           K == CarrierSymbols
           beyond(level) == CarrierSymbols - Used(level, req.total)
           m == [i \in Rc |-> req.rc[i].minRbdc]
<1>1. /\ req \in Requests /\ t \in Symbols /\ req.rc \in [Rc -> Symbols]
      /\ req = [total |-> t, rc |-> req.rc]
      /\ t = [cra |-> t.cra, minRbdc |-> t.minRbdc, rbdc |-> t.rbdc, vbdc |-> t.vbdc]
      /\ t.cra \in Nat /\ t.minRbdc \in Nat /\ t.rbdc \in Nat /\ t.vbdc \in Nat
      /\ t.minRbdc <= t.rbdc /\ t.cra + t.minRbdc <= K /\ K \in Nat
      /\ SumFunctionOnSet(m, Rc) <= t.minRbdc
  BY SymbolCounts DEF Admissible, Consistent, Requests, Symbols, MinRbdcOf
<1>2. \A i \in Rc :
        /\ req.rc[i] = [cra |-> req.rc[i].cra, minRbdc |-> req.rc[i].minRbdc,
                        rbdc |-> req.rc[i].rbdc, vbdc |-> req.rc[i].vbdc]
        /\ req.rc[i].cra \in Nat /\ req.rc[i].minRbdc \in Nat
        /\ req.rc[i].rbdc \in Nat /\ req.rc[i].vbdc \in Nat
  BY <1>1 DEF Symbols
<1>3. /\ beyond("CRA") = K - t.cra
      /\ beyond("CRA_MIN_RBDC") = K - t.cra - t.minRbdc
      /\ beyond("CRA_RBDC") = K - t.cra - t.rbdc
      /\ beyond("CRA_RBDC_VBDC") = K - t.cra - t.rbdc - t.vbdc
  BY <1>1 DEF Used, GetTotalSymbols
<1>4. r = IF beyond("CRA_RBDC") < 0 THEN CutRbdc(req, beyond("CRA_MIN_RBDC"))
          ELSE IF beyond("CRA_RBDC_VBDC") < 0 THEN CutVbdc(req, beyond("CRA_RBDC"))
          ELSE req
  <2>1. ~(beyond("CRA_MIN_RBDC") < 0)
    <3> HIDE DEF beyond, t
    <3> QED BY <1>1, <1>3
  <2> QED BY <2>1, Zenon DEF FittedToCarrier
<1> HIDE DEF beyond
\* It is enough to look at the totals and at the types of the parts.
<1>5. ASSUME NEW n \in Nat, NEW v \in Nat, NEW rc \in [Rc -> Symbols],
             \A i \in Rc : rc[i].minRbdc = req.rc[i].minRbdc,
             r = [total |-> [cra |-> t.cra, minRbdc |-> t.minRbdc, rbdc |-> n, vbdc |-> v], rc |-> rc],
             t.minRbdc <= n
      PROVE  Consistent(r)
  <2> DEFINE w == [i \in Rc |-> r.rc[i].minRbdc]
  <2>1. \A i \in Rc : w[i] \in Int /\ w[i] = m[i]
    <3>1. \A i \in Rc : r.rc[i].minRbdc = req.rc[i].minRbdc
      <4> HIDE DEF r, t
      <4> QED BY <1>5
    <3>2. \A i \in Rc : m[i] = req.rc[i].minRbdc
      OBVIOUS
    <3>3. \A i \in Rc : m[i] \in Int
      <4>1. \A i \in Rc : req.rc[i].minRbdc \in Nat
        BY <1>2, Zenon
      <4> HIDE DEF m
      <4> QED BY <3>2, <4>1
    <3> HIDE DEF r, t, m
    <3> QED BY <3>1, <3>2, <3>3
  <2>2. IsFiniteSet(Rc)
    BY FrameAssumption
  <2>3. SumFunctionOnSet(w, Rc) = SumFunctionOnSet(m, Rc)
    <3> HIDE DEF w, m, r, t
    <3> QED BY <2>1, <2>2, SumSame
  <2>4. /\ r \in Requests /\ r.total.minRbdc = t.minRbdc /\ r.total.rbdc = n
    <3> HIDE DEF r, t
    <3> QED BY <1>1, <1>5 DEF Requests, Symbols
  <2> HIDE DEF r, m, t
  <2> QED BY <1>1, <1>5, <2>3, <2>4 DEF Consistent, MinRbdcOf
<1>6. CASE beyond("CRA_RBDC") < 0
  <2> DEFINE left == K - t.cra - t.minRbdc
             over(s) == AtLeast(0, s.rbdc - s.minRbdc)
             rc == [i \in Rc |->
                      [req.rc[i] EXCEPT
                         !.rbdc = (over(req.rc[i]) * left) \div over(t) + req.rc[i].minRbdc,
                         !.vbdc = 0]]
             n == left + t.minRbdc
  <2>1. r = CutRbdc(req, left)
    BY <1>3, <1>4, <1>6
  <2>2. r = [total |-> [t EXCEPT !.rbdc = n, !.vbdc = 0], rc |-> rc]
    BY <2>1 DEF CutRbdc
  <2>3. left \in Nat /\ over(t) \in Nat \ {0} /\ t.rbdc > K - t.cra
    <3> HIDE DEF t
    <3> QED BY <1>1, <1>3, <1>6 DEF AtLeast
  <2> HIDE DEF left
  <2>4. ASSUME NEW i \in Rc PROVE rc[i] \in Symbols /\ rc[i].minRbdc = req.rc[i].minRbdc
    <3>1. PICK s : s = req.rc[i]
      OBVIOUS
    <3>2. /\ s = [cra |-> s.cra, minRbdc |-> s.minRbdc, rbdc |-> s.rbdc, vbdc |-> s.vbdc]
          /\ s.cra \in Nat /\ s.minRbdc \in Nat /\ s.rbdc \in Nat /\ s.vbdc \in Nat
      BY <1>2, <3>1
    <3>3. over(s) \in Nat
      BY <3>2 DEF AtLeast
    <3>4. PICK p : p = (over(s) * left) \div over(t)
      OBVIOUS
    <3>5. p \in Nat
      <4> HIDE DEF over
      <4> QED BY <2>3, <3>3, <3>4, Proportion
    <3>6. rc[i] = [s EXCEPT !.rbdc = p + s.minRbdc, !.vbdc = 0]
      BY <3>1, <3>4
    <3>7. rc[i] = [cra |-> s.cra, minRbdc |-> s.minRbdc, rbdc |-> p + s.minRbdc, vbdc |-> 0]
      <4> HIDE DEF rc
      <4> QED BY <3>2, <3>6
    <3> HIDE DEF rc
    <3> QED BY <3>1, <3>2, <3>5, <3>7 DEF Symbols
  <2>5. rc \in [Rc -> Symbols] /\ \A i \in Rc : rc[i].minRbdc = req.rc[i].minRbdc
    <3>1. rc = [i \in Rc |-> rc[i]]
      OBVIOUS
    <3> HIDE DEF rc
    <3> QED BY <2>4, <3>1
  <2>6. [t EXCEPT !.rbdc = n, !.vbdc = 0] = [cra |-> t.cra, minRbdc |-> t.minRbdc, rbdc |-> n, vbdc |-> 0]
    <3>1. [t EXCEPT !.rbdc = n] = [cra |-> t.cra, minRbdc |-> t.minRbdc, rbdc |-> n, vbdc |-> t.vbdc]
      <4> HIDE DEF t, n
      <4> QED BY <1>1
    <3>2. PICK s : s = [t EXCEPT !.rbdc = n]
      OBVIOUS
    <3>3. [s EXCEPT !.vbdc = 0] = [cra |-> t.cra, minRbdc |-> t.minRbdc, rbdc |-> n, vbdc |-> 0]
      <4>1. PICK a, b, c, d : s = [cra |-> a, minRbdc |-> b, rbdc |-> c, vbdc |-> d]
                              /\ a = t.cra /\ b = t.minRbdc /\ c = n
        <5> HIDE DEF t, n
        <5> QED BY <3>1, <3>2, Zenon
      <4>2. [s EXCEPT !.vbdc = 0] = [cra |-> a, minRbdc |-> b, rbdc |-> c, vbdc |-> 0]
        BY <4>1
      <4> HIDE DEF t, n
      <4> QED BY <4>1, <4>2
    <3> QED BY <3>2, <3>3
  <2>7. n = K - t.cra /\ n \in Nat /\ t.minRbdc <= n
    <3> HIDE DEF t
    <3> QED BY <1>1, <2>3 DEF left
  <2> HIDE DEF rc, n, r
  <2>8. r = [total |-> [cra |-> t.cra, minRbdc |-> t.minRbdc, rbdc |-> n, vbdc |-> 0], rc |-> rc]
    BY <2>2, <2>6
  <2>9. Consistent(r)
    BY <1>5, <2>5, <2>7, <2>8
  <2>10. r.total.cra = t.cra /\ r.total.minRbdc = t.minRbdc /\ r.total.rbdc = n /\ r.total.vbdc = 0
    <3> HIDE DEF t
    <3> QED BY <2>8
  <2>11. AtMost(K - t.cra, t.rbdc) = n /\ AtMost(AtLeast(0, K - t.cra - t.rbdc), t.vbdc) = 0
    <3> HIDE DEF t
    <3> QED BY <1>1, <2>3, <2>7 DEF AtMost, AtLeast
  <2> QED BY <2>9, <2>10, <2>11 DEF r, t
<1>7. CASE ~(beyond("CRA_RBDC") < 0) /\ beyond("CRA_RBDC_VBDC") < 0
  <2> DEFINE left == K - t.cra - t.rbdc
             rc == [i \in Rc |-> [req.rc[i] EXCEPT !.vbdc = (@ * left) \div t.vbdc]]
  <2>1. r = CutVbdc(req, left)
    BY <1>3, <1>4, <1>7
  <2>2. r = [total |-> [t EXCEPT !.vbdc = left], rc |-> rc]
    BY <2>1 DEF CutVbdc
  <2>3. left \in Nat /\ t.vbdc \in Nat \ {0} /\ left < t.vbdc /\ t.rbdc <= K - t.cra
    <3> HIDE DEF t
    <3> QED BY <1>1, <1>3, <1>7
  <2>4. ASSUME NEW i \in Rc PROVE rc[i] \in Symbols /\ rc[i].minRbdc = req.rc[i].minRbdc
    <3>1. PICK s : s = req.rc[i]
      OBVIOUS
    <3>2. /\ s = [cra |-> s.cra, minRbdc |-> s.minRbdc, rbdc |-> s.rbdc, vbdc |-> s.vbdc]
          /\ s.cra \in Nat /\ s.minRbdc \in Nat /\ s.rbdc \in Nat /\ s.vbdc \in Nat
      BY <1>2, <3>1
    <3>4. PICK p : p = (s.vbdc * left) \div t.vbdc
      OBVIOUS
    <3>5. p \in Nat
      <4> HIDE DEF left, t
      <4> QED BY <2>3, <3>2, <3>4, Proportion
    <3>6. rc[i] = [s EXCEPT !.vbdc = p]
      BY <3>1, <3>4
    <3>7. rc[i] = [cra |-> s.cra, minRbdc |-> s.minRbdc, rbdc |-> s.rbdc, vbdc |-> p]
      <4> HIDE DEF rc
      <4> QED BY <3>2, <3>6
    <3> HIDE DEF rc
    <3> QED BY <3>1, <3>2, <3>5, <3>7 DEF Symbols
  <2>5. rc \in [Rc -> Symbols] /\ \A i \in Rc : rc[i].minRbdc = req.rc[i].minRbdc
    <3>1. rc = [i \in Rc |-> rc[i]]
      OBVIOUS
    <3> HIDE DEF rc
    <3> QED BY <2>4, <3>1
  <2>6. [t EXCEPT !.vbdc = left] = [cra |-> t.cra, minRbdc |-> t.minRbdc, rbdc |-> t.rbdc, vbdc |-> left]
    <3> HIDE DEF t, left
    <3> QED BY <1>1
  <2>7. AtMost(K - t.cra, t.rbdc) = t.rbdc /\ AtMost(AtLeast(0, K - t.cra - t.rbdc), t.vbdc) = left
    <3> HIDE DEF t
    <3> QED BY <1>1, <2>3 DEF AtMost, AtLeast
  <2> HIDE DEF rc, r
  <2>8. r = [total |-> [cra |-> t.cra, minRbdc |-> t.minRbdc, rbdc |-> t.rbdc, vbdc |-> left], rc |-> rc]
    BY <2>2, <2>6
  <2>9. Consistent(r)
    <3> HIDE DEF left, t
    <3> QED BY <1>1, <1>5, <2>3, <2>5, <2>8
  <2>10. r.total.cra = t.cra /\ r.total.minRbdc = t.minRbdc /\ r.total.rbdc = t.rbdc /\ r.total.vbdc = left
    <3> HIDE DEF t, left
    <3> QED BY <2>8
  <2> QED BY <2>7, <2>9, <2>10 DEF r, t
<1>8. CASE ~(beyond("CRA_RBDC") < 0) /\ ~(beyond("CRA_RBDC_VBDC") < 0)
  <2>1. r = req
    BY <1>4, <1>8
  <2>2. Consistent(r) /\ r.total = t
    BY <2>1 DEF Admissible
  <2>3. AtMost(K - t.cra, t.rbdc) = t.rbdc /\ AtMost(AtLeast(0, K - t.cra - t.rbdc), t.vbdc) = t.vbdc
    <3> HIDE DEF t
    <3> QED BY <1>1, <1>3, <1>8 DEF AtMost, AtLeast
  <2> QED BY <2>2, <2>3 DEF r
<1> QED BY <1>6, <1>7, <1>8

\* What is pre-allocated for a request is what the request is cut to, except
\* for the VBDC of one that is accepted at its minimum rates: if none is
\* pre-allocated, the RBDC alone is more than the frame has.
LEMMA PreAllocationCovers ==
  ASSUME NEW level \in LevelNames, NEW f, NEW req, Admissible(req),
         m_preAllocated[f] \in Symbols, m_preAllocated[f].minRbdc <= m_preAllocated[f].rbdc
  PROVE  LET p == PreAllocation(level, f, req.total)
             r == FittedToCarrier(req)
         IN  /\ p \in Symbols /\ p.minRbdc <= p.rbdc
             /\ r.total \in Symbols
             /\ \A l \in LevelNames \ {"CRA_RBDC_VBDC"} : Used(l, r.total) = Used(l, p)
             /\ \/ Used("CRA_RBDC_VBDC", r.total) = Used("CRA_RBDC_VBDC", p)
                \/ Used("CRA_RBDC", Plus(m_preAllocated[f], p)) > TotalSymbols
<1>1. PICK t, pre, T, room : /\ t = req.total /\ pre = m_preAllocated[f] /\ T = TotalSymbols
                             /\ room = RoomFor(level, f)
  OBVIOUS
<1>2. /\ t.cra \in Nat /\ t.minRbdc \in Nat /\ t.rbdc \in Nat /\ t.vbdc \in Nat
      /\ t.minRbdc <= t.rbdc /\ t.cra + t.minRbdc <= CarrierSymbols
      /\ CarrierSymbols \in Nat /\ T \in Nat
      /\ pre.cra \in Nat /\ pre.minRbdc \in Nat /\ pre.rbdc \in Nat /\ pre.vbdc \in Nat
      /\ pre.minRbdc <= pre.rbdc
  BY <1>1, SymbolCounts DEF Admissible, Consistent, Requests, Symbols
<1> DEFINE k == CarrierSymbols - t.cra
           cut == level = "CRA_MIN_RBDC" /\ room < t.cra + t.rbdc
<1>3. PICK p : p = PreAllocation(level, f, req.total)
  OBVIOUS
<1>4. PICK v : v = AtMost(AtLeast(0, k - t.rbdc), t.vbdc)
  OBVIOUS
<1>5. v \in Nat /\ (t.cra + t.rbdc > CarrierSymbols => v = 0)
  BY <1>2, <1>4 DEF AtMost, AtLeast
<1>6. PICK n : n = AtMost(k, t.rbdc)
  OBVIOUS
<1>7. n \in Nat /\ t.minRbdc <= n /\ (t.cra + t.rbdc <= CarrierSymbols => n = t.rbdc)
  BY <1>2, <1>6 DEF AtMost
<1>8. p = [cra |-> t.cra, minRbdc |-> t.minRbdc, rbdc |-> n, vbdc |-> IF cut THEN 0 ELSE v]
  <2>1. AtMost(k, t.minRbdc) = t.minRbdc
    BY <1>2 DEF AtMost
  <2>2. p = [cra |-> t.cra, minRbdc |-> AtMost(k, t.minRbdc), rbdc |-> AtMost(k, t.rbdc),
             vbdc |-> IF cut THEN 0 ELSE AtMost(AtLeast(0, k - t.rbdc), t.vbdc)]
    BY <1>1, <1>3 DEF PreAllocation
  <2> HIDE DEF k, cut
  <2> QED BY <2>1, <2>2, <1>4, <1>6
<1>9. PICK r : r = FittedToCarrier(req)
  OBVIOUS
<1>10. /\ r.total.cra = t.cra /\ r.total.minRbdc = t.minRbdc /\ r.total.rbdc = n /\ r.total.vbdc = v
       /\ r.total \in Symbols
  <2>1. /\ Consistent(r)
        /\ r.total.cra = t.cra /\ r.total.minRbdc = t.minRbdc
        /\ r.total.rbdc = AtMost(k, t.rbdc)
        /\ r.total.vbdc = AtMost(AtLeast(0, k - t.rbdc), t.vbdc)
    BY FittedRequest, <1>1, <1>9
  <2>2. r.total \in Symbols
    BY <2>1 DEF Consistent, Requests
  <2> HIDE DEF k
  <2> QED BY <1>4, <1>6, <2>1, <2>2
<1> HIDE DEF cut
<1>11. p \in Symbols /\ p.minRbdc <= p.rbdc
  BY <1>2, <1>5, <1>7, <1>8 DEF Symbols
<1>12. \A l \in LevelNames \ {"CRA_RBDC_VBDC"} : Used(l, r.total) = Used(l, p)
  BY <1>8, <1>10 DEF LevelNames, Used
<1>13. CASE ~cut \/ v = 0
  <2>1. p.vbdc = v /\ p.cra = t.cra /\ p.rbdc = n
    BY <1>8, <1>13
  <2>2. Used("CRA_RBDC_VBDC", r.total) = Used("CRA_RBDC_VBDC", p)
    BY <2>1, <1>10 DEF Used, GetTotalSymbols
  <2> QED BY <1>3, <1>9, <1>10, <1>11, <1>12, <2>2
<1>14. CASE cut /\ v # 0
  <2>1. level = "CRA_MIN_RBDC" /\ room < t.cra + t.rbdc /\ t.cra + t.rbdc <= CarrierSymbols
    BY <1>2, <1>5, <1>14 DEF cut
  <2>2. room = AtMost(CarrierSymbols, T - (pre.cra + pre.minRbdc))
    BY <1>1, <2>1 DEF RoomFor, Used
  <2>3. T - (pre.cra + pre.minRbdc) < t.cra + t.rbdc
    BY <1>2, <2>1, <2>2 DEF AtMost
  <2>4. n = t.rbdc
    BY <1>7, <2>1
  <2>5. Used("CRA_RBDC", Plus(pre, p)) = pre.cra + p.cra + (pre.rbdc + p.rbdc)
    BY DEF Used, Plus
  <2>6. p.cra = t.cra /\ p.rbdc = n
    BY <1>8
  <2>7. Used("CRA_RBDC", Plus(pre, p)) > T
    BY <1>2, <2>3, <2>4, <2>5, <2>6
  <2> QED BY <1>1, <1>3, <1>9, <1>10, <1>11, <1>12, <2>7
<1> QED BY <1>13, <1>14

\* The RCs of a UT that is new in a frame are appended to those that are there.
LEMMA RcsAppended ==
  ASSUME NEW A, NEW ut, ut \notin A, NEW order \in Seq(A \X Rc), Distinct(order)
  PROVE  LET q == order \o [n \in 1 .. Cardinality(Rc) |-> <<ut, n - 1>>]
         IN  q \in Seq((A \cup {ut}) \X Rc) /\ Distinct(q)
<1>1. PICK N, M : N = Len(order) /\ M = Cardinality(Rc)
  OBVIOUS
<1>2. N \in Nat /\ M \in Nat /\ Rc = 0 .. M - 1
  BY <1>1, FrameAssumption, FS_CardinalityType
<1>3. PICK B : B = (A \cup {ut}) \X Rc
  OBVIOUS
<1>4. \A i \in 1 .. N : order[i] \in A \X Rc /\ order[i] \in B /\ order[i][1] # ut
  BY <1>1, <1>3
<1>5. order \in Seq(B) /\ DOMAIN order = 1 .. N
  BY <1>1, <1>3
<1> DEFINE new == [n \in 1 .. M |-> <<ut, n - 1>>]
<1>6. \A n \in 1 .. M : new[n] = <<ut, n - 1>> /\ new[n] \in B /\ new[n][1] = ut
  BY <1>2, <1>3
<1>7. new \in Seq(B) /\ Len(new) = M
  <2>1. new \in [1 .. M -> B]
    BY <1>6
  <2> QED BY <1>2, <2>1
<1>8. \A i, j \in 1 .. M : i # j => new[i] # new[j]
  <2> SUFFICES ASSUME NEW i \in 1 .. M, NEW j \in 1 .. M, new[i] = new[j] PROVE i = j
    OBVIOUS
  <2>1. i - 1 = j - 1
    BY <1>6
  <2> QED BY <1>2, <2>1
<1> HIDE DEF new
<1>9. PICK q : q = order \o new
  OBVIOUS
<1>10. /\ q \in Seq(B) /\ DOMAIN q = 1 .. N + M
       /\ \A i \in 1 .. N + M : q[i] = IF i <= N THEN order[i] ELSE new[i - N]
  BY <1>1, <1>2, <1>5, <1>7, <1>9
<1>11. ASSUME NEW i \in 1 .. N + M, NEW j \in 1 .. N + M, i < j PROVE q[i] # q[j]
  <2>1. CASE j <= N
    <3>1. i \in DOMAIN order /\ j \in DOMAIN order /\ i # j /\ q[i] = order[i] /\ q[j] = order[j]
      BY <1>2, <1>5, <1>10, <1>11, <2>1
    <3> QED BY <3>1 DEF Distinct
  <2>2. CASE i <= N /\ ~(j <= N)
    <3>1. i \in 1 .. N /\ j - N \in 1 .. M /\ q[i] = order[i] /\ q[j] = new[j - N]
      BY <1>2, <1>10, <2>2
    <3>2. q[i][1] # ut /\ q[j][1] = ut
      BY <1>4, <1>6, <3>1
    <3> QED BY <3>2
  <2>3. CASE ~(i <= N)
    <3>1. /\ i - N \in 1 .. M /\ j - N \in 1 .. M /\ i - N # j - N
          /\ q[i] = new[i - N] /\ q[j] = new[j - N]
      BY <1>2, <1>10, <1>11, <2>3
    <3> QED BY <1>8, <3>1
  <2> QED BY <2>1, <2>2, <2>3
<1>12. Distinct(q)
  <2> SUFFICES ASSUME NEW i \in 1 .. N + M, NEW j \in 1 .. N + M, i # j PROVE q[i] # q[j]
    BY <1>10 DEF Distinct
  <2>1. i < j \/ j < i
    BY <1>2
  <2> QED BY <1>11, <2>1
<1> QED BY <1>1, <1>3, <1>9, <1>10, <1>12 DEF new

\* An allocation to a frame keeps what its pre-allocated symbols cover.
LEMMA AllocateKeeps ==
  ASSUME NEW level \in LevelNames, NEW f, IsFiniteSet(AllocatedTo(f)),
         FrameInv(m_preAllocated[f], m_utAllocs[f], m_rcAllocs[f]),
         NEW ut, ut \notin AllocatedTo(f), NEW req, Admissible(req), NEW ctrl \in BOOLEAN
  PROVE  FrameInv(Plus(m_preAllocated[f], PreAllocation(level, f, req.total)),
                  MapAssign(m_utAllocs[f], ut, [request |-> FittedToCarrier(req), ctrl |-> ctrl,
                                                allocation |-> Nothing]),
                  m_rcAllocs[f] \o [n \in 1 .. Cardinality(Rc) |-> <<ut, n - 1>>])
<1>1. PICK pre, allocs, order, A, p, r, g, after, both, new :
        /\ pre = m_preAllocated[f] /\ allocs = m_utAllocs[f] /\ order = m_rcAllocs[f]
        /\ A = DOMAIN allocs /\ p = PreAllocation(level, f, req.total)
        /\ r = FittedToCarrier(req)
        /\ g = [request |-> r, ctrl |-> ctrl, allocation |-> Nothing]
        /\ after = MapAssign(allocs, ut, g) /\ both = Plus(pre, p)
        /\ new = order \o [n \in 1 .. Cardinality(Rc) |-> <<ut, n - 1>>]
  OBVIOUS
<1>2. /\ pre \in Symbols /\ pre.minRbdc <= pre.rbdc /\ allocs \in [A -> Grants]
      /\ \A u \in A : Consistent(allocs[u].request)
      /\ \A l \in LevelNames : Covered(l, pre, allocs)
      /\ order \in Seq(A \X Rc) /\ Distinct(order)
      /\ IsFiniteSet(A) /\ ut \notin A
  BY <1>1 DEF FrameInv, AllocatedTo
<1>3. /\ p \in Symbols /\ p.minRbdc <= p.rbdc /\ r.total \in Symbols
      /\ \A l \in LevelNames \ {"CRA_RBDC_VBDC"} : Used(l, r.total) = Used(l, p)
      /\ \/ Used("CRA_RBDC_VBDC", r.total) = Used("CRA_RBDC_VBDC", p)
         \/ Used("CRA_RBDC", both) > TotalSymbols
  BY <1>1, <1>2, PreAllocationCovers
<1>4. both \in Symbols /\ both.minRbdc <= both.rbdc
  <2>1. both \in Symbols
    BY <1>1, <1>2, <1>3, SymbolsAdd
  <2>2. both.minRbdc = pre.minRbdc + p.minRbdc /\ both.rbdc = pre.rbdc + p.rbdc
    BY <1>1 DEF Plus
  <2>3. /\ pre.minRbdc \in Nat /\ p.minRbdc \in Nat /\ pre.rbdc \in Nat /\ p.rbdc \in Nat
    BY <1>2, <1>3 DEF Symbols
  <2> QED BY <1>2, <1>3, <2>1, <2>2, <2>3
<1>5. Consistent(r)
  BY FittedRequest, <1>1
<1>6. g \in Grants /\ g.request = r
  <2>1. None \in Symbols
    BY DEF None, Symbols
  <2>2. Nothing \in Requests
    BY <2>1 DEF Nothing, Requests
  <2>3. r \in Requests
    BY <1>5 DEF Consistent
  <2> QED BY <1>1, <2>2, <2>3 DEF Grants
<1>7. /\ DOMAIN after = A \cup {ut} /\ after[ut] = g
      /\ \A u \in A : after[u] = allocs[u]
  BY <1>1, <1>2 DEF MapAssign
<1>8. after \in [DOMAIN after -> Grants]
  <2>1. after = [u \in DOMAIN after |-> after[u]]
    BY <1>1 DEF MapAssign
  <2>2. \A u \in DOMAIN after : after[u] \in Grants
    BY <1>2, <1>6, <1>7
  <2> QED BY <2>1, <2>2
<1>9. \A u \in DOMAIN after : Consistent(after[u].request)
  BY <1>2, <1>5, <1>6, <1>7
<1>10. ASSUME NEW l \in LevelNames PROVE Covered(l, both, after)
  <2> DEFINE was == [u \in A |-> Used(l, allocs[u].request.total)]
             is == [u \in A \cup {ut} |-> Used(l, after[u].request.total)]
  <2>1. UsedBy(l, allocs) = SumFunctionOnSet(was, A)
    BY <1>1 DEF UsedBy
  <2>2. UsedBy(l, after) = SumFunctionOnSet(is, A \cup {ut})
    BY <1>7 DEF UsedBy
  <2>3. \A u \in A : was[u] \in Nat /\ is[u] = was[u]
    <3>1. \A u \in A : allocs[u].request.total \in Symbols
      BY <1>2 DEF Consistent, Requests
    <3>2. \A u \in A : Used(l, allocs[u].request.total) \in Nat
      BY <3>1, SymbolsAdd
    <3> QED BY <3>2, <1>7
  <2>4. is[ut] = Used(l, r.total) /\ is[ut] \in Nat
    <3>1. Used(l, r.total) \in Nat
      BY <1>3, SymbolsAdd
    <3> QED BY <3>1, <1>6, <1>7
  <2> HIDE DEF was, is
  <2>5. SumFunctionOnSet(is, A \cup {ut}) = SumFunctionOnSet(was, A) + is[ut]
    <3>1. is[ut] \in Int /\ \A u \in A : was[u] \in Int /\ is[u] = was[u]
      BY <2>3, <2>4
    <3> QED BY <1>2, <3>1, SumWith
  <2>6. SumFunctionOnSet(was, A) \in Int
    <3>1. \A u \in A : was[u] \in Int
      BY <2>3
    <3> QED BY <1>2, <3>1, SumType
  <2>7. /\ Used(l, both) = Used(l, pre) + Used(l, p) /\ Used(l, pre) \in Nat /\ Used(l, p) \in Nat
        /\ Used("CRA_RBDC", both) = Used("CRA_RBDC", pre) + Used("CRA_RBDC", p)
        /\ Used("CRA_RBDC", pre) \in Nat /\ Used("CRA_RBDC", p) \in Nat
    <3>1. "CRA_RBDC" \in LevelNames
      BY DEF LevelNames
    <3>2. both = Plus(pre, p) /\ pre \in Symbols /\ p \in Symbols
      BY <1>1, <1>2, <1>3
    <3>3. \A x \in LevelNames : /\ Used(x, both) = Used(x, pre) + Used(x, p)
                               /\ Used(x, pre) \in Nat /\ Used(x, p) \in Nat
      BY <3>2, SymbolsAdd
    <3> QED BY <3>1, <3>3
  <2>8. TotalSymbols \in Nat
    BY SymbolCounts
  <2>9. CASE UsedBy(l, allocs) <= Used(l, pre) /\ Used(l, r.total) = Used(l, p)
    <3>1. UsedBy(l, after) <= Used(l, both)
      BY <2>1, <2>2, <2>4, <2>5, <2>6, <2>7, <2>9
    <3> QED BY <3>1 DEF Covered
  <2>10. CASE l = "CRA_RBDC_VBDC" /\ Used("CRA_RBDC", pre) > TotalSymbols
    <3>1. Used("CRA_RBDC", both) > TotalSymbols
      BY <2>7, <2>8, <2>10
    <3> QED BY <2>10, <3>1 DEF Covered
  <2>11. CASE l = "CRA_RBDC_VBDC" /\ Used("CRA_RBDC", both) > TotalSymbols
    BY <2>11 DEF Covered
  <2>12. Covered(l, pre, allocs)
    BY <1>2
  <2> QED BY <1>3, <2>9, <2>10, <2>11, <2>12 DEF Covered
<1>11. new \in Seq((DOMAIN after) \X Rc) /\ Distinct(new)
  <2>1. new \in Seq((A \cup {ut}) \X Rc) /\ Distinct(new)
    BY <1>1, <1>2, RcsAppended
  <2> QED BY <1>7, <2>1
<1>12. FrameInv(both, after, new)
  BY <1>4, <1>8, <1>9, <1>10, <1>11 DEF FrameInv
<1> QED BY <1>1, <1>12
-----------------------------------------------------------------------------
(***************************************************************************)
(* Admission: the minimum rates of a UT fit into a carrier.                *)
(***************************************************************************)
\* What the request of an RC is made of, and what the admission of its UT
\* counted for it.
LEMMA RequestOfRcType ==
  ASSUME NEW ut \in Ut, NEW d \in Demands, NEW i \in Rc, NEW ctrl \in BOOLEAN,
         d[i].rbdc = 0 \/ d[i].rbdc >= MinimumRate[ut][i].minRbdc - MinimumRate[ut][i].cra
  PROVE  LET r == RequestOfRc(ut, i, d, ctrl)
             most == AtLeast(MinimumRate[ut][i].cra, MinimumRate[ut][i].minRbdc)
             robust == IF ctrl /\ i = 0 THEN RobustLength ELSE 0
         IN  /\ r \in Symbols /\ r.minRbdc <= r.rbdc
             /\ most \in Nat /\ robust \in Nat
             /\ r.cra + r.minRbdc <= most + robust
<1>1. PICK a, b, x, y : /\ a = MinimumRate[ut][i].cra /\ b = MinimumRate[ut][i].minRbdc
                        /\ x = d[i].rbdc /\ y = d[i].vbdc
  OBVIOUS
<1>2. a \in Nat /\ b \in Nat
  <2>1. MinimumRate[ut][i] \in [cra : Nat, minRbdc : Nat]
    BY SuperframeAssumption
  <2> QED BY <1>1, <2>1
<1>3. x \in Nat /\ y \in Nat
  <2>1. d \in [Rc -> [rbdc : Nat, vbdc : Nat]]
    BY SuperframeAssumption
  <2>2. d[i] \in [rbdc : Nat, vbdc : Nat]
    BY <2>1
  <2> QED BY <1>1, <2>2
<1>4. PICK robust : robust = IF ctrl /\ i = 0 THEN RobustLength ELSE 0
  OBVIOUS
<1>5. robust \in Nat
  BY <1>4, SlotAssumption
<1>6. RequestOfRc(ut, i, d, ctrl) =
        [cra |-> a + robust, minRbdc |-> IF x = 0 THEN 0 ELSE AtLeast(0, b - a), rbdc |-> x, vbdc |-> y]
  BY <1>1, <1>4 DEF RequestOfRc
<1>7. x = 0 \/ x >= b - a
  BY <1>1
<1>8. PICK m : m = IF x = 0 THEN 0 ELSE AtLeast(0, b - a)
  OBVIOUS
<1>9. m \in Nat /\ m <= x /\ AtLeast(a, b) \in Nat /\ a + robust + m <= AtLeast(a, b) + robust
  BY <1>2, <1>3, <1>5, <1>7, <1>8 DEF AtLeast
<1>10. PICK r : r = RequestOfRc(ut, i, d, ctrl)
  OBVIOUS
<1>11. r = [cra |-> a + robust, minRbdc |-> m, rbdc |-> x, vbdc |-> y]
  BY <1>6, <1>8, <1>10
<1>12. r \in Symbols /\ r.cra = a + robust /\ r.minRbdc = m /\ r.rbdc = x
  BY <1>2, <1>3, <1>5, <1>9, <1>11 DEF Symbols
<1> QED BY <1>1, <1>4, <1>5, <1>9, <1>10, <1>12

\* Control slots are counted once.
LEMMA RobustOnce ==
  ASSUME NEW ctrl \in BOOLEAN
  PROVE  SumFunctionOnSet([i \in Rc |-> IF ctrl /\ i = 0 THEN RobustLength ELSE 0], Rc)
           = IF ctrl THEN RobustLength ELSE 0
<1> DEFINE d == [i \in Rc |-> IF ctrl /\ i = 0 THEN RobustLength ELSE 0]
<1>1. /\ IsFiniteSet(Rc) /\ 0 \in Rc /\ RobustLength \in Nat /\ Rc = 0 .. Cardinality(Rc) - 1
  <2>1. IsFiniteSet(Rc) /\ Rc = 0 .. Cardinality(Rc) - 1 /\ Rc # {}
    BY FrameAssumption
  <2>2. Cardinality(Rc) \in Nat /\ Cardinality(Rc) # 0
    BY <2>1, FS_CardinalityType, FS_EmptySet
  <2>3. 0 \in 0 .. Cardinality(Rc) - 1
    BY <2>2
  <2> QED BY <2>1, <2>3, SlotAssumption
<1>2. /\ \A i \in Rc : d[i] \in Int
      /\ \A i \in Rc \ {0} : d[i] = 0
      /\ d[0] = IF ctrl THEN RobustLength ELSE 0
  BY <1>1
<1> HIDE DEF d
<1>3. IsFiniteSet(Rc \ {0})
  BY <1>1, FS_RemoveElement
<1>4. SumFunctionOnSet(d, Rc \ {0}) = 0
  BY <1>2, <1>3, SumOfZeros
<1>5. SumFunctionOnSet(d, Rc) = d[0] + SumFunctionOnSet(d, Rc \ {0})
  BY <1>1, <1>2, SumWithout
<1>6. d[0] \in Int
  BY <1>1, <1>2
<1> QED BY <1>2, <1>4, <1>5, <1>6 DEF d

\* A sum of naturals is one.
LEMMA SumNatural ==
  ASSUME NEW S, IsFiniteSet(S), NEW f, \A x \in S : f[x] \in Nat
  PROVE  SumFunctionOnSet(f, S) \in Nat
<1> DEFINE z == [x \in S |-> 0]
<1>1. \A x \in S : z[x] = 0
  OBVIOUS
<1> HIDE DEF z
<1>2. \A x \in S : z[x] \in Int /\ f[x] \in Int /\ z[x] <= f[x]
  BY <1>1
<1>3. SumFunctionOnSet(z, S) = 0
  BY <1>1, SumOfZeros
<1>4. SumFunctionOnSet(z, S) <= SumFunctionOnSet(f, S)
  BY <1>2, SumMonotonic
<1>5. SumFunctionOnSet(f, S) \in Int
  BY <1>2, SumType
<1> QED BY <1>3, <1>4, <1>5

\* The request of a UT that is admitted needs no more for its minimum rates
\* than what was checked when it was.
LEMMA RequestsFit ==
  ASSUME NEW ut \in Ut, ToCheck(ut) <= CarrierSymbols, NEW q \in PossibleRequests(ut)
  PROVE  Admissible(q.req) /\ q.ctrl \in BOOLEAN
<1>1. PICK d \in Demands, ctrl \in IF CtrlSlotPeriod THEN BOOLEAN ELSE {FALSE} :
        /\ \A i \in Rc : d[i].rbdc = 0 \/ d[i].rbdc >= MinimumRate[ut][i].minRbdc - MinimumRate[ut][i].cra
        /\ q = [req |-> RequestOf(ut, d, ctrl), ctrl |-> ctrl]
  <2>1. PICK d \in PossibleDemands(ut), ctrl \in IF CtrlSlotPeriod THEN BOOLEAN ELSE {FALSE} :
          q = [req |-> RequestOf(ut, d, ctrl), ctrl |-> ctrl]
    <3>1. \A C : q \in UNION {{[req |-> RequestOf(ut, d, ctrl), ctrl |-> ctrl] : d \in PossibleDemands(ut)} :
                               ctrl \in C}
                => \E ctrl \in C : \E d \in PossibleDemands(ut) :
                     q = [req |-> RequestOf(ut, d, ctrl), ctrl |-> ctrl]
      BY Zenon
    <3> QED BY <3>1, Zenon DEF PossibleRequests
  <2> QED BY <2>1 DEF PossibleDemands
<1>2. ctrl \in BOOLEAN /\ (ctrl => CtrlSlotPeriod) /\ CtrlSlotPeriod \in BOOLEAN
  BY SuperframeAssumption
<1>3. IsFiniteSet(Rc) /\ RobustLength \in Nat /\ CarrierSymbols \in Nat
  BY FrameAssumption, SlotAssumption
<1> DEFINE byRc == [i \in Rc |-> RequestOfRc(ut, i, d, ctrl)]
           C == [i \in Rc |-> byRc[i].cra]
           M == [i \in Rc |-> byRc[i].minRbdc]
           R == [i \in Rc |-> byRc[i].rbdc]
           V == [i \in Rc |-> byRc[i].vbdc]
           H == [i \in Rc |-> AtLeast(MinimumRate[ut][i].cra, MinimumRate[ut][i].minRbdc)]
           D == [i \in Rc |-> IF ctrl /\ i = 0 THEN RobustLength ELSE 0]
           Sum(e) == SumFunctionOnSet(e, Rc)
<1>4. \A i \in Rc : /\ byRc[i] \in Symbols /\ byRc[i].minRbdc <= byRc[i].rbdc
                    /\ H[i] \in Nat /\ D[i] \in Nat
                    /\ byRc[i].cra + byRc[i].minRbdc <= H[i] + D[i]
  BY <1>1, <1>2, RequestOfRcType
<1>5. byRc \in [Rc -> Symbols]
  <2>1. byRc = [i \in Rc |-> byRc[i]]
    OBVIOUS
  <2> HIDE DEF byRc
  <2> QED BY <1>4, <2>1
<1>6. /\ SumFunction(C) = Sum(C) /\ SumFunction(M) = Sum(M) /\ SumFunction(R) = Sum(R)
      /\ SumFunction(V) = Sum(V) /\ MinRateBased(ut) = Sum(H)
  BY DEF SumFunction, MinRateBased
<1>7. Sum(D) = IF ctrl THEN RobustLength ELSE 0
  BY <1>2, RobustOnce
<1>8. PICK req : req = RequestOf(ut, d, ctrl)
  OBVIOUS
<1>9. req = [total |-> [cra |-> Sum(C), minRbdc |-> Sum(M), rbdc |-> Sum(R), vbdc |-> Sum(V)],
             rc |-> byRc]
  BY <1>6, <1>8 DEF RequestOf
<1>10. \A i \in Rc : /\ C[i] = byRc[i].cra /\ M[i] = byRc[i].minRbdc
                     /\ R[i] = byRc[i].rbdc /\ V[i] = byRc[i].vbdc
  OBVIOUS
<1>11. MinRbdcOf(req) = Sum(M)
  BY <1>9 DEF MinRbdcOf
<1> HIDE DEF byRc, C, M, R, V, H, D
<1>12. /\ \A i \in Rc : C[i] \in Nat
       /\ \A i \in Rc : M[i] \in Nat
       /\ \A i \in Rc : R[i] \in Nat
       /\ \A i \in Rc : V[i] \in Nat
       /\ \A i \in Rc : H[i] \in Nat /\ D[i] \in Nat
       /\ \A i \in Rc : M[i] <= R[i] /\ C[i] + M[i] <= H[i] + D[i]
  BY <1>4, <1>10 DEF Symbols
<1>13. Sum(C) \in Nat /\ Sum(M) \in Nat /\ Sum(R) \in Nat /\ Sum(V) \in Nat
  BY <1>3, <1>12, SumNatural
<1>14. Sum(M) <= Sum(R)
  <2>1. \A i \in Rc : M[i] \in Int /\ R[i] \in Int /\ M[i] <= R[i]
    BY <1>12
  <2> QED BY <1>3, <2>1, SumMonotonic
<1>15. Sum(C) + Sum(M) <= Sum(H) + Sum(D)
  <2>1. \A i \in Rc : /\ C[i] \in Int /\ M[i] \in Int /\ H[i] \in Int /\ D[i] \in Int
                      /\ C[i] + M[i] <= H[i] + D[i]
    BY <1>12
  <2> QED BY <1>3, <2>1, SumCompare
<1>16. Sum(H) \in Nat
  BY <1>3, <1>12, SumNatural
<1> HIDE DEF Sum
<1>17. Sum(H) + Sum(D) <= CarrierSymbols
  BY <1>2, <1>3, <1>6, <1>7, <1>16 DEF ToCheck
<1>18. Sum(C) + Sum(M) <= CarrierSymbols
  BY <1>2, <1>3, <1>7, <1>13, <1>15, <1>16, <1>17
<1>19. /\ req \in Requests /\ req.total.cra = Sum(C) /\ req.total.minRbdc = Sum(M)
       /\ req.total.rbdc = Sum(R)
  BY <1>5, <1>9, <1>13 DEF Requests, Symbols
<1>20. Admissible(req)
  BY <1>11, <1>13, <1>14, <1>18, <1>19 DEF Admissible, Consistent
<1> QED BY <1>1, <1>2, <1>8, <1>20
-----------------------------------------------------------------------------
(***************************************************************************)
(* The invariant.                                                          *)
(***************************************************************************)
\* A frame without allocations.
LEMMA NothingAllocated ==
  ASSUME NEW e, e = <<>>
  PROVE  FrameInv(None, e, e)
<1>1. DOMAIN e = {} /\ e \in [DOMAIN e -> Grants] /\ e \in Seq((DOMAIN e) \X Rc)
  OBVIOUS
<1>2. None \in Symbols /\ None.minRbdc <= None.rbdc
  BY DEF None, Symbols
<1>3. Distinct(e)
  BY <1>1 DEF Distinct
<1>4. ASSUME NEW level \in LevelNames PROVE Covered(level, None, e)
  <2>1. UsedBy(level, e) = 0
    BY <1>1, SumOfNone DEF UsedBy
  <2>2. Used(level, None) = 0
    BY DEF Used, None, GetTotalSymbols, LevelNames
  <2> QED BY <2>1, <2>2 DEF Covered
<1> QED BY <1>1, <1>2, <1>3, <1>4 DEF FrameInv

\* What the admission of a UT counts for its minimum rates.
LEMMA MinRateType == \A ut \in Ut : MinRateBased(ut) \in Int
<1> SUFFICES ASSUME NEW ut \in Ut PROVE MinRateBased(ut) \in Int
  OBVIOUS
<1> DEFINE H == [i \in Rc |-> AtLeast(MinimumRate[ut][i].cra, MinimumRate[ut][i].minRbdc)]
<1>1. MinRateBased(ut) = SumFunctionOnSet(H, Rc)
  BY DEF MinRateBased, SumFunction
<1>2. \A i \in Rc : H[i] \in Int
  <2>1. \A i \in Rc : MinimumRate[ut][i] \in [cra : Nat, minRbdc : Nat]
    BY SuperframeAssumption
  <2> QED BY <2>1 DEF AtLeast
<1>3. IsFiniteSet(Rc)
  BY FrameAssumption
<1> HIDE DEF H
<1> QED BY <1>1, <1>2, <1>3, SumType

\* Nothing is allocated in the beginning.
LEMMA LoadInit == Init => LoadInv
<1> SUFFICES ASSUME Init PROVE LoadInv
  OBVIOUS
<1>1. /\ m_utAllocs = [f \in Frame |-> <<>>] /\ m_rcAllocs = [f \in Frame |-> <<>>]
      /\ m_preAllocated = [f \in Frame |-> None] /\ denied = FALSE /\ phase = "idle" /\ m_utInfos = {}
      /\ m_minimumRateBasedBytesLeft = Cardinality(Frame) * TotalSymbols
  BY DEF Init, FrameInit
<1>2. m_minimumRateBasedBytesLeft \in Int
  <2>1. Cardinality(Frame) \in Int
    BY FrameAssumption, FS_CardinalityType
  <2>2. TotalSymbols \in Int
    BY SymbolCounts
  <2> QED BY <1>1, <2>1, <2>2, TimesType
<1>3. \A f \in Frame : FrameInv(m_preAllocated[f], m_utAllocs[f], m_rcAllocs[f])
  BY <1>1, NothingAllocated
<1>4. FramesInv
  BY <1>1, <1>3 DEF FramesInv, WithinTargetLoad
<1> QED BY <1>1, <1>2, <1>4 DEF LoadInv, AdmissionInv, RequestsInv

\* The allocations are removed.
LEMMA RemovedKeeps == RemoveAllocations => FramesInv'
<1> SUFFICES ASSUME RemoveAllocations PROVE FramesInv'
  OBVIOUS
<1>1. /\ m_utAllocs' = [f \in Frame |-> <<>>] /\ m_rcAllocs' = [f \in Frame |-> <<>>]
      /\ m_preAllocated' = [f \in Frame |-> None] /\ denied' = FALSE
  BY DEF RemoveAllocations
<1>2. \A f \in Frame : FrameInv(m_preAllocated'[f], m_utAllocs'[f], m_rcAllocs'[f])
  BY <1>1, NothingAllocated
<1>3. /\ m_preAllocated' = [f \in Frame |-> m_preAllocated'[f]]
      /\ m_rcAllocs' = [f \in Frame |-> m_rcAllocs'[f]]
  BY <1>1
<1> QED BY <1>1, <1>2, <1>3 DEF FramesInv, WithinTargetLoad

\* What a level accepts and shares is within the target load.
LEMMA ShareKeeps ==
  ASSUME AllocationsOK, FramesInv, PreAllocateSymbols
  PROVE  FramesInv'
<1>1. /\ ~denied /\ denied' = TRUE
      /\ \A f \in Frame : ~CrasDoNotFit(f)
      /\ m_utAllocs' = [f \in Frame |-> Shared(LevelOf(f), f)]
      /\ m_preAllocated' = [f \in Frame |-> m_preAllocated'[f]]
      /\ m_rcAllocs' = [f \in Frame |-> m_rcAllocs'[f]]
  BY DEF PreAllocateSymbols
<1>2. ASSUME NEW f \in Frame
      PROVE  SumFunction([ut \in AllocatedTo(f)' |-> GetTotalSymbols(m_utAllocs'[f][ut].allocation.total)])
               <= AvailableSymbols
  <2>1. FrameInv(m_preAllocated[f], m_utAllocs[f], m_rcAllocs[f])
    BY <1>1 DEF FramesInv
  <2>2. IsFiniteSet(AllocatedTo(f))
    BY FrameAssumption, FS_Subset DEF AllocationsOK
  <2>3. SumFunction(Granted(Shared(LevelOf(f), f))) <= AvailableSymbols
    BY <1>1, <2>1, <2>2, SharedLoad
  <2>4. m_utAllocs'[f] = Shared(LevelOf(f), f)
    BY <1>1
  <2> QED BY <2>3, <2>4 DEF Granted, AllocatedTo
<1> QED BY <1>1, <1>2 DEF FramesInv, WithinTargetLoad

\* A request that is allocated to one frame.
LEMMA AllocatedKeeps ==
  ASSUME AllocationsOK, FramesInv, NEW level \in LevelNames, NEW f \in Frame, NEW ut,
         ut \notin AllocatedTo(f), NEW req, Admissible(req), NEW ctrl \in BOOLEAN,
         Allocate(level, f, ut, req, ctrl)
  PROVE  FramesInv'
<1>1. PICK p, g, new :
        /\ p = PreAllocation(level, f, req.total)
        /\ g = [request |-> FittedToCarrier(req), ctrl |-> ctrl, allocation |-> Nothing]
        /\ new = [n \in 1 .. Cardinality(Rc) |-> <<ut, n - 1>>]
  OBVIOUS
<1>2. /\ ~denied /\ denied' = denied
      /\ m_preAllocated' = [m_preAllocated EXCEPT ![f] = Plus(@, p)]
      /\ m_utAllocs' = [m_utAllocs EXCEPT ![f] = MapAssign(@, ut, g)]
      /\ m_rcAllocs' = [m_rcAllocs EXCEPT ![f] = @ \o new]
  BY <1>1 DEF Allocate
<1>3. /\ m_preAllocated' = [x \in Frame |-> m_preAllocated'[x]]
      /\ m_preAllocated'[f] = Plus(m_preAllocated[f], p)
      /\ \A x \in Frame \ {f} : m_preAllocated'[x] = m_preAllocated[x]
  BY <1>2 DEF FramesInv
<1>4. /\ m_rcAllocs' = [x \in Frame |-> m_rcAllocs'[x]]
      /\ m_rcAllocs'[f] = m_rcAllocs[f] \o new
      /\ \A x \in Frame \ {f} : m_rcAllocs'[x] = m_rcAllocs[x]
  BY <1>2 DEF FramesInv
<1>5. /\ m_utAllocs'[f] = MapAssign(m_utAllocs[f], ut, g)
      /\ \A x \in Frame \ {f} : m_utAllocs'[x] = m_utAllocs[x]
  BY <1>2 DEF AllocationsOK
<1>6. \A x \in Frame : FrameInv(m_preAllocated[x], m_utAllocs[x], m_rcAllocs[x])
  BY <1>2 DEF FramesInv
<1>7. IsFiniteSet(AllocatedTo(f))
  BY FrameAssumption, FS_Subset DEF AllocationsOK
<1>8. FrameInv(m_preAllocated'[f], m_utAllocs'[f], m_rcAllocs'[f])
  <2>1. FrameInv(m_preAllocated[f], m_utAllocs[f], m_rcAllocs[f])
    BY <1>6
  <2>2. FrameInv(Plus(m_preAllocated[f], p), MapAssign(m_utAllocs[f], ut, g), m_rcAllocs[f] \o new)
    BY <1>1, <1>7, <2>1, AllocateKeeps
  <2> QED BY <1>3, <1>4, <1>5, <2>2
<1>9. \A x \in Frame : FrameInv(m_preAllocated'[x], m_utAllocs'[x], m_rcAllocs'[x])
  BY <1>3, <1>4, <1>5, <1>6, <1>8
<1>10. denied' = FALSE
  BY <1>2 DEF FramesInv
<1> QED BY <1>3, <1>4, <1>9, <1>10 DEF FramesInv, WithinTargetLoad

\* Only the allocation of a request and the sharing touch the frames.
LEMMA LoadNext == AllocationsOK /\ LoadInv /\ [Next]_vars => LoadInv'
<1> SUFFICES ASSUME AllocationsOK, LoadInv, [Next]_vars PROVE LoadInv'
  OBVIOUS
<1>1. ASSUME UNCHANGED frameVars PROVE FramesInv'
  BY <1>1 DEF LoadInv, FramesInv, frameVars, WithinTargetLoad, AllocatedTo
<1>2. ASSUME UNCHANGED <<m_utInfos, m_minimumRateBasedBytesLeft>> PROVE AdmissionInv'
  BY <1>2 DEF LoadInv, AdmissionInv
<1>3. ASSUME phase' # "allocate" PROVE RequestsInv'
  BY <1>3 DEF RequestsInv
<1>4. ASSUME NEW ut \in Ut, AddUtInfo(ut) PROVE LoadInv'
  <2>1. /\ UNCHANGED frameVars /\ phase' # "allocate" /\ m_utInfos' = m_utInfos \cup {ut}
        /\ m_minimumRateBasedBytesLeft' = m_minimumRateBasedBytesLeft - MinRateBased(ut)
        /\ ToCheck(ut) <= AtMost(m_minimumRateBasedBytesLeft, CarrierSymbols)
    BY <1>4 DEF AddUtInfo, ToCheck
  <2>2. m_minimumRateBasedBytesLeft \in Int /\ MinRateBased(ut) \in Int
    BY MinRateType DEF LoadInv, AdmissionInv
  <2>3. ToCheck(ut) \in Int /\ CarrierSymbols \in Int
    BY <2>2, SlotAssumption, SymbolCounts DEF ToCheck
  <2>4. ToCheck(ut) <= CarrierSymbols
    BY <2>1, <2>2, <2>3 DEF AtMost
  <2>5. \A u \in m_utInfos' : ToCheck(u) <= CarrierSymbols
    BY <2>1, <2>4 DEF LoadInv, AdmissionInv
  <2>6. m_minimumRateBasedBytesLeft' \in Int
    BY <2>1, <2>2
  <2>7. AdmissionInv'
    BY <2>5, <2>6 DEF AdmissionInv, ToCheck, MinRateBased
  <2> QED BY <1>1, <1>3, <2>1, <2>7 DEF LoadInv
<1>5. ASSUME NEW ut \in Ut, RemoveUtInfo(ut) PROVE LoadInv'
  <2>1. /\ UNCHANGED frameVars /\ phase' # "allocate" /\ m_utInfos' = m_utInfos \ {ut}
        /\ m_minimumRateBasedBytesLeft' = m_minimumRateBasedBytesLeft + MinRateBased(ut)
    BY <1>5 DEF RemoveUtInfo
  <2>2. m_minimumRateBasedBytesLeft \in Int /\ MinRateBased(ut) \in Int
    BY MinRateType DEF LoadInv, AdmissionInv
  <2>3. m_minimumRateBasedBytesLeft' \in Int
    BY <2>1, <2>2
  <2>4. \A u \in m_utInfos' : ToCheck(u) <= CarrierSymbols
    BY <2>1 DEF LoadInv, AdmissionInv
  <2>5. AdmissionInv'
    BY <2>3, <2>4 DEF AdmissionInv, ToCheck, MinRateBased
  <2> QED BY <1>1, <1>3, <2>1, <2>5 DEF LoadInv
<1>6. CASE Start
  <2>1. /\ RemoveAllocations /\ UNCHANGED <<m_utInfos, m_minimumRateBasedBytesLeft>>
        /\ toAllocate' \in SetToSeqs(m_utInfos)
        /\ \A ut \in m_utInfos : requests'[ut] \in PossibleRequests(ut)
    BY <1>6 DEF Start
  <2>2. m_utInfos \subseteq Ut /\ IsFiniteSet(m_utInfos)
    BY FrameAssumption, FS_Subset DEF AllocationsOK
  <2>3. toAllocate' \in Seq(m_utInfos)
    BY <2>1, <2>2, OrderOf
  <2>4. \A ut \in m_utInfos : Admissible(requests'[ut].req) /\ requests'[ut].ctrl \in BOOLEAN
    <3> SUFFICES ASSUME NEW ut \in m_utInfos
                 PROVE  Admissible(requests'[ut].req) /\ requests'[ut].ctrl \in BOOLEAN
      OBVIOUS
    <3>1. ut \in Ut /\ ToCheck(ut) <= CarrierSymbols /\ requests'[ut] \in PossibleRequests(ut)
      BY <2>1, <2>2 DEF LoadInv, AdmissionInv
    <3> QED BY <3>1, RequestsFit
  <2>5. \A i \in DOMAIN toAllocate' : toAllocate'[i] \in m_utInfos
    BY <2>3
  <2>6. RequestsInv'
    BY <2>4, <2>5 DEF RequestsInv, Admissible, Consistent, MinRbdcOf
  <2> QED BY <1>2, <2>1, <2>6, RemovedKeeps DEF LoadInv
<1>7. ASSUME NEW supported \in SUBSET Frame, AllocateToFrame(supported) PROVE LoadInv'
  <2>1. PICK ut, req, ctrl : ut = Head(toAllocate) /\ req = requests[ut].req /\ ctrl = requests[ut].ctrl
    OBVIOUS
  <2>2. /\ phase = "allocate" /\ toAllocate # <<>> /\ toAllocate' = Tail(toAllocate)
        /\ UNCHANGED <<m_utInfos, m_minimumRateBasedBytesLeft, requests, phase>>
    BY <1>7 DEF AllocateToFrame
  <2>3. /\ ut = toAllocate[1] /\ 1 \in DOMAIN toAllocate
        /\ DOMAIN Tail(toAllocate) = 1 .. Len(toAllocate) - 1
        /\ \A i \in 1 .. Len(toAllocate) - 1 :
             Tail(toAllocate)[i] = toAllocate[i + 1] /\ i + 1 \in DOMAIN toAllocate
    BY <2>1, <2>2, TailDistinct DEF AllocationsOK
  <2>4. \A i \in DOMAIN toAllocate :
          Admissible(requests[toAllocate[i]].req) /\ requests[toAllocate[i]].ctrl \in BOOLEAN
    BY <2>2 DEF LoadInv, RequestsInv
  <2>5. Admissible(req) /\ ctrl \in BOOLEAN /\ \A f \in Frame : ut \notin AllocatedTo(f)
    BY <2>1, <2>3, <2>4 DEF AllocationsOK
  <2>6. RequestsInv'
    <3>1. \A i \in DOMAIN toAllocate' :
            Admissible(requests'[toAllocate'[i]].req) /\ requests'[toAllocate'[i]].ctrl \in BOOLEAN
      BY <2>2, <2>3, <2>4
    <3> QED BY <3>1 DEF RequestsInv, Admissible, Consistent, MinRbdcOf
  <2>7. FramesInv'
    <3>1. CASE supported = {}
      BY <1>1, <1>7, <3>1 DEF AllocateToFrame
    <3>2. CASE supported # {}
      <4>1. PICK i \in DOMAIN Levels, f \in supported : Allocate(Levels[i], f, ut, req, ctrl)
        BY <1>7, <2>1, <3>2 DEF AllocateToFrame
      <4>2. Levels[i] \in LevelNames /\ f \in Frame
        BY DEF Levels, LevelNames
      <4>3. FramesInv
        BY DEF LoadInv
      <4> QED BY <2>5, <4>1, <4>2, <4>3, AllocatedKeeps
    <3> QED BY <3>1, <3>2
  <2> QED BY <1>2, <2>2, <2>6, <2>7 DEF LoadInv
<1>8. CASE Share
  <2>1. /\ PreAllocateSymbols /\ phase' # "allocate"
        /\ UNCHANGED <<m_utInfos, m_minimumRateBasedBytesLeft>>
    BY <1>8 DEF Share
  <2>2. FramesInv'
    BY <2>1, ShareKeeps DEF LoadInv
  <2> QED BY <1>2, <1>3, <2>1, <2>2 DEF LoadInv
<1>9. CASE EnterRaChannel \/ StartFrames \/ Slots \/ NextFrame \/ SendTbtps
  <2>1. /\ UNCHANGED <<frameVars, m_utInfos, m_minimumRateBasedBytesLeft>> /\ phase' # "allocate"
    BY <1>9 DEF EnterRaChannel, StartFrames, Slots, NextFrame, SendTbtps, superframeVars
  <2> QED BY <1>1, <1>2, <1>3, <2>1 DEF LoadInv
<1>10. CASE NextSuperframe
  <2>1. /\ RemoveAllocations /\ phase' # "allocate"
        /\ UNCHANGED <<m_utInfos, m_minimumRateBasedBytesLeft>>
    BY <1>10 DEF NextSuperframe
  <2> QED BY <1>2, <1>3, <2>1, RemovedKeeps DEF LoadInv
<1>11. CASE UNCHANGED vars
  <2>1. /\ UNCHANGED <<frameVars, m_utInfos, m_minimumRateBasedBytesLeft, phase, requests, toAllocate>>
    BY <1>11 DEF vars, superframeVars
  <2>2. RequestsInv'
    BY <2>1 DEF LoadInv, RequestsInv, Admissible, Consistent, MinRbdcOf
  <2> QED BY <1>1, <1>2, <2>1, <2>2 DEF LoadInv
<1> QED BY <1>4, <1>5, <1>6, <1>7, <1>8, <1>9, <1>10, <1>11 DEF Next, Superframe

\* Whatever the requests and however the symbols are shared, what the UTs of a
\* frame are granted together is within its target load (ShareSymbols).
THEOREM GrantsWithinLoad == Spec => []WithinTargetLoad
<1>1. Init => AllocationsOK /\ LoadInv
  BY AllocationsInit, LoadInit
<1>2. AllocationsOK /\ LoadInv /\ [Next]_vars => AllocationsOK' /\ LoadInv'
  BY AllocationsNext, LoadNext
<1>3. LoadInv => WithinTargetLoad
  BY DEF LoadInv, FramesInv
<1> QED BY <1>1, <1>2, <1>3, PTL DEF Spec

(***************************************************************************)
(* What is sent in slots.  The argument follows the line of PDUs: the one  *)
(* that arrived last, those on their way, and what the queue will send.    *)
(* Counting PDUs along this line bounds how many packets can have been cut *)
(* between two of them.                                                    *)
(***************************************************************************)

M == encapsulation.maxFragmentId
T == encapsulation.totalLengths

Context == m_currRxPacketFragment

End(p) == p.from + p.size

\* Every packet that is cut takes two steps: one to its START_PDU, one more to
\* what follows.  RankIn is reached by sending a PDU, RankOut is what the next
\* one counts from.
RankIn(pdu) ==
  2 * pdu.piece.fragmented + (IF pdu.status = "START_PDU" THEN 0 ELSE 1)

RankOut(pdu) ==
  2 * pdu.piece.fragmented
    + (IF pdu.status \in {"START_PDU", "CONTINUATION_PDU"} THEN 0 ELSE 1)

RestInFront == m_packets # <<>> /\ m_packets[1].status = "END_PDU"

SentRank == 2 * fragmented + (IF RestInFront THEN 0 ELSE 1)

Precedes(p, q) == p.packet < q.packet \/ (p.packet = q.packet /\ End(p) <= q.from)

IsCut(pdu) == pdu.status # "FULL_PDU"

\* PDU q was sent n PDUs after p.
Follows(p, q, n) ==
  /\ Precedes(p.piece, q.piece)
  /\ p.piece.fragmented <= q.piece.fragmented
  /\ IsCut(p) /\ IsCut(q) /\ p.piece.fragmented = q.piece.fragmented
       => p.piece.packet = q.piece.packet
  /\ RankIn(q) <= RankOut(p) + n

\* PDU p was sent before what the queue holds, and n PDUs were sent since.
BeforeQueue(p, n) ==
  /\ p.piece.fragmented <= fragmented
  /\ SentRank <= RankOut(p) + n
  /\ \A k \in DOMAIN m_packets : Precedes(p.piece, m_packets[k])
  /\ RestInFront /\ IsCut(p) /\ p.piece.fragmented = fragmented
       => p.piece.packet = m_packets[1].packet

PieceOK(p) ==
  /\ p.packet \in DOMAIN accepted
  /\ p.size >= 1
  /\ End(p) <= accepted[p.packet]

PduOK(p) ==
  /\ PieceOK(p.piece)
  /\ IsCut(p) => p.fragmentId = p.piece.fragmented % M
  /\ p.status \in {"FULL_PDU", "START_PDU"} => p.piece.from = 0
  /\ p.status \in {"FULL_PDU", "END_PDU"} => End(p.piece) = accepted[p.piece.packet]
  /\ p.status = "START_PDU" => p.totalLength = accepted[p.piece.packet] % T

SegmentOK(s) ==
  /\ s.packet \in DOMAIN accepted
  /\ s.size >= 1
  /\ End(s) = accepted[s.packet]
  /\ s.status = "FULL_PDU" => s.from = 0

SizesOK ==
  /\ m_txFragmentId = fragmented % M
  /\ \A p \in DOMAIN accepted : accepted[p] \in 1 .. T

QueueOK ==
  /\ \A k \in DOMAIN m_packets : SegmentOK(m_packets[k])
  /\ \A k \in DOMAIN m_packets : k > 1 => m_packets[k].status = "FULL_PDU"
  /\ \A k, l \in DOMAIN m_packets : k < l => m_packets[k].packet < m_packets[l].packet

ChannelOK ==
  /\ \A i \in DOMAIN channel : PduOK(channel[i])
  /\ \A i, j \in DOMAIN channel : i < j => Follows(channel[i], channel[j], j - i)
  /\ \A i \in DOMAIN channel : BeforeQueue(channel[i], Len(channel) - i)

\* The PDU that arrived last, when a packet is being put together.
LastPdu ==
  [status |-> "CONTINUATION_PDU", fragmentId |-> m_currRxFragmentId, totalLength |-> 0,
   piece |-> Context[Len(Context)]]

Contiguous(pieces) ==
  \A i \in 1 .. Len(pieces) - 1 : pieces[i + 1].from = End(pieces[i])

\* The pieces put together are of one packet, and no gap is among them unless
\* the byte count shows it.
ContextOK ==
  Context # <<>> =>
    /\ PduOK(LastPdu)
    /\ Context[1].from = 0
    /\ \A i \in DOMAIN Context :
         /\ Context[i].packet = Context[1].packet
         /\ Context[i].fragmented = Context[1].fragmented
    /\ m_currRxPacketSize = accepted[Context[1].packet] % T
    /\ m_currRxPacketFragmentBytes >= 1
    /\ m_currRxPacketFragmentBytes <= End(Context[Len(Context)])
    /\ m_currRxPacketFragmentBytes = End(Context[Len(Context)]) => Contiguous(Context)

ContextBefore ==
  Context # <<>> =>
    /\ \A i \in DOMAIN channel : Follows(LastPdu, channel[i], lostInRow + i)
    /\ BeforeQueue(LastPdu, lostInRow + Len(channel))

DeliveredOK ==
  /\ \A d \in DOMAIN delivered :
       /\ delivered[d] # <<>>
       /\ PacketOf(d) \in DOMAIN accepted
       /\ Whole(delivered[d])
       /\ \A i \in DOMAIN channel : PacketOf(d) < channel[i].piece.packet
       /\ \A k \in DOMAIN m_packets : PacketOf(d) < m_packets[k].packet
       /\ Context # <<>> => PacketOf(d) < Context[1].packet
  /\ \A c, d \in DOMAIN delivered : c < d => PacketOf(c) < PacketOf(d)

Inv ==
  /\ LinkTypeOK
  /\ SizesOK
  /\ QueueOK
  /\ ChannelOK
  /\ ContextOK
  /\ ContextBefore
  /\ DeliveredOK
-----------------------------------------------------------------------------
\* What Tail does to the elements of a sequence.
LEMMA TailFacts ==
  ASSUME NEW S, NEW s \in Seq(S), s # <<>>
  PROVE  /\ Tail(s) \in Seq(S)
         /\ Len(s) \in Nat \ {0}
         /\ Head(s) = s[1] /\ s[1] \in S
         /\ DOMAIN s = 1 .. Len(s)
         /\ DOMAIN Tail(s) = 1 .. Len(s) - 1
         /\ Len(Tail(s)) = Len(s) - 1
         /\ \A k \in 1 .. Len(s) - 1 : Tail(s)[k] = s[k + 1]
  OBVIOUS

\* What Append does to them.
LEMMA AppendFacts ==
  ASSUME NEW S, NEW s \in Seq(S), NEW x \in S
  PROVE  /\ Append(s, x) \in Seq(S)
         /\ Append(s, x) # <<>>
         /\ Len(s) \in Nat
         /\ DOMAIN s = 1 .. Len(s)
         /\ DOMAIN Append(s, x) = 1 .. Len(s) + 1
         /\ Len(Append(s, x)) = Len(s) + 1
         /\ \A k \in 1 .. Len(s) : Append(s, x)[k] = s[k]
         /\ Append(s, x)[Len(s) + 1] = x
  OBVIOUS

\* A sequence of length zero is the empty one.
LEMMA EmptySequence == ASSUME NEW S, NEW s \in Seq(S), Len(s) = 0 PROVE s = <<>>
  OBVIOUS

\* What a replaced front does to them.
LEMMA FrontFacts ==
  ASSUME NEW S, NEW s \in Seq(S), s # <<>>, NEW x \in S
  PROVE  /\ <<x>> \o Tail(s) \in Seq(S)
         /\ <<x>> \o Tail(s) # <<>>
         /\ DOMAIN (<<x>> \o Tail(s)) = DOMAIN s
         /\ (<<x>> \o Tail(s))[1] = x
         /\ \A k \in DOMAIN s : k > 1 => (<<x>> \o Tail(s))[k] = s[k]
  OBVIOUS

\* The remainder of the next number.
LEMMA ModNext ==
  ASSUME NEW n \in Nat, NEW b \in Nat \ {0}
  PROVE  (n + 1) % b = IF (n % b) + 1 >= b THEN 0 ELSE (n % b) + 1
<1> DEFINE q == n \div b
           r == n % b
<1>1. q \in Int /\ r \in 0 .. b - 1 /\ n = q * b + r
  BY DivModType, DivModSplit
<1>2. (q + 1) * b = q * b + b
  BY <1>1
<1>3. CASE r + 1 >= b
  <2>1. n + 1 = (q + 1) * b + 0
    BY <1>1, <1>2, <1>3
  <2>2. q + 1 \in Int /\ 0 \in 0 .. b - 1
    BY <1>1
  <2>3. ((q + 1) * b + 0) % b = 0
    BY <2>2, DivModUnique
  <2> QED
    BY <2>1, <2>3, <1>3
<1>4. CASE r + 1 < b
  <2>1. r + 1 \in 0 .. b - 1 /\ n + 1 = q * b + (r + 1)
    BY <1>1, <1>4
  <2>2. (q * b + (r + 1)) % b = r + 1
    BY <2>1, <1>1, DivModUnique
  <2> QED
    BY <2>1, <2>2, <1>4, <1>1
<1> QED
  BY <1>1, <1>3, <1>4

\* Cuts with the same fragment id, fewer than a cycle apart, are the same cut.
LEMMA SameFragmentId ==
  ASSUME NEW b \in Nat \ {0}, NEW f \in Nat, NEW g \in Nat, f <= g, g < f + b,
         f % b = g % b
  PROVE  f = g
<1> SUFFICES ASSUME f < g PROVE FALSE
  OBVIOUS
<1>1. g - f < b
  OBVIOUS
<1> QED
  BY <1>1, ModDistinct

\* What EncapsulationAssumption says of the encapsulation in use.
LEMMA Limits ==
  ASSUME encapsulation \in Encapsulations
  PROVE  /\ M \in Nat \ {0} /\ T \in Nat \ {0}
         /\ encapsulation.maxHlPduSize \in 0 .. T
         /\ MaxBurst \in Nat /\ MaxBurst <= 2 * M - 1
  BY EncapsulationAssumption, BurstAssumption DEF M, T

\* A fragment that is cut off is neither empty nor all of the segment.
LEMMA PayloadFits ==
  ASSUME encapsulation \in Encapsulations, NEW bytes \in TxOpportunities,
         NEW status \in {"FULL_PDU", "END_PDU"},
         bytes > encapsulation.header[SizingStatus(status)]
  PROVE  /\ MaxPayload(bytes, SizingStatus(status)) \in Nat \ {0}
         /\ MaxPayload(bytes, SizingStatus(status)) <= MaxPayload(bytes, status)
         /\ MaxPayload(bytes, status) \in Int
<1> DEFINE e == encapsulation
           s == SizingStatus(status)
<1>1. /\ e.header \in [Status -> Nat] /\ e.maxPduSize \in Nat /\ e.recalculates \in BOOLEAN
      /\ \A t \in Status : e.header[t] < e.maxPduSize
      /\ e.recalculates => e.header[status] <= e.header[StatusWhenCut(status)]
  BY EncapsulationAssumption
<1>2. status \in Status /\ StatusWhenCut(status) \in Status
  BY DEF Status, StatusWhenCut
<1>3. s \in Status /\ (s = status \/ (s = StatusWhenCut(status) /\ e.recalculates))
  BY <1>1, <1>2 DEF SizingStatus
<1>4. bytes \in Nat
  BY EncapsulationAssumption
<1> DEFINE h == e.header
<1> HIDE DEF s, h
<1>5. /\ h[s] \in Nat /\ h[status] \in Nat /\ h[s] < e.maxPduSize
      /\ h[status] <= h[s]
  <2>1. h \in [Status -> Nat] /\ \A t \in Status : h[t] < e.maxPduSize
    BY <1>1 DEF h
  <2>2. h[s] \in Nat /\ h[status] \in Nat /\ h[s] < e.maxPduSize
    BY <2>1, <1>2, <1>3
  <2>3. h[status] <= h[s]
    BY <2>2, <1>1, <1>3 DEF h
  <2> QED
    BY <2>2, <2>3
<1> USE DEF s, h
<1> QED
  BY <1>1, <1>4, <1>5 DEF MaxPayload
-----------------------------------------------------------------------------
(***************************************************************************)
(* Transmission.                                                           *)
(***************************************************************************)
\* What the rest of the line sees of a transmission opportunity that is used.
Sends(x) ==
  /\ x \in Pdu
  /\ m_packets # <<>> /\ m_packets' \in Seq(Segment)
  /\ x.piece.packet = m_packets[1].packet /\ x.piece.from = m_packets[1].from
  /\ x.piece.fragmented = fragmented' /\ fragmented' \in {fragmented, fragmented + 1}
  /\ IsCut(x) /\ fragmented' = fragmented => RestInFront
  /\ RankIn(x) <= SentRank + 1
  /\ SentRank' = RankOut(x)
  /\ RestInFront' => IsCut(x) /\ m_packets'[1].packet = x.piece.packet
  /\ \A k \in DOMAIN m_packets' : Precedes(x.piece, m_packets'[k])
  /\ \A k \in DOMAIN m_packets' : \E l \in DOMAIN m_packets :
       m_packets'[k].packet = m_packets[l].packet /\ m_packets[l].from <= m_packets'[k].from

\* The front of the queue.
LEMMA FrontOfQueue ==
  ASSUME LinkTypeOK, QueueOK, m_packets # <<>>
  PROVE  /\ m_packets[1] \in Segment
         /\ SegmentOK(m_packets[1])
         /\ Head(m_packets) = m_packets[1]
         /\ 1 \in DOMAIN m_packets
         /\ m_packets[1].status \in {"FULL_PDU", "END_PDU"}
         /\ m_packets[1].packet \in Nat
         /\ m_packets[1].from \in Nat
         /\ m_packets[1].size \in Nat \ {0}
<1>1. m_packets \in Seq(Segment)
  BY DEF LinkTypeOK
<1>2. m_packets[1] \in Segment /\ Head(m_packets) = m_packets[1] /\ 1 \in DOMAIN m_packets
  BY <1>1, TailFacts
<1>3. SegmentOK(m_packets[1])
  BY <1>2 DEF QueueOK
<1> QED
  BY <1>2, <1>3 DEF Segment, SegmentOK

\* The last piece of a packet, or all of it, is sent.
LEMMA RestIsSent ==
  ASSUME LinkTypeOK, SizesOK, QueueOK, NEW bytes \in TxOpportunities, SendRest(bytes)
  PROVE  /\ Sends(RestPdu) /\ PduOK(RestPdu)
         /\ m_packets' \in Seq(Segment)
         /\ m_nBytes' \in Int /\ m_nDequeBytesSinceReset' \in Nat
         /\ SizesOK' /\ QueueOK'
<1> DEFINE s == m_packets[1]
           x == RestPdu
<1>1. /\ m_packets # <<>> /\ m_packets' = Tail(m_packets)
      /\ UNCHANGED <<encapsulation, accepted, fragmented, m_txFragmentId>>
      /\ m_nBytes' = m_nBytes - Head(m_packets).size
      /\ m_nDequeBytesSinceReset' = m_nDequeBytesSinceReset + Head(m_packets).size
  BY DEF SendRest, Dequeue
<1>2. /\ s \in Segment /\ SegmentOK(s) /\ Head(m_packets) = s
      /\ s.status \in {"FULL_PDU", "END_PDU"}
      /\ s.packet \in Nat /\ s.from \in Nat /\ s.size \in Nat \ {0}
  BY <1>1, FrontOfQueue
<1>3. /\ m_packets' \in Seq(Segment)
      /\ DOMAIN m_packets = 1 .. Len(m_packets) /\ Len(m_packets) \in Nat \ {0}
      /\ DOMAIN m_packets' = 1 .. Len(m_packets) - 1
      /\ \A k \in DOMAIN m_packets' : m_packets'[k] = m_packets[k + 1]
                                      /\ k + 1 \in DOMAIN m_packets
  BY <1>1, TailFacts DEF LinkTypeOK
<1>4. /\ x.status = s.status
      /\ x.fragmentId = (IF s.status = "FULL_PDU" THEN 0 ELSE m_txFragmentId)
      /\ x.totalLength = 0
      /\ x.piece = [packet |-> s.packet, from |-> s.from, size |-> s.size,
                    fragmented |-> fragmented]
  BY <1>1, <1>2 DEF RestPdu, PduOf
<1>5. x.piece.packet = s.packet /\ x.piece.from = s.from /\ x.piece.size = s.size
      /\ x.piece.fragmented = fragmented
  BY <1>4
<1>6. /\ fragmented \in Nat /\ m_txFragmentId \in Nat /\ m_nBytes \in Int
      /\ m_nDequeBytesSinceReset \in Nat
  BY Limits DEF LinkTypeOK
<1>7. x \in Pdu
  BY <1>1, <1>2, <1>6 DEF RestPdu, PduOf, Pdu, Piece, Status
<1>8. PduOK(x)
  BY <1>2, <1>4, <1>5 DEF PduOK, PieceOK, SegmentOK, End, IsCut, SizesOK
<1>9. SizesOK'
  BY <1>1 DEF SizesOK, T, M
<1>10. QueueOK'
  <2>1. ASSUME NEW k \in DOMAIN m_packets' PROVE SegmentOK(m_packets[k])'
    <3>1. m_packets'[k] = m_packets[k + 1] /\ SegmentOK(m_packets[k + 1])
      BY <1>3 DEF QueueOK
    <3> QED
      BY <1>1, <3>1 DEF SegmentOK, End
  <2>2. ASSUME NEW k \in DOMAIN m_packets' PROVE m_packets'[k].status = "FULL_PDU"
    BY <1>3 DEF QueueOK
  <2>3. ASSUME NEW k \in DOMAIN m_packets', NEW l \in DOMAIN m_packets', k < l
        PROVE  m_packets'[k].packet < m_packets'[l].packet
    <3>1. k + 1 < l + 1
      BY <1>3, <2>3
    <3>2. m_packets[k + 1].packet < m_packets[l + 1].packet
      BY <1>3, <3>1 DEF QueueOK
    <3> QED
      BY <1>3, <3>2
  <2> QED
    BY <2>1, <2>2, <2>3 DEF QueueOK
<1>11. \A k \in DOMAIN m_packets' : m_packets'[k].status = "FULL_PDU"
  BY <1>3 DEF QueueOK
<1>12. ~ RestInFront'
  <2>1. SUFFICES ASSUME m_packets' # <<>> PROVE m_packets'[1].status = "FULL_PDU"
    BY DEF RestInFront
  <2>2. 1 \in DOMAIN m_packets'
    BY <2>1, <1>3
  <2> QED
    BY <2>2, <1>11
<1>13. RankIn(x) = 2 * fragmented + 1 /\ RankOut(x) = 2 * fragmented + 1
  BY <1>2, <1>4, <1>5 DEF RankIn, RankOut
<1>14. SentRank' = 2 * fragmented + 1 /\ SentRank \in {2 * fragmented, 2 * fragmented + 1}
  BY <1>1, <1>6, <1>12 DEF SentRank
<1>15. IsCut(x) => RestInFront
  BY <1>1, <1>2, <1>4 DEF IsCut, RestInFront
<1>16. \A k \in DOMAIN m_packets' : s.packet < m_packets'[k].packet
  BY <1>3 DEF QueueOK
<1>17. \A k \in DOMAIN m_packets' : Precedes(x.piece, m_packets'[k])
  BY <1>5, <1>16 DEF Precedes
<1>18. \A k \in DOMAIN m_packets' : \E l \in DOMAIN m_packets :
         m_packets'[k].packet = m_packets[l].packet /\ m_packets[l].from <= m_packets'[k].from
  <2> SUFFICES ASSUME NEW k \in DOMAIN m_packets'
               PROVE  m_packets[k + 1].from <= m_packets[k + 1].from
    BY <1>3
  <2>1. m_packets[k + 1] \in Segment
    BY <1>3 DEF LinkTypeOK
  <2> QED
    BY <2>1 DEF Segment
<1>19. Sends(x)
  <2>1. RankIn(x) <= SentRank + 1 /\ SentRank' = RankOut(x)
    BY <1>6, <1>13, <1>14
  <2> QED
    BY <1>1, <1>3, <1>5, <1>7, <1>12, <1>15, <1>17, <1>18, <2>1 DEF Sends
<1> QED
  BY <1>1, <1>2, <1>3, <1>6, <1>8, <1>9, <1>10, <1>19

\* A fragment is cut off the first packet, and the rest stays in front.
LEMMA FragmentIsSent ==
  ASSUME LinkTypeOK, SizesOK, QueueOK, NEW bytes \in TxOpportunities, SendFragment(bytes)
  PROVE  /\ Sends(FragmentPdu(bytes)) /\ PduOK(FragmentPdu(bytes))
         /\ m_packets' \in Seq(Segment)
         /\ m_nBytes' \in Int /\ m_nDequeBytesSinceReset' \in Nat
         /\ SizesOK' /\ QueueOK' /\ m_txFragmentId' \in 0 .. M - 1 /\ fragmented' \in Nat
<1> DEFINE s == m_packets[1]
           x == FragmentPdu(bytes)
           payload == MaxPayload(bytes, SizingStatus(s.status))
           rest == [packet |-> s.packet, from |-> s.from + payload,
                    size |-> s.size - payload, status |-> "END_PDU"]
<1>1. m_packets # <<>>
  BY DEF SendFragment
<1>2. /\ s \in Segment /\ SegmentOK(s) /\ Head(m_packets) = s
      /\ s.status \in {"FULL_PDU", "END_PDU"} /\ 1 \in DOMAIN m_packets
      /\ s.packet \in Nat /\ s.from \in Nat /\ s.size \in Nat \ {0}
  BY <1>1, FrontOfQueue
<1>3. /\ bytes > encapsulation.header[SizingStatus(s.status)]
      /\ s.size > MaxPayload(bytes, s.status)
      /\ m_packets' = <<rest>> \o Tail(m_packets)
      /\ IF s.status = "FULL_PDU" THEN IncreaseFragmentId
                                  ELSE UNCHANGED <<m_txFragmentId, fragmented>>
      /\ UNCHANGED <<encapsulation, accepted>>
      /\ m_nBytes' = m_nBytes - s.size + rest.size
      /\ m_nDequeBytesSinceReset' = m_nDequeBytesSinceReset + s.size - rest.size
  BY <1>2 DEF SendFragment, DequeueAndPushFront
<1>4. payload \in Nat \ {0} /\ payload < s.size
  <2>1. /\ payload \in Nat \ {0} /\ payload <= MaxPayload(bytes, s.status)
        /\ MaxPayload(bytes, s.status) \in Int
    BY <1>2, <1>3, PayloadFits DEF LinkTypeOK
  <2> HIDE DEF payload
  <2> QED
    BY <2>1, <1>2, <1>3
<1> HIDE DEF payload
<1>5. /\ rest \in Segment /\ rest.packet = s.packet /\ rest.from = s.from + payload
      /\ rest.size = s.size - payload /\ rest.status = "END_PDU"
  BY <1>2, <1>4 DEF Segment
<1>6. /\ fragmented \in Nat /\ m_txFragmentId \in 0 .. M - 1 /\ m_nBytes \in Int
      /\ m_nDequeBytesSinceReset \in Nat /\ M \in Nat \ {0} /\ T \in Nat \ {0}
  BY Limits DEF LinkTypeOK, M
<1>7. /\ fragmented' = (IF s.status = "FULL_PDU" THEN fragmented + 1 ELSE fragmented)
      /\ fragmented' \in Nat
      /\ m_txFragmentId' = fragmented' % M /\ m_txFragmentId' \in 0 .. M - 1
  <2>1. CASE s.status = "FULL_PDU"
    <3>1. /\ fragmented' = fragmented + 1
          /\ m_txFragmentId' = IF m_txFragmentId + 1 >= M THEN 0 ELSE m_txFragmentId + 1
      BY <1>3, <2>1 DEF IncreaseFragmentId, M
    <3>2. m_txFragmentId = fragmented % M
      BY DEF SizesOK
    <3>3. (fragmented + 1) % M = IF (fragmented % M) + 1 >= M THEN 0 ELSE (fragmented % M) + 1
      BY <1>6, ModNext
    <3>4. m_txFragmentId' \in 0 .. M - 1
      BY <1>6, <3>1
    <3> QED
      BY <1>6, <2>1, <3>1, <3>2, <3>3, <3>4
  <2>2. CASE s.status # "FULL_PDU"
    BY <1>3, <1>6, <2>2 DEF SizesOK
  <2> QED
    BY <2>1, <2>2
<1>8. /\ x.status = StatusWhenCut(s.status)
      /\ x.status = (IF s.status = "FULL_PDU" THEN "START_PDU" ELSE "CONTINUATION_PDU")
      /\ x.fragmentId = m_txFragmentId'
      /\ x.totalLength = (IF s.status = "FULL_PDU" THEN s.size % T ELSE 0)
      /\ x.piece = [packet |-> s.packet, from |-> s.from, size |-> payload,
                    fragmented |-> fragmented']
  BY <1>2 DEF FragmentPdu, PduOf, StatusWhenCut, T, payload
<1>9. x.piece.packet = s.packet /\ x.piece.from = s.from /\ x.piece.size = payload
      /\ x.piece.fragmented = fragmented'
  BY <1>8
<1>10. x \in Pdu
  <2>1. s.size % T \in Nat
    <3>1. s.size \in Int /\ T \in Nat \ {0}
      BY <1>2, <1>6 DEF Segment
    <3>2. PICK k \in Int : k = s.size
      BY <3>1
    <3>3. k % T \in 0 .. T - 1
      BY <3>1, DivModType
    <3> QED BY <3>1, <3>2, <3>3
  <2>2. x.piece \in Piece /\ x.status \in Status /\ x.fragmentId \in Nat /\ x.totalLength \in Nat
    BY <1>2, <1>4, <1>6, <1>7, <1>8, <2>1 DEF Piece, Status
  <2>3. x = [status |-> x.status, fragmentId |-> x.fragmentId,
             totalLength |-> x.totalLength, piece |-> x.piece]
    BY DEF FragmentPdu, PduOf
  <2> HIDE DEF x
  <2> QED
    BY <2>2, <2>3 DEF Pdu
<1> HIDE DEF x
<1>11. PduOK(x)
  <2>1. End(x.piece) < accepted[s.packet] /\ accepted[s.packet] = s.from + s.size
    BY <1>2, <1>4, <1>9 DEF End, SegmentOK
  <2>2. PieceOK(x.piece)
    BY <1>2, <1>4, <1>9, <2>1 DEF PieceOK, SegmentOK, End
  <2>3. x.fragmentId = x.piece.fragmented % M
    BY <1>7, <1>8, <1>9
  <2>4. s.status = "FULL_PDU" => s.from = 0 /\ s.size = accepted[s.packet]
    BY <1>2, <2>1 DEF SegmentOK
  <2> QED
    BY <1>8, <1>9, <2>2, <2>3, <2>4 DEF PduOK
<1>12. /\ m_packets' \in Seq(Segment) /\ m_packets' # <<>>
       /\ DOMAIN m_packets' = DOMAIN m_packets /\ m_packets'[1] = rest
       /\ \A k \in DOMAIN m_packets : k > 1 => m_packets'[k] = m_packets[k]
       /\ DOMAIN m_packets = 1 .. Len(m_packets) /\ Len(m_packets) \in Nat
  <2>1. m_packets \in Seq(Segment)
    BY DEF LinkTypeOK
  <2> HIDE DEF rest
  <2> QED
    BY <1>1, <1>3, <1>5, <2>1, FrontFacts
<1> HIDE DEF rest
<1>13. SizesOK'
  BY <1>3, <1>7 DEF SizesOK, T, M
<1>14. \A k \in DOMAIN m_packets' :
         m_packets'[k].packet = m_packets[k].packet /\ k \in Nat \ {0} /\ (k = 1 \/ k > 1)
  BY <1>5, <1>12
<1>15. QueueOK'
  <2>1. ASSUME NEW k \in DOMAIN m_packets' PROVE SegmentOK(m_packets[k])'
    <3>1. CASE k = 1
      <4>1. /\ rest.from + rest.size = s.from + s.size /\ rest.size >= 1
            /\ rest.packet = s.packet /\ rest.status # "FULL_PDU"
        BY <1>2, <1>4, <1>5
      <4>2. s.packet \in DOMAIN accepted /\ s.from + s.size = accepted[s.packet]
        BY <1>2 DEF SegmentOK, End
      <4>3. m_packets'[k] = rest
        BY <1>12, <3>1
      <4> QED
        BY <1>3, <4>1, <4>2, <4>3 DEF SegmentOK, End
    <3>2. CASE k > 1
      <4>1. m_packets'[k] = m_packets[k] /\ SegmentOK(m_packets[k])
        BY <1>12, <3>2 DEF QueueOK
      <4> QED
        BY <1>3, <4>1 DEF SegmentOK, End
    <3> QED
      BY <1>14, <3>1, <3>2
  <2>2. ASSUME NEW k \in DOMAIN m_packets', k > 1 PROVE m_packets'[k].status = "FULL_PDU"
    BY <1>12, <2>2 DEF QueueOK
  <2>3. \A k, l \in DOMAIN m_packets' : k < l => m_packets'[k].packet < m_packets'[l].packet
    BY <1>12, <1>14 DEF QueueOK
  <2> QED
    BY <2>1, <2>2, <2>3 DEF QueueOK
<1>16. Sends(x)
  <2>1. RestInFront' /\ (RestInFront <=> s.status = "END_PDU") /\ IsCut(x)
    BY <1>1, <1>5, <1>8, <1>12 DEF RestInFront, IsCut
  <2>2. RankOut(x) = 2 * fragmented' /\ SentRank' = 2 * fragmented'
    BY <1>7, <1>8, <1>9, <2>1 DEF RankOut, SentRank
  <2>3. RankIn(x) <= SentRank + 1
    <3>1. CASE s.status = "FULL_PDU"
      BY <1>6, <1>7, <1>8, <1>9, <2>1, <3>1 DEF RankIn, SentRank
    <3>2. CASE s.status = "END_PDU"
      BY <1>6, <1>7, <1>8, <1>9, <2>1, <3>2 DEF RankIn, SentRank
    <3> QED
      BY <1>2, <3>1, <3>2
  <2>4. fragmented' = fragmented => RestInFront
    BY <1>2, <1>6, <1>7, <2>1
  <2>5. ASSUME NEW k \in DOMAIN m_packets' PROVE Precedes(x.piece, m_packets'[k])
    <3>1. CASE k = 1
      BY <1>2, <1>4, <1>5, <1>9, <1>12, <3>1 DEF Precedes, End
    <3>2. CASE k > 1
      <4>1. s.packet < m_packets[k].packet
        BY <1>2, <1>12, <3>2 DEF QueueOK
      <4> QED
        BY <1>9, <1>14, <4>1 DEF Precedes
    <3> QED
      BY <1>14, <3>1, <3>2
  <2>6. ASSUME NEW k \in DOMAIN m_packets'
        PROVE  m_packets[k].from <= m_packets'[k].from
    <3>1. CASE k = 1
      BY <1>2, <1>4, <1>5, <1>12, <3>1
    <3>2. CASE k > 1
      <4>1. m_packets \in Seq(Segment) /\ m_packets'[k] = m_packets[k]
        BY <1>12, <3>2 DEF LinkTypeOK
      <4>2. m_packets[k] \in Segment
        BY <1>12, <4>1
      <4>3. m_packets[k].from \in Nat
        BY <4>2 DEF Segment
      <4> QED
        BY <4>1, <4>3
    <3> QED
      BY <1>14, <3>1, <3>2
  <2>7. \A k \in DOMAIN m_packets' : \E l \in DOMAIN m_packets :
          m_packets'[k].packet = m_packets[l].packet /\ m_packets[l].from <= m_packets'[k].from
    BY <1>12, <1>14, <2>6
  <2>8. m_packets'[1].packet = x.piece.packet
    BY <1>5, <1>9, <1>12
  <2>9. fragmented' \in {fragmented, fragmented + 1}
    BY <1>7
  <2> QED
    BY <1>1, <1>9, <1>10, <1>12, <2>1, <2>2, <2>3, <2>4, <2>5, <2>7, <2>8, <2>9 DEF Sends
<1>17. m_nBytes' \in Int /\ m_nDequeBytesSinceReset' \in Nat
  BY <1>2, <1>3, <1>4, <1>5, <1>6, SMTT(30)
<1> QED
  BY <1>7, <1>11, <1>12, <1>13, <1>15, <1>16, <1>17 DEF x

\* What was sent before the queue was, is before what is sent from it.
LEMMA FollowsNew ==
  ASSUME LinkTypeOK, QueueOK, NEW x, Sends(x), NEW p \in Pdu, NEW n \in Nat, BeforeQueue(p, n)
  PROVE  Follows(p, x, n + 1) /\ BeforeQueue(p, n + 1)'
<1>1. /\ p.piece.packet \in Nat /\ p.piece.fragmented \in Nat /\ End(p.piece) \in Nat
      /\ x.piece.packet \in Nat /\ x.piece.from \in Nat /\ x.piece.fragmented \in Nat
      /\ x.status \in Status
  BY SMTT(30) DEF Pdu, Piece, End, Sends
<1>2. /\ m_packets # <<>> /\ 1 \in DOMAIN m_packets
      /\ x.piece.packet = m_packets[1].packet /\ x.piece.from = m_packets[1].from
  BY FrontOfQueue DEF Sends
<1>3. /\ fragmented \in Nat /\ x.piece.fragmented = fragmented'
      /\ fragmented' \in {fragmented, fragmented + 1}
      /\ p.piece.fragmented <= fragmented
  BY DEF Sends, LinkTypeOK, BeforeQueue
<1>4. Precedes(p.piece, x.piece)
  BY <1>2 DEF BeforeQueue, Precedes
<1>5. p.piece.fragmented <= fragmented'
  BY <1>1, <1>3
<1>6. ASSUME IsCut(p), IsCut(x), p.piece.fragmented = fragmented'
      PROVE  p.piece.packet = x.piece.packet
  <2>1. fragmented' = fragmented
    BY <1>1, <1>3, <1>6
  <2>2. RestInFront
    BY <1>6, <2>1 DEF Sends
  <2> QED
    BY <1>2, <1>6, <2>1, <2>2 DEF BeforeQueue
<1>7. /\ SentRank \in Nat /\ RankOut(p) \in Nat /\ RankIn(x) \in Nat /\ RankOut(x) \in Nat
      /\ RankOut(x) <= RankIn(x)
  <2>1. SentRank \in Nat
    BY <1>3 DEF SentRank
  <2>2. RankOut(p) \in Nat
    BY <1>1 DEF RankOut
  <2>3. RankIn(x) \in Nat /\ RankOut(x) \in Nat /\ RankOut(x) <= RankIn(x)
    BY <1>1 DEF RankIn, RankOut
  <2> QED
    BY <2>1, <2>2, <2>3
<1>8. /\ SentRank <= RankOut(p) + n /\ RankIn(x) <= SentRank + 1 /\ SentRank' = RankOut(x)
  BY DEF BeforeQueue, Sends
<1>9. RankIn(x) <= RankOut(p) + (n + 1) /\ SentRank' <= RankOut(p) + (n + 1)
  BY <1>7, <1>8
<1>10. Follows(p, x, n + 1)
  BY <1>3, <1>4, <1>5, <1>6, <1>9 DEF Follows
<1>11. ASSUME NEW k \in DOMAIN m_packets' PROVE Precedes(p.piece, m_packets'[k])
  <2>1. PICK l \in DOMAIN m_packets :
          m_packets'[k].packet = m_packets[l].packet /\ m_packets[l].from <= m_packets'[k].from
    BY DEF Sends
  <2>2. Precedes(p.piece, m_packets[l])
    BY DEF BeforeQueue
  <2>5. CASE p.piece.packet < m_packets[l].packet
    BY <2>1, <2>5 DEF Precedes
  <2>6. CASE p.piece.packet = m_packets[l].packet /\ End(p.piece) <= m_packets[l].from
    <3>1. m_packets[l] \in Segment /\ m_packets'[k] \in Segment
      <4>1. m_packets \in Seq(Segment) /\ m_packets' \in Seq(Segment)
        BY DEF LinkTypeOK, Sends
      <4> QED
        BY <4>1
    <3>2. m_packets[l].from \in Nat /\ m_packets'[k].from \in Nat
      BY <3>1 DEF Segment
    <3> QED
      BY <1>1, <2>1, <2>6, <3>2 DEF Precedes
  <2> QED
    BY <2>2, <2>5, <2>6 DEF Precedes
<1>12. ASSUME RestInFront', IsCut(p), p.piece.fragmented = fragmented'
       PROVE  p.piece.packet = m_packets'[1].packet
  <2>1. IsCut(x) /\ m_packets'[1].packet = x.piece.packet
    BY <1>12 DEF Sends
  <2> QED
    BY <1>6, <1>12, <2>1
<1>13. BeforeQueue(p, n + 1)'
  BY <1>5, <1>9, <1>11, <1>12 DEF BeforeQueue
<1> QED
  BY <1>10, <1>13

\* Nothing that was sent after x is left in front of it.
LEMMA SentBefore ==
  ASSUME LinkTypeOK, NEW x, Sends(x), fragmented' \in Nat
  PROVE  BeforeQueue(x, 0)'
<1>1. x.piece.fragmented = fragmented' /\ SentRank' = RankOut(x) /\ RankOut(x) \in Int
  BY DEF Sends, RankOut
<1> QED
  BY <1>1 DEF Sends, BeforeQueue

\* The PDU that arrived last is one.
LEMMA LastPduType ==
  ASSUME LinkTypeOK, Context # <<>>
  PROVE  /\ LastPdu \in Pdu
         /\ Len(Context) \in Nat \ {0} /\ DOMAIN Context = 1 .. Len(Context)
         /\ Context[Len(Context)] \in Piece /\ Context[1] \in Piece
         /\ LastPdu.piece = Context[Len(Context)]
         /\ LastPdu.fragmentId = m_currRxFragmentId /\ LastPdu.status = "CONTINUATION_PDU"
<1>1. Context \in Seq(Piece) /\ m_currRxFragmentId \in Nat
  BY Limits DEF LinkTypeOK, Context, M
<1> HIDE DEF Context
<1>2. /\ Len(Context) \in Nat \ {0} /\ DOMAIN Context = 1 .. Len(Context)
      /\ Context[Len(Context)] \in Piece /\ Context[1] \in Piece
  BY <1>1
<1> QED
  BY <1>1, <1>2 DEF LastPdu, Pdu, Status

\* What changes only at the transmitting end leaves the receiving end's
\* invariant to be checked against the line.
LEMMA ContextKept ==
  ASSUME ContextOK, UNCHANGED <<encapsulation, accepted, rxVars>>
  PROVE  ContextOK'
<1>1. /\ Context' = Context /\ LastPdu' = LastPdu /\ accepted' = accepted /\ T' = T /\ M' = M
      /\ m_currRxPacketSize' = m_currRxPacketSize
      /\ m_currRxPacketFragmentBytes' = m_currRxPacketFragmentBytes
  BY DEF rxVars, contextVars, Context, LastPdu, T, M
<1>2. PduOK(LastPdu)' <=> PduOK(LastPdu)
  BY <1>1 DEF PduOK, PieceOK, IsCut, End
<1>3. Contiguous(Context)' <=> Contiguous(Context)
  BY <1>1 DEF Contiguous, End
<1>4. End(Context[Len(Context)])' = End(Context[Len(Context)])
  BY <1>1 DEF End
<1> QED
  BY <1>1, <1>2, <1>3, <1>4 DEF ContextOK

\* A PDU joins the line.
LEMMA SendStep ==
  ASSUME Inv, NEW x, Sends(x), PduOK(x), fragmented' \in Nat, channel' = Append(channel, x),
         UNCHANGED <<encapsulation, accepted, rxVars, lostInRow>>
  PROVE  channel' \in Seq(Pdu) /\ ChannelOK' /\ ContextOK' /\ ContextBefore' /\ DeliveredOK'
<1>0. PICK n : n = Len(channel)
  OBVIOUS
<1>1. x \in Pdu /\ channel \in Seq(Pdu) /\ LinkTypeOK /\ QueueOK
  BY DEF Inv, LinkTypeOK, Sends
<1>2. /\ channel' \in Seq(Pdu) /\ n \in Nat /\ Len(channel') = n + 1
      /\ DOMAIN channel = 1 .. n /\ DOMAIN channel' = 1 .. n + 1
      /\ \A i \in 1 .. n : channel'[i] = channel[i] /\ channel[i] \in Pdu
      /\ channel'[n + 1] = x
  BY <1>0, <1>1, AppendFacts
<1>3. \A p : PduOK(p) => PduOK(p)'
  BY DEF PduOK, PieceOK, IsCut, End, M, T
<1>4. \A i \in 1 .. n + 1 : i \in 1 .. n \/ i = n + 1
  BY <1>2
<1>5. ASSUME NEW i \in 1 .. n
      PROVE  /\ Follows(channel[i], x, (n + 1) - i)
             /\ BeforeQueue(channel[i], (n + 1) - i)'
  <2>1. PICK p : p = channel[i]
    OBVIOUS
  <2>2. p \in Pdu /\ n - i \in Nat /\ (n - i) + 1 = (n + 1) - i /\ channel'[i] = p
    BY <1>2, <2>1
  <2>3. BeforeQueue(p, n - i)
    BY <1>0, <1>2, <2>1 DEF Inv, ChannelOK
  <2>4. Follows(p, x, (n - i) + 1) /\ BeforeQueue(p, (n - i) + 1)'
    BY <1>1, <2>2, <2>3, FollowsNew
  <2> QED
    BY <2>1, <2>2, <2>4
<1>6. BeforeQueue(x, 0)'
  BY <1>1, SentBefore
<1>7. ChannelOK'
  <2>1. ASSUME NEW i \in DOMAIN channel' PROVE PduOK(channel[i])'
    <3>1. PICK p : p = channel'[i]
      OBVIOUS
    <3>2. PduOK(p)
      BY <1>2, <1>4, <3>1 DEF Inv, ChannelOK
    <3> QED
      BY <1>3, <3>1, <3>2
  <2>2. ASSUME NEW i \in DOMAIN channel', NEW j \in DOMAIN channel', i < j
        PROVE  Follows(channel[i], channel[j], j - i)'
    <3>1. i \in 1 .. n
      BY <1>2, <2>2
    <3>2. CASE j \in 1 .. n
      <4>1. Follows(channel[i], channel[j], j - i)
        BY <1>2, <2>2, <3>1, <3>2 DEF Inv, ChannelOK
      <4> QED
        BY <1>2, <3>1, <3>2, <4>1 DEF Follows
    <3>3. CASE j = n + 1
      BY <1>2, <1>5, <3>1, <3>3 DEF Follows
    <3> QED
      BY <1>2, <1>4, <3>2, <3>3
  <2>3. ASSUME NEW i \in DOMAIN channel' PROVE BeforeQueue(channel[i], Len(channel) - i)'
    <3>1. CASE i \in 1 .. n
      BY <1>2, <1>5, <3>1
    <3>2. CASE i = n + 1
      <4>1. (n + 1) - i = 0
        BY <1>2, <3>2
      <4> QED
        BY <1>2, <1>6, <3>2, <4>1
    <3> QED
      BY <1>2, <1>4, <3>1, <3>2
  <2> QED
    BY <2>1, <2>2, <2>3 DEF ChannelOK
<1>8. ContextOK'
  BY ContextKept DEF Inv
<1>9. Context' = Context /\ LastPdu' = LastPdu /\ lostInRow' = lostInRow /\ lostInRow \in Nat
  BY <1>1, Limits DEF rxVars, contextVars, Context, LastPdu, LinkTypeOK
<1>10. ContextBefore'
  <2> SUFFICES ASSUME Context # <<>>
               PROVE  /\ \A i \in DOMAIN channel' : Follows(LastPdu, channel[i], lostInRow + i)'
                      /\ BeforeQueue(LastPdu, lostInRow + Len(channel))'
    BY <1>9 DEF ContextBefore
  <2>1. PICK p : p = LastPdu
    OBVIOUS
  <2>2. p \in Pdu /\ BeforeQueue(p, lostInRow + n)
    BY <1>0, <1>1, <2>1, LastPduType DEF Inv, ContextBefore
  <2>3. PICK m : m = lostInRow + n
    OBVIOUS
  <2>4. m \in Nat
    BY <1>2, <1>9, <2>3
  <2>5. Follows(p, x, m + 1) /\ BeforeQueue(p, m + 1)'
    BY <1>1, <2>2, <2>3, <2>4, FollowsNew
  <2>6. m + 1 = lostInRow + (n + 1)
    BY <1>2, <1>9, <2>3
  <2>7. BeforeQueue(LastPdu, lostInRow + Len(channel))'
    BY <1>2, <1>9, <2>1, <2>5, <2>6
  <2>8. ASSUME NEW i \in DOMAIN channel' PROVE Follows(LastPdu, channel[i], lostInRow + i)'
    <3>1. CASE i \in 1 .. n
      <4>1. Follows(p, channel[i], lostInRow + i)
        BY <1>2, <2>1, <3>1 DEF Inv, ContextBefore
      <4> QED
        BY <1>2, <1>9, <2>1, <3>1, <4>1
    <3>2. CASE i = n + 1
      BY <1>2, <1>9, <2>1, <2>5, <2>6, <3>2
    <3> QED
      BY <1>2, <1>4, <3>1, <3>2
  <2> QED
    BY <2>7, <2>8
<1>11. DeliveredOK'
  <2>1. delivered' = delivered /\ accepted' = accepted
    BY DEF rxVars
  <2>2. ASSUME NEW d \in DOMAIN delivered
        PROVE  /\ \A i \in DOMAIN channel' : PacketOf(d) < channel'[i].piece.packet
               /\ \A k \in DOMAIN m_packets' : PacketOf(d) < m_packets'[k].packet
    <3>1. /\ \A i \in DOMAIN channel : PacketOf(d) < channel[i].piece.packet
          /\ \A k \in DOMAIN m_packets : PacketOf(d) < m_packets[k].packet
      BY DEF Inv, DeliveredOK
    <3>2. PacketOf(d) < x.piece.packet
      BY <1>1, <3>1, FrontOfQueue DEF Sends
    <3>3. \A i \in DOMAIN channel' : PacketOf(d) < channel'[i].piece.packet
      BY <1>2, <1>4, <3>1, <3>2
    <3>4. \A k \in DOMAIN m_packets' : PacketOf(d) < m_packets'[k].packet
      BY <3>1 DEF Sends
    <3> QED
      BY <3>3, <3>4
  <2>3. \A d : PacketOf(d)' = PacketOf(d)
    BY <2>1 DEF PacketOf
  <2>4. \A d : Whole(delivered[d])' <=> Whole(delivered[d])
    BY <2>1 DEF Whole
  <2> QED
    BY <1>9, <2>1, <2>2, <2>3, <2>4 DEF Inv, DeliveredOK
<1> QED
  BY <1>2, <1>7, <1>8, <1>10, <1>11

\* A packet joins the queue.
LEMMA EnqueStep ==
  ASSUME Inv, Enque
  PROVE  Inv'
<1>1. PICK size \in PacketSizes : EnquePdu(size)
  BY DEF Enque
<1>2. PICK L : L = Len(accepted)
  OBVIOUS
<1>3. PICK seg : seg = [packet |-> L + 1, from |-> 0, size |-> size, status |-> "FULL_PDU"]
  OBVIOUS
<1>4. /\ LinkTypeOK /\ SizesOK /\ QueueOK
      /\ accepted \in Seq(PacketSizes) /\ m_packets \in Seq(Segment)
  BY DEF Inv, LinkTypeOK
<1>5. /\ size <= encapsulation.maxHlPduSize
      /\ accepted' = Append(accepted, size)
      /\ m_packets' = Append(m_packets, seg)
      /\ m_nBytes' = m_nBytes + size
      /\ m_nEnqueBytesSinceReset' = m_nEnqueBytesSinceReset + size
      /\ UNCHANGED <<encapsulation, fragmented, m_txFragmentId, rxVars, channel, lostInRow,
                     damaged, m_nDequeBytesSinceReset, nBytesAtReset>>
  BY <1>1, <1>2, <1>3 DEF EnquePdu, Enqueue, Enque
<1>6. size \in Nat \ {0} /\ size \in 1 .. T
  <2>1. encapsulation.maxHlPduSize \in 0 .. T /\ T \in Nat \ {0}
    BY <1>4, Limits DEF LinkTypeOK
  <2>2. size \in Nat \ {0}
    BY EncapsulationAssumption
  <2> QED
    BY <1>5, <2>1, <2>2
<1>7. /\ L \in Nat /\ DOMAIN accepted = 1 .. L /\ DOMAIN accepted' = 1 .. L + 1
      /\ accepted' \in Seq(PacketSizes)
      /\ \A p \in 1 .. L : accepted'[p] = accepted[p]
      /\ accepted'[L + 1] = size
  BY <1>2, <1>4, <1>5, AppendFacts
<1>8. /\ seg \in Segment /\ seg.packet = L + 1 /\ seg.from = 0 /\ seg.size = size
      /\ seg.status = "FULL_PDU"
  BY <1>3, <1>6, <1>7 DEF Segment
<1>9. PICK n : n = Len(m_packets)
  OBVIOUS
<1>10. /\ n \in Nat /\ DOMAIN m_packets = 1 .. n /\ DOMAIN m_packets' = 1 .. n + 1
       /\ m_packets' \in Seq(Segment) /\ m_packets' # <<>>
       /\ \A k \in 1 .. n : m_packets'[k] = m_packets[k] /\ m_packets[k] \in Segment
       /\ m_packets'[n + 1] = seg
       /\ \A k \in 1 .. n + 1 : k \in 1 .. n \/ k = n + 1
       /\ n # 0 <=> m_packets # <<>>
  <2>1. /\ Len(m_packets) \in Nat
        /\ Len(m_packets) # 0 <=> m_packets # <<>>
    BY <1>4
  <2>2. /\ n \in Nat /\ DOMAIN m_packets = 1 .. n /\ DOMAIN m_packets' = 1 .. n + 1
        /\ m_packets' \in Seq(Segment) /\ m_packets' # <<>>
        /\ \A k \in 1 .. n : m_packets'[k] = m_packets[k]
        /\ m_packets'[n + 1] = seg
    BY <1>4, <1>5, <1>8, <1>9, AppendFacts
  <2>3. \A k \in 1 .. n : m_packets[k] \in Segment
    BY <1>4, <2>2
  <2> QED
    BY <1>9, <2>1, <2>2, <2>3
<1>11. LinkTypeOK'
  <2>1. /\ m_nBytes' \in Int /\ m_nEnqueBytesSinceReset' \in Nat
        /\ damaged \subseteq DOMAIN accepted'
    BY <1>4, <1>5, <1>6, <1>7 DEF LinkTypeOK
  <2> QED
    BY <1>4, <1>5, <1>7, <1>10, <2>1 DEF LinkTypeOK, rxVars, contextVars
<1>12. T' = T /\ M' = M
  BY <1>5 DEF T, M
<1>13. SizesOK'
  BY <1>4, <1>5, <1>6, <1>7, <1>12 DEF SizesOK
<1>14. \A p : PieceOK(p) => PieceOK(p)' /\ p.packet \in 1 .. L
  BY <1>7 DEF PieceOK, End
<1>15. \A p : PduOK(p) => PduOK(p)' /\ p.piece.packet \in 1 .. L
  BY <1>7, <1>12, <1>14 DEF PduOK, PieceOK, IsCut, End
<1>16. QueueOK'
  <2>1. ASSUME NEW k \in DOMAIN m_packets' PROVE SegmentOK(m_packets[k])'
    <3>1. CASE k \in 1 .. n
      <4>1. SegmentOK(m_packets[k]) /\ m_packets'[k] = m_packets[k]
        BY <1>4, <1>10, <3>1 DEF QueueOK
      <4> QED
        BY <1>7, <4>1 DEF SegmentOK, End
    <3>2. CASE k = n + 1
      <4>1. m_packets'[k] = seg
        BY <1>10, <3>2
      <4> QED
        BY <1>6, <1>7, <1>8, <4>1 DEF SegmentOK, End
    <3> QED
      BY <1>10, <3>1, <3>2
  <2>2. ASSUME NEW k \in DOMAIN m_packets', k > 1 PROVE m_packets'[k].status = "FULL_PDU"
    BY <1>4, <1>8, <1>10, <2>2 DEF QueueOK
  <2>3. ASSUME NEW k \in DOMAIN m_packets', NEW l \in DOMAIN m_packets', k < l
        PROVE  m_packets'[k].packet < m_packets'[l].packet
    <3>1. k \in 1 .. n
      BY <1>10, <2>3
    <3>2. m_packets[k].packet \in 1 .. L
      BY <1>4, <1>7, <1>10, <3>1 DEF QueueOK, SegmentOK
    <3>3. CASE l \in 1 .. n
      BY <1>4, <1>10, <2>3, <3>1, <3>3 DEF QueueOK
    <3>4. CASE l = n + 1
      BY <1>7, <1>8, <1>10, <3>1, <3>2, <3>4
    <3> QED
      BY <1>10, <3>3, <3>4
  <2> QED
    BY <2>1, <2>2, <2>3 DEF QueueOK
<1>17. SentRank' = SentRank /\ (RestInFront' <=> RestInFront)
       /\ (RestInFront' => m_packets'[1] = m_packets[1])
  <2>1. CASE m_packets = <<>>
    <3>1. m_packets'[1] = seg
      BY <1>10, <2>1
    <3> QED
      BY <1>5, <1>8, <2>1, <3>1 DEF SentRank, RestInFront
  <2>2. CASE m_packets # <<>>
    <3>1. m_packets'[1] = m_packets[1]
      BY <1>10, <2>2
    <3> QED
      BY <1>5, <1>10, <2>2, <3>1 DEF SentRank, RestInFront
  <2> QED
    BY <2>1, <2>2
<1>18. ASSUME NEW p, NEW m, PduOK(p), BeforeQueue(p, m)
       PROVE  BeforeQueue(p, m)'
  <2>1. p.piece.packet < L + 1
    BY <1>7, <1>15, <1>18
  <2>2. ASSUME NEW k \in DOMAIN m_packets' PROVE Precedes(p.piece, m_packets'[k])
    <3>1. CASE k \in 1 .. n
      BY <1>10, <1>18, <3>1 DEF BeforeQueue
    <3>2. CASE k = n + 1
      BY <1>8, <1>10, <2>1, <3>2 DEF Precedes
    <3> QED
      BY <1>10, <3>1, <3>2
  <2> QED
    BY <1>5, <1>17, <1>18, <2>2 DEF BeforeQueue, RankOut
<1>19. ChannelOK'
  <2>1. channel' = channel
    BY <1>5
  <2>2. ASSUME NEW i \in DOMAIN channel
        PROVE  PduOK(channel[i])' /\ BeforeQueue(channel[i], Len(channel) - i)'
    <3>1. PICK p, m : p = channel[i] /\ m = Len(channel) - i
      OBVIOUS
    <3>2. PduOK(p) /\ BeforeQueue(p, m)
      BY <3>1 DEF Inv, ChannelOK
    <3>3. PduOK(p)' /\ BeforeQueue(p, m)'
      BY <1>15, <1>18, <3>2
    <3> QED
      BY <2>1, <3>1, <3>3
  <2> QED
    BY <2>1, <2>2 DEF Inv, ChannelOK, Follows, Precedes, RankIn, RankOut, IsCut, End
<1>20. /\ Context' = Context /\ LastPdu' = LastPdu /\ lostInRow' = lostInRow
       /\ m_currRxPacketSize' = m_currRxPacketSize /\ channel' = channel
       /\ m_currRxPacketFragmentBytes' = m_currRxPacketFragmentBytes
       /\ delivered' = delivered
  BY <1>5 DEF rxVars, contextVars, Context, LastPdu
<1>21. ContextOK' /\ ContextBefore'
  <2>1. SUFFICES ASSUME Context # <<>> PROVE ContextOK' /\ ContextBefore'
    BY <1>20 DEF ContextOK, ContextBefore
  <2>2. PICK p, m : p = LastPdu /\ m = lostInRow + Len(channel)
    OBVIOUS
  <2>3. PduOK(p) /\ BeforeQueue(p, m)
    BY <2>1, <2>2 DEF Inv, ContextOK, ContextBefore
  <2>4. PduOK(p)' /\ BeforeQueue(p, m)'
    BY <1>15, <1>18, <2>3
  <2>5. ContextBefore'
    BY <1>20, <2>1, <2>2, <2>4
       DEF Inv, ContextBefore, Follows, Precedes, RankIn, RankOut, IsCut, End
  <2>6. Context[1].packet \in 1 .. L
    BY <1>4, <1>15, <2>1, <2>2, <2>3, LastPduType DEF Inv, ContextOK
  <2>7. accepted'[Context[1].packet] = accepted[Context[1].packet]
    BY <1>7, <2>6
  <2>8. Contiguous(Context)' <=> Contiguous(Context)
    BY <1>20 DEF Contiguous, End
  <2>9. End(Context[Len(Context)])' = End(Context[Len(Context)])
    BY <1>20 DEF End
  <2>10. ContextOK'
    BY <1>12, <1>20, <2>1, <2>2, <2>4, <2>7, <2>8, <2>9 DEF Inv, ContextOK
  <2> QED
    BY <2>5, <2>10
<1>22. DeliveredOK'
  <2>1. \A d : PacketOf(d)' = PacketOf(d)
    BY <1>20 DEF PacketOf
  <2>2. ASSUME NEW d \in DOMAIN delivered
        PROVE  /\ PacketOf(d) \in DOMAIN accepted' /\ Whole(delivered[d])'
               /\ \A k \in DOMAIN m_packets' : PacketOf(d) < m_packets'[k].packet
    <3>1. /\ PacketOf(d) \in 1 .. L /\ Whole(delivered[d])
          /\ \A k \in DOMAIN m_packets : PacketOf(d) < m_packets[k].packet
      BY <1>7 DEF Inv, DeliveredOK
    <3>2. \A k \in DOMAIN m_packets' : PacketOf(d) < m_packets'[k].packet
      BY <1>7, <1>8, <1>10, <3>1
    <3>3. accepted'[PacketOf(d)] = accepted[PacketOf(d)]
      BY <1>7, <3>1
    <3>4. Whole(delivered[d])'
      BY <1>20, <3>1, <3>3 DEF Whole, PacketOf
    <3> QED
      BY <1>7, <3>1, <3>2, <3>4
  <2> QED
    BY <1>20, <2>1, <2>2 DEF Inv, DeliveredOK
<1> QED
  BY <1>11, <1>13, <1>16, <1>19, <1>21, <1>22 DEF Inv
-----------------------------------------------------------------------------
(***************************************************************************)
(* Arrival and loss.                                                       *)
(***************************************************************************)
\* The first PDU leaves the link.
Leaves(x) ==
  /\ channel # <<>>
  /\ x = channel[1]
  /\ channel' = Tail(channel)
  /\ UNCHANGED <<encapsulation, txVars>>

\* What the rest of the line looks like from the PDU that leaves it.
LEMMA LeaveStep ==
  ASSUME Inv, NEW x, Leaves(x)
  PROVE  /\ x \in Pdu /\ PduOK(x) /\ Head(channel) = x /\ 1 \in DOMAIN channel
         /\ channel' \in Seq(Pdu) /\ SizesOK' /\ QueueOK' /\ ChannelOK'
         /\ Len(channel') \in Nat /\ Len(channel) = Len(channel') + 1
         /\ \A i \in DOMAIN channel' :
              /\ i \in Nat \ {0} /\ i + 1 \in DOMAIN channel /\ channel'[i] = channel[i + 1]
              /\ channel'[i] \in Pdu /\ PduOK(channel'[i])
              /\ Follows(x, channel'[i], i)
         /\ BeforeQueue(x, Len(channel'))
<1>1. channel \in Seq(Pdu) /\ channel # <<>> /\ channel' = Tail(channel) /\ x = channel[1]
  BY DEF Inv, LinkTypeOK, Leaves
<1>2. PICK n : n = Len(channel)
  OBVIOUS
<1>3. /\ n \in Nat \ {0} /\ DOMAIN channel = 1 .. n /\ DOMAIN channel' = 1 .. n - 1
      /\ Len(channel') = n - 1 /\ channel' \in Seq(Pdu)
      /\ Head(channel) = x /\ x \in Pdu
      /\ \A i \in 1 .. n - 1 : channel'[i] = channel[i + 1]
  BY <1>1, <1>2, TailFacts
<1>4. \A i \in 1 .. n - 1 : i \in Nat \ {0} /\ i + 1 \in 1 .. n /\ (i + 1) - 1 = i /\ 1 < i + 1
                            /\ 1 \in 1 .. n
  BY <1>3
<1>5. \A i \in 1 .. n : PduOK(channel[i]) /\ BeforeQueue(channel[i], n - i) /\ channel[i] \in Pdu
  BY <1>1, <1>2, <1>3 DEF Inv, ChannelOK
<1>6. \A i, j \in 1 .. n : i < j => Follows(channel[i], channel[j], j - i)
  BY <1>3 DEF Inv, ChannelOK
<1>7. 1 \in 1 .. n /\ Len(channel') \in Nat /\ Len(channel) = Len(channel') + 1
  BY <1>2, <1>3
<1>8. PduOK(x) /\ BeforeQueue(x, Len(channel'))
  BY <1>1, <1>3, <1>5, <1>7
<1>9. ASSUME NEW i \in DOMAIN channel'
      PROVE  /\ i \in Nat \ {0} /\ i + 1 \in DOMAIN channel /\ channel'[i] = channel[i + 1]
             /\ channel'[i] \in Pdu /\ PduOK(channel'[i])
             /\ Follows(x, channel'[i], i)
  <2>1. Follows(channel[1], channel[i + 1], (i + 1) - 1)
    BY <1>3, <1>4, <1>6
  <2> QED
    BY <1>1, <1>3, <1>4, <1>5, <2>1
<1>10. UNCHANGED <<encapsulation, accepted, fragmented, m_txFragmentId, m_packets>>
  BY DEF Leaves, txVars, queueVars
<1>11. SizesOK'
  BY <1>10 DEF Inv, SizesOK, T, M
<1>12. QueueOK'
  BY <1>10 DEF Inv, QueueOK, SegmentOK, End
<1>13. SentRank' = SentRank /\ (RestInFront' <=> RestInFront)
  BY <1>10 DEF SentRank, RestInFront
<1>14. \A p : PduOK(p) => PduOK(p)'
  BY <1>10 DEF PduOK, PieceOK, IsCut, End, M, T
<1>15. \A p, m : BeforeQueue(p, m) => BeforeQueue(p, m)'
  BY <1>10, <1>13 DEF BeforeQueue, RankOut, Precedes, End, IsCut
<1>16. ASSUME NEW i \in DOMAIN channel'
       PROVE  PduOK(channel[i])' /\ BeforeQueue(channel[i], Len(channel) - i)'
  <2>1. PICK p : p = channel[i + 1]
    OBVIOUS
  <2>2. channel'[i] = p /\ PduOK(p) /\ BeforeQueue(p, n - (i + 1))
    BY <1>3, <1>4, <1>5, <2>1
  <2>3. n - (i + 1) = Len(channel') - i
    BY <1>3, <1>4
  <2>4. PduOK(p)' /\ BeforeQueue(p, n - (i + 1))'
    BY <1>14, <1>15, <2>2
  <2> QED
    BY <2>2, <2>3, <2>4
<1>17. ASSUME NEW i \in DOMAIN channel', NEW j \in DOMAIN channel', i < j
       PROVE  Follows(channel'[i], channel'[j], j - i)
  <2>1. /\ i + 1 \in 1 .. n /\ j + 1 \in 1 .. n /\ i + 1 < j + 1 /\ (j + 1) - (i + 1) = j - i
        /\ channel'[i] = channel[i + 1] /\ channel'[j] = channel[j + 1]
    BY <1>3, <1>4, <1>17
  <2>2. Follows(channel[i + 1], channel[j + 1], (j + 1) - (i + 1))
    BY <1>6, <2>1
  <2> QED
    BY <2>1, <2>2
<1>18. ChannelOK'
  <2>1. \A i, j \in DOMAIN channel' : i < j => Follows(channel[i], channel[j], j - i)'
    BY <1>17 DEF Follows, Precedes, RankIn, RankOut, IsCut, End
  <2> QED
    BY <1>16, <2>1 DEF ChannelOK
<1> QED
  BY <1>3, <1>7, <1>8, <1>9, <1>11, <1>12, <1>18

\* The line without its first PDU, seen from the one that arrived last.
LEMMA LoseStep ==
  ASSUME Inv, Lose
  PROVE  Inv'
<1>1. PICK x : x = channel[1]
  OBVIOUS
<1>2. Leaves(x) /\ UNCHANGED rxVars /\ lostInRow' = lostInRow + 1 /\ lostInRow < MaxBurst
      /\ damaged' = damaged \cup {Head(channel).piece.packet}
  BY <1>1 DEF Lose, Leaves
<1>3. /\ PduOK(x) /\ channel' \in Seq(Pdu) /\ SizesOK' /\ QueueOK' /\ ChannelOK'
      /\ Head(channel) = x
      /\ Len(channel') \in Nat /\ Len(channel) = Len(channel') + 1
      /\ \A i \in DOMAIN channel' :
           i \in Nat \ {0} /\ i + 1 \in DOMAIN channel /\ channel'[i] = channel[i + 1]
  BY <1>2, LeaveStep
<1>4. /\ Context' = Context /\ LastPdu' = LastPdu /\ delivered' = delivered
      /\ UNCHANGED <<encapsulation, accepted, fragmented, m_txFragmentId, m_packets>>
  BY <1>2 DEF rxVars, contextVars, Context, LastPdu, Leaves, txVars, queueVars
<1>5. lostInRow \in Nat /\ lostInRow' \in 0 .. MaxBurst
  <2>1. lostInRow \in 0 .. MaxBurst
    BY DEF Inv, LinkTypeOK
  <2>2. MaxBurst \in Nat
    BY BurstAssumption
  <2>3. PICK k \in 0 .. MaxBurst : k = lostInRow
    BY <2>1
  <2>4. lostInRow' = k + 1 /\ k < MaxBurst
    BY <1>2, <2>3
  <2> QED BY <2>2, <2>3, <2>4
<1>6. LinkTypeOK'
  <2>1. damaged' \subseteq DOMAIN accepted
    BY <1>2, <1>3 DEF Inv, LinkTypeOK, PduOK, PieceOK
  <2> QED
    BY <1>2, <1>3, <1>5, <2>1
       DEF Inv, LinkTypeOK, Leaves, txVars, queueVars, rxVars, contextVars
<1>7. ContextOK'
  BY <1>2, <1>4, ContextKept DEF Inv
<1>8. ContextBefore'
  <2>1. SUFFICES ASSUME Context # <<>> PROVE ContextBefore'
    BY <1>4 DEF ContextBefore
  <2>2. SentRank' = SentRank /\ (RestInFront' <=> RestInFront)
    BY <1>4 DEF SentRank, RestInFront
  <2>3. BeforeQueue(LastPdu, lostInRow + Len(channel))
    BY <2>1 DEF Inv, ContextBefore
  <2>4. lostInRow' + Len(channel') = lostInRow + Len(channel)
    BY <1>2, <1>3, <1>5
  <2>5. BeforeQueue(LastPdu, lostInRow + Len(channel))'
    BY <1>4, <2>2, <2>3, <2>4 DEF BeforeQueue, RankOut, Precedes, End, IsCut
  <2>6. ASSUME NEW i \in DOMAIN channel' PROVE Follows(LastPdu, channel[i], lostInRow + i)'
    <3>1. Follows(LastPdu, channel[i + 1], lostInRow + (i + 1))
      BY <1>3, <2>1 DEF Inv, ContextBefore
    <3>2. lostInRow' + i = lostInRow + (i + 1) /\ channel'[i] = channel[i + 1]
      BY <1>2, <1>3, <1>5
    <3> QED
      BY <1>4, <3>1, <3>2 DEF Follows, Precedes, RankIn, RankOut, IsCut, End
  <2> QED
    BY <2>5, <2>6 DEF ContextBefore
<1>9. DeliveredOK'
  <2>1. \A d : PacketOf(d)' = PacketOf(d)
    BY <1>4 DEF PacketOf
  <2>2. \A d : Whole(delivered[d])' <=> Whole(delivered[d])
    BY <1>4 DEF Whole
  <2> QED
    BY <1>3, <1>4, <2>1, <2>2 DEF Inv, DeliveredOK
<1> QED
  BY <1>3, <1>6, <1>7, <1>8, <1>9 DEF Inv

\* A fragment with the context's fragment id is of the context's packet, and
\* comes after what is there: too few PDUs were lost for the id to have come
\* round again.
LEMMA SamePacket ==
  ASSUME Inv, NEW x, Leaves(x), Context # <<>>, x.fragmentId = m_currRxFragmentId,
         x.status \in {"CONTINUATION_PDU", "END_PDU"}
  PROVE  /\ x.piece.packet = Context[1].packet
         /\ x.piece.fragmented = Context[1].fragmented
         /\ End(Context[Len(Context)]) <= x.piece.from
<1>1. /\ x \in Pdu /\ PduOK(x) /\ 1 \in DOMAIN channel /\ x = channel[1]
  BY LeaveStep DEF Leaves
<1>2. /\ LastPdu \in Pdu /\ PduOK(LastPdu) /\ LastPdu.piece = Context[Len(Context)]
      /\ LastPdu.fragmentId = m_currRxFragmentId /\ LastPdu.status = "CONTINUATION_PDU"
      /\ Len(Context) \in DOMAIN Context
  <2>1. Len(Context) \in Nat \ {0} /\ DOMAIN Context = 1 .. Len(Context)
    BY LastPduType DEF Inv
  <2> QED
    BY <2>1, LastPduType DEF Inv, ContextOK
<1>3. PICK p : p = LastPdu
  OBVIOUS
<1>4. /\ p \in Pdu /\ PduOK(p) /\ p.piece = Context[Len(Context)]
      /\ p.fragmentId = x.fragmentId /\ IsCut(p) /\ IsCut(x)
  BY <1>2, <1>3 DEF IsCut
<1>5. Follows(p, x, lostInRow + 1)
  BY <1>1, <1>3 DEF Inv, ContextBefore
<1>6. p.piece.fragmented \in Nat /\ x.piece.fragmented \in Nat
  BY <1>1, <1>4 DEF Pdu, Piece
<1>7. /\ lostInRow \in Nat /\ lostInRow <= MaxBurst /\ MaxBurst \in Nat /\ MaxBurst <= 2 * M - 1
      /\ M \in Nat \ {0}
  BY Limits DEF Inv, LinkTypeOK
<1>8. RankIn(x) = 2 * x.piece.fragmented + 1 /\ RankOut(p) = 2 * p.piece.fragmented
  <2>1. RankOut(p) = 2 * p.piece.fragmented + 0
    BY <1>2, <1>3 DEF RankOut
  <2> QED
    BY <1>6, <2>1 DEF RankIn
<1>9. x.piece.fragmented < p.piece.fragmented + M /\ p.piece.fragmented <= x.piece.fragmented
  BY <1>5, <1>6, <1>7, <1>8 DEF Follows
<1>10. p.piece.fragmented % M = x.piece.fragmented % M
  BY <1>1, <1>4 DEF PduOK
<1>11. p.piece.fragmented = x.piece.fragmented
  BY <1>6, <1>7, <1>9, <1>10, SameFragmentId
<1>12. p.piece.packet = x.piece.packet
  BY <1>4, <1>5, <1>11 DEF Follows
<1>13. End(p.piece) <= x.piece.from
  <2>1. p.piece.packet \in Nat /\ x.piece.packet \in Nat
    BY <1>1, <1>4 DEF Pdu, Piece
  <2> QED
    BY <1>5, <1>12, <2>1 DEF Follows, Precedes
<1>14. /\ Context[Len(Context)].packet = Context[1].packet
       /\ Context[Len(Context)].fragmented = Context[1].fragmented
  BY <1>2 DEF Inv, ContextOK
<1> QED
  BY <1>4, <1>11, <1>12, <1>13, <1>14

\* What was delivered stays before the rest when nothing is delivered.
LEMMA NoDelivery ==
  ASSUME Inv, NEW x, Leaves(x), delivered' = delivered,
         Context' # <<>> =>
           \/ Context # <<>> /\ Context'[1].packet = Context[1].packet
           \/ Context'[1].packet = x.piece.packet
  PROVE  DeliveredOK'
<1>1. UNCHANGED <<accepted, m_packets>>
  BY DEF Leaves, txVars, queueVars
<1>2. \A d : PacketOf(d)' = PacketOf(d) /\ (Whole(delivered[d])' <=> Whole(delivered[d]))
  BY <1>1 DEF PacketOf, Whole
<1>3. ASSUME NEW d \in DOMAIN delivered
      PROVE  /\ \A i \in DOMAIN channel' : PacketOf(d) < channel'[i].piece.packet
             /\ Context' # <<>> => PacketOf(d) < Context'[1].packet
  <2>1. /\ \A i \in DOMAIN channel : PacketOf(d) < channel[i].piece.packet
        /\ Context # <<>> => PacketOf(d) < Context[1].packet
    BY DEF Inv, DeliveredOK
  <2>2. x = channel[1] /\ 1 \in DOMAIN channel
    BY LeaveStep DEF Leaves
  <2>3. \A i \in DOMAIN channel' : i + 1 \in DOMAIN channel /\ channel'[i] = channel[i + 1]
    BY LeaveStep
  <2> QED
    BY <2>1, <2>2, <2>3
<1> QED
  BY <1>1, <1>2, <1>3 DEF Inv, DeliveredOK

\* A packet that is delivered whole, with its last PDU, is before the rest.
LEMMA Delivery ==
  ASSUME Inv, NEW x, Leaves(x), NEW pieces, pieces # <<>>, pieces[1].packet = x.piece.packet,
         Whole(pieces), End(x.piece) = accepted[x.piece.packet],
         delivered' = Append(delivered, pieces), pieces \in Seq(Piece), Context' = <<>>
  PROVE  DeliveredOK'
<1>1. UNCHANGED <<accepted, m_packets>>
  BY DEF Leaves, txVars, queueVars
<1>2. PICK n : n = Len(delivered)
  OBVIOUS
<1>3. /\ n \in Nat /\ DOMAIN delivered = 1 .. n /\ DOMAIN delivered' = 1 .. n + 1
      /\ \A d \in 1 .. n : delivered'[d] = delivered[d]
      /\ delivered'[n + 1] = pieces
      /\ \A d \in 1 .. n + 1 : d \in 1 .. n \/ d = n + 1
  <2>1. delivered \in Seq(Seq(Piece))
    BY DEF Inv, LinkTypeOK
  <2> QED
    BY <1>2, <2>1, AppendFacts
<1>4. /\ \A d \in 1 .. n : PacketOf(d)' = PacketOf(d) /\ (Whole(delivered[d])' <=> Whole(delivered[d]))
      /\ PacketOf(n + 1)' = x.piece.packet /\ Whole(delivered[n + 1])'
  <2>1. \A d, p : delivered'[d] = p => (Whole(delivered[d])' <=> Whole(p))
    BY <1>1 DEF Whole
  <2>2. \A d \in 1 .. n : Whole(delivered[d])' <=> Whole(delivered[d])
    BY <1>3, <2>1
  <2>3. Whole(delivered[n + 1])'
    BY <1>3, <2>1
  <2> QED
    BY <1>3, <2>2, <2>3 DEF PacketOf
<1>5. /\ x \in Pdu /\ PduOK(x) /\ x = channel[1] /\ 1 \in DOMAIN channel
      /\ x.piece.packet \in DOMAIN accepted
      /\ x.piece.packet \in Nat /\ End(x.piece) \in Nat
  <2>1. x \in Pdu /\ PduOK(x) /\ x = channel[1] /\ 1 \in DOMAIN channel
    BY LeaveStep DEF Leaves
  <2>2. x.piece.packet \in DOMAIN accepted
    BY <2>1 DEF PduOK, PieceOK
  <2>3. x.piece.packet \in Nat /\ x.piece.from \in Nat /\ x.piece.size \in Nat
    BY <2>1 DEF Pdu, Piece
  <2>4. End(x.piece) \in Nat
    BY <2>3 DEF End
  <2> QED
    BY <2>1, <2>2, <2>3, <2>4
<1>6. ASSUME NEW i \in DOMAIN channel' PROVE x.piece.packet < channel'[i].piece.packet
  <2>1. PICK q : q = channel'[i]
    OBVIOUS
  <2>2. q \in Pdu /\ PduOK(q) /\ Follows(x, q, i)
    BY <2>1, LeaveStep
  <2>3. /\ q.piece.packet \in Nat /\ q.piece.from \in Nat /\ q.piece.size \in Nat
        /\ q.piece.size >= 1 /\ q.piece.from + q.piece.size <= accepted[q.piece.packet]
    BY <2>2 DEF PduOK, PieceOK, Pdu, Piece, End
  <2>4. Precedes(x.piece, q.piece)
    BY <2>2 DEF Follows
  <2>5. ~ (x.piece.packet = q.piece.packet /\ End(x.piece) <= q.piece.from)
    BY <1>5, <2>3
  <2> QED
    BY <2>1, <2>4, <2>5 DEF Precedes
<1>7. ASSUME NEW k \in DOMAIN m_packets PROVE x.piece.packet < m_packets[k].packet
  <2>1. PICK s : s = m_packets[k]
    OBVIOUS
  <2>2. s \in Segment /\ SegmentOK(s)
    <3>1. m_packets \in Seq(Segment)
      BY DEF Inv, LinkTypeOK
    <3>2. m_packets[k] \in Segment
      BY <3>1
    <3> QED
      BY <2>1, <3>2 DEF Inv, QueueOK
  <2>3. /\ s.packet \in Nat /\ s.from \in Nat /\ s.size \in Nat
        /\ s.size >= 1 /\ s.from + s.size = accepted[s.packet]
    BY <2>2 DEF SegmentOK, Segment, End
  <2>4. Precedes(x.piece, s)
    BY <2>1, LeaveStep DEF BeforeQueue
  <2>5. ~ (x.piece.packet = s.packet /\ End(x.piece) <= s.from)
    BY <1>5, <2>3
  <2> QED
    BY <2>1, <2>4, <2>5 DEF Precedes
<1>8. ASSUME NEW d \in 1 .. n
      PROVE  /\ PacketOf(d) < x.piece.packet
             /\ \A i \in DOMAIN channel' : PacketOf(d) < channel'[i].piece.packet
             /\ \A k \in DOMAIN m_packets : PacketOf(d) < m_packets[k].packet
             /\ Whole(delivered[d]) /\ PacketOf(d) \in DOMAIN accepted /\ delivered[d] # <<>>
  <2>1. /\ \A i \in DOMAIN channel : PacketOf(d) < channel[i].piece.packet
        /\ \A k \in DOMAIN m_packets : PacketOf(d) < m_packets[k].packet
        /\ Whole(delivered[d]) /\ PacketOf(d) \in DOMAIN accepted /\ delivered[d] # <<>>
    BY <1>3 DEF Inv, DeliveredOK
  <2>2. \A i \in DOMAIN channel' : i + 1 \in DOMAIN channel /\ channel'[i] = channel[i + 1]
    BY LeaveStep
  <2> QED
    BY <1>5, <2>1, <2>2
<1>9. ASSUME NEW c \in 1 .. n + 1, NEW d \in 1 .. n + 1, c < d
      PROVE  PacketOf(c)' < PacketOf(d)'
  <2>1. c \in 1 .. n
    BY <1>3, <1>9
  <2>2. CASE d \in 1 .. n
    BY <1>3, <1>4, <1>9, <2>1, <2>2 DEF Inv, DeliveredOK
  <2>3. CASE d = n + 1
    BY <1>4, <1>8, <2>1, <2>3
  <2> QED
    BY <1>3, <2>2, <2>3
<1>10. ASSUME NEW d \in 1 .. n + 1
       PROVE  /\ delivered'[d] # <<>> /\ PacketOf(d)' \in DOMAIN accepted' /\ Whole(delivered[d])'
              /\ \A i \in DOMAIN channel' : PacketOf(d)' < channel'[i].piece.packet
              /\ \A k \in DOMAIN m_packets' : PacketOf(d)' < m_packets'[k].packet
  <2>1. CASE d \in 1 .. n
    BY <1>1, <1>3, <1>4, <1>8, <2>1
  <2>2. CASE d = n + 1
    BY <1>1, <1>3, <1>4, <1>5, <1>6, <1>7, <2>2
  <2> QED
    BY <1>3, <2>1, <2>2
<1> QED
  BY <1>3, <1>9, <1>10 DEF DeliveredOK

\* After a fragment was taken in, the line is seen from it.
LEMMA TakenIn ==
  ASSUME Inv, NEW x, Leaves(x), x.status \in {"START_PDU", "CONTINUATION_PDU"},
         Context' # <<>>, Context'[Len(Context')] = x.piece, m_currRxFragmentId' = x.fragmentId,
         lostInRow' = 0
  PROVE  PduOK(LastPdu)' /\ ContextBefore'
<1>1. PICK p : p = LastPdu'
  OBVIOUS
<1>2. /\ p.status = "CONTINUATION_PDU" /\ p.fragmentId = x.fragmentId /\ p.piece = x.piece
      /\ IsCut(p) /\ IsCut(x) /\ RankOut(p) = RankOut(x)
  BY <1>1 DEF LastPdu, IsCut, RankOut
<1>3. /\ x \in Pdu /\ PduOK(x) /\ BeforeQueue(x, Len(channel')) /\ Len(channel') \in Nat
      /\ \A i \in DOMAIN channel' : Follows(x, channel'[i], i) /\ i \in Nat
  BY LeaveStep
<1>4. UNCHANGED <<encapsulation, accepted, fragmented, m_packets>>
  BY DEF Leaves, txVars, queueVars
<1>5. PduOK(p)'
  BY <1>2, <1>3, <1>4 DEF PduOK, PieceOK, IsCut, End, M, T
<1>6. SentRank' = SentRank /\ (RestInFront' <=> RestInFront)
  BY <1>4 DEF SentRank, RestInFront
<1>7. BeforeQueue(p, Len(channel'))
  BY <1>2, <1>3 DEF BeforeQueue
<1>8. PICK m : m = Len(channel')
  OBVIOUS
<1>9. BeforeQueue(p, m)'
  BY <1>4, <1>6, <1>7, <1>8 DEF BeforeQueue, RankOut, Precedes, End, IsCut
<1>10. \A i \in DOMAIN channel' : Follows(p, channel'[i], i)
  BY <1>2, <1>3 DEF Follows
<1>11. 0 + m = m /\ \A i \in DOMAIN channel' : 0 + i = i
  BY <1>3, <1>8
<1>12. ContextBefore'
  BY <1>1, <1>8, <1>9, <1>10, <1>11
     DEF ContextBefore, Follows, Precedes, RankIn, RankOut, IsCut, End
<1> QED
  BY <1>1, <1>5, <1>12

\* What each of the four ways to take in a PDU must leave behind.
ReceptionOK ==
  /\ m_currRxFragmentId' \in 0 .. M - 1
  /\ m_currRxPacketSize' \in Nat /\ m_currRxPacketFragmentBytes' \in Nat
  /\ m_currRxPacketFragment' \in Seq(Piece)
  /\ delivered' \in Seq(Seq(Piece))
  /\ ContextOK' /\ ContextBefore' /\ DeliveredOK'

\* Reset leaves no context.
LEMMA ResetOK ==
  ASSUME Inv, Reset
  PROVE  /\ Context' = <<>> /\ ContextOK' /\ ContextBefore'
         /\ m_currRxFragmentId' \in 0 .. M - 1
         /\ m_currRxPacketSize' \in Nat /\ m_currRxPacketFragmentBytes' \in Nat
         /\ m_currRxPacketFragment' \in Seq(Piece)
<1>1. Context' = <<>>
  BY DEF Reset, Context
<1>2. M \in Nat \ {0}
  BY Limits DEF Inv, LinkTypeOK
<1>3. <<>> \in Seq(Piece)
  OBVIOUS
<1> QED
  BY <1>1, <1>2, <1>3 DEF Reset, ContextOK, ContextBefore

\* A whole packet in one PDU is delivered, and the context dropped.
LEMMA FullReceived ==
  ASSUME Inv, NEW x, Leaves(x), ReceiveFull(x)
  PROVE  ReceptionOK
<1>1. x \in Pdu /\ PduOK(x)
  BY LeaveStep
<1>2. Reset /\ delivered' = Append(delivered, <<x.piece>>) /\ x.status = "FULL_PDU"
  BY DEF ReceiveFull
<1>3. PICK pieces : pieces = <<x.piece>>
  OBVIOUS
<1>4. /\ x.piece \in Piece /\ pieces \in Seq(Piece) /\ pieces # <<>>
      /\ Len(pieces) = 1 /\ pieces[1] = x.piece
  <2>1. x.piece \in Piece
    BY <1>1 DEF Pdu
  <2> QED
    BY <1>3, <2>1
<1>5. x.piece.from = 0 /\ End(x.piece) = accepted[x.piece.packet]
  BY <1>1, <1>2 DEF PduOK
<1>6. Whole(pieces)
  BY <1>4, <1>5 DEF Whole, End
<1>7. delivered' \in Seq(Seq(Piece))
  <2>1. delivered \in Seq(Seq(Piece))
    BY DEF Inv, LinkTypeOK
  <2> QED
    BY <1>2, <1>3, <1>4, <2>1, AppendFacts
<1>8. DeliveredOK'
  BY <1>2, <1>3, <1>4, <1>5, <1>6, ResetOK, Delivery
<1> QED
  BY <1>2, <1>7, <1>8, ResetOK DEF ReceptionOK

\* The first fragment of a packet is a context of its own.
LEMMA StartReceived ==
  ASSUME Inv, NEW x, Leaves(x), lostInRow' = 0, ReceiveStart(x)
  PROVE  ReceptionOK
<1>1. x \in Pdu /\ PduOK(x)
  BY LeaveStep
<1>2. /\ x.status = "START_PDU" /\ m_currRxFragmentId' = x.fragmentId
      /\ m_currRxPacketSize' = x.totalLength /\ Context' = <<x.piece>>
      /\ m_currRxPacketFragment' = <<x.piece>>
      /\ m_currRxPacketFragmentBytes' = x.piece.size /\ delivered' = delivered
  BY DEF ReceiveStart, Context
<1>3. /\ x.piece \in Piece /\ <<x.piece>> \in Seq(Piece) /\ Context' # <<>>
      /\ Len(Context') = 1 /\ Context'[1] = x.piece /\ DOMAIN Context' = {1}
  <2>1. x.piece \in Piece
    BY <1>1 DEF Pdu
  <2> QED
    BY <1>2, <2>1
<1>4. /\ x.piece.fragmented \in Nat /\ x.piece.size \in Nat /\ x.totalLength \in Nat
      /\ x.piece.size >= 1 /\ x.piece.from = 0 /\ x.fragmentId = x.piece.fragmented % M
      /\ x.totalLength = accepted[x.piece.packet] % T
  BY <1>1, <1>2 DEF PduOK, PieceOK, IsCut, Pdu, Piece
<1>5. m_currRxFragmentId' \in 0 .. M - 1
  <2>1. M \in Nat \ {0}
    BY Limits DEF Inv, LinkTypeOK
  <2>2. PICK k \in Int : k = x.piece.fragmented
    BY <1>4
  <2>3. k % M \in 0 .. M - 1
    BY <2>1, DivModType
  <2> QED
    BY <1>2, <1>4, <2>2, <2>3
<1>6. PduOK(LastPdu)' /\ ContextBefore'
  BY <1>2, <1>3, TakenIn
<1>7. UNCHANGED <<encapsulation, accepted>>
  BY DEF Leaves, txVars
<1>8. Contiguous(Context)'
  BY <1>3 DEF Contiguous
<1>9. End(Context[Len(Context)])' = x.piece.size
  BY <1>3, <1>4 DEF End
<1>10. ContextOK'
  BY <1>2, <1>3, <1>4, <1>6, <1>7, <1>8, <1>9 DEF ContextOK, T
<1>11. DeliveredOK'
  BY <1>2, <1>3, NoDelivery
<1>12. delivered' \in Seq(Seq(Piece))
  BY <1>2 DEF Inv, LinkTypeOK
<1> QED
  BY <1>2, <1>3, <1>4, <1>5, <1>6, <1>10, <1>11, <1>12 DEF ReceptionOK

\* A further fragment joins the context, or the context is dropped.
LEMMA ContinuationReceived ==
  ASSUME Inv, NEW x, Leaves(x), lostInRow' = 0, ReceiveContinuation(x)
  PROVE  ReceptionOK
<1>1. x \in Pdu /\ PduOK(x)
  BY LeaveStep
<1>2. x.status = "CONTINUATION_PDU" /\ delivered' = delivered
  BY DEF ReceiveContinuation
<1>3. delivered' \in Seq(Seq(Piece))
  BY <1>2 DEF Inv, LinkTypeOK
<1>4. CASE ~ PreviousFragmentFound(x)
  <2>1. Reset
    BY <1>4 DEF ReceiveContinuation
  <2>2. DeliveredOK'
    BY <1>2, <2>1, ResetOK, NoDelivery
  <2> QED
    BY <1>3, <2>1, <2>2, ResetOK DEF ReceptionOK
<1>5. CASE PreviousFragmentFound(x)
  <2>1. PICK n : n = Len(Context)
    OBVIOUS
  <2>2. /\ Context # <<>> /\ x.fragmentId = m_currRxFragmentId
        /\ Context' = Append(Context, x.piece)
        /\ m_currRxPacketFragment' = Append(Context, x.piece)
        /\ m_currRxPacketFragmentBytes' = m_currRxPacketFragmentBytes + x.piece.size
        /\ UNCHANGED <<m_currRxFragmentId, m_currRxPacketSize>>
    BY <1>5 DEF PreviousFragmentFound, ReceiveContinuation, BytesWith, Context
  <2>3. /\ x.piece \in Piece /\ x.piece.from \in Nat /\ x.piece.size \in Nat
        /\ x.piece.size >= 1
    BY <1>1 DEF Pdu, Piece, PduOK, PieceOK
  <2>4. /\ n \in Nat \ {0} /\ DOMAIN Context = 1 .. n
        /\ DOMAIN Context' = 1 .. n + 1 /\ Len(Context') = n + 1
        /\ Context' \in Seq(Piece) /\ Context' # <<>>
        /\ \A i \in 1 .. n : Context'[i] = Context[i]
        /\ Context'[n + 1] = x.piece
        /\ \A i \in 1 .. n + 1 : i \in 1 .. n \/ i = n + 1
        /\ 1 \in 1 .. n /\ n \in 1 .. n
    <3>1. Context \in Seq(Piece)
      BY DEF Inv, LinkTypeOK, Context
    <3>2. n \in Nat \ {0}
      BY <2>1, <2>2, LastPduType DEF Inv
    <3> HIDE DEF Context
    <3> QED
      BY <2>1, <2>2, <2>3, <3>1, <3>2, AppendFacts
  <2>5. /\ x.piece.packet = Context[1].packet /\ x.piece.fragmented = Context[1].fragmented
        /\ End(Context[n]) <= x.piece.from
    BY <1>2, <2>1, <2>2, SamePacket
  <2>6. PduOK(LastPdu)' /\ ContextBefore'
    BY <1>2, <2>2, <2>4, TakenIn
  <2>7. UNCHANGED <<encapsulation, accepted>>
    BY DEF Leaves, txVars
  <2>8. /\ m_currRxPacketFragmentBytes \in Nat /\ m_currRxPacketFragmentBytes >= 1
        /\ m_currRxPacketFragmentBytes <= End(Context[n])
        /\ m_currRxPacketFragmentBytes = End(Context[n]) => Contiguous(Context)
        /\ Context[1].from = 0 /\ m_currRxPacketSize = accepted[Context[1].packet] % T
        /\ \A i \in 1 .. n : /\ Context[i].packet = Context[1].packet
                             /\ Context[i].fragmented = Context[1].fragmented
    BY <2>1, <2>2, <2>4 DEF Inv, LinkTypeOK, ContextOK
  <2>9. End(Context[n]) \in Nat
    <3>1. Context[n] \in Piece
      BY <2>1, <2>2, LastPduType DEF Inv
    <3> QED
      BY <3>1 DEF Piece, End
  <2>10. End(Context[Len(Context)])' = x.piece.from + x.piece.size
    BY <2>4 DEF End
  <2>11. /\ m_currRxPacketFragmentBytes' \in Nat /\ m_currRxPacketFragmentBytes' >= 1
         /\ m_currRxPacketFragmentBytes' <= End(Context[Len(Context)])'
         /\ m_currRxPacketFragmentBytes' = End(Context[Len(Context)])'
              => m_currRxPacketFragmentBytes = End(Context[n]) /\ End(Context[n]) = x.piece.from
    <3>1. PICK b, e, from, size :
            /\ b = m_currRxPacketFragmentBytes /\ e = End(Context[n])
            /\ from = x.piece.from /\ size = x.piece.size
      OBVIOUS
    <3>2. b \in Nat /\ b >= 1 /\ b <= e
      BY <2>8, <3>1
    <3>3. e \in Nat /\ e <= from /\ from \in Nat /\ size \in Nat
      BY <2>3, <2>5, <2>9, <3>1
    <3>4. m_currRxPacketFragmentBytes' = b + size /\ End(Context[Len(Context)])' = from + size
      BY <2>2, <2>10, <3>1
    <3>5. /\ b + size \in Nat /\ b + size >= 1 /\ b + size <= from + size
          /\ b + size = from + size => b = e /\ e = from
      BY <3>2, <3>3
    <3> QED
      BY <3>1, <3>4, <3>5
  <2>12. m_currRxPacketFragmentBytes' = End(Context[Len(Context)])' => Contiguous(Context)'
    <3> SUFFICES ASSUME m_currRxPacketFragmentBytes' = End(Context[Len(Context)])',
                        NEW i \in 1 .. n
                 PROVE  Context'[i + 1].from = Context'[i].from + Context'[i].size
      BY <2>4 DEF Contiguous, End
    <3>1. Contiguous(Context) /\ End(Context[n]) = x.piece.from
      BY <2>8, <2>11
    <3>2. CASE i = n
      BY <2>4, <3>1, <3>2 DEF End
    <3>3. CASE i # n
      <4>1. i \in 1 .. n - 1 /\ i + 1 \in 1 .. n
        BY <2>4, <3>3
      <4> QED
        BY <2>1, <2>4, <3>1, <4>1 DEF Contiguous, End
    <3> QED
      BY <3>2, <3>3
  <2>13. \A i \in 1 .. n + 1 : /\ Context'[i].packet = Context'[1].packet
                               /\ Context'[i].fragmented = Context'[1].fragmented
    BY <2>4, <2>5, <2>8
  <2>14. /\ Context'[1].from = 0 /\ Context'[1].packet = Context[1].packet
         /\ m_currRxPacketSize' = accepted'[Context'[1].packet] % T'
    BY <2>2, <2>4, <2>7, <2>8 DEF T
  <2>15. ContextOK'
    BY <2>4, <2>6, <2>11, <2>12, <2>13, <2>14 DEF ContextOK
  <2>16. DeliveredOK'
    BY <1>2, <2>2, <2>14, NoDelivery
  <2>17. m_currRxFragmentId' \in 0 .. M - 1 /\ m_currRxPacketSize' \in Nat
    BY <2>2 DEF Inv, LinkTypeOK, M
  <2>18. m_currRxPacketFragment' \in Seq(Piece)
    BY <2>2, <2>4
  <2> QED
    BY <1>3, <2>6, <2>11, <2>15, <2>16, <2>17, <2>18 DEF ReceptionOK
<1> QED
  BY <1>4, <1>5

\* The last fragment makes the packet whole, or the context is dropped.
LEMMA EndReceived ==
  ASSUME Inv, NEW x, Leaves(x), ReceiveEnd(x)
  PROVE  ReceptionOK
<1>1. x \in Pdu /\ PduOK(x)
  BY LeaveStep
<1>2. x.status = "END_PDU" /\ Reset
  BY DEF ReceiveEnd
<1>3. SUFFICES delivered' \in Seq(Seq(Piece)) /\ DeliveredOK'
  BY <1>2, ResetOK DEF ReceptionOK
<1>4. delivered \in Seq(Seq(Piece))
  BY DEF Inv, LinkTypeOK
<1>5. CASE ~ Completes(x)
  <2>1. delivered' = delivered
    BY <1>5 DEF ReceiveEnd
  <2> QED
    BY <1>2, <1>4, <2>1, ResetOK, NoDelivery
<1>6. CASE Completes(x)
  <2>1. PICK n : n = Len(Context)
    OBVIOUS
  <2>2. PICK pieces : pieces = Append(Context, x.piece)
    OBVIOUS
  <2>3. /\ Context # <<>> /\ x.fragmentId = m_currRxFragmentId
        /\ m_currRxPacketFragmentBytes + x.piece.size = m_currRxPacketSize
        /\ delivered' = Append(delivered, pieces)
    BY <1>6, <2>2 DEF Completes, PreviousFragmentFound, ReceiveEnd, BytesWith, Context
  <2>4. /\ x.piece \in Piece /\ x.piece.from \in Nat /\ x.piece.size \in Nat
        /\ x.piece.size >= 1 /\ x.piece.packet \in DOMAIN accepted
        /\ x.piece.from + x.piece.size = accepted[x.piece.packet]
        /\ End(x.piece) = accepted[x.piece.packet]
    BY <1>1, <1>2 DEF Pdu, Piece, PduOK, PieceOK, End
  <2>5. /\ n \in Nat \ {0} /\ DOMAIN Context = 1 .. n
        /\ Len(pieces) = n + 1 /\ pieces \in Seq(Piece) /\ pieces # <<>>
        /\ \A i \in 1 .. n : pieces[i] = Context[i]
        /\ pieces[n + 1] = x.piece
        /\ 1 \in 1 .. n /\ n \in 1 .. n /\ (n + 1) - 1 = n
        /\ \A i \in 1 .. n : i = n \/ (i \in 1 .. n - 1 /\ i + 1 \in 1 .. n)
    <3>1. Context \in Seq(Piece)
      BY DEF Inv, LinkTypeOK, Context
    <3>2. n \in Nat \ {0}
      BY <2>1, <2>3, LastPduType DEF Inv
    <3> HIDE DEF Context
    <3> QED
      BY <2>1, <2>2, <2>4, <3>1, <3>2, AppendFacts
  <2>6. /\ x.piece.packet = Context[1].packet
        /\ End(Context[n]) <= x.piece.from
    BY <1>2, <2>1, <2>3, SamePacket
  <2>7. /\ m_currRxPacketFragmentBytes \in Nat /\ m_currRxPacketFragmentBytes >= 1
        /\ m_currRxPacketFragmentBytes <= End(Context[n])
        /\ m_currRxPacketFragmentBytes = End(Context[n]) => Contiguous(Context)
        /\ Context[1].from = 0 /\ m_currRxPacketSize = accepted[Context[1].packet] % T
        /\ \A i \in 1 .. n : Context[i].packet = Context[1].packet
    BY <2>1, <2>3, <2>5 DEF Inv, LinkTypeOK, ContextOK
  <2>8. accepted[x.piece.packet] \in 1 .. T /\ T \in Nat \ {0}
    BY <2>4, Limits DEF Inv, SizesOK, LinkTypeOK
  <2>9. m_currRxPacketSize = accepted[x.piece.packet] % T
    BY <2>6, <2>7
  <2>10. m_currRxPacketSize = accepted[x.piece.packet]
    <3>1. m_currRxPacketSize >= 2
      BY <2>3, <2>4, <2>7
    <3>2. CASE accepted[x.piece.packet] = T
      <4>1. 1 * T + 0 = T /\ 0 \in 0 .. T - 1
        BY <2>8
      <4>2. (1 * T + 0) % T = 0
        BY <2>8, <4>1, DivModUnique
      <4> QED
        BY <2>9, <3>1, <3>2, <4>1, <4>2
    <3>3. CASE accepted[x.piece.packet] # T
      <4>1. accepted[x.piece.packet] \in 0 .. T - 1
        BY <2>8, <3>3
      <4> QED
        BY <2>8, <2>9, <4>1, ModSmall
    <3> QED
      BY <3>2, <3>3
  <2>11. End(Context[n]) \in Nat
    <3>1. Context[n] \in Piece
      BY <2>1, <2>3, LastPduType DEF Inv
    <3> QED
      BY <3>1 DEF Piece, End
  <2>12. m_currRxPacketFragmentBytes = End(Context[n]) /\ End(Context[n]) = x.piece.from
    BY <2>3, <2>4, <2>6, <2>7, <2>10, <2>11
  <2>13. ASSUME NEW i \in 1 .. n
         PROVE  /\ pieces[i + 1].packet = pieces[1].packet
                /\ pieces[i + 1].from = pieces[i].from + pieces[i].size
    <3>1. CASE i = n
      BY <2>5, <2>6, <2>7, <2>12, <3>1 DEF End
    <3>2. CASE i \in 1 .. n - 1 /\ i + 1 \in 1 .. n
      BY <2>1, <2>5, <2>7, <2>12, <3>2 DEF Contiguous, End
    <3> QED
      BY <2>5, <3>1, <3>2
  <2>14. pieces[1].packet = x.piece.packet /\ pieces[1].from = 0
    BY <2>5, <2>6, <2>7
  <2>15. Whole(pieces)
    BY <2>4, <2>5, <2>13, <2>14 DEF Whole
  <2>16. DeliveredOK'
    BY <1>2, <2>3, <2>4, <2>5, <2>14, <2>15, ResetOK, Delivery
  <2>17. delivered' \in Seq(Seq(Piece))
    BY <1>4, <2>3, <2>5, AppendFacts
  <2> QED
    BY <2>16, <2>17
<1> QED
  BY <1>5, <1>6

\* Whatever arrives, the invariant holds.
LEMMA ArriveStep ==
  ASSUME Inv, Arrive
  PROVE  Inv'
<1>1. PICK x : x = channel[1]
  OBVIOUS
<1>2. /\ channel # <<>> /\ channel' = Tail(channel) /\ ProcessPdu(Head(channel))
      /\ UNCHANGED <<encapsulation, txVars>> /\ lostInRow' = 0 /\ damaged' = damaged
  BY DEF Arrive, ProcessPdu
<1>3. Leaves(x)
  BY <1>1, <1>2 DEF Leaves
<1>4. /\ Head(channel) = x /\ channel' \in Seq(Pdu)
      /\ SizesOK' /\ QueueOK' /\ ChannelOK'
  BY <1>3, LeaveStep
<1>5. \/ ReceiveFull(x) \/ ReceiveStart(x) \/ ReceiveContinuation(x) \/ ReceiveEnd(x)
  BY <1>2, <1>4 DEF ProcessPdu
<1>6. ReceptionOK
  BY <1>2, <1>3, <1>5, FullReceived, StartReceived, ContinuationReceived, EndReceived
<1>7. LinkTypeOK'
  <2>1. lostInRow' \in 0 .. MaxBurst
    BY <1>2, Limits DEF Inv, LinkTypeOK
  <2>2. m_currRxFragmentId' \in 0 .. encapsulation'.maxFragmentId - 1
    BY <1>2, <1>6 DEF ReceptionOK, M
  <2> QED
    BY <1>2, <1>4, <1>6, <2>1, <2>2 DEF Inv, LinkTypeOK, ReceptionOK, txVars, queueVars
<1> QED
  BY <1>4, <1>6, <1>7 DEF Inv, ReceptionOK

\* Whatever an opportunity sends, the invariant holds.
LEMMA NotifyStep ==
  ASSUME Inv, NEW bytes \in TxOpportunities, NotifyTxOpportunity(bytes)
  PROVE  Inv'
<1>1. LinkTypeOK /\ SizesOK /\ QueueOK
  BY DEF Inv
<1>2. CASE SendRest(bytes) /\ channel' = Append(channel, RestPdu)
  <2>1. PICK x : x = RestPdu
    OBVIOUS
  <2>2. /\ UNCHANGED <<encapsulation, accepted, rxVars, lostInRow, damaged, fragmented,
                       m_txFragmentId, m_nEnqueBytesSinceReset, nBytesAtReset>>
    BY <1>2 DEF NotifyTxOpportunity, SendRest, Dequeue
  <2>3. /\ Sends(x) /\ PduOK(x) /\ m_packets' \in Seq(Segment)
        /\ m_nBytes' \in Int /\ m_nDequeBytesSinceReset' \in Nat
        /\ SizesOK' /\ QueueOK'
    BY <1>1, <1>2, <2>1, RestIsSent
  <2>4. fragmented' \in Nat
    BY <1>1, <2>2 DEF LinkTypeOK
  <2>5. channel' \in Seq(Pdu) /\ ChannelOK' /\ ContextOK' /\ ContextBefore' /\ DeliveredOK'
    BY <1>2, <2>1, <2>2, <2>3, <2>4, SendStep
  <2>6. LinkTypeOK'
    BY <1>1, <2>2, <2>3, <2>5 DEF LinkTypeOK, rxVars, contextVars
  <2> QED
    BY <2>3, <2>5, <2>6 DEF Inv
<1>3. CASE SendFragment(bytes) /\ channel' = Append(channel, FragmentPdu(bytes))
  <2>1. PICK x : x = FragmentPdu(bytes)
    OBVIOUS
  <2>2. /\ UNCHANGED <<encapsulation, accepted, rxVars, lostInRow, damaged,
                       m_nEnqueBytesSinceReset, nBytesAtReset>>
    BY <1>3 DEF NotifyTxOpportunity, SendFragment, DequeueAndPushFront
  <2>3. /\ Sends(x) /\ PduOK(x) /\ m_packets' \in Seq(Segment)
        /\ m_nBytes' \in Int /\ m_nDequeBytesSinceReset' \in Nat
        /\ SizesOK' /\ QueueOK' /\ m_txFragmentId' \in 0 .. M - 1 /\ fragmented' \in Nat
    BY <1>1, <1>3, <2>1, FragmentIsSent
  <2>4. channel' \in Seq(Pdu) /\ ChannelOK' /\ ContextOK' /\ ContextBefore' /\ DeliveredOK'
    BY <1>3, <2>1, <2>2, <2>3, SendStep
  <2>5. LinkTypeOK'
    BY <1>1, <2>2, <2>3, <2>4 DEF LinkTypeOK, rxVars, contextVars, M
  <2> QED
    BY <2>3, <2>4, <2>5 DEF Inv
<1> QED
  BY <1>2, <1>3 DEF NotifyTxOpportunity

\* The invariant does not look at what the statistics count.
LEMMA UncountedStep ==
  ASSUME Inv, LinkTypeOK',
         UNCHANGED <<encapsulation, accepted, fragmented, m_txFragmentId, m_packets, rxVars,
                     channel, lostInRow>>
  PROVE  Inv'
<1>1. SizesOK'
  BY DEF Inv, SizesOK, T, M
<1>2. QueueOK'
  BY DEF Inv, QueueOK, SegmentOK, End
<1>3. SentRank' = SentRank /\ (RestInFront' <=> RestInFront)
  BY DEF SentRank, RestInFront
<1>4. \A p : PduOK(p) => PduOK(p)'
  BY DEF PduOK, PieceOK, IsCut, End, M, T
<1>5. \A p, m : BeforeQueue(p, m) => BeforeQueue(p, m)'
  BY <1>3 DEF BeforeQueue, RankOut, Precedes, End, IsCut
<1>6. ChannelOK'
  <2>1. ASSUME NEW i \in DOMAIN channel
        PROVE  PduOK(channel[i])' /\ BeforeQueue(channel[i], Len(channel) - i)'
    <3>1. PICK p, m : p = channel[i] /\ m = Len(channel) - i
      OBVIOUS
    <3>2. PduOK(p) /\ BeforeQueue(p, m)
      BY <3>1 DEF Inv, ChannelOK
    <3>3. PduOK(p)' /\ BeforeQueue(p, m)'
      BY <1>4, <1>5, <3>2
    <3> QED
      BY <3>1, <3>3
  <2> QED
    BY <2>1 DEF Inv, ChannelOK, Follows, Precedes, RankIn, RankOut, IsCut, End
<1>7. ContextOK'
  BY ContextKept DEF Inv
<1>8. Context' = Context /\ LastPdu' = LastPdu /\ delivered' = delivered
  BY DEF rxVars, contextVars, Context, LastPdu
<1>9. ContextBefore'
  <2>1. SUFFICES ASSUME Context # <<>> PROVE ContextBefore'
    BY <1>8 DEF ContextBefore
  <2>2. PICK p, m : p = LastPdu /\ m = lostInRow + Len(channel)
    OBVIOUS
  <2>3. BeforeQueue(p, m)
    BY <2>1, <2>2 DEF Inv, ContextBefore
  <2>4. BeforeQueue(p, m)'
    BY <1>5, <2>3
  <2> QED
    BY <1>8, <2>1, <2>2, <2>4
       DEF Inv, ContextBefore, Follows, Precedes, RankIn, RankOut, IsCut, End
<1>10. DeliveredOK'
  <2>1. \A d : PacketOf(d)' = PacketOf(d)
    BY <1>8 DEF PacketOf
  <2>2. \A d : Whole(delivered[d])' <=> Whole(delivered[d])
    BY <1>8 DEF Whole
  <2> QED
    BY <1>8, <2>1, <2>2 DEF Inv, DeliveredOK
<1> QED
  BY <1>1, <1>2, <1>6, <1>7, <1>9, <1>10 DEF Inv
-----------------------------------------------------------------------------
\* The invariant holds of a new connection.
LEMMA InvInit == LinkInit => Inv
<1> SUFFICES ASSUME LinkInit PROVE Inv
  OBVIOUS
<1>1. /\ m_packets = <<>> /\ channel = <<>> /\ delivered = <<>> /\ accepted = <<>>
      /\ m_currRxPacketFragment = <<>>
      /\ m_nBytes = 0 /\ m_nEnqueBytesSinceReset = 0 /\ m_nDequeBytesSinceReset = 0
      /\ nBytesAtReset = 0 /\ fragmented = 0 /\ m_txFragmentId = 0 /\ m_currRxFragmentId = 0
      /\ m_currRxPacketSize = 0 /\ m_currRxPacketFragmentBytes = 0
      /\ lostInRow = 0 /\ damaged = {} /\ encapsulation \in Encapsulations
  BY DEF LinkInit, EncapsulatorInit, QueueInit
<1>2. M \in Nat \ {0} /\ MaxBurst \in Nat
  BY <1>1, Limits
<1>3. 0 \in 0 .. M - 1 /\ 0 \in 0 .. MaxBurst /\ 0 % M = 0
  <2>1. 0 \in 0 .. M - 1
    BY <1>2
  <2> QED
    BY <1>2, <2>1, ModSmall
<1>4. /\ <<>> \in Seq(Segment) /\ <<>> \in Seq(PacketSizes) /\ <<>> \in Seq(Piece)
      /\ <<>> \in Seq(Seq(Piece)) /\ <<>> \in Seq(Pdu) /\ DOMAIN <<>> = {}
  OBVIOUS
<1>5. LinkTypeOK
  BY <1>1, <1>3, <1>4 DEF LinkTypeOK, M
<1>6. SizesOK /\ QueueOK /\ ChannelOK /\ ContextOK /\ ContextBefore /\ DeliveredOK
  BY <1>1, <1>3, <1>4
     DEF SizesOK, QueueOK, ChannelOK, ContextOK, ContextBefore, DeliveredOK, Context
<1> QED
  BY <1>5, <1>6 DEF Inv

\* The invariant is inductive.
LEMMA InvStep == Inv /\ [LinkNext]_linkVars => Inv'
<1> SUFFICES ASSUME Inv, [LinkNext]_linkVars PROVE Inv'
  OBVIOUS
<1>1. CASE Enque
  BY <1>1, EnqueStep
<1>2. ASSUME NEW bytes \in TxOpportunities, NotifyTxOpportunity(bytes) PROVE Inv'
  BY <1>2, NotifyStep
<1>3. CASE Arrive
  BY <1>3, ArriveStep
<1>4. CASE Lose
  BY <1>4, LoseStep
<1>5. CASE ReadStatistics
  <2>1. /\ UNCHANGED <<encapsulation, accepted, fragmented, m_txFragmentId, m_packets, rxVars,
                       channel, lostInRow, damaged, m_nBytes>>
        /\ m_nEnqueBytesSinceReset' = 0 /\ m_nDequeBytesSinceReset' = 0
        /\ nBytesAtReset' = m_nBytes
    BY <1>5 DEF ReadStatistics, GetQueueStatistics
  <2>2. LinkTypeOK'
    BY <2>1 DEF Inv, LinkTypeOK, rxVars, contextVars
  <2> QED
    BY <2>1, <2>2, UncountedStep
<1>6. CASE UNCHANGED linkVars
  <2>1. UNCHANGED <<encapsulation, accepted, fragmented, m_txFragmentId, m_packets, rxVars,
                    channel, lostInRow, damaged, m_nBytes, m_nEnqueBytesSinceReset,
                    m_nDequeBytesSinceReset, nBytesAtReset>>
    BY <1>6 DEF linkVars, txVars, queueVars
  <2>2. LinkTypeOK'
    BY <2>1 DEF Inv, LinkTypeOK, rxVars, contextVars
  <2> QED
    BY <2>1, <2>2, UncountedStep
<1> QED
  BY <1>1, <1>2, <1>3, <1>4, <1>5, <1>6 DEF LinkNext

\* Every state of a connection satisfies the invariant.
THEOREM LinkInvariant == LinkSpec => []Inv
<1> QED
  BY InvInit, InvStep, PTL DEF LinkSpec

\* The state of both encapsulators and of the link between them has its type.
THEOREM LinkTypeCorrect == LinkSpec => []LinkTypeOK
<1>1. Inv => LinkTypeOK
  BY DEF Inv
<1> QED
  BY <1>1, LinkInvariant, PTL

\* Whatever fits the length field and whatever is lost in bursts shorter than
\* a cycle of fragment ids, ProcessPdu gives m_rxCallback whole packets only.
THEOREM PacketsAreWhole == LinkSpec => []WholePackets
<1>1. Inv => WholePackets
  BY DEF Inv, DeliveredOK, WholePackets
<1> QED
  BY <1>1, LinkInvariant, PTL


\* The statistics the request manager reads account for the queue's growth,
\* however often segments are cut and their rests pushed back.
THEOREM StatisticsAccount == LinkSpec => []StatisticsBalance
<1>1. LinkInit => StatisticsBalance
  BY DEF LinkInit, EncapsulatorInit, QueueInit, StatisticsBalance
<1>2. Inv /\ StatisticsBalance /\ [LinkNext]_linkVars => StatisticsBalance'
  <2> SUFFICES ASSUME Inv, StatisticsBalance, [LinkNext]_linkVars PROVE StatisticsBalance'
    OBVIOUS
  <2>1. /\ LinkTypeOK /\ QueueOK
        /\ m_nBytes \in Int /\ nBytesAtReset \in Int
        /\ m_nEnqueBytesSinceReset \in Int /\ m_nDequeBytesSinceReset \in Int
        /\ m_nBytes = nBytesAtReset + m_nEnqueBytesSinceReset - m_nDequeBytesSinceReset
    BY DEF Inv, LinkTypeOK, StatisticsBalance
  <2>2. CASE Enque
    <3>1. PICK size \in PacketSizes :
            /\ m_nBytes' = m_nBytes + size /\ nBytesAtReset' = nBytesAtReset
            /\ m_nEnqueBytesSinceReset' = m_nEnqueBytesSinceReset + size
            /\ m_nDequeBytesSinceReset' = m_nDequeBytesSinceReset
      BY <2>2 DEF Enque, EnquePdu, Enqueue
    <3>2. size \in Int
      BY EncapsulationAssumption
    <3> QED
      BY <2>1, <3>1, <3>2 DEF StatisticsBalance
  <2>3. ASSUME NEW bytes \in TxOpportunities, SendRest(bytes)
        PROVE  StatisticsBalance'
    <3>1. PICK size : size = Head(m_packets).size
      OBVIOUS
    <3>2. /\ m_packets # <<>> /\ m_nBytes' = m_nBytes - size /\ nBytesAtReset' = nBytesAtReset
          /\ m_nEnqueBytesSinceReset' = m_nEnqueBytesSinceReset
          /\ m_nDequeBytesSinceReset' = m_nDequeBytesSinceReset + size
      BY <2>3, <3>1 DEF SendRest, Dequeue
    <3>3. size \in Int
      BY <2>1, <3>1, <3>2, FrontOfQueue
    <3> QED
      BY <2>1, <3>2, <3>3 DEF StatisticsBalance
  <2>4. ASSUME NEW bytes \in TxOpportunities, SendFragment(bytes)
        PROVE  StatisticsBalance'
    <3>1. PICK segment : segment = Head(m_packets)
      OBVIOUS
    <3>2. PICK payload : payload = MaxPayload(bytes, SizingStatus(segment.status))
      OBVIOUS
    <3>3. PICK size, left : size = segment.size /\ left = segment.size - payload
      OBVIOUS
    <3>4. /\ m_packets # <<>> /\ bytes > encapsulation.header[SizingStatus(segment.status)]
          /\ m_nBytes' = m_nBytes - size + left
          /\ nBytesAtReset' = nBytesAtReset
          /\ m_nEnqueBytesSinceReset' = m_nEnqueBytesSinceReset
          /\ m_nDequeBytesSinceReset' = m_nDequeBytesSinceReset + size - left
      BY <2>4, <3>1, <3>2, <3>3 DEF SendFragment, DequeueAndPushFront
    <3>5. size \in Int /\ segment.status \in {"FULL_PDU", "END_PDU"}
      BY <2>1, <3>1, <3>3, <3>4, FrontOfQueue
    <3>6. payload \in Nat \ {0}
      BY <2>1, <3>2, <3>4, <3>5, PayloadFits DEF LinkTypeOK
    <3>7. left \in Int
      BY <3>3, <3>5, <3>6
    <3> QED
      BY <2>1, <3>4, <3>5, <3>7 DEF StatisticsBalance
  <2>5. CASE ReadStatistics
    BY <2>1, <2>5 DEF ReadStatistics, GetQueueStatistics, StatisticsBalance
  <2>6. CASE UNCHANGED queueVars
    BY <2>1, <2>6 DEF queueVars, StatisticsBalance
  <2>7. Arrive => UNCHANGED queueVars
    BY DEF Arrive, ProcessPdu, txVars
  <2>8. Lose => UNCHANGED queueVars
    BY DEF Lose, txVars
  <2>9. UNCHANGED linkVars => UNCHANGED queueVars
    BY DEF linkVars, txVars
  <2>10. ASSUME NEW bytes \in TxOpportunities, NotifyTxOpportunity(bytes)
         PROVE  StatisticsBalance'
    BY <2>3, <2>4, <2>10 DEF NotifyTxOpportunity
  <2> QED
    BY <2>2, <2>5, <2>6, <2>7, <2>8, <2>9, <2>10 DEF LinkNext
<1> QED
  BY <1>1, <1>2, LinkInvariant, PTL DEF LinkSpec
-----------------------------------------------------------------------------
(* The byte count of the queue, a sum over the queue. *)

SizesOf(packets) == [i \in DOMAIN packets |-> packets[i].size]

\* A tail, entry by entry.
LEMMA TailOf ==
  ASSUME NEW s \in Seq(Int), s # <<>>
  PROVE  Tail(s) = [i \in 1 .. Len(s) - 1 |-> s[i + 1]]
<1>1. PICK t : t = Tail(s)
  OBVIOUS
<1>2. /\ t \in Seq(Int) /\ Len(t) = Len(s) - 1
      /\ \A i \in 1 .. Len(s) - 1 : t[i] = s[i + 1]
  BY <1>1
<1>3. t \in [1 .. Len(t) -> Int]
  BY <1>2
<1>4. t = [i \in 1 .. Len(s) - 1 |-> t[i]]
  BY <1>2, <1>3
<1> QED BY <1>1, <1>2, <1>4

\* The sizes of a queue that grows, shrinks, or has its front replaced.
LEMMA SizesOfQueue ==
  ASSUME NEW q \in Seq(Segment)
  PROVE  /\ SizesOf(q) \in Seq(Int)
         /\ \A s \in Segment : SizesOf(Append(q, s)) = Append(SizesOf(q), s.size)
         /\ q # <<>> =>
              /\ SizesOf(q) # <<>> /\ Head(SizesOf(q)) = Head(q).size
              /\ SizesOf(Tail(q)) = Tail(SizesOf(q))
              /\ \A s \in Segment :
                   LET r == <<s>> \o Tail(q)
                   IN  /\ SizesOf(r) \in Seq(Int) /\ SizesOf(r) # <<>>
                       /\ Head(SizesOf(r)) = s.size /\ Tail(SizesOf(r)) = Tail(SizesOf(q))
<1>a. \A s \in Segment : s.size \in Int
  BY DEF Segment
<1>1. /\ Len(q) \in Nat /\ DOMAIN q = 1 .. Len(q)
      /\ \A i \in 1 .. Len(q) : q[i] \in Segment /\ q[i].size \in Int
  BY <1>a
<1>2. SizesOf(q) \in Seq(Int) /\ Len(SizesOf(q)) = Len(q) /\ \A i \in 1 .. Len(q) : SizesOf(q)[i] = q[i].size
  BY <1>1 DEF SizesOf
<1>3. ASSUME NEW s \in Segment PROVE SizesOf(Append(q, s)) = Append(SizesOf(q), s.size)
  <2>1. /\ Append(q, s) \in Seq(Segment) /\ Len(Append(q, s)) = Len(q) + 1
        /\ \A i \in 1 .. Len(q) : Append(q, s)[i] = q[i]
        /\ Append(q, s)[Len(q) + 1] = s
    BY <1>1
  <2>2. /\ DOMAIN SizesOf(Append(q, s)) = 1 .. Len(q) + 1
        /\ \A i \in 1 .. Len(q) : SizesOf(Append(q, s))[i] = q[i].size
        /\ SizesOf(Append(q, s))[Len(q) + 1] = s.size
    BY <1>1, <2>1 DEF SizesOf
  <2>3. s.size \in Int
    BY DEF Segment
  <2>4. /\ DOMAIN Append(SizesOf(q), s.size) = 1 .. Len(q) + 1
        /\ \A i \in 1 .. Len(q) : Append(SizesOf(q), s.size)[i] = q[i].size
        /\ Append(SizesOf(q), s.size)[Len(q) + 1] = s.size
    BY <1>1, <1>2, <2>3
  <2>5. /\ SizesOf(Append(q, s)) = [i \in 1 .. Len(q) + 1 |-> SizesOf(Append(q, s))[i]]
        /\ Append(SizesOf(q), s.size) = [i \in 1 .. Len(q) + 1 |-> Append(SizesOf(q), s.size)[i]]
    BY <2>2, <2>4, <1>2, <2>3 DEF SizesOf
  <2>6. \A i \in 1 .. Len(q) + 1 : SizesOf(Append(q, s))[i] = Append(SizesOf(q), s.size)[i]
    <3>1. \A i \in 1 .. Len(q) + 1 : i \in 1 .. Len(q) \/ i = Len(q) + 1
      BY <1>1
    <3> QED BY <2>2, <2>4, <3>1
  <2> QED BY <2>5, <2>6
<1>4. ASSUME q # <<>>
      PROVE  /\ SizesOf(q) # <<>> /\ Head(SizesOf(q)) = Head(q).size
             /\ SizesOf(Tail(q)) = Tail(SizesOf(q))
  <2>1. Len(q) >= 1 /\ Head(q) = q[1] /\ Len(Tail(q)) = Len(q) - 1
    BY <1>1, <1>4
  <2>2. SizesOf(q) # <<>> /\ Head(SizesOf(q)) = SizesOf(q)[1]
    BY <1>2, <2>1
  <2>3. SizesOf(Tail(q)) = [i \in 1 .. Len(q) - 1 |-> q[i + 1].size]
    BY <1>1, <1>4, <2>1 DEF SizesOf
  <2>4. Tail(SizesOf(q)) = [i \in 1 .. Len(q) - 1 |-> q[i + 1].size]
    <3>1. Tail(SizesOf(q)) = [i \in 1 .. Len(q) - 1 |-> SizesOf(q)[i + 1]]
      BY <1>2, <2>1, <2>2, TailOf
    <3>2. \A i \in 1 .. Len(q) - 1 : SizesOf(q)[i + 1] = q[i + 1].size
      BY <1>1, <1>2
    <3> QED BY <3>1, <3>2
  <2> QED BY <1>1, <1>2, <2>1, <2>2, <2>3, <2>4, SMTT(30)
<1>5. ASSUME q # <<>>, NEW s \in Segment, NEW r, r = <<s>> \o Tail(q)
      PROVE  /\ SizesOf(r) \in Seq(Int) /\ SizesOf(r) # <<>>
             /\ Head(SizesOf(r)) = s.size /\ Tail(SizesOf(r)) = Tail(SizesOf(q))
  <2>1. /\ r \in Seq(Segment) /\ Len(r) = Len(q) /\ r[1] = s /\ DOMAIN r = 1 .. Len(q)
        /\ \A i \in 1 .. Len(q) - 1 : r[i + 1] = q[i + 1]
    BY <1>1, <1>5
  <2>2. \A i \in 1 .. Len(q) : r[i].size \in Int
    BY <2>1, <1>a
  <2>3. /\ SizesOf(r) \in Seq(Int) /\ Len(SizesOf(r)) = Len(q)
        /\ \A i \in 1 .. Len(q) : SizesOf(r)[i] = r[i].size
    BY <1>1, <2>1, <2>2 DEF SizesOf
  <2>4. Len(q) >= 1
    BY <1>1, <1>5
  <2>5. SizesOf(r) # <<>> /\ Head(SizesOf(r)) = s.size
    BY <2>1, <2>3, <2>4
  <2>6. Tail(SizesOf(r)) = [i \in 1 .. Len(q) - 1 |-> SizesOf(r)[i + 1]]
    BY <2>3, <2>5, TailOf
  <2>7. Tail(SizesOf(q)) = [i \in 1 .. Len(q) - 1 |-> SizesOf(q)[i + 1]]
    <3>1. SizesOf(q) # <<>>
      BY <1>2, <2>4
    <3> QED BY <1>2, <3>1, TailOf
  <2>8. \A i \in 1 .. Len(q) - 1 : SizesOf(r)[i + 1] = SizesOf(q)[i + 1]
    BY <1>1, <1>2, <2>1, <2>3
  <2> QED BY <2>3, <2>5, <2>6, <2>7, <2>8
<1> QED BY <1>2, <1>3, <1>4, <1>5

\* What a cut leaves at the front of the queue is a segment.
LEMMA RestOfCut ==
  ASSUME LinkTypeOK, QueueOK, NEW bytes \in TxOpportunities, SendFragment(bytes),
         NEW s, s = Head(m_packets),
         NEW payload, payload = MaxPayload(bytes, SizingStatus(s.status)),
         NEW rest, rest = [packet |-> s.packet, from |-> s.from + payload,
                           size |-> s.size - payload, status |-> "END_PDU"]
  PROVE  rest \in Segment /\ s.size \in Int
<1>1. m_packets # <<>>
  BY DEF SendFragment
<1>2. /\ s = m_packets[1] /\ s \in Segment /\ s.status \in {"FULL_PDU", "END_PDU"}
      /\ s.packet \in Nat /\ s.from \in Nat /\ s.size \in Nat \ {0}
  BY <1>1, FrontOfQueue
<1>3. /\ bytes > encapsulation.header[SizingStatus(s.status)]
      /\ s.size > MaxPayload(bytes, s.status)
  BY <1>1, <1>2 DEF SendFragment
<1>4. payload \in Nat \ {0} /\ payload < s.size
  <2>1. /\ payload \in Nat \ {0} /\ payload <= MaxPayload(bytes, s.status)
        /\ MaxPayload(bytes, s.status) \in Int
    BY <1>2, <1>3, PayloadFits DEF LinkTypeOK
  <2> QED
    BY <2>1, <1>2, <1>3
<1> QED
  BY <1>2, <1>4 DEF Segment

\* GetNBytes is the sum of what is queued, however often segments are cut.
THEOREM QueueBytesAreExact == LinkSpec => []QueueBytesExact
<1>1. LinkInit => QueueBytesExact
  <2> SUFFICES ASSUME LinkInit PROVE QueueBytesExact
    OBVIOUS
  <2> DEFINE f == [i \in DOMAIN m_packets |-> m_packets[i].size]
  <2>1. DOMAIN f = {} /\ m_nBytes = 0
    BY DEF LinkInit, EncapsulatorInit, QueueInit
  <2> HIDE DEF f
  <2>2. SumFunction(f) = 0
    BY <2>1, SumOfNone DEF SumFunction
  <2> QED BY <2>1, <2>2 DEF QueueBytesExact, f
<1>2. Inv /\ QueueBytesExact /\ [LinkNext]_linkVars => QueueBytesExact'
  <2> SUFFICES ASSUME Inv, QueueBytesExact, [LinkNext]_linkVars PROVE QueueBytesExact'
    OBVIOUS
  <2>1. /\ LinkTypeOK /\ QueueOK
        /\ m_packets \in Seq(Segment) /\ m_nBytes = SumFunction(SizesOf(m_packets))
    BY DEF Inv, LinkTypeOK, QueueBytesExact, SizesOf
  <2>2. ASSUME m_nBytes' = SumFunction(SizesOf(m_packets')) PROVE QueueBytesExact'
    BY <2>2 DEF QueueBytesExact, SizesOf
  <2>3. SizesOf(m_packets) \in Seq(Int)
    BY <2>1, SizesOfQueue
  <2>4. CASE Enque
    <3>1. PICK size \in PacketSizes :
            Enqueue([packet |-> Len(accepted) + 1, from |-> 0, size |-> size, status |-> "FULL_PDU"])
      BY <2>4 DEF Enque, EnquePdu
    <3> DEFINE s == [packet |-> Len(accepted) + 1, from |-> 0, size |-> size, status |-> "FULL_PDU"]
    <3>2. s \in Segment /\ s.size = size /\ size \in Int
      BY <2>1, EncapsulationAssumption DEF Segment, LinkTypeOK
    <3>3. m_packets' = Append(m_packets, s) /\ m_nBytes' = m_nBytes + s.size
      BY <3>1 DEF Enqueue
    <3> HIDE DEF s
    <3>4. SizesOf(m_packets') = Append(SizesOf(m_packets), s.size)
      BY <2>1, <3>2, <3>3, SizesOfQueue
    <3>5. SumFunction(SizesOf(m_packets')) = SumFunction(SizesOf(m_packets)) + s.size
      BY <2>3, <3>2, <3>4, SumAppend
    <3> QED BY <2>1, <2>2, <3>3, <3>5
  <2>5. ASSUME NEW bytes \in TxOpportunities, SendRest(bytes)
        PROVE  QueueBytesExact'
    <3>1. m_packets # <<>> /\ m_packets' = Tail(m_packets) /\ m_nBytes' = m_nBytes - Head(m_packets).size
      BY <2>5 DEF SendRest, Dequeue
    <3>2. /\ SizesOf(m_packets) # <<>> /\ Head(SizesOf(m_packets)) = Head(m_packets).size
          /\ SizesOf(m_packets') = Tail(SizesOf(m_packets))
      BY <2>1, <3>1, SizesOfQueue
    <3>3. SumFunction(SizesOf(m_packets)) = Head(m_packets).size + SumFunction(SizesOf(m_packets'))
      BY <2>3, <3>2, SumTail
    <3>4. Head(m_packets).size \in Int /\ SumFunction(SizesOf(m_packets')) \in Int
      BY <2>3, <3>2, SumOfSequence
    <3> QED BY <2>1, <2>2, <3>1, <3>3, <3>4
  <2>6. ASSUME NEW bytes \in TxOpportunities, SendFragment(bytes)
        PROVE  QueueBytesExact'
    <3>1. PICK segment : segment = Head(m_packets)
      OBVIOUS
    <3>2. PICK payload : payload = MaxPayload(bytes, SizingStatus(segment.status))
      OBVIOUS
    <3>3. PICK rest : rest = [packet |-> segment.packet, from |-> segment.from + payload,
                              size |-> segment.size - payload, status |-> "END_PDU"]
      OBVIOUS
    <3>4. /\ m_packets # <<>>
          /\ m_packets' = <<rest>> \o Tail(m_packets)
          /\ m_nBytes' = m_nBytes - segment.size + rest.size
      BY <2>6, <3>1, <3>2, <3>3 DEF SendFragment, DequeueAndPushFront
    <3>5. rest \in Segment /\ segment.size \in Int
      BY <2>1, <2>6, <3>1, <3>2, <3>3, <3>4, RestOfCut
    <3>6. rest.size \in Int
      BY <3>5 DEF Segment
    <3>7. /\ SizesOf(m_packets) # <<>> /\ Head(SizesOf(m_packets)) = segment.size
          /\ SizesOf(m_packets') \in Seq(Int) /\ SizesOf(m_packets') # <<>>
          /\ Head(SizesOf(m_packets')) = rest.size
          /\ Tail(SizesOf(m_packets')) = Tail(SizesOf(m_packets))
      BY <2>1, <3>1, <3>4, <3>5, SizesOfQueue
    <3>8. /\ SumFunction(SizesOf(m_packets)) = segment.size + SumFunction(Tail(SizesOf(m_packets)))
          /\ SumFunction(SizesOf(m_packets')) = rest.size + SumFunction(Tail(SizesOf(m_packets)))
      BY <2>3, <3>7, SumTail
    <3>9. SumFunction(Tail(SizesOf(m_packets))) \in Int
      BY <2>3, <3>7, SumOfSequence
    <3> QED BY <2>1, <2>2, <3>4, <3>5, <3>6, <3>8, <3>9
  <2>7. UNCHANGED <<m_packets, m_nBytes>> => QueueBytesExact'
    BY DEF QueueBytesExact
  <2>8. ReadStatistics \/ Arrive \/ Lose \/ UNCHANGED linkVars => UNCHANGED <<m_packets, m_nBytes>>
    BY DEF ReadStatistics, GetQueueStatistics, Arrive, ProcessPdu, Lose, linkVars, txVars, queueVars
  <2>9. ASSUME NEW bytes \in TxOpportunities, NotifyTxOpportunity(bytes)
        PROVE  QueueBytesExact'
    BY <2>5, <2>6, <2>9 DEF NotifyTxOpportunity
  <2> QED
    BY <2>4, <2>7, <2>8, <2>9 DEF LinkNext
<1> QED
  BY <1>1, <1>2, LinkInvariant, PTL DEF LinkSpec
-----------------------------------------------------------------------------
(***************************************************************************)
(* The promise to the layer above.                                         *)
(***************************************************************************)
OutcomeOK ==
  \A p : Outcome(p) = IF \E d \in DOMAIN delivered : PacketOf(d) = p THEN p ELSE NoPdu

\* A packet has come out as itself, or it has not.
LEMMA OutcomeIs == Inv => OutcomeOK
<1> SUFFICES ASSUME Inv, NEW p
             PROVE  Outcome(p) = IF \E d \in DOMAIN delivered : PacketOf(d) = p THEN p ELSE NoPdu
  BY DEF OutcomeOK
<1>1. PICK n : n = Len(delivered)
  OBVIOUS
<1>2. DOMAIN delivered = 1 .. n /\ n \in Nat
  <2>1. delivered \in Seq(Seq(Piece))
    BY DEF Inv, LinkTypeOK
  <2> QED
    BY <1>1, <2>1
<1>3. CASE \E d \in DOMAIN delivered : PacketOf(d) = p
  <2>1. PICK d \in DOMAIN delivered : PacketOf(d) = p
    BY <1>3
  <2>2. ASSUME NEW c \in DOMAIN delivered, PacketOf(c) = p PROVE c = d
    <3>1. PacketOf(d) \in Nat
      <4>1. accepted \in Seq(PacketSizes) /\ PacketOf(d) \in DOMAIN accepted
        BY DEF Inv, LinkTypeOK, DeliveredOK
      <4> QED
        BY <4>1
    <3>2. c < d => PacketOf(c) < PacketOf(d)
      BY DEF Inv, DeliveredOK
    <3>3. d < c => PacketOf(d) < PacketOf(c)
      BY DEF Inv, DeliveredOK
    <3> QED
      BY <1>2, <2>1, <2>2, <3>1, <3>2, <3>3
  <2>3. Deliveries(p) = {d}
    BY <2>1, <2>2 DEF Deliveries
  <2>4. Whole(delivered[d])
    BY DEF Inv, DeliveredOK
  <2> QED
    BY <1>3, <2>3, <2>4 DEF Outcome
<1>4. CASE ~ \E d \in DOMAIN delivered : PacketOf(d) = p
  <2>1. Deliveries(p) = {}
    BY <1>4 DEF Deliveries
  <2> QED
    BY <1>4, <2>1 DEF Outcome
<1> QED
  BY <1>3, <1>4

LastOK ==
  /\ Len(accepted) \in Nat /\ LastDelivered \in 0 .. Len(accepted)
  /\ \A d \in DOMAIN delivered : PacketOf(d) \in 1 .. LastDelivered

\* The number of the last packet that came out bounds all of them.
LEMMA LastIs == Inv => LastOK
<1> SUFFICES ASSUME Inv PROVE LastOK
  OBVIOUS
<1>1. PICK n, L : n = Len(delivered) /\ L = Len(accepted)
  OBVIOUS
<1>2. /\ DOMAIN delivered = 1 .. n /\ n \in Nat /\ L \in Nat /\ DOMAIN accepted = 1 .. L
      /\ delivered = <<>> <=> n = 0
  <2>1. delivered \in Seq(Seq(Piece)) /\ accepted \in Seq(PacketSizes)
    BY DEF Inv, LinkTypeOK
  <2> QED
    BY <1>1, <2>1
<1>3. \A d \in 1 .. n : PacketOf(d) \in 1 .. L
  BY <1>2 DEF Inv, DeliveredOK
<1>4. \A d \in 1 .. n : d < n => PacketOf(d) < PacketOf(n)
  BY <1>2 DEF Inv, DeliveredOK
<1>5. CASE n = 0
  BY <1>1, <1>2, <1>5 DEF LastDelivered, LastOK
<1>6. CASE n # 0
  <2>1. LastDelivered = PacketOf(n) /\ n \in 1 .. n
    BY <1>1, <1>2, <1>6 DEF LastDelivered
  <2>2. ASSUME NEW d \in 1 .. n PROVE PacketOf(d) \in 1 .. PacketOf(n)
    <3>1. PacketOf(d) \in 1 .. L /\ PacketOf(n) \in 1 .. L
      BY <1>3, <2>1
    <3>2. d = n \/ d < n
      BY <1>2
    <3> QED
      BY <1>2, <1>4, <3>1, <3>2
  <2> QED
    BY <1>1, <1>2, <1>3, <2>1, <2>2 DEF LastOK
<1> QED
  BY <1>5, <1>6

\* What happens at either end, as the layer above sees it.
LEMMA SeenFromAbove ==
  ASSUME Inv, [LinkNext]_linkVars
  PROVE  \/ UNCHANGED <<accepted, delivered>>
         \/ delivered' = delivered /\ \E size \in PacketSizes : accepted' = Append(accepted, size)
         \/ accepted' = accepted /\ \E pieces : delivered' = Append(delivered, pieces)
<1>1. ASSUME NEW bytes \in TxOpportunities, NotifyTxOpportunity(bytes)
      PROVE  UNCHANGED <<accepted, delivered>>
  BY <1>1 DEF NotifyTxOpportunity, SendRest, SendFragment, rxVars
<1>2. CASE Enque
  BY <1>2 DEF Enque, EnquePdu, rxVars
<1>3. CASE Arrive
  <2>1. PICK x : x = Head(channel)
    OBVIOUS
  <2>2. accepted' = accepted
    BY <1>3 DEF Arrive, ProcessPdu, txVars
  <2>3. ReceiveFull(x) \/ ReceiveStart(x) \/ ReceiveContinuation(x) \/ ReceiveEnd(x)
    BY <1>3, <2>1 DEF Arrive, ProcessPdu
  <2>4. delivered' = delivered \/ \E pieces : delivered' = Append(delivered, pieces)
    BY <2>3 DEF ReceiveFull, ReceiveStart, ReceiveContinuation, ReceiveEnd
  <2> QED
    BY <2>2, <2>4
<1>4. CASE Lose
  BY <1>4 DEF Lose, txVars, rxVars
<1>5. CASE ReadStatistics
  BY <1>5 DEF ReadStatistics, rxVars
<1>6. CASE UNCHANGED linkVars
  BY <1>6 DEF linkVars, txVars, rxVars
<1> QED
  BY <1>1, <1>2, <1>3, <1>4, <1>5, <1>6 DEF LinkNext

\* A step is one of the service, or it is not seen from above.
LEMMA ServiceStep ==
  ASSUME Inv, Inv', [LinkNext]_linkVars
  PROVE  [Service!ServiceNext]_Service!serviceVars
<1>1. OutcomeOK /\ OutcomeOK' /\ LastOK /\ LastOK'
  BY OutcomeIs, LastIs, PTL
<1>2. PICK L, last : L = Len(accepted) /\ last = LastDelivered
  OBVIOUS
<1>3. /\ L \in Nat /\ last \in 0 .. L /\ last \in Nat
      /\ \A d \in DOMAIN delivered : PacketOf(d) \in 1 .. last
  BY <1>1, <1>2 DEF LastOK
<1>4. /\ \A p : Outcome(p) = IF \E d \in DOMAIN delivered : PacketOf(d) = p THEN p ELSE NoPdu
      /\ \A p : Outcome(p)' = IF \E d \in DOMAIN delivered' : PacketOf(d)' = p THEN p ELSE NoPdu
  BY <1>1 DEF OutcomeOK
<1>5. ASSUME delivered' = delivered
      PROVE  LastDelivered' = LastDelivered /\ Stream' = Stream
  <2>1. LastDelivered' = LastDelivered /\ \A d : PacketOf(d)' = PacketOf(d)
    BY <1>5 DEF LastDelivered, PacketOf
  <2>2. \A p : Outcome(p)' = Outcome(p)
    BY <1>4, <1>5, <2>1
  <2> QED
    BY <2>1, <2>2 DEF Stream
<1>6. CASE UNCHANGED <<accepted, delivered>>
  BY <1>5, <1>6 DEF Service!serviceVars
<1>7. ASSUME delivered' = delivered, NEW size \in PacketSizes, accepted' = Append(accepted, size)
      PROVE  Service!Accept
  <2>1. Len(accepted') = Len(accepted) + 1
    <3>1. accepted \in Seq(PacketSizes)
      BY DEF Inv, LinkTypeOK
    <3> QED
      BY <1>7, <3>1, AppendFacts
  <2> QED
    BY <1>5, <1>7, <2>1 DEF Service!Accept
<1>8. ASSUME accepted' = accepted, NEW pieces, delivered' = Append(delivered, pieces)
      PROVE  Service!ServiceNext
  <2>1. PICK n : n = Len(delivered)
    OBVIOUS
  <2>2. /\ n \in Nat /\ DOMAIN delivered = 1 .. n /\ DOMAIN delivered' = 1 .. n + 1
        /\ \A d \in 1 .. n : delivered'[d] = delivered[d] /\ d \in 1 .. n + 1 /\ d < n + 1
        /\ \A d \in 1 .. n + 1 : d \in 1 .. n \/ d = n + 1
        /\ n + 1 \in 1 .. n + 1 /\ delivered' # <<>> /\ Len(delivered') = n + 1
    <3>1. delivered \in Seq(Seq(Piece))
      BY DEF Inv, LinkTypeOK
    <3>2. PICK S : S = Seq(Piece) \cup {pieces}
      OBVIOUS
    <3>3. delivered \in Seq(S) /\ pieces \in S
      BY <3>1, <3>2
    <3>4. /\ n \in Nat /\ DOMAIN delivered = 1 .. n /\ DOMAIN delivered' = 1 .. n + 1
          /\ \A d \in 1 .. n : delivered'[d] = delivered[d]
          /\ delivered' # <<>> /\ Len(delivered') = n + 1
      BY <1>8, <2>1, <3>3, AppendFacts
    <3> QED
      BY <3>4
  <2>3. PICK q : q = PacketOf(n + 1)'
    OBVIOUS
  <2>4. LastDelivered' = q
    BY <2>2, <2>3 DEF LastDelivered, PacketOf
  <2>5. \A d \in 1 .. n : PacketOf(d)' = PacketOf(d)
    BY <2>2 DEF PacketOf
  <2>6. q \in 1 .. L
    <3>1. PacketOf(n + 1)' \in DOMAIN accepted'
      BY <2>2 DEF Inv, DeliveredOK
    <3>2. DOMAIN accepted = 1 .. L
      BY <1>2 DEF Inv, LinkTypeOK
    <3> QED
      BY <1>8, <2>3, <3>1, <3>2
  <2>7. \A d \in 1 .. n : PacketOf(d) < q
    BY <2>2, <2>3, <2>5 DEF Inv, DeliveredOK
  <2>8. last < q
    <3>1. CASE n = 0
      <4>1. delivered = <<>>
        <5>1. delivered \in Seq(Seq(Piece))
          BY DEF Inv, LinkTypeOK
        <5> QED
          BY <2>1, <3>1, <5>1, EmptySequence
      <4> QED
        BY <1>2, <2>6, <4>1 DEF LastDelivered
    <3>2. CASE n # 0
      <4>1. n \in 1 .. n /\ delivered # <<>>
        BY <2>1, <2>2, <3>2
      <4> QED
        BY <1>2, <2>1, <2>7, <4>1 DEF LastDelivered
    <3> QED
      BY <3>1, <3>2
  <2>9. \A p \in 1 .. last : Outcome(p)' = Outcome(p)
    <3> SUFFICES ASSUME NEW p \in 1 .. last
                 PROVE  (\E d \in DOMAIN delivered' : PacketOf(d)' = p)
                          <=> (\E d \in DOMAIN delivered : PacketOf(d) = p)
      BY <1>4
    <3>1. q # p
      BY <1>3, <2>6, <2>8
    <3> QED
      BY <2>2, <2>3, <2>5, <3>1
  <2>10. Stream' = [p \in 1 .. q |-> Outcome(p)'] /\ Stream = [p \in 1 .. last |-> Outcome(p)]
    BY <1>2, <2>4 DEF Stream
  <2>11. \A p \in 1 .. q : Outcome(p)' \in {p, NoPdu} /\ Outcome(p)' \in Nat \cup {NoPdu}
    BY <1>4
  <2>12. Stream' \in [1 .. q -> Nat \cup {NoPdu}]
    BY <2>10, <2>11
  <2>13. /\ \A p \in 1 .. last : p \in 1 .. q
         /\ \A p \in last + 1 .. q : p \in 1 .. q
         /\ q \in last + 1 .. L /\ (last + 1) - 1 = last
    BY <1>3, <2>6, <2>8
  <2>14. \A p \in 1 .. last : Stream'[p] = Stream[p]
    BY <2>9, <2>10, <2>13
  <2>15. \A p \in last + 1 .. q : Stream'[p] \in {p, NoPdu}
    BY <2>10, <2>11, <2>13
  <2>16. Service!Decide(q)
    BY <1>2, <1>8, <2>4, <2>12, <2>13, <2>14, <2>15 DEF Service!Decide
  <2> QED
    BY <1>2, <2>13, <2>16 DEF Service!ServiceNext
<1>9. ASSUME NEW size \in PacketSizes, delivered' = delivered, accepted' = Append(accepted, size)
      PROVE  Service!ServiceNext
  BY <1>7, <1>9 DEF Service!ServiceNext
<1> QED
  BY <1>6, <1>8, <1>9, SeenFromAbove

\* A new connection has accepted nothing, and nothing came out.
LEMMA ServiceStart == LinkInit => Service!ServiceInit
<1> SUFFICES ASSUME LinkInit PROVE Service!ServiceInit
  OBVIOUS
<1>1. accepted = <<>> /\ delivered = <<>>
  BY DEF LinkInit, EncapsulatorInit
<1>2. LastDelivered = 0 /\ Len(accepted) = 0 /\ 1 .. 0 = {}
  BY <1>1 DEF LastDelivered
<1>3. Stream = [p \in {} |-> p]
  BY <1>2 DEF Stream
<1> QED
  BY <1>2, <1>3 DEF Service!ServiceInit

\* The encapsulators keep the promise of a connection for all sizes of packets
\* and opportunities: packets come out in order, at most once, as themselves.
THEOREM EncapsulationImplementsService == LinkSpec => ImplementsService
<1>1. LinkInit => Service!ServiceInit
  BY ServiceStart
<1>2. Inv /\ Inv' /\ [LinkNext]_linkVars => [Service!ServiceNext]_Service!serviceVars
  BY ServiceStep
<1> QED
  BY <1>1, <1>2, LinkInvariant, PTL DEF LinkSpec, ImplementsService, Service!ServiceSpec
-----------------------------------------------------------------------------
(***************************************************************************)
(* Nothing vanishes.                                                       *)
(*                                                                         *)
(* The line of PDUs, once more: a PDU that leaves something to follow is   *)
(* followed by just that, unless a PDU of the packet was lost.             *)
(***************************************************************************)
Opens(pdu) == pdu.status \in {"START_PDU", "CONTINUATION_PDU"}

GoesOn(pdu) == pdu.status \in {"CONTINUATION_PDU", "END_PDU"}

Sound(pdu) == pdu.piece.packet \notin damaged

NoPiece == [status |-> "NONE"]

\* The rest in front of the queue, as the PDU it would be.
RestOfPacket ==
  [status |-> "END_PDU", fragmentId |-> m_txFragmentId, totalLength |-> 0,
   piece  |-> [packet |-> m_packets[1].packet, from |-> m_packets[1].from,
               size |-> m_packets[1].size, fragmented |-> fragmented]]

AtReceiver == IF Context = <<>> THEN NoPiece ELSE LastPdu

AtSender == IF RestInFront THEN RestOfPacket ELSE NoPiece

Line(i) == IF i = 0 THEN AtReceiver ELSE IF i \in DOMAIN channel THEN channel[i] ELSE AtSender

Joins(p, q) ==
  /\ Opens(p) /\ GoesOn(q)
  /\ q.piece.packet = p.piece.packet
  /\ q.piece.fragmented = p.piece.fragmented
  /\ q.piece.from = End(p.piece)

Chained(p, q) == (Opens(p) /\ Sound(p)) \/ (GoesOn(q) /\ Sound(q)) => Joins(p, q)

LineOK == \A i \in 0 .. Len(channel) : Chained(Line(i), Line(i + 1))

\* The bytes that were counted are those up to the end of the last piece.
BytesOK ==
  Context # <<>> /\ Sound(LastPdu) => m_currRxPacketFragmentBytes = End(LastPdu.piece)

Intact == LineOK /\ BytesOK /\ NothingVanishes

\* No packet has the size that the field of the total length wraps to zero.
SizesFit == \A size \in PacketSizes, e \in Encapsulations : size < e.totalLengths

\* No piece neither opens nor goes on.
LEMMA NothingChains == ~ Opens(NoPiece) /\ ~ GoesOn(NoPiece)
  BY DEF NoPiece, Opens, GoesOn

\* What a PDU that is sent leaves to follow, and what it goes on with.
SendsOn(x) ==
  /\ GoesOn(x) <=> RestInFront
  /\ RestInFront => fragmented' = fragmented
  /\ Opens(x) <=> RestInFront'
  /\ RestInFront' => m_packets'[1].from = End(x.piece)
  /\ \A k \in DOMAIN m_packets : k > 1 =>
       \E l \in DOMAIN m_packets' : m_packets'[l].packet = m_packets[k].packet

\* The rest of a packet, or all of it, leaves nothing to follow.
LEMMA RestSendsOn ==
  ASSUME LinkTypeOK, SizesOK, QueueOK, NEW bytes \in TxOpportunities, SendRest(bytes)
  PROVE  SendsOn(RestPdu)
<1> DEFINE s == m_packets[1]
           x == RestPdu
<1>1. m_packets # <<>> /\ m_packets' = Tail(m_packets) /\ fragmented' = fragmented
  BY DEF SendRest, Dequeue
<1>2. s.status \in {"FULL_PDU", "END_PDU"} /\ Head(m_packets) = s
  BY <1>1, FrontOfQueue
<1>3. x.status = s.status
  BY <1>2 DEF RestPdu, PduOf
<1>4. /\ m_packets' \in Seq(Segment)
      /\ DOMAIN m_packets = 1 .. Len(m_packets) /\ Len(m_packets) \in Nat \ {0}
      /\ DOMAIN m_packets' = 1 .. Len(m_packets) - 1
      /\ \A k \in 1 .. Len(m_packets) - 1 : m_packets'[k] = m_packets[k + 1]
  BY <1>1, TailFacts DEF LinkTypeOK
<1>5. ~ RestInFront'
  <2>1. SUFFICES ASSUME m_packets' # <<>> PROVE m_packets'[1].status = "FULL_PDU"
    BY DEF RestInFront
  <2>2. 1 \in DOMAIN m_packets'
    BY <2>1, <1>4
  <2>3. m_packets'[1] = m_packets[2] /\ 2 \in DOMAIN m_packets
    BY <2>2, <1>4
  <2> QED
    BY <2>3 DEF QueueOK
<1>6. ASSUME NEW k \in DOMAIN m_packets, k > 1
      PROVE  \E l \in DOMAIN m_packets' : m_packets'[l].packet = m_packets[k].packet
  <2>1. k - 1 \in 1 .. Len(m_packets) - 1 /\ (k - 1) + 1 = k
    BY <1>4, <1>6
  <2> QED
    BY <1>4, <2>1
<1> QED
  BY <1>1, <1>2, <1>3, <1>5, <1>6 DEF SendsOn, GoesOn, Opens, RestInFront

\* A fragment leaves the rest to follow.
LEMMA FragmentSendsOn ==
  ASSUME LinkTypeOK, SizesOK, QueueOK, NEW bytes \in TxOpportunities, SendFragment(bytes)
  PROVE  SendsOn(FragmentPdu(bytes))
<1> DEFINE s == m_packets[1]
           x == FragmentPdu(bytes)
<1>1. PICK payload : payload = MaxPayload(bytes, SizingStatus(s.status))
  OBVIOUS
<1>2. PICK rest : rest = [packet |-> s.packet, from |-> s.from + payload,
                          size |-> s.size - payload, status |-> "END_PDU"]
  OBVIOUS
<1>3. m_packets # <<>>
  BY DEF SendFragment
<1>4. s.status \in {"FULL_PDU", "END_PDU"} /\ Head(m_packets) = s
  BY <1>3, FrontOfQueue
<1>5. /\ m_packets' = <<rest>> \o Tail(m_packets)
      /\ IF s.status = "FULL_PDU" THEN IncreaseFragmentId
                                  ELSE UNCHANGED <<m_txFragmentId, fragmented>>
  BY <1>1, <1>2, <1>4 DEF SendFragment, DequeueAndPushFront
<1>6. /\ x.status = IF s.status = "FULL_PDU" THEN "START_PDU" ELSE "CONTINUATION_PDU"
      /\ x.piece.packet = s.packet /\ x.piece.from = s.from /\ x.piece.size = payload
  BY <1>1, <1>4 DEF FragmentPdu, PduOf, StatusWhenCut
<1>7. rest.status = "END_PDU" /\ rest.packet = s.packet /\ rest.from = s.from + payload
  BY <1>2
<1> HIDE DEF x
<1>8. PICK S : S = Segment \cup {rest}
  OBVIOUS
<1>9. /\ m_packets' # <<>> /\ DOMAIN m_packets' = DOMAIN m_packets /\ m_packets'[1] = rest
      /\ \A k \in DOMAIN m_packets : k > 1 => m_packets'[k] = m_packets[k]
  <2>1. m_packets \in Seq(Segment)
    BY DEF LinkTypeOK
  <2>2. m_packets \in Seq(S) /\ rest \in S
    BY <1>8, <2>1
  <2> QED
    BY <1>3, <1>5, <2>2, FrontFacts
<1>10. RestInFront' /\ Opens(x) /\ m_packets'[1].from = End(x.piece)
  BY <1>4, <1>6, <1>7, <1>9 DEF RestInFront, Opens, End
<1>11. (GoesOn(x) <=> RestInFront) /\ (RestInFront => fragmented' = fragmented)
  BY <1>3, <1>4, <1>5, <1>6 DEF RestInFront, GoesOn
<1> QED
  BY <1>9, <1>10, <1>11 DEF SendsOn, x

\* What the line is made of at either end.
LEMMA LineEnds ==
  ASSUME channel \in Seq(Pdu)
  PROVE  /\ Len(channel) \in Nat /\ DOMAIN channel = 1 .. Len(channel)
         /\ Line(0) = AtReceiver /\ Line(Len(channel) + 1) = AtSender
         /\ \A i \in 1 .. Len(channel) : Line(i) = channel[i]
<1>1. Len(channel) \in Nat /\ DOMAIN channel = 1 .. Len(channel)
  OBVIOUS
<1>2. Len(channel) + 1 # 0 /\ Len(channel) + 1 \notin DOMAIN channel
  BY <1>1
<1>3. \A i \in 1 .. Len(channel) : i # 0
  OBVIOUS
<1> QED
  BY <1>1, <1>2, <1>3 DEF Line

\* A step that changes neither the line nor what was lost.
LEMMA LineKept ==
  ASSUME LineOK, UNCHANGED <<channel, damaged>>, AtReceiver' = AtReceiver, AtSender' = AtSender
  PROVE  LineOK'
<1>1. \A i : Line(i)' = Line(i)
  BY DEF Line
<1>2. \A p, q : Chained(p, q) => Chained(p, q)'
  BY DEF Chained, Sound, Joins, Opens, GoesOn, End
<1> QED
  BY <1>1, <1>2 DEF LineOK

\* What goes on alike is chained alike.
LEMMA ChainedAlike ==
  ASSUME NEW p, NEW q, NEW r, Chained(p, q), GoesOn(q) <=> GoesOn(r),
         GoesOn(r) => /\ q.piece.packet = r.piece.packet
                      /\ q.piece.from = r.piece.from
                      /\ q.piece.fragmented = r.piece.fragmented
  PROVE  Chained(p, r)
<1>1. CASE GoesOn(r)
  BY <1>1 DEF Chained, Sound, Joins
<1>2. CASE ~ GoesOn(r)
  BY <1>2 DEF Chained, Joins
<1> QED
  BY <1>1, <1>2

\* A PDU that is sent takes the place of what was to follow.
LEMMA LineSend ==
  ASSUME Inv, LineOK, NEW x, Sends(x), SendsOn(x), channel' = Append(channel, x),
         UNCHANGED <<rxVars, damaged>>
  PROVE  LineOK'
<1>1. PICK n : n = Len(channel)
  OBVIOUS
<1>2. channel \in Seq(Pdu) /\ x \in Pdu
  BY DEF Inv, LinkTypeOK, Sends
<1>3. /\ n \in Nat /\ channel' \in Seq(Pdu) /\ Len(channel') = n + 1
      /\ \A i \in 1 .. n : channel'[i] = channel[i]
      /\ channel'[n + 1] = x
  BY <1>1, <1>2, AppendFacts
<1>4. AtReceiver' = AtReceiver
  BY DEF rxVars, contextVars, AtReceiver, LastPdu, Context, NoPiece
<1>5. /\ Line(0) = AtReceiver /\ Line(n + 1) = AtSender
      /\ \A i \in 1 .. n : Line(i) = channel[i]
  BY <1>1, <1>2, LineEnds
<1>6. /\ Line(0)' = AtReceiver' /\ Line(n + 2)' = AtSender'
      /\ \A i \in 1 .. n + 1 : Line(i)' = channel'[i]
  <2>1. Line(0)' = AtReceiver'
    BY DEF Line
  <2>2. DOMAIN channel' = 1 .. n + 1
    BY <1>3
  <2>3. Line(n + 2)' = AtSender'
    BY <1>3, <2>2 DEF Line
  <2>4. \A i \in 1 .. n + 1 : Line(i)' = channel'[i]
    BY <1>3, <2>2 DEF Line
  <2> QED
    BY <2>1, <2>3, <2>4
<1>7. \A i \in 0 .. n : Line(i)' = Line(i) /\ (i = 0 \/ i \in 1 .. n)
  BY <1>3, <1>4, <1>5, <1>6
<1>8. \A p, q : Chained(p, q)' <=> Chained(p, q)
  BY DEF Chained, Sound, Joins, Opens, GoesOn, End
<1>9. /\ x.piece.packet = m_packets[1].packet /\ x.piece.from = m_packets[1].from
      /\ x.piece.fragmented = fragmented'
      /\ RestInFront' => m_packets'[1].packet = x.piece.packet
  BY DEF Sends
<1>10. /\ RestInFront => /\ AtSender.piece.packet = x.piece.packet
                         /\ AtSender.piece.from = x.piece.from
                         /\ AtSender.piece.fragmented = x.piece.fragmented
                         /\ GoesOn(AtSender)
       /\ ~ RestInFront => AtSender = NoPiece
       /\ GoesOn(x) <=> RestInFront
  BY <1>9 DEF AtSender, RestOfPacket, SendsOn, GoesOn
<1>11. /\ RestInFront' => /\ AtSender'.piece.packet = x.piece.packet
                          /\ AtSender'.piece.from = End(x.piece)
                          /\ AtSender'.piece.fragmented = x.piece.fragmented
                          /\ GoesOn(AtSender')
       /\ ~ RestInFront' => AtSender' = NoPiece
       /\ Opens(x) <=> RestInFront'
  BY <1>9 DEF AtSender, RestOfPacket, SendsOn, GoesOn, NoPiece
<1>12. Chained(Line(n), x)
  <2>1. PICK p : p = Line(n)
    OBVIOUS
  <2>2. Chained(p, AtSender)
    <3>1. n \in 0 .. Len(channel)
      BY <1>1, <1>3
    <3> QED
      BY <1>5, <2>1, <3>1 DEF LineOK
  <2>3. GoesOn(AtSender) <=> GoesOn(x)
    BY <1>10, NothingChains DEF GoesOn
  <2>4. GoesOn(x) => /\ AtSender.piece.packet = x.piece.packet
                     /\ AtSender.piece.from = x.piece.from
                     /\ AtSender.piece.fragmented = x.piece.fragmented
    BY <1>10
  <2> QED
    BY <2>1, <2>2, <2>3, <2>4, ChainedAlike
<1>13. Chained(x, AtSender')
  <2>1. CASE RestInFront'
    BY <1>11, <2>1 DEF Chained, Joins
  <2>2. CASE ~ RestInFront'
    BY <1>11, <2>2, NothingChains DEF Chained
  <2> QED
    BY <2>1, <2>2
<1>14. ASSUME NEW i \in 0 .. n + 1 PROVE Chained(Line(i)', Line(i + 1)')
  <2>1. CASE i = n + 1
    <3>1. i + 1 = n + 2 /\ i \in 1 .. n + 1
      BY <1>3, <2>1
    <3>2. Line(i)' = x /\ Line(i + 1)' = AtSender'
      BY <1>3, <1>6, <2>1, <3>1
    <3> QED
      BY <1>13, <3>2
  <2>2. CASE i = n
    <3>1. i + 1 \in 1 .. n + 1 /\ i \in 0 .. n /\ i + 1 = n + 1
      BY <1>3, <2>2
    <3>2. Line(i)' = Line(n) /\ Line(i + 1)' = x
      BY <1>3, <1>6, <1>7, <2>2, <3>1
    <3> QED
      BY <1>12, <3>2
  <2>3. CASE i \in 0 .. n - 1
    <3>1. i \in 0 .. n /\ i + 1 \in 0 .. n /\ i \in 0 .. Len(channel)
      BY <1>1, <1>3, <2>3
    <3>2. Line(i)' = Line(i) /\ Line(i + 1)' = Line(i + 1)
      BY <1>7, <3>1
    <3> QED
      BY <3>1, <3>2 DEF LineOK
  <2> QED
    BY <1>3, <2>1, <2>2, <2>3
<1>15. Len(channel)' = n + 1
  BY <1>3
<1> QED
  BY <1>8, <1>14, <1>15 DEF LineOK

\* The line moves up when its first PDU leaves the link.
LEMMA LineMoves ==
  ASSUME Inv, LineOK, NEW x, Leaves(x)
  PROVE  /\ Line(1) = x /\ Len(channel) \in Nat
         /\ Chained(AtReceiver, x) /\ Chained(x, Line(2))
         /\ Len(channel)' = Len(channel) - 1 /\ Len(channel)' \in Nat
         /\ Line(0)' = AtReceiver'
         /\ \A i \in 1 .. Len(channel) : Line(i)' = Line(i + 1)
         /\ \A i \in 1 .. Len(channel)' : Chained(Line(i)', Line(i + 1)')
<1>1. PICK n : n = Len(channel)
  OBVIOUS
<1>2. channel \in Seq(Pdu) /\ channel # <<>> /\ channel' = Tail(channel) /\ x = channel[1]
  BY DEF Inv, LinkTypeOK, Leaves
<1>3. /\ n \in Nat \ {0} /\ DOMAIN channel' = 1 .. n - 1 /\ Len(channel') = n - 1
      /\ \A i \in 1 .. n - 1 : channel'[i] = channel[i + 1]
  BY <1>1, <1>2, TailFacts
<1>4. /\ Line(0) = AtReceiver /\ Line(n + 1) = AtSender
      /\ \A i \in 1 .. n : Line(i) = channel[i]
  BY <1>1, <1>2, LineEnds
<1>5. AtSender' = AtSender
  BY DEF Leaves, txVars, queueVars, AtSender, RestInFront, RestOfPacket, NoPiece
<1>6. ASSUME NEW i \in 1 .. n PROVE Line(i)' = Line(i + 1)
  <2>1. CASE i = n
    <3>1. i # 0 /\ i \notin DOMAIN channel'
      BY <1>3, <2>1
    <3> QED
      BY <1>4, <1>5, <2>1, <3>1 DEF Line
  <2>2. CASE i \in 1 .. n - 1
    <3>1. i # 0 /\ i \in DOMAIN channel' /\ i + 1 \in 1 .. n
      BY <1>3, <2>2
    <3> QED
      BY <1>3, <1>4, <2>2, <3>1 DEF Line
  <2> QED
    BY <1>3, <2>1, <2>2
<1>7. Line(1) = x /\ Line(0)' = AtReceiver'
  BY <1>2, <1>3, <1>4 DEF Line
<1>8. Chained(AtReceiver, x) /\ Chained(x, Line(2))
  <2>1. 0 \in 0 .. Len(channel) /\ 1 \in 0 .. Len(channel) /\ 0 + 1 = 1 /\ 1 + 1 = 2
    BY <1>1, <1>3
  <2>2. Chained(Line(0), Line(0 + 1)) /\ Chained(Line(1), Line(1 + 1))
    BY <2>1 DEF LineOK
  <2> QED
    BY <1>4, <1>7, <2>1, <2>2
<1>9. ASSUME NEW i \in 1 .. n - 1 PROVE Chained(Line(i)', Line(i + 1)')
  <2>1. i \in 1 .. n /\ i + 1 \in 1 .. n /\ i + 1 \in 0 .. Len(channel)
    BY <1>1, <1>3
  <2>2. Line(i)' = Line(i + 1) /\ Line(i + 1)' = Line((i + 1) + 1)
    BY <1>6, <2>1
  <2> QED
    BY <2>1, <2>2 DEF LineOK
<1> QED
  BY <1>1, <1>3, <1>6, <1>7, <1>8, <1>9

\* The loss of a PDU breaks the chain only of a packet that is damaged by it.
LEMMA LineLose ==
  ASSUME Inv, LineOK, Lose
  PROVE  LineOK'
<1>1. PICK x : x = channel[1]
  OBVIOUS
<1>2. PICK n : n = Len(channel)'
  OBVIOUS
<1>3. Leaves(x) /\ UNCHANGED rxVars
  BY <1>1 DEF Lose, Leaves
<1>4. damaged' = damaged \cup {x.piece.packet}
  <2>1. Head(channel) = x
    BY <1>3, LeaveStep
  <2> QED
    BY <2>1 DEF Lose
<1>5. AtReceiver' = AtReceiver
  BY <1>3 DEF rxVars, contextVars, AtReceiver, LastPdu, Context, NoPiece
<1>6. /\ n \in Nat /\ Line(0)' = AtReceiver /\ Line(1)' = Line(2)
      /\ Chained(AtReceiver, x) /\ Chained(x, Line(2))
      /\ \A i \in 1 .. n : Chained(Line(i)', Line(i + 1)')
  <2>1. 1 \in 1 .. Len(channel) /\ 1 + 1 = 2
    BY <1>3, LineMoves
  <2> QED
    BY <1>2, <1>3, <1>5, <2>1, LineMoves
<1>7. \A p, q : Chained(p, q) => Chained(p, q)'
  BY <1>4 DEF Chained, Sound, Joins, Opens, GoesOn, End
<1>8. ASSUME NEW p, NEW q, Chained(p, x), Chained(x, q)
      PROVE  Chained(p, q)'
  <2>1. ~ (Opens(p) /\ p.piece.packet \notin damaged')
    BY <1>4, <1>8 DEF Chained, Sound, Joins
  <2>2. ~ (GoesOn(q) /\ q.piece.packet \notin damaged')
    BY <1>4, <1>8 DEF Chained, Sound, Joins
  <2> QED
    BY <2>1, <2>2 DEF Chained, Sound, Opens, GoesOn
<1>9. ASSUME NEW i \in 0 .. n PROVE Chained(Line(i), Line(i + 1))'
  <2>1. PICK p, q : p = Line(i)' /\ q = Line(i + 1)'
    OBVIOUS
  <2>2. CASE i = 0
    <3>1. p = AtReceiver /\ q = Line(2)
      BY <1>6, <2>1, <2>2
    <3>2. Chained(p, q)'
      BY <1>6, <1>8, <3>1
    <3> QED
      BY <2>1, <3>2 DEF Chained, Sound, Joins, Opens, GoesOn, End
  <2>3. CASE i \in 1 .. n
    <3>1. Chained(p, q)'
      BY <1>6, <1>7, <2>1, <2>3
    <3> QED
      BY <2>1, <3>1 DEF Chained, Sound, Joins, Opens, GoesOn, End
  <2> QED
    BY <1>6, <2>2, <2>3
<1> QED
  BY <1>2, <1>9 DEF LineOK

\* A sound PDU that goes on continues the packet that is put together.
LEMMA SoundGoesOn ==
  ASSUME Inv, LineOK, BytesOK, NEW x, Leaves(x), GoesOn(x), Sound(x)
  PROVE  /\ PreviousFragmentFound(x)
         /\ Context # <<>> /\ x.piece.packet = Context[1].packet
         /\ x.piece.packet = LastPdu.piece.packet
         /\ m_currRxPacketFragmentBytes = x.piece.from
<1>1. Chained(AtReceiver, x)
  BY LineMoves
<1>2. Joins(AtReceiver, x)
  BY <1>1 DEF Chained
<1>3. Context # <<>> /\ AtReceiver = LastPdu
  BY <1>2, NothingChains DEF Joins, AtReceiver
<1>4. /\ PduOK(LastPdu) /\ LastPdu.fragmentId = m_currRxFragmentId
      /\ LastPdu.status = "CONTINUATION_PDU" /\ LastPdu.piece = Context[Len(Context)]
      /\ Context[Len(Context)].packet = Context[1].packet
  <2>1. Len(Context) \in Nat \ {0} /\ DOMAIN Context = 1 .. Len(Context)
    BY <1>3, LastPduType DEF Inv
  <2>2. Len(Context) \in DOMAIN Context
    BY <2>1
  <2> QED
    BY <1>3, <2>2, LastPduType DEF Inv, ContextOK
<1>5. PduOK(x)
  BY LeaveStep
<1>6. x.fragmentId = m_currRxFragmentId
  BY <1>2, <1>3, <1>4, <1>5 DEF Joins, GoesOn, PduOK, IsCut
<1>7. Sound(LastPdu) /\ m_currRxPacketFragmentBytes = End(LastPdu.piece)
  BY <1>2, <1>3 DEF Joins, Sound, BytesOK
<1> QED
  BY <1>2, <1>3, <1>4, <1>6, <1>7 DEF Joins, PreviousFragmentFound, Context

\* What is put together after an arrival: what opened with it, or nothing.
ArrivalOK(x) ==
  /\ Context' = <<>> \/ (Opens(x) /\ LastPdu'.piece = x.piece)
  /\ Opens(x) /\ Sound(x) => Context' # <<>>

\* The receiver holds what an arrival opened, or nothing, and that only when
\* the packet is damaged or over.
LEMMA ArrivalIs ==
  ASSUME Inv, LineOK, BytesOK, NEW x, Leaves(x), ProcessPdu(x)
  PROVE  ArrivalOK(x)
<1>1. \A c : Context' = Append(c, x.piece) /\ c = Context
               => Context' # <<>> /\ LastPdu'.piece = x.piece
  <2>1. Context \in Seq(Piece) /\ x.piece \in Piece
    BY LeaveStep DEF Inv, LinkTypeOK, Context, Pdu
  <2>2. PICK c : c = Context
    OBVIOUS
  <2>3. ASSUME Context' = Append(c, x.piece)
        PROVE  Context' # <<>> /\ Context'[Len(Context')] = x.piece
    BY <2>1, <2>2, <2>3, AppendFacts
  <2> QED
    BY <2>2, <2>3 DEF LastPdu
<1>2. CASE ReceiveFull(x)
  BY <1>2 DEF ReceiveFull, Reset, ArrivalOK, Context, Opens
<1>3. CASE ReceiveEnd(x)
  BY <1>3 DEF ReceiveEnd, Reset, ArrivalOK, Context, Opens
<1>4. CASE ReceiveStart(x)
  <2>1. x.status = "START_PDU" /\ Context' = <<x.piece>>
    BY <1>4 DEF ReceiveStart, Context
  <2>2. Context' # <<>> /\ LastPdu'.piece = x.piece
    BY <2>1 DEF LastPdu
  <2> QED
    BY <2>1, <2>2 DEF ArrivalOK, Opens
<1>5. CASE ReceiveContinuation(x)
  <2>1. Opens(x) /\ GoesOn(x)
    BY <1>5 DEF ReceiveContinuation, Opens, GoesOn
  <2>2. CASE PreviousFragmentFound(x)
    <3>1. Context' = Append(Context, x.piece)
      BY <1>5, <2>2 DEF ReceiveContinuation, Context
    <3> QED
      BY <1>1, <2>1, <3>1 DEF ArrivalOK
  <2>3. CASE ~ PreviousFragmentFound(x)
    <3>1. Context' = <<>>
      BY <1>5, <2>3 DEF ReceiveContinuation, Reset, Context
    <3>2. ~ Sound(x)
      BY <2>1, <2>3, SoundGoesOn
    <3> QED
      BY <3>1, <3>2 DEF ArrivalOK
  <2> QED
    BY <2>2, <2>3
<1> QED
  BY <1>2, <1>3, <1>4, <1>5 DEF ProcessPdu

\* What arrives takes the place of what was put together.
LEMMA LineArrive ==
  ASSUME Inv, LineOK, BytesOK, NEW x, Leaves(x), ProcessPdu(x), UNCHANGED damaged
  PROVE  LineOK'
<1>1. PICK n : n = Len(channel)'
  OBVIOUS
<1>2. /\ n \in Nat /\ Line(0)' = AtReceiver' /\ Line(1)' = Line(2)
      /\ Chained(x, Line(2))
      /\ \A i \in 1 .. n : Chained(Line(i)', Line(i + 1)')
  <2>1. 1 \in 1 .. Len(channel) /\ 1 + 1 = 2
    BY LineMoves
  <2> QED
    BY <1>1, <2>1, LineMoves
<1>3. ArrivalOK(x)
  BY ArrivalIs
<1>4. Chained(AtReceiver', Line(2))
  <2>1. PICK q : q = Line(2)
    OBVIOUS
  <2>2. CASE Context' = <<>>
    <3>1. AtReceiver' = NoPiece
      BY <2>2 DEF AtReceiver, NoPiece
    <3>2. ~ (GoesOn(q) /\ Sound(q))
      BY <1>2, <1>3, <2>1, <2>2 DEF Chained, Joins, Sound, ArrivalOK
    <3> QED
      BY <2>1, <3>1, <3>2, NothingChains DEF Chained
  <2>3. CASE Context' # <<>>
    <3>1. /\ Opens(x) /\ AtReceiver'.piece = x.piece /\ Opens(AtReceiver')
      BY <1>3, <2>3 DEF ArrivalOK, AtReceiver, LastPdu, Opens
    <3> QED
      BY <1>2, <2>1, <3>1 DEF Chained, Joins, Sound
  <2> QED
    BY <2>2, <2>3
<1>5. \A p, q : Chained(p, q)' <=> Chained(p, q)
  BY DEF Chained, Sound, Joins, Opens, GoesOn, End
<1>6. ASSUME NEW i \in 0 .. n PROVE Chained(Line(i)', Line(i + 1)')
  <2>1. i = 0 \/ i \in 1 .. n
    BY <1>2
  <2>2. 0 + 1 = 1
    OBVIOUS
  <2> QED
    BY <1>2, <1>4, <2>1, <2>2
<1> QED
  BY <1>1, <1>5, <1>6 DEF LineOK

\* The bytes of a sound packet are counted one after the other.
LEMMA BytesArrive ==
  ASSUME Inv, LineOK, BytesOK, NEW x, Leaves(x), ProcessPdu(x), UNCHANGED damaged
  PROVE  BytesOK'
<1>1. SUFFICES ASSUME Context' # <<>>, Sound(LastPdu)'
               PROVE  m_currRxPacketFragmentBytes' = End(LastPdu'.piece)
  BY DEF BytesOK, End
<1>2. ArrivalOK(x)
  BY ArrivalIs
<1>3. LastPdu'.piece = x.piece /\ Sound(x)
  BY <1>1, <1>2 DEF ArrivalOK, Sound
<1>4. x.piece.from \in Nat /\ x.piece.size \in Nat /\ PduOK(x)
  BY LeaveStep DEF Pdu, Piece
<1>5. CASE ReceiveStart(x)
  BY <1>3, <1>4, <1>5 DEF ReceiveStart, PduOK, End
<1>6. CASE ReceiveContinuation(x)
  <2>1. GoesOn(x)
    BY <1>6 DEF ReceiveContinuation, GoesOn
  <2>2. PreviousFragmentFound(x) /\ m_currRxPacketFragmentBytes = x.piece.from
    BY <1>3, <2>1, SoundGoesOn
  <2> QED
    BY <1>3, <1>6, <2>2 DEF ReceiveContinuation, BytesWith, End
<1>7. CASE ReceiveFull(x) \/ ReceiveEnd(x)
  BY <1>1, <1>7 DEF ReceiveFull, ReceiveEnd, Reset, Context
<1> QED
  BY <1>5, <1>6, <1>7 DEF ProcessPdu

\* A sound packet comes out with its last PDU.
LEMMA SoundDelivered ==
  ASSUME SizesFit, Inv, LineOK, BytesOK, NEW x, Leaves(x), ProcessPdu(x), Sound(x), ~ Opens(x)
  PROVE  \E pieces \in Seq(Piece) :
           /\ delivered' = Append(delivered, pieces)
           /\ pieces[1].packet = x.piece.packet
<1>1. x \in Pdu /\ PduOK(x)
  BY LeaveStep
<1>2. x.piece \in Piece
  BY <1>1 DEF Pdu
<1>3. CASE ReceiveFull(x)
  <2>1. PICK pieces : pieces = <<x.piece>>
    OBVIOUS
  <2>2. pieces \in Seq(Piece) /\ pieces[1] = x.piece
    BY <1>2, <2>1
  <2> QED
    BY <1>3, <2>1, <2>2 DEF ReceiveFull
<1>4. CASE ReceiveEnd(x)
  <2>1. GoesOn(x)
    BY <1>4 DEF ReceiveEnd, GoesOn
  <2>2. /\ PreviousFragmentFound(x) /\ Context # <<>> /\ x.piece.packet = Context[1].packet
        /\ m_currRxPacketFragmentBytes = x.piece.from
    BY <2>1, SoundGoesOn
  <2>3. PICK size, t : size = accepted[x.piece.packet] /\ t = T
    OBVIOUS
  <2>4. size \in Nat /\ t \in Nat \ {0} /\ size < t
    <3>1. /\ accepted \in Seq(PacketSizes) /\ x.piece.packet \in DOMAIN accepted
          /\ encapsulation \in Encapsulations
      BY <1>1 DEF Inv, LinkTypeOK, PduOK, PieceOK
    <3>2. size \in PacketSizes
      BY <2>3, <3>1
    <3> QED
      BY <2>3, <3>1, <3>2, Limits, EncapsulationAssumption DEF SizesFit, T
  <2>5. size % t = size
    BY <2>4, ModSmall
  <2>6. m_currRxPacketSize = size
    BY <2>2, <2>3, <2>5 DEF Inv, ContextOK
  <2>7. x.piece.from + x.piece.size = size
    BY <1>1, <1>4, <2>3 DEF ReceiveEnd, PduOK, End
  <2>8. Completes(x)
    BY <2>2, <2>6, <2>7 DEF Completes, BytesWith
  <2>9. PICK pieces : pieces = Append(Context, x.piece)
    OBVIOUS
  <2>10. delivered' = Append(delivered, pieces)
    BY <1>4, <2>8, <2>9 DEF ReceiveEnd, Context
  <2>11. pieces \in Seq(Piece) /\ pieces[1] = Context[1]
    <3>1. Context \in Seq(Piece) /\ Len(Context) \in Nat \ {0}
      BY <2>2, LastPduType DEF Inv, LinkTypeOK, Context
    <3>2. 1 \in 1 .. Len(Context)
      BY <3>1
    <3> HIDE DEF Context
    <3> QED
      BY <1>2, <2>9, <3>1, <3>2, AppendFacts
  <2> QED
    BY <2>2, <2>10, <2>11
<1> QED
  BY <1>3, <1>4 DEF ProcessPdu, ReceiveStart, ReceiveContinuation, Opens

\* Where a packet that was accepted may be.
Waits(p) == \E i \in DOMAIN m_packets : m_packets[i].packet = p

OnItsWay(p) == \E i \in DOMAIN channel : channel[i].piece.packet = p

CameOut(p) == \E d \in DOMAIN delivered : PacketOf(d) = p

LEMMA NothingVanishesIs ==
  NothingVanishes <=>
    \A p \in DOMAIN accepted : Waits(p) \/ OnItsWay(p) \/ p \in damaged \/ CameOut(p)
  BY DEF NothingVanishes, Waits, OnItsWay, CameOut

\* What came out stays out.
LEMMA StaysOut ==
  ASSUME Inv, [LinkNext]_linkVars, NEW p, CameOut(p)
  PROVE  CameOut(p)'
<1>1. delivered' = delivered \/ \E pieces : delivered' = Append(delivered, pieces)
  BY SeenFromAbove
<1>2. CASE delivered' = delivered
  BY <1>2 DEF CameOut, PacketOf
<1>3. ASSUME NEW pieces, delivered' = Append(delivered, pieces)
      PROVE  CameOut(p)'
  <2>1. PICK S : S = Seq(Piece) \cup {pieces}
    OBVIOUS
  <2>2. delivered \in Seq(S) /\ pieces \in S
    BY <2>1 DEF Inv, LinkTypeOK
  <2>3. \A d \in DOMAIN delivered : d \in DOMAIN delivered' /\ delivered'[d] = delivered[d]
    BY <1>3, <2>2, AppendFacts
  <2> QED
    BY <2>3 DEF CameOut, PacketOf
<1> QED
  BY <1>1, <1>2, <1>3

\* A packet that is sent leaves the queue for the link.
LEMMA VanishSend ==
  ASSUME Inv, NEW x, Sends(x), SendsOn(x), channel' = Append(channel, x),
         NEW p, Waits(p) \/ OnItsWay(p)
  PROVE  Waits(p)' \/ OnItsWay(p)'
<1>1. channel \in Seq(Pdu) /\ x \in Pdu /\ m_packets \in Seq(Segment)
  BY DEF Inv, LinkTypeOK, Sends
<1>2. /\ \A i \in DOMAIN channel : i \in DOMAIN channel' /\ channel'[i] = channel[i]
      /\ Len(channel) + 1 \in DOMAIN channel' /\ channel'[Len(channel) + 1] = x
  BY <1>1, AppendFacts
<1>3. CASE OnItsWay(p)
  BY <1>2, <1>3 DEF OnItsWay
<1>4. CASE Waits(p)
  <2>1. PICK k \in DOMAIN m_packets : m_packets[k].packet = p
    BY <1>4 DEF Waits
  <2>2. CASE k = 1
    <3>1. x.piece.packet = p
      BY <2>1, <2>2 DEF Sends
    <3> QED
      BY <1>2, <3>1 DEF OnItsWay
  <2>3. CASE k > 1
    BY <2>1, <2>3 DEF SendsOn, Waits
  <2>4. k = 1 \/ k > 1
    BY <1>1, <2>1
  <2> QED
    BY <2>2, <2>3, <2>4
<1> QED
  BY <1>3, <1>4

\* A packet that is queued waits.
LEMMA VanishEnque ==
  ASSUME Inv, Enque, NothingVanishes
  PROVE  NothingVanishes'
<1>1. PICK size, s :
        /\ s = [packet |-> Len(accepted) + 1, from |-> 0, size |-> size, status |-> "FULL_PDU"]
        /\ size \in PacketSizes /\ EnquePdu(size)
  BY DEF Enque
<1>2. /\ m_packets' = Append(m_packets, s) /\ accepted' = Append(accepted, size)
      /\ UNCHANGED <<channel, damaged, delivered>>
  BY <1>1 DEF Enque, EnquePdu, Enqueue, rxVars
<1>3. accepted \in Seq(PacketSizes) /\ m_packets \in Seq(Segment \cup {s}) /\ size \in PacketSizes
  BY <1>1 DEF Inv, LinkTypeOK
<1>4. /\ DOMAIN accepted = 1 .. Len(accepted) /\ DOMAIN accepted' = 1 .. Len(accepted) + 1
      /\ Len(accepted) \in Nat
  BY <1>2, <1>3, AppendFacts
<1>5. /\ \A k \in DOMAIN m_packets : k \in DOMAIN m_packets' /\ m_packets'[k] = m_packets[k]
      /\ Len(m_packets) + 1 \in DOMAIN m_packets' /\ m_packets'[Len(m_packets) + 1] = s
  BY <1>2, <1>3, AppendFacts
<1>0. PICK q : q = Len(accepted) + 1
  OBVIOUS
<1>6. Waits(q)'
  BY <1>0, <1>1, <1>5 DEF Waits
<1>7. ASSUME NEW p \in DOMAIN accepted
      PROVE  (Waits(p) \/ OnItsWay(p) \/ p \in damaged \/ CameOut(p))'
  <2>1. Waits(p) \/ OnItsWay(p) \/ p \in damaged \/ CameOut(p)
    BY NothingVanishesIs
  <2>2. Waits(p) => Waits(p)'
    BY <1>5 DEF Waits
  <2>3. /\ OnItsWay(p) => OnItsWay(p)'
        /\ CameOut(p) => CameOut(p)'
    BY <1>2 DEF OnItsWay, CameOut, PacketOf
  <2> QED
    BY <1>2, <2>1, <2>2, <2>3
<1>8. \A p \in DOMAIN accepted' : p \in DOMAIN accepted \/ p = q
  BY <1>0, <1>4
<1>9. \A p \in DOMAIN accepted' : (Waits(p) \/ OnItsWay(p) \/ p \in damaged \/ CameOut(p))'
  BY <1>6, <1>7, <1>8
<1> QED
  BY <1>9 DEF NothingVanishes, Waits, OnItsWay, CameOut

\* What leaves the link is not the last of a sound packet, or the packet comes out.
LEMMA VanishArrive ==
  ASSUME SizesFit, Inv, LineOK, BytesOK, NEW x, Leaves(x), ProcessPdu(x),
         NEW p, OnItsWay(p), p \notin damaged
  PROVE  Waits(p)' \/ OnItsWay(p)' \/ CameOut(p)'
<1>1. PICK n : n = Len(channel)
  OBVIOUS
<1>2. /\ n \in Nat \ {0} /\ DOMAIN channel = 1 .. n /\ DOMAIN channel' = 1 .. n - 1
      /\ \A i \in 1 .. n - 1 : channel'[i] = channel[i + 1]
      /\ x = channel[1] /\ channel \in Seq(Pdu)
  <2>1. channel \in Seq(Pdu) /\ channel # <<>> /\ channel' = Tail(channel) /\ x = channel[1]
    BY DEF Inv, LinkTypeOK, Leaves
  <2> QED
    BY <1>1, <2>1, TailFacts
<1>3. m_packets' = m_packets
  BY DEF Leaves, txVars, queueVars
<1>4. PICK i \in 1 .. n : channel[i].piece.packet = p
  BY <1>2 DEF OnItsWay
<1>5. CASE i > 1
  <2>1. i - 1 \in 1 .. n - 1 /\ (i - 1) + 1 = i
    BY <1>2, <1>5
  <2> QED
    BY <1>2, <1>4, <2>1 DEF OnItsWay
<1>6. CASE i = 1
  <2>1. x.piece.packet = p /\ Sound(x)
    BY <1>2, <1>4, <1>6 DEF Sound
  <2>2. CASE Opens(x)
    <3>1. Chained(x, Line(2))
      BY LineMoves
    <3>2. Joins(x, Line(2))
      BY <2>1, <2>2, <3>1 DEF Chained
    <3>3. CASE n > 1
      <4>1. 2 \in 1 .. n /\ 1 \in 1 .. n - 1 /\ 1 + 1 = 2
        BY <1>2, <3>3
      <4>2. Line(2) = channel'[1]
        BY <1>1, <1>2, <4>1, LineEnds
      <4> QED
        BY <1>2, <2>1, <3>2, <4>1, <4>2 DEF Joins, OnItsWay
    <3>4. CASE n = 1
      <4>1. Line(2) = AtSender
        <5>1. n + 1 = 2
          BY <3>4
        <5> QED
          BY <1>1, <1>2, <5>1, LineEnds
      <4>2. RestInFront /\ AtSender.piece.packet = m_packets[1].packet
        BY <3>2, <4>1, NothingChains DEF Joins, AtSender, RestOfPacket
      <4>3. m_packets[1].packet = p
        BY <2>1, <3>2, <4>1, <4>2 DEF Joins
      <4>4. 1 \in DOMAIN m_packets
        BY <4>2, FrontOfQueue DEF Inv, RestInFront
      <4> QED
        BY <1>3, <4>3, <4>4 DEF Waits
    <3> QED
      BY <1>2, <3>3, <3>4
  <2>3. CASE ~ Opens(x)
    <3>1. PICK pieces \in Seq(Piece) :
            delivered' = Append(delivered, pieces) /\ pieces[1].packet = p
      BY <2>1, <2>3, SoundDelivered
    <3>2. delivered \in Seq(Seq(Piece))
      BY DEF Inv, LinkTypeOK
    <3>3. Len(delivered) + 1 \in DOMAIN delivered' /\ delivered'[Len(delivered) + 1] = pieces
      BY <3>1, <3>2, AppendFacts
    <3> QED
      BY <3>1, <3>3 DEF CameOut, PacketOf
  <2> QED
    BY <2>2, <2>3
<1> QED
  BY <1>2, <1>5, <1>6

\* A PDU that is lost damages its packet; the others stay on their way.
LEMMA VanishLose ==
  ASSUME Inv, Lose, NEW p, OnItsWay(p)
  PROVE  OnItsWay(p)' \/ p \in damaged'
<1>1. /\ channel # <<>> /\ channel' = Tail(channel) /\ channel \in Seq(Pdu)
      /\ damaged' = damaged \cup {Head(channel).piece.packet}
  BY DEF Lose, Inv, LinkTypeOK
<1>2. PICK n : n = Len(channel)
  OBVIOUS
<1>3. /\ n \in Nat \ {0} /\ DOMAIN channel = 1 .. n /\ DOMAIN channel' = 1 .. n - 1
      /\ Head(channel) = channel[1]
      /\ \A i \in 1 .. n - 1 : channel'[i] = channel[i + 1]
  BY <1>1, <1>2, TailFacts
<1>4. PICK i \in 1 .. n : channel[i].piece.packet = p
  BY <1>3 DEF OnItsWay
<1>5. CASE i = 1
  BY <1>1, <1>3, <1>4, <1>5
<1>6. CASE i > 1
  <2>1. i - 1 \in 1 .. n - 1 /\ (i - 1) + 1 = i
    BY <1>3, <1>6
  <2> QED
    BY <1>3, <1>4, <2>1 DEF OnItsWay
<1> QED
  BY <1>3, <1>5, <1>6

\* Every step keeps the chain of every sound packet whole, and loses none.
LEMMA IntactStep ==
  ASSUME SizesFit, Inv, Intact, [LinkNext]_linkVars
  PROVE  Intact'
<1>1. LinkTypeOK /\ SizesOK /\ QueueOK /\ LineOK /\ BytesOK /\ NothingVanishes
  BY DEF Inv, Intact
<1>2. ASSUME NEW x, Sends(x), SendsOn(x), channel' = Append(channel, x),
             UNCHANGED <<rxVars, damaged, accepted>>
      PROVE  Intact'
  <2>1. LineOK'
    BY <1>1, <1>2, LineSend
  <2>2. BytesOK'
    BY <1>1, <1>2 DEF BytesOK, rxVars, contextVars, Context, LastPdu, Sound, End
  <2>3. \A p : CameOut(p) => CameOut(p)'
    BY <1>2 DEF rxVars, CameOut, PacketOf
  <2>4. \A p : Waits(p) \/ OnItsWay(p) => Waits(p)' \/ OnItsWay(p)'
    BY <1>2, VanishSend
  <2>5. \A p \in DOMAIN accepted : Waits(p) \/ OnItsWay(p) \/ p \in damaged \/ CameOut(p)
    BY <1>1, NothingVanishesIs
  <2>6. \A p \in DOMAIN accepted' : (Waits(p) \/ OnItsWay(p) \/ p \in damaged \/ CameOut(p))'
    BY <1>2, <2>3, <2>4, <2>5
  <2>7. NothingVanishes'
    BY <2>6 DEF NothingVanishes, Waits, OnItsWay, CameOut
  <2> QED
    BY <2>1, <2>2, <2>7 DEF Intact
<1>3. ASSUME NEW bytes \in TxOpportunities, NotifyTxOpportunity(bytes)
      PROVE  Intact'
  <2>1. UNCHANGED <<damaged, lostInRow>>
    BY <1>3 DEF NotifyTxOpportunity
  <2>2. CASE SendRest(bytes) /\ channel' = Append(channel, RestPdu)
    <3>1. Sends(RestPdu) /\ SendsOn(RestPdu)
      BY <1>1, <2>2, RestIsSent, RestSendsOn
    <3>2. UNCHANGED <<rxVars, accepted>>
      BY <2>2 DEF SendRest
    <3>3. PICK x : x = RestPdu
      OBVIOUS
    <3> QED
      BY <1>2, <2>1, <2>2, <3>1, <3>2, <3>3
  <2>3. CASE SendFragment(bytes) /\ channel' = Append(channel, FragmentPdu(bytes))
    <3>1. Sends(FragmentPdu(bytes)) /\ SendsOn(FragmentPdu(bytes))
      BY <1>1, <2>3, FragmentIsSent, FragmentSendsOn
    <3>2. UNCHANGED <<rxVars, accepted>>
      BY <2>3 DEF SendFragment
    <3>3. PICK x : x = FragmentPdu(bytes)
      OBVIOUS
    <3> QED
      BY <1>2, <2>1, <2>3, <3>1, <3>2, <3>3
  <2> QED
    BY <1>3, <2>2, <2>3 DEF NotifyTxOpportunity
<1>4. CASE Enque
  <2>1. UNCHANGED <<rxVars, channel, damaged, fragmented, m_txFragmentId>>
    BY <1>4 DEF Enque, EnquePdu
  <2>2. PICK s : m_packets' = Append(m_packets, s) /\ s.status = "FULL_PDU"
    BY <1>4 DEF Enque, EnquePdu, Enqueue
  <2>3. PICK S : S = Segment \cup {s}
    OBVIOUS
  <2>4. m_packets \in Seq(S) /\ s \in S /\ m_packets \in Seq(Segment)
    BY <1>1, <2>3 DEF LinkTypeOK
  <2>5. /\ (RestInFront' <=> RestInFront)
        /\ RestInFront => m_packets'[1] = m_packets[1]
    <3>1. CASE m_packets = <<>>
      <4>1. m_packets'[1] = s
        BY <2>2, <2>4, <3>1
      <4> QED
        BY <2>2, <3>1, <4>1 DEF RestInFront
    <3>2. CASE m_packets # <<>>
      <4>1. 1 \in 1 .. Len(m_packets)
        BY <2>4, <3>2
      <4>2. m_packets'[1] = m_packets[1] /\ m_packets' # <<>>
        BY <2>2, <2>4, <4>1, AppendFacts
      <4> QED
        BY <3>2, <4>2 DEF RestInFront
    <3> QED
      BY <3>1, <3>2
  <2>6. AtSender' = AtSender
    BY <2>1, <2>5 DEF AtSender, RestOfPacket, NoPiece
  <2>7. AtReceiver' = AtReceiver
    BY <2>1 DEF rxVars, contextVars, AtReceiver, LastPdu, Context, NoPiece
  <2>8. LineOK'
    BY <1>1, <2>1, <2>6, <2>7, LineKept
  <2>9. BytesOK'
    BY <1>1, <2>1 DEF BytesOK, rxVars, contextVars, Context, LastPdu, Sound, End
  <2>10. NothingVanishes'
    BY <1>1, <1>4, VanishEnque
  <2> QED
    BY <2>8, <2>9, <2>10 DEF Intact
<1>5. ASSUME Arrive \/ Lose,
             LineOK', BytesOK', UNCHANGED <<accepted, m_packets>>,
             \A p : OnItsWay(p) /\ p \notin damaged'
                      => Waits(p)' \/ OnItsWay(p)' \/ CameOut(p)',
             damaged \subseteq damaged'
      PROVE  Intact'
  <2>1. \A p : Waits(p) => Waits(p)'
    BY <1>5 DEF Waits
  <2>2. \A p : CameOut(p) => CameOut(p)'
    BY StaysOut
  <2>3. \A p \in DOMAIN accepted : Waits(p) \/ OnItsWay(p) \/ p \in damaged \/ CameOut(p)
    BY <1>1, NothingVanishesIs
  <2>4. \A p \in DOMAIN accepted' : (Waits(p) \/ OnItsWay(p) \/ p \in damaged \/ CameOut(p))'
    BY <1>5, <2>1, <2>2, <2>3
  <2>5. NothingVanishes'
    BY <2>4 DEF NothingVanishes, Waits, OnItsWay, CameOut
  <2> QED
    BY <1>5, <2>5 DEF Intact
<1>6. CASE Arrive
  <2>1. PICK x : x = channel[1]
    OBVIOUS
  <2>2. Leaves(x) /\ damaged' = damaged
    BY <1>6, <2>1 DEF Arrive, ProcessPdu, Leaves
  <2>3. ProcessPdu(x)
    BY <1>6, <2>2, LeaveStep DEF Arrive
  <2>4. LineOK' /\ BytesOK'
    BY <1>1, <2>2, <2>3, LineArrive, BytesArrive
  <2>5. \A p : OnItsWay(p) /\ p \notin damaged => Waits(p)' \/ OnItsWay(p)' \/ CameOut(p)'
    BY <1>1, <2>2, <2>3, VanishArrive
  <2>6. UNCHANGED <<accepted, m_packets>>
    BY <2>2 DEF Leaves, txVars, queueVars
  <2> QED
    BY <1>5, <1>6, <2>2, <2>4, <2>5, <2>6
<1>7. CASE Lose
  <2>1. UNCHANGED <<accepted, m_packets, rxVars>> /\ damaged \subseteq damaged'
    BY <1>7 DEF Lose, txVars, queueVars
  <2>2. LineOK'
    BY <1>1, <1>7, LineLose
  <2>3. BytesOK'
    BY <1>1, <2>1 DEF BytesOK, rxVars, contextVars, Context, LastPdu, Sound, End
  <2>4. \A p : OnItsWay(p) => OnItsWay(p)' \/ p \in damaged'
    BY <1>7, VanishLose
  <2> QED
    BY <1>5, <1>7, <2>1, <2>2, <2>3, <2>4
<1>8. CASE ReadStatistics \/ UNCHANGED linkVars
  <2>1. UNCHANGED <<m_packets, accepted, fragmented, m_txFragmentId, rxVars, channel, damaged>>
    BY <1>8 DEF ReadStatistics, GetQueueStatistics, linkVars, txVars, queueVars
  <2>2. AtSender' = AtSender /\ AtReceiver' = AtReceiver
    BY <2>1 DEF rxVars, contextVars, AtReceiver, LastPdu, Context, NoPiece,
                AtSender, RestOfPacket, RestInFront
  <2>3. LineOK'
    BY <1>1, <2>1, <2>2, LineKept
  <2>4. BytesOK'
    BY <1>1, <2>1 DEF BytesOK, rxVars, contextVars, Context, LastPdu, Sound, End
  <2>5. NothingVanishes'
    BY <1>1, <2>1 DEF NothingVanishes, PacketOf, rxVars
  <2> QED
    BY <2>3, <2>4, <2>5 DEF Intact
<1> QED
  BY <1>3, <1>4, <1>6, <1>7, <1>8 DEF LinkNext

\* When every packet is smaller than the field of the total length counts, no
\* opportunity and no arrival makes an encapsulator drop a packet that it was
\* given all of.  A packet of just that many bytes does vanish when it is cut:
\* its total length is 0, which no end of a packet matches.
THEOREM PacketsDoNotVanish == ASSUME SizesFit PROVE LinkSpec => []NothingVanishes
<1>1. LinkInit => Intact
  <2> SUFFICES ASSUME LinkInit PROVE Intact
    OBVIOUS
  <2>1. channel = <<>> /\ Context = <<>> /\ accepted = <<>> /\ m_packets = <<>>
    BY DEF LinkInit, EncapsulatorInit, QueueInit, Context
  <2>2. \A i \in 0 .. 0 : Line(i) = NoPiece /\ Line(i + 1) = NoPiece
    BY <2>1 DEF Line, AtReceiver, AtSender, RestInFront
  <2>3. Len(channel) = 0
    BY <2>1
  <2>4. LineOK
    BY <2>2, <2>3, NothingChains DEF LineOK, Chained
  <2>5. BytesOK /\ NothingVanishes
    BY <2>1 DEF BytesOK, NothingVanishes
  <2> QED
    BY <2>4, <2>5 DEF Intact
<1>2. Inv /\ Intact /\ [LinkNext]_linkVars => Intact'
  BY IntactStep
<1>3. Intact => NothingVanishes
  BY DEF Intact
<1> QED
  BY <1>1, <1>2, <1>3, LinkInvariant, PTL DEF LinkSpec

=============================================================================
