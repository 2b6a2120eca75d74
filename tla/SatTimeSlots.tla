---------------------------- MODULE SatTimeSlots ----------------------------
(***************************************************************************)
(* GenerateTimeSlots: the slots of a frame are laid out carrier by carrier *)
(* for one UT after the other, each UT one RC after the other, and entered *)
(* into TBTPs of a limited size.  UTs, carriers and RCs are shuffled.      *)
(*                                                                         *)
(* The loop of the code is a sequence of steps here, one for each slot.    *)
(***************************************************************************)
EXTENDS SatFrameAllocator

CONSTANTS
  BurstLengths,  \* m_burstLenghts, symbols
  RobustLength,  \* burst length of m_mostRobustWaveform, which control slots use
  MaxTbtpSize,   \* m_maxBbFrameSize, bytes
  BodySize,      \* m_tbtpBodySizeInBytes
  FrameSize,     \* m_tbtpFrameBodySizeInBytes
  SlotSize       \* GetTimeSlotInfoSizeInBytes

ASSUME SlotAssumption ==
  /\ BurstLengths \in Seq(Nat \ {0})
  /\ RobustLength \in Nat \ {0}
  /\ BodySize \in Nat /\ FrameSize \in Nat /\ SlotSize \in Nat \ {0} /\ MaxTbtpSize \in Nat
  /\ BodySize + FrameSize + SlotSize <= MaxTbtpSize

VARIABLES
  slots,            \* the slots generated
  tbtps,            \* the TBTPs filled: their frames and their number of slots
  frame,            \* the frame whose slots are generated, or NoFrame
  uts,              \* its UTs to go, the current one first
  carriers,         \* its carriers to go, the current one first
  rcs,              \* RCs to go of the current UT; <<>> between UTs
  carrierSymbolsToUse,
  utSymbolsToUse,
  utSymbolsLeft,
  rcSymbolsLeft,
  ctrlSlotPresent,  \* whether the current UT has got its control slot
  m_rcBasedAllocationEnabled  \* attribute: slots are counted for each RC

cursorVars == <<frame, uts, carriers, rcs, carrierSymbolsToUse, utSymbolsToUse,
                utSymbolsLeft, rcSymbolsLeft, ctrlSlotPresent>>
slotVars == <<slots, tbtps, cursorVars, m_rcBasedAllocationEnabled>>

NoFrame == "none"
EmptyTbtp == [frames |-> {}, count |-> 0]

SlotsInit ==
  /\ slots = {}
  /\ tbtps = <<>>
  /\ frame = NoFrame
  /\ uts = <<>>
  /\ carriers = <<>>
  /\ rcs = <<>>
  /\ carrierSymbolsToUse = 0
  /\ utSymbolsToUse = 0
  /\ utSymbolsLeft = 0
  /\ rcSymbolsLeft = 0
  /\ ctrlSlotPresent = FALSE
  /\ m_rcBasedAllocationEnabled \in BOOLEAN

\* SetDaTimeslot and SetRaChannel: the size of the TBTP counts each frame once.
GetSizeInBytes(tbtp) == BodySize + Cardinality(tbtp.frames) * FrameSize + tbtp.count * SlotSize

WithSlots(tbtp, f, n) == [frames |-> tbtp.frames \cup {f}, count |-> tbtp.count + n]

\* Mutant: a TBTP takes one slot more than it has room for.
RoomInByCount(all, size) ==
  IF GetSizeInBytes(Last(all)) > MaxTbtpSize - SlotSize + 1 THEN Append(all, EmptyTbtp) ELSE all

\* CreateNewTbtp, when something of this size does not fit into the last TBTP.
RoomIn(all, size) ==
  IF GetSizeInBytes(Last(all)) + size > MaxTbtpSize THEN Append(all, EmptyTbtp) ELSE all

\* The TBTPs of a superframe, none of which has slots yet.
StartTbtps ==
  /\ tbtps' = <<EmptyTbtp>>
  /\ slots' = {}
  /\ UNCHANGED <<cursorVars, m_rcBasedAllocationEnabled>>

\* AddRaChannels: the slots of a random access channel, as many as fit into the
\* last TBTP and the others into new ones.  The room is unsigned: without room
\* for the frame's information it is all but unlimited.
RaRoom(tbtp) ==
  LET room == MaxTbtpSize - GetSizeInBytes(tbtp) - FrameSize
  IN  IF room < 0 THEN MaxTbtpSize ELSE room \div SlotSize

AddRaChannel(f, count) ==
  LET now == AtMost(count, RaRoom(Last(tbtps)))
      each == RaRoom(EmptyTbtp)
      filled == [tbtps EXCEPT ![Len(tbtps)] = WithSlots(@, f, now)]
      new == [i \in 1 .. (count - now + each - 1) \div each |->
                WithSlots(EmptyTbtp, f, AtMost(each, count - now - (i - 1) * each))]
  IN  /\ tbtps' = filled \o new
      /\ UNCHANGED <<slots, cursorVars, m_rcBasedAllocationEnabled>>

TotalOf(ut) == GetTotalSymbols(m_utAllocs[frame][ut].allocation.total)
TotalOfRc(ut, rc) == GetTotalSymbols(m_utAllocs[frame][ut].allocation.rc[rc])

\* The shuffles of SortUts and SortCarriers.
StartFrame(f) ==
  /\ frame' = f
  /\ uts' \in SetToSeqs(AllocatedTo(f))
  /\ carriers' \in SetToSeqs(Carrier)
  /\ carrierSymbolsToUse' = CarrierSymbols
  /\ UNCHANGED <<slots, tbtps, rcs, utSymbolsToUse, utSymbolsLeft, rcSymbolsLeft,
                 ctrlSlotPresent, m_rcBasedAllocationEnabled>>

\* The next UT.  SortUtRcs leaves RC 0 in front.
StartUt ==
  /\ frame # NoFrame
  /\ uts # <<>>
  /\ carriers # <<>>
  /\ rcs = <<>>
  /\ tbtps' = RoomIn(tbtps, SlotSize + FrameSize)
  /\ \E others \in SetToSeqs(Rc \ {0}) : rcs' = <<0>> \o others
  /\ rcSymbolsLeft' = TotalOfRc(Head(uts), 0)
  /\ utSymbolsLeft' = TotalOf(Head(uts))
  /\ utSymbolsToUse' = CarrierSymbols
  /\ ctrlSlotPresent' = FALSE
  /\ UNCHANGED <<slots, frame, uts, carriers, carrierSymbolsToUse,
                 m_rcBasedAllocationEnabled>>

\* GetOptimalBurtsLengthInSymbols: in the order of the lengths, a longer burst
\* is better as long as the best one is too short, then a shorter one is.
GetOptimalBurstLength(symbolsToUse, symbolsLeft) ==
  FoldLeft(LAMBDA best, length :
             IF length <= symbolsToUse
                /\ (IF best < symbolsLeft THEN best < length ELSE length < best)
             THEN length ELSE best, 0, BurstLengths)

\* Mutant: the UT's other carriers are not counted.
SymbolsToUseOfCarrier == carrierSymbolsToUse

SymbolsToUse == AtMost(carrierSymbolsToUse, utSymbolsToUse)

\* CreateCtrlTimeSlot is tried once for the first RC, until it succeeds.
CtrlSlotFits ==
  /\ Len(rcs) = Cardinality(Rc)
  /\ m_utAllocs[frame][Head(uts)].ctrl
  /\ ~ctrlSlotPresent
  /\ RobustLength <= SymbolsToUse

\* CreateTimeSlot: the length that a slot of the current RC would have.
SlotLength ==
  GetOptimalBurstLength(SymbolsToUse,
    IF m_rcBasedAllocationEnabled \/ SymbolsToUse < utSymbolsLeft THEN rcSymbolsLeft ELSE utSymbolsLeft)

\* What the slot leaves: of the carrier, of the UT's time, of what the UT and
\* the RC are to get.
NewSlot(length) ==
  [ut |-> Head(uts), rc |-> Head(rcs), frame |-> frame, carrier |-> Head(carriers),
   start |-> CarrierSymbols - carrierSymbolsToUse, length |-> length]

EnterSlot(length) ==
  /\ slots' = slots \cup {NewSlot(length)}
  /\ tbtps' = LET all == RoomIn(tbtps, SlotSize)
              IN  [all EXCEPT ![Len(all)] = WithSlots(@, frame, 1)]

Left(carrier, ut, rc, total) == [carrier |-> carrier, ut |-> ut, rc |-> rc, total |-> total]

AfterSlot(length) ==
  Left(carrierSymbolsToUse - length, utSymbolsToUse - length, rcSymbolsLeft - length,
       utSymbolsLeft - (IF m_rcBasedAllocationEnabled THEN AtMost(rcSymbolsLeft, length) ELSE length))

\* Mutant: the rest of a carrier does not take the UT's time.
AfterRestOfCarrier ==
  Left(carrierSymbolsToUse - SymbolsToUse,
       utSymbolsToUse - (IF carrierSymbolsToUse <= utSymbolsToUse THEN 0 ELSE SymbolsToUse),
       rcSymbolsLeft, utSymbolsLeft)

\* No burst fits: the rest of the carrier or of the UT's time is lost.
AfterRest ==
  Left(carrierSymbolsToUse
         - (IF carrierSymbolsToUse <= utSymbolsToUse THEN SymbolsToUse ELSE 0),
       utSymbolsToUse - SymbolsToUse, rcSymbolsLeft, utSymbolsLeft)

\* Mutant: every RC starts with what RC 0 gets.
RcSymbolsOfRc0(left, rcsLeft) ==
  IF left.rc > 0 \/ rcsLeft = <<>> THEN left.rc ELSE TotalOfRc(Head(uts), 0)

RcSymbolsAfter(left, rcsLeft) ==
  IF left.rc > 0 \/ rcsLeft = <<>> THEN left.rc ELSE TotalOfRc(Head(uts), Head(rcsLeft))

\* The next carrier, the next RC and the end of the UT.
Advance(left) ==
  LET carriersLeft == IF left.carrier <= 0 THEN Tail(carriers) ELSE carriers
      rcsLeft == IF left.rc > 0 THEN rcs ELSE Tail(rcs)
      ends == \/ left.total <= 0 \/ left.ut <= 0
              \/ carriersLeft = <<>> \/ rcsLeft = <<>>
  IN  /\ carriers' = carriersLeft
      /\ carrierSymbolsToUse' = IF left.carrier <= 0 THEN CarrierSymbols ELSE left.carrier
      /\ utSymbolsToUse' = left.ut
      /\ rcSymbolsLeft' = RcSymbolsAfter(left, rcsLeft)
      /\ utSymbolsLeft' = IF ends THEN 0 ELSE left.total
      /\ rcs' = IF ends THEN <<>> ELSE rcsLeft
      /\ uts' = IF ends THEN Tail(uts) ELSE uts
      /\ UNCHANGED <<frame, m_rcBasedAllocationEnabled>>

CtrlSlot ==
  /\ rcs # <<>> /\ utSymbolsLeft > 0
  /\ CtrlSlotFits
  /\ EnterSlot(RobustLength)
  /\ Advance(AfterSlot(RobustLength))
  /\ ctrlSlotPresent' = TRUE

TrcSlot ==
  /\ rcs # <<>> /\ utSymbolsLeft > 0
  /\ ~CtrlSlotFits
  /\ SlotLength > 0 /\ rcSymbolsLeft > 0
  /\ EnterSlot(SlotLength)
  /\ Advance(AfterSlot(SlotLength))
  /\ UNCHANGED ctrlSlotPresent

NoSlot ==
  /\ rcs # <<>> /\ utSymbolsLeft > 0
  /\ ~CtrlSlotFits
  /\ SlotLength = 0 \/ rcSymbolsLeft <= 0
  /\ Advance(IF rcSymbolsLeft > 0 THEN AfterRest
             ELSE Left(carrierSymbolsToUse, utSymbolsToUse, rcSymbolsLeft, utSymbolsLeft))
  /\ UNCHANGED <<slots, tbtps, ctrlSlotPresent>>

\* A UT that is allocated nothing.
SkipUt ==
  /\ rcs # <<>> /\ utSymbolsLeft <= 0
  /\ rcs' = <<>>
  /\ uts' = Tail(uts)
  /\ UNCHANGED <<slots, tbtps, frame, carriers, carrierSymbolsToUse, utSymbolsToUse,
                 utSymbolsLeft, rcSymbolsLeft, ctrlSlotPresent, m_rcBasedAllocationEnabled>>

FrameIsDone == frame # NoFrame /\ rcs = <<>> /\ (uts = <<>> \/ carriers = <<>>)
=============================================================================
