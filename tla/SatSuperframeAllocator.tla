----------------------- MODULE SatSuperframeAllocator -----------------------
(***************************************************************************)
(* The superframe of the beam scheduler: UTs are admitted as long as their *)
(* minimum rates fit; every superframe their requests are allocated to the *)
(* frames, shared, turned into slots and announced in TBTPs.               *)
(***************************************************************************)
EXTENDS SatTimeSlots

CONSTANTS
  MinimumRate,     \* Ut -> Rc -> the constant and the minimum rate, symbols
  Demands,         \* what a UT may ask for: Rc -> RBDC and VBDC, symbols
  CtrlSlotPeriod,  \* m_controlSlotsEnabled
  RaChannels       \* random access channels: their frames and slot counts

ASSUME SuperframeAssumption ==
  /\ MinimumRate \in [Ut -> [Rc -> [cra : Nat, minRbdc : Nat]]]
  /\ Demands \subseteq [Rc -> [rbdc : Nat, vbdc : Nat]]
  /\ CtrlSlotPeriod \in BOOLEAN
  /\ \A i \in DOMAIN RaChannels : RaChannels[i].count \in Nat \ {0}

VARIABLES
  m_utInfos,                    \* the UTs admitted
  m_minimumRateBasedBytesLeft,  \* what is left for the minimum rates
  phase,                        \* how far the superframe is
  requests,                     \* UT -> request of this superframe
  toAllocate,                   \* UTs to allocate, in the order of their C/N0
  channelsLeft,                 \* random access channels to enter
  framesLeft                    \* frames to generate slots for

superframeVars == <<m_utInfos, m_minimumRateBasedBytesLeft, phase, requests, toAllocate,
                    channelsLeft, framesLeft>>
vars == <<frameVars, slotVars, superframeVars>>

Init ==
  /\ FrameInit
  /\ SlotsInit
  /\ m_utInfos = {}
  /\ m_minimumRateBasedBytesLeft = Cardinality(Frame) * TotalSymbols
  /\ phase = "idle"
  /\ requests = <<>>
  /\ toAllocate = <<>>
  /\ channelsLeft = <<>>
  /\ framesLeft = <<>>

\* GetMinRateBasedBytes.
MinRateBased(ut) ==
  SumFunction([i \in Rc |-> AtLeast(MinimumRate[ut][i].cra, MinimumRate[ut][i].minRbdc)])

\* AddUtInfo with ReserveMinimumRate, which ends the simulation for a UT that
\* does not fit.
AddUtInfo(ut) ==
  LET toCheck == MinRateBased(ut) + (IF CtrlSlotPeriod THEN RobustLength ELSE 0)
  IN  /\ phase = "idle"
      /\ ut \notin m_utInfos
      /\ toCheck <= AtMost(m_minimumRateBasedBytesLeft, CarrierSymbols)
      /\ m_minimumRateBasedBytesLeft' = m_minimumRateBasedBytesLeft - MinRateBased(ut)
      /\ m_utInfos' = m_utInfos \cup {ut}
      /\ UNCHANGED <<frameVars, slotVars, phase, requests, toAllocate, channelsLeft, framesLeft>>

\* RemoveUtInfo with ReleaseMinimumRate.
RemoveUtInfo(ut) ==
  /\ phase = "idle"
  /\ ut \in m_utInfos
  /\ m_minimumRateBasedBytesLeft' = m_minimumRateBasedBytesLeft + MinRateBased(ut)
  /\ m_utInfos' = m_utInfos \ {ut}
  /\ UNCHANGED <<frameVars, slotVars, phase, requests, toAllocate, channelsLeft, framesLeft>>

\* The request of an RC: the minimum RBDC counts only beyond the CRA, and only
\* when RBDC is asked for.
RequestOfRc(ut, i, demand, ctrl) ==
  [cra |-> MinimumRate[ut][i].cra + (IF ctrl /\ i = 0 THEN RobustLength ELSE 0),
   minRbdc |-> IF demand[i].rbdc = 0 THEN 0
               ELSE AtLeast(0, MinimumRate[ut][i].minRbdc - MinimumRate[ut][i].cra),
   rbdc |-> demand[i].rbdc,
   vbdc |-> demand[i].vbdc]

RequestOf(ut, demand, ctrl) ==
  LET byRc == [i \in Rc |-> RequestOfRc(ut, i, demand, ctrl)]
  IN  [total |-> [cra |-> SumFunction([i \in Rc |-> byRc[i].cra]),
                  minRbdc |-> SumFunction([i \in Rc |-> byRc[i].minRbdc]),
                  rbdc |-> SumFunction([i \in Rc |-> byRc[i].rbdc]),
                  vbdc |-> SumFunction([i \in Rc |-> byRc[i].vbdc])],
       rc |-> byRc]

\* What a UT may ask for: the DAMA entry keeps a rate at its minimum.
PossibleDemands(ut) ==
  {d \in Demands : \A i \in Rc :
     d[i].rbdc = 0 \/ d[i].rbdc >= MinimumRate[ut][i].minRbdc - MinimumRate[ut][i].cra}

PossibleRequests(ut) ==
  UNION {{[req |-> RequestOf(ut, demand, ctrl), ctrl |-> ctrl] : demand \in PossibleDemands(ut)} :
           ctrl \in IF CtrlSlotPeriod THEN BOOLEAN ELSE {FALSE}}

\* Schedule: UpdateDamaEntriesWithReqs, and PreAllocateSymbols of the
\* superframe allocator up to the first UT.
Start ==
  /\ phase = "idle"
  /\ m_utInfos # {}
  /\ requests' \in {all \in [m_utInfos -> UNION {PossibleRequests(ut) : ut \in m_utInfos}] :
                      \A ut \in m_utInfos : all[ut] \in PossibleRequests(ut)}
  /\ toAllocate' \in SetToSeqs(m_utInfos)
  /\ RemoveAllocations
  /\ phase' = "allocate"
  /\ UNCHANGED <<slotVars, m_utInfos, m_minimumRateBasedBytesLeft, channelsLeft, framesLeft>>

\* AllocateBasedOnCc picks the frame with the least load at a level.
GetCcLoad(level, f) == Used(level, m_preAllocated[f]) - TotalSymbols

LowestLoad(level, supported, f) ==
  f \in supported /\ \A g \in supported : GetCcLoad(level, f) <= GetCcLoad(level, g)

\* AllocateToFrame: the highest level at which that frame has room, among the
\* frames with a waveform for the UT's C/N0; without one the UT gets nothing.
AllocateToFrame(supported) ==
  LET ut == Head(toAllocate)
      req == requests[ut].req
      fits(level, f) == LowestLoad(level, supported, f) /\ CanAllocate(level, f, req)
      refused(level) == \E f \in supported : LowestLoad(level, supported, f) /\ ~CanAllocate(level, f, req)
  IN  /\ phase = "allocate"
      /\ toAllocate # <<>>
      /\ IF supported = {} THEN UNCHANGED frameVars
         ELSE \E i \in DOMAIN Levels, f \in supported :
                /\ fits(Levels[i], f)
                /\ \A j \in 1 .. i - 1 : refused(Levels[j])
                /\ Allocate(Levels[i], f, ut, req, requests[ut].ctrl)
      /\ toAllocate' = Tail(toAllocate)
      /\ UNCHANGED <<slotVars, m_utInfos, m_minimumRateBasedBytesLeft, phase, requests,
                     channelsLeft, framesLeft>>

\* All UTs are allocated: the symbols of every frame are shared.
Share ==
  /\ phase = "allocate"
  /\ toAllocate = <<>>
  /\ PreAllocateSymbols
  /\ StartTbtps
  /\ phase' = "channels"
  /\ channelsLeft' = RaChannels
  /\ UNCHANGED <<m_utInfos, m_minimumRateBasedBytesLeft, requests, toAllocate, framesLeft>>

\* AddRaChannels, one channel after the other.
EnterRaChannel ==
  /\ phase = "channels"
  /\ channelsLeft # <<>>
  /\ AddRaChannel(Head(channelsLeft).frame, Head(channelsLeft).count)
  /\ channelsLeft' = Tail(channelsLeft)
  /\ UNCHANGED <<frameVars, m_utInfos, m_minimumRateBasedBytesLeft, phase, requests,
                 toAllocate, framesLeft>>

StartFrames ==
  /\ phase = "channels"
  /\ channelsLeft = <<>>
  /\ \E order \in SetToSeqs(Frame) :
       /\ StartFrame(Head(order))
       /\ framesLeft' = Tail(order)
  /\ phase' = "slots"
  /\ UNCHANGED <<frameVars, m_utInfos, m_minimumRateBasedBytesLeft, requests, toAllocate,
                 channelsLeft>>

Slots ==
  /\ phase = "slots"
  /\ StartUt \/ CtrlSlot \/ TrcSlot \/ NoSlot \/ SkipUt
  /\ UNCHANGED <<frameVars, superframeVars>>

NextFrame ==
  /\ phase = "slots"
  /\ FrameIsDone
  /\ framesLeft # <<>>
  /\ StartFrame(Head(framesLeft))
  /\ framesLeft' = Tail(framesLeft)
  /\ UNCHANGED <<frameVars, m_utInfos, m_minimumRateBasedBytesLeft, phase, requests,
                 toAllocate, channelsLeft>>

\* The TBTPs are sent; the next superframe starts from nothing.
SendTbtps ==
  /\ phase = "slots"
  /\ FrameIsDone
  /\ framesLeft = <<>>
  /\ phase' = "sent"
  /\ UNCHANGED <<frameVars, slotVars, m_utInfos, m_minimumRateBasedBytesLeft, requests,
                 toAllocate, channelsLeft, framesLeft>>

NextSuperframe ==
  /\ phase = "sent"
  /\ phase' = "idle"
  /\ RemoveAllocations
  /\ slots' = {} /\ tbtps' = <<>> /\ frame' = NoFrame /\ uts' = <<>> /\ carriers' = <<>>
  /\ rcs' = <<>> /\ carrierSymbolsToUse' = 0 /\ utSymbolsToUse' = 0 /\ utSymbolsLeft' = 0
  /\ rcSymbolsLeft' = 0 /\ ctrlSlotPresent' = FALSE /\ requests' = <<>>
  /\ UNCHANGED <<m_rcBasedAllocationEnabled, m_utInfos, m_minimumRateBasedBytesLeft, toAllocate, channelsLeft, framesLeft>>

Superframe ==
  \/ Start
  \/ \E supported \in SUBSET Frame : AllocateToFrame(supported)
  \/ Share
  \/ EnterRaChannel
  \/ StartFrames
  \/ Slots
  \/ NextFrame
  \/ SendTbtps
  \/ NextSuperframe

Next ==
  \/ \E ut \in Ut : AddUtInfo(ut) \/ RemoveUtInfo(ut)
  \/ Superframe

Spec == Init /\ [][Next]_vars
-----------------------------------------------------------------------------
Overlap(s, t) == s.start < t.start + t.length /\ t.start < s.start + s.length

\* Two slots of a carrier do not overlap, and neither do two slots of a UT,
\* which has one transmitter, although it may be given slots on two carriers;
\* every slot ends with its carrier.
SlotsDoNotClash ==
  /\ \A s \in slots : s.start >= 0 /\ s.start + s.length <= CarrierSymbols
  /\ \A s, t \in slots :
       s # t /\ (s.ut = t.ut \/ (s.frame = t.frame /\ s.carrier = t.carrier)) => ~Overlap(s, t)

\* What is granted in a frame, over all its UTs, stays within the target load,
\* whichever category is shared and whatever the RCs asked for.
WithinTargetLoad ==
  denied => \A f \in Frame :
    SumFunction([ut \in AllocatedTo(f) |-> GetTotalSymbols(m_utAllocs[f][ut].allocation.total)])
      <= AvailableSymbols

\* A TBTP never outgrows a BBFrame, or sending it ends the simulation.
TbtpsFit == \A i \in DOMAIN tbtps : GetSizeInBytes(tbtps[i]) <= MaxTbtpSize

ShortestBurst == Min(Range(BurstLengths))
SymbolsOf(someSlots) == MapThenSumSet(LAMBDA s : s.length, someSlots)
SlotsOf(ut) == {s \in slots : s.frame = frame /\ s.ut = ut}

\* As long as a carrier of the frame is left, every UT gets what it is granted,
\* and each of its RCs does when slots are counted for each RC, but for what is
\* lost at the end of a carrier and at the end of the UT's time.
GrantsAreServed ==
  frame # NoFrame /\ uts = <<>> /\ carriers # <<>> =>
    \A ut \in AllocatedTo(frame) :
      \/ SymbolsOf(SlotsOf(ut)) >= CarrierSymbols - 2 * (ShortestBurst - 1)
      \/ /\ SymbolsOf(SlotsOf(ut)) >= TotalOf(ut)
         /\ m_rcBasedAllocationEnabled =>
              \A rc \in Rc : SymbolsOf({s \in SlotsOf(ut) : s.rc = rc}) >= TotalOfRc(ut, rc)

\* The loop over the slots of a UT ends: every turn uses up some of the UT's
\* time or an RC, or is the UT's last.  Neither grows on the way.
UtLoopEnds ==
  [][rcs # <<>> =>
       \/ uts' = Tail(uts) /\ rcs' = <<>>
       \/ /\ uts' = uts
          /\ rcs' # <<>>
          /\ utSymbolsToUse' \in 1 .. utSymbolsToUse
          /\ rcs' # rcs => rcs' = Tail(rcs)
          /\ Len(rcs') + utSymbolsToUse' < Len(rcs) + utSymbolsToUse]_vars
=============================================================================
