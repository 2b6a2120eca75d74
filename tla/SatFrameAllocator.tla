------------------------- MODULE SatFrameAllocator -------------------------
(***************************************************************************)
(* How the return-link symbols of the frames of a superframe are shared    *)
(* among the UTs: requests are allocated to a frame one UT after the other *)
(* (Allocate), then each frame decides what its UTs get (ShareSymbols).    *)
(*                                                                         *)
(* All quantities are symbols: a request in bytes is turned into symbols   *)
(* of the UT's waveform before.  The code computes with doubles; here a    *)
(* quotient is rounded down.                                               *)
(***************************************************************************)
EXTENDS Integers, FiniteSetsExt, SequencesExt, StdMap

CONSTANTS
  Ut,              \* the UTs
  Rc,              \* the request classes 0, 1, ...; control slots are of class 0
  Frame,           \* the frames
  CarrierSymbols,  \* m_maxSymbolsPerCarrier, the same in all frames
  Carrier,         \* the carriers of each frame
  TargetLoad       \* m_targetLoad, as <<numerator, denominator>>

ASSUME FrameAssumption ==
  /\ Rc = 0 .. Cardinality(Rc) - 1
  /\ Rc # {}
  /\ Frame # {}
  /\ IsFiniteSet(Ut) /\ IsFiniteSet(Rc) /\ IsFiniteSet(Frame) /\ IsFiniteSet(Carrier)
  /\ CarrierSymbols \in Nat \ {0}
  /\ TargetLoad \in Nat \X (Nat \ {0})
  /\ TargetLoad[1] <= TargetLoad[2]

VARIABLES
  m_utAllocs,      \* Frame -> the UTs allocated to it -> request and allocation
  m_rcAllocs,      \* Frame -> the UTs and RCs allocated to it, in the order of sharing
  m_preAllocated,  \* Frame -> symbols pre-allocated, by category
  denied,          \* m_allocationDenied of all frames
  m_fcaEnabled     \* attribute: free capacity is shared

frameVars == <<m_utAllocs, m_rcAllocs, m_preAllocated, denied, m_fcaEnabled>>

Symbols == [cra : Nat, minRbdc : Nat, rbdc : Nat, vbdc : Nat]
None == [cra |-> 0, minRbdc |-> 0, rbdc |-> 0, vbdc |-> 0]

\* SatFrameAllocInfo: symbols by RC, and in total.
Nothing == [total |-> None, rc |-> [i \in Rc |-> None]]

AtMost(bound, n) == IF n <= bound THEN n ELSE bound
AtLeast(bound, n) == IF n >= bound THEN n ELSE bound

\* GetTotalSymbols: the minimum RBDC is a part of the RBDC.
GetTotalSymbols(s) == s.cra + s.rbdc + s.vbdc

\* The categories of a congestion level, from the least to the most that a
\* request can be granted.
Levels == <<"CRA_RBDC_VBDC", "CRA_RBDC", "CRA_MIN_RBDC", "CRA">>

Used(level, s) ==
  CASE level = "CRA" -> s.cra
    [] level = "CRA_MIN_RBDC" -> s.cra + s.minRbdc
    [] level = "CRA_RBDC" -> s.cra + s.rbdc
    [] level = "CRA_RBDC_VBDC" -> GetTotalSymbols(s)

TotalSymbols == Cardinality(Carrier) * CarrierSymbols
AvailableSymbols == (TargetLoad[1] * TotalSymbols) \div TargetLoad[2]

AllocatedTo(f) == DOMAIN m_utAllocs[f]

FrameInit ==
  /\ m_utAllocs = [f \in Frame |-> <<>>]
  /\ m_rcAllocs = [f \in Frame |-> <<>>]
  /\ m_preAllocated = [f \in Frame |-> None]
  /\ denied = FALSE
  /\ m_fcaEnabled \in BOOLEAN

\* Reset of every frame.
RemoveAllocations ==
  /\ m_utAllocs' = [f \in Frame |-> <<>>]
  /\ m_rcAllocs' = [f \in Frame |-> <<>>]
  /\ m_preAllocated' = [f \in Frame |-> None]
  /\ denied' = FALSE
  /\ UNCHANGED m_fcaEnabled
-----------------------------------------------------------------------------
\* Allocate: whether a request can be accepted at a level.  The CRA always is.
RoomFor(level, f) == AtMost(CarrierSymbols, TotalSymbols - Used(level, m_preAllocated[f]))
CanAllocate(level, f, req) == level = "CRA" \/ Used(level, req.total) <= RoomFor(level, f)

\* Allocate: what a request adds to the symbols pre-allocated.
PreAllocation(level, f, t) ==
  LET beyondCra == CarrierSymbols - t.cra
      beyondRbdc == AtLeast(0, beyondCra - t.rbdc)
  IN  [cra |-> t.cra,
       minRbdc |-> AtMost(beyondCra, t.minRbdc),
       rbdc |-> AtMost(beyondCra, t.rbdc),
       vbdc |-> IF level = "CRA_MIN_RBDC" /\ RoomFor(level, f) < t.cra + t.rbdc THEN 0
                ELSE AtMost(beyondRbdc, t.vbdc)]

Plus(a, b) == [cra |-> a.cra + b.cra, minRbdc |-> a.minRbdc + b.minRbdc,
               rbdc |-> a.rbdc + b.rbdc, vbdc |-> a.vbdc + b.vbdc]

\* UpdateAndStoreAllocReq: a request is cut to the symbols of one carrier.
CutMinRbdc(req, left) ==
  [total |-> [req.total EXCEPT !.minRbdc = left, !.rbdc = left, !.vbdc = 0],
   rc |-> [i \in Rc |->
             LET share == (req.rc[i].minRbdc * left) \div req.total.minRbdc
             IN  [req.rc[i] EXCEPT !.minRbdc = share, !.rbdc = share, !.vbdc = 0]]]

CutRbdc(req, left) ==
  LET over(s) == AtLeast(0, s.rbdc - s.minRbdc)
  IN  [total |-> [req.total EXCEPT !.rbdc = left + req.total.minRbdc, !.vbdc = 0],
       rc |-> [i \in Rc |->
                 [req.rc[i] EXCEPT
                    !.rbdc = (over(req.rc[i]) * left) \div over(req.total) + req.rc[i].minRbdc,
                    !.vbdc = 0]]]

CutVbdc(req, left) ==
  [total |-> [req.total EXCEPT !.vbdc = left],
   rc |-> [i \in Rc |-> [req.rc[i] EXCEPT !.vbdc = (@ * left) \div req.total.vbdc]]]

FittedToCarrier(req) ==
  LET beyond(level) == CarrierSymbols - Used(level, req.total)
  IN  IF beyond("CRA_MIN_RBDC") < 0 THEN CutMinRbdc(req, beyond("CRA"))
      ELSE IF beyond("CRA_RBDC") < 0 THEN CutRbdc(req, beyond("CRA_MIN_RBDC"))
      ELSE IF beyond("CRA_RBDC_VBDC") < 0 THEN CutVbdc(req, beyond("CRA_RBDC"))
      ELSE req

\* Allocate, when it succeeds.
Allocate(level, f, ut, req, ctrlSlotPresent) ==
  /\ ~denied
  /\ CanAllocate(level, f, req)
  /\ m_preAllocated' = [m_preAllocated EXCEPT ![f] = Plus(@, PreAllocation(level, f, req.total))]
  /\ m_utAllocs' =
       [m_utAllocs EXCEPT ![f] =
          MapAssign(@, ut, [request |-> FittedToCarrier(req), ctrl |-> ctrlSlotPresent,
                            allocation |-> Nothing])]
  /\ m_rcAllocs' =
       [m_rcAllocs EXCEPT ![f] = @ \o [n \in 1 .. Cardinality(Rc) |-> <<ut, n - 1>>]]
  /\ UNCHANGED <<denied, m_fcaEnabled>>
-----------------------------------------------------------------------------
\* ShareSymbols: the highest level that all the requests fit in, if there is one.
FittingLevels(f) ==
  {i \in DOMAIN Levels : Used(Levels[i], m_preAllocated[f]) <= AvailableSymbols}
LevelOf(f) == Levels[Min(FittingLevels(f))]

\* AcceptRequests: what a level grants before anything is shared.
Accepted(level, s) ==
  CASE level = "CRA" -> [None EXCEPT !.cra = s.cra]
    [] level = "CRA_MIN_RBDC" -> [None EXCEPT !.cra = s.cra, !.minRbdc = s.minRbdc]
    [] level = "CRA_RBDC" -> [s EXCEPT !.vbdc = 0]
    [] level = "CRA_RBDC_VBDC" -> s

AcceptRequests(level, alloc) ==
  [alloc EXCEPT !.allocation = [total |-> Accepted(level, alloc.request.total),
                                rc |-> [i \in Rc |-> Accepted(level, alloc.request.rc[i])]]]

\* The category shared at a level, the requests that get a share, and what a
\* share adds to the allocation.
Ranked(level, s) ==
  CASE level \in {"CRA_RBDC_VBDC", "CRA_RBDC"} -> s.vbdc
    [] level = "CRA_MIN_RBDC" -> s.rbdc
    [] level = "CRA" -> s.minRbdc

Takes(level, s) ==
  CASE level = "CRA_RBDC_VBDC" -> s.rbdc > 0 \/ s.vbdc > 0
    [] level = "CRA_RBDC" -> s.vbdc > 0
    [] level \in {"CRA_MIN_RBDC", "CRA"} -> s.rbdc > 0

ShareOf(level, s, symbols) ==
  CASE level \in {"CRA_RBDC_VBDC", "CRA_RBDC"} -> [None EXCEPT !.vbdc = symbols]
    [] level = "CRA_MIN_RBDC" -> [None EXCEPT !.rbdc = symbols + s.minRbdc]
    [] level = "CRA" -> [None EXCEPT !.minRbdc = symbols, !.rbdc = symbols]

\* Mutant: a share is not taken from the symbols left.
WithShareNotTaken(level, done, ut, i) ==
  LET alloc == done.allocs[ut]
      free == AtLeast(0, CarrierSymbols - GetTotalSymbols(alloc.allocation.total))
      share == ShareOf(level, alloc.allocation.rc[i], AtMost(free, done.left \div done.rcsLeft))
  IN  IF done.left > 0 /\ Takes(level, alloc.request.rc[i])
      THEN [done EXCEPT !.allocs = [@ EXCEPT ![ut].allocation.total = Plus(@, share),
                                            ![ut].allocation.rc[i] = Plus(@, share)],
                        !.rcsLeft = @ - 1]
      ELSE [done EXCEPT !.rcsLeft = @ - 1]

\* One turn of the loop that shares the symbols left among the RCs left.
WithShare(level, done, ut, i) ==
  LET alloc == done.allocs[ut]
      free == AtLeast(0, CarrierSymbols - GetTotalSymbols(alloc.allocation.total))
      symbols == AtMost(free, done.left \div done.rcsLeft)
      share == ShareOf(level, alloc.allocation.rc[i], symbols)
  IN  IF done.left > 0 /\ Takes(level, alloc.request.rc[i])
      THEN [allocs |-> [done.allocs EXCEPT
                          ![ut].allocation.total = Plus(@, share),
                          ![ut].allocation.rc[i] = Plus(@, share)],
            left |-> done.left - symbols,
            rcsLeft |-> done.rcsLeft - 1]
      ELSE [done EXCEPT !.rcsLeft = @ - 1]

\* m_rcAllocs, sorted by the requests of the category that is shared; requests
\* that are equal keep their order.
Sorted(level, f) ==
  LET places == DOMAIN m_rcAllocs[f]
      rank(n) == Ranked(level, m_utAllocs[f][m_rcAllocs[f][n][1]].request.rc[m_rcAllocs[f][n][2]])
      before(m, n) == rank(m) < rank(n) \/ (rank(m) = rank(n) /\ m < n)
      after(n) == Cardinality({m \in places : before(m, n)})
  IN  [i \in places |-> m_rcAllocs[f][CHOOSE n \in places : after(n) = i - 1]]

IsShared(level) == level # "CRA_RBDC_VBDC" \/ m_fcaEnabled

SharedAmong(level, allocs, left, order) ==
  FoldLeft(LAMBDA done, item : WithShare(level, done, item[1], item[2]),
           [allocs |-> allocs, left |-> left, rcsLeft |-> Len(order)], order).allocs

\* The allocations that ShareSymbols leaves.
Shared(level, f) ==
  LET allocs == [ut \in AllocatedTo(f) |-> AcceptRequests(level, m_utAllocs[f][ut])]
      left == AvailableSymbols - Used(level, m_preAllocated[f])
      result == IF IsShared(level) THEN SharedAmong(level, allocs, left, Sorted(level, f)) ELSE allocs
  IN  [ut \in AllocatedTo(f) |-> result[ut]]

\* The symbols pre-allocated after sharing.
PreAllocatedAfter(level, f) ==
  LET pre == m_preAllocated[f]
      left == AvailableSymbols - Used(level, pre)
  IN  CASE level = "CRA_RBDC_VBDC" -> [pre EXCEPT !.vbdc = IF m_fcaEnabled THEN @ + left ELSE @]
        [] level = "CRA_RBDC" -> [pre EXCEPT !.vbdc = left]
        [] level = "CRA_MIN_RBDC" -> [pre EXCEPT !.rbdc = left, !.vbdc = 0]
        [] level = "CRA" -> [pre EXCEPT !.minRbdc = left, !.rbdc = left, !.vbdc = 0]

\* ShareSymbols ends the simulation when the CRAs do not fit.
CrasDoNotFit(f) == FittingLevels(f) = {}

\* PreAllocateSymbols of every frame.
PreAllocateSymbols ==
  /\ ~denied
  /\ \A f \in Frame : ~CrasDoNotFit(f)
  /\ m_utAllocs' = [f \in Frame |-> Shared(LevelOf(f), f)]
  /\ m_rcAllocs' = [f \in Frame |-> IF IsShared(LevelOf(f)) THEN Sorted(LevelOf(f), f)
                                     ELSE m_rcAllocs[f]]
  /\ m_preAllocated' = [f \in Frame |-> PreAllocatedAfter(LevelOf(f), f)]
  /\ denied' = TRUE
  /\ UNCHANGED m_fcaEnabled
=============================================================================
