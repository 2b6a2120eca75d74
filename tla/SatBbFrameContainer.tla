------------------------- MODULE SatBbFrameContainer -------------------------
(***************************************************************************)
(* The BBFrames of the forward link that wait for transmission             *)
(* (SatBbFrame, SatBbFrameContainer).  A container has a queue of frames   *)
(* for control messages, place 0, which are sent with the most robust      *)
(* MODCOD, and one for each MODCOD.  MODCODs are numbered from the most    *)
(* robust to the most efficient.                                           *)
(***************************************************************************)
EXTENDS Naturals, Sequences, SequencesExt

CONSTANTS
  Bytes,          \* frame type -> MODCOD -> bytes of a frame
  Duration,       \* frame type -> MODCOD -> duration of a frame
  HeaderBytes,    \* m_bbFrameHeaderSizeInBytes
  HighOccupancy,  \* BbFrameHighOccupancyThreshold, in percent
  LowOccupancy    \* BbFrameLowOccupancyThreshold, in percent

Modcods == DOMAIN Bytes["NORMAL_FRAME"]
FrameTypes == {"SHORT_FRAME", "NORMAL_FRAME"}
UsageModes == {"SHORT_FRAMES", "NORMAL_FRAMES", "SHORT_AND_NORMAL_FRAMES"}

ASSUME ContainerAssumption ==
  /\ Bytes["NORMAL_FRAME"] \in Seq(Nat) \ {<<>>} /\ Modcods = 1 .. Len(Bytes["NORMAL_FRAME"])
  /\ HeaderBytes \in Nat /\ HighOccupancy \in 0 .. 100 /\ LowOccupancy \in 0 .. 100
  /\ \A t \in FrameTypes, m \in Modcods :
       Bytes[t][m] \in Nat /\ HeaderBytes < Bytes[t][m] /\ Duration[t][m] \in Nat \ {0}
  /\ \A m \in Modcods : /\ Bytes["SHORT_FRAME"][m] < Bytes["NORMAL_FRAME"][m]
                         /\ Duration["SHORT_FRAME"][m] <= Duration["NORMAL_FRAME"][m]

Control == 0
Places == {Control} \cup Modcods
ModcodOf(place) == IF place = Control THEN 1 ELSE place
DefaultType(mode) == IF mode = "SHORT_FRAMES" THEN "SHORT_FRAME" ELSE "NORMAL_FRAME"
-----------------------------------------------------------------------------
\* SatBbFrame.  The free space is max - used in an unsigned integer, so that a
\* frame with more in it than it holds has room for anything.
EmptyFrame(modcod, type) ==
  [modcod |-> modcod, type |-> type, max |-> Bytes[type][modcod], used |-> HeaderBytes,
   pdus |-> <<>>]

FrameDuration(f) == Duration[f.type][f.modcod]
HasRoomFor(f, n) == f.used > f.max \/ n <= f.max - f.used
AddPayload(f, pdu) == [f EXCEPT !.used = @ + pdu.n, !.pdus = Append(@, pdu)]
DataBytes(f) == f.used - HeaderBytes
BelowOccupancy(f, percent) == 100 * f.used < percent * f.max

MergeWithFrame(f, merged) ==
  [f EXCEPT !.used = @ + DataBytes(merged), !.pdus = @ \o merged.pdus]

Shrink(f) ==
  IF f.type = "NORMAL_FRAME" /\ f.used < Bytes["SHORT_FRAME"][f.modcod]
  THEN [f EXCEPT !.type = "SHORT_FRAME", !.max = Bytes["SHORT_FRAME"][f.modcod] - HeaderBytes]
  ELSE f

Extend(f) ==
  IF f.type = "SHORT_FRAME"
  THEN [f EXCEPT !.type = "NORMAL_FRAME", !.max = Bytes["NORMAL_FRAME"][f.modcod]]
  ELSE f
-----------------------------------------------------------------------------
\* SatBbFrameContainer.
EmptyContainer == [queues |-> [p \in Places |-> <<>>], totalDuration |-> 0]

IsEmpty(k, place) == k.queues[place] = <<>>
Tail_(k, place) == Last(k.queues[place])
NonEmptyPlaces(k) == {p \in Places : ~IsEmpty(k, p)}

\* The tail replaced by another form of it.
WithTail(k, place, f) ==
  [queues |-> [k.queues EXCEPT ![place] = Append(Front(@), f)],
   totalDuration |-> (k.totalDuration + FrameDuration(f)) - FrameDuration(Tail_(k, place))]

GetMaxFramePayloadInBytes(mode, place) == Bytes[DefaultType(mode)][ModcodOf(place)]

\* Counts on the tail being of the default type, as it is once it is extended.
GetBytesLeftInTailFrame(mode, k, place) ==
  GetMaxFramePayloadInBytes(mode, place)
    - (IF IsEmpty(k, place) THEN HeaderBytes ELSE Tail_(k, place).used)

CreateFrameToTail(mode, k, place) ==
  LET f == EmptyFrame(ModcodOf(place), DefaultType(mode))
  IN [queues |-> [k.queues EXCEPT ![place] = Append(@, f)],
      totalDuration |-> k.totalDuration + FrameDuration(f)]

NeedsNewFrame(mode, k, place, n) ==
  IsEmpty(k, place) \/ GetBytesLeftInTailFrame(mode, k, place) < n

\* The frame whose type decides whether the tail is extended.  For control
\* messages it is not their own tail but the one of the same MODCOD's queue.
TypeReadAt(place) == ModcodOf(place)

\* back () of an empty queue is undefined: the type read may be any.
ReadsNoFrame(mode, k, place, n) ==
  /\ ~NeedsNewFrame(mode, k, place, n)
  /\ mode = "SHORT_AND_NORMAL_FRAMES"
  /\ IsEmpty(k, TypeReadAt(place))

\* AddData, up to the frame that the data goes to.
TailsForData(mode, k, place, n) ==
  IF NeedsNewFrame(mode, k, place, n) THEN {CreateFrameToTail(mode, k, place)}
  ELSE LET extended == WithTail(k, place, Extend(Tail_(k, place)))
       IN IF mode # "SHORT_AND_NORMAL_FRAMES" THEN {k}
          ELSE IF IsEmpty(k, TypeReadAt(place)) THEN {k, extended}
          ELSE IF Tail_(k, TypeReadAt(place)).type = "SHORT_FRAME" THEN {extended}
          ELSE {k}

WithData(k, place, pdu) == WithTail(k, place, AddPayload(Tail_(k, place), pdu))

\* GetNextFrame: control messages first, then the queue of any MODCOD.
NextFramePlaces(k) ==
  IF ~IsEmpty(k, Control) THEN {Control} ELSE NonEmptyPlaces(k)

WithoutHead(k, place) ==
  [queues |-> [k.queues EXCEPT ![place] = Tail(@)],
   totalDuration |-> k.totalDuration - FrameDuration(Head(k.queues[place]))]
-----------------------------------------------------------------------------
\* Mutant: any MODCOD, the more efficient ones too.
MergeCandidatesOfAnyModcod(k, m) ==
  {p \in NonEmptyPlaces(k) \ {m} : BelowOccupancy(Tail_(k, p), LowOccupancy)
                                   /\ HasRoomFor(Tail_(k, p), DataBytes(Tail_(k, m)))}

\* MergeBbFrames: the last frame of a MODCOD is moved into the last frame of a
\* more robust one, or of the control messages, if it is filled better there.
MergeCandidates(k, m) ==
  {p \in NonEmptyPlaces(k) : p < m /\ BelowOccupancy(Tail_(k, p), LowOccupancy)
                             /\ HasRoomFor(Tail_(k, p), DataBytes(Tail_(k, m)))}

\* The best is searched from the most efficient MODCOD to the control messages,
\* and a later one must be better.
IsBestCandidate(k, m, p) ==
  /\ p \in MergeCandidates(k, m)
  /\ \A q \in MergeCandidates(k, m) \ {p} :
       LET new(r) == Tail_(k, r).used + DataBytes(Tail_(k, m))
           left == new(p) * Tail_(k, q).max
           right == new(q) * Tail_(k, p).max
       IN left > right \/ (left = right /\ p > q)

\* Mutant: the frame is still counted.
WithoutTailCounted(k, m) == [k EXCEPT !.queues[m] = Front(@)]

WithoutTail(k, m) ==
  [queues |-> [k.queues EXCEPT ![m] = Front(@)],
   totalDuration |-> k.totalDuration - FrameDuration(Tail_(k, m))]

\* The spectral efficiency times the occupancy is used bytes over duration.
PaysOff(from, to) ==
  (to.used + DataBytes(from)) * FrameDuration(from) > from.used * FrameDuration(to)

MergeTail(k, m) ==
  IF ~IsEmpty(k, m) /\ BelowOccupancy(Tail_(k, m), HighOccupancy)
     /\ \E p \in Places : IsBestCandidate(k, m, p) /\ PaysOff(Tail_(k, m), Tail_(k, p))
  THEN LET p == CHOOSE p \in Places : IsBestCandidate(k, m, p)
       IN WithoutTail(WithTail(k, p, MergeWithFrame(Tail_(k, p), Tail_(k, m))), m)
  ELSE k

ShrinkTail(k, place) ==
  IF IsEmpty(k, place) THEN k ELSE WithTail(k, place, Shrink(Tail_(k, place)))

\* Every MODCOD in turn; with frames of both types the tails are then shrunk.
\* (The result is passed from one to the next as the one element of a set, which
\* TLC evaluates once.)
InTurnBy(op(_, _), results, places) ==
  FoldLeft(LAMBDA ks, p : {op(k, p) : k \in ks}, results, places)
EfficientFirst == Reverse([m \in Modcods |-> m])
MergeBbFrames(mode, k) ==
  LET merged == InTurnBy(MergeTail, {k}, EfficientFirst)
  IN CHOOSE result \in IF mode # "SHORT_AND_NORMAL_FRAMES" THEN merged
                       ELSE InTurnBy(ShrinkTail, merged, Append(EfficientFirst, Control)) :
       TRUE
-----------------------------------------------------------------------------
\* What a container is to be: the duration it counts is that of its frames, and
\* what is in a frame fits into a frame of its type and MODCOD.
Frames(k) == UNION {ToSet(k.queues[p]) : p \in Places}
SumOver(f, op(_)) == SumFunction([i \in DOMAIN f |-> op(f[i])])
QueuesDuration(k) == SumOver(k.queues, LAMBDA q : SumOver(q, FrameDuration))
PayloadFits(f) ==
  /\ f.used = HeaderBytes + SumOver(f.pdus, LAMBDA pdu : pdu.n)
  /\ f.used <= Bytes[f.type][f.modcod]
=============================================================================
