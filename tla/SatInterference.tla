-------------------------- MODULE SatInterference --------------------------
(***************************************************************************)
(* The interference of a carrier: every burst that reaches the antenna is  *)
(* a rise and a fall of power in a list of changes, and what a burst       *)
(* suffered is worked out from the list when its reception ends.  With it  *)
(* goes the record of which receptions collided.                           *)
(*                                                                         *)
(* Time is counted in ticks.  A power over some ticks is an energy; the    *)
(* code divides by the duration of the burst.  A burst is its own event.   *)
(***************************************************************************)
EXTENDS Integers, FiniteSetsExt, SequencesExt

VARIABLES
  m_interferenceChanges,  \* multimap by time: changes of power still needed
  m_residualPowerW,       \* sum of the changes cleaned up
  m_packetCollisions      \* event being received -> whether it collided

interferenceVars == <<m_interferenceChanges, m_residualPowerW, m_packetCollisions>>

InterferenceInit ==
  /\ m_interferenceChanges = <<>>
  /\ m_residualPowerW = 0
  /\ m_packetCollisions = [e \in {} |-> FALSE]

Receiving == DOMAIN m_packetCollisions

Change(event, time, power, isEnd) ==
  [event |-> event, time |-> time, power |-> power, isEnd |-> isEnd]

\* The list is in the order of time: these are the first of it.
CountUpTo(changes, time) == Cardinality({i \in DOMAIN changes : changes[i].time <= time})
UpTo(changes, time) == SubSeq(changes, 1, CountUpTo(changes, time))

\* std::multimap::insert: behind the changes of the same time.
InsertChange(changes, c) == InsertAt(changes, CountUpTo(changes, c.time) + 1, c)

PowerOf(changes) == SumFunction([i \in DOMAIN changes |-> changes[i].power])

\* The changes that are over; they are cleaned up only when nothing is received.
CleanedUp(time) == IF Receiving = {} THEN UpTo(m_interferenceChanges, time) ELSE <<>>

\* DoAdd: a burst of some power begins.
Add(event, power) ==
  LET kept == SubSeq(m_interferenceChanges, Len(CleanedUp(event.start)) + 1,
                     Len(m_interferenceChanges))
  IN  /\ m_residualPowerW' = m_residualPowerW + PowerOf(CleanedUp(event.start))
      /\ m_interferenceChanges' =
           InsertChange(InsertChange(kept, Change(event, event.start, power, FALSE)),
                        Change(event, event.end, -power, TRUE))

NotifyRxStart(event) ==
  m_packetCollisions' = [e \in Receiving \cup {event} |-> e # event /\ m_packetCollisions[e]]

\* Calculate marks all that is being received before NotifyRxEnd takes the
\* event out; HasCollision is asked in between.
HasCollision(event) == m_packetCollisions[event] \/ Cardinality(Receiving) > 1

NotifyRxEnd(event) ==
  m_packetCollisions' = [e \in Receiving \ {event} |-> HasCollision(e)]

PositionOf(event, isEnd) ==
  CHOOSE i \in DOMAIN m_interferenceChanges :
    m_interferenceChanges[i].event = event /\ m_interferenceChanges[i].isEnd = isEnd

\* The power when the event began, and the changes between its start and end.
PowerBefore(event) ==
  m_residualPowerW + PowerOf(SubSeq(m_interferenceChanges, 1, PositionOf(event, FALSE) - 1))
ChangesDuring(event) ==
  SubSeq(m_interferenceChanges, PositionOf(event, FALSE) + 1, PositionOf(event, TRUE) - 1)

\* SatPerPacketInterference::DoCalculate: each change counts for the rest of
\* the event.
PerPacket(event) ==
  PowerBefore(event) * (event.end - event.start)
    + SumFunction([i \in DOMAIN ChangesDuring(event) |->
                     ChangesDuring(event)[i].power * (event.end - ChangesDuring(event)[i].time)])

\* SatPerFragmentInterference::DoCalculate: the power between one change and
\* the next.  Changes at one time leave fragments that last no time; only the
\* last fragment is left out for that.
Lasts(fragment) == fragment.to - fragment.from
PerFragment(event) ==
  LET changes == ChangesDuring(event)
      times == <<event.start>> \o [i \in DOMAIN changes |-> changes[i].time] \o <<event.end>>
      fragments == [i \in 1 .. Len(changes) + 1 |->
                      [from |-> times[i], to |-> times[i + 1],
                       power |-> PowerBefore(event) + PowerOf(SubSeq(changes, 1, i - 1))]]
  IN  IF Lasts(Last(fragments)) = 0 THEN Front(fragments) ELSE fragments
=============================================================================
