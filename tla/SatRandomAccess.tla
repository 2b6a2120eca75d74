--------------------------- MODULE SatRandomAccess ---------------------------
(***************************************************************************)
(* The random access algorithms of a UT.  For each trigger DoRandomAccess  *)
(* decides whether the UT gets a transmission opportunity, and which: for  *)
(* CRDSA the slots of the replicas of several packets of the superframe,   *)
(* for slotted ALOHA and ESSA a time to wait.                              *)
(*                                                                         *)
(* Random draws are choices.  MARSALA draws its slots as CRDSA does.       *)
(***************************************************************************)
EXTENDS Integers, FiniteSetsExt, SequencesExt

CONSTANTS
  Channel,          \* allocation channels: 0, 1, ...
  RaSlots,          \* slots a replica may be drawn for
  NumOfInstances,   \* replicas of a packet
  MaxUniquePayload, \* packets of a superframe
  MaxConsecutive,   \* Channel -> superframes that may be used in a row
  MinIdle,          \* Channel -> superframes left idle after that
  BackoffTime,      \* the backoff parameters in use -> time units
  ReleaseTimes,     \* what slotted ALOHA may wait before it looks for a slot
  EssaWaits         \* what ESSA may wait

ASSUME RandomAccessAssumption ==
  /\ IsFiniteSet(Channel)
  /\ Channel = 0 .. Cardinality(Channel) - 1
  /\ RaSlots \subseteq Nat
  /\ {NumOfInstances, MaxUniquePayload} \subseteq Nat \ {0}
  /\ NumOfInstances * MaxUniquePayload <= Cardinality(RaSlots)
  /\ MaxConsecutive \in [Channel -> Nat]
  /\ MinIdle \in [Channel -> Nat]
  /\ {"default", "low", "high"} \subseteq DOMAIN BackoffTime
  /\ \A b \in DOMAIN BackoffTime : BackoffTime[b] \in Nat
  /\ ReleaseTimes \cup EssaWaits \subseteq Nat

VARIABLES
  m_randomAccessModel,
  m_raChannel,          \* the channel in use
  backoffLeft,          \* Channel -> time until the backoff release time
  m_crdsaIdleBlocksLeft,
  m_crdsaNumOfConsecutiveBlocksUsed,
  m_crdsaNewData,
  m_backoff             \* Channel -> backoff parameters in use

crdsaVars == <<backoffLeft, m_crdsaIdleBlocksLeft, m_crdsaNumOfConsecutiveBlocksUsed,
               m_crdsaNewData>>
accessVars == <<m_randomAccessModel, m_raChannel, crdsaVars, m_backoff>>

Models == {"SLOTTED_ALOHA", "CRDSA", "MARSALA", "RCS2_SPECIFICATION", "ESSA"}

UsesCrdsa ==
  \/ m_randomAccessModel \in {"CRDSA", "MARSALA"}
  \/ m_randomAccessModel = "RCS2_SPECIFICATION" /\ NumOfInstances >= 2
UsesSlottedAloha ==
  \/ m_randomAccessModel = "SLOTTED_ALOHA"
  \/ m_randomAccessModel = "RCS2_SPECIFICATION" /\ NumOfInstances < 2
UsesEssa == m_randomAccessModel = "ESSA"

AccessInit ==
  /\ m_randomAccessModel \in Models
  /\ m_raChannel \in Channel
  /\ backoffLeft = [c \in Channel |-> 0]
  /\ m_crdsaIdleBlocksLeft = [c \in Channel |-> 0]
  /\ m_crdsaNumOfConsecutiveBlocksUsed = [c \in Channel |-> 0]
  /\ m_crdsaNewData = TRUE
  /\ m_backoff = [c \in Channel |-> "default"]

\* SetBackoffTime and SetBackoffProbability; models without a backoff refuse them.
TakesBackoff == m_randomAccessModel \in {"CRDSA", "RCS2_SPECIFICATION", "ESSA"}
SetBackoff(c, parameters) ==
  /\ m_backoff' = [m_backoff EXCEPT ![c] = parameters]
  /\ UNCHANGED <<m_randomAccessModel, m_raChannel, crdsaVars>>

CrdsaHasBackoffTimePassed(c) == backoffLeft[c] = 0
CrdsaIsAllocationChannelFree(c) == m_crdsaIdleBlocksLeft[c] = 0

\* A superframe without CRDSA: an idle block the less for every channel.
CrdsaReduceIdleBlocks ==
  /\ m_crdsaIdleBlocksLeft' =
       [c \in Channel |-> IF m_crdsaIdleBlocksLeft[c] > 0 THEN m_crdsaIdleBlocksLeft[c] - 1 ELSE 0]
  /\ m_crdsaNumOfConsecutiveBlocksUsed' = [c \in Channel |-> 0]

\* Mutant: one block more than the maximum.
CountedLate(counts, c) ==
  LET used == counts.used[c] + 1
  IN  IF used > MaxConsecutive[c]
      THEN [used |-> [any \in Channel |-> 0], idle |-> [counts.idle EXCEPT ![c] = MinIdle[c]]]
      ELSE [counts EXCEPT !.used[c] = used]

\* A channel that reaches its maximum becomes idle, and the counts of all
\* channels start again, in the middle of the loop over the channels.
Counted(counts, c) ==
  LET used == counts.used[c] + 1
  IN  IF used >= MaxConsecutive[c]
      THEN [used |-> [any \in Channel |-> 0], idle |-> [counts.idle EXCEPT ![c] = MinIdle[c]]]
      ELSE [counts EXCEPT !.used[c] = used]

CrdsaIncreaseConsecutiveBlocksUsed ==
  LET counts == FoldLeft(Counted, [used |-> m_crdsaNumOfConsecutiveBlocksUsed,
                                  idle |-> m_crdsaIdleBlocksLeft],
                         [i \in 1 .. Cardinality(Channel) |-> i - 1])
  IN  /\ m_crdsaNumOfConsecutiveBlocksUsed' = counts.used
      /\ m_crdsaIdleBlocksLeft' = counts.idle

\* CrdsaRandomizeTxOpportunities, once for each packet: replicas in slots that
\* no other replica of the superframe has.  Packets go by their first slots.
Disjoint(sets) == \A i, j \in DOMAIN sets : i # j => sets[i] \cap sets[j] = {}
CrdsaTxOpportunities(n) ==
  {packets \in [1 .. n -> kSubset(NumOfInstances, RaSlots)] :
     /\ Disjoint(packets)
     /\ \A i, j \in 1 .. n : i < j => Min(packets[i]) < Min(packets[j])}

\* CrdsaPrepareToTransmit: packets until a backoff is drawn, none of them when
\* the channel is to be idle.
CrdsaPrepareToTransmit(c, opportunities) ==
  \E drawn \in 0 .. MaxUniquePayload :
    /\ backoffLeft' = IF drawn < MaxUniquePayload
                      THEN [backoffLeft EXCEPT ![c] = BackoffTime[m_backoff[c]]] ELSE backoffLeft
    /\ opportunities \in CrdsaTxOpportunities(IF CrdsaIsAllocationChannelFree(c) THEN drawn ELSE 0)

CrdsaAborts(opportunities) ==
  /\ opportunities = <<>>
  /\ CrdsaReduceIdleBlocks
  /\ UNCHANGED <<backoffLeft, m_crdsaNewData>>

CrdsaTransmits(c, opportunities) ==
  /\ m_crdsaNewData' = FALSE
  /\ \/ CrdsaPrepareToTransmit(c, opportunities)
     \/ /\ m_crdsaNewData  \* the backoff of new data
        /\ backoffLeft' = [backoffLeft EXCEPT ![c] = BackoffTime[m_backoff[c]]]
        /\ opportunities = <<>>
  /\ IF opportunities # <<>> THEN CrdsaIncreaseConsecutiveBlocksUsed ELSE CrdsaReduceIdleBlocks

\* DoCrdsa, with the test of the backoff that precedes it.  The buffers are
\* looked at again for every packet drawn, but nothing has left them by then:
\* there is new data only once.
DoCrdsa(c, isDamaAvailable, areBuffersEmpty, opportunities) ==
  /\ UNCHANGED <<m_randomAccessModel, m_raChannel, m_backoff>>
  /\ IF CrdsaHasBackoffTimePassed(c) /\ ~isDamaAvailable /\ ~areBuffersEmpty
     THEN CrdsaTransmits(c, opportunities)
     ELSE CrdsaAborts(opportunities)

BackoffTimePasses ==
  /\ backoffLeft' = [c \in Channel |-> IF backoffLeft[c] > 0 THEN backoffLeft[c] - 1 ELSE 0]
  /\ UNCHANGED <<m_randomAccessModel, m_raChannel, m_crdsaIdleBlocksLeft,
                 m_crdsaNumOfConsecutiveBlocksUsed, m_crdsaNewData, m_backoff>>
=============================================================================
