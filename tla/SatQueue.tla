------------------------------ MODULE SatQueue ------------------------------
(***************************************************************************)
(* SatQueue: the transmission queue of one encapsulator.  What waits in it *)
(* is a segment, a packet or what is left of one, with its size.           *)
(***************************************************************************)
EXTENDS Integers, Sequences, Functions

CONSTANTS MaxPackets  \* m_maxPackets

VARIABLES
  m_packets,                \* the segments, front first
  m_nBytes,
  m_nEnqueBytesSinceReset,
  m_nDequeBytesSinceReset,
  nBytesAtReset             \* history: m_nBytes when the statistics were reset

queueVars == <<m_packets, m_nBytes, m_nEnqueBytesSinceReset, m_nDequeBytesSinceReset,
               nBytesAtReset>>

QueueInit ==
  /\ m_packets = <<>>
  /\ m_nBytes = 0
  /\ m_nEnqueBytesSinceReset = 0
  /\ m_nDequeBytesSinceReset = 0
  /\ nBytesAtReset = 0

\* A full queue drops the packet, which changes only counters of the traces.
Enqueue(segment) ==
  /\ Len(m_packets) < MaxPackets
  /\ m_packets' = Append(m_packets, segment)
  /\ m_nBytes' = m_nBytes + segment.size
  /\ m_nEnqueBytesSinceReset' = m_nEnqueBytesSinceReset + segment.size
  /\ UNCHANGED <<m_nDequeBytesSinceReset, nBytesAtReset>>

Dequeue ==
  /\ m_packets # <<>>
  /\ m_packets' = Tail(m_packets)
  /\ m_nBytes' = m_nBytes - Head(m_packets).size
  /\ m_nDequeBytesSinceReset' = m_nDequeBytesSinceReset + Head(m_packets).size
  /\ UNCHANGED <<m_nEnqueBytesSinceReset, nBytesAtReset>>

\* Mutants: PushFront forgets the size of the queue; it forgets the statistics.
DequeueAndForgetRest(rest) ==
  /\ m_packets # <<>>
  /\ m_packets' = <<rest>> \o Tail(m_packets)
  /\ m_nBytes' = m_nBytes - Head(m_packets).size
  /\ m_nDequeBytesSinceReset' = m_nDequeBytesSinceReset + Head(m_packets).size - rest.size
  /\ UNCHANGED <<m_nEnqueBytesSinceReset, nBytesAtReset>>

DequeueAndCountAll(rest) ==
  /\ m_packets # <<>>
  /\ m_packets' = <<rest>> \o Tail(m_packets)
  /\ m_nBytes' = m_nBytes - Head(m_packets).size + rest.size
  /\ m_nDequeBytesSinceReset' = m_nDequeBytesSinceReset + Head(m_packets).size
  /\ UNCHANGED <<m_nEnqueBytesSinceReset, nBytesAtReset>>

\* Dequeue, and PushFront of what is left of the segment.
DequeueAndPushFront(rest) ==
  /\ m_packets # <<>>
  /\ m_packets' = <<rest>> \o Tail(m_packets)
  /\ m_nBytes' = m_nBytes - Head(m_packets).size + rest.size
  /\ m_nDequeBytesSinceReset' = m_nDequeBytesSinceReset + Head(m_packets).size - rest.size
  /\ UNCHANGED <<m_nEnqueBytesSinceReset, nBytesAtReset>>

\* The request manager reads the statistics and resets them.
GetQueueStatistics ==
  /\ m_nEnqueBytesSinceReset' = 0
  /\ m_nDequeBytesSinceReset' = 0
  /\ nBytesAtReset' = m_nBytes
  /\ UNCHANGED <<m_packets, m_nBytes>>
-----------------------------------------------------------------------------
\* GetNBytes, from which the request manager computes what the UT asks for
\* and the scheduler what it grants, is what the queue really holds, however
\* often segments are cut and their rests pushed back.
QueueBytesExact ==
  m_nBytes = SumFunction([i \in DOMAIN m_packets |-> m_packets[i].size])

\* The volumes the request manager reads account for all of the queue's growth
\* since it last reset them: a rest that is pushed back counts neither as
\* come in nor as gone out.
StatisticsBalance ==
  m_nBytes = nBytesAtReset + m_nEnqueBytesSinceReset - m_nDequeBytesSinceReset
=============================================================================
