--------------------------- MODULE SatArqReceiver ---------------------------
(***************************************************************************)
(* The receiving half of the ARQ encapsulators of both links: one-byte     *)
(* sequence numbers are extended to a continuous stream, PDUs ahead of the *)
(* expected one wait in a reordering buffer, and a PDU that stays missing  *)
(* for the waiting time is skipped.                                        *)
(***************************************************************************)
EXTENDS SatArqNumbers

CONSTANTS
  Pdu,   \* what the receiver may be sent
  NoPdu  \* the NULL packet pointer

ASSUME ReceiverAssumption == NoPdu \notin Pdu

VARIABLES
  m_nextExpectedSeqNo,
  m_reorderingBuffer,  \* continuous number -> context
  rxWaitingTimers,     \* numbers whose waiting timer is running
  stream               \* what was handed to ProcessPdu for each number, or
                       \* NoPdu where a number was passed over (history)

receiverVars == <<m_nextExpectedSeqNo, m_reorderingBuffer, rxWaitingTimers, stream>>

RxContext == [m_pdu : Pdu \cup {NoPdu}, m_rxStatus : BOOLEAN]
Received(pdu) == [m_pdu |-> pdu, m_rxStatus |-> TRUE]
Missing == [m_pdu |-> NoPdu, m_rxStatus |-> FALSE]
MarkedReceived(context) == [m_pdu |-> context.m_pdu, m_rxStatus |-> TRUE]

ReceiverInit ==
  /\ m_nextExpectedSeqNo = FirstSn
  /\ m_reorderingBuffer = EmptyMap
  /\ rxWaitingTimers = {}
  /\ stream = EmptyMap

\* Mutant: one window instead of two.
ConvertSeqNoOneWindow(seqNo) ==
  LET rounds == m_nextExpectedSeqNo \div MaxSn
      rawSeqNo == m_nextExpectedSeqNo % MaxSn
      adjusted == CASE seqNo - rawSeqNo > WindowSize -> rounds - 1
                    [] rawSeqNo - seqNo > WindowSize -> rounds + 1
                    [] OTHER -> rounds
  IN  (adjusted * MaxSn + seqNo) % U32

\* The continuous number that a one-byte number is taken to stand for; the
\* round may be counted down below zero, in uint32_t arithmetic.
ConvertSeqNo(seqNo) ==
  LET rounds == m_nextExpectedSeqNo \div MaxSn
      rawSeqNo == m_nextExpectedSeqNo % MaxSn
      adjusted == CASE seqNo - rawSeqNo > 2 * WindowSize -> rounds - 1
                    [] rawSeqNo - seqNo > 2 * WindowSize -> rounds + 1
                    [] OTHER -> rounds
  IN  (adjusted * MaxSn + seqNo) % U32

\* Mutant: everything received is popped.
PoppableOutOfOrder(buf) == {n \in DOMAIN buf : buf[n].m_rxStatus}

\* The contexts that the loop of ReassembleAndReceive pops from buf: it looks
\* at the first one only, and goes on while that is the expected one.
Poppable(buf) ==
  {n \in DOMAIN buf : /\ \A j \in DOMAIN buf : j >= m_nextExpectedSeqNo
                      /\ \A i \in m_nextExpectedSeqNo .. n :
                           i \in DOMAIN buf /\ buf[i].m_rxStatus}

\* The number expected after the popped ones.
After(popped) == m_nextExpectedSeqNo + Cardinality(popped)

\* ReassembleAndReceive on the reordering buffer buf: the run of received
\* contexts that starts at the expected number is processed and erased, and
\* the timers stored in those contexts are cancelled.
ReassembleAndReceive(buf, timers) ==
  LET popped == Poppable(buf)
  IN  /\ m_nextExpectedSeqNo' = After(popped)
      /\ m_reorderingBuffer' = [n \in DOMAIN buf \ popped |-> buf[n]]
      /\ rxWaitingTimers' = timers \ popped
      /\ stream' = [n \in DOMAIN stream \cup popped |->
                      IF n \in popped THEN buf[n].m_pdu ELSE stream[n]]

\* A number behind the expected one: the PDU is dropped.
ReceiveOld(sn) ==
  /\ sn < m_nextExpectedSeqNo
  /\ UNCHANGED receiverVars

\* The expected number.
ReceiveExpected(sn, pdu) ==
  /\ sn = m_nextExpectedSeqNo
  /\ ReassembleAndReceive(MapAssign(m_reorderingBuffer, sn, Received(pdu)),
                          rxWaitingTimers \ {sn})

\* The numbers up to sn that have no context yet.
MissingBefore(sn, buf) == (m_nextExpectedSeqNo .. sn - 1) \ DOMAIN buf

\* Mutants: the timer of a late PDU is not cancelled; no timer is started.
TimersWithoutCancel(sn, missing) == rxWaitingTimers \cup missing
TimersWithoutStart(sn, missing) == rxWaitingTimers \ {sn}

\* The timer of the number that arrived is cancelled, those of the missing
\* numbers are started.
TimersWith(sn, missing) == (rxWaitingTimers \ {sn}) \cup missing

\* A number ahead of the expected one: the PDU is stored, and a context with
\* a running timer is made for every number in between that has none.
ReceiveAhead(sn, pdu) ==
  /\ sn > m_nextExpectedSeqNo
  /\ LET buf == MapAssign(m_reorderingBuffer, sn, Received(pdu))
         missing == MissingBefore(sn, buf)
     IN  /\ m_reorderingBuffer' =
              [n \in DOMAIN buf \cup missing |-> IF n \in missing THEN Missing ELSE buf[n]]
         /\ rxWaitingTimers' = TimersWith(sn, missing)
  /\ UNCHANGED <<m_nextExpectedSeqNo, stream>>

\* ReceivePdu after the tags are removed; the ACK is the composition's.
ReceivePdu(seqNo, pdu) ==
  LET sn == ConvertSeqNo(seqNo)
  IN  ReceiveOld(sn) \/ ReceiveExpected(sn, pdu) \/ ReceiveAhead(sn, pdu)

\* All waiting timers run for the same time, so the one that was started
\* first expires first; they are started in increasing order of number.  The
\* handler's fatal error, for a timer without a context, is excluded by
\* BufferIsGapFree.
RxWaitingTimerExpired(sn) ==
  /\ sn \in rxWaitingTimers
  /\ \A other \in rxWaitingTimers : sn <= other
  /\ sn \in DOMAIN m_reorderingBuffer
  /\ ReassembleAndReceive(
       MapAssign(m_reorderingBuffer, sn, MarkedReceived(m_reorderingBuffer[sn])),
       rxWaitingTimers \ {sn})

(***************************************************************************)
(* The receiver on its own: any one-byte number may arrive with any PDU.   *)
(***************************************************************************)
ReceiverNext ==
  \/ \E seqNo \in SeqNo, pdu \in Pdu : ReceivePdu(seqNo, pdu)
  \/ \E sn \in rxWaitingTimers : RxWaitingTimerExpired(sn)

ReceiverSpec == ReceiverInit /\ [][ReceiverNext]_receiverVars
-----------------------------------------------------------------------------
ReceiverTypeOK ==
  /\ m_nextExpectedSeqNo \in Nat
  /\ IsMap(m_reorderingBuffer, Nat, RxContext)
  /\ rxWaitingTimers \subseteq Nat
  /\ IsMap(stream, Nat, Pdu \cup {NoPdu})

\* The reordering buffer covers, without gaps, the numbers from the expected
\* one to the highest one received, and the expected one is missing.  So the
\* loops over the buffer always start at the expected number, and nothing
\* that could be processed is left waiting.
BufferIsGapFree ==
  m_reorderingBuffer # EmptyMap =>
    /\ \E last \in DOMAIN m_reorderingBuffer :
         DOMAIN m_reorderingBuffer = m_nextExpectedSeqNo .. last
    /\ m_reorderingBuffer[m_nextExpectedSeqNo] = Missing

\* A waiting timer runs for exactly the missing PDUs, so the handler's fatal
\* error, a timer without a context, is never reached, and no gap is left
\* without a timer that ends it.
TimersMatchGaps ==
  rxWaitingTimers =
    {n \in DOMAIN m_reorderingBuffer : m_reorderingBuffer[n] = Missing}

\* A context is missing, or holds the PDU received.
ContextsAreWhole ==
  \A n \in DOMAIN m_reorderingBuffer :
    m_reorderingBuffer[n] = Missing \/ \E pdu \in Pdu : m_reorderingBuffer[n] = Received(pdu)

\* Every number from the first to the expected one has been decided, once:
\* the PDU processed, or the number passed over.
StreamIsPrefix == DOMAIN stream = FirstSn .. m_nextExpectedSeqNo - 1

\* The reordering buffer, the waiting timers and what was processed agree,
\* whatever one-byte numbers arrive and in whatever order.
ReceiverConsistent ==
  /\ ReceiverTypeOK
  /\ BufferIsGapFree
  /\ TimersMatchGaps
  /\ StreamIsPrefix

\* What was processed stays, and a step processes a PDU that was stored
\* unchanged; it passes over at most one number, the expected one, and only
\* when that number's own waiting timer ran.
StreamStep ==
  /\ \A n \in DOMAIN stream : n \in DOMAIN stream' /\ stream'[n] = stream[n]
  /\ \A n \in DOMAIN stream' \ DOMAIN stream :
       /\ stream'[n] = NoPdu => n = m_nextExpectedSeqNo /\ n \in rxWaitingTimers
       /\ n \in DOMAIN m_reorderingBuffer /\ n \notin rxWaitingTimers =>
            stream'[n] = m_reorderingBuffer[n].m_pdu

StreamOnlyGrows == [][StreamStep]_receiverVars
=============================================================================
