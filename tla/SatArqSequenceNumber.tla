------------------------ MODULE SatArqSequenceNumber ------------------------
(***************************************************************************)
(* The sequence number handler of an ARQ transmitter.  It hands out        *)
(* one-byte numbers, remembers which of the continuous numbers behind them *)
(* are still in use, and refuses new ones once a window of them is.        *)
(***************************************************************************)
EXTENDS SatArqNumbers

VARIABLES
  m_seqNoMap,  \* continuous number -> has it been released?
  m_currSeqNo  \* continuous number handed out last

seqNoVars == <<m_seqNoMap, m_currSeqNo>>

\* The constructor gives FirstSn = 0.  Any other FirstSn is the handler after
\* that many numbers have been handed out and released again.
SeqNoInit ==
  /\ m_seqNoMap = EmptyMap
  /\ m_currSeqNo = FirstSn - 1

\* The window counts map entries: a released number that is not the oldest
\* one still occupies its place.
SeqNoAvailable == Cardinality(DOMAIN m_seqNoMap) < WindowSize

\* The number the next call of NextSequenceNumber returns.
NextSeqNo == (m_currSeqNo + 1) % MaxSn

NextSequenceNumber ==
  /\ m_currSeqNo' = m_currSeqNo + 1
  /\ m_seqNoMap' = MapAssign(m_seqNoMap, m_currSeqNo + 1, FALSE)

\* Mutant: the previous window of numbers is forgotten.
ReleasedSnSameWindow(seqNo) == ((m_currSeqNo \div MaxSn) * MaxSn + seqNo) % U32

\* The continuous number a one-byte number is taken to stand for: the latest
\* one handed out that has this value, in uint32_t arithmetic.
ReleasedSn(seqNo) ==
  LET factor == m_currSeqNo \div MaxSn
  IN  IF seqNo <= m_currSeqNo % MaxSn
      THEN (factor * MaxSn + seqNo) % U32
      ELSE ((factor - 1) * MaxSn + seqNo) % U32

\* Drops the released entries that precede the oldest unreleased one.
SeqNoCleanUp(map) ==
  [k \in {k \in DOMAIN map : \E j \in DOMAIN map : j <= k /\ ~map[j]} |-> map[k]]

Release(seqNo) ==
  /\ m_seqNoMap' = SeqNoCleanUp(MapAssign(m_seqNoMap, ReleasedSn(seqNo), TRUE))
  /\ UNCHANGED m_currSeqNo
=============================================================================
