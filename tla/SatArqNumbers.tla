---------------------------- MODULE SatArqNumbers ----------------------------
(***************************************************************************)
(* What both ends of an ARQ connection know about sequence numbers: PDUs   *)
(* are numbered 0, 1, 2, ... and the header carries the number modulo the  *)
(* largest uint8_t.                                                        *)
(***************************************************************************)
EXTENDS Integers, FiniteSets, StdMap

CONSTANTS
  WindowSize,  \* the attribute WindowSize, 10 by default
  MaxSn,       \* numeric_limits<uint8_t>::max(), 255 in the code
  U32,         \* number of values of a uint32_t, 2^32 in the code
  FirstSn      \* number of the first PDU of a behaviour, 0 in the code

\* The transmitter keeps its window in a uint8_t, so it cannot exceed MaxSn.
ASSUME NumbersAssumption ==
  /\ MaxSn \in Nat \ {0}
  /\ WindowSize \in 0 .. MaxSn
  /\ U32 \in Nat \ {0}
  /\ FirstSn \in 0 .. U32 - 1

\* The numbers that travel in the one-byte ARQ header.
SeqNo == 0 .. MaxSn - 1
=============================================================================
