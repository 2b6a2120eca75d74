------------------------- MODULE SatDeliveryService -------------------------
(***************************************************************************)
(* What a connection promises to the layer above: PDUs come out in         *)
(* the order they went in, each at most once and as itself; some may be    *)
(* passed over.                                                            *)
(***************************************************************************)
EXTENDS Integers

CONSTANTS FirstSn, NoPdu

VARIABLES
  sent,    \* number of the last PDU that went in
  next,    \* first number whose fate is open
  stream   \* for every number before next: the PDU that came out, or NoPdu

serviceVars == <<sent, next, stream>>

ServiceInit ==
  /\ sent = FirstSn - 1
  /\ next = FirstSn
  /\ stream = [n \in {} |-> n]

Accept ==
  /\ sent' = sent + 1
  /\ UNCHANGED <<next, stream>>

\* The fate of the next few numbers is decided, for good.
Decide(last) ==
  /\ next' = last + 1
  /\ stream' \in [FirstSn .. last -> Nat \cup {NoPdu}]
  /\ \A n \in FirstSn .. next - 1 : stream'[n] = stream[n]
  /\ \A n \in next .. last : stream'[n] \in {n, NoPdu}
  /\ UNCHANGED sent

ServiceNext == Accept \/ \E last \in next .. sent : Decide(last)

ServiceSpec == ServiceInit /\ [][ServiceNext]_serviceVars
=============================================================================
