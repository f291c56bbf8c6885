---------------------------- MODULE MCFlowEngine ----------------------------
(* FlowEngine on small instances: which conversations there are, between   *)
(* which addresses, and which segments a capture sees.                     *)
EXTENDS FlowEngine

LoOf == [k \in Keys |-> "other"]
HiOf == [k \in Keys |-> IF k = "dns" THEN "other" ELSE "site"]

Flags(s, a, f, r) == [syn |-> s, ack |-> a, fin |-> f, rst |-> r]
SYN    == Flags(TRUE, FALSE, FALSE, FALSE)
SYNACK == Flags(TRUE, TRUE, FALSE, FALSE)
ACK    == Flags(FALSE, TRUE, FALSE, FALSE)
FIN    == Flags(FALSE, TRUE, TRUE, FALSE)
RST    == Flags(FALSE, FALSE, FALSE, TRUE)

AllSegments == {SYN, SYNACK, ACK, FIN, RST}
OnlyData    == {ACK}
=============================================================================
