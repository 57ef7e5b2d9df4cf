---------------------------- MODULE SerialGateMC ----------------------------
(* SerialGate over small sets of threads and gates.                        *)
EXTENDS SerialGate
=============================================================================
