--------------------------- MODULE ContextGatesMC ---------------------------
(* ContextGates over small sets.                                           *)
EXTENDS ContextGates, TLC

(* A provider that claims either flag at each discovery: every consistent  *)
(* provider behaves like one of these.                                     *)
AnyByTurns == {{TRUE, FALSE}}

Symmetric == Permutations(Threads) \cup Permutations(Gates) \cup Permutations(Contexts)
=============================================================================
